------------------------------ MODULE EfiPaths ------------------------------
(***************************************************************************)
(* The functions of gnu-efi (dpath.c) that take device paths apart and put *)
(* them together.  Memory that holds a path is a sequence of nodes, each a *)
(* kind and the length its header states; what is in a node does not       *)
(* matter.  A path ends at the first node that ends everything, whatever   *)
(* has been written behind it, and is made of instances, which end with a  *)
(* node of their own.                                                      *)
(***************************************************************************)
EXTENDS Integers, Sequences, SequencesExt

CONSTANTS
  Nodes,               \* the nodes that paths are made of: [kind, size]
  HEADER,              \* sizeof(EFI_DEVICE_PATH), 4 bytes
  ALIGNMENT,           \* MIN_ALIGNMENT_SIZE
  Paths                \* the paths that calls are given

VARIABLES
  op, src1, src2,      \* the call made, and its arguments
  dst,                 \* the memory it wrote, or NULL
  bytes                \* what it asked the pool for

vars == <<op, src1, src2, dst, bytes>>

End         == [kind |-> "end", size |-> HEADER]
EndInstance == [kind |-> "end_instance", size |-> HEADER]
Memory == Seq(Nodes \union {End, EndInstance})
IsDevicePathEndType(n) == n \in {End, EndInstance}

NoPath == <<>>
Given(path) == path # NoPath

Bytes(mem) ==
  LET sum[k \in 0 .. Len(mem)] == IF k = 0 THEN 0 ELSE sum[k - 1] + mem[k].size
  IN  sum[Len(mem)]
IsEnd_any(n) == IsDevicePathEndType(n)                \* mutant of IsEnd
IsEnd(n)     == n = End

(* What DevicePathSize measures: the path with the node that ends it.      *)
Path(mem) == SubSeq(mem, 1, SelectInSeq(mem, IsEnd))
DevicePathSize(mem) == Bytes(Path(mem))

(* DevicePathInstance, called until it returns NULL: the instances, each   *)
(* without its end.                                                        *)
Walked(st, n) ==
  IF IsDevicePathEndType(n) THEN [done |-> Append(st.done, st.inst), inst |-> <<>>]
  ELSE [done |-> st.done, inst |-> Append(st.inst, n)]
Walk(path) ==
  LET st[k \in 0 .. Len(path)] ==
        IF k = 0 THEN [done |-> <<>>, inst |-> <<>>] ELSE Walked(st[k - 1], path[k])
  IN  st[Len(path)]
DevicePathInstances(mem) == Walk(Path(mem)).done

(* Paths end, a node's length fits in its two bytes, also once it is       *)
(* aligned, and no instance is as long as those that DevicePathInstance    *)
(* gives up on, after 01000 nodes, in octal.                               *)
LENGTH_MOD == 65536
LongestInstance == 513
EfiPathsAssumption ==
  /\ HEADER \in Nat \ {0} /\ ALIGNMENT \in Nat \ {0}
  /\ \A n \in Nodes : n = [kind |-> n.kind, size |-> n.size] /\ n.kind \notin {"end", "end_instance"}
  /\ \A n \in Nodes \union {End} :
       n.size \in Nat /\ n.size >= HEADER /\ n.size + ALIGNMENT <= LENGTH_MOD
  /\ \A path \in Paths :
       /\ path \in Memory /\ \E i \in DOMAIN path : path[i] = End
       /\ \A inst \in ToSet(DevicePathInstances(path)) : Len(inst) <= LongestInstance

-----------------------------------------------------------------------------
(* Each function: the memory it writes and the bytes it allocates for it.  *)
Result(mem, n) == [mem |-> mem, bytes |-> n]

DuplicateDevicePath(a) == Result(Path(a), DevicePathSize(a))

EachFollowed(insts, b) ==
  LET all[k \in 0 .. Len(insts)] ==
        IF k = 0 THEN <<>>
        ELSE all[k - 1] \o insts[k] \o Path(b) \o <<IF k = Len(insts) THEN End ELSE EndInstance>>
  IN  all[Len(insts)]
AppendDevicePath(a, b) ==
  IF ~ Given(a) THEN DuplicateDevicePath(b)
  ELSE IF ~ Given(b) THEN DuplicateDevicePath(a)
  ELSE LET inst == DevicePathInstances(a) IN
       Result(EachFollowed(inst, b), DevicePathSize(a) * Len(inst) + DevicePathSize(b))

AppendDevicePathNode(a, node) == AppendDevicePath(a, <<node, End>>)
FileDevicePath(device, file) == AppendDevicePathNode(device, file)

AppendDevicePathInstance(a, b) ==
  IF ~ Given(a) THEN DuplicateDevicePath(b)
  ELSE Result([Path(a) EXCEPT ![Len(Path(a))] = EndInstance] \o Path(b),
              DevicePathSize(a) + DevicePathSize(b))

(* Copies the first instance, and puts the end behind its first node.      *)
LibDuplicateDevicePathInstance(a) ==
  LET inst == DevicePathInstances(a)[1] IN
  IF inst = <<>> THEN Result(NoPath, 0)
  ELSE Result(<<inst[1], End>>, Bytes(inst) + HEADER)

AlignSize(n) == IF n % ALIGNMENT # 0 THEN ALIGNMENT - (n % ALIGNMENT) ELSE 0
Grow(n) == [n EXCEPT !.size = @ + AlignSize(@)]
Total(path) ==
  LET sum[k \in 0 .. Len(path)] ==
        IF k = 0 THEN 0 ELSE sum[k - 1] + path[k].size + AlignSize(sum[k - 1] + path[k].size)
  IN  sum[Len(path)]
UnpackDevicePath(a) == Result([k \in 1 .. Len(Path(a)) |-> Grow(Path(a)[k])], Total(Path(a)))

(* The bytes of Single are compared over the length of each instance.      *)
LibMatchDevicePaths(multi, single) ==
  /\ Given(multi) /\ Given(single)
  /\ \E k \in 1 .. Len(DevicePathInstances(multi)) :
        IsPrefix(DevicePathInstances(multi)[k], single)

-----------------------------------------------------------------------------
Init == op = "none" /\ src1 = NoPath /\ src2 = NoPath /\ dst = NoPath /\ bytes = 0

(* The pool may be empty: then the result is NULL, or an ASSERT stops the  *)
(* function.                                                               *)
Call(name, a, b, result) ==
  /\ op = "none" /\ op' = name /\ src1' = a /\ src2' = b
  /\ \/ dst' = result.mem /\ bytes' = result.bytes
     \/ dst' = NoPath /\ bytes' = 0

Optional == Paths \union {NoPath}
Combine ==
  \/ \E a, b \in Optional : (Given(a) \/ Given(b)) /\ Call("append", a, b, AppendDevicePath(a, b))
  \/ \E a \in Optional, n \in Nodes : Call("append", a, <<n, End>>, AppendDevicePathNode(a, n))
  \/ \E a \in Optional, b \in Paths : Call("append_instance", a, b, AppendDevicePathInstance(a, b))
Copy == \E a \in Paths :
  \/ Call("duplicate", a, NoPath, DuplicateDevicePath(a))
  \/ Call("unpack", a, NoPath, UnpackDevicePath(a))
  \/ Call("first_instance", a, NoPath, LibDuplicateDevicePathInstance(a))
Match == \E a, b \in Optional :
  /\ op = "none" /\ op' = "match" /\ src1' = a /\ src2' = b
  /\ dst' = IF LibMatchDevicePaths(a, b) THEN a ELSE NoPath
  /\ UNCHANGED bytes
Returned == op # "none" /\ UNCHANGED vars

Next == Combine \/ Copy \/ Match \/ Returned
Spec == Init /\ [][Next]_vars

-----------------------------------------------------------------------------
(* What a reader of the result finds, in terms of the instances of the     *)
(* arguments.                                                              *)
In1 == DevicePathInstances(src1)
In2 == DevicePathInstances(src2)
Out == DevicePathInstances(dst)
Done(name) == op = name /\ Given(dst)

(* "Src1 may have multiple instances and each instance is appended" (a     *)
(* comment of AppendDevicePath): the path src2 follows every instance.     *)
Followed(inst) == [In2 EXCEPT ![1] = inst \o @]
AppendsToEach ==
  Done("append") /\ Given(src1) /\ Given(src2) =>
    Out = FlattenSeq([k \in 1 .. Len(In1) |-> Followed(In1[k])])

(* Paths come out as they should, and fit what was allocated for them:     *)
(* appending, exactly when src1 has one instance; the first instance,      *)
(* exactly when it has one node; matching, when no instance is merely the  *)
(* beginning of the path; and unpacking leaves every node aligned.         *)
Fits == Bytes(dst) <= bytes
PathsExact ==
  /\ Done("append") /\ Given(src1) /\ Given(src2) =>
       /\ Out = FlattenSeq([k \in 1 .. Len(In1) |-> Followed(In1[k])]) <=> Len(In1) = 1
       /\ Fits <=> Len(In1) = 1 \/ DevicePathSize(src2) <= DevicePathSize(src1)
  /\ Done("append_instance") => Out = In1 \o In2 /\ Fits
  /\ Done("duplicate") => dst = Path(src1) /\ Fits
  /\ Done("first_instance") => Fits /\ (Out = <<In1[1]>> <=> Len(In1[1]) = 1)
  /\ Done("unpack") =>
       /\ [k \in 1 .. Len(dst) |-> dst[k].kind] = [k \in 1 .. Len(dst) |-> src1[k].kind]
       /\ \A k \in 1 .. Len(dst) : Bytes(SubSeq(dst, 1, k)) % ALIGNMENT = 0
       /\ Bytes(dst) = bytes
  /\ op = "match" /\ Given(src1) /\ Given(src2) /\ Len(In2) = 1
     /\ (\A k \in 1 .. Len(In1) : ~ IsStrictPrefix(In1[k], In2[1]))
       => (Given(dst) <=> \E k \in 1 .. Len(In1) : In1[k] = In2[1])
=============================================================================
