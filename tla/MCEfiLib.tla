------------------------------ MODULE MCEfiLib ------------------------------
(* gnu-efi on small instances: two notification functions that take the    *)
(* lock and one above it; two protocols; paths of two instances; data of   *)
(* up to three entries where one was expected; a print buffer of two       *)
(* characters; lines of two; 12-bit numbers; a 3-bit disk.                 *)
EXTENDS EfiLib, Sequences, TLC

MCTplOf == "app" :> 1 @@ "callback" :> 2 @@ "notify" :> 3 @@ "high" :> 4

NodeA == [kind |-> "a", size |-> 5]
NodeB == [kind |-> "b", size |-> 8]
MCNodes == {NodeA, NodeB}
EndAll  == [kind |-> "end", size |-> 4]                  \* End of EfiPaths
EndOne  == [kind |-> "end_instance", size |-> 4]
Instances == {<<>>, <<NodeA>>, <<NodeB>>, <<NodeA, NodeB>>, <<NodeA, NodeA>>}
MCPaths ==
  {i \o <<EndAll>> : i \in Instances} \union
  {i \o <<EndOne>> \o j \o <<EndAll>> : i, j \in Instances}

Char(c)   == [kind |-> "char", c |-> c]
Colour(c) == [kind |-> "attr", c |-> c]
Field(a, z, l, w, f, t) ==
  [kind |-> "item", attr |-> a, zero |-> z, left |-> l, width |-> w, field |-> f, text |-> t]
MCSegments ==
  {Char("x"), Char("nl"), Colour("N"), Colour("H"),
   Field("", FALSE, FALSE, 0, 0, <<>>), Field("", FALSE, FALSE, 0, 0, <<"a", "b">>),
   Field("h", FALSE, FALSE, 3, 0, <<"a", "b">>), Field("n", TRUE, FALSE, 3, 0, <<"a">>),
   Field("", TRUE, FALSE, 2, 4, <<"a">>), Field("", TRUE, TRUE, 2, 4, <<"a">>),
   Field("", FALSE, TRUE, 0, 2, <<"a", "nl", "b">>)}

MCEarlier == {<<>>, <<"x">>}

(* The characters of EfiText.                                              *)
Space == -1
Minus == -2
Star  == -4
AnyOne == -5
Open  == -6
Close == -7
Dash  == -8

UpTo(n, chars) == UNION {[1 .. k -> chars] : k \in 0 .. n}
MCNumerals == UpTo(4, {Space, Minus, 1, 9, 11})
MCLines    == UpTo(5, {Space, 1})
MCSubjects == UpTo(3, {1, 2})
Element(text, star, chars) == [text |-> text, star |-> star, chars |-> chars]
MCElements ==
  {Element(<<1>>, FALSE, {1}), Element(<<AnyOne>>, FALSE, {1, 2}),
   Element(<<Star>>, TRUE, {}), Element(<<Open, 3, Close>>, FALSE, {}),
   Element(<<Open, 1, Close>>, FALSE, {1}),
   Element(<<Open, 1, Dash, 2, Close>>, FALSE, {1, 2}),
   Element(<<Open, 3, Dash, 1, 2, Close>>, FALSE, {1, 2})}

MCPartitions == [start : {0, 1, 2, 4, 7}, size : {0, 1, 2, 4}]
MCMasters ==
  [Signature : {"55 AA"}, Partition : [1 .. 3 -> MCPartitions]]         \* MBR_SIGNATURE
  \union [Signature : {"none"}, Partition : [1 .. 1 -> MCPartitions]]
Record(t, l, s, strings) == [type |-> t, Length |-> l, serial |-> s, strings |-> strings]
Two == <<<<8, 9>>, <<1>>>>
MCRecords ==
  {Record(0, 2, 0, <<>>), Record(0, 3, 0, Two), Record(2, 3, 1, <<<<1>>>>),
   Record(1, 2, 0, <<<<7>>>>), Record(1, 3, 0, <<>>),
   Record(1, 3, 1, Two), Record(1, 3, 2, Two), Record(1, 3, 3, Two)}
=============================================================================
