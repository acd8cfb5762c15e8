------------------------------ MODULE MCKernel ------------------------------
(* Kernel with a letter key and the backspace, and a screen of one row.    *)
(* "nul" and "bs" are the characters of keys that print none.              *)
EXTENDS Kernel, TLC

MCSpurious == {7}
MCNone == {}
MCOneKey == {30}
MCKeys     == {14, 30}
MCOneScancode == 96 :> "nul" @@ 30 :> "a"
MCScancode == 96 :> "nul" @@ 14 :> "bs" @@ 30 :> "a"
MCUpper    == "bs" :> "bs" @@ "a" :> "A" @@ "nul" :> "nul"
MCGlyphs   == {"a", "A", " "}
MCWelcome  == <<"a", "nl">>
MCTimerLine == <<"a">>
MCTimeLine == <<"a", "nl", "a">>
=============================================================================
