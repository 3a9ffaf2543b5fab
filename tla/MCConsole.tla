------------------------------ MODULE MCConsole ------------------------------
(***************************************************************************)
(* Console for TLC.  Bytes have two bits: a long has sixteen, as many as   *)
(* can be shifted in TLC's integers, and a hexadecimal digit two.          *)
(***************************************************************************)
EXTENDS Console

\* Values at the boundaries of all four types, and a few between.
Values == {0, 1, 2, 3, 7, 8, 10, 127, 128, 255, 256, 32767, 32768, 65413, 65535}

Numbers == {<<Conversion(b, l, t, v, <<>>)>> :
              b \in {2, 10, HEX}, l \in {1, 2, 4, 8}, t \in {"d", "u"}, v \in Values}

\* Two conversions, so that arguments are taken in order; every other type; and
\* the two ways in which printf panics.
Others ==
    {<<Conversion(10, 4, "d", 5, <<>>), Literal("."), Conversion(HEX, 1, "u", 3, <<>>)>>,
     <<Conversion(10, 4, "s", 0, <<"s", ".", NUL>>), Conversion(10, 4, "%", 0, <<>>)>>,
     <<Conversion(10, 4, "s", 0, <<>>)>>,
     <<Conversion(10, 4, "p", 33000, <<>>)>>,
     <<Literal("."), Conversion(2, 4, "s", 0, <<NUL>>), Literal(".")>>,
     <<Literal("."), Conversion(10, 4, "!", 0, <<>>), Conversion(10, 2, "u", 9, <<>>)>>,
     NullFmt}

\* Hart 0 makes any call and one more: every number alone, the longest numbers and
\* all else while hart 1 prints, and all else but the one more while hart 1 panics.
Longest == {<<Conversion(b, 8, "d", 32768, <<>>)>> : b \in {2, 10, HEX}}
MCPrograms ==
    {(0 :> <<call, <<Literal(".")>> >>) @@ (1 :> <<>>) : call \in Numbers}
      \cup {(0 :> <<call, <<Literal(".")>> >>) @@ (1 :> << <<Literal("s"), Literal("-")>> >>) :
              call \in Longest \cup Others}
      \cup {(0 :> <<call>>) @@ (1 :> PanicCalls(1, "!")) : call \in Others}
=============================================================================
