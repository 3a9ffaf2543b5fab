---------------------------- MODULE ConsoleProofs ----------------------------
(***************************************************************************)
(* The text of one call of printf is not torn apart, and no character of   *)
(* it is lost or written twice, whatever the harts print and however many  *)
(* they are.                                                               *)
(***************************************************************************)
EXTENDS Console, TLAPS

Printing == {"print", "poll", "put"}

(***************************************************************************)
(* printf_lk is held by the hart that prints.                              *)
(***************************************************************************)
LockInv ==
    /\ next \in [Harts -> Nat]
    /\ pc \in [Harts -> {"call", "acquire"} \cup Printing]
    /\ \A h \in Harts : pc[h] \in Printing <=> printf_lk = h

\* What the characters are does not matter.
IsText == \E S : wire \in Seq(S) /\ thr \in Seq(S)

(***************************************************************************)
(* Nothing was written for a call that is still to come, and what was      *)
(* written for a call that is not over is the end of all that was written. *)
(***************************************************************************)
WrittenInv ==
    \A i \in DOMAIN Written : \E h \in Harts, n \in Nat :
        /\ Written[i].call = <<h, n>>
        /\ n <= next[h]
        /\ n = next[h] => /\ printf_lk = h
                          /\ \A j \in DOMAIN Written : i <= j => Written[j].call = <<h, n>>

Inv == LockInv /\ IsText /\ WrittenInv /\ CallsContiguous

LEMMA NobodyIsNone == NONE \notin Harts
BY HartsAssumption DEF NONE

LEMMA WrittenOf ==
    ASSUME NEW S, NEW w \in Seq(S), NEW t \in Seq(S)
    PROVE  /\ w \o t \in Seq(S)
           /\ (w \o t) \o <<>> = w \o t
           /\ w \o <<>> = w
OBVIOUS

LEMMA OneMore ==
    ASSUME NEW S, NEW w \in Seq(S), NEW m
    PROVE  /\ DOMAIN (w \o <<m>>) = 1 .. Len(w) + 1 /\ Len(w \o <<m>>) = Len(w) + 1
           /\ DOMAIN w = 1 .. Len(w) /\ Len(w) \in Nat
           /\ \A i \in 1 .. Len(w) : (w \o <<m>>)[i] = w[i]
           /\ (w \o <<m>>)[Len(w) + 1] = m
           /\ \E T : w \in Seq(T) /\ <<m>> \in Seq(T)
<1> DEFINE T == S \cup {m}
<1>1. w \in Seq(T) /\ <<m>> \in Seq(T)
  OBVIOUS
<1>2. w \o <<m>> \in Seq(T) /\ Len(w \o <<m>>) = Len(w) + 1
  BY <1>1
<1> QED
  BY <1>1, <1>2

(***************************************************************************)
(* A step that writes nothing and starts no new call keeps the text.       *)
(***************************************************************************)
LEMMA SameText ==
    ASSUME LockInv, WrittenInv, CallsContiguous, Written' = Written,
           \A h \in Harts : /\ next'[h] \in Nat
                            /\ \/ next'[h] = next[h] /\ (printf_lk = h => printf_lk' = h)
                               \/ next'[h] > next[h]
    PROVE  WrittenInv' /\ CallsContiguous'
<1>1. CallsContiguous'
  BY DEF CallsContiguous
<1>2. WrittenInv'
  BY DEF WrittenInv, LockInv
<1> QED
  BY <1>1, <1>2

LEMMA WriteStep ==
    ASSUME LockInv, IsText, WrittenInv, CallsContiguous, NEW h \in Harts, W_REG(h)
    PROVE  IsText' /\ WrittenInv' /\ CallsContiguous'
<1>1. PICK S : wire \in Seq(S)
  BY DEF IsText
<1> DEFINE m == [call |-> current(h), char |-> Head(out[h])]
           n == Len(wire)
<1>2. thr = <<>> /\ thr' = <<m>> /\ UNCHANGED <<wire, next, printf_lk>> /\ printf_lk = h
  BY DEF W_REG, LockInv, Printing
<1>3. Written = wire /\ Written' = wire \o <<m>>
  BY <1>1, <1>2, WrittenOf DEF Written
<1>4. m.call = <<h, next[h]>> /\ next[h] \in Nat
  BY DEF current, LockInv
<1> HIDE DEF m
<1>5. /\ DOMAIN Written' = 1 .. n + 1
      /\ DOMAIN Written = 1 .. n /\ n \in Nat
      /\ \A i \in 1 .. n : Written'[i] = Written[i]
      /\ Written'[n + 1] = m
      /\ \E T : wire \in Seq(T) /\ <<m>> \in Seq(T)
  <2>1. /\ DOMAIN (wire \o <<m>>) = 1 .. Len(wire) + 1 /\ Len(wire \o <<m>>) = Len(wire) + 1
        /\ DOMAIN wire = 1 .. Len(wire) /\ Len(wire) \in Nat
        /\ \A i \in 1 .. Len(wire) : (wire \o <<m>>)[i] = wire[i]
        /\ (wire \o <<m>>)[Len(wire) + 1] = m
        /\ \E T : wire \in Seq(T) /\ <<m>> \in Seq(T)
    BY <1>1, OneMore, Zenon
  <2> QED
    BY <1>3, <2>1, Zenon
<1>6. IsText'
  BY <1>2, <1>5 DEF IsText
<1> HIDE DEF n
<1>7. ASSUME NEW i \in 1 .. n, Written[i].call = m.call
      PROVE  \A j \in 1 .. n : i <= j => Written[j].call = m.call
  <2>1. PICK g \in Harts, k \in Nat :
           /\ Written[i].call = <<g, k>>
           /\ k = next[g] => \A j \in DOMAIN Written : i <= j => Written[j].call = <<g, k>>
    BY <1>5, ZenonT(60) DEF WrittenInv
  <2>2. g = h /\ k = next[h]
    BY <1>4, <1>7, <2>1
  <2> QED
    BY <1>4, <1>5, <2>1, <2>2
<1>8. WrittenInv'
  <2> SUFFICES ASSUME NEW i \in DOMAIN Written'
               PROVE  \E g \in Harts, k \in Nat :
                        /\ Written'[i].call = <<g, k>>
                        /\ k <= next'[g]
                        /\ k = next'[g] =>
                             /\ printf_lk' = g
                             /\ \A j \in DOMAIN Written' : i <= j => Written'[j].call = <<g, k>>
    BY DEF WrittenInv
  <2>1. CASE i = n + 1
    BY <1>2, <1>4, <1>5, <2>1
  <2>2. CASE i \in 1 .. n
    <3>1. PICK g \in Harts, k \in Nat :
             /\ Written[i].call = <<g, k>> /\ k <= next[g]
             /\ k = next[g] => printf_lk = g
      BY <1>5, <2>2 DEF WrittenInv
    <3>2. k = next[g] => /\ g = h /\ Written[i].call = m.call
                         /\ \A j \in 1 .. n : i <= j => Written[j].call = m.call
      BY <1>2, <1>4, <1>7, <2>2, <3>1
    <3>3. k = next[g] => \A j \in 1 .. n + 1 : i <= j => Written'[j].call = <<g, k>>
      <4> SUFFICES ASSUME k = next[g], NEW j \in 1 .. n + 1, i <= j
                   PROVE  Written'[j].call = <<g, k>>
        OBVIOUS
      <4>1. CASE j = n + 1
        BY <1>4, <1>5, <3>2, <4>1
      <4>2. CASE j \in 1 .. n
        BY <1>4, <1>5, <3>2, <4>2
      <4> QED
        BY <1>5, <4>1, <4>2
    <3> QED
      BY <1>2, <1>5, <2>2, <3>1, <3>3
  <2> QED
    BY <1>5, <2>1, <2>2
<1>9. CallsContiguous'
  <2> SUFFICES ASSUME NEW i \in 1 .. n + 1, NEW j \in 1 .. n + 1, i < j,
                      Written'[i].call = Written'[j].call, NEW k \in i .. j
               PROVE  Written'[k].call = Written'[i].call
    BY <1>5 DEF CallsContiguous
  <2>1. i \in 1 .. n /\ (k = n + 1 => j = n + 1)
    BY <1>5
  <2>2. CASE j \in 1 .. n
    BY <1>5, <2>1, <2>2 DEF CallsContiguous
  <2>3. CASE j = n + 1 /\ k = n + 1
    BY <2>3
  <2>4. CASE j = n + 1 /\ k # n + 1
    <3>1. k \in 1 .. n /\ i <= k /\ Written[i].call = m.call
      BY <1>5, <2>1, <2>4
    <3> QED
      BY <1>5, <1>7, <2>1, <3>1
  <2> QED
    BY <1>5, <2>1, <2>2, <2>3, <2>4
<1> QED
  BY <1>6, <1>8, <1>9

LEMMA InvStep == Inv /\ [Next]_vars => Inv'
<1> SUFFICES ASSUME Inv, [Next]_vars PROVE Inv'
  OBVIOUS
<1> USE NobodyIsNone DEF Inv
<1>1. CASE Transmit
  <2>1. UNCHANGED <<next, pc, printf_lk>>
    BY <1>1 DEF Transmit
  <2>2. PICK S : wire \in Seq(S) /\ thr \in Seq(S)
    BY DEF IsText
  <2>3. wire' = wire \o thr /\ thr' = <<>> /\ Written' = Written /\ wire \o thr \in Seq(S)
    BY <1>1, <2>2, WrittenOf DEF Transmit, Written
  <2>4. IsText'
    BY <2>3 DEF IsText
  <2>5. LockInv'
    BY <2>1 DEF LockInv
  <2>6. WrittenInv' /\ CallsContiguous'
    BY <2>1, <2>3, SameText DEF LockInv
  <2> QED
    BY <2>4, <2>5, <2>6
<1>2. ASSUME NEW h \in Harts, W_REG(h) PROVE Inv'
  <2>1. LockInv'
    BY <1>2 DEF LockInv, W_REG, Printing
  <2> QED
    BY <1>2, <2>1, WriteStep
<1>3. ASSUME NEW h \in Harts,
             printf(h) \/ acquire(h) \/ uartputc(h) \/ uartputc_end(h) \/ printf_end(h)
      PROVE  Inv'
  <2>1. UNCHANGED <<wire, thr>>
    BY <1>3 DEF printf, acquire, uartputc, uartputc_end, printf_end
  <2>2. Written' = Written /\ IsText'
    BY <2>1 DEF Written, IsText
  <2>3. LockInv' /\ \A g \in Harts : \/ next'[g] = next[g] /\ (printf_lk = g => printf_lk' = g)
                                     \/ next'[g] > next[g]
    <3> USE DEF LockInv, Printing
    <3>1. CASE printf(h)
      BY <3>1 DEF printf
    <3>2. CASE acquire(h)
      BY <3>2 DEF acquire
    <3>3. CASE uartputc(h)
      BY <3>3 DEF uartputc
    <3>4. CASE uartputc_end(h)
      BY <3>4 DEF uartputc_end
    <3>5. CASE printf_end(h)
      BY <3>5 DEF printf_end
    <3> QED
      BY <1>3, <3>1, <3>2, <3>3, <3>4, <3>5
  <2>4. WrittenInv' /\ CallsContiguous'
    BY <2>2, <2>3, SameText DEF LockInv
  <2> QED
    BY <2>2, <2>3, <2>4
<1>4. CASE UNCHANGED vars
  <2>1. Written' = Written /\ IsText' /\ LockInv' /\ UNCHANGED <<next, printf_lk>>
    BY <1>4 DEF vars, LockInv, IsText, Written
  <2>2. WrittenInv' /\ CallsContiguous'
    BY <2>1, SameText DEF LockInv
  <2> QED
    BY <2>1, <2>2
<1> QED
  BY <1>1, <1>2, <1>3, <1>4 DEF Next, hart

LEMMA InitInv == Init => Inv
<1> SUFFICES ASSUME Init PROVE Inv
  OBVIOUS
<1>1. Written = <<>> /\ IsText
  BY DEF Init, Written, IsText
<1>2. LockInv
  BY NobodyIsNone DEF Init, LockInv, Printing
<1> QED
  BY <1>1, <1>2 DEF Inv, WrittenInv, CallsContiguous

(***************************************************************************)
(* On any number of harts, whatever they print and whether or not printf   *)
(* panics in between: nothing of another call stands between two           *)
(* characters of a call, although every character takes and releases the   *)
(* lock of the port (printf.c:121-227, uart.c).                            *)
(***************************************************************************)
THEOREM ConsoleContiguous == Spec => []CallsContiguous
<1>1. Inv => CallsContiguous
  BY DEF Inv
<1> QED
  BY <1>1, InitInv, InvStep, PTL DEF Spec
-----------------------------------------------------------------------------
(***************************************************************************)
(* What a call prints: the part of CallsPrinted that is about harts and    *)
(* locks.  That the text computed for one call is what its conversions     *)
(* stand for has nothing to do with them; here it is a hypothesis.         *)
(***************************************************************************)
Text(call) == output(fmt(call), args(call)).text

\* The calls in the programs, and those of a panic of printf.
Calls == ProgramCalls \cup {PanicCalls(h, "!")[i] : h \in Harts, i \in {1, 2}}

\* printf makes characters of every call, and those its conversions stand for.
Printable == \A call \in Calls \ {NullFmt} : Text(call) \in Seq(Char)
Conversions ==
    /\ Printable
    /\ \A call \in Calls \ {NullFmt} :
         (\A i \in DOMAIN call : ~ HasNoNegative(call[i])) =>
            Unsplit(Text(call)) = Unsplit(Meaning(call))

\* Calls, locks and characters.
CallOf(h) ==
    /\ next[h] \in 1 .. Len(calls[h]) + 1
    /\ pc[h] # "call" => next[h] <= Len(calls[h]) /\ calls[h][next[h]] # NullFmt
    /\ pc[h] \in {"poll", "put"} => out[h] # <<>>

CallInv ==
    /\ calls \in [Harts -> Seq(Calls)]
    /\ \A h \in Harts : CallOf(h)
    /\ out \in [Harts -> Seq(Char)]
    /\ printf_lk \in Harts \cup {NONE} /\ uart_lk \in Harts \cup {NONE}
    /\ wire \in Seq(Marked) /\ thr \in Seq(Marked) /\ Len(thr) <= 1

\* What hart h has still to write; a character that is in the transmitter is
\* removed from out when the lock of the port is released.
Left(h) == IF pc[h] = "put" THEN Tail(out[h]) ELSE out[h]

\* All of text but its end, left, is at the end of w.
Begun(w, c, text, left) ==
    /\ Len(left) <= Len(text) /\ Len(text) - Len(left) <= Len(w)
    /\ \A i \in 1 .. Len(left) : left[i] = text[Len(text) - Len(left) + i]
    /\ Stands(w, c, text, Len(text) - Len(left), Len(w) - (Len(text) - Len(left)))

Over(w, c, call) ==
    call # NullFmt => \E k \in 0 .. Len(w) : Stands(w, c, Text(call), Len(Text(call)), k)

PrintedOf(h) ==
    /\ \A n \in 1 .. next[h] - 1 : Over(Written, <<h, n>>, calls[h][n])
    /\ pc[h] \in Printing => Begun(Written, current(h), Text(calls[h][next[h]]), Left(h))

PrintedInv == \A h \in Harts : PrintedOf(h)

TextInv == Printable /\ Inv /\ CallInv /\ PrintedInv

LEMMA WrittenType ==
    ASSUME CallInv
    PROVE  Written \in Seq(Marked) /\ Len(Written) \in Nat /\ DOMAIN Written = 1 .. Len(Written)
BY DEF CallInv, Written

\* A character of another call does not change what stands there.
LEMMA StandsMore ==
    ASSUME NEW S, NEW w \in Seq(S), NEW m, NEW c, m.call # c, NEW text,
           NEW n \in Nat, NEW k \in Nat, Stands(w, c, text, n, k)
    PROVE  Stands(w \o <<m>>, c, text, n, k)
<1>1. /\ Len(w \o <<m>>) = Len(w) + 1 /\ Len(w) \in Nat
      /\ \A i \in 1 .. Len(w) : (w \o <<m>>)[i] = w[i]
      /\ (w \o <<m>>)[Len(w) + 1] = m
  BY OneMore
<1>2. PICK v : v = w \o <<m>>
  OBVIOUS
<1>3. PICK l \in Nat : l = Len(w) /\ Len(v) = l + 1
  BY <1>1, <1>2
<1>4. k + n <= l /\ v[l + 1] = m /\ \A i \in 1 .. l : v[i] = w[i]
  BY <1>1, <1>2, <1>3 DEF Stands
<1>5. ASSUME NEW j \in 1 .. l + 1
      PROVE  /\ v[j].call = c <=> j \in k + 1 .. k + n
             /\ v[j].call = c => v[j].char = text[j - k]
  <2>1. CASE j = l + 1
    BY <1>4, <2>1
  <2>2. CASE j \in 1 .. l
    BY <1>3, <1>4, <2>2 DEF Stands
  <2> QED
    BY <2>1, <2>2
<1> QED
  BY <1>2, <1>3, <1>4, <1>5 DEF Stands

\* The next character of the call that stands at the end.
LEMMA StandsNext ==
    ASSUME NEW S, NEW w \in Seq(S), NEW m, NEW c, m.call = c, NEW text,
           NEW n \in Nat, NEW k \in Nat, k + n = Len(w), m.char = text[n + 1],
           Stands(w, c, text, n, k)
    PROVE  Stands(w \o <<m>>, c, text, n + 1, k)
<1>1. /\ Len(w \o <<m>>) = Len(w) + 1 /\ Len(w) \in Nat
      /\ \A i \in 1 .. Len(w) : (w \o <<m>>)[i] = w[i]
      /\ (w \o <<m>>)[Len(w) + 1] = m
  BY OneMore
<1>2. PICK v : v = w \o <<m>>
  OBVIOUS
<1>3. PICK l \in Nat : l = Len(w) /\ Len(v) = l + 1
  BY <1>1, <1>2
<1>4. k + n = l /\ v[l + 1] = m /\ \A i \in 1 .. l : v[i] = w[i]
  BY <1>1, <1>2, <1>3
<1>5. ASSUME NEW j \in 1 .. l + 1
      PROVE  /\ v[j].call = c <=> j \in k + 1 .. k + (n + 1)
             /\ v[j].call = c => v[j].char = text[j - k]
  <2>1. CASE j = l + 1
    <3>1. j - k = n + 1 /\ j \in k + 1 .. k + (n + 1)
      BY <1>4, <2>1
    <3> QED
      BY <1>4, <2>1, <3>1
  <2>2. CASE j \in 1 .. l
    BY <1>3, <1>4, <2>2 DEF Stands
  <2> QED
    BY <2>1, <2>2
<1> QED
  BY <1>2, <1>3, <1>4, <1>5 DEF Stands

\* A hart that does nothing, while nothing is written.
LEMMA PrintedSame ==
    ASSUME NEW g \in Harts, PrintedOf(g), Written' = Written, next'[g] = next[g],
           calls'[g] = calls[g], pc'[g] = pc[g], out'[g] = out[g]
    PROVE  PrintedOf(g)'
<1>1. ASSUME NEW n \in 1 .. next[g] - 1 PROVE Over(Written', <<g, n>>, calls'[g][n])
  BY <1>1 DEF PrintedOf
<1>2. ASSUME pc[g] \in Printing
      PROVE  Begun(Written', current(g)', Text(calls'[g][next'[g]]), Left(g)')
  <2>1. current(g)' = current(g) /\ Left(g)' = Left(g)
    BY DEF current, Left
  <2> QED
    BY <1>2, <2>1 DEF PrintedOf
<1> QED
  BY <1>1, <1>2 DEF PrintedOf

LEMMA OverMore ==
    ASSUME NEW S, NEW w \in Seq(S), NEW m, NEW c, m.call # c,
           NEW call, call # NullFmt => Text(call) \in Seq(Char), Over(w, c, call)
    PROVE  Over(w \o <<m>>, c, call)
<1> SUFFICES ASSUME call # NullFmt
             PROVE  \E k \in 0 .. Len(w \o <<m>>) :
                       Stands(w \o <<m>>, c, Text(call), Len(Text(call)), k)
  BY DEF Over
<1>1. PICK k \in 0 .. Len(w) : Stands(w, c, Text(call), Len(Text(call)), k)
  BY DEF Over
<1>2. Len(Text(call)) \in Nat /\ k \in Nat /\ k \in 0 .. Len(w \o <<m>>)
  BY OneMore
<1>3. Stands(w \o <<m>>, c, Text(call), Len(Text(call)), k)
  BY <1>1, <1>2, StandsMore
<1> QED
  BY <1>2, <1>3

\* The end of a call.
LEMMA BegunOver ==
    ASSUME NEW S, NEW w \in Seq(S), NEW c, NEW call, Text(call) \in Seq(Char),
           Begun(w, c, Text(call), <<>>)
    PROVE  Over(w, c, call)
<1>1. PICK l \in Nat : l = Len(Text(call))
  OBVIOUS
<1>2. PICK k \in Nat : k = Len(w) - l /\ k <= Len(w) /\ l - 0 = l
  BY <1>1 DEF Begun
<1>3. Stands(w, c, Text(call), l - Len(<<>>), Len(w) - (l - Len(<<>>)))
  BY <1>1 DEF Begun
<1>4. Len(<<>>) = 0 /\ l - Len(<<>>) = l /\ Len(w) - (l - Len(<<>>)) = k
  BY <1>2
<1>5. Stands(w, c, Text(call), l, k) /\ k \in 0 .. Len(w)
  BY <1>2, <1>3, <1>4
<1> QED
  BY <1>1, <1>5 DEF Over

\* One more character of a call.
LEMMA BegunNext ==
    ASSUME NEW S, NEW w \in Seq(S), NEW m, NEW c, m.call = c, NEW text \in Seq(Char),
           NEW left \in Seq(Char), left # <<>>, m.char = Head(left), Begun(w, c, text, left)
    PROVE  Begun(w \o <<m>>, c, text, Tail(left))
<1>1. PICK t, f, l \in Nat : t = Len(text) /\ f = Len(left) /\ l = Len(w)
  OBVIOUS
<1>2. f >= 1 /\ Head(left) = left[1] /\ Len(Tail(left)) = f - 1
      /\ \A i \in 1 .. f - 1 : Tail(left)[i] = left[i + 1]
  BY <1>1
<1>3. f <= t /\ t - f <= l /\ (\A i \in 1 .. f : left[i] = text[t - f + i])
      /\ Stands(w, c, text, t - f, l - (t - f))
  BY <1>1 DEF Begun
<1>4. PICK n, k \in Nat : n = t - f /\ k = l - n
  <2>1. t - f \in Nat /\ l - (t - f) \in Nat
    BY <1>3
  <2> QED
    BY <2>1
<1>5. m.char = text[n + 1]
  BY <1>2, <1>3, <1>4
<1>6. Stands(w \o <<m>>, c, text, n + 1, k)
  <2>1. k + n = Len(w) /\ Stands(w, c, text, n, k)
    BY <1>1, <1>3, <1>4
  <2> QED
    BY <1>5, <2>1, StandsNext
<1>7. Len(w \o <<m>>) = l + 1
  BY <1>1, OneMore
<1>8. t - (f - 1) = n + 1 /\ (l + 1) - (n + 1) = k /\ f - 1 <= t /\ n + 1 <= l + 1
  BY <1>1, <1>2, <1>3, <1>4
<1>9. ASSUME NEW i \in 1 .. f - 1 PROVE Tail(left)[i] = text[n + 1 + i]
  <2>1. i + 1 \in 1 .. f /\ n + (i + 1) = n + 1 + i
    BY <1>2, <1>4
  <2> QED
    BY <1>2, <1>3, <1>4, <2>1
<1> QED
  BY <1>1, <1>2, <1>6, <1>7, <1>8, <1>9 DEF Begun
-----------------------------------------------------------------------------
\* What hart h does about its calls; the others are where they were.
OthersStay(h) ==
    \A g \in Harts \ {h} : /\ next'[g] = next[g] /\ calls'[g] = calls[g]
                           /\ pc'[g] = pc[g] /\ out'[g] = out[g]

LEMMA PanicType ==
    ASSUME NEW h \in Harts
    PROVE  PanicCalls(h, "!") \in Seq(Calls) /\ Len(PanicCalls(h, "!")) = 2
<1>1. PICK a, b : PanicCalls(h, "!") = <<a, b>>
  BY DEF PanicCalls
<1>2. a \in Calls /\ b \in Calls
  BY <1>1 DEF Calls
<1>3. \A x, y \in Calls : <<x, y>> \in Seq(Calls) /\ Len(<<x, y>>) = 2
  OBVIOUS
<1> QED
  BY <1>1, <1>2, <1>3, Zenon

LEMMA Concatenated ==
    ASSUME NEW S, NEW s \in Seq(S), NEW t \in Seq(S)
    PROVE  /\ s \o t \in Seq(S) /\ Len(s \o t) = Len(s) + Len(t)
           /\ \A i \in 1 .. Len(s) : (s \o t)[i] = s[i]
OBVIOUS

\* A panic makes calls of its own after the current one.
LEMMA PanicStep ==
    ASSUME CallInv, NEW h \in Harts, panic(h, "!"), next[h] <= Len(calls[h])
    PROVE  /\ calls' \in [Harts -> Seq(Calls)]
           /\ Len(calls'[h]) = next[h] + 2
           /\ \A n \in 1 .. next[h] : calls'[h][n] = calls[h][n]
           /\ \A g \in Harts \ {h} : calls'[g] = calls[g]
<1>1. PICK n \in Nat : n = next[h] /\ n >= 1 /\ n <= Len(calls[h])
  BY DEF CallInv, CallOf
<1>2. PICK s \in Seq(Calls) : s = calls[h]
  BY DEF CallInv, CallOf
<1>3. PICK q \in Seq(Calls) : q = PanicCalls(h, "!") /\ Len(q) = 2
  BY PanicType
<1>4. PICK t : t = SubSeq(s, 1, n)
  OBVIOUS
<1>5. t \in Seq(Calls) /\ Len(t) = n /\ \A i \in 1 .. n : t[i] = s[i]
  BY <1>1, <1>2, <1>4
<1>6. t \o q \in Seq(Calls) /\ Len(t \o q) = n + 2 /\ \A i \in 1 .. n : (t \o q)[i] = t[i]
  <2>1. /\ t \o q \in Seq(Calls) /\ Len(t \o q) = Len(t) + Len(q)
        /\ \A i \in 1 .. Len(t) : (t \o q)[i] = t[i]
    BY <1>5, Concatenated
  <2> QED
    BY <1>3, <1>5, <2>1
<1>7. calls' = [calls EXCEPT ![h] = t \o q]
  BY <1>1, <1>2, <1>3, <1>4 DEF panic
<1>8. calls'[h] = t \o q
  BY <1>7 DEF CallInv, CallOf
<1> QED
  BY <1>1, <1>2, <1>5, <1>6, <1>7, <1>8 DEF CallInv, CallOf

\* printf is called, or refuses a null format.
LEMMA PrintfText ==
    ASSUME TextInv, NEW h \in Harts, printf(h)
    PROVE  CallInv' /\ OthersStay(h) /\ PrintedOf(h)'
<1>1. /\ pc[h] = "call" /\ next[h] <= Len(calls[h])
      /\ UNCHANGED <<out, printf_lk, uart_lk, thr, wire>> /\ Written' = Written
  BY DEF printf, Written
<1>2. CallInv /\ PrintedOf(h) /\ LockInv /\ next[h] \in Nat /\ next[h] >= 1
  BY SMTT(40) DEF TextInv, Inv, PrintedInv, LockInv, CallInv, CallOf
<1>3. CASE calls[h][next[h]] = NullFmt
  <2>1. panic(h, "!") /\ next' = [next EXCEPT ![h] = next[h] + 1] /\ UNCHANGED pc
    BY <1>3 DEF printf
  <2>2. /\ calls' \in [Harts -> Seq(Calls)]
        /\ Len(calls'[h]) = next[h] + 2
        /\ \A n \in 1 .. next[h] : calls'[h][n] = calls[h][n]
        /\ \A g \in Harts \ {h} : calls'[g] = calls[g]
    BY <1>1, <1>2, <2>1, PanicStep
  <2>3. next'[h] = next[h] + 1 /\ \A g \in Harts \ {h} : next'[g] = next[g]
    BY <1>2, <2>1 DEF LockInv
  <2>4. CallInv'
    <3>1. ASSUME NEW g \in Harts PROVE CallOf(g)'
      <4>1. CASE g = h
        <5>1. next'[h] \in 1 .. Len(calls'[h]) + 1
          BY <1>2, <2>2, <2>3
        <5>2. pc'[h] = "call"
          BY <1>1, <2>1
        <5> QED
          BY <4>1, <5>1, <5>2 DEF CallOf
      <4>2. CASE g # h
        BY <1>1, <1>2, <2>1, <2>2, <2>3, <4>2 DEF CallInv, CallOf
      <4> QED
        BY <4>1, <4>2
    <3> QED
      BY <1>1, <1>2, <2>2, <3>1 DEF CallInv, CallOf
  <2>5. ASSUME NEW n \in 1 .. next'[h] - 1 PROVE Over(Written', <<h, n>>, calls'[h][n])
    <3>1. n \in 1 .. next[h] /\ calls'[h][n] = calls[h][n]
      BY <1>2, <2>2, <2>3
    <3>2. CASE n = next[h]
      BY <1>3, <3>1, <3>2 DEF Over
    <3>3. CASE n \in 1 .. next[h] - 1
      BY <1>1, <1>2, <3>1, <3>3 DEF PrintedOf
    <3> QED
      BY <1>2, <3>1, <3>2, <3>3
  <2>6. PrintedOf(h)'
    BY <1>1, <2>1, <2>5 DEF PrintedOf, Printing
  <2> QED
    BY <1>1, <2>1, <2>2, <2>3, <2>4, <2>6 DEF OthersStay
<1>4. CASE calls[h][next[h]] # NullFmt
  <2>1. pc' = [pc EXCEPT ![h] = "acquire"] /\ UNCHANGED <<calls, next>>
    BY <1>4 DEF printf
  <2>2. pc'[h] = "acquire" /\ \A g \in Harts \ {h} : pc'[g] = pc[g]
    BY <1>2, <2>1 DEF LockInv
  <2>3. CallInv'
    BY <1>1, <1>2, <1>4, <2>1, <2>2 DEF CallInv, CallOf
  <2>4. ASSUME NEW n \in 1 .. next'[h] - 1 PROVE Over(Written', <<h, n>>, calls'[h][n])
    BY <1>1, <1>2, <2>1, <2>4 DEF PrintedOf
  <2>5. PrintedOf(h)'
    BY <2>2, <2>4 DEF PrintedOf, Printing
  <2> QED
    BY <1>1, <2>1, <2>2, <2>3, <2>5 DEF OthersStay
<1> QED
  BY <1>3, <1>4

\* The text of the call, of which nothing is written.
LEMMA AcquireText ==
    ASSUME TextInv, NEW h \in Harts, acquire(h)
    PROVE  CallInv' /\ OthersStay(h) /\ PrintedOf(h)'
<1>1. PICK call : call = calls[h][next[h]]
  OBVIOUS
<1>2. /\ pc[h] = "acquire" /\ printf_lk = NONE /\ printf_lk' = h
      /\ pc' = [pc EXCEPT ![h] = "print"] /\ out' = [out EXCEPT ![h] = Text(call)]
      /\ UNCHANGED <<calls, next, uart_lk, thr, wire>> /\ Written' = Written
  BY <1>1 DEF acquire, Text, Written
<1>3. CallInv /\ PrintedOf(h) /\ LockInv /\ Inv /\ next[h] \in Nat /\ next[h] >= 1
  BY SMTT(40) DEF TextInv, Inv, PrintedInv, LockInv, CallInv, CallOf
<1>4. call \in Calls /\ call # NullFmt
  BY <1>1, <1>2, <1>3 DEF CallInv, CallOf
<1>5. PICK text \in Seq(Char) : text = Text(call)
  BY <1>4 DEF TextInv, Printable
<1>6. /\ pc'[h] = "print" /\ out'[h] = text
      /\ \A g \in Harts \ {h} : pc'[g] = pc[g] /\ out'[g] = out[g]
  BY <1>2, <1>3, <1>5 DEF LockInv, CallInv, CallOf
<1>7. CallInv'
  BY <1>2, <1>3, <1>4, <1>5, <1>6 DEF CallInv, CallOf
<1>8. Begun(Written, <<h, next[h]>>, text, text)
  <2>1. PICK l \in Nat, w \in Seq(Marked) : l = Len(text) /\ w = Written
    BY <1>3, WrittenType
  <2>2. Len(w) \in Nat /\ l - l = 0 /\ l <= l /\ Len(w) - 0 = Len(w) /\ 0 <= Len(w)
    BY <2>1
  <2>3. \A i \in 1 .. l : text[i] = text[0 + i]
    OBVIOUS
  <2>4. \A j \in 1 .. Len(w) : w[j].call # <<h, next[h]>>
    <3> SUFFICES ASSUME NEW j \in 1 .. Len(w), w[j].call = <<h, next[h]>> PROVE FALSE
      OBVIOUS
    <3>1. j \in DOMAIN Written
      BY <2>1
    <3>2. PICK g \in Harts, n \in Nat : w[j].call = <<g, n>> /\ (n = next[g] => printf_lk = g)
      BY <1>3, <2>1, <3>1 DEF Inv, WrittenInv
    <3>3. g = h /\ n = next[h]
      BY <3>2
    <3> QED
      BY <1>2, <3>2, <3>3, NobodyIsNone
  <2>5. Stands(w, <<h, next[h]>>, text, 0, Len(w))
    BY <2>2, <2>4 DEF Stands
  <2> QED
    BY <2>1, <2>2, <2>3, <2>5 DEF Begun
<1>9. PrintedOf(h)'
  <2>1. ASSUME NEW n \in 1 .. next'[h] - 1 PROVE Over(Written', <<h, n>>, calls'[h][n])
    BY <1>2, <1>3, <2>1 DEF PrintedOf
  <2>2. Begun(Written', current(h)', Text(calls'[h][next'[h]]), Left(h)')
    <3>1. current(h)' = <<h, next[h]>> /\ Left(h)' = text /\ Text(calls'[h][next'[h]]) = text
      BY <1>1, <1>2, <1>5, <1>6 DEF current, Left
    <3> QED
      BY <1>2, <1>8, <3>1
  <2> QED
    BY <2>1, <2>2 DEF PrintedOf
<1> QED
  BY <1>2, <1>6, <1>7, <1>9 DEF OthersStay

\* The lock of the port is taken for a character.
LEMMA UartputcText ==
    ASSUME TextInv, NEW h \in Harts, uartputc(h)
    PROVE  CallInv' /\ OthersStay(h) /\ PrintedOf(h)'
<1>1. /\ pc[h] = "print" /\ out[h] # <<>> /\ uart_lk' = h /\ pc' = [pc EXCEPT ![h] = "poll"]
      /\ UNCHANGED <<calls, next, out, printf_lk, thr, wire>> /\ Written' = Written
  BY DEF uartputc, Written
<1>2. CallInv /\ PrintedOf(h) /\ LockInv
  BY DEF TextInv, Inv, PrintedInv
<1>3. pc'[h] = "poll" /\ \A g \in Harts \ {h} : pc'[g] = pc[g]
  BY <1>1, <1>2 DEF LockInv
<1>4. CallInv'
  BY <1>1, <1>2, <1>3 DEF CallInv, CallOf
<1>5. PrintedOf(h)'
  <2>1. ASSUME NEW n \in 1 .. next'[h] - 1 PROVE Over(Written', <<h, n>>, calls'[h][n])
    BY <1>1, <1>2, <2>1 DEF PrintedOf
  <2>2. current(h)' = current(h) /\ Left(h)' = Left(h)
    BY <1>1, <1>3 DEF current, Left
  <2>3. Begun(Written', current(h)', Text(calls'[h][next'[h]]), Left(h)')
    BY <1>1, <1>2, <2>2 DEF PrintedOf, Printing
  <2> QED
    BY <2>1, <2>3 DEF PrintedOf
<1> QED
  BY <1>1, <1>3, <1>4, <1>5 DEF OthersStay

\* The lock of the port is released, and the character is done.
LEMMA UartputcEndText ==
    ASSUME TextInv, NEW h \in Harts, uartputc_end(h)
    PROVE  CallInv' /\ OthersStay(h) /\ PrintedOf(h)'
<1>1. /\ pc[h] = "put" /\ uart_lk' = NONE /\ out' = [out EXCEPT ![h] = Tail(out[h])]
      /\ pc' = [pc EXCEPT ![h] = "print"]
      /\ UNCHANGED <<calls, next, printf_lk, thr, wire>> /\ Written' = Written
  BY DEF uartputc_end, Written
<1>2. CallInv /\ PrintedOf(h) /\ LockInv
  BY DEF TextInv, Inv, PrintedInv
<1>3. PICK t \in Seq(Char) : t = Tail(out[h])
  <2>1. out[h] \in Seq(Char) /\ out[h] # <<>>
    BY <1>1, <1>2 DEF CallInv, CallOf
  <2>2. \A s \in Seq(Char) : s # <<>> => Tail(s) \in Seq(Char)
    OBVIOUS
  <2> QED
    BY <2>1, <2>2, Zenon
<1>4. /\ pc'[h] = "print" /\ out'[h] = t
      /\ \A g \in Harts \ {h} : pc'[g] = pc[g] /\ out'[g] = out[g]
  BY <1>1, <1>2, <1>3 DEF LockInv, CallInv
<1>5. CallInv'
  BY <1>1, <1>2, <1>3, <1>4 DEF CallInv, CallOf
<1>6. PrintedOf(h)'
  <2>1. ASSUME NEW n \in 1 .. next'[h] - 1 PROVE Over(Written', <<h, n>>, calls'[h][n])
    BY <1>1, <1>2, <2>1 DEF PrintedOf
  <2>2. current(h)' = current(h) /\ Left(h)' = Left(h)
    BY <1>1, <1>3, <1>4 DEF current, Left
  <2>3. Begun(Written', current(h)', Text(calls'[h][next'[h]]), Left(h)')
    BY <1>1, <1>2, <2>2 DEF PrintedOf, Printing
  <2> QED
    BY <2>1, <2>3 DEF PrintedOf
<1> QED
  BY <1>1, <1>4, <1>5, <1>6 DEF OthersStay

\* printf releases its lock; a conversion it does not know makes it panic.
LEMMA PrintfEndText ==
    ASSUME TextInv, NEW h \in Harts, printf_end(h)
    PROVE  CallInv' /\ OthersStay(h) /\ PrintedOf(h)'
<1>1. /\ pc[h] = "print" /\ out[h] = <<>> /\ printf_lk' = NONE
      /\ next' = [next EXCEPT ![h] = next[h] + 1] /\ pc' = [pc EXCEPT ![h] = "call"]
      /\ panic(h, "!") \/ UNCHANGED calls
      /\ UNCHANGED <<out, uart_lk, thr, wire>> /\ Written' = Written
  BY DEF printf_end, Written
<1>2. CallInv /\ PrintedOf(h) /\ LockInv
  BY DEF TextInv, Inv, PrintedInv
<1>3. next[h] \in Nat /\ next[h] >= 1 /\ next[h] <= Len(calls[h])
      /\ calls[h][next[h]] \in Calls \ {NullFmt}
  BY <1>1, <1>2, SMTT(40) DEF CallInv, CallOf
<1>4. /\ pc'[h] = "call" /\ next'[h] = next[h] + 1
      /\ \A g \in Harts \ {h} : pc'[g] = pc[g] /\ next'[g] = next[g]
  BY <1>1, <1>2 DEF LockInv
<1>5. /\ calls' \in [Harts -> Seq(Calls)]
      /\ next[h] <= Len(calls'[h])
      /\ \A n \in 1 .. next[h] : calls'[h][n] = calls[h][n]
      /\ \A g \in Harts \ {h} : calls'[g] = calls[g]
  <2>1. CASE panic(h, "!")
    <3>1. /\ calls' \in [Harts -> Seq(Calls)] /\ Len(calls'[h]) = next[h] + 2
          /\ \A n \in 1 .. next[h] : calls'[h][n] = calls[h][n]
          /\ \A g \in Harts \ {h} : calls'[g] = calls[g]
      BY <1>2, <1>3, <2>1, PanicStep
    <3> QED
      BY <1>3, <3>1
  <2>2. CASE UNCHANGED calls
    BY <1>2, <1>3, <2>2 DEF CallInv
  <2> QED
    BY <1>1, <2>1, <2>2
<1>6. CallInv'
  <2>1. ASSUME NEW g \in Harts PROVE CallOf(g)'
    <3>1. CASE g = h
      <4>1. next'[h] \in 1 .. Len(calls'[h]) + 1
        <5>1. Len(calls'[h]) \in Nat
          BY <1>5
        <5> QED
          BY <1>3, <1>4, <1>5, <5>1
      <4> QED
        BY <1>4, <3>1, <4>1 DEF CallOf
    <3>2. CASE g # h
      BY <1>1, <1>2, <1>4, <1>5, <3>2 DEF CallInv, CallOf
    <3> QED
      BY <3>1, <3>2
  <2> QED
    BY <1>1, <1>2, <1>5, <2>1 DEF CallInv
<1>7. ASSUME NEW n \in 1 .. next'[h] - 1 PROVE Over(Written', <<h, n>>, calls'[h][n])
  <2>1. n \in 1 .. next[h] /\ calls'[h][n] = calls[h][n]
    BY <1>3, <1>4, <1>5
  <2>2. CASE n = next[h]
    <3>1. PICK call : call = calls[h][next[h]] /\ call \in Calls \ {NullFmt}
      BY <1>3
    <3>2. Text(call) \in Seq(Char)
      BY <3>1 DEF TextInv, Printable
    <3>3. Left(h) = <<>> /\ current(h) = <<h, n>>
      BY <1>1, <2>2 DEF Left, current
    <3>4. Begun(Written, <<h, n>>, Text(call), <<>>)
      BY <1>1, <1>2, <3>1, <3>3 DEF PrintedOf, Printing
    <3>5. Written \in Seq(Marked)
      BY <1>2, WrittenType
    <3>6. Over(Written, <<h, n>>, call)
      BY <3>2, <3>4, <3>5, BegunOver
    <3> QED
      BY <1>1, <2>1, <2>2, <3>1, <3>6
  <2>3. CASE n \in 1 .. next[h] - 1
    BY <1>1, <1>2, <2>1, <2>3 DEF PrintedOf
  <2> QED
    BY <1>3, <2>1, <2>2, <2>3
<1>8. PrintedOf(h)'
  BY <1>4, <1>7 DEF PrintedOf, Printing
<1> QED
  BY <1>1, <1>4, <1>5, <1>6, <1>8 DEF OthersStay

\* A character is written: it is the next one of the only call that is printed.
LEMMA WriteText ==
    ASSUME TextInv, NEW h \in Harts, W_REG(h)
    PROVE  CallInv' /\ PrintedInv'
<1>1. /\ pc[h] = "poll" /\ thr = <<>> /\ pc' = [pc EXCEPT ![h] = "put"]
      /\ thr' = <<[call |-> current(h), char |-> Head(out[h])]>>
      /\ UNCHANGED <<calls, next, out, printf_lk, uart_lk, wire>>
  BY DEF W_REG
<1>2. CallInv /\ LockInv /\ next[h] \in Nat /\ \A g \in Harts : PrintedOf(g)
  BY DEF TextInv, Inv, PrintedInv, LockInv
<1>3. out[h] \in Seq(Char) /\ out[h] # <<>>
  BY <1>1, <1>2 DEF CallInv, CallOf
<1>4. PICK m \in Marked : thr' = <<m>> /\ m.call = current(h) /\ m.char = Head(out[h])
  <2>1. Head(out[h]) \in Char
    BY <1>3
  <2>2. current(h) \in Harts \X Nat
    BY <1>2 DEF current
  <2>3. [call |-> current(h), char |-> Head(out[h])] \in Marked
    BY <2>1, <2>2 DEF Marked
  <2> QED
    BY <1>1, <2>3
<1>5. PICK w \in Seq(Marked) : w = Written /\ Written' = w \o <<m>>
  <2>1. wire \in Seq(Marked) /\ wire \o <<>> = wire
    BY <1>2 DEF CallInv
  <2> QED
    BY <1>1, <1>4, <2>1 DEF Written
<1>6. pc'[h] = "put" /\ \A g \in Harts \ {h} : pc'[g] = pc[g] /\ pc[g] \notin Printing
  BY <1>1, <1>2 DEF LockInv, Printing
<1>7. CallInv'
  <2>1. <<m>> \in Seq(Marked) /\ Len(<<m>>) = 1
    OBVIOUS
  <2>2. ASSUME NEW g \in Harts PROVE CallOf(g)'
    BY <1>1, <1>2, <1>6 DEF CallInv, CallOf
  <2> QED
    BY <1>1, <1>2, <1>4, <2>1, <2>2 DEF CallInv
<1>8. ASSUME NEW g \in Harts, NEW n \in 1 .. next'[g] - 1
      PROVE  Over(Written', <<g, n>>, calls'[g][n])
  <2>1. next[g] \in 1 .. Len(calls[g]) + 1 /\ next'[g] = next[g]
    BY <1>1, <1>2 DEF CallInv, CallOf
  <2>2. PICK call \in Calls : call = calls[g][n] /\ call = calls'[g][n]
    <3>1. calls[g] \in Seq(Calls) /\ n \in 1 .. Len(calls[g])
      BY <1>2, <1>8, <2>1 DEF CallInv
    <3> QED
      BY <1>1, <3>1
  <2>3. call # NullFmt => Text(call) \in Seq(Char)
    BY DEF TextInv, Printable
  <2>4. m.call # <<g, n>>
    BY <1>2, <1>4, <1>8, <2>1 DEF current
  <2>5. Over(w, <<g, n>>, call)
    BY <1>2, <1>5, <1>8, <2>1, <2>2 DEF PrintedOf
  <2>6. Over(w \o <<m>>, <<g, n>>, call)
    BY <2>3, <2>4, <2>5, OverMore
  <2> QED
    BY <1>5, <2>2, <2>6
<1>9. Begun(Written', current(h)', Text(calls'[h][next'[h]]), Left(h)')
  <2>1. PICK text \in Seq(Char) : text = Text(calls[h][next[h]])
    <3>1. calls[h][next[h]] \in Calls \ {NullFmt}
      BY <1>1, <1>2, SMTT(40) DEF CallInv, CallOf
    <3> QED
      BY <3>1 DEF TextInv, Printable
  <2>2. Left(h) = out[h] /\ Left(h)' = Tail(out[h]) /\ current(h)' = current(h)
    BY <1>1, <1>6 DEF Left, current
  <2>3. Begun(w, current(h), text, out[h])
    BY <1>1, <1>2, <1>5, <2>1, <2>2 DEF PrintedOf, Printing
  <2>4. Begun(w \o <<m>>, current(h), text, Tail(out[h]))
    BY <1>3, <1>4, <2>3, BegunNext
  <2>5. Text(calls'[h][next'[h]]) = text
    BY <1>1, <2>1
  <2> QED
    BY <1>5, <2>2, <2>4, <2>5
<1>10. ASSUME NEW g \in Harts PROVE PrintedOf(g)'
  <2>1. CASE g = h
    BY <1>8, <1>9, <2>1 DEF PrintedOf
  <2>2. CASE g # h
    BY <1>6, <1>8, <2>2 DEF PrintedOf
  <2> QED
    BY <2>1, <2>2
<1> QED
  BY <1>7, <1>10 DEF PrintedInv

\* The port sends what it has: nothing is written.
LEMMA TransmitText ==
    ASSUME TextInv, Transmit
    PROVE  CallInv' /\ PrintedInv'
<1>1. /\ wire' = wire \o thr /\ thr' = <<>>
      /\ UNCHANGED <<calls, next, pc, out, printf_lk, uart_lk>>
  BY DEF Transmit
<1>2. CallInv /\ \A g \in Harts : PrintedOf(g)
  BY DEF TextInv, PrintedInv
<1>3. /\ wire \o thr \in Seq(Marked) /\ (wire \o thr) \o <<>> = wire \o thr
      /\ <<>> \in Seq(Marked) /\ Len(<<>>) = 0
  BY <1>2 DEF CallInv
<1>4. Written' = Written
  BY <1>1, <1>3 DEF Written
<1>5. \A g \in Harts : CallOf(g)'
  BY <1>1, <1>2 DEF CallInv, CallOf
<1>6. CallInv'
  BY <1>1, <1>2, <1>3, <1>5 DEF CallInv
<1>7. \A g \in Harts : PrintedOf(g)'
  BY <1>1, <1>2, <1>4, PrintedSame
<1> QED
  BY <1>6, <1>7 DEF PrintedInv

LEMMA TextInvStep == TextInv /\ [Next]_vars => TextInv'
<1> SUFFICES ASSUME TextInv, [Next]_vars PROVE TextInv'
  OBVIOUS
<1>1. Inv' /\ Printable'
  BY InvStep DEF TextInv, Printable
<1>2. ASSUME NEW h \in Harts,
             printf(h) \/ acquire(h) \/ uartputc(h) \/ uartputc_end(h) \/ printf_end(h)
      PROVE  CallInv' /\ PrintedInv'
  <2>1. CallInv' /\ OthersStay(h) /\ PrintedOf(h)'
    BY <1>2, PrintfText, AcquireText, UartputcText, UartputcEndText, PrintfEndText
  <2>2. Written' = Written
    BY <1>2 DEF printf, acquire, uartputc, uartputc_end, printf_end, Written
  <2>3. ASSUME NEW g \in Harts PROVE PrintedOf(g)'
    <3>1. CASE g = h
      BY <2>1, <3>1
    <3>2. CASE g # h
      BY <2>1, <2>2, <3>2, PrintedSame DEF TextInv, PrintedInv, OthersStay
    <3> QED
      BY <3>1, <3>2
  <2> QED
    BY <2>1, <2>3 DEF PrintedInv
<1>3. CASE UNCHANGED vars
  <2>1. UNCHANGED <<calls, next, pc, out, printf_lk, uart_lk, thr, wire>> /\ Written' = Written
    BY <1>3 DEF vars, Written
  <2>2. CallInv'
    BY <2>1 DEF TextInv, CallInv, CallOf
  <2>3. \A g \in Harts : PrintedOf(g)'
    BY <2>1, PrintedSame DEF TextInv, PrintedInv
  <2> QED
    BY <1>1, <2>2, <2>3 DEF TextInv, PrintedInv
<1> QED
  BY <1>1, <1>2, <1>3, WriteText, TransmitText DEF Next, hart, TextInv

LEMMA TextInvInit == Init /\ Printable => TextInv
<1> SUFFICES ASSUME Init, Printable PROVE TextInv
  OBVIOUS
<1>1. Inv
  BY InitInv
<1>2. calls \in [Harts -> Seq(Calls)]
  <2>1. calls \in [Harts -> Seq(ProgramCalls)]
    BY ProgramsAssumption DEF Init
  <2>2. \A s \in Seq(ProgramCalls) : s \in Seq(Calls)
    BY DEF Calls
  <2> QED
    BY <2>1, <2>2
<1>3. CallInv
  <2>1. ASSUME NEW h \in Harts PROVE CallOf(h)
    <3>1. Len(calls[h]) \in Nat
      BY <1>2
    <3> QED
      BY <3>1 DEF Init, CallOf
  <2>2. <<>> \in Seq(Char) /\ <<>> \in Seq(Marked) /\ Len(<<>>) = 0
    OBVIOUS
  <2> QED
    BY <1>2, <2>1, <2>2 DEF Init, CallInv
<1>4. PrintedInv
  BY DEF Init, PrintedInv, PrintedOf, Printing
<1> QED
  BY <1>1, <1>3, <1>4 DEF TextInv

LEMMA AlwaysTextInv == Printable => (Spec => []TextInv)
BY TextInvInit, TextInvStep, PTL DEF Spec

(***************************************************************************)
(* If every call has a text of characters, whatever the format scanner     *)
(* makes of it, then the calls, the locks and the port keep their types on *)
(* any number of harts, through all panics of printf (printf.c:121-235).   *)
(***************************************************************************)
THEOREM ConsoleTypes == Printable => (Spec => []TypeOK)
<1>1. TextInv => TypeOK
  BY DEF TextInv, Inv, LockInv, Printing, CallInv, CallOf, TypeOK
<1> QED
  BY <1>1, AlwaysTextInv, PTL

(***************************************************************************)
(* If the conversions are right for every call on its own, but for the '_' *)
(* in binary numbers that printf_test.c does not expect, every call that   *)
(* is over is on the wire as it should be, on any number of harts and      *)
(* however they interleave and panic: the locks of printf and of the port  *)
(* lose no character, write none twice and mix up none (printf.c:121-227,  *)
(* uart.c).                                                                *)
(***************************************************************************)
THEOREM ConsoleCallsPrinted == Conversions => (Spec => []CallsPrinted)
<1>1. Conversions /\ TextInv => CallsPrinted
  <2> SUFFICES ASSUME Conversions, TextInv, NEW h \in Harts, NEW n \in 1 .. next[h] - 1,
                      calls[h][n] # NullFmt,
                      \A i \in DOMAIN calls[h][n] : ~ HasNoNegative(calls[h][n][i])
               PROVE  \E k, len \in 0 .. Len(Written) :
                        /\ Stands(Written, <<h, n>>, Piece(k, len), len, k)
                        /\ Unsplit(Piece(k, len)) = Unsplit(Meaning(calls[h][n]))
    BY DEF CallsPrinted
  <2>1. PICK call : call = calls[h][n]
    OBVIOUS
  <2>2. call \in Calls \ {NullFmt}
    BY <2>1 DEF TextInv, CallInv, CallOf
  <2>3. Unsplit(Text(call)) = Unsplit(Meaning(call))
    BY <2>1, <2>2 DEF Conversions
  <2>4. PICK k \in 0 .. Len(Written) :
          Stands(Written, <<h, n>>, Text(call), Len(Text(call)), k)
    BY <2>1, <2>2 DEF TextInv, PrintedInv, PrintedOf, Over
  <2>5. PICK text \in Seq(Char) : text = Text(call)
    BY <2>2 DEF TextInv, Printable
  <2>6. Written \in Seq(Marked) /\ Len(Written) \in Nat /\ Len(text) \in 0 .. Len(Written)
    <3>1. Written \in Seq(Marked) /\ Len(Written) \in Nat
      BY WrittenType DEF TextInv
    <3>2. k + Len(text) <= Len(Written)
      BY <2>4, <2>5 DEF Stands
    <3> QED
      BY <2>5, <3>1, <3>2
  <2>7. Piece(k, Len(text)) = text
    <3>1. \A j \in 1 .. Len(text) : Written[k + j].char = text[j]
      <4> SUFFICES ASSUME NEW j \in 1 .. Len(text) PROVE Written[k + j].char = text[j]
        OBVIOUS
      <4>1. /\ k + j \in 1 .. Len(Written) /\ k + j \in k + 1 .. k + Len(text)
            /\ (k + j) - k = j
        BY <2>4, <2>5, <2>6 DEF Stands
      <4> QED
        BY <2>4, <2>5, <4>1 DEF Stands
    <3>2. text = [j \in 1 .. Len(text) |-> text[j]]
      OBVIOUS
    <3> QED
      BY <3>1, <3>2 DEF Piece
  <2>8. /\ Stands(Written, <<h, n>>, Piece(k, Len(text)), Len(text), k)
        /\ Unsplit(Piece(k, Len(text))) = Unsplit(Meaning(call))
    BY <2>3, <2>4, <2>5, <2>7
  <2> QED
    BY <2>1, <2>6, <2>8
<1>2. Conversions /\ [Next]_vars => Conversions'
  BY DEF Conversions, Printable
<1>3. Conversions => Printable
  BY DEF Conversions
<1> QED
  BY <1>1, <1>2, <1>3, AlwaysTextInv, PTL DEF Spec
=============================================================================
