------------------------------- MODULE Console -------------------------------
(***************************************************************************)
(* Harts that print on the one serial port: printf holds printf_lk for a   *)
(* whole call and uartputc holds uart_lk for a character (lib/printf.c,    *)
(* driver/uart.c), and panic is two calls of printf, after which the hart  *)
(* does nothing else (include/stdio.h).  printf itself panics, once it has *)
(* released its lock.                                                      *)
(*                                                                         *)
(* The locks are taken and released atomically, which Spinlock justifies.  *)
(***************************************************************************)
EXTENDS Printf, SequencesExt

CONSTANTS
    Harts,
    Programs    \* the printf calls harts make: a set of functions from Harts

NONE == -1
ASSUME HartsAssumption == Harts \subseteq Nat

\* The calls of printf that are in the programs.
ProgramCalls == UNION {UNION {Range(p[h]) : h \in Harts} : p \in Programs}
ASSUME ProgramsAssumption == Programs \subseteq [Harts -> Seq(ProgramCalls)]

VARIABLES
    calls,      \* calls[h]: the calls of printf h makes, each a sequence of items
    next,       \* next[h]: the call h is in or makes next
    pc,         \* pc[h]
    out,        \* out[h]: what the current call has still to print
    printf_lk, uart_lk,     \* who holds the locks, or NONE
    thr,        \* the character in the transmitter, or NONE
    wire        \* what was transmitted; a character is marked with its call

vars == <<calls, next, pc, out, printf_lk, uart_lk, thr, wire>>

\* The null pointer as a format.
NullFmt == <<[kind |-> "null"]>>
fmt(call) == FlattenSeq([i \in DOMAIN call |-> Encoded(call[i])]) \o <<NUL>>
args(call) ==
    LET specs == SelectSeq(call, LAMBDA i : i.kind = "spec" /\ takes_arg(i.type))
    IN  [i \in DOMAIN specs |-> specs[i].arg]

Char == {"(", "n", "u", "l", ")", "-", "_", "x", "%", "[", "]", "s", ".", "!"}
          \cup {digits(d) : d \in 0 .. 15}
Marked == [call : Harts \X Nat, char : Char]
current(h) == <<h, next[h]>>

TypeOK ==
    /\ DOMAIN calls = Harts
    /\ \A h \in Harts : next[h] \in 1 .. Len(calls[h]) + 1
    /\ pc \in [Harts -> {"call", "acquire", "print", "poll", "put"}]
    /\ out \in [Harts -> Seq(Char)]
    /\ printf_lk \in Harts \cup {NONE} /\ uart_lk \in Harts \cup {NONE}
    /\ wire \in Seq(Marked) /\ Len(thr) <= 1 /\ thr \in Seq(Marked)

Init ==
    /\ calls \in Programs
    /\ next = [h \in Harts |-> 1]
    /\ pc = [h \in Harts |-> "call"]
    /\ out = [h \in Harts |-> <<>>]
    /\ printf_lk = NONE /\ uart_lk = NONE
    /\ thr = <<>> /\ wire = <<>>
-----------------------------------------------------------------------------
(***************************************************************************)
(* The macro: where, and then what, instead of all that h would do.        *)
(***************************************************************************)
PanicCalls(h, text) ==
    << <<Literal("["), Conversion(10, 4, "d", h, <<>>), Conversion(10, 4, "s", 0, <<"s", NUL>>),
         Literal("]")>>,
       <<Literal(text)>> >>

panic(h, text) ==
    calls' = [calls EXCEPT ![h] = SubSeq(calls[h], 1, next[h]) \o PanicCalls(h, text)]

printf(h) ==
    /\ pc[h] = "call"
    /\ next[h] <= Len(calls[h])
    /\ IF calls[h][next[h]] = NullFmt
       THEN /\ panic(h, "!")
            /\ next' = [next EXCEPT ![h] = next[h] + 1]
            /\ UNCHANGED pc
       ELSE /\ pc' = [pc EXCEPT ![h] = "acquire"]
            /\ UNCHANGED <<calls, next>>
    /\ UNCHANGED <<out, printf_lk, uart_lk, thr, wire>>

\* Faulty: the lock is taken although another hart holds it.
acquire_unchecked(h) ==
    /\ pc[h] = "acquire"
    /\ printf_lk' = h
    /\ pc' = [pc EXCEPT ![h] = "print"]
    /\ LET call == calls[h][next[h]]
       IN  out' = [out EXCEPT ![h] = output(fmt(call), args(call)).text]
    /\ UNCHANGED <<calls, next, uart_lk, thr, wire>>

\* acquire(&printf_lk); what the loop will print depends on nothing else.
acquire(h) ==
    /\ pc[h] = "acquire"
    /\ printf_lk = NONE
    /\ printf_lk' = h
    /\ pc' = [pc EXCEPT ![h] = "print"]
    /\ LET call == calls[h][next[h]]
       IN  out' = [out EXCEPT ![h] = output(fmt(call), args(call)).text]
    /\ UNCHANGED <<calls, next, uart_lk, thr, wire>>

\* uartputc: acquire(&uart_lk).
uartputc(h) ==
    /\ pc[h] = "print" /\ out[h] # <<>>
    /\ uart_lk = NONE
    /\ uart_lk' = h
    /\ pc' = [pc EXCEPT ![h] = "poll"]
    /\ UNCHANGED <<calls, next, out, printf_lk, thr, wire>>

\* The poll of LSR that finds the transmitter empty, and the store to THR.
W_REG(h) ==
    /\ pc[h] = "poll"
    /\ thr = <<>>
    /\ thr' = <<[call |-> current(h), char |-> Head(out[h])]>>
    /\ pc' = [pc EXCEPT ![h] = "put"]
    /\ UNCHANGED <<calls, next, out, printf_lk, uart_lk, wire>>

\* release(&uart_lk), and on to the next character.
uartputc_end(h) ==
    /\ pc[h] = "put"
    /\ uart_lk' = NONE
    /\ out' = [out EXCEPT ![h] = Tail(out[h])]
    /\ pc' = [pc EXCEPT ![h] = "print"]
    /\ UNCHANGED <<calls, next, printf_lk, thr, wire>>

unknown_specifier(h) == output(fmt(calls[h][next[h]]), args(calls[h][next[h]])).unknown

\* Faulty: panics where it sets the flag, inside the lock.
printf_end_locked(h) ==
    /\ pc[h] = "print" /\ out[h] = <<>>
    /\ printf_lk' = IF unknown_specifier(h) THEN h ELSE NONE
    /\ next' = [next EXCEPT ![h] = next[h] + 1]
    /\ IF unknown_specifier(h) THEN panic(h, "!") ELSE UNCHANGED calls
    /\ pc' = [pc EXCEPT ![h] = "call"]
    /\ UNCHANGED <<out, uart_lk, thr, wire>>

\* release(&printf_lk), and panic if there was something to panic about.
printf_end(h) ==
    /\ pc[h] = "print" /\ out[h] = <<>>
    /\ printf_lk' = NONE
    /\ next' = [next EXCEPT ![h] = next[h] + 1]
    /\ IF unknown_specifier(h) THEN panic(h, "!") ELSE UNCHANGED calls
    /\ pc' = [pc EXCEPT ![h] = "call"]
    /\ UNCHANGED <<out, uart_lk, thr, wire>>

\* The serial port.
Transmit ==
    /\ thr # <<>>
    /\ wire' = wire \o thr
    /\ thr' = <<>>
    /\ UNCHANGED <<calls, next, pc, out, printf_lk, uart_lk>>
-----------------------------------------------------------------------------
hart(h) ==
    \/ printf(h) \/ acquire(h) \/ uartputc(h) \/ W_REG(h) \/ uartputc_end(h)
    \/ printf_end(h)

Next == Transmit \/ \E h \in Harts : hart(h)

\* Interrupts are off in HS mode: a hart runs on, and the port sends.
Spec == Init /\ [][Next]_vars /\ WF_vars(Transmit) /\ \A h \in Harts : WF_vars(hart(h))
-----------------------------------------------------------------------------
\* Everything written so far.
Written == wire \o thr

(***************************************************************************)
(* The text of one call of printf is not torn apart: on the wire there is  *)
(* nothing of another call between two characters of it, although every    *)
(* character takes and releases the lock of the port (printf.c:121-227).   *)
(* The two calls of a panic may be separated.                              *)
(***************************************************************************)
CallsContiguous ==
    \A i, j \in DOMAIN Written : i < j /\ Written[i].call = Written[j].call =>
        \A k \in i .. j : Written[k].call = Written[i].call

\* What is in w of call c is the first n characters of text, in one piece that
\* begins after k others.
Stands(w, c, text, n, k) ==
    /\ k + n <= Len(w)
    /\ \A j \in 1 .. Len(w) : /\ w[j].call = c <=> j \in k + 1 .. k + n
                              /\ w[j].call = c => w[j].char = text[j - k]

Meaning(call) == FlattenSeq([i \in DOMAIN call |-> Expected(call[i])])

\* What was written after the first k characters, len of them.
Piece(k, len) == [j \in 1 .. len |-> Written[k + j].char]

Unsplit(text) == SelectSeq(text, LAMBDA c : c # "_")

(***************************************************************************)
(* A call that is over has written exactly the text its conversions stand  *)
(* for, in one piece: every character once, in order, every value of every *)
(* length in every base, scanned from the format string (printf.c:43-90,   *)
(* 122-226).  The '_' that printf puts between the bytes of a binary       *)
(* number is not counted as text, and HasNoNegative is excepted.           *)
(***************************************************************************)
CallsPrinted ==
    \A h \in Harts : \A n \in 1 .. next[h] - 1 :
        LET call == calls[h][n]
        IN  call # NullFmt /\ (\A i \in DOMAIN call : ~ HasNoNegative(call[i])) =>
              \E k, len \in 0 .. Len(Written) :
                 /\ Stands(Written, <<h, n>>, Piece(k, len), len, k)
                 /\ Unsplit(Piece(k, len)) = Unsplit(Meaning(call))

(***************************************************************************)
(* Every call returns, also when printf itself panics: it calls itself     *)
(* only after it has released its lock, so neither the hart that panics    *)
(* nor the others wait for ever (printf.c:227-235, "only recurse after     *)
(* printf_lk was released").                                               *)
(***************************************************************************)
CallsEnd == <>(\A h \in Harts : next[h] = Len(calls[h]) + 1 /\ thr = <<>>)
=============================================================================
