------------------------------- MODULE Keygrab -------------------------------
(***************************************************************************)
(* The guest guest/keygrab, one on every hart, on the emulated PLIC of     *)
(* VPlic: it echoes every key typed on its serial port.  Devices, PLIC,    *)
(* trap handlers of the hypervisor and guests run concurrently.            *)
(*                                                                         *)
(* The guest enables its interrupts before it sets up its devices, and its *)
(* trap handler saves no register.  In the loop at suspend that is         *)
(* harmless; a trap taken earlier returns to code that has lost its        *)
(* registers and return address.  Such a guest is "lost": it may store     *)
(* anything anywhere, which the other VMs must not notice.                 *)
(***************************************************************************)
EXTENDS VPlic

CONSTANT MaxKeys    \* MaxKeys[h], a bound: the keys typed on its serial port

\* The receive FIFO of the serial port does not overrun.
ASSUME MaxKeysAssumption == MaxKeys \in [Harts -> 0 .. 16]

VARIABLES
    pc,         \* pc[h]: where the guest of hart h is
    a0, s1,     \* registers of the guest
    ier,        \* ier[h]: does the serial port interrupt when it received data
    rx,         \* rx[h]: received and not yet read
    thr,        \* thr[h]: what is being transmitted, or NONE
    wire,       \* wire[h]: what was transmitted
    typed       \* typed[h]: how many keys were typed

guest_vars == <<pc, a0, s1>>
uart_vars == <<ier, rx, thr, wire, typed>>
kvars == <<vars, guest_vars, uart_vars>>

DTB_SERIAL_IRQ_NUM == 11
Key(n) == 96 + n    \* 'a', 'b', ...
newline == 10
Char == {68, newline} \cup {Key(n) : n \in 1 .. 16}

KTypeOK ==
    /\ TypeOK
    /\ pc \in [Harts -> {"_start", "hello", "priority", "enable", "enable_store",
                         "threshold", "suspend", "trap", "read", "echo", "complete",
                         "newline", "lost"}]
    /\ a0 \in [Harts -> Nat] /\ s1 \in [Harts -> Nat]
    /\ ier \in [Harts -> BOOLEAN]
    /\ rx \in [Harts -> Seq(Char)] /\ wire \in [Harts -> Seq(Char)]
    /\ thr \in [Harts -> Char \cup {NONE}]
    /\ typed \in [Harts -> 0 .. 16]

KInit ==
    /\ Init
    /\ pc = [h \in Harts |-> "_start"]
    /\ a0 = vhartid
    /\ s1 = [h \in Harts |-> 0]
    /\ ier = [h \in Harts |-> FALSE]
    /\ rx = [h \in Harts |-> <<>>]
    /\ thr = [h \in Harts |-> NONE]
    /\ wire = [h \in Harts |-> <<>>]
    /\ typed = [h \in Harts |-> 0]
-----------------------------------------------------------------------------
(***************************************************************************)
(* The serial port of hart h and its gateway, which does not raise a       *)
(* source again before it was completed.                                   *)
(***************************************************************************)
Type(h) ==
    /\ typed[h] < MaxKeys[h]
    /\ typed' = [typed EXCEPT ![h] = typed[h] + 1]
    /\ rx' = [rx EXCEPT ![h] = Append(rx[h], Key(typed[h] + 1))]
    /\ UNCHANGED <<vars, guest_vars, ier, thr, wire>>

Transmit(h) ==
    /\ thr[h] # NONE
    /\ wire' = [wire EXCEPT ![h] = Append(wire[h], thr[h])]
    /\ thr' = [thr EXCEPT ![h] = NONE]
    /\ UNCHANGED <<vars, guest_vars, ier, rx, typed>>

serial_irq(h) == virt_to_phys_irq(devs(h), DTB_SERIAL_IRQ_NUM)

\* Every guest has a serial port of its own, under the number that keygrab is
\* built with, and the PLIC has at most 15872 contexts.
ASSUME SerialAssumption ==
    /\ NHarts <= 7936
    /\ \A h \in Harts :
         /\ serial_irq(h) # 0
         /\ phys_to_virt_irq(devs(h), serial_irq(h)) = DTB_SERIAL_IRQ_NUM
    /\ \A g, h \in Harts : g # h => Own(g) \cap Own(h) = {}

Gateway(h) ==
    /\ ier[h] /\ rx[h] # <<>>
    /\ inflight[serial_irq(h)] = NONE
    /\ DeviceInterrupt(serial_irq(h))
    /\ UNCHANGED <<guest_vars, uart_vars>>
-----------------------------------------------------------------------------
(***************************************************************************)
(* The driver of the guest: the offsets its functions access.              *)
(***************************************************************************)
tp(h) == vhartid[h]
context(h) == 2 * tp(h) + 1

priority_offset(irq) == 4 * irq
enable_offset(c, irq) == 8192 + 128 * c + 4 * (irq \div 32)
threshold_offset(c) == 2097152 + 4096 * c
claim_offset(c) == 2097156 + 4096 * c

\* The uint32 with these bits set, from the highest bit down.
Word(bits) ==
    LET w[k \in 0 .. 32] ==
          IF k = 0 THEN 0 ELSE 2 * w[k - 1] + (IF 32 - k \in bits THEN 1 ELSE 0)
    IN  w[32]

\* The guest of hart h runs its next instructions, from one pc to another.
At(h, from, to) ==
    /\ mode[h] = "guest"
    /\ pc[h] = from
    /\ pc' = [pc EXCEPT ![h] = to]

\* Faulty: does not wait until the transmitter is empty.
uartputc_unpolled(h, c) == thr' = [thr EXCEPT ![h] = c]

uartputc(h, c) ==
    /\ thr[h] = NONE
    /\ thr' = [thr EXCEPT ![h] = c]

\* The FIFOs are cleared and receive interrupts enabled.
init_uart(h) ==
    /\ rx' = [rx EXCEPT ![h] = <<>>]
    /\ thr' = [thr EXCEPT ![h] = NONE]
    /\ ier' = [ier EXCEPT ![h] = TRUE]

_start(h) ==
    \/ /\ At(h, "_start", "hello")
       /\ init_uart(h)
       /\ UNCHANGED <<vars, a0, s1, wire, typed>>
    \/ /\ At(h, "hello", "priority")
       /\ uartputc(h, 68)
       /\ UNCHANGED <<vars, a0, s1, ier, rx, wire, typed>>
    \/ /\ At(h, "priority", "enable")
       /\ emulate_store(h, priority_offset(DTB_SERIAL_IRQ_NUM), 1)
       /\ UNCHANGED <<a0, s1, uart_vars>>
    \/ /\ At(h, "enable", "enable_store")
       /\ a0' = [a0 EXCEPT ![h] = Word(
                    emulate_load(h, enable_offset(context(h), DTB_SERIAL_IRQ_NUM))
                      \cup {DTB_SERIAL_IRQ_NUM % 32})]
       /\ UNCHANGED <<vars, s1, uart_vars>>
    \/ /\ At(h, "enable_store", "threshold")
       /\ emulate_store(h, enable_offset(context(h), DTB_SERIAL_IRQ_NUM), a0[h])
       /\ UNCHANGED <<a0, s1, uart_vars>>
    \/ /\ At(h, "threshold", "suspend")
       /\ emulate_store(h, threshold_offset(context(h)), 0)
       /\ UNCHANGED <<a0, s1, uart_vars>>

\* The virtual interrupt is taken.  The trap handler itself is not interrupted.
Interrupted(h) ==
    /\ hvip[h]
    /\ \/ At(h, "suspend", "trap")
       \/ /\ pc[h] \in {"hello", "priority", "enable", "enable_store", "threshold"}
          /\ At(h, pc[h], "lost")
    /\ UNCHANGED <<vars, a0, s1, uart_vars>>

\* Faulty: prints the number it claimed, for the character was loaded elsewhere.
echo_irq(h) ==
    /\ At(h, "echo", "complete")
    /\ uartputc(h, s1[h])
    /\ UNCHANGED <<vars, a0, s1, ier, rx, wire, typed>>

\* call uartputc with the character in a0.
echo(h) ==
    /\ At(h, "echo", "complete")
    /\ uartputc(h, a0[h])
    /\ UNCHANGED <<vars, a0, s1, ier, rx, wire, typed>>

trap(h) ==
    \/ /\ LET claimed == emulate_load(h, claim_offset(context(h)))
          IN  /\ At(h, "trap", IF claimed = 0 THEN "suspend" ELSE "read")
              /\ s1' = [s1 EXCEPT ![h] = claimed]
       /\ UNCHANGED <<vars, a0, uart_vars>>
    \/ /\ At(h, "read", "echo")
       /\ a0' = [a0 EXCEPT ![h] = Head(rx[h])]
       /\ rx' = [rx EXCEPT ![h] = Tail(rx[h])]
       /\ UNCHANGED <<vars, s1, ier, thr, wire, typed>>
    \/ echo(h)
    \/ /\ At(h, "complete", "newline")
       /\ emulate_store(h, claim_offset(context(h)), s1[h])
       /\ UNCHANGED <<a0, s1, uart_vars>>
    \/ /\ At(h, "newline", "suspend")
       /\ uartputc(h, newline)
       /\ UNCHANGED <<vars, a0, s1, ier, rx, wire, typed>>

\* What a lost guest does to its own serial port does not matter here.
Lost(h) ==
    /\ pc[h] = "lost"
    /\ \/ \E offset \in GuestOffsets, val \in GuestWords : emulate_store(h, offset, val)
       \/ panic(h)
    /\ UNCHANGED <<guest_vars, uart_vars>>

\* The hypervisor, on the same hart.
Hypervisor(h) ==
    /\ hstrapvec(h) \/ vplic_handle_interrupt(h)
    /\ UNCHANGED <<guest_vars, uart_vars>>
-----------------------------------------------------------------------------
Device(h) == Transmit(h) \/ Gateway(h)
Hart(h) == _start(h) \/ Interrupted(h) \/ trap(h) \/ Hypervisor(h)

KNext == \E h \in Harts : Type(h) \/ Device(h) \/ Hart(h) \/ Lost(h)

(***************************************************************************)
(* A hart and its serial port do not both stop while one of them has       *)
(* something to do: harts run, the hardware delivers interrupts, and a     *)
(* serial port sends what it was given.  Nobody has to type, and a lost    *)
(* guest may do nothing.                                                   *)
(***************************************************************************)
Fairness == \A h \in Harts : WF_kvars(Device(h) \/ Hart(h))

KSpec == KInit /\ [][KNext]_kvars /\ Fairness
-----------------------------------------------------------------------------
(***************************************************************************)
(* The terminal shows the greeting and then the keys that were typed, in   *)
(* their order, none twice and none out of thin air, each on its line.     *)
(* This is about every guest that is not lost, whatever the guests of the  *)
(* other VMs do (main.S:43-62 through vplic.c and uart.c).                 *)
(***************************************************************************)
EchoInOrder ==
    \A h \in Harts : pc[h] # "lost" =>
        \A i \in DOMAIN wire[h] :
            wire[h][i] \in CASE i = 1 -> {68}
                             [] i = 2 -> {Key(n) : n \in 1 .. typed[h]}
                             [] i > 2 /\ i % 2 = 0 -> {wire[h][i - 2] + 1}
                             [] OTHER -> {newline}

(***************************************************************************)
(* Every key received is echoed in the end, through gateway, PLIC, claim,  *)
(* injection, the guest's claim, completion and re-raise: with finitely    *)
(* many keys the guests come to rest, and at rest nothing is left to read  *)
(* or to send (main.S:37-62, vplic.c:246-262, 323-331).  Only a guest that *)
(* was interrupted before it was ready may fail to, and then the guests of *)
(* the other VMs still do, although it stores anything anywhere.           *)
(***************************************************************************)
AtRest(h) == pc[h] = "suspend" /\ rx[h] = <<>> /\ thr[h] = NONE
KeysEchoed == []<>(\A h \in Harts : AtRest(h) \/ pc[h] = "lost")

(***************************************************************************)
(* A guest that took an external interrupt finds one to claim and a        *)
(* character to read: the read of an empty receive buffer never happens    *)
(* (main.S:44-53).                                                         *)
(***************************************************************************)
NothingSpurious ==
    \A h \in Harts :
        /\ pc[h] = "trap" => last_claimed_irq_id[h] # 0
        /\ pc[h] = "read" => rx[h] # <<>>
=============================================================================
