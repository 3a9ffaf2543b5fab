------------------------------ MODULE MCKeygrab ------------------------------
(***************************************************************************)
(* Keygrab for TLC: two VMs of one hart each, on the serial port of the    *)
(* board and on the one behind PCI, both under the interrupt number that   *)
(* keygrab is built with.  A lost guest stores to the priority of its      *)
(* interrupt and to registers of both contexts.                            *)
(***************************************************************************)
EXTENDS Keygrab

Dev(p, v) == [phys_irq |-> p, virt_irq |-> v]
TwoVms == <<[cpu_affinity |-> {0}, devices |-> <<Dev(10, 11), Dev(0, 0)>>],
            [cpu_affinity |-> {1}, devices |-> <<Dev(33, 11), Dev(0, 0)>>]>>

Keys == [h \in Harts |-> 2 - h]

Offsets == {44, ENABLE + 128, THRESHOLD + 4096, CLAIM + 4096,
            ENABLE + 3 * 128, THRESHOLD + 3 * 4096}
=============================================================================
