------------------------------- MODULE MCVPlic -------------------------------
(***************************************************************************)
(* VPlic for TLC, with the interrupt numbers and the offsets of the board. *)
(* The configurations are those of guest/vm_config.c with fewer devices.   *)
(***************************************************************************)
EXTENDS VPlic

Dev(p, v) == [phys_irq |-> p, virt_irq |-> v]
emulated_plic == Dev(0, 0)
serial == Dev(10, 10)
pci_serial == Dev(33, 10)
virtio_disk_1 == Dev(1, 1)
virtio_disk_2 == Dev(2, 1)

\* A VM of two harts and one of one hart, with a device each.
TwoVms == <<[cpu_affinity |-> {0, 1}, devices |-> <<virtio_disk_2, emulated_plic>>],
            [cpu_affinity |-> {2}, devices |-> <<pci_serial, emulated_plic>>]>>

\* The first of the shipped VMs.
TwoDevices == <<[cpu_affinity |-> {0},
                 devices |-> <<serial, emulated_plic, virtio_disk_1>>]>>

\* Every register of one hart's context, and priorities the guest has and has not.
Offsets == {0, 4, 40, PENDING, ENABLE + 128, THRESHOLD + 4096, CLAIM + 4096}

\* The priorities of 1, 10 and 33, the pending words, and registers of contexts 1
\* (virtual context of harts 0 and 2) and 3 (of hart 1).  Thresholds other than that
\* of hart 1 keep their initial value.
TwoVmsOffsets == {4, 40, 132, PENDING, PENDING + 4, ENABLE + 128, ENABLE + 132, ENABLE + 3 * 128,
                  THRESHOLD + 3 * 4096, CLAIM + 4096, CLAIM + 3 * 4096}
=============================================================================
