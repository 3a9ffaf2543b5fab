------------------------------ MODULE VmConfig -------------------------------
(***************************************************************************)
(* The static configuration of the hypervisor (guest/vm_config.c) and the  *)
(* functions that read it.  A configuration is a sequence of VMs; a VM is  *)
(* a record of cpu_affinity, a set of bit numbers, and devices, a sequence *)
(* of [phys_irq, virt_irq] records (the NULL that ends the C array is the  *)
(* end of the sequence).                                                   *)
(***************************************************************************)
EXTENDS Naturals, Sequences, FiniteSets

(***************************************************************************)
(* The loop variable is an int: at bit 31 it is sign-extended to all of    *)
(* bits 31 to 63, which therefore count once.                              *)
(***************************************************************************)
count_set_bits(num) ==
    Cardinality(num \cap (0 .. 30)) + IF num \cap (31 .. 63) = {} THEN 0 ELSE 1

\* The sum over the VMs config[1] .. config[n] of the sizes of their affinity.
NrCpus(config) ==
    LET nr_cpus[n \in 0 .. Len(config)] ==
          IF n = 0 THEN 0
                   ELSE nr_cpus[n - 1] + count_set_bits(config[n].cpu_affinity)
    IN  nr_cpus[Len(config)]

NoOverlap(config) ==
    \A i, j \in DOMAIN config :
        i # j => config[i].cpu_affinity \cap config[j].cpu_affinity = {}

\* TRUE when neither panic is reached.
check_cpu_configuration(config, DTB_NR_CPUS) ==
    NoOverlap(config) /\ NrCpus(config) = DTB_NR_CPUS

(***************************************************************************)
(* The bits of 1 << hartid as a uint64.  The 1 is an int: its bit 31 is    *)
(* sign-extended, and from hart 32 on, where C leaves the shift undefined, *)
(* the instruction sllw shifts by the low five bits of hartid.             *)
(***************************************************************************)
ShiftedBits(hartid) == IF hartid % 32 = 31 THEN 31 .. 63 ELSE {hartid % 32}

\* The indices of the VMs that get_config_for_cpu takes hart hartid to belong to.
ConfigsForCpu(config, hartid) ==
    {i \in DOMAIN config : config[i].cpu_affinity \cap ShiftedBits(hartid) # {}}

First(I) == CHOOSE i \in I : \A j \in I : i <= j

\* The index of the VM; 0 stands for the panic "No way ...".
get_config_for_cpu(config, hartid) ==
    LET I == ConfigsForCpu(config, hartid)
    IN  IF I = {} THEN 0 ELSE First(I)

\* Faulty: the counter is never incremented.
get_vhartid_zero(hartid, cpu_affinity) == 0

\* How many harts of the affinity come before hartid.
get_vhartid(hartid, cpu_affinity) == Cardinality({i \in cpu_affinity : i < hartid})

\* The first device with the given number decides; 0 if there is none.
virt_to_phys_irq(devs, virt_irq) ==
    LET I == {i \in DOMAIN devs : devs[i].virt_irq = virt_irq}
    IN  IF I = {} THEN 0 ELSE devs[First(I)].phys_irq

phys_to_virt_irq(devs, phys_irq) ==
    LET I == {i \in DOMAIN devs : devs[i].phys_irq = phys_irq}
    IN  IF I = {} THEN 0 ELSE devs[First(I)].virt_irq
=============================================================================
