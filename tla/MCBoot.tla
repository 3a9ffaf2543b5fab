------------------------------- MODULE MCBoot --------------------------------
(***************************************************************************)
(* Boot for TLC: configurations are given by the affinities of their VMs.  *)
(***************************************************************************)
EXTENDS Boot

Vms(affinities) ==
    [i \in DOMAIN affinities |-> [cpu_affinity |-> affinities[i], devices |-> <<>>]]

TwoHarts == 0 .. 1

AllBars == {MainBar, RunBar} \cup {VmBar(i) : i \in 1 .. MaxVms}

\* The shipped configuration, its mirror image and a VM of both harts.
GoodConfigs == {Vms(<<{0}, {1}>>), Vms(<<{1}, {0}>>), Vms(<<{0, 1}>>)}

\* Refused by check_cpu_configuration: overlap, too few harts, too many.
RefusedConfigs == {Vms(<<{0, 1}, {1}>>), Vms(<<{0}, {0}>>), Vms(<<{0}>>), Vms(<<{0, 1}, {2}>>)}

\* As many bits as harts, but not the bits of the harts there are.
GapConfigs == {Vms(<<{0}, {2}>>), Vms(<<{0, 2}>>)}

AllConfigs == GoodConfigs \cup RefusedConfigs \cup GapConfigs
=============================================================================
