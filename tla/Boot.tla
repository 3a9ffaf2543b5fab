-------------------------------- MODULE Boot ---------------------------------
(***************************************************************************)
(* From the firmware to the guests: core/sboot.S, main(), init_hart() and  *)
(* vm_run(), run by all harts at once and kept in step by the barriers of  *)
(* WaitBarrier, under a configuration of VmConfig.                         *)
(*                                                                         *)
(* pc[h] names the code hart h runs when it is next outside wait_barrier;  *)
(* while at[h] # "out" it is still inside the call before that code.       *)
(***************************************************************************)
EXTENDS WaitBarrier, VmConfig

CONSTANTS
    Configs,        \* the configurations config[] may be compiled to
    MaxVms          \* a bound: the most VMs in one of them

ASSUME BootAssumption ==
    /\ IsFiniteSet(Harts) /\ Harts # {}
    /\ Harts = 0 .. Cardinality(Harts) - 1         \* DTB_NR_CPUS of them
    /\ \A c \in Configs : Len(c) <= MaxVms

\* struct vm_config: cpu_affinity is a uint64.
vm_config == [cpu_affinity : SUBSET (0 .. 63), devices : Seq([phys_irq : Nat, virt_irq : Nat])]
ASSUME ConfigAssumption == MaxVms \in Nat /\ Configs \subseteq Seq(vm_config)

\* `bar' of main.c, `bar' of vm_run.c and the bar of each vm_config.
MainBar == <<"main", 0>>
RunBar == <<"vm_run", 0>>
VmBar(i) == <<"vm", i>>
ASSUME BootBars == Bars = {MainBar, RunBar} \cup {VmBar(i) : i \in 1 .. MaxVms}

VARIABLES
    config,         \* config[]
    pc,
    kmem_ready,     \* has init_kmem built the free list
    cpu_mapped,     \* the flag of cpu.c
    satp,           \* satp[h]: "bare", "bsp" or "final"
    cpus,           \* cpus[h]: the hartid stored in struct cpu h, -1 before
    vcpus,          \* vcpus[h]: [conf, vhartid] of init_vcpu, conf = 0 before
    vm_pgtable      \* vm_pgtable[i]: "unset", "building" or "ready"

boot_vars == <<config, pc, kmem_ready, cpu_mapped, satp, cpus, vcpus, vm_pgtable>>
vars == <<initial, tokens, passed, locked, at, reg,
          config, pc, kmem_ready, cpu_mapped, satp, cpus, vcpus, vm_pgtable>>

Stops == {"fault", "panic", "no_way"}
Pcs == {"off", "setup", "main", "init_vmem", "init_hart", "toggle", "vm_run",
        "init_vcpu", "pgtable", "map", "init_hs", "vm_enter", "guest"} \cup Stops

TypeOK ==
    /\ WB_TypeOK
    /\ config \in Configs
    /\ pc \in [Harts -> Pcs]
    /\ kmem_ready \in BOOLEAN /\ cpu_mapped \in BOOLEAN
    /\ satp \in [Harts -> {"bare", "bsp", "final"}]
    /\ cpus \in [Harts -> Harts \cup {-1}]
    /\ vcpus \in [Harts -> [conf : 0 .. MaxVms, vhartid : Nat]]
    /\ vm_pgtable \in [1 .. MaxVms -> {"unset", "building", "ready"}]

\* The firmware enters setup on any one hart.
Init ==
    /\ BARRIER_INITIALIZER([b \in Bars |->
         IF b \in {MainBar, RunBar} THEN Cardinality(Harts) ELSE 0])
    /\ WB_Init
    /\ config \in Configs
    /\ \E boot \in Harts : pc = [h \in Harts |-> IF h = boot THEN "setup" ELSE "off"]
    /\ kmem_ready = FALSE
    /\ cpu_mapped = FALSE
    /\ satp = [h \in Harts |-> "bare"]
    /\ cpus = [h \in Harts |-> -1]
    /\ vcpus = [h \in Harts |-> [conf |-> 0, vhartid |-> 0]]
    /\ vm_pgtable = [i \in 1 .. MaxVms |-> "unset"]

\* Hart h is about to run the code at p.
runs(h, p) == pc[h] = p /\ at[h] = "out"
next(h, p) == pc' = [pc EXCEPT ![h] = p]

(***************************************************************************)
(* mycpu() returns VAS_CPU_STRUCT or &cpus[tp]; the first is mapped by the *)
(* final page table of the hart only, the second by the bootstrap table    *)
(* only, and using the wrong one faults.                                   *)
(***************************************************************************)
mycpu_ok(h) == satp[h] = IF cpu_mapped THEN "final" ELSE "bsp"

fault(h) == next(h, "fault")
-----------------------------------------------------------------------------
(***************************************************************************)
(* sboot.S: the boot hart starts the others; each hart turns on the        *)
(* bootstrap page table and jumps to main.                                 *)
(***************************************************************************)
setup(h) ==
    /\ runs(h, "setup")
    /\ \E g \in Harts :
         /\ pc[g] = "off"
         /\ pc' = [pc EXCEPT ![g] = "main"]
         /\ satp' = [satp EXCEPT ![g] = "bsp"]
    /\ UNCHANGED <<wb_vars, config, kmem_ready, cpu_mapped, cpus, vcpus, vm_pgtable>>

enter_vas(h) ==
    /\ runs(h, "setup")
    /\ \A g \in Harts : pc[g] # "off"
    /\ next(h, "main")
    /\ satp' = [satp EXCEPT ![h] = "bsp"]
    /\ UNCHANGED <<wb_vars, config, kmem_ready, cpu_mapped, cpus, vcpus, vm_pgtable>>

\* main() up to the first barrier.
main(h) ==
    /\ runs(h, "main")
    /\ kmem_ready' = (kmem_ready \/ h = 0)
    /\ call_wait_barrier(h)
    /\ next(h, "init_vmem")
    /\ UNCHANGED <<config, cpu_mapped, satp, cpus, vcpus, vm_pgtable>>

\* The final page table maps the struct mycpu() returns; it needs kmalloc.
init_vmem(h) ==
    /\ runs(h, "init_vmem")
    /\ IF kmem_ready /\ mycpu_ok(h) THEN next(h, "init_hart") ELSE fault(h)
    /\ UNCHANGED <<wb_vars, config, kmem_ready, cpu_mapped, satp, cpus, vcpus, vm_pgtable>>

\* Faulty: init_hart without the barrier that main() has after it.
init_hart_unsynchronised(h) ==
    /\ runs(h, "init_hart")
    /\ IF mycpu_ok(h)
       THEN /\ cpus' = [cpus EXCEPT ![h] = h]
            /\ satp' = [satp EXCEPT ![h] = "final"]
            /\ next(h, "toggle")
       ELSE fault(h) /\ UNCHANGED <<cpus, satp>>
    /\ UNCHANGED <<wb_vars, config, kmem_ready, cpu_mapped, vcpus, vm_pgtable>>

\* init_hart stores the hartid in the struct, then switches to the final table.
init_hart(h) ==
    /\ runs(h, "init_hart")
    /\ IF mycpu_ok(h)
       THEN /\ cpus' = [cpus EXCEPT ![h] = h]
            /\ satp' = [satp EXCEPT ![h] = "final"]
            /\ call_wait_barrier(h)
            /\ next(h, "toggle")
       ELSE fault(h) /\ UNCHANGED <<wb_vars, cpus, satp>>
    /\ UNCHANGED <<config, kmem_ready, cpu_mapped, vcpus, vm_pgtable>>

toggle(h) ==
    /\ runs(h, "toggle")
    /\ cpu_mapped' = (cpu_mapped \/ h = 0)
    /\ call_wait_barrier(h)
    /\ next(h, "vm_run")
    /\ UNCHANGED <<config, kmem_ready, satp, cpus, vcpus, vm_pgtable>>
-----------------------------------------------------------------------------
(***************************************************************************)
(* vm_run().  Hart 0 sets up the barriers of the VMs and checks the        *)
(* configuration before the harts meet.                                    *)
(***************************************************************************)
VmBars == {VmBar(i) : i \in DOMAIN config}

\* Faulty: every VM's barrier waits for all harts of the board.
init_vm_barriers_all == init_barrier(VmBars, [b \in VmBars |-> Cardinality(Harts)])

init_vm_barriers ==
    init_barrier(VmBars, [b \in VmBars |-> count_set_bits(config[b[2]].cpu_affinity)])

\* Faulty: the check comes after the barrier that lets the others go.
vm_run_late_check(h) ==
    /\ runs(h, "vm_run")
    /\ IF h = 0 THEN init_vm_barriers ELSE UNCHANGED bar_vars
    /\ goto(h, "acquire1")
    /\ next(h, "init_vcpu")
    /\ UNCHANGED <<reg, config, kmem_ready, cpu_mapped, satp, cpus, vcpus, vm_pgtable>>

vm_run(h) ==
    /\ runs(h, "vm_run")
    /\ IF h = 0 THEN init_vm_barriers ELSE UNCHANGED bar_vars
    /\ IF h = 0 /\ ~ check_cpu_configuration(config, Cardinality(Harts))
       THEN next(h, "panic") /\ UNCHANGED at
       ELSE next(h, "init_vcpu") /\ goto(h, "acquire1")
    /\ UNCHANGED <<reg, config, kmem_ready, cpu_mapped, satp, cpus, vcpus, vm_pgtable>>

\* get_vcpu and init_vcpu; the barrier index of a hart comes from here.
init_vcpu(h) ==
    /\ runs(h, "init_vcpu")
    /\ LET i == get_config_for_cpu(config, cpus[h])
       IN  IF mycpu_ok(h) /\ i # 0
           THEN /\ vcpus' = [vcpus EXCEPT ![h] =
                     [conf |-> i, vhartid |-> get_vhartid(cpus[h], config[i].cpu_affinity)]]
                /\ next(h, "pgtable")
           ELSE /\ IF mycpu_ok(h) THEN next(h, "no_way") ELSE fault(h)
                /\ UNCHANGED vcpus
    /\ UNCHANGED <<wb_vars, config, kmem_ready, cpu_mapped, satp, cpus, vm_pgtable>>

\* if (vhartid == 0) init_hs_pgtable: the memset that empties the table ...
init_hs_pgtable(h) ==
    /\ runs(h, "pgtable")
    /\ vcpus[h].vhartid = 0
    /\ vm_pgtable' = [vm_pgtable EXCEPT ![vcpus[h].conf] = "building"]
    /\ next(h, "map")
    /\ UNCHANGED <<wb_vars, config, kmem_ready, cpu_mapped, satp, cpus, vcpus>>

\* ... and the map_pages calls, then the barrier of the VM.
map_guest(h) ==
    /\ runs(h, "map")
    /\ vm_pgtable' = [vm_pgtable EXCEPT ![vcpus[h].conf] = "ready"]
    /\ call_wait_barrier(h)
    /\ next(h, "init_hs")
    /\ UNCHANGED <<config, kmem_ready, cpu_mapped, satp, cpus, vcpus>>

\* Faulty: the other harts enter the guest without waiting.
skip_pgtable_unsynchronised(h) ==
    /\ runs(h, "pgtable")
    /\ vcpus[h].vhartid # 0
    /\ next(h, "init_hs")
    /\ UNCHANGED <<wb_vars, config, kmem_ready, cpu_mapped, satp, cpus, vcpus, vm_pgtable>>

\* The other harts of the VM go to the barrier at once.
skip_pgtable(h) ==
    /\ runs(h, "pgtable")
    /\ vcpus[h].vhartid # 0
    /\ call_wait_barrier(h)
    /\ next(h, "init_hs")
    /\ UNCHANGED <<config, kmem_ready, cpu_mapped, satp, cpus, vcpus, vm_pgtable>>

\* init_hs, which puts the VM's table into hgatp, and init_vs.
init_hs(h) ==
    /\ runs(h, "init_hs")
    /\ next(h, "vm_enter")
    /\ UNCHANGED <<wb_vars, config, kmem_ready, cpu_mapped, satp, cpus, vcpus, vm_pgtable>>

\* VM_ENTER: the registers of the vcpu and sret.
vm_enter(h) ==
    /\ runs(h, "vm_enter")
    /\ next(h, "guest")
    /\ UNCHANGED <<wb_vars, config, kmem_ready, cpu_mapped, satp, cpus, vcpus, vm_pgtable>>
-----------------------------------------------------------------------------
\* The barrier of the call that precedes the code at pc[h].
bar(h) ==
    CASE pc[h] \in {"init_vmem", "toggle", "vm_run"} -> MainBar
      [] pc[h] = "init_vcpu" -> RunBar
      [] OTHER -> VmBar(vcpus[h].conf)

inside(h) ==
    /\ at[h] # "out"
    /\ wait_barrier(h, bar(h))
    /\ UNCHANGED boot_vars

hart(h) ==
    \/ setup(h) \/ enter_vas(h) \/ main(h) \/ init_vmem(h) \/ init_hart(h)
    \/ toggle(h) \/ vm_run(h) \/ init_vcpu(h) \/ init_hs_pgtable(h)
    \/ map_guest(h) \/ skip_pgtable(h) \/ init_hs(h) \/ vm_enter(h) \/ inside(h)

Next == \E h \in Harts : hart(h)

\* Every hart that was started keeps executing.
Fairness == \A h \in Harts : WF_vars(hart(h))

Spec == Init /\ [][Next]_vars /\ Fairness
-----------------------------------------------------------------------------
(***************************************************************************)
(* The barriers of main() order the steps of different harts so that no    *)
(* hart allocates before init_kmem and no mycpu() uses an address the      *)
(* hart's current page table does not map.  main.c:30, 33: "final page     *)
(* tables must be active on all harts", "do not allow any mycpu() call     *)
(* before toggling".                                                       *)
(***************************************************************************)
NoBootFault == \A h \in Harts : pc[h] # "fault"

(***************************************************************************)
(* A hart enters its guest only on a finished stage-2 table, and nobody    *)
(* writes the table of a VM one of whose harts has entered (vm_run.c:      *)
(* 167-176).                                                               *)
(***************************************************************************)
GuestsOnReadyTables ==
    \A h \in Harts : pc[h] = "guest" => vm_pgtable[vcpus[h].conf] = "ready"

(***************************************************************************)
(* One hart builds the table of a VM: vhartid 0 is unique among the harts  *)
(* that share a configuration (vm_run.c:167, vcpu.c:23-33).                *)
(***************************************************************************)
OneBuilder ==
    \A g, h \in Harts :
        g # h /\ vcpus[g].conf = vcpus[h].conf /\ vcpus[h].conf # 0
          => vcpus[g].vhartid # vcpus[h].vhartid

(***************************************************************************)
(* No hart starts to set up a guest under a configuration that             *)
(* check_cpu_configuration refuses, although only hart 0 checks (vm_run.c: *)
(* 159-163).                                                               *)
(***************************************************************************)
RefusedConfigStops ==
    ~ check_cpu_configuration(config, Cardinality(Harts)) =>
        \A h \in Harts : vcpus[h].conf = 0 /\ pc[h] # "no_way"

(***************************************************************************)
(* The panic in get_config_for_cpu is never reached.  vcpu.c:17: "No way   *)
(* (CPU configuration was already checked)".                               *)
(***************************************************************************)
NoWay == \A h \in Harts : pc[h] # "no_way"

\* The configuration gives exactly the existing harts, each to one VM.
WellAssigned ==
    /\ check_cpu_configuration(config, Cardinality(Harts))
    /\ \A i \in DOMAIN config : config[i].cpu_affinity \subseteq Harts

SingleLast ==
    \A g, h \in Harts :
        at[g] \in LastLabels /\ at[h] \in LastLabels /\ bar(g) = bar(h) => g = h

(***************************************************************************)
(* Under a good configuration all harts get to their guests, if no barrier *)
(* is hit by the race on tokens (lock.c:44).                               *)
(***************************************************************************)
AllGuestsRun ==
    ([]SingleLast /\ WellAssigned) => <>(\A h \in Harts : pc[h] = "guest")
=============================================================================
