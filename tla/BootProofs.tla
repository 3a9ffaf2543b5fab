------------------------------ MODULE BootProofs -----------------------------
(***************************************************************************)
(* What holds of Boot for every number of harts and every configuration:   *)
(* types, and a refused configuration stops the boot; for at most 32       *)
(* harts: one builder for each VM, and guests run on finished tables; for  *)
(* two harts: no mycpu() or kmalloc() faults on the way.                   *)
(***************************************************************************)
EXTENDS Boot, FiniteSetTheorems, Induction, TLAPS

N == Cardinality(Harts)

\* get_config_for_cpu takes hart h to belong to a VM of affinity aff.
Belongs(h, aff) == aff \cap ShiftedBits(h) # {}

\* The code behind the barrier of vm_run() and behind that of the VM.
AfterRun == {"init_vcpu", "pgtable", "map", "init_hs", "vm_enter", "guest", "no_way"}
InVm == {"init_hs", "vm_enter", "guest"}

(***************************************************************************)
(* What the pc of a hart says about the rest of its own state.             *)
(***************************************************************************)
Control(h) ==
    /\ at[h] # "out" => pc[h] \in {"init_vmem", "toggle", "vm_run", "init_vcpu", "init_hs"}
    /\ pc[h] \in {"toggle", "vm_run", "panic"} \cup AfterRun => satp[h] = "final" /\ cpus[h] = h
    /\ pc[h] \in {"off", "setup", "main", "init_vmem", "init_hart"} => satp[h] # "final"
    /\ vcpus[h].conf # 0 <=> pc[h] \in {"pgtable", "map"} \cup InVm
    /\ vcpus[h].conf # 0 =>
         /\ vcpus[h].conf \in DOMAIN config
         /\ Belongs(h, config[vcpus[h].conf].cpu_affinity)
         /\ vcpus[h].vhartid = get_vhartid(h, config[vcpus[h].conf].cpu_affinity)

ControlInv == \A h \in Harts : Control(h)

(***************************************************************************)
(* The lock of each barrier.  Hart 0 sets the locks of the VMs' barriers   *)
(* to 0 (init_vm_barriers), when nobody can be inside yet.                 *)
(***************************************************************************)
LockInv ==
    /\ \A h \in Harts : at[h] \in LockedLabels => locked[bar(h)] = 1
    /\ \A g, h \in Harts :
         at[g] \in LockedLabels /\ at[h] \in LockedLabels /\ bar(g) = bar(h) => g = h

-----------------------------------------------------------------------------
(***************************************************************************)
(* The barrier of vm_run() and those of the VMs are used once.  Took(b) is *)
(* the set of harts that have taken their token of b.  While it is smaller *)
(* than the number b was initialised with, tokens[b] is what is left and   *)
(* everybody in it is still inside.                                        *)
(***************************************************************************)
Taking == {"acquire1", "load_tokens", "store_tokens"}
Between == {"release1", "test_last", "wait_tokens"}

UsedRun(h) == pc[h] \in AfterRun \/ (pc[h] = "fault" /\ satp[h] = "final")

Reached(h, b) ==
    IF b = RunBar THEN UsedRun(h) ELSE pc[h] \in InVm /\ b = VmBar(vcpus[h].conf)

HasTaken(h, b) == Reached(h, b) /\ ~ (bar(h) = b /\ at[h] \in Taking)
Took(b) == {h \in Harts : HasTaken(h, b)}

Count(b) == IF b = RunBar THEN N ELSE count_set_bits(config[b[2]].cpu_affinity)

Waiting(b) ==
    /\ initial[b] = Count(b)
    /\ tokens[b] = Count(b) - Cardinality(Took(b))
    /\ \A h \in Harts : at[h] = "store_tokens" /\ bar(h) = b => reg[h] = tokens[b]
    /\ \A h \in Took(b) : bar(h) = b /\ at[h] \in Between

UsedOnce(b) == Cardinality(Took(b)) < Count(b) => Waiting(b)

\* Hart 0 has checked the configuration and set up the barriers of the VMs.
IsSetUp == UsedRun(0)

OnceInv ==
    /\ UsedOnce(RunBar)
    /\ IsSetUp => /\ check_cpu_configuration(config, N)
                  /\ \A i \in DOMAIN config : UsedOnce(VmBar(i))

Inv == TypeOK /\ ControlInv /\ LockInv /\ OnceInv

(***************************************************************************)
(* The hart that builds a table is past its barrier only once it is ready; *)
(* this needs OneBuilder, and so at most 32 harts.                         *)
(***************************************************************************)
TableInv ==
    \A h \in Harts :
        /\ pc[h] = "map" => vcpus[h].vhartid = 0
        /\ vcpus[h].vhartid = 0 /\ pc[h] \in InVm => vm_pgtable[vcpus[h].conf] = "ready"

-----------------------------------------------------------------------------
(***************************************************************************)
(* Constants: the barriers are different objects, and a configuration.     *)
(***************************************************************************)
LEMMA BarsApart ==
    /\ MainBar # RunBar
    /\ \A i : VmBar(i) # MainBar /\ VmBar(i) # RunBar /\ VmBar(i)[2] = i
    /\ \A i, j : VmBar(i) = VmBar(j) => i = j
    /\ MainBar \in Bars /\ RunBar \in Bars
    /\ \A i \in 1 .. MaxVms : VmBar(i) \in Bars
BY BootBars DEF MainBar, RunBar, VmBar

LEMMA HartNumbers ==
    /\ Harts \subseteq Nat
    /\ 0 \in Harts
    /\ N \in Nat
BY BootAssumption, FS_CardinalityType, FS_EmptySet DEF N

LEMMA BitsFinite == IsFiniteSet(0 .. 30) /\ IsFiniteSet(0 .. 31) /\ IsFiniteSet(0 .. 63)
<1>1. 0 \in Int /\ 30 \in Int /\ 31 \in Int /\ 63 \in Int
  OBVIOUS
<1> QED
  BY <1>1, FS_Interval, Zenon

LEMMA ConfigType ==
    ASSUME NEW c \in Configs
    PROVE  /\ c \in Seq(vm_config)
           /\ DOMAIN c = 1 .. Len(c)
           /\ Len(c) \in Nat
           /\ DOMAIN c \subseteq 1 .. MaxVms
           /\ \A i \in DOMAIN c : /\ c[i].cpu_affinity \subseteq 0 .. 63
                                  /\ IsFiniteSet(c[i].cpu_affinity)
<1>1. c \in Seq(vm_config) /\ Len(c) <= MaxVms /\ MaxVms \in Nat
  BY BootAssumption, ConfigAssumption
<1>2. DOMAIN c = 1 .. Len(c) /\ Len(c) \in Nat
  BY <1>1
<1>3. ASSUME NEW i \in DOMAIN c PROVE c[i].cpu_affinity \in SUBSET (0 .. 63)
  <2>1. c[i] \in vm_config
    BY <1>1, <1>2, <1>3
  <2> QED
    BY <2>1, Zenon DEF vm_config
<1>4. IsFiniteSet(0 .. 63)
  BY BitsFinite
<1>5. \A i \in DOMAIN c : IsFiniteSet(c[i].cpu_affinity)
  BY <1>3, <1>4, FS_Subset
<1>6. DOMAIN c \subseteq 1 .. MaxVms
  BY <1>1, <1>2
<1> QED
  BY <1>1, <1>2, <1>3, <1>5, <1>6, Zenon

LEMMA CountType ==
    ASSUME NEW num
    PROVE  count_set_bits(num) \in Nat
<1>1. IsFiniteSet(0 .. 30) /\ num \cap (0 .. 30) \in SUBSET (0 .. 30)
  BY BitsFinite, Zenon
<1>2. Cardinality(num \cap (0 .. 30)) \in Nat
  BY <1>1, FS_Subset, FS_CardinalityType
<1> QED
  BY <1>2 DEF count_set_bits

\* get_config_for_cpu: 0 or the index of a VM the hart belongs to.
LEMMA ConfigFor ==
    ASSUME NEW c \in Configs, NEW h
    PROVE  LET i == get_config_for_cpu(c, h)
           IN  i = 0 \/ (i \in DOMAIN c /\ Belongs(h, c[i].cpu_affinity))
<1> DEFINE I == ConfigsForCpu(c, h)
<1>1. I \in SUBSET Nat
  BY ConfigType DEF ConfigsForCpu
<1>2. ASSUME I # {} PROVE First(I) \in I
  <2>1. \E i \in I : \A j \in I : i <= j
    BY <1>1, <1>2, LeastNumber
  <2> QED
    BY <2>1 DEF First
<1> QED
  BY <1>2 DEF get_config_for_cpu, ConfigsForCpu, Belongs

LEMMA VhartidType ==
    ASSUME NEW c \in Configs, NEW i \in DOMAIN c, NEW h
    PROVE  get_vhartid(h, c[i].cpu_affinity) \in Nat
<1>1. {j \in c[i].cpu_affinity : j < h} \in SUBSET c[i].cpu_affinity
  OBVIOUS
<1> QED
  BY <1>1, ConfigType, FS_Subset, FS_CardinalityType DEF get_vhartid

\* get_vhartid numbers the harts of an affinity in their order.
LEMMA VhartidGrows ==
    ASSUME NEW c \in Configs, NEW i \in DOMAIN c,
           NEW g \in c[i].cpu_affinity, NEW h \in Nat, g < h
    PROVE  get_vhartid(g, c[i].cpu_affinity) # get_vhartid(h, c[i].cpu_affinity)
<1> DEFINE aff == c[i].cpu_affinity
           G == {j \in aff : j < g}
           H == {j \in aff : j < h}
<1>1. aff \subseteq 0 .. 63 /\ IsFiniteSet(aff)
  BY ConfigType, Zenon
<1>2. IsFiniteSet(H)
  BY <1>1, FS_Subset
<1>3. G \in SUBSET H /\ g \in H /\ g \notin G
  BY <1>1
<1>4. Cardinality(G) # Cardinality(H)
  BY <1>2, <1>3, FS_Subset
<1> QED
  BY <1>4 DEF get_vhartid

-----------------------------------------------------------------------------
(***************************************************************************)
(* Types and control, which need no barrier to work.                       *)
(***************************************************************************)
LEMMA BarType ==
    ASSUME TypeOK, ControlInv, NEW h \in Harts, at[h] # "out"
    PROVE  /\ bar(h) \in Bars
           /\ bar(h) = MainBar <=> pc[h] \in {"init_vmem", "toggle", "vm_run"}
           /\ bar(h) = RunBar <=> pc[h] = "init_vcpu"
           /\ pc[h] = "init_hs" <=> bar(h) \notin {MainBar, RunBar}
           /\ pc[h] = "init_hs" => bar(h) = VmBar(vcpus[h].conf)
<1>1. config \in Configs
  BY DEF TypeOK
<1>2. pc[h] \in {"init_vmem", "toggle", "vm_run", "init_vcpu", "init_hs"}
  BY DEF ControlInv, Control
<1>3. pc[h] = "init_hs" => vcpus[h].conf \in 1 .. MaxVms
  BY <1>1, ConfigType DEF ControlInv, Control, InVm
<1> QED
  BY <1>2, <1>3, BarsApart DEF bar

LEMMA InitTyped == Init => TypeOK /\ ControlInv
<1> SUFFICES ASSUME Init PROVE TypeOK /\ ControlInv
  OBVIOUS
<1>1. N \in Nat /\ MaxVms \in Nat
  BY HartNumbers, ConfigAssumption
<1> DEFINE cnt == [b \in Bars |-> IF b \in {MainBar, RunBar} THEN N ELSE 0]
<1>2. initial = cnt /\ tokens = cnt /\ cnt \in [Bars -> Nat]
  BY <1>1 DEF Init, BARRIER_INITIALIZER, N
<1>3. WB_TypeOK
  BY <1>2 DEF Init, BARRIER_INITIALIZER, WB_Init, WB_TypeOK, Labels
<1>4. PICK boot \in Harts : pc = [h \in Harts |-> IF h = boot THEN "setup" ELSE "off"]
  BY DEF Init
<1>5. vcpus \in [Harts -> [conf : 0 .. MaxVms, vhartid : Nat]]
  BY <1>1 DEF Init
<1>6. TypeOK
  BY <1>3, <1>4, <1>5 DEF Init, TypeOK, Pcs
<1>7. ControlInv
  BY <1>4 DEF Init, WB_Init, ControlInv, Control, AfterRun, InVm
<1> QED
  BY <1>6, <1>7
(***************************************************************************)
(* A step inside wait_barrier touches the hart and the barrier only.       *)
(***************************************************************************)
LEMMA InsideFrame ==
    ASSUME TypeOK, ControlInv, NEW x \in Harts, inside(x)
    PROVE  /\ UNCHANGED boot_vars
           /\ at[x] # "out"
           /\ WB_TypeOK'
           /\ \A h \in Harts : h # x => at'[h] = at[h] /\ reg'[h] = reg[h]
           /\ UNCHANGED initial
           /\ \A b \in Bars : b # bar(x) => /\ tokens'[b] = tokens[b]
                                            /\ passed'[b] = passed[b]
                                            /\ locked'[b] = locked[b]
<1>1. UNCHANGED boot_vars /\ at[x] # "out" /\ wait_barrier(x, bar(x))
  BY DEF inside
<1>2. bar(x) \in Bars
  BY <1>1, BarType
<1> DEFINE b == bar(x)
<1> HIDE DEF b
<1>3. WB_TypeOK /\ b \in Bars /\ wait_barrier(x, b)
  BY <1>1, <1>2 DEF TypeOK, b
<1>4. /\ WB_TypeOK'
      /\ \A h \in Harts : h # x => at'[h] = at[h] /\ reg'[h] = reg[h]
      /\ UNCHANGED initial
      /\ \A c \in Bars : c # b => /\ tokens'[c] = tokens[c]
                                  /\ passed'[c] = passed[c]
                                  /\ locked'[c] = locked[c]
  <2> USE <1>3 DEF WB_TypeOK, goto, Labels, LastLabels, LockedLabels, bar_vars
  <2>1. CASE acquire(x, b, "acquire1", "load_tokens")
    BY <2>1 DEF acquire
  <2>2. CASE load_tokens(x, b)
    BY <2>2 DEF load_tokens
  <2>3. CASE store_tokens(x, b)
    BY <2>3 DEF store_tokens
  <2>4. CASE release(x, b, "release1", "test_last")
    BY <2>4 DEF release
  <2>5. CASE test_last(x, b)
    BY <2>5 DEF test_last
  <2>6. CASE set_passed(x, b)
    BY <2>6 DEF set_passed
  <2>7. CASE reset_tokens(x, b)
    BY <2>7 DEF reset_tokens
  <2>8. CASE wait_passed(x, b)
    BY <2>8 DEF wait_passed
  <2>9. CASE wait_tokens(x, b)
    BY <2>9 DEF wait_tokens
  <2>10. CASE acquire(x, b, "acquire2", "load_passed")
    BY <2>10 DEF acquire
  <2>11. CASE load_passed(x, b)
    BY <2>11 DEF load_passed
  <2>12. CASE store_passed(x, b)
    BY <2>12 DEF store_passed
  <2>13. CASE release(x, b, "release2", "out")
    BY <2>13 DEF release
  <2> QED
    BY <1>3, <2>1, <2>2, <2>3, <2>4, <2>5, <2>6, <2>7, <2>8, <2>9, <2>10,
       <2>11, <2>12, <2>13 DEF wait_barrier
<1> QED
  BY <1>1, <1>4 DEF b

(***************************************************************************)
(* The steps of a hart outside wait_barrier, told apart by what they do to *)
(* the barriers: nothing, a call, or the work of hart 0 in vm_run().       *)
(***************************************************************************)
Quiet(x) ==
    \/ setup(x) \/ enter_vas(x) \/ init_vmem(x) \/ init_vcpu(x)
    \/ init_hs_pgtable(x) \/ init_hs(x) \/ vm_enter(x)
    \/ (init_hart(x) /\ ~ mycpu_ok(x))

Calls(x) ==
    \/ main(x) \/ (init_hart(x) /\ mycpu_ok(x)) \/ toggle(x) \/ map_guest(x)
    \/ skip_pgtable(x)

LEMMA StepKinds ==
    ASSUME NEW x, hart(x)
    PROVE  Quiet(x) \/ Calls(x) \/ vm_run(x) \/ inside(x)
BY DEF hart, Quiet, Calls

LEMMA QuietFrame ==
    ASSUME NEW x, Quiet(x)
    PROVE  UNCHANGED wb_vars /\ UNCHANGED config /\ at[x] = "out"
BY DEF Quiet, setup, enter_vas, init_vmem, init_vcpu, init_hs_pgtable, init_hs,
       vm_enter, init_hart, runs

LEMMA CallsFrame ==
    ASSUME NEW x, Calls(x)
    PROVE  /\ UNCHANGED <<initial, tokens, passed, locked, reg>>
           /\ UNCHANGED config
           /\ at[x] = "out" /\ at' = [at EXCEPT ![x] = "acquire1"]
BY DEF Calls, main, init_hart, toggle, map_guest, skip_pgtable, runs,
       call_wait_barrier, goto

LEMMA VmRunTyped ==
    ASSUME TypeOK, NEW x \in Harts, vm_run(x)
    PROVE  WB_TypeOK'
<1>1. config \in Configs /\ WB_TypeOK
  BY DEF TypeOK
<1>2. at' \in [Harts -> Labels] /\ reg' \in [Harts -> Int]
  BY <1>1 DEF vm_run, WB_TypeOK, goto, Labels
<1>3. CASE x # 0
  BY <1>1, <1>2, <1>3 DEF vm_run, bar_vars, WB_TypeOK
<1>4. CASE x = 0
  <2> DEFINE count == [b \in VmBars |-> count_set_bits(config[b[2]].cpu_affinity)]
  <2>1. \A b \in VmBars : count[b] \in Nat
    BY CountType
  <2>2. init_barrier(VmBars, count)
    BY <1>4 DEF vm_run, init_vm_barriers
  <2> HIDE DEF count
  <2> QED
    BY <1>1, <1>2, <2>1, <2>2 DEF init_barrier, WB_TypeOK
<1> QED
  BY <1>3, <1>4

(***************************************************************************)
(* Outside wait_barrier one hart moves: the one that steps, or the one it  *)
(* starts.                                                                 *)
(***************************************************************************)
OthersKeep(y) ==
    \A h \in Harts : h # y => /\ pc'[h] = pc[h] /\ at'[h] = at[h] /\ satp'[h] = satp[h]
                              /\ cpus'[h] = cpus[h] /\ vcpus'[h] = vcpus[h]

Moves(y) ==
    \/ /\ pc[y] \in {"off", "setup"} /\ pc'[y] = "main" /\ at'[y] = "out"
       /\ satp'[y] = "bsp" /\ cpus'[y] = cpus[y] /\ vcpus'[y] = vcpus[y]
    \/ /\ pc[y] = "init_hart" /\ pc'[y] = "toggle" /\ at'[y] = "acquire1"
       /\ satp'[y] = "final" /\ cpus'[y] = y /\ vcpus'[y] = vcpus[y]
    \/ /\ pc[y] = "init_vcpu" /\ pc'[y] = "pgtable" /\ at'[y] = "out"
       /\ satp'[y] = satp[y] /\ cpus'[y] = cpus[y]
       /\ vcpus'[y].conf # 0
       /\ vcpus'[y].conf \in DOMAIN config
       /\ Belongs(y, config[vcpus'[y].conf].cpu_affinity)
       /\ vcpus'[y].vhartid = get_vhartid(y, config[vcpus'[y].conf].cpu_affinity)
    \/ /\ satp'[y] = satp[y] /\ cpus'[y] = cpus[y] /\ vcpus'[y] = vcpus[y]
       /\ \/ /\ at'[y] = "acquire1"
             /\ \/ pc[y] = "main" /\ pc'[y] = "init_vmem"
                \/ pc[y] = "toggle" /\ pc'[y] = "vm_run"
                \/ pc[y] = "vm_run" /\ pc'[y] = "init_vcpu"
                \/ pc[y] \in {"pgtable", "map"} /\ pc'[y] = "init_hs"
          \/ /\ at'[y] = "out"
             /\ \/ pc[y] = "init_vmem" /\ pc'[y] \in {"init_hart", "fault"}
                \/ pc[y] = "init_hart" /\ pc'[y] = "fault"
                \/ pc[y] = "vm_run" /\ pc'[y] = "panic"
                \/ pc[y] = "init_vcpu" /\ pc'[y] \in {"no_way", "fault"}
                \/ pc[y] = "pgtable" /\ pc'[y] = "map"
                \/ pc[y] = "init_hs" /\ pc'[y] = "vm_enter"
                \/ pc[y] = "vm_enter" /\ pc'[y] = "guest"

OneMoves(y) == y \in Harts /\ at[y] = "out" /\ OthersKeep(y) /\ Moves(y) /\ UNCHANGED <<config, reg>>

LEMMA OutsideMoves ==
    ASSUME TypeOK, ControlInv, NEW x \in Harts, Quiet(x) \/ Calls(x) \/ vm_run(x)
    PROVE  /\ TypeOK'
           /\ \E y : OneMoves(y) /\ (y = x \/ (setup(x) /\ pc[y] = "off"))
<1>1. WB_TypeOK'
  BY QuietFrame, CallsFrame, VmRunTyped DEF TypeOK, WB_TypeOK, wb_vars, Labels
<1> USE <1>1 DEF runs, next
<1>2. CASE setup(x)
  <2>1. PICK g \in Harts : /\ pc[g] = "off"
                           /\ pc' = [pc EXCEPT ![g] = "main"]
                           /\ satp' = [satp EXCEPT ![g] = "bsp"]
    BY <1>2 DEF setup
  <2>2. UNCHANGED <<wb_vars, config, kmem_ready, cpu_mapped, cpus, vcpus, vm_pgtable>>
    BY <1>2 DEF setup
  <2>3. at[g] = "out"
    BY <2>1 DEF ControlInv, Control
  <2>4. TypeOK'
    BY <2>1, <2>2 DEF TypeOK, Pcs
  <2>5. OneMoves(g)
    BY <2>1, <2>2, <2>3 DEF TypeOK, OneMoves, OthersKeep, Moves, wb_vars
  <2> QED
    BY <1>2, <2>1, <2>4, <2>5
<1>3. CASE enter_vas(x)
  BY <1>3 DEF enter_vas, TypeOK, Pcs, OneMoves, OthersKeep, Moves, wb_vars
<1>4. CASE main(x)
  <2>1. TypeOK'
    BY <1>4 DEF main, TypeOK, Pcs
  <2>2. at' = [at EXCEPT ![x] = "acquire1"] /\ UNCHANGED reg /\ at \in [Harts -> Labels]
    BY <1>4, CallsFrame DEF Calls, TypeOK, WB_TypeOK
  <2>3. OneMoves(x)
    BY <1>4, <2>2 DEF main, TypeOK, OneMoves, OthersKeep, Moves
  <2> QED
    BY <2>1, <2>3
<1>5. CASE init_vmem(x)
  <2>1. pc' = [pc EXCEPT ![x] = "init_hart"] \/ pc' = [pc EXCEPT ![x] = "fault"]
    BY <1>5 DEF init_vmem, fault
  <2>2. UNCHANGED <<wb_vars, config, kmem_ready, cpu_mapped, satp, cpus, vcpus, vm_pgtable>>
        /\ pc[x] = "init_vmem" /\ at[x] = "out"
    BY <1>5 DEF init_vmem
  <2> QED
    BY <2>1, <2>2 DEF TypeOK, Pcs, Stops, OneMoves, OthersKeep, Moves, wb_vars
<1>6. CASE init_hart(x) /\ mycpu_ok(x)
  <2>0. cpus' \in [Harts -> Harts \cup {-1}]
    BY <1>6 DEF init_hart, TypeOK
  <2>1. TypeOK'
    BY <1>6, <2>0 DEF init_hart, TypeOK, Pcs
  <2>2. at' = [at EXCEPT ![x] = "acquire1"] /\ UNCHANGED reg /\ at \in [Harts -> Labels]
    BY <1>6, CallsFrame DEF Calls, TypeOK, WB_TypeOK
  <2>3. OneMoves(x)
    BY <1>6, <2>2 DEF init_hart, TypeOK, OneMoves, OthersKeep, Moves
  <2> QED
    BY <2>1, <2>3
<1>7. CASE init_hart(x) /\ ~ mycpu_ok(x)
  BY <1>7 DEF init_hart, fault, TypeOK, Pcs, Stops, OneMoves, OthersKeep, Moves, wb_vars
<1>8. CASE toggle(x)
  <2>1. TypeOK'
    BY <1>8 DEF toggle, TypeOK, Pcs
  <2>2. at' = [at EXCEPT ![x] = "acquire1"] /\ UNCHANGED reg /\ at \in [Harts -> Labels]
    BY <1>8, CallsFrame DEF Calls, TypeOK, WB_TypeOK
  <2>3. OneMoves(x)
    BY <1>8, <2>2 DEF toggle, TypeOK, OneMoves, OthersKeep, Moves
  <2> QED
    BY <2>1, <2>3
<1>9. CASE vm_run(x)
  <2>1. \/ pc' = [pc EXCEPT ![x] = "panic"] /\ UNCHANGED at
        \/ pc' = [pc EXCEPT ![x] = "init_vcpu"] /\ at' = [at EXCEPT ![x] = "acquire1"]
    BY <1>9 DEF vm_run, goto
  <2>2. UNCHANGED <<reg, config, kmem_ready, cpu_mapped, satp, cpus, vcpus, vm_pgtable>>
        /\ pc[x] = "vm_run" /\ at[x] = "out"
    BY <1>9 DEF vm_run
  <2> QED
    BY <2>1, <2>2 DEF TypeOK, WB_TypeOK, Pcs, Stops, OneMoves, OthersKeep, Moves
<1>10. CASE init_vcpu(x)
  <2> DEFINE i == get_config_for_cpu(config, cpus[x])
             v == get_vhartid(cpus[x], config[i].cpu_affinity)
  <2>1. cpus[x] = x /\ config \in Configs
    BY <1>10 DEF init_vcpu, ControlInv, Control, AfterRun, TypeOK
  <2>2. i = 0 \/ (i \in DOMAIN config /\ Belongs(x, config[i].cpu_affinity))
    BY <2>1, ConfigFor
  <2>3. i # 0 => i \in 1 .. MaxVms /\ v \in Nat /\ v = get_vhartid(x, config[i].cpu_affinity)
    BY <2>1, <2>2, ConfigType, VhartidType
  <2>4. \/ /\ i # 0
           /\ vcpus' = [vcpus EXCEPT ![x] = [conf |-> i, vhartid |-> v]]
           /\ pc' = [pc EXCEPT ![x] = "pgtable"]
        \/ /\ pc' = [pc EXCEPT ![x] = "no_way"] \/ pc' = [pc EXCEPT ![x] = "fault"]
           /\ UNCHANGED vcpus
    BY <1>10, Zenon DEF init_vcpu, fault
  <2>5. UNCHANGED <<wb_vars, config, kmem_ready, cpu_mapped, satp, cpus, vm_pgtable>>
        /\ pc[x] = "init_vcpu" /\ at[x] = "out"
    BY <1>10, Zenon DEF init_vcpu
  <2> HIDE DEF i, v
  <2>a. vcpus' \in [Harts -> [conf : 0 .. MaxVms, vhartid : Nat]]
    <3>1. i # 0 => [conf |-> i, vhartid |-> v] \in [conf : 0 .. MaxVms, vhartid : Nat]
      BY <2>3, ConfigAssumption
    <3> QED
      BY <2>4, <3>1 DEF TypeOK
  <2>b. pc' \in [Harts -> Pcs]
    BY <2>4 DEF TypeOK, Pcs, Stops
  <2>6. TypeOK'
    BY <2>5, <2>a, <2>b DEF TypeOK
  <2>7. OneMoves(x)
    BY <2>2, <2>3, <2>4, <2>5 DEF TypeOK, OneMoves, OthersKeep, Moves, wb_vars
  <2> QED
    BY <2>6, <2>7
<1>11. CASE init_hs_pgtable(x)
  BY <1>11 DEF init_hs_pgtable, TypeOK, Pcs, OneMoves, OthersKeep, Moves, wb_vars
<1>12. CASE map_guest(x)
  <2>1. TypeOK'
    BY <1>12 DEF map_guest, TypeOK, Pcs
  <2>2. at' = [at EXCEPT ![x] = "acquire1"] /\ UNCHANGED reg /\ at \in [Harts -> Labels]
    BY <1>12, CallsFrame DEF Calls, TypeOK, WB_TypeOK
  <2>3. OneMoves(x)
    BY <1>12, <2>2 DEF map_guest, TypeOK, OneMoves, OthersKeep, Moves
  <2> QED
    BY <2>1, <2>3
<1>13. CASE skip_pgtable(x)
  <2>1. TypeOK'
    BY <1>13 DEF skip_pgtable, TypeOK, Pcs
  <2>2. at' = [at EXCEPT ![x] = "acquire1"] /\ UNCHANGED reg /\ at \in [Harts -> Labels]
    BY <1>13, CallsFrame DEF Calls, TypeOK, WB_TypeOK
  <2>3. OneMoves(x)
    BY <1>13, <2>2 DEF skip_pgtable, TypeOK, OneMoves, OthersKeep, Moves
  <2> QED
    BY <2>1, <2>3
<1>14. CASE init_hs(x)
  BY <1>14 DEF init_hs, TypeOK, Pcs, OneMoves, OthersKeep, Moves, wb_vars
<1>15. CASE vm_enter(x)
  BY <1>15 DEF vm_enter, TypeOK, Pcs, OneMoves, OthersKeep, Moves, wb_vars
<1> QED
  BY <1>2, <1>3, <1>4, <1>5, <1>6, <1>7, <1>8, <1>9, <1>10, <1>11, <1>12, <1>13, <1>14,
     <1>15 DEF Quiet, Calls

LEMMA MovesControl ==
    ASSUME TypeOK, ControlInv, NEW y, OneMoves(y)
    PROVE  ControlInv'
<1> SUFFICES ASSUME NEW h \in Harts PROVE Control(h)'
  BY DEF ControlInv
<1>1. CASE h # y
  BY <1>1 DEF ControlInv, Control, OneMoves, OthersKeep
<1>2. CASE h = y
  BY <1>2 DEF ControlInv, Control, OneMoves, Moves, AfterRun, InVm
<1> QED
  BY <1>1, <1>2

LEMMA TypedStep == TypeOK /\ ControlInv /\ [Next]_vars => TypeOK' /\ ControlInv'
<1> SUFFICES ASSUME TypeOK, ControlInv, [Next]_vars PROVE TypeOK' /\ ControlInv'
  OBVIOUS
<1>1. ASSUME NEW x \in Harts, inside(x) PROVE TypeOK' /\ ControlInv'
  <2>1. UNCHANGED boot_vars /\ WB_TypeOK'
    BY <1>1, InsideFrame
  <2>2. TypeOK'
    BY <2>1 DEF TypeOK, boot_vars
  <2>3. ControlInv'
    BY <1>1, <2>1, InsideFrame DEF ControlInv, Control, boot_vars
  <2> QED
    BY <2>2, <2>3
<1>2. ASSUME NEW x \in Harts, Quiet(x) \/ Calls(x) \/ vm_run(x) PROVE TypeOK' /\ ControlInv'
  BY <1>2, OutsideMoves, MovesControl
<1>3. CASE UNCHANGED vars
  BY <1>3 DEF vars, TypeOK, WB_TypeOK, ControlInv, Control
<1> QED
  BY <1>1, <1>2, <1>3, StepKinds DEF Next

(***************************************************************************)
(* Every run of the boot has the types of its variables, whatever the      *)
(* number of harts and the configuration.                                  *)
(***************************************************************************)
THEOREM BootTypes == Spec => []TypeOK
BY InitTyped, TypedStep, PTL DEF Spec

\* Of the first 31 harts each belongs to the VM that has its bit and to no other.
LEMMA LowShift ==
    /\ \A h \in 0 .. 30 : ShiftedBits(h) = {h}
    /\ ShiftedBits(31) = 31 .. 63
BY DEF ShiftedBits

LEMMA ControlOneBuilder == ASSUME N <= 32 PROVE TypeOK /\ ControlInv => OneBuilder
<1>0. ASSUME TypeOK, ControlInv, NEW g \in Harts, NEW h \in Harts, g < h,
             vcpus[g].conf = vcpus[h].conf, vcpus[h].conf # 0
      PROVE  vcpus[g].vhartid # vcpus[h].vhartid
  <2> DEFINE i == vcpus[h].conf
             aff == config[i].cpu_affinity
  <2>1. /\ i \in DOMAIN config /\ config \in Configs
        /\ Belongs(g, aff) /\ vcpus[g].vhartid = get_vhartid(g, aff)
        /\ vcpus[h].vhartid = get_vhartid(h, aff)
    BY <1>0 DEF TypeOK, ControlInv, Control
  <2>2. g \in 0 .. 30 /\ h \in Nat
    <3>1. g \in 0 .. N - 1 /\ h \in 0 .. N - 1
      BY BootAssumption DEF N
    <3> QED
      BY <1>0, <3>1, HartNumbers
  <2>3. g \in aff
    BY <2>1, <2>2, LowShift DEF Belongs
  <2> QED
    BY <1>0, <2>1, <2>2, <2>3, VhartidGrows
<1> SUFFICES ASSUME TypeOK, ControlInv, NEW g \in Harts, NEW h \in Harts, g # h,
                    vcpus[g].conf = vcpus[h].conf, vcpus[h].conf # 0
             PROVE  vcpus[g].vhartid # vcpus[h].vhartid
  BY DEF OneBuilder
<1>1. g < h \/ h < g
  BY HartNumbers
<1> QED
  BY <1>0, <1>1

(***************************************************************************)
(* One hart builds the table of a VM, for every affinity, on a board of at *)
(* most 32 harts (vm_run.c:167, get_config_for_cpu and get_vhartid of      *)
(* vcpu.c:11-33).  The bound is that of the int shift at vcpu.c:15: hart   *)
(* 31 finds the VMs of bits 31 to 63 and hart h + 32 those of hart h, so   *)
(* on a larger board two harts may get the same VM and vhartid: harts 31   *)
(* and 32 with the affinity {0, 32}, harts 31 and 63 with {63}.            *)
(***************************************************************************)
THEOREM BootOneBuilder ==
    ASSUME N <= 32
    PROVE  Spec => []OneBuilder
BY InitTyped, TypedStep, ControlOneBuilder, PTL DEF Spec

-----------------------------------------------------------------------------
(***************************************************************************)
(* One use of a barrier by any number of harts.                            *)
(***************************************************************************)
LEMMA TookFinite ==
    ASSUME NEW b
    PROVE  /\ IsFiniteSet(Took(b))
           /\ Cardinality(Took(b)) \in Nat
           /\ Took(b) # {} => Cardinality(Took(b)) > 0
           /\ \A h \in Harts : h \notin Took(b) => Cardinality(Took(b)) < N
<1>1. Took(b) \in SUBSET Harts /\ IsFiniteSet(Harts)
  BY BootAssumption DEF Took
<1>2. IsFiniteSet(Took(b)) /\ Cardinality(Took(b)) <= Cardinality(Harts)
      /\ (Cardinality(Harts) = Cardinality(Took(b)) => Harts = Took(b))
  BY <1>1, FS_Subset
<1>3. Cardinality(Took(b)) \in Nat /\ Cardinality(Harts) \in Nat
  BY <1>1, <1>2, FS_CardinalityType
<1>4. Took(b) # {} => Cardinality(Took(b)) # 0
  BY <1>2, FS_EmptySet
<1> QED
  BY <1>2, <1>3, <1>4 DEF N

LEMMA TookGrows ==
    ASSUME NEW b, \A h \in Harts : HasTaken(h, b) => HasTaken(h, b)'
    PROVE  /\ IsFiniteSet(Took(b)')
           /\ Cardinality(Took(b)') \in Nat
           /\ Cardinality(Took(b)) <= Cardinality(Took(b)')
<1>1. Took(b)' \in SUBSET Harts /\ IsFiniteSet(Harts) /\ Took(b) \in SUBSET Took(b)'
  BY BootAssumption DEF Took
<1>2. IsFiniteSet(Took(b)')
  BY <1>1, FS_Subset
<1> QED
  BY <1>1, <1>2, FS_Subset, FS_CardinalityType

LEMMA CountNat ==
    ASSUME NEW b
    PROVE  Count(b) \in Nat
BY HartNumbers, CountType DEF Count

\* A hart inside the barrier has reached it.
LEMMA InsideReached ==
    ASSUME TypeOK, ControlInv, NEW h \in Harts, at[h] # "out", bar(h) # MainBar
    PROVE  Reached(h, bar(h))
<1>1. CASE pc[h] = "init_vcpu"
  BY <1>1, BarType DEF Reached, UsedRun, AfterRun
<1>2. CASE pc[h] # "init_vcpu"
  <2>1. pc[h] = "init_hs" /\ bar(h) = VmBar(vcpus[h].conf) /\ bar(h) # RunBar
    BY <1>2, BarType
  <2> QED
    BY <2>1 DEF Reached, InVm
<1> QED
  BY <1>1, <1>2

LEMMA InsideOnce ==
    ASSUME TypeOK, ControlInv, LockInv, NEW x \in Harts, inside(x),
           NEW b \in Bars, b # MainBar, UsedOnce(b)
    PROVE  UsedOnce(b)'
<1>1. UNCHANGED boot_vars /\ at[x] # "out" /\ wait_barrier(x, bar(x)) /\ UNCHANGED initial
  BY InsideFrame DEF inside
<1>2. \A h \in Harts : h # x => at'[h] = at[h] /\ reg'[h] = reg[h]
  BY InsideFrame
<1>3. Count(b)' = Count(b) /\ Count(b) \in Nat
  BY <1>1, CountNat DEF Count, boot_vars
<1>4. \A h \in Harts : bar(h)' = bar(h) /\ (Reached(h, b)' <=> Reached(h, b))
  BY <1>1 DEF bar, Reached, UsedRun, boot_vars
<1>5. \A h \in Harts : h # x => (HasTaken(h, b)' <=> HasTaken(h, b))
  BY <1>2, <1>4 DEF HasTaken
<1>6. Cardinality(Took(b)) \in Nat /\ (Took(b) # {} => Cardinality(Took(b)) > 0)
  BY TookFinite
<1>7. CASE bar(x) # b
  <2>1. Took(b)' = Took(b)
    BY <1>4, <1>5, <1>7 DEF HasTaken, Took
  <2>2. tokens'[b] = tokens[b]
    BY <1>7, InsideFrame
  <2>3. Waiting(b) => Waiting(b)'
    <3> SUFFICES ASSUME Waiting(b) PROVE Waiting(b)'
      OBVIOUS
    <3>1. \A h \in Harts : bar(h)' = b => h # x
      BY <1>4, <1>7
    <3>2. \A h \in Harts : (at[h] = "store_tokens" /\ bar(h) = b => reg[h] = tokens[b])'
      BY <1>2, <1>4, <2>2, <3>1 DEF Waiting
    <3>3. \A h \in Took(b)' : bar(h)' = b /\ at'[h] \in Between
      BY <1>2, <1>4, <1>7, <2>1 DEF Waiting, Took
    <3> QED
      BY <1>1, <1>3, <2>1, <2>2, <3>2, <3>3 DEF Waiting
  <2> QED
    BY <1>3, <2>1, <2>3 DEF UsedOnce
<1>8. CASE bar(x) = b
  <2>1. WB_TypeOK /\ wait_barrier(x, b) /\ Reached(x, b)
    BY <1>1, <1>8, InsideReached DEF TypeOK
  <2>2. CASE store_tokens(x, b)
    <3>1. at[x] = "store_tokens" /\ at'[x] = "release1" /\ tokens'[b] = reg[x] - 1
      BY <2>1, <2>2 DEF store_tokens, goto, WB_TypeOK
    <3>2. ~ HasTaken(x, b) /\ HasTaken(x, b)'
      BY <1>4, <1>8, <2>1, <3>1 DEF HasTaken, Taking
    <3>3. Took(b)' = Took(b) \cup {x} /\ x \notin Took(b)
      BY <1>5, <3>2 DEF Took
    <3>4. Cardinality(Took(b)') = Cardinality(Took(b)) + 1
      BY <3>3, TookFinite, FS_AddElement
    <3> SUFFICES ASSUME Cardinality(Took(b)') < Count(b) PROVE Waiting(b)'
      BY <1>3 DEF UsedOnce
    <3>5. Waiting(b)
      BY <1>3, <1>6, <3>4 DEF UsedOnce
    <3>6. tokens'[b] = Count(b) - Cardinality(Took(b)')
      BY <1>3, <1>6, <1>8, <3>1, <3>4, <3>5 DEF Waiting
    <3>7. \A h \in Harts : ~ (at'[h] = "store_tokens" /\ bar(h)' = b)
      BY <1>2, <1>4, <1>8, <3>1 DEF LockInv, LockedLabels
    <3>8. \A h \in Took(b)' : bar(h)' = b /\ at'[h] \in Between
      BY <1>2, <1>4, <1>8, <3>1, <3>3, <3>5 DEF Waiting, Between, Took
    <3> QED
      BY <1>1, <1>3, <3>5, <3>6, <3>7, <3>8 DEF Waiting
  <2>3. CASE ~ store_tokens(x, b) /\ Cardinality(Took(b)) < Count(b)
    <3>1. Waiting(b)
      BY <2>3 DEF UsedOnce
    <3>2. tokens[b] # 0 /\ (x \in Took(b) => tokens[b] # initial[b])
      BY <1>3, <1>6, <2>3, <3>1 DEF Waiting
    <3>3. at[x] \in Taking \cup Between
      BY <1>8, <2>1, <3>1 DEF Waiting, Took, HasTaken
    <3>4. at[x] \in Between <=> x \in Took(b)
      BY <1>8, <2>1, <3>3 DEF Took, HasTaken, Taking, Between
    <3>5. \/ acquire(x, b, "acquire1", "load_tokens")
          \/ load_tokens(x, b)
          \/ release(x, b, "release1", "test_last")
          \/ test_last(x, b) /\ at'[x] = "wait_tokens"
      BY <2>1, <2>3, <3>2, <3>3, <3>4
         DEF WB_TypeOK, Taking, Between, wait_barrier, acquire, load_tokens, release,
             test_last, set_passed, reset_tokens, wait_passed, wait_tokens, load_passed,
             store_passed, LAST_HART, goto
    <3>6. /\ UNCHANGED tokens
          /\ at'[x] \in Taking <=> at[x] \in Taking
          /\ at'[x] \in Between <=> at[x] \in Between
          /\ at'[x] = "store_tokens" => reg'[x] = tokens[b]
      BY <2>1, <3>3, <3>5
         DEF WB_TypeOK, Taking, Between, acquire, load_tokens, release, test_last, goto,
             bar_vars
    <3>7. Took(b)' = Took(b)
      BY <1>4, <1>5, <3>6 DEF HasTaken, Took
    <3>8. \A h \in Harts : (at[h] = "store_tokens" /\ bar(h) = b => reg[h] = tokens[b])'
      BY <1>2, <1>4, <3>1, <3>6 DEF Waiting
    <3>9. \A h \in Took(b)' : bar(h)' = b /\ at'[h] \in Between
      BY <1>2, <1>4, <3>1, <3>6, <3>7 DEF Waiting, Took
    <3> QED
      BY <1>1, <1>3, <3>1, <3>6, <3>7, <3>8, <3>9 DEF Waiting, UsedOnce
  <2>4. CASE ~ store_tokens(x, b) /\ ~ (Cardinality(Took(b)) < Count(b))
    <3>1. HasTaken(x, b) => at[x] \notin Taking
      BY <1>8 DEF HasTaken
    <3>2. at[x] \notin Taking => at'[x] \notin Taking
      BY <2>1, <2>4
         DEF WB_TypeOK, Taking, wait_barrier, acquire, load_tokens, store_tokens, release,
             test_last, set_passed, reset_tokens, wait_passed, wait_tokens, load_passed,
             store_passed, goto
    <3>3. \A h \in Harts : HasTaken(h, b) => HasTaken(h, b)'
      BY <1>4, <1>5, <2>1, <3>1, <3>2 DEF HasTaken
    <3>4. ~ (Cardinality(Took(b)') < Count(b))
      BY <1>3, <1>6, <2>4, <3>3, TookGrows
    <3> QED
      BY <1>3, <3>4 DEF UsedOnce
  <2> QED
    BY <2>2, <2>3, <2>4
<1> QED
  BY <1>7, <1>8

\* The same, for a hart that moves outside the barrier.
LEMMA OutsideKept ==
    ASSUME TypeOK, NEW y \in Harts, NEW b, UsedOnce(b),
           Count(b)' = Count(b), tokens'[b] = tokens[b], initial'[b] = initial[b],
           UNCHANGED reg, at[y] = "out", at'[y] \in {"out", "acquire1"},
           \A h \in Harts : h # y => at'[h] = at[h] /\ bar(h)' = bar(h),
           \A h \in Harts : HasTaken(h, b)' <=> HasTaken(h, b)
    PROVE  UsedOnce(b)'
<1>1. Took(b)' = Took(b)
  BY DEF Took
<1> SUFFICES ASSUME Waiting(b) PROVE Waiting(b)'
  BY <1>1 DEF UsedOnce
<1>2. y \notin Took(b)
  BY DEF Waiting, Between
<1>3. \A h \in Took(b)' : bar(h)' = b /\ at'[h] \in Between
  BY <1>1, <1>2 DEF Waiting, Took
<1>4. \A h \in Harts : (at[h] = "store_tokens" /\ bar(h) = b => reg[h] = tokens[b])'
  BY DEF Waiting
<1> QED
  BY <1>1, <1>3, <1>4 DEF Waiting

LEMMA OutsideOnce ==
    ASSUME TypeOK, ControlInv, NEW y, OneMoves(y),
           NEW b \in Bars, b # MainBar, b = RunBar \/ \E i : b = VmBar(i),
           tokens'[b] = tokens[b], initial'[b] = initial[b], UsedOnce(b)
    PROVE  UsedOnce(b)'
<1>1. Count(b)' = Count(b) /\ Count(b) \in Nat
  BY CountNat DEF Count, OneMoves
<1>2. \A h \in Harts : h # y =>
        /\ at'[h] = at[h] /\ bar(h)' = bar(h)
        /\ (Reached(h, b)' <=> Reached(h, b)) /\ (HasTaken(h, b)' <=> HasTaken(h, b))
  BY DEF bar, Reached, UsedRun, HasTaken, OneMoves, OthersKeep
<1>3. y \in Harts /\ at[y] = "out" /\ at'[y] \in {"out", "acquire1"} /\ UNCHANGED reg
  BY DEF OneMoves, Moves
<1> USE BarsApart
    DEF OneMoves, Moves, Reached, UsedRun, AfterRun, InVm, ControlInv, Control, bar, Taking
<1>4. CASE b = RunBar
  <2>1. HasTaken(y, b) => HasTaken(y, b)'
    BY <1>3, <1>4 DEF HasTaken
  <2>2. ~ HasTaken(y, b) => ~ HasTaken(y, b)'
    BY <1>3, <1>4 DEF HasTaken
  <2> QED
    BY <1>1, <1>2, <1>3, <2>1, <2>2, OutsideKept
<1>5. CASE \E i : b = VmBar(i)
  <2>0. b # RunBar
    BY <1>5
  <2>1. HasTaken(y, b) => HasTaken(y, b)'
    BY <1>3, <2>0 DEF HasTaken
  <2>2. ~ HasTaken(y, b) => ~ HasTaken(y, b)'
    BY <1>3, <2>0 DEF HasTaken
  <2> QED
    BY <1>1, <1>2, <1>3, <2>1, <2>2, OutsideKept
<1> QED
  BY <1>4, <1>5

(***************************************************************************)
(* Until hart 0 has taken its token of the barrier of vm_run() nobody gets *)
(* through it.                                                             *)
(***************************************************************************)
LEMMA NobodyThrough ==
    ASSUME TypeOK, ControlInv, UsedOnce(RunBar), NEW g \in Harts, ~ HasTaken(g, RunBar),
           NEW h \in Harts
    PROVE  /\ pc[h] \in AfterRun => pc[h] = "init_vcpu" /\ at[h] # "out"
           /\ vcpus[h].conf = 0
           /\ at[h] # "out" => \A i : bar(h) # VmBar(i)
           /\ ~ (pc[h] = "fault" /\ satp[h] = "final")
<1>1. g \notin Took(RunBar)
  BY DEF Took
<1>2. Waiting(RunBar)
  BY <1>1, TookFinite DEF UsedOnce, Count
<1>3. HasTaken(h, RunBar) => at[h] \in Between /\ pc[h] = "init_vcpu"
  <2>1. HasTaken(h, RunBar) => at[h] \in Between /\ bar(h) = RunBar
    BY <1>2 DEF Waiting, Took
  <2> QED
    BY <2>1, BarType DEF Between
<1>4. Reached(h, RunBar) => pc[h] = "init_vcpu" /\ at[h] # "out"
  <2>1. Reached(h, RunBar) /\ at[h] \in Taking => HasTaken(h, RunBar) \/ bar(h) = RunBar
    BY DEF HasTaken
  <2>2. Reached(h, RunBar) /\ at[h] \notin Taking => HasTaken(h, RunBar)
    BY DEF HasTaken
  <2> QED
    BY <1>3, <2>1, <2>2, BarType DEF Between, Taking
<1>5. /\ pc[h] \in AfterRun => pc[h] = "init_vcpu" /\ at[h] # "out"
      /\ ~ (pc[h] = "fault" /\ satp[h] = "final")
  BY <1>4 DEF Reached, UsedRun
<1>6. vcpus[h].conf = 0
  BY <1>5 DEF ControlInv, Control, AfterRun, InVm
<1>7. ASSUME at[h] # "out", NEW i PROVE bar(h) # VmBar(i)
  <2>1. pc[h] # "init_hs"
    BY <1>5 DEF AfterRun
  <2> QED
    BY <1>7, <2>1, BarType, BarsApart
<1> QED
  BY <1>5, <1>6, <1>7

-----------------------------------------------------------------------------
(***************************************************************************)
(* The locks of the barriers.                                              *)
(***************************************************************************)
LEMMA InsideLock ==
    ASSUME TypeOK, ControlInv, LockInv, NEW x \in Harts, inside(x)
    PROVE  LockInv'
<1>1. UNCHANGED boot_vars /\ at[x] # "out" /\ wait_barrier(x, bar(x))
  BY DEF inside
<1>2. \A h \in Harts : h # x => at'[h] = at[h]
  BY InsideFrame
<1>3. \A h \in Harts : bar(h)' = bar(h) /\ (at[h] # "out" => bar(h) \in Bars)
  BY <1>1, BarType DEF bar, boot_vars
<1> DEFINE b == bar(x)
<1>4. b \in Bars /\ WB_TypeOK /\ wait_barrier(x, b) /\ \A h \in Harts : h # x => at'[h] = at[h]
  BY <1>1, <1>2, <1>3 DEF TypeOK
<1> HIDE DEF b
<1>5. \/ /\ locked[b] = 0 /\ locked'[b] = 1
         /\ at[x] \notin LockedLabels /\ at'[x] \in LockedLabels
      \/ /\ locked'[b] = 0
         /\ at[x] \in LockedLabels /\ at'[x] \notin LockedLabels
      \/ locked'[b] = locked[b] /\ (at'[x] \in LockedLabels <=> at[x] \in LockedLabels)
  BY <1>4 DEF WB_TypeOK, wait_barrier, acquire, load_tokens, store_tokens, release,
       test_last, set_passed, reset_tokens, wait_passed, wait_tokens, load_passed,
       store_passed, goto, LockedLabels, bar_vars
<1>6. \A c \in Bars : c # b => locked'[c] = locked[c]
  BY InsideFrame DEF b
<1>7. \A h \in Harts : at[h] \in LockedLabels => at[h] # "out"
  BY DEF LockedLabels
<1>8. /\ \A h \in Harts : at[h] \in LockedLabels => locked[bar(h)] = 1
      /\ \A g, h \in Harts :
           at[g] \in LockedLabels /\ at[h] \in LockedLabels /\ bar(g) = bar(h) => g = h
  BY DEF LockInv
<1>9. \A h \in Harts : at'[h] \in LockedLabels => locked'[bar(h)] = 1
  <2> SUFFICES ASSUME NEW h \in Harts, at'[h] \in LockedLabels PROVE locked'[bar(h)] = 1
    OBVIOUS
  <2>1. CASE h = x
    BY <1>5, <1>8, <2>1 DEF b
  <2>2. CASE h # x /\ bar(h) = b
    BY <1>2, <1>5, <1>8, <2>2 DEF b
  <2>3. CASE h # x /\ bar(h) # b
    BY <1>2, <1>3, <1>6, <1>7, <1>8, <2>3
  <2> QED
    BY <2>1, <2>2, <2>3
<1>10. \A g, h \in Harts :
         at'[g] \in LockedLabels /\ at'[h] \in LockedLabels /\ bar(g) = bar(h) => g = h
  <2>1. \A h \in Harts : h # x /\ at'[h] \in LockedLabels /\ at'[x] \in LockedLabels => bar(h) # b
    BY <1>2, <1>5, <1>8 DEF b
  <2> QED
    BY <1>2, <1>8, <2>1 DEF b
<1> QED
  BY <1>3, <1>9, <1>10 DEF LockInv

LEMMA OutsideLock ==
    ASSUME TypeOK, LockInv, NEW y, OneMoves(y),
           \A h \in Harts : at[h] \in LockedLabels => locked'[bar(h)] = locked[bar(h)]
    PROVE  LockInv'
<1>1. \A h \in Harts : h # y => at'[h] = at[h] /\ bar(h)' = bar(h)
  BY DEF bar, OneMoves, OthersKeep
<1>2. at'[y] \notin LockedLabels
  BY DEF OneMoves, Moves, LockedLabels
<1>3. \A h \in Harts : at'[h] \in LockedLabels => h # y /\ at[h] \in LockedLabels
  BY <1>1, <1>2
<1> QED
  BY <1>1, <1>3 DEF LockInv

-----------------------------------------------------------------------------
(***************************************************************************)
(* The whole invariant.                                                    *)
(***************************************************************************)
LEMMA SetUpStep ==
    ASSUME TypeOK, ControlInv, LockInv, OnceInv, 0 \in Harts, vm_run(0), OneMoves(0)
    PROVE  LockInv' /\ OnceInv'
<1>1. /\ pc[0] = "vm_run" /\ at[0] = "out" /\ init_vm_barriers
      /\ \/ pc'[0] = "panic" /\ at'[0] = "out"
         \/ /\ pc'[0] = "init_vcpu" /\ at'[0] = "acquire1"
            /\ check_cpu_configuration(config, N)
  BY DEF vm_run, runs, next, goto, TypeOK, WB_TypeOK, N
<1>2. ~ HasTaken(0, RunBar) /\ UsedOnce(RunBar)
  BY <1>1 DEF HasTaken, Reached, UsedRun, AfterRun, OnceInv
<1>3. \A h \in Harts :
        /\ pc[h] \in AfterRun => pc[h] = "init_vcpu" /\ at[h] # "out"
        /\ at[h] # "out" => \A i : bar(h) # VmBar(i)
  BY <1>2, NobodyThrough
<1>4. config \in Configs /\ UNCHANGED config
      /\ \A i \in DOMAIN config : VmBar(i) \in Bars /\ VmBar(i) \in VmBars /\ VmBar(i)[2] = i
  <2>1. config \in Configs /\ UNCHANGED config
    BY DEF TypeOK, OneMoves
  <2> QED
    BY <2>1, ConfigType, BarsApart DEF VmBars
<1>5. \A c \in Bars : c \notin VmBars => /\ tokens'[c] = tokens[c]
                                         /\ initial'[c] = initial[c]
                                         /\ locked'[c] = locked[c]
  BY <1>1 DEF init_vm_barriers, init_barrier
<1>6. \A i \in DOMAIN config :
        /\ tokens'[VmBar(i)] = count_set_bits(config[i].cpu_affinity)
        /\ initial'[VmBar(i)] = count_set_bits(config[i].cpu_affinity)
  <2> DEFINE count == [b \in VmBars |-> count_set_bits(config[b[2]].cpu_affinity)]
  <2>1. init_barrier(VmBars, count)
    BY <1>1 DEF init_vm_barriers
  <2>2. \A i \in DOMAIN config : count[VmBar(i)] = count_set_bits(config[i].cpu_affinity)
    BY <1>4
  <2> HIDE DEF count
  <2> QED
    BY <1>4, <2>1, <2>2 DEF init_barrier
<1>7. LockInv'
  <2>1. \A h \in Harts : at[h] \in LockedLabels => locked'[bar(h)] = locked[bar(h)]
    <3> SUFFICES ASSUME NEW h \in Harts, at[h] \in LockedLabels
                 PROVE  locked'[bar(h)] = locked[bar(h)]
      OBVIOUS
    <3>1. at[h] # "out"
      BY DEF LockedLabels
    <3>2. bar(h) \in Bars /\ bar(h) \notin VmBars
      BY <1>3, <3>1, BarType DEF VmBars
    <3> QED
      BY <1>5, <3>2
  <2> QED
    BY <2>1, OutsideLock
<1>8. UsedOnce(RunBar)'
  <2>1. RunBar \in Bars /\ RunBar \notin VmBars /\ RunBar # MainBar
    BY BarsApart DEF VmBars
  <2> QED
    BY <1>2, <1>5, <2>1, OutsideOnce
<1>9. ASSUME NEW i \in DOMAIN config PROVE UsedOnce(VmBar(i))'
  <2> DEFINE b == VmBar(i)
  <2>1. \A h \in Harts : pc'[h] \notin InVm
    BY <1>1, <1>3 DEF OneMoves, OthersKeep, InVm, AfterRun
  <2>2. b # RunBar
    BY BarsApart
  <2>3. Took(b)' = {}
    BY <2>1, <2>2 DEF Took, HasTaken, Reached
  <2>4. Cardinality(Took(b)') = 0
    BY <2>3, FS_EmptySet
  <2>5. Count(b)' = count_set_bits(config[i].cpu_affinity)
    BY <1>4, <2>2 DEF Count
  <2>6. \A h \in Harts : at'[h] = "store_tokens" => bar(h)' # b
    <3> SUFFICES ASSUME NEW h \in Harts, at'[h] = "store_tokens" PROVE bar(h)' # b
      OBVIOUS
    <3>1. h # 0
      BY <1>1
    <3>2. at[h] = "store_tokens" /\ bar(h)' = bar(h)
      BY <3>1 DEF OneMoves, OthersKeep, bar
    <3> QED
      BY <1>3, <3>2
  <2>7. count_set_bits(config[i].cpu_affinity) \in Nat
    BY CountType
  <2>8. Waiting(b)'
    BY <1>6, <2>3, <2>4, <2>5, <2>6, <2>7 DEF Waiting
  <2> QED
    BY <2>8 DEF UsedOnce
<1>10. IsSetUp' => check_cpu_configuration(config', N)
  BY <1>1, <1>4 DEF IsSetUp, UsedRun, AfterRun
<1> QED
  BY <1>4, <1>7, <1>8, <1>9, <1>10 DEF OnceInv

LEMMA OnceStep ==
    ASSUME TypeOK, ControlInv, LockInv, OnceInv, NEW x \in Harts, hart(x)
    PROVE  LockInv' /\ OnceInv'
<1>0. config \in Configs
      /\ \A i \in DOMAIN config : VmBar(i) \in Bars /\ VmBar(i) # MainBar
  <2>1. config \in Configs
    BY DEF TypeOK
  <2> QED
    BY <2>1, ConfigType, BarsApart
<1>1. CASE inside(x)
  <2>1. LockInv'
    BY <1>1, InsideLock
  <2>2. UNCHANGED config /\ IsSetUp' = IsSetUp
    BY <1>1, InsideFrame DEF IsSetUp, UsedRun, boot_vars
  <2>3. UsedOnce(RunBar)'
    BY <1>1, InsideOnce, BarsApart DEF OnceInv
  <2>4. ASSUME IsSetUp, NEW i \in DOMAIN config PROVE UsedOnce(VmBar(i))'
    BY <1>0, <1>1, <2>4, InsideOnce DEF OnceInv
  <2> QED
    BY <2>1, <2>2, <2>3, <2>4 DEF OnceInv
<1>2. CASE vm_run(x) /\ x = 0
  <2>1. OneMoves(0)
    BY <1>2, OutsideMoves DEF vm_run, setup, runs
  <2> QED
    BY <1>2, <2>1, SetUpStep
<1>3. CASE Quiet(x) \/ Calls(x) \/ (vm_run(x) /\ x # 0)
  <2>1. PICK y : OneMoves(y) /\ (y = x \/ (setup(x) /\ pc[y] = "off"))
    BY <1>3, OutsideMoves
  <2>2. UNCHANGED <<initial, tokens, locked>>
    BY <1>3, QuietFrame, CallsFrame DEF vm_run, wb_vars, bar_vars
  <2>3. LockInv'
    BY <2>1, <2>2, OutsideLock
  <2>4. pc[y] = "vm_run" => y # 0
    BY <1>3, <2>1
       DEF Quiet, Calls, setup, enter_vas, init_vmem, init_vcpu, init_hs_pgtable, init_hs,
           vm_enter, init_hart, main, toggle, map_guest, skip_pgtable, runs
  <2>5. UNCHANGED config /\ (IsSetUp' => IsSetUp)
    BY <2>1, <2>4, HartNumbers
       DEF OneMoves, OthersKeep, Moves, IsSetUp, UsedRun, AfterRun, ControlInv, Control
  <2>6. UsedOnce(RunBar)'
    BY <2>1, <2>2, OutsideOnce, BarsApart DEF OnceInv
  <2>7. ASSUME IsSetUp, NEW i \in DOMAIN config PROVE UsedOnce(VmBar(i))'
    <3> DEFINE b == VmBar(i)
    <3>1. b \in Bars /\ b # MainBar /\ UsedOnce(b) /\ \E j : b = VmBar(j)
      BY <1>0, <2>7 DEF OnceInv
    <3> HIDE DEF b
    <3>2. UsedOnce(b)'
      BY <2>1, <2>2, <3>1, OutsideOnce
    <3> QED
      BY <3>2 DEF b
  <2> QED
    BY <2>3, <2>5, <2>6, <2>7 DEF OnceInv
<1> QED
  BY <1>1, <1>2, <1>3, StepKinds

LEMMA TableStep ==
    ASSUME N <= 32, TypeOK, ControlInv, TableInv, NEW x \in Harts, hart(x)
    PROVE  TableInv'
<1>1. CASE inside(x)
  BY <1>1, InsideFrame DEF TableInv, boot_vars
<1>2. CASE init_hs_pgtable(x)
  <2>1. OneBuilder /\ vcpus[x].conf # 0 /\ vcpus[x].vhartid = 0
    BY <1>2, ControlOneBuilder DEF init_hs_pgtable, runs, ControlInv, Control
  <2>2. \A h \in Harts : h # x /\ vcpus[h].vhartid = 0 => vcpus[h].conf # vcpus[x].conf
    BY <2>1 DEF OneBuilder
  <2>3. /\ UNCHANGED vcpus /\ pc' = [pc EXCEPT ![x] = "map"]
        /\ vm_pgtable' = [vm_pgtable EXCEPT ![vcpus[x].conf] = "building"]
    BY <1>2 DEF init_hs_pgtable, next
  <2>4. \A h \in Harts : pc[h] \in InVm => vcpus[h].conf \in 1 .. MaxVms
    BY ConfigAssumption DEF ControlInv, Control, TypeOK
  <2> QED
    BY <2>1, <2>2, <2>3, <2>4 DEF TableInv, TypeOK, InVm
<1>3. CASE map_guest(x)
  <2>1. vcpus[x].conf \in 1 .. MaxVms
    BY <1>3, ConfigAssumption DEF map_guest, runs, ControlInv, Control, TypeOK
  <2>2. /\ UNCHANGED vcpus /\ pc' = [pc EXCEPT ![x] = "init_hs"]
        /\ vm_pgtable' = [vm_pgtable EXCEPT ![vcpus[x].conf] = "ready"]
    BY <1>3 DEF map_guest, next
  <2> QED
    BY <2>1, <2>2 DEF TableInv, TypeOK, InVm
<1>4. CASE skip_pgtable(x)
  BY <1>4 DEF skip_pgtable, runs, next, TableInv, TypeOK, InVm
<1>5. CASE (Quiet(x) /\ ~ init_hs_pgtable(x)) \/ vm_run(x)
           \/ (Calls(x) /\ ~ map_guest(x) /\ ~ skip_pgtable(x))
  <2>1. PICK y : OneMoves(y) /\ (y = x \/ (setup(x) /\ pc[y] = "off"))
    BY <1>5, OutsideMoves
  <2>2. UNCHANGED vm_pgtable
    BY <1>5
       DEF Quiet, Calls, setup, enter_vas, init_vmem, init_vcpu, init_hs_pgtable, init_hs,
           vm_enter, init_hart, main, toggle, vm_run
  <2>3. pc[y] \notin {"pgtable", "map"}
    BY <1>5, <2>1
       DEF Quiet, Calls, setup, enter_vas, init_vmem, init_vcpu, init_hs_pgtable, init_hs,
           vm_enter, init_hart, main, toggle, vm_run, runs
  <2> QED
    BY <2>1, <2>2, <2>3 DEF OneMoves, OthersKeep, Moves, TableInv, InVm
<1> QED
  BY <1>1, <1>2, <1>3, <1>4, <1>5, StepKinds

LEMMA InitInv == Init => Inv
<1> SUFFICES ASSUME Init PROVE Inv
  OBVIOUS
<1>1. TypeOK /\ ControlInv
  BY InitTyped
<1>2. PICK boot \in Harts : pc = [h \in Harts |-> IF h = boot THEN "setup" ELSE "off"]
  BY DEF Init
<1>3. LockInv
  BY DEF Init, WB_Init, LockInv, LockedLabels
<1>4. Took(RunBar) = {}
  BY <1>2 DEF Took, HasTaken, Reached, UsedRun, AfterRun
<1>5. Cardinality(Took(RunBar)) = 0
  BY <1>4, FS_EmptySet
<1>6. initial[RunBar] = N /\ tokens[RunBar] = N /\ N \in Nat
  BY BarsApart, HartNumbers DEF Init, BARRIER_INITIALIZER, N
<1>7. UsedOnce(RunBar)
  BY <1>4, <1>5, <1>6 DEF UsedOnce, Waiting, Count, Init, WB_Init
<1>8. ~ IsSetUp
  BY <1>2, HartNumbers DEF IsSetUp, UsedRun, AfterRun
<1> QED
  BY <1>1, <1>3, <1>7, <1>8 DEF Inv, OnceInv

LEMMA InvStep == Inv /\ [Next]_vars => Inv'
<1> SUFFICES ASSUME Inv, [Next]_vars PROVE Inv'
  OBVIOUS
<1>1. TypeOK' /\ ControlInv'
  BY TypedStep DEF Inv
<1>2. ASSUME NEW x \in Harts, hart(x) PROVE LockInv' /\ OnceInv'
  BY <1>2, OnceStep DEF Inv
<1>3. CASE UNCHANGED vars
  <2> USE <1>3 DEF vars
  <2>1. \A h : bar(h)' = bar(h)
    BY DEF bar
  <2>2. LockInv'
    BY <2>1 DEF Inv, LockInv
  <2>3. \A b : Took(b)' = Took(b) /\ Count(b)' = Count(b)
    BY <2>1 DEF Took, HasTaken, Reached, UsedRun, Count
  <2>4. \A b : UsedOnce(b)' <=> UsedOnce(b)
    BY <2>1, <2>3 DEF UsedOnce, Waiting
  <2>5. OnceInv'
    BY <2>4 DEF Inv, OnceInv, IsSetUp, UsedRun
  <2> QED
    BY <1>1, <2>2, <2>5 DEF Inv
<1> QED
  BY <1>1, <1>2, <1>3 DEF Next, Inv

LEMMA AlwaysInv == Spec => []Inv
BY InitInv, InvStep, PTL DEF Spec

LEMMA AlwaysTableInv == ASSUME N <= 32 PROVE Spec => []TableInv
<1>1. Init => TableInv
  <2> SUFFICES ASSUME Init PROVE TableInv
    OBVIOUS
  <2>1. PICK boot \in Harts : pc = [h \in Harts |-> IF h = boot THEN "setup" ELSE "off"]
    BY DEF Init
  <2> QED
    BY <2>1 DEF TableInv, InVm
<1>2. TypeOK /\ ControlInv /\ TableInv /\ [Next]_vars => TableInv'
  <2>1. UNCHANGED vars /\ TableInv => TableInv'
    BY DEF vars, TableInv
  <2> QED
    BY <2>1, TableStep DEF Next
<1> QED
  BY <1>1, <1>2, InitTyped, TypedStep, PTL DEF Spec

(***************************************************************************)
(* No hart starts to set up a guest under a configuration that hart 0      *)
(* refuses: with any number of harts, hart 0 is in nobody's count of the   *)
(* barrier of vm_run(), so the others wait there (vm_run.c:159-163).       *)
(***************************************************************************)
THEOREM BootRefusedConfigStops == Spec => []RefusedConfigStops
<1>1. Inv => RefusedConfigStops
  <2> SUFFICES ASSUME Inv, ~ check_cpu_configuration(config, Cardinality(Harts)),
                      NEW h \in Harts
               PROVE  vcpus[h].conf = 0 /\ pc[h] # "no_way"
    BY DEF RefusedConfigStops
  <2>1. ~ UsedRun(0) /\ 0 \in Harts
    BY HartNumbers DEF Inv, OnceInv, IsSetUp, N
  <2>2. ~ HasTaken(0, RunBar)
    BY <2>1 DEF HasTaken, Reached
  <2> QED
    BY <2>1, <2>2, NobodyThrough DEF Inv, OnceInv, AfterRun
<1> QED
  BY <1>1, AlwaysInv, PTL

\* The harts of a board of 32 that get_config_for_cpu takes to belong to a VM.
Members(aff) == {h \in 0 .. 31 : Belongs(h, aff)}

\* count_set_bits, which has the same sign extension, counts just these.
LEMMA CountsMembers ==
    ASSUME NEW aff
    PROVE  /\ IsFiniteSet(Members(aff))
           /\ Cardinality(Members(aff)) = count_set_bits(aff)
<1> DEFINE low == aff \cap (0 .. 30)
<1>1. IsFiniteSet(low) /\ Cardinality(low) \in Nat
  <2>1. low \in SUBSET (0 .. 30)
    OBVIOUS
  <2> QED
    BY <2>1, BitsFinite, FS_Subset, FS_CardinalityType
<1>2. \A h : h \in Members(aff) <=> h \in low \/ (h = 31 /\ aff \cap (31 .. 63) # {})
  <2>1. \A h \in 0 .. 30 : Belongs(h, aff) <=> h \in aff
    BY LowShift DEF Belongs
  <2>2. Belongs(31, aff) <=> aff \cap (31 .. 63) # {}
    BY LowShift DEF Belongs
  <2>3. \A h : h \in 0 .. 31 <=> h \in 0 .. 30 \/ h = 31
    OBVIOUS
  <2> QED
    BY <2>1, <2>2, <2>3, Zenon DEF Members
<1>3. CASE aff \cap (31 .. 63) # {}
  <2>1. Members(aff) = low \cup {31} /\ 31 \notin low
    BY <1>2, <1>3
  <2>2. IsFiniteSet(low \cup {31}) /\ Cardinality(low \cup {31}) = Cardinality(low) + 1
    <3> HIDE DEF low
    <3> QED
      BY <1>1, <2>1, FS_AddElement
  <2> QED
    BY <1>3, <2>1, <2>2 DEF count_set_bits
<1>4. CASE aff \cap (31 .. 63) = {}
  <2>1. Members(aff) = low
    BY <1>2, <1>4
  <2> QED
    BY <1>1, <1>4, <2>1 DEF count_set_bits
<1> QED
  BY <1>3, <1>4

(***************************************************************************)
(* On a board of at most 32 harts a hart enters its guest only when the    *)
(* table of its VM is finished, and nobody writes the table any more: the  *)
(* barrier of the VM lets nobody out before the hart with vhartid 0, the   *)
(* builder, has come (vm_run.c:167-176).  The bound is that of             *)
(* BootOneBuilder; the sign extension of bit 31 does no harm below it,     *)
(* because count_set_bits has the same.                                    *)
(***************************************************************************)
THEOREM BootGuestsOnReadyTables ==
    ASSUME N <= 32
    PROVE  Spec => []GuestsOnReadyTables
<1>1. Inv /\ TableInv => GuestsOnReadyTables
  <2> SUFFICES ASSUME Inv, TableInv, NEW h \in Harts, pc[h] = "guest"
               PROVE  vm_pgtable[vcpus[h].conf] = "ready"
    BY DEF GuestsOnReadyTables
  <2> DEFINE i == vcpus[h].conf
             b == VmBar(i)
             aff == config[i].cpu_affinity
             T == Took(b)
             low == Members(aff)
  <2>1. /\ TypeOK /\ ControlInv /\ config \in Configs
        /\ i \in DOMAIN config /\ b # RunBar /\ b[2] = i /\ at[h] = "out"
    BY BarsApart DEF Inv, TypeOK, ControlInv, Control, InVm
  <2>2. IsSetUp
    <3> SUFFICES ASSUME ~ UsedRun(0) PROVE FALSE
      BY DEF IsSetUp
    <3>1. ~ HasTaken(0, RunBar) /\ 0 \in Harts
      BY HartNumbers DEF HasTaken, Reached
    <3> QED
      BY <3>1, NobodyThrough DEF Inv, OnceInv, AfterRun
  <2>3. h \in T
    BY <2>1 DEF Took, HasTaken, Reached, InVm, Taking
  <2>4. ~ (Cardinality(T) < count_set_bits(aff))
    <3> SUFFICES ASSUME Cardinality(T) < count_set_bits(aff) PROVE FALSE
      OBVIOUS
    <3>1. Waiting(b)
      BY <2>1, <2>2 DEF Inv, OnceInv, UsedOnce, Count
    <3> QED
      BY <2>1, <2>3, <3>1 DEF Waiting, Between
  <2>5. T \in SUBSET low
    <3> SUFFICES ASSUME NEW g \in T PROVE g \in low
      OBVIOUS
    <3>1. g \in Harts /\ vcpus[g].conf = i
      BY <2>1, BarsApart DEF Took, HasTaken, Reached
    <3>2. g \in 0 .. 31
      BY <3>1, BootAssumption, HartNumbers DEF N
    <3>3. i # 0
      BY <2>1, ConfigType
    <3> QED
      BY <2>1, <3>1, <3>2, <3>3 DEF ControlInv, Control, Members
  <2>6. T = low
    <3>1. IsFiniteSet(low) /\ Cardinality(low) = count_set_bits(aff)
      BY CountsMembers
    <3>2. Cardinality(T) \in Nat /\ count_set_bits(aff) \in Nat /\ Cardinality(low) \in Nat
      BY <3>1, TookFinite, CountType, FS_CardinalityType
    <3>3. Cardinality(T) <= Cardinality(low) /\ (Cardinality(low) = Cardinality(T) => low = T)
      BY <2>5, <3>1, FS_Subset
    <3> QED
      BY <2>4, <3>1, <3>2, <3>3
  <2>7. PICK m \in T : \A n \in T : m <= n
    <3>1. T \in SUBSET Nat /\ T # {}
      BY <2>3, <2>5 DEF Members
    <3> HIDE DEF T
    <3> QED
      BY <3>1, LeastNumber
  <2>8. m \in Harts /\ vcpus[m].conf = i /\ pc[m] \in InVm
    BY <2>1, BarsApart DEF Took, HasTaken, Reached
  <2>9. {j \in aff : j < m} = {}
    <3> SUFFICES ASSUME NEW j \in aff, j < m PROVE FALSE
      OBVIOUS
    <3>1. j \in 0 .. 63 /\ m \in 0 .. 31
      BY <2>1, <2>5, ConfigType DEF Members
    <3>2. j \in low
      <4>1. j \in 0 .. 30 /\ j \in 0 .. 31
        BY <3>1
      <4> QED
        BY <4>1, LowShift DEF Members, Belongs
    <3> QED
      BY <2>6, <2>7, <3>1, <3>2
  <2>10. get_vhartid(m, aff) = 0
    BY <2>9, FS_EmptySet DEF get_vhartid
  <2>11. vcpus[m].vhartid = 0
    BY <2>1, <2>8, <2>10 DEF ControlInv, Control
  <2> QED
    BY <2>8, <2>11 DEF TableInv
<1> QED
  BY <1>1, AlwaysInv, AlwaysTableInv, PTL

-----------------------------------------------------------------------------
(***************************************************************************)
(* Two harts and the barrier of main(), which they use three times.  uses  *)
(* is how often a hart has called it, inmain where in the call it is, and  *)
(* Through how many calls it has returned from.                            *)
(***************************************************************************)
uses(h) ==
    CASE pc[h] \in {"off", "setup", "main"} -> 0
      [] pc[h] \in {"init_vmem", "init_hart"} -> 1
      [] pc[h] = "toggle" -> 2
      [] OTHER -> 3

inmain(h) == IF pc[h] \in {"init_vmem", "toggle", "vm_run"} THEN at[h] ELSE "out"

Through(a, u) == IF a = "out" THEN u ELSE u - 1

Before == {"out"} \cup Taking
Counted == Between \cup {"set_passed", "reset_tokens"}

(***************************************************************************)
(* The phases of a use by two harts, one at label a in its use u, the      *)
(* other at label c in its use v, with t tokens left and p passed: nobody  *)
(* has taken a token; the first has; both have; the first has reset; the   *)
(* second has left before the first; the first has left before the second. *)
(***************************************************************************)
Nobody(a, c, u, v, t, p) ==
    a \in Before /\ c \in Before /\ Through(a, u) = Through(c, v) /\ t = 2

FirstCame(a, c, u, v, t, p) ==
    a \in Between /\ c \in Before /\ Through(a, u) = Through(c, v) /\ t = 1

BothCame(a, c, u, v, t, p) ==
    /\ a \in Counted /\ c \in Counted /\ (a # "wait_tokens" \/ c # "wait_tokens")
    /\ Through(a, u) = Through(c, v) /\ t = 0
    /\ a = "reset_tokens" \/ c = "reset_tokens" => p = 1

FirstReset(a, c, u, v, t, p) ==
    /\ a = "wait_passed" /\ c \in Labels \ Before
    /\ Through(a, u) = Through(c, v) /\ t = 2
    /\ p = IF c = "release2" THEN 2 ELSE 1

SecondLeft(a, c, u, v, t, p) ==
    /\ a = "wait_passed" /\ p = 2
    /\ Through(c, v) = Through(a, u) + 1
    /\ (c \in Before /\ t = 2) \/ (c \in Between /\ t = 1)

FirstLeft(a, c, u, v, t, p) ==
    /\ a \in {"out", "acquire1"} /\ c = "release2"
    /\ Through(a, u) = Through(c, v) + 1 /\ t = 2

Phase(a, c, u, v, t, p) ==
    \/ Nobody(a, c, u, v, t, p) \/ FirstCame(a, c, u, v, t, p)
    \/ BothCame(a, c, u, v, t, p) \/ FirstReset(a, c, u, v, t, p)
    \/ SecondLeft(a, c, u, v, t, p) \/ FirstLeft(a, c, u, v, t, p)

Either(a, c, u, v, t, p) == Phase(a, c, u, v, t, p) \/ Phase(c, a, v, u, t, p)

\* A hart between the load and the store of a counter has the current value.
RegCurrent(a, r, t, p) == (a = "store_tokens" => r = t) /\ (a = "store_passed" => r = p)

MainInv ==
    /\ initial[MainBar] = 2
    /\ passed[MainBar] \in 0 .. 2
    /\ \A h \in Harts : RegCurrent(inmain(h), reg[h], tokens[MainBar], passed[MainBar])
    /\ \A h, g \in Harts : h # g =>
         Either(inmain(h), inmain(g), uses(h), uses(g), tokens[MainBar], passed[MainBar])

(***************************************************************************)
(* What hart 0 has done for the others by the time of its uses.            *)
(***************************************************************************)
ReadyInv ==
    /\ \A h \in Harts : /\ pc[h] # "fault"
                        /\ pc[h] \in {"main", "init_vmem", "init_hart"} => satp[h] = "bsp"
    /\ uses(0) >= 1 => kmem_ready
    /\ cpu_mapped <=> uses(0) = 3

TwoInv == MainInv /\ ReadyInv

LEMMA PhaseStep ==
    ASSUME TypeOK, NEW x \in Harts, wait_barrier(x, MainBar),
           initial[MainBar] = 2, passed[MainBar] \in 0 .. 2,
           NEW c \in Labels, NEW r, NEW u \in Nat, NEW v \in Nat,
           c \in LockedLabels => at[x] \notin LockedLabels /\ locked[MainBar] = 1,
           RegCurrent(at[x], reg[x], tokens[MainBar], passed[MainBar]),
           RegCurrent(c, r, tokens[MainBar], passed[MainBar]),
           Either(at[x], c, u, v, tokens[MainBar], passed[MainBar])
    PROVE  /\ passed'[MainBar] \in 0 .. 2
           /\ RegCurrent(at'[x], reg'[x], tokens'[MainBar], passed'[MainBar])
           /\ RegCurrent(c, r, tokens'[MainBar], passed'[MainBar])
           /\ Either(at'[x], c, u, v, tokens'[MainBar], passed'[MainBar])
<1> DEFINE b == MainBar
<1>1. /\ WB_TypeOK /\ b \in Bars /\ wait_barrier(x, b)
      /\ initial[b] = 2 /\ passed[b] \in 0 .. 2
      /\ c \in LockedLabels => at[x] \notin LockedLabels /\ locked[b] = 1
      /\ RegCurrent(at[x], reg[x], tokens[b], passed[b])
      /\ RegCurrent(c, r, tokens[b], passed[b])
      /\ Either(at[x], c, u, v, tokens[b], passed[b])
  BY BarsApart DEF TypeOK
<1> HIDE DEF b
<1>2. /\ passed'[b] \in 0 .. 2
      /\ RegCurrent(at'[x], reg'[x], tokens'[b], passed'[b])
      /\ RegCurrent(c, r, tokens'[b], passed'[b])
      /\ Either(at'[x], c, u, v, tokens'[b], passed'[b])
  <2> USE <1>1
      DEF WB_TypeOK, RegCurrent, Either, Phase, Nobody, FirstCame, BothCame, FirstReset,
          SecondLeft, FirstLeft, Through, Before, Counted, Taking, Between, Labels,
          LastLabels, LockedLabels, goto, bar_vars
  <2>1. CASE acquire(x, b, "acquire1", "load_tokens")
    BY <2>1 DEF acquire
  <2>2. CASE load_tokens(x, b)
    BY <2>2 DEF load_tokens
  <2>3. CASE store_tokens(x, b)
    BY <2>3 DEF store_tokens
  <2>4. CASE release(x, b, "release1", "test_last")
    BY <2>4 DEF release
  <2>5. CASE test_last(x, b)
    BY <2>5 DEF test_last, LAST_HART
  <2>6. CASE set_passed(x, b)
    BY <2>6 DEF set_passed
  <2>7. CASE reset_tokens(x, b)
    BY <2>7 DEF reset_tokens
  <2>8. CASE wait_passed(x, b)
    BY <2>8 DEF wait_passed
  <2>9. CASE wait_tokens(x, b)
    BY <2>9 DEF wait_tokens
  <2>10. CASE acquire(x, b, "acquire2", "load_passed")
    BY <2>10 DEF acquire
  <2>11. CASE load_passed(x, b)
    BY <2>11 DEF load_passed
  <2>12. CASE store_passed(x, b)
    BY <2>12 DEF store_passed
  <2>13. CASE release(x, b, "release2", "out")
    BY <2>13 DEF release
  <2> QED
    BY <1>1, <2>1, <2>2, <2>3, <2>4, <2>5, <2>6, <2>7, <2>8, <2>9, <2>10,
       <2>11, <2>12, <2>13 DEF wait_barrier
<1> QED
  BY <1>2 DEF b

LEMMA PhaseCall ==
    ASSUME NEW c \in Labels, NEW u \in Nat, NEW v \in Nat, NEW t, NEW p,
           Either("out", c, u, v, t, p)
    PROVE  Either("acquire1", c, u + 1, v, t, p)
BY DEF Either, Phase, Nobody, FirstCame, BothCame, FirstReset, SecondLeft, FirstLeft, Through,
       Before, Counted, Taking, Between, Labels, LastLabels, LockedLabels

\* A hart outside the barrier has not been left behind by more than one call.
LEMMA PhaseOutside ==
    ASSUME NEW c \in Labels, NEW u \in Nat, NEW v \in Nat, NEW t, NEW p,
           Either("out", c, u, v, t, p)
    PROVE  v <= u + 1 /\ u <= v
BY DEF Either, Phase, Nobody, FirstCame, BothCame, FirstReset, SecondLeft, FirstLeft, Through,
       Before, Counted, Taking, Between, Labels, LastLabels, LockedLabels

LEMMA TwoHarts ==
    ASSUME N = 2
    PROVE  Harts = {0, 1}
BY BootAssumption DEF N

LEMMA UsesType ==
    ASSUME TypeOK, NEW h \in Harts
    PROVE  /\ uses(h) \in 0 .. 3
           /\ inmain(h) \in Labels
           /\ inmain(h) # "out" => inmain(h) = at[h] /\ bar(h) = MainBar
BY DEF TypeOK, WB_TypeOK, uses, inmain, bar, Labels

(***************************************************************************)
(* No hart that is about to use the allocator or mycpu() faults.           *)
(***************************************************************************)
LEMMA NoFaultNow ==
    ASSUME N = 2, TypeOK, ControlInv, TwoInv, NEW x \in Harts, at[x] = "out"
    PROVE  /\ pc[x] = "init_vmem" => kmem_ready /\ mycpu_ok(x)
           /\ pc[x] = "init_hart" => mycpu_ok(x)
           /\ pc[x] = "init_vcpu" => mycpu_ok(x)
<1>1. 0 \in Harts /\ uses(0) \in 0 .. 3 /\ uses(x) \in 0 .. 3 /\ inmain(x) = "out"
  BY HartNumbers, UsesType DEF inmain
<1>2. x # 0 => uses(0) <= uses(x) + 1 /\ uses(x) <= uses(0)
  <2> SUFFICES ASSUME x # 0 PROVE uses(0) <= uses(x) + 1 /\ uses(x) <= uses(0)
    OBVIOUS
  <2>1. Either("out", inmain(0), uses(x), uses(0), tokens[MainBar], passed[MainBar])
    BY <1>1 DEF TwoInv, MainInv
  <2>2. inmain(0) \in Labels /\ uses(0) \in Nat /\ uses(x) \in Nat
    BY <1>1, UsesType
  <2> QED
    BY <2>1, <2>2, PhaseOutside
<1>3. CASE pc[x] \in {"init_vmem", "init_hart"}
  <2>1. uses(x) = 1 /\ satp[x] = "bsp"
    BY <1>3 DEF uses, TwoInv, ReadyInv
  <2>2. uses(0) >= 1 /\ uses(0) # 3
    BY <1>1, <1>2, <2>1
  <2> QED
    BY <1>3, <2>1, <2>2 DEF TwoInv, ReadyInv, mycpu_ok
<1>4. CASE pc[x] = "init_vcpu"
  <2>1. uses(x) = 3 /\ satp[x] = "final"
    BY <1>4 DEF uses, ControlInv, Control, AfterRun
  <2>2. uses(0) = 3
    BY <1>1, <1>2, <2>1
  <2> QED
    BY <1>4, <2>1, <2>2 DEF TwoInv, ReadyInv, mycpu_ok
<1> QED
  BY <1>3, <1>4

LEMMA MainInside ==
    ASSUME N = 2, TypeOK, ControlInv, LockInv, MainInv, NEW x \in Harts, inside(x)
    PROVE  MainInv'
<1>1. /\ UNCHANGED boot_vars /\ at[x] # "out" /\ wait_barrier(x, bar(x))
      /\ UNCHANGED initial /\ \A h \in Harts : h # x => at'[h] = at[h] /\ reg'[h] = reg[h]
  BY InsideFrame DEF inside
<1>2. \A h \in Harts : /\ uses(h)' = uses(h) /\ bar(h)' = bar(h)
                       /\ h # x => inmain(h)' = inmain(h)
  BY <1>1 DEF uses, bar, inmain, boot_vars
<1>3. \A h \in Harts : uses(h) \in Nat /\ inmain(h) \in Labels
  BY UsesType
<1> DEFINE t == tokens[MainBar]
           p == passed[MainBar]
<1>4. CASE bar(x) # MainBar
  <2>1. inmain(x) = "out" /\ inmain(x)' = "out"
    BY <1>1, <1>4, BarType DEF inmain, boot_vars
  <2>2. tokens'[MainBar] = t /\ passed'[MainBar] = p
    BY <1>4, InsideFrame, BarsApart
  <2>3. \A h \in Harts : inmain(h)' = inmain(h)
    BY <1>2, <2>1
  <2>4. \A h \in Harts : RegCurrent(inmain(h), reg[h], t, p)'
    BY <1>1, <1>2, <2>1, <2>2 DEF MainInv, RegCurrent
  <2> QED
    BY <1>1, <1>2, <2>2, <2>3, <2>4 DEF MainInv
<1>5. CASE bar(x) = MainBar
  <2>1. PICK z \in Harts : Harts = {x, z} /\ z # x
    BY TwoHarts
  <2>2. inmain(x) = at[x] /\ inmain(x)' = at'[x]
    BY <1>1, <1>5, BarType DEF inmain, boot_vars
  <2> DEFINE c == inmain(z)
  <2>3. c \in LockedLabels => at[x] \notin LockedLabels /\ locked[MainBar] = 1
    <3> SUFFICES ASSUME c \in LockedLabels
                 PROVE  at[x] \notin LockedLabels /\ locked[MainBar] = 1
      OBVIOUS
    <3>1. c = at[z] /\ bar(z) = MainBar
      BY UsesType DEF LockedLabels
    <3> QED
      BY <1>5, <2>1, <3>1 DEF LockInv
  <2>4. /\ initial[MainBar] = 2 /\ p \in 0 .. 2
        /\ RegCurrent(at[x], reg[x], t, p) /\ RegCurrent(c, reg[z], t, p)
        /\ Either(at[x], c, uses(x), uses(z), t, p)
    BY <2>1, <2>2 DEF MainInv
  <2>5. /\ passed'[MainBar] \in 0 .. 2
        /\ RegCurrent(at'[x], reg'[x], tokens'[MainBar], passed'[MainBar])
        /\ RegCurrent(c, reg[z], tokens'[MainBar], passed'[MainBar])
        /\ Either(at'[x], c, uses(x), uses(z), tokens'[MainBar], passed'[MainBar])
    <3>1. wait_barrier(x, MainBar)
      BY <1>1, <1>5
    <3> HIDE DEF c, t, p
    <3>2. c \in Labels /\ uses(x) \in Nat /\ uses(z) \in Nat
      BY <1>3 DEF c
    <3> QED
      BY <2>3, <2>4, <3>1, <3>2, PhaseStep DEF t, p
  <2>6. \A h \in Harts : RegCurrent(inmain(h), reg[h], tokens[MainBar], passed[MainBar])'
    BY <1>1, <1>2, <2>1, <2>2, <2>5
  <2>7. Either(inmain(x), inmain(z), uses(x), uses(z), tokens[MainBar], passed[MainBar])'
    BY <1>2, <2>1, <2>2, <2>5
  <2>8. Either(inmain(z), inmain(x), uses(z), uses(x), tokens[MainBar], passed[MainBar])'
    BY <2>7 DEF Either
  <2> QED
    BY <1>1, <2>1, <2>4, <2>5, <2>6, <2>7, <2>8 DEF MainInv
<1> QED
  BY <1>4, <1>5

LEMMA MainOutside ==
    ASSUME N = 2, TypeOK, ControlInv, MainInv, ReadyInv, NEW y, OneMoves(y), pc'[y] # "fault",
           tokens'[MainBar] = tokens[MainBar], passed'[MainBar] = passed[MainBar],
           initial'[MainBar] = initial[MainBar]
    PROVE  MainInv'
<1>1. y \in Harts /\ UNCHANGED reg
      /\ \A h \in Harts : h # y => uses(h)' = uses(h) /\ inmain(h)' = inmain(h)
  BY DEF OneMoves, OthersKeep, uses, inmain
<1>2. /\ inmain(y) = "out"
      /\ \/ inmain(y)' = "acquire1" /\ uses(y)' = uses(y) + 1
         \/ inmain(y)' = "out" /\ uses(y)' = uses(y)
  <2>1. inmain(y) = "out"
    BY DEF OneMoves, inmain
  <2>2. pc[y] \in {"main", "init_hart", "toggle"} /\ at'[y] = "acquire1" =>
          inmain(y)' = "acquire1" /\ uses(y)' = uses(y) + 1
    BY DEF OneMoves, Moves, inmain, uses
  <2>3. ~ (pc[y] \in {"main", "init_hart", "toggle"} /\ at'[y] = "acquire1") =>
          inmain(y)' = "out" /\ uses(y)' = uses(y)
    BY DEF OneMoves, Moves, inmain, uses
  <2> QED
    BY <2>1, <2>2, <2>3
<1>3. PICK z \in Harts : Harts = {y, z} /\ z # y
  BY <1>1, TwoHarts
<1>4. uses(y) \in Nat /\ uses(z) \in Nat /\ inmain(z) \in Labels
  BY <1>1, UsesType
<1>5. Either("out", inmain(z), uses(y), uses(z), tokens[MainBar], passed[MainBar])
  BY <1>1, <1>2, <1>3 DEF MainInv
<1>6. Either("acquire1", inmain(z), uses(y) + 1, uses(z), tokens[MainBar], passed[MainBar])
  BY <1>4, <1>5, PhaseCall
<1>7. Either(inmain(y), inmain(z), uses(y), uses(z), tokens[MainBar], passed[MainBar])'
  BY <1>1, <1>2, <1>3, <1>5, <1>6
<1>8. Either(inmain(z), inmain(y), uses(z), uses(y), tokens[MainBar], passed[MainBar])'
  BY <1>7 DEF Either
<1>9. \A h \in Harts : RegCurrent(inmain(h), reg[h], tokens[MainBar], passed[MainBar])'
  BY <1>1, <1>2, <1>3 DEF MainInv, RegCurrent
<1> QED
  BY <1>3, <1>7, <1>8, <1>9 DEF MainInv

LEMMA ReadyOutside ==
    ASSUME N = 2, TypeOK, ControlInv, TwoInv, NEW x \in Harts, Quiet(x) \/ Calls(x) \/ vm_run(x),
           NEW y, OneMoves(y), y = x \/ (setup(x) /\ pc[y] = "off")
    PROVE  ReadyInv'
<1>0. 0 \in Harts /\ uses(0) \in 0 .. 3
  BY HartNumbers, UsesType
<1>1. pc'[y] # "fault"
  <2>1. pc[y] = "off" => pc'[y] # "fault"
    BY DEF OneMoves, Moves
  <2>2. at[x] = "out" /\ pc[x] # "off"
    BY QuietFrame, CallsFrame
       DEF vm_run, Quiet, Calls, setup, enter_vas, init_vmem, init_vcpu, init_hs_pgtable,
           init_hs, vm_enter, init_hart, main, toggle, map_guest, skip_pgtable, runs
  <2>3. CASE init_vmem(x)
    <3>1. kmem_ready /\ mycpu_ok(x)
      BY <2>2, <2>3, NoFaultNow DEF init_vmem, runs
    <3> QED
      BY <2>1, <2>3, <3>1 DEF init_vmem, next, TypeOK, setup, runs
  <2>4. CASE init_hart(x)
    <3>1. mycpu_ok(x)
      BY <2>2, <2>4, NoFaultNow DEF init_hart, runs
    <3> QED
      BY <2>1, <2>4, <3>1 DEF init_hart, next, TypeOK, setup, runs
  <2>5. CASE init_vcpu(x)
    <3>1. mycpu_ok(x)
      BY <2>2, <2>5, NoFaultNow DEF init_vcpu, runs
    <3>2. y = x
      BY <2>5 DEF init_vcpu, setup, runs
    <3>3. pc' = [pc EXCEPT ![x] = "pgtable"] \/ pc' = [pc EXCEPT ![x] = "no_way"]
      BY <2>5, <3>1, Zenon DEF init_vcpu, next
    <3> QED
      BY <3>2, <3>3 DEF TypeOK
  <2>6. CASE ~ init_vmem(x) /\ ~ init_hart(x) /\ ~ init_vcpu(x)
    BY <2>1, <2>2, <2>6, ZenonT(60)
       DEF Quiet, Calls, setup, enter_vas, init_hs_pgtable, init_hs, vm_enter, main, toggle,
           map_guest, skip_pgtable, vm_run, next, runs, TypeOK
  <2> QED
    BY <2>3, <2>4, <2>5, <2>6
<1>2. \A h \in Harts : /\ pc'[h] # "fault"
                       /\ pc'[h] \in {"main", "init_vmem", "init_hart"} => satp'[h] = "bsp"
  BY <1>1 DEF OneMoves, OthersKeep, Moves, TwoInv, ReadyInv
<1>3. CASE main(x)
  <2>1. y = x /\ pc[x] = "main" /\ pc'[x] = "init_vmem" /\ UNCHANGED cpu_mapped
        /\ (kmem_ready \/ x = 0 => kmem_ready')
    BY <1>3 DEF main, setup, runs, next, TypeOK
  <2>2. IF x = 0 THEN uses(0) = 0 /\ uses(0)' = 1 ELSE uses(0)' = uses(0)
    BY <1>0, <2>1 DEF OneMoves, OthersKeep, uses
  <2> QED
    BY <1>2, <2>1, <2>2 DEF TwoInv, ReadyInv
<1>4. CASE toggle(x)
  <2>1. y = x /\ pc[x] = "toggle" /\ pc'[x] = "vm_run" /\ UNCHANGED kmem_ready
        /\ (cpu_mapped' <=> cpu_mapped \/ x = 0)
    BY <1>4 DEF toggle, setup, runs, next, TypeOK
  <2>2. IF x = 0 THEN uses(0) = 2 /\ uses(0)' = 3 ELSE uses(0)' = uses(0)
    BY <1>0, <2>1 DEF OneMoves, OthersKeep, uses
  <2> QED
    BY <1>2, <2>1, <2>2 DEF TwoInv, ReadyInv
<1>5. CASE ~ main(x) /\ ~ toggle(x)
  <2>1. UNCHANGED <<kmem_ready, cpu_mapped>>
    BY <1>5
       DEF Quiet, Calls, setup, enter_vas, init_vmem, init_vcpu, init_hs_pgtable, init_hs,
           vm_enter, init_hart, map_guest, skip_pgtable, vm_run
  <2>2. pc[y] \notin {"main", "toggle"}
    BY <1>5
       DEF Quiet, Calls, setup, enter_vas, init_vmem, init_vcpu, init_hs_pgtable, init_hs,
           vm_enter, init_hart, map_guest, skip_pgtable, vm_run, runs
  <2>3. uses(0)' = uses(0) \/ (uses(0) = 1 /\ uses(0)' = 2)
    BY <1>0, <1>1, <2>2 DEF OneMoves, OthersKeep, Moves, uses
  <2> QED
    BY <1>2, <2>1, <2>3 DEF TwoInv, ReadyInv
<1> QED
  BY <1>3, <1>4, <1>5

(***************************************************************************)
(* On a board of two harts, the one of the repository, no hart faults on   *)
(* its way through main(): the three uses of the barrier keep kmalloc()    *)
(* behind init_kmem() and every mycpu() on the address the hart's page     *)
(* table maps (main.c:18-37, cpu.c).                                       *)
(***************************************************************************)
THEOREM BootNoFault ==
    ASSUME N = 2
    PROVE  Spec => []NoBootFault
<1>1. Init => TwoInv
  <2> SUFFICES ASSUME Init PROVE TwoInv
    OBVIOUS
  <2>1. PICK boot \in Harts : pc = [h \in Harts |-> IF h = boot THEN "setup" ELSE "off"]
    BY DEF Init
  <2>2. \A h \in Harts : uses(h) = 0 /\ inmain(h) = "out"
    BY <2>1 DEF uses, inmain
  <2>3. initial[MainBar] = 2 /\ tokens[MainBar] = 2 /\ passed[MainBar] = 0
    BY BarsApart DEF Init, BARRIER_INITIALIZER, N
  <2>4. Either("out", "out", 0, 0, 2, 0)
    BY DEF Either, Phase, Nobody, Before
  <2>5. MainInv
    BY <2>2, <2>3, <2>4 DEF MainInv, RegCurrent
  <2>6. ReadyInv
    BY <2>1, <2>2, HartNumbers DEF ReadyInv, Init
  <2> QED
    BY <2>5, <2>6 DEF TwoInv
<1>2. Inv /\ TwoInv /\ [Next]_vars => TwoInv'
  <2> SUFFICES ASSUME Inv, TwoInv, [Next]_vars PROVE TwoInv'
    OBVIOUS
  <2>1. ASSUME NEW x \in Harts, inside(x) PROVE TwoInv'
    <3>1. MainInv'
      BY <2>1, MainInside DEF Inv, TwoInv
    <3>2. ReadyInv'
      BY <2>1, InsideFrame DEF Inv, TwoInv, ReadyInv, uses, boot_vars
    <3> QED
      BY <3>1, <3>2 DEF TwoInv
  <2>2. ASSUME NEW x \in Harts, Quiet(x) \/ Calls(x) \/ vm_run(x) PROVE TwoInv'
    <3>1. PICK y : OneMoves(y) /\ (y = x \/ (setup(x) /\ pc[y] = "off"))
      BY <2>2, OutsideMoves DEF Inv
    <3>2. ReadyInv'
      BY <2>2, <3>1, ReadyOutside DEF Inv
    <3>3. MainBar \in Bars /\ MainBar \notin VmBars
      BY BarsApart DEF VmBars
    <3>4. /\ tokens'[MainBar] = tokens[MainBar] /\ passed'[MainBar] = passed[MainBar]
          /\ initial'[MainBar] = initial[MainBar]
      BY <2>2, <3>3, QuietFrame, CallsFrame
         DEF wb_vars, vm_run, init_vm_barriers, init_barrier, bar_vars
    <3>5. pc'[y] # "fault"
      BY <3>1, <3>2 DEF ReadyInv, OneMoves
    <3>6. MainInv'
      BY <3>1, <3>4, <3>5, MainOutside DEF Inv, TwoInv
    <3> QED
      BY <3>2, <3>6 DEF TwoInv
  <2>3. CASE UNCHANGED vars
    BY <2>3 DEF vars, TwoInv, MainInv, ReadyInv, uses, inmain
  <2> QED
    BY <2>1, <2>2, <2>3, StepKinds DEF Next
<1>3. TwoInv => NoBootFault
  BY DEF TwoInv, ReadyInv, NoBootFault
<1> QED
  BY <1>1, <1>2, <1>3, AlwaysInv, PTL DEF Spec
=============================================================================
