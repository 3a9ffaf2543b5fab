----------------------------- MODULE VPlicProofs -----------------------------
(***************************************************************************)
(* The emulated PLIC keeps VMs apart, for every configuration, number of   *)
(* harts and set of sources, and for every guest.  On it the guest keygrab *)
(* does what it is meant to.                                               *)
(***************************************************************************)
EXTENDS Keygrab, FiniteSetTheorems, Induction, TLAPS

LEMMA FirstExists ==
    ASSUME NEW I, I \subseteq Nat, I # {}
    PROVE  First(I) \in I
<1>1. \E x \in I : \A y \in I : x <= y
  BY LeastNumber
<1> QED
  BY <1>1 DEF First

(***************************************************************************)
(* The devices of a hart: what virt_to_phys_irq returns is theirs.         *)
(***************************************************************************)
LEMMA DevsType == \A h \in Harts : devs(h) \in Seq(mmio_dev)
<1> SUFFICES ASSUME NEW h \in Harts PROVE devs(h) \in Seq(mmio_dev)
  OBVIOUS
<1> DEFINE I == ConfigsForCpu(config, h)
<1>1. I \subseteq DOMAIN config /\ DOMAIN config \subseteq Nat /\ I # {}
  BY ConfigAssumption DEF ConfigsForCpu
<1>2. First(I) \in DOMAIN config
  <2> HIDE DEF I
  <2> QED
    BY <1>1, FirstExists
<1>3. vm(h) = First(I)
  BY <1>1 DEF vm, conf, get_config_for_cpu
<1> QED
  <2>1. config[First(I)] \in vm_config
    BY <1>2, ConfigAssumption
  <2> QED
    BY <2>1, <1>3 DEF devs, vm_config

LEMMA PhysIrqIsOwn ==
    \A h \in Harts, irq \in Nat : virt_to_phys_irq(devs(h), irq) \in Own(h) \cup {0}
<1> SUFFICES ASSUME NEW h \in Harts, NEW irq \in Nat
             PROVE  virt_to_phys_irq(devs(h), irq) \in Own(h) \cup {0}
  OBVIOUS
<1> DEFINE I == {i \in DOMAIN devs(h) : devs(h)[i].virt_irq = irq}
<1>1. I \subseteq DOMAIN devs(h) /\ DOMAIN devs(h) \subseteq Nat
  BY DevsType
<1>2. CASE I = {}
  BY <1>2 DEF virt_to_phys_irq
<1>3. CASE I # {}
  <2>1. First(I) \in DOMAIN devs(h)
    <3> HIDE DEF I
    <3> QED
      BY <1>1, <1>3, FirstExists
  <2>2. virt_to_phys_irq(devs(h), irq) = devs(h)[First(I)].phys_irq
    BY <1>3 DEF virt_to_phys_irq
  <2> HIDE DEF I
  <2> QED
    BY <2>1, <2>2 DEF Own
<1> QED
  BY <1>2, <1>3

LEMMA OwnSources == \A h \in Harts : Own(h) \subseteq Sources /\ 0 \notin Own(h)
<1> SUFFICES ASSUME NEW h \in Harts, NEW i \in DOMAIN devs(h)
             PROVE  devs(h)[i].phys_irq \in Sources \cup {0}
  BY DEF Own
<1>1. devs(h)[i] \in mmio_dev
  BY DevsType
<1> QED
  BY <1>1 DEF mmio_dev

LEMMA BitsAreOwn ==
    ASSUME NEW h \in Harts, NEW group, NEW s \in Sources, BitsFor(h, group, s) # {}
    PROVE  s \in Own(h)
<1>1. PICK v \in {devs(h)[i].virt_irq : i \in DOMAIN devs(h)} :
             virt_to_phys_irq(devs(h), v) = s
  BY DEF BitsFor
<1>2. v \in Nat
  <2>1. PICK i \in DOMAIN devs(h) : v = devs(h)[i].virt_irq
    BY <1>1
  <2>2. devs(h)[i] \in mmio_dev
    BY DevsType
  <2> QED
    BY <2>1, <2>2 DEF mmio_dev
<1>3. s # 0
  BY ConstantsAssumption
<1> QED
  BY <1>1, <1>2, <1>3, PhysIrqIsOwn

LEMMA ContextNumbers ==
    /\ \A h \in Harts : pctx(h) \in Contexts /\ 2 * h \in Contexts
    /\ \A g, h \in Harts : pctx(g) = pctx(h) => g = h
    /\ \A g, h \in Harts : pctx(g) # 2 * h
    /\ NONE \notin Contexts
  BY ConstantsAssumption DEF Harts, Contexts, pctx, NONE

LEMMA ImplementedType == \A val \in Nat : Implemented(val) \in Priorities
  BY ConstantsAssumption DEF Implemented, Priorities

LEMMA ClaimableType ==
    ASSUME TypeOK, NEW c, NEW s \in Claimable(c)
    PROVE  s = 0 \/ (s \in Sources /\ inflight[s] = NONE /\ s \in enabled[c])
  BY DEF Claimable, Deliverable, TypeOK
-----------------------------------------------------------------------------
(***************************************************************************)
(* ClaimedIsHeld is not inductive without ContextsIsolated (what is        *)
(* claimed must be a source), nor the other way round: a hart completes    *)
(* last_claimed_irq_id, which is its VM's only because it claimed it.      *)
(***************************************************************************)
VPlicInv == TypeOK /\ ContextsIsolated /\ ClaimedIsHeld

LEMMA VPlicInit == Init => VPlicInv
<1> SUFFICES ASSUME Init PROVE VPlicInv
  OBVIOUS
<1> USE ContextNumbers, ConstantsAssumption
<1>1. TypeOK
  BY DEF Init, TypeOK, Priorities
<1>2. ContextsIsolated
  BY DEF Init, ContextsIsolated
<1>3. ClaimedIsHeld
  BY DEF Init, ClaimedIsHeld
<1> QED
  BY <1>1, <1>2, <1>3 DEF VPlicInv

LEMMA InterruptStep ==
    ASSUME VPlicInv, NEW h \in Harts, vplic_handle_interrupt(h)
    PROVE  VPlicInv'
<1>1. PICK s \in Claimable(pctx(h)) :
         /\ plic_claim(pctx(h), s)
         /\ last_claimed_irq_id' = [last_claimed_irq_id EXCEPT ![h] = s]
         /\ hvip' = [hvip EXCEPT ![h] = hvip[h] \/ s # 0]
  BY DEF vplic_handle_interrupt
<1>2. s = 0 \/ (s \in Sources /\ inflight[s] = NONE /\ s \in enabled[pctx(h)])
  BY <1>1, ClaimableType DEF VPlicInv
<1>3. /\ mode' = [mode EXCEPT ![h] = "guest"]
      /\ UNCHANGED <<priority, enabled, threshold>>
  BY DEF vplic_handle_interrupt
<1>4. 0 \notin Sources
  BY ConstantsAssumption
<1> USE ContextNumbers DEF VPlicInv, plic_claim
<1>5. TypeOK'
  BY <1>1, <1>2, <1>3 DEF TypeOK
<1>6. ContextsIsolated'
  BY <1>1, <1>2, <1>3, <1>4 DEF TypeOK, ContextsIsolated
<1>7. ClaimedIsHeld'
  <2> SUFFICES ASSUME NEW g \in Harts, last_claimed_irq_id'[g] # 0
               PROVE  inflight'[last_claimed_irq_id'[g]] = pctx(g) /\ hvip'[g]
    BY DEF ClaimedIsHeld
  <2>1. CASE g = h
    <3>1. last_claimed_irq_id'[g] = s /\ s # 0
      BY <1>1, <2>1 DEF TypeOK
    <3>2. inflight'[s] = pctx(g)
      BY <1>1, <1>2, <2>1, <3>1 DEF TypeOK
    <3>3. hvip'[g]
      BY <1>1, <2>1, <3>1, Zenon DEF TypeOK
    <3> QED
      BY <3>1, <3>2, <3>3
  <2>2. CASE g # h
    <3>1. last_claimed_irq_id'[g] = last_claimed_irq_id[g] /\ hvip'[g] = hvip[g]
      BY <1>1, <2>2 DEF TypeOK
    <3>2. inflight[last_claimed_irq_id[g]] = pctx(g) /\ hvip[g]
      BY <3>1 DEF ClaimedIsHeld
    <3>3. s # last_claimed_irq_id[g]
      BY <1>2, <3>1, <3>2
    <3>4. inflight'[last_claimed_irq_id[g]] = inflight[last_claimed_irq_id[g]]
      BY <1>1, <1>2, <3>1, <3>3 DEF TypeOK
    <3> QED
      BY <3>1, <3>2, <3>4
  <2> QED
    BY <2>1, <2>2
<1> QED
  BY <1>5, <1>6, <1>7

LEMMA CompleteStep ==
    ASSUME VPlicInv, NEW h \in Harts, NEW offset, NEW irq \in Nat,
           handle_complete_reg_store(h, offset, irq)
    PROVE  VPlicInv'
<1> DEFINE s == virt_to_phys_irq(devs(h), irq)
           v == claim_ctx(offset)
<1>1. s \in Own(h) \cup {0}
  BY PhysIrqIsOwn
<1>2. UNCHANGED <<pending, priority, enabled, threshold, mode>>
  BY DEF handle_complete_reg_store
<1>3. CASE v = vctx(h) /\ s = last_claimed_irq_id[h]
  <2>1. /\ last_claimed_irq_id' = [last_claimed_irq_id EXCEPT ![h] = 0]
        /\ inflight' = IF s = 0 THEN inflight ELSE [inflight EXCEPT ![s] = NONE]
        /\ hvip' = [hvip EXCEPT ![h] = FALSE]
    BY <1>3 DEF handle_complete_reg_store, complete, plic_complete
  <2> HIDE DEF s, v
  <2> USE ContextNumbers, OwnSources DEF VPlicInv
  <2>2. TypeOK'
    BY <1>1, <1>2, <2>1 DEF TypeOK
  <2>3. ContextsIsolated'
    BY <1>1, <1>2, <2>1 DEF TypeOK, ContextsIsolated
  <2>4. s # 0 => inflight[s] = pctx(h)
    BY <1>3 DEF ClaimedIsHeld
  <2>5. ClaimedIsHeld'
    BY <1>1, <1>2, <2>1, <2>4 DEF TypeOK, ClaimedIsHeld
  <2> QED
    BY <2>2, <2>3, <2>5
<1>4. CASE ~ (v = vctx(h) /\ s = last_claimed_irq_id[h])
  <2>1. UNCHANGED <<last_claimed_irq_id, inflight, hvip>>
    BY <1>4 DEF handle_complete_reg_store
  <2> QED
    BY <1>2, <2>1 DEF VPlicInv, TypeOK, ContextsIsolated, ClaimedIsHeld
<1> QED
  BY <1>3, <1>4

LEMMA EnableStep ==
    ASSUME VPlicInv, NEW h \in Harts, NEW offset, NEW val,
           handle_enable_regs_store(h, offset, val)
    PROVE  VPlicInv'
<1> DEFINE v == enable_ctx(offset)
           group == enable_group(h, offset)
<1>1. UNCHANGED <<pending, inflight, priority, threshold, vcpu_vars>>
  BY DEF handle_enable_regs_store
<1>2. PICK E \in SUBSET Sources : /\ E \subseteq Own(h)
                                 /\ enabled' = [enabled EXCEPT ![pctx(h)] = E]
  <2>1. CASE v # vctx(h)
    <3>1. enabled' = [enabled EXCEPT ![pctx(h)] = enabled[pctx(h)]]
      BY <2>1, ContextNumbers DEF handle_enable_regs_store, VPlicInv, TypeOK
    <3> QED
      BY <3>1, ContextNumbers DEF VPlicInv, TypeOK, ContextsIsolated
  <2>2. CASE v = vctx(h)
    <3> DEFINE named == {s \in Sources : BitsFor(h, group, s) # {}}
               on == {s \in named : \E i \in BitsFor(h, group, s) :
                        IsSet(val, i) /\ \A j \in BitsFor(h, group, s) : j <= i}
               E == (enabled[pctx(h)] \ (named \ on)) \cup on
    <3>1. enabled' = [enabled EXCEPT ![pctx(h)] = E]
      BY <2>2 DEF handle_enable_regs_store, plic_set_enabled
    <3>2. named \subseteq Own(h) /\ named \subseteq Sources /\ on \subseteq named
      BY BitsAreOwn
    <3>3. /\ enabled[pctx(h)] \subseteq Own(h)
          /\ enabled[pctx(h)] \subseteq Sources
      BY ContextNumbers DEF VPlicInv, TypeOK, ContextsIsolated
    <3> HIDE DEF named, on
    <3> QED
      BY <3>1, <3>2, <3>3
  <2> QED
    BY <2>1, <2>2
<1> USE ContextNumbers DEF VPlicInv, vcpu_vars
<1>3. TypeOK'
  BY <1>1, <1>2 DEF TypeOK
<1>4. ContextsIsolated'
  BY <1>1, <1>2 DEF TypeOK, ContextsIsolated
<1>5. ClaimedIsHeld'
  BY <1>1 DEF ClaimedIsHeld
<1> QED
  BY <1>3, <1>4, <1>5

LEMMA StoreStep ==
    ASSUME VPlicInv, NEW h \in Harts, NEW offset \in Nat, NEW val \in Nat,
           emulate_store(h, offset, val)
    PROVE  VPlicInv'
<1> USE ConstantsAssumption DEF VPlicInv, vcpu_vars
<1>1. ASSUME handle_priority_reg_store(h, offset, val) PROVE VPlicInv'
  <2> DEFINE s == virt_to_phys_irq(devs(h), offset \div 4)
  <2>1. s \in Sources \cup {0}
    BY PhysIrqIsOwn, OwnSources
  <2>2. /\ priority' = IF s = 0 THEN priority
                       ELSE [priority EXCEPT ![s] = Implemented(val)]
        /\ UNCHANGED <<pending, inflight, enabled, threshold, vcpu_vars>>
    BY <1>1 DEF handle_priority_reg_store, plic_set_priority
  <2> HIDE DEF s
  <2> QED
    BY <2>1, <2>2, ImplementedType DEF TypeOK, ContextsIsolated, ClaimedIsHeld
<1>2. ASSUME handle_threshold_reg_store(h, offset, val) PROVE VPlicInv'
  BY <1>2, ContextNumbers, ImplementedType
     DEF handle_threshold_reg_store, plic_set_threshold,
         TypeOK, ContextsIsolated, ClaimedIsHeld
<1>3. CASE UNCHANGED vars
  BY <1>3 DEF vars, TypeOK, ContextsIsolated, ClaimedIsHeld
<1> QED
  BY <1>1, <1>2, <1>3, EnableStep, CompleteStep DEF emulate_store

LEMMA VPlicStep == VPlicInv /\ [Next]_vars => VPlicInv'
<1> SUFFICES ASSUME VPlicInv, [Next]_vars PROVE VPlicInv'
  OBVIOUS
<1> USE DEF VPlicInv, plic_vars, vcpu_vars
<1>1. ASSUME NEW s \in Sources, DeviceInterrupt(s) PROVE VPlicInv'
  BY <1>1 DEF DeviceInterrupt, TypeOK, ContextsIsolated, ClaimedIsHeld
<1>2. ASSUME NEW h \in Harts, hstrapvec(h) PROVE VPlicInv'
  BY <1>2 DEF hstrapvec, TypeOK, ContextsIsolated, ClaimedIsHeld
<1>3. ASSUME NEW h \in Harts, vplic_handle_interrupt(h) PROVE VPlicInv'
  BY <1>3, InterruptStep
<1>4. ASSUME NEW h \in Harts, NEW offset \in Nat, NEW val \in Nat,
             emulate_store(h, offset, val)
      PROVE  VPlicInv'
  BY <1>4, StoreStep
<1>6. ASSUME NEW h \in Harts, panic(h) PROVE VPlicInv'
  BY <1>6 DEF panic, TypeOK, ContextsIsolated, ClaimedIsHeld
<1>7. CASE UNCHANGED vars
  BY <1>7 DEF vars, TypeOK, ContextsIsolated, ClaimedIsHeld
<1> QED
  BY <1>1, <1>2, <1>3, <1>4, <1>6, <1>7, ConstantsAssumption DEF Next, hart

(***************************************************************************)
(* For every configuration and every guest: a hart's context enables and   *)
(* claims only what its VM was given, and a vcpu never believes to hold an *)
(* interrupt it does not hold (vplic.c).                                   *)
(***************************************************************************)
THEOREM VPlicIsolation == Spec => [](TypeOK /\ ContextsIsolated /\ ClaimedIsHeld)
<1>1. Spec => []VPlicInv
  BY VPlicInit, VPlicStep, PTL DEF Spec
<1> QED
  BY <1>1, PTL DEF VPlicInv

(***************************************************************************)
(* The registers of the PLIC and of the vcpus keep their types for every   *)
(* word that a guest stores (vplic.c:92-262).                              *)
(***************************************************************************)
COROLLARY VPlicTypes == Spec => []TypeOK
BY VPlicIsolation, PTL

(***************************************************************************)
(* A vcpu that remembers a claimed interrupt holds it in the PLIC: it is   *)
(* in flight in the context of its hart (vplic.c:246-262, 323-331).        *)
(***************************************************************************)
COROLLARY VPlicClaimedIsHeld == Spec => []ClaimedIsHeld
BY VPlicIsolation, PTL

-----------------------------------------------------------------------------
(***************************************************************************)
(* What a trap of hart h leaves alone.                                     *)
(***************************************************************************)
Untouched(h) ==
    /\ \A s \in Sources \ Own(h) : UNCHANGED <<priority[s], inflight[s], s \in pending>>
    /\ \A c \in Contexts \ {pctx(h)} : UNCHANGED <<enabled[c], threshold[c]>>
    /\ \A g \in Harts \ {h} : UNCHANGED <<last_claimed_irq_id[g], hvip[g], mode[g]>>

LEMMA HartUntouched ==
    ASSUME VPlicInv, NEW h \in Harts, hart(h)
    PROVE  Untouched(h)
<1> USE ContextNumbers DEF VPlicInv, TypeOK, plic_vars, vcpu_vars, Untouched
<1>1. CASE hstrapvec(h) \/ panic(h)
  BY <1>1 DEF hstrapvec, panic
<1>2. CASE vplic_handle_interrupt(h)
  <2>1. PICK s \in Claimable(pctx(h)) :
           /\ plic_claim(pctx(h), s)
           /\ last_claimed_irq_id' = [last_claimed_irq_id EXCEPT ![h] = s]
           /\ hvip' = [hvip EXCEPT ![h] = hvip[h] \/ s # 0]
    BY <1>2 DEF vplic_handle_interrupt
  <2>2. s \in Own(h) \cup {0}
    BY <2>1, ClaimableType DEF ContextsIsolated
  <2>3. 0 \notin Sources
    BY ConstantsAssumption
  <2> QED
    BY <1>2, <2>1, <2>2, <2>3, OwnSources DEF vplic_handle_interrupt, plic_claim
<1>3. ASSUME NEW offset \in Nat, NEW val \in Nat, emulate_store(h, offset, val)
      PROVE  Untouched(h)
  <2>0. /\ virt_to_phys_irq(devs(h), offset \div 4) \in Own(h) \cup {0}
        /\ virt_to_phys_irq(devs(h), val) \in Own(h) \cup {0}
    BY PhysIrqIsOwn
  <2>1. CASE handle_priority_reg_store(h, offset, val)
    BY <2>0, <2>1, OwnSources DEF handle_priority_reg_store, plic_set_priority
  <2>2. CASE handle_enable_regs_store(h, offset, val)
    <3>1. UNCHANGED <<pending, inflight, priority, threshold, vcpu_vars>>
      BY <2>2 DEF handle_enable_regs_store, plic_set_enabled
    <3>2. \A c \in Contexts \ {pctx(h)} : enabled'[c] = enabled[c]
      BY <2>2 DEF handle_enable_regs_store, plic_set_enabled
    <3> QED
      BY <3>1, <3>2
  <2>3. CASE handle_threshold_reg_store(h, offset, val)
    BY <2>3 DEF handle_threshold_reg_store, plic_set_threshold
  <2>4. CASE handle_complete_reg_store(h, offset, val)
    BY <2>0, <2>4, OwnSources DEF handle_complete_reg_store, complete, plic_complete
  <2>5. CASE UNCHANGED vars
    BY <2>5 DEF vars
  <2> QED
    BY <1>3, <2>1, <2>2, <2>3, <2>4, <2>5 DEF emulate_store
<1> QED
  BY <1>1, <1>2, <1>3, ConstantsAssumption DEF hart

(***************************************************************************)
(* No trap of a hart reaches beyond its VM's sources, its own context and  *)
(* its own vcpu, whatever the configuration and the guest.                 *)
(***************************************************************************)
THEOREM VPlicOthersUntouched == Spec => OthersUntouched
<1> DEFINE Own1 == \A h \in Harts :
             \/ UNCHANGED <<enabled[pctx(h)], threshold[pctx(h)],
                            last_claimed_irq_id[h], hvip[h], mode[h]>>
             \/ hart(h)
           Own2 == \A h \in Harts : UNCHANGED <<enabled[2 * h], threshold[2 * h]>>
           Own3 == \A s \in Sources :
             \/ UNCHANGED <<priority[s], inflight[s], s \in pending>>
             \/ \E h \in Harts : s \in Own(h) /\ hart(h)
             \/ DeviceInterrupt(s)
<1>1. ASSUME VPlicInv, Next PROVE Own1 /\ Own2 /\ Own3
  <2>1. ASSUME NEW g \in Harts, hart(g) PROVE Own1 /\ Own2 /\ Own3
    <3>1. Untouched(g)
      BY <1>1, <2>1, HartUntouched
    <3>2. Own1
      BY <2>1, <3>1, ContextNumbers DEF Untouched
    <3>3. Own2
      BY <3>1, ContextNumbers DEF Untouched
    <3>4. Own3
      BY <2>1, <3>1 DEF Untouched
    <3> QED
      BY <3>2, <3>3, <3>4
  <2>2. ASSUME NEW t \in Sources, DeviceInterrupt(t) PROVE Own1 /\ Own2 /\ Own3
    <3>1. UNCHANGED <<inflight, priority, enabled, threshold, vcpu_vars>>
          /\ pending' = pending \cup {t}
      BY <2>2 DEF DeviceInterrupt
    <3>2. Own1 /\ Own2
      BY <3>1 DEF vcpu_vars
    <3>3. Own3
      BY <2>2, <3>1
    <3> QED
      BY <3>2, <3>3
  <2> QED
    BY <1>1, <2>1, <2>2 DEF Next
<1>2. VPlicInv /\ [Next]_vars => [Own1 /\ Own2 /\ Own3]_vars
  BY <1>1
<1> QED
  BY <1>2, VPlicInit, VPlicStep, PTL DEF Spec, OthersUntouched
-----------------------------------------------------------------------------
(***************************************************************************)
(* What a guest's loads depend on: the registers of its VM's sources, its  *)
(* hart's context and its vcpu.                                            *)
(***************************************************************************)
LEMMA ViewDependsOn ==
    ASSUME NEW h \in Harts, VPlicInv, VPlicInv',
           \A s \in Own(h) : UNCHANGED <<priority[s], s \in pending>>,
           UNCHANGED <<enabled[pctx(h)], threshold[pctx(h)], last_claimed_irq_id[h]>>
    PROVE  UNCHANGED View(h)
<1> SUFFICES ASSUME NEW offset \in Nat
             PROVE  UNCHANGED emulate_load(h, offset)
  BY ConstantsAssumption, ZenonT(60) DEF View
<1>1. UNCHANGED handle_priority_reg_load(h, offset)
  <2>1. virt_to_phys_irq(devs(h), offset \div 4) \in Own(h) \cup {0}
    BY PhysIrqIsOwn
  <2> QED
    BY <2>1 DEF handle_priority_reg_load, plic_get_priority
<1>2. UNCHANGED handle_pending_regs_load(h, offset)
  <2> DEFINE B(s) == BitsFor(h, pending_group(offset), s)
  <2>1. \A s \in Sources : s \notin Own(h) => B(s) = {}
    BY BitsAreOwn
  <2>2. \A s \in Sources : B(s) # {} => ((s \in pending') <=> (s \in pending))
    BY <2>1
  <2>3. /\ handle_pending_regs_load(h, offset)
             = UNION {B(s) : s \in {t \in Sources : t \in pending}}
        /\ handle_pending_regs_load(h, offset)'
             = UNION {B(s) : s \in {t \in Sources : t \in pending'}}
    BY DEF handle_pending_regs_load, plic_get_pending
  <2> HIDE DEF B
  <2>4. UNION {B(s) : s \in {t \in Sources : t \in pending}}
          = UNION {B(s) : s \in {t \in Sources : t \in pending'}}
    BY <2>2
  <2> QED
    BY <2>3, <2>4
<1>3. UNCHANGED handle_enable_regs_load(h, offset)
  BY DEF handle_enable_regs_load, plic_get_enabled
<1>4. UNCHANGED handle_threshold_reg_load(h, offset)
  BY DEF handle_threshold_reg_load, plic_get_threshold
<1>5. UNCHANGED handle_claim_reg_load(h, offset)
  BY DEF handle_claim_reg_load
<1> QED
  BY <1>1, <1>2, <1>3, <1>4, <1>5 DEF emulate_load

(***************************************************************************)
(* If no source was given to two VMs, no guest can learn from the emulated *)
(* registers what another VM or its devices do, although every load reads  *)
(* the one physical PLIC (vplic.c:86-154).                                 *)
(***************************************************************************)
THEOREM VPlicLoadsIsolated ==
    ASSUME \A g, h \in Harts : vm(g) # vm(h) => Own(g) \cap Own(h) = {}
    PROVE  Spec => LoadsIsolated
<1> DEFINE Isolated(h) ==
             \/ UNCHANGED vars
             \/ UNCHANGED View(h)
             \/ \E g \in Harts : vm(g) = vm(h) /\ hart(g)
             \/ \E s \in Own(h) : DeviceInterrupt(s)
<1>1. ASSUME VPlicInv, VPlicInv', Next, NEW h \in Harts PROVE Isolated(h)
  <2>1. ASSUME NEW g \in Harts, hart(g), vm(g) # vm(h) PROVE UNCHANGED View(h)
    <3>1. Untouched(g) /\ g # h
      BY <1>1, <2>1, HartUntouched
    <3>2. Own(h) \subseteq Sources \ Own(g)
      BY <2>1, OwnSources
    <3>3. pctx(h) \in Contexts \ {pctx(g)}
      BY <3>1, ContextNumbers
    <3> QED
      BY <1>1, <3>1, <3>2, <3>3, ViewDependsOn DEF Untouched
  <2>2. ASSUME NEW s \in Sources, DeviceInterrupt(s), s \notin Own(h)
        PROVE  UNCHANGED View(h)
    <3>1. \A t \in Own(h) : UNCHANGED <<priority[t], t \in pending>>
      BY <2>2 DEF DeviceInterrupt
    <3> QED
      BY <1>1, <2>2, <3>1, ViewDependsOn DEF DeviceInterrupt, vcpu_vars
  <2> QED
    BY <1>1, <2>1, <2>2 DEF Next
<1>2. VPlicInv /\ VPlicInv' /\ [Next]_vars => [\A h \in Harts : Isolated(h)]_vars
  BY <1>1
<1> QED
  BY <1>2, VPlicInit, VPlicStep, PTL DEF Spec, LoadsIsolated
-----------------------------------------------------------------------------
(***************************************************************************)
(* One interrupting source per VM, on any number of harts.  A hart that    *)
(* has trapped holds nothing, so the claim it is about to make, or to lose *)
(* to another hart, overwrites nothing.                                    *)
(***************************************************************************)
OneSource == \A h \in Harts : \A s, t \in Own(h) : s = t

TrappedHoldsNothing ==
    \A h \in Harts : mode[h] = "SEI" => \A s \in Sources : inflight[s] # pctx(h)

LEMMA PresentedStep ==
    ASSUME OneSource
    PROVE  VPlicInv /\ TrappedHoldsNothing /\ ClaimedIsPresented /\ [Next]_vars
             => TrappedHoldsNothing' /\ ClaimedIsPresented'
<1> SUFFICES ASSUME VPlicInv, TrappedHoldsNothing, ClaimedIsPresented, [Next]_vars
             PROVE  TrappedHoldsNothing' /\ ClaimedIsPresented'
  OBVIOUS
<1> DEFINE Goal == TrappedHoldsNothing' /\ ClaimedIsPresented'
<1> USE ContextNumbers
    DEF VPlicInv, TypeOK, TrappedHoldsNothing, ClaimedIsPresented, plic_vars, vcpu_vars
<1>1. ASSUME UNCHANGED <<inflight, last_claimed_irq_id, mode>> PROVE Goal
  BY <1>1
<1>2. ASSUME NEW h \in Harts, hstrapvec(h) PROVE Goal
  <2>1. PICK d \in Sources : d \in enabled[pctx(h)] /\ inflight[d] = NONE
    BY <1>2 DEF hstrapvec, Deliverable
  <2>2. \A s \in Sources : inflight[s] # pctx(h)
    <3> SUFFICES ASSUME NEW s \in Sources, inflight[s] = pctx(h) PROVE FALSE
      OBVIOUS
    <3>1. d \in Own(h)
      BY <2>1 DEF ContextsIsolated
    <3>2. s \in Own(h)
      BY DEF ContextsIsolated
    <3> QED
      BY <2>1, <3>1, <3>2, OneSource DEF OneSource
  <2> QED
    BY <1>2, <2>2 DEF hstrapvec
<1>3. ASSUME NEW h \in Harts, vplic_handle_interrupt(h) PROVE Goal
  <2>1. PICK s \in Claimable(pctx(h)) :
           /\ plic_claim(pctx(h), s)
           /\ last_claimed_irq_id' = [last_claimed_irq_id EXCEPT ![h] = s]
    BY <1>3 DEF vplic_handle_interrupt
  <2>2. mode[h] = "SEI" /\ mode' = [mode EXCEPT ![h] = "guest"]
    BY <1>3 DEF vplic_handle_interrupt
  <2>3. \A t \in Sources : inflight[t] # pctx(h)
    BY <2>2
  <2>4. s \in Sources \cup {0}
    BY <2>1, ClaimableType
  <2> QED
    BY <2>1, <2>2, <2>3, <2>4 DEF plic_claim
<1>4. ASSUME NEW h \in Harts, NEW offset, NEW irq \in Nat,
             mode[h] = "guest", handle_complete_reg_store(h, offset, irq)
      PROVE  Goal
  <2> DEFINE s == virt_to_phys_irq(devs(h), irq)
             v == claim_ctx(offset)
  <2>1. CASE v = vctx(h) /\ s = last_claimed_irq_id[h]
    <3>1. /\ last_claimed_irq_id' = [last_claimed_irq_id EXCEPT ![h] = 0]
          /\ inflight' = IF s = 0 THEN inflight ELSE [inflight EXCEPT ![s] = NONE]
          /\ UNCHANGED mode
      BY <1>4, <2>1 DEF handle_complete_reg_store, complete, plic_complete
    <3>2. 0 \notin Sources
      BY ConstantsAssumption
    <3> HIDE DEF s
    <3> QED
      BY <2>1, <3>1, <3>2
  <2>2. CASE ~ (v = vctx(h) /\ s = last_claimed_irq_id[h])
    BY <1>1, <1>4, <2>2 DEF handle_complete_reg_store
  <2> QED
    BY <2>1, <2>2
<1>5. ASSUME NEW h \in Harts, NEW offset, NEW val \in Nat,
             emulate_store(h, offset, val)
      PROVE  Goal
  <2>1. mode[h] = "guest"
    BY <1>5 DEF emulate_store
  <2> HIDE DEF Goal
  <2> QED
    BY <1>1, <1>4, <1>5, <2>1
       DEF emulate_store, handle_priority_reg_store, handle_enable_regs_store,
           handle_threshold_reg_store, vars
<1>7. ASSUME NEW h \in Harts, panic(h) PROVE Goal
  BY <1>7 DEF panic
<1>8. ASSUME NEW s \in Sources, DeviceInterrupt(s) PROVE Goal
  BY <1>1, <1>8 DEF DeviceInterrupt
<1>9. CASE UNCHANGED vars
  BY <1>1, <1>9 DEF vars
<1> QED
  BY <1>2, <1>3, <1>5, <1>7, <1>8, <1>9, ConstantsAssumption DEF Next, hart

(***************************************************************************)
(* If no VM has more than one interrupting source, every interrupt a hart  *)
(* claimed stays visible to its guest until the guest completes it, on any *)
(* number of harts and for every guest (vplic.c:246-262, 323-331).  With   *)
(* two sources it does not.                                                *)
(***************************************************************************)
THEOREM OneSourcePresented ==
    ASSUME OneSource
    PROVE  Spec => []ClaimedIsPresented
<1>1. Init => TrappedHoldsNothing /\ ClaimedIsPresented
  BY ContextNumbers DEF Init, TrappedHoldsNothing, ClaimedIsPresented
<1> QED
  BY <1>1, VPlicInit, VPlicStep, PresentedStep, PTL DEF Spec

(***************************************************************************)
(* Under the same assumption VSEIP is pending only while the guest has     *)
(* something to claim: a hart that traps and loses its claim to another    *)
(* hart had nothing pending before (vplic.c:260, 323-331).                 *)
(***************************************************************************)
THEOREM OneSourceNoSpurious ==
    ASSUME OneSource
    PROVE  Spec => []NoSpuriousVSEIP
<1>1. Init => TrappedHoldsNothing /\ ClaimedIsPresented /\ NoSpuriousVSEIP
  BY ContextNumbers
     DEF Init, TrappedHoldsNothing, ClaimedIsPresented, NoSpuriousVSEIP
<1>2. VPlicInv /\ TrappedHoldsNothing /\ NoSpuriousVSEIP /\ [Next]_vars
        => NoSpuriousVSEIP'
  <2> SUFFICES ASSUME VPlicInv, TrappedHoldsNothing, NoSpuriousVSEIP, [Next]_vars
               PROVE  NoSpuriousVSEIP'
    OBVIOUS
  <2> USE DEF VPlicInv, TypeOK, NoSpuriousVSEIP, plic_vars, vcpu_vars
  <2>1. ASSUME UNCHANGED <<last_claimed_irq_id, hvip>> PROVE NoSpuriousVSEIP'
    BY <2>1
  <2>2. ASSUME NEW h \in Harts, vplic_handle_interrupt(h) PROVE NoSpuriousVSEIP'
    <3>1. PICK s \in Claimable(pctx(h)) :
             /\ last_claimed_irq_id' = [last_claimed_irq_id EXCEPT ![h] = s]
             /\ hvip' = [hvip EXCEPT ![h] = hvip[h] \/ s # 0]
      BY <2>2 DEF vplic_handle_interrupt
    <3>2. last_claimed_irq_id[h] = 0
      BY <2>2 DEF vplic_handle_interrupt, TrappedHoldsNothing, ClaimedIsHeld
    <3>3. hvip[h] = FALSE
      BY <3>2
    <3> SUFFICES ASSUME NEW g \in Harts, hvip'[g] PROVE last_claimed_irq_id'[g] # 0
      OBVIOUS
    <3>4. CASE g = h
      <4>1. s # 0
        BY <3>1, <3>3, <3>4, Zenon
      <4> QED
        BY <3>1, <3>4, <4>1
    <3>5. CASE g # h
      BY <3>1, <3>5
    <3> QED
      BY <3>4, <3>5
  <2>3. ASSUME NEW h \in Harts, NEW offset, NEW val,
               handle_complete_reg_store(h, offset, val)
        PROVE  NoSpuriousVSEIP'
    BY <2>3 DEF handle_complete_reg_store, complete
  <2>4. ASSUME NEW h \in Harts, NEW offset, NEW val, emulate_store(h, offset, val)
        PROVE  NoSpuriousVSEIP'
    <3> HIDE DEF NoSpuriousVSEIP
    <3> QED
      BY <2>1, <2>3, <2>4
         DEF emulate_store, handle_priority_reg_store, handle_enable_regs_store,
             handle_threshold_reg_store, vars
  <2>5. ASSUME NEW h \in Harts, hstrapvec(h) \/ panic(h) PROVE NoSpuriousVSEIP'
    BY <2>1, <2>5 DEF hstrapvec, panic
  <2>6. ASSUME NEW s \in Sources, DeviceInterrupt(s) PROVE NoSpuriousVSEIP'
    BY <2>1, <2>6 DEF DeviceInterrupt
  <2>7. CASE UNCHANGED vars
    BY <2>1, <2>7 DEF vars
  <2> QED
    BY <2>2, <2>4, <2>5, <2>6, <2>7 DEF Next, hart
<1> QED
  BY <1>1, <1>2, VPlicInit, VPlicStep, PresentedStep, PTL DEF Spec
-----------------------------------------------------------------------------
(***************************************************************************)
(* The guest keygrab.  What the emulated PLIC knows of the serial ports:   *)
(* only they interrupt, a hart holds nothing but the interrupt of its own, *)
(* knows it, and had nothing when it trapped for one.                      *)
(***************************************************************************)
SerialInv ==
    /\ \A s \in pending : \E h \in Harts : s = serial_irq(h)
    /\ \A h \in Harts :
         /\ mode[h] = "SEI" => inflight[serial_irq(h)] = NONE
         /\ last_claimed_irq_id[h] \in {0, serial_irq(h)}
         /\ inflight[serial_irq(h)] # NONE =>
              last_claimed_irq_id[h] = serial_irq(h) /\ serial_irq(h) \notin pending
         /\ hvip[h] => last_claimed_irq_id[h] # 0

(***************************************************************************)
(* What the guest of hart h knows of its interrupt.  An interrupt that is  *)
(* pending, or claimed and not yet served, means that there is a character *)
(* to read.  Before init_uart empties the receiver there is no interrupt.  *)
(***************************************************************************)
InterruptInv(h) ==
    /\ pc[h] = "_start" => /\ ~ ier[h]
                           /\ serial_irq(h) \notin pending
                           /\ last_claimed_irq_id[h] = 0
    /\ pc[h] \in {"trap", "read", "echo", "complete"} =>
         last_claimed_irq_id[h] = serial_irq(h)
    /\ pc[h] \in {"read", "echo", "complete"} => s1[h] = DTB_SERIAL_IRQ_NUM
    /\ pc[h] # "lost" /\ serial_irq(h) \in pending => rx[h] # <<>>
    /\ pc[h] \notin {"lost", "echo", "complete"} /\ last_claimed_irq_id[h] # 0 =>
         rx[h] # <<>>

Domains ==
    /\ DOMAIN pc = Harts /\ DOMAIN a0 = Harts /\ DOMAIN s1 = Harts
    /\ DOMAIN ier = Harts /\ DOMAIN rx = Harts /\ DOMAIN thr = Harts
    /\ DOMAIN wire = Harts /\ DOMAIN typed = Harts

GuestInv == Domains /\ \A h \in Harts : InterruptInv(h)
-----------------------------------------------------------------------------
LEMMA SerialFacts ==
    /\ \A h \in Harts : /\ serial_irq(h) \in Own(h)
                        /\ serial_irq(h) \in Sources
                        /\ serial_irq(h) # 0
    /\ \A g, h \in Harts : g # h => /\ serial_irq(g) # serial_irq(h)
                                    /\ serial_irq(g) \notin Own(h)
<1>1. ASSUME NEW h \in Harts PROVE serial_irq(h) \in Own(h) /\ serial_irq(h) # 0
  <2>1. DTB_SERIAL_IRQ_NUM \in Nat
    BY DEF DTB_SERIAL_IRQ_NUM
  <2> QED
    BY <2>1, PhysIrqIsOwn, SerialAssumption DEF serial_irq
<1> QED
  BY <1>1, OwnSources, SerialAssumption

(***************************************************************************)
(* The guest's own context number is the one the hypervisor compares with, *)
(* and its driver's offsets are decoded to the registers they are meant    *)
(* for.                                                                    *)
(***************************************************************************)
PlicContexts == {c \in Nat : c < 15872}

\* A machine's contexts, two of each hart, are contexts of the PLIC.
LEMMA ContextRange == \A n \in Nat : n <= 7935 => 2 * n + 1 \in PlicContexts
BY DEF PlicContexts

LEMMA GuestContext ==
    ASSUME NEW h \in Harts
    PROVE  context(h) \in PlicContexts /\ context(h) = vctx(h) /\ tp(h) \in Nat
<1> DEFINE I == ConfigsForCpu(config, h)
           A == config[vm(h)].cpu_affinity
           Before == {i \in A : i < h}
<1>1. A \subseteq Nat
  <2>1. I \subseteq DOMAIN config /\ DOMAIN config \subseteq Nat /\ I # {}
    BY ConfigAssumption DEF ConfigsForCpu
  <2>2. First(I) \in DOMAIN config
    <3> HIDE DEF I
    <3> QED
      BY <2>1, FirstExists
  <2>3. config[First(I)] \in vm_config
    BY <2>2, ConfigAssumption
  <2>4. vm(h) = First(I)
    <3>1. get_config_for_cpu(config, h) = IF I = {} THEN 0 ELSE First(I)
      BY DEF get_config_for_cpu
    <3> HIDE DEF I
    <3> QED
      BY <2>1, <3>1 DEF vm, conf
  <2>5. A \in SUBSET (0 .. 63)
    <3> HIDE DEF I
    <3> QED
      BY <2>3, <2>4, Zenon DEF vm_config, A
  <2> HIDE DEF A
  <2> QED
    BY <2>5
<1>2. h \in Nat /\ h <= 7935
  BY SerialAssumption, ConstantsAssumption DEF Harts
<1>3. Before \subseteq 0 .. h - 1
  BY <1>1, <1>2
<1>4. 0 \in Int /\ h - 1 \in Int
  BY <1>2
<1>5. IsFiniteSet(0 .. h - 1)
      /\ Cardinality(0 .. h - 1) = IF 0 > h - 1 THEN 0 ELSE (h - 1) - 0 + 1
  BY <1>4, FS_Interval, Zenon
<1>6. Cardinality(0 .. h - 1) = h
  BY <1>2, <1>5
<1> HIDE DEF Before
<1>7. IsFiniteSet(Before) /\ Cardinality(Before) <= Cardinality(0 .. h - 1)
  BY <1>3, <1>5, FS_Subset, Zenon
<1>8. Cardinality(Before) \in Nat
  BY <1>7, FS_CardinalityType, Zenon
<1>9. vhartid[h] = Cardinality(Before)
  BY DEF vhartid, vm, get_vhartid, Before
<1>10. \A n \in Nat : n <= h => 2 * n + 1 \in PlicContexts
  BY <1>2, ContextRange
<1>11. Cardinality(Before) <= h
  BY <1>6, <1>7
<1> QED
  BY <1>8, <1>9, <1>10, <1>11, Zenon DEF context, tp, vctx

LEMMA PriorityOffset ==
    LET o == priority_offset(DTB_SERIAL_IRQ_NUM)
    IN  /\ o \in Nat
        /\ is_access_to_priority_reg(o) /\ ~ is_access_to_pending_regs(o)
        /\ ~ is_access_to_enable_regs(o) /\ ~ is_access_to_threshold_reg(o)
        /\ ~ is_access_to_claim_complete_reg(o)
  BY DEF priority_offset, DTB_SERIAL_IRQ_NUM, is_access_to_priority_reg,
         is_access_to_pending_regs, is_access_to_enable_regs,
         is_access_to_threshold_reg, is_access_to_claim_complete_reg,
         PENDING, ENABLE, THRESHOLD, CLAIM

LEMMA EnableOffset ==
    ASSUME NEW c \in PlicContexts
    PROVE  LET o == enable_offset(c, DTB_SERIAL_IRQ_NUM)
           IN  /\ o \in Nat
               /\ ~ is_access_to_priority_reg(o) /\ ~ is_access_to_pending_regs(o)
               /\ is_access_to_enable_regs(o) /\ ~ is_access_to_threshold_reg(o)
               /\ ~ is_access_to_claim_complete_reg(o)
  BY DEF PlicContexts, enable_offset, DTB_SERIAL_IRQ_NUM, is_access_to_priority_reg,
         is_access_to_pending_regs, is_access_to_enable_regs,
         is_access_to_threshold_reg, is_access_to_claim_complete_reg,
         PENDING, ENABLE, THRESHOLD, CLAIM

LEMMA ThresholdOffset ==
    ASSUME NEW c \in PlicContexts
    PROVE  LET o == threshold_offset(c)
           IN  /\ o \in Nat
               /\ ~ is_access_to_priority_reg(o) /\ ~ is_access_to_pending_regs(o)
               /\ ~ is_access_to_enable_regs(o) /\ is_access_to_threshold_reg(o)
               /\ ~ is_access_to_claim_complete_reg(o)
  BY DEF PlicContexts, threshold_offset, is_access_to_priority_reg,
         is_access_to_pending_regs, is_access_to_enable_regs,
         is_access_to_threshold_reg, is_access_to_claim_complete_reg,
         PENDING, ENABLE, THRESHOLD, CLAIM

LEMMA ClaimOffset ==
    ASSUME NEW c \in PlicContexts
    PROVE  LET o == claim_offset(c)
           IN  /\ o \in Nat /\ claim_ctx(o) = c
               /\ ~ is_access_to_priority_reg(o) /\ ~ is_access_to_pending_regs(o)
               /\ ~ is_access_to_enable_regs(o) /\ ~ is_access_to_threshold_reg(o)
               /\ is_access_to_claim_complete_reg(o)
  BY DEF PlicContexts, claim_offset, claim_ctx, is_access_to_priority_reg,
         is_access_to_pending_regs, is_access_to_enable_regs,
         is_access_to_threshold_reg, is_access_to_claim_complete_reg,
         PENDING, ENABLE, THRESHOLD, CLAIM

\* A claim of the guest finds what its vcpu holds.
LEMMA ClaimFinds ==
    ASSUME NEW h \in Harts, last_claimed_irq_id[h] = serial_irq(h)
    PROVE  emulate_load(h, claim_offset(context(h))) = DTB_SERIAL_IRQ_NUM
<1> DEFINE o == claim_offset(context(h))
<1>1. /\ claim_ctx(o) = vctx(h)
      /\ ~ is_access_to_priority_reg(o) /\ ~ is_access_to_pending_regs(o)
      /\ ~ is_access_to_enable_regs(o) /\ ~ is_access_to_threshold_reg(o)
      /\ is_access_to_claim_complete_reg(o)
  <2>1. context(h) \in PlicContexts /\ context(h) = vctx(h)
    BY GuestContext
  <2> QED
    BY <2>1, ClaimOffset, Zenon
<1> HIDE DEF o
<1>2. emulate_load(h, o) = handle_claim_reg_load(h, o)
  BY <1>1 DEF emulate_load
<1> QED
  BY <1>1, <1>2, SerialAssumption DEF handle_claim_reg_load, o

\* The driver's four stores are handled by the four handlers.
LEMMA GuestStores ==
    ASSUME NEW h \in Harts, NEW val
    PROVE  /\ emulate_store(h, priority_offset(DTB_SERIAL_IRQ_NUM), val) =>
                handle_priority_reg_store(h, priority_offset(DTB_SERIAL_IRQ_NUM), val)
           /\ emulate_store(h, enable_offset(context(h), DTB_SERIAL_IRQ_NUM), val) =>
                handle_enable_regs_store
                    (h, enable_offset(context(h), DTB_SERIAL_IRQ_NUM), val)
           /\ emulate_store(h, threshold_offset(context(h)), val) =>
                handle_threshold_reg_store(h, threshold_offset(context(h)), val)
           /\ emulate_store(h, claim_offset(context(h)), val) =>
                handle_complete_reg_store(h, claim_offset(context(h)), val)
<1>1. context(h) \in PlicContexts
  BY GuestContext
<1>2. emulate_store(h, priority_offset(DTB_SERIAL_IRQ_NUM), val) =>
        handle_priority_reg_store(h, priority_offset(DTB_SERIAL_IRQ_NUM), val)
  BY PriorityOffset, Zenon DEF emulate_store
<1>3. emulate_store(h, enable_offset(context(h), DTB_SERIAL_IRQ_NUM), val) =>
        handle_enable_regs_store
            (h, enable_offset(context(h), DTB_SERIAL_IRQ_NUM), val)
  BY <1>1, EnableOffset, Zenon DEF emulate_store
<1>4. emulate_store(h, threshold_offset(context(h)), val) =>
        handle_threshold_reg_store(h, threshold_offset(context(h)), val)
  BY <1>1, ThresholdOffset, Zenon DEF emulate_store
<1>5. emulate_store(h, claim_offset(context(h)), val) =>
        handle_complete_reg_store(h, claim_offset(context(h)), val)
  BY <1>1, ClaimOffset, Zenon DEF emulate_store
<1> QED
  BY <1>2, <1>3, <1>4, <1>5, Zenon

(***************************************************************************)
(* What a store can do to the interrupts of its hart: nothing, or complete *)
(* the one that the vcpu holds.                                            *)
(***************************************************************************)
Completes(h) ==
    /\ last_claimed_irq_id' = [last_claimed_irq_id EXCEPT ![h] = 0]
    /\ hvip' = [hvip EXCEPT ![h] = FALSE]
    /\ inflight' = IF last_claimed_irq_id[h] = 0 THEN inflight
                   ELSE [inflight EXCEPT ![last_claimed_irq_id[h]] = NONE]
    /\ UNCHANGED <<pending, mode>>

Quiet == UNCHANGED <<pending, inflight, last_claimed_irq_id, hvip, mode>>

LEMMA StoreEffect ==
    ASSUME NEW h \in Harts, NEW offset, NEW val, emulate_store(h, offset, val)
    PROVE  Quiet \/ Completes(h)
<1>1. handle_complete_reg_store(h, offset, val) => Quiet \/ Completes(h)
  BY DEF handle_complete_reg_store, complete, plic_complete, Quiet, Completes
<1> QED
  BY <1>1 DEF emulate_store, handle_priority_reg_store, handle_enable_regs_store,
       handle_threshold_reg_store, vars, vcpu_vars, Quiet

(***************************************************************************)
(* Every step of the system is one of these, as far as interrupts go.      *)
(***************************************************************************)
LEMMA KSteps ==
    ASSUME KNext
    PROVE  \/ Quiet
           \/ \E h \in Harts : \/ Completes(h)
                               \/ Gateway(h) \/ hstrapvec(h) \/ panic(h)
                               \/ vplic_handle_interrupt(h)
<1> DEFINE Goal == \/ Quiet
                   \/ \E h \in Harts : \/ Completes(h)
                                       \/ Gateway(h) \/ hstrapvec(h) \/ panic(h)
                                       \/ vplic_handle_interrupt(h)
<1> SUFFICES Goal
  OBVIOUS
<1>1. PICK h \in Harts : Type(h) \/ Device(h) \/ Hart(h) \/ Lost(h)
  BY DEF KNext
<1>2. UNCHANGED vars => Goal
  BY DEF vars, Quiet
<1>3. ASSUME NEW offset, NEW val, emulate_store(h, offset, val) PROVE Goal
  BY <1>3, StoreEffect
<1>4. CASE Type(h)
  BY <1>2, <1>4 DEF Type
<1>5. CASE Device(h)
  BY <1>2, <1>5 DEF Device, Transmit
<1>6. CASE Hart(h)
  <2> HIDE DEF Goal
  <2>1. CASE _start(h)
    BY <1>2, <1>3, <2>1 DEF _start
  <2>2. CASE Interrupted(h)
    BY <1>2, <2>2 DEF Interrupted
  <2>3. CASE trap(h)
    BY <1>2, <1>3, <2>3 DEF trap, echo
  <2>4. CASE Hypervisor(h)
    BY <2>4 DEF Hypervisor, Goal
  <2> QED
    BY <1>6, <2>1, <2>2, <2>3, <2>4 DEF Hart
<1>7. CASE Lost(h)
  BY <1>3, <1>7 DEF Lost
<1> QED
  BY <1>1, <1>4, <1>5, <1>6, <1>7

LEMMA SerialStep == VPlicInv /\ SerialInv /\ [KNext]_kvars => SerialInv'
<1> SUFFICES ASSUME VPlicInv, SerialInv, [KNext]_kvars PROVE SerialInv'
  OBVIOUS
<1> USE SerialFacts, ContextNumbers DEF VPlicInv, TypeOK, SerialInv
<1>1. CASE Quiet
  BY <1>1 DEF Quiet
<1>2. ASSUME NEW h \in Harts, Completes(h) PROVE SerialInv'
  BY <1>2 DEF Completes
<1>3. ASSUME NEW h \in Harts, Gateway(h) PROVE SerialInv'
  BY <1>3 DEF Gateway, DeviceInterrupt, vcpu_vars
<1>4. ASSUME NEW h \in Harts, NEW s \in pending, s \in enabled[pctx(h)]
      PROVE  s = serial_irq(h)
  BY <1>4 DEF ContextsIsolated
<1>5. ASSUME NEW h \in Harts, hstrapvec(h) PROVE SerialInv'
  <2>1. inflight[serial_irq(h)] = NONE
    BY <1>4, <1>5 DEF hstrapvec, Deliverable
  <2> QED
    BY <1>5, <2>1 DEF hstrapvec, plic_vars
<1>6. ASSUME NEW h \in Harts, panic(h) PROVE SerialInv'
  BY <1>6 DEF panic, plic_vars
<1>7. ASSUME NEW h \in Harts, vplic_handle_interrupt(h) PROVE SerialInv'
  <2>1. PICK s \in Claimable(pctx(h)) :
           /\ plic_claim(pctx(h), s)
           /\ last_claimed_irq_id' = [last_claimed_irq_id EXCEPT ![h] = s]
           /\ hvip' = [hvip EXCEPT ![h] = hvip[h] \/ s # 0]
    BY <1>7 DEF vplic_handle_interrupt
  <2>2. mode[h] = "SEI" /\ mode' = [mode EXCEPT ![h] = "guest"]
    BY <1>7 DEF vplic_handle_interrupt
  <2>3. s = 0 \/ s = serial_irq(h)
    BY <1>4, <2>1 DEF Claimable, Deliverable
  <2>4. last_claimed_irq_id[h] = 0 /\ ~ hvip[h]
    BY <2>2 DEF ClaimedIsHeld
  <2>5. hvip'[h] => s # 0
    BY <2>1, <2>4, Zenon
  <2>6. \A g \in Harts \ {h} : hvip'[g] = hvip[g]
    BY <2>1
  <2> QED
    BY <2>1, <2>2, <2>3, <2>4, <2>5, <2>6 DEF plic_claim
<1>8. CASE UNCHANGED kvars
  BY <1>1, <1>8 DEF kvars, vars, Quiet
<1> QED
  BY <1>1, <1>2, <1>3, <1>5, <1>6, <1>7, <1>8, KSteps

LEMMA KVPlicStep == VPlicInv /\ GuestInv /\ [KNext]_kvars => VPlicInv'
<1> SUFFICES ASSUME VPlicInv, GuestInv, [KNext]_kvars PROVE VPlicInv'
  OBVIOUS
<1>1. UNCHANGED vars \/ Next => VPlicInv'
  BY VPlicStep
<1>2. CASE UNCHANGED kvars
  BY <1>1, <1>2 DEF kvars
<1>3. ASSUME NEW h \in Harts, Type(h) \/ Device(h) \/ Hart(h) \/ Lost(h)
      PROVE  VPlicInv'
  <2>1. CASE Type(h) \/ Device(h)
    <3>1. CASE Type(h) \/ Transmit(h)
      BY <1>1, <3>1 DEF Type, Transmit
    <3>2. CASE Gateway(h)
      BY <1>1, <3>2, SerialFacts DEF Gateway, Next
    <3> QED
      BY <2>1, <3>1, <3>2 DEF Device
  <2>2. CASE _start(h)
    <3>1. UNCHANGED vars => VPlicInv'
      BY <1>1
    <3>2. emulate_store(h, priority_offset(DTB_SERIAL_IRQ_NUM), 1) => VPlicInv'
      BY PriorityOffset, StoreStep
    <3>3. emulate_store(h, enable_offset(context(h), DTB_SERIAL_IRQ_NUM), a0[h])
            => VPlicInv'
      BY GuestStores, EnableStep
    <3>4. emulate_store(h, threshold_offset(context(h)), 0) => VPlicInv'
      <4>1. threshold_offset(context(h)) \in Nat
        BY GuestContext, ThresholdOffset, Zenon
      <4> QED
        BY <4>1, StoreStep
    <3> QED
      BY <2>2, <3>1, <3>2, <3>3, <3>4 DEF _start
  <2>3. CASE Interrupted(h)
    BY <1>1, <2>3 DEF Interrupted
  <2>4. CASE trap(h)
    <3>1. UNCHANGED vars => VPlicInv'
      BY <1>1
    <3>2. pc[h] = "complete" /\ emulate_store(h, claim_offset(context(h)), s1[h])
            => VPlicInv'
      <4>1. pc[h] = "complete" => s1[h] \in Nat
        BY DEF GuestInv, InterruptInv, DTB_SERIAL_IRQ_NUM
      <4> QED
        BY <4>1, GuestStores, CompleteStep
    <3> QED
      BY <2>4, <3>1, <3>2 DEF trap, echo, At
  <2>5. CASE Hypervisor(h)
    BY <1>1, <2>5 DEF Hypervisor, Next, hart
  <2>6. CASE Lost(h)
    BY <1>1, <2>6 DEF Lost, Next, hart
  <2> QED
    BY <1>3, <2>1, <2>2, <2>3, <2>4, <2>5, <2>6 DEF Hart
<1> QED
  BY <1>2, <1>3 DEF KNext

(***************************************************************************)
(* A store that is not to the claim register of its own context changes    *)
(* nothing the guest relies on.                                            *)
(***************************************************************************)
LEMMA RegisterStores ==
    ASSUME NEW h \in Harts, NEW val
    PROVE  /\ emulate_store(h, priority_offset(DTB_SERIAL_IRQ_NUM), val) => Quiet
           /\ emulate_store(h, enable_offset(context(h), DTB_SERIAL_IRQ_NUM), val)
                => Quiet
           /\ emulate_store(h, threshold_offset(context(h)), val) => Quiet
  BY GuestStores DEF handle_priority_reg_store, handle_enable_regs_store,
       handle_threshold_reg_store, vcpu_vars, Quiet

LEMMA CompleteStores ==
    ASSUME NEW h \in Harts, last_claimed_irq_id[h] = serial_irq(h),
           emulate_store(h, claim_offset(context(h)), DTB_SERIAL_IRQ_NUM)
    PROVE  Completes(h)
<1>1. context(h) \in PlicContexts /\ context(h) = vctx(h)
  BY GuestContext
<1>2. claim_ctx(claim_offset(context(h))) = vctx(h)
  BY <1>1, ClaimOffset, Zenon
<1>3. handle_complete_reg_store(h, claim_offset(context(h)), DTB_SERIAL_IRQ_NUM)
  BY GuestStores
<1>4. virt_to_phys_irq(devs(h), DTB_SERIAL_IRQ_NUM) = last_claimed_irq_id[h]
  BY DEF serial_irq
<1> QED
  BY <1>2, <1>3, <1>4 DEF handle_complete_reg_store, complete, plic_complete, Completes

LEMMA DomainsStep == Domains /\ [KNext]_kvars => Domains'
<1> SUFFICES ASSUME Domains, [KNext]_kvars PROVE Domains'
  OBVIOUS
<1> USE DEF Domains, guest_vars, uart_vars
<1>1. CASE UNCHANGED kvars
  BY <1>1 DEF kvars
<1>2. ASSUME NEW h \in Harts, Type(h) \/ Device(h) PROVE Domains'
  BY <1>2 DEF Type, Device, Transmit, Gateway
<1>3. ASSUME NEW h \in Harts, _start(h) PROVE Domains'
  BY <1>3 DEF _start, At, init_uart, uartputc
<1>4. ASSUME NEW h \in Harts, Interrupted(h) PROVE Domains'
  BY <1>4 DEF Interrupted, At
<1>5. ASSUME NEW h \in Harts, trap(h) PROVE Domains'
  BY <1>5 DEF trap, echo, At, uartputc
<1>6. ASSUME NEW h \in Harts, Hypervisor(h) \/ Lost(h) PROVE Domains'
  BY <1>6 DEF Hypervisor, Lost
<1> QED
  BY <1>1, <1>2, <1>3, <1>4, <1>5, <1>6 DEF KNext, Hart

(***************************************************************************)
(* What hart g relies on is not changed by a step of another.              *)
(***************************************************************************)
Same(g) ==
    /\ UNCHANGED <<pc[g], s1[g], ier[g], rx[g], last_claimed_irq_id[g]>>
    /\ serial_irq(g) \in pending' => serial_irq(g) \in pending

LEMMA SameKeeps ==
    ASSUME NEW g \in Harts, InterruptInv(g), Same(g) PROVE InterruptInv(g)'
  BY DEF Same, InterruptInv, serial_irq

LEMMA GuestStep ==
    VPlicInv /\ SerialInv /\ GuestInv /\ [KNext]_kvars => GuestInv'
<1> SUFFICES ASSUME VPlicInv, SerialInv, GuestInv, [KNext]_kvars PROVE GuestInv'
  OBVIOUS
<1> DEFINE Goal == \A g \in Harts : InterruptInv(g)'
<1> SUFFICES Goal
  BY DomainsStep DEF GuestInv
<1> USE SerialFacts DEF GuestInv, Domains, guest_vars, uart_vars
<1>1. CASE UNCHANGED kvars
  BY <1>1, SameKeeps DEF kvars, vars, Same
<1>2. ASSUME NEW h \in Harts, Type(h) PROVE Goal
  <2>1. ASSUME NEW g \in Harts, g # h PROVE InterruptInv(g)'
    BY <1>2, <2>1, SameKeeps DEF Type, vars, Same
  <2>2. InterruptInv(h)'
    BY <1>2 DEF Type, vars, InterruptInv
  <2> QED
    BY <2>1, <2>2
<1>3. ASSUME NEW h \in Harts, Transmit(h) PROVE Goal
  BY <1>3, SameKeeps DEF Transmit, vars, Same
<1>4. ASSUME NEW h \in Harts, Gateway(h) PROVE Goal
  <2>1. ASSUME NEW g \in Harts, g # h PROVE InterruptInv(g)'
    BY <1>4, <2>1, SameKeeps DEF Gateway, DeviceInterrupt, vcpu_vars, Same
  <2>2. InterruptInv(h)'
    BY <1>4 DEF Gateway, DeviceInterrupt, vcpu_vars, InterruptInv
  <2> QED
    BY <2>1, <2>2
<1>5. ASSUME NEW h \in Harts, _start(h) PROVE Goal
  <2>1. Quiet
    BY <1>5, RegisterStores DEF _start, vars, Quiet
  <2>2. ASSUME NEW g \in Harts, g # h PROVE InterruptInv(g)'
    BY <1>5, <2>1, <2>2, SameKeeps DEF _start, At, init_uart, uartputc, Quiet, Same
  <2>3. InterruptInv(h)'
    <3>1. UNCHANGED <<last_claimed_irq_id, pending>>
      BY <2>1 DEF Quiet
    <3>2. CASE pc[h] = "_start"
      <4>1. pc'[h] = "hello"
        BY <1>5, <3>2 DEF _start, At
      <4> QED
        BY <3>1, <3>2, <4>1 DEF InterruptInv
    <3>3. CASE pc[h] # "_start"
      <4>1. /\ pc[h] \in {"hello", "priority", "enable", "enable_store", "threshold"}
            /\ pc'[h] \in {"priority", "enable", "enable_store", "threshold", "suspend"}
            /\ UNCHANGED rx
        BY <1>5, <3>3 DEF _start, At
      <4> QED
        BY <3>1, <4>1 DEF InterruptInv
    <3> QED
      BY <3>2, <3>3
  <2> QED
    BY <2>2, <2>3
<1>6. ASSUME NEW h \in Harts, Interrupted(h) PROVE Goal
  <2>1. ASSUME NEW g \in Harts, g # h PROVE InterruptInv(g)'
    BY <1>6, <2>1, SameKeeps DEF Interrupted, At, vars, Same
  <2>2. last_claimed_irq_id[h] = serial_irq(h)
    BY <1>6 DEF Interrupted, SerialInv
  <2>3. InterruptInv(h)'
    BY <1>6, <2>2 DEF Interrupted, At, vars, InterruptInv
  <2> QED
    BY <2>1, <2>3
<1>7. ASSUME NEW h \in Harts, trap(h) PROVE Goal
  <2>1. ASSUME pc[h] \in {"trap", "read", "echo", "complete"}
        PROVE  last_claimed_irq_id[h] = serial_irq(h) /\ serial_irq(h) \notin pending
    BY <2>1, ContextNumbers DEF InterruptInv, VPlicInv, ClaimedIsHeld, SerialInv
  <2>2. pc[h] = "complete" /\ emulate_store(h, claim_offset(context(h)), s1[h])
          => Completes(h)
    BY <2>1, CompleteStores DEF InterruptInv
  <2>3. Quiet \/ Completes(h)
    BY <1>7, <2>2 DEF trap, echo, At, vars, Quiet
  <2>4. ASSUME NEW g \in Harts, g # h PROVE InterruptInv(g)'
    <3>1. UNCHANGED <<last_claimed_irq_id[g], pending>>
      BY <2>3, <2>4 DEF Quiet, Completes, VPlicInv, TypeOK
    <3> QED
      BY <1>7, <2>4, <3>1, SameKeeps DEF trap, echo, At, uartputc, Same
  <2>5. InterruptInv(h)'
    <3>1. CASE pc[h] = "trap"
      <4>1. emulate_load(h, claim_offset(context(h))) = DTB_SERIAL_IRQ_NUM
        BY <2>1, <3>1, ClaimFinds
      <4>2. /\ pc'[h] = "read" /\ s1'[h] = DTB_SERIAL_IRQ_NUM
            /\ UNCHANGED <<rx, last_claimed_irq_id, pending>>
        BY <1>7, <3>1, <4>1 DEF trap, echo, At, vars, DTB_SERIAL_IRQ_NUM
      <4> QED
        BY <2>1, <3>1, <4>2 DEF InterruptInv
    <3>2. CASE pc[h] = "read"
      <4>1. /\ pc'[h] = "echo" /\ UNCHANGED <<s1, last_claimed_irq_id, pending>>
        BY <1>7, <3>2 DEF trap, echo, At, vars
      <4> QED
        BY <2>1, <3>2, <4>1 DEF InterruptInv
    <3>3. CASE pc[h] = "echo"
      <4>1. /\ pc'[h] = "complete" /\ UNCHANGED <<s1, last_claimed_irq_id, pending>>
        BY <1>7, <3>3 DEF trap, echo, At, vars
      <4> QED
        BY <2>1, <3>3, <4>1 DEF InterruptInv
    <3>4. CASE pc[h] = "complete"
      <4>1. pc'[h] = "newline" /\ Completes(h)
        BY <1>7, <2>2, <3>4 DEF trap, echo, At
      <4>2. last_claimed_irq_id'[h] = 0 /\ UNCHANGED pending
        BY <4>1 DEF Completes, VPlicInv, TypeOK
      <4> QED
        BY <2>1, <3>4, <4>1, <4>2 DEF InterruptInv
    <3>5. CASE pc[h] = "newline"
      <4>1. pc'[h] = "suspend" /\ UNCHANGED <<rx, last_claimed_irq_id, pending>>
        BY <1>7, <3>5 DEF trap, echo, At, vars
      <4> QED
        BY <3>5, <4>1 DEF InterruptInv
    <3> QED
      BY <1>7, <3>1, <3>2, <3>3, <3>4, <3>5 DEF trap, echo, At
  <2> QED
    BY <2>4, <2>5
<1>8. ASSUME NEW h \in Harts, Hypervisor(h) PROVE Goal
  <2>1. CASE hstrapvec(h)
    BY <1>8, <2>1, SameKeeps DEF Hypervisor, hstrapvec, plic_vars, Same
  <2>2. CASE vplic_handle_interrupt(h)
    <3>1. PICK s \in Claimable(pctx(h)) :
             /\ plic_claim(pctx(h), s)
             /\ last_claimed_irq_id' = [last_claimed_irq_id EXCEPT ![h] = s]
      BY <2>2 DEF vplic_handle_interrupt
    <3>2. s # 0 => s \in pending
      BY <3>1 DEF Claimable, Deliverable
    <3>3. last_claimed_irq_id[h] = 0
      BY <2>2, ContextNumbers
         DEF vplic_handle_interrupt, SerialInv, VPlicInv, ClaimedIsHeld
    <3>4. pending' \subseteq pending
      BY <3>1 DEF plic_claim
    <3>5. ASSUME NEW g \in Harts, g # h PROVE InterruptInv(g)'
      BY <1>8, <3>1, <3>4, <3>5, SameKeeps
         DEF Hypervisor, Same, VPlicInv, TypeOK
    <3>6. InterruptInv(h)'
      <4>1. last_claimed_irq_id'[h] = s
        BY <3>1 DEF VPlicInv, TypeOK
      <4>2. s # 0 => s = serial_irq(h)
        <5>1. last_claimed_irq_id'[h] \in {0, serial_irq(h)}
          BY SerialStep DEF SerialInv
        <5> QED
          BY <4>1, <5>1
      <4>3. UNCHANGED <<pc, s1, ier, rx>>
        BY <1>8 DEF Hypervisor
      <4>4. pc[h] \notin {"trap", "read", "echo", "complete"}
        BY <3>3 DEF InterruptInv
      <4> QED
        BY <3>2, <3>4, <4>1, <4>2, <4>3, <4>4 DEF InterruptInv
    <3> QED
      BY <3>5, <3>6
  <2> QED
    BY <1>8, <2>1, <2>2 DEF Hypervisor
<1>9. ASSUME NEW h \in Harts, Lost(h) PROVE Goal
  <2>1. Quiet \/ Completes(h) \/ panic(h)
    BY <1>9, StoreEffect DEF Lost
  <2>2. UNCHANGED pending
    BY <2>1 DEF Quiet, Completes, panic, plic_vars
  <2>3. ASSUME NEW g \in Harts, g # h PROVE InterruptInv(g)'
    <3>1. UNCHANGED last_claimed_irq_id[g]
      BY <2>1, <2>3 DEF Quiet, Completes, panic, VPlicInv, TypeOK
    <3> QED
      BY <1>9, <2>2, <3>1, SameKeeps DEF Lost, Same
  <2>4. InterruptInv(h)'
    BY <1>9 DEF Lost, InterruptInv
  <2> QED
    BY <2>3, <2>4
<1> QED
  BY <1>1, <1>2, <1>3, <1>4, <1>5, <1>6, <1>7, <1>8, <1>9 DEF KNext, Device, Hart

LEMMA KInitInv == KInit => VPlicInv /\ SerialInv /\ GuestInv
<1> SUFFICES ASSUME KInit PROVE SerialInv /\ GuestInv
  BY VPlicInit DEF KInit
<1> USE SerialFacts
<1>1. SerialInv
  BY DEF KInit, Init, SerialInv
<1>2. GuestInv
  BY DEF KInit, Init, GuestInv, Domains, InterruptInv, vhartid
<1> QED
  BY <1>1, <1>2

LEMMA KeygrabInductive == KSpec => [](VPlicInv /\ SerialInv /\ GuestInv)
  BY KInitInv, KVPlicStep, SerialStep, GuestStep, PTL DEF KSpec

(***************************************************************************)
(* Also under keygrab's guests, and whatever a guest stores that was       *)
(* interrupted too early, the contexts of the VMs stay apart (vplic.c).    *)
(***************************************************************************)
THEOREM KeygrabContextsIsolated == KSpec => []ContextsIsolated
  BY KeygrabInductive, PTL DEF VPlicInv

(***************************************************************************)
(* On any number of harts, each with a serial port of its own, a guest     *)
(* that took an interrupt finds it in the claim register and finds a       *)
(* character in the receiver (main.S:44-53, vplic.c:246-262, 323-331).     *)
(***************************************************************************)
THEOREM KeygrabNothingSpurious == KSpec => []NothingSpurious
<1>1. GuestInv => NothingSpurious
  BY SerialFacts DEF GuestInv, InterruptInv, NothingSpurious
<1> QED
  BY <1>1, KeygrabInductive, PTL

-----------------------------------------------------------------------------
(***************************************************************************)
(* The text on the terminal.  Lines is EchoInOrder of any text, n being    *)
(* the number of keys typed.                                               *)
(***************************************************************************)
Line(text, n, i) ==
    CASE i = 1 -> {68}
      [] i = 2 -> {Key(k) : k \in 1 .. n}
      [] i > 2 /\ i % 2 = 0 -> {text[i - 2] + 1}
      [] OTHER -> {newline}

Lines(text, n) == \A i \in DOMAIN text : text[i] \in Line(text, n, i)

(***************************************************************************)
(* A guest at p has given text to its serial port, of the n keys typed the *)
(* first k were taken from the receiver, or dropped when it was            *)
(* initialised, and a is in its register.  The length of the text says how *)
(* far the guest is, and the last key in it is the last one taken, except  *)
(* while that one is on its way through the register.                      *)
(***************************************************************************)
TextInv(p, text, n, k, a) ==
    /\ text \in Seq(Nat) /\ Lines(text, n)
    /\ p \in {"_start", "hello"} => text = <<>>
    /\ p \in {"priority", "enable", "enable_store", "threshold"} => Len(text) = 1
    /\ p \in {"suspend", "trap", "read", "echo"} => Len(text) % 2 = 1
    /\ p \in {"complete", "newline"} => Len(text) % 2 = 0 /\ Len(text) >= 2
    /\ Len(text) >= 2 =>
         text[2 * (Len(text) \div 2)] = Key(IF p = "echo" THEN k - 1 ELSE k)
    /\ p = "echo" => k >= 1 /\ a = Key(k)

\* What hart h has given to its serial port, and how many keys it has taken.
Output(h) == IF thr[h] = NONE THEN wire[h] ELSE Append(wire[h], thr[h])
Taken(h) == typed[h] - Len(rx[h])

\* The receiver holds the last keys typed, in their order.
ReceiverInv(h) ==
    /\ typed[h] \in Nat /\ rx[h] \in Seq(Nat) /\ Len(rx[h]) <= typed[h]
    /\ \A i \in 1 .. Len(rx[h]) : rx[h][i] = Key(Taken(h) + i)

OutputInv(h) ==
    /\ wire[h] \in Seq(Nat) /\ thr[h] \in Nat \cup {NONE}
    /\ TextInv(pc[h], Output(h), typed[h], Taken(h), a0[h])

EchoInvOf(h) == ReceiverInv(h) /\ (pc[h] # "lost" => OutputInv(h))

EchoInv == \A h \in Harts : EchoInvOf(h)

LEMMA Halves ==
    ASSUME NEW m \in Nat
    PROVE  /\ m % 2 = 1 => /\ 2 * (m \div 2) = m - 1
                           /\ (m + 1) % 2 = 0 /\ 2 * ((m + 1) \div 2) = m + 1
           /\ m % 2 = 0 => /\ 2 * (m \div 2) = m
                           /\ (m + 1) % 2 = 1 /\ 2 * ((m + 1) \div 2) = m
<1>1. m \div 2 \in Nat /\ (m = 2 * (m \div 2) \/ m = 2 * (m \div 2) + 1)
  OBVIOUS
<1>2. ASSUME NEW d \in Nat, m = 2 * d \/ m = 2 * d + 1
      PROVE  /\ m % 2 = 1 => /\ 2 * d = m - 1
                             /\ (m + 1) % 2 = 0 /\ 2 * ((m + 1) \div 2) = m + 1
             /\ m % 2 = 0 => /\ 2 * d = m
                             /\ (m + 1) % 2 = 1 /\ 2 * ((m + 1) \div 2) = m
  <2>1. CASE m = 2 * d
    BY <2>1
  <2>2. CASE m = 2 * d + 1
    BY <2>2
  <2> QED
    BY <1>2, <2>1, <2>2
<1> QED
  BY <1>1, <1>2

LEMMA LinesAppend ==
    ASSUME NEW text \in Seq(Nat), NEW n \in Nat, NEW c \in Nat, Lines(text, n),
           c \in Line(text, n, Len(text) + 1)
    PROVE  Lines(Append(text, c), n)
<1> DEFINE t == Append(text, c)
<1> SUFFICES ASSUME NEW i \in DOMAIN t PROVE t[i] \in Line(t, n, i)
  BY DEF Lines
<1>1. i \in 1 .. Len(text) + 1 /\ Len(text) \in Nat
  OBVIOUS
<1>2. \A j \in 1 .. Len(text) : t[j] = text[j]
  OBVIOUS
<1>3. t[Len(text) + 1] = c
  OBVIOUS
<1> HIDE DEF t
<1>4. Line(t, n, i) = Line(text, n, i)
  BY <1>1, <1>2 DEF Line
<1>5. CASE i = Len(text) + 1
  BY <1>3, <1>4, <1>5
<1>6. CASE i # Len(text) + 1
  BY <1>1, <1>2, <1>4, <1>6 DEF Lines
<1> QED
  BY <1>5, <1>6

LEMMA LinesMore ==
    ASSUME NEW text \in Seq(Nat), NEW n \in Nat, Lines(text, n)
    PROVE  Lines(text, n + 1)
  BY DEF Lines, Line

\* Steps that send nothing: one more key is typed, the guest moves on, a key is read.
LEMMA TextTyped ==
    ASSUME NEW p, NEW text, NEW n \in Nat, NEW k, NEW a, TextInv(p, text, n, k, a)
    PROVE  TextInv(p, text, n + 1, k, a)
  BY LinesMore DEF TextInv

LEMMA TextMoves ==
    ASSUME NEW text, NEW n, NEW k, NEW a, NEW b, NEW p, NEW q,
           TextInv(p, text, n, k, a),
           \/ /\ p \in {"priority", "enable", "enable_store"}
              /\ q \in {"enable", "enable_store", "threshold"}
           \/ /\ p \in {"threshold", "suspend", "trap"}
              /\ q \in {"suspend", "trap", "read"}
           \/ p = "complete" /\ q = "newline"
    PROVE  TextInv(q, text, n, k, b)
<1>1. p # "echo" /\ q \notin {"echo", "_start", "hello"}
  OBVIOUS
<1>2. /\ text \in Seq(Nat) /\ Lines(text, n)
      /\ Len(text) >= 2 => text[2 * (Len(text) \div 2)] = Key(k)
  BY <1>1 DEF TextInv
<1>3. /\ q \in {"priority", "enable", "enable_store", "threshold"} => Len(text) = 1
      /\ q \in {"suspend", "trap", "read", "echo"} => Len(text) % 2 = 1
      /\ q \in {"complete", "newline"} => Len(text) % 2 = 0 /\ Len(text) >= 2
  <2>1. 1 % 2 = 1
    OBVIOUS
  <2> QED
    BY <2>1 DEF TextInv
<1> QED
  BY <1>1, <1>2, <1>3 DEF TextInv

LEMMA TextRead ==
    ASSUME NEW text, NEW n, NEW k \in Nat, NEW a, TextInv("read", text, n, k, a)
    PROVE  TextInv("echo", text, n, k + 1, Key(k + 1))
  BY DEF TextInv

\* Steps that send a character: the greeting, a key, the end of its line.
LEMMA TextHello ==
    ASSUME NEW text, NEW n \in Nat, NEW k, NEW a, TextInv("hello", text, n, k, a)
    PROVE  TextInv("priority", Append(text, 68), n, k, a)
<1>1. text = <<>> /\ Lines(text, n) /\ text \in Seq(Nat)
  BY DEF TextInv
<1>2. 68 \in Line(text, n, Len(text) + 1)
  BY <1>1 DEF Line
<1>3. Lines(Append(text, 68), n)
  BY <1>1, <1>2, LinesAppend
<1> QED
  BY <1>1, <1>3 DEF TextInv

LEMMA TextEcho ==
    ASSUME NEW text, NEW n \in Nat, NEW k \in Nat, k <= n, NEW a,
           TextInv("echo", text, n, k, a)
    PROVE  TextInv("complete", Append(text, a), n, k, a)
<1>1. /\ text \in Seq(Nat) /\ Lines(text, n) /\ Len(text) % 2 = 1
      /\ Len(text) >= 2 => text[2 * (Len(text) \div 2)] = Key(k - 1)
      /\ k >= 1 /\ a = Key(k)
  BY DEF TextInv
<1>2. a \in Nat
  BY <1>1 DEF Key
<1>3. Len(text) \in Nat
  BY <1>1
<1>4. a \in Line(text, n, Len(text) + 1)
  <2>1. CASE Len(text) = 1
    BY <1>1, <2>1 DEF Line
  <2>2. CASE Len(text) # 1
    <3>1. Len(text) >= 2 /\ 2 * (Len(text) \div 2) = Len(text) - 1
      <4>1. 2 * (Len(text) \div 2) = Len(text) - 1
        BY <1>1, <1>3, Halves
      <4>2. Len(text) # 0
        BY <1>1
      <4> QED
        BY <1>3, <2>2, <4>1, <4>2
    <3>2. a = text[Len(text) + 1 - 2] + 1
      BY <1>1, <3>1 DEF Key
    <3> QED
      BY <1>1, <1>3, <3>1, <3>2, SMTT(40) DEF Line
  <2> QED
    BY <2>1, <2>2
<1>5. Lines(Append(text, a), n)
  BY <1>1, <1>2, <1>4, LinesAppend
<1>6. /\ Append(text, a) \in Seq(Nat) /\ Len(Append(text, a)) = Len(text) + 1
      /\ Append(text, a)[Len(text) + 1] = a
  BY <1>1, <1>2
<1>7. (Len(text) + 1) % 2 = 0 /\ Len(text) + 1 >= 2
      /\ 2 * ((Len(text) + 1) \div 2) = Len(text) + 1
  BY <1>1, <1>3, Halves
<1> QED
  BY <1>1, <1>5, <1>6, <1>7 DEF TextInv

LEMMA TextNewline ==
    ASSUME NEW text, NEW n \in Nat, NEW k \in Nat, NEW a,
           TextInv("newline", text, n, k, a)
    PROVE  TextInv("suspend", Append(text, newline), n, k, a)
<1>1. /\ text \in Seq(Nat) /\ Lines(text, n)
      /\ Len(text) % 2 = 0 /\ Len(text) >= 2
      /\ text[2 * (Len(text) \div 2)] = Key(k)
  BY DEF TextInv
<1>2. newline \in Nat /\ Len(text) \in Nat
  BY <1>1 DEF newline
<1>3. newline \in Line(text, n, Len(text) + 1)
  <2>1. (Len(text) + 1) % 2 # 0
    BY <1>1, <1>2, Halves
  <2> QED
    BY <1>1, <1>2, <2>1 DEF Line
<1>4. Lines(Append(text, newline), n)
  BY <1>1, <1>2, <1>3, LinesAppend
<1>5. /\ Append(text, newline) \in Seq(Nat)
      /\ Len(Append(text, newline)) = Len(text) + 1
      /\ \A i \in 1 .. Len(text) : Append(text, newline)[i] = text[i]
  BY <1>1, <1>2
<1>6. /\ (Len(text) + 1) % 2 = 1 /\ 2 * (Len(text) \div 2) \in 1 .. Len(text)
      /\ 2 * ((Len(text) + 1) \div 2) = 2 * (Len(text) \div 2)
  BY <1>1, <1>2, Halves
<1> QED
  BY <1>1, <1>4, <1>5, <1>6 DEF TextInv

(***************************************************************************)
(* A step that leaves the serial port of hart g alone, and one that only   *)
(* moves its guest.                                                        *)
(***************************************************************************)
SamePort(g) == UNCHANGED <<rx[g], thr[g], wire[g], typed[g]>>

LEMMA SamePortKeeps ==
    ASSUME NEW g, SamePort(g)
    PROVE  /\ ReceiverInv(g) => ReceiverInv(g)'
           /\ Output(g)' = Output(g) /\ Taken(g)' = Taken(g)
  BY DEF SamePort, ReceiverInv, Output, Taken

LEMMA SameEcho ==
    ASSUME NEW g, EchoInvOf(g), SamePort(g), UNCHANGED <<pc[g], a0[g]>>
    PROVE  EchoInvOf(g)'
<1>1. /\ ReceiverInv(g)' /\ Output(g)' = Output(g) /\ Taken(g)' = Taken(g)
  BY SamePortKeeps DEF EchoInvOf
<1>2. OutputInv(g) => OutputInv(g)'
  BY <1>1 DEF OutputInv, SamePort
<1> QED
  BY <1>1, <1>2 DEF EchoInvOf

LEMMA MoveEcho ==
    ASSUME NEW g, EchoInvOf(g), SamePort(g), pc[g] # "lost",
           \/ pc'[g] = "lost"
           \/ /\ pc[g] \in {"priority", "enable", "enable_store"}
              /\ pc'[g] \in {"enable", "enable_store", "threshold"}
           \/ /\ pc[g] \in {"threshold", "suspend", "trap"}
              /\ pc'[g] \in {"suspend", "trap", "read"}
           \/ pc[g] = "complete" /\ pc'[g] = "newline"
    PROVE  EchoInvOf(g)'
<1>1. /\ ReceiverInv(g)' /\ Output(g)' = Output(g) /\ Taken(g)' = Taken(g)
  BY SamePortKeeps DEF EchoInvOf
<1>2. CASE pc'[g] = "lost"
  BY <1>1, <1>2 DEF EchoInvOf
<1>3. CASE pc'[g] # "lost"
  <2>1. TextInv(pc[g], Output(g), typed[g], Taken(g), a0[g])
    BY DEF EchoInvOf, OutputInv
  <2>2. TextInv(pc'[g], Output(g), typed[g], Taken(g), a0'[g])
    BY <1>3, <2>1, TextMoves
  <2>3. OutputInv(g)'
    BY <1>1, <2>2 DEF EchoInvOf, OutputInv, SamePort
  <2> QED
    BY <1>1, <2>3 DEF EchoInvOf
<1> QED
  BY <1>2, <1>3

(***************************************************************************)
(* uartputc appends a character to what the guest has sent.                *)
(***************************************************************************)
LEMMA PutKeeps ==
    ASSUME NEW h \in Harts, Domains, NEW c \in Nat, uartputc(h, c),
           UNCHANGED <<rx, wire, typed>>, OutputInv(h), ReceiverInv(h)
    PROVE  /\ ReceiverInv(h)' /\ Taken(h)' = Taken(h) /\ typed[h] \in Nat
           /\ Output(h)' = Append(Output(h), c)
           /\ wire'[h] \in Seq(Nat) /\ thr'[h] \in Nat \cup {NONE}
<1>1. thr[h] = NONE /\ thr'[h] = c /\ c # NONE
  BY DEF uartputc, Domains, NONE
<1> QED
  BY <1>1 DEF ReceiverInv, Taken, Output, OutputInv

LEMMA TakenType ==
    ASSUME NEW h, ReceiverInv(h) PROVE Taken(h) \in Nat /\ Taken(h) <= typed[h]
<1>1. typed[h] \in Nat /\ Len(rx[h]) \in Nat /\ Len(rx[h]) <= typed[h]
  BY DEF ReceiverInv
<1> QED
  BY <1>1 DEF Taken

LEMMA EchoType ==
    ASSUME NEW h \in Harts, Domains, EchoInvOf(h), Type(h) PROVE EchoInvOf(h)'
<1>1. /\ typed'[h] = typed[h] + 1 /\ rx'[h] = Append(rx[h], Key(typed[h] + 1))
      /\ UNCHANGED <<pc, a0, thr, wire>>
  BY DEF Type, Domains, guest_vars
<1>2. /\ typed[h] \in Nat /\ rx[h] \in Seq(Nat) /\ Len(rx[h]) <= typed[h]
      /\ \A i \in 1 .. Len(rx[h]) : rx[h][i] = Key(typed[h] - Len(rx[h]) + i)
  BY DEF EchoInvOf, ReceiverInv, Taken
<1>3. Key(typed[h] + 1) \in Nat /\ Len(rx[h]) \in Nat
  BY <1>2 DEF Key
<1>4. /\ rx'[h] \in Seq(Nat) /\ Len(rx'[h]) = Len(rx[h]) + 1
      /\ \A i \in 1 .. Len(rx[h]) : rx'[h][i] = rx[h][i]
      /\ rx'[h][Len(rx[h]) + 1] = Key(typed[h] + 1)
  BY <1>1, <1>2, <1>3
<1>5. Taken(h)' = Taken(h) /\ Taken(h) = typed[h] - Len(rx[h])
  BY <1>1, <1>2, <1>3, <1>4 DEF Taken
<1>6. ReceiverInv(h)'
  <2>1. typed'[h] \in Nat /\ Len(rx'[h]) <= typed'[h]
    BY <1>1, <1>2, <1>3, <1>4
  <2>2. ASSUME NEW i \in 1 .. Len(rx'[h]) PROVE rx'[h][i] = Key(Taken(h)' + i)
    <3>1. CASE i \in 1 .. Len(rx[h])
      BY <1>2, <1>4, <1>5, <3>1
    <3>2. CASE i = Len(rx[h]) + 1
      <4>1. Taken(h)' + i = typed[h] + 1
        BY <1>2, <1>3, <1>5, <3>2
      <4> QED
        BY <1>4, <3>2, <4>1
    <3> QED
      BY <1>3, <1>4, <3>1, <3>2
  <2> QED
    BY <1>4, <2>1, <2>2 DEF ReceiverInv
<1>7. ASSUME pc[h] # "lost" PROVE OutputInv(h)'
  <2>1. TextInv(pc[h], Output(h), typed[h] + 1, Taken(h), a0[h])
    BY <1>2, <1>7, TextTyped DEF EchoInvOf, OutputInv
  <2>2. Output(h)' = Output(h)
    BY <1>1 DEF Output
  <2> QED
    BY <1>1, <1>5, <1>7, <2>1, <2>2 DEF EchoInvOf, OutputInv
<1> QED
  BY <1>1, <1>6, <1>7 DEF EchoInvOf

LEMMA EchoTransmit ==
    ASSUME NEW h \in Harts, Domains, EchoInvOf(h), Transmit(h) PROVE EchoInvOf(h)'
<1>1. /\ thr[h] # NONE /\ thr'[h] = NONE /\ wire'[h] = Append(wire[h], thr[h])
      /\ UNCHANGED <<pc, a0, rx, typed>>
  BY DEF Transmit, Domains, guest_vars
<1>2. ReceiverInv(h)' /\ Taken(h)' = Taken(h)
  BY <1>1 DEF EchoInvOf, ReceiverInv, Taken
<1>3. Output(h)' = Output(h)
  BY <1>1 DEF Output
<1>4. ASSUME pc[h] # "lost" PROVE OutputInv(h)'
  <2>1. wire'[h] \in Seq(Nat)
    BY <1>1, <1>4 DEF EchoInvOf, OutputInv
  <2> QED
    BY <1>1, <1>2, <1>3, <1>4, <2>1 DEF EchoInvOf, OutputInv
<1> QED
  BY <1>1, <1>2, <1>4 DEF EchoInvOf

LEMMA EchoStart ==
    ASSUME NEW h \in Harts, Domains, EchoInvOf(h), _start(h) PROVE EchoInvOf(h)'
<1> USE DEF Domains, uart_vars
<1>1. CASE pc[h] = "_start"
  <2>1. /\ pc'[h] = "hello" /\ rx'[h] = <<>> /\ thr'[h] = NONE
        /\ UNCHANGED <<a0, wire, typed>>
    BY <1>1 DEF _start, At, init_uart
  <2>2. OutputInv(h) /\ ReceiverInv(h)
    BY <1>1 DEF EchoInvOf
  <2>3. TextInv("_start", Output(h), typed[h], Taken(h), a0[h]) /\ Output(h) = <<>>
    BY <1>1, <2>2 DEF OutputInv, TextInv
  <2>4. wire[h] = <<>>
    BY <2>2, <2>3 DEF Output, OutputInv
  <2>5. Output(h)' = <<>>
    BY <2>1, <2>4 DEF Output
  <2>6. ReceiverInv(h)'
    BY <2>1, <2>2 DEF ReceiverInv
  <2>7. TextInv("hello", <<>>, typed[h], Taken(h)', a0[h])
    BY <2>3 DEF TextInv
  <2>8. OutputInv(h)'
    BY <2>1, <2>2, <2>5, <2>7 DEF OutputInv
  <2> QED
    BY <2>6, <2>8 DEF EchoInvOf
<1>2. CASE pc[h] = "hello"
  <2>1. pc'[h] = "priority" /\ uartputc(h, 68) /\ UNCHANGED <<a0, rx, wire, typed>>
    BY <1>2 DEF _start, At
  <2>2. OutputInv(h) /\ ReceiverInv(h)
    BY <1>2 DEF EchoInvOf
  <2>3. /\ ReceiverInv(h)' /\ Taken(h)' = Taken(h) /\ typed[h] \in Nat
        /\ Output(h)' = Append(Output(h), 68)
        /\ wire'[h] \in Seq(Nat) /\ thr'[h] \in Nat \cup {NONE}
    BY <2>1, <2>2, PutKeeps
  <2>4. TextInv("priority", Append(Output(h), 68), typed[h], Taken(h), a0[h])
    BY <1>2, <2>2, <2>3, TextHello DEF OutputInv
  <2>5. OutputInv(h)'
    BY <2>1, <2>3, <2>4 DEF OutputInv
  <2> QED
    BY <2>3, <2>5 DEF EchoInvOf
<1>3. CASE pc[h] \notin {"_start", "hello"}
  <2>1. /\ \/ /\ pc[h] \in {"priority", "enable", "enable_store"}
              /\ pc'[h] \in {"enable", "enable_store", "threshold"}
           \/ pc[h] = "threshold" /\ pc'[h] = "suspend"
        /\ UNCHANGED <<rx, thr, wire, typed>>
    BY <1>3 DEF _start, At
  <2> QED
    BY <2>1, MoveEcho DEF SamePort
<1> QED
  BY <1>1, <1>2, <1>3

LEMMA EchoTrap ==
    ASSUME NEW h \in Harts, GuestInv, EchoInvOf(h), trap(h) PROVE EchoInvOf(h)'
<1> USE DEF GuestInv, Domains, uart_vars
<1>1. pc[h] \in {"trap", "read", "echo", "complete", "newline"}
  BY DEF trap, echo, At
<1>2. OutputInv(h) /\ ReceiverInv(h)
  BY <1>1 DEF EchoInvOf
<1>3. CASE pc[h] \in {"trap", "complete"}
  <2>1. /\ \/ pc[h] = "trap" /\ pc'[h] \in {"suspend", "read"}
           \/ pc[h] = "complete" /\ pc'[h] = "newline"
        /\ UNCHANGED <<rx, thr, wire, typed>>
    BY <1>3 DEF trap, echo, At
  <2> QED
    BY <2>1, MoveEcho DEF SamePort
<1>4. CASE pc[h] = "read"
  <2>1. /\ pc'[h] = "echo" /\ a0'[h] = Head(rx[h]) /\ rx'[h] = Tail(rx[h])
        /\ UNCHANGED <<thr, wire, typed>>
    BY <1>4 DEF trap, echo, At
  <2>2. rx[h] # <<>>
    BY <1>4, SerialFacts DEF InterruptInv
  <2>3. /\ typed[h] \in Nat /\ rx[h] \in Seq(Nat) /\ Len(rx[h]) <= typed[h]
        /\ \A i \in 1 .. Len(rx[h]) : rx[h][i] = Key(Taken(h) + i)
    BY <1>2 DEF ReceiverInv
  <2>4. Len(rx[h]) \in Nat /\ Len(rx[h]) >= 1
    BY <2>2, <2>3
  <2>5. /\ rx'[h] \in Seq(Nat) /\ Len(rx'[h]) = Len(rx[h]) - 1
        /\ \A i \in 1 .. Len(rx'[h]) : rx'[h][i] = rx[h][i + 1]
        /\ a0'[h] = rx[h][1]
    BY <2>1, <2>2, <2>3
  <2>6. Taken(h) \in Nat /\ Taken(h)' = Taken(h) + 1
    BY <2>1, <2>3, <2>4, <2>5 DEF Taken
  <2>7. ReceiverInv(h)'
    <3>1. ASSUME NEW i \in 1 .. Len(rx'[h]) PROVE rx'[h][i] = Key(Taken(h)' + i)
      <4>1. i + 1 \in 1 .. Len(rx[h]) /\ Taken(h)' + i = Taken(h) + (i + 1)
        BY <2>4, <2>5, <2>6
      <4> QED
        BY <2>3, <2>5, <4>1
    <3> QED
      BY <2>1, <2>3, <2>4, <2>5, <3>1 DEF ReceiverInv
  <2>8. a0'[h] = Key(Taken(h) + 1)
    BY <2>3, <2>4, <2>5
  <2>9. TextInv("echo", Output(h), typed[h], Taken(h) + 1, Key(Taken(h) + 1))
    BY <1>2, <1>4, <2>6, TextRead DEF OutputInv
  <2>10. Output(h)' = Output(h)
    BY <2>1 DEF Output
  <2>11. OutputInv(h)'
    BY <1>2, <2>1, <2>6, <2>8, <2>9, <2>10 DEF OutputInv
  <2> QED
    BY <2>7, <2>11 DEF EchoInvOf
<1>5. CASE pc[h] = "echo"
  <2>1. pc'[h] = "complete" /\ uartputc(h, a0[h]) /\ UNCHANGED <<a0, rx, wire, typed>>
    BY <1>5 DEF trap, echo, At
  <2>2. Taken(h) \in Nat /\ Taken(h) <= typed[h]
    BY <1>2, TakenType
  <2>3. a0[h] \in Nat
    BY <1>2, <1>5, <2>2 DEF OutputInv, TextInv, Key
  <2>4. /\ ReceiverInv(h)' /\ Taken(h)' = Taken(h) /\ typed[h] \in Nat
        /\ Output(h)' = Append(Output(h), a0[h])
        /\ wire'[h] \in Seq(Nat) /\ thr'[h] \in Nat \cup {NONE}
    BY <1>2, <2>1, <2>3, PutKeeps
  <2>5. TextInv("complete", Append(Output(h), a0[h]), typed[h], Taken(h), a0[h])
    BY <1>2, <1>5, <2>2, <2>4, TextEcho DEF OutputInv
  <2>6. OutputInv(h)'
    BY <2>1, <2>4, <2>5 DEF OutputInv
  <2> QED
    BY <2>4, <2>6 DEF EchoInvOf
<1>6. CASE pc[h] = "newline"
  <2>1. pc'[h] = "suspend" /\ uartputc(h, newline) /\ UNCHANGED <<a0, rx, wire, typed>>
    BY <1>6 DEF trap, echo, At
  <2>2. Taken(h) \in Nat /\ newline \in Nat
    BY <1>2, TakenType DEF newline
  <2>3. /\ ReceiverInv(h)' /\ Taken(h)' = Taken(h) /\ typed[h] \in Nat
        /\ Output(h)' = Append(Output(h), newline)
        /\ wire'[h] \in Seq(Nat) /\ thr'[h] \in Nat \cup {NONE}
    BY <1>2, <2>1, <2>2, PutKeeps
  <2>4. TextInv("suspend", Append(Output(h), newline), typed[h], Taken(h), a0[h])
    BY <1>2, <1>6, <2>2, <2>3, TextNewline DEF OutputInv
  <2>5. OutputInv(h)'
    BY <2>1, <2>3, <2>4 DEF OutputInv
  <2> QED
    BY <2>3, <2>5 DEF EchoInvOf
<1> QED
  BY <1>1, <1>3, <1>4, <1>5, <1>6

LEMMA EchoStep == GuestInv /\ EchoInv /\ [KNext]_kvars => EchoInv'
<1> SUFFICES ASSUME GuestInv, EchoInv, [KNext]_kvars, NEW g \in Harts
             PROVE  EchoInvOf(g)'
  BY DEF EchoInv
<1> USE DEF GuestInv, Domains, guest_vars, uart_vars
<1>1. EchoInvOf(g)
  BY DEF EchoInv
<1>2. CASE UNCHANGED kvars
  BY <1>1, <1>2, SameEcho DEF kvars, SamePort
<1>3. ASSUME NEW h \in Harts, Type(h) \/ Device(h) \/ Hart(h) \/ Lost(h), h # g
      PROVE  EchoInvOf(g)'
  <2>1. SamePort(g) /\ UNCHANGED <<pc[g], a0[g]>>
    <3>1. CASE Type(h) \/ Device(h)
      BY <1>3, <3>1 DEF Type, Device, Transmit, Gateway, SamePort
    <3>2. CASE _start(h)
      BY <1>3, <3>2 DEF _start, At, init_uart, uartputc, SamePort
    <3>3. CASE Interrupted(h) \/ Hypervisor(h) \/ Lost(h)
      BY <1>3, <3>3 DEF Interrupted, At, Hypervisor, Lost, SamePort
    <3>4. CASE trap(h)
      BY <1>3, <3>4 DEF trap, echo, At, uartputc, SamePort
    <3> QED
      BY <1>3, <3>1, <3>2, <3>3, <3>4 DEF Hart
  <2> QED
    BY <1>1, <2>1, SameEcho
<1>4. CASE Type(g)
  BY <1>1, <1>4, EchoType
<1>5. CASE Transmit(g)
  BY <1>1, <1>5, EchoTransmit
<1>6. CASE _start(g)
  BY <1>1, <1>6, EchoStart
<1>7. CASE trap(g)
  BY <1>1, <1>7, EchoTrap
<1>8. CASE Interrupted(g)
  <2>1. /\ pc[g] # "lost" /\ UNCHANGED <<rx, thr, wire, typed>>
        /\ pc'[g] = "lost" \/ (pc[g] = "suspend" /\ pc'[g] = "trap")
    BY <1>8 DEF Interrupted, At
  <2> QED
    BY <1>1, <2>1, MoveEcho DEF SamePort
<1>9. CASE Gateway(g) \/ Hypervisor(g) \/ Lost(g)
  BY <1>1, <1>9, SameEcho DEF Gateway, Hypervisor, Lost, SamePort
<1> QED
  BY <1>2, <1>3, <1>4, <1>5, <1>6, <1>7, <1>8, <1>9 DEF KNext, Device, Hart

(***************************************************************************)
(* On any number of harts and for any number of keys: what keygrab sends   *)
(* is its greeting and then a line for each key it took, in the order in   *)
(* which they were typed, with none left out, repeated or made up, unless  *)
(* it was interrupted before it was ready (main.S:19-62 through vplic.c).  *)
(***************************************************************************)
THEOREM KeygrabEchoInOrder == KSpec => []EchoInOrder
<1>1. KInit => EchoInv
  <2> SUFFICES ASSUME KInit, NEW h \in Harts PROVE ReceiverInv(h) /\ OutputInv(h)
    BY DEF EchoInv, EchoInvOf
  <2>1. /\ pc[h] = "_start" /\ rx[h] = <<>> /\ thr[h] = NONE /\ wire[h] = <<>>
        /\ typed[h] = 0
    BY DEF KInit
  <2>2. ReceiverInv(h)
    BY <2>1 DEF ReceiverInv
  <2>3. Output(h) = <<>>
    BY <2>1 DEF Output
  <2>4. TextInv("_start", <<>>, typed[h], Taken(h), a0[h])
    BY DEF TextInv, Lines
  <2> QED
    BY <2>1, <2>2, <2>3, <2>4 DEF OutputInv
<1>2. EchoInv => EchoInOrder
  <2> SUFFICES ASSUME EchoInv, NEW h \in Harts, pc[h] # "lost"
               PROVE  Lines(wire[h], typed[h])
    BY DEF EchoInOrder, Lines, Line
  <2>1. OutputInv(h)
    BY DEF EchoInv, EchoInvOf
  <2>2. wire[h] \in Seq(Nat) /\ Lines(Output(h), typed[h])
    BY <2>1 DEF OutputInv, TextInv
  <2>3. CASE thr[h] = NONE
    BY <2>2, <2>3 DEF Output
  <2>4. CASE thr[h] # NONE
    <3> DEFINE t == Append(wire[h], thr[h])
    <3>1. Lines(t, typed[h])
      BY <2>2, <2>4 DEF Output
    <3>2. thr[h] \in Nat
      BY <2>1, <2>4 DEF OutputInv
    <3>3. DOMAIN t = 1 .. Len(wire[h]) + 1 /\ DOMAIN wire[h] = 1 .. Len(wire[h])
          /\ Len(wire[h]) \in Nat
      BY <2>2, <3>2
    <3>4. \A i \in 1 .. Len(wire[h]) : t[i] = wire[h][i]
      BY <2>2, <3>2
    <3> HIDE DEF t
    <3> SUFFICES ASSUME NEW i \in 1 .. Len(wire[h])
                 PROVE  wire[h][i] \in Line(wire[h], typed[h], i)
      BY <3>3 DEF Lines
    <3>5. Line(wire[h], typed[h], i) = Line(t, typed[h], i)
      BY <3>3, <3>4 DEF Line
    <3>6. t[i] \in Line(t, typed[h], i)
      BY <3>1, <3>3 DEF Lines
    <3> QED
      BY <3>4, <3>5, <3>6
  <2> QED
    BY <2>3, <2>4
<1> QED
  BY <1>1, <1>2, EchoStep, KeygrabInductive, PTL DEF KSpec
-----------------------------------------------------------------------------
(***************************************************************************)
(* The types of keygrab's registers and of its serial port.  What it sends *)
(* is a character because it was one when it was received.                 *)
(***************************************************************************)
PortTypes ==
    /\ pc \in [Harts -> {"_start", "hello", "priority", "enable", "enable_store",
                         "threshold", "suspend", "trap", "read", "echo", "complete",
                         "newline", "lost"}]
    /\ a0 \in [Harts -> Nat] /\ s1 \in [Harts -> Nat]
    /\ ier \in [Harts -> BOOLEAN]
    /\ rx \in [Harts -> Seq(Char)] /\ wire \in [Harts -> Seq(Char)]
    /\ thr \in [Harts -> Char \cup {NONE}]
    /\ typed \in [Harts -> 0 .. 16]
    /\ \A h \in Harts : pc[h] = "echo" => a0[h] \in Char

LEMMA CharType ==
    Char \subseteq Nat /\ 68 \in Char /\ newline \in Char /\ \A n \in 1 .. 16 : Key(n) \in Char
BY DEF Char, Key, newline

\* The word of a set of bits is a number.
LEMMA WordType == \A bits : Word(bits) \in Nat
<1> SUFFICES ASSUME NEW bits PROVE Word(bits) \in Nat
  OBVIOUS
<1> DEFINE bit(k) == IF 32 - k \in bits THEN 1 ELSE 0
           step == [x \in Nat \X Nat |-> 2 * x[2] + bit(x[1])]
           F(p) == [k \in 0 .. 32 |-> IF k = 0 THEN 0 ELSE 2 * p[k - 1] + bit(k)]
<1>1. step \in [Nat \X Nat -> Nat]
  <2>1. \A k, d \in Nat : 2 * d + bit(k) \in Nat
    OBVIOUS
  <2> QED
    BY <2>1
<1>2. PICK t \in [0 .. 32 -> Nat] : Recursive(t, 0, step, 32)
  <2>1. 0 \in Nat /\ 32 \in Nat
    OBVIOUS
  <2> HIDE DEF step
  <2> QED
    BY <1>1, <2>1, RecursiveExists
<1>3. t = F(t)
  <2>1. ASSUME NEW k \in 0 .. 32 PROVE t[k] = F(t)[k]
    <3>1. CASE k = 0
      BY <1>2, <3>1 DEF Recursive
    <3>2. CASE k # 0
      <4>1. k \in 1 .. 32 /\ k \in Nat /\ k - 1 \in 0 .. 32 /\ t[k - 1] \in Nat
        BY <3>2
      <4>2. t[k] = step[<<k, t[k - 1]>>]
        <5> HIDE DEF step
        <5> QED
          BY <1>2, <4>1 DEF Recursive
      <4>3. step[<<k, t[k - 1]>>] = 2 * t[k - 1] + bit(k)
        BY <4>1
      <4> QED
        BY <3>2, <4>2, <4>3
    <3> QED
      BY <3>1, <3>2
  <2> QED
    BY <2>1
<1> DEFINE p == CHOOSE q : q = F(q)
<1>4. Word(bits) = p[32]
  BY DEF Word
<1>5. p = F(p)
  BY <1>3
<1> HIDE DEF p
<1> DEFINE T == {k \in 0 .. 32 : p[k] \notin Nat}
<1>6. T = {}
  <2> SUFFICES ASSUME T # {} PROVE FALSE
    OBVIOUS
  <2>1. PICK m \in T : \A k \in T : m <= k
    <3>1. T \in SUBSET Nat
      OBVIOUS
    <3> HIDE DEF T
    <3> QED
      BY <3>1, LeastNumber
  <2>2. m # 0
    BY <1>5, <2>1
  <2>3. m - 1 \in 0 .. 32 /\ p[m - 1] \in Nat
    BY <2>1, <2>2
  <2>4. p[m] = 2 * p[m - 1] + bit(m)
    BY <1>5, <2>1, <2>2
  <2> QED
    BY <2>1, <2>3, <2>4
<1> QED
  BY <1>4, <1>6

\* The setup code of the guest.
LEMMA StartTypes ==
    ASSUME NEW h \in Harts, PortTypes, _start(h) PROVE PortTypes'
<1> USE CharType DEF PortTypes, At, guest_vars, uart_vars
<1>1. CASE At(h, "_start", "hello") /\ init_uart(h) /\ UNCHANGED <<a0, s1, wire, typed>>
  BY <1>1, SMTT(40) DEF init_uart
<1>2. CASE At(h, "hello", "priority") /\ uartputc(h, 68)
           /\ UNCHANGED <<a0, s1, ier, rx, wire, typed>>
  BY <1>2 DEF uartputc
<1>3. CASE \E f, t \in {"priority", "enable", "enable_store", "threshold", "suspend"} :
              At(h, f, t) /\ UNCHANGED <<a0, s1, uart_vars>>
  BY <1>3, ZenonT(60)
<1>4. CASE At(h, "enable", "enable_store") /\ (\E b : a0' = [a0 EXCEPT ![h] = Word(b)])
           /\ UNCHANGED <<s1, uart_vars>>
  <2>1. PICK n \in Nat : a0' = [a0 EXCEPT ![h] = n]
    BY <1>4, WordType
  <2> QED
    BY <1>4, <2>1
<1> QED
  BY <1>1, <1>2, <1>3, <1>4 DEF _start

\* The trap handler of the guest.
LEMMA TrapTypes ==
    ASSUME NEW h \in Harts, PortTypes, GuestInv, trap(h) PROVE PortTypes'
<1> USE CharType DEF PortTypes, At, guest_vars, uart_vars
<1>1. ASSUME NEW c, At(h, "trap", IF c = 0 THEN "suspend" ELSE "read"),
             c = emulate_load(h, claim_offset(context(h))),
             s1' = [s1 EXCEPT ![h] = c], UNCHANGED <<a0, uart_vars>>
      PROVE  PortTypes'
  <2>1. last_claimed_irq_id[h] = serial_irq(h)
    BY <1>1 DEF GuestInv, InterruptInv
  <2>2. c \in Nat
    BY <1>1, <2>1, ClaimFinds, SMTT(40) DEF DTB_SERIAL_IRQ_NUM
  <2> QED
    BY <1>1, <2>2
<1>2. CASE At(h, "read", "echo") /\ a0' = [a0 EXCEPT ![h] = Head(rx[h])]
           /\ rx' = [rx EXCEPT ![h] = Tail(rx[h])] /\ UNCHANGED <<s1, ier, thr, wire, typed>>
  <2>1. rx[h] # <<>>
    BY <1>2, SerialFacts DEF GuestInv, InterruptInv
  <2>2. Head(rx[h]) \in Char /\ Tail(rx[h]) \in Seq(Char)
    BY <2>1, SMTT(40)
  <2> QED
    BY <1>2, <2>2
<1>3. CASE \E c \in Char : uartputc(h, c) /\ UNCHANGED <<a0, s1, ier, rx, wire, typed>>
           /\ \E f, t \in {"echo", "complete", "newline", "suspend"} :
                 At(h, f, t) /\ t # "echo"
  <2>1. PICK c \in Char : thr' = [thr EXCEPT ![h] = c]
    BY <1>3 DEF uartputc
  <2>2. PICK t \in {"complete", "newline", "suspend"} : pc' = [pc EXCEPT ![h] = t]
    BY <1>3
  <2>3. UNCHANGED <<a0, s1, ier, rx, wire, typed>>
    BY <1>3
  <2> QED
    BY <2>1, <2>2, <2>3
<1>4. CASE At(h, "complete", "newline") /\ UNCHANGED <<a0, s1, uart_vars>>
  BY <1>4
<1> QED
  BY <1>1, <1>2, <1>3, <1>4 DEF trap, echo

LEMMA PortTypesStep == GuestInv /\ PortTypes /\ [KNext]_kvars => PortTypes'
<1> SUFFICES ASSUME GuestInv, PortTypes, [KNext]_kvars PROVE PortTypes'
  OBVIOUS
<1>1. UNCHANGED <<guest_vars, uart_vars>> => PortTypes'
  BY DEF PortTypes, guest_vars, uart_vars
<1>2. ASSUME NEW h \in Harts, Type(h) PROVE PortTypes'
  <2>1. typed[h] + 1 \in 1 .. 16
    <3>1. typed[h] \in 0 .. 16 /\ MaxKeys[h] \in 0 .. 16 /\ typed[h] < MaxKeys[h]
      BY <1>2, MaxKeysAssumption DEF PortTypes, Type
    <3> QED
      BY <3>1
  <2>2. PICK c \in Char : c = Key(typed[h] + 1)
    BY <2>1, CharType
  <2>3. Append(rx[h], c) \in Seq(Char)
    BY DEF PortTypes
  <2> QED
    BY <1>2, <2>1, <2>2, <2>3 DEF PortTypes, Type, guest_vars
<1>3. ASSUME NEW h \in Harts, Transmit(h) PROVE PortTypes'
  <2>1. Append(wire[h], thr[h]) \in Seq(Char)
    BY <1>3 DEF PortTypes, Transmit
  <2> QED
    BY <1>3, <2>1 DEF PortTypes, Transmit, guest_vars
<1>4. ASSUME NEW h \in Harts, Interrupted(h) PROVE PortTypes'
  BY <1>4 DEF PortTypes, Interrupted, At, uart_vars
<1>5. ASSUME NEW h \in Harts, Gateway(h) \/ Hypervisor(h) \/ Lost(h) PROVE PortTypes'
  BY <1>1, <1>5 DEF Gateway, Hypervisor, Lost
<1>6. UNCHANGED kvars => PortTypes'
  BY <1>1 DEF kvars
<1> QED
  BY <1>2, <1>3, <1>4, <1>5, <1>6, StartTypes, TrapTypes DEF KNext, Device, Hart

LEMMA PortTypesInit == KInit => PortTypes
<1> SUFFICES ASSUME KInit PROVE PortTypes
  OBVIOUS
<1>1. vhartid \in [Harts -> Nat]
  BY GuestContext DEF tp, vhartid
<1> QED
  BY <1>1 DEF KInit, PortTypes

(***************************************************************************)
(* For every configuration, any keys and whatever lost guests store: the   *)
(* guests' registers hold words, their serial ports characters, and every  *)
(* guest is at a place of its code (main.S:5-62, uart.c, plic.c).          *)
(***************************************************************************)
THEOREM KeygrabTypes == KSpec => []KTypeOK
<1>1. VPlicInv /\ PortTypes => KTypeOK
  BY DEF VPlicInv, PortTypes, KTypeOK
<1> QED
  BY <1>1, KeygrabInductive, PortTypesInit, PortTypesStep, PTL DEF KSpec
=============================================================================
