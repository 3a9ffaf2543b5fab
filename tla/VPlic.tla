-------------------------------- MODULE VPlic --------------------------------
(***************************************************************************)
(* The emulated interrupt controller (virtual/vplic.c) between the PLIC of *)
(* the board and guests that do what they like.                            *)
(*                                                                         *)
(* Every guest access to the PLIC's page traps (the page is mapped with no *)
(* permissions) and is emulated on the physical PLIC; an external          *)
(* interrupt traps to HS mode, is claimed there and injected into the      *)
(* guest as hvip.VSEIP.  Traps only happen while a hart runs its guest: HS *)
(* mode runs with sstatus.SIE = 0, so a handler is not interrupted, but    *)
(* the harts' handlers and the devices interleave.                         *)
(*                                                                         *)
(* A guest accesses a word at an offset into the page; the offset is       *)
(* decoded as the code does.  Loads change nothing but the guest's         *)
(* registers, which an arbitrary guest sets as it likes: they are          *)
(* operators here and steps of the guest in Keygrab.                       *)
(***************************************************************************)
EXTENDS VmConfig, Integers

CONSTANTS
    NHarts,         \* DTB_NR_CPUS
    config,         \* config[] of guest/vm_config.c
    Sources,        \* the interrupt sources of the PLIC
    MaxPriority,    \* the largest priority the PLIC implements
    GuestOffsets,   \* a bound: the offsets guests access
    GuestWords      \* a bound: the words guests store

NONE == -1
Harts == 0 .. NHarts - 1
Contexts == 0 .. 2 * NHarts - 1
Priorities == 0 .. MaxPriority

ASSUME ConstantsAssumption ==
    /\ NHarts \in Nat \ {0}
    /\ MaxPriority \in Nat
    /\ Sources \subseteq 1 .. 1023
    /\ GuestOffsets \subseteq Nat
    /\ GuestWords \subseteq Nat

\* struct mmio_dev, with 0 for no interrupt, and struct vm_config.
mmio_dev == [phys_irq : Sources \cup {0}, virt_irq : Nat]
vm_config == [cpu_affinity : SUBSET (0 .. 63), devices : Seq(mmio_dev)]

\* Every hart has a VM.
ASSUME ConfigAssumption ==
    /\ config \in Seq(vm_config)
    /\ \A h \in Harts : ConfigsForCpu(config, h) # {}

VARIABLES
    pending,        \* the sources whose pending bit is set
    inflight,       \* inflight[s]: the context that claimed s, until completed
    priority,       \* priority[s]
    enabled,        \* enabled[c]: the sources enabled for context c
    threshold,      \* threshold[c]
    last_claimed_irq_id,    \* of the vcpu of each hart
    hvip,           \* hvip[h]: is hvip.VSEIP set
    mode            \* mode[h]: in the "guest", at a trap for "SEI", or in "panic"

plic_vars == <<pending, inflight, priority, enabled, threshold>>
vcpu_vars == <<last_claimed_irq_id, hvip, mode>>
vars == <<pending, inflight, priority, enabled, threshold,
          last_claimed_irq_id, hvip, mode>>

\* What init_vcpu has stored: the index of vcpu->conf, and vcpu->vhartid.
conf == [h \in Harts |-> get_config_for_cpu(config, h)]
vhartid == [h \in Harts |-> get_vhartid(h, config[conf[h]].cpu_affinity)]

\* The VM of a hart, its devices, and the virtual and physical context number.
vm(h) == conf[h]
devs(h) == config[vm(h)].devices
vctx(h) == 2 * vhartid[h] + 1
pctx(h) == 2 * h + 1

\* The sources the VM of hart h was given.
Own(h) == {devs(h)[i].phys_irq : i \in DOMAIN devs(h)} \ {0}

TypeOK ==
    /\ pending \subseteq Sources
    /\ inflight \in [Sources -> Contexts \cup {NONE}]
    /\ priority \in [Sources -> Priorities]
    /\ enabled \in [Contexts -> SUBSET Sources]
    /\ threshold \in [Contexts -> Priorities]
    /\ last_claimed_irq_id \in [Harts -> Sources \cup {0}]
    /\ hvip \in [Harts -> BOOLEAN]
    /\ mode \in [Harts -> {"guest", "SEI", "panic"}]

(***************************************************************************)
(* The firmware hands the PLIC over with everything disabled; init_vcpu    *)
(* and init_hs have just run and the guest has been entered.               *)
(***************************************************************************)
Init ==
    /\ pending = {}
    /\ inflight = [s \in Sources |-> NONE]
    /\ priority = [s \in Sources |-> 0]
    /\ enabled = [c \in Contexts |-> {}]
    /\ \E t \in Priorities : threshold = [c \in Contexts |-> t]
    /\ last_claimed_irq_id = [h \in Harts |-> 0]
    /\ hvip = [h \in Harts |-> FALSE]
    /\ mode = [h \in Harts |-> "guest"]
-----------------------------------------------------------------------------
(***************************************************************************)
(* The PLIC.                                                               *)
(***************************************************************************)
\* Raised by the gateway of a device.
DeviceInterrupt(s) ==
    /\ s \notin pending
    /\ pending' = pending \cup {s}
    /\ UNCHANGED <<inflight, priority, enabled, threshold, vcpu_vars>>

\* What context c can be interrupted by.
Deliverable(c) ==
    {s \in pending : /\ inflight[s] = NONE
                     /\ s \in enabled[c]
                     /\ priority[s] > threshold[c]}

\* What a read of the claim register may return: one of highest priority, or 0.
Claimable(c) ==
    LET D == Deliverable(c)
    IN  IF D = {} THEN {0}
        ELSE {s \in D : \A t \in D : priority[t] <= priority[s]}

\* The read's effect when it returned s.
plic_claim(c, s) ==
    /\ pending' = pending \ {s}
    /\ inflight' = IF s = 0 THEN inflight ELSE [inflight EXCEPT ![s] = c]

\* As in QEMU, the board, a completion is heeded whether or not s is enabled for c.
plic_complete(c, s) ==
    inflight' = IF s = 0 THEN inflight ELSE [inflight EXCEPT ![s] = NONE]

\* The bits the PLIC keeps of a priority or a threshold.
Implemented(val) == val % (MaxPriority + 1)

(***************************************************************************)
(* The other functions of driver/plic.c.  Source 0, which stands for "no   *)
(* interrupt", is refused by each; the context is always one of ours.      *)
(***************************************************************************)
plic_get_priority(s) == IF s = 0 THEN 0 ELSE priority[s]

plic_set_priority(s, val) ==
    priority' = IF s = 0 THEN priority ELSE [priority EXCEPT ![s] = Implemented(val)]

plic_get_pending(s) == s \in pending

plic_get_enabled(c, s) == s \in enabled[c]

\* The calls of one loop: an amoor.w for each source in on, an amoand.w in off.
plic_set_enabled(c, on, off) ==
    enabled' = [enabled EXCEPT ![c] = (enabled[c] \ off) \cup on]

plic_get_threshold(c) == threshold[c]

plic_set_threshold(c, val) ==
    threshold' = [threshold EXCEPT ![c] = Implemented(val)]
-----------------------------------------------------------------------------
(***************************************************************************)
(* External interrupts: a hart in its guest traps while its S-mode context *)
(* has something to deliver.  Another hart may claim it first.             *)
(***************************************************************************)
hstrapvec(h) ==
    /\ mode[h] = "guest"
    /\ Deliverable(pctx(h)) # {}
    /\ mode' = [mode EXCEPT ![h] = "SEI"]
    /\ UNCHANGED <<plic_vars, last_claimed_irq_id, hvip>>

\* Faulty: remembers the number the guest knows the interrupt by.
vplic_handle_interrupt_virtual(h) ==
    /\ mode[h] = "SEI"
    /\ \E s \in Claimable(pctx(h)) :
         /\ plic_claim(pctx(h), s)
         /\ last_claimed_irq_id' =
              [last_claimed_irq_id EXCEPT ![h] = phys_to_virt_irq(devs(h), s)]
         /\ hvip' = [hvip EXCEPT ![h] = hvip[h] \/ s # 0]
    /\ mode' = [mode EXCEPT ![h] = "guest"]
    /\ UNCHANGED <<priority, enabled, threshold>>

\* Faulty: injects an interrupt although another hart was first to claim it.
vplic_handle_interrupt_always(h) ==
    /\ mode[h] = "SEI"
    /\ \E s \in Claimable(pctx(h)) :
         /\ plic_claim(pctx(h), s)
         /\ last_claimed_irq_id' = [last_claimed_irq_id EXCEPT ![h] = s]
    /\ hvip' = [hvip EXCEPT ![h] = TRUE]
    /\ mode' = [mode EXCEPT ![h] = "guest"]
    /\ UNCHANGED <<priority, enabled, threshold>>

vplic_handle_interrupt(h) ==
    /\ mode[h] = "SEI"
    /\ \E s \in Claimable(pctx(h)) :
         /\ plic_claim(pctx(h), s)
         /\ last_claimed_irq_id' = [last_claimed_irq_id EXCEPT ![h] = s]
         /\ hvip' = [hvip EXCEPT ![h] = hvip[h] \/ s # 0]
    /\ mode' = [mode EXCEPT ![h] = "guest"]
    /\ UNCHANGED <<priority, enabled, threshold>>
-----------------------------------------------------------------------------
(***************************************************************************)
(* Which register an offset belongs to.  The five cases exclude one        *)
(* another, so their order in the code does not matter.                    *)
(***************************************************************************)
PENDING == 4096         \* 0x1000
ENABLE == 8192          \* 0x2000
THRESHOLD == 2097152    \* 0x200000
CLAIM == THRESHOLD + 4

is_access_to_priority_reg(offset) == offset < PENDING

is_access_to_pending_regs(offset) == PENDING <= offset /\ offset < PENDING + 128

is_access_to_enable_regs(offset) == ENABLE <= offset /\ offset < THRESHOLD

is_access_to_threshold_reg(offset) ==
    /\ THRESHOLD <= offset
    /\ (offset - THRESHOLD) % 4096 = 0 /\ (offset - THRESHOLD) \div 4096 < 15872

is_access_to_claim_complete_reg(offset) ==
    /\ CLAIM <= offset
    /\ (offset - CLAIM) % 4096 = 0 /\ (offset - CLAIM) \div 4096 < 15872

\* The context an offset into the enable, threshold or claim registers names.
enable_ctx(offset) == (offset - ENABLE) \div 128
threshold_ctx(offset) == (offset - THRESHOLD) \div 4096
claim_ctx(offset) == (offset - CLAIM) \div 4096

\* virt_irq_group: which 32 interrupts a word of pending or enable bits is about.
pending_group(offset) == (offset - PENDING) \div 4
enable_group(h, offset) == (offset - ENABLE - 128 * vctx(h)) \div 4

\* The bits i of a word such that virtual interrupt 32 * group + i stands for s.
BitsFor(h, group, s) ==
    {irq % 32 : irq \in {v \in {devs(h)[i].virt_irq : i \in DOMAIN devs(h)} :
                          v \div 32 = group /\ virt_to_phys_irq(devs(h), v) = s}}

\* 1 << i & val
IsSet(val, i) == (val \div 2^i) % 2 = 1
-----------------------------------------------------------------------------
(***************************************************************************)
(* Guest stores.                                                           *)
(***************************************************************************)
\* Faulty store: the guest's number is taken for a physical one.
handle_priority_reg_store_untranslated(h, offset, val) ==
    /\ plic_set_priority(IF offset \div 4 \in Sources THEN offset \div 4 ELSE 0, val)
    /\ UNCHANGED <<pending, inflight, enabled, threshold, vcpu_vars>>

handle_priority_reg_store(h, offset, val) ==
    /\ plic_set_priority(virt_to_phys_irq(devs(h), offset \div 4), val)
    /\ UNCHANGED <<pending, inflight, enabled, threshold, vcpu_vars>>

\* Faulty store: the guest's numbers are taken for physical ones.
handle_enable_regs_store_untranslated(h, offset, val) ==
    /\ LET named == {s \in Sources : s \div 32 = enable_group(h, offset)}
           on == {s \in named : IsSet(val, s % 32)}
       IN  IF enable_ctx(offset) = vctx(h)
           THEN plic_set_enabled(pctx(h), on, named \ on)
           ELSE UNCHANGED enabled
    /\ UNCHANGED <<pending, inflight, priority, threshold, vcpu_vars>>

\* The loop over the 32 bits of the word; the last bit for a source wins.
handle_enable_regs_store(h, offset, val) ==
    /\ LET bits(s) == BitsFor(h, enable_group(h, offset), s)
           named == {s \in Sources : bits(s) # {}}
           on == {s \in named : \E i \in bits(s) :
                    IsSet(val, i) /\ \A j \in bits(s) : j <= i}
       IN  IF enable_ctx(offset) = vctx(h)
           THEN plic_set_enabled(pctx(h), on, named \ on)
           ELSE UNCHANGED enabled
    /\ UNCHANGED <<pending, inflight, priority, threshold, vcpu_vars>>

\* Faulty store: the context the guest names, unchecked.
handle_threshold_reg_store_unchecked(h, offset, val) ==
    /\ IF threshold_ctx(offset) \in Contexts
       THEN plic_set_threshold(threshold_ctx(offset), val)
       ELSE UNCHANGED threshold
    /\ UNCHANGED <<pending, inflight, priority, enabled, vcpu_vars>>

handle_threshold_reg_store(h, offset, val) ==
    /\ IF threshold_ctx(offset) = vctx(h)
       THEN plic_set_threshold(pctx(h), val)
       ELSE UNCHANGED threshold
    /\ UNCHANGED <<pending, inflight, priority, enabled, vcpu_vars>>

(***************************************************************************)
(* A completion that names what the vcpu holds: the three assignments.     *)
(***************************************************************************)
\* Faulty: last_claimed_irq_id keeps its value.
complete_not_forgotten(h, phys_irq) ==
    /\ UNCHANGED last_claimed_irq_id
    /\ plic_complete(pctx(h), phys_irq)
    /\ hvip' = [hvip EXCEPT ![h] = FALSE]

\* Faulty: the PLIC is not told.
complete_not_forwarded(h, phys_irq) ==
    /\ last_claimed_irq_id' = [last_claimed_irq_id EXCEPT ![h] = 0]
    /\ UNCHANGED inflight
    /\ hvip' = [hvip EXCEPT ![h] = FALSE]

\* Faulty: hvip keeps its value.
complete_not_withdrawn(h, phys_irq) ==
    /\ last_claimed_irq_id' = [last_claimed_irq_id EXCEPT ![h] = 0]
    /\ plic_complete(pctx(h), phys_irq)
    /\ UNCHANGED hvip

complete(h, phys_irq) ==
    /\ last_claimed_irq_id' = [last_claimed_irq_id EXCEPT ![h] = 0]
    /\ plic_complete(pctx(h), phys_irq)
    /\ hvip' = [hvip EXCEPT ![h] = FALSE]

handle_complete_reg_store(h, offset, val) ==
    LET phys_irq == virt_to_phys_irq(devs(h), val)
    IN  /\ IF claim_ctx(offset) = vctx(h) /\ phys_irq = last_claimed_irq_id[h]
           THEN complete(h, phys_irq)
           ELSE UNCHANGED <<last_claimed_irq_id, inflight, hvip>>
        /\ UNCHANGED <<pending, priority, enabled, threshold, mode>>

\* A store to the pending registers does nothing.
emulate_store(h, offset, val) ==
    /\ mode[h] = "guest"
    /\ \/ is_access_to_priority_reg(offset) /\ handle_priority_reg_store(h, offset, val)
       \/ is_access_to_pending_regs(offset) /\ UNCHANGED vars
       \/ is_access_to_enable_regs(offset) /\ handle_enable_regs_store(h, offset, val)
       \/ is_access_to_threshold_reg(offset) /\ handle_threshold_reg_store(h, offset, val)
       \/ /\ is_access_to_claim_complete_reg(offset)
          /\ handle_complete_reg_store(h, offset, val)
-----------------------------------------------------------------------------
(***************************************************************************)
(* Guest loads: the word a guest finds.  Pending and enable words are      *)
(* given as the set of their bits.                                         *)
(***************************************************************************)
handle_priority_reg_load(h, offset) ==
    plic_get_priority(virt_to_phys_irq(devs(h), offset \div 4))

\* Faulty load: the word of the physical PLIC.
handle_pending_regs_load_untranslated(h, offset) ==
    {s % 32 : s \in {t \in Sources : plic_get_pending(t) /\ t \div 32 = pending_group(offset)}}

handle_pending_regs_load(h, offset) ==
    UNION {BitsFor(h, pending_group(offset), s) : s \in {t \in Sources : plic_get_pending(t)}}

handle_enable_regs_load(h, offset) ==
    UNION {BitsFor(h, enable_group(h, offset), s) :
             s \in {t \in Sources : enable_ctx(offset) = vctx(h) /\ plic_get_enabled(pctx(h), t)}}

handle_threshold_reg_load(h, offset) ==
    IF threshold_ctx(offset) = vctx(h) THEN plic_get_threshold(pctx(h)) ELSE 0

handle_claim_reg_load(h, offset) ==
    IF claim_ctx(offset) = vctx(h)
    THEN phys_to_virt_irq(devs(h), last_claimed_irq_id[h])
    ELSE 0

\* The offsets that are not a "Bad PLIC access".
Emulated(offset) ==
    \/ is_access_to_priority_reg(offset) \/ is_access_to_pending_regs(offset)
    \/ is_access_to_enable_regs(offset) \/ is_access_to_threshold_reg(offset)
    \/ is_access_to_claim_complete_reg(offset)

emulate_load(h, offset) ==
    CASE is_access_to_priority_reg(offset) -> handle_priority_reg_load(h, offset)
      [] is_access_to_pending_regs(offset) -> handle_pending_regs_load(h, offset)
      [] is_access_to_enable_regs(offset) -> handle_enable_regs_load(h, offset)
      [] is_access_to_threshold_reg(offset) -> handle_threshold_reg_load(h, offset)
      [] is_access_to_claim_complete_reg(offset) -> handle_claim_reg_load(h, offset)

\* "Bad PLIC access", and every other trap that ends in panic(): an instruction
\* parse_htinst refuses, an access outside the PLIC, an unknown exception.
panic(h) ==
    /\ mode[h] = "guest"
    /\ mode' = [mode EXCEPT ![h] = "panic"]
    /\ UNCHANGED <<plic_vars, last_claimed_irq_id, hvip>>
-----------------------------------------------------------------------------
hart(h) ==
    \/ hstrapvec(h)
    \/ vplic_handle_interrupt(h)
    \/ \E offset \in GuestOffsets, val \in GuestWords : emulate_store(h, offset, val)
    \/ panic(h)

Next == (\E s \in Sources : DeviceInterrupt(s)) \/ (\E h \in Harts : hart(h))

Spec == Init /\ [][Next]_vars
-----------------------------------------------------------------------------
(***************************************************************************)
(* Whatever its guest stores, a hart's S-mode context only ever enables    *)
(* sources of its own VM, the M-mode contexts of the firmware stay as they *)
(* were, and what a hart claimed and what is in flight for it belongs to   *)
(* its VM (vplic.c:68-84, 217-236, 323-331).                               *)
(***************************************************************************)
ContextsIsolated ==
    /\ \A h \in Harts :
         /\ enabled[pctx(h)] \subseteq Own(h)
         /\ enabled[2 * h] = {}
         /\ last_claimed_irq_id[h] \in Own(h) \cup {0}
    /\ \A s \in Sources :
         inflight[s] # NONE => \E h \in Harts : inflight[s] = pctx(h) /\ s \in Own(h)

(***************************************************************************)
(* Whose step it is decides what may change: a hart's context and vcpu     *)
(* only in its own traps, not even in those of another hart of its VM, and *)
(* a source only in traps of the VM it was given to, or by itself          *)
(* (emulate_store, vplic.c:264-298, and vplic_handle_interrupt).           *)
(***************************************************************************)
OthersUntouched ==
    [][/\ \A h \in Harts :
            \/ UNCHANGED <<enabled[pctx(h)], threshold[pctx(h)],
                           last_claimed_irq_id[h], hvip[h], mode[h]>>
            \/ hart(h)
       /\ \A h \in Harts : UNCHANGED <<enabled[2 * h], threshold[2 * h]>>
       /\ \A s \in Sources :
            \/ UNCHANGED <<priority[s], inflight[s], s \in pending>>
            \/ \E h \in Harts : s \in Own(h) /\ hart(h)
            \/ DeviceInterrupt(s)]_vars

(***************************************************************************)
(* What a vcpu remembers as claimed is really in flight for its context,   *)
(* and the guest has VSEIP pending to find out: last_claimed_irq_id never  *)
(* names an interrupt that another hart holds or that was already          *)
(* completed (vplic.c:256-261, 328-330).                                   *)
(***************************************************************************)
ClaimedIsHeld ==
    \A h \in Harts : last_claimed_irq_id[h] # 0 =>
        inflight[last_claimed_irq_id[h]] = pctx(h) /\ hvip[h]

(***************************************************************************)
(* Conversely, what a hart claimed from the PLIC can still be seen and     *)
(* completed by its guest.  notes/plic.txt: "For VS level interrupts we    *)
(* must intercept, clear sip.SEIP with plic_claim and then inject          *)
(* interrupt to VS."                                                       *)
(***************************************************************************)
ClaimedIsPresented ==
    \A h \in Harts, s \in Sources :
        inflight[s] = pctx(h) => last_claimed_irq_id[h] = s

(***************************************************************************)
(* VSEIP is pending only while there is something to claim: otherwise the  *)
(* guest traps again and again, reads 0 and has nothing to complete, and   *)
(* only a completion clears the bit (vplic.c:260, 328-330).                *)
(***************************************************************************)
NoSpuriousVSEIP == \A h \in Harts : hvip[h] => last_claimed_irq_id[h] # 0

(***************************************************************************)
(* What the guest of hart h would find at every offset.                    *)
(***************************************************************************)
View(h) == [offset \in {o \in GuestOffsets : Emulated(o)} |-> emulate_load(h, offset)]

(***************************************************************************)
(* A guest learns nothing of another VM through the shared PLIC: neither a *)
(* trap of a hart of another VM nor an interrupt of a source it was not    *)
(* given changes any word its loads can return, although loads read the    *)
(* registers of the physical PLIC (vplic.c:86-154).                        *)
(***************************************************************************)
LoadsIsolated ==
    [][\A h \in Harts :
         \/ UNCHANGED vars
         \/ UNCHANGED View(h)
         \/ \E g \in Harts : vm(g) = vm(h) /\ hart(g)
         \/ \E s \in Own(h) : DeviceInterrupt(s)]_vars
=============================================================================
