# A TLA+ model of riscv_hypervisor

The repository is a small static-partitioning hypervisor for RISC-V with the H
extension: at boot every hart is given to one virtual machine for good, each VM
has its own memory and devices, and the interrupt controller (PLIC), which knows
nothing of VMs, is emulated. This directory models its concurrent core in TLA+,
checks it with TLC on small instances and proves the most important properties
with TLAPS for every instance.

Paths below are relative to the repository; `vplic.c:328` is line 328 of
`src/virtual/vplic.c`, and so on.

## 1. Inventory

| component | state | operations | talks to |
|---|---|---|---|
| spinlock (`lib/spinlock.S`) | a word | `acquire`, `release` | every shared structure |
| barrier (`lib/lock.c`) | `initial`, `tokens`, `passed`, a lock | `wait_barrier`, `init_barrier` | main, vm_run |
| boot (`core/sboot.S`, `core/main.c`, `driver/cpu.c`) | `satp` of each hart, `cpu_mapped`, `cpus[]` | `setup`, `enter_vas`, `main`, `init_hart`, `mycpu` | SBI, kmem, vmem, barrier |
| VM start (`core/vm_run.c`, `virtual/vcpu.c`, `lib/bits.c`) | `config[]`, `vcpus[]`, the VMs' barriers and stage-2 tables | `vm_run`, `check_cpu_configuration`, `init_vcpu`, `init_hs_pgtable`, `init_hs`, `init_vs` | vmem, barrier |
| traps (`core/trap.S`, `core/trap.c`) | saved registers of the vcpu | `hstrapvec`, `hs_interrupt_handler`, `hs_exception_handler`, `vm_enter` | vplic, vmem |
| virtual PLIC (`virtual/vplic.c`) | `last_claimed_irq_id`, `hvip.VSEIP` | one handler per register and direction, `vplic_handle_interrupt` | PLIC driver, config |
| PLIC driver (`driver/plic.c`) | the device's registers | get/set priority, enable, threshold, pending, claim, complete | the board |
| page allocator (`mem/kmem.c`) | a list linked through free pages, a lock | `init_kmem`, `kmalloc`, `kfree` | vmem |
| page tables (`mem/vmem.c`) | one table per hart, one per VM | `walk`, `map_page`, `map_pages`, `init_vmem`, `convert_va_to_pa` | kmem, trap, vm_run |
| printf and panic (`lib/printf.c`, `include/stdio.h`) | `printf_lk` | `printf`, `panic` | everything, uart |
| uart (`driver/uart.c`) | `uart_lk`, the transmitter | `init_uart`, `uartputc` | the board |
| guest `keygrab` (`guest/keygrab`) | registers, its serial port | `_start`, `trap`, its drivers | virtual PLIC, its serial port |
| pci, sbi, string | device registers | initialisation, firmware calls | main |
| guest `printer`, tests, build helpers | - | - | - |

What is hard here:

* **all harts run the same boot code at once**, and only barriers order the
  steps of hart 0 (free list, `cpu_mapped`, configuration check, VM barriers)
  before the uses of the others;
* **the barrier reads its counter again outside its lock** and is reused at once;
* **three parties share the PLIC**: devices, the trap handlers of all harts, and
  guests that store what they like;
* **the allocator's list lives in the pages it hands out**, which harts clear and
  use outside the lock;
* **page tables of different VMs are built concurrently** from one allocator;
* **a guest's interrupt makes a round trip**: device, PLIC, claim by the
  hypervisor, injection, claim and completion by the guest, and again while the
  device has data; a step forgotten anywhere silences the device for ever;
* **printf is called by all harts, and by itself when it panics**.

Traps do not nest: HS mode runs with `sstatus.SIE = 0`, so a handler is atomic
with respect to its own hart. Nothing is persisted and there is no networking;
crash recovery and message loss do not arise. Timeouts do not either: the timer
is passed through to the guest.

What makes each component correct is stated with its module below. `PROJECT.json`
lists every hazard with its line and the properties aimed at it.

## 2. Modules

| module | models | extends / composes |
|---|---|---|
| `Lock` | what a lock promises | |
| `Spinlock` | `spinlock.S`, an instruction at a time | implements `Lock` |
| `WaitBarrier` | `lock.c`, an access to shared memory at a time | its `acquire` is the abstract lock's |
| `Barrier` | one barrier used again and again by all harts | `WaitBarrier` |
| `VmConfig` | the pure functions over `config[]` | |
| `Boot` | firmware entry to guest entry on all harts | `WaitBarrier`, `VmConfig` |
| `VPlic` | `vplic.c`, `plic.c`, the trap dispatch, the PLIC itself, with arbitrary guests | `VmConfig` |
| `Keygrab` | the guest `keygrab` on every hart, and its serial port | `VPlic` |
| `Printf` | the text `printf` makes of a format and its arguments; what it promises | |
| `Console` | harts that print and panic at the same time, `uart.c` | `Printf`; locks as `Lock` allows |
| `Allocator` | what a page allocator promises | |
| `KMem` | `kmem.c`, an access at a time | implements `Allocator` |
| `VMem` | `vmem.c` and `init_hs_pgtable` | `kmalloc` is one step, as `Allocator` allows |
| `SpinlockProofs`, `BarrierProofs`, `BootProofs`, `ConsoleProofs`, `KMemProofs`, `VMemProofs` | theorems | the module of that name |
| `VPlicProofs` | theorems of `VPlic`, and of `Keygrab` on top of it | `Keygrab` |
| `Induction` | least elements, and the existence of functions defined by a step | |
| `MCBarrier`, `MCBoot`, `MCVPlic`, `MCKeygrab`, `MCConsole`, `MCVMem` | constants for TLC | |

Operators have the names of the functions they model. An operator whose comment
begins with "Faulty" is a plausible bug in the operator that follows it; it is
not part of any specification and only documents, through `mutants` in
`PROJECT.json`, that a property notices the bug.

### Spinlock

`pc[h]` is the instruction a hart is at; `lw` and `amoswap` are separate steps, so
several harts can pass the test. The refinement maps both to "waiting". Memory is
sequentially consistent here and everywhere else; the acquire and release
annotations of the two `amoswap`s justify that for data under a lock, but not for
the barrier's counters (see section 6).

### WaitBarrier and Barrier

Each load and store of `tokens`, `passed` and the lock word is a step of its own;
`tokens--` and `passed++` are a load and a store with a register between. The two
spin loops are modelled by the read that ends them. `WaitBarrier` has no client;
`Barrier` adds one that calls `wait_barrier` up to `MaxRounds` times, as `main()`
does.

### Boot

`pc[h]` names the code a hart runs next outside `wait_barrier`, `at[h]` its place
inside. `mycpu()` is modelled by what goes wrong: it returns an address that only
the bootstrap table or only the final table maps, depending on `cpu_mapped`, and
using the wrong one is a fault. The configuration is a variable that never
changes, so that one run covers accepted and refused ones. The firmware may start
on any hart. The contents of CSRs and of the relocated stack are left out.

`VmConfig` keeps the widths: `count_set_bits` counts bits 31 to 63 of an affinity as
one, and the `1 << hartid` of `get_config_for_cpu` (`vcpu.c:15`) is an `int`, so hart 31
belongs to every VM that has one of these bits, and hart h + 32 to the VM of hart h
(`ShiftedBits`; C leaves that shift undefined, the instruction `sllw` does not).

### VPlic

The guest's side is arbitrary: any offset into the PLIC's page and any word. The
offset is decoded as the code does, with the numbers of the memory map in
`notes/plic.txt`, and the word of an enable register is taken apart bit by bit. The
PLIC is external and modelled from the driver's use of it and the register
description in `notes/plic.txt`: a read of the claim register returns a pending,
enabled source of highest priority above the threshold, clears its pending bit
and keeps it from being delivered again until it is completed; a priority or a
threshold keeps the bits that the PLIC implements. A completion is heeded whether or
not the source is enabled for the context, as in QEMU, the board the code is built for;
the PLIC specification lets it be ignored where the source is not enabled. Between the trap for an
external interrupt (`hstrapvec`) and the claim (`vplic_handle_interrupt`) other
harts act. Loads are operators: they change nothing but the guest's registers. They
are what `LoadsIsolated` is about (`View` is every word a guest could load) and what
the guest of `Keygrab` runs on. An offset that belongs to no register, and every
other trap that ends in `panic`, is the action `panic`.

### Keygrab

`pc[h]` is where the guest of hart h is in `guest/keygrab/core/main.S`; the
registers are kept where they carry something from one step to another. Its
accesses to the PLIC are the loads and stores of `VPlic`, at the offsets its driver
computes; keygrab is built with interrupt 11 (its `dtb.h`), so the configuration of
the run gives both VMs their serial port under that number. The serial ports and
the gateways of the PLIC are external.

The guest enables its interrupts before it has set up its devices, and its trap
handler saves no register. At `suspend` that is harmless. A key that arrives after
the interrupt is enabled and before `suspend` makes the handler return to code that
has lost its registers and its return address; the model gives such a guest up
(`lost`) and lets it store anything anywhere. The properties are about the guests
that are not lost, with lost ones next to them.

### Printf and Console

`Printf` holds the scanner and the conversions as pure operators, next to `Expected`,
the text a call should print, defined from a description of the call instead of the
format string: formats, lengths and types from the comment at the top of `printf.c`,
padding from the expected lines of `test/printf_test.c`. These have no `_` in binary
numbers, and the code puts one between bytes; `CallsPrinted` compares texts with every
`_` left out (`Unsplit`), and section 3 lists the disagreement. Sizes of types are in bytes
as in the code; the number of bits in a byte (`BITS`) and the larger padded base
(`HEX`) are parameters, because a 64-bit word does not fit into TLC's integers.

`Console` has a step per lock operation and per device access. The locks are atomic,
which `Spinlock` justifies. A panic is two calls of `printf` (the macro in `stdio.h`)
followed by nothing; the wording of each is one character, or the conversions it
really has. The formats of the run do not end inside a conversion.

### KMem and VMem

In `KMem` the pages' first words are memory: the list is what one finds by
following them. A page's remaining contents are the same word. RAM starts with
junk, and the end of the kernel image need not be on a page boundary. `kfree` has
no caller in the repository yet; it is modelled with callers that own what they
free. `VMem` uses tables of `W` entries (512 in the code) with a root of `4 * W` for
stage 2, and byte addresses that wrap at `ADDRESSES` (2^64 in the code), so that
rounding, offsets and the unsigned `memory_size - image_size` matter. Regions start on
page boundaries, as all the callers' do (the comment at `vmem.c:59`, "va, pa and
size may not be page aligned", can only be meant for sizes: a region that starts
inside a page would lose its last one).

`Canonical` says which addresses the MMU takes: under sv39 those whose upper bits repeat
the highest bit of the last index, under sv39x4 those with zeros there. `va2idx`
ignores the upper bits. `RangeAssumption` is what the callers give `map_pages`: regions of
canonical addresses, or the one that wraps around because an image is larger than its
VM's memory. The kernel's regions are at the end of the addresses, as `VAS_KERNEL` and
`VAS_RAM` are.

## 3. Runs

Passing runs:

| run | instance | shows |
|---|---|---|
| `Spinlock` | 4 harts | mutual exclusion; implements `Lock` with its liveness |
| `BarrierTwo` | 2 harts, 4 uses | `DTB_NR_CPUS` harts: the uses are separated (`BarrierSafe`), nobody laps (`NoLapping`), and only the race at `lock.c:44` can hang it (`ProgressIfSingleLast`) |
| `Boot` | 2 harts, 9 configurations | no fault from `mycpu()` or `kmalloc`, guests only on finished tables, one builder per VM, a refused configuration stops everybody, all guests run if no barrier hangs |
| `VPlicTwoVms` | a VM of 2 harts and a VM of 1, a device each, any guest | no VM touches (`ContextsIsolated`, `OthersUntouched`) or sees (`LoadsIsolated`) the interrupts of another; nothing claimed is lost (`ClaimedIsHeld`, `ClaimedIsPresented`); no stray VSEIP, also when both harts of a VM trap for one interrupt and the second reads 0 (`NoSpuriousVSEIP`) |
| `Keygrab` | 2 VMs of one hart, 2 keys and 1 | every key is echoed once, in order (`EchoInOrder`) and in the end (`KeysEchoed`), and no interrupt finds nothing to claim or to read (`NothingSpurious`), also next to a lost guest |
| `Console` | 2 harts, 377 pairs of programs: every number on one hart alone, the longest numbers and all else while the other prints or panics | the texts of calls are whole (`CallsContiguous`) and right but for `_` and the smallest negative values (`CallsPrinted`), and every call returns, panics inside `printf` included (`CallsEnd`) |
| `KMem` | 2 harts, 3 pages | no page shared, lost or returned dirty; implements `Allocator` |
| `VMem` | 2 harts, 15 pages, 7 configurations | isolation of VMs at every step, also of those whose tables are never finished for lack of memory; finished tables say exactly what was asked; the fault handler's walk finds the right byte |

Runs that find a disagreement between the code and what the repository says:

| run | what TLC finds |
|---|---|
| `BarrierTwoHang` | both harts find `tokens == 0`; the second overwrites `passed` and both wait for ever (`lock.c:44`, against `lock.c:21`) |
| `BarrierReuse` | 3 harts: the late reset of a second last hart opens the next use too early (`lock.c:46`, against `lock.c:22` and `lock_test.c:69`) |
| `BootGap` | an affinity of the right number of bits that names a hart the board does not have passes the check, and a real hart reaches "No way" (`vcpu.c:17`) |
| `VPlicLost` | a second interrupt is claimed before the first is completed; the first stays in flight for ever (`vplic.c:328`, against `notes/plic.txt:84`) |

The shipped board has two harts, so `BarrierReuse` needs a change of
`DTB_NR_CPUS`; `BarrierTwoHang` does not. The shipped VMs have two interrupting
devices each, so `VPlicLost` applies to them.

More disagreements have no run of their own:

* With three harts `ProgressIfSingleLast` fails too: a fast hart that is not the
  last takes a token of the next use before a slow one has seen the reset, because
  `passed` only holds back the last hart (`lock.c:47`, against "I added passed
  parameter to save myself here", `lock.c:25-27`); `BarrierReuse.cfg` without its
  symmetry and with that property shows it.
* `kmalloc` on an empty list clears page 0, and faults, instead of returning 0
  (`kmem.c:47`, against `kmem.c:35`): `memset` of `KMem` has that branch, and in `VMem`
  a hart that runs out of pages stops.
* An image larger than the memory of its VM makes `memory_size - image_size`
  (`vm_run.c:47`) almost 2^64: the hart runs out of pages, or, if rounding up to a page
  wraps once more, gives the VM no memory besides its image. Both are
  configurations of `VMem`; neither hurts another VM.
* An emulated load to `x0` leaves a value that an emulated store of `x0` stores
  (`vplic.c:183`, `277`, against `notes/hart.txt:11`). The registers of an arbitrary
  guest are not state of `VPlic`, so this is a reading of the code and not a check.
* `printf` of the smallest signed value of a type narrower than `long` in decimal
  prints 2^64 minus its size (`printf.c:29`, against "d - signed", `printf.c:7`).
  `CallsPrinted` excepts it by name (`HasNoNegative`); without the exception it fails.
* In binary `printf` puts a `_` between bytes (`printf.c:86-87`), where the test of `%bhd`
  expects `-0000000000000001` (`test/printf_test.c:31-32`); the comment at `printf.c:3-7` does
  not speak of it. `CallsPrinted` without `Unsplit` fails for every binary number of more
  than one byte.
* `1 << hartid` is an `int` (`vcpu.c:15`): with more than 32 harts two of them can get the same
  VM and the same vhartid (section 4). `BootOneBuilder` is therefore about 32
  harts at most; a boot of 33 harts is out of TLC's reach.
* `keygrab` enables its interrupts too early (`main.S:13`, section 2): the run `Keygrab` shows
  guests that get lost, and its properties except them.
* Two harts of a VM with two devices: the loser of a race for one interrupt reads 0 over the
  other interrupt it had claimed before. That is `VPlicLost` with a 0 in the place of the
  second interrupt.
* A format that ends in `%` makes the scanner step over the end of the string
  (`printf.c:225`). What is behind it in memory is not modelled.
* Another hart can print between the two calls of a panic (`stdio.h:12`); the run
  `Console` has these interleavings, and `CallsContiguous` is about single calls.

Deadlock is not checked where the program really stops: harts that used their
rounds, guests that run outside the model, harts in `panic` or in a barrier that
hangs.

### Bounds and why they are enough

* Harts: the board has two. Two harts show every race between two; three harts in
  `BarrierReuse` show a race that needs a third, and the theorem `OneUseBarrier`
  says that none breaks a barrier that is used once. `MaxRounds` 4 lets the two harts be in different uses with all four
  counters' values; the theorem `TwoHartBarrier` removes the bound.
* PLIC: sources 2 and 33 are in different words of the registers, the guests know them
  as 1 and 10, and the offsets are those of the registers of their own and of a foreign
  context. Thresholds are stored by one hart only; the others keep the value of the
  boot. The other kinds of offset are those of `VPlicLost`. `VPlicIsolation` and the other theorems remove the
  bounds.
* Keygrab: the second key of a hart arrives before, during and after the handling
  of the first, or before the guest is ready. A lost guest stores to the priority of
  its interrupt and to registers of its own and of the other context.
* Console: 0, 1, the digits' and all types' boundaries, in every base and length,
  signed and unsigned; two harts, since a third could only wait as the second does.
* KMem: three pages give a list with a first, a middle and a last element. `page`
  and `reg` are set to null when they are dead, which only merges states.
* VMem: tables of two entries and three levels have every case of `walk`; RAM
  above the first `2^LEVELS` pages needs the wide root. The hypervisor's own table
  is given two of its regions, with sign-extended addresses. The theorems remove all
  these bounds.

### Fairness

Weak fairness of each hart: a hart executes its next instruction, since harts are
not preempted and HS mode does not take interrupts. No fairness is assumed of
spin-lock races (the abstract lock only promises that *somebody* gets a free
lock) or of arbitrary guests. `VPlic`, `KMem` and `VMem` have no fairness and
only safety properties. In `Keygrab` a hart and its serial port do not both stop
while one of them has something to do: the hart runs its guest, hardware delivers
interrupts, and the port sends what it was given; nobody has to type, and a lost
guest may do nothing. In `Console` the harts and the transmitter are weakly fair:
a text ends, so a hart that waits for a lock gets it once the other has nothing
more to print.

## 4. Proofs

All theorems hold for every value of the constants that satisfies the named
assumptions; all are checked to the last leaf.

* `SpinlockExcludes`, `SpinlockRefinesLock` (any set of harts). Mutual exclusion is
  not inductive: the invariant adds that the lock word is set exactly while a hart
  is inside (`LockWord`). The refinement is proved for the safety part.
* `BarrierLockExclusive` (any harts, any number of uses): the same idea per barrier.
* `TwoHartBarrier` (two harts, any number of uses): `TypeOK`, `BarrierSafe` and
  `NoLapping`. The inductive invariant enumerates the six phases a use goes
  through (`Phase0` to `Phase5`) with what the counters and the registers are in
  each; the double-last case is one of them, which is why safety survives the race
  that breaks progress.
* `OneUseBarrier` (any number of harts, one use): the harts still to come
  (`Coming`) are at least as many as the tokens, so that tokens can only reach
  zero, and be reset, after the last has come.
* `VPlicIsolation`, `VPlicOthersUntouched` (any configuration, any guests): the
  three invariants `TypeOK`, `ContextsIsolated` and `ClaimedIsHeld` are inductive
  together and not alone.
* `VPlicLoadsIsolated` (any configuration in which no source is given to two VMs,
  any guests): a register that a load of hart h reads is that of its own context or
  of a source of its VM (`BitsFor` and `virt_to_phys_irq` only lead to `Own(h)`), and
  those change only as `VPlicOthersUntouched` allows.
* `OneSourcePresented`: if every VM has at most one interrupting device, nothing
  claimed is lost - the exact condition under which `VPlicLost` cannot happen.
* `OneSourceNoSpurious`, under the same condition and for VMs of any number of harts:
  a hart whose VSEIP is set holds the only source it could be interrupted by, so it
  does not trap for another and overwrite it with 0.

* `SpinlockTypes`, `TwoHartBarrierTypes`, `TwoHartBarrierNoLapping`, `VPlicTypes` and
  `VPlicClaimedIsHeld` state the remaining parts of these results one by one.

**Keygrab** (any number of harts; each has a serial port of its own under the number
keygrab is built with, `SerialAssumption`). Guests that were interrupted too early,
and then store anything anywhere, run next to the others.

* `KeygrabContextsIsolated` lifts the isolation to this system: every step of the
  guest is one of `VPlic` with the offsets of its driver, which must be shown to be
  decoded as the registers they are meant for.
* `KeygrabNothingSpurious`. The invariant has two parts. `SerialInv`: only serial ports
  interrupt, a hart holds no interrupt but its own port's, knows it, and held nothing
  when it trapped for one. `InterruptInv`: a pending interrupt, or a claimed one that is
  not yet served, means there is a character to read. The second needs the first,
  because an interrupt that the hypervisor forgot would be found again later, with
  nothing to read. No bound on the interrupting devices of a VM is needed as
  long as only the serial port raises interrupts.
* `KeygrabEchoInOrder`. The text given to the port (sent or in the transmitter) has a
  length whose parity says where the guest is, and its last key is the last one taken
  from the receiver, which holds a run of consecutive keys (`TextInv`, `ReceiverInv`).
  That the receiver is not empty when it is read is `KeygrabNothingSpurious`.
* `KeygrabTypes`. What the guest sends is a character because it was one when it was
  received (`PortTypes`); what it reads from the receiver needs the invariants above. The
  word it writes to the enable register is a number because `Word`, which puts it together
  bit by bit, is a function that exists (`WordType`).

**KMem** (any harts, any pages): `KMemTypes`, `KMemNoSharing`, `KMemNothingLost`,
`KMemReturnedClean` and the refinement `KMemRefines`. None is inductive: what is on the
list depends on following links through memory that harts write without the lock. The
invariant says that the list is a sequence of distinct pages, each the link of its
predecessor (`HasList`), that the lock's holder has read a link that is still the list's second
page, and that the pages of the harts are off the list. The steps that remain are facts
about such sequences (a page is pushed, popped, or written off the list), and that
following links finds exactly the pages of the sequence. `links` is a recursive function;
that it exists is `RecursiveExists` of `Induction`.

**VMem** (any harts, configurations, number of levels and width of tables):
`VMemTypes`, `VMemIsolated`, `VMemEntriesStay`, `VMemMappedExactly`, `VMemConvertFinds`.

* The first three. `LayoutAssumption` states what the linker script and the configuration
  give: the VMs' roots and regions are disjoint from the RAM that `kmalloc` has and the
  roots from each other. The invariant places every page that was allocated (`Placed`):
  each table belongs to one root and one level, each entry points into the next level
  of the same root or, on the last, to a page that is no table, and what a hart has in
  its registers is where its walk has to be. Isolation follows because a walk from a root
  never leaves its tables.
* `VMemMappedExactly`: the tables of a hart that is done map what its regions say and
  nothing else. That is not inductive, because a state in which two walks
  for different addresses met in one table satisfies it. `MapInv` gives every table an
  address as well (`Links`): the one whose mapping made it. A walk for `a` that has followed n
  entries is in a table whose address agrees with `a` in the n highest indices (`On`), and
  the entry it came through is the one for the next index (`Linked`). So there is only one
  table for given indices (`OnUnique`), the walk of the MMU and of
  `convert_va_to_pa` ends in it (`Route`), and the leaves below a root are exactly those of the
  pages asked for so far (`Built`), which the place in `map_pages` determines (`Progress`).
* That pages and entries correspond is arithmetic: an address below the span of a table
  is determined by its page's indices (`IndicesDetermine`, for any number of levels, by a
  least counterexample), the span drops out of the indices (`IndexPeriodic`), and of the
  addresses with the same indices the MMU takes one (`CanonicalApart`). A region longer than
  the span, which an image larger than the memory makes, would come back to
  its own first entry; that entry is in use, so `map_page` panics there and the
  hart is never done (`NoRound`).
* `VMemConvertFinds` follows from `Says` of the finished table: the walk depends on the
  indices only, and the offset is added to the page (`SaysConvert`).

**Boot** (any configuration): `BootTypes`, `BootRefusedConfigStops` (any harts),
`BootOneBuilder`, `BootGuestsOnReadyTables` (up to 32 harts), `BootNoFault` (two harts).

* Of two harts of one VM the lower has its own bit in the affinity, since below hart 31
  the `int` shift is exact, and the higher counts it in `get_vhartid` (`BootOneBuilder`).
  From 33 harts on this is false: with the affinity {0, 32}, harts 31 and 32 both get
  vhartid 1; and from 64 harts on, with the affinity {63}, harts 31 and 63 both get
  vhartid 0 and build the table.

* The barriers of `vm_run` are used once per hart. `UsedOnce` counts the harts that
  took a token: tokens reach zero only after all have come, for any number of harts,
  as in `OneUseBarrier` but with harts that differ in what they do before and after.
  What hart 0 did before it came (the configuration check) holds for
  everybody behind it. For a VM's barrier `initial` is `count_set_bits` of its
  affinity, which for up to 32 harts is the number of harts that `get_config_for_cpu` gives
  the VM, because both extend the sign of bit 31 (`CountsMembers`).
* The barrier of `main()` is used again and again, which is safe with two harts only
  (`BarrierReuse` shows why), so that `BootNoFault` is about two harts. Its
  invariant has the six phases of `TwoHartBarrier`, now for the places of `main()`: how
  often a hart has used the barrier is read off its place in the code, and
  `cpu_mapped`, the free list and `satp` are tied to it.
* `ConfigAssumption` says that a configuration is what `struct vm_config` can hold.

**Console** (any harts and programs): `ConsoleContiguous`, `ConsoleTypes`,
`ConsoleCallsPrinted`.

* The hart inside a call holds `printf_lk`; nothing was written for a call that is still to
  come, and what was written for one that is not over is the end of everything written
  so far (`WrittenInv`).
* `ConsoleCallsPrinted` splits `CallsPrinted` in two. What `printf` computes for one call is
  sequential and has nothing to do with harts and locks: that it is the text the
  conversions stand for, up to `_`, is the hypothesis `Conversions` (and `Printable`, that it is text at
  all, the one of `ConsoleTypes`). Proved is the rest: no interleaving and no panic loses a
  character, writes one twice or out of order. `PrintedInv` says that what a hart has
  written of its call, at the end of everything, and what is left of it in `out` make the
  text, where a character counts as written from the store to THR on, before `out` is
  advanced (`Left`). The run `Console` has a call that ends for each of its conversions, so
  `CallsPrinted` there covers the hypothesis for its programs.

Only model-checked: liveness (`BarrierProgress`, `ProgressIfSingleLast`,
`AllGuestsRun`, `KeysEchoed`, `CallsEnd`, the liveness part of `ImplementsLock`), which this
prover does not do; the hypotheses `Printable` and `Conversions`, which are about what the
recursive functions of `Printf` compute from numbers (induction over data with
powers, which the provers do not have); `NoBootFault` for more than two harts, where the
barrier itself does not hold.

## 5. Plan

Done: the modules and proofs above. Next, in this order:

1. `Conversions` for literal characters, strings and padded numbers, whose loops have
   a fixed number of steps;
2. traps: saving and restoring a guest's registers around a handler (`trap.S`), the
   guest's walk call (`trap.c:50-58`) and the `sepc` step.

## 6. Not modelled

* Weak memory. `lock.c:45-46` and the spin reads are plain accesses; RVWMO allows
  orders the model does not have. What the model shows wrong is wrong already
  under sequential consistency.
* The contents of CSRs other than `satp`, `hvip.VSEIP` and the trap causes; stack
  relocation; TLB maintenance.
* Of the traps: that `VM_EXIT` and `VM_ENTER` save and restore every register
  (straight-line code over one hart's own state), the timer interrupt, and the
  print of an unknown exception.
* pci (fixed values written once at boot), the SBI wrappers apart from starting a
  hart, the string helpers (part of the actions that call them), baud rate and line
  settings of the serial ports.
* The guest `printer`, which uses nothing of the hypervisor but its memory map, the
  tests and the build helpers. OpenSBI and the board are external.
