-------------------------------- MODULE MCVMem -------------------------------
(***************************************************************************)
(* VMem for TLC, with tables of two entries and pages of two bytes.  Page  *)
(* numbers: 1 and 2 are devices, 3 the hypervisor's text, 4 and 5 the      *)
(* struct cpu of each hart, 6 and 7 the static roots, 8 and 9 the images   *)
(* of the VMs, 10 and up the RAM behind the hypervisor's image.            *)
(***************************************************************************)
EXTENDS VMem, TLC

CONSTANT RamPages       \* a bound: the pages of RAM kmalloc has

TwoHarts == {0, 1}
Page(n) == n * PAGE_SIZE
Ram == 10 .. 9 + RamPages
StaticRoots == [h \in TwoHarts |-> 6 + h]

\* .text, which is not a whole page, and the struct cpu of the hart, both at the
\* end of the addresses: the other regions of init_vmem are more of the same.
Kernel ==
    [h \in TwoHarts |-> <<Region(Page(62), Page(3), 1, {"R", "X"}),
                          Region(Page(63), Page(4 + h), PAGE_SIZE, {"R", "W"})>>]

Plic(at) == [virt_base |-> Page(at), phys_base |-> Page(2), size |-> PAGE_SIZE, perm |-> {}]
Serial(at) == [virt_base |-> Page(at), phys_base |-> Page(1), size |-> 1, perm |-> {"R", "W"}]

\* A VM with its RAM in the part of the address space only sv39x4 has.
Vm(image, pages, devices) ==
    [image_base |-> Page(image), image_end |-> Page(image) + 1,
     memory_base |-> Page(12), memory_size |-> Page(pages), devices |-> devices]

\* Two pages of image and less memory than that; the neighbour's image is at 26.
Oversized(memory) ==
    [Vm(8, 0, <<Serial(0)>>) EXCEPT !.image_end = Page(8) + 3, !.memory_size = memory]

\* A VM each, with RAM or with the PLIC; a VM of both harts; a device over the
\* RAM; more RAM than there is; images larger than the memory of their VM.
AllConfigs ==
    {(0 :> Vm(8, 2, <<>>)) @@ (1 :> Vm(9, 2, <<>>)),
     (0 :> Vm(8, 1, <<Plic(13)>>)) @@ (1 :> Vm(9, 1, <<Plic(13)>>)),
     (0 :> Vm(8, 3, <<Serial(0), Plic(5)>>)) @@ (1 :> NONE),
     (0 :> Vm(8, 2, <<Serial(13)>>)) @@ (1 :> NONE),
     (0 :> Vm(8, RamPages, <<>>)) @@ (1 :> NONE),
     (0 :> Oversized(2)) @@ (1 :> Vm(26, 1, <<Plic(13)>>)),
     (0 :> Oversized(3)) @@ (1 :> NONE)}
=============================================================================
