-------------------------------- MODULE Kmem --------------------------------
(***************************************************************************)
(* Kernel memory: the first-fit allocator (mm/allocator.c) and, on it, the *)
(* physical frames and the kernel's virtual addresses (mm/kmem.c), the map *)
(* of what was handed out (mm/vm_map.c), the page tables (ia32/paging.c)   *)
(* and the memory map the boot loader reports (boot/multiboot.c).          *)
(*                                                                         *)
(* The state is one record k:                                              *)
(*   vm     vm_alloc_map, the free virtual addresses                       *)
(*   used   vm_map, the virtual ranges handed out                          *)
(*   pm     _kern_pm_alloc_map, the free physical memory                   *)
(*   pt     the frame each page is mapped to                               *)
(*   pd     the page directory entries that have a page table              *)
(*   stale  the pages unmapped since the TLB was last flushed: the CPU may *)
(*          still translate them                                           *)
(*   panic  the operation that panicked, if any                            *)
(***************************************************************************)
EXTENDS Ranges, FiniteSets, SequencesExt

CONSTANTS
  PTR,            \* sizeof(uintptr_t), the default alignment
  PAGE,           \* KMEM_PAGE_SIZE
  PT_ENTRIES,     \* pages of one page table
  ALLOC_VM_USER, ALLOC_VM_KERNEL, ALLOC_PM_NORMAL,
  segment_start,  \* first address of the kernel's part of the address space
  memory_end,     \* end of the memory the bootstrap code has mapped there
  Ram             \* the available entries of the boot loader's memory map

ASSUME KmemAssumption ==
  /\ PTR \in Nat \ {0} /\ PAGE \in Nat \ {0} /\ PT_ENTRIES \in Nat \ {0}
  /\ PAGE % PTR = 0 /\ WORD % (PAGE * PT_ENTRIES) = 0
  /\ segment_start \in Words \ {0} /\ segment_start % (PAGE * PT_ENTRIES) = 0
  /\ PAGE < segment_start
  /\ memory_end = segment_start + PAGE * PT_ENTRIES /\ memory_end < WORD
  /\ Cardinality({0, ALLOC_VM_USER, ALLOC_VM_KERNEL, ALLOC_PM_NORMAL}) = 4
  /\ {ALLOC_VM_USER, ALLOC_VM_KERNEL, ALLOC_PM_NORMAL} \subseteq Flags

(* No entry of the memory map ends before its first page boundary: the     *)
(* padding is subtracted from its size unchecked.                          *)
ASSUME FirmwareAssumption ==
  \A i \in 1 .. Len(Ram) : (-Ram[i].addr) % PAGE <= Ram[i].len /\ Ram[i].addr + Ram[i].len < WORD

(* utils/mem.c; align is a power of two. *)
align_address(address, align) == (((address + align - 1) % WORD) \div align) * align
align_address_down(address, align) == (address \div align) * align
page_align(address) == align_address(address, PAGE)

----------------------------------------------------------------------------
(* mm/allocator.c *)

(* The first size bytes from start on are taken out of the i-th region. *)
TakeFrom(map, i, start, size) ==
  [ ok      |-> TRUE,
    map     |-> cut_and_stitch(map, i, [address |-> start, size |-> size, flags |-> 0]),
    address |-> start ]

NotTaken(map) == [ok |-> FALSE, map |-> map, address |-> 0]

(* Variant: without an alignment asked for, the start is not aligned. *)
MemAllocUnaligned(map, size, alignment, flags) ==
  LET start(r) == IF alignment = 0 THEN r.address ELSE align_address(r.address, alignment)
      enough(r) == (flags = 0 \/ r.flags = flags) /\ r.size - (start(r) - r.address) >= size
      i == First(map, enough)
  IN  IF i > Len(map) THEN NotTaken(map) ELSE TakeFrom(map, i, start(map[i]), size)

(* allocator_mem_alloc: the first region with matching flags that, after   *)
(* aligning its start, is large enough.                                    *)
allocator_mem_alloc(map, size, alignment, flags) ==
  LET start(r) == align_address(r.address, IF alignment = 0 THEN PTR ELSE alignment)
      remaining(r) == Minus(r.size, Minus(start(r), r.address))
      enough(r) == (flags = 0 \/ r.flags = flags) /\ remaining(r) >= size
      i == First(map, enough)
  IN  IF i > Len(map) THEN NotTaken(map) ELSE TakeFrom(map, i, start(map[i]), size)

allocator_mem_free(map, ptr, size, flags) ==
  add(map, [address |-> ptr, size |-> size, flags |-> flags])

----------------------------------------------------------------------------
(* ia32/paging.c.  A page is an address divided by PAGE. *)

Pages == 0 .. WORD \div PAGE - 1
Absent == -1
page(vaddr) == vaddr \div PAGE
PagesOf(vaddr, size) == page(vaddr) .. page(vaddr) + size \div PAGE - 1
paging_pd_entry_id_for_addr(vaddr) == page(vaddr) \div PT_ENTRIES
paging_pt_entry_id_for_addr(vaddr) == page(vaddr) % PT_ENTRIES

(* How many of the pages from vaddr on are in the page table of vaddr. *)
InFirstTable(vaddr, size) ==
  LET room == PT_ENTRIES - paging_pt_entry_id_for_addr(vaddr)
  IN  IF size \div PAGE < room THEN size \div PAGE ELSE room

(* The loop of paging_map goes on for as long as there are pages left, but *)
(* neither vaddr nor base_addr advances: each turn maps the beginning of   *)
(* the range once more, and what lies in the next table is never mapped.   *)
paging_map(k, base_addr, size, vaddr) ==
  LET first == page(vaddr)
      mapped == first .. first + InFirstTable(vaddr, size) - 1
  IN  [k EXCEPT !.pt = [p \in Pages |->
                          IF p \in mapped THEN base_addr + (p - first) * PAGE ELSE @[p]],
                !.pd = IF size = 0 THEN @ ELSE @ \cup {paging_pd_entry_id_for_addr(vaddr)}]

(* Variant: the table of the end of the range has to be there as well. *)
UnmapEndTable(k, vaddr, size) ==
  LET range == PagesOf(vaddr, size)
  IN  [k EXCEPT !.pt = [p \in Pages |-> IF p \in range THEN Absent ELSE @[p]],
                !.stale = @ \cup {p \in range : k.pt[p] # Absent},
                !.panic = IF paging_pd_entry_id_for_addr(vaddr + size) \in k.pd THEN @ ELSE "unmap"]

(* paging_unmap does go from table to table, and panics if one of them has *)
(* never been installed.                                                   *)
paging_unmap(k, vaddr, size) ==
  LET range == PagesOf(vaddr, size)
  IN  [k EXCEPT !.pt = [p \in Pages |-> IF p \in range THEN Absent ELSE @[p]],
                !.stale = @ \cup {p \in range : k.pt[p] # Absent},
                !.panic = IF \A p \in range : p \div PT_ENTRIES \in k.pd THEN @ ELSE "unmap"]

paging_flush(k) == [k EXCEPT !.stale = {}]

(* paging_init and paging_cleanup_bootstrap: the first physical memory     *)
(* appears at the kernel's addresses; the identity mapping it was reached  *)
(* through while booting is removed again.                                 *)
paging_init(k) ==
  LET size == PAGE * PT_ENTRIES
      identity == paging_map(k, 0, size, 0)
      kernel == paging_map(identity, 0, memory_end - segment_start, segment_start)
  IN  paging_unmap(paging_flush(kernel), 0, size)

----------------------------------------------------------------------------
(* vm_map.c: regions are never merged. *)
vm_map_region_add_new(map, addr, size) ==
  insert(map, [address |-> addr, size |-> size, flags |-> 0])

vm_map_region_remove(map, addr) ==
  LET starts(r) == r.address = addr
      i == First(map, starts)
  IN  IF i > Len(map) THEN map ELSE Unlink(map, i)

----------------------------------------------------------------------------
(* mm/kmem.c.  An operation that returns an address returns 0 if it fails. *)

(* The free addresses a, if there are any, are recorded as used. *)
RecordUsed(k, a, size) ==
  [ address |-> a.address,
    kmem |-> IF a.ok
               THEN [k EXCEPT !.vm = a.map,
                              !.used = vm_map_region_add_new(@, a.address, size)]
               ELSE k ]

kmem_vm_alloc(k, size) ==
  RecordUsed(k, allocator_mem_alloc(k.vm, size, 0, ALLOC_VM_KERNEL), size)

kmem_vm_get_size(k, addr) == (CHOOSE r \in find_address(k.used, addr) : TRUE).size

(* Variant: the region stays in the map of used memory. *)
VmFreeStillUsed(k, addr) ==
  [k EXCEPT !.vm = allocator_mem_free(@, addr, kmem_vm_get_size(k, addr), ALLOC_VM_KERNEL)]

(* kmem_vm_free of an address it finds in the map. *)
kmem_vm_free(k, addr) ==
  [k EXCEPT !.used = vm_map_region_remove(@, addr),
            !.vm = allocator_mem_free(@, addr, kmem_vm_get_size(k, addr), ALLOC_VM_KERNEL)]

TakeFrame(k, a) == [address |-> a.address, kmem |-> [k EXCEPT !.pm = a.map]]

kmem_frame_alloc(k) ==
  TakeFrame(k, allocator_mem_alloc(k.pm, PAGE, PAGE, ALLOC_PM_NORMAL))

kmem_frame_free(k, p_addr) ==
  [k EXCEPT !.pm = allocator_mem_free(@, p_addr, PAGE, ALLOC_PM_NORMAL)]

(* Variant: the TLB is never flushed. *)
MapAtNoFlush(v, p_addr, size, flush) ==
  IF v.address = 0 THEN v ELSE [v EXCEPT !.kmem = paging_map(@, p_addr, size, v.address)]

(* kmem_pages_map, once it has been given the range v. *)
MapAt(v, p_addr, size, flush) ==
  IF v.address = 0 THEN v
  ELSE LET mapped == paging_map(v.kmem, p_addr, size, v.address)
       IN  [v EXCEPT !.kmem = IF flush THEN paging_flush(mapped) ELSE mapped]

kmem_pages_map(k, p_addr, num_pages, flush) ==
  MapAt(kmem_vm_alloc(k, num_pages * PAGE), p_addr, num_pages * PAGE, flush)

(* Variant: the page table entries stay. *)
UnmapNothing(k, vm_addr) ==
  IF find_address(k.used, vm_addr) = {} THEN k ELSE kmem_vm_free(k, vm_addr)

(* kmem_pages_unmap, which flushes nothing whatever it is told; an address *)
(* that is not in use is left alone.                                       *)
kmem_pages_unmap(k, vm_addr) ==
  IF find_address(k.used, vm_addr) = {} THEN k
  ELSE kmem_vm_free(paging_unmap(k, vm_addr, kmem_vm_get_size(k, vm_addr)), vm_addr)

(* Variant: the frame is looked at, not taken. *)
WireAgain(w, f, vm_addr) ==
  IF f.address = 0 THEN [w EXCEPT !.ok = FALSE]
  ELSE [ok |-> TRUE, kmem |-> paging_map(w.kmem, f.address, PAGE, vm_addr), done |-> w.done + 1]

(* kmem_page_alloc, given the frame f, or none, for the next page. *)
Wire(w, f, vm_addr) ==
  IF f.address = 0 THEN [w EXCEPT !.ok = FALSE]
  ELSE [ok |-> TRUE, kmem |-> paging_map(f.kmem, f.address, PAGE, vm_addr), done |-> w.done + 1]

kmem_page_alloc(w, vm_addr) == Wire(w, kmem_frame_alloc(w.kmem), vm_addr)

(* kmem_pages_free: the pages are unmapped, but their frames stay lost. *)
kmem_pages_free(k, vm_base_addr, num_pages) ==
  IF num_pages = 0 THEN k ELSE paging_flush(paging_unmap(k, vm_base_addr, num_pages * PAGE))

(* The first pages of the range get a frame each, until there is none. *)
WirePages(k, vm_base_addr, num_pages) ==
  LET next(w, i) == IF w.ok THEN kmem_page_alloc(w, vm_base_addr + (i - 1) * PAGE) ELSE w
      wired[i \in 0 .. num_pages] ==
        IF i = 0 THEN [ok |-> TRUE, kmem |-> k, done |-> 0] ELSE next(wired[i - 1], i)
  IN  wired[num_pages]

(* kmem_pages_alloc when its loop has ended, or has failed. *)
WiredOrFreed(w, vm_base_addr) ==
  [ ok |-> w.ok,
    kmem |-> IF w.ok THEN paging_flush(w.kmem)
             ELSE kmem_pages_free(w.kmem, vm_base_addr, w.done) ]

kmem_pages_alloc(k, vm_base_addr, num_pages) ==
  WiredOrFreed(WirePages(k, vm_base_addr, num_pages), vm_base_addr)

(* kmem_alloc, once it has the range v and the pages p, or not. *)
GiveOrRelease(v, p) ==
  IF p.ok THEN [address |-> v.address, kmem |-> p.kmem]
  ELSE [address |-> 0, kmem |-> kmem_vm_free(p.kmem, v.address)]

WireRange(v, num_pages) ==
  IF v.address = 0 THEN v
  ELSE GiveOrRelease(v, kmem_pages_alloc(v.kmem, v.address, num_pages))

kmem_alloc(k, size) ==
  WireRange(kmem_vm_alloc(k, page_align(size)), page_align(size) \div PAGE)

(* kmem_frame_clone: the new frame dest, and the mappings s of the old and *)
(* d of the new one for the copy, which are removed again.  Where one of   *)
(* them fails the new frame is given back.                                 *)

(* Variant: it is not. *)
CloneKeepsFrame(k, dest) == [address |-> 0, kmem |-> k]

CloneFails(k, dest) == [address |-> 0, kmem |-> kmem_frame_free(k, dest)]

CloneCopies(d, src_vm_addr, dest) ==
  IF d.address = 0
    THEN [CloneFails(d.kmem, dest) EXCEPT !.kmem = kmem_pages_unmap(@, src_vm_addr)]
    ELSE [ address |-> dest,
           kmem |-> kmem_pages_unmap(kmem_pages_unmap(d.kmem, src_vm_addr), d.address) ]

CloneMapsDest(s, dest) ==
  IF s.address = 0 THEN CloneFails(s.kmem, dest)
  ELSE CloneCopies(kmem_pages_map(s.kmem, dest, 1, TRUE), s.address, dest)

CloneMapsSrc(k, f, src) ==
  IF f.address = 0 THEN [address |-> 0, kmem |-> k]
  ELSE CloneMapsDest(kmem_pages_map(f.kmem, src, 1, FALSE), f.address)

kmem_frame_clone(k, src) == CloneMapsSrc(k, kmem_frame_alloc(k), src)

----------------------------------------------------------------------------
(* kmem_load_layout: the addresses below the kernel, but for the first     *)
(* page, then the kernel's, without what the bootstrap code uses.          *)
kmem_load_layout ==
  LET user == allocator_mem_free(<<>>, PAGE, segment_start - PAGE, ALLOC_VM_USER)
      both == allocator_mem_free(user, segment_start, WORD - segment_start, ALLOC_VM_KERNEL)
  IN  subtract(both, [ address |-> segment_start, size |-> memory_end - segment_start,
                       flags |-> 0 ])

(* multiboot_copy_mem_map_to_allocator: every available entry, but for the *)
(* first page of memory.                                                   *)
multiboot_copy_mem_map_to_allocator ==
  LET entry(pm, e) ==
        CASE e.addr # 0 -> allocator_mem_free(pm, e.addr, e.len, ALLOC_PM_NORMAL)
          [] e.addr = 0 /\ e.len > PAGE ->
               allocator_mem_free(pm, e.addr + PAGE, e.len - PAGE, ALLOC_PM_NORMAL)
          [] OTHER -> pm
  IN  FoldLeft(entry, <<>>, Ram)

(* The state kmain has set up when kmalloc_init returns. *)
kmem_init ==
  paging_init([ vm |-> kmem_load_layout, used |-> <<>>,
                pm |-> multiboot_copy_mem_map_to_allocator,
                pt |-> [p \in Pages |-> Absent], pd |-> {}, stale |-> {}, panic |-> "no" ])

=============================================================================
