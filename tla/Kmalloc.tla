------------------------------ MODULE Kmalloc ------------------------------
(***************************************************************************)
(* The users of kernel memory: kmalloc, kfree and krealloc (mm/malloc.c),  *)
(* which take their pages from kmem_alloc; ACPICA, which maps and unmaps   *)
(* the firmware's tables (ia32/acpica_osl.c); and the copying of a frame   *)
(* for a cloned page table (ia32/paging.c).                                *)
(*                                                                         *)
(* kmalloc and kfree hold the malloc spinlock from end to end and are one  *)
(* step each; krealloc calls one after the other, and what happens in      *)
(* between is a kmalloc step followed, later, by a kfree step.  The other  *)
(* operations take no lock: they run while booting, in one thread.         *)
(***************************************************************************)
EXTENDS Kmem

CONSTANTS
  HEADER,         \* sizeof(struct kmalloc_block)
  Requests,       \* the sizes asked for
  KernelImage,    \* the frames the boot loader has put the kernel into
  Tables,         \* the firmware's tables: physical address and length
  MaxMapped,      \* bound on the tables mapped at one time
  MaxClones       \* bound on the frames cloned

VARIABLES
  avail,          \* _malloc_avail_mem
  kmem,           \* the record of Kmem
  blocks,         \* the blocks handed out and not freed
  mapped,         \* the tables mapped: the address ACPICA was given
  clones          \* the frames handed out by kmem_frame_clone

vars == <<avail, kmem, blocks, mapped, clones>>

ASSUME KmallocAssumption ==
  /\ HEADER \in Nat \ {0} /\ Requests \subseteq Nat
  /\ MaxMapped \in Nat /\ MaxClones \in Nat
  /\ \A t \in Tables : t.len > 0 /\ t.address + t.len <= WORD

Running == kmem.panic = "no"

----------------------------------------------------------------------------
(* kmalloc, when the free list has no region for the block: the new pages, *)
(* if there are any, are added to it first.                                *)
AllocateFrom(pages, block_size) ==
  LET more == allocator_mem_free(avail, pages.address, page_align(block_size), 0)
      second == allocator_mem_alloc(more, block_size, 0, 0)
  IN  IF pages.address = 0
        THEN [address |-> 0, avail |-> avail, kmem |-> pages.kmem]
        ELSE [address |-> second.address, avail |-> second.map, kmem |-> pages.kmem]

(* kmalloc: what it returns (0 on failure) and what it leaves behind. *)
Allocate(size) ==
  LET block_size == HEADER + size
      first == allocator_mem_alloc(avail, block_size, 0, 0)
  IN  IF first.ok
        THEN [address |-> first.address, avail |-> first.map, kmem |-> kmem]
        ELSE AllocateFrom(kmem_alloc(kmem, page_align(block_size)), block_size)

Block(a, size) == [address |-> a.address, size |-> HEADER + size]

kmalloc(size) ==
  \E a \in {Allocate(size)} :
    /\ avail' = a.avail
    /\ kmem' = a.kmem
    /\ blocks' = IF a.address # 0 THEN blocks \cup {Block(a, size)} ELSE blocks
    /\ UNCHANGED <<mapped, clones>>

(* Variant: data_size for block_size. *)
FreeData(b) ==
  /\ avail' = allocator_mem_free(avail, b.address, b.size - HEADER, 0)
  /\ blocks' = blocks \ {b}
  /\ UNCHANGED <<kmem, mapped, clones>>

kfree(b) ==
  /\ avail' = allocator_mem_free(avail, b.address, b.size, 0)
  /\ blocks' = blocks \ {b}
  /\ UNCHANGED <<kmem, mapped, clones>>

(* krealloc of a block: kmalloc, copy, kfree. *)
krealloc(b, size) ==
  \E a \in {Allocate(size)} :
    /\ kmem' = a.kmem
    /\ IF a.address # 0
         THEN /\ avail' = allocator_mem_free(a.avail, b.address, b.size, 0)
              /\ blocks' = (blocks \cup {Block(a, size)}) \ {b}
         ELSE avail' = a.avail /\ UNCHANGED blocks
    /\ UNCHANGED <<mapped, clones>>

----------------------------------------------------------------------------
TableOffset(t) == t.address - align_address_down(t.address, PAGE)
TablePages(t) == page_align(t.len + TableOffset(t)) \div PAGE

(* AcpiOsMapMemory: the whole pages the table lies in; it asserts that     *)
(* there was room for them.                                                *)
AcpiOsMapMemory(t) ==
  /\ Cardinality(mapped) < MaxMapped
  /\ \E m \in {kmem_pages_map(kmem, align_address_down(t.address, PAGE), TablePages(t), TRUE)} :
       IF m.address = 0
         THEN /\ kmem' = [kmem EXCEPT !.panic = "map"]
              /\ UNCHANGED mapped
         ELSE /\ kmem' = m.kmem
              /\ mapped' = mapped \cup {[vaddr |-> m.address + TableOffset(t), table |-> t]}
  /\ UNCHANGED <<avail, blocks, clones>>

AcpiOsUnmapMemory(m) ==
  /\ kmem' = kmem_pages_unmap(kmem, align_address_down(m.vaddr, PAGE))
  /\ mapped' = mapped \ {m}
  /\ UNCHANGED <<avail, blocks, clones>>

(* paging_page_clone_4k of a frame that is mapped at a page of the heap. *)
paging_page_clone_4k(p) ==
  /\ Cardinality(clones) < MaxClones
  /\ \E c \in {kmem_frame_clone(kmem, kmem.pt[p])} :
       /\ kmem' = c.kmem
       /\ clones' = IF c.address # 0 THEN clones \cup {c.address} ELSE clones
  /\ UNCHANGED <<avail, blocks, mapped>>

----------------------------------------------------------------------------
(* The pages ACPICA's mappings and the heap have been given. *)
MappedAt(m) == PagesOf(align_address_down(m.vaddr, PAGE), TablePages(m.table) * PAGE)
acpiPages == UNION {MappedAt(m) : m \in mapped}
heap == {x \in AllBytes(kmem.used) : page(x) \notin acpiPages}
heapPages == {page(x) : x \in heap}

Init ==
  /\ avail = <<>>
  /\ kmem = kmem_init
  /\ blocks = {}
  /\ mapped = {}
  /\ clones = {}

Next ==
  /\ Running
  /\ \/ \E size \in Requests : kmalloc(size)
     \/ \E b \in blocks : kfree(b)
     \/ \E b \in blocks, size \in Requests : krealloc(b, size)
     \/ \E t \in Tables : AcpiOsMapMemory(t)
     \/ \E m \in mapped : AcpiOsUnmapMemory(m)
     \/ \E p \in heapPages : paging_page_clone_4k(p)

Spec == Init /\ [][Next]_vars

----------------------------------------------------------------------------
Extent(b) == b.address .. b.address + b.size - 1

(* kmalloc and kfree lose no memory and give none out twice: the blocks in *)
(* use and the free list together are exactly the pages taken from kmem,   *)
(* and no address is in two of them.                                       *)
HeapConserved ==
  /\ UNION {Extent(b) : b \in blocks} \cup AllBytes(avail) = heap
  /\ \A b \in blocks : Extent(b) \cap AllBytes(avail) = {}
  /\ \A b, c \in blocks : b # c => Extent(b) \cap Extent(c) = {}

(* The same for the kernel's virtual addresses, failed allocations and     *)
(* mappings that come and go included; the user's are never touched.       *)
VirtualConserved ==
  /\ WellFormed(kmem.used)
  /\ AllBytes(kmem.used) \cup BytesFlagged(kmem.vm, ALLOC_VM_KERNEL) = memory_end .. WORD - 1
  /\ AllBytes(kmem.used) \cap AllBytes(kmem.vm) = {}
  /\ BytesFlagged(kmem.vm, ALLOC_VM_USER) = PAGE .. segment_start - 1
  /\ acpiPages \subseteq {page(x) : x \in AllBytes(kmem.used)}

(* allocator_mem_alloc subtracts the padding from the size without a       *)
(* check; it never goes below zero, because every region of the heap's     *)
(* free list ends on an aligned address and every region of physical       *)
(* memory reaches its first page boundary, however they have been cut and  *)
(* joined.                                                                 *)
PaddingFits ==
  /\ \A i \in 1 .. Len(avail) :
       /\ (avail[i].address + avail[i].size) % PTR = 0
       /\ align_address(avail[i].address, PTR) - avail[i].address <= avail[i].size
  /\ \A i \in 1 .. Len(kmem.pm) :
       page_align(kmem.pm[i].address) - kmem.pm[i].address <= kmem.pm[i].size

(* kmalloc implements Heap. *)
H == INSTANCE Heap WITH Memory <- memory_end .. WORD - 1,
                        Sizes <- {HEADER + r : r \in Requests},
                        ALIGN <- PTR

HeapSpec == H!HSpec

FreeFrames == {f \in {p * PAGE : p \in Pages} : f .. f + PAGE - 1 \subseteq AllBytes(kmem.pm)}
HeapFrames == {kmem.pt[p] : p \in heapPages}

(* kmem_page_alloc and kmem_frame_clone: each page of the heap has a frame *)
(* of its own, which neither the physical allocator nor a cloned page      *)
(* table has as well.                                                      *)
FramesExclusive ==
  /\ Absent \notin HeapFrames
  /\ Cardinality(HeapFrames) = Cardinality(heapPages)
  /\ \A f \in HeapFrames \cup clones : f .. f + PAGE - 1 \cap AllBytes(kmem.pm) = {}
  /\ HeapFrames \cap clones = {}

(* "return a page to the allocator": kmem_page_free does not, so that      *)
(* frames may get lost, but only by a request that finds no frame left.    *)
LostOnlyWhenExhausted ==
  [][(FreeFrames \cup HeapFrames \cup clones)' # FreeFrames \cup HeapFrames \cup clones
       => FreeFrames' = {}]_vars

(* The page tables say what the maps say: the kernel sees each table it    *)
(* mapped, page by page, as far as the first page table reaches; a page    *)
(* that nobody has been given is not mapped.                               *)
TranslationsMatch ==
  Running =>
    /\ \A m \in mapped :
         LET v == align_address_down(m.vaddr, PAGE)
         IN  \A p \in MappedAt(m) :
               kmem.pt[p] =
                 IF p < page(v) + InFirstTable(v, TablePages(m.table) * PAGE)
                   THEN align_address_down(m.table.address, PAGE) + (p - page(v)) * PAGE
                   ELSE Absent
    /\ \A p \in Pages \ (heapPages \cup acpiPages) :
         kmem.pt[p] # Absent => p \in PagesOf(segment_start, memory_end - segment_start)

(* No page in use is one the CPU may still translate to a frame it had     *)
(* before: the flushes that kmem_pages_unmap leaves out are made up for    *)
(* before the page is used again.                                          *)
NoStaleTranslation == kmem.stale \cap (heapPages \cup acpiPages) = {}

(* "page table not installed. can't unmap": paging_unmap panics only on a  *)
(* mapping that crosses into a page table that paging_map, which never     *)
(* leaves the first, has not installed.                                    *)
UnmapPanicsAcrossTables ==
  [][kmem'.panic = "unmap" =>
       \E m \in mapped \ mapped' : \E p, q \in MappedAt(m) : p \div PT_ENTRIES # q \div PT_ENTRIES]_vars

(* "available physical mem": no frame of the kernel's own image is given   *)
(* to the heap.                                                            *)
KernelFramesKept == HeapFrames \cap KernelImage = {}

=============================================================================
