-------------------------------- MODULE Heap --------------------------------
(***************************************************************************)
(* What kmalloc and kfree promise (mm/malloc.h and the comments of         *)
(* mm/malloc.c): memory is a set of addresses, a block is an interval of   *)
(* it that nobody else has until it is freed.                              *)
(***************************************************************************)
EXTENDS Integers

CONSTANTS
  Memory,       \* the addresses the heap may ever use
  Sizes,        \* the block sizes asked for
  ALIGN         \* what every block's address is a multiple of

VARIABLES
  blocks,       \* the blocks given out and not freed
  heap          \* the addresses the heap has taken from the page allocator

hvars == <<blocks, heap>>

Extent(b) == b.address .. b.address + b.size - 1
InUse == UNION {Extent(b) : b \in blocks}

HInit == blocks = {} /\ heap = {}

(* A block of the size asked for, of addresses of the heap that no block   *)
(* in use has.                                                             *)
Given(old, new) ==
  \E b \in new :
    /\ b \notin old /\ new = old \cup {b}
    /\ b.size \in Sizes /\ b.address % ALIGN = 0
    /\ Extent(b) \subseteq heap'
    /\ Extent(b) \cap UNION {Extent(o) : o \in old} = {}

(* The heap may take more pages from the page allocator, and never gives   *)
(* one back.                                                               *)
Malloc == heap \subseteq heap' /\ heap' \subseteq Memory /\ Given(blocks, blocks')

Free(b) == b \in blocks /\ blocks' = blocks \ {b} /\ heap' = heap

(* krealloc: a new block, then the old one is freed. *)
Realloc(b) ==
  /\ b \in blocks
  /\ heap \subseteq heap' /\ heap' \subseteq Memory
  /\ Given(blocks, blocks' \cup {b}) /\ b \notin blocks'

(* A call that fails changes nothing. *)
HNext == Malloc \/ \E b \in blocks : Free(b) \/ Realloc(b)

HSpec == HInit /\ [][HNext]_hvars

=============================================================================
