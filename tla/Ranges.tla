------------------------------- MODULE Ranges -------------------------------
(***************************************************************************)
(* The address range operations of mm/range.h: comparing, merging and      *)
(* cutting two ranges, and keeping a sorted list of them.  The physical    *)
(* allocator, the virtual allocator and kmalloc (mm/allocator.c) and the   *)
(* map of used virtual memory (mm/vm_map.c) are instances of these macros. *)
(*                                                                         *)
(* A region is a record; a list of regions is a sequence.  Sums and        *)
(* differences of addresses and sizes are unsigned machine words.          *)
(***************************************************************************)
EXTENDS Integers, Sequences

CONSTANTS
  WORD,         \* number of addresses (2^32 in the code)
  Flags         \* values of enum alloc_region_flags; 0 matches any region

ASSUME RangesAssumption == WORD \in Nat \ {0} /\ 0 \in Flags

Words == 0 .. WORD - 1
Region == [address : Words, size : Words, flags : Flags]

Plus(x, y) == (x + y) % WORD
Minus(x, y) == (x - y) % WORD

----------------------------------------------------------------------------
(* The predicates at the head of range.h, on a range p and a range r. *)

(* Variant: strictly less. *)
EndPointStrictlyBefore(p, r) == p.size < Minus(r.size, Minus(p.address, r.address))

END_POINT_LT_END_POINT(p, r) == p.size <= Minus(r.size, Minus(p.address, r.address))

(* Variant: only the end points are compared. *)
EndPointAnywhere(p, r) == TRUE

END_POINT_GT_START_POINT(p, r) ==
  p.address >= r.address \/ p.size >= Minus(r.address, p.address)

START_POINT_IN_RANGE(p, r) ==
  p.address >= r.address /\ Minus(p.address, r.address) < r.size

END_POINT_IN_RANGE(p, r) ==
  END_POINT_GT_START_POINT(p, r) /\ END_POINT_LT_END_POINT(p, r)

----------------------------------------------------------------------------
(* name_merge(x, y): whether x and y have been joined, and x afterwards.   *)
(* pre_merge lets only regions with the same flags join.                   *)
pre_merge(x, y) == x.flags = y.flags

merge(x, y) ==
  LET a == IF x.address > y.address THEN y ELSE x
      b == IF x.address > y.address THEN x ELSE y
      offset == Minus(b.address, a.address)
      joined(size) ==
        [ok |-> TRUE, region |-> [x EXCEPT !.address = a.address, !.size = size]]
      separate == [ok |-> FALSE, region |-> x]
  IN  IF ~pre_merge(x, y) THEN separate
      ELSE IF START_POINT_IN_RANGE(b, a) /\ END_POINT_IN_RANGE(b, a) THEN joined(a.size)
      ELSE IF START_POINT_IN_RANGE(b, a) /\ END_POINT_IN_RANGE(a, b)
        THEN joined(Plus(b.size, offset))
      ELSE IF offset = a.size THEN joined(Plus(a.size, b.size))
      ELSE separate

(* name_cut(a, b): whether it reports an overlap, and a and b afterwards,  *)
(* the pieces of a before and after b.                                     *)
cut(a, b) ==
  LET pieces(x, y) == [ok |-> TRUE, a |-> x, b |-> y]
      empty(r) == [r EXCEPT !.size = 0]
      before == [a EXCEPT !.size = Minus(b.address, a.address)]
      end == Plus(b.address, b.size)
      untouched == [ok |-> FALSE, a |-> a, b |-> b]
  IN  IF START_POINT_IN_RANGE(b, a)
        THEN pieces(before,
                    IF END_POINT_IN_RANGE(b, a)
                      THEN [b EXCEPT !.address = end,
                                     !.size = Minus(a.size, Minus(end, a.address))]
                      ELSE empty(b))
      ELSE IF b.address >= a.address THEN untouched
      ELSE IF END_POINT_IN_RANGE(b, a)
        THEN pieces([a EXCEPT !.address = end,
                              !.size = Minus(a.size, Minus(b.size, Minus(a.address, b.address)))],
                    empty(b))
      ELSE IF START_POINT_IN_RANGE(a, b) THEN pieces(empty(a), empty(b))
      ELSE untouched

----------------------------------------------------------------------------
(* The list operations. *)

(* LL_PREPEND_ELEM and LL_APPEND put a region at the i-th position;        *)
(* LL_DELETE takes the i-th one out.                                       *)
Link(map, i, r) == SubSeq(map, 1, i - 1) \o <<r>> \o SubSeq(map, i, Len(map))
Unlink(map, i) == SubSeq(map, 1, i - 1) \o SubSeq(map, i + 1, Len(map))

(* The first position whose region satisfies P, or the one past the end. *)
First(map, P(_)) ==
  LET hits == {i \in 1 .. Len(map) : P(map[i])}
  IN  IF hits = {} THEN Len(map) + 1 ELSE CHOOSE i \in hits : \A j \in hits : i <= j

insert(map, elem) ==
  LET above(r) == elem.address < r.address
  IN  Link(map, First(map, above), elem)

(* The i-th region after a cut that left c.a and c.b of it: what lies      *)
(* behind the hole is inserted as a new region, which on a sorted list     *)
(* lands behind the i-th; what lies before it stays or, if it is empty, is *)
(* deleted.                                                                *)
Stitch(map, i, c) ==
  LET left == [map EXCEPT ![i] = c.a]
      piece == [map[i] EXCEPT !.address = c.b.address, !.size = c.b.size]
      whole == IF c.b.size # 0 THEN insert(left, piece) ELSE left
  IN  IF c.a.size = 0 THEN Unlink(whole, i) ELSE whole

(* Variant: what lies behind the hole is forgotten. *)
CutAndForget(map, i, hole) ==
  LET c == cut(map[i], hole)
  IN  IF c.ok THEN Stitch(map, i, [c EXCEPT !.b.size = 0]) ELSE map

(* name_cut_and_stitch on the i-th region. *)
cut_and_stitch(map, i, hole) ==
  LET c == cut(map[i], hole)
  IN  IF c.ok THEN Stitch(map, i, c) ELSE map

(* name_subtract visits the regions that were on the list when it began:   *)
(* on a sorted list a new piece always lands behind the region it was cut  *)
(* from, so going from the back visits the same regions in the same state. *)
subtract(map, hole) ==
  LET after[i \in 1 .. Len(map) + 1] ==
        IF i > Len(map) THEN map ELSE cut_and_stitch(after[i + 1], i, hole)
  IN  after[1]

(* Variants: the region never joins its neighbours; it joins one of them,  *)
(* and the other is not looked at.                                         *)
AddApart(map, region) == insert(map, region)

AddToOne(map, region) ==
  LET touches(r) == merge(r, region).ok \/ region.address < r.address
      i == First(map, touches)
  IN  IF i > Len(map) \/ ~merge(map[i], region).ok
        THEN Link(map, i, region)
        ELSE [map EXCEPT ![i] = merge(map[i], region).region]

(* The i-th region, grown by what was added, may join its successor. *)
JoinNext(map, i, grown) ==
  IF i < Len(map) /\ merge(map[i + 1], grown).ok
    THEN Unlink([map EXCEPT ![i + 1] = merge(map[i + 1], grown).region], i)
    ELSE [map EXCEPT ![i] = grown]

(* What happens at position i, where the loop of name_add stops. *)
AddAt(map, region, i) ==
  IF i <= Len(map) /\ merge(map[i], region).ok
    THEN JoinNext(map, i, merge(map[i], region).region)
    ELSE Link(map, i, region)

(* name_add: the region joins the first one it touches, which may then     *)
(* join its successor; otherwise it is linked in front of the first region *)
(* above it.                                                               *)
add(map, region) ==
  LET stops(r) == merge(r, region).ok \/ region.address < r.address
  IN  AddAt(map, region, First(map, stops))

(* name_find_address *)
find_address(map, addr) == {r \in {map[i] : i \in 1 .. Len(map)} : r.address = addr}

----------------------------------------------------------------------------
(* What the operations are about: the addresses of a region and of a list, *)
(* for regions that do not run past the last address.                      *)

Fits(r) == r.address + r.size <= WORD

(* Two regions of one list never span the whole address space, from the    *)
(* first address to the last: the distance would not fit into a word.  The *)
(* virtual lists begin at the second page (kmem_load_layout), the physical *)
(* one ends below the last.                                                *)
Room(a, b) ==
  ~(0 \in {a.address, b.address} /\ WORD \in {a.address + a.size, b.address + b.size})

Bytes(r) == r.address .. r.address + r.size - 1
Touch(a, b) == a.address <= b.address + b.size /\ b.address <= a.address + a.size
AllBytes(map) == UNION {Bytes(map[i]) : i \in 1 .. Len(map)}
BytesFlagged(map, f) == UNION {Bytes(map[i]) : i \in {j \in 1 .. Len(map) : map[j].flags = f}}

(* Sorted, disjoint, no empty region. *)
WellFormed(map) ==
  /\ \A i \in 1 .. Len(map) : map[i].size > 0 /\ Fits(map[i])
  /\ \A i, j \in 1 .. Len(map) : i < j => map[i].address + map[i].size <= map[j].address

(* No two neighbours that add should have joined. *)
Coalesced(map) ==
  \A i \in 1 .. Len(map) - 1 :
    map[i].flags = map[i + 1].flags =>
      map[i].address + map[i].size < map[i + 1].address

=============================================================================
