---------------------------- MODULE RangeProofs ----------------------------
(***************************************************************************)
(* Proofs about mm/range.h, for every word size: what RangeList checks on  *)
(* words of three bits holds on those of 32.  First merge and cut of two   *)
(* ranges, then add and subtract on a list of any length.                  *)
(*                                                                         *)
(* range.h compares ranges through differences of unsigned words, so that  *)
(* no end point is ever computed where it could wrap.  The proof shows     *)
(* that each difference the code relies on is the difference of integers,  *)
(* and the one end point it does compute, of a range that ends at the last *)
(* address, is that of an empty piece.                                     *)
(***************************************************************************)
EXTENDS RangeList, WellFoundedInduction, TLAPS

----------------------------------------------------------------------------
(* Unsigned words. *)

(* The remainder of a number less than one word away from the words. *)
LEMMA ModSmall ==
  ASSUME NEW n \in Nat \ {0}, NEW a \in 0 .. n - 1
  PROVE  a % n = a
OBVIOUS

(* One word above. *)
LEMMA ModAbove ==
  ASSUME NEW n \in Nat \ {0}, NEW a \in n .. 2 * n - 1
  PROVE  a % n = a - n
OBVIOUS

(* One word below. *)
LEMMA ModBelow ==
  ASSUME NEW n \in Nat \ {0}, NEW a \in Int, -n <= a, a < 0
  PROVE  a % n = a + n
OBVIOUS

(* The difference and the sum of two words. *)
LEMMA MinusFacts ==
  ASSUME NEW x \in Words, NEW y \in Words
  PROVE  /\ Minus(x, y) \in Words
         /\ x >= y => Minus(x, y) = x - y
         /\ x < y => Minus(x, y) = x - y + WORD
<1>1. CASE x >= y
  <2>1. x - y \in 0 .. WORD - 1
    BY <1>1, RangesAssumption DEF Words
  <2> QED  BY <1>1, <2>1, ModSmall, RangesAssumption DEF Words, Minus
<1>2. CASE x < y
  <2>1. x - y \in Int /\ -WORD <= x - y /\ x - y < 0
    BY <1>2, RangesAssumption DEF Words
  <2> QED  BY <1>2, <2>1, ModBelow, RangesAssumption DEF Words, Minus
<1> QED  BY <1>1, <1>2, RangesAssumption DEF Words

(* The sum wraps at the size of the word. *)
LEMMA PlusFacts ==
  ASSUME NEW x \in Words, NEW y \in Words
  PROVE  /\ Plus(x, y) \in Words
         /\ x + y < WORD => Plus(x, y) = x + y
         /\ x + y >= WORD => Plus(x, y) = x + y - WORD
<1>1. CASE x + y < WORD
  <2>1. x + y \in 0 .. WORD - 1
    BY <1>1, RangesAssumption DEF Words
  <2> QED  BY <1>1, <2>1, ModSmall, RangesAssumption DEF Words, Plus
<1>2. CASE x + y >= WORD
  <2>1. x + y \in WORD .. 2 * WORD - 1
    BY <1>2, RangesAssumption DEF Words
  <2> QED  BY <1>2, <2>1, ModAbove, RangesAssumption DEF Words, Plus
<1> QED  BY <1>1, <1>2, RangesAssumption DEF Words

----------------------------------------------------------------------------
(* The predicates of range.h on regions that fit. *)

(* The fields of a region that fits. *)
LEMMA RegionFacts ==
  ASSUME NEW r \in Region, Fits(r)
  PROVE  /\ r.address \in Words /\ r.size \in Words /\ r.flags \in Flags
         /\ r.address \in Nat /\ r.size \in Nat /\ r.address + r.size <= WORD
BY RangesAssumption DEF Region, Words, Fits

(* START_POINT_IN_RANGE compares end points. *)
LEMMA StartInRange ==
  ASSUME NEW p \in Region, NEW r \in Region, Fits(p), Fits(r)
  PROVE  START_POINT_IN_RANGE(p, r) <=>
           p.address >= r.address /\ p.address < r.address + r.size
<1>1. /\ p.address \in Nat /\ r.address \in Nat /\ r.size \in Nat
      /\ p.address >= r.address => Minus(p.address, r.address) = p.address - r.address
  BY RegionFacts, MinusFacts
<1> QED  BY <1>1 DEF START_POINT_IN_RANGE

(* So does END_POINT_IN_RANGE.                                             *)
(* The differences are exact where the start of p is not past the end of r *)
(* and the two do not span the whole address space.                        *)
LEMMA EndInRange ==
  ASSUME NEW p \in Region, NEW r \in Region, Fits(p), Fits(r), Room(p, r),
         p.address <= r.address + r.size
  PROVE  END_POINT_IN_RANGE(p, r) <=>
           /\ p.address + p.size >= r.address
           /\ p.address + p.size <= r.address + r.size
<1>1. /\ p.address \in Words /\ p.size \in Words /\ r.address \in Words /\ r.size \in Words
      /\ p.address + p.size <= WORD /\ r.address + r.size <= WORD
  BY RegionFacts
<1> DEFINE off == Minus(p.address, r.address)
           gap == Minus(r.address, p.address)
           left == Minus(r.size, off)
<1>2. /\ off \in Words
      /\ p.address >= r.address => off = p.address - r.address
      /\ p.address < r.address => off = p.address - r.address + WORD
  BY <1>1, MinusFacts
<1>3. p.address < r.address => gap = r.address - p.address
  <2>1. r.address >= p.address => gap = r.address - p.address
    BY <1>1, MinusFacts
  <2> QED  BY <1>1, <2>1, RangesAssumption DEF Words
<1>4. /\ r.size >= off => left = r.size - off
      /\ r.size < off => left = r.size - off + WORD
  <2>1. off \in Words /\ r.size \in Words
    BY <1>1, <1>2
  <2> HIDE DEF off
  <2> QED  BY <2>1, MinusFacts
<1>5. ~(p.address = 0 /\ r.address + r.size = WORD)
  BY DEF Room
<1>6. left = r.address + r.size - p.address
  <2> HIDE DEF off, left
  <2>1. CASE p.address >= r.address
    BY <1>1, <1>2, <1>4, <2>1, RangesAssumption DEF Words
  <2>2. CASE p.address < r.address
    BY <1>1, <1>2, <1>4, <1>5, <2>2, RangesAssumption DEF Words
  <2> QED  BY <1>1, <2>1, <2>2, RangesAssumption DEF Words
<1>7. END_POINT_LT_END_POINT(p, r) <=> p.size <= left
  BY DEF END_POINT_LT_END_POINT
<1>8. END_POINT_GT_START_POINT(p, r) <=> p.address >= r.address \/ p.size >= gap
  BY DEF END_POINT_GT_START_POINT
<1> HIDE DEF off, gap, left
<1> QED  BY <1>1, <1>3, <1>6, <1>7, <1>8, RangesAssumption DEF Words, END_POINT_IN_RANGE

----------------------------------------------------------------------------
(* merge *)

(* The least region with the bytes of two that touch. *)
Spans(r, x, y) ==
  LET end(q) == q.address + q.size
  IN  /\ r \in Region /\ Fits(r)
      /\ r.address \in {x.address, y.address} /\ r.address <= x.address /\ r.address <= y.address
      /\ end(r) \in {end(x), end(y)} /\ end(r) >= end(x) /\ end(r) >= end(y)

(* The result of merge, with its arguments in order, by cases. *)
LEMMA MergeShape ==
  ASSUME NEW x \in Region, NEW y \in Region, Fits(x), Fits(y), Room(x, y)
  PROVE  LET m == merge(x, y)
         IN  /\ m.ok \in BOOLEAN
             /\ m.ok <=> x.flags = y.flags /\ Touch(x, y)
             /\ ~m.ok => m.region = x
             /\ m.ok => m.region.flags = x.flags /\ Spans(m.region, x, y)
<1> DEFINE a == IF x.address > y.address THEN y ELSE x
           b == IF x.address > y.address THEN x ELSE y
           offset == Minus(b.address, a.address)
           joined(size) ==
             [ok |-> TRUE, region |-> [x EXCEPT !.address = a.address, !.size = size]]
           separate == [ok |-> FALSE, region |-> x]
           inside == START_POINT_IN_RANGE(b, a) /\ END_POINT_IN_RANGE(b, a)
           overlap == START_POINT_IN_RANGE(b, a) /\ END_POINT_IN_RANGE(a, b)
           m == merge(x, y)
<1> SUFFICES /\ m.ok \in BOOLEAN
             /\ m.ok <=> x.flags = y.flags /\ Touch(x, y)
             /\ ~m.ok => m.region = x
             /\ m.ok => m.region.flags = x.flags /\ Spans(m.region, x, y)
  OBVIOUS
<1>1. m = IF ~pre_merge(x, y) THEN separate
          ELSE IF inside THEN joined(a.size)
          ELSE IF overlap THEN joined(Plus(b.size, offset))
          ELSE IF offset = a.size THEN joined(Plus(a.size, b.size))
          ELSE separate
  BY DEF merge
<1>2. pre_merge(x, y) <=> x.flags = y.flags
  BY DEF pre_merge
<1>3. /\ a \in Region /\ b \in Region /\ Fits(a) /\ Fits(b)
      /\ Room(a, b) /\ Room(b, a) /\ a.address <= b.address
  BY RegionFacts DEF Room
<1>4. /\ Touch(x, y) <=> Touch(a, b)
      /\ \A r : Spans(r, x, y) <=> Spans(r, a, b)
  BY DEF Touch, Spans
<1>5. /\ separate.ok = FALSE /\ separate.region = x
      /\ \A size : joined(size).ok = TRUE
      /\ \A size : joined(size).region.address = a.address
      /\ \A size : joined(size).region.size = size
      /\ \A size : joined(size).region.flags = x.flags
  BY Zenon DEF Region
<1>5a. \A size \in Words : joined(size).region \in Region
  BY <1>3 DEF Region
<1> HIDE DEF a, b, joined, separate, m
<1>6. /\ a.address \in Words /\ a.size \in Words /\ b.address \in Words /\ b.size \in Words
      /\ a.address + a.size <= WORD /\ b.address + b.size <= WORD
      /\ ~(a.address = 0 /\ b.address + b.size = WORD)
  BY <1>3, RegionFacts DEF Room
<1>7. offset = b.address - a.address /\ offset \in Words
  BY <1>3, <1>6, MinusFacts, RangesAssumption, Zenon DEF Words
<1>8. Touch(a, b) <=> b.address <= a.address + a.size
  BY <1>3, <1>6, RangesAssumption DEF Touch, Words
<1>9. START_POINT_IN_RANGE(b, a) <=> b.address < a.address + a.size
  BY <1>3, StartInRange
<1>10. b.address <= a.address + a.size =>
         (END_POINT_IN_RANGE(b, a) <=> b.address + b.size <= a.address + a.size)
  BY <1>3, <1>6, EndInRange, RangesAssumption DEF Words
<1>11. END_POINT_IN_RANGE(a, b) <=>
         a.address + a.size >= b.address /\ a.address + a.size <= b.address + b.size
  BY <1>3, <1>6, EndInRange, RangesAssumption DEF Words
<1> HIDE DEF offset
<1>j. ASSUME NEW size \in Words, m = joined(size), Touch(a, b),
             a.address + size \in {a.address + a.size, b.address + b.size},
             a.address + size >= a.address + a.size, a.address + size >= b.address + b.size
      PROVE  /\ m.ok = TRUE /\ m.region.flags = x.flags /\ Touch(x, y)
             /\ Spans(m.region, x, y)
  <2>1. /\ m.ok = TRUE /\ m.region.address = a.address /\ m.region.size = size
        /\ m.region.flags = x.flags /\ m.region \in Region
    BY <1>j, <1>5, <1>5a, Zenon
  <2>2. a.address + size <= WORD
    BY <1>j, <1>6
  <2>3. Spans(m.region, a, b)
    <3> DEFINE r == m.region
    <3> HIDE DEF r
    <3>1. r.address + r.size = a.address + size /\ r.address <= b.address
      BY <1>3, <2>1 DEF r
    <3>2. a.address <= a.address
      BY <1>6, RangesAssumption DEF Words
    <3> QED BY <1>j, <2>1, <2>2, <3>1, <3>2 DEF Spans, Fits, r
  <2> QED BY <1>j, <1>4, <2>1, <2>3
<1>12. CASE x.flags # y.flags
  <2>1. m.ok = FALSE /\ m.region = x
    BY <1>1, <1>2, <1>5, <1>12
  <2> QED  BY <1>12, <2>1
<1>13. CASE x.flags = y.flags /\ inside
  <2>1. m = joined(a.size) /\ Touch(a, b)
    BY <1>1, <1>2, <1>6, <1>8, <1>9, <1>13, RangesAssumption DEF Words
  <2>2. /\ a.address + a.size \in {a.address + a.size, b.address + b.size}
        /\ a.address + a.size >= a.address + a.size /\ a.address + a.size >= b.address + b.size
    BY <1>6, <1>9, <1>10, <1>13, RangesAssumption DEF Words
  <2>3. m.ok = TRUE /\ m.region.flags = x.flags /\ Touch(x, y) /\ Spans(m.region, x, y)
    BY <1>6, <1>j, <2>1, <2>2, Zenon
  <2> QED  BY <1>13, <2>3
<1>14. CASE x.flags = y.flags /\ ~inside /\ overlap
  <2>1. m = joined(Plus(b.size, offset)) /\ Touch(a, b)
    BY <1>1, <1>2, <1>6, <1>8, <1>9, <1>14, RangesAssumption DEF Words
  <2>2. /\ Plus(b.size, offset) = b.size + offset /\ b.size + offset \in Words
        /\ a.address + (b.size + offset) = b.address + b.size
    <3>1. b.size + offset < WORD /\ b.size + offset \in Words
      BY <1>3, <1>6, <1>7, RangesAssumption DEF Words
    <3>2. a.address + (b.size + offset) = b.address + b.size
      BY <1>6, <1>7, RangesAssumption DEF Words
    <3> QED  BY <1>6, <1>7, <3>1, <3>2, PlusFacts, Zenon
  <2>3. /\ a.address + (b.size + offset) >= a.address + a.size
        /\ a.address + (b.size + offset) >= b.address + b.size
    BY <1>6, <1>11, <1>14, <2>2, RangesAssumption DEF Words
  <2>4. m.ok = TRUE /\ m.region.flags = x.flags /\ Touch(x, y) /\ Spans(m.region, x, y)
    <3>1. a.address + (b.size + offset) \in {a.address + a.size, b.address + b.size}
      BY <2>2
    <3> QED BY <1>j, <2>1, <2>2, <2>3, <3>1, Zenon
  <2> QED  BY <1>14, <2>4
<1>15. CASE x.flags = y.flags /\ ~inside /\ ~overlap /\ offset = a.size
  <2>1. m = joined(Plus(a.size, b.size)) /\ Touch(a, b)
    BY <1>1, <1>2, <1>6, <1>7, <1>8, <1>15, RangesAssumption DEF Words
  <2>2. /\ Plus(a.size, b.size) = a.size + b.size /\ a.size + b.size \in Words
        /\ a.address + (a.size + b.size) = b.address + b.size
        /\ a.address + (a.size + b.size) >= a.address + a.size
        /\ a.address + (a.size + b.size) >= b.address + b.size
    <3>1. a.size + b.size < WORD /\ a.size + b.size \in Words
      BY <1>3, <1>6, <1>7, <1>15, RangesAssumption DEF Words
    <3>2. /\ a.address + (a.size + b.size) = b.address + b.size
          /\ a.address + (a.size + b.size) >= a.address + a.size
          /\ a.address + (a.size + b.size) >= b.address + b.size
      BY <1>6, <1>7, <1>15, RangesAssumption DEF Words
    <3> QED  BY <1>6, <3>1, <3>2, PlusFacts, Zenon
  <2>3. m.ok = TRUE /\ m.region.flags = x.flags /\ Touch(x, y) /\ Spans(m.region, x, y)
    <3>1. a.address + (a.size + b.size) \in {a.address + a.size, b.address + b.size}
      BY <2>2
    <3> QED BY <1>j, <2>1, <2>2, <3>1, Zenon
  <2> QED  BY <1>15, <2>3
<1>16. CASE x.flags = y.flags /\ ~inside /\ ~overlap /\ offset # a.size
  <2>1. m = separate
    BY <1>1, <1>2, <1>16
  <2>2. ~Touch(a, b)
    BY <1>3, <1>6, <1>7, <1>8, <1>9, <1>10, <1>11, <1>16, RangesAssumption DEF Words
  <2> QED  BY <1>4, <1>5, <1>16, <2>1, <2>2
<1> QED  BY <1>12, <1>13, <1>14, <1>15, <1>16

(* So the result of merge is the union. *)
LEMMA MergeGood ==
  ASSUME NEW x \in Region, NEW y \in Region, Fits(x), Fits(y), Room(x, y)
  PROVE  LET m == merge(x, y)
         IN  /\ m.ok <=> x.flags = y.flags /\ Touch(x, y)
             /\ Bytes(m.region) = IF m.ok THEN Bytes(x) \cup Bytes(y) ELSE Bytes(x)
<1> DEFINE m == merge(x, y)
<1>1. /\ m.ok \in BOOLEAN
      /\ m.ok <=> x.flags = y.flags /\ Touch(x, y)
      /\ ~m.ok => m.region = x
      /\ m.ok => Spans(m.region, x, y)
  BY MergeShape, Zenon
<1> HIDE DEF m
<1>2. ASSUME m.ok PROVE Bytes(m.region) = Bytes(x) \cup Bytes(y)
  <2> DEFINE r == m.region
  <2>1. Touch(x, y) /\ Spans(r, x, y)
    BY <1>1, <1>2
  <2> HIDE DEF r
  <2>2. /\ x.address \in Nat /\ x.size \in Nat /\ y.address \in Nat /\ y.size \in Nat
        /\ r.address \in Nat /\ r.size \in Nat
    BY <2>1, RegionFacts DEF Spans
  <2>3. r.address .. r.address + r.size - 1
          = (x.address .. x.address + x.size - 1) \cup (y.address .. y.address + y.size - 1)
    BY <2>1, <2>2 DEF Spans, Touch
  <2> QED BY <2>3 DEF Bytes, r
<1> QED BY <1>1, <1>2 DEF m

----------------------------------------------------------------------------
(* cut *)

(* Intervals: the one that starts at a wrapped word is empty; and what is  *)
(* left of p .. q - 1 without s .. t - 1.                                  *)
LEMMA RestOfRange ==
  ASSUME NEW start \in Nat, NEW left \in Nat, NEW t \in Nat, NEW q \in Nat,
         left = q - t, start = t \/ left = 0
  PROVE  start .. start + left - 1 = t .. q - 1
OBVIOUS

(* The pieces of an interval without another. *)
LEMMA Differences ==
  ASSUME NEW p \in Nat, NEW q \in Nat, NEW s \in Nat, NEW t \in Nat
  PROVE  /\ p <= s /\ s <= t /\ t <= q =>
              (p .. s - 1) \cup (t .. q - 1) = (p .. q - 1) \ (s .. t - 1)
         /\ p <= s /\ s <= q /\ q <= t => p .. s - 1 = (p .. q - 1) \ (s .. t - 1)
         /\ s <= p /\ p <= t /\ t <= q => t .. q - 1 = (p .. q - 1) \ (s .. t - 1)
         /\ s <= p /\ q <= t => {} = (p .. q - 1) \ (s .. t - 1)
         /\ q <= s \/ t <= p => p .. q - 1 = (p .. q - 1) \ (s .. t - 1)
OBVIOUS

(* What cut leaves of a and b: a untouched; the pieces of a before and      *)
(* after b; or what of a lies after b.                                      *)
Leaves(c, a, b) ==
  LET ea == a.address + a.size
      eb == b.address + b.size
      behind == IF eb <= ea THEN ea - eb ELSE 0
  IN  \/ /\ c.ok = FALSE /\ c.a = a
         /\ ea <= b.address \/ eb <= a.address
      \/ /\ c.ok = TRUE /\ a.address <= b.address /\ b.address < ea
         /\ c.a = [a EXCEPT !.size = b.address - a.address]
         /\ c.b.size = behind /\ (c.b.size # 0 => c.b.address = eb)
      \/ /\ c.ok = TRUE /\ b.address < a.address /\ a.address <= eb
         /\ c.a.flags = a.flags
         /\ c.a.size = behind /\ (c.a.size # 0 => c.a.address = eb)
         /\ c.b.size = 0

(* The end of b is the word 0 when b ends at the last address; then        *)
(* nothing of a lies behind it.                                            *)
LEMMA CutShape ==
  ASSUME NEW a \in Region, NEW b \in Region, Fits(a), Fits(b), Room(a, b)
  PROVE  LET c == cut(a, b)
         IN  /\ c.a \in Region /\ c.b.address \in Words /\ c.b.size \in Words
             /\ Leaves(c, a, b)
<1> DEFINE pieces(x, y) == [ok |-> TRUE, a |-> x, b |-> y]
           empty(r) == [r EXCEPT !.size = 0]
           before == [a EXCEPT !.size = Minus(b.address, a.address)]
           end == Plus(b.address, b.size)
           untouched == [ok |-> FALSE, a |-> a, b |-> b]
           behind == [b EXCEPT !.address = end, !.size = Minus(a.size, Minus(end, a.address))]
           overhang == Minus(b.size, Minus(a.address, b.address))
           after == [a EXCEPT !.address = end, !.size = Minus(a.size, overhang)]
           ea == a.address + a.size
           eb == b.address + b.size
           c == cut(a, b)
<1> SUFFICES /\ c.a \in Region /\ c.b.address \in Words /\ c.b.size \in Words
             /\ Leaves(c, a, b)
  OBVIOUS
<1>1. c = IF START_POINT_IN_RANGE(b, a)
            THEN pieces(before, IF END_POINT_IN_RANGE(b, a) THEN behind ELSE empty(b))
          ELSE IF b.address >= a.address THEN untouched
          ELSE IF END_POINT_IN_RANGE(b, a) THEN pieces(after, empty(b))
          ELSE IF START_POINT_IN_RANGE(a, b) THEN pieces(empty(a), empty(b))
          ELSE untouched
  BY DEF cut
<1>2. /\ a.address \in Words /\ a.size \in Words /\ b.address \in Words /\ b.size \in Words
      /\ a.address + a.size <= WORD /\ b.address + b.size <= WORD
      /\ ~(a.address = 0 /\ a.address + a.size = WORD)
      /\ ~(b.address = 0 /\ a.address + a.size = WORD)
  BY RegionFacts DEF Room
<1>3. /\ 0 \in Words /\ end \in Words
      /\ Minus(b.address, a.address) \in Words
      /\ Minus(a.size, Minus(end, a.address)) \in Words /\ Minus(a.size, overhang) \in Words
  <2>1. end \in Words
    BY <1>2, PlusFacts, Zenon
  <2> HIDE DEF end
  <2>2. Minus(end, a.address) \in Words /\ Minus(a.address, b.address) \in Words
    BY <1>2, <2>1, MinusFacts, Zenon
  <2>3. overhang \in Words
    BY <1>2, <2>2, MinusFacts, Zenon
  <2> HIDE DEF overhang
  <2>4. 0 \in Words
    BY RangesAssumption DEF Words
  <2> QED BY <1>2, <2>1, <2>2, <2>3, <2>4, MinusFacts, Zenon
<1>4. /\ before \in Region /\ behind \in Region /\ after \in Region
      /\ empty(a) \in Region /\ empty(b) \in Region
      /\ behind.address = end /\ behind.size = Minus(a.size, Minus(end, a.address))
      /\ after.address = end /\ after.size = Minus(a.size, overhang) /\ after.flags = a.flags
      /\ empty(a).size = 0 /\ empty(b).size = 0 /\ empty(a).flags = a.flags
  <2> HIDE DEF end, overhang
  <2> QED BY <1>3 DEF Region
<1>5. /\ \A x, y : pieces(x, y).ok = TRUE /\ pieces(x, y).a = x /\ pieces(x, y).b = y
      /\ untouched.ok = FALSE /\ untouched.a = a /\ untouched.b = b
  OBVIOUS
<1>6. /\ END_POINT_IN_RANGE(b, a) <=>
           b.address + b.size >= a.address /\ b.address + b.size <= a.address + a.size
      \/ b.address > a.address + a.size
  BY <1>2, EndInRange, RangesAssumption DEF Words, Room
<1>7. /\ START_POINT_IN_RANGE(b, a) <=>
           b.address >= a.address /\ b.address < a.address + a.size
      /\ START_POINT_IN_RANGE(a, b) <=>
           a.address >= b.address /\ a.address < b.address + b.size
  BY StartInRange
<1>8. /\ end \in Words
      /\ b.address + b.size < WORD => end = b.address + b.size
      /\ b.address + b.size >= WORD => end = b.address + b.size - WORD
  BY <1>2, PlusFacts
<1>9. b.address >= a.address => before = [a EXCEPT !.size = b.address - a.address]
  BY <1>2, MinusFacts
<1> HIDE DEF pieces, empty, before, end, untouched, behind, after, c
<1>10. CASE START_POINT_IN_RANGE(b, a) /\ END_POINT_IN_RANGE(b, a)
  <2>1. c.ok = TRUE /\ c.a = before /\ c.b = behind
    BY <1>1, <1>5, <1>10
  <2>2. /\ b.address >= a.address /\ b.address < ea /\ eb <= ea
    BY <1>2, <1>6, <1>7, <1>10, RangesAssumption DEF Words
  <2> DEFINE d == Minus(end, a.address)
             left == Minus(a.size, d)
  <2>3. /\ d \in Words
        /\ end >= a.address => d = end - a.address
        /\ end < a.address => d = end - a.address + WORD
    BY <1>2, <1>8, MinusFacts
  <2>4. d = b.address + b.size - a.address /\ d <= a.size
    <3> HIDE DEF d
    <3>1. CASE b.address + b.size < WORD
      BY <1>2, <1>8, <2>2, <2>3, <3>1, RangesAssumption DEF Words
    <3>2. CASE b.address + b.size >= WORD
      BY <1>2, <1>8, <2>2, <2>3, <3>2, RangesAssumption DEF Words
    <3> QED  BY <1>2, <3>1, <3>2, RangesAssumption DEF Words
  <2>5. left = a.size - d
    <3> HIDE DEF d
    <3>1. a.size >= d => left = a.size - d
      BY <1>2, <2>3, MinusFacts
    <3> QED  BY <1>2, <2>3, <2>4, <3>1, RangesAssumption DEF Words
  <2>6. behind.size = left /\ behind.address = end
    BY <1>4
  <2> HIDE DEF d, left
  <2>7. left = ea - eb /\ (left # 0 => end = eb)
    BY <1>2, <1>8, <2>2, <2>4, <2>5, RangesAssumption DEF Words
  <2>8. c.a = [a EXCEPT !.size = b.address - a.address]
    BY <1>9, <2>1, <2>2
  <2>9. c.b.size = ea - eb /\ (c.b.size # 0 => c.b.address = eb)
    BY <2>1, <2>6, <2>7
  <2>10. c.a \in Region /\ c.b.address \in Words /\ c.b.size \in Words
    BY <1>4, <2>1 DEF Region
  <2> QED  BY <2>1, <2>2, <2>8, <2>9, <2>10 DEF Leaves
<1>11. CASE START_POINT_IN_RANGE(b, a) /\ ~END_POINT_IN_RANGE(b, a)
  <2>1. c.ok = TRUE /\ c.a = before /\ c.b = empty(b)
    BY <1>1, <1>5, <1>11
  <2>2. /\ b.address >= a.address /\ b.address < ea /\ ~(eb <= ea)
    BY <1>2, <1>6, <1>7, <1>11, RangesAssumption DEF Words
  <2>3. c.a = [a EXCEPT !.size = b.address - a.address]
    BY <1>9, <2>1, <2>2
  <2>4. c.b.size = 0 /\ c.a \in Region /\ c.b.address \in Words /\ c.b.size \in Words
    BY <1>3, <1>4, <2>1 DEF Region
  <2> QED  BY <2>1, <2>2, <2>3, <2>4 DEF Leaves
<1>12. CASE c = untouched /\ (ea <= b.address \/ eb <= a.address)
  BY <1>2, <1>5, <1>12 DEF Leaves
<1>13. CASE b.address < a.address /\ END_POINT_IN_RANGE(b, a)
  <2>1. c.ok = TRUE /\ c.a = after /\ c.b = empty(b)
    BY <1>1, <1>2, <1>5, <1>7, <1>13, RangesAssumption DEF Words
  <2>2. a.address <= eb /\ eb <= ea
    BY <1>2, <1>6, <1>13, RangesAssumption DEF Words
  <2> DEFINE d == Minus(a.address, b.address)
             left == Minus(a.size, overhang)
  <2>3. d \in Words /\ d = a.address - b.address
    <3>1. a.address >= b.address => d = a.address - b.address
      BY <1>2, MinusFacts
    <3>2. d \in Words
      BY <1>2, MinusFacts
    <3> QED  BY <1>2, <1>13, <3>1, <3>2, RangesAssumption DEF Words
  <2>4. overhang \in Words /\ overhang = b.address + b.size - a.address
    <3> HIDE DEF d
    <3>1. Minus(b.size, d) \in Words /\ (b.size >= d => Minus(b.size, d) = b.size - d)
      BY <1>2, <2>3, MinusFacts, Zenon
    <3>2. Minus(b.size, d) \in Words /\ Minus(b.size, d) = b.address + b.size - a.address
      BY <1>2, <2>2, <2>3, <3>1, RangesAssumption DEF Words
    <3> QED  BY <3>2 DEF d
  <2>5. after.size = left /\ after.address = end /\ after.flags = a.flags /\ after \in Region
    BY <1>4
  <2> HIDE DEF overhang
  <2>6. left = a.address + a.size - (b.address + b.size)
    <3>1. a.size >= overhang => left = a.size - overhang
      BY <1>2, <2>4, MinusFacts, Zenon
    <3> QED  BY <1>2, <2>2, <2>4, <3>1, RangesAssumption DEF Words
  <2> HIDE DEF left
  <2>7. left = ea - eb /\ (left # 0 => end = eb)
    BY <1>2, <1>8, <2>2, <2>6, RangesAssumption DEF Words
  <2>8. c.a.size = ea - eb /\ (c.a.size # 0 => c.a.address = eb) /\ c.a.flags = a.flags
    BY <2>1, <2>5, <2>7
  <2>9. c.b.size = 0 /\ c.a \in Region /\ c.b.address \in Words /\ c.b.size \in Words
    BY <1>3, <1>4, <2>1 DEF Region
  <2> QED  BY <1>13, <2>1, <2>2, <2>8, <2>9 DEF Leaves
<1>14. CASE b.address < a.address /\ ~END_POINT_IN_RANGE(b, a) /\ START_POINT_IN_RANGE(a, b)
  <2>1. c.ok = TRUE /\ c.a = empty(a) /\ c.b = empty(b)
    BY <1>1, <1>2, <1>5, <1>7, <1>14, RangesAssumption DEF Words
  <2>2. a.address <= eb /\ ~(eb <= ea)
    BY <1>2, <1>6, <1>7, <1>14, RangesAssumption DEF Words
  <2>3. c.a.size = 0 /\ c.a.flags = a.flags /\ c.b.size = 0
    BY <1>4, <2>1
  <2>4. c.a \in Region /\ c.b.address \in Words /\ c.b.size \in Words
    BY <1>3, <1>4, <2>1 DEF Region
  <2> QED  BY <1>14, <2>1, <2>2, <2>3, <2>4 DEF Leaves
<1>15. CASE /\ ~START_POINT_IN_RANGE(b, a)
            /\ \/ b.address >= a.address
               \/ ~END_POINT_IN_RANGE(b, a) /\ ~START_POINT_IN_RANGE(a, b)
  <2>1. c = untouched
    BY <1>1, <1>15
  <2>2. ea <= b.address \/ eb <= a.address
    BY <1>2, <1>7, <1>15, RangesAssumption DEF Words
  <2> QED  BY <1>12, <2>1, <2>2
<1> QED  BY <1>2, <1>10, <1>11, <1>13, <1>14, <1>15, RangesAssumption DEF Words

(* So the pieces are a without b, in order. *)
LEMMA CutGood ==
  ASSUME NEW a \in Region, NEW b \in Region, Fits(a), Fits(b), Room(a, b)
  PROVE  LET c == cut(a, b)
             rest == IF c.ok THEN Bytes(c.b) ELSE {}
         IN  /\ Bytes(c.a) \cup rest = Bytes(a) \ Bytes(b)
             /\ \A u \in Bytes(c.a), v \in rest : u < v
<1> DEFINE c == cut(a, b)
           rest == IF c.ok THEN Bytes(c.b) ELSE {}
           p == a.address
           q == a.address + a.size
           s == b.address
           t == b.address + b.size
<1> SUFFICES /\ Bytes(c.a) \cup rest = Bytes(a) \ Bytes(b)
             /\ \A u \in Bytes(c.a), v \in rest : u < v
  OBVIOUS
<1>1. /\ c.a \in Region /\ c.b.address \in Words /\ c.b.size \in Words /\ Leaves(c, a, b)
  BY CutShape, Zenon
<1> HIDE DEF c
<1>2. /\ p \in Nat /\ q \in Nat /\ s \in Nat /\ t \in Nat /\ p <= q /\ s <= t
      /\ Bytes(a) = p .. q - 1 /\ Bytes(b) = s .. t - 1
  BY RegionFacts DEF Bytes
<1>3. /\ c.a.address \in Nat /\ c.a.size \in Nat /\ c.b.address \in Nat /\ c.b.size \in Nat
  BY <1>1, RangesAssumption DEF Region, Words
<1>4. \/ c.ok = FALSE /\ c.a = a /\ (q <= s \/ t <= p)
      \/ /\ c.ok = TRUE /\ p <= s /\ s < q
         /\ c.a = [a EXCEPT !.size = s - p]
         /\ c.b.size = (IF t <= q THEN q - t ELSE 0) /\ (c.b.size # 0 => c.b.address = t)
      \/ /\ c.ok = TRUE /\ s < p /\ p <= t
         /\ c.a.size = (IF t <= q THEN q - t ELSE 0) /\ (c.a.size # 0 => c.a.address = t)
         /\ c.b.size = 0
  BY <1>1 DEF Leaves
<1>5. \A r : Bytes(r) = r.address .. r.address + r.size - 1
  BY DEF Bytes
<1>6. ASSUME c.a = [a EXCEPT !.size = s - p] PROVE c.a.address = p /\ c.a.size = s - p
  BY <1>6 DEF Region
<1> HIDE DEF p, q, s, t
<1>7. CASE c.ok = FALSE /\ c.a = a /\ (q <= s \/ t <= p)
  <2>1. Bytes(a) \ Bytes(b) = Bytes(a)
    BY <1>2, <1>7, Differences
  <2> QED BY <1>7, <2>1
<1>8. CASE /\ c.ok = TRUE /\ p <= s /\ s < q
           /\ c.a = [a EXCEPT !.size = s - p]
           /\ c.b.size = (IF t <= q THEN q - t ELSE 0) /\ (c.b.size # 0 => c.b.address = t)
  <2>1. Bytes(c.a) = p .. s - 1
    <3>1. c.a.address = p /\ c.a.size = s - p
      BY <1>6, <1>8
    <3>2. Bytes(c.a) = c.a.address .. c.a.address + c.a.size - 1
      BY <1>5
    <3>3. p + (s - p) - 1 = s - 1
      BY <1>2
    <3> QED BY <3>1, <3>2, <3>3
  <2>2. rest = c.b.address .. c.b.address + c.b.size - 1
    BY <1>5, <1>8
  <2> HIDE DEF rest
  <2>3. CASE t <= q
    <3>1. rest = t .. q - 1
      <4>1. c.b.size = q - t /\ (c.b.address = t \/ c.b.size = 0)
        BY <1>8, <2>3
      <4>2. c.b.address .. c.b.address + c.b.size - 1 = t .. q - 1
        BY <1>2, <1>3, <4>1, RestOfRange
      <4> QED BY <2>2, <4>2
    <3>2. Bytes(c.a) \cup rest = Bytes(a) \ Bytes(b)
      BY <1>2, <1>8, <2>1, <2>3, <3>1, Differences
    <3> QED BY <1>2, <2>1, <3>1, <3>2
  <2>4. CASE ~(t <= q)
    <3>1. rest = {}
      BY <1>3, <1>8, <2>2, <2>4
    <3>2. Bytes(c.a) = Bytes(a) \ Bytes(b)
      BY <1>2, <1>8, <2>1, <2>4, Differences
    <3> QED BY <3>1, <3>2
  <2> QED BY <2>3, <2>4
<1>9. CASE /\ c.ok = TRUE /\ s < p /\ p <= t
           /\ c.a.size = (IF t <= q THEN q - t ELSE 0) /\ (c.a.size # 0 => c.a.address = t)
           /\ c.b.size = 0
  <2>1. rest = {}
    BY <1>3, <1>5, <1>9
  <2>2. Bytes(c.a) = c.a.address .. c.a.address + c.a.size - 1
    BY <1>5
  <2> HIDE DEF rest
  <2>3. CASE t <= q
    <3>1. Bytes(c.a) = t .. q - 1
      <4>1. c.a.size = q - t /\ (c.a.address = t \/ c.a.size = 0)
        BY <1>9, <2>3
      <4>2. c.a.address .. c.a.address + c.a.size - 1 = t .. q - 1
        BY <1>2, <1>3, <4>1, RestOfRange
      <4> QED BY <2>2, <4>2
    <3>2. Bytes(c.a) = Bytes(a) \ Bytes(b)
      BY <1>2, <1>9, <2>3, <3>1, Differences
    <3> QED BY <2>1, <3>2
  <2>4. CASE ~(t <= q)
    <3>1. Bytes(c.a) = {}
      BY <1>3, <1>9, <2>2, <2>4
    <3>2. Bytes(a) \ Bytes(b) = {}
      BY <1>2, <1>9, <2>4, Differences
    <3> QED BY <2>1, <3>1, <3>2
  <2> QED BY <2>3, <2>4
<1> QED BY <1>4, <1>7, <1>8, <1>9

----------------------------------------------------------------------------
(* Numbers and sequences.                                                  *)

(* A set of natural numbers has a least one. *)
LEMMA Least ==
  ASSUME NEW T, T \subseteq Nat, T # {}
  PROVE  \E x \in T : \A y \in T : x <= y
<1> DEFINE R == OpToRel(<, Nat)
<1>1. IsWellFoundedOn(R, Nat)
  BY NatLessThanWellFounded, Zenon
<1> HIDE DEF R
<1>2. PICK x \in T : \A y \in T : ~(<<y, x>> \in R)
  BY <1>1, WFMin
<1>3. ASSUME NEW y \in T
      PROVE  x <= y
  <2>1. ~(<<y, x>> \in R)
    BY <1>2
  <2>2. y \in Nat /\ x \in Nat
    OBVIOUS
  <2>3. ~(y < x)
    BY <2>1, <2>2, Zenon DEF R, OpToRel
  <2> QED  BY <2>2, <2>3
<1> QED  BY <1>3

(* A set that holds 0, and with a number below n the next one, holds the   *)
(* numbers up to n.                                                        *)
LEMMA Upwards ==
  ASSUME NEW S, NEW n \in Nat, 0 \in S, \A k \in 0 .. n - 1 : k \in S => k + 1 \in S
  PROVE  \A k \in 0 .. n : k \in S
<1> DEFINE T == {k \in 0 .. n : k \notin S}
<1> SUFFICES ASSUME T # {} PROVE FALSE
  OBVIOUS
<1>1. PICK x \in T : \A y \in T : x <= y
  <2>1. T \subseteq Nat
    OBVIOUS
  <2> QED  BY <2>1, Least, Zenon
<1>2. x # 0 /\ x - 1 \in 0 .. n - 1 /\ x - 1 \in S
  BY <1>1
<1> QED  BY <1>2

(* Two sequences with the same elements are the same. *)
LEMMA SameElements ==
  ASSUME NEW E, NEW q \in Seq(E), NEW r \in Seq(E), Len(q) = Len(r),
         \A i \in 1 .. Len(q) : q[i] = r[i]
  PROVE  q = r
OBVIOUS

(* A part of a sequence. *)
LEMMA Slice ==
  ASSUME NEW E, NEW q \in Seq(E), NEW m \in Nat, NEW n \in Nat, 1 <= m, n <= Len(q)
  PROVE  /\ SubSeq(q, m, n) \in Seq(E)
         /\ Len(SubSeq(q, m, n)) = IF m <= n THEN n - m + 1 ELSE 0
         /\ \A i \in 1 .. n - m + 1 : SubSeq(q, m, n)[i] = q[m + i - 1]
OBVIOUS

(* One sequence followed by another. *)
LEMMA Joined ==
  ASSUME NEW E, NEW q \in Seq(E), NEW r \in Seq(E)
  PROVE  /\ q \o r \in Seq(E) /\ Len(q \o r) = Len(q) + Len(r)
         /\ \A i \in 1 .. Len(q) + Len(r) :
              (q \o r)[i] = IF i <= Len(q) THEN q[i] ELSE r[i - Len(q)]
OBVIOUS

(* The list l is q with r at the k-th position. *)
Linked(E, l, q, k, r) ==
  /\ l \in Seq(E) /\ Len(l) = Len(q) + 1
  /\ \A i \in 1 .. Len(q) + 1 : l[i] = IF i < k THEN q[i] ELSE IF i = k THEN r ELSE q[i - 1]

(* LL_PREPEND_ELEM and LL_APPEND. *)
LEMMA LinkFacts ==
  ASSUME NEW E, NEW q \in Seq(E), NEW k \in 1 .. Len(q) + 1, NEW r \in E
  PROVE  Linked(E, Link(q, k, r), q, k, r)
<1> DEFINE x == SubSeq(q, 1, k - 1)
           y == SubSeq(q, k, Len(q))
           l == (x \o <<r>>) \o y
<1>1. x \in Seq(E) /\ Len(x) = k - 1 /\ \A i \in 1 .. k - 1 : x[i] = q[i]
  <2>1. Len(q) \in Nat /\ k - 1 \in Nat /\ k - 1 <= Len(q) /\ k \in Nat
    OBVIOUS
  <2>2. /\ x \in Seq(E) /\ Len(x) = IF 1 <= k - 1 THEN k - 1 - 1 + 1 ELSE 0
        /\ \A i \in 1 .. k - 1 - 1 + 1 : x[i] = q[1 + i - 1]
    BY <2>1, Slice
  <2> HIDE DEF x
  <2> QED  BY <2>1, <2>2
<1>2. y \in Seq(E) /\ Len(y) = Len(q) - k + 1 /\ \A i \in 1 .. Len(q) - k + 1 : y[i] = q[k + i - 1]
  <2>1. Len(q) \in Nat /\ k \in Nat /\ 1 <= k /\ k <= Len(q) + 1
    OBVIOUS
  <2>2. /\ y \in Seq(E) /\ Len(y) = IF k <= Len(q) THEN Len(q) - k + 1 ELSE 0
        /\ \A i \in 1 .. Len(q) - k + 1 : y[i] = q[k + i - 1]
    BY <2>1, Slice
  <2> HIDE DEF y
  <2> QED  BY <2>1, <2>2
<1>3. Link(q, k, r) = l
  BY DEF Link
<1> HIDE DEF x, y
<1>4. <<r>> \in Seq(E) /\ Len(<<r>>) = 1 /\ <<r>>[1] = r
  OBVIOUS
<1>5. /\ x \o <<r>> \in Seq(E) /\ Len(x \o <<r>>) = k
      /\ \A i \in 1 .. k : (x \o <<r>>)[i] = IF i < k THEN q[i] ELSE r
  BY <1>1, <1>4, Joined
<1> DEFINE z == x \o <<r>>
<1> HIDE DEF z
<1>6. /\ z \o y \in Seq(E) /\ Len(z \o y) = Len(q) + 1
      /\ \A i \in 1 .. Len(q) + 1 :
           (z \o y)[i] = IF i < k THEN q[i] ELSE IF i = k THEN r ELSE q[i - 1]
  <2>1. /\ z \in Seq(E) /\ Len(z) = k /\ \A i \in 1 .. k : z[i] = IF i < k THEN q[i] ELSE r
    BY <1>5 DEF z
  <2>2. /\ z \o y \in Seq(E) /\ Len(z \o y) = Len(z) + Len(y)
        /\ \A i \in 1 .. Len(z) + Len(y) : (z \o y)[i] = IF i <= Len(z) THEN z[i] ELSE y[i - Len(z)]
    BY <1>2, <2>1, Joined
  <2> DEFINE w == z \o y
  <2>3. w \in Seq(E) /\ Len(w) = Len(q) + 1
    BY <1>2, <2>1, <2>2
  <2>4. \A i \in 1 .. Len(q) + 1 : w[i] = IF i <= k THEN z[i] ELSE y[i - k]
    BY <1>2, <2>1, <2>2
  <2> HIDE DEF w
  <2>5. \A i \in k + 1 .. Len(q) + 1 : y[i - k] = q[i - 1]
    BY <1>2
  <2>6. \A i \in 1 .. Len(q) + 1 : w[i] = IF i < k THEN q[i] ELSE IF i = k THEN r ELSE q[i - 1]
    BY <2>1, <2>4, <2>5
  <2> QED  BY <2>3, <2>6 DEF w
<1> QED  BY <1>3, <1>6 DEF z, Linked

(* The list u is q without the k-th position. *)
Unlinked(E, u, q, k) ==
  /\ u \in Seq(E) /\ Len(u) = Len(q) - 1
  /\ \A i \in 1 .. Len(q) - 1 : u[i] = IF i < k THEN q[i] ELSE q[i + 1]

(* LL_DELETE. *)
LEMMA UnlinkFacts ==
  ASSUME NEW E, NEW q \in Seq(E), NEW k \in 1 .. Len(q)
  PROVE  Unlinked(E, Unlink(q, k), q, k)
<1> DEFINE x == SubSeq(q, 1, k - 1)
           y == SubSeq(q, k + 1, Len(q))
<1>1. x \in Seq(E) /\ Len(x) = k - 1 /\ \A i \in 1 .. k - 1 : x[i] = q[i]
  <2>1. Len(q) \in Nat /\ k - 1 \in Nat /\ k - 1 <= Len(q)
    OBVIOUS
  <2>2. /\ x \in Seq(E) /\ Len(x) = IF 1 <= k - 1 THEN k - 1 - 1 + 1 ELSE 0
        /\ \A i \in 1 .. k - 1 - 1 + 1 : x[i] = q[1 + i - 1]
    BY <2>1, Slice
  <2> HIDE DEF x
  <2> QED  BY <2>1, <2>2
<1>2. y \in Seq(E) /\ Len(y) = Len(q) - k /\ \A i \in 1 .. Len(q) - k : y[i] = q[k + i]
  <2>1. Len(q) \in Nat /\ k + 1 \in Nat /\ 1 <= k + 1 /\ k <= Len(q)
    OBVIOUS
  <2>2. /\ y \in Seq(E) /\ Len(y) = IF k + 1 <= Len(q) THEN Len(q) - (k + 1) + 1 ELSE 0
        /\ \A i \in 1 .. Len(q) - (k + 1) + 1 : y[i] = q[k + 1 + i - 1]
    BY <2>1, Slice
  <2> HIDE DEF y
  <2> QED  BY <2>1, <2>2
<1>3. Unlink(q, k) = x \o y
  BY DEF Unlink
<1> HIDE DEF x, y
<1>4. /\ x \o y \in Seq(E) /\ Len(x \o y) = Len(x) + Len(y)
      /\ \A i \in 1 .. Len(x) + Len(y) : (x \o y)[i] = IF i <= Len(x) THEN x[i] ELSE y[i - Len(x)]
  BY <1>1, <1>2, Joined
<1> DEFINE w == x \o y
<1>5. w \in Seq(E) /\ Len(w) = Len(q) - 1
  BY <1>1, <1>2, <1>4
<1>6. \A i \in 1 .. Len(q) - 1 : w[i] = IF i < k THEN x[i] ELSE y[i - (k - 1)]
  BY <1>1, <1>2, <1>4
<1> HIDE DEF w
<1>7. \A i \in k .. Len(q) - 1 : y[i - (k - 1)] = q[i + 1]
  BY <1>2
<1>8. \A i \in 1 .. Len(q) - 1 : w[i] = IF i < k THEN q[i] ELSE q[i + 1]
  BY <1>1, <1>6, <1>7
<1> QED  BY <1>3, <1>5, <1>8 DEF w, Unlinked

(* A replaced element is one taken out and another one put in. *)
LEMMA ReplaceFacts ==
  ASSUME NEW E, NEW q \in Seq(E), NEW k \in 1 .. Len(q), NEW r \in E
  PROVE  /\ [q EXCEPT ![k] = r] \in Seq(E) /\ Len([q EXCEPT ![k] = r]) = Len(q)
         /\ \A i \in 1 .. Len(q) : [q EXCEPT ![k] = r][i] = IF i = k THEN r ELSE q[i]
         /\ [q EXCEPT ![k] = r] = Link(Unlink(q, k), k, r)
<1> DEFINE w == [q EXCEPT ![k] = r]
           u == Unlink(q, k)
           l == Link(u, k, r)
<1>1. w \in Seq(E) /\ Len(w) = Len(q) /\ \A i \in 1 .. Len(q) : w[i] = IF i = k THEN r ELSE q[i]
  OBVIOUS
<1>2. /\ u \in Seq(E) /\ Len(u) = Len(q) - 1
      /\ \A i \in 1 .. Len(q) - 1 : u[i] = IF i < k THEN q[i] ELSE q[i + 1]
  BY UnlinkFacts DEF Unlinked
<1> HIDE DEF w, u
<1>3. /\ l \in Seq(E) /\ Len(l) = Len(u) + 1
      /\ \A i \in 1 .. Len(u) + 1 : l[i] = IF i < k THEN u[i] ELSE IF i = k THEN r ELSE u[i - 1]
  <2>1. k \in 1 .. Len(u) + 1
    BY <1>2
  <2>2. Linked(E, l, u, k, r)
    BY <1>2, <2>1, LinkFacts, Zenon
  <2> QED  BY <2>2 DEF Linked
<1> HIDE DEF l
<1>4. Len(l) = Len(q)
  BY <1>2, <1>3
<1>5. ASSUME NEW i \in 1 .. Len(q)
      PROVE  w[i] = l[i]
  <2>1. CASE i < k
    BY <1>1, <1>2, <1>3, <2>1
  <2>2. CASE i = k
    BY <1>1, <1>2, <1>3, <2>2
  <2>3. CASE i > k
    BY <1>1, <1>2, <1>3, <2>3
  <2> QED  BY <2>1, <2>2, <2>3
<1>6. w = l
  BY <1>1, <1>3, <1>4, <1>5, SameElements
<1> QED  BY <1>1, <1>6 DEF w, l, u

(* An element replaced and then deleted. *)
LEMMA ReplaceUnlink ==
  ASSUME NEW E, NEW q \in Seq(E), NEW k \in 1 .. Len(q), NEW r \in E
  PROVE  Unlink([q EXCEPT ![k] = r], k) = Unlink(q, k)
<1> DEFINE w == [q EXCEPT ![k] = r]
           u == Unlink(q, k)
           v == Unlink(w, k)
<1>1. w \in Seq(E) /\ Len(w) = Len(q) /\ \A i \in 1 .. Len(q) : w[i] = IF i = k THEN r ELSE q[i]
  BY ReplaceFacts
<1>2. /\ u \in Seq(E) /\ Len(u) = Len(q) - 1
      /\ \A i \in 1 .. Len(q) - 1 : u[i] = IF i < k THEN q[i] ELSE q[i + 1]
  BY UnlinkFacts DEF Unlinked
<1> HIDE DEF w, u
<1>3. /\ v \in Seq(E) /\ Len(v) = Len(q) - 1
      /\ \A i \in 1 .. Len(q) - 1 : v[i] = IF i < k THEN w[i] ELSE w[i + 1]
  <2>1. k \in 1 .. Len(w)
    BY <1>1
  <2>2. /\ v \in Seq(E) /\ Len(v) = Len(w) - 1
        /\ \A i \in 1 .. Len(w) - 1 : v[i] = IF i < k THEN w[i] ELSE w[i + 1]
    BY <1>1, <2>1, UnlinkFacts DEF Unlinked
  <2> HIDE DEF v
  <2> QED  BY <1>1, <2>2
<1> HIDE DEF v
<1>4. \A i \in 1 .. Len(q) - 1 : v[i] = u[i]
  BY <1>1, <1>2, <1>3
<1>5. v = u
  BY <1>2, <1>3, <1>4, SameElements
<1> QED  BY <1>5 DEF v, u, w

(* An element replaced, another put behind it, and the first one deleted. *)
LEMMA ReplaceLinkUnlink ==
  ASSUME NEW E, NEW q \in Seq(E), NEW k \in 1 .. Len(q), NEW r \in E, NEW e \in E
  PROVE  Unlink(Link([q EXCEPT ![k] = r], k + 1, e), k) = Link(Unlink(q, k), k, e)
<1> DEFINE w == [q EXCEPT ![k] = r]
           x == [q EXCEPT ![k] = e]
           l == Link(w, k + 1, e)
           v == Unlink(l, k)
<1>1. w \in Seq(E) /\ Len(w) = Len(q) /\ \A i \in 1 .. Len(q) : w[i] = IF i = k THEN r ELSE q[i]
  BY ReplaceFacts
<1>2. /\ x \in Seq(E) /\ Len(x) = Len(q) /\ \A i \in 1 .. Len(q) : x[i] = IF i = k THEN e ELSE q[i]
      /\ x = Link(Unlink(q, k), k, e)
  BY ReplaceFacts
<1> HIDE DEF w, x
<1>3. /\ l \in Seq(E) /\ Len(l) = Len(q) + 1
      /\ \A i \in 1 .. Len(q) + 1 :
           l[i] = IF i < k + 1 THEN w[i] ELSE IF i = k + 1 THEN e ELSE w[i - 1]
  <2>1. k + 1 \in 1 .. Len(w) + 1
    BY <1>1
  <2> DEFINE p == k + 1
  <2>2. /\ l \in Seq(E) /\ Len(l) = Len(w) + 1
        /\ \A i \in 1 .. Len(w) + 1 :
             l[i] = IF i < p THEN w[i] ELSE IF i = p THEN e ELSE w[i - 1]
    <3>1. w \in Seq(E) /\ p \in 1 .. Len(w) + 1 /\ l = Link(w, p, e)
      BY <1>1, <2>1
    <3> HIDE DEF p, l
    <3>2. Linked(E, l, w, p, e)
      BY <3>1, LinkFacts, Zenon
    <3> QED  BY <3>2 DEF Linked
  <2> HIDE DEF l
  <2> QED  BY <1>1, <2>2
<1> HIDE DEF l
<1>4. /\ v \in Seq(E) /\ Len(v) = Len(q)
      /\ \A i \in 1 .. Len(q) : v[i] = IF i < k THEN l[i] ELSE l[i + 1]
  <2>1. k \in 1 .. Len(l) /\ Len(l) - 1 = Len(q)
    BY <1>3
  <2> QED  BY <1>3, <2>1, UnlinkFacts DEF Unlinked
<1> HIDE DEF v
<1>5. ASSUME NEW i \in 1 .. Len(q)
      PROVE  v[i] = x[i]
  <2>1. CASE i < k
    BY <1>1, <1>2, <1>3, <1>4, <2>1
  <2>2. CASE i = k
    BY <1>1, <1>2, <1>3, <1>4, <2>2
  <2>3. CASE i > k
    BY <1>1, <1>2, <1>3, <1>4, <2>3
  <2> QED  BY <2>1, <2>2, <2>3
<1>6. v = x
  BY <1>2, <1>4, <1>5, SameElements
<1> QED  BY <1>2, <1>6 DEF v, l, w

(* The successor of an element replaced, and the element deleted. *)
LEMMA ReplaceNextUnlink ==
  ASSUME NEW E, NEW q \in Seq(E), NEW k \in 1 .. Len(q), k < Len(q), NEW r \in E
  PROVE  Unlink([q EXCEPT ![k + 1] = r], k) = [Unlink(q, k) EXCEPT ![k] = r]
<1> DEFINE w == [q EXCEPT ![k + 1] = r]
           u == Unlink(q, k)
           v == Unlink(w, k)
           x == [u EXCEPT ![k] = r]
<1>1. /\ w \in Seq(E) /\ Len(w) = Len(q)
      /\ \A i \in 1 .. Len(q) : w[i] = IF i = k + 1 THEN r ELSE q[i]
  <2>1. k + 1 \in 1 .. Len(q)
    OBVIOUS
  <2> QED  BY <2>1, ReplaceFacts
<1>2. /\ u \in Seq(E) /\ Len(u) = Len(q) - 1
      /\ \A i \in 1 .. Len(q) - 1 : u[i] = IF i < k THEN q[i] ELSE q[i + 1]
  BY UnlinkFacts DEF Unlinked
<1> HIDE DEF w, u
<1>3. /\ v \in Seq(E) /\ Len(v) = Len(q) - 1
      /\ \A i \in 1 .. Len(q) - 1 : v[i] = IF i < k THEN w[i] ELSE w[i + 1]
  <2>1. k \in 1 .. Len(w)
    BY <1>1
  <2>2. /\ v \in Seq(E) /\ Len(v) = Len(w) - 1
        /\ \A i \in 1 .. Len(w) - 1 : v[i] = IF i < k THEN w[i] ELSE w[i + 1]
    BY <1>1, <2>1, UnlinkFacts DEF Unlinked
  <2> HIDE DEF v
  <2> QED  BY <1>1, <2>2
<1>4. /\ x \in Seq(E) /\ Len(x) = Len(q) - 1
      /\ \A i \in 1 .. Len(q) - 1 : x[i] = IF i = k THEN r ELSE u[i]
  <2>1. k \in 1 .. Len(u)
    BY <1>2
  <2> QED  BY <1>2, <2>1, ReplaceFacts
<1> HIDE DEF v, x
<1>5. ASSUME NEW i \in 1 .. Len(q) - 1
      PROVE  v[i] = x[i]
  <2>1. CASE i < k
    BY <1>1, <1>2, <1>3, <1>4, <2>1
  <2>2. CASE i = k
    BY <1>1, <1>2, <1>3, <1>4, <2>2
  <2>3. CASE i > k
    BY <1>1, <1>2, <1>3, <1>4, <2>3
  <2> QED  BY <2>1, <2>2, <2>3
<1>6. v = x
  BY <1>3, <1>4, <1>5, SameElements
<1> QED  BY <1>6 DEF v, x, u, w

(* The first of some positions. *)
FirstOf(n, hits) ==
  IF hits = {} THEN n + 1 ELSE CHOOSE i \in hits : \A j \in hits : i <= j

(* The loops stop there. *)
LEMMA FirstHit ==
  ASSUME NEW n \in Nat, NEW hits, hits \subseteq 1 .. n, NEW k, k = FirstOf(n, hits)
  PROVE  k \in 1 .. n + 1 /\ (\A i \in 1 .. k - 1 : i \notin hits) /\ (k <= n => k \in hits)
<1>1. CASE hits = {}
  BY <1>1 DEF FirstOf
<1>2. CASE hits # {}
  <2>1. \E i \in hits : \A j \in hits : i <= j
    <3>1. hits \subseteq Nat
      OBVIOUS
    <3> QED  BY <1>2, <3>1, Least, Zenon
  <2>2. k \in hits /\ \A j \in hits : k <= j
    BY <1>2, <2>1, Zenon DEF FirstOf
  <2>3. k \in 1 .. n
    BY <2>2
  <2>4. \A i \in 1 .. k - 1 : ~(k <= i)
    BY <2>3
  <2>5. k \in 1 .. n + 1
    BY <2>3
  <2> QED  BY <2>2, <2>4, <2>5, Zenon
<1> QED  BY <1>1, <1>2

(* name_insert, where the list is in order. *)
LEMMA InsertFacts ==
  ASSUME NEW q, Len(q) \in Nat, NEW e, NEW k \in 1 .. Len(q) + 1,
         \A i \in 1 .. k - 1 : ~(e.address < q[i].address),
         k <= Len(q) => e.address < q[k].address
  PROVE  insert(q, e) = Link(q, k, e)
<1> DEFINE hits == {i \in 1 .. Len(q) : e.address < q[i].address}
           h == FirstOf(Len(q), hits)
<1>1. insert(q, e) = Link(q, h, e)
  BY DEF insert, First, FirstOf
<1>2. hits \subseteq 1 .. Len(q)
  OBVIOUS
<1>3. (\A i \in 1 .. k - 1 : i \notin hits) /\ (k <= Len(q) => k \in hits)
  OBVIOUS
<1> HIDE DEF hits
<1>4. h \in 1 .. Len(q) + 1 /\ (\A i \in 1 .. h - 1 : i \notin hits) /\ (h <= Len(q) => h \in hits)
  <2>1. h = FirstOf(Len(q), hits)
    OBVIOUS
  <2> HIDE DEF h
  <2> QED  BY <1>2, <2>1, FirstHit, Zenon
<1> HIDE DEF h
<1>5. h = k
  BY <1>3, <1>4
<1> QED  BY <1>1, <1>5

----------------------------------------------------------------------------
(* Lists in order.                                                         *)

Apart(a, b) ==
  /\ a.address + a.size <= b.address
  /\ a.flags = b.flags => a.address + a.size < b.address

(* Each region lies below the ones behind it, and would not join them. *)
Ordered(q) ==
  /\ q \in Seq(Candidates)
  /\ \A i, j \in 1 .. Len(q) : i < j => Apart(q[i], q[j])

Holds(r, n, f) == r.flags = f /\ n \in Bytes(r)

(* Address n is on the list with flags f. *)
Has(q, n, f) == \E i \in 1 .. Len(q) : Holds(q[i], n, f)

(* The regions of a list. *)
LEMMA CandidateFacts ==
  ASSUME NEW r \in Candidates
  PROVE  /\ r \in Region /\ Fits(r) /\ r.flags \in Flags
         /\ r.address \in Nat /\ r.address > 0 /\ r.size \in Nat /\ r.size > 0
         /\ r.address + r.size \in Nat /\ r.address + r.size <= WORD
BY RangesAssumption DEF Candidates, Region, Fits, Words

(* Two of them have room. *)
LEMMA CandidatesRoom ==
  ASSUME NEW x \in Candidates, NEW y \in Candidates
  PROVE  Room(x, y)
BY CandidateFacts DEF Room

(* The order is what ListInOrder says of neighbours. *)
LEMMA OrderedGood ==
  ASSUME NEW q, Ordered(q)
  PROVE  WellFormed(q) /\ Coalesced(q)
<1>1. \A i \in 1 .. Len(q) : q[i] \in Candidates
  BY DEF Ordered
<1>2. Len(q) \in Nat
  BY DEF Ordered
<1>3. \A i, j \in 1 .. Len(q) : i < j => Apart(q[i], q[j])
  BY DEF Ordered
<1>4. \A i \in 1 .. Len(q) : q[i].size > 0 /\ Fits(q[i])
  BY <1>1, CandidateFacts
<1>5. \A i, j \in 1 .. Len(q) : i < j => q[i].address + q[i].size <= q[j].address
  BY <1>3 DEF Apart
<1>6. ASSUME NEW i \in 1 .. Len(q) - 1, q[i].flags = q[i + 1].flags
      PROVE  q[i].address + q[i].size < q[i + 1].address
  <2>1. i \in 1 .. Len(q) /\ i + 1 \in 1 .. Len(q) /\ i < i + 1
    BY <1>2
  <2> QED  BY <1>3, <1>6, <2>1 DEF Apart
<1> QED  BY <1>4, <1>5, <1>6 DEF WellFormed, Coalesced

(* BytesFlagged is what the list has. *)
LEMMA BytesHas ==
  ASSUME NEW q, NEW f
  PROVE  \A n : n \in BytesFlagged(q, f) <=> Has(q, n, f)
BY DEF BytesFlagged, Has, Holds

(* Linking a region between those below it and those above it. *)
LEMMA LinkOrdered ==
  ASSUME NEW q, Ordered(q), NEW k \in 1 .. Len(q) + 1, NEW r \in Candidates,
         \A i \in 1 .. Len(q) : IF i < k THEN Apart(q[i], r) ELSE Apart(r, q[i])
  PROVE  /\ Ordered(Link(q, k, r))
         /\ Linked(Candidates, Link(q, k, r), q, k, r)
         /\ \A n, f : Has(Link(q, k, r), n, f) <=> Has(q, n, f) \/ Holds(r, n, f)
<1> DEFINE l == Link(q, k, r)
<1>1. q \in Seq(Candidates) /\ Len(q) \in Nat
  BY DEF Ordered
<1>2. Linked(Candidates, l, q, k, r)
  BY <1>1, LinkFacts, Zenon
<1> HIDE DEF l
<1>3. /\ l \in Seq(Candidates) /\ Len(l) = Len(q) + 1
      /\ \A i \in 1 .. k - 1 : l[i] = q[i]
      /\ l[k] = r
      /\ \A i \in k + 1 .. Len(q) + 1 : l[i] = q[i - 1]
  BY <1>1, <1>2 DEF Linked
<1>4. /\ \A i \in 1 .. k - 1 : Apart(q[i], r)
      /\ \A i \in k .. Len(q) : Apart(r, q[i])
  BY <1>1
<1>5. \A i, j \in 1 .. Len(q) : i < j => Apart(q[i], q[j])
  BY DEF Ordered
<1>6. ASSUME NEW i \in 1 .. Len(l), NEW j \in 1 .. Len(l), i < j
      PROVE  Apart(l[i], l[j])
  <2>1. CASE j < k
    <3>1. i \in 1 .. k - 1 /\ j \in 1 .. k - 1 /\ i \in 1 .. Len(q) /\ j \in 1 .. Len(q)
      BY <1>1, <1>3, <1>6, <2>1
    <3> QED  BY <1>3, <1>5, <1>6, <3>1
  <2>2. CASE i < k /\ j = k
    <3>1. i \in 1 .. k - 1
      BY <2>2
    <3> QED  BY <1>3, <1>4, <2>2, <3>1
  <2>3. CASE i < k /\ j > k
    <3>1. i \in 1 .. k - 1 /\ j \in k + 1 .. Len(q) + 1
          /\ i \in 1 .. Len(q) /\ j - 1 \in 1 .. Len(q) /\ i < j - 1
      BY <1>1, <1>3, <2>3
    <3> QED  BY <1>3, <1>5, <3>1
  <2>4. CASE i = k
    <3>1. j \in k + 1 .. Len(q) + 1 /\ j - 1 \in k .. Len(q)
      BY <1>1, <1>3, <1>6, <2>4
    <3> QED  BY <1>3, <1>4, <2>4, <3>1
  <2>5. CASE i > k
    <3>1. i \in k + 1 .. Len(q) + 1 /\ j \in k + 1 .. Len(q) + 1
          /\ i - 1 \in 1 .. Len(q) /\ j - 1 \in 1 .. Len(q) /\ i - 1 < j - 1
      BY <1>1, <1>3, <1>6, <2>5
    <3> QED  BY <1>3, <1>5, <3>1
  <2> QED  BY <1>1, <1>3, <1>6, <2>1, <2>2, <2>3, <2>4, <2>5
<1>7. Ordered(l)
  BY <1>3, <1>6 DEF Ordered
<1>8. ASSUME NEW n, NEW f, Has(l, n, f)
      PROVE  Has(q, n, f) \/ Holds(r, n, f)
  <2>1. PICK i \in 1 .. Len(l) : Holds(l[i], n, f)
    BY <1>8 DEF Has
  <2>2. CASE i < k
    <3>1. i \in 1 .. k - 1 /\ i \in 1 .. Len(q)
      BY <1>1, <2>2
    <3> QED  BY <1>3, <2>1, <3>1 DEF Has
  <2>3. CASE i = k
    BY <1>3, <2>1, <2>3
  <2>4. CASE i > k
    <3>1. i \in k + 1 .. Len(q) + 1 /\ i - 1 \in 1 .. Len(q)
      BY <1>1, <1>3, <2>4
    <3> QED  BY <1>3, <2>1, <3>1 DEF Has
  <2> QED  BY <1>1, <1>3, <2>2, <2>3, <2>4
<1>9. ASSUME NEW n, NEW f, Has(q, n, f)
      PROVE  Has(l, n, f)
  <2>1. PICK i \in 1 .. Len(q) : Holds(q[i], n, f)
    BY <1>9 DEF Has
  <2>2. CASE i < k
    <3>1. i \in 1 .. k - 1 /\ i \in 1 .. Len(l)
      BY <1>1, <1>3, <2>2
    <3> QED  BY <1>3, <2>1, <3>1 DEF Has
  <2>3. CASE i >= k
    <3>1. i + 1 \in k + 1 .. Len(q) + 1 /\ i + 1 \in 1 .. Len(l) /\ i + 1 - 1 = i
      BY <1>1, <1>3, <2>3
    <3>2. l[i + 1] = q[i]
      BY <1>3, <3>1
    <3> QED  BY <2>1, <3>1, <3>2 DEF Has
  <2> QED  BY <1>1, <2>2, <2>3
<1>10. ASSUME NEW n, NEW f, Holds(r, n, f)
       PROVE  Has(l, n, f)
  <2>1. k \in 1 .. Len(l)
    BY <1>1, <1>3
  <2> QED  BY <1>3, <1>10, <2>1 DEF Has
<1>11. \A n, f : Has(l, n, f) <=> Has(q, n, f) \/ Holds(r, n, f)
  BY <1>8, <1>9, <1>10, Zenon
<1> QED  BY <1>2, <1>7, <1>11, Zenon DEF l

(* Intervals one of which ends where the other begins, or before. *)
LEMMA Disjoint ==
  ASSUME NEW x \in Nat, NEW y \in Nat, NEW v \in Nat, NEW w \in Nat,
         x + y <= v \/ v + w <= x, NEW n, n \in x .. x + y - 1, n \in v .. v + w - 1
  PROVE  FALSE
OBVIOUS

(* Deleting a region, which shares no address with the others. *)
LEMMA UnlinkOrdered ==
  ASSUME NEW q, Ordered(q), NEW k \in 1 .. Len(q)
  PROVE  /\ Ordered(Unlink(q, k)) /\ Len(Unlink(q, k)) = Len(q) - 1
         /\ \A i \in 1 .. k - 1 : Unlink(q, k)[i] = q[i]
         /\ \A i \in k .. Len(q) - 1 : Unlink(q, k)[i] = q[i + 1]
         /\ \A n, f : Has(q, n, f) <=> Has(Unlink(q, k), n, f) \/ Holds(q[k], n, f)
         /\ \A n, f : Has(Unlink(q, k), n, f) => n \notin Bytes(q[k])
<1> DEFINE u == Unlink(q, k)
<1>1. q \in Seq(Candidates) /\ Len(q) \in Nat
  BY DEF Ordered
<1>2. /\ u \in Seq(Candidates) /\ Len(u) = Len(q) - 1
      /\ \A i \in 1 .. Len(q) - 1 : u[i] = IF i < k THEN q[i] ELSE q[i + 1]
  <2>1. q \in Seq(Candidates)
    BY <1>1
  <2>2. Unlinked(Candidates, u, q, k)
    BY <2>1, UnlinkFacts, Zenon
  <2> HIDE DEF u
  <2> QED  BY <2>2 DEF Unlinked
<1> HIDE DEF u
<1>3. /\ \A i \in 1 .. k - 1 : u[i] = q[i]
      /\ \A i \in k .. Len(q) - 1 : u[i] = q[i + 1]
  <2>1. ASSUME NEW i \in 1 .. k - 1
        PROVE  u[i] = q[i]
    <3>1. i \in 1 .. Len(q) - 1 /\ i < k
      BY <1>1
    <3> QED  BY <1>2, <3>1
  <2>2. ASSUME NEW i \in k .. Len(q) - 1
        PROVE  u[i] = q[i + 1]
    <3>1. i \in 1 .. Len(q) - 1 /\ ~(i < k)
      BY <1>1
    <3> QED  BY <1>2, <3>1
  <2> QED  BY <2>1, <2>2
<1>4. \A i, j \in 1 .. Len(q) : i < j => Apart(q[i], q[j])
  BY DEF Ordered
<1>5. ASSUME NEW i \in 1 .. Len(u), NEW j \in 1 .. Len(u), i < j
      PROVE  Apart(u[i], u[j])
  <2>1. CASE j < k
    <3>1. i \in 1 .. k - 1 /\ j \in 1 .. k - 1 /\ i \in 1 .. Len(q) /\ j \in 1 .. Len(q)
      BY <1>1, <1>2, <1>5, <2>1
    <3> QED  BY <1>3, <1>4, <1>5, <3>1
  <2>2. CASE i < k /\ j >= k
    <3>1. i \in 1 .. k - 1 /\ j \in k .. Len(q) - 1
          /\ i \in 1 .. Len(q) /\ j + 1 \in 1 .. Len(q) /\ i < j + 1
      BY <1>1, <1>2, <2>2
    <3> QED  BY <1>3, <1>4, <3>1
  <2>3. CASE i >= k
    <3>1. i \in k .. Len(q) - 1 /\ j \in k .. Len(q) - 1
          /\ i + 1 \in 1 .. Len(q) /\ j + 1 \in 1 .. Len(q) /\ i + 1 < j + 1
      BY <1>1, <1>2, <1>5, <2>3
    <3> QED  BY <1>3, <1>4, <3>1
  <2> QED  BY <1>1, <1>2, <1>5, <2>1, <2>2, <2>3
<1>6. Ordered(u)
  BY <1>2, <1>5 DEF Ordered
<1>7. ASSUME NEW n, NEW f, Has(q, n, f)
      PROVE  Has(u, n, f) \/ Holds(q[k], n, f)
  <2>1. PICK i \in 1 .. Len(q) : Holds(q[i], n, f)
    BY <1>7 DEF Has
  <2>2. CASE i < k
    <3>1. i \in 1 .. k - 1 /\ i \in 1 .. Len(u)
      BY <1>1, <1>2, <2>2
    <3> QED  BY <1>3, <2>1, <3>1 DEF Has
  <2>3. CASE i = k
    BY <2>1, <2>3
  <2>4. CASE i > k
    <3>1. i - 1 \in k .. Len(q) - 1 /\ i - 1 \in 1 .. Len(u) /\ i - 1 + 1 = i
      BY <1>1, <1>2, <2>4
    <3>2. u[i - 1] = q[i]
      BY <1>3, <3>1
    <3> QED  BY <2>1, <3>1, <3>2 DEF Has
  <2> QED  BY <1>1, <2>2, <2>3, <2>4
<1>8. ASSUME NEW n, NEW f, Has(u, n, f)
      PROVE  \E j \in 1 .. Len(q) : j # k /\ Holds(q[j], n, f)
  <2>1. PICK i \in 1 .. Len(u) : Holds(u[i], n, f)
    BY <1>8 DEF Has
  <2>2. CASE i < k
    <3>1. i \in 1 .. k - 1 /\ i \in 1 .. Len(q) /\ i # k
      BY <1>1, <1>2, <2>2
    <3> QED  BY <1>3, <2>1, <3>1
  <2>3. CASE i >= k
    <3>1. i \in k .. Len(q) - 1 /\ i + 1 \in 1 .. Len(q) /\ i + 1 # k
      BY <1>1, <1>2, <2>3
    <3> QED  BY <1>3, <2>1, <3>1
  <2> QED  BY <1>1, <1>2, <2>2, <2>3
<1>9. \A n, f : Has(q, n, f) <=> Has(u, n, f) \/ Holds(q[k], n, f)
  <2>1. ASSUME NEW n, NEW f, Has(u, n, f)
        PROVE  Has(q, n, f)
    BY <1>8, <2>1, Zenon DEF Has
  <2>2. ASSUME NEW n, NEW f, Holds(q[k], n, f)
        PROVE  Has(q, n, f)
    BY <2>2 DEF Has
  <2> QED  BY <1>7, <2>1, <2>2, Zenon
<1>10. ASSUME NEW n, NEW f, Has(u, n, f), n \in Bytes(q[k])
       PROVE  FALSE
  <2>1. PICK j \in 1 .. Len(q) : j # k /\ Holds(q[j], n, f)
    BY <1>8, <1>10, Zenon
  <2>2. n \in Bytes(q[j])
    BY <2>1 DEF Holds
  <2>3. Apart(q[j], q[k]) \/ Apart(q[k], q[j])
    BY <1>1, <1>4, <2>1
  <2>4. q[j] \in Candidates /\ q[k] \in Candidates
    BY <1>1
  <2>5. /\ q[j].address \in Nat /\ q[j].size \in Nat /\ q[k].address \in Nat /\ q[k].size \in Nat
    BY <2>4, CandidateFacts
  <2>6. /\ n \in q[j].address .. q[j].address + q[j].size - 1
        /\ n \in q[k].address .. q[k].address + q[k].size - 1
    BY <1>10, <2>2 DEF Bytes
  <2>7. \/ q[j].address + q[j].size <= q[k].address
        \/ q[k].address + q[k].size <= q[j].address
    BY <2>3 DEF Apart
  <2> QED  BY <2>5, <2>6, <2>7, Disjoint
<1>11. \A n, f : Has(u, n, f) => n \notin Bytes(q[k])
  BY <1>10, Zenon
<1> QED  BY <1>2, <1>3, <1>6, <1>9, <1>11, Zenon DEF u

----------------------------------------------------------------------------
(* name_add.                                                               *)

(* Merging two regions of a list. *)
LEMMA MergeCandidates ==
  ASSUME NEW x \in Candidates, NEW y \in Candidates
  PROVE  LET m == merge(x, y)
         IN  /\ m.ok \in BOOLEAN /\ (m.ok <=> x.flags = y.flags /\ Touch(x, y))
             /\ m.ok => /\ m.region \in Candidates /\ m.region.flags = x.flags
                        /\ Spans(m.region, x, y)
                        /\ \A n, f : Holds(m.region, n, f) <=> Holds(x, n, f) \/ Holds(y, n, f)
<1> DEFINE m == merge(x, y)
<1>1. x \in Region /\ y \in Region /\ Fits(x) /\ Fits(y) /\ Room(x, y)
  BY CandidateFacts, CandidatesRoom
<1>2. /\ m.ok \in BOOLEAN /\ (m.ok <=> x.flags = y.flags /\ Touch(x, y))
      /\ m.ok => m.region.flags = x.flags /\ Spans(m.region, x, y)
  BY <1>1, MergeShape, Zenon
<1>3. m.ok => Bytes(m.region) = Bytes(x) \cup Bytes(y)
  BY <1>1, MergeGood
<1> HIDE DEF m
<1>4. ASSUME m.ok
      PROVE  m.region \in Candidates
  <2>1. Spans(m.region, x, y)
    BY <1>2, <1>4
  <2> DEFINE r == m.region
  <2>2. /\ r \in Region /\ Fits(r)
        /\ r.address = x.address \/ r.address = y.address
        /\ r.address <= x.address /\ x.address + x.size <= r.address + r.size
    BY <2>1 DEF Spans
  <2> HIDE DEF r
  <2>3. r.address \in Nat /\ r.size \in Nat
    BY <2>2, RegionFacts
  <2>4. /\ x.address \in Nat /\ x.size \in Nat /\ x.size > 0 /\ x.address > 0
        /\ y.address \in Nat /\ y.address > 0
    BY CandidateFacts
  <2>5. r.address > 0
    BY <2>2, <2>4
  <2>6. r.size > 0
    BY <2>2, <2>3, <2>4
  <2> QED  BY <2>2, <2>5, <2>6 DEF Candidates, r
<1>5. ASSUME m.ok
      PROVE  \A n, f : Holds(m.region, n, f) <=> Holds(x, n, f) \/ Holds(y, n, f)
  <2>1. m.region.flags = x.flags /\ x.flags = y.flags /\ Bytes(m.region) = Bytes(x) \cup Bytes(y)
    BY <1>2, <1>3, <1>5
  <2> QED  BY <2>1 DEF Holds
<1> QED  BY <1>2, <1>4, <1>5, Zenon DEF m

(* What lies apart from two regions that touch lies apart from both. *)
LEMMA ApartSpan ==
  ASSUME NEW x, NEW y, NEW g, Spans(g, x, y), x.flags = y.flags, g.flags = x.flags, NEW a
  PROVE  /\ Apart(a, x) /\ Apart(a, y) => Apart(a, g)
         /\ Apart(x, a) /\ Apart(y, a) => Apart(g, a)
<1>1. /\ g.address = x.address \/ g.address = y.address
      /\ g.address + g.size = x.address + x.size \/ g.address + g.size = y.address + y.size
  BY DEF Spans
<1> QED  BY <1>1 DEF Apart

(* Regions that do not share an address. *)
LEMMA ApartOrTouch ==
  ASSUME NEW x \in Candidates, NEW y \in Candidates, x.address + x.size <= y.address,
         ~(x.flags = y.flags /\ Touch(x, y))
  PROVE  Apart(x, y)
<1>1. /\ x.address \in Nat /\ x.size \in Nat /\ y.address \in Nat /\ y.size \in Nat
  BY CandidateFacts
<1>2. x.address <= y.address + y.size
  BY <1>1
<1>3. x.flags = y.flags => ~(y.address <= x.address + x.size)
  BY <1>2 DEF Touch
<1>4. x.flags = y.flags => x.address + x.size < y.address
  BY <1>1, <1>3
<1> QED  BY <1>4 DEF Apart

(* The k-th region, grown to g, lies between its neighbours, and may touch *)
(* its successor.                                                          *)
LEMMA JoinOrdered ==
  ASSUME NEW q, Ordered(q), NEW k \in 1 .. Len(q), NEW g \in Candidates,
         \A i \in 1 .. k - 1 : Apart(q[i], g),
         \A i \in k + 2 .. Len(q) : Apart(g, q[i]),
         k < Len(q) => g.address + g.size <= q[k + 1].address
  PROVE  /\ Ordered(JoinNext(q, k, g))
         /\ \A n, f : Has(JoinNext(q, k, g), n, f) <=> Has(Unlink(q, k), n, f) \/ Holds(g, n, f)
<1> DEFINE u == Unlink(q, k)
           joins == k < Len(q) /\ merge(q[k + 1], g).ok
<1>1. q \in Seq(Candidates) /\ Len(q) \in Nat
  BY DEF Ordered
<1>2. /\ Ordered(u) /\ Len(u) = Len(q) - 1
      /\ \A i \in 1 .. k - 1 : u[i] = q[i]
      /\ \A i \in k .. Len(q) - 1 : u[i] = q[i + 1]
  BY UnlinkOrdered, Zenon
<1>3. \A i, j \in 1 .. Len(q) : i < j => Apart(q[i], q[j])
  BY DEF Ordered
<1>4. CASE ~joins
  <2>1. JoinNext(q, k, g) = Link(u, k, g)
    <3>1. [q EXCEPT ![k] = g] = Link(u, k, g)
      BY <1>1, ReplaceFacts
    <3> QED  BY <1>4, <3>1, Zenon DEF JoinNext
  <2> HIDE DEF u
  <2>2. ASSUME NEW i \in 1 .. Len(u)
        PROVE  IF i < k THEN Apart(u[i], g) ELSE Apart(g, u[i])
    <3>1. CASE i < k
      <4>1. i \in 1 .. k - 1
        BY <3>1
      <4> QED  BY <1>2, <3>1, <4>1
    <3>2. CASE i = k
      <4>1. k < Len(q) /\ i \in k .. Len(q) - 1 /\ k + 1 \in 1 .. Len(q)
        BY <1>1, <1>2, <3>2
      <4>2. u[i] = q[k + 1] /\ q[k + 1] \in Candidates
        BY <1>1, <1>2, <3>2, <4>1
      <4>3. ~(q[k + 1].flags = g.flags /\ Touch(q[k + 1], g))
        BY <1>4, <4>1, <4>2, MergeCandidates
      <4>4. ~(g.flags = q[k + 1].flags /\ Touch(g, q[k + 1]))
        BY <4>3 DEF Touch
      <4>5. Apart(g, q[k + 1])
        BY <4>1, <4>2, <4>4, ApartOrTouch
      <4> QED  BY <3>2, <4>2, <4>5
    <3>3. CASE i > k
      <4>1. i \in k .. Len(q) - 1 /\ i + 1 \in k + 2 .. Len(q) /\ ~(i < k)
        BY <1>1, <1>2, <3>3
      <4> QED  BY <1>2, <4>1
    <3> QED  BY <1>1, <1>2, <3>1, <3>2, <3>3
  <2>3. k \in 1 .. Len(u) + 1
    BY <1>1, <1>2
  <2>4. /\ Ordered(Link(u, k, g))
        /\ \A n, f : Has(Link(u, k, g), n, f) <=> Has(u, n, f) \/ Holds(g, n, f)
    BY <1>2, <2>2, <2>3, LinkOrdered, Zenon
  <2> QED  BY <2>1, <2>4, Zenon DEF u
<1>5. CASE joins
  <2> DEFINE x == q[k + 1]
             g2 == merge(x, g).region
             v == Unlink(u, k)
  <2>1. k + 1 \in 1 .. Len(q) /\ k \in 1 .. Len(u) /\ k \in k .. Len(q) - 1
    BY <1>1, <1>2, <1>5
  <2>2. x \in Candidates /\ u[k] = x
    BY <1>1, <1>2, <2>1
  <2>3. /\ g2 \in Candidates /\ g2.flags = x.flags /\ x.flags = g.flags /\ Spans(g2, x, g)
        /\ \A n, f : Holds(g2, n, f) <=> Holds(x, n, f) \/ Holds(g, n, f)
    <3> HIDE DEF x
    <3>1. merge(x, g).ok
      BY <1>5 DEF x
    <3> QED  BY <2>2, <3>1, MergeCandidates, Zenon
  <2>4. JoinNext(q, k, g) = Unlink([q EXCEPT ![k + 1] = g2], k)
    BY <1>5 DEF JoinNext
  <2> HIDE DEF g2, x
  <2>5. Unlink([q EXCEPT ![k + 1] = g2], k) = [u EXCEPT ![k] = g2]
    BY <1>1, <1>5, <2>3, ReplaceNextUnlink
  <2> HIDE DEF u
  <2>6. [u EXCEPT ![k] = g2] = Link(v, k, g2)
    <3>1. u \in Seq(Candidates)
      BY <1>2 DEF Ordered
    <3> QED  BY <2>1, <2>3, <3>1, ReplaceFacts
  <2>7. /\ Ordered(v) /\ Len(v) = Len(u) - 1
        /\ \A i \in 1 .. k - 1 : v[i] = u[i]
        /\ \A i \in k .. Len(u) - 1 : v[i] = u[i + 1]
        /\ \A n, f : Has(u, n, f) <=> Has(v, n, f) \/ Holds(u[k], n, f)
    BY <1>2, <2>1, UnlinkOrdered, Zenon
  <2> HIDE DEF v
  <2>8. ASSUME NEW i \in 1 .. Len(v)
        PROVE  IF i < k THEN Apart(v[i], g2) ELSE Apart(g2, v[i])
    <3>1. CASE i < k
      <4>1. i \in 1 .. k - 1 /\ i \in 1 .. Len(q) /\ i < k + 1
        BY <1>1, <3>1
      <4>2. v[i] = q[i]
        BY <1>2, <2>7, <4>1
      <4>3. Apart(q[i], x) /\ Apart(q[i], g)
        BY <1>3, <2>1, <4>1 DEF x
      <4> QED  BY <2>3, <3>1, <4>2, <4>3, ApartSpan
    <3>2. CASE ~(i < k)
      <4>1. i \in k .. Len(u) - 1 /\ i + 1 \in k .. Len(q) - 1 /\ i + 2 \in 1 .. Len(q)
            /\ i + 1 + 1 = i + 2 /\ i + 2 \in k + 2 .. Len(q) /\ k + 1 < i + 2
        BY <1>1, <1>2, <2>7, <3>2
      <4>2. v[i] = q[i + 2]
        BY <1>2, <2>7, <4>1
      <4>3. Apart(x, q[i + 2]) /\ Apart(g, q[i + 2])
        BY <1>3, <2>1, <4>1 DEF x
      <4> QED  BY <2>3, <3>2, <4>2, <4>3, ApartSpan
    <3> QED  BY <3>1, <3>2
  <2>9. k \in 1 .. Len(v) + 1
    BY <1>1, <1>2, <2>1, <2>7
  <2>10. /\ Ordered(Link(v, k, g2))
         /\ \A n, f : Has(Link(v, k, g2), n, f) <=> Has(v, n, f) \/ Holds(g2, n, f)
    BY <2>3, <2>7, <2>8, <2>9, LinkOrdered, Zenon
  <2>11. JoinNext(q, k, g) = Link(v, k, g2)
    BY <2>4, <2>5, <2>6
  <2>12. \A n, f : Has(Link(v, k, g2), n, f) <=> Has(u, n, f) \/ Holds(g, n, f)
    BY <2>2, <2>3, <2>7, <2>10, Zenon
  <2> QED  BY <2>10, <2>11, <2>12, Zenon DEF u
<1> QED  BY <1>4, <1>5

(* The loop of name_add stops at the first region that the new one touches *)
(* or lies below.                                                          *)
LEMMA AddStops ==
  ASSUME NEW q, Len(q) \in Nat, NEW r
  PROVE  \E k \in 1 .. Len(q) + 1 :
           /\ add(q, r) = AddAt(q, r, k)
           /\ \A i \in 1 .. k - 1 : ~merge(q[i], r).ok /\ ~(r.address < q[i].address)
           /\ k <= Len(q) => merge(q[k], r).ok \/ r.address < q[k].address
<1> DEFINE hits == {i \in 1 .. Len(q) : merge(q[i], r).ok \/ r.address < q[i].address}
           h == FirstOf(Len(q), hits)
<1>1. add(q, r) = AddAt(q, r, h)
  BY DEF add, First, FirstOf
<1>2. hits \subseteq 1 .. Len(q)
  OBVIOUS
<1>3. \A i \in 1 .. Len(q) : i \in hits <=> merge(q[i], r).ok \/ r.address < q[i].address
  OBVIOUS
<1> HIDE DEF hits
<1>4. h \in 1 .. Len(q) + 1 /\ (\A i \in 1 .. h - 1 : i \notin hits) /\ (h <= Len(q) => h \in hits)
  <2>1. h = FirstOf(Len(q), hits)
    OBVIOUS
  <2> HIDE DEF h
  <2> QED  BY <1>2, <2>1, FirstHit, Zenon
<1> HIDE DEF h
<1>5. \A i \in 1 .. h - 1 : i \in 1 .. Len(q)
  BY <1>4
<1>6. h <= Len(q) => h \in 1 .. Len(q)
  BY <1>4
<1>7. /\ \A i \in 1 .. h - 1 : ~merge(q[i], r).ok /\ ~(r.address < q[i].address)
      /\ h <= Len(q) => merge(q[h], r).ok \/ r.address < q[h].address
  BY <1>3, <1>4, <1>5, <1>6, Zenon
<1> QED  BY <1>1, <1>4, <1>7, Zenon

(* name_add keeps a list in order and adds the region's addresses, where   *)
(* none of them was on the list.                                           *)
LEMMA AddOrdered ==
  ASSUME NEW q, Ordered(q), NEW r \in Candidates,
         \A i \in 1 .. Len(q) : \/ q[i].address + q[i].size <= r.address
                                \/ r.address + r.size <= q[i].address
  PROVE  /\ Ordered(add(q, r))
         /\ \A n, f : Has(add(q, r), n, f) <=> Has(q, n, f) \/ Holds(r, n, f)
<1>1. Len(q) \in Nat /\ \A i \in 1 .. Len(q) : q[i] \in Candidates
  BY DEF Ordered
<1>2. \A i, j \in 1 .. Len(q) : i < j => Apart(q[i], q[j])
  BY DEF Ordered
<1>3. PICK k \in 1 .. Len(q) + 1 :
        /\ add(q, r) = AddAt(q, r, k)
        /\ \A i \in 1 .. k - 1 : ~merge(q[i], r).ok /\ ~(r.address < q[i].address)
        /\ k <= Len(q) => merge(q[k], r).ok \/ r.address < q[k].address
  BY <1>1, AddStops, Zenon
<1>4. r.address \in Nat /\ r.size \in Nat /\ r.size > 0
  BY CandidateFacts
<1>5. \A i \in 1 .. Len(q) : q[i].address \in Nat /\ q[i].size \in Nat /\ q[i].size > 0
  BY <1>1, CandidateFacts
<1>6. ASSUME NEW i \in 1 .. k - 1
      PROVE  Apart(q[i], r)
  <2>1. i \in 1 .. Len(q)
    BY <1>1
  <2>2. q[i].address + q[i].size <= r.address
    <3>1. ~(r.address < q[i].address)
      BY <1>3
    <3>2. q[i].address \in Nat /\ q[i].size \in Nat
      BY <1>5, <2>1
    <3> QED  BY <1>4, <2>1, <3>1, <3>2
  <2>3. q[i] \in Candidates /\ ~merge(q[i], r).ok
    BY <1>1, <1>3, <2>1
  <2>4. ~(q[i].flags = r.flags /\ Touch(q[i], r))
    BY <2>3, MergeCandidates
  <2> QED  BY <2>2, <2>3, <2>4, ApartOrTouch
<1>7. CASE ~(k <= Len(q) /\ merge(q[k], r).ok)
  <2>1. add(q, r) = Link(q, k, r)
    BY <1>3, <1>7 DEF AddAt
  <2>2. ASSUME NEW i \in 1 .. Len(q), ~(i < k)
        PROVE  Apart(r, q[i])
    <3>1. k <= Len(q) /\ k \in 1 .. Len(q)
      BY <1>1, <2>2
    <3>2. r.address < q[k].address /\ ~merge(q[k], r).ok /\ q[k] \in Candidates
      BY <1>1, <1>3, <1>7, <3>1
    <3>3. r.address + r.size <= q[k].address
      <4>1. q[k].address \in Nat /\ q[k].size \in Nat
        BY <1>5, <3>1
      <4> QED  BY <1>4, <3>1, <3>2, <4>1
    <3>4. CASE i = k
      <4>1. ~(q[k].flags = r.flags /\ Touch(q[k], r))
        BY <3>2, MergeCandidates
      <4>2. ~(r.flags = q[k].flags /\ Touch(r, q[k]))
        BY <4>1 DEF Touch
      <4> QED  BY <3>2, <3>3, <3>4, <4>2, ApartOrTouch
    <3>5. CASE i # k
      <4>1. k < i
        BY <1>1, <2>2, <3>5
      <4>2. Apart(q[k], q[i])
        BY <1>2, <3>1, <4>1
      <4>3. q[k].address + q[k].size <= q[i].address
        BY <4>2 DEF Apart
      <4>4. /\ q[k].address \in Nat /\ q[k].size \in Nat /\ q[k].size > 0
            /\ q[i].address \in Nat /\ r.address + r.size \in Nat
        BY <1>4, <1>5, <3>1
      <4>5. r.address + r.size < q[i].address
        BY <3>3, <4>3, <4>4
      <4> QED  BY <4>4, <4>5 DEF Apart
    <3> QED  BY <3>4, <3>5
  <2>3. ASSUME NEW i \in 1 .. Len(q)
        PROVE  IF i < k THEN Apart(q[i], r) ELSE Apart(r, q[i])
    <3>1. i < k => i \in 1 .. k - 1
      OBVIOUS
    <3> QED  BY <1>6, <2>2, <3>1, Zenon
  <2>4. /\ Ordered(Link(q, k, r))
        /\ \A n, f : Has(Link(q, k, r), n, f) <=> Has(q, n, f) \/ Holds(r, n, f)
    BY <2>3, LinkOrdered, Zenon
  <2> QED  BY <2>1, <2>4, Zenon
<1>8. CASE k <= Len(q) /\ merge(q[k], r).ok
  <2> DEFINE x == q[k]
             g == merge(x, r).region
  <2>1. add(q, r) = JoinNext(q, k, g)
    BY <1>3, <1>8 DEF AddAt
  <2>2. k \in 1 .. Len(q) /\ x \in Candidates
    BY <1>1, <1>8
  <2>3. /\ g \in Candidates /\ g.flags = x.flags /\ x.flags = r.flags /\ Touch(x, r)
        /\ Spans(g, x, r)
        /\ \A n, f : Holds(g, n, f) <=> Holds(x, n, f) \/ Holds(r, n, f)
    <3>1. merge(x, r).ok
      BY <1>8
    <3> HIDE DEF x
    <3> QED  BY <2>2, <3>1, MergeCandidates, Zenon
  <2>4. r.address <= x.address + x.size
    BY <2>3 DEF Touch
  <2> HIDE DEF g
  <2>5. ASSUME NEW i \in 1 .. k - 1
        PROVE  Apart(q[i], g)
    <3>1. i \in 1 .. Len(q) /\ i < k
      BY <1>1
    <3>2. Apart(q[i], x) /\ Apart(q[i], r)
      BY <1>2, <1>6, <2>2, <3>1
    <3> QED  BY <2>3, <3>2, ApartSpan
  <2>6. ASSUME k < Len(q)
        PROVE  /\ r.address + r.size <= q[k + 1].address
               /\ x.address + x.size <= q[k + 1].address
    <3>1. k + 1 \in 1 .. Len(q) /\ k < k + 1
      BY <1>1, <2>6
    <3>2. x.address + x.size <= q[k + 1].address
      BY <1>2, <2>2, <3>1 DEF Apart
    <3>3. /\ q[k + 1].address \in Nat /\ q[k + 1].size \in Nat /\ q[k + 1].size > 0
          /\ x.address \in Nat /\ x.size \in Nat
      BY <1>5, <2>2, <3>1
    <3>4. \/ q[k + 1].address + q[k + 1].size <= r.address
          \/ r.address + r.size <= q[k + 1].address
      BY <3>1
    <3> HIDE DEF x
    <3>5. ~(q[k + 1].address + q[k + 1].size <= r.address)
      BY <1>4, <2>4, <3>2, <3>3
    <3> QED  BY <3>2, <3>4, <3>5
  <2>7. k < Len(q) => g.address + g.size <= q[k + 1].address
    <3>1. g.address + g.size = x.address + x.size \/ g.address + g.size = r.address + r.size
      BY <2>3 DEF Spans
    <3> QED  BY <2>6, <3>1, Zenon
  <2>8. ASSUME NEW i \in k + 2 .. Len(q)
        PROVE  Apart(g, q[i])
    <3>1. k < Len(q) /\ k + 1 \in 1 .. Len(q) /\ i \in 1 .. Len(q) /\ k + 1 < i /\ k < i
      BY <1>1
    <3>2. Apart(x, q[i]) /\ Apart(q[k + 1], q[i])
      BY <1>2, <2>2, <3>1
    <3>3. q[k + 1].address + q[k + 1].size <= q[i].address
      BY <3>2 DEF Apart
    <3>4. r.address + r.size <= q[k + 1].address
      BY <2>6, <3>1
    <3>5. /\ q[k + 1].address \in Nat /\ q[k + 1].size \in Nat /\ q[k + 1].size > 0
          /\ q[i].address \in Nat
      BY <1>5, <3>1
    <3>6. r.address + r.size < q[i].address
      <4> DEFINE a == q[k + 1].address
                 b == q[k + 1].size
                 c == q[i].address
                 d == r.address
                 e == r.size
      <4>1. /\ a \in Nat /\ b \in Nat /\ b > 0 /\ c \in Nat /\ d \in Nat /\ e \in Nat
            /\ a + b <= c /\ d + e <= a
        BY <1>4, <3>3, <3>4, <3>5
      <4> HIDE DEF a, b, c, d, e
      <4>2. d + e < c
        BY <4>1
      <4> QED  BY <4>2 DEF c, d, e
    <3>7. Apart(r, q[i])
      BY <1>4, <3>5, <3>6 DEF Apart
    <3> QED  BY <2>3, <3>2, <3>7, ApartSpan
  <2>9. /\ Ordered(JoinNext(q, k, g))
        /\ \A n, f : Has(JoinNext(q, k, g), n, f) <=> Has(Unlink(q, k), n, f) \/ Holds(g, n, f)
    BY <2>2, <2>3, <2>5, <2>7, <2>8, JoinOrdered, Zenon
  <2>10. \A n, f : Has(q, n, f) <=> Has(Unlink(q, k), n, f) \/ Holds(x, n, f)
    BY <2>2, UnlinkOrdered, Zenon
  <2> HIDE DEF x
  <2> QED  BY <2>1, <2>3, <2>9, <2>10, Zenon
<1> QED  BY <1>7, <1>8

----------------------------------------------------------------------------
(* name_subtract.                                                          *)

(* A part of region a that stays on the list. *)
Piece(x, a) ==
  /\ x \in Candidates /\ x.flags = a.flags
  /\ a.address <= x.address /\ x.address + x.size <= a.address + a.size

(* What cut leaves of a region, as cut_and_stitch takes it: the one piece  *)
(* stays where the region was, the other one has its flags.                *)
PiecesOf(a, b, c, p) ==
  /\ c.ok \in BOOLEAN
  /\ ~c.ok => \A n : ~(n \in Bytes(a) /\ n \in Bytes(b))
  /\ c.ok => /\ c.a \in Region /\ p \in Region
             /\ c.a.size # 0 => Piece(c.a, a)
             /\ c.b.size # 0 => /\ Piece(p, a) /\ a.address < p.address
                                /\ c.a.address = a.address
             /\ c.a.size # 0 /\ c.b.size # 0 => Apart(c.a, p)
             /\ \A n, f : Holds(a, n, f) /\ n \notin Bytes(b) <=>
                            \/ c.a.size # 0 /\ Holds(c.a, n, f)
                            \/ c.b.size # 0 /\ Holds(p, n, f)

(* The pieces of a cut. *)
LEMMA CutPieces ==
  ASSUME NEW a \in Candidates, NEW b \in Candidates,
         NEW c, c = cut(a, b),
         NEW p, p = [a EXCEPT !.address = c.b.address, !.size = c.b.size]
  PROVE  PiecesOf(a, b, c, p)
<1> DEFINE ea == a.address + a.size
           eb == b.address + b.size
           behind == IF eb <= ea THEN ea - eb ELSE 0
           rest == IF c.ok THEN Bytes(c.b) ELSE {}
<1>1. a \in Region /\ b \in Region /\ Fits(a) /\ Fits(b) /\ Room(a, b)
  BY CandidateFacts, CandidatesRoom
<1>2. c.a \in Region /\ c.b.address \in Words /\ c.b.size \in Words /\ Leaves(c, a, b)
  BY <1>1, CutShape, Zenon
<1>3. Bytes(c.a) \cup rest = Bytes(a) \ Bytes(b)
  BY <1>1, CutGood
<1>4. /\ a.address \in Nat /\ a.size \in Nat /\ b.address \in Nat /\ b.size \in Nat
      /\ a.address > 0 /\ b.size > 0 /\ ea <= WORD /\ a.flags \in Flags
  BY CandidateFacts
<1>5. p \in Region /\ p.address = c.b.address /\ p.size = c.b.size /\ p.flags = a.flags
  BY <1>1, <1>2 DEF Region
<1> SUFFICES
             /\ c.ok \in BOOLEAN
             /\ ~c.ok => \A n : ~(n \in Bytes(a) /\ n \in Bytes(b))
             /\ c.ok => /\ c.a \in Region /\ p \in Region
                        /\ c.a.size # 0 => Piece(c.a, a)
                        /\ c.b.size # 0 => /\ Piece(p, a) /\ a.address < p.address
                                           /\ c.a.address = a.address
                        /\ c.a.size # 0 /\ c.b.size # 0 => Apart(c.a, p)
                        /\ \A n, f : Holds(a, n, f) /\ n \notin Bytes(b) <=>
                                       \/ c.a.size # 0 /\ Holds(c.a, n, f)
                                       \/ c.b.size # 0 /\ Holds(p, n, f)
  BY DEF PiecesOf
<1>6. \/ c.ok = FALSE /\ c.a = a /\ (ea <= b.address \/ eb <= a.address)
      \/ /\ c.ok = TRUE /\ a.address <= b.address /\ b.address < ea
         /\ c.a = [a EXCEPT !.size = b.address - a.address]
         /\ c.b.size = behind /\ (c.b.size # 0 => c.b.address = eb)
      \/ /\ c.ok = TRUE /\ b.address < a.address /\ a.address <= eb
         /\ c.a.flags = a.flags
         /\ c.a.size = behind /\ (c.a.size # 0 => c.a.address = eb)
         /\ c.b.size = 0
  BY <1>2 DEF Leaves
<1>7. /\ c.a.address \in Nat /\ c.a.size \in Nat /\ c.b.address \in Nat /\ c.b.size \in Nat
  BY <1>2, RangesAssumption DEF Region, Words
<1>8. CASE c.ok = FALSE /\ c.a = a /\ (ea <= b.address \/ eb <= a.address)
  <2>1. ASSUME NEW n, n \in Bytes(a), n \in Bytes(b)
        PROVE  FALSE
    BY <1>4, <1>8, <2>1, Disjoint DEF Bytes
  <2> QED  BY <1>8, <2>1
<1>9. ASSUME c.ok = TRUE
      PROVE  \A n, f : Holds(a, n, f) /\ n \notin Bytes(b) <=>
                         \/ c.a.size # 0 /\ Holds(c.a, n, f)
                         \/ c.b.size # 0 /\ Holds(p, n, f)
  <2>1. c.a.flags = a.flags
    <3>1. ASSUME c.a = [a EXCEPT !.size = b.address - a.address] PROVE c.a.flags = a.flags
      BY <1>1, <3>1 DEF Region
    <3> QED  BY <1>6, <1>9, <3>1
  <2>2. Bytes(p) = Bytes(c.b) /\ rest = Bytes(c.b)
    BY <1>5, <1>9 DEF Bytes
  <2>3. \A n : n \in Bytes(c.a) => c.a.size # 0
    BY <1>7 DEF Bytes
  <2>4. \A n : n \in Bytes(c.b) => c.b.size # 0
    BY <1>7 DEF Bytes
  <2> HIDE DEF rest
  <2>5. \A n : n \in Bytes(a) /\ n \notin Bytes(b) <=> n \in Bytes(c.a) \/ n \in Bytes(p)
    BY <1>3, <2>2
  <2> QED  BY <1>5, <2>1, <2>2, <2>3, <2>4, <2>5, Zenon DEF Holds
<1>10. CASE /\ c.ok = TRUE /\ a.address <= b.address /\ b.address < ea
            /\ c.a = [a EXCEPT !.size = b.address - a.address]
            /\ c.b.size = behind /\ (c.b.size # 0 => c.b.address = eb)
  <2>1. c.a.address = a.address /\ c.a.size = b.address - a.address /\ c.a.flags = a.flags
    BY <1>1, <1>10 DEF Region
  <2>2. ASSUME c.a.size # 0
        PROVE  Piece(c.a, a)
    <3>1. c.a.address + c.a.size <= ea /\ c.a.address > 0 /\ c.a.size > 0
          /\ c.a.address + c.a.size <= WORD /\ a.address <= c.a.address
      BY <1>4, <1>7, <1>10, <2>1, <2>2, RangesAssumption
    <3> QED  BY <1>2, <2>1, <3>1 DEF Piece, Candidates, Fits
  <2>3. ASSUME c.b.size # 0
        PROVE  Piece(p, a) /\ a.address < p.address /\ b.address < p.address
    <3>1. p.address = eb /\ eb <= ea /\ p.size = ea - eb
      BY <1>5, <1>10, <2>3
    <3>2. /\ p.address > 0 /\ p.size > 0 /\ p.address + p.size = ea /\ a.address <= p.address
          /\ a.address < p.address /\ b.address < p.address /\ p.address + p.size <= WORD
      <4> HIDE DEF ea
      <4>1. ea \in Nat
        BY <1>4 DEF ea
      <4> QED  BY <1>4, <1>5, <1>7, <1>10, <2>3, <3>1, <4>1, RangesAssumption
    <3>3. ea <= ea
      BY <1>4
    <3> QED  BY <1>5, <3>2, <3>3 DEF Piece, Candidates, Fits
  <2>4. ASSUME c.a.size # 0, c.b.size # 0
        PROVE  Apart(c.a, p)
    <3>1. b.address < p.address /\ p.address \in Nat
      BY <1>5, <1>7, <2>3, <2>4
    <3>2. c.a.address + c.a.size = b.address
      BY <1>4, <2>1
    <3> QED  BY <1>4, <3>1, <3>2 DEF Apart
  <2> QED  BY <1>2, <1>5, <1>9, <1>10, <2>1, <2>2, <2>3, <2>4, Zenon
<1>11. CASE /\ c.ok = TRUE /\ b.address < a.address /\ a.address <= eb
            /\ c.a.flags = a.flags
            /\ c.a.size = behind /\ (c.a.size # 0 => c.a.address = eb)
            /\ c.b.size = 0
  <2>1. ASSUME c.a.size # 0
        PROVE  Piece(c.a, a)
    <3>1. c.a.address = eb /\ eb <= ea /\ c.a.size = ea - eb
      BY <1>11, <2>1
    <3>2. /\ c.a.address > 0 /\ c.a.size > 0 /\ c.a.address + c.a.size = ea
          /\ a.address <= c.a.address /\ c.a.address + c.a.size <= WORD
      <4> HIDE DEF ea
      <4>1. ea \in Nat
        BY <1>4 DEF ea
      <4> QED  BY <1>4, <1>7, <1>11, <2>1, <3>1, <4>1, RangesAssumption
    <3>3. ea <= ea
      BY <1>4
    <3> QED  BY <1>2, <1>11, <3>2, <3>3 DEF Piece, Candidates, Fits
  <2> QED  BY <1>2, <1>5, <1>9, <1>11, <2>1, Zenon
<1> QED  BY <1>6, <1>8, <1>10, <1>11, Zenon

(* What lies apart from a region lies apart from a piece of it. *)
LEMMA PieceApart ==
  ASSUME NEW a \in Candidates, NEW x, Piece(x, a), NEW y \in Candidates
  PROVE  (Apart(y, a) => Apart(y, x)) /\ (Apart(a, y) => Apart(x, y))
<1>1. /\ x \in Candidates /\ x.flags = a.flags
      /\ a.address <= x.address /\ x.address + x.size <= a.address + a.size
  BY DEF Piece
<1>2. /\ a.address \in Nat /\ a.address + a.size \in Nat
      /\ x.address \in Nat /\ x.address + x.size \in Nat
      /\ y.address \in Nat /\ y.address + y.size \in Nat
  BY <1>1, CandidateFacts
<1> QED  BY <1>1, <1>2 DEF Apart

(* The list l has x in place of the i-th region of q. *)
Replaced(q, i, x, l) ==
  /\ Ordered(l) /\ Len(l) = Len(q) /\ l[i] = x
  /\ \A j \in 1 .. Len(q) : j # i => l[j] = q[j]
  /\ \A n, f : Has(l, n, f) <=> Has(Unlink(q, i), n, f) \/ Holds(x, n, f)

(* A piece takes the place of its region. *)
LEMMA PieceOrdered ==
  ASSUME NEW q, Ordered(q), NEW i \in 1 .. Len(q), NEW x, Piece(x, q[i])
  PROVE  Replaced(q, i, x, Link(Unlink(q, i), i, x))
<1> DEFINE u == Unlink(q, i)
           l == Link(u, i, x)
<1>1. q \in Seq(Candidates) /\ Len(q) \in Nat /\ \A j \in 1 .. Len(q) : q[j] \in Candidates
  BY DEF Ordered
<1>2. \A j, k \in 1 .. Len(q) : j < k => Apart(q[j], q[k])
  BY DEF Ordered
<1>3. x \in Candidates
  BY DEF Piece
<1>4. /\ Ordered(u) /\ Len(u) = Len(q) - 1
      /\ \A j \in 1 .. i - 1 : u[j] = q[j]
      /\ \A j \in i .. Len(q) - 1 : u[j] = q[j + 1]
  BY UnlinkOrdered, Zenon
<1>5. l = [q EXCEPT ![i] = x]
  BY <1>1, <1>3, ReplaceFacts
<1>6. ASSUME NEW j \in 1 .. Len(q)
      PROVE  (j < i => Apart(q[j], x)) /\ (i < j => Apart(x, q[j]))
  <2>1. q[i] \in Candidates /\ q[j] \in Candidates
    BY <1>1
  <2>2. (Apart(q[j], q[i]) => Apart(q[j], x)) /\ (Apart(q[i], q[j]) => Apart(x, q[j]))
    BY <2>1, PieceApart, Zenon
  <2> QED  BY <1>2, <2>2
<1> HIDE DEF u, l
<1>7. ASSUME NEW j \in 1 .. Len(u)
      PROVE  IF j < i THEN Apart(u[j], x) ELSE Apart(x, u[j])
  <2>1. CASE j < i
    <3>1. j \in 1 .. i - 1 /\ j \in 1 .. Len(q)
      BY <1>1, <2>1
    <3> QED  BY <1>4, <1>6, <2>1, <3>1
  <2>2. CASE ~(j < i)
    <3>1. j \in i .. Len(q) - 1 /\ j + 1 \in 1 .. Len(q) /\ i < j + 1
      BY <1>1, <1>4, <2>2
    <3> QED  BY <1>4, <1>6, <2>2, <3>1
  <2> QED  BY <2>1, <2>2
<1>8. i \in 1 .. Len(u) + 1
  BY <1>1, <1>4
<1>9. Ordered(l) /\ \A n, f : Has(l, n, f) <=> Has(u, n, f) \/ Holds(x, n, f)
  <2>1. l = Link(u, i, x)
    BY DEF l
  <2> QED  BY <1>3, <1>4, <1>7, <1>8, <2>1, LinkOrdered, Zenon
<1>10. Len(l) = Len(q) /\ l[i] = x /\ \A j \in 1 .. Len(q) : j # i => l[j] = q[j]
  BY <1>1, <1>3, <1>5, ReplaceFacts
<1>11. Replaced(q, i, x, l)
  BY <1>9, <1>10, Zenon DEF Replaced, u
<1> QED  BY <1>11 DEF l, u

(* The i-th region with what cut left of it, and the rest of the list. *)
Stitched(q, i, w) ==
  /\ Ordered(w) /\ Len(w) >= i - 1
  /\ \A j \in 1 .. i - 1 : w[j] = q[j]

(* cut_and_stitch takes the hole out of one region, and leaves the list in *)
(* order and the regions before it alone.                                  *)
LEMMA CutOrdered ==
  ASSUME NEW q, Ordered(q), NEW i \in 1 .. Len(q), NEW b \in Candidates,
         NEW w, w = cut_and_stitch(q, i, b)
  PROVE  /\ Stitched(q, i, w)
         /\ \A n, f : Has(w, n, f) <=> Has(q, n, f) /\ ~(n \in Bytes(q[i]) /\ n \in Bytes(b))
<1> DEFINE a == q[i]
           c == cut(a, b)
           p == [a EXCEPT !.address = c.b.address, !.size = c.b.size]
           u == Unlink(q, i)
           left == [q EXCEPT ![i] = c.a]
           whole == IF c.b.size # 0 THEN insert(left, p) ELSE left
<1> SUFFICES /\ Stitched(q, i, w)
             /\ \A n, f : Has(w, n, f) <=> Has(q, n, f) /\ ~(n \in Bytes(a) /\ n \in Bytes(b))
  OBVIOUS
<1>1. q \in Seq(Candidates) /\ Len(q) \in Nat /\ \A j \in 1 .. Len(q) : q[j] \in Candidates
  BY DEF Ordered
<1>2. \A j, k \in 1 .. Len(q) : j < k => Apart(q[j], q[k])
  BY DEF Ordered
<1>3. w = IF c.ok THEN IF c.a.size = 0 THEN Unlink(whole, i) ELSE whole ELSE q
  BY DEF cut_and_stitch, Stitch
<1>4. /\ c.ok \in BOOLEAN
      /\ ~c.ok => \A n : ~(n \in Bytes(a) /\ n \in Bytes(b))
      /\ c.ok => /\ c.a \in Region /\ p \in Region
                 /\ c.a.size # 0 => Piece(c.a, a)
                 /\ c.b.size # 0 => /\ Piece(p, a) /\ a.address < p.address
                                    /\ c.a.address = a.address
                 /\ c.a.size # 0 /\ c.b.size # 0 => Apart(c.a, p)
                 /\ \A n, f : Holds(a, n, f) /\ n \notin Bytes(b) <=>
                                \/ c.a.size # 0 /\ Holds(c.a, n, f)
                                \/ c.b.size # 0 /\ Holds(p, n, f)
  <2>1. a \in Candidates
    BY <1>1
  <2>2. c = cut(a, b) /\ p = [a EXCEPT !.address = c.b.address, !.size = c.b.size]
    OBVIOUS
  <2> HIDE DEF a, c, p
  <2>3. PiecesOf(a, b, c, p)
    BY <2>1, <2>2, CutPieces, Zenon
  <2> QED  BY <2>3, Zenon DEF PiecesOf
<1>5. /\ Ordered(u) /\ Len(u) = Len(q) - 1
      /\ \A j \in 1 .. i - 1 : u[j] = q[j]
      /\ \A n, f : Has(q, n, f) <=> Has(u, n, f) \/ Holds(a, n, f)
      /\ \A n, f : Has(u, n, f) => n \notin Bytes(a)
  BY UnlinkOrdered, Zenon
<1>6. CASE ~c.ok
  <2>1. w = q
    BY <1>3, <1>6, Zenon
  <2>2. Len(q) >= i - 1
    BY <1>1
  <2> QED  BY <1>4, <1>6, <2>1, <2>2, Zenon DEF Stitched
<1>7. q \in Seq(Region)
  BY <1>1 DEF Candidates
<1>8. ASSUME c.ok, c.b.size # 0
      PROVE  whole = Link(left, i + 1, p)
  <2>1. Len(left) = Len(q) /\ \A j \in 1 .. Len(q) : left[j] = IF j = i THEN c.a ELSE q[j]
    BY <1>4, <1>7, <1>8, ReplaceFacts
  <2>2. Piece(p, a) /\ a.address < p.address /\ c.a.address = a.address
    BY <1>4, <1>8, Zenon
  <2>3. /\ p \in Candidates /\ p.address + p.size <= a.address + a.size
    BY <2>2 DEF Piece
  <2>4. /\ p.address \in Nat /\ p.size \in Nat /\ p.size > 0
        /\ \A j \in 1 .. Len(q) : q[j].address \in Nat /\ q[j].size \in Nat
    BY <1>1, <2>3, CandidateFacts
  <2> HIDE DEF p, c
  <2>5. ASSUME NEW j \in 1 .. i
        PROVE  ~(p.address < left[j].address)
    <3>1. CASE j = i
      <4>1. left[j] = c.a
        BY <2>1, <3>1
      <4> QED  BY <2>2, <2>4, <4>1
    <3>2. CASE j # i
      <4>1. j \in 1 .. Len(q) /\ j < i
        BY <1>1, <3>2
      <4>2. Apart(q[j], a)
        BY <1>2, <4>1
      <4>3. q[j].address + q[j].size <= a.address
        BY <4>2 DEF Apart
      <4>4. left[j] = q[j]
        BY <2>1, <3>2, <4>1
      <4>5. q[j].address \in Nat /\ q[j].size \in Nat /\ a.address \in Nat
        BY <2>4, <4>1
      <4> HIDE DEF a
      <4>6. ~(p.address < q[j].address)
        BY <2>2, <2>4, <4>3, <4>5
      <4> QED  BY <4>4, <4>6
    <3> QED  BY <3>1, <3>2
  <2>6. ASSUME i + 1 <= Len(q)
        PROVE  p.address < left[i + 1].address
    <3>1. i + 1 \in 1 .. Len(q) /\ i < i + 1 /\ i + 1 # i
      BY <1>1, <2>6
    <3>2. Apart(a, q[i + 1])
      BY <1>2, <3>1
    <3>3. a.address + a.size <= q[i + 1].address
      BY <3>2 DEF Apart
    <3>4. left[i + 1] = q[i + 1]
      BY <2>1, <3>1
    <3>5. q[i + 1].address \in Nat /\ a.address \in Nat /\ a.size \in Nat
      BY <2>4, <3>1
    <3> HIDE DEF a
    <3>6. p.address < q[i + 1].address
      BY <2>3, <2>4, <3>3, <3>5
    <3> QED  BY <3>4, <3>6
  <2>7. i + 1 \in 1 .. Len(left) + 1 /\ Len(left) \in Nat /\ i + 1 - 1 = i
    BY <1>1, <2>1
  <2> HIDE DEF left, a
  <2>8. insert(left, p) = Link(left, i + 1, p)
    <3> DEFINE k == i + 1
    <3>1. /\ k \in 1 .. Len(left) + 1
          /\ \A j \in 1 .. k - 1 : ~(p.address < left[j].address)
          /\ k <= Len(left) => p.address < left[k].address
      BY <2>1, <2>5, <2>6, <2>7
    <3> HIDE DEF k
    <3>2. insert(left, p) = Link(left, k, p)
      BY <2>7, <3>1, InsertFacts
    <3> QED  BY <3>2 DEF k
  <2> QED  BY <1>8, <2>8
<1>9. ASSUME c.ok
      PROVE  /\ Unlink(left, i) = u /\ left = Link(u, i, c.a)
             /\ Unlink(Link(left, i + 1, p), i) = Link(u, i, p)
  <2> DEFINE x == c.a
  <2>1. x \in Region /\ p \in Region
    BY <1>4, <1>9, Zenon
  <2> HIDE DEF x, c, p
  <2>2. Unlink([q EXCEPT ![i] = x], i) = u
    BY <1>7, <2>1, ReplaceUnlink
  <2>3. [q EXCEPT ![i] = x] = Link(u, i, x)
    BY <1>7, <2>1, ReplaceFacts
  <2>4. Unlink(Link([q EXCEPT ![i] = x], i + 1, p), i) = Link(u, i, p)
    BY <1>7, <2>1, ReplaceLinkUnlink
  <2> QED  BY <2>2, <2>3, <2>4, Zenon DEF x
<1>10. /\ a \in Candidates
       /\ \A x : Piece(x, a) => Replaced(q, i, x, Link(u, i, x))
  BY <1>1, PieceOrdered, Zenon
<1>11. ASSUME NEW j \in 1 .. Len(q)
       PROVE  (j < i => Apart(q[j], a)) /\ (i < j => Apart(a, q[j]))
  BY <1>2
<1>12. c.ok => /\ c.b.size = 0 => whole = left
               /\ c.b.size # 0 => whole = Link(left, i + 1, p)
  BY <1>8, Zenon
<1> HIDE DEF a, c, p, u, left, whole
<1>13. ASSUME \A n, f : Has(w, n, f) <=> Has(u, n, f) \/ (Holds(a, n, f) /\ n \notin Bytes(b))
       PROVE  \A n, f : Has(w, n, f) <=> Has(q, n, f) /\ ~(n \in Bytes(a) /\ n \in Bytes(b))
  BY <1>5, <1>13, Zenon DEF Holds
<1>14. ASSUME Len(w) = Len(q), \A j \in 1 .. Len(q) : j # i => w[j] = q[j]
       PROVE  Len(w) >= i - 1 /\ \A j \in 1 .. i - 1 : w[j] = q[j]
  <2>1. Len(q) >= i - 1 /\ \A j \in 1 .. i - 1 : j \in 1 .. Len(q) /\ j # i
    BY <1>1
  <2> QED  BY <1>14, <2>1, Zenon
<1>15. CASE c.ok /\ c.a.size = 0 /\ c.b.size = 0
  <2>1. w = u
    BY <1>3, <1>9, <1>12, <1>15, Zenon
  <2>2. Len(u) >= i - 1
    BY <1>1, <1>5
  <2>3. \A n, f : ~(Holds(a, n, f) /\ n \notin Bytes(b))
    BY <1>4, <1>15, Zenon
  <2> QED  BY <1>5, <1>13, <2>1, <2>2, <2>3, Zenon DEF Stitched
<1>16. CASE c.ok /\ c.a.size # 0 /\ c.b.size = 0
  <2>1. Piece(c.a, a) /\ w = Link(u, i, c.a)
    BY <1>3, <1>4, <1>9, <1>12, <1>16, Zenon
  <2>2. /\ Ordered(w) /\ Len(w) = Len(q)
        /\ \A j \in 1 .. Len(q) : j # i => w[j] = q[j]
        /\ \A n, f : Has(w, n, f) <=> Has(u, n, f) \/ Holds(c.a, n, f)
    <3>1. Replaced(q, i, c.a, w)
      BY <1>10, <2>1
    <3> QED  BY <3>1, Zenon DEF Replaced, u
  <2>3. \A n, f : Holds(a, n, f) /\ n \notin Bytes(b) <=> Holds(c.a, n, f)
    BY <1>4, <1>16, Zenon
  <2> QED  BY <1>13, <1>14, <2>2, <2>3, Zenon DEF Stitched
<1>17. CASE c.ok /\ c.a.size = 0 /\ c.b.size # 0
  <2>1. Piece(p, a) /\ w = Link(u, i, p)
    BY <1>3, <1>4, <1>9, <1>12, <1>17, Zenon
  <2>2. /\ Ordered(w) /\ Len(w) = Len(q)
        /\ \A j \in 1 .. Len(q) : j # i => w[j] = q[j]
        /\ \A n, f : Has(w, n, f) <=> Has(u, n, f) \/ Holds(p, n, f)
    <3>1. Replaced(q, i, p, w)
      BY <1>10, <2>1
    <3> QED  BY <3>1, Zenon DEF Replaced, u
  <2>3. \A n, f : Holds(a, n, f) /\ n \notin Bytes(b) <=> Holds(p, n, f)
    BY <1>4, <1>17, Zenon
  <2> QED  BY <1>13, <1>14, <2>2, <2>3, Zenon DEF Stitched
<1>18. CASE c.ok /\ c.a.size # 0 /\ c.b.size # 0
  <2>1. Piece(p, a) /\ Piece(c.a, a) /\ Apart(c.a, p)
    BY <1>4, <1>18, Zenon
  <2>2. w = Link(left, i + 1, p) /\ left = Link(u, i, c.a)
    BY <1>3, <1>9, <1>12, <1>18, Zenon
  <2>3. /\ Ordered(left) /\ Len(left) = Len(q) /\ left[i] = c.a
        /\ \A j \in 1 .. Len(q) : j # i => left[j] = q[j]
        /\ \A n, f : Has(left, n, f) <=> Has(u, n, f) \/ Holds(c.a, n, f)
    <3>1. Replaced(q, i, c.a, left)
      BY <1>10, <2>1, <2>2
    <3> QED  BY <3>1, Zenon DEF Replaced, u
  <2> DEFINE k == i + 1
  <2>4. ASSUME NEW j \in 1 .. Len(left)
        PROVE  IF j < k THEN Apart(left[j], p) ELSE Apart(p, left[j])
    <3>1. j \in 1 .. Len(q) /\ q[j] \in Candidates
      BY <1>1, <2>3
    <3>2. (Apart(q[j], a) => Apart(q[j], p)) /\ (Apart(a, q[j]) => Apart(p, q[j]))
      BY <1>10, <2>1, <3>1, PieceApart, Zenon
    <3>3. CASE j < i
      <4>1. left[j] = q[j] /\ j < k
        BY <2>3, <3>1, <3>3
      <4> QED  BY <1>11, <3>1, <3>2, <3>3, <4>1, Zenon
    <3>4. CASE j = i
      <4>1. j < k
        BY <3>4
      <4> QED  BY <2>1, <2>3, <3>4, <4>1, Zenon
    <3>5. CASE j > i
      <4>1. left[j] = q[j] /\ ~(j < k) /\ i < j
        BY <2>3, <3>1, <3>5
      <4> QED  BY <1>11, <3>1, <3>2, <4>1, Zenon
    <3> QED  BY <3>3, <3>4, <3>5
  <2>5. k \in 1 .. Len(left) + 1 /\ p \in Candidates
    BY <1>1, <2>1, <2>3 DEF Piece
  <2>6. w = Link(left, k, p) /\ \A j \in 1 .. i - 1 : j < k
    BY <2>2
  <2> HIDE DEF k
  <2>7. /\ Ordered(w) /\ Linked(Candidates, w, left, k, p)
        /\ \A n, f : Has(w, n, f) <=> Has(left, n, f) \/ Holds(p, n, f)
    <3>1. /\ Ordered(Link(left, k, p)) /\ Linked(Candidates, Link(left, k, p), left, k, p)
          /\ \A n, f : Has(Link(left, k, p), n, f) <=> Has(left, n, f) \/ Holds(p, n, f)
      BY <2>3, <2>4, <2>5, LinkOrdered, Zenon
    <3> QED  BY <2>6, <3>1
  <2>8. Len(w) = Len(left) + 1 /\ \A j \in 1 .. Len(left) + 1 : j < k => w[j] = left[j]
    BY <2>7 DEF Linked
  <2>9. Len(w) >= i - 1
    BY <1>1, <2>3, <2>8
  <2>10. ASSUME NEW j \in 1 .. i - 1
         PROVE  w[j] = q[j]
    <3>1. j \in 1 .. Len(q) /\ j # i /\ j \in 1 .. Len(left) + 1
      BY <1>1, <2>3
    <3> QED  BY <2>3, <2>6, <2>8, <3>1, Zenon
  <2>11. \A n, f : Holds(a, n, f) /\ n \notin Bytes(b) <=> Holds(c.a, n, f) \/ Holds(p, n, f)
    BY <1>4, <1>18, Zenon
  <2>12. \A n, f : Has(w, n, f) <=> Has(u, n, f) \/ (Holds(a, n, f) /\ n \notin Bytes(b))
    BY <2>3, <2>7, <2>11, Zenon
  <2> QED  BY <1>13, <2>7, <2>9, <2>10, <2>12, Zenon DEF Stitched
<1> QED  BY <1>4, <1>6, <1>15, <1>16, <1>17, <1>18, Zenon

(* The lists that name_subtract goes through, from the back. *)
Visits(q, b, g) ==
  /\ subtract(q, b) = g[1]
  /\ g[Len(q) + 1] = q
  /\ \A i \in 1 .. Len(q) : g[i] = cut_and_stitch(g[i + 1], i, b)

(* There are such lists: the recursion ends. *)
LEMMA SubtractSteps ==
  ASSUME NEW q, Len(q) \in Nat, NEW b
  PROVE  \E g : Visits(q, b, g)
<1> DEFINE n == Len(q)
           cs(v, i) == cut_and_stitch(v, i, b)
           From(k) == n + 1 - k .. n + 1
           Eq(g, k) == g = [i \in From(k) |-> IF i > n THEN q ELSE cs(g[i + 1], i)]
           Is(g) == g = [i \in 1 .. n + 1 |-> IF i > n THEN q ELSE cs(g[i + 1], i)]
           S == {k \in 0 .. n : \E g : Eq(g, k)}
<1>1. subtract(q, b) = (CHOOSE g : Is(g))[1]
  BY DEF subtract
<1> HIDE DEF cs, n
<1>2. n \in Nat
  BY DEF n
<1>3. 0 \in S
  <2> DEFINE g == [i \in From(0) |-> q]
  <2>1. \A i \in From(0) : i > n
    BY <1>2
  <2>2. Eq(g, 0)
    <3> HIDE DEF From
    <3> QED  BY <2>1, Zenon
  <2>3. 0 \in 0 .. n
    BY <1>2
  <2> QED  BY <2>2, <2>3, Zenon
<1>4. ASSUME NEW k \in 0 .. n - 1, k \in S
      PROVE  k + 1 \in S
  <2>1. PICK g : Eq(g, k)
    BY <1>4, Zenon
  <2> DEFINE h == [i \in From(k + 1) |-> IF i = n - k THEN cs(g[i + 1], i) ELSE g[i]]
  <2>2. ASSUME NEW i \in From(k + 1)
        PROVE  h[i] = IF i > n THEN q ELSE cs(h[i + 1], i)
    <3>1. CASE i = n - k
      <4>1. ~(i > n) /\ i + 1 \in From(k + 1) /\ i + 1 # n - k
        BY <1>2, <3>1
      <4> HIDE DEF From
      <4> QED  BY <3>1, <4>1, Zenon
    <3>2. CASE i # n - k /\ i > n
      <4>1. i \in From(k)
        BY <1>2, <3>2
      <4> HIDE DEF From
      <4> QED  BY <2>1, <3>2, <4>1, Zenon
    <3>3. CASE i # n - k /\ ~(i > n)
      <4>1. i \in From(k) /\ i + 1 \in From(k + 1) /\ i + 1 # n - k
        BY <1>2, <3>3
      <4> HIDE DEF From
      <4> QED  BY <2>1, <3>3, <4>1, Zenon
    <3> QED  BY <3>1, <3>2, <3>3, Zenon
  <2>3. Eq(h, k + 1)
    <3> HIDE DEF From
    <3> QED  BY <2>2, Zenon
  <2> HIDE DEF Eq, h
  <2>4. k + 1 \in 0 .. n
    BY <1>2
  <2> QED  BY <2>3, <2>4, Zenon
<1>5. n \in S
  <2> HIDE DEF S
  <2>1. \A k \in 0 .. n : k \in S
    BY <1>2, <1>3, <1>4, Upwards, Zenon
  <2>2. n \in 0 .. n
    BY <1>2
  <2> QED  BY <2>1, <2>2, Zenon
<1>6. \E g : Is(g)
  <2>1. From(n) = 1 .. n + 1
    BY <1>2
  <2> HIDE DEF From
  <2> QED  BY <1>5, <2>1, Zenon
<1> DEFINE g == CHOOSE h : Is(h)
<1>7. Is(g)
  <2> HIDE DEF Is
  <2> QED  BY <1>6, Zenon
<1>8. g = [i \in 1 .. n + 1 |-> IF i > n THEN q ELSE cs(g[i + 1], i)]
  <2> HIDE DEF g
  <2> QED  BY <1>7
<1>9. subtract(q, b) = g[1]
  BY <1>1, Zenon
<1> HIDE DEF g, Is, S
<1>10. n + 1 \in 1 .. n + 1 /\ n + 1 > n /\ \A i \in 1 .. n : i \in 1 .. n + 1 /\ ~(i > n)
  BY <1>2
<1>11. g[n + 1] = q /\ \A i \in 1 .. n : g[i] = cs(g[i + 1], i)
  BY <1>8, <1>10, Zenon
<1>12. Visits(q, b, g)
  BY <1>9, <1>11, Zenon DEF Visits, n, cs
<1> QED  BY <1>12, Zenon

(* name_subtract keeps a list in order and takes the hole out of it. *)
LEMMA SubtractOrdered ==
  ASSUME NEW q, Ordered(q), NEW b \in Candidates
  PROVE  /\ Ordered(subtract(q, b))
         /\ \A n, f : Has(subtract(q, b), n, f) <=> Has(q, n, f) /\ n \notin Bytes(b)
<1>1. q \in Seq(Candidates) /\ Len(q) \in Nat
  BY DEF Ordered
<1>0. PICK g : Visits(q, b, g)
  BY <1>1, SubtractSteps, Zenon
<1>2. /\ subtract(q, b) = g[1] /\ g[Len(q) + 1] = q
      /\ \A i \in 1 .. Len(q) : g[i] = cut_and_stitch(g[i + 1], i, b)
  BY <1>0 DEF Visits
<1> DEFINE N == Len(q)
           Behind(i, n) == \E j \in i .. N : n \in Bytes(q[j])
           P(i) == /\ Stitched(q, i, g[i])
                   /\ \A n, f : Has(g[i], n, f) <=>
                                  Has(q, n, f) /\ ~(n \in Bytes(b) /\ Behind(i, n))
           S == {k \in 0 .. N : P(N + 1 - k)}
<1>3. P(N + 1)
  <2>1. \A n : ~Behind(N + 1, n)
    BY <1>1
  <2>2. N >= (N + 1) - 1
    BY <1>1
  <2> HIDE DEF Behind
  <2> QED  BY <1>2, <2>1, <2>2, Zenon DEF Stitched
<1>4. ASSUME NEW i \in 1 .. N, P(i + 1)
      PROVE  P(i)
  <2> DEFINE v == g[i + 1]
             w == g[i]
  <2>1. /\ Ordered(v) /\ Len(v) >= (i + 1) - 1 /\ \A j \in 1 .. (i + 1) - 1 : v[j] = q[j]
        /\ \A n, f : Has(v, n, f) <=> Has(q, n, f) /\ ~(n \in Bytes(b) /\ Behind(i + 1, n))
    BY <1>4, Zenon DEF Stitched
  <2>2. w = cut_and_stitch(v, i, b)
    BY <1>2
  <2>3. \A n : Behind(i, n) <=> n \in Bytes(q[i]) \/ Behind(i + 1, n)
    <3>1. \A j : j \in i .. N <=> j = i \/ j \in i + 1 .. N
      BY <1>1
    <3> QED  BY <3>1, Zenon
  <2> HIDE DEF v, w, Behind
  <2>4. i \in 1 .. Len(v) /\ v[i] = q[i] /\ \A j \in 1 .. i - 1 : v[j] = q[j]
    <3>1. Len(v) \in Nat
      BY <2>1 DEF Ordered
    <3>2. i \in 1 .. (i + 1) - 1 /\ \A j \in 1 .. i - 1 : j \in 1 .. (i + 1) - 1
      OBVIOUS
    <3>3. i \in 1 .. Len(v)
      BY <1>1, <2>1, <3>1
    <3> QED  BY <2>1, <3>2, <3>3, Zenon
  <2>5. /\ Stitched(v, i, w)
        /\ \A n, f : Has(w, n, f) <=> Has(v, n, f) /\ ~(n \in Bytes(v[i]) /\ n \in Bytes(b))
    BY <2>1, <2>2, <2>4, CutOrdered, Zenon
  <2>6. Stitched(q, i, w)
    BY <2>4, <2>5, Zenon DEF Stitched
  <2>7. \A n, f : Has(w, n, f) <=> Has(q, n, f) /\ ~(n \in Bytes(b) /\ Behind(i, n))
    BY <2>1, <2>3, <2>4, <2>5, Zenon
  <2> QED  BY <2>6, <2>7, Zenon DEF w
<1> HIDE DEF P
<1>5. P(1)
  <2>1. 0 \in S
    <3>1. 0 \in 0 .. N /\ N + 1 - 0 = N + 1
      BY <1>1
    <3> QED  BY <1>3, <3>1
  <2>2. ASSUME NEW k \in 0 .. N - 1, k \in S
        PROVE  k + 1 \in S
    <3>1. N - k \in 1 .. N /\ (N - k) + 1 = N + 1 - k /\ N + 1 - (k + 1) = N - k /\ k + 1 \in 0 .. N
      BY <1>1
    <3>2. P(N + 1 - k)
      BY <2>2
    <3>3. P(N - k)
      BY <1>4, <3>1, <3>2
    <3> QED  BY <3>1, <3>3
  <2> HIDE DEF S
  <2>3. \A k \in 0 .. N : k \in S
    BY <1>1, <2>1, <2>2, Upwards, Zenon
  <2>4. N \in 0 .. N /\ N + 1 - N = 1
    BY <1>1
  <2>5. P(N + 1 - N)
    BY <2>3, <2>4 DEF S
  <2> QED  BY <2>4, <2>5
<1>6. ASSUME NEW n, NEW f, Has(q, n, f)
      PROVE  Behind(1, n)
  BY <1>6, Zenon DEF Has, Holds
<1> HIDE DEF Behind
<1>7. /\ Ordered(g[1])
      /\ \A n, f : Has(g[1], n, f) <=> Has(q, n, f) /\ ~(n \in Bytes(b) /\ Behind(1, n))
  BY <1>5, Zenon DEF P, Stitched
<1>8. \A n, f : Has(g[1], n, f) <=> Has(q, n, f) /\ n \notin Bytes(b)
  BY <1>6, <1>7, Zenon
<1> QED  BY <1>2, <1>7, <1>8, Zenon

----------------------------------------------------------------------------
(* The last call is what Next makes of its arguments. *)
Answered ==
  \/ op.name \in {"init", "add", "subtract"}
  \/ /\ op.x \in Region /\ op.y \in Region /\ Fits(op.x) /\ Fits(op.y) /\ Room(op.x, op.y)
     /\ \/ op.name = "merge" /\ op.result = merge(op.x, op.y)
        \/ op.name = "cut" /\ op.result = cut(op.x, op.y)

(* Its result is that of the operator. *)
LEMMA AnsweredInv == Spec => []Answered
<1>1. Init => Answered
  BY DEF Init, Answered, Call
<1>2. Answered /\ [Next]_vars => Answered'
  <2> SUFFICES ASSUME Answered, [Next]_vars
               PROVE  Answered'
    OBVIOUS
  <2>1. ASSUME NEW r \in Candidates, region_add(r)
        PROVE  Answered'
    BY <2>1 DEF region_add, Call, Answered
  <2>2. ASSUME NEW r \in Candidates, region_subtract(r)
        PROVE  Answered'
    BY <2>2 DEF region_subtract, Call, Answered
  <2>3. ASSUME NEW x \in Region, NEW y \in Region, Fits(x), Fits(y), Room(x, y),
               region_merge(x, y)
        PROVE  Answered'
    <3>1. op'.name = "merge" /\ op'.x = x /\ op'.y = y /\ op'.result = merge(x, y)
      BY <2>3 DEF region_merge, Call
    <3> QED  BY <2>3, <3>1 DEF Answered
  <2>4. ASSUME NEW x \in Region, NEW y \in Region, Fits(x), Fits(y), Room(x, y),
               region_cut(x, y)
        PROVE  Answered'
    <3>1. op'.name = "cut" /\ op'.x = x /\ op'.y = y /\ op'.result = cut(x, y)
      BY <2>4 DEF region_cut, Call
    <3> QED  BY <2>4, <3>1 DEF Answered
  <2>5. CASE UNCHANGED vars
    BY <2>5 DEF Answered, vars
  <2> QED  BY <2>1, <2>2, <2>3, <2>4, <2>5 DEF Next
<1> QED  BY <1>1, <1>2, PTL DEF Spec

(* "unions a and b if a and b are adjacent or overlap": merge joins two    *)
(* regions exactly when they touch and their flags agree, and the joined   *)
(* region is their union, for every word size.                             *)
THEOREM MergeAlwaysUnion == Spec => []MergeIsUnion
<1>1. Answered => MergeIsUnion
  BY MergeGood DEF Answered, MergeIsUnion
<1> QED  BY <1>1, AnsweredInv, PTL

(* "subtracts b from a": the pieces cut leaves are a without b, in order,  *)
(* for every word size.                                                    *)
THEOREM CutAlwaysDifference == Spec => []CutIsDifference
<1>1. Answered => CutIsDifference
  BY CutGood DEF Answered, CutIsDifference
<1> QED  BY <1>1, AnsweredInv, PTL

----------------------------------------------------------------------------
(* The list.                                                               *)

(* Intervals that do not share a number. *)
LEMMA Separate ==
  ASSUME NEW x \in Nat, NEW y \in Nat, NEW v \in Nat, NEW w \in Nat, y > 0, w > 0,
         \A n : ~(n \in x .. x + y - 1 /\ n \in v .. v + w - 1)
  PROVE  x + y <= v \/ v + w <= x
<1>1. CASE x <= v
  <2>1. v \in v .. v + w - 1
    OBVIOUS
  <2>2. ~(v \in x .. x + y - 1)
    BY <2>1
  <2> QED  BY <1>1, <2>2
<1>2. CASE ~(x <= v)
  <2>1. x \in x .. x + y - 1
    OBVIOUS
  <2>2. ~(x \in v .. v + w - 1)
    BY <2>1
  <2> QED  BY <1>2, <2>2
<1> QED  BY <1>1, <1>2

(* What may be added lies beside every region of the list. *)
LEMMA AddedBeside ==
  ASSUME NEW q, Ordered(q), NEW r \in Candidates, Bytes(r) \cap AllBytes(q) = {},
         NEW i \in 1 .. Len(q)
  PROVE  q[i].address + q[i].size <= r.address \/ r.address + r.size <= q[i].address
<1>1. q[i] \in Candidates
  BY DEF Ordered
<1>2. /\ q[i].address \in Nat /\ q[i].size \in Nat /\ q[i].size > 0
      /\ r.address \in Nat /\ r.size \in Nat /\ r.size > 0
  BY <1>1, CandidateFacts
<1>3. \A n : ~(n \in Bytes(q[i]) /\ n \in Bytes(r))
  BY Zenon DEF AllBytes
<1>4. \A n : ~(/\ n \in q[i].address .. q[i].address + q[i].size - 1
               /\ n \in r.address .. r.address + r.size - 1)
  BY <1>3, Zenon DEF Bytes
<1> QED  BY <1>2, <1>4, Separate

(* A step of the list: it stays in order, and has what it should have. *)
LEMMA ListStep ==
  ASSUME Ordered(map), [Next]_vars
  PROVE  /\ Ordered(map')
         /\ UNCHANGED vars \/
            \A n, f : Has(map', n, f) <=>
                        CASE op'.name = "subtract" -> Has(map, n, f) /\ n \notin Bytes(op'.x)
                          [] op'.name = "add"      -> Has(map, n, f) \/ Holds(op'.x, n, f)
                          [] OTHER                 -> Has(map, n, f)
<1>1. ASSUME NEW r \in Candidates, Bytes(r) \cap AllBytes(map) = {}, region_add(r)
      PROVE  /\ Ordered(map') /\ op'.name = "add" /\ op'.x = r
             /\ \A n, f : Has(map', n, f) <=> Has(map, n, f) \/ Holds(r, n, f)
  <2>1. map' = add(map, r) /\ op'.name = "add" /\ op'.x = r
    BY <1>1 DEF region_add, Call
  <2>2. \A i \in 1 .. Len(map) : \/ map[i].address + map[i].size <= r.address
                                 \/ r.address + r.size <= map[i].address
    BY <1>1, AddedBeside, Zenon
  <2>3. /\ Ordered(add(map, r))
        /\ \A n, f : Has(add(map, r), n, f) <=> Has(map, n, f) \/ Holds(r, n, f)
    BY <2>2, AddOrdered, Zenon
  <2> QED  BY <2>1, <2>3
<1>2. ASSUME NEW r \in Candidates, region_subtract(r)
      PROVE  /\ Ordered(map') /\ op'.name = "subtract" /\ op'.x = r
             /\ \A n, f : Has(map', n, f) <=> Has(map, n, f) /\ n \notin Bytes(r)
  <2>1. map' = subtract(map, r) /\ op'.name = "subtract" /\ op'.x = r
    BY <1>2 DEF region_subtract, Call
  <2>2. /\ Ordered(subtract(map, r))
        /\ \A n, f : Has(subtract(map, r), n, f) <=> Has(map, n, f) /\ n \notin Bytes(r)
    BY SubtractOrdered, Zenon
  <2> QED  BY <2>1, <2>2
<1>3. ASSUME NEW x, NEW y, region_merge(x, y) \/ region_cut(x, y)
      PROVE  map' = map /\ op'.name \notin {"add", "subtract"}
  BY <1>3 DEF region_merge, region_cut, Call
<1>4. CASE UNCHANGED vars
  BY <1>4 DEF vars
<1>5. CASE \E r \in Candidates : Bytes(r) \cap AllBytes(map) = {} /\ region_add(r)
  BY <1>1, <1>5
<1>6. CASE \E r \in Candidates : r.flags = 0 /\ region_subtract(r)
  BY <1>2, <1>6
<1>7. CASE \E x, y \in {r \in Region : Fits(r)} : region_merge(x, y) \/ region_cut(x, y)
  BY <1>3, <1>7
<1> QED  BY <1>4, <1>5, <1>6, <1>7 DEF Next

(* The list is in order. *)
LEMMA OrderedInv == Spec => []Ordered(map)
<1>1. Init => Ordered(map)
  BY DEF Init, Ordered
<1>2. Ordered(map) /\ [Next]_vars => Ordered(map)'
  BY ListStep
<1> QED  BY <1>1, <1>2, PTL DEF Spec

(* Under any sequence of add and subtract the list stays sorted and        *)
(* disjoint, without empty regions and neighbours that should have joined, *)
(* for every word size and any number of regions.                          *)
THEOREM ListAlwaysInOrder == Spec => []ListInOrder
<1>1. Ordered(map) => ListInOrder
  BY OrderedGood DEF ListInOrder
<1> QED  BY <1>1, OrderedInv, PTL

(* allocator_region_add and allocator_range_acquire: the list is the set   *)
(* it stands for; add and subtract are union and difference of sets of     *)
(* addresses, for each of the flags.                                       *)
THEOREM ListAlwaysSet == Spec => ListIsSet
<1> DEFINE A == \A f \in Flags :
                  BytesFlagged(map', f) =
                    CASE op'.name = "subtract" -> BytesFlagged(map, f) \ Bytes(op'.x)
                      [] op'.name = "add" /\ op'.x.flags = f -> BytesFlagged(map, f) \cup Bytes(op'.x)
                      [] OTHER -> BytesFlagged(map, f)
<1>1. Ordered(map) /\ [Next]_vars => [A]_vars
  <2> SUFFICES ASSUME Ordered(map), [Next]_vars, ~UNCHANGED vars, NEW f \in Flags
               PROVE  BytesFlagged(map', f) =
                        CASE op'.name = "subtract" -> BytesFlagged(map, f) \ Bytes(op'.x)
                          [] op'.name = "add" /\ op'.x.flags = f -> BytesFlagged(map, f) \cup Bytes(op'.x)
                          [] OTHER -> BytesFlagged(map, f)
    OBVIOUS
  <2>1. \A n : Has(map', n, f) <=>
                 CASE op'.name = "subtract" -> Has(map, n, f) /\ n \notin Bytes(op'.x)
                   [] op'.name = "add"      -> Has(map, n, f) \/ Holds(op'.x, n, f)
                   [] OTHER                 -> Has(map, n, f)
    BY ListStep
  <2>2. /\ \A n : n \in BytesFlagged(map, f) <=> Has(map, n, f)
        /\ \A n : n \in BytesFlagged(map', f) <=> Has(map', n, f)
    BY BytesHas
  <2>3. CASE op'.name = "subtract"
    BY <2>1, <2>2, <2>3
  <2>4. CASE op'.name = "add" /\ op'.x.flags = f
    BY <2>1, <2>2, <2>4 DEF Holds
  <2>5. CASE op'.name = "add" /\ op'.x.flags # f
    BY <2>1, <2>2, <2>5 DEF Holds
  <2>6. CASE op'.name \notin {"add", "subtract"}
    BY <2>1, <2>2, <2>6
  <2> QED  BY <2>3, <2>4, <2>5, <2>6
<1> QED  BY <1>1, OrderedInv, PTL DEF Spec, ListIsSet

=============================================================================
