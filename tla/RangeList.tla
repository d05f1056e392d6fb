----------------------------- MODULE RangeList -----------------------------
(***************************************************************************)
(* A list of regions (mm/range.h) under any sequence of add and subtract;  *)
(* and, while it is empty, merge and cut of any two regions.               *)
(***************************************************************************)
EXTENDS Ranges, FiniteSets

VARIABLES
  map,          \* map->regions
  op            \* the last call: its name, its arguments and its result

vars == <<map, op>>

Call(name, x, y, result) == [name |-> name, x |-> x, y |-> y, result |-> result]
None == [address |-> 0, size |-> 0, flags |-> 0]

Init ==
  /\ map = <<>>
  /\ op = Call("init", None, None, None)

(* Address 0 is not handed out: see Room. *)
Candidates == {r \in Region : r.address > 0 /\ r.size > 0 /\ Fits(r)}

region_add(r) ==
  /\ map' = add(map, r)
  /\ op' = Call("add", r, None, None)

region_subtract(r) ==
  /\ map' = subtract(map, r)
  /\ op' = Call("subtract", r, None, None)

region_merge(x, y) ==
  /\ op' = Call("merge", x, y, merge(x, y))
  /\ UNCHANGED map

region_cut(x, y) ==
  /\ op' = Call("cut", x, y, cut(x, y))
  /\ UNCHANGED map

(* The kernel adds only memory that is not on the list: what the firmware  *)
(* reports, and what was taken from the list before.  Regions may be empty *)
(* where they are merged or cut.                                           *)
Next ==
  \/ \E r \in Candidates : Bytes(r) \cap AllBytes(map) = {} /\ region_add(r)
  \/ \E r \in Candidates : r.flags = 0 /\ region_subtract(r)
  \/ /\ op.name = "init"
     /\ \E x, y \in {r \in Region : Fits(r)} :
          Room(x, y) /\ (region_merge(x, y) \/ region_cut(x, y))

Spec == Init /\ [][Next]_vars

----------------------------------------------------------------------------
(* The list stays sorted and disjoint, with no empty region, and no two    *)
(* neighbours with the same flags touch.                                   *)
ListInOrder == WellFormed(map) /\ Coalesced(map)

(* allocator_region_add and allocator_range_acquire: the addresses of each *)
(* kind on the list afterwards are those before, with or without the       *)
(* argument's.                                                             *)
ListIsSet ==
  [][\A f \in Flags :
       BytesFlagged(map', f) =
         CASE op'.name = "subtract"                   -> BytesFlagged(map, f) \ Bytes(op'.x)
           [] op'.name = "add" /\ op'.x.flags = f     -> BytesFlagged(map, f) \cup Bytes(op'.x)
           [] OTHER                                   -> BytesFlagged(map, f)]_vars

(* "unions a and b if a and b are adjacent or overlap": merge reports      *)
(* exactly that for compatible regions, and the result is their union.     *)
MergeIsUnion ==
  op.name = "merge" =>
    /\ op.result.ok <=> op.x.flags = op.y.flags /\ Touch(op.x, op.y)
    /\ Bytes(op.result.region) =
         IF op.result.ok THEN Bytes(op.x) \cup Bytes(op.y) ELSE Bytes(op.x)

(* "subtracts b from a": what cut leaves in a, and in b when it reports an *)
(* overlap, is a without b, in order and without sharing an address.       *)
CutIsDifference ==
  op.name = "cut" =>
    LET rest == IF op.result.ok THEN Bytes(op.result.b) ELSE {}
    IN  /\ Bytes(op.result.a) \cup rest = Bytes(op.x) \ Bytes(op.y)
        /\ \A u \in Bytes(op.result.a), v \in rest : u < v

=============================================================================
