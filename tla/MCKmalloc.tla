------------------------------ MODULE MCKmalloc ------------------------------
(* Instances of Kmalloc for model checking. *)
EXTENDS Kmalloc

(* The first page of memory, and three frames with some memory before and  *)
(* after them.                                                             *)
RamLow == << [addr |-> 0, len |-> 8], [addr |-> 18, len |-> 32] >>

(* Low memory, whose first page is not used, then memory from the kernel's *)
(* image on.                                                               *)
RamAll == << [addr |-> 0, len |-> 16], [addr |-> 24, len |-> 24] >>

(* A table within a page, and one that lies in two. *)
TwoTables == { [address |-> 52, len |-> 3], [address |-> 54, len |-> 6] }
=============================================================================
