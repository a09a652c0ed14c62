------------------------- MODULE MCLibraryRegistry -------------------------
(* Small instances of LibraryRegistry. *)
EXTENDS LibraryRegistry

CONSTANTS dft, a, n1, n2

MCSlots == [d \in Device |-> IF d = 1 THEN {1, 2} ELSE {1}]

(* Overlapping tasks, on which nothing is renamed; touched files, failed exchanges   *)
(* and restarts; every kind of change, where nothing fails.                            *)
MCOverlaps == {"create", "delete", "default", "overlap"}
MCScenarios ==
  {MCOverlaps,
   {"create", "delete", "touch", "failure", "restart"},
   {"create", "rename", "delete", "select", "restart"}}

MCMaxEdits == [e \in Scenarios |-> IF e = MCOverlaps THEN 2 ELSE 3]

(* The scenario of the revived library. *)
MCRevivals == {{"create", "delete", "restart"}}
MCThree == [e \in Scenarios |-> 3]
=============================================================================
