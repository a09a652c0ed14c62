----------------------------- MODULE MCCrdtSync -----------------------------
(* Small instances of CrdtSync. *)
EXTENDS CrdtSync

CONSTANTS e1, e2, m1, m2

MCAnyImporter == [d \in Device |-> Entry]
(* The same PDF is not imported by two devices. *)
MCOneImporter == [d \in Device |-> IF d = 1 THEN Entry ELSE {}]
MCSplitImporter == [d \in Device |-> IF d = 1 THEN {e1} ELSE {e2}]

(* Edits that race passes: with passes that stop, and with transfers that fail.      *)
MCSafetyScenarios ==
  {{"import", "edit", "delete", "interrupt", "midpass"},
   {"import", "trash", "early_trash", "blobs", "midpass"}}

(* Nothing fails: entries are deleted, or trashed and restored.                      *)
MCQuietScenarios == {{"import", "edit", "delete"}, {"import", "edit", "trash"}}
=============================================================================
