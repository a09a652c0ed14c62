----------------------------- MODULE MCDesktop -----------------------------
EXTENDS Desktop

CONSTANTS e1, e2, a, b, t1, t2, d1, d2, w1, w2, x1, x2, p1, p2

Folders == 1 .. 3

(* A folder, one in it and one entry in that; a folder and an entry are still to come. *)
Library ==
  [folder |-> [f \in Folder |-> IF f <= 2 THEN "live" ELSE "absent"],
   parent |-> [f \in Folder |-> IF f = 2 THEN 1 ELSE 0],
   name |-> [f \in Folder |-> a], order |-> [f \in Folder |-> IF f <= 2 THEN 1 ELSE 0],
   tags |-> [e \in Entry |-> IF e = e1 THEN {t1} ELSE {}],
   entry |-> [e \in Entry |-> IF e = e1 THEN "live" ELSE "absent"],
   title |-> [e \in Entry |-> a], member |-> {<<e1, 2>>}]
Libraries == {Library}

Tree     == {"move", "trash", "restore"}
Moves    == {"move", "trash", "undo"}
Copies   == {"copy", "trash", "restore", "purge", "expiry"}
Metadata == {"trash", "restore", "edit", "trashEdit", "undo"}
Members  == {"create", "member", "copy", "undo"}
Failing  == {"failure", "trash", "undo"}
Overlaps == {"overlap", "trash", "restore", "purge", "member"}
Imports  == {"import", "member", "purge", "trash"}
Purges   == {"trash", "purge", "undo"}
Strays   == {"stray", "trash", "restore", "purge", "expiry"}
Labels   == {"create", "label", "undo"}
Tags     == {"tag", "card", "purge", "trash", "undo"}
Retitled == {"edit", "reindex", "undo"}
Sought   == {"trash", "restore", "edit", "undo"}
Tagging  == {}
Still    == {"expiry"} \* of a trash that stays empty
Erring   == {"failure", "trash"}
Commands == {Labels, Tags, Retitled, Tree, Moves, Copies, Metadata, Members, Failing, Overlaps,
             Imports, Purges, Strays, Sought, Tagging}
MCOrg    == Commands \cup {Still, Erring}
MCActs   == [s \in MCOrg |->
               CASE s = Still -> 0 [] s = Erring -> 1
                 [] s \in {Tree, Copies, Imports, Purges, Strays} -> 3 [] OTHER -> 2]
MCScreen == [s \in MCOrg |->
               IF s = Sought THEN {"search", "view"}
               ELSE IF s = Tagging THEN {"search", "view", "tag"} ELSE {}]

Zooming    == {"open", "render", "zoom", "failure"}
Repeated   == {"open", "render", "failure", "again"}
Sidebar    == {"open", "render", "thumbnails", "turn", "switch"}
Finding    == {"open", "find", "turn"}
FindFails  == {"open", "find", "failure", "hasty"}
QuickOpens == {"open", "render", "thumbnails", "quick", "hasty", "zoom"}
Progress   == {"open", "turn"}
Races      == {"open", "turn", "hasty", "race"}
Notes      == {"open", "note", "refresh"}
NotesOver  == {"open", "note", "overlap", "hasty"}
Visits     == {"open", "turn", "quick"}
Shut       == {}
Views == {Zooming, Repeated, Sidebar, Finding, FindFails, QuickOpens, Progress, Races, Notes, NotesOver}
MCViewer == Views \cup {Visits, Shut}
MCViews ==
  [s \in MCViewer |-> CASE s = Progress -> 6 [] s \in {Zooming, Notes} -> 5
                       [] s \in {FindFails, Visits} -> 3 [] OTHER -> 4]

Mirrored  == {"mirror", "again", "cancel"}
NewFolder == {"new", "cancel", "crash"}
NewMirror == {"new", "mirror", "cancel"}
Again     == {"again", "crash"}
Faults    == {"cancel", "crash", "failure", "stuck"}
Stuck     == {"mirror", "cancel", "stuck"}
Unlucky   == {"failure"}
Single    == {"again"}
NoImport  == {}
Cloud     == {Mirrored, NewFolder, NewMirror, Again, Faults, Stuck}
MCRaindrop == Cloud \cup {NoImport, Unlucky, Single}
MCOrders  == [s \in MCRaindrop |->
                CASE s = NoImport -> 0 [] s \in {Unlucky, Single} -> 1
                  [] s \in {Again, Faults} -> 3 [] OTHER -> 2]
MCIn      == {[p \in Pdf |-> IF p = p1 THEN "none" ELSE x] : x \in {"none", "own"}}

(* One part at a time, and an import next to commands, to notes and to reading. *)
MCDesktops ==
  (Commands \X {Shut} \X {NoImport}) \cup ({Still} \X Views \X {NoImport})
  \cup ({Still} \X {Shut} \X Cloud)
  \cup {<<Erring, Shut, Unlucky>>, <<Still, Visits, Single>>}
=============================================================================
