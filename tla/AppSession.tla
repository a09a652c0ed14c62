------------------------------ MODULE AppSession ------------------------------
(* Stopping the app and starting it again: what is shown is kept in session.json, and is  *)
(* restored while the library and the document that was open are still being read, by     *)
(* messages that come in any order and while the user goes on. The user is signed in.       *)
EXTENDS Integers, FiniteSets, Sequences

CONSTANTS
  Path,         \* PDFs, by their paths
  Listable,     \* those that can have a row in the library: their paths stand for its id
  Rack,         \* folders of the library
  NoRack,       \* ... and none of them: selected_folder is None
  Leaf,         \* pages of a PDF; 0 is the first
  Nowhere,      \* no path, no row, no document, no session
  Garbled,      \* a file that was not written to its end
  Days,         \* scenarios: sets of what may happen
  MaxActs,      \* bound, of a scenario: what is done
  MaxWrites     \* bound: sessions that wait to be written

(* "file": the app is started with a file; "rows", "folders": they go, and rows come back, *)
(* by the sync, say; "lost": a PDF cannot be opened; "stop"; "read", "browse": the user.   *)
SessionEvents == {"file", "rows", "folders", "lost", "stop", "read", "browse"}

Documents   == [path : Path \cup {Nowhere}, row : Listable \cup {Nowhere}, leaf : Leaf]
AppSessions == [mode : {"library", "viewer"}, folder : Rack \cup {NoRack}, path : Path \cup {Nowhere},
                row : Listable \cup {Nowhere}, leaf : Leaf]

ASSUME SessionAssumption ==
  /\ Listable \subseteq Path /\ NoRack \notin Rack /\ 0 \in Leaf
  /\ {Nowhere, Garbled} \cap (Path \cup Documents \cup AppSessions) = {}
  /\ MaxWrites \in Nat
  /\ \A s \in Days : s \subseteq SessionEvents /\ MaxActs[s] \in Nat

VARIABLES
  day,       \* what may happen in this behaviour
  acts,      \* how often it did
  screen,    \* AppMode: "library", "viewer"; "off" when the app does not run
  open,      \* the document: Nowhere, or [path, row, leaf]
  rack,      \* selected_folder
  rowsShown, \* library_entries
  racks,     \* library_folders
  stock,     \* [rows, racks] in the database
  there,     \* PDFs that can be opened
  pending,   \* pending_session_restore
  saved,     \* session.json: Nowhere, Garbled or a session
  writes,    \* of sessions to it: [of, begun]; assumed to be done in their order
  asked,     \* documents that are being opened: [path, row]
  due,       \* a save was put off until scrolling stops
  used,      \* the user did something since the app was started
  seen       \* what was shown last, if all was done and a session written; Nowhere otherwise,
             \* or when a document could not be opened

worldVars == <<rack, rowsShown, racks, stock, there>>
sessionVars == <<day, acts, screen, open, worldVars, pending, saved, writes, asked, due, used, seen>>

Up == screen # "off"
Occurs(event) == event \in day /\ acts < MaxActs[day] /\ acts' = acts + 1
-----------------------------------------------------------------------------
(* snapshot_session, of which what is told apart is the screen, the document and the folder. *)
SessionOf(scr, doc, folder) ==
  [mode |-> scr, folder |-> folder,
   path |-> IF doc = Nowhere THEN Nowhere ELSE doc.path,
   row  |-> IF doc = Nowhere THEN Nowhere ELSE doc.row,
   leaf |-> IF doc = Nowhere THEN 0 ELSE doc.leaf]
Snapshot == SessionOf(screen, open, rack)

(* save_app_session_task *)
Save(sessions) ==
  /\ Len(writes) + Len(sessions) <= MaxWrites
  /\ writes' = writes \o [k \in DOMAIN sessions |-> [of |-> sessions[k], begun |-> FALSE]]
SaveNow == Save(<<Snapshot'>>)

(* std::fs::write: the file is emptied, then filled. *)
WriteBegins ==
  /\ writes # <<>> /\ ~Head(writes).begun
  /\ writes' = [writes EXCEPT ![1].begun = TRUE] /\ saved' = Garbled
  /\ UNCHANGED <<day, acts, screen, open, worldVars, pending, asked, due, used, seen>>

WriteEnds ==
  /\ writes # <<>> /\ Head(writes).begun
  /\ writes' = Tail(writes) /\ saved' = Head(writes).of
  /\ UNCHANGED <<day, acts, screen, open, worldVars, pending, asked, due, used, seen>>

(* SessionSaveSettled *)
SaveSettles ==
  /\ due /\ due' = FALSE /\ Save(<<Snapshot>>)
  /\ UNCHANGED <<day, acts, screen, open, worldVars, pending, saved, asked, used, seen>>
-----------------------------------------------------------------------------
Read(f) == f \notin {Nowhere, Garbled}
ValidFolder(f, known) == IF f \in known THEN f ELSE NoRack

(* with_active_library_id *)
LibraryRead == rowsShown' = stock.rows /\ racks' = stock.racks

(* with_initial_file_and_session: rows and folders are read, the library of the session is   *)
(* shown, and its document, or the file that was asked for, is being opened.               *)
Launch(path) ==
  /\ ~Up /\ LibraryRead
  /\ IF path = Nowhere THEN UNCHANGED acts ELSE Occurs("file")
  /\ pending' = IF path = Nowhere /\ Read(saved) THEN saved ELSE Nowhere
  /\ IF pending' = Nowhere
     THEN /\ rack' \in {NoRack} \cup stock.racks     \* what the preferences say
          /\ screen' = (IF path = Nowhere THEN "library" ELSE "viewer")
          /\ asked' = {[path |-> p, row |-> Nowhere] : p \in {path} \ {Nowhere}}
     ELSE /\ rack' = ValidFolder(pending'.folder, stock.racks) /\ screen' = pending'.mode
          /\ asked' = (IF screen' # "viewer" THEN {}
                       ELSE {[path |-> p, row |-> Nowhere] : p \in {pending'.path} \ {Nowhere}})
  /\ open' = Nowhere /\ due' = FALSE /\ used' = (path # Nowhere)
  /\ UNCHANGED <<day, stock, there, saved, writes, seen>>

(* The app has done everything that it was asked for. *)
AllDone == Up /\ writes = <<>> /\ asked = {} /\ ~due

Quits ==
  /\ Up /\ Occurs("stop") /\ screen' = "off" /\ open' = Nowhere /\ pending' = Nowhere
  /\ seen' = (IF AllDone /\ Read(saved) /\ (screen = "viewer" => open # Nowhere) THEN Snapshot
              ELSE Nowhere)
  /\ writes' = <<>> /\ asked' = {} /\ due' = FALSE
  /\ UNCHANGED <<day, worldVars, saved, used>>
-----------------------------------------------------------------------------
(* Documents are opened. *)

(* bind_viewer_entry_id_from_context: the row that the session has for the path, or the    *)
(* library.                                                                                *)
RowAt(p, known) == IF p \in known THEN p ELSE Nowhere
Bound(p) ==
  IF pending # Nowhere /\ p # Nowhere /\ pending.path = p /\ pending.row # Nowhere THEN pending.row
  ELSE RowAt(p, rowsShown)

(* Mutant: only the row is compared. *)
MatchesByRow(doc, session) == session.row # Nowhere /\ doc.row = session.row

(* document_matches_session *)
MatchesSession(doc, session) ==
  \/ session.row # Nowhere /\ doc.row = session.row
  \/ session.path # Nowhere /\ doc.path = session.path

(* apply_pending_session_to_open_document *)
Fits(doc) == pending # Nowhere /\ MatchesSession(doc, pending)
Restored(doc) == [doc EXCEPT !.row = IF @ = Nowhere THEN pending.row ELSE @, !.leaf = pending.leaf]

(* open_document_with_path *)
Opens(p) ==
  LET doc == [path |-> p, row |-> Bound(p), leaf |-> 0]
  IN IF Fits(doc) THEN [doc |-> Restored(doc), screen |-> pending.mode, left |-> Nowhere]
     ELSE [doc |-> doc, screen |-> "viewer", left |-> pending]

(* DocumentOpened *)
DocumentOpened(t) ==
  /\ t \in asked /\ t.row = Nowhere /\ t.path \in there /\ asked' = asked \ {t}
  /\ open' = Opens(t.path).doc /\ screen' = Opens(t.path).screen /\ pending' = Opens(t.path).left
  /\ UNCHANGED <<day, acts, worldVars, saved, due, used, seen>> /\ SaveNow

(* LibraryDocumentOpened: the row is what was asked for, the page what the row says. *)
LibraryDocumentOpened(t) ==
  /\ t \in asked /\ t.row # Nowhere /\ t.path \in there /\ asked' = asked \ {t}
  /\ LET o == Opens(RowAt(t.row, rowsShown))
     IN /\ \E leaf \in Leaf : open' = [o.doc EXCEPT !.row = t.row, !.leaf = leaf]
        /\ screen' = o.screen /\ pending' = o.left
        /\ UNCHANGED <<day, acts, worldVars, saved, due, used, seen>>
        /\ IF o.left = pending THEN SaveNow ELSE Save(<<SessionOf(o.screen, o.doc, rack), Snapshot'>>)

DocumentError(t) ==
  /\ t \in asked /\ t.path \notin there /\ asked' = asked \ {t} /\ seen' = Nowhere
  /\ UNCHANGED <<day, acts, screen, open, worldVars, pending, saved, writes, due, used>>
-----------------------------------------------------------------------------
(* The library is read again: after what the user does, and by the sync. *)

(* apply_pending_session_to_loaded_library: what the document is restored from is applied   *)
(* once more. With a row only, the row is opened; with a document that is open, that is     *)
(* restored; with one that is still being opened, or cannot be, the session is kept.        *)
Reopens  == pending.mode = "viewer" /\ pending.path = Nowhere /\ pending.row \in stock.rows
Hydrates == pending.mode = "viewer" /\ pending.path # Nowhere /\ open # Nowhere /\ MatchesSession(open, pending)
Remains  == Reopens \/ (pending.mode = "viewer" /\ pending.path # Nowhere)

(* ensure_open_document_annotations_loaded: the row of the document is looked for. *)
Binds(doc) ==
  IF doc = Nowhere \/ doc.row # Nowhere THEN doc ELSE [doc EXCEPT !.row = RowAt(doc.path, stock.rows)]

(* LibraryLoaded *)
LibraryLoaded ==
  /\ Up /\ rowsShown' = stock.rows
  /\ IF pending = Nowhere
     THEN open' = Binds(open) /\ UNCHANGED <<screen, rack, pending, writes, asked>>
     ELSE /\ screen' = pending.mode /\ rack' = ValidFolder(pending.folder, racks)
          /\ open' = Binds(IF Hydrates THEN Restored(open) ELSE open)
          /\ pending' = IF Remains /\ ~Hydrates THEN pending ELSE Nowhere
          /\ asked' = asked \cup {[path |-> p, row |-> p] : p \in IF Reopens THEN {pending.row} ELSE {}}
          /\ IF Reopens THEN UNCHANGED writes
             ELSE Save(<<SessionOf(screen', IF Hydrates THEN Restored(open) ELSE open, rack')>>)
  /\ UNCHANGED <<day, acts, racks, stock, there, saved, due, used, seen>>

(* LibraryFoldersLoaded *)
LibraryFoldersLoaded ==
  /\ Up /\ racks' = stock.racks /\ rack' = ValidFolder(rack, stock.racks)
  /\ UNCHANGED <<day, acts, screen, open, rowsShown, stock, there, pending, saved, writes, asked, due, used, seen>>

(* What others do: a row goes or comes back, a folder goes, a file goes or comes back. *)
WorldChanges ==
  /\ \/ /\ Occurs("rows") /\ UNCHANGED there
        /\ \E p \in Listable : stock' = [stock EXCEPT !.rows = IF p \in @ THEN @ \ {p} ELSE @ \cup {p}]
     \/ /\ Occurs("folders") /\ UNCHANGED there
        /\ \E f \in stock.racks : stock' = [stock EXCEPT !.racks = @ \ {f}]
     \/ /\ Occurs("lost") /\ UNCHANGED stock
        /\ \E p \in Path : there' = IF p \in there THEN there \ {p} ELSE there \cup {p}
  /\ UNCHANGED <<day, screen, open, rack, rowsShown, racks, pending, saved, writes, asked, due, used, seen>>
-----------------------------------------------------------------------------
(* What the user does. *)
User(event) == Up /\ Occurs(event) /\ used' = TRUE

(* open_library_document_task, open_document_task *)
OpenTask(path, row) == asked' = asked \cup {[path |-> path, row |-> row]}

(* OpenLibraryEntry, FileSelected *)
Asks ==
  /\ User("read")
  /\ \E p \in Path : (p \in rowsShown /\ screen = "library" /\ OpenTask(p, p)) \/ OpenTask(p, Nowhere)
  /\ UNCHANGED <<day, screen, open, worldVars, pending, saved, writes, due, seen>>

(* ViewportChanged: the save is put off. *)
TurnsPage ==
  /\ screen = "viewer" /\ open # Nowhere /\ User("read")
  /\ \E leaf \in Leaf \ {open.leaf} : open' = [open EXCEPT !.leaf = leaf]
  /\ due' = TRUE
  /\ UNCHANGED <<day, screen, worldVars, pending, saved, writes, asked, seen>>

(* Mutant: what is still to be restored stays. *)
ReturnsOnly == screen' = "library" /\ UNCHANGED pending

(* return_to_library *)
Returns == screen' = "library" /\ pending' = Nowhere

BackToLibrary ==
  /\ screen = "viewer" /\ User("read") /\ Returns
  /\ UNCHANGED <<day, open, worldVars, saved, asked, due, seen>> /\ SaveNow

(* BackToViewer: to a document that is open. *)
BackToViewer ==
  /\ screen = "library" /\ User("read")
  /\ screen' = IF open = Nowhere THEN screen ELSE "viewer"
  /\ UNCHANGED <<day, open, worldVars, pending, saved, asked, due, seen>> /\ SaveNow

(* FolderSelected *)
FolderSelected ==
  /\ screen = "library" /\ User("browse")
  /\ \E f \in ({NoRack} \cup racks) \ {rack} : rack' = f
  /\ UNCHANGED <<day, screen, open, rowsShown, racks, stock, there, pending, saved, asked, due, seen>> /\ SaveNow
-----------------------------------------------------------------------------
SessionInit ==
  /\ day \in Days /\ acts = 0 /\ screen = "off" /\ open = Nowhere
  /\ rack = NoRack /\ rowsShown = {} /\ racks = {}
  /\ stock = [rows |-> Listable, racks |-> Rack] /\ there = Path
  /\ pending = Nowhere /\ saved = Nowhere /\ writes = <<>> /\ asked = {}
  /\ due = FALSE /\ used = FALSE /\ seen = Nowhere

SessionNext ==
  \/ WriteBegins \/ WriteEnds \/ SaveSettles \/ Quits \/ LibraryLoaded \/ LibraryFoldersLoaded
  \/ \E p \in Path \cup {Nowhere} : Launch(p)
  \/ \E t \in asked : DocumentOpened(t) \/ LibraryDocumentOpened(t) \/ DocumentError(t)
  \/ WorldChanges \/ Asks \/ TurnsPage \/ BackToLibrary \/ BackToViewer \/ FolderSelected

SessionSpec == SessionInit /\ [][SessionNext]_sessionVars
-----------------------------------------------------------------------------
SessionTypeOK ==
  /\ day \in Days /\ acts \in 0 .. MaxActs[day] /\ screen \in {"off", "library", "viewer"}
  /\ open \in Documents \cup {Nowhere} /\ pending \in AppSessions \cup {Nowhere}
  /\ rack \in Rack \cup {NoRack} /\ rowsShown \subseteq Listable /\ racks \subseteq Rack
  /\ stock \in [rows : SUBSET Listable, racks : SUBSET Rack] /\ there \subseteq Path
  /\ saved \in AppSessions \cup {Nowhere, Garbled}
  /\ writes \in Seq([of : AppSessions, begun : BOOLEAN]) /\ Len(writes) <= MaxWrites
  /\ \A k \in DOMAIN writes : writes[k].begun => k = 1 /\ saved = Garbled
  /\ asked \subseteq [path : Path, row : Listable \cup {Nowhere}]
  /\ due \in BOOLEAN /\ used \in BOOLEAN /\ seen \in AppSessions \cup {Nowhere}

(* What was shown when the app had done everything and was stopped is shown again once it   *)
(* has been started and has done everything, if the user did nothing meanwhile: screen,     *)
(* folder, document and page, as far as the folder is there, unless the document could not be   *)
(* opened: apply_library_session, document_matches_session and who calls them.               *)
SeenAgain == (AllDone /\ ~used /\ seen # Nowhere) =>
  /\ screen = seen.mode
  /\ rack = ValidFolder(seen.folder, racks)
  /\ (screen = "viewer" /\ seen.path # Nowhere) =>
       open # Nowhere /\ open.path = seen.path /\ open.leaf = seen.leaf

(* Nobody is taken back to a document by the library being loaded: return_to_library. *)
NotBounced == [][(screen = "library" /\ screen' = "viewer") => asked' # asked \/ BackToViewer]_sessionVars
SessionKept == []SeenAgain /\ NotBounced
=============================================================================
