--------------------------- MODULE RaindropImport ---------------------------
(* Importing PDFs from Raindrop: the import task and the stream that hands on what it *)
(* reports, the file of what a cancelled or interrupted import is to have undone, and *)
(* the task that undoes it, after a cancel or at the next start of the program.       *)
EXTENDS Integers, FiniteSets, SequencesExt

CONSTANTS
  Pdf,               \* the PDFs of the account, each with its path and its contents
  RaindropScenarios, \* sets of what may happen, see RaindropEvents; a behaviour has one
  InLibrary,         \* Pdf -> where the library has it before: a subset of [Pdf -> Place]
  MaxOrders          \* bound: MaxOrders[s] imports, cancels and crashes in a behaviour

(* "new" and "mirror": the import goes to a new folder, or to those of the account; *)
(* "again": imports follow each other; "cancel"; "late": a cancel comes when the    *)
(* result is sent; "crash": the program ends and starts again; "failure": an import *)
(* fails, "stuck": undoing one does; "race": an import begins while an earlier one  *)
(* goes on unheard, or is undone.                                                   *)
RaindropEvents ==
  {"new", "mirror", "again", "cancel", "late", "crash", "failure", "stuck", "race"}

(* A row of the library: none, at the path of the download, or at another path. *)
Place == {"none", "own", "other"}

ASSUME RaindropAssumption ==
  /\ RaindropScenarios \subseteq SUBSET RaindropEvents
  /\ InLibrary \subseteq [Pdf -> Place] /\ MaxOrders \in [RaindropScenarios -> Nat]

VARIABLES
  rows,      \* where the library has each PDF
  files,     \* the PDFs with a file at the path of the download
  folders,   \* the folders made by imports: by the number of the import, 0 for the mirrored one
  under,     \* the folder that the mirrored one is in, or TopLevel
  undo,      \* pending-rollback.json, or Nothing
  bar,       \* raindrop_import_progress, or NoBar
  imports,   \* the imports that go on, and those whose result is not handed on
  said,      \* what each has reported that its stream has not handed on
  mail,      \* messages to the update function
  rollback,  \* the rollback task: its stage and what is left to undo
  cleaners,  \* threads that remove files
  checked,   \* the start-up check was made
  begun,     \* imports begun so far
  settled,   \* PDFs and folders that finished imports brought, and what was there before
  orders,    \* imports, cancels and crashes so far
  occurs     \* what may happen in this behaviour

libraryRows  == <<rows, files, folders, under>>
raindropVars == <<libraryRows, undo, bar, imports, said, mail, rollback, cleaners, checked,
                  begun, settled, orders, occurs>>

Mirror  == 0
TopLevel == -1
Nothing == [entries |-> {}, folders |-> {}]  \* PendingRaindropRollback::is_empty; and no file
NoBar   == [shown |-> FALSE, handle |-> 0, entries |-> {}, folders |-> {}]
NoRollback == [stage |-> "none", entries |-> {}, folders |-> {}, clean |-> {}]

Report  == [entries : SUBSET (Pdf \X BOOLEAN), folders : SUBSET Nat]
Import  == [phase : {"begin", "prepare", "import", "ok", "error"}, heard : BOOLEAN,
            into : SUBSET {"new", "mirror"}, todo : SUBSET Pdf, done : SUBSET Pdf]

Ordered == orders < MaxOrders[occurs] /\ orders' = orders + 1

Without(i) == Restrict(imports, DOMAIN imports \ {i})
With(f, i, v) == [k \in DOMAIN f \cup {i} |-> IF k = i THEN v ELSE f[k]]

FoldersOf(i) == (IF "new" \in imports[i].into THEN {i} ELSE {})
                \cup (IF "mirror" \in imports[i].into THEN {Mirror} ELSE {})

(* Nothing of an earlier import is left. *)
AllQuiet == imports = <<>> /\ mail = <<>> /\ rollback = NoRollback /\ cleaners = {}

Said(i, report) == said' = [said EXCEPT ![i] = Append(@, report)]
-----------------------------------------------------------------------------
(* The import: raindrop_import_task and import_prepared_raindrops. *)

(* The dialog that shows an import covers the others. *)
ImportSelectedRaindropPdfs ==
  /\ checked /\ ~bar.shown /\ ("race" \in occurs \/ AllQuiet)
  /\ ("again" \in occurs \/ begun = 0) /\ Ordered
  /\ begun' = begun + 1
  /\ \E todo \in (SUBSET Pdf) \ {{}}, into \in SUBSET ({"new", "mirror"} \cap occurs) :
       imports' = With(imports, begun', [phase |-> "begin", heard |-> TRUE, into |-> into,
                                         todo |-> todo, done |-> {}])
  /\ said' = With(said, begun', <<>>)
  /\ bar' = [shown |-> TRUE, handle |-> begun', entries |-> {}, folders |-> {}]
  /\ UNCHANGED <<libraryRows, undo, mail, rollback, cleaners, checked, settled, occurs>>

(* A new folder is told of by the stream, and not by the import that it starts. *)
ImportStarts(i) ==
  /\ imports[i].phase = "begin"
  /\ imports' = [imports EXCEPT ![i].phase = "prepare"]
  /\ IF "new" \in imports[i].into
     THEN /\ folders' = folders \cup {i}
          /\ mail' = Append(mail, [kind |-> "folder", import |-> i, entries |-> {},
                                   folders |-> {i}, done |-> {}])
     ELSE UNCHANGED <<folders, mail>>
  /\ UNCHANGED <<rows, files, under, undo, bar, said, rollback, cleaners, checked, begun, settled,
                 orders, occurs>>

(* The new folder cannot be made, or the account cannot be read. *)
ImportFails(i) ==
  /\ "failure" \in occurs
  /\ \/ imports[i].phase = "prepare"
     \/ imports[i].phase = "begin" /\ "new" \in imports[i].into
  /\ imports' = IF imports[i].heard THEN [imports EXCEPT ![i].phase = "error"] ELSE Without(i)
  /\ said' = [said EXCEPT ![i] = <<>>]
  /\ UNCHANGED <<libraryRows, undo, bar, mail, rollback, cleaners, checked, begun, settled,
                 orders, occurs>>

(* The folders of the account are mirrored, below the new folder if there is one, those  *)
(* of earlier imports too; the ones that were not there are reported.                    *)
ImportPrepares(i) ==
  /\ imports[i].phase = "prepare"
  /\ imports' = [imports EXCEPT ![i].phase = "import"]
  /\ LET made == IF "mirror" \in imports[i].into THEN {Mirror} \ folders ELSE {}
     IN folders' = folders \cup made /\ Said(i, [entries |-> {}, folders |-> made])
  /\ under' = IF "mirror" \notin imports[i].into THEN under
              ELSE IF "new" \in imports[i].into THEN i ELSE TopLevel
  /\ UNCHANGED <<rows, files, undo, bar, mail, rollback, cleaners, checked, begun, settled,
                 orders, occurs>>

(* import_raindrop_pdf: the file is saved, `inserted` read, the row written, which is *)
(* found by its contents, and the entry reported. One that fails, or is not indexed,  *)
(* is not.                                                                            *)
ImportPdf(i, p) ==
  /\ imports[i].phase = "import" /\ p \in imports[i].todo
  /\ \E written, reported \in BOOLEAN :
       /\ ("failure" \in occurs \/ reported) /\ (reported => written)
       /\ IF written THEN files' = files \cup {p} /\ rows' = [rows EXCEPT ![p] = "own"]
          ELSE UNCHANGED <<files, rows>>
       /\ imports' = [imports EXCEPT ![i].todo = @ \ {p},
                                     ![i].done = IF reported THEN @ \cup {p} ELSE @]
       /\ Said(i, [entries |-> IF reported THEN {<<p, rows[p] # "own">>} ELSE {},
                   folders |-> {}])
  /\ UNCHANGED <<folders, under, undo, bar, mail, rollback, cleaners, checked, begun, settled,
                 orders, occurs>>

ImportEnds(i) ==
  /\ imports[i].phase = "import" /\ imports[i].todo = {}
  /\ imports' = IF imports[i].heard THEN [imports EXCEPT ![i].phase = "ok"] ELSE Without(i)
  /\ UNCHANGED <<libraryRows, undo, bar, said, mail, rollback, cleaners, checked, begun,
                 settled, orders, occurs>>

(* The stream hands on what the import reports, *)
StreamReports(i) ==
  /\ imports[i].heard /\ said[i] # <<>> /\ said' = [said EXCEPT ![i] = Tail(@)]
  /\ LET report == Head(said[i])
     IN mail' = Append(mail, [kind |-> "progress", import |-> i, entries |-> report.entries,
                              folders |-> report.folders, done |-> {}])
  /\ UNCHANGED <<libraryRows, undo, bar, imports, rollback, cleaners, checked, begun, settled,
                 orders, occurs>>

(* and its result, at once, whatever reports are left. *)
StreamEnds(i) ==
  /\ imports[i].heard /\ imports[i].phase \in {"ok", "error"}
  /\ undo' = IF imports[i].phase = "ok" THEN Nothing ELSE undo
  /\ mail' = Append(mail, [kind |-> imports[i].phase, import |-> i, entries |-> {},
                           folders |-> FoldersOf(i), done |-> imports[i].done])
  /\ imports' = Without(i) /\ said' = [said EXCEPT ![i] = <<>>]
  /\ UNCHANGED <<libraryRows, bar, rollback, cleaners, checked, begun, settled, orders, occurs>>
-----------------------------------------------------------------------------
(* The update function. *)

(* The task that undoes what was told, as it begins. *)
RollbackOf(told) ==
  [stage |-> "entries", entries |-> told.entries, folders |-> told.folders, clean |-> {}]

Hears(kind) == mail # <<>> /\ Head(mail).kind = kind /\ mail' = Tail(mail)

(* Progress that comes when nothing is shown shows it again, without a handle. *)
RaindropImportProgressUpdated ==
  /\ Hears("progress")
  /\ LET known == {e[1] : e \in bar.entries}
         all   == [entries |-> bar.entries \cup {e \in Head(mail).entries : e[1] \notin known},
                   folders |-> bar.folders \cup Head(mail).folders]
     IN /\ bar' = [bar EXCEPT !.shown = TRUE, !.entries = all.entries, !.folders = all.folders]
        /\ undo' = IF all = Nothing THEN undo ELSE all
  /\ UNCHANGED <<libraryRows, imports, said, rollback, cleaners, checked, begun, settled,
                 orders, occurs>>

RaindropImportCreatedFolder ==
  /\ Hears("folder")
  /\ bar' = IF bar.shown THEN [bar EXCEPT !.folders = @ \cup Head(mail).folders] ELSE bar
  /\ UNCHANGED <<libraryRows, undo, imports, said, rollback, cleaners, checked, begun, settled,
                 orders, occurs>>

RaindropImportFinished ==
  /\ Hears("ok") /\ bar' = NoBar /\ undo' = Nothing
  /\ settled' = [pdfs |-> settled.pdfs \cup Head(mail).done,
                 folders |-> settled.folders \cup (Head(mail).folders \cap folders)]
  /\ UNCHANGED <<libraryRows, imports, said, rollback, cleaners, checked, begun, orders, occurs>>

(* LibraryError, of the import: what it brought stays, until the next start. *)
RaindropImportFailed ==
  /\ Hears("error") /\ bar' = NoBar
  /\ UNCHANGED <<libraryRows, undo, imports, said, rollback, cleaners, checked, begun, settled,
                 orders, occurs>>

(* The stream ends where it is; a message it has sent is handled, or not. The import *)
(* that it has started goes on.                                                      *)
CancelRaindropImport ==
  /\ "cancel" \in occurs /\ bar.shown /\ Ordered /\ bar' = NoBar
  /\ LET h == bar.handle
     IN IF h \notin DOMAIN imports THEN UNCHANGED <<imports, said>>
        ELSE /\ imports' = IF imports[h].phase \in {"prepare", "import"}
                           THEN [imports EXCEPT ![h].heard = FALSE] ELSE Without(h)
             /\ said' = [said EXCEPT ![h] = <<>>]
  /\ \E n \in 0 .. Len(mail) :
       /\ \A k \in n + 1 .. Len(mail) : mail[k].import = bar.handle
       /\ "late" \in occurs \/ \A k \in 1 .. n : mail[k].kind # "ok"
       /\ mail' = SubSeq(mail, 1, n)
  /\ LET all == [entries |-> bar.entries, folders |-> bar.folders]
     IN IF all = Nothing THEN UNCHANGED <<undo, rollback>>
        ELSE undo' = all /\ rollback' = RollbackOf(all)
  /\ UNCHANGED <<libraryRows, cleaners, checked, begun, settled, occurs>>

RaindropImportRollbackFinished ==
  /\ Hears("undone") /\ bar' = NoBar
  /\ UNCHANGED <<libraryRows, undo, imports, said, rollback, cleaners, checked, begun, settled,
                 orders, occurs>>
-----------------------------------------------------------------------------
(* Undoing: rollback_pending_raindrop_import_task. *)

(* Mutant: every entry of the import is deleted. *)
InsertedAny(entries) == {e[1] : e \in entries}

Inserted(entries) == {e[1] : e \in {x \in entries : x[2]}}

RollbackEntries ==
  /\ rollback.stage = "entries"
  /\ \/ /\ rows' = [p \in Pdf |-> IF p \in Inserted(rollback.entries) THEN "none" ELSE rows[p]]
        /\ rollback' = [rollback EXCEPT !.stage = "folders", !.entries = {},
                                        !.clean = {e[1] : e \in rollback.entries}]
     \/ /\ "stuck" \in occurs /\ Inserted(rollback.entries) # {} /\ UNCHANGED rows
        /\ rollback' = [rollback EXCEPT !.stage = "folders"]
  /\ undo' = [entries |-> rollback.entries, folders |-> rollback.folders]
  /\ UNCHANGED <<files, folders, under, bar, imports, said, mail, cleaners, checked, begun, settled,
                 orders, occurs>>

(* delete_folder takes what is below the folder. *)
FoldersLeft(gone) == folders \ (gone \cup (IF under \in gone THEN {Mirror} ELSE {}))

RollbackFolders ==
  /\ rollback.stage = "folders"
  /\ \E kept \in IF "stuck" \in occurs THEN SUBSET rollback.folders ELSE {{}} :
       /\ folders' = FoldersLeft(rollback.folders \ kept)
       /\ rollback' = [rollback EXCEPT !.stage = "end", !.folders = kept]
  /\ UNCHANGED <<rows, files, under, undo, bar, imports, said, mail, cleaners, checked, begun,
                 settled, orders, occurs>>

RollbackEnds ==
  /\ rollback.stage = "end" /\ rollback' = NoRollback
  /\ LET left == [entries |-> rollback.entries, folders |-> rollback.folders]
     IN /\ undo' = IF left # Nothing THEN left ELSE IF rollback.clean = {} THEN Nothing ELSE undo
        /\ cleaners' = IF rollback.clean = {} THEN cleaners
                       ELSE cleaners \cup {[pdfs |-> rollback.clean, clear |-> left = Nothing]}
  /\ mail' = Append(mail, [kind |-> "undone", import |-> 0, entries |-> {}, folders |-> {},
                           done |-> {}])
  /\ UNCHANGED <<libraryRows, bar, imports, said, checked, begun, settled, orders, occurs>>

(* cleanup_raindrop_import_files, on a thread of its own. *)
CleanUp(c) ==
  /\ cleaners' = cleaners \ {c} /\ files' = files \ c.pdfs
  /\ undo' = IF c.clear THEN Nothing ELSE undo
  /\ UNCHANGED <<rows, folders, under, bar, imports, said, mail, rollback, checked, begun, settled,
                 orders, occurs>>

Crash ==
  /\ "crash" \in occurs /\ checked /\ Ordered
  /\ checked' = FALSE /\ bar' = NoBar /\ imports' = <<>> /\ said' = <<>> /\ mail' = <<>>
  /\ rollback' = NoRollback /\ cleaners' = {}
  /\ UNCHANGED <<libraryRows, undo, begun, settled, occurs>>

(* PendingRaindropRollbackChecked, at the start of the program. *)
PendingRaindropRollbackChecked ==
  /\ ~checked /\ checked' = TRUE
  /\ rollback' = IF undo = Nothing THEN rollback ELSE RollbackOf(undo)
  /\ UNCHANGED <<libraryRows, undo, bar, imports, said, mail, cleaners, begun, settled, orders,
                 occurs>>
-----------------------------------------------------------------------------
RaindropInit ==
  /\ rows \in InLibrary /\ files = {p \in Pdf : rows[p] = "own"} /\ folders = {}
  /\ under = TopLevel
  /\ undo = Nothing /\ bar = NoBar /\ imports = <<>> /\ said = <<>> /\ mail = <<>>
  /\ rollback = NoRollback /\ cleaners = {} /\ checked = TRUE /\ begun = 0 /\ orders = 0
  /\ settled = [pdfs |-> {p \in Pdf : rows[p] # "none"}, folders |-> {}]
  /\ occurs \in RaindropScenarios

RaindropTask ==
  \/ \E i \in DOMAIN imports :
       \/ ImportStarts(i) \/ ImportFails(i) \/ ImportPrepares(i) \/ ImportEnds(i)
       \/ \E p \in Pdf : ImportPdf(i, p)
       \/ StreamReports(i) \/ StreamEnds(i)
  \/ RollbackEntries \/ RollbackFolders \/ RollbackEnds
  \/ \E c \in cleaners : CleanUp(c)

RaindropMessage ==
  \/ RaindropImportProgressUpdated \/ RaindropImportCreatedFolder \/ RaindropImportFinished
  \/ RaindropImportFailed \/ RaindropImportRollbackFinished
  \/ PendingRaindropRollbackChecked

RaindropUser == ImportSelectedRaindropPdfs \/ CancelRaindropImport \/ Crash

RaindropNext == RaindropUser \/ RaindropTask \/ RaindropMessage

(* Tasks and threads go on, and the update function takes what comes. *)
RaindropFairness == WF_raindropVars(RaindropTask \/ RaindropMessage)

RaindropSpec == RaindropInit /\ [][RaindropNext]_raindropVars /\ RaindropFairness
-----------------------------------------------------------------------------
(* Types: of the library, of what is shown and what is to be undone, and of the tasks. *)
RaindropTypeOK ==
  /\ rows \in [Pdf -> Place] /\ files \subseteq Pdf /\ folders \subseteq 0 .. begun
  /\ under \in {TopLevel} \cup 1 .. begun
  /\ undo \in Report
  /\ bar \in [shown : BOOLEAN, handle : 0 .. begun, entries : SUBSET (Pdf \X BOOLEAN),
              folders : SUBSET (0 .. begun)]
  /\ DOMAIN imports \subseteq 1 .. begun /\ \A i \in DOMAIN imports : imports[i] \in Import
  /\ \A i \in DOMAIN imports : said[i] \in Seq(Report)
  /\ \A k \in DOMAIN mail : mail[k].kind \in {"progress", "folder", "ok", "error", "undone"}
  /\ rollback.stage \in {"none", "entries", "folders", "end"} /\ rollback.clean \subseteq Pdf
  /\ checked \in BOOLEAN /\ orders \in 0 .. MaxOrders[occurs]

(* One import after another, of PDFs that the library has at the path of the download. *)
ImportsInTurn ==
  /\ occurs \cap {"race", "late"} = {} /\ ~({"new", "mirror", "again"} \subseteq occurs)
  /\ \A library \in InLibrary : \A p \in Pdf : library[p] # "other"

(* What the library had, and what an import has brought that the user was told has    *)
(* finished, is not undone: neither when a later import of the same PDF is cancelled, *)
(* nor at the next start, whatever reports of it came late and were saved again. It   *)
(* does not hold where an import begins beside another, where a cancel comes after    *)
(* the result, where a later import has moved the mirrored folder into its own, or    *)
(* where the library has the PDF elsewhere: its row is then taken for a new one.      *)
SettledStays == ImportsInTurn =>
  /\ \A p \in settled.pdfs : rows[p] # "none"
  /\ settled.folders \subseteq folders

(* A row that an interrupted import brought, and that is to be undone when the       *)
(* program starts, goes, and the file that says so is cleared, unless undoing fails. *)
InterruptedUndone ==
  \A p \in Pdf :
    (~checked /\ "stuck" \notin occurs /\ <<p, TRUE>> \in undo.entries)
      ~> (rows[p] = "none" /\ undo = Nothing)
=============================================================================
