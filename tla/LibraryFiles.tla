----------------------------- MODULE LibraryFiles -----------------------------
(* The library and the files on drive: folders are imported and from then on watched, the *)
(* rows of PDFs follow what happens to their files, a PDF that is missing is linked to    *)
(* another file, and PDFs are exported, one by one or in an archive.                      *)
EXTENDS Integers, FiniteSets, Sequences, SequencesExt, Functions

CONSTANTS
  Book,         \* PDFs by what they hold: an EntryId is the hash of a file
  Junk,         \* what a file holds that is no PDF, or not all of one
  Archive,      \* ... or an export
  Sheet,        \* ... or metadata of an export
  Blank,        \* nothing
  RootDir,      \* directories that can be imported; a directory is a sequence of names
  ShelfOf,      \* of a PDF: the names of its folders, sanitize_filename
  TitleOf,      \* of a PDF: the file name made of its title
  Starts,       \* disks: name -> (place -> what the file holds)
  Errands,      \* scenarios: <<start, events, dialogs>>
  MaxErrands,   \* bound, of the events: what users and programs do
  MaxCopies     \* numbers for a name; 9999 in the code

(* "add", "save", "remove", "rename", "across": what happens to files; "folder", "pdf",   *)
(* "relink", "export": what the user asks for; "other": a PDF is linked to a file that     *)
(* holds something else; "fault": the search index is not written.                          *)
FileEvents ==
  {"add", "save", "remove", "rename", "across", "folder", "pdf", "relink", "other", "export", "fault"}

(* A place for a file: a directory and a name; the numbers after a name: "name (2).pdf".   *)
Spot(dir, name) == [dir |-> dir, name |-> name]
Unfiled == <<"Unfiled">>

ASSUME FilesAssumption ==
  /\ {Junk, Archive, Sheet, Blank} \cap Book = {} /\ Blank \notin {Junk, Archive, Sheet}
  /\ MaxCopies \in Nat /\ MaxErrands \in [{e[2] : e \in Errands} -> Nat]
  /\ \A e \in Errands : e[1] \in DOMAIN Starts /\ e[2] \subseteq FileEvents
  /\ \A s \in DOMAIN Starts : /\ IsFiniteSet(DOMAIN Starts[s])
                             /\ Starts[s] \in [DOMAIN Starts[s] -> Book \cup {Junk}]

VARIABLES
  errand,    \* what may happen in this behaviour
  drive,      \* place -> what its file holds, for the files there are
  entries,   \* id -> [at, missing], for the rows there are
  pages,     \* id -> what the search index has of it
  wanted,    \* watch_directories
  watching,  \* the directories of the subscription
  events,    \* of the watcher, not yet handled
  tasks,     \* on their way: [kind, dir, todo, id], see NewTask
  reported,  \* PDFs that an error was shown for
  export,    \* see NoExport
  errands    \* done so far

fileVars == <<errand, drive, entries, pages, wanted, watching, events, tasks, reported, export, errands>>

Happens(event) == event \in errand[2] /\ errands < MaxErrands[errand[2]] /\ errands' = errands + 1
IsBelow(dir, root) == IsPrefix(root, dir)
Watched(p) == \E r \in watching : IsBelow(p.dir, r)
Files == DOMAIN drive
Without(f, S) == Restrict(f, DOMAIN f \ S)
With(f, x, v) == [y \in DOMAIN f \cup {x} |-> IF y = x THEN v ELSE f[y]]
-----------------------------------------------------------------------------
(* What happens to files in watched directories. It is assumed that a file is left alone   *)
(* while it is read and while its last change waits to be handled, that nothing changes    *)
(* while the watch is set up, and that a file is not removed that another has a copy of.    *)
NewTask(kind, dir, todo) == [kind |-> kind, dir |-> dir, todo |-> todo, id |-> Blank]
Reads(t) == t.todo # <<>> /\ (t.kind # "folder" \/ t.id # Blank)
Busy(p) == \/ \E k \in DOMAIN events : events[k].at = p
           \/ \E k \in DOMAIN tasks : Reads(tasks[k]) /\ Head(tasks[k].todo) = p
Touchable(p) == Watched(p) /\ ~Busy(p) /\ watching = wanted
Dispensable(p) == \A q \in Files \ {p} : drive[q] # drive[p] \/ ~Watched(q)

(* LibraryWatcher: a file that appears or changes, and the old name of one that is renamed, *)
(* is told as created.                                                                      *)
Created(p) == [kind |-> "created", at |-> p]
Removed(p) == [kind |-> "removed", at |-> p]
Tells(list) == events' = events \o list

FileAdded(p, c) ==
  /\ Happens("add") /\ Touchable(p) /\ p \notin Files
  /\ drive' = With(drive, p, c) /\ Tells(<<Created(p)>>)

FileSaved(p, c) ==
  /\ Happens("save") /\ Touchable(p) /\ p \in Files /\ drive[p] # c /\ Dispensable(p)
  /\ drive' = [drive EXCEPT ![p] = c] /\ Tells(<<Created(p)>>)

FileRemoved(p) ==
  /\ Happens("remove") /\ Touchable(p) /\ p \in Files /\ Dispensable(p)
  /\ drive' = Without(drive, {p}) /\ Tells(<<Removed(p)>>)

(* The event that has both names is told by the first of them. *)
FileRenamed(p, q) ==
  /\ Happens("rename") /\ Touchable(p) /\ Touchable(q) /\ p # q /\ p \in Files
  /\ q \in Files => Dispensable(q)
  /\ drive' = With(Without(drive, {p}), q, drive[p]) /\ Tells(<<Created(p), Created(q), Created(p)>>)

(* To another file system: a copy is made and the file removed. *)
FileMovedAcross(p, q) ==
  /\ Happens("across") /\ Touchable(p) /\ Touchable(q) /\ p \in Files /\ q \notin Files
  /\ drive' = With(Without(drive, {p}), q, drive[p]) /\ Tells(<<Created(q), Removed(p)>>)

Places == UNION {DOMAIN Starts[s] : s \in DOMAIN Starts}
FilesChange ==
  /\ \E p \in Places : \/ \E c \in Book \cup {Junk} : FileAdded(p, c) \/ FileSaved(p, c)
                       \/ FileRemoved(p) \/ (\E q \in Places : FileRenamed(p, q) \/ FileMovedAcross(p, q))
  /\ UNCHANGED <<errand, entries, pages, wanted, watching, tasks, reported, export>>
-----------------------------------------------------------------------------
(* What the user asks for. *)

(* ImportFolderSelected: the folder is watched from now on, by a new watcher. *)
ImportFolderSelected(root) ==
  /\ Happens("folder") /\ events = <<>>
  /\ wanted' = wanted \cup {root} /\ tasks' = Append(tasks, NewTask("folder", root, <<>>))
  /\ UNCHANGED <<errand, drive, entries, pages, watching, events, reported, export>>

WatchStarts ==
  /\ watching # wanted /\ watching' = wanted /\ events' = <<>>
  /\ UNCHANGED <<errand, drive, entries, pages, wanted, tasks, reported, export, errands>>

ImportPdfSelected(p) ==
  /\ Happens("pdf") /\ p \in Files /\ drive[p] \in Book \cup {Junk}
  /\ tasks' = Append(tasks, NewTask("pdf", p.dir, <<p>>))
  /\ UNCHANGED <<errand, drive, entries, pages, wanted, watching, events, reported, export>>

(* RelinkFileSelected: the user chooses the PDF's own file, or some file elsewhere. *)
RelinkFileSelected(c, p) ==
  /\ Happens("relink") /\ entries[c].missing /\ p \in Files
  /\ drive[p] = c \/ ("other" \in errand[2] /\ ~Watched(p))
  /\ tasks' = Append(tasks, [NewTask("relink", p.dir, <<p>>) EXCEPT !.id = c])
  /\ UNCHANGED <<errand, drive, entries, pages, wanted, watching, events, reported, export>>

LibraryWatchEvent ==
  /\ events # <<>> /\ events' = Tail(events)
  /\ tasks' = Append(tasks, NewTask(Head(events).kind, <<>>, <<Head(events).at>>))
  /\ UNCHANGED <<errand, drive, entries, pages, wanted, watching, reported, export, errands>>
-----------------------------------------------------------------------------
(* The tasks, each on a thread of its own. *)
Drop(k) == tasks' = RemoveAt(tasks, k)

(* The rest of the task, after its first file. *)
GoesOn(k) ==
  IF Len(tasks[k].todo) = 1 THEN Drop(k)
  ELSE tasks' = [tasks EXCEPT ![k].todo = Tail(@), ![k].id = Blank]

(* scan_pdf_files, in the order of the paths. *)
ScanFolder(k) ==
  /\ tasks[k].kind = "folder" /\ tasks[k].todo = <<>>
  /\ LET found == {p \in Files : IsBelow(p.dir, tasks[k].dir)}
     IN IF found = {} THEN Drop(k) ELSE tasks' = [tasks EXCEPT ![k].todo = SetToSeq(found)]
  /\ UNCHANGED <<drive, entries, pages, reported>>

(* An error is shown: it is about the PDF in the file and the one whose row is at the path. *)
RowsAt(p) == {c \in DOMAIN entries : entries[c].at = p}
Shown(p) == reported \cup (({drive[p]} \cap Book) \cup RowsAt(p))
ShownGone(p) == reported \cup RowsAt(p)

(* import_pdf_with_index: the file is hashed; a watched one may be gone again, *)
Hash(k) ==
  /\ tasks[k].kind \in {"created", "pdf", "folder"} /\ tasks[k].todo # <<>> /\ tasks[k].id = Blank
  /\ LET p == Head(tasks[k].todo)
     IN IF p \in Files THEN tasks' = [tasks EXCEPT ![k].id = drive[p]] /\ UNCHANGED reported
        ELSE GoesOn(k) /\ reported' = IF tasks[k].kind = "created" THEN reported ELSE ShownGone(p)
  /\ UNCHANGED <<drive, entries, pages>>

(* Mutant: a row that exists stays missing. *)
RowKeptMissing(id, p) ==
  [at |-> p, missing |-> id \in DOMAIN entries /\ entries[id].missing]

(* insert_entry: the row of the PDF, or a new one, which replaces another at the path. *)
Row(id, p) == [at |-> p, missing |-> FALSE]
Refused(id, p) == id \in DOMAIN entries /\ RowsAt(p) \ {id} # {}
Inserted(id, p) == With(Without(entries, RowsAt(p)), id, Row(id, p))

(* then it is opened, its row is written and its pages are put in the index. *)
Insert(k) ==
  /\ tasks[k].kind \in {"created", "pdf", "folder"} /\ tasks[k].id # Blank
  /\ LET p == Head(tasks[k].todo)
         id == tasks[k].id
     IN \/ /\ p \notin Files \/ drive[p] \notin Book \/ Refused(id, p)
           /\ reported' = (IF p \in Files THEN Shown(p) ELSE ShownGone(p)) /\ UNCHANGED <<entries, pages>>
        \/ /\ p \in Files /\ drive[p] \in Book /\ ~Refused(id, p)
           /\ entries' = Inserted(id, p)
           /\ \/ pages' = With(pages, id, drive[p]) /\ reported' = reported \ {id}
              \/ "fault" \in errand[2] /\ UNCHANGED pages /\ reported' = reported \cup {id}
  /\ GoesOn(k) /\ UNCHANGED drive

(* set_missing_by_path *)
SetMissing(k) ==
  /\ tasks[k].kind = "removed" /\ Drop(k)
  /\ entries' = [c \in DOMAIN entries |->
       IF c \in RowsAt(Head(tasks[k].todo)) THEN [entries[c] EXCEPT !.missing = TRUE] ELSE entries[c]]
  /\ UNCHANGED <<drive, pages, reported>>

(* relink_entry_path: not the path of another row. *)
Relink(k) ==
  /\ tasks[k].kind = "relink" /\ Drop(k)
  /\ LET c == tasks[k].id
         p == Head(tasks[k].todo)
     IN IF RowsAt(p) \ {c} # {} THEN reported' = reported \cup {c} /\ UNCHANGED entries
        ELSE /\ entries' = IF c \in DOMAIN entries THEN [entries EXCEPT ![c] = Row(c, p)] ELSE entries
             /\ UNCHANGED reported
  /\ UNCHANGED <<drive, pages>>

TaskGoesOn ==
  /\ \E k \in DOMAIN tasks : ScanFolder(k) \/ Hash(k) \/ Insert(k) \/ SetMissing(k) \/ Relink(k)
  /\ UNCHANGED <<errand, wanted, watching, events, export, errands>>
-----------------------------------------------------------------------------
(* Exports. *)
NoExport == [stage |-> "closed", dialog |-> Blank, todo |-> <<>>, made |-> <<>>, skipped |-> {},
             failed |-> {}, zip |-> Blank, before |-> <<>>]
Dialog == export.dialog

(* OpenExportDialog and the messages of the dialog: [source, dest, mode, template, conflict, sheet]. *)
OpenExportDialog ==
  /\ export.stage = "closed" /\ Happens("export")
  /\ \E d \in errand[3] : export' = [NoExport EXCEPT !.stage = "open", !.dialog = d]
  /\ UNCHANGED <<drive, entries, pages, events, tasks, reported>>

(* export_entries_for_source *)
Chosen == Dialog.source \cap DOMAIN entries

(* StartExport: of the rows as they are now. The dialog shows progress, then the summary,  *)
(* without the button; that it can be closed by a key meanwhile is left out.               *)
StartExport ==
  /\ export.stage = "open" /\ Chosen # {}
  /\ export' = [export EXCEPT !.stage = "begin", !.before = drive,
                  !.todo = LET ids == SetToSeq(Chosen)
                           IN [k \in DOMAIN ids |-> [book |-> ids[k], from |-> entries[ids[k]].at]]]
  /\ UNCHANGED <<drive, entries, pages, events, tasks, reported, errands>>

(* Mutant: what this export has made does not count. *)
FreeBefore(p) == p \notin DOMAIN export.before

Free(p) == p \notin Files

(* export_target_path: {a place}, {Blank} when it is skipped, {} when no name is free. *)
Numbered(dir, name) == {n \in 2 .. MaxCopies : Free(Spot(dir, Append(name, n)))}
TargetPath(dir, name) ==
  IF Free(Spot(dir, name)) \/ Dialog.conflict = "Overwrite" THEN {Spot(dir, name)}
  ELSE IF Dialog.conflict = "Skip" THEN {Blank}
  ELSE {Spot(dir, Append(name, n)) : n \in {m \in Numbered(dir, name) : \A i \in Numbered(dir, name) : m <= i}}

(* export_filename; the folders of a PDF, one in the other. *)
FileName(x) == IF Dialog.template = "Original" THEN x.from.name ELSE TitleOf[x.book]
Shelves(x)  == IF ShelfOf[x.book] = <<>> THEN Unfiled ELSE ShelfOf[x.book]
TargetDir(x) == IF Dialog.mode = "Flat" THEN Dialog.dest ELSE Dialog.dest \o Shelves(x)

(* The archive is created first; when it is there already and skipped, nothing is exported. *)
ZipName == <<"export">>
ExportBegins ==
  /\ export.stage = "begin"
  /\ LET to == TargetPath(Dialog.dest, ZipName)
     IN \/ Dialog.mode # "Zip" /\ export' = [export EXCEPT !.stage = "copy"] /\ UNCHANGED drive
        \/ /\ Dialog.mode = "Zip" /\ to \in {{}, {Blank}}
           /\ export' = [NoExport EXCEPT !.stage = "open", !.dialog = Dialog] /\ UNCHANGED drive
        \/ /\ Dialog.mode = "Zip" /\ to \notin {{}, {Blank}}
           /\ \E p \in to : /\ export' = [export EXCEPT !.stage = "copy", !.zip = p]
                           /\ drive' = With(drive, p, Junk)
  /\ UNCHANGED <<entries, pages, events, tasks, reported, errands>>

(* export_library_entries: a file is copied; onto itself, it is emptied. *)
Entry == Head(export.todo)
Fails == export' = [export EXCEPT !.todo = Tail(@), !.failed = @ \cup {Entry.book}] /\ UNCHANGED drive
CopyFile ==
  /\ export.stage = "copy" /\ export.todo # <<>> /\ Dialog.mode # "Zip"
  /\ LET to == TargetPath(TargetDir(Entry), FileName(Entry))
     IN \/ to = {Blank} /\ export' = [export EXCEPT !.todo = Tail(@), !.skipped = @ \cup {Entry.book}]
           /\ UNCHANGED <<drive, events>>
        \/ (to = {} \/ (to # {Blank} /\ Entry.from \notin Files)) /\ Fails /\ UNCHANGED events
        \/ /\ to \notin {{}, {Blank}} /\ Entry.from \in Files
           /\ \E p \in to :
                /\ drive' = With(drive, p, IF p = Entry.from THEN Junk ELSE drive[Entry.from])
                /\ IF Watched(p) THEN Tells(<<Created(p)>>) ELSE UNCHANGED events
                /\ export' = [export EXCEPT !.todo = Tail(@),
                     !.made = Append(@, [book |-> Entry.book, to |-> p, holds |-> drive[Entry.from]])]
  /\ UNCHANGED <<entries, pages, tasks, reported, errands>>

(* Mutant: names are not made unique. *)
MemberAsNamed(dir, name) == {Spot(dir, name)}

(* unique_archive_name *)
Taken == {export.made[k].to : k \in DOMAIN export.made}
Member(dir, name) ==
  LET free == {n \in 2 .. MaxCopies : Spot(dir, Append(name, n)) \notin Taken}
  IN IF Spot(dir, name) \notin Taken THEN {Spot(dir, name)}
     ELSE {Spot(dir, Append(name, n)) : n \in {m \in free : \A i \in free : m <= i}}

(* export_library_entries_zip *)
ZipFile ==
  /\ export.stage = "copy" /\ export.todo # <<>> /\ Dialog.mode = "Zip"
  /\ LET names == Member(Shelves(Entry), FileName(Entry))
     IN IF Entry.from \notin Files \/ names = {} THEN Fails
        ELSE /\ \E p \in names : export' = [export EXCEPT !.todo = Tail(@),
                  !.made = Append(@, [book |-> Entry.book, to |-> p, holds |-> drive[Entry.from]])]
             /\ UNCHANGED drive
  /\ UNCHANGED <<entries, pages, events, tasks, reported, errands>>

(* ExportFinished: metadata is written, into the archive or over what is there. *)
SheetAt == Spot(Dialog.dest, <<"metadata">>)
ExportFinished ==
  /\ export.stage = "copy" /\ export.todo = <<>> /\ export' = [export EXCEPT !.stage = "shown"]
  /\ drive' = IF Dialog.mode = "Zip" THEN With(drive, export.zip, Archive)
              ELSE IF Dialog.sheet THEN With(drive, SheetAt, Sheet) ELSE drive
  /\ UNCHANGED <<entries, pages, events, tasks, reported, errands>>

CloseExportDialog ==
  /\ export.stage \in {"open", "shown"} /\ export' = NoExport
  /\ UNCHANGED <<drive, entries, pages, events, tasks, reported, errands>>

Exports ==
  /\ OpenExportDialog \/ StartExport \/ ExportBegins \/ CopyFile \/ ZipFile \/ ExportFinished \/ CloseExportDialog
  /\ UNCHANGED <<errand, wanted, watching>>
-----------------------------------------------------------------------------
FilesInit ==
  /\ errand \in Errands /\ drive = Starts[errand[1]] /\ entries = <<>> /\ pages = <<>>
  /\ wanted = {} /\ watching = {} /\ events = <<>> /\ tasks = <<>> /\ reported = {}
  /\ export = NoExport /\ errands = 0

FilesNext ==
  \/ FilesChange \/ WatchStarts \/ LibraryWatchEvent \/ TaskGoesOn \/ Exports
  \/ \E r \in RootDir : ImportFolderSelected(r)
  \/ \E p \in Files : ImportPdfSelected(p) \/ \E c \in DOMAIN entries : RelinkFileSelected(c, p)

FilesSpec == FilesInit /\ [][FilesNext]_fileVars
-----------------------------------------------------------------------------
Holdings == Book \cup {Junk, Archive, Sheet}
FilesTypeOK ==
  /\ \A p \in Files : drive[p] \in Holdings
  /\ DOMAIN entries \subseteq Holdings /\ reported \subseteq Holdings
  /\ watching \subseteq wanted /\ wanted \subseteq RootDir /\ errands \in 0 .. MaxErrands[errand[2]]
  /\ \A c, d \in DOMAIN entries : entries[c].at = entries[d].at => c = d

(* When everything told is handled, a PDF in a watched directory has a row with the path of *)
(* a file that holds it, and its pages can be found; one that is not there any more is      *)
(* missing, whatever was added, saved, renamed, moved and removed at once, and in whatever  *)
(* order the tasks ended: unless an error was shown for it. It does not hold when a PDF is  *)
(* linked to another while it comes back, when an export writes into a watched directory    *)
(* while its watch is set up, nor when one overwrites what was imported from elsewhere.     *)
ExportDirs(d) ==
  {d.dest} \cup {d.dest \o dir : dir \in {Unfiled} \cup {ShelfOf[c] : c \in Book}}
ExportsApart ==
  "export" \in errand[2] =>
    /\ errand[2] \cap {"pdf", "relink"} = {}
    /\ \A d \in errand[3], r \in RootDir : \A dir \in ExportDirs(d) : ~IsBelow(dir, r)
Settled == events = <<>> /\ tasks = <<>> /\ watching = wanted
Found(c) ==
  /\ c \in DOMAIN entries /\ c \in DOMAIN pages /\ pages[c] = c
  /\ ~entries[c].missing /\ entries[c].at \in Files /\ drive[entries[c].at] = c
WatchSettles == (Settled /\ "other" \notin errand[2] /\ ExportsApart) => \A c \in Book \ reported :
  IF \E p \in Files : drive[p] = c /\ Watched(p) THEN Found(c)
  ELSE c \in DOMAIN entries /\ Watched(entries[c].at) => entries[c].missing

(* An export that keeps both or skips leaves the files alone that were there, and each PDF  *)
(* that it counts has a file or a member of the archive for itself, with what it held:      *)
(* ExportConflictBehavior, LibraryExportSummary. It says nothing of watched directories,    *)
(* where files come and go meanwhile, nor of the file of the metadata, which is written     *)
(* over what there is.                                                                      *)
Left(p) == ~Watched(p) /\ p # SheetAt
ExportFaithful == (export.stage = "shown" /\ Dialog.conflict # "Overwrite") =>
  /\ \A i, j \in DOMAIN export.made : export.made[i].to = export.made[j].to =>
       i = j \/ (Dialog.mode # "Zip" /\ ~Left(export.made[i].to))
  /\ Dialog.mode # "Zip" => \A k \in DOMAIN export.made :
       LET m == export.made[k] IN Left(m.to) => m.to \in Files /\ drive[m.to] = m.holds
  /\ \A p \in DOMAIN export.before : Left(p) => p \in Files /\ drive[p] = export.before[p]
FilesKept == WatchSettles /\ ExportFaithful
=============================================================================
