---------------------------- MODULE Organization ----------------------------
(* One library as its user organizes it: the folder tree, the memberships, the trash, *)
(* the undo history and the search index kept beside the database. Every command      *)
(* becomes a task that takes a snapshot, changes the database, then the index, takes  *)
(* another snapshot and reports; the report files the two snapshots in the history    *)
(* and asks for the library to be read again.                                         *)
EXTENDS Integers, FiniteSets, SequencesExt

CONSTANTS
  Entry,        \* entry ids
  Folder,       \* folder ids, in the order in which they are given out
  Title,        \* names: of an entry its display title and author, of a folder its own
  FileTitle,    \* what an entry is called without an edit
  Tag,
  NoTitle,      \* no document in the index
  Start,        \* stores to begin with
  OrgScenarios, \* sets of what may happen, see OrgEvents; a behaviour has one
  MaxActs       \* bound: MaxActs[s] are the commands of a behaviour, undo and redo apart

(* Commands a user gives: "create", "move" and "copy" a folder; "trash" and "restore" *)
(* folders and entries; "purge" them from the trash; "member": put entries into       *)
(* folders and take them out; "edit" and reset metadata; "label": rename and order    *)
(* folders; "tag" entries, and rename and delete tags; "reindex"; "import" a PDF;     *)
(* "undo": and redo. "card": an entry is tagged on its card, out of the history.      *)
(* "overlap": the next command is given while tasks run; "failure": the index cannot  *)
(* be written; "expiry": trash grows old; "trashPaste": folders are copied while the  *)
(* trash is on the screen; "trashEdit": metadata of trashed entries is edited;        *)
(* "stray": a trashed folder is purged that holds a live entry.                       *)
OrgEvents ==
  {"create", "move", "copy", "trash", "restore", "purge", "member", "edit", "import",
   "label", "tag", "card", "reindex", "undo", "overlap", "failure", "expiry", "trashPaste", "trashEdit", "stray"}

Root == 0
Status == {"absent", "live", "trashed"}

(* The rows of folders, with their place among their siblings, of entries, of         *)
(* entry_folders, whose order is left out, and of tags.                               *)
Store ==
  [folder : [Folder -> Status], parent : [Folder -> Folder \cup {Root}],
   name : [Folder -> Title], order : [Folder -> Nat],
   entry : [Entry -> Status], title : [Entry -> Title], tags : [Entry -> SUBSET Tag],
   member : SUBSET (Entry \X Folder)]

ASSUME OrganizationAssumption ==
  /\ Folder = 1 .. Cardinality(Folder) /\ IsFiniteSet(Folder) /\ NoTitle \notin Title
  /\ FileTitle \in Title
  /\ Start \subseteq Store
  /\ OrgScenarios \subseteq SUBSET OrgEvents /\ MaxActs \in [OrgScenarios -> Nat]

Slots == 1 .. 2

VARIABLES
  store,      \* the database
  indexed,    \* indexed[e]: the metadata in e's documents
  lastFolder, \* the last folder id given out
  tasks,      \* tasks[t]: a task, or the message it ended with
  nodes,      \* library.history.nodes
  current,    \* library.history.current
  restoring,  \* library_history_restore_started_at is set
  refreshes,  \* refresh_library and refresh_folders tasks that have not read yet
  loads,      \* LibraryLoaded messages on their way: what was read, for each
  shown,      \* library_entries, library_trash_entries and library_folders, as last read
  acts,       \* commands so far
  events      \* what may happen in this behaviour

dataVars    == <<store, indexed, lastFolder>>
historyVars == <<nodes, current, restoring>>
screenVars  == <<refreshes, loads, shown>>
orgVars == <<dataVars, tasks, historyVars, screenVars, acts, events>>

Kinds == {"create", "move", "copy", "trashFolder", "trash", "restore", "purge",
          "purgeFolder", "add", "place", "remove", "edit", "reset", "rename", "order", "tag",
          "untag", "renameTag", "deleteTag", "card", "reindex", "import", "rewind"}

(* folder, to: what a command is about; list: siblings in their new order; entries:  *)
(* the selection; tags: the tag, or the old and the new one; want: the snapshot an   *)
(* undo or redo restores and target the node it leads to.                            *)
Command ==
  [kind : Kinds, folder : Folder \cup {Root}, to : Folder \cup {Root}, list : Seq(Folder),
   entries : SUBSET Entry, title : Title, tags : Seq(Tag), want : Store, target : Nat]

Phases == {"free", "begin", "change", "write", "index", "end", "done", "failed"}

(* changed: entries whose documents the task rewrites or deletes. *)
Task == [phase : Phases, cmd : Command, before : Store, after : Store,
         changed : SUBSET Entry]

Live(s)     == {f \in Folder : s.folder[f] = "live"}
Trashed(s)  == {f \in Folder : s.folder[f] = "trashed"}
Existing(s) == Live(s) \cup Trashed(s)
LiveEntries(s)    == {e \in Entry : s.entry[e] = "live"}
TrashedEntries(s) == {e \in Entry : s.entry[e] = "trashed"}
Rows(s)           == LiveEntries(s) \cup TrashedEntries(s)

(* To begin with, nothing that was given an id is gone for good, the folders are a tree *)
(* of which the live ones can be reached, and what is not there has no tags.             *)
ASSUME StartAssumption ==
  \A s \in Start :
    /\ Existing(s) = 1 .. Cardinality(Existing(s))
    /\ \A X \in SUBSET Existing(s) : X # {} => \E f \in X : s.parent[f] \notin X
    /\ \A f \in Live(s) : s.parent[f] \in Live(s) \cup {Root}
    /\ \A f \in Existing(s) : s.parent[f] \in Existing(s) \cup {Root}
    /\ \A e \in Entry \ Rows(s) : s.tags[e] = {}

(* collect_folder_subtree_ids: f and what is below it among the given folders. *)
Subtree(s, among, f) ==
  {g \in Folder : \A X \in SUBSET Folder :
     (f \in X /\ \A h \in among : s.parent[h] \in X => h \in X) => g \in X}

MembersOf(s, folders) == {e \in Entry : \E f \in folders : <<e, f>> \in s.member}

(* ON DELETE CASCADE: the folders that go with f, the memberships that go with either. *)
WithoutFolders(s, gone) ==
  [s EXCEPT !.folder = [f \in Folder |-> IF f \in gone THEN "absent" ELSE @[f]],
            !.parent = [f \in Folder |-> IF f \in gone THEN Root ELSE @[f]],
            !.order = [f \in Folder |-> IF f \in gone THEN 0 ELSE @[f]],
            !.name = [f \in Folder |-> IF f \in gone THEN FileTitle ELSE @[f]],
            !.member = {m \in @ : m[2] \notin gone}]
WithoutEntries(s, gone) ==
  [s EXCEPT !.entry = [e \in Entry |-> IF e \in gone THEN "absent" ELSE @[e]],
            !.tags = [e \in Entry |-> IF e \in gone THEN {} ELSE @[e]],
            !.member = {m \in @ : m[1] \notin gone}]

SetFolders(s, folders, status) ==
  [s EXCEPT !.folder = [f \in Folder |-> IF f \in folders THEN status ELSE @[f]]]
SetEntries(s, entries, status) ==
  [s EXCEPT !.entry = [e \in Entry |-> IF e \in entries \cap Rows(s) THEN status ELSE @[e]]]
-----------------------------------------------------------------------------
(* Db: what each call does to the rows. *)

(* next_folder_manual_order: after the live siblings. *)
NextOrder(s, p) == 1 + FoldSet(LAMBDA f, n : IF s.order[f] > n THEN s.order[f] ELSE n, 0,
                               {f \in Live(s) : s.parent[f] = p})

Created(s, p, f) ==
  [s EXCEPT !.folder[f] = "live", !.parent[f] = p, !.order[f] = NextOrder(s, p)]

Moved(s, f, p) ==
  IF f \in Existing(s) THEN [s EXCEPT !.parent[f] = p, !.order[f] = NextOrder(s, p)] ELSE s

Renamed(s, f, name) == IF f \in Existing(s) THEN [s EXCEPT !.name[f] = name] ELSE s

(* set_manual_folder_order. *)
InOrder(s, list) ==
  [s EXCEPT !.order = [f \in Folder |-> IF f \in ToSet(list) THEN IndexFirstSubSeq(<<f>>, list)
                                        ELSE @[f]]]

Tagged(s, entries, tag) ==
  [s EXCEPT !.tags = [e \in Entry |-> IF e \in entries \cap Rows(s) THEN @[e] \cup {tag}
                                      ELSE @[e]]]
Untagged(s, entries, tag) ==
  [s EXCEPT !.tags = [e \in Entry |-> IF e \in entries THEN @[e] \ {tag} ELSE @[e]]]

(* Renaming to a tag in use merges the two. *)
TagRenamed(s, old, new) ==
  Untagged(Tagged(s, {e \in Entry : old \in s.tags[e]}, new), Entry, old)

(* The copies take the next ids, in the order of the originals; the suffix that the *)
(* name of the copy gets is left out.                                               *)
CopyId(sub, f, last) == last + Cardinality({g \in sub : g <= f})

CopiedSubtree(s, f, p, last) ==
  LET sub  == Subtree(s, Live(s), f)
      orig == [g \in {CopyId(sub, h, last) : h \in sub} |->
                 CHOOSE h \in sub : CopyId(sub, h, last) = g]
      copy == DOMAIN orig
  IN [s EXCEPT
       !.folder = [g \in Folder |-> IF g \in copy THEN "live" ELSE @[g]],
       !.parent = [g \in Folder |->
          IF g \notin copy THEN @[g]
          ELSE IF orig[g] = f THEN p ELSE CopyId(sub, @[orig[g]], last)],
       !.order = [g \in Folder |->
          IF g \notin copy THEN @[g] ELSE IF orig[g] = f THEN NextOrder(s, p) ELSE @[orig[g]]],
       !.name = [g \in Folder |-> IF g \in copy THEN @[orig[g]] ELSE @[g]],
       !.member = @ \cup {m \in Entry \X copy : <<m[1], orig[m[2]]>> \in @}]

TrashedTree(s, f) ==
  LET sub == Subtree(s, Live(s), f) \cap Existing(s) IN
  SetEntries(SetFolders(s, sub, "trashed"), MembersOf(s, sub), "trashed")

(* Mutant: the folder stays below a parent that is still in the trash. *)
RestoredTreeInPlace(s, f) ==
  LET sub == Subtree(s, Existing(s), f) IN
  IF f \notin Existing(s) THEN s
  ELSE SetEntries(SetFolders(s, sub, "live"), MembersOf(s, sub), "live")

(* What was trashed on its own below f comes back too. *)
RestoredTree(s, f) ==
  LET sub == Subtree(s, Existing(s), f)
      up  == IF s.parent[f] \in Live(s) \cup {Root} THEN s.parent[f] ELSE Root
  IN IF f \notin Existing(s) THEN s
     ELSE [SetEntries(SetFolders(s, sub, "live"), MembersOf(s, sub), "live")
            EXCEPT !.parent[f] = up]

(* Mutant: the entries of the subtree go, live ones too. *)
PurgedTreeWithEntries(s, f) ==
  LET sub == Subtree(s, Existing(s), f) IN
  IF f \notin Trashed(s) THEN s
  ELSE WithoutFolders(WithoutEntries(s, MembersOf(s, sub)), sub)

PurgedTree(s, f) ==
  LET sub == Subtree(s, Existing(s), f) IN
  IF f \notin Trashed(s) THEN s
  ELSE WithoutFolders(
         WithoutEntries(s, MembersOf(s, sub) \cap TrashedEntries(s)), sub)

(* purge_expired_trash: which items of the trash are older than 30 days is left open. *)
Expired(s, entries, folders) ==
  WithoutFolders(WithoutEntries(s, entries),
                 UNION {Subtree(s, Existing(s), f) : f \in folders})

(* The folders and memberships become the snapshot's; of the entries and their tags  *)
(* only those that the snapshot and the table both have.                             *)
Rewound(s, want) ==
  LET known == Rows(s) \cap Rows(want) IN
  [want EXCEPT !.entry = [e \in Entry |-> IF e \in known THEN @[e] ELSE s.entry[e]],
               !.title = [e \in Entry |-> IF e \in known THEN @[e] ELSE s.title[e]],
               !.tags = [e \in Entry |-> IF e \in known THEN @[e] ELSE s.tags[e]]]

(* Mutant: the foreign keys are not looked at. *)
CannotRewindNever(s, want) == FALSE

(* A membership or a tag of a purged entry breaks a foreign key: the transaction fails. *)
CannotRewind(s, want) ==
  \/ \E m \in want.member : m[1] \notin Rows(s)
  \/ \E e \in Entry \ Rows(s) : want.tags[e] # {}
-----------------------------------------------------------------------------
(* The user's commands, on what the screen shows. A selection for the member commands *)
(* is one entry: a larger one repeats the same step. An issue that needs new folder   *)
(* ids waits until there are enough, and for the other tasks.                         *)

Idle  == \A t \in Slots : tasks[t].phase = "free"
Quiet == Idle /\ refreshes = 0 /\ loads = <<>>

IdsLeft(n) == Idle /\ lastFolder + n <= Cardinality(Folder)

(* folder_can_move_into, or the root. *)
MayMoveInto(f, p) == p = Root \/ p \in Live(store) \ Subtree(store, Live(store), f)

NoCommand == [kind |-> "move", folder |-> Root, to |-> Root, list |-> <<>>, entries |-> {},
              title |-> FileTitle, tags |-> <<>>, want |-> CHOOSE s \in Start : TRUE,
              target |-> 0]
FreeTask == [phase |-> "free", cmd |-> NoCommand, before |-> NoCommand.want,
             after |-> NoCommand.want, changed |-> {}]

FolderCommands ==
  [kind : {"create"}, folder : {Root}, to : Live(store) \cup {Root}, entries : {{}}]
  \cup {c \in [kind : {"move"}, folder : Existing(store), to : Folder \cup {Root},
               entries : {{}}] : MayMoveInto(c.folder, c.to)}
  \cup [kind : {"copy"}, folder : Existing(store), entries : {{}},
        to : IF "trashPaste" \in events THEN Existing(store) \cup {Root}
             ELSE Live(store) \cup {Root}]

TrashCommands ==
  [kind : {"trashFolder"}, folder : Existing(store), to : {Root}, entries : {{}}]
  \cup [kind : {"trash"}, folder : {Root}, to : {Root},
        entries : SUBSET LiveEntries(store) \ {{}}]
  \cup {c \in [kind : {"restore"}, folder : Trashed(store) \cup {Root}, to : {Root},
               entries : SUBSET TrashedEntries(store)] : c.folder # Root \/ c.entries # {}}
  \cup [kind : {"purge"}, folder : {Root}, to : {Root},
        entries : SUBSET TrashedEntries(store) \ {{}}]
  \cup {c \in [kind : {"purgeFolder"}, folder : Trashed(store), to : {Root},
               entries : {{}}] :
          "stray" \in events
          \/ MembersOf(store, Subtree(store, Existing(store), c.folder))
               \cap LiveEntries(store) = {}}

EntryCommands ==
  {c \in [kind : {"add", "place", "remove"}, folder : Existing(store) \cup {Root},
          to : Existing(store) \cup {Root}, entries : {{e} : e \in Rows(store)}] :
     /\ c.kind = "add" => c.to # Root
     /\ c.kind # "remove" => c.folder = Root
     /\ c.kind = "remove" => c.to = Root /\ \E e \in c.entries : <<e, c.folder>> \in store.member}
  \cup [kind : {"import"}, folder : {Root}, to : Live(store) \cup {Root},
        entries : {{e} : e \in {x \in Entry : store.entry[x] = "absent"}}]

(* The event of a scenario that a command belongs to. *)
EventOf(kind) ==
  CASE kind = "trashFolder" -> "trash" [] kind = "purgeFolder" -> "purge"
    [] kind \in {"add", "place", "remove"} -> "member" [] OTHER -> kind

Started(t, cmd) ==
  /\ tasks[t].phase = "free" /\ \A r \in Slots : r < t => tasks[r].phase # "free"
  /\ Quiet \/ "overlap" \in events
  /\ tasks' = [tasks EXCEPT ![t] = [FreeTask EXCEPT !.phase = "begin", !.cmd = cmd]]

CommandGiven(t) ==
  /\ acts < MaxActs[events] /\ acts' = acts + 1
  /\ \E c \in FolderCommands \cup TrashCommands \cup EntryCommands :
       /\ EventOf(c.kind) \in events
       /\ c.kind = "create" => IdsLeft(1)
       /\ c.kind = "copy" => IdsLeft(Cardinality(Subtree(store, Live(store), c.folder)))
       /\ Started(t, [NoCommand EXCEPT !.kind = c.kind, !.folder = c.folder, !.to = c.to,
                                       !.entries = c.entries])
  /\ UNCHANGED <<dataVars, historyVars, screenVars, events>>

LabelGiven(t, event, cmd) ==
  /\ event \in events /\ acts < MaxActs[events] /\ acts' = acts + 1 /\ Started(t, cmd)
  /\ UNCHANGED <<dataVars, historyVars, screenVars, events>>

(* What the inspector and the bulk commands are about, in the trash view too. *)
Inspected ==
  LiveEntries(store) \cup (IF "trashEdit" \in events THEN TrashedEntries(store) ELSE {})

(* SaveDetailsMetadata. *)
EditGiven(t) ==
  \E e \in Inspected : \E n \in Title \ {store.title[e]} :
    LabelGiven(t, "edit", [NoCommand EXCEPT !.kind = "edit", !.entries = {e}, !.title = n])

(* ResetDetailsMetadata and BulkResetDisplayMetadata. *)
ResetGiven(t) ==
  \E es \in SUBSET Inspected \ {{}} :
    LabelGiven(t, "edit", [NoCommand EXCEPT !.kind = "reset", !.entries = es])

ReindexGiven(t) ==
  \E es \in SUBSET Inspected \ {{}} :
    LabelGiven(t, "reindex", [NoCommand EXCEPT !.kind = "reindex", !.entries = es])

RenameFolderGiven(t) ==
  \E f \in Existing(store) : \E n \in Title \ {store.name[f]} :
    LabelGiven(t, "label", [NoCommand EXCEPT !.kind = "rename", !.folder = f, !.title = n])

(* A folder is moved earlier or later, or dropped before another, among its siblings. *)
OrderGiven(t) ==
  \E p \in Live(store) \cup {Root} :
    LET siblings == {f \in Live(store) : store.parent[f] = p} IN
    /\ Cardinality(siblings) > 1
    /\ \E list \in SetToSeqs(siblings) :
         LabelGiven(t, "label", [NoCommand EXCEPT !.kind = "order", !.to = p, !.list = list])

(* BulkAddTag and BulkRemoveTag, and those of the inspector; SubmitTag is of the card. *)
TagGiven(t) ==
  \E e \in Inspected, tag \in Tag, kind \in {"tag", "untag", "card"} :
    LabelGiven(t, IF kind = "card" THEN "card" ELSE "tag",
               [NoCommand EXCEPT !.kind = kind, !.entries = {e}, !.tags = <<tag>>])

TagUsed == UNION {store.tags[e] : e \in Entry}

(* SubmitTagRename, MergeTag and DeleteTag. *)
TagListGiven(t) ==
  \E old \in TagUsed :
    \/ LabelGiven(t, "tag", [NoCommand EXCEPT !.kind = "deleteTag", !.tags = <<old>>])
    \/ \E new \in Tag \ {old} :
         LabelGiven(t, "tag", [NoCommand EXCEPT !.kind = "renameTag", !.tags = <<old, new>>])

(* search_changed_entry_ids. *)
SearchChanged(a, b) ==
  {e \in Entry : a.entry[e] # b.entry[e] \/ (e \in Rows(a) /\ a.title[e] # b.title[e])}

Rewinding(t, want, from, target) ==
  /\ "undo" \in events /\ ~restoring /\ restoring' = TRUE
  /\ Started(t, [NoCommand EXCEPT !.kind = "rewind", !.want = want, !.target = target,
                                  !.entries = SearchChanged(want, from)])
  /\ UNCHANGED <<dataVars, nodes, current, screenVars, acts, events>>

UndoLibraryAction(t) ==
  /\ current # 1
  /\ Rewinding(t, nodes[current].before, nodes[current].after, nodes[current].parent)

(* The child added last. *)
RedoLibraryAction(t) ==
  \E n \in DOMAIN nodes :
    /\ nodes[n].parent = current /\ \A k \in DOMAIN nodes : nodes[k].parent = current => k <= n
    /\ Rewinding(t, nodes[n].after, nodes[n].before, n)
-----------------------------------------------------------------------------
(* The tasks. *)

Become(t, phase) == tasks' = [tasks EXCEPT ![t].phase = phase]

(* Commands that come back with a pair of snapshots. *)
Unfiled == {"purge", "purgeFolder", "card", "reindex", "import"}
Filed   == Kinds \ (Unfiled \cup {"rewind"})

(* The first snapshot. *)
Begin(t) ==
  /\ tasks[t].phase = "begin"
  /\ tasks' = [tasks EXCEPT ![t].phase = "change", ![t].before = store,
                            ![t].changed = tasks[t].cmd.entries]
  /\ UNCHANGED <<dataVars, historyVars, screenVars, acts, events>>

InChange(t, kinds) == tasks[t].phase = "change" /\ tasks[t].cmd.kind \in kinds

TaskFails(t) == Become(t, "failed") /\ UNCHANGED <<store, lastFolder>>

CreateFolder(t) ==
  LET c == tasks[t].cmd IN
  /\ InChange(t, {"create"})
  /\ \/ /\ c.to \in Existing(store) \cup {Root}
        /\ store' = Created(store, c.to, lastFolder + 1) /\ lastFolder' = lastFolder + 1
        /\ Become(t, "end")
     \/ c.to \notin Existing(store) \cup {Root} /\ TaskFails(t)
  /\ UNCHANGED <<indexed, historyVars, screenVars, acts, events>>

(* paste_library_clipboard_task, for a folder that was copied. *)
CopyFolder(t) ==
  LET c == tasks[t].cmd
      sound == c.folder \in Live(store) /\ c.to \in Existing(store) \cup {Root}
  IN /\ InChange(t, {"copy"})
     /\ \/ /\ sound /\ store' = CopiedSubtree(store, c.folder, c.to, lastFolder)
           /\ lastFolder' = lastFolder + Cardinality(Subtree(store, Live(store), c.folder))
           /\ Become(t, "end")
        \/ ~sound /\ TaskFails(t)
     /\ UNCHANGED <<indexed, historyVars, screenVars, acts, events>>

(* move_folder first walks up from the new parent, in reads of their own. *)
MoveChecks(t) ==
  LET c == tasks[t].cmd IN
  /\ InChange(t, {"move"})
  /\ IF c.to \in Subtree(store, Existing(store), c.folder) THEN TaskFails(t)
     ELSE Become(t, "write") /\ UNCHANGED <<store, lastFolder>>
  /\ UNCHANGED <<indexed, historyVars, screenVars, acts, events>>

(* The second transaction of a move: the row, without another look at the tree. *)
MoveWrite(t) ==
  LET c == tasks[t].cmd IN
  /\ tasks[t].phase = "write" /\ c.kind = "move"
  /\ \/ /\ c.to \in Existing(store) \cup {Root}
        /\ store' = Moved(store, c.folder, c.to) /\ Become(t, "end")
     \/ /\ c.to \notin Existing(store) \cup {Root}
        /\ Become(t, "failed") /\ UNCHANGED store
  /\ UNCHANGED <<indexed, lastFolder, historyVars, screenVars, acts, events>>

(* Memberships, entry by entry: an error about one entry is only reported. *)
ChangesMembers(t, kind, kept) ==
  LET c == tasks[t].cmd
      sound == c.entries \subseteq Rows(store) /\ c.to \in Existing(store) \cup {Root}
      new   == IF c.to = Root THEN {} ELSE c.entries \X {c.to}
  IN /\ InChange(t, {kind})
     /\ store' = IF sound THEN [store EXCEPT !.member = kept \cup new] ELSE store
     /\ Become(t, "end")
     /\ UNCHANGED <<indexed, lastFolder, historyVars, screenVars, acts, events>>

(* The other rows that only a list of entries or of folders shows. *)
ChangesRows(t, kind, new) ==
  /\ InChange(t, {kind}) /\ store' = new /\ Become(t, "end")
  /\ UNCHANGED <<indexed, lastFolder, historyVars, screenVars, acts, events>>

RenameFolder(t) ==
  ChangesRows(t, "rename", Renamed(store, tasks[t].cmd.folder, tasks[t].cmd.title))

(* Folders that are no longer siblings are not ordered. *)
OrderFolders(t) ==
  LET c == tasks[t].cmd IN
  IF \A f \in ToSet(c.list) : f \in Existing(store) /\ store.parent[f] = c.to
  THEN ChangesRows(t, "order", InOrder(store, c.list))
  ELSE /\ InChange(t, {"order"}) /\ TaskFails(t)
       /\ UNCHANGED <<indexed, historyVars, screenVars, acts, events>>

AddTag(t) == ChangesRows(t, "tag", Tagged(store, tasks[t].cmd.entries, tasks[t].cmd.tags[1]))

RemoveTag(t) ==
  ChangesRows(t, "untag", Untagged(store, tasks[t].cmd.entries, tasks[t].cmd.tags[1]))

RenameTag(t) ==
  ChangesRows(t, "renameTag", TagRenamed(store, tasks[t].cmd.tags[1], tasks[t].cmd.tags[2]))

DeleteTag(t) == ChangesRows(t, "deleteTag", Untagged(store, Entry, tasks[t].cmd.tags[1]))

SubmitTag(t) ==
  LET c == tasks[t].cmd IN
  IF c.entries \subseteq Rows(store)
  THEN ChangesRows(t, "card", Tagged(store, c.entries, c.tags[1]))
  ELSE /\ InChange(t, {"card"}) /\ TaskFails(t)
       /\ UNCHANGED <<indexed, historyVars, screenVars, acts, events>>

AddToFolder(t) == ChangesMembers(t, "add", store.member)

MoveToFolder(t) ==
  ChangesMembers(t, "place", {m \in store.member : m[1] \notin tasks[t].cmd.entries})

RemoveFromFolder(t) ==
  ChangesMembers(t, "remove", store.member \ (tasks[t].cmd.entries \X {tasks[t].cmd.folder}))

(* Trash, permanent deletion, metadata and import change rows and then the index. *)
ChangesEntries(t, kind, new, also) ==
  /\ InChange(t, {kind}) /\ store' = new
  /\ tasks' = [tasks EXCEPT ![t].phase = "index", ![t].changed = @ \cup also]
  /\ UNCHANGED <<indexed, lastFolder, historyVars, screenVars, acts, events>>

TrashEntries(t) ==
  ChangesEntries(t, "trash", SetEntries(store, tasks[t].cmd.entries, "trashed"), {})

TrashFolder(t) ==
  LET f == tasks[t].cmd.folder IN
  ChangesEntries(t, "trashFolder", TrashedTree(store, f),
                 MembersOf(store, Subtree(store, Live(store), f)))

PurgeEntries(t) ==
  ChangesEntries(t, "purge", WithoutEntries(store, tasks[t].cmd.entries), {})

PurgeFolder(t) ==
  LET f == tasks[t].cmd.folder IN
  ChangesEntries(t, "purgeFolder", PurgedTree(store, f),
                 IF f \in Trashed(store) THEN MembersOf(store, Subtree(store, Existing(store), f))
                 ELSE {})

Titled(s, entries, title) ==
  [s EXCEPT !.title = [e \in Entry |-> IF e \in entries \cap Rows(s) THEN title ELSE @[e]]]

EditMetadata(t) ==
  ChangesEntries(t, "edit", Titled(store, tasks[t].cmd.entries, tasks[t].cmd.title), {})

ResetMetadata(t) ==
  ChangesEntries(t, "reset", Titled(store, tasks[t].cmd.entries, FileTitle), {})

Reindex(t) == ChangesEntries(t, "reindex", store, {})

ImportEntry(t) ==
  LET c == tasks[t].cmd IN
  ChangesEntries(t, "import",
    [store EXCEPT
       !.entry = [e \in Entry |-> IF e \in c.entries THEN "live" ELSE @[e]],
       !.member = @ \cup {m \in c.entries \X {c.to} : c.to \in Existing(store)}], {})

(* Restoring is two transactions: the folder tree, then the entries selected and *)
(* those found in the trashed subtree.                                           *)
RestoreTree(t) ==
  LET c == tasks[t].cmd
      found == MembersOf(store, Subtree(store, Trashed(store), c.folder)) \cap TrashedEntries(store)
  IN /\ tasks[t].phase = "change" /\ c.kind = "restore"
     /\ \/ c.folder = Root /\ Become(t, "write") /\ UNCHANGED store
        \/ /\ c.folder # Root /\ store' = RestoredTree(store, c.folder)
           /\ tasks' = [tasks EXCEPT ![t].phase = "write", ![t].changed = @ \cup found]
     /\ UNCHANGED <<indexed, lastFolder, historyVars, screenVars, acts, events>>

RestoreEntries(t) ==
  /\ tasks[t].phase = "write" /\ tasks[t].cmd.kind = "restore"
  /\ store' = SetEntries(store, tasks[t].changed, "live") /\ Become(t, "index")
  /\ UNCHANGED <<indexed, lastFolder, historyVars, screenVars, acts, events>>

(* restore_library_history_snapshot_task. *)
Rewind(t) ==
  LET c == tasks[t].cmd IN
  /\ InChange(t, {"rewind"})
  /\ IF CannotRewind(store, c.want) THEN Become(t, "failed") /\ UNCHANGED store
     ELSE store' = Rewound(store, c.want) /\ Become(t, "index")
  /\ UNCHANGED <<indexed, lastFolder, historyVars, screenVars, acts, events>>

(* Mutant: what was restored is not indexed. *)
DocumentKept(t, e) ==
  CASE tasks[t].cmd.kind \in {"import", "reindex"} -> tasks[t].before.title[e]
    [] tasks[t].cmd.kind \in {"edit", "reset"} -> tasks[t].cmd.title
    [] OTHER -> NoTitle

(* What a task leaves in the index of an entry: what it read before the change, what *)
(* it writes, or, after an undo or redo, what the entry is now.                      *)
Document(t, e) ==
  CASE tasks[t].cmd.kind \in {"restore", "import", "reindex"} -> tasks[t].before.title[e]
    [] tasks[t].cmd.kind \in {"edit", "reset"} -> tasks[t].cmd.title
    [] tasks[t].cmd.kind = "rewind" /\ store.entry[e] = "live" -> store.title[e]
    [] OTHER -> NoTitle

(* An index that cannot be written is reported with the result of a bulk command; a *)
(* folder's trash, an undo and a redo end in LibraryError.                          *)
WriteIndex(t) ==
  LET c == tasks[t].cmd IN
  /\ tasks[t].phase = "index"
  /\ \/ /\ indexed' = [e \in Entry |-> IF e \in tasks[t].changed THEN Document(t, e)
                                       ELSE indexed[e]]
        /\ Become(t, "end")
     \/ /\ "failure" \in events /\ tasks[t].changed # {}
        /\ UNCHANGED indexed
        /\ Become(t, IF c.kind \in {"trashFolder", "rewind"} THEN "failed" ELSE "end")
  /\ UNCHANGED <<store, lastFolder, historyVars, screenVars, acts, events>>

(* The second snapshot. *)
End(t) ==
  /\ tasks[t].phase = "end"
  /\ tasks' = [tasks EXCEPT ![t].phase = "done", ![t].after = store]
  /\ UNCHANGED <<dataVars, historyVars, screenVars, acts, events>>
-----------------------------------------------------------------------------
(* The messages. *)

Freed(t) == tasks' = [tasks EXCEPT ![t] = FreeTask]

(* Mutant: a branch is hung below the node that was added last. *)
PushAtEnd(before, after) ==
  \/ /\ before # after
     /\ nodes' = Append(nodes, [parent |-> Len(nodes), before |-> before, after |-> after])
     /\ current' = Len(nodes) + 1
  \/ before = after /\ UNCHANGED <<nodes, current>>

(* LibraryHistory::push, which leaves out what changed nothing. *)
Push(before, after) ==
  \/ /\ before # after
     /\ nodes' = Append(nodes, [parent |-> current, before |-> before, after |-> after])
     /\ current' = Len(nodes) + 1
  \/ before = after /\ UNCHANGED <<nodes, current>>

(* LibraryHistoryActionFinished, LibraryClipboardPasteFinished, FolderCreated and *)
(* MetadataEditFinished.                                                          *)
ActionFinished(t) ==
  /\ tasks[t].phase = "done" /\ tasks[t].cmd.kind \in Filed
  /\ Push(tasks[t].before, tasks[t].after)
  /\ Freed(t) /\ refreshes' = refreshes + 1
  /\ UNCHANGED <<dataVars, restoring, loads, shown, acts, events>>

(* Mutant: the library is not read again. *)
UnfiledFinishedUnread(t) ==
  /\ tasks[t].phase = "done" /\ tasks[t].cmd.kind \in Unfiled
  /\ Freed(t)
  /\ UNCHANGED <<dataVars, historyVars, screenVars, acts, events>>

(* BulkOperationFinished, TrashFolderPermanentlyDeleted and the end of an import. *)
UnfiledFinished(t) ==
  /\ tasks[t].phase = "done" /\ tasks[t].cmd.kind \in Unfiled
  /\ Freed(t) /\ refreshes' = refreshes + 1
  /\ UNCHANGED <<dataVars, historyVars, loads, shown, acts, events>>

(* LibraryHistoryRestoreFinished. *)
RestoreFinished(t) ==
  /\ tasks[t].phase = "done" /\ tasks[t].cmd.kind = "rewind"
  /\ current' = tasks[t].cmd.target
  /\ Freed(t) /\ refreshes' = refreshes + 1
  /\ UNCHANGED <<dataVars, nodes, restoring, loads, shown, acts, events>>

(* LibraryError: the library is not read again. *)
TaskFailed(t) ==
  /\ tasks[t].phase = "failed"
  /\ restoring' = FALSE /\ Freed(t)
  /\ UNCHANGED <<dataVars, nodes, current, screenVars, acts, events>>

(* refresh_library and refresh_folders, here one step; the former deletes old trash. *)
Refresh ==
  /\ refreshes > 0 /\ refreshes' = refreshes - 1
  /\ \/ UNCHANGED store
     \/ /\ "expiry" \in events
        /\ \E gone \in SUBSET TrashedEntries(store) : \E old \in SUBSET Trashed(store) :
             store' = Expired(store, gone, old)
  /\ loads' = Append(loads, store')
  /\ UNCHANGED <<indexed, lastFolder, tasks, historyVars, shown, acts, events>>

(* The messages of two refreshes come in either order. *)
LibraryLoaded ==
  \E i \in DOMAIN loads :
    /\ shown' = loads[i] /\ loads' = RemoveAt(loads, i)
    /\ restoring' = FALSE
    /\ UNCHANGED <<dataVars, tasks, nodes, current, refreshes, acts, events>>
-----------------------------------------------------------------------------
OrgInit ==
  /\ store \in Start
  /\ indexed = [e \in Entry |-> IF store.entry[e] = "live" THEN store.title[e] ELSE NoTitle]
  /\ lastFolder = Cardinality(Existing(store))
  /\ tasks = [t \in Slots |-> FreeTask]
  /\ nodes = <<[parent |-> 0, before |-> store, after |-> store]>>
  /\ current = 1 /\ restoring = FALSE
  /\ refreshes = 0 /\ loads = <<>> /\ shown = store
  /\ acts = 0 /\ events \in OrgScenarios

OrgUser(t) ==
  \/ CommandGiven(t) \/ EditGiven(t) \/ ResetGiven(t) \/ ReindexGiven(t)
  \/ RenameFolderGiven(t) \/ OrderGiven(t) \/ TagGiven(t) \/ TagListGiven(t)
  \/ UndoLibraryAction(t) \/ RedoLibraryAction(t)

OrgTask(t) ==
  \/ Begin(t) \/ CreateFolder(t) \/ CopyFolder(t) \/ MoveChecks(t) \/ MoveWrite(t)
  \/ AddToFolder(t) \/ MoveToFolder(t) \/ RemoveFromFolder(t)
  \/ TrashEntries(t) \/ TrashFolder(t) \/ RestoreTree(t) \/ RestoreEntries(t)
  \/ PurgeEntries(t) \/ PurgeFolder(t) \/ EditMetadata(t) \/ ResetMetadata(t)
  \/ ImportEntry(t) \/ Reindex(t) \/ Rewind(t)
  \/ RenameFolder(t) \/ OrderFolders(t) \/ AddTag(t) \/ RemoveTag(t) \/ RenameTag(t)
  \/ DeleteTag(t) \/ SubmitTag(t)
  \/ WriteIndex(t) \/ End(t)

OrgMessage(t) == ActionFinished(t) \/ UnfiledFinished(t) \/ RestoreFinished(t)

OrgNext ==
  \/ Refresh \/ LibraryLoaded
  \/ \E t \in Slots : OrgUser(t) \/ OrgTask(t) \/ OrgMessage(t) \/ TaskFailed(t)

(* Tasks end, and messages are delivered: what goes on, goes on. *)
OrgFairness ==
  WF_orgVars(\/ Refresh \/ LibraryLoaded
             \/ \E t \in Slots : OrgTask(t) \/ OrgMessage(t) \/ TaskFailed(t))

OrgSpec == OrgInit /\ [][OrgNext]_orgVars /\ OrgFairness
-----------------------------------------------------------------------------
OrgTypeOK ==
  /\ store \in Store /\ indexed \in [Entry -> Title \cup {NoTitle}]
  /\ \A m \in store.member : m[1] \in Rows(store) /\ m[2] \in Existing(store)
  /\ \A e \in Entry \ Rows(store) : store.tags[e] = {}
  /\ lastFolder \in 0 .. Cardinality(Folder)
  /\ tasks \in [Slots -> Task]
  /\ nodes \in Seq([parent : Nat, before : Store, after : Store])
  /\ current \in DOMAIN nodes /\ restoring \in BOOLEAN
  /\ \A n \in DOMAIN nodes : nodes[n].parent < n
  /\ refreshes \in Nat /\ loads \in Seq(Store) /\ shown \in Store
  /\ acts \in 0 .. MaxActs[events] /\ events \in OrgScenarios

(* Whatever is created, moved, copied, trashed, restored, purged and undone, in any  *)
(* order, the folders form a forest and a live folder hangs from a live one, so that *)
(* the library screen can reach it (organization.rs: the trash takes and restores    *)
(* "subtrees"). Commands that overlap, and copies pasted while the trash is on the   *)
(* screen, break it.                                                                 *)
TreeSound ==
  events \cap {"overlap", "trashPaste"} = {} =>
    /\ \A X \in SUBSET Existing(store) : X # {} => \E f \in X : store.parent[f] \notin X
    /\ \A f \in Live(store) : store.parent[f] \in Live(store) \cup {Root}

(* Only the trash is ever deleted: no permanent deletion, no expiry and no cascade *)
(* below them takes a live entry or a live folder; an undo may take a folder back. *)
OnlyTrashDeleted ==
  [][events \cap {"overlap", "trashPaste"} = {} =>
       /\ \A e \in LiveEntries(store) : store'.entry[e] # "absent"
       /\ \/ \E t \in Slots : tasks[t].phase = "change" /\ tasks[t].cmd.kind = "rewind"
          \/ \A f \in Live(store) : store'.folder[f] # "absent"]_orgVars

(* The node that is current stands for the library as it is (app.rs: "Index of the    *)
(* node representing the live library organization state"), so that an undo or a redo *)
(* takes back or repeats its own command and nothing else, down every branch. It does *)
(* not hold next to imports, permanent deletions and tags from a card, which are not  *)
(* in the history, nor when the next command does not wait.                           *)
HistoryMatchesStore ==
  (Idle /\ events \cap {"overlap", "failure", "expiry", "import", "purge", "card"} = {}) =>
    /\ nodes[current].after = store
    /\ \A n \in DOMAIN nodes : nodes[n].parent = current => nodes[n].before = store

(* Between commands the index has documents of every live entry, under the name it    *)
(* has, and, but for what is done to entries in the trash, of no other, through       *)
(* trash, restore, purge, expiry, edits and undo. It does not hold next to copies     *)
(* pasted while the trash is on the screen, which are live below a trashed folder and *)
(* have their entries restored with it, but not indexed, nor when an undo meets an    *)
(* entry that was deleted for good and imported again since.                          *)
IndexCoversLibrary ==
  /\ Idle /\ events \cap {"overlap", "failure", "stray", "trashPaste"} = {}
  /\ ~({"undo", "import"} \subseteq events)
  =>
    \A e \in Entry :
      /\ store.entry[e] = "live" => indexed[e] = store.title[e]
      /\ store.entry[e] # "live" /\ "trashEdit" \notin events => indexed[e] = NoTitle

(* What a command, an undo or the expiry of the trash changes has come to the screen *)
(* when nothing is left to do, but for a folder's trash or an undo whose index could *)
(* not be written, after which LibraryError reads nothing, and for two refreshes at  *)
(* once, of which the older may come last.                                           *)
ChangesAreShown ==
  (Quiet /\ events \cap {"failure", "overlap"} = {}) => shown = store
=============================================================================
