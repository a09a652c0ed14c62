---------------------------- MODULE SearchProofs ----------------------------
(* Proofs about Desktop: what is changed comes to the screen, into the index and into   *)
(* the results of a search.                                                             *)
EXTENDS DesktopProofs

(* Commands wait for one another, the index can be written, and the library is read after *)
(* a command and not beside it.                                                            *)
Clean  == events \cap {"overlap", "failure"} = {}
Steady == Clean /\ InTurn

(* The task has changed nothing. *)
Resting(x) ==
  x.phase \in {"free", "begin", "change", "failed"} \/ (x.phase = "write" /\ x.cmd.kind = "move")
Level == refreshes = 0 /\ loads = <<>> /\ \A t \in Slots : Resting(tasks[t])

(* One reading at a time, after the task; what it has read is still so. *)
ShownHeld ==
  /\ refreshes \in {0, 1}
  /\ loads = <<>> \/ (refreshes = 0 /\ loads = <<store>>)
  /\ ~Idle => refreshes = 0 /\ loads = <<>>
  /\ Level => shown = store

ShownInv == Steady => ShownHeld
-----------------------------------------------------------------------------
(* The conditions of ResultsAreCurrent, and what is to be found for a query now. *)
Followed ==
  /\ "leaveTrash" \notin ScreenEvents[events]
  /\ "tag" \in ScreenEvents[events] => events = {}

Sought(s, index, q, trash) ==
  IF trash THEN {e \in TrashedEntries(s) : s.title[e] = q}
  ELSE {e \in LiveEntries(s) : q \in {index[e], s.title[e]}}

Listed(s, index, q, trash) == IF q = NoQuery THEN <<>> ELSE <<Sought(s, index, q, trash)>>

(* A search that is past its debounce is for what is in the box. *)
SearchFields == {"phase", "query", "trash", "found"}
Running(x)   == x.phase \in {"run", "results"}
SearchHeld(x, s, index, q, trash) ==
  /\ x = [c \in SearchFields |-> x[c]]
  /\ x.phase \in {"free", "debounce", "run", "results"}
  /\ x.phase # "free" => x.query # NoQuery
  /\ Running(x) => q # NoQuery /\ x.query = q /\ x.trash = trash
  /\ x.phase = "results" => x.found = Sought(s, index, q, trash)

Pending == \E i \in Searches : searches[i].phase # "free" /\ searches[i].query = query

ResultsHeld ==
  /\ searches = [i \in Searches |-> searches[i]]
  /\ \A i \in Searches : SearchHeld(searches[i], store, indexed, query, trashView)
  /\ (\E i \in Searches : Running(searches[i])) => Quiet
  /\ query # NoQuery => Quiet \/ SearchIdle
  /\ query = NoQuery => results = <<>>
  /\ Level /\ ~Pending => results = Listed(store, indexed, query, trashView)
  /\ savedView # <<>> =>
       \E q : /\ savedView = <<[query |-> q, results |-> Listed(store, indexed, q, trashView)]>>
              /\ "tag" \in ScreenEvents[events]
  /\ events = {} => Idle

ResultsInv == Steady /\ Followed => ResultsHeld
-----------------------------------------------------------------------------
(* When the index covers the library: what is trashed hides nothing live, and an undo *)
(* finds the entries of its node, but for those that are gone for good.               *)
Indexing ==
  Steady /\ events \cap {"stray", "trashPaste"} = {} /\ ~({"undo", "import"} \subseteq events)

(* Of the entries that there are, two snapshots tell the same. *)
Agree(s, y, z) == \A e \in Rows(s) : y.entry[e] = z.entry[e] /\ y.title[e] = z.title[e]

(* Along the nodes of the history the entries that are left changed; the task that is under *)
(* way, in terms of the node that is current.                                              *)
Traces(x, s, now) ==
  LET c == x.cmd IN
  /\ c.kind # "import"
  /\ \/ x.phase \in {"begin", "change", "failed"}
     \/ x.phase = "write" /\ c.kind = "move"
     \/ c.kind \in Unfiled
     => Agree(s, s, now)
  /\ x.phase \notin {"begin", "failed"} => Agree(s, x.before, now)
  /\ x.phase = "done" => x.after = s
  /\ c.kind = "rewind" /\ x.phase # "failed" =>
       Agree(s, IF x.phase \in {"begin", "change"} THEN c.want ELSE s, nodes[c.target].after)

TracedHeld ==
  /\ \A n \in DOMAIN nodes :
       /\ Rows(store) \subseteq Rows(nodes[n].after)
       /\ n # 1 => Agree(store, nodes[n].before, nodes[nodes[n].parent].after)
  /\ Idle => Agree(store, store, nodes[current].after)
  /\ \A t \in Slots : tasks[t].phase # "free" => Traces(tasks[t], store, nodes[current].after)

Tracing   == Steady /\ "import" \notin events
TracedInv == Tracing => TracedHeld

(* What the index has of an entry is right, for the entry as it is. *)
RightFor(e, document) ==
  /\ store.entry[e] = "live" => document = store.title[e]
  /\ store.entry[e] # "live" /\ "trashEdit" \notin events => document = NoTitle

(* The entries that the task has still to index. *)
Due(x) ==
  IF x.phase = "index" \/ (x.phase = "write" /\ x.cmd.kind = "restore") THEN x.changed ELSE {}

(* What a command was given, while its task has not come to it. *)
Given(x) ==
  LET c == x.cmd IN
  /\ c.kind = "restore" => /\ c.entries \subseteq TrashedEntries(store)
                           /\ c.folder \in Trashed(store) \cup {Root}
  /\ c.kind = "trashFolder" => c.entries = {} /\ c.folder \in Existing(store)
  /\ c.kind = "purgeFolder" =>
       /\ c.entries = {}
       /\ MembersOf(store, Subtree(store, Existing(store), c.folder)) \cap LiveEntries(store) = {}
  /\ c.kind \in {"edit", "reset", "reindex"} => c.entries \subseteq Inspected
  /\ c.kind = "reset" => c.title = FileTitle
  /\ c.kind = "rewind" =>
       /\ "undo" \in events /\ Rows(store) \subseteq Rows(c.want)
       /\ \E from : Agree(store, store, from) /\ c.entries = SearchChanged(c.want, from)

(* The task is on its way to an index that is right. *)
Prepared(t) ==
  LET x == tasks[t] IN
  /\ x.phase \in {"begin", "change"} => Given(x)
  /\ x.phase = "change" => x.changed = x.cmd.entries
  /\ x.phase \in {"change", "write", "index"} /\ x.cmd.kind \in {"restore", "import", "reindex"} =>
       x.before.title = store.title
  /\ x.phase = "write" /\ x.cmd.kind = "restore" => x.changed \subseteq Rows(store)
  /\ x.phase = "index" => \A e \in Entry : e \in x.changed => RightFor(e, Document(t, e))

IndexHeld ==
  /\ \A e \in Entry : RightFor(e, indexed[e]) \/ \E t \in Slots : e \in Due(tasks[t])
  /\ \A t \in Slots : Prepared(t)

IndexInv == Indexing => IndexHeld
-----------------------------------------------------------------------------
(* What the steps leave alone. *)
LEMMA TaskFrame == ASSUME NEW t \in Slots, OrgTask(t) PROVE UNCHANGED <<screenVars, events>>
<1>1. ASSUME NEW kind, NEW kept, ChangesMembers(t, kind, kept) PROVE UNCHANGED <<screenVars, events>>
  BY <1>1 DEF ChangesMembers
<1>2. ASSUME NEW kind, NEW new, ChangesRows(t, kind, new) PROVE UNCHANGED <<screenVars, events>>
  BY <1>2 DEF ChangesRows
<1>3. ASSUME NEW kind, NEW new, NEW also, ChangesEntries(t, kind, new, also)
      PROVE  UNCHANGED <<screenVars, events>>
  BY <1>3 DEF ChangesEntries
<1>4. AddToFolder(t) \/ MoveToFolder(t) \/ RemoveFromFolder(t) => UNCHANGED <<screenVars, events>>
  BY <1>1 DEF AddToFolder, MoveToFolder, RemoveFromFolder
<1>5. RenameFolder(t) \/ AddTag(t) \/ RemoveTag(t) \/ RenameTag(t) \/ DeleteTag(t)
        => UNCHANGED <<screenVars, events>>
  BY <1>2 DEF RenameFolder, AddTag, RemoveTag, RenameTag, DeleteTag
<1>6. OrderFolders(t) \/ SubmitTag(t) => UNCHANGED <<screenVars, events>>
  BY <1>2 DEF OrderFolders, SubmitTag
<1>7. TrashEntries(t) \/ TrashFolder(t) \/ PurgeEntries(t) \/ PurgeFolder(t)
        => UNCHANGED <<screenVars, events>>
  BY <1>3 DEF TrashEntries, TrashFolder, PurgeEntries, PurgeFolder
<1>8. EditMetadata(t) \/ ResetMetadata(t) \/ Reindex(t) \/ ImportEntry(t) => UNCHANGED <<screenVars, events>>
  BY <1>3 DEF EditMetadata, ResetMetadata, Reindex, ImportEntry
<1>9. Begin(t) \/ CreateFolder(t) \/ CopyFolder(t) \/ MoveChecks(t) \/ MoveWrite(t)
        => UNCHANGED <<screenVars, events>>
  BY DEF Begin, CreateFolder, CopyFolder, MoveChecks, MoveWrite
<1>10. RestoreTree(t) \/ RestoreEntries(t) \/ Rewind(t) \/ WriteIndex(t) \/ End(t)
         => UNCHANGED <<screenVars, events>>
  BY DEF RestoreTree, RestoreEntries, Rewind, WriteIndex, End
<1> QED BY <1>4, <1>5, <1>6, <1>7, <1>8, <1>9, <1>10 DEF OrgTask

(* A command is given when the library has come to rest, and belongs to the scenario. *)
LEMMA UserFrame ==
  ASSUME NEW t \in Slots, OrgUser(t)
  PROVE  /\ UNCHANGED <<indexed, screenVars>> /\ events # {}
         /\ Quiet \/ "overlap" \in events
<1>1. ASSUME NEW event, NEW cmd, LabelGiven(t, event, cmd)
      PROVE  /\ UNCHANGED <<indexed, screenVars>> /\ events # {}
             /\ Quiet \/ "overlap" \in events
  BY <1>1 DEF LabelGiven, Started, dataVars
<1>2. CASE CommandGiven(t)
  BY <1>2 DEF CommandGiven, Started, dataVars
<1>3. CASE UndoLibraryAction(t) \/ RedoLibraryAction(t)
  BY <1>3 DEF UndoLibraryAction, RedoLibraryAction, Rewinding, Started, dataVars
<1>4. CASE EditGiven(t) \/ ResetGiven(t) \/ ReindexGiven(t)
  BY <1>1, <1>4 DEF EditGiven, ResetGiven, ReindexGiven
<1>5. CASE RenameFolderGiven(t) \/ OrderGiven(t) BY <1>1, <1>5 DEF RenameFolderGiven, OrderGiven
<1>6. CASE TagGiven(t) \/ TagListGiven(t) BY <1>1, <1>6 DEF TagGiven, TagListGiven
<1> QED BY <1>2, <1>3, <1>4, <1>5, <1>6 DEF OrgUser

(* The steps, when no import has been ordered. *)
LEMMA ScreenSteps ==
  ASSUME NoImports, orders = 0, [DesktopNext]_desktopVars
  PROVE  \/ UNCHANGED libraryVars \/ ScreenInput \/ ScreenLoaded
         \/ \E i \in Searches : SearchStep(i)
         \/ \E t \in Slots : LibraryCommand(t)
         \/ /\ UNCHANGED viewVars
            /\ Refresh \/ \E t \in Slots : OrgTask(t) \/ OrgMessage(t) \/ TaskFailed(t)
<1>1. mail = <<>> BY DEF NoImports
<1>2. ~ImportRefreshes /\ ~ImportErrs
  BY <1>1 DEF ImportRefreshes, ImportErrs, RaindropImportFinished, RaindropImportRollbackFinished,
     RaindropImportFailed, Hears
<1>3. CommandErrs => UNCHANGED viewVars /\ \E t \in Slots : TaskFailed(t) BY DEF CommandErrs
<1> QED
  BY <1>2, <1>3 DEF DesktopNext, DesktopUser, DesktopGoesOn, LibraryUser, LibraryGoesOn, desktopVars
-----------------------------------------------------------------------------
LEMMA IndexFrame == ASSUME NEW t \in Slots, OrgTask(t) PROVE UNCHANGED indexed \/ WriteIndex(t)
<1>1. ASSUME NEW kind, NEW kept, ChangesMembers(t, kind, kept) PROVE UNCHANGED indexed
  BY <1>1 DEF ChangesMembers
<1>2. ASSUME NEW kind, NEW new, ChangesRows(t, kind, new) PROVE UNCHANGED indexed
  BY <1>2 DEF ChangesRows
<1>3. ASSUME NEW kind, NEW new, NEW also, ChangesEntries(t, kind, new, also)
      PROVE  UNCHANGED indexed
  BY <1>3 DEF ChangesEntries
<1>4. AddToFolder(t) \/ MoveToFolder(t) \/ RemoveFromFolder(t) => UNCHANGED indexed
  BY <1>1 DEF AddToFolder, MoveToFolder, RemoveFromFolder
<1>5. RenameFolder(t) \/ AddTag(t) \/ RemoveTag(t) \/ RenameTag(t) \/ DeleteTag(t)
        => UNCHANGED indexed
  BY <1>2 DEF RenameFolder, AddTag, RemoveTag, RenameTag, DeleteTag
<1>6. OrderFolders(t) \/ SubmitTag(t) => UNCHANGED indexed
  BY <1>2 DEF OrderFolders, SubmitTag
<1>7. TrashEntries(t) \/ TrashFolder(t) \/ PurgeEntries(t) \/ PurgeFolder(t) => UNCHANGED indexed
  BY <1>3 DEF TrashEntries, TrashFolder, PurgeEntries, PurgeFolder
<1>8. EditMetadata(t) \/ ResetMetadata(t) \/ Reindex(t) \/ ImportEntry(t) => UNCHANGED indexed
  BY <1>3 DEF EditMetadata, ResetMetadata, Reindex, ImportEntry
<1>9. Begin(t) \/ CreateFolder(t) \/ CopyFolder(t) \/ MoveChecks(t) \/ MoveWrite(t)
        => UNCHANGED indexed
  BY DEF Begin, CreateFolder, CopyFolder, MoveChecks, MoveWrite, dataVars
<1>10. RestoreTree(t) \/ RestoreEntries(t) \/ Rewind(t) \/ End(t) => UNCHANGED indexed
  BY DEF RestoreTree, RestoreEntries, Rewind, End, dataVars
<1> QED BY <1>4, <1>5, <1>6, <1>7, <1>8, <1>9, <1>10 DEF OrgTask

(* A task that has changed nothing had changed nothing. *)
LEMMA RestingStep ==
  ASSUME CoreHeld, Clean, NEW t \in Slots, OrgTask(t), Resting(tasks'[t])
  PROVE  Resting(tasks[t]) /\ UNCHANGED <<store, indexed>> /\ tasks[t].phase # "free"
<1>0. TaskHeld(tasks[t], store, lastFolder) BY DEF CoreHeld
<1>1. ~WriteIndex(t)
  <2> SUFFICES ASSUME WriteIndex(t) PROVE FALSE OBVIOUS
  <2>1. Become(t, "end") BY DEF WriteIndex, Clean
  <2>2. tasks'[t].phase = "end" BY <1>0, <2>1 DEF Become, CoreHeld, TaskHeld, TaskFields
  <2> QED BY <2>2 DEF Resting
<1>2. UNCHANGED indexed BY <1>1, IndexFrame
<1>3. CASE Begin(t) BY <1>2, <1>3 DEF Begin, dataVars, Resting
<1>4. CASE End(t)
  <2>1. tasks'[t].phase = "done" BY <1>0, <1>4 DEF End, CoreHeld, TaskHeld, TaskFields
  <2> QED BY <2>1 DEF Resting
<1>5. CASE Rests(t)
  <2>1. /\ UNCHANGED store /\ tasks[t].phase \in {"change", "write", "index"}
        /\ tasks[t].phase = "write" => tasks[t].cmd.kind = "move"
        /\ tasks[t].phase = "index" => tasks'[t].phase \in {"end", "failed"}
        /\ tasks'[t].phase = "failed" =>
             tasks[t].phase \in {"change", "write"} \/ "failure" \in events
    BY <1>5 DEF Rests
  <2>2. tasks[t].phase # "index" BY <2>1 DEF Clean, Resting
  <2> QED BY <1>2, <2>1, <2>2 DEF Resting
<1>6. CASE Alters(t) BY <1>6 DEF Alters, Goes, Resting
<1>7. CASE Rewinds(t) BY <1>7 DEF Rewinds, Goes, Resting
<1> QED BY <1>3, <1>4, <1>5, <1>6, <1>7, TaskSteps

(* An input of the user who waits finds the library at rest, and no search on its way *)
(* that is past its debounce.                                                         *)
LEMMA InputWaits ==
  ASSUME InTurn, NEW kind, Input(kind)
  PROVE  /\ Quiet /\ kind \in ScreenEvents[events]
         /\ \A i \in Searches : searches[i].phase \in {"free", "debounce"}
         /\ kind = "tag" => SearchIdle
BY DEF Input, InTurn, ScreenSettled, SearchIdle, Typing

LEMMA ScreenInputFrame ==
  ASSUME ScreenInput
  PROVE  /\ UNCHANGED <<dataVars, tasks, historyVars, loads, shown, events>>
         /\ UNCHANGED refreshes \/ (OpenTrashCan /\ refreshes' = refreshes + 1)
         /\ \E kind : Input(kind)
BY DEF ScreenInput, SearchQueryChanged, OpenTrashCan, FolderSelected, ClearLibraryFilters,
   TagPillClicked, RestoreLibraryViewBeforeTag, orgVars, screenVars, dataVars, historyVars

LEMMA OneLess ==
  ASSUME NEW s, NEW i \in DOMAIN <<s>> PROVE <<s>>[i] = s /\ RemoveAt(<<s>>, i) = <<>>
<1>1. i = 1 OBVIOUS
<1>2. SubSeq(<<s>>, 1, 0) = <<>> /\ SubSeq(<<s>>, 2, 1) = <<>> OBVIOUS
<1>3. RemoveAt(<<s>>, 1) = SubSeq(<<s>>, 1, 0) \o SubSeq(<<s>>, 2, 1) BY DEF RemoveAt
<1> QED BY <1>1, <1>2, <1>3

(* What comes of a reading, and of what asks for one. *)
LEMMA LoadedStep ==
  ASSUME ShownHeld, LibraryLoaded
  PROVE  /\ Idle /\ refreshes = 0 /\ loads' = <<>> /\ shown' = store
         /\ UNCHANGED <<dataVars, tasks, nodes, current, refreshes, events>>
<1>1. PICK i \in DOMAIN loads : shown' = loads[i] /\ loads' = RemoveAt(loads, i)
  BY DEF LibraryLoaded
<1>2. loads = <<store>> /\ refreshes = 0 /\ Idle BY <1>1 DEF ShownHeld
<1>3. shown' = store /\ loads' = <<>> BY <1>1, <1>2, OneLess
<1> QED BY <1>2, <1>3 DEF LibraryLoaded

LEMMA RefreshStep ==
  ASSUME ShownHeld, Refresh
  PROVE  /\ Idle /\ refreshes' = 0 /\ loads' = <<store'>>
         /\ UNCHANGED <<indexed, lastFolder, tasks, historyVars, shown, events>>
         /\ \/ UNCHANGED store
            \/ /\ "expiry" \in events
               /\ \E gone \in SUBSET TrashedEntries(store) : \E old \in SUBSET Trashed(store) :
                    store' = Expired(store, gone, old)
<1>1. refreshes = 1 /\ loads = <<>> /\ Idle BY DEF Refresh, ShownHeld
<1>2. loads' = Append(<<>>, store') BY <1>1 DEF Refresh
<1> QED BY <1>1, <1>2 DEF Refresh

LEMMA MessageStep ==
  ASSUME CoreHeld, ShownHeld, Alone, NEW t \in Slots, OrgMessage(t)
  PROVE  /\ Idle' /\ refreshes' = 1 /\ loads = <<>> /\ UNCHANGED <<dataVars, loads, shown, events>>
<1>1. /\ tasks[t].phase = "done" /\ Freed(t) /\ refreshes' = refreshes + 1
      /\ UNCHANGED <<dataVars, loads, shown, events>>
  BY DEF OrgMessage, ActionFinished, UnfiledFinished, RestoreFinished
<1>2. refreshes = 0 /\ loads = <<>> BY <1>1 DEF ShownHeld, Idle
<1>3. Idle'
  <2>1. \A r \in Slots \ {t} : tasks[r].phase = "free" BY <1>1, Only DEF CoreHeld
  <2>2. tasks'[t] = FreeTask /\ \A r \in Slots \ {t} : tasks'[r] = tasks[r]
    BY <1>1 DEF Freed, CoreHeld
  <2> QED BY <2>1, <2>2, FreeHeld DEF Idle
<1> QED BY <1>1, <1>2, <1>3

LEMMA FailedStep ==
  ASSUME CoreHeld, ShownHeld, NEW t \in Slots, TaskFailed(t)
  PROVE  /\ Idle' /\ ~Idle /\ UNCHANGED <<dataVars, screenVars, events>>
         /\ Level /\ \A r \in Slots \ {t} : tasks[r].phase = "free"
<1>1. tasks[t].phase = "failed" /\ Freed(t) /\ UNCHANGED <<dataVars, screenVars, events>>
  BY DEF TaskFailed
<1>2. \A r \in Slots \ {t} : tasks[r].phase = "free" BY <1>1, Only DEF CoreHeld
<1>3. tasks'[t] = FreeTask /\ \A r \in Slots \ {t} : tasks'[r] = tasks[r]
  BY <1>1 DEF Freed, CoreHeld
<1>4. Idle' BY <1>2, <1>3, FreeHeld DEF Idle
<1>5. ~Idle BY <1>1 DEF Idle
<1>6. Level BY <1>1, <1>2, <1>5 DEF Level, ShownHeld, Resting
<1> QED BY <1>1, <1>2, <1>4, <1>5, <1>6
-----------------------------------------------------------------------------
(* A task begins, goes on and ends; the others are free. *)
LEMMA UserLevel ==
  ASSUME CoreHeld, Alone, NEW t \in Slots, OrgUser(t)
  PROVE  /\ Quiet /\ Level /\ Level' /\ ~Idle' /\ events # {}
         /\ UNCHANGED <<store, indexed, screenVars, events>>
         /\ tasks'[t].phase = "begin" /\ \A r \in Slots \ {t} : tasks'[r] = tasks[r]
<1>1. Quiet /\ events # {} /\ UNCHANGED <<indexed, screenVars>> BY UserFrame DEF Alone
<1>2. Gives(t) BY UserSteps
<1>3. /\ tasks' = [tasks EXCEPT ![t] = tasks'[t]] /\ tasks'[t].phase = "begin"
      /\ UNCHANGED <<store, events>>
  BY <1>2 DEF Gives
<1>4. \A r \in Slots \ {t} : tasks'[r] = tasks[r] BY <1>3 DEF CoreHeld
<1>5. Level BY <1>1 DEF Quiet, Idle, Level, Resting
<1>6. Level' BY <1>1, <1>3, <1>4 DEF Quiet, Idle, Level, Resting, screenVars
<1> QED BY <1>1, <1>3, <1>4, <1>5, <1>6 DEF Idle

LEMMA TaskLevel ==
  ASSUME CoreHeld, ShownHeld, Clean, NEW t \in Slots, OrgTask(t)
  PROVE  /\ ~Idle /\ ~Idle' /\ UNCHANGED <<screenVars, events>>
         /\ Level' => Level /\ UNCHANGED <<store, indexed>>
         /\ refreshes = 0 /\ loads = <<>>
         /\ \A r \in Slots \ {t} : tasks[r].phase = "free" /\ tasks'[r] = tasks[r]
<1>1. UNCHANGED <<screenVars, events>> BY TaskFrame
<1>2. /\ tasks[t].phase # "free" /\ tasks'[t].phase # "free"
      /\ tasks' = [tasks EXCEPT ![t] = tasks'[t]]
  <2>0. TaskHeld(tasks[t], store, lastFolder) BY DEF CoreHeld
  <2>1. CASE Begin(t) BY <2>0, <2>1 DEF Begin, CoreHeld, TaskHeld, TaskFields
  <2>2. CASE End(t) BY <2>0, <2>2 DEF End, CoreHeld, TaskHeld, TaskFields
  <2>3. CASE Rests(t) BY <2>3 DEF Rests, Goes
  <2>4. CASE Alters(t) BY <2>4 DEF Alters, Goes
  <2>5. CASE Rewinds(t) BY <2>5 DEF Rewinds, Goes
  <2> QED BY <2>1, <2>2, <2>3, <2>4, <2>5, TaskSteps
<1>3. \A r \in Slots \ {t} : tasks[r].phase = "free" /\ tasks'[r] = tasks[r]
  BY <1>2, Only DEF CoreHeld
<1>4. refreshes = 0 /\ loads = <<>> BY <1>2 DEF ShownHeld, Idle
<1>5. ASSUME Level' PROVE Level /\ UNCHANGED <<store, indexed>>
  <2>1. Resting(tasks'[t]) BY <1>5 DEF Level, Resting
  <2>2. Resting(tasks[t]) /\ UNCHANGED <<store, indexed>> BY <2>1, RestingStep
  <2> QED BY <1>3, <1>4, <2>2 DEF Level, Resting
<1> QED BY <1>1, <1>2, <1>3, <1>4, <1>5 DEF Idle

LEMMA ShownStep ==
  ASSUME CoreHeld, NoImports, ShownHeld, Steady, [DesktopNext]_desktopVars
  PROVE  ShownHeld'
<1>0. Clean /\ InTurn /\ Alone /\ orders = 0 BY DEF Steady, Clean, InTurn, Alone
<1>1. CASE UNCHANGED <<store, tasks, screenVars>>
  BY <1>1 DEF ShownHeld, screenVars, Idle, Level, Resting
<1>2. CASE UNCHANGED libraryVars
  BY <1>1, <1>2 DEF libraryVars, orgVars, dataVars
<1>3. CASE ScreenInput
  <2>1. /\ UNCHANGED <<store, tasks, loads, shown>> /\ Quiet
        /\ UNCHANGED refreshes \/ refreshes' = refreshes + 1
    BY <1>0, <1>3, ScreenInputFrame, InputWaits DEF dataVars
  <2>2. CASE UNCHANGED refreshes BY <1>1, <2>1, <2>2 DEF screenVars
  <2>3. CASE refreshes' = refreshes + 1
    BY <2>1, <2>3 DEF ShownHeld, Quiet, Idle, Level
  <2> QED BY <2>1, <2>2, <2>3
<1>4. CASE ScreenLoaded
  <2>1. LibraryLoaded BY <1>4 DEF ScreenLoaded
  <2> QED BY <2>1, LoadedStep DEF ShownHeld, Idle, dataVars
<1>5. CASE \E i \in Searches : SearchStep(i)
  BY <1>1, <1>5 DEF SearchStep, SearchDebounced, SearchRuns, SearchResults, orgVars, dataVars
<1>6. ASSUME NEW t \in Slots, LibraryCommand(t) PROVE ShownHeld'
  <2>1. OrgUser(t) BY <1>6 DEF LibraryCommand
  <2> QED BY <1>0, <2>1, UserLevel DEF ShownHeld, Quiet, screenVars
<1>7. CASE Refresh
  BY <1>7, RefreshStep DEF ShownHeld, Idle, Level
<1>8. ASSUME NEW t \in Slots, OrgTask(t) PROVE ShownHeld'
  <2>1. /\ ~Idle' /\ UNCHANGED screenVars /\ refreshes = 0 /\ loads = <<>>
        /\ Level' => Level /\ UNCHANGED <<store, indexed>>
    BY <1>0, <1>8, TaskLevel
  <2> QED BY <2>1 DEF ShownHeld, screenVars
<1>9. ASSUME NEW t \in Slots, OrgMessage(t) PROVE ShownHeld'
  BY <1>0, <1>9, MessageStep DEF ShownHeld, Level
<1>10. ASSUME NEW t \in Slots, TaskFailed(t) PROVE ShownHeld'
  BY <1>10, FailedStep DEF ShownHeld, screenVars, dataVars, Level
<1> QED BY <1>0, <1>2, <1>3, <1>4, <1>5, <1>6, <1>7, <1>8, <1>9, <1>10, ScreenSteps
-----------------------------------------------------------------------------
(* The search that is asked for waits for its debounce; the others are as they were. *)
LEMMA AskStep ==
  ASSUME searches = [i \in Searches |-> searches[i]], NEW q, q # NoQuery, Ask(q)
  PROVE  /\ searches' = [i \in Searches |-> searches'[i]]
         /\ \E i \in Searches :
              /\ searches[i].phase = "free" /\ searches'[i].phase = "debounce"
              /\ searches'[i].query = q
              /\ \A s, index, box, trash : SearchHeld(searches'[i], s, index, box, trash)
              /\ \A j \in Searches \ {i} : searches'[j] = searches[j]
<1> DEFINE x == [NoSearch EXCEPT !.phase = "debounce", !.query = q]
<1>1. /\ x = [c \in SearchFields |-> x[c]] /\ x.phase = "debounce" /\ x.query = q
  BY DEF NoSearch, SearchFields
<1>2. PICK i \in Searches : searches[i].phase = "free" /\ searches' = [searches EXCEPT ![i] = x]
  BY DEF Ask
<1> HIDE DEF x
<1>3. searches'[i] = x /\ \A j \in Searches \ {i} : searches'[j] = searches[j]
  BY <1>2
<1>4. \A s, index, box, trash : SearchHeld(x, s, index, box, trash)
  BY <1>1 DEF SearchHeld, Running
<1> QED BY <1>1, <1>2, <1>3, <1>4

(* Another query in the box, or another view: what is on its way must still wait. *)
LEMMA SearchWaits ==
  ASSUME NEW x, NEW s, NEW index, NEW q, NEW trash, SearchHeld(x, s, index, q, trash),
         x.phase \in {"free", "debounce"}
  PROVE  \A z, other, box, view : SearchHeld(x, z, other, box, view)
BY DEF SearchHeld, Running

LEMMA SearchStepKeeps ==
  ASSUME ResultsHeld, ShownHeld, NEW i \in Searches, SearchStep(i)
  PROVE  ResultsHeld'
<1> DEFINE x == searches[i]
<1>1. /\ SearchHeld(x, store, indexed, query, trashView)
      /\ searches = [j \in Searches |-> searches[j]]
      /\ UNCHANGED <<orgVars, query, trashView, savedView>>
  BY DEF ResultsHeld, SearchStep, SearchDebounced, SearchRuns, SearchResults
<1>2. UNCHANGED <<store, indexed, tasks, refreshes, loads, events>>
  BY <1>1 DEF orgVars, dataVars, screenVars
<1>3. UNCHANGED <<Quiet, Idle, Level>> BY <1>2 DEF Quiet, Idle, Level, Resting
<1>4. NoSearch = [c \in SearchFields |-> NoSearch[c]] /\ NoSearch.phase = "free"
  BY DEF NoSearch, SearchFields
<1>5. ASSUME NEW y, searches' = [searches EXCEPT ![i] = y],
             SearchHeld(y, store, indexed, query, trashView),
             Running(y) => Quiet, x.phase # "free",
             Level /\ ~Pending' => results' = Listed(store, indexed, query, trashView),
             query = NoQuery => results' = <<>>
      PROVE  ResultsHeld'
  <2>1. searches'[i] = y /\ \A j \in Searches \ {i} : searches'[j] = searches[j]
    BY <1>1, <1>5
  <2>2. searches' = [j \in Searches |-> searches'[j]] BY <1>1, <1>5
  <2>3. \A j \in Searches : SearchHeld(searches'[j], store', indexed', query', trashView')
    BY <1>1, <1>2, <1>5, <2>1 DEF ResultsHeld
  <2>4. (\E j \in Searches : Running(searches'[j])) => Quiet'
    BY <1>3, <1>5, <2>1 DEF ResultsHeld
  <2>5. query' # NoQuery => Quiet' \/ SearchIdle'
    BY <1>1, <1>3, <1>5 DEF ResultsHeld, SearchIdle
  <2>6. Level' /\ ~Pending' => results' = Listed(store', indexed', query', trashView')
    BY <1>1, <1>2, <1>3, <1>5
  <2> QED BY <1>1, <1>2, <1>3, <1>5, <2>2, <2>3, <2>4, <2>5, <2>6 DEF ResultsHeld
<1>6. CASE SearchDebounced(i)
  <2> DEFINE y == [x EXCEPT !.phase = "run", !.trash = trashView]
  <2>1. x.phase = "debounce" /\ UNCHANGED results BY <1>6 DEF SearchDebounced
  <2>2. CASE x.query = query
    <3>1. searches' = [searches EXCEPT ![i] = y] BY <1>6, <2>2 DEF SearchDebounced
    <3>2. /\ y = [c \in SearchFields |-> y[c]] /\ y.phase = "run" /\ y.query = query
          /\ y.trash = trashView
      BY <1>1, <2>2 DEF SearchHeld, SearchFields
    <3> HIDE DEF y
    <3>3. SearchHeld(y, store, indexed, query, trashView)
      BY <1>1, <2>1, <2>2, <3>2 DEF SearchHeld, Running
    <3>4. Quiet BY <1>1, <2>1, <2>2 DEF ResultsHeld, SearchIdle, SearchHeld
    <3>5. Pending' BY <1>1, <3>1, <3>2 DEF Pending
    <3> QED BY <1>1, <1>5, <2>1, <3>1, <3>3, <3>4, <3>5 DEF ResultsHeld
  <2>3. CASE x.query # query
    <3>1. searches' = [searches EXCEPT ![i] = NoSearch] BY <1>6, <2>3 DEF SearchDebounced
    <3>2. SearchHeld(NoSearch, store, indexed, query, trashView) /\ ~Running(NoSearch)
      BY <1>4 DEF SearchHeld, Running
    <3>3. Pending => Pending'
      <4>1. \A j \in Searches \ {i} : searches'[j] = searches[j] BY <1>1, <3>1
      <4> QED BY <1>1, <2>3, <4>1 DEF Pending
    <3> QED BY <1>1, <1>5, <2>1, <3>1, <3>2, <3>3 DEF ResultsHeld
  <2> QED BY <2>2, <2>3
<1>7. CASE SearchRuns(i)
  <2> DEFINE found == Found(x.query, x.trash)
             y == [x EXCEPT !.phase = "results", !.found = found]
  <2>1. x.phase = "run" /\ UNCHANGED results BY <1>7 DEF SearchRuns
  <2>2. x.query = query /\ x.trash = trashView /\ query # NoQuery /\ Quiet
    BY <1>1, <2>1 DEF ResultsHeld, SearchHeld, Running
  <2>3. found = Sought(store, indexed, query, trashView) BY <2>2 DEF Found, Sought
  <2>4. searches' = [searches EXCEPT ![i] = y]
    <3>1. searches' = [searches EXCEPT ![i].phase = "results", ![i].found = found]
      BY <1>7 DEF SearchRuns
    <3> HIDE DEF found
    <3> QED BY <1>1, <3>1
  <2> HIDE DEF found
  <2>5. /\ y = [c \in SearchFields |-> y[c]] /\ y.phase = "results" /\ y.query = query
        /\ y.trash = trashView /\ y.found = found
    BY <1>1, <2>2 DEF SearchHeld, SearchFields
  <2> HIDE DEF y
  <2>6. SearchHeld(y, store, indexed, query, trashView)
    BY <2>2, <2>3, <2>5 DEF SearchHeld, Running
  <2>7. Pending' BY <1>1, <2>4, <2>5 DEF Pending
  <2> QED BY <1>5, <2>1, <2>2, <2>4, <2>6, <2>7
<1>8. CASE SearchResults(i)
  <2>1. x.phase = "results" /\ results' = <<x.found>> /\ searches' = [searches EXCEPT ![i] = NoSearch]
    BY <1>8 DEF SearchResults
  <2>2. query # NoQuery /\ x.found = Sought(store, indexed, query, trashView)
    BY <1>1, <2>1 DEF SearchHeld, Running
  <2>3. SearchHeld(NoSearch, store, indexed, query, trashView) /\ ~Running(NoSearch)
    BY <1>4 DEF SearchHeld, Running
  <2>4. results' = Listed(store, indexed, query, trashView) BY <2>1, <2>2 DEF Listed
  <2> QED BY <1>5, <2>1, <2>2, <2>3, <2>4
<1> QED BY <1>6, <1>7, <1>8 DEF SearchStep
(* While the library is not at rest no search is past its debounce, and a query has none. *)
LEMMA SearchesRest ==
  ASSUME ResultsHeld, ~Quiet
  PROVE  /\ \A i \in Searches : /\ ~Running(searches[i])
                                /\ \A s, index, q, trash : SearchHeld(searches[i], s, index, q, trash)
         /\ query # NoQuery => SearchIdle
<1>1. \A i \in Searches : ~Running(searches[i]) BY DEF ResultsHeld
<1>2. ASSUME NEW i \in Searches
      PROVE  \A s, index, q, trash : SearchHeld(searches[i], s, index, q, trash)
  <2>1. SearchHeld(searches[i], store, indexed, query, trashView) BY DEF ResultsHeld
  <2>2. searches[i].phase \in {"free", "debounce"} BY <1>1, <2>1 DEF SearchHeld, Running
  <2> QED BY <2>1, <2>2, SearchWaits
<1> QED BY <1>1, <1>2 DEF ResultsHeld

(* An input of the user who waits. *)
LEMMA InputKeeps ==
  ASSUME ResultsHeld, Steady, Followed, ScreenInput
  PROVE  ResultsHeld'
<1>1. /\ UNCHANGED <<store, indexed, tasks, loads, shown, events>> /\ Quiet
      /\ \A i \in Searches : searches[i].phase \in {"free", "debounce"}
  BY ScreenInputFrame, InputWaits DEF Steady, dataVars
<1>2. searches = [i \in Searches |-> searches[i]] /\ Level /\ Idle'
  BY <1>1 DEF ResultsHeld, Quiet, Level, Idle, Resting
<1>3. ASSUME NEW i \in Searches
      PROVE  \A s, index, q, trash : SearchHeld(searches[i], s, index, q, trash)
  <2>1. SearchHeld(searches[i], store, indexed, query, trashView) BY DEF ResultsHeld
  <2> QED BY <1>1, <2>1, SearchWaits
<1>4. ASSUME UNCHANGED searches,
             query' # NoQuery => Quiet' /\ (~Pending' => results' = Listed(store, indexed, query', trashView')),
             query' = NoQuery => results' = <<>>,
             savedView' # <<>> =>
               \E q : /\ savedView' = <<[query |-> q, results |-> Listed(store, indexed, q, trashView')]>>
                      /\ "tag" \in ScreenEvents[events]
      PROVE  ResultsHeld'
  <2>1. \A i \in Searches : ~Running(searches'[i]) BY <1>1, <1>4 DEF Running
  <2>2. \A i \in Searches : SearchHeld(searches'[i], store', indexed', query', trashView')
    BY <1>3, <1>4
  <2>3. query' = NoQuery => results' = Listed(store', indexed', query', trashView')
    BY <1>4 DEF Listed
  <2> QED BY <1>1, <1>2, <1>4, <2>1, <2>2, <2>3 DEF ResultsHeld
<1>5. ~(query # NoQuery /\ trashView) => Listed(store, indexed, query, trashView)
                                         = Listed(store, indexed, query, FALSE)
  BY DEF Listed, Sought
<1>6. CASE SearchQueryChanged
  <2>1. PICK q : /\ query' = q
                 /\ \/ q = NoQuery /\ results' = <<>> /\ UNCHANGED searches
                    \/ q # NoQuery /\ Ask(q) /\ UNCHANGED results
    BY <1>6 DEF SearchQueryChanged
  <2>2. UNCHANGED <<orgVars, trashView, savedView>> BY <1>6 DEF SearchQueryChanged
  <2>3. CASE q = NoQuery BY <1>4, <2>1, <2>2, <2>3 DEF ResultsHeld
  <2>4. CASE q # NoQuery
    <3>1. Ask(q) BY <2>1, <2>4
    <3>2. PICK i \in Searches :
            /\ searches'[i].phase = "debounce" /\ searches'[i].query = q
            /\ \A s, index, box, trash : SearchHeld(searches'[i], s, index, box, trash)
            /\ \A j \in Searches \ {i} : searches'[j] = searches[j]
      BY <1>2, <2>4, <3>1, AskStep
    <3>3. searches' = [j \in Searches |-> searches'[j]] BY <1>2, <2>4, <3>1, AskStep
    <3>4. \A j \in Searches :
            /\ ~Running(searches'[j])
            /\ SearchHeld(searches'[j], store', indexed', query', trashView')
      <4> SUFFICES ASSUME NEW j \in Searches
                   PROVE  /\ ~Running(searches'[j])
                          /\ SearchHeld(searches'[j], store', indexed', query', trashView')
        OBVIOUS
      <4>1. CASE j = i BY <3>2, <4>1 DEF Running
      <4>2. CASE j # i BY <1>1, <1>3, <3>2, <4>2 DEF Running
      <4> QED BY <4>1, <4>2
    <3>5. Pending' BY <2>1, <3>2 DEF Pending
    <3>6. Quiet' BY <1>1, <2>2 DEF Quiet, Idle, orgVars, screenVars
    <3> QED BY <1>1, <1>2, <2>1, <2>2, <2>4, <3>3, <3>4, <3>5, <3>6 DEF ResultsHeld
  <2> QED BY <2>3, <2>4
<1>7. CASE OpenTrashCan BY <1>4, <1>7 DEF OpenTrashCan
<1>8. CASE FolderSelected
  <2>1. /\ UNCHANGED <<orgVars, query, results, searches>> /\ savedView' = <<>>
        /\ trashView' = FALSE /\ ~(query # NoQuery /\ trashView)
    BY <1>8 DEF FolderSelected, Followed
  <2>2. UNCHANGED Pending BY <2>1 DEF Pending
  <2>3. ~Pending => results = Listed(store, indexed, query, FALSE)
    BY <1>2, <1>5, <2>1 DEF ResultsHeld
  <2>4. Quiet' BY <1>1, <2>1 DEF Quiet, Idle, orgVars, screenVars
  <2>5. query = NoQuery => results = <<>> BY DEF ResultsHeld
  <2> QED BY <1>4, <2>1, <2>2, <2>3, <2>4, <2>5
<1>9. CASE ClearLibraryFilters BY <1>4, <1>9 DEF ClearLibraryFilters
<1>10. CASE TagPillClicked
  <2>1. SearchIdle /\ "tag" \in ScreenEvents[events]
    BY <1>10, InputWaits DEF TagPillClicked, Steady
  <2>2. ~Pending BY <2>1 DEF SearchIdle, Pending
  <2>3. results = Listed(store, indexed, query, trashView) BY <1>2, <2>2 DEF ResultsHeld
  <2> QED BY <1>4, <1>10, <2>1, <2>3 DEF TagPillClicked
<1>11. CASE RestoreLibraryViewBeforeTag
  <2>1. /\ UNCHANGED <<orgVars, trashView, searches>> /\ savedView # <<>> /\ savedView' = <<>>
        /\ query' = savedView[1].query /\ results' = savedView[1].results
    BY <1>11 DEF RestoreLibraryViewBeforeTag
  <2>2. PICK q : savedView = <<[query |-> q, results |-> Listed(store, indexed, q, trashView)]>>
    BY <2>1 DEF ResultsHeld
  <2>3. query' = q /\ results' = Listed(store, indexed, q, trashView) BY <2>1, <2>2
  <2>4. Quiet' BY <1>1, <2>1 DEF Quiet, Idle, orgVars, screenVars
  <2>5. q = NoQuery => results' = <<>> BY <2>3 DEF Listed
  <2> QED BY <1>4, <2>1, <2>3, <2>4, <2>5
<1> QED BY <1>6, <1>7, <1>8, <1>9, <1>10, <1>11 DEF ScreenInput

LEMMA LoadedKeeps ==
  ASSUME ResultsHeld, ShownHeld, ScreenLoaded
  PROVE  ResultsHeld'
<1>1. /\ Idle /\ refreshes = 0 /\ loads' = <<>>
      /\ UNCHANGED <<store, indexed, tasks, refreshes, events, query, results, trashView, savedView>>
      /\ \/ query # NoQuery /\ Ask(query)
         \/ query = NoQuery /\ UNCHANGED searches
  BY LoadedStep DEF ScreenLoaded, dataVars
<1>2. Idle' /\ Quiet' BY <1>1 DEF Quiet, Idle
<1>3. ~Quiet
  <2>1. DOMAIN loads # {} BY DEF ScreenLoaded, LibraryLoaded
  <2> QED BY <2>1 DEF Quiet
<1>4. searches = [i \in Searches |-> searches[i]] BY DEF ResultsHeld
<1>5. CASE query = NoQuery
  <2>1. UNCHANGED searches BY <1>1, <1>5
  <2>2. results' = <<>> BY <1>1, <1>5 DEF ResultsHeld
  <2>3. \A i \in Searches : /\ ~Running(searches'[i])
                            /\ SearchHeld(searches'[i], store', indexed', query', trashView')
    BY <1>3, <2>1, SearchesRest
  <2>4. results' = Listed(store', indexed', query', trashView') BY <1>1, <1>5, <2>2 DEF Listed
  <2> QED BY <1>1, <1>2, <1>4, <2>1, <2>2, <2>3, <2>4 DEF ResultsHeld
<1>6. CASE query # NoQuery
  <2>1. Ask(query) BY <1>1, <1>6
  <2>2. PICK i \in Searches :
          /\ searches'[i].phase = "debounce" /\ searches'[i].query = query
          /\ \A s, index, box, trash : SearchHeld(searches'[i], s, index, box, trash)
          /\ \A j \in Searches \ {i} : searches'[j] = searches[j]
    BY <1>4, <1>6, <2>1, AskStep
  <2>3. searches' = [j \in Searches |-> searches'[j]] BY <1>4, <1>6, <2>1, AskStep
  <2>4. \A j \in Searches :
          /\ ~Running(searches'[j])
          /\ SearchHeld(searches'[j], store', indexed', query', trashView')
    <3> SUFFICES ASSUME NEW j \in Searches
                 PROVE  /\ ~Running(searches'[j])
                        /\ SearchHeld(searches'[j], store', indexed', query', trashView')
      OBVIOUS
    <3>1. CASE j = i BY <2>2, <3>1 DEF Running
    <3>2. CASE j # i
      <4>1. /\ ~Running(searches[j])
            /\ SearchHeld(searches[j], store', indexed', query', trashView')
        BY <1>3, SearchesRest
      <4> QED BY <2>2, <3>2, <4>1
    <3> QED BY <3>1, <3>2
  <2>5. Pending' BY <1>1, <2>2 DEF Pending
  <2> QED BY <1>1, <1>2, <1>6, <2>3, <2>4, <2>5 DEF ResultsHeld
<1> QED BY <1>5, <1>6

LEMMA ResultsStep ==
  ASSUME CoreHeld, NoImports, ShownHeld, ResultsHeld, Steady, Followed,
         [DesktopNext]_desktopVars
  PROVE  ResultsHeld'
<1>0. Clean /\ InTurn /\ Alone /\ orders = 0 BY DEF Steady, Clean, InTurn, Alone
<1>1. events # {} => savedView = <<>> BY DEF ResultsHeld, Followed
<1>2. ASSUME ~Quiet, UNCHANGED viewVars, UNCHANGED events, events = {} => Idle',
             events = {} => UNCHANGED <<store, indexed>>,
             Level' => Level /\ UNCHANGED <<store, indexed>>
      PROVE  ResultsHeld'
  <2>1. UNCHANGED <<query, results, trashView, savedView, searches>> BY <1>2 DEF viewVars
  <2>2. UNCHANGED Pending BY <2>1 DEF Pending
  <2>3. \A i \in Searches : /\ ~Running(searches'[i])
                            /\ SearchHeld(searches'[i], store', indexed', query', trashView')
    BY <1>2, <2>1, SearchesRest
  <2>4. query # NoQuery => SearchIdle' BY <1>2, <2>1, SearchesRest DEF SearchIdle
  <2>5. Level' /\ ~Pending' => results' = Listed(store', indexed', query', trashView')
    BY <1>2, <2>1, <2>2 DEF ResultsHeld
  <2>6. savedView' # <<>> => UNCHANGED <<store, indexed>> BY <1>1, <1>2, <2>1
  <2>7. savedView' # <<>> =>
          \E q : /\ savedView' = <<[query |-> q, results |-> Listed(store', indexed', q, trashView')]>>
                 /\ "tag" \in ScreenEvents[events']
    BY <1>2, <2>1, <2>6 DEF ResultsHeld
  <2> QED BY <1>2, <2>1, <2>3, <2>4, <2>5, <2>7 DEF ResultsHeld
<1>3. CASE UNCHANGED libraryVars
  BY <1>3 DEF libraryVars, orgVars, dataVars, screenVars, viewVars, ResultsHeld, SearchHeld, Running,
     Quiet, Idle, SearchIdle, Level, Resting, Pending
<1>4. CASE ScreenInput BY <1>4, InputKeeps
<1>5. CASE ScreenLoaded BY <1>5, LoadedKeeps
<1>6. ASSUME NEW i \in Searches, SearchStep(i) PROVE ResultsHeld' BY <1>6, SearchStepKeeps
<1>7. ASSUME NEW t \in Slots, LibraryCommand(t) PROVE ResultsHeld'
  <2>1. SearchIdle /\ OrgUser(t) /\ UNCHANGED viewVars BY <1>0, <1>7 DEF LibraryCommand, Alone
  <2>2. Level /\ events # {} /\ UNCHANGED <<store, indexed, events>> BY <1>0, <2>1, UserLevel
  <2>3. UNCHANGED <<query, results, trashView, savedView, searches>> BY <2>1 DEF viewVars
  <2>4. UNCHANGED <<Pending, SearchIdle>> BY <2>3 DEF Pending, SearchIdle
  <2>5. \A i \in Searches : /\ ~Running(searches'[i])
                            /\ SearchHeld(searches'[i], store', indexed', query', trashView')
    <3>1. \A i \in Searches : searches[i].phase = "free" BY <2>1 DEF SearchIdle
    <3>2. \A i \in Searches : ~Running(searches[i]) BY <3>1 DEF Running
    <3> QED BY <2>2, <2>3, <3>2 DEF ResultsHeld
  <2> QED BY <1>1, <2>1, <2>2, <2>3, <2>4, <2>5 DEF ResultsHeld
<1>8. ASSUME UNCHANGED viewVars, Refresh PROVE ResultsHeld'
  <2>1. /\ Idle /\ loads' = <<store'>> /\ UNCHANGED <<indexed, tasks, events>>
        /\ events = {} => UNCHANGED store
    BY <1>8, RefreshStep
  <2>2. ~Quiet /\ ~Level' /\ Idle' BY <1>8, <2>1 DEF Refresh, Quiet, Level, Idle
  <2> QED BY <1>2, <1>8, <2>1, <2>2
<1>9. ASSUME UNCHANGED viewVars, NEW t \in Slots, OrgTask(t) PROVE ResultsHeld'
  <2>1. ~Idle /\ UNCHANGED events /\ (Level' => Level /\ UNCHANGED <<store, indexed>>)
    BY <1>0, <1>9, TaskLevel
  <2>2. ~Quiet /\ events # {} BY <2>1 DEF Quiet, ResultsHeld
  <2> QED BY <1>2, <1>9, <2>1, <2>2
<1>10. ASSUME UNCHANGED viewVars, NEW t \in Slots, OrgMessage(t) PROVE ResultsHeld'
  <2>1. Idle' /\ refreshes' = 1 /\ UNCHANGED <<store, indexed, events>>
    BY <1>0, <1>10, MessageStep DEF dataVars
  <2>2. ~Idle
    BY <1>10 DEF OrgMessage, ActionFinished, UnfiledFinished, RestoreFinished, Idle
  <2>3. ~Quiet /\ ~Level' BY <2>1, <2>2 DEF Quiet, Level
  <2> QED BY <1>2, <1>10, <2>1, <2>3
<1>11. ASSUME UNCHANGED viewVars, NEW t \in Slots, TaskFailed(t) PROVE ResultsHeld'
  <2>1. Idle' /\ ~Idle /\ Level /\ UNCHANGED <<store, indexed, events>>
    BY <1>11, FailedStep DEF dataVars
  <2>2. ~Quiet BY <2>1 DEF Quiet
  <2> QED BY <1>2, <1>11, <2>1, <2>2
<1> QED
  BY <1>0, <1>3, <1>4, <1>5, <1>6, <1>7, <1>8, <1>9, <1>10, <1>11, ScreenSteps
-----------------------------------------------------------------------------
(* The calls that leave the entries, and what they are called, alone. *)
SameEntries(s, z) == z.entry = s.entry /\ z.title = s.title

LEMMA CallsKeepEntries ==
  ASSUME NEW s, Shaped(s)
  PROVE  /\ \A p, f : SameEntries(s, Created(s, p, f)) /\ SameEntries(s, Moved(s, f, p))
         /\ \A f, p, last : SameEntries(s, CopiedSubtree(s, f, p, last))
         /\ \A f, name : SameEntries(s, Renamed(s, f, name))
         /\ \A list : SameEntries(s, InOrder(s, list))
         /\ \A members : SameEntries(s, [s EXCEPT !.member = members])
         /\ \A entries, tag : SameEntries(s, Tagged(s, entries, tag))
         /\ \A entries, tag : SameEntries(s, Untagged(s, entries, tag))
         /\ \A old, new : SameEntries(s, TagRenamed(s, old, new))
<1>1. {"entry", "title", "tags"} \subseteq DOMAIN s BY DEF Shaped, Columns
<1>2. \A p, f : SameEntries(s, Created(s, p, f)) /\ SameEntries(s, Moved(s, f, p))
  BY <1>1 DEF SameEntries, Created, Moved
<1>3. \A f, p, last : SameEntries(s, CopiedSubtree(s, f, p, last))
  BY <1>1 DEF SameEntries, CopiedSubtree
<1>4. /\ \A f, name : SameEntries(s, Renamed(s, f, name))
      /\ \A list : SameEntries(s, InOrder(s, list))
      /\ \A members : SameEntries(s, [s EXCEPT !.member = members])
  BY <1>1 DEF SameEntries, Renamed, InOrder
<1>5. \A z : {"entry", "title", "tags"} \subseteq DOMAIN z =>
        \A entries, tag : SameEntries(z, Tagged(z, entries, tag)) /\ SameEntries(z, Untagged(z, entries, tag))
  BY DEF SameEntries, Tagged, Untagged
<1>6. \A entries, tag : DOMAIN Tagged(s, entries, tag) = DOMAIN s BY DEF Tagged
<1>7. \A old, new : SameEntries(s, TagRenamed(s, old, new))
  BY <1>1, <1>5, <1>6 DEF TagRenamed, SameEntries
<1> QED BY <1>1, <1>2, <1>3, <1>4, <1>5, <1>7

(* The steps that change what only the lists of folders, members and tags show. *)
Minor(t) ==
  \/ CreateFolder(t) \/ CopyFolder(t) \/ MoveChecks(t) \/ MoveWrite(t)
  \/ AddToFolder(t) \/ MoveToFolder(t) \/ RemoveFromFolder(t)
  \/ RenameFolder(t) \/ OrderFolders(t) \/ AddTag(t) \/ RemoveTag(t) \/ RenameTag(t)
  \/ DeleteTag(t) \/ SubmitTag(t)

LEMMA MinorStep ==
  ASSUME CoreHeld, NEW t \in Slots, Minor(t)
  PROVE  /\ SameEntries(store, store')
         /\ tasks[t].phase = "change" \/ (tasks[t].phase = "write" /\ tasks[t].cmd.kind = "move")
         /\ tasks'[t].phase \in {"end", "failed"}
              \/ (tasks'[t].phase = "write" /\ tasks'[t].cmd.kind = "move")
<1> DEFINE P == /\ SameEntries(store, store')
                /\ tasks[t].phase = "change"
                     \/ (tasks[t].phase = "write" /\ tasks[t].cmd.kind = "move")
                /\ tasks'[t].phase \in {"end", "failed"}
                     \/ (tasks'[t].phase = "write" /\ tasks'[t].cmd.kind = "move")
<1>0. Shaped(store) /\ SameEntries(store, store) BY DEF CoreHeld, SameEntries
<1>1. \A phase : Become(t, phase) => tasks'[t].phase = phase /\ tasks'[t].cmd = tasks[t].cmd
  BY DEF Become, CoreHeld, TaskHeld, TaskFields
<1>2. TaskFails(t) => SameEntries(store, store') /\ tasks'[t].phase = "failed"
  BY <1>0, <1>1 DEF TaskFails
<1>3. ASSUME NEW kind, NEW kept, ChangesMembers(t, kind, kept) PROVE P
  <2>1. store' = store \/ \E members : store' = [store EXCEPT !.member = members]
    BY <1>3 DEF ChangesMembers
  <2>2. SameEntries(store, store') BY <1>0, <2>1, CallsKeepEntries
  <2> QED BY <1>1, <1>3, <2>2 DEF ChangesMembers, InChange
<1>4. ASSUME NEW kind, NEW new, ChangesRows(t, kind, new), SameEntries(store, new) PROVE P
  BY <1>1, <1>4 DEF ChangesRows, InChange
<1>5. CASE CreateFolder(t)
  BY <1>0, <1>1, <1>2, <1>5, CallsKeepEntries DEF CreateFolder, InChange
<1>6. CASE CopyFolder(t)
  BY <1>0, <1>1, <1>2, <1>6, CallsKeepEntries DEF CopyFolder, InChange
<1>7. CASE MoveChecks(t)
  <2>1. tasks[t].phase = "change" /\ tasks[t].cmd.kind = "move" /\ UNCHANGED store
    BY <1>7 DEF MoveChecks, InChange, TaskFails
  <2>2. tasks'[t].phase = "failed" \/ (tasks'[t].phase = "write" /\ tasks'[t].cmd = tasks[t].cmd)
    BY <1>1, <1>2, <1>7 DEF MoveChecks
  <2> QED BY <1>0, <2>1, <2>2
<1>8. CASE MoveWrite(t) BY <1>0, <1>1, <1>8, CallsKeepEntries DEF MoveWrite
<1>9. CASE AddToFolder(t) \/ MoveToFolder(t) \/ RemoveFromFolder(t)
  BY <1>3, <1>9 DEF AddToFolder, MoveToFolder, RemoveFromFolder
<1>10. CASE RenameFolder(t) BY <1>0, <1>4, <1>10, CallsKeepEntries DEF RenameFolder
<1>11. CASE OrderFolders(t)
  BY <1>0, <1>2, <1>4, <1>11, CallsKeepEntries DEF OrderFolders, InChange
<1>12. CASE AddTag(t) BY <1>0, <1>4, <1>12, CallsKeepEntries DEF AddTag
<1>13. CASE RemoveTag(t) BY <1>0, <1>4, <1>13, CallsKeepEntries DEF RemoveTag
<1>14. CASE RenameTag(t) BY <1>0, <1>4, <1>14, CallsKeepEntries DEF RenameTag
<1>15. CASE DeleteTag(t) BY <1>0, <1>4, <1>15, CallsKeepEntries DEF DeleteTag
<1>16. CASE SubmitTag(t)
  BY <1>0, <1>2, <1>4, <1>16, CallsKeepEntries DEF SubmitTag, InChange
<1> QED
  BY <1>5, <1>6, <1>7, <1>8, <1>9, <1>10, <1>11, <1>12, <1>13, <1>14, <1>15, <1>16 DEF Minor
-----------------------------------------------------------------------------
(* The other task is free, and its entries are not due. *)
LEMMA IndexBy ==
  ASSUME NEW t \in Slots, \A r \in Slots \ {t} : tasks'[r].phase = "free", Prepared(t)',
         \A e \in Entry : RightFor(e, indexed[e])' \/ e \in Due(tasks[t])'
  PROVE  IndexHeld'
<1>1. \A r \in Slots \ {t} : Prepared(r)' BY DEF Prepared
<1> QED BY <1>1 DEF IndexHeld

LEMMA DueNow ==
  ASSUME IndexHeld, NEW t \in Slots, \A r \in Slots \ {t} : tasks[r].phase = "free",
         NEW e \in Entry, e \notin Due(tasks[t])
  PROVE  RightFor(e, indexed[e])
BY DEF IndexHeld, Due

(* The entries keep what the index has of them, and no entry becomes due. *)
LEMMA IndexKept ==
  ASSUME IndexHeld, NEW t \in Slots, Due(tasks[t]) = {},
         \A r \in Slots \ {t} : tasks[r].phase = "free" /\ tasks'[r].phase = "free",
         SameEntries(store, store'), UNCHANGED <<indexed, events>>, Prepared(t)'
  PROVE  IndexHeld'
<1>1. \A e \in Entry : RightFor(e, indexed[e]) BY DueNow
<1>2. \A e \in Entry : RightFor(e, indexed[e])' BY <1>1 DEF RightFor, SameEntries
<1> QED BY <1>2, IndexBy

(* A task has changed entries and is about to index them. *)
LEMMA IndexBegins ==
  ASSUME IndexHeld, NEW t \in Slots,
         \A r \in Slots \ {t} : tasks[r].phase = "free" /\ tasks'[r].phase = "free",
         UNCHANGED <<indexed, events>>, tasks'[t].phase = "index",
         tasks[t].phase = "change" \/ (tasks[t].phase = "write" /\ tasks'[t].changed = tasks[t].changed),
         tasks'[t].cmd.kind \in {"restore", "import", "reindex"} =>
           tasks'[t].before.title = store'.title,
         \A e \in Entry : e \in tasks'[t].changed => RightFor(e, Document(t, e))',
         \A e \in Entry : e \notin tasks'[t].changed =>
           /\ store.entry[e] = "live" <=> store'.entry[e] = "live"
           /\ store'.entry[e] = "live" => store'.title[e] = store.title[e]
  PROVE  IndexHeld'
<1>1. ASSUME NEW e \in Entry, e \notin tasks'[t].changed PROVE RightFor(e, indexed[e])'
  <2>1. e \notin Due(tasks[t]) BY <1>1 DEF Due
  <2>2. RightFor(e, indexed[e]) BY <2>1, DueNow
  <2> QED BY <1>1, <2>2 DEF RightFor
<1>2. Prepared(t)' BY DEF Prepared
<1> QED BY <1>1, <1>2, IndexBy DEF Due

(* What the calls make of the entries. *)
LEMMA SetEntriesEntry ==
  ASSUME NEW s, Shaped(s), NEW entries, NEW status
  PROVE  LET z == SetEntries(s, entries, status) IN
         /\ z.entry = [e \in Entry |-> IF e \in entries \cap Rows(s) THEN status ELSE s.entry[e]]
         /\ z.title = s.title
BY DEF Shaped, Columns, SetEntries

LEMMA TrashedEntry ==
  ASSUME NEW s, Shaped(s), NEW f \in Existing(s)
  PROVE  LET z  == TrashedTree(s, f)
             es == MembersOf(s, Subtree(s, Live(s), f))
         IN /\ z.entry = [e \in Entry |-> IF e \in es \cap Rows(s) THEN "trashed" ELSE s.entry[e]]
            /\ z.title = s.title
<1> DEFINE sub == Subtree(s, Live(s), f)
           y   == SetFolders(s, sub, "trashed")
           z   == TrashedTree(s, f)
<1>1. Live(s) \in SUBSET Folder /\ f \in Folder BY DEF Live, Trashed, Existing
<1>2. sub \cap Existing(s) = sub
  <2>1. \A g \in sub : g # f => g \in Live(s) BY <1>1, SubtreeMember
  <2> QED BY <2>1 DEF Existing
<1>3. z = SetEntries(y, MembersOf(s, sub), "trashed") BY <1>2 DEF TrashedTree
<1> HIDE DEF sub, z
<1>4. "trashed" \in Status BY DEF Status
<1>5. /\ Shaped(y) /\ y.parent = s.parent /\ y.entry = s.entry
      /\ y.title = s.title /\ y.tags = s.tags
      /\ y.folder = [g \in Folder |-> IF g \in sub THEN "trashed" ELSE s.folder[g]]
  BY <1>4, SetFoldersFields
<1> HIDE DEF y
<1>6. Rows(y) = Rows(s) BY <1>5 DEF Rows, LiveEntries, TrashedEntries
<1>7. /\ z.entry = [e \in Entry |-> IF e \in MembersOf(s, sub) \cap Rows(y) THEN "trashed"
                                    ELSE y.entry[e]]
      /\ z.title = y.title
  BY <1>3, <1>5, SetEntriesEntry
<1> QED BY <1>5, <1>6, <1>7 DEF z, sub

LEMMA RestoredEntry ==
  ASSUME NEW s, Shaped(s), Hung(s), NEW f \in Trashed(s)
  PROVE  LET z  == RestoredTree(s, f)
             es == MembersOf(s, Subtree(s, Trashed(s), f))
         IN /\ z.entry = [e \in Entry |-> IF e \in es \cap Rows(s) THEN "live" ELSE s.entry[e]]
            /\ z.title = s.title
<1> DEFINE sub == Subtree(s, Existing(s), f)
           low == Subtree(s, Trashed(s), f)
           up  == IF s.parent[f] \in Live(s) \cup {Root} THEN s.parent[f] ELSE Root
           y   == SetFolders(s, sub, "live")
           x   == SetEntries(y, MembersOf(s, sub), "live")
           z   == RestoredTree(s, f)
<1>1. /\ Existing(s) \in SUBSET Folder /\ Trashed(s) \in SUBSET Existing(s)
      /\ Trashed(s) \in SUBSET Folder /\ f \in Folder /\ f \in Existing(s)
  BY DEF Live, Trashed, Existing
<1>2. sub = low
  <2>1. low \subseteq sub BY <1>1, SubtreeShrinks
  <2>2. low \subseteq Trashed(s) BY <2>1, TrashedBelow
  <2>3. Root \notin Trashed(s) /\ \A h \in Live(s) : h \notin Trashed(s)
    BY FolderIds DEF Trashed, Live, Root
  <2>4. Closed(s, Trashed(s), low) BY <1>1, SubtreeClosed
  <2>5. Closed(s, Existing(s), low) BY <2>2, <2>3, <2>4 DEF Closed, Existing, Hung
  <2>6. f \in low /\ low \in SUBSET Folder BY <1>1, SubtreeRoot DEF Subtree
  <2>7. sub \subseteq low BY <1>1, <2>5, <2>6, SubtreeLeast
  <2> QED BY <2>1, <2>7
<1>3. z = [x EXCEPT !.parent[f] = up] BY <1>1 DEF RestoredTree
<1> HIDE DEF sub, low, up, z
<1>4. "live" \in Status BY DEF Status
<1>5. /\ Shaped(y) /\ y.parent = s.parent /\ y.entry = s.entry
      /\ y.title = s.title /\ y.tags = s.tags
      /\ y.folder = [g \in Folder |-> IF g \in sub THEN "live" ELSE s.folder[g]]
  BY <1>4, SetFoldersFields
<1> HIDE DEF y
<1>6. Rows(y) = Rows(s) BY <1>5 DEF Rows, LiveEntries, TrashedEntries
<1>7. /\ x.entry = [e \in Entry |-> IF e \in MembersOf(s, sub) \cap Rows(y) THEN "live"
                                    ELSE y.entry[e]]
      /\ x.title = y.title /\ Shaped(x)
  BY <1>5, SetEntriesEntry, SetEntriesFields
<1> HIDE DEF x
<1>8. z.entry = x.entry /\ z.title = x.title BY <1>3, <1>7 DEF Shaped, Columns
<1> QED BY <1>2, <1>5, <1>6, <1>7, <1>8 DEF z, low

LEMMA DeletedEntry ==
  ASSUME NEW s, Shaped(s), NEW es, NEW gone
  PROVE  LET z == WithoutFolders(WithoutEntries(s, es), gone) IN
         /\ z.entry = [e \in Entry |-> IF e \in es THEN "absent" ELSE s.entry[e]]
         /\ z.title = s.title
<1> DEFINE y == WithoutEntries(s, es)
<1>1. /\ Shaped(y) /\ SameFolders(s, y)
      /\ y.entry = [e \in Entry |-> IF e \in es THEN "absent" ELSE s.entry[e]]
  BY WithoutEntriesFields
<1>2. y.title = s.title BY DEF WithoutEntries, Shaped, Columns
<1> HIDE DEF y
<1>3. WithoutFolders(y, gone).entry = y.entry /\ WithoutFolders(y, gone).title = y.title
  BY <1>1, WithoutFoldersFields
<1> QED BY <1>1, <1>2, <1>3 DEF y
-----------------------------------------------------------------------------
(* The commands that change entries: what they index is what they have made. *)
LEMMA EntriesIndexed ==
  ASSUME CoreHeld, IndexHeld, NEW t \in Slots,
         \A r \in Slots \ {t} : tasks[r].phase = "free" /\ tasks'[r].phase = "free",
         \/ TrashEntries(t) \/ TrashFolder(t) \/ PurgeEntries(t) \/ PurgeFolder(t)
         \/ EditMetadata(t) \/ ResetMetadata(t) \/ Reindex(t) \/ ImportEntry(t)
  PROVE  IndexHeld'
<1> DEFINE c == tasks[t].cmd
           given == tasks[t].phase = "change" => Given(tasks[t])
<1>0. Shaped(store) /\ TaskHeld(tasks[t], store, lastFolder) /\ Prepared(t)
  BY DEF CoreHeld, IndexHeld
<1>g. given BY <1>0 DEF Prepared
<1>1. ASSUME NEW kind, kind \notin {"restore", "rewind"}, NEW new, NEW also,
             ChangesEntries(t, kind, new, also),
             kind \in {"import", "reindex"} => new.title = store.title,
             \A e \in Entry : e \in c.entries \cup also =>
               LET document == IF kind \in {"import", "reindex"} THEN store.title[e]
                               ELSE IF kind \in {"edit", "reset"} THEN c.title ELSE NoTitle
               IN /\ new.entry[e] = "live" => document = new.title[e]
                  /\ new.entry[e] # "live" /\ "trashEdit" \notin events => document = NoTitle,
             \A e \in Entry : e \notin c.entries \cup also =>
               /\ store.entry[e] = "live" <=> new.entry[e] = "live"
               /\ new.entry[e] = "live" => new.title[e] = store.title[e]
      PROVE  IndexHeld'
  <2>1. /\ tasks[t].phase = "change" /\ c.kind = kind /\ store' = new
        /\ tasks' = [tasks EXCEPT ![t].phase = "index", ![t].changed = @ \cup also]
        /\ UNCHANGED <<indexed, events>>
    BY <1>1 DEF ChangesEntries, InChange
  <2>2. /\ tasks'[t].phase = "index" /\ tasks'[t].cmd = c /\ tasks'[t].before = tasks[t].before
        /\ tasks'[t].changed = tasks[t].changed \cup also
    BY <1>0, <2>1 DEF CoreHeld, TaskHeld, TaskFields
  <2>3. /\ tasks[t].changed = c.entries
        /\ kind \in {"import", "reindex"} => tasks[t].before.title = store.title
    BY <1>0, <2>1 DEF Prepared
  <2>4. \A e \in Entry : e \in tasks'[t].changed => RightFor(e, Document(t, e))'
    <3> SUFFICES ASSUME NEW e \in Entry, e \in c.entries \cup also
                 PROVE  RightFor(e, Document(t, e))'
      BY <2>2, <2>3
    <3>1. Document(t, e)' = IF kind \in {"import", "reindex"} THEN store.title[e]
                            ELSE IF kind \in {"edit", "reset"} THEN c.title ELSE NoTitle
      BY <1>1, <2>1, <2>2, <2>3 DEF Document
    <3> QED BY <1>1, <2>1, <3>1 DEF RightFor
  <2>5. tasks'[t].cmd.kind \in {"restore", "import", "reindex"} =>
          tasks'[t].before.title = store'.title
    BY <1>1, <2>1, <2>2, <2>3
  <2>6. \A e \in Entry : e \notin tasks'[t].changed =>
           /\ store.entry[e] = "live" <=> store'.entry[e] = "live"
           /\ store'.entry[e] = "live" => store'.title[e] = store.title[e]
    BY <1>1, <2>1, <2>2, <2>3
  <2> QED BY <2>1, <2>2, <2>4, <2>5, <2>6, IndexBegins
<1>2. CASE TrashEntries(t)
  <2> DEFINE z == SetEntries(store, c.entries, "trashed")
  <2>1. ChangesEntries(t, "trash", z, {}) BY <1>2 DEF TrashEntries
  <2>2. /\ z.entry = [e \in Entry |-> IF e \in c.entries \cap Rows(store) THEN "trashed"
                                      ELSE store.entry[e]]
        /\ z.title = store.title
    BY <1>0, SetEntriesEntry
  <2> HIDE DEF z
  <2> QED BY <1>1, <2>1, <2>2 DEF Rows, LiveEntries, TrashedEntries
<1>3. CASE TrashFolder(t)
  <2> DEFINE z  == TrashedTree(store, c.folder)
             es == MembersOf(store, Subtree(store, Live(store), c.folder))
  <2>1. ChangesEntries(t, "trashFolder", z, es) BY <1>3 DEF TrashFolder
  <2>2. c.entries = {} /\ c.folder \in Existing(store)
    BY <1>g, <2>1 DEF ChangesEntries, InChange, Given
  <2>3. /\ z.entry = [e \in Entry |-> IF e \in es \cap Rows(store) THEN "trashed"
                                      ELSE store.entry[e]]
        /\ z.title = store.title
    BY <1>0, <2>2, TrashedEntry
  <2> HIDE DEF z, es
  <2> QED BY <1>1, <2>1, <2>2, <2>3 DEF Rows, LiveEntries, TrashedEntries
<1>4. CASE PurgeEntries(t)
  <2> DEFINE z == WithoutEntries(store, c.entries)
  <2>1. ChangesEntries(t, "purge", z, {}) BY <1>4 DEF PurgeEntries
  <2>2. z.entry = [e \in Entry |-> IF e \in c.entries THEN "absent" ELSE store.entry[e]]
    BY <1>0, WithoutEntriesFields
  <2>3. z.title = store.title BY <1>0 DEF WithoutEntries, Shaped, Columns
  <2> HIDE DEF z
  <2> QED BY <1>1, <2>1, <2>2, <2>3
<1>5. CASE PurgeFolder(t)
  <2> DEFINE z   == PurgedTree(store, c.folder)
             sub == Subtree(store, Existing(store), c.folder)
             es  == IF c.folder \in Trashed(store) THEN MembersOf(store, sub) ELSE {}
             old == MembersOf(store, sub) \cap TrashedEntries(store)
  <2>1. ChangesEntries(t, "purgeFolder", z, es) BY <1>5 DEF PurgeFolder
  <2>2. c.entries = {} /\ MembersOf(store, sub) \cap LiveEntries(store) = {}
    BY <1>g, <2>1 DEF ChangesEntries, InChange, Given
  <2>3. CASE c.folder \notin Trashed(store)
    <3>1. z = store /\ es = {} BY <2>3 DEF PurgedTree
    <3> HIDE DEF z, es
    <3> QED BY <1>1, <2>1, <2>2, <3>1
  <2>4. CASE c.folder \in Trashed(store)
    <3>1. z = WithoutFolders(WithoutEntries(store, old), sub) BY <2>4 DEF PurgedTree
    <3>2. es = MembersOf(store, sub) BY <2>4
    <3> HIDE DEF z, es, sub
    <3>3. /\ z.entry = [e \in Entry |-> IF e \in old THEN "absent" ELSE store.entry[e]]
          /\ z.title = store.title
      BY <1>0, <3>1, DeletedEntry
    <3>4. \A e \in Entry : e \in es => z.entry[e] # "live" BY <2>2, <3>2, <3>3 DEF LiveEntries
    <3>5. \A e \in Entry : e \notin es => z.entry[e] = store.entry[e] BY <3>2, <3>3
    <3> QED BY <1>1, <2>1, <2>2, <3>3, <3>4, <3>5
  <2> QED BY <2>3, <2>4
<1>6. ASSUME NEW kind \in {"edit", "reset"}, NEW title,
             ChangesEntries(t, kind, Titled(store, c.entries, title), {}),
             title = c.title
      PROVE  IndexHeld'
  <2> DEFINE z == Titled(store, c.entries, title)
  <2>1. c.entries \subseteq Inspected BY <1>g, <1>6 DEF ChangesEntries, InChange, Given
  <2>2. /\ z.entry = store.entry
        /\ z.title = [e \in Entry |-> IF e \in c.entries \cap Rows(store) THEN title
                                      ELSE store.title[e]]
    BY <1>0 DEF Titled, Shaped, Columns
  <2>3. ChangesEntries(t, kind, z, {}) BY <1>6
  <2> HIDE DEF z
  <2>4. \A e \in Entry : e \in c.entries =>
          e \in Rows(store) /\ (store.entry[e] # "live" => "trashEdit" \in events)
    BY <2>1 DEF Inspected, Rows, LiveEntries
  <2> QED BY <1>1, <1>6, <2>2, <2>3, <2>4
<1>7. CASE EditMetadata(t) BY <1>6, <1>7 DEF EditMetadata
<1>8. CASE ResetMetadata(t)
  <2>1. ChangesEntries(t, "reset", Titled(store, c.entries, FileTitle), {}) BY <1>8 DEF ResetMetadata
  <2>2. FileTitle = c.title BY <1>g, <2>1 DEF ChangesEntries, InChange, Given
  <2> QED BY <1>6, <2>1, <2>2
<1>9. CASE Reindex(t)
  <2>1. ChangesEntries(t, "reindex", store, {}) BY <1>9 DEF Reindex
  <2>2. c.entries \subseteq Inspected BY <1>g, <2>1 DEF ChangesEntries, InChange, Given
  <2>3. \A e \in Entry : e \in c.entries /\ store.entry[e] # "live" => "trashEdit" \in events
    BY <2>2 DEF Inspected, LiveEntries
  <2> QED BY <1>1, <2>1, <2>3
<1>10. CASE ImportEntry(t)
  <2> DEFINE a == [e \in Entry |-> IF e \in c.entries THEN "live" ELSE store.entry[e]]
             m == store.member \cup {x \in c.entries \X {c.to} : c.to \in Existing(store)}
             z == [store EXCEPT !.entry = a, !.member = m]
  <2>1. ChangesEntries(t, "import", z, {}) BY <1>0, <1>10 DEF ImportEntry, Shaped, Columns
  <2> HIDE DEF m
  <2>2. z.entry = a /\ z.title = store.title BY <1>0 DEF Shaped, Columns
  <2> HIDE DEF z
  <2> QED BY <1>1, <2>1, <2>2
<1> QED BY <1>2, <1>3, <1>4, <1>5, <1>7, <1>8, <1>9, <1>10

(* A restore has two parts: between them what was found is due. *)
LEMMA RestoreIndexed ==
  ASSUME CoreHeld, Hung(store), IndexHeld, NEW t \in Slots,
         \A r \in Slots \ {t} : tasks[r].phase = "free" /\ tasks'[r].phase = "free",
         RestoreTree(t) \/ RestoreEntries(t)
  PROVE  IndexHeld'
<1> DEFINE c == tasks[t].cmd
<1>0. Shaped(store) /\ TaskHeld(tasks[t], store, lastFolder) /\ Prepared(t) /\ c.kind = "restore"
  BY DEF CoreHeld, IndexHeld, RestoreTree, RestoreEntries
<1>1. CASE RestoreTree(t)
  <2> DEFINE found == MembersOf(store, Subtree(store, Trashed(store), c.folder))
                        \cap TrashedEntries(store)
  <2>1. /\ tasks[t].phase = "change" /\ Given(tasks[t]) /\ tasks[t].changed = c.entries
        /\ tasks[t].before.title = store.title /\ UNCHANGED <<indexed, events>>
    BY <1>0, <1>1 DEF Prepared, RestoreTree
  <2>2. c.entries \subseteq TrashedEntries(store) /\ c.folder \in Trashed(store) \cup {Root}
    BY <1>0, <2>1 DEF Given
  <2>3. \A e \in Entry : RightFor(e, indexed[e]) BY <2>1, DueNow DEF Due
  <2>4. CASE c.folder = Root
    <3>1. Become(t, "write") /\ UNCHANGED store BY <1>1, <2>4 DEF RestoreTree
    <3>2. /\ tasks'[t].phase = "write" /\ tasks'[t].cmd = c /\ tasks'[t].changed = c.entries
          /\ tasks'[t].before = tasks[t].before
      BY <1>0, <2>1, <3>1 DEF Become, CoreHeld, TaskHeld, TaskFields
    <3>3. Prepared(t)' BY <1>0, <2>1, <2>2, <3>1, <3>2 DEF Prepared, Rows
    <3>4. \A e \in Entry : RightFor(e, indexed[e])' BY <2>1, <2>3, <3>1 DEF RightFor
    <3> QED BY <3>3, <3>4, IndexBy
  <2>5. CASE c.folder # Root
    <3>1. /\ store' = RestoredTree(store, c.folder)
          /\ tasks' = [tasks EXCEPT ![t].phase = "write", ![t].changed = @ \cup found]
      BY <1>1, <2>5 DEF RestoreTree
    <3> HIDE DEF found
    <3>2. /\ tasks'[t].phase = "write" /\ tasks'[t].cmd = c
          /\ tasks'[t].changed = c.entries \cup found
          /\ tasks'[t].before = tasks[t].before
      BY <1>0, <2>1, <3>1 DEF CoreHeld, TaskHeld, TaskFields
    <3>3. c.folder \in Trashed(store) BY <2>2, <2>5
    <3>4. /\ store'.entry =
               [e \in Entry |->
                  IF e \in MembersOf(store, Subtree(store, Trashed(store), c.folder)) \cap Rows(store)
                  THEN "live" ELSE store.entry[e]]
          /\ store'.title = store.title
      BY <1>0, <3>1, <3>3, RestoredEntry
    <3>5. \A e \in Entry : e \notin found => store'.entry[e] = store.entry[e]
      BY <3>4 DEF found, Rows, LiveEntries, TrashedEntries
    <3>6. tasks'[t].changed \subseteq Rows(store')
      <4>1. tasks'[t].changed \subseteq Rows(store) BY <2>2, <3>2 DEF found, Rows
      <4>2. Rows(store') = Rows(store) BY <3>4 DEF Rows, LiveEntries, TrashedEntries
      <4> QED BY <4>1, <4>2
    <3>7. Prepared(t)' BY <1>0, <2>1, <3>2, <3>4, <3>6 DEF Prepared
    <3>8. \A e \in Entry : RightFor(e, indexed[e])' \/ e \in Due(tasks[t])'
      BY <1>0, <2>1, <2>3, <3>2, <3>4, <3>5 DEF RightFor, Due
    <3> QED BY <3>7, <3>8, IndexBy
  <2> QED BY <2>4, <2>5
<1>2. CASE RestoreEntries(t)
  <2>1. /\ tasks[t].phase = "write" /\ Become(t, "index") /\ UNCHANGED <<indexed, events>>
        /\ store' = SetEntries(store, tasks[t].changed, "live")
        /\ tasks[t].changed \subseteq Rows(store) /\ tasks[t].before.title = store.title
    BY <1>0, <1>2 DEF RestoreEntries, Prepared
  <2>2. /\ tasks'[t].phase = "index" /\ tasks'[t].cmd = c /\ tasks'[t].changed = tasks[t].changed
        /\ tasks'[t].before = tasks[t].before
    BY <1>0, <2>1 DEF Become, CoreHeld, TaskHeld, TaskFields
  <2>3. /\ store'.entry = [e \in Entry |-> IF e \in tasks[t].changed \cap Rows(store) THEN "live"
                                           ELSE store.entry[e]]
        /\ store'.title = store.title
    BY <1>0, <2>1, SetEntriesEntry
  <2>4. \A e \in Entry : e \in tasks'[t].changed => RightFor(e, Document(t, e))'
    <3> SUFFICES ASSUME NEW e \in Entry, e \in tasks[t].changed PROVE RightFor(e, Document(t, e))'
      BY <2>2
    <3>1. store'.entry[e] = "live" BY <2>1, <2>3
    <3>2. Document(t, e)' = store'.title[e] BY <1>0, <2>1, <2>2, <2>3 DEF Document
    <3> QED BY <3>1, <3>2 DEF RightFor
  <2> QED BY <2>1, <2>2, <2>3, <2>4, IndexBegins
<1> QED BY <1>1, <1>2
-----------------------------------------------------------------------------
LEMMA RewoundEntry ==
  ASSUME NEW s, NEW want, Shaped(want), Rows(s) \subseteq Rows(want)
  PROVE  LET z == Rewound(s, want) IN
         /\ z.entry = [e \in Entry |-> IF e \in Rows(s) THEN want.entry[e] ELSE s.entry[e]]
         /\ z.title = [e \in Entry |-> IF e \in Rows(s) THEN want.title[e] ELSE s.title[e]]
BY DEF Shaped, Columns, Rewound

(* An undo or a redo finds the entries of its node: what it changes is what it was told. *)
LEMMA RewindIndexed ==
  ASSUME CoreHeld, IndexHeld, NEW t \in Slots,
         \A r \in Slots \ {t} : tasks[r].phase = "free" /\ tasks'[r].phase = "free", Rewind(t)
  PROVE  IndexHeld'
<1> DEFINE c == tasks[t].cmd
<1>0. /\ Shaped(store) /\ TaskHeld(tasks[t], store, lastFolder) /\ Prepared(t)
      /\ tasks[t].phase = "change" /\ c.kind = "rewind" /\ UNCHANGED <<indexed, events>>
  BY DEF CoreHeld, IndexHeld, Rewind, InChange
<1>1. CASE Become(t, "failed") /\ UNCHANGED store
  <2>1. tasks'[t].phase = "failed"
    BY <1>0, <1>1 DEF Become, CoreHeld, TaskHeld, TaskFields
  <2> QED BY <1>0, <1>1, <2>1, IndexKept DEF Prepared, Due, SameEntries
<1>2. CASE store' = Rewound(store, c.want) /\ Become(t, "index")
  <2>1. Shaped(c.want) /\ Rows(store) \subseteq Rows(c.want)
    BY <1>0 DEF TaskHeld, Prepared, Given
  <2>2. PICK from : Agree(store, store, from) /\ c.entries = SearchChanged(c.want, from)
    BY <1>0 DEF Prepared, Given
  <2>4. /\ store'.entry = [e \in Entry |-> IF e \in Rows(store) THEN c.want.entry[e] ELSE store.entry[e]]
        /\ store'.title = [e \in Entry |-> IF e \in Rows(store) THEN c.want.title[e] ELSE store.title[e]]
    BY <1>2, <2>1, RewoundEntry
  <2>5. /\ tasks'[t].phase = "index" /\ tasks'[t].cmd = c
        /\ tasks'[t].changed = SearchChanged(c.want, from)
    BY <1>0, <1>2, <2>2 DEF Become, CoreHeld, TaskHeld, TaskFields, Prepared
  <2>6. \A e \in Entry : e \in tasks'[t].changed => RightFor(e, Document(t, e))'
    <3> SUFFICES ASSUME NEW e \in Entry PROVE RightFor(e, Document(t, e))'
      OBVIOUS
    <3>1. Document(t, e)' = IF store'.entry[e] = "live" THEN store'.title[e] ELSE NoTitle
      BY <1>0, <2>5 DEF Document
    <3> QED BY <3>1 DEF RightFor
  <2>7. \A e \in Entry : e \notin tasks'[t].changed =>
           /\ store.entry[e] = "live" <=> store'.entry[e] = "live"
           /\ store'.entry[e] = "live" => store'.title[e] = store.title[e]
    <3> SUFFICES ASSUME NEW e \in Entry, e \notin SearchChanged(c.want, from)
                 PROVE  store'.entry[e] = store.entry[e] /\ store'.title[e] = store.title[e]
      BY <2>5
    <3>1. CASE e \notin Rows(store) BY <2>4, <3>1
    <3>2. CASE e \in Rows(store)
      <4>1. c.want.entry[e] = from.entry[e] /\ c.want.title[e] = from.title[e]
        BY <2>1, <3>2 DEF SearchChanged
      <4> QED BY <2>2, <2>4, <3>2, <4>1 DEF Agree
    <3> QED BY <3>1, <3>2
  <2> QED BY <1>0, <2>5, <2>6, <2>7, IndexBegins
<1> QED BY <1>1, <1>2 DEF Rewind

LEMMA IndexWritten ==
  ASSUME CoreHeld, Clean, IndexHeld, NEW t \in Slots,
         \A r \in Slots \ {t} : tasks[r].phase = "free" /\ tasks'[r].phase = "free", WriteIndex(t)
  PROVE  IndexHeld'
<1>1. /\ tasks[t].phase = "index" /\ Become(t, "end") /\ UNCHANGED <<store, events>>
      /\ indexed' = [e \in Entry |-> IF e \in tasks[t].changed THEN Document(t, e) ELSE indexed[e]]
  BY DEF WriteIndex, Clean
<1>2. tasks'[t].phase = "end"
  BY <1>1 DEF Become, CoreHeld, TaskHeld, TaskFields
<1>3. \A e \in Entry : RightFor(e, indexed'[e])
  <2> SUFFICES ASSUME NEW e \in Entry PROVE RightFor(e, indexed'[e]) OBVIOUS
  <2>1. CASE e \in tasks[t].changed BY <1>1, <2>1 DEF IndexHeld, Prepared
  <2>2. CASE e \notin tasks[t].changed
    <3>1. e \notin Due(tasks[t]) BY <2>2 DEF Due
    <3> QED BY <1>1, <2>2, <3>1, DueNow
  <2> QED BY <2>1, <2>2
<1>4. \A e \in Entry : RightFor(e, indexed[e])' BY <1>1, <1>3 DEF RightFor
<1>5. Prepared(t)' BY <1>2 DEF Prepared
<1> QED BY <1>4, <1>5, IndexBy

(* What the commands are given. *)
LEMMA GivenStarts ==
  ASSUME CoreHeld, Indexing, TracedInv, NEW t \in Slots, OrgUser(t)
  PROVE  Given(tasks[t])' /\ tasks'[t].phase = "begin"
<1> DEFINE c == tasks'[t].cmd
<1>1. UNCHANGED <<store, nodes, current, events>> BY UserSteps DEF Gives
<1>2. ASSUME NEW event, NEW cmd, LabelGiven(t, event, cmd),
             cmd.kind \in Modest \cup {"card"},
             cmd.kind \in {"edit", "reset", "reindex"} => cmd.entries \subseteq Inspected,
             cmd.kind = "reset" => cmd.title = FileTitle
      PROVE  Given(tasks[t])' /\ tasks'[t].phase = "begin"
  <2>1. tasks'[t].phase = "begin" /\ c = cmd BY <1>2, StartedTask DEF LabelGiven
  <2>2. Inspected' = Inspected BY <1>1 DEF Inspected
  <2> QED BY <1>2, <2>1, <2>2 DEF Given, Modest
<1>3. CASE EditGiven(t)
  <2>1. PICK e \in Inspected : \E n \in Title :
          LabelGiven(t, "edit", [NoCommand EXCEPT !.kind = "edit", !.entries = {e}, !.title = n])
    BY <1>3 DEF EditGiven
  <2>2. PICK n :
          LabelGiven(t, "edit", [NoCommand EXCEPT !.kind = "edit", !.entries = {e}, !.title = n])
    BY <2>1
  <2> DEFINE cmd == [NoCommand EXCEPT !.kind = "edit", !.entries = {e}, !.title = n]
  <2>3. cmd.kind = "edit" /\ cmd.entries = {e} BY DEF NoCommand
  <2> HIDE DEF cmd
  <2>4. LabelGiven(t, "edit", cmd) BY <2>2 DEF cmd
  <2> QED BY <1>2, <2>3, <2>4 DEF Modest
<1>4. CASE ResetGiven(t)
  <2>1. PICK es \in SUBSET Inspected :
          LabelGiven(t, "edit", [NoCommand EXCEPT !.kind = "reset", !.entries = es])
    BY <1>4 DEF ResetGiven
  <2> DEFINE cmd == [NoCommand EXCEPT !.kind = "reset", !.entries = es]
  <2>3. cmd.kind = "reset" /\ cmd.entries = es /\ cmd.title = FileTitle BY DEF NoCommand
  <2> HIDE DEF cmd
  <2>4. LabelGiven(t, "edit", cmd) BY <2>1 DEF cmd
  <2> QED BY <1>2, <2>3, <2>4 DEF Modest
<1>5. CASE ReindexGiven(t)
  <2>1. PICK es \in SUBSET Inspected :
          LabelGiven(t, "reindex", [NoCommand EXCEPT !.kind = "reindex", !.entries = es])
    BY <1>5 DEF ReindexGiven
  <2> DEFINE cmd == [NoCommand EXCEPT !.kind = "reindex", !.entries = es]
  <2>3. cmd.kind = "reindex" /\ cmd.entries = es BY DEF NoCommand
  <2> HIDE DEF cmd
  <2>4. LabelGiven(t, "reindex", cmd) BY <2>1 DEF cmd
  <2> QED BY <1>2, <2>3, <2>4 DEF Modest
<1>6. ASSUME NEW event, NEW cmd, LabelGiven(t, event, cmd),
             cmd.kind \in {"rename", "order", "tag", "untag", "card", "deleteTag", "renameTag"}
      PROVE  Given(tasks[t])' /\ tasks'[t].phase = "begin"
  BY <1>2, <1>6 DEF Modest
<1>7. CASE RenameFolderGiven(t) BY <1>6, <1>7 DEF RenameFolderGiven, NoCommand
<1>8. CASE OrderGiven(t) BY <1>6, <1>8 DEF OrderGiven, NoCommand
<1>9. CASE TagGiven(t) BY <1>6, <1>9 DEF TagGiven, NoCommand
<1>10. CASE TagListGiven(t) BY <1>6, <1>10 DEF TagListGiven, NoCommand
<1>11. CASE CommandGiven(t)
  <2>1. PICK d \in FolderCommands \cup TrashCommands \cup EntryCommands :
           Started(t, [NoCommand EXCEPT !.kind = d.kind, !.folder = d.folder, !.to = d.to,
                                        !.entries = d.entries])
    BY <1>11 DEF CommandGiven
  <2> DEFINE cmd == [NoCommand EXCEPT !.kind = d.kind, !.folder = d.folder, !.to = d.to,
                                      !.entries = d.entries]
  <2>2. cmd.kind = d.kind /\ cmd.folder = d.folder /\ cmd.entries = d.entries BY DEF NoCommand
  <2> HIDE DEF cmd
  <2>3. Started(t, cmd) BY <2>1 DEF cmd
  <2>4. tasks'[t].phase = "begin" /\ c = cmd BY <2>3, StartedTask
  <2>5. d.kind \notin {"edit", "reset", "reindex", "rewind"}
    BY DEF FolderCommands, TrashCommands, EntryCommands
  <2>6. d.kind \in {"restore", "trashFolder", "purgeFolder"} => d \in TrashCommands
    BY DEF FolderCommands, TrashCommands, EntryCommands
  <2>7. /\ d.kind = "restore" => /\ d.entries \subseteq TrashedEntries(store)
                                 /\ d.folder \in Trashed(store) \cup {Root}
        /\ d.kind = "trashFolder" => d.entries = {} /\ d.folder \in Existing(store)
        /\ d.kind = "purgeFolder" =>
             /\ d.entries = {}
             /\ MembersOf(store, Subtree(store, Existing(store), d.folder)) \cap LiveEntries(store) = {}
    BY <2>6 DEF TrashCommands, Indexing
  <2> QED BY <1>1, <2>2, <2>4, <2>5, <2>7 DEF Given
<1>12. ASSUME NEW want, NEW from, NEW target, Rewinding(t, want, from, target),
              Agree(store, store, from), Rows(store) \subseteq Rows(want)
       PROVE  Given(tasks[t])' /\ tasks'[t].phase = "begin"
  <2> DEFINE cmd == [NoCommand EXCEPT !.kind = "rewind", !.want = want, !.target = target,
                                      !.entries = SearchChanged(want, from)]
  <2>1. Started(t, cmd) /\ "undo" \in events BY <1>12 DEF Rewinding
  <2>2. cmd.kind = "rewind" /\ cmd.want = want /\ cmd.entries = SearchChanged(want, from)
    BY DEF NoCommand
  <2> HIDE DEF cmd
  <2>3. tasks'[t].phase = "begin" /\ c = cmd BY <2>1, StartedTask
  <2> QED BY <1>1, <1>12, <2>1, <2>2, <2>3 DEF Given
<1>13. ASSUME NEW want, NEW from, NEW target, Rewinding(t, want, from, target)
       PROVE  TracedHeld /\ Agree(store, store, nodes[current].after)
  <2>1. "undo" \in events /\ Idle
    BY <1>13 DEF Rewinding, Started, Quiet, Indexing, Steady, Clean
  <2>2. TracedHeld BY <2>1 DEF TracedInv, Tracing, Indexing
  <2> QED BY <2>1, <2>2 DEF TracedHeld
<1>14. current >= 1 /\ current \in Nat /\ \A n \in DOMAIN nodes : nodes[n].parent < n
  <2>1. PICK S : nodes \in Seq(S) BY DEF CoreHeld
  <2>2. DOMAIN nodes = 1 .. Len(nodes) BY <2>1
  <2> QED BY <2>2 DEF CoreHeld
<1>15. CASE UndoLibraryAction(t)
  <2>1. /\ current # 1
        /\ Rewinding(t, nodes[current].before, nodes[current].after, nodes[current].parent)
    BY <1>15 DEF UndoLibraryAction
  <2>2. TracedHeld /\ Agree(store, store, nodes[current].after) BY <1>13, <2>1
  <2>3. current \in DOMAIN nodes /\ nodes[current].parent \in DOMAIN nodes BY <2>1 DEF CoreHeld
  <2>4. /\ Agree(store, nodes[current].before, nodes[nodes[current].parent].after)
        /\ Rows(store) \subseteq Rows(nodes[nodes[current].parent].after)
    BY <2>1, <2>2, <2>3 DEF TracedHeld
  <2>5. Rows(store) \subseteq Rows(nodes[current].before)
    BY <2>4 DEF Agree, Rows, LiveEntries, TrashedEntries
  <2> QED BY <1>12, <2>1, <2>2, <2>5
<1>16. CASE RedoLibraryAction(t)
  <2>1. PICK n \in DOMAIN nodes :
          nodes[n].parent = current /\ Rewinding(t, nodes[n].after, nodes[n].before, n)
    BY <1>16 DEF RedoLibraryAction
  <2>2. TracedHeld /\ Agree(store, store, nodes[current].after) BY <1>13, <2>1
  <2>3. n # 1 BY <1>14, <2>1
  <2>4. Agree(store, nodes[n].before, nodes[current].after) /\ Rows(store) \subseteq Rows(nodes[n].after)
    BY <2>1, <2>2, <2>3 DEF TracedHeld
  <2>5. Agree(store, store, nodes[n].before) BY <2>2, <2>4 DEF Agree
  <2> QED BY <1>12, <2>1, <2>4, <2>5
<1> QED
  BY <1>3, <1>4, <1>5, <1>7, <1>8, <1>9, <1>10, <1>11, <1>15, <1>16 DEF OrgUser
-----------------------------------------------------------------------------
(* Without an import the entries only become fewer, and what is not filed leaves the *)
(* ones that are left alone.                                                         *)
LEMMA RowsStep ==
  ASSUME CoreHeld, NEW t \in Slots, OrgTask(t), tasks[t].cmd.kind \notin {"import", "rewind"}
  PROVE  /\ Rows(store') \subseteq Rows(store)
         /\ tasks[t].cmd.kind \in Unfiled => Agree(store', store, store')
<1> DEFINE c == tasks[t].cmd
           P == /\ Rows(store') \subseteq Rows(store)
                /\ c.kind \in Unfiled => Agree(store', store, store')
<1>0. Shaped(store) BY DEF CoreHeld
<1>1. CASE SameEntries(store, store')
  BY <1>1 DEF SameEntries, Agree, Rows, LiveEntries, TrashedEntries
<1>2. CASE Begin(t) \/ End(t) \/ WriteIndex(t)
  BY <1>1, <1>2 DEF Begin, End, WriteIndex, dataVars, SameEntries
<1>3. CASE Minor(t) BY <1>1, <1>3, MinorStep
<1>4. ASSUME c.kind \notin Unfiled, SameRows(store, store') PROVE P
  BY <1>4 DEF SameRows
<1>5. ASSUME NEW es,
             store'.entry = [e \in Entry |-> IF e \in es THEN "absent" ELSE store.entry[e]],
             store'.title = store.title
      PROVE  P
  BY <1>5 DEF Agree, Rows, LiveEntries, TrashedEntries
<1>6. \A kind, new, also : ChangesEntries(t, kind, new, also) => c.kind = kind /\ store' = new
  BY DEF ChangesEntries, InChange
<1>7. CASE TrashEntries(t)
  <2>1. c.kind = "trash" /\ store' = SetEntries(store, c.entries, "trashed")
    BY <1>6, <1>7 DEF TrashEntries
  <2>2. SameRows(store, store') BY <1>0, <2>1, SetEntriesFields
  <2> QED BY <2>1, <2>2, <1>4 DEF Unfiled
<1>8. CASE TrashFolder(t)
  <2>1. c.kind = "trashFolder" /\ store' = TrashedTree(store, c.folder)
    BY <1>6, <1>8 DEF TrashFolder
  <2>2. SameRows(store, store') BY <1>0, <2>1, TrashedKeeps
  <2> QED BY <2>1, <2>2, <1>4 DEF Unfiled
<1>9. CASE PurgeEntries(t)
  <2>1. store' = WithoutEntries(store, c.entries) BY <1>6, <1>9 DEF PurgeEntries
  <2>2. store'.entry = [e \in Entry |-> IF e \in c.entries THEN "absent" ELSE store.entry[e]]
    BY <1>0, <2>1, WithoutEntriesFields
  <2>3. store'.title = store.title BY <1>0, <2>1 DEF WithoutEntries, Shaped, Columns
  <2> QED BY <1>5, <2>2, <2>3
<1>10. CASE PurgeFolder(t)
  <2> DEFINE sub == Subtree(store, Existing(store), c.folder)
             old == MembersOf(store, sub) \cap TrashedEntries(store)
  <2>1. store' = PurgedTree(store, c.folder) BY <1>6, <1>10 DEF PurgeFolder
  <2>2. CASE c.folder \notin Trashed(store)
    BY <1>1, <2>1, <2>2 DEF PurgedTree, SameEntries
  <2>3. CASE c.folder \in Trashed(store)
    <3>1. store' = WithoutFolders(WithoutEntries(store, old), sub)
      BY <2>1, <2>3 DEF PurgedTree
    <3> HIDE DEF old, sub
    <3>2. /\ store'.entry = [e \in Entry |-> IF e \in old THEN "absent" ELSE store.entry[e]]
          /\ store'.title = store.title
      BY <1>0, <3>1, DeletedEntry
    <3> QED BY <1>5, <3>2
  <2> QED BY <2>2, <2>3
<1>11. ASSUME NEW kind \in {"edit", "reset"}, NEW title,
              ChangesEntries(t, kind, Titled(store, c.entries, title), {})
       PROVE  P
  <2>1. c.kind = kind /\ store' = Titled(store, c.entries, title) BY <1>6, <1>11
  <2>2. store'.entry = store.entry BY <1>0, <2>1 DEF Titled, Shaped, Columns
  <2> QED BY <2>1, <2>2 DEF Unfiled, Rows, LiveEntries, TrashedEntries
<1>12. CASE EditMetadata(t) \/ ResetMetadata(t)
  BY <1>11, <1>12 DEF EditMetadata, ResetMetadata
<1>13. CASE Reindex(t)
  <2>1. store' = store BY <1>6, <1>13 DEF Reindex
  <2> QED BY <1>1, <2>1 DEF SameEntries
<1>14. CASE RestoreTree(t)
  <2>1. c.kind = "restore" BY <1>14 DEF RestoreTree
  <2>2. store' = store \/ store' = RestoredTree(store, c.folder) BY <1>14 DEF RestoreTree
  <2>3. SameRows(store, store') BY <1>0, <2>2, RestoredKeeps DEF SameRows
  <2> QED BY <2>1, <2>3, <1>4 DEF Unfiled
<1>15. CASE RestoreEntries(t)
  <2>1. c.kind = "restore" /\ store' = SetEntries(store, tasks[t].changed, "live")
    BY <1>15 DEF RestoreEntries
  <2>2. SameRows(store, store') BY <1>0, <2>1, SetEntriesFields
  <2> QED BY <2>1, <2>2, <1>4 DEF Unfiled
<1>16. ~Rewind(t) /\ ~ImportEntry(t)
  BY <1>6 DEF Rewind, ImportEntry, InChange
<1> QED
  BY <1>2, <1>3, <1>7, <1>8, <1>9, <1>10, <1>12, <1>13, <1>14, <1>15, <1>16 DEF OrgTask, Minor

(* With fewer entries the snapshots still agree. *)
LEMMA AgreeLess ==
  ASSUME NEW s, NEW z, Rows(z) \subseteq Rows(s)
  PROVE  /\ \A v, w : Agree(s, v, w) => Agree(z, v, w)
         /\ \A w : Agree(z, s, z) /\ Agree(s, s, w) => Agree(z, z, w)
         /\ \A w : Agree(z, w, w)
BY DEF Agree

LEMMA TracedKept ==
  ASSUME CoreHeld, TracedHeld, NEW t \in Slots,
         \A r \in Slots \ {t} : tasks[r].phase = "free",
         tasks' = [tasks EXCEPT ![t] = tasks'[t]], tasks'[t].phase # "free",
         Rows(store') \subseteq Rows(store), Traces(tasks'[t], store', nodes[current].after),
         UNCHANGED <<nodes, current>>
  PROVE  TracedHeld'
<1>1. \A r \in Slots \ {t} : tasks'[r] = tasks[r] /\ tasks'[r].phase = "free"
  BY DEF CoreHeld
<1>2. ~Idle' BY DEF Idle
<1>3. \A r \in Slots : tasks'[r].phase # "free" =>
        Traces(tasks[r], store, nodes[current].after)'
  <2> TAKE r \in Slots
  <2>1. CASE r = t BY <2>1 DEF Traces
  <2>2. CASE r # t BY <1>1, <2>2
  <2> QED BY <2>1, <2>2
<1>4. \A n \in DOMAIN nodes :
        /\ Rows(store') \subseteq Rows(nodes[n].after)
        /\ n # 1 => Agree(store', nodes[n].before, nodes[nodes[n].parent].after)
  BY AgreeLess DEF TracedHeld
<1> QED BY <1>2, <1>3, <1>4 DEF TracedHeld
LEMMA RewindTraces ==
  ASSUME CoreHeld, TracedHeld, NEW t \in Slots, Rewind(t)
  PROVE  /\ Rows(store') \subseteq Rows(store)
         /\ Traces(tasks'[t], store', nodes[current].after)
<1> DEFINE c   == tasks[t].cmd
           now == nodes[current].after
           new == nodes[c.target].after
<1>1. /\ tasks[t].phase = "change" /\ c.kind = "rewind"
      /\ UNCHANGED <<lastFolder, nodes, current, events>>
  BY DEF Rewind, InChange, historyVars
<1>2. Traces(tasks[t], store, now) BY <1>1 DEF TracedHeld
<1>3. Agree(store, store, now) /\ Agree(store, tasks[t].before, now) /\ Agree(store, c.want, new)
  BY <1>1, <1>2 DEF Traces
<1>4. CASE Become(t, "failed") /\ UNCHANGED store
  <2>1. Goes(t, {"failed"}) BY <1>1, <1>4, BecomeGoes
  <2> QED BY <1>1, <1>3, <1>4, <2>1 DEF Goes, Traces, Unfiled
<1>5. CASE store' = Rewound(store, c.want) /\ Become(t, "index")
  <2>1. Goes(t, {"index"}) BY <1>1, <1>5, BecomeGoes
  <2>2. c.target \in DOMAIN nodes /\ Shaped(c.want) BY <1>1 DEF CoreHeld, TaskHeld
  <2>3. Rows(store) \subseteq Rows(c.want)
    BY <1>3, <2>2 DEF TracedHeld, Agree, Rows, LiveEntries, TrashedEntries
  <2>4. /\ store'.entry = [e \in Entry |-> IF e \in Rows(store) THEN c.want.entry[e] ELSE store.entry[e]]
        /\ store'.title = [e \in Entry |-> IF e \in Rows(store) THEN c.want.title[e] ELSE store.title[e]]
    BY <1>5, <2>2, <2>3, RewoundEntry
  <2>5. Rows(store') \subseteq Rows(store)
    BY <2>4 DEF Rows, LiveEntries, TrashedEntries
  <2>6. Agree(store', store', new)
    <3> SUFFICES ASSUME NEW e \in Rows(store')
                 PROVE  store'.entry[e] = new.entry[e] /\ store'.title[e] = new.title[e]
      BY DEF Agree
    <3>1. e \in Rows(store) /\ e \in Entry BY <2>5 DEF Rows, LiveEntries, TrashedEntries
    <3>2. c.want.entry[e] = new.entry[e] /\ c.want.title[e] = new.title[e] BY <1>3, <3>1 DEF Agree
    <3> QED BY <2>4, <3>1, <3>2
  <2>7. Agree(store', tasks[t].before, now) BY <1>3, <2>5, AgreeLess
  <2> QED BY <1>1, <2>1, <2>5, <2>6, <2>7 DEF Goes, Traces, Unfiled
<1> QED BY <1>4, <1>5 DEF Rewind

LEMMA RewindOnly ==
  ASSUME NEW t \in Slots, OrgTask(t), tasks[t].phase = "change", tasks[t].cmd.kind = "rewind"
  PROVE  Rewind(t)
<1>1. ~Begin(t) /\ ~End(t) /\ ~WriteIndex(t) /\ ~RestoreTree(t) /\ ~RestoreEntries(t) /\ ~MoveWrite(t)
  BY DEF Begin, End, WriteIndex, RestoreTree, RestoreEntries, MoveWrite
<1>2. \A kind, new : kind # "rewind" => ~ChangesRows(t, kind, new) /\ ~ChangesMembers(t, kind, new)
  BY DEF ChangesRows, ChangesMembers, InChange
<1>3. \A kind, new, also : kind # "rewind" => ~ChangesEntries(t, kind, new, also)
  BY DEF ChangesEntries, InChange
<1>4. ~CreateFolder(t) /\ ~CopyFolder(t) /\ ~MoveChecks(t)
  BY DEF CreateFolder, CopyFolder, MoveChecks, InChange
<1>5. ~AddToFolder(t) /\ ~MoveToFolder(t) /\ ~RemoveFromFolder(t)
  BY <1>2 DEF AddToFolder, MoveToFolder, RemoveFromFolder
<1>6. ~RenameFolder(t) /\ ~AddTag(t) /\ ~RemoveTag(t) /\ ~RenameTag(t) /\ ~DeleteTag(t)
  BY <1>2 DEF RenameFolder, AddTag, RemoveTag, RenameTag, DeleteTag
<1>7. ~OrderFolders(t) /\ ~SubmitTag(t)
  BY <1>2 DEF OrderFolders, SubmitTag, InChange
<1>8. ~TrashEntries(t) /\ ~TrashFolder(t) /\ ~PurgeEntries(t) /\ ~PurgeFolder(t)
  BY <1>3 DEF TrashEntries, TrashFolder, PurgeEntries, PurgeFolder
<1>9. ~EditMetadata(t) /\ ~ResetMetadata(t) /\ ~Reindex(t) /\ ~ImportEntry(t)
  BY <1>3 DEF EditMetadata, ResetMetadata, Reindex, ImportEntry
<1> QED BY <1>1, <1>4, <1>5, <1>6, <1>7, <1>8, <1>9 DEF OrgTask

LEMMA TaskTraces ==
  ASSUME CoreHeld, Clean, TracedHeld, NEW t \in Slots, OrgTask(t)
  PROVE  /\ Rows(store') \subseteq Rows(store)
         /\ Traces(tasks'[t], store', nodes[current].after)
         /\ tasks[t].phase # "free" /\ tasks'[t].phase # "free"
         /\ tasks' = [tasks EXCEPT ![t] = tasks'[t]] /\ UNCHANGED <<nodes, current>>
<1> DEFINE c   == tasks[t].cmd
           now == nodes[current].after
<1>0. TaskHeld(tasks[t], store, lastFolder) BY DEF CoreHeld
<1>1. /\ tasks[t].phase # "free" /\ tasks'[t].phase # "free"
      /\ tasks' = [tasks EXCEPT ![t] = tasks'[t]] /\ UNCHANGED <<nodes, current>>
  <2>1. CASE Begin(t) BY <1>0, <2>1 DEF Begin, historyVars, CoreHeld, TaskHeld, TaskFields
  <2>2. CASE End(t) BY <1>0, <2>2 DEF End, historyVars, CoreHeld, TaskHeld, TaskFields
  <2>3. CASE Rests(t) BY <2>3 DEF Rests, Goes
  <2>4. CASE Alters(t) BY <2>4 DEF Alters, Goes
  <2>5. CASE Rewinds(t) BY <2>5 DEF Rewinds, Goes
  <2> QED BY <2>1, <2>2, <2>3, <2>4, <2>5, TaskSteps
<1>2. Traces(tasks[t], store, now) BY <1>1 DEF TracedHeld
<1>3. c.kind # "import" BY <1>2 DEF Traces
<1>4. CASE Rewind(t) BY <1>1, <1>4, RewindTraces
<1>5. CASE ~Rewind(t)
  <2>1. CASE Begin(t)
    <3>1. tasks[t].phase = "begin" /\ UNCHANGED store BY <2>1 DEF Begin, dataVars
    <3>2. tasks'[t].phase = "change" /\ tasks'[t].cmd = c /\ tasks'[t].before = store
      BY <1>0, <2>1 DEF Begin, TaskHeld, TaskFields, CoreHeld
    <3> QED BY <1>1, <1>2, <3>1, <3>2 DEF Traces
  <2>2. CASE End(t)
    <3>1. tasks[t].phase = "end" /\ UNCHANGED store BY <2>2 DEF End, dataVars
    <3>2. /\ tasks'[t].phase = "done" /\ tasks'[t].cmd = c /\ tasks'[t].after = store
          /\ tasks'[t].before = tasks[t].before
      BY <1>0, <2>2 DEF End, TaskHeld, TaskFields, CoreHeld
    <3> QED BY <1>1, <1>2, <3>1, <3>2 DEF Traces
  <2>3. CASE Rests(t)
    <3>1. /\ Goes(t, {"write", "index", "end", "failed"}) /\ UNCHANGED store
          /\ tasks[t].phase \in {"change", "write", "index"}
          /\ tasks[t].phase = "write" => c.kind = "move"
          /\ tasks[t].phase = "index" => tasks'[t].phase = "end"
          /\ c.kind = "rewind" /\ tasks[t].phase = "change" => tasks'[t].phase = "failed"
          /\ tasks'[t].phase = "failed" => tasks[t].phase \in {"change", "write"}
          /\ tasks'[t].phase = "write" /\ c.kind = "move" => tasks[t].phase \in {"change", "write"}
      BY <2>3 DEF Rests, Clean
    <3>2. /\ tasks'[t].phase \in {"write", "index", "end", "failed"} /\ tasks'[t].cmd = c
          /\ tasks'[t].before = tasks[t].before
      BY <3>1 DEF Goes
    <3> QED BY <1>1, <1>2, <3>1, <3>2 DEF Traces
  <2>4. CASE Alters(t)
    <3>1. /\ Goes(t, {"write", "index", "end"})
          /\ tasks[t].phase \in {"change", "write"} /\ c.kind \notin {"rewind", "reindex"}
          /\ tasks'[t].phase = "write" => c.kind = "restore"
      BY <2>4 DEF Alters
    <3>2. /\ tasks'[t].phase \in {"write", "index", "end"} /\ tasks'[t].cmd = c
          /\ tasks'[t].before = tasks[t].before
      BY <3>1 DEF Goes
    <3>3. /\ Rows(store') \subseteq Rows(store)
          /\ c.kind \in Unfiled => Agree(store', store, store')
      BY <1>3, <3>1, RowsStep
    <3>4. Agree(store, tasks[t].before, now) /\ (c.kind \in Unfiled => Agree(store, store, now))
      BY <1>2, <3>1 DEF Traces
    <3>5. /\ Agree(store', tasks[t].before, now)
          /\ c.kind \in Unfiled => Agree(store', store', now)
      BY <3>3, <3>4, AgreeLess
    <3> QED BY <1>1, <1>3, <3>1, <3>2, <3>3, <3>5 DEF Traces
  <2>5. ~Rewinds(t) BY <1>5, RewindOnly DEF Rewinds
  <2> QED BY <1>1, <2>1, <2>2, <2>3, <2>4, <2>5, TaskSteps
<1> QED BY <1>4, <1>5
LEMMA TracedStep ==
  ASSUME CoreHeld, ShownHeld, TracedHeld, Tracing, [DesktopNext]_desktopVars
  PROVE  TracedHeld'
<1> DEFINE now == nodes[current].after
<1>0. /\ Clean /\ Alone /\ "import" \notin events /\ "failure" \notin events /\ Shaped(store)
      /\ current \in DOMAIN nodes
  BY DEF Tracing, Steady, Clean, Alone, CoreHeld
<1>1. CASE UNCHANGED coreVars
  BY <1>1 DEF coreVars, TracedHeld, Idle, Traces
<1>2. CASE Refresh
  <2>1. Idle /\ UNCHANGED <<tasks, nodes, current>> BY <1>2, RefreshStep DEF historyVars
  <2>2. Rows(store') \subseteq Rows(store) /\ Agree(store', store, store')
    <3>1. CASE UNCHANGED store BY <3>1 DEF Agree
    <3>2. CASE \E gone \in SUBSET TrashedEntries(store) : \E old \in SUBSET Trashed(store) :
                 store' = Expired(store, gone, old)
      <4>1. PICK gone \in SUBSET TrashedEntries(store), old \in SUBSET Trashed(store) :
              store' = Expired(store, gone, old)
        BY <3>2
      <4>2. /\ store'.entry = [e \in Entry |-> IF e \in gone THEN "absent" ELSE store.entry[e]]
            /\ store'.title = store.title
        BY <1>0, <4>1, DeletedEntry DEF Expired
      <4> QED BY <4>2 DEF Agree, Rows, LiveEntries, TrashedEntries
    <3> QED BY <1>2, <3>1, <3>2, RefreshStep
  <2>3. \A v, w : Agree(store, v, w) => Agree(store', v, w) BY <2>2, AgreeLess
  <2>4. Agree(store', store', now) BY <2>1, <2>2, AgreeLess DEF TracedHeld
  <2>5. \A t \in Slots : tasks'[t].phase = "free" BY <2>1 DEF Idle
  <2> QED BY <2>1, <2>2, <2>3, <2>4, <2>5 DEF TracedHeld
<1>3. ASSUME NEW t \in Slots, OrgUser(t) PROVE TracedHeld'
  <2> DEFINE c == tasks'[t].cmd
  <2>1. Gives(t) BY <1>3, UserSteps
  <2>2. /\ Idle /\ \A r \in Slots \ {t} : tasks[r].phase = "free"
        /\ tasks' = [tasks EXCEPT ![t] = tasks'[t]]
        /\ UNCHANGED <<store, nodes, current>> /\ tasks'[t].phase = "begin"
        /\ c.kind # "import"
    BY <1>0, <2>1 DEF Gives, Idle
  <2>3. c.kind = "rewind" => Agree(store, c.want, nodes[c.target].after)
    BY <1>0, <2>1 DEF Gives, TracedHeld, Agree
  <2>4. Traces(tasks'[t], store', now) BY <2>2, <2>3 DEF Traces, TracedHeld
  <2> QED BY <2>2, <2>4, TracedKept
<1>4. ASSUME NEW t \in Slots, OrgTask(t) PROVE TracedHeld'
  <2>1. /\ Rows(store') \subseteq Rows(store) /\ Traces(tasks'[t], store', now)
        /\ tasks[t].phase # "free" /\ tasks'[t].phase # "free"
        /\ tasks' = [tasks EXCEPT ![t] = tasks'[t]] /\ UNCHANGED <<nodes, current>>
    BY <1>0, <1>4, TaskTraces
  <2>2. \A r \in Slots \ {t} : tasks[r].phase = "free" BY <2>1, Only DEF CoreHeld
  <2> QED BY <2>1, <2>2, TracedKept
<1>5. ASSUME NEW t \in Slots, OrgMessage(t) \/ TaskFailed(t) PROVE TracedHeld'
  <2> DEFINE c == tasks[t].cmd
  <2>1. /\ tasks' = [tasks EXCEPT ![t] = FreeTask] /\ UNCHANGED store /\ tasks[t].phase # "free"
    BY <1>5 DEF OrgMessage, ActionFinished, UnfiledFinished, RestoreFinished, TaskFailed, Freed,
                dataVars
  <2>2. \A r \in Slots \ {t} : tasks[r].phase = "free" BY <2>1, Only DEF CoreHeld
  <2>3. \A r \in Slots : tasks'[r].phase = "free"
    <3>1. \A r \in Slots \ {t} : tasks'[r] = tasks[r] BY <2>1 DEF CoreHeld
    <3>2. tasks'[t] = FreeTask BY <2>1 DEF CoreHeld
    <3> QED BY <2>2, <3>1, <3>2, FreeHeld
  <2>4. Traces(tasks[t], store, now) BY <2>1 DEF TracedHeld
  <2>5. CASE UNCHANGED nodes /\ Agree(store, store, nodes[current'].after)
    BY <2>1, <2>3, <2>5 DEF TracedHeld
  <2>6. CASE TaskFailed(t) \/ UnfiledFinished(t)
    <3>1. UNCHANGED <<nodes, current>> BY <2>6 DEF TaskFailed, UnfiledFinished, historyVars
    <3>2. Agree(store, store, now) BY <2>4, <2>6 DEF TaskFailed, UnfiledFinished, Traces
    <3> QED BY <2>5, <3>1, <3>2
  <2>7. CASE RestoreFinished(t)
    <3>1. UNCHANGED nodes /\ current' = c.target BY <2>7 DEF RestoreFinished
    <3>2. Agree(store, store, nodes[c.target].after) BY <2>4, <2>7 DEF RestoreFinished, Traces
    <3> QED BY <2>5, <3>1, <3>2
  <2>8. CASE ActionFinished(t)
    <3> DEFINE node == [parent |-> current, before |-> tasks[t].before, after |-> tasks[t].after]
               k    == Len(nodes)
    <3>1. tasks[t].phase = "done" /\ Push(tasks[t].before, tasks[t].after)
      BY <2>8 DEF ActionFinished
    <3>2. Agree(store, tasks[t].before, now) /\ tasks[t].after = store
      BY <2>4, <3>1 DEF Traces
    <3>3. CASE tasks[t].before = tasks[t].after /\ UNCHANGED <<nodes, current>>
      BY <2>5, <3>2, <3>3
    <3>4. CASE nodes' = Append(nodes, node) /\ current' = k + 1
      <4>1. /\ k \in Nat /\ DOMAIN nodes = 1 .. k /\ DOMAIN Append(nodes, node) = 1 .. (k + 1)
            /\ \A n \in 1 .. k : Append(nodes, node)[n] = nodes[n]
            /\ Append(nodes, node)[k + 1] = node
        BY Appended DEF CoreHeld
      <4>2. node.before = tasks[t].before /\ node.after = store /\ node.parent = current
        BY <3>2
      <4> HIDE DEF node, k
      <4>3. /\ \A n \in 1 .. k : nodes'[n] = nodes[n]
            /\ nodes'[k + 1] = node /\ DOMAIN nodes' = 1 .. (k + 1)
        BY <3>4, <4>1
      <4>4. current \in 1 .. k /\ \A n \in 1 .. k : n # 1 => nodes[n].parent \in 1 .. k
        BY <4>1 DEF CoreHeld
      <4>5. ASSUME NEW n \in 1 .. (k + 1)
            PROVE  /\ Rows(store) \subseteq Rows(nodes'[n].after)
                   /\ n # 1 => Agree(store, nodes'[n].before, nodes'[nodes'[n].parent].after)
        <5>1. CASE n = k + 1
          <6>1. nodes'[n] = node /\ nodes'[current] = nodes[current] BY <4>3, <4>4, <5>1
          <6> QED BY <3>2, <4>2, <6>1
        <5>2. CASE n # k + 1
          <6>1. n \in 1 .. k BY <4>1, <5>2
          <6>2. nodes'[n] = nodes[n] BY <4>3, <6>1
          <6>3. n # 1 => nodes'[nodes[n].parent] = nodes[nodes[n].parent] BY <4>3, <4>4, <6>1
          <6>4. /\ Rows(store) \subseteq Rows(nodes[n].after)
                /\ n # 1 => Agree(store, nodes[n].before, nodes[nodes[n].parent].after)
            BY <4>1, <6>1 DEF TracedHeld
          <6> QED BY <6>2, <6>3, <6>4
        <5> QED BY <5>1, <5>2
      <4>6. k + 1 \in 1 .. (k + 1) /\ nodes'[current'].after = store BY <3>4, <4>1, <4>2, <4>3
      <4>7. Agree(store, store, nodes'[current'].after) BY <4>6 DEF Agree
      <4> QED BY <2>1, <2>3, <4>3, <4>5, <4>7 DEF TracedHeld
    <3> QED BY <3>1, <3>3, <3>4 DEF Push
  <2> QED BY <1>5, <2>6, <2>7, <2>8 DEF OrgMessage
<1> QED BY <1>1, <1>2, <1>3, <1>4, <1>5, DesktopSteps
-----------------------------------------------------------------------------
LEMMA IndexStep ==
  ASSUME CoreHeld, TreeHeld, TracedInv, NoImports, ShownHeld, IndexHeld, Indexing,
         [DesktopNext]_desktopVars
  PROVE  IndexHeld'
<1>0. Clean /\ InTurn /\ Alone /\ orders = 0 /\ Shaped(store) /\ Hung(store)
  BY DEF Indexing, Steady, Clean, InTurn, Alone, CoreHeld, TreeHeld, Grown
<1>1. CASE UNCHANGED <<store, indexed, tasks, events>>
  <2>1. \A e, d : RightFor(e, d)' <=> RightFor(e, d) BY <1>1 DEF RightFor
  <2>2. \A t \in Slots : Prepared(t)' <=> Prepared(t)
    BY <1>1 DEF Prepared, Given, RightFor, Document, Inspected
  <2> QED BY <1>1, <2>1, <2>2 DEF IndexHeld, Due
<1>2. CASE UNCHANGED libraryVars
  BY <1>1, <1>2 DEF libraryVars, orgVars, dataVars
<1>3. CASE ScreenInput BY <1>1, <1>3, ScreenInputFrame DEF dataVars
<1>4. CASE ScreenLoaded
  <2>1. LibraryLoaded BY <1>4 DEF ScreenLoaded
  <2> QED BY <1>1, <2>1, LoadedStep DEF dataVars
<1>5. CASE \E i \in Searches : SearchStep(i)
  BY <1>1, <1>5 DEF SearchStep, SearchDebounced, SearchRuns, SearchResults, orgVars, dataVars
<1>6. ASSUME NEW t \in Slots, LibraryCommand(t) PROVE IndexHeld'
  <2>1. OrgUser(t) BY <1>6 DEF LibraryCommand
  <2>2. /\ Idle /\ UNCHANGED <<store, indexed, events>> /\ tasks'[t].phase = "begin"
        /\ \A r \in Slots \ {t} : tasks[r].phase = "free" /\ tasks'[r].phase = "free"
    BY <1>0, <2>1, UserLevel DEF Quiet, Idle
  <2>3. Given(tasks[t])' BY <2>1, GivenStarts
  <2>4. Prepared(t)' BY <2>2, <2>3 DEF Prepared
  <2> QED BY <2>2, <2>4, IndexKept DEF Idle, Due, SameEntries
<1>7. CASE Refresh
  <2>1. /\ Idle /\ UNCHANGED <<indexed, tasks, events>>
        /\ \/ UNCHANGED store
           \/ \E gone \in SUBSET TrashedEntries(store) : \E old \in SUBSET Trashed(store) :
                store' = Expired(store, gone, old)
    BY <1>7, RefreshStep
  <2>2. CASE UNCHANGED store BY <1>1, <2>1, <2>2
  <2>3. CASE \E gone \in SUBSET TrashedEntries(store) : \E old \in SUBSET Trashed(store) :
                store' = Expired(store, gone, old)
    <3>1. PICK gone \in SUBSET TrashedEntries(store), old \in SUBSET Trashed(store) :
            store' = Expired(store, gone, old)
      BY <2>3
    <3>2. /\ store'.entry = [e \in Entry |-> IF e \in gone THEN "absent" ELSE store.entry[e]]
          /\ store'.title = store.title
      BY <1>0, <3>1, DeletedEntry DEF Expired
    <3>3. \A e \in Entry : RightFor(e, indexed[e]) BY <2>1 DEF IndexHeld, Idle, Due
    <3>4. \A e \in Entry : RightFor(e, indexed[e])'
      BY <2>1, <3>2, <3>3 DEF RightFor, TrashedEntries
    <3>5. \A t \in Slots : Prepared(t)' BY <2>1 DEF Idle, Prepared
    <3> QED BY <3>4, <3>5 DEF IndexHeld
  <2> QED BY <2>1, <2>2, <2>3
<1>8. ASSUME NEW t \in Slots, OrgTask(t) PROVE IndexHeld'
  <2>1. /\ UNCHANGED events /\ tasks[t].phase # "free"
        /\ \A r \in Slots \ {t} : tasks[r].phase = "free" /\ tasks'[r].phase = "free"
    <3>1. /\ UNCHANGED events /\ \A r \in Slots \ {t} : tasks[r].phase = "free" /\ tasks'[r] = tasks[r]
          /\ ~Idle
      BY <1>0, <1>8, TaskLevel
    <3> QED BY <3>1 DEF Idle
  <2>2. TaskHeld(tasks[t], store, lastFolder) /\ Prepared(t) BY DEF CoreHeld, IndexHeld
  <2>3. CASE Begin(t)
    <3>1. tasks[t].phase = "begin" /\ UNCHANGED <<store, indexed>> BY <2>3 DEF Begin, dataVars
    <3>2. /\ tasks'[t].phase = "change" /\ tasks'[t].cmd = tasks[t].cmd
          /\ tasks'[t].before = store /\ tasks'[t].changed = tasks[t].cmd.entries
      BY <2>2, <2>3 DEF Begin, CoreHeld, TaskHeld, TaskFields
    <3>3. Given(tasks[t])' BY <2>1, <2>2, <3>1, <3>2 DEF Prepared, Given, Inspected
    <3>4. Prepared(t)' BY <3>1, <3>2, <3>3 DEF Prepared
    <3> QED BY <2>1, <3>1, <3>4, IndexKept DEF Due, SameEntries
  <2>4. CASE End(t)
    <3>1. tasks[t].phase = "end" /\ UNCHANGED <<store, indexed>> BY <2>4 DEF End, dataVars
    <3>2. tasks'[t].phase = "done" BY <2>2, <2>4 DEF End, CoreHeld, TaskHeld, TaskFields
    <3>3. Prepared(t)' BY <3>2 DEF Prepared
    <3> QED BY <2>1, <3>1, <3>3, IndexKept DEF Due, SameEntries
  <2>5. CASE Minor(t)
    <3>1. /\ SameEntries(store, store')
          /\ tasks[t].phase = "change" \/ (tasks[t].phase = "write" /\ tasks[t].cmd.kind = "move")
          /\ tasks'[t].phase \in {"end", "failed"}
               \/ (tasks'[t].phase = "write" /\ tasks'[t].cmd.kind = "move")
      BY <2>5, MinorStep
    <3>2. UNCHANGED indexed
      <4>1. ~WriteIndex(t) BY <3>1 DEF WriteIndex
      <4> QED BY <1>8, <4>1, IndexFrame
    <3>3. Prepared(t)' BY <3>1 DEF Prepared
    <3> QED BY <2>1, <3>1, <3>2, <3>3, IndexKept DEF Due
  <2>6. CASE \/ TrashEntries(t) \/ TrashFolder(t) \/ PurgeEntries(t) \/ PurgeFolder(t)
             \/ EditMetadata(t) \/ ResetMetadata(t) \/ Reindex(t) \/ ImportEntry(t)
    BY <2>1, <2>6, EntriesIndexed
  <2>7. CASE RestoreTree(t) \/ RestoreEntries(t) BY <1>0, <2>1, <2>7, RestoreIndexed
  <2>8. CASE Rewind(t) BY <2>1, <2>8, RewindIndexed
  <2>9. CASE WriteIndex(t) BY <1>0, <2>1, <2>9, IndexWritten
  <2> QED BY <1>8, <2>3, <2>4, <2>5, <2>6, <2>7, <2>8, <2>9 DEF OrgTask, Minor
<1>9. ASSUME NEW t \in Slots, OrgMessage(t) \/ TaskFailed(t) PROVE IndexHeld'
  <2>1. Idle' /\ UNCHANGED <<store, indexed, events>>
    BY <1>0, <1>9, MessageStep, FailedStep DEF dataVars
  <2>2. Due(tasks[t]) = {} /\ \A r \in Slots \ {t} : tasks[r].phase = "free"
    <3>1. tasks[t].phase \in {"done", "failed"}
      BY <1>9 DEF OrgMessage, ActionFinished, UnfiledFinished, RestoreFinished, TaskFailed
    <3> QED BY <3>1, Only DEF CoreHeld, Due
  <2>3. \A r \in Slots : Prepared(r)' /\ tasks'[r].phase = "free" BY <2>1 DEF Idle, Prepared
  <2> QED BY <2>1, <2>2, <2>3, IndexKept DEF SameEntries
<1> QED BY <1>0, <1>2, <1>3, <1>4, <1>5, <1>6, <1>7, <1>8, <1>9, ScreenSteps
-----------------------------------------------------------------------------
SearchInv == DesktopInv /\ NoImports /\ ShownInv /\ ResultsInv /\ TracedInv /\ IndexInv

LEMMA SearchInvInit == ASSUME DesktopInit PROVE SearchInv
<1>1. /\ OrgInit /\ ScreenInit /\ DesktopInv /\ NoImports
  BY NoImportsInit, DesktopInvInit DEF DesktopInit, LibraryInit
<1>2. /\ refreshes = 0 /\ loads = <<>> /\ shown = store /\ current = 1
      /\ \A t \in Slots : tasks[t].phase = "free"
      /\ DOMAIN nodes = {1} /\ nodes[1].after = store
  BY <1>1, FreeHeld DEF OrgInit
<1>3. Idle /\ ShownHeld BY <1>2 DEF Idle, ShownHeld
<1>4. ResultsHeld
  <2>1. searches = [i \in Searches |-> searches[i]] /\ \A i \in Searches : searches[i] = NoSearch
    BY <1>1 DEF ScreenInit
  <2>2. NoSearch = [c \in SearchFields |-> NoSearch[c]] /\ NoSearch.phase = "free"
    BY DEF NoSearch, SearchFields
  <2>3. \A i \in Searches : /\ ~Running(searches[i])
                            /\ SearchHeld(searches[i], store, indexed, query, trashView)
    BY <2>1, <2>2 DEF SearchHeld, Running
  <2>4. Listed(store, indexed, query, trashView) = <<>> BY <1>1 DEF ScreenInit, Listed
  <2> QED BY <1>1, <1>3, <2>1, <2>3, <2>4 DEF ScreenInit, ResultsHeld
<1>5. TracedHeld BY <1>2 DEF TracedHeld, Agree
<1>6. IndexHeld
  <2>1. \A e \in Entry : RightFor(e, indexed[e]) BY <1>1 DEF OrgInit, RightFor
  <2>2. \A t \in Slots : Prepared(t) BY <1>2 DEF Prepared
  <2> QED BY <2>1, <2>2 DEF IndexHeld
<1> QED BY <1>1, <1>3, <1>4, <1>5, <1>6 DEF SearchInv, ShownInv, ResultsInv, TracedInv, IndexInv

(* The conditions stay as they are but for the orders, and of those nothing is taken back. *)
LEMMA SearchInvStep == ASSUME SearchInv, [DesktopNext]_desktopVars PROVE SearchInv'
<1>1. UNCHANGED events BY EventsKept
<1>2. DesktopInv' BY DesktopInvStep DEF SearchInv
<1>3. NoImports' /\ (orders' = 0 => orders = 0) BY NoImportsStep DEF SearchInv
<1>4. Steady' => Steady BY <1>1, <1>3 DEF Steady, Clean, InTurn
<1>5. Steady => CoreHeld /\ NoImports /\ ShownHeld
  BY DEF SearchInv, DesktopInv, CoreInv, ShownInv, Steady, Clean, Alone
<1>6. ShownInv'
  <2> SUFFICES ASSUME Steady' PROVE ShownHeld' BY DEF ShownInv
  <2> QED BY <1>4, <1>5, ShownStep
<1>7. ResultsInv'
  <2> SUFFICES ASSUME Steady', Followed' PROVE ResultsHeld' BY DEF ResultsInv
  <2>1. Steady /\ Followed BY <1>1, <1>4 DEF Followed
  <2> QED BY <1>5, <2>1, ResultsStep DEF SearchInv, ResultsInv
<1>8. TracedInv'
  <2> SUFFICES ASSUME Tracing' PROVE TracedHeld' BY DEF TracedInv
  <2>1. Tracing BY <1>1, <1>4 DEF Tracing
  <2>2. Steady BY <2>1 DEF Tracing
  <2> QED BY <1>5, <2>1, <2>2, TracedStep DEF SearchInv, TracedInv
<1>9. IndexInv'
  <2> SUFFICES ASSUME Indexing' PROVE IndexHeld' BY DEF IndexInv
  <2>1. Indexing BY <1>1, <1>4 DEF Indexing
  <2>2. Steady /\ Calm BY <2>1 DEF Indexing, Steady, Clean, Calm
  <2>3. TreeHeld BY <2>2 DEF SearchInv, DesktopInv, TreeInv
  <2> QED BY <1>5, <2>1, <2>2, <2>3, IndexStep DEF SearchInv, IndexInv
<1> QED BY <1>2, <1>3, <1>6, <1>7, <1>8, <1>9 DEF SearchInv

LEMMA SearchInvHolds == DesktopSpec => []SearchInv
<1>1. DesktopInit => SearchInv BY SearchInvInit
<1>2. SearchInv /\ [DesktopNext]_desktopVars => SearchInv' BY SearchInvStep
<1> QED BY <1>1, <1>2, PTL DEF DesktopSpec

LEMMA QuietLevel == ASSUME Quiet PROVE Idle /\ Level
BY DEF Quiet, Idle, Level, Resting

(* What any command, undo, redo or expiry of the trash has changed is on the screen when    *)
(* nothing is left to do (load_library_entries_task after the task, LibraryEntriesLoaded),  *)
(* for every history of commands, when every input waits for the last.                      *)
THEOREM ScreenIsCurrentHolds == DesktopSpec => []ScreenIsCurrent
<1>1. ASSUME SearchInv PROVE ScreenIsCurrent
  <2> SUFFICES ASSUME InTurn, Quiet, Clean PROVE shown = store
    BY DEF ScreenIsCurrent, ChangesAreShown, Clean
  <2> QED BY <1>1, QuietLevel DEF SearchInv, ShownInv, Steady, ShownHeld
<1> QED BY <1>1, SearchInvHolds, PTL

(* Between commands the index has every live entry under its title and nothing else, and at *)
(* rest the results are what a search for the text in the box finds now: no task of         *)
(* SearchIndexTask is lost or comes too late, and every refresh searches again.              *)
THEOREM SearchFindsHolds == DesktopSpec => []SearchFinds
<1>1. ASSUME SearchInv, InTurn PROVE IndexCoversLibrary
  <2> SUFFICES ASSUME Idle, Indexing
               PROVE  \A e \in Entry : RightFor(e, indexed[e])
    BY <1>1 DEF IndexCoversLibrary, Indexing, Steady, Clean, RightFor
  <2>1. \A t \in Slots : Due(tasks[t]) = {} BY DEF Idle, Due
  <2> QED BY <1>1, <2>1 DEF SearchInv, IndexInv, IndexHeld
<1>2. ASSUME SearchInv, InTurn PROVE ResultsAreCurrent
  <2> SUFFICES ASSUME Quiet, SearchIdle, Steady, Followed
               PROVE  results = IF query = NoQuery THEN <<>> ELSE <<Found(query, trashView)>>
    BY <1>2 DEF ResultsAreCurrent, ScreenSettled, Steady, Clean, Followed
  <2>1. ResultsHeld /\ Level BY <1>2, QuietLevel DEF SearchInv, ResultsInv
  <2>2. ~Pending BY DEF SearchIdle, Pending
  <2>3. results = Listed(store, indexed, query, trashView) BY <2>1, <2>2 DEF ResultsHeld
  <2> QED BY <2>3 DEF Listed, Sought, Found
<1>3. SearchInv => SearchFinds BY <1>1, <1>2 DEF SearchFinds
<1> QED BY <1>3, SearchInvHolds, PTL
=============================================================================
