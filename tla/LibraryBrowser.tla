--------------------------- MODULE LibraryBrowser ---------------------------
(* The list of PDFs on the library screen: what is listed under the filters and in the *)
(* order chosen, the selection, the details editor that follows it, drags, the         *)
(* clipboard and the confirmations, over rows that commands and syncs change and that   *)
(* the screen reads again. One folder below the root stands for the tree.              *)
EXTENDS Integers, FiniteSets, SequencesExt

CONSTANTS
  Entry, None,
  Rank,             \* Rank[e]: where e comes by title
  Start,            \* rows at first
  BrowserScenarios, \* what may happen in a behaviour: sets of BrowserEvents
  MaxSteps          \* bound: MaxSteps[s] inputs and syncs in a scenario s

(* "remote": a sync changes a row; "progress": a row is read on; "early": an input does *)
(* not wait for the list to be read, nor for a search; "late": of searches on their way *)
(* a later one may be done first; "behind": input below a confirmation.                 *)
BrowserEvents ==
  {"filter", "folder", "tag", "search", "trash", "sort", "click", "check", "all", "drag",
   "clip", "confirm", "remote", "progress", "early", "late", "behind"}

Filters == {"reading", "recent", "missing"}
Query   == {"empty", "one", "other"}   \* what may be in the search field

(* place of the row, whether it is in the folder, has the tag and passes the filters;   *)
(* manual_order in the library and in the folder.                                       *)
Row == [place : {"live", "trash", "gone"}, filed : BOOLEAN, tagged : BOOLEAN,
        passes : SUBSET Filters, order : Nat, folderOrder : Nat]

ASSUME BrowserAssumption ==
  /\ None \notin Entry /\ Rank \in [Entry -> Nat] /\ Start \subseteq [Entry -> Row]
  /\ BrowserScenarios \subseteq SUBSET BrowserEvents /\ MaxSteps \in [BrowserScenarios -> Nat]

VARIABLES
  rows,      \* the database
  list,      \* library_entries and library_trash_entries: [live, trash], of rows as read
  reads,     \* refresh_library tasks that have not read
  readings,  \* LibraryLoaded messages on their way
  view,      \* the sort mode and what is filtered by
  searches,  \* searches on their way, the oldest first: [phase, query, trash, found]
  found,     \* search_results: <<>>, or <<the rows found>>
  selected,  \* selected_library_entries
  anchor,    \* library_selection_anchor
  details,   \* details_entry_id, whose title is in the editor
  drag,      \* library_drag
  clip,      \* clipboard
  dialog,    \* pending_confirmation
  task,      \* the command that runs
  can,       \* the scenario
  steps

rowVars  == <<rows, list, reads, readings>>
searchVars == <<searches, found>>
pickVars == <<selected, anchor, details>>
browserVars == <<rowVars, view, searchVars, pickVars, drag, clip, dialog, task, can, steps>>

NoDrag    == [entry |-> None, ids |-> <<>>, target |-> 0, drop |-> "order", active |-> FALSE]
NoTask    == [kind |-> "none", ids |-> <<>>, folder |-> FALSE, done |-> FALSE]

Idle == task = NoTask /\ reads = 0 /\ readings = <<>> /\ searches = <<>>
-----------------------------------------------------------------------------
(* Rows in the order of a key, and of the title where it is the same. *)
Ordered(set, Key(_)) ==
  SetToSortSeq(set, LAMBDA x, y : \/ Key(x) < Key(y)
                                  \/ Key(x) = Key(y) /\ Rank[x.id] < Rank[y.id])

RowsAt(place) == {[rows[e] EXCEPT !.place = place] @@ [id |-> e] :
                    e \in {x \in Entry : rows[x].place = place}}

Sorted(set) == Ordered(set, LAMBDA x : IF view.sort = "manual" THEN x.order ELSE 0)

(* get_entries_sorted and get_trashed_entries. *)
Reading ==
  [live |-> Sorted(RowsAt("live")), trash |-> Ordered(RowsAt("trash"), LAMBDA x : x.order)]

Ids(s) == [i \in DOMAIN s |-> s[i].id]

ActiveList == IF view.trash THEN list.trash ELSE list.live

(* entry_visible_in_folder_scope: outside a folder, what is in none. *)
Passes(x) ==
  /\ view.tag => x.tagged
  /\ view.tag \/ x.filed = view.folder
  /\ view.filters \subseteq x.passes

(* visible_library_entries. A folder has an order of its own. *)
Visible ==
  LET shown == SelectSeq(IF found = <<>> THEN ActiveList ELSE found[1], Passes)
      FolderKey(i) == shown[i].folderOrder
      by == SetToSortSeq(DOMAIN shown, LAMBDA i, j : \/ FolderKey(i) < FolderKey(j)
                                                     \/ FolderKey(i) = FolderKey(j) /\ i < j)
  IN IF view.sort = "manual" /\ view.folder /\ "recent" \notin view.filters
     THEN [i \in DOMAIN shown |-> shown[by[i]].id] ELSE Ids(shown)

VisibleIds == {Visible[i] : i \in DOMAIN Visible}
-----------------------------------------------------------------------------
(* sync_details_editor_to_selection: the only entry selected, when it is in the list. *)
SyncDetails ==
  LET sole == {e \in selected' : /\ selected' = {e}
                                 /\ \E i \in DOMAIN ActiveList' : ActiveList'[i].id = e}
  IN details' = IF sole = {} THEN None ELSE CHOOSE e \in sole : TRUE

(* Mutant: the anchor stays where it was. *)
PrunedUnanchored(sel, anc) == selected' = sel \cap VisibleIds' /\ anchor' = anc /\ SyncDetails

(* prune_selection_to_visible_entries, of a selection made before in the handler. *)
Pruned(sel, anc) ==
  /\ selected' = sel \cap VisibleIds'
  /\ IF anc = None \/ anc \in VisibleIds' THEN anchor' = anc
     ELSE anchor' \in IF selected' = {} THEN {None} ELSE selected'
  /\ SyncDetails

ClearSelection == selected' = {} /\ anchor' = None /\ details' = None

NoDragNow == drag' = NoDrag

Input(kind) ==
  /\ kind \in can /\ steps < MaxSteps[can] /\ steps' = steps + 1 /\ can' = can
  /\ Idle \/ "early" \in can
  /\ dialog = None \/ "behind" \in can

(* A handler that changes what is listed and then prunes. *)
Lists(new, results) ==
  /\ view' = new /\ found' = results /\ searches' = searches
  /\ NoDragNow /\ UNCHANGED <<rowVars, clip, dialog, task>>

TagFilterChanged ==
  /\ Input("tag")
  /\ \E on \in BOOLEAN :
       Lists([view EXCEPT !.trash = FALSE, !.tag = on, !.folder = ~on /\ @,
                          !.filters = @ \ {"recent"}], found)
  /\ Pruned(selected, anchor)

ReadingFilterChanged ==
  /\ Input("filter")
  /\ \E on \in SUBSET {"reading"} :
       Lists([view EXCEPT !.trash = FALSE, !.filters = on, !.tag = FALSE, !.folder = FALSE],
             found)
  /\ Pruned(selected, anchor)

RecentlyOpenedFilterChanged ==
  /\ Input("filter")
  /\ \/ Lists([view EXCEPT !.trash = FALSE, !.filters = {"recent"}, !.tag = FALSE,
                           !.folder = FALSE], found)
     \/ Lists([view EXCEPT !.trash = FALSE, !.filters = @ \ {"recent"}], found)
  /\ Pruned(selected, anchor)

MissingFilterChanged ==
  /\ Input("filter")
  /\ \/ Lists([view EXCEPT !.trash = FALSE, !.filters = (@ \ {"recent"}) \cup {"missing"}], found)
     \/ Lists([view EXCEPT !.trash = FALSE, !.filters = @ \ {"missing"}], found)
  /\ Pruned(selected, anchor)

OpenTrashCan ==
  /\ Input("trash")
  /\ view' = [view EXCEPT !.trash = TRUE, !.folder = FALSE, !.tag = FALSE, !.filters = {},
                          !.query = "empty"]
  /\ found' = <<>> /\ searches' = searches /\ NoDragNow /\ ClearSelection /\ reads' = reads + 1
  /\ UNCHANGED <<rows, list, readings, clip, dialog, task>>

(* FolderSelected and FolderTreeFolderOpened: the selection is cleared first. *)
OpenFolder ==
  /\ Input("folder")
  /\ \E f \in BOOLEAN :
       Lists([view EXCEPT !.trash = FALSE, !.folder = f, !.filters = @ \ {"recent"}], found)
  /\ ClearSelection

ClearLibraryFilters ==
  /\ Input("filter")
  /\ Lists([view EXCEPT !.trash = FALSE, !.query = "empty", !.tag = FALSE, !.filters = {},
                        !.folder = FALSE], <<>>)
  /\ Pruned(selected, anchor)

(* schedule_search, when something is searched for. *)
SearchesFor(query) ==
  IF query = "empty" THEN searches
  ELSE Append(searches, [phase |-> "debounce", query |-> query, trash |-> FALSE, found |-> <<>>])

(* The results stay until others come, or the query is empty; nothing is pruned. *)
SearchQueryChanged ==
  /\ Input("search")
  /\ \E query \in Query :
       /\ view' = [view EXCEPT !.query = query] /\ searches' = SearchesFor(query)
       /\ found' = IF query = "empty" THEN <<>> ELSE found
  /\ NoDragNow /\ UNCHANGED <<rowVars, pickVars, clip, dialog, task>>

NextSearch(i, phase) ==
  /\ i \in DOMAIN searches /\ searches[i].phase = phase /\ (i = 1 \/ "late" \in can)
  /\ can' = can /\ steps' = steps /\ UNCHANGED <<rowVars, view, drag, clip, dialog, task>>

(* What is no longer in the field is not searched for; whether the trash is shown is *)
(* taken along.                                                                      *)
SearchDebounced(i) ==
  /\ NextSearch(i, "debounce") /\ UNCHANGED <<found, pickVars>>
  /\ searches' = IF searches[i].query = view.query
                 THEN [searches EXCEPT ![i].phase = "run", ![i].trash = view.trash]
                 ELSE RemoveAt(searches, i)

(* search_library_task: live rows are found in the order of their scores, which may be *)
(* any; those of the trash as they are listed.                                         *)
SearchRuns(i) ==
  /\ NextSearch(i, "run") /\ UNCHANGED <<found, pickVars>>
  /\ \E ids \in SUBSET Entry :
       LET Hit(x) == x.id \in ids
           Answers(s) == searches' = [searches EXCEPT ![i].phase = "results", ![i].found = s]
       IN IF searches[i].trash THEN Answers(SelectSeq(Reading.trash, Hit))
          ELSE \E s \in SetToSeqs({x \in RowsAt("live") : Hit(x)}) : Answers(s)

(* Nothing is compared with what is searched for or shown by now. *)
SearchResults(i) ==
  /\ NextSearch(i, "results")
  /\ found' = <<searches[i].found>> /\ searches' = RemoveAt(searches, i)
  /\ Pruned(selected, anchor)

LibrarySortChanged ==
  /\ Input("sort")
  /\ \E mode \in {"manual", "title"} : view' = [view EXCEPT !.sort = mode]
  /\ NoDragNow /\ reads' = reads + 1
  /\ UNCHANGED <<rows, list, readings, searchVars, pickVars, clip, dialog, task>>
-----------------------------------------------------------------------------
Picks == UNCHANGED <<rowVars, view, searchVars, clip, dialog, task>>

(* select_library_range: from the anchor, which may no longer be listed. *)
RangeTo(e) ==
  \E from \in IF anchor # None THEN {anchor} ELSE IF selected # {} THEN selected ELSE {e} :
    LET At(x) == {i \in DOMAIN Visible : Visible[i] = x}
    IN CASE from \notin VisibleIds -> Pruned({e}, e)
         [] from \in VisibleIds /\ e \notin VisibleIds -> Pruned(selected, anchor)
         [] OTHER -> \E i \in At(from), j \in At(e) :
                       Pruned({Visible[k] : k \in (i .. j) \cup (j .. i)}, from)

(* select_library_entry, by the keys that are held. *)
SelectEntry(e) ==
  \/ RangeTo(e)
  \/ Pruned(IF e \in selected THEN selected \ {e} ELSE selected \cup {e}, e)
  \/ Pruned({e}, e)

LibraryEntryClicked ==
  /\ Input("click") /\ drag = NoDrag
  /\ Picks /\ UNCHANGED drag
  /\ \E e \in VisibleIds : SelectEntry(e)

(* EntryCheckboxToggled and MasterCheckboxClicked. *)
CheckboxClicked ==
  /\ Input("check") /\ Picks /\ UNCHANGED drag
  /\ \/ \E e \in VisibleIds :
          Pruned(IF e \in selected THEN selected \ {e} ELSE selected \cup {e}, e)
     \/ VisibleIds # {} /\ VisibleIds \subseteq selected /\ ClearSelection
     \/ /\ VisibleIds = {} \/ ~(VisibleIds \subseteq selected)
        /\ selected' = VisibleIds /\ anchor' = (IF Visible = <<>> THEN None ELSE Visible[1])
        /\ SyncDetails

SelectionClears ==
  /\ Input("all") /\ ClearSelection
  /\ Picks /\ UNCHANGED drag
-----------------------------------------------------------------------------
(* begin_library_drag: of what is selected, when the card is part of it. *)
BeginLibraryEntryDrag ==
  /\ Input("drag") /\ drag = NoDrag
  /\ \E i \in DOMAIN Visible :
       LET e == Visible[i]
           many == Cardinality(selected) > 1 /\ e \in selected
       IN drag' = [entry |-> e, target |-> i - 1, drop |-> "order", active |-> FALSE,
                   ids |-> IF many THEN SelectSeq(Visible, LAMBDA x : x \in selected) ELSE <<e>>]
  /\ Picks /\ UNCHANGED pickVars

(* LibraryEntryDragMoved and the hover messages: a place between the other cards, a   *)
(* folder after the dwell, or the strip of the parent directory, shown in a folder.   *)
LibraryEntryDragMoved ==
  /\ drag # NoDrag /\ ~drag.active /\ can' = can /\ steps' = steps
  /\ \E place \in 0 .. Len(Visible), drop \in {"order", "folder", "parent"} :
       /\ place <= Cardinality(VisibleIds \ {drag.ids[i] : i \in DOMAIN drag.ids})
       /\ drop = "parent" => view.folder /\ ~view.tag
       /\ drag' = [drag EXCEPT !.active = TRUE, !.drop = drop,
                               !.target = IF drop = "order" THEN place ELSE @]
  /\ Picks /\ UNCHANGED pickVars

(* Mutant: whatever the list is sorted by. *)
CanReorderAny == view.query = "empty" /\ found = <<>> /\ ~view.tag /\ ~view.trash

(* can_drag_reorder_library. *)
CanReorder ==
  view.sort = "manual" /\ view.query = "empty" /\ found = <<>> /\ ~view.tag /\ ~view.trash

(* reorder_entry_ids_for_drag. *)
Reordered(ids, dragged, target) ==
  LET moving == SelectSeq(ids, LAMBDA x : x \in dragged)
      rest   == SelectSeq(ids, LAMBDA x : x \notin dragged)
      at     == IF target < Len(rest) THEN target ELSE Len(rest)
  IN IF moving = <<>> THEN ids ELSE SubSeq(rest, 1, at) \o moving \o SubSeq(rest, at + 1, Len(rest))

Starts(kind, ids) == task' = [kind |-> kind, ids |-> ids, folder |-> view.folder, done |-> FALSE]

(* The list becomes what was visible, in its new order, until it is read again. *)
DropInOrder ==
  LET next == Reordered(Visible, {drag.ids[i] : i \in DOMAIN drag.ids}, drag.target)
  IN IF ~CanReorder \/ next = Visible THEN UNCHANGED <<list, task>>
     ELSE /\ list' = [list EXCEPT !.live =
                       [i \in DOMAIN next |->
                          CHOOSE x \in {list.live[k] : k \in DOMAIN list.live} : x.id = next[i]]]
          /\ Starts("order", next)

(* finish_library_drag. A press that has not moved is a click; on the strip PDFs go to *)
(* the parent, here the root; on the folder they are added to it.                      *)
EndLibraryEntryDrag ==
  /\ drag # NoDrag /\ drag' = NoDrag /\ can' = can /\ steps' = steps
  /\ task = NoTask \/ ~drag.active
  /\ UNCHANGED <<rows, reads, readings, view, searchVars, clip, dialog>>
  /\ \/ ~drag.active /\ UNCHANGED <<list, task>> /\ SelectEntry(drag.entry)
     \/ /\ drag.active /\ UNCHANGED pickVars
        /\ CASE drag.drop = "order" -> DropInOrder
             [] drag.drop = "parent" /\ view.folder -> UNCHANGED list /\ Starts("unfile", drag.ids)
             [] drag.drop = "folder" /\ ~view.folder -> UNCHANGED list /\ Starts("file", drag.ids)
             [] OTHER -> UNCHANGED <<list, task>>
-----------------------------------------------------------------------------
SelectedSeq == SetToSortSeq(selected, LAMBDA x, y : Rank[x] < Rank[y])

(* RequestConfirmation: what it is about is not kept with it. *)
RequestConfirmation ==
  /\ Input("confirm") /\ selected # {}
  /\ \/ dialog' = "trash"
     \/ view.trash /\ dialog' = "purge"
  /\ UNCHANGED <<rowVars, view, searchVars, pickVars, drag, clip, task>>

(* ConfirmPendingAction, with what is selected now, or CancelConfirmation. *)
EndConfirmation ==
  /\ dialog # None /\ dialog' = None /\ task = NoTask /\ can' = can /\ steps' = steps
  /\ \/ task' = task
     \/ selected # {} /\ Starts(dialog, SelectedSeq)
  /\ UNCHANGED <<rowVars, view, searchVars, pickVars, drag, clip>>

RestoreSelectedFromTrash ==
  /\ Input("confirm") /\ view.trash /\ selected # {} /\ task = NoTask
  /\ Starts("restore", SelectSeq(Ids(ActiveList), LAMBDA x : x \in selected))
  /\ UNCHANGED <<rowVars, view, searchVars, pickVars, drag, clip, dialog>>

(* CutLibrarySelection and CopyLibrarySelection. *)
SetClipboard ==
  /\ Input("clip") /\ selected # {}
  /\ \E mode \in {"cut", "copy"} : clip' = <<[mode |-> mode, ids |-> SelectedSeq]>>
  /\ UNCHANGED <<rowVars, view, searchVars, pickVars, drag, dialog, task>>

(* A copy needs a folder to go to. *)
PasteLibraryClipboard ==
  /\ Input("clip") /\ clip # <<>> /\ task = NoTask
  /\ clip[1].mode = "copy" => view.folder
  /\ Starts(IF clip[1].mode = "cut" THEN "cut" ELSE "file", clip[1].ids)
  /\ UNCHANGED <<rowVars, view, searchVars, pickVars, drag, clip, dialog>>
-----------------------------------------------------------------------------
InTask(e) == \E i \in DOMAIN task.ids : task.ids[i] = e
PlaceIn(e) == CHOOSE i \in DOMAIN task.ids : task.ids[i] = e

LastInFolder ==
  LET filed == {rows[e].folderOrder : e \in {x \in Entry : rows[x].filed}}
  IN IF filed = {} THEN 0 ELSE CHOOSE n \in filed : \A m \in filed : m <= n

Filed(r, n) == [r EXCEPT !.filed = TRUE, !.folderOrder = LastInFolder + n]

(* What the task does to a row: add_entry_to_folder leaves one alone that is there. *)
Changed(r, e) ==
  CASE task.kind = "order" /\ task.folder -> [r EXCEPT !.folderOrder = PlaceIn(e)]
    [] task.kind = "order" /\ ~task.folder -> [r EXCEPT !.order = PlaceIn(e)]
    [] task.kind = "file" -> IF r.filed THEN r ELSE Filed(r, PlaceIn(e))
    [] task.kind = "cut" /\ task.folder -> Filed(r, PlaceIn(e))
    [] task.kind = "unfile" \/ (task.kind = "cut" /\ ~task.folder) -> [r EXCEPT !.filed = FALSE]
    [] task.kind = "restore" -> [r EXCEPT !.place = "live"]
    [] task.kind = "purge" -> [r EXCEPT !.place = "gone"]
    [] task.kind = "trash" -> [r EXCEPT !.place = "trash"]

(* The task writes its rows, those that are still there; an order of the folder with   *)
(* PDFs that have left it is refused, which only shows an error.                       *)
TaskWrites ==
  /\ task # NoTask /\ ~task.done
  /\ IF /\ task.kind = "order" /\ task.folder
        /\ \E e \in Entry : InTask(e) /\ (rows[e].place = "gone" \/ ~rows[e].filed)
     THEN task' = NoTask /\ UNCHANGED rows
     ELSE /\ task' = [task EXCEPT !.done = TRUE]
          /\ rows' = [e \in Entry |-> IF InTask(e) /\ rows[e].place # "gone"
                                      THEN Changed(rows[e], e) ELSE rows[e]]
  /\ UNCHANGED <<list, reads, readings, view, searchVars, pickVars, drag, clip, dialog, can, steps>>

(* LibraryHistoryActionFinished and LibraryClipboardPasteFinished. *)
TaskFinished ==
  /\ task.done /\ task' = NoTask /\ reads' = reads + 1 /\ ClearSelection
  /\ clip' = IF task.kind = "cut" THEN <<>> ELSE clip
  /\ UNCHANGED <<rows, list, readings, view, searchVars, drag, dialog, can, steps>>

ReadLibrary ==
  /\ reads > 0 /\ reads' = reads - 1 /\ readings' = Append(readings, Reading)
  /\ UNCHANGED <<rows, list, view, searchVars, pickVars, drag, clip, dialog, task, can, steps>>

(* Mutant: what is no longer listed stays selected. *)
LibraryLoadedUnpruned ==
  /\ readings # <<>> /\ list' = Head(readings) /\ readings' = Tail(readings)
  /\ searches' = SearchesFor(view.query)
  /\ UNCHANGED <<rows, reads, view, found, pickVars, drag, clip, dialog, task, can, steps>>

(* What is searched for is asked for again. *)
LibraryLoaded ==
  /\ readings # <<>> /\ list' = Head(readings) /\ readings' = Tail(readings)
  /\ searches' = SearchesFor(view.query)
  /\ UNCHANGED <<rows, reads, view, found, drag, clip, dialog, task, can, steps>>
  /\ Pruned(selected, anchor)

(* A sync changes a row and the library is read again. *)
RemoteChange ==
  /\ "remote" \in can /\ steps < MaxSteps[can] /\ steps' = steps + 1
  /\ \E e \in Entry :
       /\ rows[e].place # "gone"
       /\ \/ \E place \in {"live", "trash", "gone"} \ {rows[e].place} :
               rows' = [rows EXCEPT ![e].place = place]
          \/ rows' = [rows EXCEPT ![e] = IF @.filed THEN [@ EXCEPT !.filed = FALSE]
                                         ELSE Filed(@, 1)]
  /\ reads' = reads + 1
  /\ UNCHANGED <<list, readings, view, searchVars, pickVars, drag, clip, dialog, task, can>>

(* ProgressUpdated: the entry may leave the reading filter, and stays selected. *)
ProgressUpdated ==
  /\ Input("progress")
  /\ \E e \in Entry :
       LET Read(x) == IF x.id = e THEN [x EXCEPT !.passes = @ \ {"reading"}] ELSE x
       IN /\ rows' = [rows EXCEPT ![e].passes = @ \ {"reading"}]
          /\ list' = [list EXCEPT !.live = [i \in DOMAIN @ |-> Read(@[i])]]
  /\ UNCHANGED <<reads, readings, view, searchVars, pickVars, drag, clip, dialog, task>>
-----------------------------------------------------------------------------
BrowserInit ==
  /\ rows \in Start /\ reads = 0 /\ readings = <<>> /\ searches = <<>>
  /\ view = [sort |-> "manual", query |-> "empty", tag |-> FALSE, folder |-> FALSE,
             trash |-> FALSE, filters |-> {}]
  /\ list = Reading
  /\ found = <<>> /\ selected = {} /\ anchor = None /\ details = None
  /\ drag = NoDrag /\ clip = <<>> /\ dialog = None /\ task = NoTask
  /\ can \in BrowserScenarios /\ steps = 0

BrowserInput ==
  \/ TagFilterChanged \/ ReadingFilterChanged \/ RecentlyOpenedFilterChanged
  \/ MissingFilterChanged \/ OpenTrashCan \/ OpenFolder \/ ClearLibraryFilters
  \/ SearchQueryChanged \/ LibrarySortChanged
  \/ LibraryEntryClicked \/ CheckboxClicked \/ SelectionClears
  \/ BeginLibraryEntryDrag \/ LibraryEntryDragMoved \/ EndLibraryEntryDrag
  \/ RequestConfirmation \/ EndConfirmation \/ RestoreSelectedFromTrash
  \/ SetClipboard \/ PasteLibraryClipboard

SearchStep ==
  \E i \in DOMAIN searches : SearchDebounced(i) \/ SearchRuns(i) \/ SearchResults(i)

BrowserNext ==
  \/ BrowserInput \/ SearchStep \/ TaskWrites \/ TaskFinished \/ ReadLibrary \/ LibraryLoaded
  \/ RemoteChange \/ ProgressUpdated

BrowserSpec == BrowserInit /\ [][BrowserNext]_browserVars
-----------------------------------------------------------------------------
BrowserTypeOK ==
  /\ \A e \in Entry : rows[e].place \in {"live", "trash", "gone"} /\ rows[e].filed \in BOOLEAN
  /\ reads \in Nat /\ Len(found) <= 1 /\ Len(clip) <= 1
  /\ selected \subseteq Entry /\ {anchor, details, drag.entry} \subseteq Entry \cup {None}
  /\ dialog \in {None, "trash", "purge"} /\ view.filters \subseteq Filters /\ view.query \in Query
  /\ \A i \in DOMAIN searches : /\ searches[i].phase \in {"debounce", "run", "results"}
                               /\ searches[i].query \in Query \ {"empty"}

(* When the library has been read, what is selected is listed, and so is the anchor a    *)
(* range is measured from, whatever filters, searches, syncs and commands came between:   *)
(* a command on the selection acts on what the user sees; and the editor has the entry    *)
(* that is selected alone. It does not hold when a page is read on below a filter of      *)
(* readings, nor when a search is given up (SearchQueryChanged prunes nothing) before     *)
(* the list has what it found, or has found what an older search, answering last, found.  *)
SelectionListed ==
  (Idle /\ can \cap {"progress", "early", "late"} = {}) =>
    /\ selected \subseteq VisibleIds /\ anchor \in VisibleIds \cup {None}
    /\ details = IF \E e \in VisibleIds : selected = {e} THEN CHOOSE e \in selected : TRUE ELSE None

(* A drag that is allowed to order moves what is dragged and nothing else: the order it   *)
(* has saved keeps the others as the database has them (state.rs: "switch to unfiltered   *)
(* Manual sort to reorder PDFs"). It does not hold below a filter of readings, recent or  *)
(* missing PDFs, which can_drag_reorder_library lets through, nor when the list is not    *)
(* yet read in the order just chosen.                                                     *)
OthersKeepTheirOrder ==
  [][(/\ Idle /\ view.filters = {}
      /\ task'.kind = "order") =>
        LET Key(e) == IF view.folder THEN rows[e].folderOrder ELSE rows[e].order
            PlaceOf(e) == CHOOSE i \in DOMAIN task'.ids : task'.ids[i] = e
            Others == VisibleIds \ {drag.ids[i] : i \in DOMAIN drag.ids}
        IN /\ {task'.ids[i] : i \in DOMAIN task'.ids} = VisibleIds
           /\ \A x, y \in Others : Key(x) < Key(y) => PlaceOf(x) < PlaceOf(y)]_browserVars

(* What is deleted for good has been in the trash, when the list is up to date as the     *)
(* deletion is confirmed, although the confirmation says only how, not what, and          *)
(* delete_entries looks at nothing else (dialogs.rs: "from the Trash Can"). It does not   *)
(* hold when the user leaves the trash below the confirmation, which is not modal, nor    *)
(* when a search begun before the trash was opened lists what it found there, nor when an *)
(* older search answers last.                                                             *)
OnlyTrashPurged ==
  [][(/\ dialog = "purge" /\ task = NoTask /\ task'.kind = "purge" /\ Idle
      /\ can \cap {"behind", "late"} = {} /\ ~({"search", "early"} \subseteq can)) =>
        \A i \in DOMAIN task'.ids : rows[task'.ids[i]].place = "trash"]_browserVars

(* What is selected is what the user sees, and the database keeps what the user did not   *)
(* mean: the order of what was not dragged and the PDFs that are not in the trash.        *)
BrowserActsOnSight == []SelectionListed /\ OthersKeepTheirOrder /\ OnlyTrashPurged
=============================================================================
