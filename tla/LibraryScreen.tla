---------------------------- MODULE LibraryScreen ----------------------------
(* The library screen over its library: the search box, the trash view and the tag  *)
(* view, with the search that is debounced, run in the background and shown when it *)
(* answers, and that every reading of the library asks for again.                   *)
EXTENDS Organization

CONSTANTS
  NoQuery,      \* an empty search box
  ScreenEvents, \* ScreenEvents[s]: what is done on the screen in a scenario s of OrgScenarios
  MaxInputs     \* bound: inputs on the screen in a behaviour

(* "search": a query is typed or cleared; "view": the trash, folders and all filters *)
(* are opened and left; "tag": a tag pill is clicked, and gone back from; "hasty":   *)
(* the next input does not wait for the search to answer; "leaveTrash": a folder is  *)
(* opened while the trash is searched.                                               *)
ASSUME ScreenAssumption ==
  /\ NoQuery \notin Title /\ MaxInputs \in Nat
  /\ ScreenEvents \in
       [OrgScenarios -> SUBSET {"search", "view", "tag", "hasty", "leaveTrash"}]

Searches == 1 .. 2

VARIABLES
  query,      \* library.search_query; it is looked for among the titles
  results,    \* library.search_results: <<>>, or <<the entries found>>
  trashView,  \* library.trash_view_active
  savedView,  \* library.previous_tag_pill_view: <<>> or <<[query, results]>>
  searches,   \* searches on their way
  inputs      \* inputs so far

viewVars   == <<query, results, trashView, savedView, searches, inputs>>
libraryVars == <<orgVars, viewVars>>

Search == [phase : {"free", "debounce", "run", "results"}, query : Title \cup {NoQuery},
           trash : BOOLEAN, found : SUBSET Entry]
NoSearch == [phase |-> "free", query |-> NoQuery, trash |-> FALSE, found |-> {}]

SearchIdle    == \A i \in Searches : searches[i].phase = "free"
ScreenSettled == Quiet /\ SearchIdle
(* The user is still typing. *)
Typing        == Quiet /\ \A i \in Searches : searches[i].phase \in {"free", "debounce"}

(* search_library_task: in the library the index and the titles, in the trash the titles. *)
Found(q, trash) ==
  IF trash THEN {e \in TrashedEntries(store) : store.title[e] = q}
  ELSE {e \in LiveEntries(store) : q \in {indexed[e], store.title[e]}}

Ask(q) ==
  \E i \in Searches :
    /\ searches[i].phase = "free" /\ \A j \in Searches : j < i => searches[j].phase # "free"
    /\ searches' = [searches EXCEPT ![i] = [NoSearch EXCEPT !.phase = "debounce", !.query = q]]
-----------------------------------------------------------------------------
Input(kind) ==
  /\ kind \in ScreenEvents[events] /\ inputs < MaxInputs /\ inputs' = inputs + 1
  /\ \/ ScreenSettled \/ "hasty" \in ScreenEvents[events]
     \/ Typing /\ kind # "tag"

SearchQueryChanged ==
  /\ Input("search")
  /\ \E q \in (Title \cup {NoQuery}) \ {query} :
       /\ query' = q
       /\ \/ q = NoQuery /\ results' = <<>> /\ UNCHANGED searches
          \/ q # NoQuery /\ Ask(q) /\ UNCHANGED results
  /\ UNCHANGED <<orgVars, trashView, savedView>>

OpenTrashCan ==
  /\ Input("view")
  /\ trashView' = TRUE /\ query' = NoQuery /\ results' = <<>> /\ savedView' = <<>>
  /\ refreshes' = refreshes + 1
  /\ UNCHANGED <<dataVars, tasks, historyVars, loads, shown, acts, events, searches>>

(* FolderSelected and the filters: the query and its results stay. *)
FolderSelected ==
  /\ Input("view")
  /\ trashView /\ query # NoQuery => "leaveTrash" \in ScreenEvents[events]
  /\ trashView' = FALSE /\ savedView' = <<>>
  /\ UNCHANGED <<orgVars, query, results, searches>>

ClearLibraryFilters ==
  /\ Input("view")
  /\ trashView' = FALSE /\ query' = NoQuery /\ results' = <<>> /\ savedView' = <<>>
  /\ UNCHANGED <<orgVars, searches>>

TagPillClicked ==
  /\ Input("tag")
  /\ savedView' = <<[query |-> query, results |-> results]>>
  /\ query' = NoQuery /\ results' = <<>>
  /\ UNCHANGED <<orgVars, trashView, searches>>

RestoreLibraryViewBeforeTag ==
  /\ Input("tag") /\ savedView # <<>>
  /\ query' = savedView[1].query /\ results' = savedView[1].results /\ savedView' = <<>>
  /\ UNCHANGED <<orgVars, trashView, searches>>
-----------------------------------------------------------------------------
(* Mutant: a late debounce runs its own query. *)
SearchDebouncedAlways(i) ==
  /\ searches[i].phase = "debounce"
  /\ searches' = [searches EXCEPT ![i].phase = "run", ![i].trash = trashView]
  /\ UNCHANGED <<orgVars, query, results, trashView, savedView, inputs>>

(* Only the query that is still in the box is searched, in the view of that moment. *)
SearchDebounced(i) ==
  /\ searches[i].phase = "debounce"
  /\ searches' = [searches EXCEPT ![i] =
       IF @.query = query THEN [@ EXCEPT !.phase = "run", !.trash = trashView] ELSE NoSearch]
  /\ UNCHANGED <<orgVars, query, results, trashView, savedView, inputs>>

(* The rows and the index are read, here at once. *)
SearchRuns(i) ==
  /\ searches[i].phase = "run"
  /\ searches' = [searches EXCEPT ![i].phase = "results",
                                  ![i].found = Found(searches[i].query, searches[i].trash)]
  /\ UNCHANGED <<orgVars, query, results, trashView, savedView, inputs>>

(* Whatever the query has become. *)
SearchResults(i) ==
  /\ searches[i].phase = "results"
  /\ results' = <<searches[i].found>> /\ searches' = [searches EXCEPT ![i] = NoSearch]
  /\ UNCHANGED <<orgVars, query, trashView, savedView, inputs>>

(* LibraryLoaded looks for the query again. *)
ScreenLoaded ==
  /\ LibraryLoaded
  /\ \/ query # NoQuery /\ Ask(query)
     \/ query = NoQuery /\ UNCHANGED searches
  /\ UNCHANGED <<query, results, trashView, savedView, inputs>>
-----------------------------------------------------------------------------
ScreenInit ==
  /\ query = NoQuery /\ results = <<>> /\ trashView = FALSE /\ savedView = <<>>
  /\ searches = [i \in Searches |-> NoSearch] /\ inputs = 0

ScreenInput ==
  \/ SearchQueryChanged \/ OpenTrashCan \/ FolderSelected \/ ClearLibraryFilters
  \/ TagPillClicked \/ RestoreLibraryViewBeforeTag

SearchStep(i) == SearchDebounced(i) \/ SearchRuns(i) \/ SearchResults(i)

(* A command is given when the last one, and the search after it, have come to the *)
(* screen, unless commands overlap.                                                *)
LibraryCommand(t) ==
  (SearchIdle \/ "overlap" \in events) /\ OrgUser(t) /\ UNCHANGED viewVars

LibraryUser == ScreenInput \/ \E t \in Slots : LibraryCommand(t)

LibraryGoesOn ==
  \/ ScreenLoaded
  \/ \E i \in Searches : SearchStep(i)
  \/ (Refresh \/ \E t \in Slots : OrgTask(t) \/ OrgMessage(t)) /\ UNCHANGED viewVars

LibraryNext ==
  LibraryUser \/ LibraryGoesOn \/ \E t \in Slots : TaskFailed(t) /\ UNCHANGED viewVars

LibraryInit == OrgInit /\ ScreenInit

LibraryFairness ==
  WF_libraryVars(LibraryGoesOn \/ \E t \in Slots : TaskFailed(t) /\ UNCHANGED viewVars)

LibrarySpec == LibraryInit /\ [][LibraryNext]_libraryVars /\ LibraryFairness
-----------------------------------------------------------------------------
ScreenTypeOK ==
  /\ query \in Title \cup {NoQuery} /\ trashView \in BOOLEAN
  /\ results \in {<<>>} \cup {<<found>> : found \in SUBSET Entry}
  /\ Len(savedView) <= 1 /\ searches \in [Searches -> Search]
  /\ inputs \in 0 .. MaxInputs

(* When the screen has settled, the list below a query is what a search of the        *)
(* library or of the trash, whichever is open, finds now, in the database and in the  *)
(* index, whatever commands, undos and views came since it was typed; and no list     *)
(* stays without a query (app.rs keeps a "generation used to ignore stale search task *)
(* results", which nothing reads). It does not hold when inputs or commands overtake  *)
(* a search, when a folder is opened from a search of the trash, or when the way back *)
(* from a tag comes after a command.                                                  *)
ResultsAreCurrent ==
  /\ ScreenSettled /\ events \cap {"overlap", "failure"} = {}
  /\ ScreenEvents[events] \cap {"hasty", "leaveTrash"} = {}
  /\ "tag" \in ScreenEvents[events] => events = {}
  => results = IF query = NoQuery THEN <<>> ELSE <<Found(query, trashView)>>
=============================================================================
