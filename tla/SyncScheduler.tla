--------------------------- MODULE SyncScheduler ---------------------------
(* When the content passes of CrdtSync run: the part of the application's      *)
(* reducer that starts one pass at a time, queues the libraries that ask for    *)
(* one meanwhile and starts the next when a pass reports, driven by the user's  *)
(* edits, the remote watchers, a timer and the library registry. Tasks run      *)
(* beside the reducer; what they end with reaches it later, as a message.       *)
EXTENDS Integers, FiniteSets

CONSTANTS
  Library,    \* library ids
  First,      \* the default library, active at first
  Hash,       \* Hash[l]: where a HashSet's iteration meets l
  None,       \* no library
  Hazards,    \* see HazardKinds
  MaxEdits,   \* bound: local edits of a behaviour
  MaxRemote,  \* bound: changes of other devices
  MaxFaults   \* bound: failed passes, and restarts

(* "failure": a pass ends with an error; "switch": the user switches libraries; *)
(* "add", "delete": libraries come and go; "restart": the application is closed *)
(* and started again; "expiry": it may then find no session and ask to sign in. *)
HazardKinds == {"failure", "switch", "add", "delete", "restart", "expiry"}

ASSUME ConstantsAssumption ==
  /\ First \in Library /\ None \notin Library
  /\ Hash \in [Library -> Nat]
  /\ \A k, l \in Library : Hash[k] = Hash[l] => k = l
  /\ Hazards \subseteq HazardKinds
  /\ MaxEdits \in Nat /\ MaxRemote \in Nat /\ MaxFaults \in Nat

VARIABLES
  profiles,   \* the libraries of the registry
  active,     \* active_library_id
  signedIn,   \* sync_auth.is_signed_in()
  ready,      \* startup_background_ready
  inProgress, \* sync_in_progress
  queued,     \* sync_queued_libraries
  running,    \* running[l]: passes of l that run
  finished,   \* finished[l]: AutoSyncFinished messages of l on their way
  saved,      \* messages of finished edits on their way
  noticed,    \* libraries of RemoteSyncAvailable messages on their way
  unpushed,   \* libraries with a local change no pass has covered
  ahead,      \* libraries whose remote head is past the local cursor
  edits, arrivals, faults

registryVars == <<profiles, active>>
queueVars    == <<inProgress, queued, running>>
workVars     == <<unpushed, ahead>>
boundVars    == <<edits, arrivals, faults>>
vars == <<registryVars, signedIn, ready, queueVars, finished, saved, noticed,
          workVars, boundVars>>

TypeOK ==
  /\ profiles \subseteq Library
  /\ active \in Library /\ inProgress \in Library \cup {None}
  /\ signedIn \in BOOLEAN /\ ready \in BOOLEAN
  /\ queued \subseteq Library /\ noticed \subseteq Library
  /\ running \in [Library -> Nat] /\ finished \in [Library -> Nat]
  /\ unpushed \subseteq Library /\ ahead \subseteq Library
  /\ saved \in Nat /\ edits \in Nat /\ arrivals \in Nat /\ faults \in Nat

Init ==
  /\ profiles = (IF "add" \in Hazards THEN {First} ELSE Library)
  /\ active = First
  /\ signedIn = TRUE /\ ready = FALSE
  /\ inProgress = None /\ queued = {}
  /\ running = [l \in Library |-> 0] /\ finished = [l \in Library |-> 0]
  /\ saved = 0 /\ noticed = {} /\ unpushed = {} /\ ahead = {}
  /\ edits = 0 /\ arrivals = 0 /\ faults = 0
-----------------------------------------------------------------------------
(* Mutants: the request starts a pass while another runs, or the library stays  *)
(* in the queue although its pass starts.                                        *)
AutoSyncUngated(l, queue, busy) ==
  IF l \notin profiles' THEN UNCHANGED running /\ queued' = queue /\ inProgress' = busy
  ELSE /\ queued' = queue \ {l} /\ inProgress' = l
       /\ running' = [running EXCEPT ![l] = @ + 1]

AutoSyncKept(l, queue, busy) ==
  IF busy # None THEN queued' = queue \cup {l} /\ inProgress' = busy /\ UNCHANGED running
  ELSE IF l \notin profiles' THEN UNCHANGED running /\ queued' = queue /\ inProgress' = busy
  ELSE /\ queued' = queue /\ inProgress' = l
       /\ running' = [running EXCEPT ![l] = @ + 1]

(* auto_sync_library_task, in a handler that has already made the queue and the  *)
(* pass in progress what the arguments say: queue the library behind a pass that *)
(* runs, start its pass, or do nothing for a library the registry has not.        *)
AutoSync(l, queue, busy) ==
  \/ /\ busy # None
     /\ queued' = queue \cup {l} /\ inProgress' = busy
     /\ UNCHANGED running
  \/ /\ busy = None /\ l \notin profiles'
     /\ queued' = queue /\ inProgress' = busy
     /\ UNCHANGED running
  \/ /\ busy = None /\ l \in profiles'
     /\ queued' = queue \ {l} /\ inProgress' = l
     /\ running' = [running EXCEPT ![l] = @ + 1]

(* Mutant: an empty queue is not looked for. *)
StartNextUnchecked(queue, busy) ==
  \E l \in IF queue = {} THEN {None} ELSE queue :
    /\ \A k \in queue : Hash[l] <= Hash[k]
    /\ AutoSync(l, queue, busy)

(* start_next_queued_sync: the first id the set's iterator yields.               *)
StartNext(queue, busy) ==
  \/ /\ queue = {}
     /\ queued' = queue /\ inProgress' = busy
     /\ UNCHANGED running
  \/ \E l \in queue : /\ \A k \in queue : Hash[l] <= Hash[k]
                      /\ AutoSync(l, queue, busy)
-----------------------------------------------------------------------------
(* StartupBackgroundReady: the active library is synced first. *)
StartupReady ==
  /\ ~ready
  /\ ready' = TRUE
  /\ UNCHANGED <<registryVars, signedIn>>
  /\ \/ signedIn /\ AutoSync(active, queued, inProgress)
     \/ ~signedIn /\ UNCHANGED queueVars
  /\ UNCHANGED <<finished, saved, noticed, workVars, boundVars>>

(* SyncSignInFinished. The registry sync it starts is RegistrySynced. *)
SignIn ==
  /\ ~signedIn
  /\ signedIn' = TRUE
  /\ UNCHANGED <<registryVars, ready, queueVars, finished, saved, noticed, workVars,
                 boundVars>>

(* The user changes the active library; the task that writes it reports later. *)
Edit ==
  /\ signedIn /\ edits < MaxEdits /\ active \in profiles
  /\ edits' = edits + 1
  /\ unpushed' = unpushed \cup {active}
  /\ saved' = saved + 1
  /\ UNCHANGED <<registryVars, signedIn, ready, queueVars, finished, noticed, ahead,
                 arrivals, faults>>

(* Mutant: a finished edit asks for no pass. *)
EditSavedQuietly ==
  /\ saved > 0 /\ saved' = saved - 1
  /\ UNCHANGED <<registryVars, signedIn, ready, queueVars, finished, noticed, workVars,
                 boundVars>>

(* A finished edit (import, trash, paste, progress...) calls start_auto_sync_now: *)
(* the library that is active now is queued.                                      *)
EditSaved ==
  /\ saved > 0 /\ saved' = saved - 1
  /\ queued' = IF signedIn THEN queued \cup {active} ELSE queued
  /\ UNCHANGED <<registryVars, signedIn, ready, inProgress, running, finished, noticed,
                 workVars, boundVars>>

(* select_library. *)
SelectLibrary ==
  /\ "switch" \in Hazards /\ signedIn
  /\ \E l \in profiles \ {active} : active' = l
  /\ UNCHANGED <<profiles, signedIn, ready, queueVars, finished, saved, noticed,
                 workVars, boundVars>>

(* AutoSyncTick. *)
AutoSyncTick ==
  /\ ready /\ signedIn /\ queued # {}
  /\ UNCHANGED <<registryVars, signedIn, ready>>
  /\ StartNext(queued, inProgress)
  /\ UNCHANGED <<finished, saved, noticed, workVars, boundVars>>

(* Another device pushes operations of a library. *)
RemoteChange(l) ==
  /\ arrivals < MaxRemote
  /\ arrivals' = arrivals + 1
  /\ ahead' = ahead \cup {l}
  /\ UNCHANGED <<registryVars, signedIn, ready, queueVars, finished, saved, noticed,
                 unpushed, edits, faults>>

(* live_sync_stream: polls each profile's remote head, and keeps reporting it. *)
Notice(l) ==
  /\ ready /\ signedIn /\ l \in profiles \cap ahead
  /\ noticed' = noticed \cup {l}
  /\ UNCHANGED <<registryVars, signedIn, ready, queueVars, finished, saved, workVars,
                 boundVars>>

(* Mutant: only the active library's report is looked at. *)
RemoteSyncAvailableActive(l) ==
  /\ l \in noticed /\ noticed' = noticed \ {l}
  /\ UNCHANGED <<registryVars, signedIn, ready>>
  /\ \/ l = active /\ signedIn /\ AutoSync(l, queued, inProgress)
     \/ l # active /\ UNCHANGED queueVars
  /\ UNCHANGED <<finished, saved, workVars, boundVars>>

(* The report may be late: the library may be up to date, or gone. *)
RemoteSyncAvailable(l) ==
  /\ l \in noticed /\ noticed' = noticed \ {l}
  /\ UNCHANGED <<registryVars, signedIn, ready>>
  /\ \/ signedIn /\ AutoSync(l, queued, inProgress)
     \/ ~signedIn /\ UNCHANGED queueVars
  /\ UNCHANGED <<finished, saved, workVars, boundVars>>

(* A pass of sync_library_if_needed: what it finds when it scans and pulls is      *)
(* covered, later changes are not; a failed pass covers nothing.                   *)
PassEnds(l) ==
  /\ running[l] > 0
  /\ running' = [running EXCEPT ![l] = @ - 1]
  /\ finished' = [finished EXCEPT ![l] = @ + 1]
  /\ \/ /\ unpushed' = unpushed \ {l} /\ ahead' = ahead \ {l}
        /\ UNCHANGED faults
     \/ /\ "failure" \in Hazards /\ faults < MaxFaults
        /\ faults' = faults + 1
        /\ UNCHANGED workVars
  /\ UNCHANGED <<registryVars, signedIn, ready, inProgress, queued, saved, noticed,
                 edits, arrivals>>

(* AutoSyncFinished. An error is shown, and that is all. *)
AutoSyncFinished(l) ==
  /\ finished[l] > 0
  /\ finished' = [finished EXCEPT ![l] = @ - 1]
  /\ UNCHANGED <<registryVars, signedIn, ready>>
  /\ StartNext(queued, IF inProgress = l THEN None ELSE inProgress)
  /\ UNCHANGED <<saved, noticed, workVars, boundVars>>

(* apply_library_registry: a registry task brings back a clone it took of the         *)
(* profiles, with its own changes; what others changed meanwhile is overwritten.     *)
(* When no library is left the default id becomes active.                            *)
RegistryBecomes(now) ==
  /\ now \subseteq profiles \/ "add" \in Hazards
  /\ profiles \subseteq now \/ "delete" \in Hazards
  /\ profiles' = now
  /\ active' \in IF now = {} THEN {First}
                 ELSE IF active \in now /\ "switch" \notin Hazards THEN {active} ELSE now

(* LibraryRegistrySyncFinished: libraries another device created are queued.         *)
RegistrySynced ==
  /\ signedIn
  /\ \E now \in SUBSET Library : \E added \in SUBSET (now \ profiles) :
       /\ RegistryBecomes(now)
       /\ StartNext(queued \cup added, inProgress)
  /\ UNCHANGED <<signedIn, ready, finished, saved, noticed, workVars, boundVars>>

(* LibraryRegistryUpdated after the user created, renamed or deleted a library, the  *)
(* last one excepted: the registry is synced, and the active library queued.         *)
LibraryRegistryUpdated ==
  /\ signedIn /\ edits < MaxEdits
  /\ edits' = edits + 1
  /\ \E now \in (SUBSET Library) \ {{}} : RegistryBecomes(now)
  /\ queued' = queued \cup {active'}
  /\ UNCHANGED <<signedIn, ready, inProgress, running, finished, saved, noticed,
                 workVars, arrivals, faults>>

(* The application is closed and started again: only what is on disk or remote     *)
(* survives. load_library_registry puts the default library into an empty list.     *)
Restart ==
  /\ "restart" \in Hazards /\ faults < MaxFaults
  /\ faults' = faults + 1
  /\ signedIn' \in IF "expiry" \in Hazards THEN BOOLEAN ELSE {TRUE}
  /\ ready' = FALSE /\ inProgress' = None /\ queued' = {}
  /\ running' = [l \in Library |-> 0] /\ finished' = [l \in Library |-> 0]
  /\ saved' = 0 /\ noticed' = {}
  /\ profiles' = IF profiles = {} THEN {First} ELSE profiles
  /\ active' \in IF active \in profiles' THEN {active} ELSE profiles'
  /\ UNCHANGED <<workVars, edits, arrivals>>

Next ==
  \/ StartupReady \/ SignIn \/ Edit \/ EditSaved \/ SelectLibrary \/ AutoSyncTick
  \/ RegistrySynced \/ LibraryRegistryUpdated \/ Restart
  \/ \E l \in Library : \/ RemoteChange(l) \/ Notice(l) \/ RemoteSyncAvailable(l)
                        \/ PassEnds(l) \/ AutoSyncFinished(l)

Spec == Init /\ [][Next]_vars

(* The timers and the watchers keep firing, tasks end, messages are delivered, and  *)
(* a user who is asked to sign in does so.                                           *)
FairSpec ==
  /\ Spec
  /\ WF_vars(StartupReady) /\ WF_vars(SignIn)
  /\ WF_vars(EditSaved) /\ WF_vars(AutoSyncTick)
  /\ \A l \in Library : /\ WF_vars(Notice(l)) /\ WF_vars(RemoteSyncAvailable(l))
                        /\ WF_vars(PassEnds(l)) /\ WF_vars(AutoSyncFinished(l))
-----------------------------------------------------------------------------
(* Passes do not overlap: the one in progress is the only task there is, running     *)
(* or about to report (sync.md: "queueing fields on PDFolioApp prevent overlapping    *)
(* passes from stomping each other"), deletions and restarts included.                *)
NoOverlap ==
  \A l \in Library : running[l] + finished[l] = IF inProgress = l THEN 1 ELSE 0

(* A queued library gets its turn, unless it is deleted before (app.rs: "Libraries     *)
(* that should sync after the current pass finishes").                                 *)
QueueServed ==
  \A l \in Library : l \in queued \cap profiles ~> l \notin queued \cap profiles

(* No library leaves the registry. *)
Kept == \A l \in Library : [](l \in profiles => [](l \in profiles))

(* It gets its turn in a registry that no library leaves, whatever passes fail and      *)
(* however often the application is restarted.                                          *)
QueueServedWhileKept == Kept => QueueServed

(* Changes of other devices are pulled in the end, through failed passes, restarts    *)
(* and reports that come late or twice, when no library leaves the registry.          *)
RemoteChangesPulled ==
  Kept => \A l \in Library : l \in ahead \cap profiles ~> l \notin ahead \cap profiles

(* Local changes are pushed in the end (workspace.md: after an import, the "next      *)
(* auto-sync seeds CRDT ops"), as long as no pass fails, the application is not        *)
(* restarted, no library leaves the registry and the user stays in one library: what    *)
(* an edit queues is the library that is active when the edit has been saved, and a     *)
(* failed pass is not queued again.                                                     *)
LocalChangesPushed ==
  [](faults = 0 /\ active = First) /\ Kept =>
    \A l \in Library : l \in unpushed \cap profiles ~> l \notin unpushed \cap profiles

(* Changes travel in both directions. *)
ChangesTravel == RemoteChangesPulled /\ LocalChangesPushed
=============================================================================
