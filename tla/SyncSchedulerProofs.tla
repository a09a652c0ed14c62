------------------------ MODULE SyncSchedulerProofs ------------------------
(* Proofs about SyncScheduler, for any number of libraries, edits, reports, failed *)
(* passes and restarts, and for every order in which a set is iterated.             *)
EXTENDS SyncScheduler, TLAPS

(* What the two ways to ask for a pass do to a queue and a pass in progress the     *)
(* handler made what it wants: nothing is started, or one pass where none was.       *)
Asked(busy) ==
  /\ queued' \subseteq Library
  /\ inProgress' \in Library \cup {None}
  /\ \/ inProgress' = busy /\ running' = running
     \/ /\ busy = None
        /\ \E k \in Library : /\ inProgress' = k
                              /\ running' = [running EXCEPT ![k] = @ + 1]

(* auto_sync_library_task starts a pass only where none is in progress. *)
LEMMA AutoSyncStartsOne ==
  ASSUME NEW l \in Library, NEW queue, queue \subseteq Library,
         NEW busy \in Library \cup {None}, AutoSync(l, queue, busy)
  PROVE  Asked(busy)
<1>1. CASE busy # None
  BY <1>1 DEF AutoSync, Asked
<1>2. CASE busy = None /\ l \notin profiles'
  BY <1>2 DEF AutoSync, Asked
<1>3. CASE busy = None /\ l \in profiles'
  BY <1>3 DEF AutoSync, Asked
<1> QED BY <1>1, <1>2, <1>3

(* So does start_next_queued_sync. *)
LEMMA StartNextStartsOne ==
  ASSUME NEW queue, queue \subseteq Library,
         NEW busy \in Library \cup {None}, StartNext(queue, busy)
  PROVE  Asked(busy)
<1>1. CASE queue = {}
  BY <1>1 DEF StartNext, Asked
<1>2. CASE queue # {}
  <2>1. PICK l \in queue : AutoSync(l, queue, busy)
    BY <1>2 DEF StartNext
  <2> QED BY <2>1, AutoSyncStartsOne
<1> QED BY <1>1, <1>2

IInv == TypeOK /\ NoOverlap

(* A handler that asks for a pass, and leaves the reports alone, keeps passes apart. *)
LEMMA AskedPreserves ==
  ASSUME IInv, Asked(inProgress), UNCHANGED finished
  PROVE  /\ queued' \subseteq Library /\ inProgress' \in Library \cup {None}
         /\ running' \in [Library -> Nat] /\ NoOverlap'
<1>1. /\ queued' \subseteq Library /\ inProgress' \in Library \cup {None}
      /\ running \in [Library -> Nat] /\ finished \in [Library -> Nat]
  BY DEF Asked, IInv, TypeOK
<1>2. CASE inProgress' = inProgress /\ running' = running
  BY <1>1, <1>2 DEF IInv, NoOverlap
<1>3. CASE /\ inProgress = None
           /\ \E k \in Library : /\ inProgress' = k
                                 /\ running' = [running EXCEPT ![k] = @ + 1]
  <2>1. PICK k \in Library : /\ inProgress' = k
                             /\ running' = [running EXCEPT ![k] = @ + 1]
    BY <1>3
  <2>2. \A l \in Library : running[l] + finished[l] = 0
    BY <1>3, ConstantsAssumption DEF IInv, NoOverlap
  <2> QED BY <1>1, <2>1, <2>2 DEF NoOverlap
<1> QED BY <1>1, <1>2, <1>3 DEF Asked

(* The handlers that ask for a pass at once. *)
LEMMA RequestPreserves ==
  ASSUME IInv,
         \/ StartupReady \/ AutoSyncTick \/ RegistrySynced
         \/ \E l \in Library : RemoteSyncAvailable(l)
  PROVE  IInv'
<1> USE DEF IInv
<1>1. /\ profiles' \subseteq Library /\ active' \in Library
      /\ signedIn' \in BOOLEAN /\ ready' \in BOOLEAN
      /\ noticed' \subseteq Library /\ unpushed' \subseteq Library
      /\ ahead' \subseteq Library /\ saved' \in Nat /\ edits' \in Nat
      /\ arrivals' \in Nat /\ faults' \in Nat
  <2>1. CASE StartupReady
    BY <2>1 DEF TypeOK, StartupReady, registryVars, workVars, boundVars
  <2>2. CASE AutoSyncTick
    BY <2>2 DEF TypeOK, AutoSyncTick, registryVars, workVars, boundVars
  <2>3. CASE RegistrySynced
    BY <2>3, ConstantsAssumption
       DEF TypeOK, RegistrySynced, RegistryBecomes, workVars, boundVars
  <2>4. CASE \E l \in Library : RemoteSyncAvailable(l)
    BY <2>4 DEF TypeOK, RemoteSyncAvailable, registryVars, workVars, boundVars
  <2> QED BY <2>1, <2>2, <2>3, <2>4
<1>2. finished' = finished
  BY DEF StartupReady, AutoSyncTick, RegistrySynced, RemoteSyncAvailable
<1>3. Asked(inProgress)
  <2> USE DEF TypeOK
  <2>0. CASE UNCHANGED queueVars
    BY <2>0 DEF Asked, queueVars
  <2>1. CASE StartupReady
    BY <2>0, <2>1, AutoSyncStartsOne DEF StartupReady
  <2>2. CASE AutoSyncTick
    BY <2>2, StartNextStartsOne DEF AutoSyncTick
  <2>3. CASE RegistrySynced
    <3>1. PICK added \in SUBSET Library : StartNext(queued \cup added, inProgress)
      BY <2>3 DEF RegistrySynced
    <3> QED BY <3>1, StartNextStartsOne
  <2>4. CASE \E l \in Library : RemoteSyncAvailable(l)
    BY <2>0, <2>4, AutoSyncStartsOne DEF RemoteSyncAvailable
  <2> QED BY <2>1, <2>2, <2>3, <2>4
<1>4. /\ queued' \subseteq Library /\ inProgress' \in Library \cup {None}
      /\ running' \in [Library -> Nat] /\ NoOverlap'
  BY <1>2, <1>3, AskedPreserves
<1> QED BY <1>1, <1>2, <1>4 DEF TypeOK

(* The report of a pass: it is the one in progress, so the next may start. *)
LEMMA ReportPreserves ==
  ASSUME IInv, NEW l \in Library, AutoSyncFinished(l)
  PROVE  IInv'
<1> USE DEF IInv
<1>1. /\ running \in [Library -> Nat] /\ finished \in [Library -> Nat]
      /\ finished[l] > 0 /\ finished' = [finished EXCEPT ![l] = @ - 1]
      /\ queued \subseteq Library
  BY DEF TypeOK, AutoSyncFinished
<1>2. inProgress = l /\ finished[l] = 1
  BY <1>1 DEF NoOverlap
<1>3. /\ finished' \in [Library -> Nat]
      /\ \A k \in Library : running[k] + finished'[k] = 0
  BY <1>1, <1>2 DEF NoOverlap
<1>4. StartNext(queued, None)
  BY <1>2 DEF AutoSyncFinished
<1>5. Asked(None)
  BY <1>1, <1>4, StartNextStartsOne
<1>6. running' \in [Library -> Nat] /\ NoOverlap'
  <2>1. CASE inProgress' = None /\ running' = running
    BY <1>1, <1>3, <2>1, ConstantsAssumption DEF NoOverlap
  <2>2. CASE \E k \in Library : /\ inProgress' = k
                                /\ running' = [running EXCEPT ![k] = @ + 1]
    BY <1>1, <1>3, <2>2 DEF NoOverlap
  <2> QED BY <1>5, <2>1, <2>2 DEF Asked
<1>7. TypeOK'
  BY <1>3, <1>5, <1>6 DEF TypeOK, Asked, AutoSyncFinished, registryVars, workVars, boundVars
<1> QED BY <1>6, <1>7

(* The end of a pass: it turns into the report of the same pass. *)
LEMMA EndPreserves ==
  ASSUME IInv, NEW l \in Library, PassEnds(l)
  PROVE  IInv'
<1> USE DEF IInv
<1>1. /\ running \in [Library -> Nat] /\ finished \in [Library -> Nat]
      /\ running[l] > 0
      /\ running' = [running EXCEPT ![l] = @ - 1]
      /\ finished' = [finished EXCEPT ![l] = @ + 1]
      /\ inProgress' = inProgress
  BY DEF TypeOK, PassEnds
<1>2. running' \in [Library -> Nat] /\ finished' \in [Library -> Nat]
  BY <1>1
<1>3. NoOverlap'
  BY <1>1 DEF NoOverlap
<1>4. /\ unpushed' \subseteq Library /\ ahead' \subseteq Library
      /\ faults' \in Nat
  BY DEF TypeOK, PassEnds, workVars
<1>5. TypeOK'
  BY <1>1, <1>2, <1>4 DEF TypeOK, PassEnds, registryVars
<1> QED BY <1>3, <1>5

(* Everything else leaves the passes alone; a restart ends them all. *)
LEMMA QuietPreserves ==
  ASSUME IInv,
         \/ SignIn \/ Edit \/ EditSaved \/ SelectLibrary \/ LibraryRegistryUpdated
         \/ \E l \in Library : RemoteChange(l) \/ Notice(l)
  PROVE  IInv'
<1> USE DEF IInv
<1>1. UNCHANGED <<running, finished, inProgress>>
  BY DEF SignIn, Edit, EditSaved, SelectLibrary, LibraryRegistryUpdated, RemoteChange,
         Notice, queueVars
<1>2. NoOverlap'
  BY <1>1 DEF NoOverlap
<1>3. TypeOK'
  <2> USE <1>1 DEF TypeOK, registryVars, queueVars, workVars, boundVars
  <2>1. CASE SignIn
    BY <2>1 DEF SignIn
  <2>2. CASE Edit
    BY <2>2 DEF Edit
  <2>3. CASE EditSaved
    BY <2>3 DEF EditSaved
  <2>4. CASE SelectLibrary
    BY <2>4 DEF SelectLibrary
  <2>5. CASE LibraryRegistryUpdated
    <3>1. profiles' \subseteq Library /\ active' \in Library
      BY <2>5 DEF LibraryRegistryUpdated, RegistryBecomes
    <3> QED BY <2>5, <3>1 DEF LibraryRegistryUpdated
  <2>6. CASE \E l \in Library : RemoteChange(l)
    BY <2>6 DEF RemoteChange
  <2>7. CASE \E l \in Library : Notice(l)
    BY <2>7 DEF Notice
  <2> QED BY <2>1, <2>2, <2>3, <2>4, <2>5, <2>6, <2>7
<1> QED BY <1>2, <1>3

(* A restart ends every pass and forgets every report. *)
LEMMA RestartPreserves ==
  ASSUME IInv, Restart
  PROVE  IInv'
<1>1. TypeOK'
  <2>1. signedIn' \in BOOLEAN
    BY DEF Restart
  <2>2. running' \in [Library -> Nat] /\ finished' \in [Library -> Nat]
    BY DEF Restart
  <2>3. faults' \in Nat
    BY DEF IInv, TypeOK, Restart
  <2>4. profiles' \subseteq Library /\ active' \in Library
    BY ConstantsAssumption DEF IInv, TypeOK, Restart
  <2> QED BY <2>1, <2>2, <2>3, <2>4 DEF IInv, TypeOK, Restart, workVars
<1>2. NoOverlap'
  BY ConstantsAssumption DEF NoOverlap, Restart
<1> QED BY <1>1, <1>2 DEF IInv

(* The types and the separation of the passes are inductive together. *)
LEMMA Inductive == Spec => []IInv
<1>1. Init => IInv
  <2> SUFFICES ASSUME Init PROVE IInv
    OBVIOUS
  <2>1. profiles \subseteq Library /\ active \in Library
    BY ConstantsAssumption DEF Init
  <2>2. running \in [Library -> Nat] /\ finished \in [Library -> Nat]
    BY DEF Init
  <2>3. TypeOK
    BY <2>1, <2>2 DEF Init, TypeOK
  <2>4. NoOverlap
    BY ConstantsAssumption DEF Init, NoOverlap
  <2> QED BY <2>3, <2>4 DEF IInv
<1>2. IInv /\ [Next]_vars => IInv'
  <2> SUFFICES ASSUME IInv, [Next]_vars PROVE IInv'
    OBVIOUS
  <2>1. CASE UNCHANGED vars
    BY <2>1 DEF vars, registryVars, queueVars, workVars, boundVars, IInv, TypeOK,
                NoOverlap
  <2>2. CASE Next
    BY <2>2, RequestPreserves, ReportPreserves, EndPreserves, QuietPreserves,
       RestartPreserves DEF Next
  <2> QED BY <2>1, <2>2
<1> QED BY <1>1, <1>2, PTL DEF Spec

(* The scheduler's state has its types, however messages, users and restarts        *)
(* interleave (the fields of PDFolioApp in app.rs).                                   *)
THEOREM SchedulerTypeCorrect == Spec => []TypeOK
<1>1. IInv => TypeOK
  BY DEF IInv
<1> QED BY <1>1, Inductive, PTL

(* For any number of libraries, no two content passes overlap and the pass in         *)
(* progress is the one that runs or is about to report (auto_sync_library_task).       *)
THEOREM PassesNeverOverlap == Spec => []NoOverlap
<1>1. IInv => NoOverlap
  BY DEF IInv
<1> QED BY <1>1, Inductive, PTL
=============================================================================
