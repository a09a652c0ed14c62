-------------------------- MODULE LibraryRegistry --------------------------
(* The list of a user's libraries on each device: the profiles in memory, their *)
(* copy in libraries.json, the tasks that create, rename and delete libraries    *)
(* and the one that syncs the list with the other devices. Every task works on a  *)
(* clone of the list and brings it back as a message. The registry stream is a    *)
(* replicated log as in OpLog; it is kept in the database of the library that is   *)
(* active, and its exchange with Turso, whose steps are those of CrdtSync, is one   *)
(* step here.                                                                      *)
EXTENDS Integers, FiniteSets

CONSTANTS
  Device,     \* device ids, ordered as the text ids are
  Library,    \* library ids
  Default,    \* the id "default"
  Name,       \* names of libraries
  FirstName,  \* the name of a new library, which only matters once it is changed
  None,       \* no profile, no database, no row
  Deleted,    \* a row with deleted_at
  Scenarios,  \* sets of what may happen, see Events; a behaviour has one
  MaxEdits,   \* bound: user operations, restarts and failures in each scenario
  Slots       \* bound: Slots[d] are the places of d's tasks

(* Users create, rename, delete and select libraries; "default": they delete the   *)
(* default one too. "overlap": tasks of a device overlap, or a library is selected   *)
(* while one runs; "touch": a database file is written, so that its modification      *)
(* time changes; "failure": an exchange fails; "restart": the application is started    *)
(* again.                                                                              *)
Events == {"create", "rename", "delete", "select", "default",
           "overlap", "touch", "failure", "restart"}

ASSUME ConstantsAssumption ==
  /\ Device \subseteq Nat /\ \E last \in Device : \A d \in Device : d <= last
  /\ Default \in Library /\ FirstName \in Name
  /\ Deleted \notin Name \cup {None} /\ None \notin Name
  /\ Scenarios \subseteq SUBSET Events
  /\ MaxEdits \in [Scenarios -> Nat] /\ Slots \in [Device -> SUBSET Nat]

VARIABLES
  published,  \* the registry's operations in Turso
  clock,      \* the wall clock, on which the devices agree
  db,         \* db[d][l]: the registry stream in l's database, if the file exists
  mem,        \* mem[d]: app.libraries
  disk,       \* disk[d]: libraries.json
  task,       \* task[d][s]: a task, or the message it ended with
  ready,      \* ready[d]: startup_background_ready
  used,       \* ids given to libraries so far
  discarded,  \* libraries some user deleted
  edits,      \* user operations, restarts and failures so far
  allowed     \* what may happen in this behaviour

streamVars == <<published, clock>>
userVars   == <<used, discarded, edits, allowed>>
vars == <<streamVars, db, mem, disk, task, ready, userVars>>

Log == INSTANCE OpLog WITH
  Entity <- Library,
  Payload <- Name \cup {Deleted},
  known <- [d \in Device |-> UNION {db[d][l].log : l \in {k \in Library : db[d][k] # None}}]

Op == Log!Op
Row == Name \cup {Deleted, None}

(* The part of LibraryRegistryRuntime that is stored. *)
Registry == [names : [Library -> Name \cup {None}], dead : SUBSET Library, active : Library]

(* The tables of the registry stream in one database file. *)
Stream == [log : SUBSET Op, version : [Library -> Row]]

ASSUME NoneAssumption == None \notin Stream

Steps == {"none", "create", "rename", "delete", "updated", "sync", "merge", "synced"}

(* lib: the library a user's task changes, or the active one, in whose database a  *)
(* sync runs; won: the rows the sync came back with.                                *)
Tasks == [step : Steps, reg : Registry, lib : Library, push : BOOLEAN, won : [Library -> Row]]

Profiles(reg) == {l \in Library : reg.names[l] # None}
NoRows == [l \in Library |-> None]
Fresh == [log |-> {}, version |-> NoRows]

(* Db::open creates the file that is not there. *)
Opened(file) == IF file = None THEN Fresh ELSE file

FirstRegistry ==
  [names |-> [NoRows EXCEPT ![Default] = FirstName], dead |-> {}, active |-> Default]

NoTask ==
  [step |-> "none", reg |-> FirstRegistry, lib |-> Default, push |-> FALSE, won |-> NoRows]

Idle(d) == \A s \in Slots[d] : task[d][s].step = "none"

(* A task takes the first free slot. *)
Free(d, s) ==
  /\ task[d][s].step = "none" /\ \A r \in Slots[d] : r < s => task[d][r].step # "none"
  /\ "overlap" \in allowed \/ Idle(d)
-----------------------------------------------------------------------------
(* The user: each handler clones the registry for a task that changes the clone. *)
UserMay(kind) == kind \in allowed /\ edits < MaxEdits[allowed]

Request(d, s, step, l, reg) ==
  /\ Free(d, s)
  /\ task' = [task EXCEPT ![d][s] = [NoTask EXCEPT !.step = step, !.reg = reg, !.lib = l]]
  /\ edits' = edits + 1
  /\ UNCHANGED <<streamVars, db, mem, disk, ready, allowed>>

(* CreateLibrary: a new id, which becomes the active one. *)
CreateLibrary(d, s) ==
  /\ UserMay("create")
  /\ \E l \in Library \ used :
       /\ Request(d, s, "create", l,
            [mem[d] EXCEPT !.names[l] = FirstName, !.active = l])
       /\ used' = used \cup {l}
  /\ UNCHANGED discarded

RenameLibrary(d, s) ==
  /\ UserMay("rename")
  /\ \E l \in Profiles(mem[d]) : \E n \in Name \ {mem[d].names[l]} :
       Request(d, s, "rename", l, [mem[d] EXCEPT !.names[l] = n])
  /\ UNCHANGED <<used, discarded>>

(* The id that is active when l has left the list. *)
NextActive(names, active, l) ==
  LET rest == {k \in Library : names[k] # None} IN
  IF active # l THEN {active} ELSE IF rest = {} THEN {Default} ELSE rest

(* DeleteLibrary, but for the last one. *)
DeleteLibrary(d, s) ==
  /\ UserMay("delete") /\ Cardinality(Profiles(mem[d])) > 1
  /\ \E l \in Profiles(mem[d]) :
       LET names == [mem[d].names EXCEPT ![l] = None] IN
       /\ l = Default => "default" \in allowed
       /\ \E next \in NextActive(names, mem[d].active, l) :
            Request(d, s, "delete", l,
              [names |-> names, dead |-> mem[d].dead \cup {l}, active |-> next])
       /\ discarded' = discarded \cup {l}
  /\ UNCHANGED used

(* The task saves the list, and makes or removes the database. *)
UserTask(d, s) ==
  LET t == task[d][s] IN
  /\ t.step \in {"create", "rename", "delete"}
  /\ disk' = [disk EXCEPT ![d] = t.reg]
  /\ db' = [db EXCEPT ![d][t.lib] =
       IF t.step = "create" THEN Opened(@) ELSE IF t.step = "delete" THEN None ELSE @]
  /\ task' = [task EXCEPT ![d][s].step = "updated"]
  /\ UNCHANGED <<streamVars, mem, ready, userVars>>

(* select_library. *)
SelectLibrary(d) ==
  /\ UserMay("select") /\ ("overlap" \in allowed \/ Idle(d))
  /\ \E l \in Profiles(mem[d]) \ {mem[d].active} :
       /\ mem' = [mem EXCEPT ![d].active = l]
       /\ db' = [db EXCEPT ![d][l] = Opened(@)]
  /\ disk' = [disk EXCEPT ![d] = mem'[d]]
  /\ edits' = edits + 1
  /\ UNCHANGED <<streamVars, task, ready, used, discarded, allowed>>
-----------------------------------------------------------------------------
(* sync_library_registry_for_app_task: nothing without an active profile. *)
SyncTask(reg, push) ==
  IF reg.active \notin Profiles(reg) THEN NoTask
  ELSE [NoTask EXCEPT !.step = "sync", !.reg = reg, !.lib = reg.active, !.push = push]

(* StartupBackgroundReady. *)
StartupReady(d, s) ==
  /\ ~ready[d] /\ Free(d, s)
  /\ ready' = [ready EXCEPT ![d] = TRUE]
  /\ task' = [task EXCEPT ![d][s] = SyncTask(mem[d], TRUE)]
  /\ UNCHANGED <<streamVars, db, mem, disk, userVars>>

(* registry_live_sync_stream compares the head with the cursor in the active      *)
(* library's database, and LibraryRegistryRemoteAvailable starts a sync.            *)
RemoteAvailable(d, s) ==
  /\ ready[d] /\ Free(d, s)
  /\ mem[d].active \in Profiles(mem[d])
  /\ ~ (published \subseteq Opened(db[d][mem[d].active]).log)
  /\ task' = [task EXCEPT ![d][s] = SyncTask(mem[d], FALSE)]
  /\ UNCHANGED <<streamVars, db, mem, disk, ready, userVars>>

(* Mutant: what was heard of and is not in the list counts as deleted. *)
NewOpsMissing(d, t, file, again) ==
  LET live == {l \in Profiles(t.reg) : file.version[l] # t.reg.names[l] \/ l \in again}
      gone == {l \in Library \ Profiles(t.reg) : Log!OpsFor(file.log, l) # {}}
      dead == {l \in gone : file.version[l] # Deleted}
  IN  {[dev |-> d, time |-> clock, entity |-> l, payload |-> t.reg.names[l]] : l \in live}
      \cup {[dev |-> d, time |-> clock + 1, entity |-> l, payload |-> Deleted] : l \in dead}

(* The rows of sync_library_rows_for_registry that are recorded as operations: live  *)
(* ones that changed, then tombstones that did. again: unchanged rows whose            *)
(* modification time, a part of the payload, is another one. Times only matter          *)
(* between operations of one library, so that two are enough.                           *)
NewOps(d, t, file, again) ==
  LET live == {l \in Profiles(t.reg) : file.version[l] # t.reg.names[l] \/ l \in again}
      dead == {l \in t.reg.dead : file.version[l] # Deleted \/ l \in again \cup live}
  IN  {[dev |-> d, time |-> clock, entity |-> l, payload |-> t.reg.names[l]] : l \in live}
      \cup {[dev |-> d, time |-> clock + 1, entity |-> l, payload |-> Deleted] : l \in dead}

(* A database's file moves with every write, and libraries.json, whose time the         *)
(* tombstones have, with every save.                                                    *)
Rewritten(reg) ==
  {{}, reg.dead} \cup IF "touch" \in allowed THEN {Profiles(reg), Profiles(reg) \cup reg.dead}
                     ELSE {}

(* What record_payload_operation leaves in the database. *)
Recorded(t, file, new) ==
  [log |-> file.log \cup new,
   version |-> [l \in Library |->
     IF l \in t.reg.dead THEN Deleted
     ELSE IF l \in Profiles(t.reg) THEN t.reg.names[l] ELSE file.version[l]]]

(* The rows of the winners, for the libraries that have operations. *)
Won(ops) ==
  [l \in Library |-> IF Log!OpsFor(ops, l) = {} THEN None ELSE Log!Winner(ops, l).payload]

(* SyncClient::sync_library_registry: record the rows, pull, push what is pending,       *)
(* pull. A failure leaves what was done before it.                                        *)
SyncExchange(d, s) ==
  LET t == task[d][s]  file == Opened(db[d][t.lib]) IN
  /\ t.step = "sync"
  /\ \E again \in Rewritten(t.reg) :
       LET new == IF t.push THEN NewOps(d, t, file, again) ELSE {}
           rec == IF t.push THEN Recorded(t, file, new) ELSE file
           own == {o \in rec.log : o.dev = d}
           all == rec.log \cup published IN
       /\ clock' = IF new = {} THEN clock ELSE clock + 2
       /\ \/ /\ published' = published \cup own
             /\ db' = [db EXCEPT ![d][t.lib] = [rec EXCEPT !.log = all]]
             /\ task' = [task EXCEPT ![d][s].step = "merge", ![d][s].won = Won(all)]
             /\ UNCHANGED edits
          \/ /\ "failure" \in allowed /\ edits < MaxEdits[allowed]
             /\ edits' = edits + 1
             /\ \E log \in {rec.log, all}, sent \in SUBSET own :
                  /\ sent # {} => log = all
                  /\ published' = published \cup sent
                  /\ db' = [db EXCEPT ![d][t.lib] = [rec EXCEPT !.log = log]]
             /\ task' = [task EXCEPT ![d][s] = NoTask]
  /\ UNCHANGED <<mem, disk, ready, used, discarded, allowed>>

(* Mutant: a tombstone is taken for a row. *)
MergedTombstones(reg, won) == [l \in Library |-> IF won[l] = None THEN reg.names[l] ELSE won[l]]

(* The list sync_library_registry_profiles makes of the clone and the winners. *)
MergedNames(reg, won) ==
  [l \in Library |-> CASE won[l] = None -> reg.names[l]
                       [] won[l] = Deleted -> None
                       [] OTHER -> won[l]]

MergedDead(reg, won) ==
  (reg.dead \cup {l \in Library : won[l] = Deleted}) \ {l \in Library : won[l] \in Name}

(* Mutant: a library without a row is removed with its database. *)
RemovedUnlisted(reg, won) == {l \in Profiles(reg) : won[l] \in {None, Deleted}}

(* The libraries whose database the merge removes. *)
Removed(reg, won) == {l \in Profiles(reg) : won[l] = Deleted}

(* Mutant: the merged list is not saved. *)
SyncMergeUnsaved(d, s) ==
  LET t == task[d][s]  names == MergedNames(t.reg, t.won)
      gone == Removed(t.reg, t.won) IN
  /\ t.step = "merge"
  /\ \E next \in IF t.reg.active \in gone
                 THEN NextActive(names, t.reg.active, t.reg.active) ELSE {t.reg.active} :
       task' = [task EXCEPT ![d][s] = [NoTask EXCEPT !.step = "synced",
         !.reg = [names |-> names, dead |-> MergedDead(t.reg, t.won), active |-> next]]]
  /\ db' = [db EXCEPT ![d] = [l \in Library |->
       IF l \in gone THEN None
       ELSE IF t.won[l] \in Name /\ l \notin Profiles(t.reg) THEN Opened(@[l])
       ELSE @[l]]]
  /\ UNCHANGED <<streamVars, mem, disk, ready, userVars>>

(* The task goes on: the winners are merged into the clone, databases are made and    *)
(* removed, and the list is saved.                                                     *)
SyncMerge(d, s) ==
  LET t == task[d][s]  names == MergedNames(t.reg, t.won)
      gone == Removed(t.reg, t.won) IN
  /\ t.step = "merge"
  /\ \E next \in IF t.reg.active \in gone
                 THEN NextActive(names, t.reg.active, t.reg.active) ELSE {t.reg.active} :
       LET reg == [names |-> names, dead |-> MergedDead(t.reg, t.won), active |-> next] IN
       /\ disk' = [disk EXCEPT ![d] = reg]
       /\ task' = [task EXCEPT ![d][s] = [NoTask EXCEPT !.step = "synced", !.reg = reg]]
  /\ db' = [db EXCEPT ![d] = [l \in Library |->
       IF l \in gone THEN None
       ELSE IF t.won[l] \in Name /\ l \notin Profiles(t.reg) THEN Opened(@[l])
       ELSE @[l]]]
  /\ UNCHANGED <<streamVars, mem, ready, userVars>>
-----------------------------------------------------------------------------
(* apply_library_registry: the list of the task replaces the one in memory; when     *)
(* another library is active now, it is selected, which fails if no library is left.   *)
SelectFails(d, reg) == reg.active # mem[d].active /\ reg.active \notin Profiles(reg)

Apply(d, reg) ==
  LET selects == reg.active # mem[d].active /\ reg.active \in Profiles(reg) IN
  /\ mem' = [mem EXCEPT ![d] = reg]
  /\ disk' = [disk EXCEPT ![d] = IF selects THEN reg ELSE @]
  /\ db' = [db EXCEPT ![d][reg.active] = IF selects THEN Opened(@) ELSE @]

(* Mutant: the change is not pushed. *)
UpdatedUnpushed(d, s) ==
  LET reg == task[d][s].reg IN
  /\ task[d][s].step = "updated"
  /\ Apply(d, reg)
  /\ task' = [task EXCEPT ![d][s] = IF SelectFails(d, reg) THEN NoTask ELSE SyncTask(reg, FALSE)]
  /\ UNCHANGED <<streamVars, ready, userVars>>

(* LibraryRegistryUpdated: a user's task has ended; the list is synced. *)
LibraryRegistryUpdated(d, s) ==
  LET reg == task[d][s].reg IN
  /\ task[d][s].step = "updated"
  /\ Apply(d, reg)
  /\ task' = [task EXCEPT ![d][s] = IF SelectFails(d, reg) THEN NoTask ELSE SyncTask(reg, TRUE)]
  /\ UNCHANGED <<streamVars, ready, userVars>>

(* LibraryRegistrySyncFinished. *)
LibraryRegistrySyncFinished(d, s) ==
  /\ task[d][s].step = "synced"
  /\ Apply(d, task[d][s].reg)
  /\ task' = [task EXCEPT ![d][s] = NoTask]
  /\ UNCHANGED <<streamVars, ready, userVars>>

(* load_library_registry: an empty list gets the default library; the session may      *)
(* know another active library than the file.                                            *)
Loaded(d) ==
  LET reg == disk[d]  known == {reg.active, mem[d].active} \cap Profiles(reg) IN
  IF Profiles(reg) = {}
  THEN {[reg EXCEPT !.names[Default] = FirstName, !.active = Default]}
  ELSE {[reg EXCEPT !.active = l] : l \in IF known # {} THEN known ELSE Profiles(reg)}

(* The application is closed and started again. *)
Restart(d) ==
  /\ "restart" \in allowed /\ edits < MaxEdits[allowed]
  /\ edits' = edits + 1
  /\ \E reg \in Loaded(d) :
       /\ mem' = [mem EXCEPT ![d] = reg]
       /\ disk' = [disk EXCEPT ![d] = reg]
       /\ db' = [db EXCEPT ![d][reg.active] = Opened(@)]
  /\ task' = [task EXCEPT ![d] = [s \in Slots[d] |-> NoTask]]
  /\ ready' = [ready EXCEPT ![d] = FALSE]
  /\ UNCHANGED <<streamVars, used, discarded, allowed>>
-----------------------------------------------------------------------------
Init ==
  /\ published = {} /\ clock = 0
  /\ db = [d \in Device |-> [NoRows EXCEPT ![Default] = Fresh]]
  /\ mem = [d \in Device |-> FirstRegistry] /\ disk = [d \in Device |-> FirstRegistry]
  /\ task = [d \in Device |-> [s \in Slots[d] |-> NoTask]]
  /\ ready = [d \in Device |-> FALSE]
  /\ used = {Default} /\ discarded = {} /\ edits = 0
  /\ allowed \in Scenarios

User(d, s) == CreateLibrary(d, s) \/ RenameLibrary(d, s) \/ DeleteLibrary(d, s)

Tasked(d, s) ==
  \/ UserTask(d, s) \/ SyncExchange(d, s) \/ SyncMerge(d, s)
  \/ LibraryRegistryUpdated(d, s) \/ LibraryRegistrySyncFinished(d, s)

Started(d) == \E s \in Slots[d] : StartupReady(d, s) \/ RemoteAvailable(d, s)

Next ==
  \E d \in Device :
    \/ \E s \in Slots[d] : User(d, s) \/ Tasked(d, s)
    \/ Started(d) \/ SelectLibrary(d) \/ Restart(d)

Spec == Init /\ [][Next]_vars

(* The start-up message arrives, the watcher keeps polling, tasks end and their         *)
(* messages are delivered.                                                              *)
FairSpec ==
  /\ Spec
  /\ \A d \in Device : WF_vars(Started(d)) /\ \A s \in Slots[d] : WF_vars(Tasked(d, s))
-----------------------------------------------------------------------------
TypeOK ==
  /\ published \subseteq Op /\ clock \in Nat
  /\ db \in [Device -> [Library -> Stream \cup {None}]]
  /\ mem \in [Device -> Registry] /\ disk \in [Device -> Registry]
  /\ DOMAIN task = Device /\ \A d \in Device : task[d] \in [Slots[d] -> Tasks]
  /\ ready \in [Device -> BOOLEAN]
  /\ used \subseteq Library /\ discarded \subseteq Library
  /\ edits \in Nat /\ allowed \subseteq Events

(* A library counts as deleted, on any device or in the stream, only after a user          *)
(* deleted it, whatever overlaps, fails or is restarted.                                   *)
NoSpuriousDeletion ==
  /\ \A d \in Device : mem[d].dead \cup disk[d].dead \subseteq discarded
  /\ \A o \in published : o.payload = Deleted => o.entity \in discarded

(* Likewise the database of a library is removed only after a user deleted it somewhere:    *)
(* what is lost with it was given up.                                                       *)
StorageKept ==
  [][\A d \in Device, l \in Library :
       db[d][l] # None /\ db'[d][l] = None => l \in discarded]_vars

(* When tasks do not overlap no library leaves the list in memory unless a user deleted     *)
(* it, restarts included: the clone a task brings back has lost nothing.                    *)
ProfilesKept ==
  [][\A d \in Device : "overlap" \notin allowed =>
       Profiles(mem[d]) \ Profiles(mem'[d]) \subseteq discarded]_vars

(* So nothing the user did not give up is lost: neither a database nor a profile.          *)
NothingLost == StorageKept /\ ProfilesKept

(* Once users stop, all devices list the same libraries under the same names for good,       *)
(* if exchanges do not fail, tasks do not overlap and the default library stays.              *)
Convergence ==
  {"overlap", "failure", "default"} \cap allowed = {} =>
    <>[](\A c, d \in Device : mem[c].names = mem[d].names)

(* A device does not take back what it knows to be deleted (state.rs: "Tombstone ids for     *)
(* vaults deleted locally or via sync (not re-created from cloud)").                         *)
TombstonesKept == [][\A d \in Device : mem[d].dead \subseteq mem'[d].dead]_vars
=============================================================================
