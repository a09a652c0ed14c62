----------------------------- MODULE FolderSync -----------------------------
(* Sync of the folders of a library and of what is filed in them, between the devices  *)
(* of its user: the part of a pass that CrdtSync leaves out. Folders and memberships   *)
(* go through the same log as the entries, but their rows refer to each other, arrive   *)
(* in an order of their own, and are put into the library in two steps: materialize     *)
(* changes the folders that exist, hydrate makes the ones that do not. The PDFs are     *)
(* held by every device; their rows, files and trash are CrdtSync's.                     *)
EXTENDS Integers, FiniteSets, SequencesExt

CONSTANTS
  Device,          \* device ids, ordered as the text ids are
  Folder,          \* folder ids, ordered as the text ids are
  Pdf,             \* entry ids, likewise
  None,            \* no row
  FolderStart,     \* the trees and memberships that all devices share at first
  FolderScenarios, \* sets of what may happen, see FolderEvents; a behaviour has one
  MaxChanges       \* bound: what the users do, per scenario

(* Users create, move, rename, trash (and restore), purge folders, file PDFs in them and *)
(* take them out. "midpass": they do so while a pass runs; "interrupt": a pass stops      *)
(* between two steps; "split": another device pulls between two inserts of a push;        *)
(* "cross": two devices change folders before they have heard of each other.              *)
FolderEvents == {"create", "move", "rename", "trash", "purge", "file",
                 "midpass", "interrupt", "split", "cross"}

Root == 0
Itself == 0
Place == Folder \cup {Root}

ASSUME FolderAssumption ==
  /\ Device \subseteq Nat /\ Folder \subseteq Nat \ {Root} /\ Pdf \subseteq Nat \ {Itself}
  /\ FolderScenarios \subseteq SUBSET FolderEvents
  /\ MaxChanges \in [FolderScenarios -> Nat]

(* A register of the log is a folder or a PDF in a folder; the payload of either is what *)
(* its row in sync_folders or sync_entry_folders holds, and whether the folder is purged. *)
Register == (Pdf \cup {Itself}) \X Folder
Folders == {Itself} \X Folder
Memberships == Pdf \X Folder
Stamp == Nat
SyncRow == [parent : Place, at : Stamp, deleted : Stamp]
Payload == [parent : Place, at : Stamp, deleted : Stamp, purged : BOOLEAN]

VARIABLES
  remote,   \* sync_operations in Turso, in the order of remote_sequence
  log,      \* log[d]: sync_crdt_operations
  pushed,   \* pushed[d]: those with pushed_at set
  cursor,   \* cursor[d]: sync_crdt_checkpoints.last_remote_sequence
  store,    \* store[d]: the library and its sync tables, see Store
  pass,     \* pass[d]: the step of a pass, what it has to push and to materialize
  touched,  \* touched[d]: what the user of d changed since the last scan of d
  made,     \* folders that were created
  changes,  \* what the users did so far
  may       \* what may happen in this behaviour

(* tree: folders (parent_id, updated_at, trashed_at); filed: entry_folders; row:          *)
(* sync_folders and sync_entry_folders; version: what sync_crdt_entity_versions hashes.    *)
Store == [tree : [Folder -> [parent : Place, at : Stamp, trashed : Stamp] \cup {None}],
          filed : SUBSET Memberships,
          row : [Register -> SyncRow \cup {None}],
          version : [Register -> Payload \cup {None}]]
PassSteps == {"idle", "pull", "push", "again", "hydrate"}
NoPass == [step |-> "idle", batch |-> <<>>, affected |-> {}, pulled |-> FALSE]

syncVars == <<remote, log, pushed, cursor>>
userVars == <<touched, made, changes, may>>
folderVars == <<syncVars, store, pass, userVars>>

Log == INSTANCE OpLog WITH
  Entity <- Register, known <- log, published <- {remote[i] : i \in DOMAIN remote}

Clock == changes + 1
InOrder(set, Before(_, _)) ==
  [i \in 1 .. Cardinality(set) |->
     CHOOSE x \in set : Cardinality({y \in set : Before(y, x)}) = i - 1]
IdSeq(registers) ==
  InOrder(registers, LAMBDA x, y : x[1] < y[1] \/ (x[1] = y[1] /\ x[2] < y[2]))
-----------------------------------------------------------------------------
(* The folders of a device. *)
Exists(s, f) == s.tree[f] # None
Here(s) == {f \in Folder : Exists(s, f)}
Active(s) == {f \in Here(s) : s.tree[f].trashed = 0}

(* collect_folder_subtree_ids_from: f and what is below it among these folders. *)
Below(s, among, f) ==
  {g \in Folder : \A X \in SUBSET Folder :
     (f \in X /\ \A h \in among : s.tree[h].parent \in X => h \in X) => g \in X}

(* delete_folder: ON DELETE CASCADE takes what is below it, and the memberships. *)
Deleted(s, f) ==
  LET gone == IF Exists(s, f) THEN Below(s, Here(s), f) ELSE {} IN
  [s EXCEPT !.tree = [g \in Folder |-> IF g \in gone THEN None ELSE @[g]],
            !.filed = {m \in @ : m[2] \notin gone}]

(* A parent is only set to a folder that exists. *)
ParentIn(s, p) == IF p # Root /\ ~Exists(s, p) THEN Root ELSE p
-----------------------------------------------------------------------------
(* The user, at once and in the library alone. *)
Unheard(d) == \E c \in Device \ {d} : touched[c] # {} \/ log[c] \ log[d] # {}

Changes(d, kind) ==
  /\ kind \in may /\ changes < MaxChanges[may]
  /\ pass[d].step = "idle" \/ "midpass" \in may
  /\ "cross" \in may \/ ~Unheard(d)
  /\ changes' = changes + 1
  /\ UNCHANGED <<syncVars, pass, may>>

Touch(d, folders) ==
  touched' = [touched EXCEPT ![d] = @ \cup ({Itself} \X folders)
                 \cup {m \in Memberships : (m \in store[d].filed) # (m \in store'[d].filed)}]

Sets(d, folders, New(_)) ==
  /\ store' = [store EXCEPT ![d].tree = [f \in Folder |-> IF f \in folders THEN New(f) ELSE @[f]]]
  /\ Touch(d, folders)

CreateFolder(d) ==
  /\ Changes(d, "create")
  /\ \E f \in Folder \ made, p \in Active(store[d]) \cup {Root} :
       /\ made' = made \cup {f}
       /\ Sets(d, {f}, LAMBDA g : [parent |-> p, at |-> Clock, trashed |-> 0])

MoveFolder(d) ==
  LET s == store[d] IN
  /\ Changes(d, "move") /\ UNCHANGED made
  /\ \E f \in Active(s), p \in Active(s) \cup {Root} :
       /\ p # s.tree[f].parent /\ p \notin Below(s, Active(s), f)
       /\ Sets(d, {f}, LAMBDA g : [s.tree[g] EXCEPT !.parent = p, !.at = Clock])

RenameFolder(d) ==
  /\ Changes(d, "rename") /\ UNCHANGED made
  /\ \E f \in Active(store[d]) : Sets(d, {f}, LAMBDA g : [store[d].tree[g] EXCEPT !.at = Clock])

(* trash_folder_tree *)
TrashFolder(d) ==
  LET s == store[d] IN
  /\ Changes(d, "trash") /\ UNCHANGED made
  /\ \E f \in Active(s) :
       Sets(d, Below(s, Active(s), f), LAMBDA g : [s.tree[g] EXCEPT !.trashed = Clock, !.at = Clock])

(* restore_folder_tree *)
RestoreFolder(d) ==
  LET s == store[d] IN
  /\ Changes(d, "trash") /\ UNCHANGED made
  /\ \E f \in Here(s) \ Active(s) :
       LET back == Below(s, Here(s), f)
           up == IF s.tree[f].parent \in (Active(s) \ back) \cup {Root} THEN s.tree[f].parent ELSE Root
       IN Sets(d, back, LAMBDA g : [parent |-> IF g = f THEN up ELSE s.tree[g].parent,
                                    at |-> Clock, trashed |-> 0])

(* permanently_delete_trashed_folder_tree, of a folder without PDFs. *)
PurgeFolder(d) ==
  LET s == store[d] IN
  /\ Changes(d, "purge") /\ UNCHANGED made
  /\ \E f \in Here(s) \ Active(s) :
       /\ \A m \in s.filed : m[2] \notin Below(s, Here(s), f)
       /\ store' = [store EXCEPT ![d] = Deleted(s, f)]
       /\ Touch(d, Below(s, Here(s), f))

(* add_entry_to_folder and remove_entry_from_folder *)
FilePdf(d) ==
  /\ Changes(d, "file") /\ UNCHANGED made
  /\ \E m \in Memberships :
       /\ m[2] \in Active(store[d])
       /\ store' = [store EXCEPT ![d].filed = IF m \in @ THEN @ \ {m} ELSE @ \cup {m}]
       /\ Touch(d, {})
-----------------------------------------------------------------------------
(* The pass. *)

(* A live row of what the library does not have becomes a tombstone. *)
Tombstone(r) ==
  IF r = None THEN r ELSE IF r.deleted # 0 THEN r
  ELSE [r EXCEPT !.at = Max({Clock, @ + 1}), !.deleted = Clock]

(* Mutant: a membership that is seeded again has a time of its own each time. *)
SeededAnew(s) ==
  [x \in Register |->
    IF x \in Memberships
    THEN IF x \in s.filed THEN [parent |-> Root, at |-> Clock, deleted |-> 0] ELSE Tombstone(s.row[x])
    ELSE IF Exists(s, x[2])
         THEN [parent |-> s.tree[x[2]].parent, at |-> s.tree[x[2]].at, deleted |-> s.tree[x[2]].trashed]
         ELSE Tombstone(s.row[x])]

(* seed_sync_metadata *)
Seeded(s) ==
  [x \in Register |->
    IF x \in Memberships
    THEN IF x \notin s.filed THEN Tombstone(s.row[x])
         ELSE [parent |-> Root, at |-> IF s.row[x] = None THEN Clock ELSE s.row[x].at, deleted |-> 0]
    ELSE IF Exists(s, x[2])
         THEN [parent |-> s.tree[x[2]].parent, at |-> s.tree[x[2]].at, deleted |-> s.tree[x[2]].trashed]
         ELSE Tombstone(s.row[x])]

PayloadOf(s, x) ==
  [purged |-> x[1] = Itself /\ s.row[x].deleted # 0 /\ ~Exists(s, x[2])] @@ s.row[x]

(* Folders before memberships, each by updated_at, then by id. *)
RowBefore(s, x, y) ==
  IF (x[1] = Itself) # (y[1] = Itself) THEN x[1] = Itself
  ELSE \/ s.row[x].at < s.row[y].at
       \/ s.row[x].at = s.row[y].at /\ (x[1] < y[1] \/ (x[1] = y[1] /\ x[2] < y[2]))

(* Mutant: the sequence the next operation will have. *)
RemoteNext == Len(remote) + 1

(* remote_sync_head_sequence *)
RemoteHead == Len(remote)

LastTime(d) == Max({o.time : o \in log[d]} \cup {0})

(* prepare_local_crdt_operations: an operation for every payload that is not the version. *)
Recorded(d, s) ==
  LET new == InOrder({x \in Register : s.row[x] # None /\ s.version[x] # PayloadOf(s, x)},
                          LAMBDA x, y : RowBefore(s, x, y))
  IN [i \in DOMAIN new |->
       [dev |-> d, time |-> LastTime(d) + i, entity |-> new[i], payload |-> PayloadOf(s, new[i])]]

Pending(d, ops) == {o \in ops : o.dev = d /\ o \notin pushed[d]}
ByTime(ops) == InOrder(ops, LAMBDA o, p : o.time < p.time)

(* The local snapshot, and the preflight that finds work. *)
Scan(d) ==
  LET s     == [store[d] EXCEPT !.row = Seeded(store[d])]
      new   == Recorded(d, s)
      added == ToSet(new)
      batch == ByTime(Pending(d, log[d] \cup added))
  IN /\ pass[d].step = "idle"
     /\ store' = [store EXCEPT ![d] =
          [s EXCEPT !.version = [x \in Register |->
             IF \E o \in added : o.entity = x THEN PayloadOf(s, x) ELSE @[x]]]]
     /\ log' = [log EXCEPT ![d] = @ \cup added]
     /\ pass' = [pass EXCEPT ![d] =
          IF batch = <<>> /\ RemoteHead = cursor[d] THEN NoPass
          ELSE [NoPass EXCEPT !.step = "pull", !.batch = batch]]
     /\ touched' = [touched EXCEPT ![d] = {}]
     /\ UNCHANGED <<remote, pushed, cursor, made, changes, may>>

(* materialize_crdt_winner, for a membership: the row, and the library if it has the folder. *)
MembershipMaterialized(s, x, p) ==
  [s EXCEPT !.row[x] = [parent |-> Root, at |-> p.at, deleted |-> p.deleted],
            !.version[x] = p,
            !.filed = IF p.deleted # 0 THEN @ \ {x} ELSE IF Exists(s, x[2]) THEN @ \cup {x} ELSE @]

(* For a folder: delete_folder when it is purged, the row, and the library if it is there. *)
FolderMaterialized(s, x, p) ==
  LET t == IF p.purged THEN Deleted(s, x[2]) ELSE s IN
  [t EXCEPT !.row[x] = [parent |-> p.parent, at |-> p.at, deleted |-> p.deleted],
            !.version[x] = p,
            !.tree[x[2]] = IF @ = None THEN @
                           ELSE [parent |-> ParentIn(t, p.parent), at |-> p.at, trashed |-> p.deleted]]

Materialized(s, known, affected) ==
  LET Winning(x) == Log!Winner(known, x).payload
      filed == FoldLeft(LAMBDA t, x : MembershipMaterialized(t, x, Winning(x)), s,
                        IdSeq(affected \cap Memberships))
  IN FoldLeft(LAMBDA t, x : FolderMaterialized(t, x, Winning(x)), filed, IdSeq(affected \cap Folders))

(* remote_sync_operations_since, apply_pulled_crdt_operations and materialize_crdt_entities. *)
Pulls(d, affected, then) ==
  LET new   == {remote[i] : i \in cursor[d] + 1 .. Len(remote)}
      known == log[d] \cup new
      these == affected \cup {o.entity : o \in new}
  IN /\ log' = [log EXCEPT ![d] = known]
     /\ cursor' = [cursor EXCEPT ![d] = RemoteHead]
     /\ store' = [store EXCEPT ![d] = Materialized(@, known, these)]
     /\ pass' = [pass EXCEPT ![d] = [@ EXCEPT !.step = then, !.affected = these,
                                              !.pulled = @ \/ new # {}]]
     /\ UNCHANGED <<remote, userVars>>

PullBeforePush(d) ==
  /\ pass[d].step = "pull" /\ UNCHANGED pushed
  /\ Pulls(d, {o.entity : o \in ToSet(pass[d].batch)}, "push")

(* upsert_remote_sync_operations, one insert each, and mark_sync_crdt_operations_pushed. *)
Push(d) ==
  LET rest == SelectSeq(pass[d].batch, LAMBDA o : o \notin ToSet(remote))
      n    == IF "split" \in may /\ rest # <<>> THEN 1 ELSE Len(rest)
      done == n = Len(rest)
  IN /\ pass[d].step = "push"
     /\ remote' = remote \o SubSeq(rest, 1, n)
     /\ pushed' = [pushed EXCEPT ![d] = IF done THEN @ \cup ToSet(pass[d].batch) ELSE @]
     /\ pass' = [pass EXCEPT ![d].step = IF done THEN "again" ELSE "push"]
     /\ UNCHANGED <<log, cursor, store, userVars>>

PullAfterPush(d) ==
  /\ pass[d].step = "again" /\ UNCHANGED pushed
  /\ Pulls(d, pass[d].affected, "hydrate")

(* hydrate_sync_folder *)
FolderHydrated(s, x) ==
  [s EXCEPT !.tree[x[2]] = [parent |-> ParentIn(s, s.row[x].parent), at |-> s.row[x].at,
                            trashed |-> s.row[x].deleted]]

(* Mutant: each folder once. *)
HydratedOnce(s) ==
  LET rows == InOrder({x \in Folders : s.row[x] # None}, LAMBDA x, y : RowBefore(s, x, y))
      made1 == FoldLeft(FolderHydrated, s, rows)
  IN [made1 EXCEPT !.filed = @ \cup {m \in Memberships :
        s.row[m] # None /\ (s.row[m] # None => s.row[m].deleted = 0) /\ Exists(made1, m[2])}]

(* hydrate_remote_library: every row of a folder, then again those below another, then the *)
(* memberships.                                                                           *)
Hydrated(s) ==
  LET rows  == InOrder({x \in Folders : s.row[x] # None}, LAMBDA x, y : RowBefore(s, x, y))
      once  == FoldLeft(FolderHydrated, s, rows)
      twice == FoldLeft(FolderHydrated, once, SelectSeq(rows, LAMBDA x : s.row[x].parent # Root))
      live  == {m \in Memberships : s.row[m] # None /\ (s.row[m] # None => s.row[m].deleted = 0)}
  IN [twice EXCEPT !.filed = @ \cup {m \in live : Exists(twice, m[2])}]

Hydrate(d) ==
  /\ pass[d].step = "hydrate"
  /\ store' = [store EXCEPT ![d] = IF pass[d].pulled THEN Hydrated(@) ELSE @]
  /\ pass' = [pass EXCEPT ![d] = NoPass]
  /\ UNCHANGED <<syncVars, userVars>>

(* A pass stops between two steps. *)
Interrupt(d) ==
  /\ "interrupt" \in may /\ changes < MaxChanges[may] /\ pass[d].step # "idle"
  /\ pass' = [pass EXCEPT ![d] = NoPass] /\ changes' = changes + 1
  /\ UNCHANGED <<syncVars, store, touched, made, may>>
-----------------------------------------------------------------------------
(* At first every device has what the first one has published. *)
FirstRow(start, x) ==
  IF x[1] = Itself THEN IF x[2] \in DOMAIN start.tree
                      THEN [parent |-> start.tree[x[2]], at |-> 0, deleted |-> 0] ELSE None
  ELSE IF x \in start.filed THEN [parent |-> Root, at |-> 0, deleted |-> 0] ELSE None
FirstVersion(start, x) ==
  IF FirstRow(start, x) = None THEN None ELSE [purged |-> FALSE] @@ FirstRow(start, x)

FolderInit ==
  /\ may \in FolderScenarios
  /\ \E start \in FolderStart, first \in Device :
       LET there == {x \in Register : FirstRow(start, x) # None}
           ops == {[dev |-> first, time |-> 0, entity |-> x, payload |-> FirstVersion(start, x)] : x \in there}
       IN /\ \A d \in Device : first <= d
          /\ remote = [i \in 1 .. Cardinality(there) |-> CHOOSE o \in ops : o.entity = IdSeq(there)[i]]
          /\ log = [d \in Device |-> ops] /\ made = DOMAIN start.tree
          /\ pushed = [d \in Device |-> IF d = first THEN ops ELSE {}]
          /\ cursor = [d \in Device |-> Cardinality(there)]
          /\ store = [d \in Device |->
               [tree |-> [f \in Folder |-> IF f \notin DOMAIN start.tree THEN None
                                           ELSE [parent |-> start.tree[f], at |-> 0, trashed |-> 0]],
                filed |-> start.filed, row |-> [x \in Register |-> FirstRow(start, x)],
                version |-> [x \in Register |-> FirstVersion(start, x)]]]
  /\ pass = [d \in Device |-> NoPass] /\ touched = [d \in Device |-> {}] /\ changes = 0

UserChanges(d) ==
  \/ CreateFolder(d) \/ MoveFolder(d) \/ RenameFolder(d) \/ TrashFolder(d) \/ RestoreFolder(d)
  \/ PurgeFolder(d) \/ FilePdf(d)

Passes(d) == Scan(d) \/ PullBeforePush(d) \/ Push(d) \/ PullAfterPush(d) \/ Hydrate(d)

FolderNext == \E d \in Device : UserChanges(d) \/ Passes(d) \/ Interrupt(d)

FolderSpec == FolderInit /\ [][FolderNext]_folderVars
-----------------------------------------------------------------------------
FolderTypeOK ==
  /\ \A d \in Device : /\ log[d] \subseteq Log!Op /\ pushed[d] \subseteq log[d]
                       /\ store[d] \in Store /\ cursor[d] \in 0 .. Len(remote)
                       /\ pass[d].step \in PassSteps /\ touched[d] \subseteq Register
  /\ made \subseteq Folder /\ changes \in Nat

(* A device records a change only of what its user changed: no folder is moved, trashed *)
(* or deleted, and no PDF taken out of one, by the order in which rows arrive and are    *)
(* made ("A later hydration pass can fill the parent once both rows exist"). Purged       *)
(* folders are excepted: a pass that hydrates makes their tombstones into trashed folders *)
(* again, which the next one records.                                                    *)
NobodyMovesFolders ==
  [][\A d \in Device : \A o \in log'[d] \ log[d] :
       \/ o.dev # d \/ o.entity \in touched[d]
       \/ \E p \in log[d] : p.payload.purged /\ p.entity[2] = o.entity[2]]_folderVars

(* When what the users did has been scanned, pushed and pulled and no pass runs, all     *)
(* devices have the same folders in the same places with the same PDFs.                   *)
Quiet == \A d \in Device :
  /\ pass[d] = NoPass /\ touched[d] = {} /\ cursor[d] = Len(remote)
  /\ Pending(d, log[d]) = {}
FoldersConverge == Quiet =>
  \A c, d \in Device : store[c].tree = store[d].tree /\ store[c].filed = store[d].filed

(* In the end and on the way: a tree on every device that is what its users made it. *)
FoldersTravel == []FoldersConverge /\ NobodyMovesFolders
=============================================================================
