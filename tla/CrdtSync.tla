------------------------------ MODULE CrdtSync ------------------------------
(* Content sync of one library between the devices of its user: the steps of  *)
(* sync_library_if_needed (scan, upload, pull, materialize, push, pull,        *)
(* materialize, hydrate) on each device, interleaved with the passes of the    *)
(* other devices, with the user's edits of the library and with interruptions. *)
(* Entities are library entries; a device's SQLite tables are the per-device   *)
(* variables, Turso is the sequence remote, R2 the set r2.                      *)
EXTENDS Integers, Sequences, FiniteSets

CONSTANTS
  Device,      \* device ids, ordered as the text ids are
  Entry,       \* content-addressed entry ids
  Meta,        \* values of the metadata a payload carries (title, tags, page...)
  FileMeta,    \* the metadata an import reads from the file
  None,        \* no row
  Importer,    \* Importer[d]: the entries whose PDF device d may import
  Now,         \* readings of the wall clock, in milliseconds
  Scenarios,   \* sets of what may happen, see Events; a behaviour has one
  MaxEdits,    \* bound: user operations of a behaviour
  MaxOps       \* bound: operations of the remote log and of a device's log

(* Users import, edit, trash (and restore) and delete entries. "midpass": they    *)
(* do so while a pass runs; "early_trash": they trash entries before every device  *)
(* holds them; "interrupt": a pass stops between two steps (quit, crash, network    *)
(* error); "blobs": R2 transfers fail.                                             *)
Events == {"import", "edit", "trash", "delete",
           "midpass", "early_trash", "interrupt", "blobs"}

ASSUME ConstantsAssumption ==
  /\ Device \subseteq Nat /\ \E last \in Device : \A d \in Device : d <= last
  /\ IsFiniteSet(Entry) /\ FileMeta \in Meta
  /\ Importer \in [Device -> SUBSET Entry]
  /\ Now \subseteq Nat
  /\ Scenarios \subseteq SUBSET Events
  /\ MaxEdits \in Nat /\ MaxOps \in Nat

(* EntryPayload: the stamp stands for updated_at, named by the device whose    *)
(* clock wrote it.                                                             *)
Payload == [meta : Meta, stamp : Device, missing : BOOLEAN,
            deleted : BOOLEAN, purged : BOOLEAN]

(* A row of entries: managed when its path is the blob cache's. *)
LocalRow == [meta : Meta, stamp : Device, missing : BOOLEAN,
             trashed : BOOLEAN, managed : BOOLEAN]

(* A row of sync_entries. *)
SyncRow == [meta : Meta, stamp : Device, deleted : BOOLEAN]

ASSUME NoneAssumption == None \notin Payload \cup LocalRow \cup SyncRow

VARIABLES
  remote,      \* sync_operations in Turso, in the order of remote_sequence
  r2,          \* entries whose PDF is in R2
  log,         \* log[d]: sync_crdt_operations
  pushed,      \* pushed[d]: the operations of log[d] with pushed_at set
  cursor,      \* cursor[d]: sync_crdt_checkpoints.last_remote_sequence
  version,     \* version[d][e]: the payload sync_crdt_entity_versions hashes
  row,         \* row[d][e]: sync_entries
  local,       \* local[d][e]: entries, trashed ones included
  cache,       \* cache[d]: entries whose PDF is in the blob cache
  uploaded,    \* uploaded[d]: sync_blob_uploads
  snapCurrent, \* snapCurrent[d]: the snapshot marker equals the change revision
  scanClean,   \* scanClean[d]: the revision did not move since the scan began
  pc,          \* pc[d]: the step of d's sync pass
  batch,       \* batch[d]: the pass's pending operations
  affected,    \* affected[d]: entities the pass materializes
  head,        \* head[d]: greatest remote_sequence of the last pull
  todo,        \* todo[d]: entries the pass has still to hydrate
  touched,     \* touched[d]: entries a user changed since the last scan of d
  discarded,   \* entries some user deleted permanently
  edits,       \* user operations so far
  allowed      \* what may happen in this behaviour

remoteVars == <<remote, r2>>
opVars     == <<log, pushed, cursor, version>>
libVars    == <<row, local, cache, uploaded>>
scanVars   == <<snapCurrent, scanClean>>
passVars   == <<batch, affected, head, todo>>
userVars   == <<touched, discarded, edits, allowed>>
vars == <<remoteVars, opVars, libVars, scanVars, pc, passVars, userVars>>

Steps == {"idle", "seeded", "preflight", "upload", "pull1", "cursor1",
          "materialize1", "push", "pull2", "cursor2", "materialize2", "hydrate"}

Log == INSTANCE OpLog WITH
  Entity <- Entry,
  known <- log,
  published <- {remote[i] : i \in 1..Len(remote)}

Op == Log!Op
Published == {remote[i] : i \in 1..Len(remote)}

Pending(d) == {o \in log[d] : o.dev = d /\ o \notin pushed[d]}
Entities(ops) == {o.entity : o \in ops}
WinningPayload(d, e) == Log!Winner(log[d], e).payload
-----------------------------------------------------------------------------
(* The table triggers move library_change_state past every marker. *)
Bump(d) ==
  /\ snapCurrent' = [snapCurrent EXCEPT ![d] = FALSE]
  /\ scanClean' = [scanClean EXCEPT ![d] = FALSE]

BumpIf(d, changed) == IF changed THEN Bump(d) ELSE UNCHANGED scanVars

(* entry.path.is_file(): a source file stays where it was imported from. *)
HasFile(l, e, cached) == ~l.managed \/ e \in cached
-----------------------------------------------------------------------------
(* The user. Edits reach the tables at once, whether or not a pass runs. *)
UserMay(d, kind) ==
  /\ kind \in allowed
  /\ pc[d] = "idle" \/ "midpass" \in allowed
  /\ edits < MaxEdits

UserChange(d, e, l) ==
  /\ local' = [local EXCEPT ![d][e] = l]
  /\ touched' = [touched EXCEPT ![d] = @ \cup {e}]
  /\ edits' = edits + 1
  /\ Bump(d)
  /\ UNCHANGED <<remoteVars, opVars, row, cache, uploaded, pc, passVars, allowed>>

(* import_pdf: a new row, or the row of the same content relinked, untrashed.   *)
Import(d, e) ==
  /\ UserMay(d, "import") /\ e \in Importer[d]
  /\ UserChange(d, e, [meta |-> FileMeta, missing |-> FALSE, trashed |-> FALSE,
                       managed |-> FALSE,
                       stamp |-> IF local[d][e] = None THEN d
                                 ELSE local[d][e].stamp])
  /\ UNCHANGED discarded

EditMeta(d, e) ==
  /\ UserMay(d, "edit") /\ local[d][e] # None
  /\ \E m \in Meta \ {local[d][e].meta} :
       UserChange(d, e, [local[d][e] EXCEPT !.meta = m])
  /\ UNCHANGED discarded

(* trash_entries and restore_entries. *)
SetTrashed(d, e) ==
  /\ UserMay(d, "trash") /\ local[d][e] # None
  /\ "early_trash" \in allowed \/ \A x \in Device : local[x][e] # None
  /\ UserChange(d, e, [local[d][e] EXCEPT !.trashed = ~@])
  /\ UNCHANGED discarded

(* delete_entries and purge_expired_trash: permanent, from the trash or of an      *)
(* import that is taken back.                                                     *)
Delete(d, e) ==
  /\ UserMay(d, "delete") /\ local[d][e] # None
  /\ UserChange(d, e, None)
  /\ discarded' = discarded \cup {e}
-----------------------------------------------------------------------------
IsDeleted(r) == IF r = None THEN FALSE ELSE r.deleted

(* seed_sync_metadata: rows follow the local entries; a live row without a      *)
(* local entry becomes a tombstone.                                            *)
SeededRow(d, e) ==
  LET l == local[d][e]  r == row[d][e] IN
  IF l # None THEN [meta |-> l.meta, stamp |-> l.stamp, deleted |-> l.trashed]
  ELSE IF r = None \/ IsDeleted(r) THEN r
  ELSE [r EXCEPT !.deleted = TRUE, !.stamp = d]

(* A pass begins. A current snapshot marker makes the scan unnecessary. *)
SkipScan(d) ==
  /\ pc[d] = "idle" /\ snapCurrent[d]
  /\ pc' = [pc EXCEPT ![d] = "preflight"]
  /\ UNCHANGED <<remoteVars, opVars, libVars, scanVars, passVars, userVars>>

Seed(d) ==
  /\ pc[d] = "idle" /\ ~snapCurrent[d]
  /\ row' = [row EXCEPT ![d] = [e \in Entry |-> SeededRow(d, e)]]
  /\ scanClean' = [scanClean EXCEPT ![d] = TRUE]
  /\ pc' = [pc EXCEPT ![d] = "seeded"]
  /\ UNCHANGED <<remoteVars, opVars, local, cache, uploaded, snapCurrent,
                 passVars, userVars>>

(* The payload prepare_local_crdt_operations builds for a local entry ... *)
LivePayload(d, e, deleted) ==
  [meta |-> local[d][e].meta, stamp |-> local[d][e].stamp,
   missing |-> local[d][e].missing \/ ~HasFile(local[d][e], e, cache[d]),
   deleted |-> deleted, purged |-> FALSE]

(* ... and for a deleted row that has none. *)
PurgedPayload(d, e) ==
  [meta |-> row[d][e].meta, stamp |-> row[d][e].stamp,
   missing |-> TRUE, deleted |-> TRUE, purged |-> TRUE]

(* Mutant: a deleted row is a purge although its entry is in the trash. *)
ScannedPurging(d, e) ==
  IF IsDeleted(row[d][e]) THEN PurgedPayload(d, e)
  ELSE IF local[d][e] # None THEN LivePayload(d, e, FALSE)
  ELSE None

Scanned(d, e) ==
  IF local[d][e] # None THEN LivePayload(d, e, IsDeleted(row[d][e]))
  ELSE IF IsDeleted(row[d][e]) THEN PurgedPayload(d, e)
  ELSE None

(* record_sync_crdt_operation_if_changed. *)
Changed(d) == {e \in Entry : Scanned(d, e) \notin {None, version[d][e]}}

(* Mutant: one past the device's own operations only. *)
StartTimesPastOwn(d) ==
  UNION {{t \in {now} \cup {o.time + 1 : o \in log[d]} :
            t >= now /\ \A o \in log[d] : o.dev = d => t > o.time} : now \in Now}

(* The first logical time of a scan: the greater of the clock's reading and of   *)
(* one past the local log.                                                      *)
StartTimes(d) ==
  UNION {{t \in {now} \cup {o.time + 1 : o \in log[d]} :
            t >= now /\ \A o \in log[d] : t > o.time} : now \in Now}

(* Mutant: the marker is set without a second look at the revision. *)
MarkerAlwaysKept(d) == TRUE

(* remember_sync_local_snapshot, when no edit landed since the scan began. *)
MarkerKept(d) == scanClean[d]

(* prepare_local_crdt_operations, each new operation one tick after the one      *)
(* before, and the check of the change revision that follows it.                *)
Prepare(d) ==
  LET n == Cardinality(Changed(d)) IN
  /\ pc[d] = "seeded"
  /\ Cardinality(log[d]) + n <= MaxOps
  /\ \E start \in StartTimes(d), place \in [Changed(d) -> 0..n - 1] :
       /\ \A e, f \in Changed(d) : place[e] = place[f] => e = f
       /\ log' = [log EXCEPT ![d] = @ \cup
            {[dev |-> d, time |-> start + place[e], entity |-> e,
              payload |-> Scanned(d, e)] : e \in Changed(d)}]
  /\ version' = [version EXCEPT ![d] =
       [e \in Entry |-> IF e \in Changed(d) THEN Scanned(d, e) ELSE @[e]]]
  /\ snapCurrent' = [snapCurrent EXCEPT ![d] = MarkerKept(d)]
  /\ touched' = [touched EXCEPT ![d] = IF scanClean[d] THEN {} ELSE @]
  /\ pc' = [pc EXCEPT ![d] = "preflight"]
  /\ UNCHANGED <<remoteVars, pushed, cursor, libVars, scanClean, passVars,
                 discarded, edits, allowed>>

(* Mutant: only files that are in the blob cache already are uploaded. *)
NeedUploadManaged(d) ==
  {e \in Entry \ uploaded[d] :
     local[d][e] # None /\ ~local[d][e].trashed /\ local[d][e].managed}

(* entries_needing_sync_blob_upload. *)
NeedUpload(d) ==
  {e \in Entry \ uploaded[d] : local[d][e] # None /\ ~local[d][e].trashed}

(* Mutant: the preflight does not compare the remote head. *)
NeedSyncLocal(d) == Pending(d) # {} \/ NeedUpload(d) # {}

NeedSync(d) ==
  Pending(d) # {} \/ Len(remote) > cursor[d] \/ NeedUpload(d) # {}

Preflight(d) ==
  /\ pc[d] = "preflight"
  /\ pc' = [pc EXCEPT ![d] = IF NeedSync(d) THEN "upload" ELSE "idle"]
  /\ UNCHANGED <<remoteVars, opVars, libVars, scanVars, passVars, userVars>>

(* upload_local_blobs: ingest into the cache, relink, upload. A failed upload   *)
(* is counted and left for the next pass. The pending operations are read after.*)
UploadBlobs(d) ==
  LET ingest == {e \in NeedUpload(d) : HasFile(local[d][e], e, cache[d])}
      relink == {e \in ingest : ~local[d][e].managed} IN
  /\ pc[d] = "upload"
  /\ cache' = [cache EXCEPT ![d] = @ \cup ingest]
  /\ local' = [local EXCEPT ![d] = [e \in Entry |->
       IF e \in relink THEN [@[e] EXCEPT !.managed = TRUE, !.missing = FALSE]
       ELSE @[e]]]
  /\ BumpIf(d, relink # {})
  /\ \E sent \in SUBSET ingest :
       /\ sent = ingest \/ "blobs" \in allowed
       /\ r2' = r2 \cup sent
       /\ uploaded' = [uploaded EXCEPT ![d] = @ \cup sent]
  /\ batch' = [batch EXCEPT ![d] = Pending(d)]
  /\ pc' = [pc EXCEPT ![d] = "pull1"]
  /\ UNCHANGED <<remote, opVars, row, affected, head, todo, userVars>>
-----------------------------------------------------------------------------
(* Mutant: a pulled operation replaces what the log held of its entity. *)
UpsertedReplacing(ops, new) == {o \in ops : o.entity \notin Entities(new)} \cup new

(* upsert_sync_crdt_operation for each pulled operation. *)
Upserted(ops, new) == ops \cup new

(* Mutant: only what the pass had before the pull is materialized. *)
PullUnseen(d, at, next, before) ==
  LET new == {remote[i] : i \in cursor[d] + 1..Len(remote)} IN
  /\ pc[d] = at
  /\ log' = [log EXCEPT ![d] = Upserted(@, new)]
  /\ pushed' = [pushed EXCEPT ![d] = @ \cup new]
  /\ affected' = [affected EXCEPT ![d] = before]
  /\ head' = [head EXCEPT ![d] = Len(remote)]
  /\ pc' = [pc EXCEPT ![d] = next]
  /\ UNCHANGED <<remoteVars, cursor, version, libVars, scanVars, batch, todo,
                 userVars>>

(* The pull before the push, and the one after it: operations past the cursor   *)
(* are upserted one by one, as pushed, then the cursor is set.                   *)
Pull(d, at, next, before) ==
  LET new == {remote[i] : i \in cursor[d] + 1..Len(remote)} IN
  /\ pc[d] = at
  /\ log' = [log EXCEPT ![d] = Upserted(@, new)]
  /\ pushed' = [pushed EXCEPT ![d] = @ \cup new]
  /\ affected' = [affected EXCEPT ![d] = before \cup Entities(new)]
  /\ head' = [head EXCEPT ![d] = Len(remote)]
  /\ pc' = [pc EXCEPT ![d] = next]
  /\ UNCHANGED <<remoteVars, cursor, version, libVars, scanVars, batch, todo,
                 userVars>>

PullBeforePush(d) == Pull(d, "pull1", "cursor1", Entities(batch[d]))
PullAfterPush(d) == Pull(d, "pull2", "cursor2", affected[d])

(* Mutant: the cursor moves to the remote head of this moment. *)
AdvanceCursorToRemote(d) ==
  /\ pc[d] \in {"cursor1", "cursor2"}
  /\ cursor' = [cursor EXCEPT ![d] = Len(remote)]
  /\ pc' = [pc EXCEPT ![d] =
       IF pc[d] = "cursor1" THEN "materialize1" ELSE "materialize2"]
  /\ UNCHANGED <<remoteVars, log, pushed, version, libVars, scanVars, passVars,
                 userVars>>

(* set_sync_crdt_remote_cursor. *)
AdvanceCursor(d) ==
  /\ pc[d] \in {"cursor1", "cursor2"}
  /\ cursor' = [cursor EXCEPT ![d] = head[d]]
  /\ pc' = [pc EXCEPT ![d] =
       IF pc[d] = "cursor1" THEN "materialize1" ELSE "materialize2"]
  /\ UNCHANGED <<remoteVars, log, pushed, version, libVars, scanVars, passVars,
                 userVars>>

(* Mutant: the absence of the file here is not looked at. *)
AppliedAvailable(l, e, p, cached) ==
  IF p.purged \/ l = None THEN None
  ELSE [l EXCEPT !.meta = p.meta, !.trashed = p.deleted, !.missing = p.missing]

(* apply_entry_payload_to_local, on the local row l of e. *)
Applied(l, e, p, cached) ==
  IF p.purged \/ l = None THEN None
  ELSE [l EXCEPT !.meta = p.meta, !.trashed = p.deleted,
                 !.missing = p.missing \/ (@ /\ ~HasFile(l, e, cached))]

(* Mutant: the whole payload is stored. *)
RowOfAll(p) == p

RowOf(p) == [meta |-> p.meta, stamp |-> p.stamp, deleted |-> p.deleted]

(* sync_entries_needing_hydration. *)
NeedHydration(rows, locals) ==
  {e \in Entry : /\ rows[e] # None /\ ~IsDeleted(rows[e])
                 /\ IF locals[e] = None THEN TRUE ELSE locals[e].missing}

(* Mutant: a replayed winner is not remembered. *)
RememberedNothing(d, e) == version[d][e]

(* remember_materialized_payload: the replayed winner is not echoed. *)
Remembered(d, e) ==
  IF e \in affected[d] THEN WinningPayload(d, e) ELSE version[d][e]

(* materialize_crdt_entities over the affected entities. *)
Materialize(d) ==
  LET Won(e) == WinningPayload(d, e) IN
  /\ row' = [row EXCEPT ![d] = [e \in Entry |->
       IF e \in affected[d] THEN RowOf(Won(e)) ELSE @[e]]]
  /\ local' = [local EXCEPT ![d] = [e \in Entry |->
       IF e \in affected[d] THEN Applied(@[e], e, Won(e), cache[d]) ELSE @[e]]]
  /\ version' = [version EXCEPT ![d] = [e \in Entry |-> Remembered(d, e)]]
  /\ BumpIf(d, \E e \in affected[d] : local[d][e] # None)
  /\ UNCHANGED <<remoteVars, log, pushed, cursor, cache, uploaded, batch, head,
                 userVars>>

MaterializeFirst(d) ==
  /\ pc[d] = "materialize1"
  /\ Materialize(d)
  /\ pc' = [pc EXCEPT ![d] = "push"]
  /\ UNCHANGED <<affected, todo>>

(* The last replay, and the query that starts hydrate_remote_library when the   *)
(* pass pulled or materialized anything.                                        *)
MaterializeLast(d) ==
  /\ pc[d] = "materialize2"
  /\ Materialize(d)
  /\ todo' = [todo EXCEPT ![d] =
       IF affected[d] = {} THEN {} ELSE NeedHydration(row'[d], local'[d])]
  /\ affected' = [affected EXCEPT ![d] = {}]
  /\ pc' = [pc EXCEPT ![d] = IF affected[d] = {} THEN "idle" ELSE "hydrate"]

(* Mutant: an operation that is already there is inserted again. *)
PushAgain(d) ==
  /\ pc[d] = "push"
  /\ \E o \in batch[d] : remote' = Append(remote, o)
  /\ UNCHANGED <<r2, opVars, libVars, scanVars, pc, passVars, userVars>>

(* upsert_remote_sync_operations: one insert per pending operation, oldest      *)
(* first; one that is already there is left alone.                              *)
PushOne(d) ==
  /\ pc[d] = "push"
  /\ \E o \in batch[d] \ Published :
       /\ \A p \in batch[d] \ Published : o.time <= p.time
       /\ remote' = Append(remote, o)
  /\ UNCHANGED <<r2, opVars, libVars, scanVars, pc, passVars, userVars>>

(* Mutant: the batch is marked before its inserts succeeded. *)
MarkPushedEarly(d) ==
  /\ pc[d] = "push"
  /\ pushed' = [pushed EXCEPT ![d] = @ \cup batch[d]]
  /\ batch' = [batch EXCEPT ![d] = {}]
  /\ pc' = [pc EXCEPT ![d] = "pull2"]
  /\ UNCHANGED <<remoteVars, log, cursor, version, libVars, scanVars, affected,
                 head, todo, userVars>>

(* mark_sync_crdt_operations_pushed, once every insert succeeded. *)
MarkPushed(d) ==
  /\ pc[d] = "push" /\ batch[d] \subseteq Published
  /\ pushed' = [pushed EXCEPT ![d] = @ \cup batch[d]]
  /\ batch' = [batch EXCEPT ![d] = {}]
  /\ pc' = [pc EXCEPT ![d] = "pull2"]
  /\ UNCHANGED <<remoteVars, log, cursor, version, libVars, scanVars, affected,
                 head, todo, userVars>>
-----------------------------------------------------------------------------
(* The local row hydration leaves, before the winning payload: relinked to the     *)
(* blob when it is here (relink_entry_path), or inserted (hydrate_sync_entry).      *)
Relinked(l, r, here) ==
  IF l = None
  THEN [meta |-> r.meta, stamp |-> r.stamp, missing |-> ~here,
        trashed |-> FALSE, managed |-> TRUE]
  ELSE IF here /\ (l.missing \/ ~l.managed)
  THEN [l EXCEPT !.managed = TRUE, !.missing = FALSE]
  ELSE l

(* One entry of hydrate_remote_library: download the blob unless it is cached,      *)
(* then relink or insert the local row, then apply the winning payload.              *)
HydrateEntry(d) ==
  /\ pc[d] = "hydrate"
  /\ \E e \in todo[d], ok \in IF "blobs" \in allowed THEN BOOLEAN ELSE {TRUE} :
       LET cached == IF e \in r2 /\ ok THEN cache[d] \cup {e} ELSE cache[d]
           l == Relinked(local[d][e], row[d][e], e \in cached) IN
       /\ cache' = [cache EXCEPT ![d] = cached]
       /\ local' = [local EXCEPT ![d][e] =
            IF Log!OpsFor(log[d], e) = {} THEN l
            ELSE Applied(l, e, WinningPayload(d, e), cached)]
       /\ todo' = [todo EXCEPT ![d] = @ \ {e}]
  /\ Bump(d)
  /\ UNCHANGED <<remoteVars, opVars, row, uploaded, pc, batch, affected, head,
                 userVars>>

HydrateDone(d) ==
  /\ pc[d] = "hydrate" /\ todo[d] = {}
  /\ pc' = [pc EXCEPT ![d] = "idle"]
  /\ UNCHANGED <<remoteVars, opVars, libVars, scanVars, passVars, userVars>>

(* The pass ends early at any await: an error is returned, or the app quits.    *)
(* What is in SQLite stays, what the pass held in memory is gone.                *)
Interrupt(d) ==
  /\ "interrupt" \in allowed /\ pc[d] # "idle"
  /\ pc' = [pc EXCEPT ![d] = "idle"]
  /\ batch' = [batch EXCEPT ![d] = {}]
  /\ affected' = [affected EXCEPT ![d] = {}]
  /\ todo' = [todo EXCEPT ![d] = {}]
  /\ UNCHANGED <<remoteVars, opVars, libVars, scanVars, head, userVars>>
-----------------------------------------------------------------------------
Init ==
  /\ remote = <<>> /\ r2 = {}
  /\ log = [d \in Device |-> {}] /\ pushed = [d \in Device |-> {}]
  /\ cursor = [d \in Device |-> 0]
  /\ version = [d \in Device |-> [e \in Entry |-> None]]
  /\ row = [d \in Device |-> [e \in Entry |-> None]]
  /\ local = [d \in Device |-> [e \in Entry |-> None]]
  /\ cache = [d \in Device |-> {}] /\ uploaded = [d \in Device |-> {}]
  /\ snapCurrent = [d \in Device |-> FALSE]
  /\ scanClean = [d \in Device |-> FALSE]
  /\ pc = [d \in Device |-> "idle"]
  /\ batch = [d \in Device |-> {}] /\ affected = [d \in Device |-> {}]
  /\ head = [d \in Device |-> 0] /\ todo = [d \in Device |-> {}]
  /\ touched = [d \in Device |-> {}] /\ discarded = {} /\ edits = 0
  /\ allowed \in Scenarios

Scan(d) == SkipScan(d) \/ Seed(d) \/ Prepare(d) \/ Preflight(d)

Exchange(d) ==
  \/ UploadBlobs(d) \/ PullBeforePush(d) \/ PullAfterPush(d) \/ AdvanceCursor(d)
  \/ MaterializeFirst(d) \/ PushOne(d) \/ MarkPushed(d) \/ MaterializeLast(d)

Pass(d) == Scan(d) \/ Exchange(d) \/ HydrateEntry(d) \/ HydrateDone(d)

User(d) ==
  \E e \in Entry : Import(d, e) \/ EditMeta(d, e) \/ SetTrashed(d, e) \/ Delete(d, e)

Next == \E d \in Device : User(d) \/ Pass(d) \/ Interrupt(d)

Spec == Init /\ [][Next]_vars

(* The auto-sync tick and the remote watcher keep starting passes, and a pass   *)
(* that has begun runs on.                                                      *)
FairSpec == Spec /\ \A d \in Device : WF_vars(Pass(d))
-----------------------------------------------------------------------------
TypeOK ==
  /\ remote \in Seq(Op) /\ r2 \subseteq Entry
  /\ log \in [Device -> SUBSET Op] /\ pushed \in [Device -> SUBSET Op]
  /\ cursor \in [Device -> Nat] /\ head \in [Device -> Nat]
  /\ version \in [Device -> [Entry -> Payload \cup {None}]]
  /\ row \in [Device -> [Entry -> SyncRow \cup {None}]]
  /\ local \in [Device -> [Entry -> LocalRow \cup {None}]]
  /\ cache \in [Device -> SUBSET Entry] /\ uploaded \in [Device -> SUBSET Entry]
  /\ snapCurrent \in [Device -> BOOLEAN] /\ scanClean \in [Device -> BOOLEAN]
  /\ pc \in [Device -> Steps] /\ batch \in [Device -> SUBSET Op]
  /\ affected \in [Device -> SUBSET Entry] /\ todo \in [Device -> SUBSET Entry]
  /\ touched \in [Device -> SUBSET Entry] /\ discarded \subseteq Entry
  /\ edits \in Nat /\ allowed \subseteq Events

(* Every remote operation at or before a device's cursor is in its log: the      *)
(* cursor never passes an operation the device will then never pull, whatever     *)
(* step of apply_pulled_crdt_operations the pass stopped at.                       *)
CursorCovered ==
  \A d \in Device : cursor[d] <= Len(remote) /\
    \A i \in 1..cursor[d] : remote[i] \in log[d]

(* An operation marked pushed is in the remote log: a pass that stops between     *)
(* the inserts and the marking pushes again, never too little.                    *)
PushedIsPublished == \A d \in Device : pushed[d] \subseteq Published

(* The op id is unique in the remote log (ON CONFLICT DO NOTHING): a repeated      *)
(* push appends nothing.                                                          *)
NoDuplicatePush ==
  \A i, j \in 1..Len(remote) : remote[i] = remote[j] => i = j

(* What is marked pushed is in the remote log, and nothing is in it twice, however     *)
(* often a pass stops between the inserts and mark_sync_crdt_operations_pushed.         *)
PushedOnce == PushedIsPublished /\ NoDuplicatePush

(* A current snapshot marker means that every local entry is recorded as it is:   *)
(* the next pass may skip the scan without losing an edit, one that landed while   *)
(* the last scan ran included (prepare_incremental_local_snapshot).                *)
SnapshotSound ==
  \A d \in Device, e \in Entry : snapCurrent[d] /\ local[d][e] # None =>
    version[d][e] = LivePayload(d, e, local[d][e].trashed)

(* An operation a device records beats all it has seen of the entry, whatever the  *)
(* clocks read: an edit made with knowledge of another is not shadowed by it        *)
(* (docs: clock skew).                                                            *)
EditPrevails ==
  [][\A d \in Device : \A o \in log'[d] \ log[d] :
       o.dev = d => Log!IsWinner(o, log'[d], o.entity)]_vars

StampsUnique == Log!StampsUnique

(* Of any two operations of an entity a device uses the later one, and it never   *)
(* goes back (Winner is a maximum of a log that only grows).                        *)
WinnerAdvances == Log!WinnerAdvances

(* The pass implements the replicated log.                                         *)
ImplementsOpLog == Log!Spec

(* What a user sees of an entry. *)
Visible(d, e) ==
  IF local[d][e] = None THEN None
  ELSE [meta |-> local[d][e].meta, trashed |-> local[d][e].trashed]

(* What the winner of an entry makes visible. *)
VisibleOf(p) ==
  IF p.purged THEN None ELSE [meta |-> p.meta, trashed |-> p.deleted]

(* A preflight that finds no work is right: the library then shows what the log    *)
(* says (run.rs: skip "when the library is already consistent with Turso").         *)
SkipIsSafe ==
  \A d \in Device : pc[d] = "idle" /\ snapCurrent[d] /\ ~NeedSync(d) =>
    \A e \in Entry : Log!OpsFor(log[d], e) # {} =>
      Visible(d, e) = VisibleOf(WinningPayload(d, e))

(* An entry the library shows as available has its PDF on the device, also when     *)
(* transfers fail and when other devices, who have it, say it is not missing.        *)
AvailableHasFile ==
  \A d \in Device, e \in Entry : local[d][e] # None =>
    local[d][e].missing \/ HasFile(local[d][e], e, cache[d])

(* No entry is purged from the user's devices unless a user permanently deleted    *)
(* it somewhere (docs: trash keeps the row, "permanent delete removes rows").        *)
NoSpuriousPurge ==
  \A d \in Device : \A o \in log[d] : o.payload.purged => o.entity \in discarded

(* A scan records nothing for an entry the user did not change since the last       *)
(* one: "unchanged entities do not generate new ops".                               *)
IdleIsQuiet ==
  [][\A d \in Device : \A o \in log'[d] \ log[d] :
       o.dev = d => o.entity \in touched[d]]_vars

(* A user's change of an entry is not undone before a scan has recorded it: "the    *)
(* next pass safely rescans".                                                      *)
UnrecordedEditKept ==
  [][\A d \in Device : \A e \in touched[d] :
       edits' = edits => Visible(d, e)' = Visible(d, e)]_vars

(* A live operation reaches the shared log after the PDF it names: the device that  *)
(* pulls it can download the blob.                                                  *)
BlobBeforeMetadata ==
  \A o \in Published : ~o.payload.deleted /\ ~o.payload.missing => o.entity \in r2

(* Once users stop, the libraries of all devices agree for good.                    *)
Agreement == \A c, d \in Device, e \in Entry : Visible(c, e) = Visible(d, e)
Convergence == <>[]Agreement

(* And on the way no device records an operation for an entry its user left alone.      *)
ConvergesQuietly == Convergence /\ IdleIsQuiet
=============================================================================
