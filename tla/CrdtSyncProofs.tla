--------------------------- MODULE CrdtSyncProofs ---------------------------
(* Proofs about CrdtSync, for every number of devices and entries, every clock and *)
(* every combination of user operations and hazards.                             *)
EXTENDS CrdtSync, FiniteSetTheorems, TLAPS

(* A pull's head is covered before the cursor moves to it. *)
HeadCovered ==
  \A d \in Device : pc[d] \in {"cursor1", "cursor2"} =>
    head[d] <= Len(remote) /\ \A i \in 1..head[d] : remote[i] \in log[d]

(* A pass pushes operations its device recorded. *)
BatchIsOwn == \A d \in Device : \A o \in batch[d] : o \in log[d] /\ o.dev = d

(* Every entity a pass materializes has an operation. *)
AffectedKnown ==
  \A d \in Device : \A e \in affected[d] : Log!OpsFor(log[d], e) # {}

(* A hydration works on rows that exist. *)
TodoHasRow ==
  \A d \in Device : /\ \A e \in todo[d] : row[d][e] # None
                    /\ pc[d] # "hydrate" => todo[d] = {}

(* Logical times stay bounded, so a log has a greatest operation. *)
TimesBounded ==
  /\ \A d \in Device : \E n \in Nat : \A o \in log[d] : o.time <= n
  /\ \E n \in Nat : \A o \in Published : o.time <= n

(* Between seed and prepare the rows show the trash state of unedited entries. *)
SeedFresh ==
  \A d \in Device, e \in Entry :
    pc[d] = "seeded" /\ scanClean[d] /\ local[d][e] # None =>
      IsDeleted(row[d][e]) = local[d][e].trashed

IInv ==
  /\ TypeOK /\ Log!IInv /\ TimesBounded
  /\ CursorCovered /\ HeadCovered /\ PushedIsPublished /\ NoDuplicatePush
  /\ BatchIsOwn /\ AffectedKnown /\ TodoHasRow
  /\ SnapshotSound /\ SeedFresh
-----------------------------------------------------------------------------
(* A device that knows an operation of an entry has its winner (WinnerIsWinner).  *)
LEMMA WinnerTyped ==
  ASSUME IInv, NEW d \in Device, NEW e \in Entry, Log!OpsFor(log[d], e) # {}
  PROVE  /\ Log!IsWinner(Log!Winner(log[d], e), log[d], e)
         /\ WinningPayload(d, e) \in Payload
<1>1. log[d] \subseteq Op
  BY DEF IInv, TypeOK
<1>2. \A o, p \in log[d] : o.dev = p.dev /\ o.time = p.time => o = p
  BY DEF IInv, Log!IInv, Log!StampsUnique, Log!AllOps
<1>3. PICK n \in Nat : \A o \in log[d] : o.time <= n
  BY DEF IInv, TimesBounded
<1>4. PICK m \in Nat : \A x \in Device : x <= m
  BY ConstantsAssumption
<1>5. Log!IsWinner(Log!Winner(log[d], e), log[d], e)
  BY <1>1, <1>2, <1>3, <1>4, ConstantsAssumption, Log!WinnerIsWinner DEF Op
<1>6. Log!Winner(log[d], e) \in Op
  BY <1>1, <1>5 DEF Log!IsWinner, Log!OpsFor
<1> QED BY <1>5, <1>6 DEF Op, Log!Op, WinningPayload

(* The payload a scan builds from typed rows. *)
LEMMA ScannedTyped ==
  ASSUME TypeOK, NEW d \in Device, NEW e \in Entry
  PROVE  Scanned(d, e) \in Payload \cup {None}
<1>1. local[d][e] \in LocalRow \cup {None} /\ row[d][e] \in SyncRow \cup {None}
  BY DEF TypeOK
<1>2. CASE local[d][e] # None
  <2>1. local[d][e] \in LocalRow /\ IsDeleted(row[d][e]) \in BOOLEAN
    BY <1>1, <1>2 DEF IsDeleted, SyncRow
  <2>2. LivePayload(d, e, IsDeleted(row[d][e])) \in Payload
    BY <2>1 DEF LivePayload, LocalRow, Payload, HasFile
  <2> QED BY <1>2, <2>2 DEF Scanned
<1>3. CASE local[d][e] = None
  <2>1. IsDeleted(row[d][e]) => row[d][e] \in SyncRow
    BY <1>1 DEF IsDeleted
  <2>2. IsDeleted(row[d][e]) => PurgedPayload(d, e) \in Payload
    BY <2>1 DEF PurgedPayload, SyncRow, Payload
  <2> QED BY <1>3, <2>2 DEF Scanned
<1> QED BY <1>2, <1>3

(* Replaying a payload on a typed local row gives one. *)
LEMMA AppliedTyped ==
  ASSUME NEW l \in LocalRow \cup {None}, NEW p \in Payload, NEW e, NEW cached
  PROVE  Applied(l, e, p, cached) \in LocalRow \cup {None}
BY DEF Applied, LocalRow, Payload, HasFile
-----------------------------------------------------------------------------
(* What a scan adds to a log: operations of the device, past all it knows, each   *)
(* with a time and an entity of its own.                                          *)
LEMMA PrepareRecords ==
  ASSUME IInv, NEW d \in Device, Prepare(d)
  PROVE  \E new \in SUBSET Op :
           /\ log' = [log EXCEPT ![d] = log[d] \cup new]
           /\ \A o \in new : o.dev = d /\ \A p \in log[d] : p.time < o.time
           /\ \A o, p \in new : o.time = p.time \/ o.entity = p.entity => o = p
           /\ \E n \in Nat : \A o \in new : o.time <= n
<1> DEFINE n == Cardinality(Changed(d))
<1>1. PICK start \in StartTimes(d), place \in [Changed(d) -> 0..n - 1] :
        /\ \A e, f \in Changed(d) : place[e] = place[f] => e = f
        /\ log' = [log EXCEPT ![d] = log[d] \cup
             {[dev |-> d, time |-> start + place[e], entity |-> e,
               payload |-> Scanned(d, e)] : e \in Changed(d)}]
  BY Zenon DEF Prepare
<1> DEFINE OpAt(e) == [dev |-> d, time |-> start + place[e], entity |-> e,
                       payload |-> Scanned(d, e)]
           new == {OpAt(e) : e \in Changed(d)}
<1>2. n \in Nat
  BY ConstantsAssumption, FS_Subset, FS_CardinalityType DEF Changed
<1>3. log[d] \subseteq Op
  BY DEF IInv, TypeOK
<1>4. start \in Nat /\ \A p \in log[d] : p.time < start
  BY <1>3, ConstantsAssumption DEF StartTimes, Op, Log!Op
<1> HIDE DEF n
<1>5. \A e \in Changed(d) : /\ place[e] \in Nat /\ place[e] <= n
                           /\ e \in Entry /\ Scanned(d, e) \in Payload
  BY <1>1, <1>2, ScannedTyped DEF IInv, Changed
<1>6. \A e \in Changed(d) : OpAt(e) \in Op
  BY <1>4, <1>5 DEF Op, Log!Op
<1>7. \A o \in new : o.dev = d /\ \A p \in log[d] : p.time < o.time
  BY <1>3, <1>4, <1>5 DEF Op, Log!Op
<1>8. \A o, p \in new : o.time = p.time \/ o.entity = p.entity => o = p
  <2> SUFFICES ASSUME NEW e \in Changed(d), NEW f \in Changed(d),
                      OpAt(e).time = OpAt(f).time \/ OpAt(e).entity = OpAt(f).entity
               PROVE  e = f
    OBVIOUS
  <2> QED BY <1>1, <1>4, <1>5
<1>9. start + n \in Nat /\ \A o \in new : o.time <= start + n
  BY <1>2, <1>4, <1>5
<1>10. new \in SUBSET Op /\ log' = [log EXCEPT ![d] = log[d] \cup new]
  BY <1>1, <1>6
<1> HIDE DEF new
<1> QED BY <1>7, <1>8, <1>9, <1>10

(* Only the scan, the pulls and the push change a log or the remote log. *)
LEMMA StepKinds ==
  ASSUME [Next]_vars
  PROVE  \/ log' = log /\ remote' = remote
         \/ \E d \in Device : Prepare(d) \/ PullBeforePush(d) \/ PullAfterPush(d) \/ PushOne(d)
<1>1. CASE UNCHANGED vars
  BY <1>1 DEF vars, opVars, remoteVars
<1>2. ASSUME NEW d \in Device, User(d) PROVE log' = log /\ remote' = remote
  BY <1>2 DEF User, Import, EditMeta, SetTrashed, Delete, UserChange, opVars, remoteVars
<1>3. ASSUME NEW d \in Device, SkipScan(d) \/ Seed(d) \/ Preflight(d)
      PROVE  log' = log /\ remote' = remote
  BY <1>3 DEF SkipScan, Seed, Preflight, opVars, remoteVars
<1>4. ASSUME NEW d \in Device, \/ UploadBlobs(d) \/ AdvanceCursor(d) \/ MarkPushed(d)
                               \/ MaterializeFirst(d) \/ MaterializeLast(d)
      PROVE  log' = log /\ remote' = remote
  BY <1>4 DEF UploadBlobs, AdvanceCursor, MarkPushed, MaterializeFirst,
              MaterializeLast, Materialize, opVars, remoteVars
<1>5. ASSUME NEW d \in Device, HydrateEntry(d) \/ HydrateDone(d) \/ Interrupt(d)
      PROVE  log' = log /\ remote' = remote
  BY <1>5 DEF HydrateEntry, HydrateDone, Interrupt, opVars, remoteVars
<1> QED BY <1>1, <1>2, <1>3, <1>4, <1>5 DEF Next, Pass, Scan, Exchange

(* A pull adds published operations to the log of its device. *)
LEMMA PullLearns ==
  ASSUME IInv, NEW d \in Device, PullBeforePush(d) \/ PullAfterPush(d)
  PROVE  \E new \in SUBSET Published :
           /\ new = {remote[i] : i \in cursor[d] + 1..Len(remote)}
           /\ log' = [log EXCEPT ![d] = log[d] \cup new]
           /\ pushed' = [pushed EXCEPT ![d] = pushed[d] \cup new]
           /\ remote' = remote
<1> DEFINE new == {remote[i] : i \in cursor[d] + 1..Len(remote)}
<1>1. /\ log' = [log EXCEPT ![d] = log[d] \cup new]
      /\ pushed' = [pushed EXCEPT ![d] = pushed[d] \cup new]
      /\ remote' = remote
  BY DEF PullBeforePush, PullAfterPush, Pull, Upserted, remoteVars
<1>2. cursor[d] \in Nat /\ Len(remote) \in Nat
  BY DEF IInv, TypeOK
<1>3. new \subseteq Published
  BY <1>2 DEF Published
<1> HIDE DEF new
<1> QED BY <1>1, <1>3 DEF new

(* A push appends an operation of the device that the remote log does not hold. *)
LEMMA PushAppends ==
  ASSUME IInv, NEW d \in Device, PushOne(d)
  PROVE  \E o \in log[d] \ Published :
           /\ o.dev = d /\ o \in Op
           /\ remote' = Append(remote, o) /\ log' = log
           /\ Published' = Published \cup {o}
<1>1. PICK o \in batch[d] \ Published : remote' = Append(remote, o) /\ log' = log
  BY DEF PushOne, opVars
<1>2. o \in log[d] /\ o.dev = d /\ o \in Op /\ remote \in Seq(Op)
  BY DEF IInv, BatchIsOwn, TypeOK
<1>3. Published' = Published \cup {o}
  BY <1>1, <1>2 DEF Published
<1> QED BY <1>1, <1>2, <1>3

(* Every step of the sync, of the user and every interruption is a step of the    *)
(* replicated log, or leaves it alone.                                            *)
LEMMA StepImplementsOpLog ==
  ASSUME IInv, [Next]_vars
  PROVE  [Log!Next]_(Log!vars)
<1>1. CASE log' = log /\ remote' = remote
  BY <1>1 DEF Log!vars
<1>2. ASSUME NEW d \in Device, Prepare(d) PROVE Log!Next
  <2>1. PICK new \in SUBSET Op :
           /\ log' = [log EXCEPT ![d] = log[d] \cup new]
           /\ \A o \in new : o.dev = d /\ \A p \in log[d] : p.time < o.time
           /\ \A o, p \in new : o.time = p.time \/ o.entity = p.entity => o = p
    BY <1>2, PrepareRecords
  <2>2. log \in [Device -> SUBSET Op] /\ remote' = remote
    BY <1>2 DEF IInv, TypeOK, Prepare, remoteVars
  <2>3. log'[d] = log[d] \cup new
    BY <2>1, <2>2
  <2>4. log'[d] \ log[d] = new
    BY <2>1, <2>2, <2>3 DEF Op, Log!Op
  <2>5. UNCHANGED {remote[i] : i \in 1..Len(remote)}
    BY <2>2
  <2>6. new \subseteq Log!Op
    BY DEF Op
  <2>7. Log!Record(d)
    BY <2>1, <2>4, <2>5, <2>6 DEF Log!Record
  <2> QED BY <2>7 DEF Log!Next
<1>3. ASSUME NEW d \in Device, PullBeforePush(d) \/ PullAfterPush(d) PROVE Log!Next
  <2>1. PICK new \in SUBSET Published :
          log' = [log EXCEPT ![d] = log[d] \cup new] /\ remote' = remote
    BY <1>3, PullLearns
  <2>2. log \in [Device -> SUBSET Op]
    BY DEF IInv, TypeOK
  <2>3. /\ log' = [log EXCEPT ![d] = log[d] \cup (log'[d] \ log[d])]
        /\ log'[d] \ log[d] \subseteq Published
    BY <2>1, <2>2
  <2>4. Log!Learn(d)
    BY <2>1, <2>3 DEF Log!Learn, Published
  <2> QED BY <2>4 DEF Log!Next
<1>4. ASSUME NEW d \in Device, PushOne(d) PROVE Log!Next
  <2>1. Log!Publish(d)
    BY <1>4, PushAppends DEF Log!Publish, Published
  <2> QED BY <2>1 DEF Log!Next
<1> QED BY <1>1, <1>2, <1>3, <1>4, StepKinds

(* So the invariant of the replicated log holds of the sync. *)
LEMMA LogPreserved ==
  ASSUME IInv, [Next]_vars
  PROVE  Log!IInv'
<1>1. Log!IInv
  BY DEF IInv
<1>2. CASE UNCHANGED Log!vars
  <2>1. log' = log /\ {remote[i] : i \in 1..Len(remote)}' = {remote[i] : i \in 1..Len(remote)}
    BY <1>2, Zenon DEF Log!vars
  <2>2. Log!AllOps' = Log!AllOps
    BY <2>1, Zenon DEF Log!AllOps
  <2>3. Log!TypeOK'
    BY <1>1, <2>1, Zenon DEF Log!IInv, Log!TypeOK
  <2>4. Log!OriginKeeps' /\ Log!StampsUnique'
    BY <1>1, <2>1, <2>2 DEF Log!IInv, Log!OriginKeeps, Log!StampsUnique
  <2> QED BY <2>3, <2>4 DEF Log!IInv
<1>3. CASE Log!Next
  BY <1>1, <1>3, Log!RecordPreserves, Log!SpreadPreserves DEF Log!Next
<1> QED BY <1>2, <1>3, StepImplementsOpLog

(* Logs only grow, and what is published stays where it is. *)
LEMMA LogGrows ==
  ASSUME IInv, [Next]_vars
  PROVE  /\ \A d \in Device : log[d] \subseteq log'[d]
         /\ Len(remote) \in Nat /\ Len(remote') \in Nat /\ Len(remote) <= Len(remote')
         /\ \A i \in 1..Len(remote) : remote'[i] = remote[i]
         /\ Published \subseteq Published'
<1>1. log \in [Device -> SUBSET Op] /\ remote \in Seq(Op)
  BY DEF IInv, TypeOK
<1>2. CASE log' = log /\ remote' = remote
  BY <1>1, <1>2 DEF Published
<1>3. ASSUME NEW d \in Device, Prepare(d) PROVE remote' = remote
  BY <1>3 DEF Prepare, remoteVars
<1>4. ASSUME NEW d \in Device, Prepare(d) PROVE \A c \in Device : log[c] \subseteq log'[c]
  BY <1>1, <1>4, PrepareRecords
<1>5. ASSUME NEW d \in Device, PullBeforePush(d) \/ PullAfterPush(d)
      PROVE  remote' = remote /\ \A c \in Device : log[c] \subseteq log'[c]
  BY <1>1, <1>5, PullLearns
<1>6. ASSUME NEW d \in Device, PushOne(d)
      PROVE  /\ log' = log /\ Published \subseteq Published'
             /\ \E o \in Op : remote' = Append(remote, o)
  BY <1>6, PushAppends
<1> QED BY <1>1, <1>2, <1>3, <1>4, <1>5, <1>6, StepKinds DEF Published

(* A bound of all times stays one, or moves past the new operations. *)
LEMMA TimesStayBounded ==
  ASSUME IInv, [Next]_vars
  PROVE  TimesBounded'
<1>1. PICK n \in Nat : \A o \in Published : o.time <= n
  BY DEF IInv, TimesBounded
<1>2. \A d \in Device : \E m \in Nat : \A o \in log[d] : o.time <= m
  BY DEF IInv, TimesBounded
<1>3. /\ log \in [Device -> SUBSET Op] /\ remote \in Seq(Op)
      /\ \A o \in Published : o \in Op
  BY DEF IInv, TypeOK, Published
<1>4. CASE log' = log /\ remote' = remote
  BY <1>4 DEF IInv, TimesBounded, Published
<1>5. ASSUME NEW d \in Device, NEW new \in SUBSET Op, NEW k \in Nat,
             \A o \in new : o.time <= k,
             log' = [log EXCEPT ![d] = log[d] \cup new], remote' = remote
      PROVE  TimesBounded'
  <2>1. ASSUME NEW c \in Device PROVE \E m \in Nat : \A o \in log'[c] : o.time <= m
    <3>1. PICK m \in Nat : \A o \in log[c] : o.time <= m
      BY <1>2
    <3>2. \A o \in log'[c] : o \in Op /\ (o.time <= m \/ o.time <= k)
      BY <1>3, <1>5, <3>1
    <3>3. \A o \in log'[c] : o.time <= m + k
      BY <3>2 DEF Op, Log!Op
    <3> QED BY <3>3
  <2>2. Published' = Published
    BY <1>5 DEF Published
  <2> QED BY <1>1, <2>1, <2>2 DEF TimesBounded
<1>6. ASSUME NEW d \in Device, Prepare(d) PROVE TimesBounded'
  <2>1. PICK new \in SUBSET Op :
          /\ log' = [log EXCEPT ![d] = log[d] \cup new]
          /\ \E k \in Nat : \A o \in new : o.time <= k
    BY <1>6, PrepareRecords
  <2>2. remote' = remote
    BY <1>6 DEF Prepare, remoteVars
  <2> QED BY <1>5, <2>1, <2>2
<1>7. ASSUME NEW d \in Device, PullBeforePush(d) \/ PullAfterPush(d) PROVE TimesBounded'
  <2>1. PICK new \in SUBSET Published :
          log' = [log EXCEPT ![d] = log[d] \cup new] /\ remote' = remote
    BY <1>7, PullLearns
  <2>2. new \in SUBSET Op
    BY <1>3
  <2> QED BY <1>1, <1>5, <2>1, <2>2
<1>8. ASSUME NEW d \in Device, PushOne(d) PROVE TimesBounded'
  <2>1. PICK o \in log[d] : o \in Op /\ log' = log /\ Published' = Published \cup {o}
    BY <1>8, PushAppends
  <2>2. \A p \in Published' : p.time <= n + o.time
    BY <1>1, <1>3, <2>1 DEF Op, Log!Op
  <2>3. n + o.time \in Nat
    BY <2>1 DEF Op, Log!Op
  <2> QED BY <1>2, <2>1, <2>2, <2>3 DEF TimesBounded
<1> QED BY <1>4, <1>6, <1>7, <1>8, StepKinds
-----------------------------------------------------------------------------
(* Types are preserved by what users do, ... *)
LEMMA UserTyped ==
  ASSUME TypeOK, NEW d \in Device, NEW e \in Entry,
         Import(d, e) \/ EditMeta(d, e) \/ SetTrashed(d, e) \/ Delete(d, e)
  PROVE  TypeOK'
<1>1. local[d][e] \in LocalRow \cup {None}
  BY DEF TypeOK
<1>2. ASSUME NEW l \in LocalRow \cup {None}, UserChange(d, e, l),
             discarded' \subseteq Entry
      PROVE  TypeOK'
  BY <1>2 DEF TypeOK, UserChange, Bump, remoteVars, opVars, passVars, Op
<1>3. discarded' \subseteq Entry
  BY DEF TypeOK, Import, EditMeta, SetTrashed, Delete
<1>4. CASE Import(d, e)
  <2> DEFINE l == [meta |-> FileMeta, missing |-> FALSE, trashed |-> FALSE,
                   managed |-> FALSE,
                   stamp |-> IF local[d][e] = None THEN d ELSE local[d][e].stamp]
  <2>1. l \in LocalRow
    BY <1>1, ConstantsAssumption DEF LocalRow
  <2> HIDE DEF l
  <2>2. UserChange(d, e, l)
    BY <1>4 DEF Import, l
  <2> QED BY <2>1, <2>2, <1>2, <1>3
<1>5. CASE EditMeta(d, e)
  <2>1. PICK m \in Meta : UserChange(d, e, [local[d][e] EXCEPT !.meta = m])
    BY <1>5 DEF EditMeta
  <2>2. [local[d][e] EXCEPT !.meta = m] \in LocalRow
    BY <1>1, <1>5 DEF EditMeta, LocalRow
  <2> QED BY <2>1, <2>2, <1>2, <1>3
<1>6. CASE SetTrashed(d, e)
  <2> DEFINE l == [local[d][e] EXCEPT !.trashed = ~@]
  <2>1. l \in LocalRow
    BY <1>1, <1>6 DEF SetTrashed, LocalRow
  <2>2. UserChange(d, e, l)
    BY <1>6 DEF SetTrashed
  <2> HIDE DEF l
  <2> QED BY <2>1, <2>2, <1>2, <1>3
<1>7. CASE Delete(d, e)
  BY <1>7, <1>2, <1>3 DEF Delete
<1> QED BY <1>4, <1>5, <1>6, <1>7

(* ... by the scan, ... *)
LEMMA ScanTyped ==
  ASSUME IInv, NEW d \in Device, Scan(d)
  PROVE  TypeOK'
<1>1. TypeOK
  BY DEF IInv
<1>2. CASE SkipScan(d) \/ Preflight(d)
  BY <1>1, <1>2 DEF TypeOK, SkipScan, Preflight, remoteVars, opVars, libVars, scanVars,
                    passVars, userVars, Steps, Op
<1>3. CASE Seed(d)
  <2>1. \A e \in Entry : SeededRow(d, e) \in SyncRow \cup {None}
    <3> SUFFICES ASSUME NEW e \in Entry PROVE SeededRow(d, e) \in SyncRow \cup {None}
      OBVIOUS
    <3>1. local[d][e] \in LocalRow \cup {None} /\ row[d][e] \in SyncRow \cup {None}
      BY <1>1 DEF TypeOK
    <3>2. row[d][e] # None => [row[d][e] EXCEPT !.deleted = TRUE, !.stamp = d] \in SyncRow
      BY <3>1 DEF SyncRow
    <3>3. local[d][e] # None => [meta |-> local[d][e].meta, stamp |-> local[d][e].stamp,
                                 deleted |-> local[d][e].trashed] \in SyncRow
      BY <3>1 DEF SyncRow, LocalRow
    <3> QED BY <3>1, <3>2, <3>3, Zenon DEF SeededRow
  <2>2. row' \in [Device -> [Entry -> SyncRow \cup {None}]]
    BY <1>1, <1>3, <2>1 DEF TypeOK, Seed
  <2> QED BY <1>1, <1>3, <2>2 DEF TypeOK, Seed, remoteVars, opVars, passVars,
                                   userVars, Steps, Op
<1>4. CASE Prepare(d)
  <2>1. log' \in [Device -> SUBSET Op]
    <3>1. PICK new \in SUBSET Op : log' = [log EXCEPT ![d] = log[d] \cup new]
      BY <1>4, PrepareRecords
    <3> QED BY <1>1, <3>1 DEF TypeOK
  <2>2. version' \in [Device -> [Entry -> Payload \cup {None}]]
    <3>1. \A e \in Entry : Scanned(d, e) \in Payload \cup {None}
      BY <1>1, ScannedTyped
    <3>2. version' = [version EXCEPT ![d] =
             [e \in Entry |-> IF e \in Changed(d) THEN Scanned(d, e) ELSE version[d][e]]]
      BY <1>4 DEF Prepare
    <3> QED BY <1>1, <3>1, <3>2 DEF TypeOK
  <2>3. /\ snapCurrent' \in [Device -> BOOLEAN] /\ touched' \in [Device -> SUBSET Entry]
        /\ pc' \in [Device -> Steps]
    BY <1>1, <1>4 DEF TypeOK, Prepare, MarkerKept, Steps
  <2>4. UNCHANGED <<remoteVars, pushed, cursor, libVars, scanClean, passVars,
                    discarded, edits, allowed>>
    BY <1>4 DEF Prepare
  <2> QED BY <1>1, <2>1, <2>2, <2>3, <2>4
          DEF TypeOK, remoteVars, libVars, passVars, Op
<1> QED BY <1>2, <1>3, <1>4 DEF Scan

(* ... by a replay, ... *)
LEMMA MaterializeTyped ==
  ASSUME IInv, NEW d \in Device, Materialize(d)
  PROVE  /\ row' \in [Device -> [Entry -> SyncRow \cup {None}]]
         /\ local' \in [Device -> [Entry -> LocalRow \cup {None}]]
         /\ version' \in [Device -> [Entry -> Payload \cup {None}]]
         /\ snapCurrent' \in [Device -> BOOLEAN] /\ scanClean' \in [Device -> BOOLEAN]
<1>1. TypeOK
  BY DEF IInv
<1>2. \A e \in affected[d] : e \in Entry /\ WinningPayload(d, e) \in Payload
  BY WinnerTyped DEF IInv, AffectedKnown, TypeOK
<1>3. \A p \in Payload : RowOf(p) \in SyncRow
  BY DEF RowOf, Payload, SyncRow
<1>4. \A e \in affected[d] :
        Applied(local[d][e], e, WinningPayload(d, e), cache[d]) \in LocalRow \cup {None}
  BY <1>1, <1>2, AppliedTyped DEF TypeOK
<1>5. row' \in [Device -> [Entry -> SyncRow \cup {None}]]
  <2>1. row' = [row EXCEPT ![d] = [e \in Entry |->
                  IF e \in affected[d] THEN RowOf(WinningPayload(d, e)) ELSE row[d][e]]]
    BY DEF Materialize
  <2> QED BY <1>1, <1>2, <1>3, <2>1 DEF TypeOK
<1>6. local' \in [Device -> [Entry -> LocalRow \cup {None}]]
  <2>1. local' = [local EXCEPT ![d] = [e \in Entry |->
                    IF e \in affected[d]
                    THEN Applied(local[d][e], e, WinningPayload(d, e), cache[d])
                    ELSE local[d][e]]]
    BY DEF Materialize
  <2> QED BY <1>1, <1>4, <2>1 DEF TypeOK
<1>7. version' \in [Device -> [Entry -> Payload \cup {None}]]
  BY <1>1, <1>2 DEF Materialize, Remembered, TypeOK
<1>8. snapCurrent' \in [Device -> BOOLEAN] /\ scanClean' \in [Device -> BOOLEAN]
  BY <1>1 DEF Materialize, BumpIf, Bump, scanVars, TypeOK
<1> QED BY <1>5, <1>6, <1>7, <1>8

(* ... by the exchange with the remote, ... *)
LEMMA ExchangeTyped ==
  ASSUME IInv, NEW d \in Device, Exchange(d)
  PROVE  TypeOK'
<1>1. TypeOK /\ BatchIsOwn
  BY DEF IInv
<1>2. CASE UploadBlobs(d)
  <2> DEFINE ingest == {e \in NeedUpload(d) : HasFile(local[d][e], e, cache[d])}
             relink == {e \in ingest : ~local[d][e].managed}
  <2>1. ingest \subseteq Entry /\ \A e \in ingest : local[d][e] \in LocalRow
    BY <1>1 DEF TypeOK, NeedUpload
  <2>2. local' = [local EXCEPT ![d] = [e \in Entry |->
                    IF e \in relink
                    THEN [local[d][e] EXCEPT !.managed = TRUE, !.missing = FALSE]
                    ELSE local[d][e]]]
    BY <1>2 DEF UploadBlobs
  <2>3. cache' = [cache EXCEPT ![d] = cache[d] \cup ingest]
    BY <1>2 DEF UploadBlobs
  <2>4. PICK sent \in SUBSET ingest :
          /\ r2' = r2 \cup sent
          /\ uploaded' = [uploaded EXCEPT ![d] = uploaded[d] \cup sent]
    BY <1>2 DEF UploadBlobs
  <2>5. relink \subseteq ingest
    OBVIOUS
  <2> HIDE DEF ingest, relink
  <2>6. \A e \in relink : [local[d][e] EXCEPT !.managed = TRUE, !.missing = FALSE] \in LocalRow
    BY <2>1, <2>5 DEF LocalRow
  <2>7. local' \in [Device -> [Entry -> LocalRow \cup {None}]]
    BY <1>1, <2>2, <2>6 DEF TypeOK
  <2>8. /\ cache' \in [Device -> SUBSET Entry] /\ r2' \subseteq Entry
        /\ uploaded' \in [Device -> SUBSET Entry]
    BY <1>1, <2>1, <2>3, <2>4 DEF TypeOK
  <2>9. /\ snapCurrent' \in [Device -> BOOLEAN] /\ scanClean' \in [Device -> BOOLEAN]
        /\ batch' \in [Device -> SUBSET Op] /\ pc' \in [Device -> Steps]
    BY <1>1, <1>2 DEF UploadBlobs, BumpIf, Bump, scanVars, TypeOK, Pending, Steps
  <2>10. UNCHANGED <<remote, opVars, row, affected, head, todo, userVars>>
    BY <1>2 DEF UploadBlobs
  <2> QED BY <1>1, <2>7, <2>8, <2>9, <2>10 DEF TypeOK, opVars, userVars, Op
<1>3. CASE PullBeforePush(d) \/ PullAfterPush(d)
  <2> DEFINE new == {remote[i] : i \in cursor[d] + 1..Len(remote)}
  <2>1. new \subseteq Op /\ Len(remote) \in Nat
    BY <1>1 DEF TypeOK
  <2>2. /\ log' = [log EXCEPT ![d] = log[d] \cup new]
        /\ pushed' = [pushed EXCEPT ![d] = pushed[d] \cup new]
        /\ \/ affected' = [affected EXCEPT ![d] = Entities(batch[d]) \cup Entities(new)]
           \/ affected' = [affected EXCEPT ![d] = affected[d] \cup Entities(new)]
        /\ head' = [head EXCEPT ![d] = Len(remote)]
        /\ UNCHANGED <<remoteVars, cursor, version, libVars, scanVars, batch, todo,
                       userVars>>
    BY <1>3 DEF PullBeforePush, PullAfterPush, Pull, Upserted
  <2>3. pc' \in [Device -> Steps]
    BY <1>1, <1>3 DEF TypeOK, PullBeforePush, PullAfterPush, Pull, Steps
  <2>4. \A ops \in SUBSET Op : Entities(ops) \subseteq Entry
    BY DEF Entities, Op, Log!Op
  <2> HIDE DEF new
  <2>5. affected' \in [Device -> SUBSET Entry]
    <3>1. batch[d] \in SUBSET Op /\ affected[d] \subseteq Entry
      BY <1>1 DEF TypeOK
    <3>2. /\ Entities(batch[d]) \cup Entities(new) \in SUBSET Entry
          /\ affected[d] \cup Entities(new) \in SUBSET Entry
      BY <2>1, <2>4, <3>1
    <3>3. affected \in [Device -> SUBSET Entry]
      BY <1>1 DEF TypeOK
    <3> QED BY <2>2, <3>2, <3>3
  <2>6. log' \in [Device -> SUBSET Op] /\ pushed' \in [Device -> SUBSET Op]
    BY <1>1, <2>1, <2>2 DEF TypeOK
  <2> QED BY <1>1, <2>1, <2>2, <2>3, <2>5, <2>6
          DEF TypeOK, remoteVars, libVars, scanVars, userVars, Op
<1>4. CASE AdvanceCursor(d) \/ MarkPushed(d)
  <2>1. CASE AdvanceCursor(d)
    BY <1>1, <2>1 DEF TypeOK, AdvanceCursor, remoteVars, libVars, scanVars, passVars,
                      userVars, Steps, Op
  <2>2. CASE MarkPushed(d)
    <3>1. pushed' \in [Device -> SUBSET Op] /\ batch' \in [Device -> SUBSET Op]
      BY <1>1, <2>2 DEF TypeOK, MarkPushed
    <3>2. pc' \in [Device -> Steps]
      BY <1>1, <2>2 DEF TypeOK, MarkPushed, Steps
    <3> QED BY <1>1, <2>2, <3>1, <3>2 DEF TypeOK, MarkPushed, remoteVars, libVars,
                                          scanVars, userVars, Op
  <2> QED BY <1>4, <2>1, <2>2
<1>5. CASE MaterializeFirst(d) \/ MaterializeLast(d)
  <2>1. Materialize(d)
    BY <1>5 DEF MaterializeFirst, MaterializeLast
  <2>2. todo' \in [Device -> SUBSET Entry] /\ affected' \in [Device -> SUBSET Entry]
    <3>1. \A rows, locals : NeedHydration(rows, locals) \subseteq Entry
      BY DEF NeedHydration
    <3>2. CASE MaterializeFirst(d)
      BY <1>1, <3>2 DEF TypeOK, MaterializeFirst
    <3>3. CASE MaterializeLast(d)
      BY <1>1, <3>1, <3>3 DEF TypeOK, MaterializeLast
    <3> QED BY <1>5, <3>2, <3>3
  <2>3. pc' \in [Device -> Steps]
    BY <1>1, <1>5 DEF TypeOK, MaterializeFirst, MaterializeLast, Steps
  <2>4. UNCHANGED <<remoteVars, log, pushed, cursor, cache, uploaded, batch, head,
                    userVars>>
    BY <2>1 DEF Materialize
  <2> QED BY <1>1, <2>1, <2>2, <2>3, <2>4, MaterializeTyped
          DEF TypeOK, remoteVars, userVars, Op
<1>6. CASE PushOne(d)
  <2>1. PICK o \in batch[d] : remote' = Append(remote, o)
    BY <1>6 DEF PushOne
  <2>2. remote' \in Seq(Op)
    BY <1>1, <2>1 DEF TypeOK
  <2> QED BY <1>1, <1>6, <2>2 DEF TypeOK, PushOne, opVars, libVars, scanVars, passVars,
                                  userVars, Op
<1> QED BY <1>2, <1>3, <1>4, <1>5, <1>6 DEF Exchange

(* ... and by hydration. *)
LEMMA HydrateTyped ==
  ASSUME IInv, NEW d \in Device, HydrateEntry(d)
  PROVE  TypeOK'
<1>1. TypeOK
  BY DEF IInv
<1>2. PICK e \in todo[d], cached \in SUBSET Entry :
        LET l == Relinked(local[d][e], row[d][e], e \in cached) IN
        /\ cache' = [cache EXCEPT ![d] = cached]
        /\ local' = [local EXCEPT ![d][e] =
             IF Log!OpsFor(log[d], e) = {} THEN l
             ELSE Applied(l, e, WinningPayload(d, e), cached)]
        /\ todo' = [todo EXCEPT ![d] = todo[d] \ {e}]
  <2>1. PICK e \in todo[d], ok \in BOOLEAN :
          LET cached == IF e \in r2 /\ ok THEN cache[d] \cup {e} ELSE cache[d]
              l == Relinked(local[d][e], row[d][e], e \in cached) IN
          /\ cache' = [cache EXCEPT ![d] = cached]
          /\ local' = [local EXCEPT ![d][e] =
               IF Log!OpsFor(log[d], e) = {} THEN l
               ELSE Applied(l, e, WinningPayload(d, e), cached)]
          /\ todo' = [todo EXCEPT ![d] = todo[d] \ {e}]
    BY DEF HydrateEntry
  <2>2. (IF e \in r2 /\ ok THEN cache[d] \cup {e} ELSE cache[d]) \in SUBSET Entry
    BY <1>1 DEF TypeOK
  <2> QED BY <2>1, <2>2
<1> DEFINE l == Relinked(local[d][e], row[d][e], e \in cached)
<1>3. e \in Entry /\ local[d][e] \in LocalRow \cup {None} /\ row[d][e] \in SyncRow
  <2>1. e \in Entry
    BY <1>1, <1>2 DEF TypeOK
  <2>2. row[d][e] # None
    BY DEF IInv, TodoHasRow
  <2> QED BY <1>1, <2>1, <2>2 DEF TypeOK
<1>4. l \in LocalRow
  <2>1. local[d][e] # None =>
          [local[d][e] EXCEPT !.managed = TRUE, !.missing = FALSE] \in LocalRow
    BY <1>3 DEF LocalRow
  <2>2. [meta |-> row[d][e].meta, stamp |-> row[d][e].stamp,
         missing |-> ~(e \in cached), trashed |-> FALSE, managed |-> TRUE] \in LocalRow
    BY <1>3 DEF LocalRow, SyncRow
  <2> QED BY <1>3, <2>1, <2>2, Zenon DEF Relinked
<1> HIDE DEF l
<1>5. (IF Log!OpsFor(log[d], e) = {} THEN l
       ELSE Applied(l, e, WinningPayload(d, e), cached)) \in LocalRow \cup {None}
  BY <1>3, <1>4, AppliedTyped, WinnerTyped
<1>6. local' \in [Device -> [Entry -> LocalRow \cup {None}]]
  BY <1>1, <1>2, <1>3, <1>5 DEF TypeOK, l
<1>7. cache' \in [Device -> SUBSET Entry] /\ todo' \in [Device -> SUBSET Entry]
  BY <1>1, <1>2 DEF TypeOK
<1>8. /\ snapCurrent' \in [Device -> BOOLEAN] /\ scanClean' \in [Device -> BOOLEAN]
      /\ UNCHANGED <<remoteVars, opVars, row, uploaded, pc, batch, affected, head,
                     userVars>>
  BY <1>1 DEF HydrateEntry, Bump, TypeOK
<1> QED BY <1>1, <1>6, <1>7, <1>8 DEF TypeOK, remoteVars, opVars, userVars, Op

(* Every step preserves types. *)
LEMMA StepTyped ==
  ASSUME IInv, [Next]_vars
  PROVE  TypeOK'
<1>1. TypeOK
  BY DEF IInv
<1>2. CASE UNCHANGED vars
  BY <1>1, <1>2 DEF TypeOK, vars, remoteVars, opVars, libVars, scanVars, passVars,
                    userVars, Op
<1>3. ASSUME NEW d \in Device, User(d) PROVE TypeOK'
  BY <1>1, <1>3, UserTyped DEF User
<1>4. ASSUME NEW d \in Device, HydrateDone(d) \/ Interrupt(d) PROVE TypeOK'
  BY <1>1, <1>4 DEF TypeOK, HydrateDone, Interrupt, remoteVars, opVars, libVars,
                    scanVars, passVars, userVars, Steps, Op
<1> QED BY <1>2, <1>3, <1>4, ScanTyped, ExchangeTyped, HydrateTyped DEF Next, Pass
-----------------------------------------------------------------------------
(* A step of one device leaves the tables and the pass of every other alone. *)
LEMMA OthersUntouched ==
  ASSUME TypeOK, NEW d \in Device, User(d) \/ Pass(d) \/ Interrupt(d),
         NEW c \in Device, c # d
  PROVE  /\ pc'[c] = pc[c] /\ pushed'[c] = pushed[c] /\ cursor'[c] = cursor[c]
         /\ head'[c] = head[c] /\ batch'[c] = batch[c] /\ affected'[c] = affected[c]
         /\ todo'[c] = todo[c] /\ row'[c] = row[c] /\ local'[c] = local[c]
         /\ cache'[c] = cache[c] /\ version'[c] = version[c]
         /\ snapCurrent'[c] = snapCurrent[c] /\ scanClean'[c] = scanClean[c]
<1> USE DEF TypeOK, opVars, libVars, scanVars, passVars
<1>1. CASE User(d)
  BY <1>1 DEF User, Import, EditMeta, SetTrashed, Delete, UserChange, Bump
<1>2. CASE SkipScan(d) \/ Seed(d) \/ Preflight(d)
  BY <1>2 DEF SkipScan, Seed, Preflight
<1>3. CASE Prepare(d)
  BY <1>3 DEF Prepare
<1>4. CASE UploadBlobs(d)
  BY <1>4 DEF UploadBlobs, BumpIf, Bump
<1>5. CASE PullBeforePush(d) \/ PullAfterPush(d)
  BY <1>5 DEF PullBeforePush, PullAfterPush, Pull
<1>6. CASE AdvanceCursor(d) \/ PushOne(d) \/ MarkPushed(d)
  BY <1>6 DEF AdvanceCursor, PushOne, MarkPushed
<1>7. CASE MaterializeFirst(d)
  BY <1>7 DEF MaterializeFirst, Materialize, BumpIf, Bump
<1>8. CASE MaterializeLast(d)
  BY <1>8 DEF MaterializeLast, Materialize, BumpIf, Bump
<1>9. CASE HydrateEntry(d)
  BY <1>9 DEF HydrateEntry, Bump
<1>10. CASE HydrateDone(d) \/ Interrupt(d)
  BY <1>10 DEF HydrateDone, Interrupt
<1> QED BY <1>1, <1>2, <1>3, <1>4, <1>5, <1>6, <1>7, <1>8, <1>9, <1>10
        DEF Pass, Scan, Exchange

(* What a step does to the fields of a pass that the safety of the exchange rests  *)
(* on: outside the pulls the steps that pull leaves for are not entered, the       *)
(* cursor moves only to the head, an operation is marked pushed only when the      *)
(* whole batch is published.                                                       *)
LEMMA ExchangeFields ==
  ASSUME TypeOK, NEW d \in Device, User(d) \/ Pass(d) \/ Interrupt(d),
         ~PullBeforePush(d), ~PullAfterPush(d)
  PROVE  /\ pc'[d] \in {"cursor1", "cursor2"} => pc'[d] = pc[d]
         /\ head'[d] = head[d]
         /\ \/ cursor'[d] = cursor[d]
            \/ pc[d] \in {"cursor1", "cursor2"} /\ cursor'[d] = head[d]
         /\ \/ pushed'[d] = pushed[d]
            \/ batch[d] \subseteq Published /\ pushed'[d] = pushed[d] \cup batch[d]
         /\ \/ batch'[d] \subseteq batch[d]
            \/ batch'[d] \subseteq {o \in log[d] : o.dev = d}
         /\ affected'[d] \subseteq affected[d]
<1> USE DEF TypeOK, opVars, libVars, scanVars, passVars
<1>1. CASE User(d)
  BY <1>1 DEF User, Import, EditMeta, SetTrashed, Delete, UserChange
<1>2. CASE SkipScan(d) \/ Seed(d) \/ Preflight(d)
  BY <1>2 DEF SkipScan, Seed, Preflight
<1>3. CASE Prepare(d)
  BY <1>3 DEF Prepare
<1>4. CASE UploadBlobs(d)
  BY <1>4 DEF UploadBlobs, Pending
<1>5. CASE AdvanceCursor(d) \/ PushOne(d) \/ MarkPushed(d)
  BY <1>5 DEF AdvanceCursor, PushOne, MarkPushed
<1>6. CASE MaterializeFirst(d)
  BY <1>6 DEF MaterializeFirst, Materialize
<1>7. CASE MaterializeLast(d)
  BY <1>7 DEF MaterializeLast, Materialize
<1>8. CASE HydrateEntry(d) \/ HydrateDone(d) \/ Interrupt(d)
  BY <1>8 DEF HydrateEntry, HydrateDone, Interrupt
<1> QED BY <1>1, <1>2, <1>3, <1>4, <1>5, <1>6, <1>7, <1>8 DEF Pass, Scan, Exchange

(* What a pull does to them. *)
LEMMA PullFields ==
  ASSUME IInv, NEW d \in Device, PullBeforePush(d) \/ PullAfterPush(d)
  PROVE  /\ head'[d] = Len(remote) /\ cursor'[d] = cursor[d] /\ remote' = remote
         /\ \A i \in 1..Len(remote) : remote[i] \in log'[d]
         /\ pushed'[d] \subseteq pushed[d] \cup Published
         /\ batch'[d] = batch[d]
         /\ \A e \in affected'[d] : \/ e \in affected[d]
                                    \/ \E o \in log'[d] : o.entity = e
<1>1. TypeOK
  BY DEF IInv
<1>2. PICK new \in SUBSET Published :
        /\ new = {remote[i] : i \in cursor[d] + 1..Len(remote)}
        /\ log' = [log EXCEPT ![d] = log[d] \cup new]
        /\ pushed' = [pushed EXCEPT ![d] = pushed[d] \cup new]
        /\ remote' = remote
  BY PullLearns
<1>3. log'[d] = log[d] \cup new /\ pushed'[d] = pushed[d] \cup new
  BY <1>1, <1>2 DEF TypeOK
<1>4. cursor[d] \in Nat /\ Len(remote) \in Nat
  BY <1>1 DEF TypeOK
<1>5. \A i \in 1..Len(remote) : remote[i] \in log'[d]
  <2>1. \A i \in 1..cursor[d] : remote[i] \in log[d]
    BY DEF IInv, CursorCovered
  <2>2. \A i \in cursor[d] + 1..Len(remote) : remote[i] \in new
    BY <1>2
  <2> QED BY <1>3, <1>4, <2>1, <2>2
<1>6. /\ head'[d] = Len(remote) /\ cursor'[d] = cursor[d] /\ batch'[d] = batch[d]
      /\ \/ affected'[d] = Entities(batch[d]) \cup Entities(new)
         \/ affected'[d] = affected[d] \cup Entities(new)
  BY <1>1, <1>2 DEF TypeOK, PullBeforePush, PullAfterPush, Pull
<1>7. batch[d] \subseteq log'[d] /\ new \subseteq log'[d]
  BY <1>3 DEF IInv, BatchIsOwn
<1>8. \A e \in affected'[d] : \/ e \in affected[d]
                              \/ \E o \in log'[d] : o.entity = e
  BY <1>6, <1>7 DEF Entities
<1> QED BY <1>2, <1>3, <1>5, <1>6, <1>8

(* The exchange keeps its invariants. *)
LEMMA ExchangeSafe ==
  ASSUME IInv, [Next]_vars
  PROVE  (CursorCovered /\ HeadCovered /\ PushedIsPublished /\ BatchIsOwn /\ AffectedKnown)'
<1>1. TypeOK
  BY DEF IInv
<1>2. CASE UNCHANGED vars
  BY <1>2 DEF IInv, CursorCovered, HeadCovered, PushedIsPublished, BatchIsOwn,
              AffectedKnown, vars, remoteVars, opVars, passVars, Published, Log!OpsFor
<1>3. ASSUME NEW d \in Device, User(d) \/ Pass(d) \/ Interrupt(d)
      PROVE  (CursorCovered /\ HeadCovered /\ PushedIsPublished /\ BatchIsOwn
              /\ AffectedKnown)'
  <2>1. [Next]_vars
    OBVIOUS
  <2> SUFFICES ASSUME NEW c \in Device
               PROVE  /\ cursor'[c] <= Len(remote')
                      /\ \A i \in 1..cursor'[c] : remote'[i] \in log'[c]
                      /\ pc'[c] \in {"cursor1", "cursor2"} =>
                           /\ head'[c] <= Len(remote')
                           /\ \A i \in 1..head'[c] : remote'[i] \in log'[c]
                      /\ pushed'[c] \subseteq Published'
                      /\ \A o \in batch'[c] : o \in log'[c] /\ o.dev = c
                      /\ \A e \in affected'[c] : \E o \in log'[c] : o.entity = e
    BY DEF CursorCovered, HeadCovered, PushedIsPublished, BatchIsOwn, AffectedKnown,
           Log!OpsFor
  <2>2. /\ log[c] \subseteq log'[c] /\ Published \subseteq Published'
        /\ Len(remote) \in Nat /\ Len(remote') \in Nat /\ Len(remote) <= Len(remote')
        /\ \A i \in 1..Len(remote) : remote'[i] = remote[i]
    BY LogGrows
  <2>3. /\ cursor[c] \in Nat /\ cursor[c] <= Len(remote)
        /\ \A i \in 1..cursor[c] : remote[i] \in log[c]
        /\ head[c] \in Nat
        /\ pc[c] \in {"cursor1", "cursor2"} =>
             /\ head[c] <= Len(remote)
             /\ \A i \in 1..head[c] : remote[i] \in log[c]
        /\ pushed[c] \subseteq Published
        /\ \A o \in batch[c] : o \in log[c] /\ o.dev = c
        /\ \A e \in affected[c] : \E o \in log[c] : o.entity = e
    BY DEF IInv, TypeOK, CursorCovered, HeadCovered, PushedIsPublished, BatchIsOwn,
           AffectedKnown, Log!OpsFor
  <2>4. CASE c # d
    <3>1. /\ pc'[c] = pc[c] /\ pushed'[c] = pushed[c] /\ cursor'[c] = cursor[c]
          /\ head'[c] = head[c] /\ batch'[c] = batch[c] /\ affected'[c] = affected[c]
      BY <1>1, <1>3, <2>4, OthersUntouched
    <3> QED BY <2>2, <2>3, <3>1
  <2>5. CASE c = d /\ (PullBeforePush(d) \/ PullAfterPush(d))
    BY <2>2, <2>3, <2>5, PullFields
  <2>6. CASE c = d /\ ~PullBeforePush(d) /\ ~PullAfterPush(d)
    <3>1. /\ pc'[c] \in {"cursor1", "cursor2"} => pc'[c] = pc[c]
          /\ head'[c] = head[c]
          /\ \/ cursor'[c] = cursor[c]
             \/ pc[c] \in {"cursor1", "cursor2"} /\ cursor'[c] = head[c]
          /\ \/ pushed'[c] = pushed[c]
             \/ batch[c] \subseteq Published /\ pushed'[c] = pushed[c] \cup batch[c]
          /\ \/ batch'[c] \subseteq batch[c]
             \/ batch'[c] \subseteq {o \in log[c] : o.dev = c}
          /\ affected'[c] \subseteq affected[c]
      BY <1>1, <1>3, <2>6, ExchangeFields
    <3>2. /\ cursor'[c] <= Len(remote')
          /\ \A i \in 1..cursor'[c] : remote'[i] \in log'[c]
      BY <2>2, <2>3, <3>1
    <3>3. pc'[c] \in {"cursor1", "cursor2"} =>
            /\ head'[c] <= Len(remote')
            /\ \A i \in 1..head'[c] : remote'[i] \in log'[c]
      BY <2>2, <2>3, <3>1
    <3>4. pushed'[c] \subseteq Published'
      BY <2>2, <2>3, <3>1
    <3>5. /\ \A o \in batch'[c] : o \in log'[c] /\ o.dev = c
          /\ \A e \in affected'[c] : \E o \in log'[c] : o.entity = e
      BY <2>2, <2>3, <3>1
    <3> QED BY <3>2, <3>3, <3>4, <3>5
  <2> QED BY <2>4, <2>5, <2>6
<1> QED BY <1>2, <1>3 DEF Next

(* An operation is appended only once. *)
LEMMA NoDuplicatePreserved ==
  ASSUME IInv, [Next]_vars
  PROVE  NoDuplicatePush'
<1>1. remote \in Seq(Op) /\ NoDuplicatePush
  BY DEF IInv, TypeOK
<1>2. CASE remote' = remote
  BY <1>1, <1>2 DEF NoDuplicatePush
<1>3. ASSUME NEW d \in Device, Prepare(d) PROVE remote' = remote
  BY <1>3 DEF Prepare, remoteVars
<1>4. ASSUME NEW d \in Device, PullBeforePush(d) \/ PullAfterPush(d) PROVE remote' = remote
  BY <1>4, PullLearns
<1>5. ASSUME NEW d \in Device, PushOne(d) PROVE NoDuplicatePush'
  <2>1. PICK o \in Op : o \notin Published /\ remote' = Append(remote, o)
    BY <1>5, PushAppends
  <2>2. \A i \in 1..Len(remote) : remote[i] # o
    BY <2>1 DEF Published
  <2>3. /\ Len(remote') = Len(remote) + 1 /\ Len(remote) \in Nat
        /\ \A i \in 1..Len(remote) : remote'[i] = remote[i]
        /\ remote'[Len(remote) + 1] = o
    BY <1>1, <2>1
  <2> QED BY <1>1, <2>2, <2>3 DEF NoDuplicatePush
<1> QED BY <1>2, <1>3, <1>4, <1>5, StepKinds
-----------------------------------------------------------------------------
(* What a step does to the hydration list and the rows of its device. *)
LEMMA TodoPreserved ==
  ASSUME IInv, [Next]_vars
  PROVE  TodoHasRow'
<1>1. TypeOK /\ TodoHasRow
  BY DEF IInv
<1>2. CASE UNCHANGED vars
  BY <1>1, <1>2 DEF TodoHasRow, vars, passVars, libVars
<1>3. ASSUME NEW d \in Device, User(d) \/ Pass(d) \/ Interrupt(d)
      PROVE  /\ \A e \in todo'[d] : row'[d][e] # None
             /\ pc'[d] # "hydrate" => todo'[d] = {}
  <2>1. /\ \A e \in todo[d] : row[d][e] # None
        /\ pc[d] # "hydrate" => todo[d] = {}
        /\ pc[d] \in Steps
    BY <1>1 DEF TodoHasRow, TypeOK
  <2>2. CASE User(d)
    BY <1>1, <2>1, <2>2 DEF User, Import, EditMeta, SetTrashed, Delete, UserChange, passVars
  <2>3. CASE Seed(d) \/ SkipScan(d) \/ Preflight(d)
    BY <1>1, <2>1, <2>3 DEF SkipScan, Seed, Preflight, libVars, passVars, TypeOK
  <2>4. CASE Prepare(d) \/ HydrateDone(d)
    BY <1>1, <2>1, <2>4 DEF Prepare, HydrateDone, libVars, passVars, TypeOK
  <2>5. CASE UploadBlobs(d) \/ AdvanceCursor(d) \/ PushOne(d) \/ MarkPushed(d)
    BY <1>1, <2>1, <2>5 DEF UploadBlobs, AdvanceCursor, PushOne, MarkPushed, libVars,
                            passVars, TypeOK
  <2>6. CASE PullBeforePush(d) \/ PullAfterPush(d)
    BY <1>1, <2>1, <2>6 DEF PullBeforePush, PullAfterPush, Pull, libVars, TypeOK
  <2>7. CASE MaterializeFirst(d)
    BY <1>1, <2>1, <2>7 DEF MaterializeFirst, TypeOK
  <2>8. CASE MaterializeLast(d)
    <3>1. \/ todo'[d] = {}
          \/ todo'[d] = NeedHydration(row'[d], local'[d]) /\ pc'[d] = "hydrate"
      BY <1>1, <2>8 DEF MaterializeLast, TypeOK
    <3> QED BY <3>1 DEF NeedHydration
  <2>9. CASE HydrateEntry(d)
    <3>1. todo'[d] \subseteq todo[d] /\ row' = row /\ pc' = pc
      BY <1>1, <2>9 DEF HydrateEntry, TypeOK
    <3> QED BY <2>1, <2>9, <3>1 DEF HydrateEntry
  <2>10. CASE Interrupt(d)
    BY <1>1, <2>10 DEF Interrupt, TypeOK
  <2> QED BY <1>3, <2>2, <2>3, <2>4, <2>5, <2>6, <2>7, <2>8, <2>9, <2>10
          DEF Pass, Scan, Exchange
<1>4. ASSUME NEW d \in Device, User(d) \/ Pass(d) \/ Interrupt(d) PROVE TodoHasRow'
  <2> SUFFICES ASSUME NEW c \in Device
               PROVE  /\ \A e \in todo'[c] : row'[c][e] # None
                      /\ pc'[c] # "hydrate" => todo'[c] = {}
    BY DEF TodoHasRow
  <2>1. CASE c = d
    BY <1>3, <1>4, <2>1
  <2>2. CASE c # d
    BY <1>1, <1>4, <2>2, OthersUntouched DEF TodoHasRow
  <2> QED BY <2>1, <2>2
<1> QED BY <1>2, <1>4 DEF Next

(* The rows of a clean scan stay fresh until it records them. *)
LEMMA SeedPreserved ==
  ASSUME IInv, [Next]_vars
  PROVE  SeedFresh'
<1>1. TypeOK /\ SeedFresh
  BY DEF IInv
<1>2. CASE UNCHANGED vars
  BY <1>1, <1>2 DEF SeedFresh, vars, scanVars, libVars
<1>3. ASSUME NEW d \in Device, User(d) \/ Pass(d) \/ Interrupt(d), NEW e \in Entry,
             pc'[d] = "seeded", scanClean'[d], local'[d][e] # None
      PROVE  IsDeleted(row'[d][e]) = local'[d][e].trashed
  <2>1. CASE Seed(d)
    <3>1. row'[d][e] = SeededRow(d, e) /\ local' = local
      BY <1>1, <2>1 DEF Seed, TypeOK
    <3>2. SeededRow(d, e) = [meta |-> local[d][e].meta, stamp |-> local[d][e].stamp,
                             deleted |-> local[d][e].trashed]
      BY <1>3, <3>1 DEF SeededRow
    <3>3. local[d][e] \in LocalRow
      BY <1>1, <1>3, <3>1 DEF TypeOK
    <3>4. SeededRow(d, e) \in SyncRow
      BY <3>2, <3>3 DEF LocalRow, SyncRow
    <3>5. SeededRow(d, e) # None
      BY <3>4, NoneAssumption
    <3>6. IsDeleted(SeededRow(d, e)) = SeededRow(d, e).deleted
      BY <3>5, Zenon DEF IsDeleted
    <3>7. SeededRow(d, e).deleted = local[d][e].trashed
      BY <3>2
    <3> QED BY <3>1, <3>6, <3>7, Zenon
  <2>2. CASE User(d)
    BY <1>1, <1>3, <2>2 DEF User, Import, EditMeta, SetTrashed, Delete, UserChange, Bump,
                            TypeOK
  <2>3. CASE SkipScan(d) \/ Preflight(d) \/ Prepare(d)
    BY <1>1, <1>3, <2>3 DEF SkipScan, Preflight, Prepare, TypeOK
  <2>4. CASE UploadBlobs(d) \/ AdvanceCursor(d) \/ MarkPushed(d) \/ PushOne(d)
    BY <1>1, <1>3, <2>4 DEF UploadBlobs, AdvanceCursor, MarkPushed, PushOne, TypeOK
  <2>5. CASE PullBeforePush(d) \/ PullAfterPush(d)
    BY <1>1, <1>3, <2>5 DEF PullBeforePush, PullAfterPush, Pull, TypeOK
  <2>6. CASE MaterializeFirst(d) \/ MaterializeLast(d)
    BY <1>1, <1>3, <2>6 DEF MaterializeFirst, MaterializeLast, TypeOK
  <2>7. CASE HydrateEntry(d) \/ HydrateDone(d) \/ Interrupt(d)
    BY <1>1, <1>3, <2>7 DEF HydrateEntry, HydrateDone, Interrupt, TypeOK
  <2> QED BY <1>3, <2>1, <2>2, <2>3, <2>4, <2>5, <2>6, <2>7 DEF Pass, Scan, Exchange
<1>4. ASSUME NEW d \in Device, User(d) \/ Pass(d) \/ Interrupt(d) PROVE SeedFresh'
  <2> SUFFICES ASSUME NEW c \in Device, NEW e \in Entry,
                      pc'[c] = "seeded", scanClean'[c], local'[c][e] # None
               PROVE  IsDeleted(row'[c][e]) = local'[c][e].trashed
    BY DEF SeedFresh
  <2>1. CASE c = d
    BY <1>3, <1>4, <2>1
  <2>2. CASE c # d
    <3>1. /\ pc'[c] = pc[c] /\ scanClean'[c] = scanClean[c]
          /\ local'[c] = local[c] /\ row'[c] = row[c]
      BY <1>1, <1>4, <2>2, OthersUntouched
    <3> QED BY <1>1, <3>1 DEF SeedFresh
  <2> QED BY <2>1, <2>2
<1> QED BY <1>2, <1>4 DEF Next

(* A scan that no edit raced records every local entry as it is. *)
LEMMA PrepareRecordsAll ==
  ASSUME IInv, NEW d \in Device, Prepare(d), scanClean[d], NEW e \in Entry,
         local[d][e] # None
  PROVE  version'[d][e] = LivePayload(d, e, local[d][e].trashed)
<1>1. TypeOK /\ SeedFresh
  BY DEF IInv
<1>2. IsDeleted(row[d][e]) = local[d][e].trashed
  BY <1>1 DEF Prepare, SeedFresh
<1>3. local[d][e] \in LocalRow
  BY <1>1 DEF TypeOK
<1>4. Scanned(d, e) = LivePayload(d, e, local[d][e].trashed)
  BY <1>2 DEF Scanned
<1>5. LivePayload(d, e, local[d][e].trashed) # None
  <2>1. LivePayload(d, e, local[d][e].trashed) \in Payload
    BY <1>3 DEF LivePayload, LocalRow, Payload, HasFile
  <2> QED BY <2>1, NoneAssumption
<1>6. version'[d][e] = IF e \in Changed(d) THEN Scanned(d, e) ELSE version[d][e]
  BY <1>1 DEF Prepare, TypeOK
<1> QED BY <1>4, <1>5, <1>6 DEF Changed

(* A step that leaves the marker current leaves every entry as the last scan       *)
(* recorded it.                                                                     *)
LEMMA SnapshotPreserved ==
  ASSUME IInv, [Next]_vars
  PROVE  SnapshotSound'
<1>1. TypeOK /\ SnapshotSound
  BY DEF IInv
<1>2. CASE UNCHANGED vars
  BY <1>1, <1>2 DEF SnapshotSound, LivePayload, HasFile, vars, opVars, libVars, scanVars
<1>3. ASSUME NEW d \in Device, User(d) \/ Pass(d) \/ Interrupt(d), NEW e \in Entry,
             snapCurrent'[d], local'[d][e] # None
      PROVE  version'[d][e] = LivePayload(d, e, local[d][e].trashed)'
  <2> DEFINE Same == /\ snapCurrent[d]' = snapCurrent[d] /\ version[d][e]' = version[d][e]
                     /\ local[d][e]' = local[d][e] /\ cache[d]' = cache[d]
  <2>1. CASE Same
    BY <1>1, <1>3, <2>1 DEF SnapshotSound, LivePayload
  <2>2. CASE User(d)
    BY <1>1, <1>3, <2>2 DEF User, Import, EditMeta, SetTrashed, Delete, UserChange, Bump,
                            TypeOK
  <2>3. CASE SkipScan(d) \/ Seed(d) \/ Preflight(d)
    BY <2>1, <2>3 DEF SkipScan, Seed, Preflight, opVars, libVars, scanVars
  <2>4. CASE Prepare(d)
    <3>1. scanClean[d] /\ local' = local /\ cache' = cache
      BY <1>1, <1>3, <2>4 DEF Prepare, MarkerKept, libVars, TypeOK
    <3>2. version'[d][e] = LivePayload(d, e, local[d][e].trashed)
      BY <1>3, <2>4, <3>1, PrepareRecordsAll
    <3> QED BY <3>1, <3>2 DEF LivePayload
  <2>5. CASE UploadBlobs(d)
    <3> DEFINE ingest == {x \in NeedUpload(d) : HasFile(local[d][x], x, cache[d])}
               relink == {x \in ingest : ~local[d][x].managed}
    <3>1. relink = {} /\ snapCurrent' = snapCurrent
      BY <1>1, <1>3, <2>5 DEF UploadBlobs, BumpIf, Bump, scanVars, TypeOK
    <3>2. cache'[d] = cache[d] \cup ingest /\ version' = version
      BY <1>1, <2>5 DEF UploadBlobs, opVars, TypeOK
    <3>3. local'[d] = [x \in Entry |-> local[d][x]]
      BY <1>1, <2>5, <3>1 DEF UploadBlobs, TypeOK
    <3>4. local'[d][e] = local[d][e]
      BY <3>3
    <3>5. HasFile(local[d][e], e, cache'[d]) = HasFile(local[d][e], e, cache[d])
      BY <3>1, <3>2 DEF HasFile
    <3>6. version[d][e] = LivePayload(d, e, local[d][e].trashed)
      BY <1>1, <1>3, <3>1, <3>4 DEF SnapshotSound
    <3> QED BY <3>2, <3>4, <3>5, <3>6 DEF LivePayload
  <2>6. CASE PullBeforePush(d) \/ PullAfterPush(d)
    BY <2>1, <2>6 DEF PullBeforePush, PullAfterPush, Pull, libVars, scanVars
  <2>7. CASE AdvanceCursor(d) \/ PushOne(d) \/ MarkPushed(d)
    BY <2>1, <2>7 DEF AdvanceCursor, PushOne, MarkPushed, opVars, libVars, scanVars
  <2>8. CASE MaterializeFirst(d) \/ MaterializeLast(d)
    <3>1. Materialize(d)
      BY <2>8 DEF MaterializeFirst, MaterializeLast
    <3>2. /\ snapCurrent' = snapCurrent /\ cache' = cache
          /\ \A x \in affected[d] : local[d][x] = None
      BY <1>1, <1>3, <3>1 DEF Materialize, BumpIf, Bump, scanVars, TypeOK
    <3>3. local'[d][e] = IF e \in affected[d]
                         THEN Applied(local[d][e], e, WinningPayload(d, e), cache[d])
                         ELSE local[d][e]
      BY <1>1, <3>1 DEF Materialize, TypeOK
    <3>4. e \notin affected[d]
      BY <1>3, <3>2, <3>3 DEF Applied
    <3>5. version'[d][e] = version[d][e]
      BY <1>1, <3>1, <3>4 DEF Materialize, Remembered, TypeOK
    <3> QED BY <2>1, <3>2, <3>3, <3>4, <3>5
  <2>9. CASE HydrateEntry(d)
    BY <1>1, <1>3, <2>9 DEF HydrateEntry, Bump, TypeOK
  <2>10. CASE HydrateDone(d) \/ Interrupt(d)
    BY <2>1, <2>10 DEF HydrateDone, Interrupt, opVars, libVars, scanVars
  <2> QED BY <1>3, <2>2, <2>3, <2>4, <2>5, <2>6, <2>7, <2>8, <2>9, <2>10
          DEF Pass, Scan, Exchange
<1>4. ASSUME NEW d \in Device, User(d) \/ Pass(d) \/ Interrupt(d) PROVE SnapshotSound'
  <2> SUFFICES ASSUME NEW c \in Device, NEW e \in Entry,
                      snapCurrent'[c], local'[c][e] # None
               PROVE  version'[c][e] = LivePayload(c, e, local[c][e].trashed)'
    BY DEF SnapshotSound
  <2>1. CASE c = d
    BY <1>3, <1>4, <2>1
  <2>2. CASE c # d
    <3>1. /\ version'[c] = version[c] /\ snapCurrent'[c] = snapCurrent[c]
          /\ local'[c] = local[c] /\ cache'[c] = cache[c]
      BY <1>1, <1>4, <2>2, OthersUntouched
    <3>2. version[c][e] = LivePayload(c, e, local[c][e].trashed)
      BY <1>1, <3>1 DEF SnapshotSound
    <3> QED BY <3>1, <3>2 DEF LivePayload
  <2> QED BY <2>1, <2>2
<1> QED BY <1>2, <1>4 DEF Next
-----------------------------------------------------------------------------
(* The conjuncts together are inductive. *)
LEMMA Inductive == Spec => []IInv
<1>1. Init => IInv
  <2> SUFFICES ASSUME Init PROVE IInv
    OBVIOUS
  <2>1. TypeOK
    BY ConstantsAssumption DEF Init, TypeOK, Steps
  <2>2. Published = {}
    BY DEF Init, Published
  <2>3. Log!IInv
    BY <2>1, <2>2 DEF Init, Published, Log!IInv, Log!TypeOK, Log!OriginKeeps, Op,
                      Log!StampsUnique, Log!AllOps
  <2>4. TimesBounded
    BY <2>2 DEF Init, TimesBounded
  <2>5. CursorCovered /\ HeadCovered /\ PushedIsPublished /\ NoDuplicatePush
    BY DEF Init, CursorCovered, HeadCovered, PushedIsPublished, NoDuplicatePush
  <2>6. BatchIsOwn /\ AffectedKnown /\ TodoHasRow
    BY DEF Init, BatchIsOwn, AffectedKnown, TodoHasRow
  <2>7. SnapshotSound /\ SeedFresh
    BY DEF Init, SnapshotSound, SeedFresh
  <2> QED BY <2>1, <2>3, <2>4, <2>5, <2>6, <2>7 DEF IInv
<1>2. IInv /\ [Next]_vars => IInv'
  <2> SUFFICES ASSUME IInv, [Next]_vars PROVE IInv'
    OBVIOUS
  <2>1. TypeOK' /\ Log!IInv' /\ TimesBounded'
    BY StepTyped, LogPreserved, TimesStayBounded
  <2>2. (CursorCovered /\ HeadCovered /\ PushedIsPublished /\ BatchIsOwn
         /\ AffectedKnown)'
    BY ExchangeSafe
  <2>3. NoDuplicatePush' /\ TodoHasRow' /\ SnapshotSound' /\ SeedFresh'
    BY NoDuplicatePreserved, TodoPreserved, SnapshotPreserved, SeedPreserved
  <2> QED BY <2>1, <2>2, <2>3 DEF IInv
<1> QED BY <1>1, <1>2, PTL DEF Spec

(* Tables, passes and the remote log keep their types. *)
THEOREM TypeCorrect == Spec => []TypeOK
<1>1. IInv => TypeOK
  BY DEF IInv
<1> QED BY <1>1, Inductive, PTL

(* No cursor passes an operation its device does not hold, whatever step of a pass  *)
(* (apply_pulled_crdt_operations) an interruption hits.                              *)
THEOREM CursorNeverSkips == Spec => []CursorCovered
<1>1. IInv => CursorCovered
  BY DEF IInv
<1> QED BY <1>1, Inductive, PTL

(* No operation is marked pushed that the remote log lacks, and none is in it       *)
(* twice, however often a pass is interrupted between insert and marking.            *)
THEOREM PushExactlyOnce == Spec => []PushedOnce
<1>1. IInv => PushedOnce
  BY DEF IInv, PushedOnce
<1> QED BY <1>1, Inductive, PTL

(* A scan that is skipped for a current marker would have found nothing to record,  *)
(* even when edits race the scans (prepare_incremental_local_snapshot).              *)
THEOREM SkippedScanIsEmpty == Spec => []SnapshotSound
<1>1. IInv => SnapshotSound
  BY DEF IInv
<1> QED BY <1>1, Inductive, PTL

(* The sync of a library implements the replicated log: the initial states map to   *)
(* its initial state, every step to a step of it or to a stutter.                   *)
THEOREM SyncImplementsOpLog == Spec => ImplementsOpLog
<1>1. Init => Log!Init
  BY DEF Init, Log!Init
<1>2. IInv /\ [Next]_vars => [Log!Next]_(Log!vars)
  BY StepImplementsOpLog
<1> QED BY <1>1, <1>2, Inductive, PTL DEF Spec, Log!Spec, ImplementsOpLog

(* What holds of the replicated log holds of the sync: stamps are unique, so two    *)
(* devices with the same operations pick the same winner, ...                       *)
THEOREM SyncStampsUnique == Spec => []StampsUnique
<1>1. IInv => StampsUnique
  BY DEF IInv, Log!IInv, StampsUnique
<1> QED BY <1>1, Inductive, PTL

(* ... and no device goes back on the operation it uses for an entry.                *)
THEOREM SyncWinnerAdvances == Spec => WinnerAdvances
BY SyncImplementsOpLog, Log!WinnerNeverRetreats, Zenon DEF WinnerAdvances, ImplementsOpLog

(* An operation that a scan records wins for its entry at once, however the clocks   *)
(* of the devices differ.                                                            *)
THEOREM RecordedEditPrevails == Spec => EditPrevails
<1> DEFINE Prevails == \A d \in Device : \A o \in log'[d] \ log[d] :
                         o.dev = d => Log!IsWinner(o, log'[d], o.entity)
<1>1. IInv /\ [Next]_vars => [Prevails]_vars
  <2> SUFFICES ASSUME IInv, [Next]_vars, NEW d \in Device, NEW o \in log'[d] \ log[d],
                      o.dev = d
               PROVE  Log!IsWinner(o, log'[d], o.entity)
    OBVIOUS
  <2>1. log \in [Device -> SUBSET Op]
    BY DEF IInv, TypeOK
  <2>2. CASE log' = log
    BY <2>2
  <2>3. ASSUME NEW c \in Device, Prepare(c) PROVE Log!IsWinner(o, log'[d], o.entity)
    <3>1. PICK new \in SUBSET Op :
            /\ log' = [log EXCEPT ![c] = log[c] \cup new]
            /\ \A q \in new : q.dev = c /\ \A p \in log[c] : p.time < q.time
            /\ \A q, p \in new : q.time = p.time \/ q.entity = p.entity => q = p
      BY <2>3, PrepareRecords
    <3>2. c = d /\ log'[d] = log[d] \cup new /\ o \in new
      BY <2>1, <3>1
    <3>3. \A p \in log'[d] : p.entity = o.entity => p = o \/ p.time < o.time
      BY <3>1, <3>2
    <3>4. \A p \in log'[d] : p.time \in Nat /\ o.time \in Nat
      BY <2>1, <3>2 DEF Op, Log!Op
    <3> QED BY <3>2, <3>3, <3>4 DEF Log!IsWinner, Log!OpsFor, Log!Beats
  <2>4. ASSUME NEW c \in Device, PullBeforePush(c) \/ PullAfterPush(c)
        PROVE  FALSE
    <3>1. PICK new \in SUBSET Published : log' = [log EXCEPT ![c] = log[c] \cup new]
      BY <2>4, PullLearns
    <3>2. o \in Published
      BY <2>1, <3>1
    <3>3. o \in log[d]
      BY <3>2 DEF IInv, Log!IInv, Log!OriginKeeps, Log!AllOps, Published
    <3> QED BY <3>3
  <2>5. ASSUME NEW c \in Device, PushOne(c) PROVE log' = log
    BY <2>5, PushAppends
  <2> QED BY <2>2, <2>3, <2>4, <2>5, StepKinds
<1> QED BY <1>1, Inductive, PTL DEF Spec, EditPrevails
-----------------------------------------------------------------------------
(* Entry e of device d, as AvailableHasFile sees it: the files are where the rows say they are. *)
FilePresent(l, e, cached) == l # None => l.missing \/ HasFile(l, e, cached)

(* A payload is applied only as far as the file allows (apply_entry_payload_to_local). *)
LEMMA AppliedPresent ==
  ASSUME NEW l \in LocalRow \cup {None}, NEW e, NEW p \in Payload, NEW cached,
         FilePresent(l, e, cached)
  PROVE  FilePresent(Applied(l, e, p, cached), e, cached)
<1>1. CASE p.purged \/ l = None
  BY <1>1 DEF Applied, FilePresent
<1>2. CASE ~ (p.purged \/ l = None)
  <2>1. l \in LocalRow
    BY <1>2
  <2>2. /\ Applied(l, e, p, cached).missing
              = (p.missing \/ (l.missing /\ ~HasFile(l, e, cached)))
        /\ Applied(l, e, p, cached).managed = l.managed
    BY <1>2, <2>1 DEF Applied, LocalRow, Payload, HasFile
  <2> QED BY <1>2, <2>2 DEF FilePresent, HasFile
<1> QED BY <1>1, <1>2

(* What is in the blob cache stays there, so a row that does not change stays right. *)
LEMMA CacheGrows ==
  ASSUME NEW l, NEW e, NEW before, NEW after, before \subseteq after,
         FilePresent(l, e, before)
  PROVE  FilePresent(l, e, after)
  BY DEF FilePresent, HasFile

(* The user's edits keep a row's file. *)
LEMMA UserKeepsFile ==
  ASSUME IInv, AvailableHasFile, NEW d \in Device, User(d)
  PROVE  AvailableHasFile'
<1>1. PICK e \in Entry : \/ Import(d, e) \/ EditMeta(d, e) \/ SetTrashed(d, e)
                          \/ Delete(d, e)
  BY DEF User
<1>2. local \in [Device -> [Entry -> LocalRow \cup {None}]]
  BY DEF IInv, TypeOK
<1>3. cache' = cache
  BY <1>1 DEF Import, EditMeta, SetTrashed, Delete, UserChange
<1> DEFINE Keeps(l) == \/ l = None
                       \/ ~l.managed
                       \/ /\ local[d][e] # None
                          /\ l.missing = local[d][e].missing
                          /\ l.managed = local[d][e].managed
<1>4. PICK l : local' = [local EXCEPT ![d][e] = l] /\ Keeps(l)
  <2>1. CASE Import(d, e)
    <3> DEFINE new == [meta |-> FileMeta, missing |-> FALSE, trashed |-> FALSE,
                       managed |-> FALSE,
                       stamp |-> IF local[d][e] = None THEN d ELSE local[d][e].stamp]
    <3>1. local' = [local EXCEPT ![d][e] = new]
      BY <2>1 DEF Import, UserChange
    <3>2. Keeps(new)
      OBVIOUS
    <3> QED BY <3>1, <3>2
  <2>2. CASE EditMeta(d, e)
    <3>1. PICK m \in Meta : local' = [local EXCEPT ![d][e] = [local[d][e] EXCEPT !.meta = m]]
      BY <2>2 DEF EditMeta, UserChange
    <3> DEFINE new == [local[d][e] EXCEPT !.meta = m]
    <3>2. local[d][e] \in LocalRow /\ local[d][e] # None
      BY <1>2, <2>2 DEF EditMeta
    <3>3. Keeps(new)
      BY <3>2 DEF LocalRow
    <3> QED BY <3>1, <3>3
  <2>3. CASE SetTrashed(d, e)
    <3> DEFINE new == [local[d][e] EXCEPT !.trashed = ~@]
    <3>1. local' = [local EXCEPT ![d][e] = new]
      BY <2>3 DEF SetTrashed, UserChange
    <3>2. local[d][e] \in LocalRow /\ local[d][e] # None
      BY <1>2, <2>3 DEF SetTrashed
    <3>3. Keeps(new)
      BY <3>2 DEF LocalRow
    <3> QED BY <3>1, <3>3
  <2>4. CASE Delete(d, e)
    BY <2>4 DEF Delete, UserChange
  <2> QED BY <1>1, <2>1, <2>2, <2>3, <2>4
<1>5. /\ local'[d][e] = l
      /\ \A x \in Device, f \in Entry :
           <<x, f>> # <<d, e>> => local'[x][f] = local[x][f]
  BY <1>2, <1>4
<1> SUFFICES ASSUME NEW x \in Device, NEW f \in Entry, local'[x][f] # None
             PROVE  local'[x][f].missing \/ HasFile(local'[x][f], f, cache'[x])
  BY DEF AvailableHasFile, HasFile
<1>6. CASE <<x, f>> = <<d, e>>
  BY <1>3, <1>4, <1>5, <1>6 DEF AvailableHasFile, HasFile
<1>7. CASE <<x, f>> # <<d, e>>
  BY <1>3, <1>5, <1>7 DEF AvailableHasFile, HasFile
<1> QED BY <1>6, <1>7

(* A step of the pass that leaves the files and the rows alone, or one that works on *)
(* the rows of its own device.                                                        *)
LEMMA PassKeepsFile ==
  ASSUME IInv, AvailableHasFile, NEW d \in Device, Pass(d)
  PROVE  AvailableHasFile'
<1>1. /\ local \in [Device -> [Entry -> LocalRow \cup {None}]]
      /\ cache \in [Device -> SUBSET Entry]
      /\ affected \in [Device -> SUBSET Entry]
      /\ todo \in [Device -> SUBSET Entry]
      /\ row \in [Device -> [Entry -> SyncRow \cup {None}]]
  BY DEF IInv, TypeOK
<1>2. \A x \in Device, f \in Entry : FilePresent(local[x][f], f, cache[x])
  BY DEF AvailableHasFile, FilePresent
<1>3. CASE UploadBlobs(d)
  <2>1. PICK ingest \in SUBSET Entry, relink \in SUBSET Entry :
          /\ relink \subseteq ingest
          /\ \A f \in relink : local[d][f] # None
          /\ cache' = [cache EXCEPT ![d] = @ \cup ingest]
          /\ local' = [local EXCEPT ![d] = [f \in Entry |->
               IF f \in relink THEN [@[f] EXCEPT !.managed = TRUE, !.missing = FALSE]
               ELSE @[f]]]
    BY <1>3 DEF UploadBlobs, NeedUpload
  <2>2. \A f \in relink : local'[d][f].managed /\ f \in cache'[d]
    <3> TAKE f \in relink
    <3>0. f \in Entry /\ local[d][f] # None
      BY <2>1
    <3>1. local[d][f] \in LocalRow /\ f \in Entry
      BY <1>1, <3>0
    <3>2. local'[d][f] = [local[d][f] EXCEPT !.managed = TRUE, !.missing = FALSE]
      BY <1>1, <2>1, <3>1
    <3>3. local'[d][f].managed
      BY <3>1, <3>2 DEF LocalRow
    <3> QED BY <1>1, <2>1, <3>3
  <2>3. \A x \in Device : cache[x] \subseteq cache'[x]
    BY <1>1, <2>1
  <2>4. \A x \in Device, f \in Entry :
          x # d \/ f \notin relink => local'[x][f] = local[x][f]
    BY <1>1, <2>1
  <2>5. \A x \in Device, f \in Entry : FilePresent(local'[x][f], f, cache'[x])
    BY <1>2, <2>2, <2>3, <2>4 DEF FilePresent, HasFile
  <2> QED BY <2>5 DEF AvailableHasFile, FilePresent, HasFile
<1>4. CASE MaterializeFirst(d) \/ MaterializeLast(d)
  <2>1. /\ cache' = cache
        /\ local' = [local EXCEPT ![d] = [f \in Entry |->
             IF f \in affected[d]
             THEN Applied(@[f], f, WinningPayload(d, f), cache[d]) ELSE @[f]]]
    BY <1>4 DEF MaterializeFirst, MaterializeLast, Materialize
  <2>2. ASSUME NEW f \in affected[d]
        PROVE  FilePresent(Applied(local[d][f], f, WinningPayload(d, f), cache[d]),
                           f, cache[d])
    <3>1. f \in Entry /\ WinningPayload(d, f) \in Payload
      BY <1>1, WinnerTyped DEF IInv, AffectedKnown
    <3>2. local[d][f] \in LocalRow \cup {None}
      BY <1>1, <3>1
    <3> QED BY <1>2, <3>1, <3>2, AppliedPresent
  <2>3. \A x \in Device, f \in Entry : FilePresent(local'[x][f], f, cache'[x])
    BY <1>1, <1>2, <2>1, <2>2
  <2> QED BY <2>3 DEF AvailableHasFile, FilePresent, HasFile
<1>5. CASE HydrateEntry(d)
  <2>1. PICK e \in todo[d], cached \in SUBSET Entry :
          /\ cached \in {cache[d], cache[d] \cup {e}}
          /\ cache' = [cache EXCEPT ![d] = cached]
          /\ local' = [local EXCEPT ![d][e] =
               IF Log!OpsFor(log[d], e) = {}
               THEN Relinked(local[d][e], row[d][e], e \in cached)
               ELSE Applied(Relinked(local[d][e], row[d][e], e \in cached), e,
                            WinningPayload(d, e), cached)]
    <3>1. PICK e \in todo[d], ok \in BOOLEAN :
            LET cached == IF e \in r2 /\ ok THEN cache[d] \cup {e} ELSE cache[d]
                l == Relinked(local[d][e], row[d][e], e \in cached) IN
            /\ cache' = [cache EXCEPT ![d] = cached]
            /\ local' = [local EXCEPT ![d][e] =
                 IF Log!OpsFor(log[d], e) = {} THEN l
                 ELSE Applied(l, e, WinningPayload(d, e), cached)]
      BY <1>5 DEF HydrateEntry
    <3> DEFINE now == IF e \in r2 /\ ok THEN cache[d] \cup {e} ELSE cache[d]
    <3>2. now \in SUBSET Entry /\ now \in {cache[d], cache[d] \cup {e}}
      BY <1>1
    <3> QED BY <3>1, <3>2
  <2> DEFINE l == Relinked(local[d][e], row[d][e], e \in cached)
  <2>2. e \in Entry /\ cache[d] \subseteq cached
    BY <1>1, <2>1
  <2>3. l \in LocalRow \cup {None} /\ FilePresent(l, e, cached)
    <3>1. local[d][e] \in LocalRow \cup {None}
          /\ FilePresent(local[d][e], e, cached)
      BY <1>1, <1>2, <2>2, CacheGrows
    <3>2. row[d][e] \in SyncRow
      BY <1>1, <2>1, <2>2 DEF IInv, TodoHasRow
    <3>3. CASE local[d][e] = None
      <4>1. l = [meta |-> row[d][e].meta, stamp |-> row[d][e].stamp,
                 missing |-> ~(e \in cached), trashed |-> FALSE, managed |-> TRUE]
        BY <3>3 DEF Relinked
      <4>2. [meta |-> row[d][e].meta, stamp |-> row[d][e].stamp,
             missing |-> ~(e \in cached), trashed |-> FALSE, managed |-> TRUE] \in LocalRow
        BY <3>2 DEF LocalRow, SyncRow
      <4> HIDE DEF l
      <4>3. l.missing = ~(e \in cached) /\ l \in LocalRow
        BY <4>1, <4>2
      <4> QED BY <4>3 DEF FilePresent, HasFile
    <3>4. CASE /\ local[d][e] # None /\ e \in cached
               /\ local[d][e].missing \/ ~local[d][e].managed
      <4>1. l = [local[d][e] EXCEPT !.managed = TRUE, !.missing = FALSE]
        BY <3>4 DEF Relinked
      <4>2. local[d][e] \in LocalRow
        BY <3>1, <3>4
      <4>3. [local[d][e] EXCEPT !.managed = TRUE, !.missing = FALSE] \in LocalRow
        BY <4>2 DEF LocalRow
      <4> HIDE DEF l
      <4>4. l \in LocalRow
        BY <4>1, <4>3
      <4> QED BY <3>4, <4>4 DEF FilePresent, HasFile
    <3>5. CASE /\ local[d][e] # None
               /\ ~ (e \in cached /\ (local[d][e].missing \/ ~local[d][e].managed))
      <4>1. l = local[d][e]
        BY <3>5 DEF Relinked
      <4> QED BY <3>1, <4>1
    <3> QED BY <3>3, <3>4, <3>5
  <2> HIDE DEF l
  <2>4. FilePresent(local'[d][e], e, cached)
    <3>1. CASE Log!OpsFor(log[d], e) = {}
      BY <1>1, <2>1, <2>2, <2>3, <3>1 DEF l
    <3>2. CASE Log!OpsFor(log[d], e) # {}
      <4>1. WinningPayload(d, e) \in Payload
        BY <2>2, <3>2, WinnerTyped
      <4>2. FilePresent(Applied(l, e, WinningPayload(d, e), cached), e, cached)
        BY <2>3, <4>1, AppliedPresent
      <4>3. local'[d][e] = Applied(l, e, WinningPayload(d, e), cached)
        BY <1>1, <2>1, <2>2, <3>2 DEF l
      <4> QED BY <4>2, <4>3
    <3> QED BY <3>1, <3>2
  <2>5. \A x \in Device : cache[x] \subseteq cache'[x]
    BY <1>1, <2>1, <2>2
  <2>6. \A x \in Device, f \in Entry :
          <<x, f>> # <<d, e>> => local'[x][f] = local[x][f]
    BY <1>1, <2>1, <2>2
  <2>7. cache'[d] = cached
    BY <1>1, <2>1
  <2>8. \A x \in Device, f \in Entry : FilePresent(local'[x][f], f, cache'[x])
    <3> TAKE x \in Device, f \in Entry
    <3>1. CASE <<x, f>> = <<d, e>>
      BY <2>4, <2>7, <3>1
    <3>2. CASE <<x, f>> # <<d, e>>
      BY <1>2, <2>5, <2>6, <3>2, CacheGrows
    <3> QED BY <3>1, <3>2
  <2> QED BY <2>8 DEF AvailableHasFile, FilePresent, HasFile
<1>6. CASE UNCHANGED <<local, cache>>
  BY <1>6 DEF AvailableHasFile, HasFile
<1>7. \/ UploadBlobs(d) \/ MaterializeFirst(d) \/ MaterializeLast(d) \/ HydrateEntry(d)
      \/ UNCHANGED <<local, cache>>
  <2>1. CASE Scan(d)
    BY <2>1 DEF Scan, SkipScan, Seed, Prepare, Preflight, libVars
  <2>2. CASE Exchange(d)
    BY <2>2 DEF Exchange, PullBeforePush, PullAfterPush, Pull, AdvanceCursor, PushOne,
                MarkPushed, libVars
  <2>3. CASE HydrateDone(d)
    BY <2>3 DEF HydrateDone, libVars
  <2> QED BY <2>1, <2>2, <2>3 DEF Pass
<1> QED BY <1>3, <1>4, <1>5, <1>6, <1>7

(* An entry that a library shows as available has its PDF on the device, whatever    *)
(* transfers fail and whatever other devices report of it.                            *)
THEOREM AvailableEntriesHaveFiles == Spec => []AvailableHasFile
<1>1. Init => AvailableHasFile
  BY DEF Init, AvailableHasFile
<1>2. IInv /\ AvailableHasFile /\ [Next]_vars => AvailableHasFile'
  <2> SUFFICES ASSUME IInv, AvailableHasFile, [Next]_vars PROVE AvailableHasFile'
    OBVIOUS
  <2>1. CASE UNCHANGED vars
    BY <2>1 DEF vars, libVars, AvailableHasFile, HasFile
  <2>2. ASSUME NEW d \in Device, Interrupt(d) PROVE AvailableHasFile'
    BY <2>2 DEF Interrupt, libVars, AvailableHasFile, HasFile
  <2> QED BY <2>1, <2>2, UserKeepsFile, PassKeepsFile DEF Next
<1> QED BY <1>1, <1>2, Inductive, PTL DEF Spec

------------------------------------------------------------------------------

(* Where something does not happen: what the sync does well only as long as passes are *)
(* not interrupted, PDFs not trashed early, and so on. That these conditions are needed  *)
(* is what the runs show that expect a violation.                                       *)

Never(events) == allowed \cap events = {}

(* What may happen in a behaviour is settled at its start, and what users deleted stays so. *)
LEMMA EventsSettled ==
  ASSUME [Next]_vars
  PROVE  allowed' = allowed /\ discarded \subseteq discarded'
<1>1. CASE UNCHANGED vars
  BY <1>1 DEF vars, userVars
<1>2. ASSUME NEW d \in Device, User(d) PROVE allowed' = allowed /\ discarded \subseteq discarded'
  BY <1>2 DEF User, Import, EditMeta, SetTrashed, Delete, UserChange
<1>3. ASSUME NEW d \in Device, \/ SkipScan(d) \/ Seed(d) \/ Prepare(d) \/ Preflight(d)
                               \/ UploadBlobs(d)
      PROVE  allowed' = allowed /\ discarded' = discarded
  BY <1>3 DEF SkipScan, Seed, Prepare, Preflight, UploadBlobs, userVars
<1>4. ASSUME NEW d \in Device, \/ PullBeforePush(d) \/ PullAfterPush(d) \/ AdvanceCursor(d)
                               \/ PushOne(d) \/ MarkPushed(d)
      PROVE  allowed' = allowed /\ discarded' = discarded
  BY <1>4 DEF PullBeforePush, PullAfterPush, Pull, AdvanceCursor, PushOne, MarkPushed, userVars
<1>5. ASSUME NEW d \in Device, MaterializeFirst(d) \/ MaterializeLast(d)
      PROVE  allowed' = allowed /\ discarded' = discarded
  BY <1>5 DEF MaterializeFirst, MaterializeLast, Materialize, userVars
<1>6. ASSUME NEW d \in Device, HydrateEntry(d) \/ HydrateDone(d) \/ Interrupt(d)
      PROVE  allowed' = allowed /\ discarded' = discarded
  BY <1>6 DEF HydrateEntry, HydrateDone, Interrupt, userVars
<1> QED BY <1>1, <1>2, <1>3, <1>4, <1>5, <1>6 DEF Next, Pass, Scan, Exchange

(* A step of a device changes no other device's log. *)
LEMMA OtherLogs ==
  ASSUME IInv, NEW d \in Device, User(d) \/ Pass(d) \/ Interrupt(d), NEW c \in Device, c # d
  PROVE  log'[c] = log[c]
<1>1. log \in [Device -> SUBSET Op]
  BY DEF IInv, TypeOK
<1>2. CASE Prepare(d)
  BY <1>1, <1>2, PrepareRecords
<1>3. CASE PullBeforePush(d) \/ PullAfterPush(d)
  BY <1>1, <1>3, PullLearns
<1>4. CASE User(d)
  BY <1>4 DEF User, Import, EditMeta, SetTrashed, Delete, UserChange, opVars
<1>5. CASE \/ SkipScan(d) \/ Seed(d) \/ Preflight(d) \/ UploadBlobs(d) \/ AdvanceCursor(d)
           \/ PushOne(d) \/ MarkPushed(d)
  BY <1>5 DEF SkipScan, Seed, Preflight, UploadBlobs, AdvanceCursor, PushOne, MarkPushed, opVars
<1>6. CASE \/ MaterializeFirst(d) \/ MaterializeLast(d) \/ HydrateEntry(d) \/ HydrateDone(d)
           \/ Interrupt(d)
  BY <1>6 DEF MaterializeFirst, MaterializeLast, Materialize, HydrateEntry, HydrateDone,
              Interrupt, opVars
<1> QED BY <1>2, <1>3, <1>4, <1>5, <1>6 DEF Pass, Scan, Exchange

(* The operation a device uses for an entry is in its log. *)
LEMMA WinnerKnown ==
  ASSUME IInv, NEW d \in Device, NEW e \in Entry, Log!OpsFor(log[d], e) # {}
  PROVE  \E o \in log[d] : o.entity = e /\ WinningPayload(d, e) = o.payload
<1>1. Log!IsWinner(Log!Winner(log[d], e), log[d], e)
  BY WinnerTyped
<1> QED BY <1>1 DEF Log!IsWinner, Log!OpsFor, WinningPayload
-----------------------------------------------------------------------------
Known(d, e) == Log!OpsFor(log[d], e) # {}

(* The upload relinks entries, and neither adds, removes nor trashes one. *)
LEMMA UploadOne ==
  ASSUME IInv, NEW d \in Device, UploadBlobs(d), NEW e \in Entry
  PROVE  /\ log' = log /\ row' = row
         /\ local'[d][e] = None <=> local[d][e] = None
         /\ local[d][e] # None => local'[d][e].trashed = local[d][e].trashed
<1>1. TypeOK /\ local[d][e] \in LocalRow \cup {None}
  BY DEF IInv, TypeOK
<1> DEFINE here == [local[d][e] EXCEPT !.managed = TRUE, !.missing = FALSE]
<1>2. local'[d][e] = local[d][e] \/ (local[d][e] # None /\ local'[d][e] = here)
  BY <1>1 DEF UploadBlobs, NeedUpload, TypeOK
<1>3. local[d][e] \in LocalRow => here \in LocalRow /\ here.trashed = local[d][e].trashed
  BY DEF LocalRow
<1> HIDE DEF here
<1>4. log' = log /\ row' = row
  BY DEF UploadBlobs, opVars
<1> QED BY <1>1, <1>2, <1>3, <1>4, NoneAssumption

(* Hydration leaves the entry alone, or it has what wins, or what was there. *)
LEMMA HydrateOne ==
  ASSUME IInv, NEW d \in Device, HydrateEntry(d), NEW e \in Entry
  PROVE  /\ log' = log /\ row' = row /\ pc' = pc /\ pc[d] = "hydrate"
         /\ \/ local'[d][e] = local[d][e] /\ (e \in todo[d] => e \in todo'[d])
            \/ Known(d, e) /\ WinningPayload(d, e).purged /\ local'[d][e] = None
            \/ /\ Known(d, e) /\ ~WinningPayload(d, e).purged
               /\ local'[d][e] # None
               /\ local'[d][e].trashed => WinningPayload(d, e).deleted
            \/ /\ local'[d][e] # None
               /\ local'[d][e].trashed => local[d][e] # None /\ local[d][e].trashed
<1>1. TypeOK
  BY DEF IInv
<1>2. log' = log /\ row' = row /\ pc' = pc /\ pc[d] = "hydrate"
  BY DEF HydrateEntry, opVars
<1>3. PICK x \in todo[d], cached \in SUBSET Entry :
        LET l == Relinked(local[d][x], row[d][x], x \in cached) IN
        /\ local' = [local EXCEPT ![d][x] =
             IF Log!OpsFor(log[d], x) = {} THEN l
             ELSE Applied(l, x, WinningPayload(d, x), cached)]
        /\ todo' = [todo EXCEPT ![d] = todo[d] \ {x}]
  <2>1. PICK x \in todo[d], ok \in BOOLEAN :
          LET cached == IF x \in r2 /\ ok THEN cache[d] \cup {x} ELSE cache[d]
              l == Relinked(local[d][x], row[d][x], x \in cached) IN
          /\ local' = [local EXCEPT ![d][x] =
               IF Log!OpsFor(log[d], x) = {} THEN l
               ELSE Applied(l, x, WinningPayload(d, x), cached)]
          /\ todo' = [todo EXCEPT ![d] = todo[d] \ {x}]
    BY Zenon DEF HydrateEntry
  <2>2. x \in Entry /\ cache[d] \subseteq Entry
    BY <1>1 DEF TypeOK
  <2>3. (IF x \in r2 /\ ok THEN cache[d] \cup {x} ELSE cache[d]) \in SUBSET Entry
    BY <2>2
  <2> QED BY <2>1, <2>3
<1>4. CASE x # e
  BY <1>1, <1>2, <1>3, <1>4 DEF TypeOK
<1>5. CASE x = e
  <2> DEFINE l == Relinked(local[d][e], row[d][e], e \in cached)
             p == WinningPayload(d, e)
             k == Applied(l, e, p, cached)
  <2>1. local[d][e] \in LocalRow \cup {None} /\ row[d][e] \in SyncRow
    BY <1>1, <1>3, <1>5 DEF IInv, TodoHasRow, TypeOK
  <2>2. l \in LocalRow /\ (l.trashed => local[d][e] # None /\ local[d][e].trashed)
    <3>1. CASE local[d][e] = None
      BY <2>1, <3>1 DEF Relinked, LocalRow, SyncRow
    <3>2. CASE local[d][e] # None
      <4> DEFINE here == [local[d][e] EXCEPT !.managed = TRUE, !.missing = FALSE]
      <4>1. here \in LocalRow /\ here.trashed = local[d][e].trashed
        BY <2>1, <3>2 DEF LocalRow
      <4>2. l \in {here, local[d][e]}
        BY <3>2 DEF Relinked
      <4> HIDE DEF l, here
      <4> QED BY <2>1, <3>2, <4>1, <4>2
    <3> QED BY <3>1, <3>2
  <2>3. local'[d][e] = IF Known(d, e) THEN k ELSE l
    BY <1>1, <1>3, <1>5 DEF TypeOK, Known
  <2> HIDE DEF l
  <2>4. Known(d, e) => p \in Payload
    BY WinnerTyped DEF Known
  <2>5. Known(d, e) => \/ p.purged /\ k = None
                       \/ ~p.purged /\ k \in LocalRow /\ k.trashed = p.deleted
    <3> HIDE DEF p
    <3> QED BY <2>2, <2>4, NoneAssumption DEF Applied, LocalRow, Payload, HasFile
  <2> HIDE DEF p, k
  <2>6. \/ ~Known(d, e) /\ local'[d][e] = l
        \/ Known(d, e) /\ p.purged /\ local'[d][e] = None
        \/ /\ Known(d, e) /\ ~p.purged /\ local'[d][e] \in LocalRow
           /\ local'[d][e].trashed => p.deleted
    BY <2>3, <2>5
  <2>7. l # None
    BY <2>2, NoneAssumption
  <2>8. local'[d][e] \in LocalRow => local'[d][e] # None
    BY NoneAssumption
  <2> QED BY <1>2, <2>2, <2>6, <2>7, <2>8 DEF p
<1> QED BY <1>4, <1>5
-----------------------------------------------------------------------------
(* The entry is in the trash, or deleted, as far as the device knows. *)
TrashSeenAt(d, e) ==
  \/ \E o \in log[d] : o.entity = e /\ o.payload.deleted
  \/ row[d][e] # None /\ row[d][e].deleted
  \/ local[d][e] # None /\ local[d][e].trashed

Everywhere(e) == \A d \in Device : local[d][e] # None

(* What a device knows to be in the trash every device has, unless a user gave it up.       *)
TrashHeld ==
  \A d \in Device, e \in Entry : TrashSeenAt(d, e) => e \in discarded \/ Everywhere(e)

(* A live row has its entry, but for what a pass has still to hydrate. *)
LiveRowHeld(d, e) ==
  (local[d][e] = None /\ row[d][e] # None /\ ~row[d][e].deleted) =>
    \/ e \in discarded
    \/ affected[d] # {} /\ pc[d] \in {"push", "pull2", "cursor2", "materialize2"}
    \/ pc[d] = "hydrate" /\ e \in todo[d]

PurgeHeld ==
  TrashHeld /\ (\A d \in Device, e \in Entry : LiveRowHeld(d, e)) /\ NoSpuriousPurge

PurgeCalm == Never({"interrupt", "early_trash"})

(* What a step must leave true of an entry on the device that takes it. *)
PurgeStep(d, e) ==
  /\ TrashSeenAt(d, e)' => Everywhere(e) \/ \E c \in Device : TrashSeenAt(c, e)
  /\ local[d][e] # None => local'[d][e] # None
  /\ LiveRowHeld(d, e)'
  /\ \A o \in log'[d] : o.entity = e => ~o.payload.purged

LEMMA PurgeStepHolds ==
  ASSUME IInv, PurgeHeld, PurgeCalm, NEW d \in Device, User(d) \/ Pass(d),
         NEW e \in Entry, e \notin discarded'
  PROVE  PurgeStep(d, e)
<1>1. TypeOK /\ log \in [Device -> SUBSET Op]
  BY DEF IInv, TypeOK
<1>2. e \notin discarded
  BY EventsSettled DEF Next
<1>3. /\ TrashSeenAt(d, e) => Everywhere(e)
      /\ LiveRowHeld(d, e)
      /\ \A c \in Device : \A o \in log[c] : o.entity = e => ~o.payload.purged
  BY <1>2 DEF PurgeHeld, TrashHeld, NoSpuriousPurge
<1>4. CASE \/ SkipScan(d) \/ Preflight(d) \/ AdvanceCursor(d) \/ PushOne(d) \/ MarkPushed(d)
           \/ HydrateDone(d)
  <2>1. /\ log' = log /\ row' = row /\ local' = local /\ discarded' = discarded
        /\ affected' = affected /\ todo' = todo
    BY <1>4 DEF SkipScan, Preflight, AdvanceCursor, PushOne, MarkPushed, HydrateDone,
                opVars, libVars, passVars, userVars
  <2>2. /\ pc[d] = "hydrate" => pc'[d] = "hydrate" \/ todo[d] = {}
        /\ pc[d] \in {"push", "pull2", "cursor2", "materialize2"} =>
             pc'[d] \in {"push", "pull2", "cursor2", "materialize2"}
    BY <1>1, <1>4 DEF SkipScan, Preflight, AdvanceCursor, PushOne, MarkPushed, HydrateDone,
                      TypeOK
  <2>3. LiveRowHeld(d, e)'
    BY <1>2, <1>3, <2>1, <2>2 DEF LiveRowHeld
  <2>4. TrashSeenAt(d, e)' = TrashSeenAt(d, e)
    BY <2>1 DEF TrashSeenAt
  <2> QED BY <1>3, <2>1, <2>3, <2>4 DEF PurgeStep
<1>5. CASE UploadBlobs(d)
  <2>1. log' = log /\ row' = row /\ pc[d] = "upload"
    BY <1>5, UploadOne DEF UploadBlobs
  <2>2. /\ local[d][e] = None <=> local'[d][e] = None
        /\ local[d][e] # None => local'[d][e].trashed = local[d][e].trashed
    BY <1>5, UploadOne
  <2>3. LiveRowHeld(d, e)'
    BY <1>2, <1>3, <2>1, <2>2 DEF LiveRowHeld
  <2>4. TrashSeenAt(d, e)' => TrashSeenAt(d, e)
    BY <2>1, <2>2 DEF TrashSeenAt
  <2> QED BY <1>3, <2>1, <2>2, <2>3, <2>4 DEF PurgeStep
<1>6. CASE PullBeforePush(d) \/ PullAfterPush(d)
  <2>1. PICK new \in SUBSET Published : log' = [log EXCEPT ![d] = log[d] \cup new]
    BY <1>6, PullLearns
  <2>2. \A o \in log'[d] : \E c \in Device : o \in log[c]
    BY <1>1, <2>1 DEF IInv, Log!IInv, Log!OriginKeeps, Log!AllOps, Published, Op, Log!Op,
                      Log!TypeOK
  <2>3. row' = row /\ local' = local /\ todo' = todo
    BY <1>6 DEF PullBeforePush, PullAfterPush, Pull, libVars
  <2>4. LiveRowHeld(d, e)'
    <3>1. \/ pc[d] = "pull1"
          \/ pc[d] = "pull2" /\ pc'[d] = "cursor2" /\ affected[d] \subseteq affected'[d]
      <4>1. CASE PullBeforePush(d)
        BY <4>1 DEF PullBeforePush, Pull
      <4>2. CASE PullAfterPush(d)
        <5>1. affected' = [affected EXCEPT ![d] = affected[d] \cup
                             Entities({remote[i] : i \in cursor[d] + 1..Len(remote)})]
          BY <4>2 DEF PullAfterPush, Pull
        <5>2. affected[d] \subseteq affected'[d]
          BY <1>1, <5>1 DEF TypeOK
        <5> QED BY <1>1, <4>2, <5>2 DEF PullAfterPush, Pull, TypeOK
      <4> QED BY <1>6, <4>1, <4>2
    <3>2. CASE pc[d] = "pull1"
      BY <1>2, <1>3, <2>3, <3>2 DEF LiveRowHeld
    <3>3. CASE pc[d] = "pull2" /\ pc'[d] = "cursor2" /\ affected[d] \subseteq affected'[d]
      BY <1>2, <1>3, <2>3, <3>3 DEF LiveRowHeld
    <3> QED BY <3>1, <3>2, <3>3
  <2>5. TrashSeenAt(d, e)' => \E c \in Device : TrashSeenAt(c, e)
    BY <2>2, <2>3 DEF TrashSeenAt
  <2> QED BY <1>3, <2>2, <2>3, <2>4, <2>5 DEF PurgeStep
<1>7. CASE User(d)
  <2>1. /\ log' = log /\ row' = row /\ affected' = affected /\ pc' = pc /\ todo' = todo
    BY <1>7 DEF User, Import, EditMeta, SetTrashed, Delete, UserChange, opVars, passVars
  <2>2. /\ local'[d][e] = None => local[d][e] = None
        /\ local[d][e] # None => local'[d][e] # None
        /\ \/ local'[d][e] # None => ~local'[d][e].trashed
           \/ /\ local[d][e] # None /\ local'[d][e] # None
              /\ local'[d][e].trashed = local[d][e].trashed
           \/ Everywhere(e)
    <3>1. PICK x \in Entry : Import(d, x) \/ EditMeta(d, x) \/ SetTrashed(d, x) \/ Delete(d, x)
      BY <1>7 DEF User
    <3>2. CASE x # e
      BY <1>1, <3>1, <3>2 DEF Import, EditMeta, SetTrashed, Delete, UserChange, TypeOK
    <3>3. ASSUME NEW l, UserChange(d, e, l) PROVE local'[d][e] = l
      BY <1>1, <3>3 DEF UserChange, TypeOK
    <3>4. local[d][e] \in LocalRow \cup {None}
      BY <1>1 DEF TypeOK
    <3>5. CASE Import(d, e)
      <4> DEFINE l == [meta |-> FileMeta, missing |-> FALSE, trashed |-> FALSE,
                       managed |-> FALSE,
                       stamp |-> IF local[d][e] = None THEN d ELSE local[d][e].stamp]
      <4>1. l \in LocalRow /\ ~l.trashed
        BY <3>4, ConstantsAssumption DEF LocalRow
      <4> HIDE DEF l
      <4>2. UserChange(d, e, l)
        BY <3>5 DEF Import, l
      <4> QED BY <3>3, <4>1, <4>2, NoneAssumption
    <3>6. CASE EditMeta(d, e)
      <4>1. PICK m \in Meta : UserChange(d, e, [local[d][e] EXCEPT !.meta = m])
        BY <3>6 DEF EditMeta
      <4> DEFINE l == [local[d][e] EXCEPT !.meta = m]
      <4>2. local[d][e] \in LocalRow
        BY <3>4, <3>6 DEF EditMeta
      <4>3. l \in LocalRow /\ l.trashed = local[d][e].trashed
        BY <4>2 DEF LocalRow
      <4>4. UserChange(d, e, l)
        BY <4>1
      <4> HIDE DEF l
      <4> QED BY <3>3, <4>2, <4>3, <4>4, NoneAssumption
    <3>7. CASE SetTrashed(d, e)
      <4> DEFINE l == [local[d][e] EXCEPT !.trashed = ~@]
      <4>1. Everywhere(e) /\ local[d][e] # None
        BY <3>7 DEF SetTrashed, PurgeCalm, Never, Everywhere
      <4>2. l \in LocalRow
        BY <3>4, <4>1 DEF LocalRow
      <4>3. UserChange(d, e, l)
        BY <3>7 DEF SetTrashed
      <4> HIDE DEF l
      <4> QED BY <3>3, <4>1, <4>2, <4>3, NoneAssumption
    <3>8. CASE Delete(d, e)
      BY <3>8 DEF Delete
    <3> QED BY <3>1, <3>2, <3>5, <3>6, <3>7, <3>8
  <2>3. LiveRowHeld(d, e)'
    BY <1>2, <1>3, <2>1, <2>2 DEF LiveRowHeld
  <2>4. TrashSeenAt(d, e)' => TrashSeenAt(d, e) \/ Everywhere(e)
    BY <2>1, <2>2 DEF TrashSeenAt
  <2> QED BY <1>3, <2>1, <2>2, <2>3, <2>4 DEF PurgeStep
<1>8. CASE Seed(d)
  <2>1. /\ log' = log /\ local' = local /\ row'[d][e] = SeededRow(d, e)
        /\ pc[d] = "idle" /\ pc'[d] = "seeded"
    BY <1>1, <1>8 DEF Seed, opVars, TypeOK
  <2>2. local[d][e] = None /\ row[d][e] # None => row[d][e].deleted
    BY <1>2, <1>3, <2>1 DEF LiveRowHeld
  <2>3. /\ local[d][e] = None => row'[d][e] = row[d][e]
        /\ local[d][e] # None => row'[d][e].deleted = local[d][e].trashed
    <3>1. ASSUME local[d][e] = None PROVE row'[d][e] = row[d][e]
      BY <2>1, <2>2, <3>1, Zenon DEF SeededRow, IsDeleted
    <3>2. ASSUME local[d][e] # None
          PROVE  row'[d][e] = [meta |-> local[d][e].meta, stamp |-> local[d][e].stamp,
                               deleted |-> local[d][e].trashed]
      BY <2>1, <3>2, Zenon DEF SeededRow
    <3> QED BY <3>1, <3>2
  <2>4. LiveRowHeld(d, e)'
    BY <2>1, <2>2, <2>3 DEF LiveRowHeld
  <2>5. TrashSeenAt(d, e)' => TrashSeenAt(d, e)
    BY <2>1, <2>3 DEF TrashSeenAt
  <2> QED BY <1>3, <2>1, <2>4, <2>5 DEF PurgeStep
<1>9. CASE Prepare(d)
  <2>1. /\ row' = row /\ local' = local /\ pc[d] = "seeded" /\ pc'[d] = "preflight"
    BY <1>1, <1>9 DEF Prepare, libVars, TypeOK
  <2>2. \A o \in log'[d] : o \in log[d] \/ o.payload = Scanned(d, o.entity)
    BY <1>1, <1>9 DEF Prepare
  <2>3. Scanned(d, e) # None =>
          /\ Scanned(d, e).deleted => TrashSeenAt(d, e)
          /\ ~Scanned(d, e).purged
    <3>1. CASE local[d][e] # None
      BY <3>1 DEF Scanned, LivePayload, IsDeleted, TrashSeenAt
    <3>2. CASE local[d][e] = None
      <4>1. ~TrashSeenAt(d, e)
        BY <1>3, <3>2 DEF Everywhere
      <4>2. Scanned(d, e) = None
        BY <3>2, <4>1 DEF Scanned, IsDeleted, TrashSeenAt
      <4> QED BY <4>2
    <3> QED BY <3>1, <3>2
  <2>4. \A o \in log'[d] : o.entity = e =>
          o \in log[d] \/ (o.payload = Scanned(d, e) /\ o.payload # None)
    <3>1. log'[d] \subseteq Op
      BY <1>1, <1>9, PrepareRecords
    <3>2. \A o \in Op : o.payload # None
      BY NoneAssumption DEF Op, Log!Op
    <3> QED BY <2>2, <3>1, <3>2
  <2>5. LiveRowHeld(d, e)'
    BY <1>2, <1>3, <2>1 DEF LiveRowHeld
  <2>6. TrashSeenAt(d, e)' => TrashSeenAt(d, e)
    BY <2>1, <2>3, <2>4 DEF TrashSeenAt
  <2>7. \A o \in log'[d] : o.entity = e => ~o.payload.purged
    BY <1>3, <2>3, <2>4
  <2> QED BY <1>3, <2>1, <2>5, <2>6, <2>7 DEF PurgeStep
<1>10. CASE MaterializeFirst(d) \/ MaterializeLast(d)
  <2>1. Materialize(d) /\ log' = log
    BY <1>10 DEF MaterializeFirst, MaterializeLast, Materialize
  <2>2. row'[d][e] = IF e \in affected[d] THEN RowOf(WinningPayload(d, e)) ELSE row[d][e]
    BY <1>1, <2>1 DEF Materialize, TypeOK
  <2>3. local'[d][e] = IF e \in affected[d]
                       THEN Applied(local[d][e], e, WinningPayload(d, e), cache[d])
                       ELSE local[d][e]
    BY <1>1, <2>1 DEF Materialize, TypeOK
  <2>4. e \in affected[d] =>
          \E o \in log[d] : o.entity = e /\ WinningPayload(d, e) = o.payload
    BY WinnerKnown DEF IInv, AffectedKnown
  <2>5. e \in affected[d] => /\ ~WinningPayload(d, e).purged
                             /\ WinningPayload(d, e).deleted => TrashSeenAt(d, e)
    BY <1>3, <2>4 DEF TrashSeenAt
  <2>6. /\ local[d][e] = None <=> local'[d][e] = None
        /\ local'[d][e] # None /\ local'[d][e].trashed => TrashSeenAt(d, e)
    <3>1. local[d][e] \in LocalRow \cup {None}
      BY <1>1 DEF TypeOK
    <3>2. e \in affected[d] => WinningPayload(d, e) \in Payload
      BY WinnerTyped DEF IInv, AffectedKnown
    <3>3. CASE e \in affected[d] /\ local[d][e] # None
      <4> DEFINE p == WinningPayload(d, e)
                 l == [local[d][e] EXCEPT !.meta = p.meta, !.trashed = p.deleted,
                         !.missing = p.missing \/ (@ /\ ~HasFile(local[d][e], e, cache[d]))]
      <4>1. local'[d][e] = l
        BY <2>3, <2>5, <3>3 DEF Applied
      <4>2. l \in LocalRow /\ l.trashed = p.deleted
        BY <3>1, <3>2, <3>3 DEF LocalRow, Payload, HasFile
      <4> HIDE DEF l
      <4> QED BY <2>5, <3>3, <4>1, <4>2, NoneAssumption
    <3>4. CASE e \notin affected[d] \/ local[d][e] = None
      BY <2>3, <3>4 DEF Applied, TrashSeenAt
    <3> QED BY <3>3, <3>4
  <2>7. row'[d][e] # None /\ row'[d][e].deleted => TrashSeenAt(d, e)
    BY <2>2, <2>5 DEF RowOf, TrashSeenAt
  <2>8. LiveRowHeld(d, e)'
    <3>1. CASE MaterializeFirst(d)
      <4>1. pc[d] = "materialize1" /\ pc'[d] = "push" /\ affected' = affected
        BY <1>1, <3>1 DEF MaterializeFirst, TypeOK
      <4> QED BY <1>2, <1>3, <2>2, <2>6, <4>1 DEF LiveRowHeld
    <3>2. CASE MaterializeLast(d) /\ affected[d] = {}
      <4>1. pc[d] = "materialize2"
        BY <3>2 DEF MaterializeLast
      <4> QED BY <1>2, <1>3, <2>2, <2>3, <3>2, <4>1 DEF LiveRowHeld
    <3>3. CASE MaterializeLast(d) /\ affected[d] # {}
      <4>1. pc'[d] = "hydrate" /\ todo'[d] = NeedHydration(row'[d], local'[d])
        BY <1>1, <3>3 DEF MaterializeLast, TypeOK
      <4> QED BY <4>1 DEF LiveRowHeld, NeedHydration, IsDeleted
    <3> QED BY <1>10, <3>1, <3>2, <3>3
  <2>9. TrashSeenAt(d, e)' => TrashSeenAt(d, e)
    BY <2>1, <2>6, <2>7 DEF TrashSeenAt
  <2> QED BY <1>3, <2>1, <2>6, <2>8, <2>9 DEF PurgeStep
<1>11. CASE HydrateEntry(d)
  <2>1. log' = log /\ row' = row /\ pc' = pc /\ pc[d] = "hydrate"
    BY <1>11, HydrateOne
  <2>2. Known(d, e) => /\ ~WinningPayload(d, e).purged
                       /\ WinningPayload(d, e).deleted => TrashSeenAt(d, e)
    BY <1>3, WinnerKnown DEF Known, TrashSeenAt
  <2>3. \/ local'[d][e] = local[d][e] /\ (e \in todo[d] => e \in todo'[d])
        \/ local'[d][e] # None /\ (local'[d][e].trashed => TrashSeenAt(d, e))
    <3>1. local[d][e] # None /\ local[d][e].trashed => TrashSeenAt(d, e)
      BY DEF TrashSeenAt
    <3> QED BY <1>11, <2>2, <3>1, HydrateOne, Zenon
  <2>4. LiveRowHeld(d, e)'
    BY <1>2, <1>3, <2>1, <2>3 DEF LiveRowHeld
  <2>5. TrashSeenAt(d, e)' => TrashSeenAt(d, e)
    BY <2>1, <2>3 DEF TrashSeenAt
  <2> QED BY <1>3, <2>1, <2>3, <2>4, <2>5 DEF PurgeStep
<1> QED BY <1>4, <1>5, <1>6, <1>7, <1>8, <1>9, <1>10, <1>11 DEF Pass, Scan, Exchange

LEMMA PurgeInductive ==
  ASSUME IInv, PurgeCalm => PurgeHeld, [Next]_vars
  PROVE  (PurgeCalm => PurgeHeld)'
<1> SUFFICES ASSUME PurgeCalm' PROVE PurgeHeld'
  OBVIOUS
<1>1. PurgeCalm /\ PurgeHeld /\ discarded \subseteq discarded'
  BY EventsSettled DEF PurgeCalm, Never
<1>2. CASE UNCHANGED vars
  BY <1>1, <1>2 DEF PurgeHeld, TrashHeld, TrashSeenAt, Everywhere, LiveRowHeld, NoSpuriousPurge,
                    vars, opVars, libVars, passVars, userVars
<1>3. ASSUME NEW d \in Device, User(d) \/ Pass(d) PROVE PurgeHeld'
  <2>1. ASSUME NEW e \in Entry, e \notin discarded' PROVE PurgeStep(d, e) /\ e \notin discarded
    BY <1>1, <1>3, <2>1, PurgeStepHolds
  <2>2. ASSUME NEW c \in Device, c # d
        PROVE  /\ log'[c] = log[c] /\ row'[c] = row[c] /\ local'[c] = local[c]
               /\ pc'[c] = pc[c] /\ affected'[c] = affected[c] /\ todo'[c] = todo[c]
    BY <1>3, <2>2, OthersUntouched, OtherLogs DEF IInv
  <2>3. ASSUME NEW e \in Entry, e \notin discarded', NEW c \in Device, TrashSeenAt(c, e)'
        PROVE  Everywhere(e)'
    <3>1. Everywhere(e) \/ \E x \in Device : TrashSeenAt(x, e)
      <4>1. CASE c = d
        BY <2>1, <2>3, <4>1 DEF PurgeStep
      <4>2. CASE c # d
        BY <2>2, <2>3, <4>2 DEF TrashSeenAt
      <4> QED BY <4>1, <4>2
    <3>2. Everywhere(e)
      BY <1>1, <2>1, <2>3, <3>1 DEF PurgeHeld, TrashHeld
    <3> QED BY <2>1, <2>2, <2>3, <3>2 DEF Everywhere, PurgeStep
  <2>4. ASSUME NEW c \in Device, NEW e \in Entry PROVE LiveRowHeld(c, e)'
    <3>1. CASE c = d /\ e \notin discarded'
      BY <2>1, <3>1 DEF PurgeStep
    <3>2. CASE c # d
      BY <1>1, <2>2, <3>2 DEF PurgeHeld, LiveRowHeld
    <3>3. CASE e \in discarded'
      BY <3>3 DEF LiveRowHeld
    <3> QED BY <3>1, <3>2, <3>3
  <2>5. ASSUME NEW c \in Device, NEW o \in log'[c], o.payload.purged PROVE o.entity \in discarded'
    <3>1. o.entity \in Entry
      <4>1. log'[c] \subseteq Op
        BY StepTyped DEF TypeOK
      <4> QED BY <4>1 DEF Op, Log!Op
    <3>2. CASE c = d
      BY <2>1, <2>5, <3>1, <3>2 DEF PurgeStep
    <3>3. CASE c # d
      BY <1>1, <2>2, <2>5, <3>3 DEF PurgeHeld, NoSpuriousPurge
    <3> QED BY <3>2, <3>3
  <2> QED BY <2>3, <2>4, <2>5 DEF PurgeHeld, TrashHeld, NoSpuriousPurge
<1>4. ASSUME NEW d \in Device PROVE ~Interrupt(d)
  BY <1>1 DEF Interrupt, PurgeCalm, Never
<1> QED BY <1>2, <1>3, <1>4 DEF Next

(* Where passes run to their end and nobody trashes an entry before every device has it,      *)
(* no device ever records the purge of an entry that no user deleted: a tombstone of a         *)
(* trashed entry is never taken for one of a deleted entry (prepare_local_crdt_operations),     *)
(* whatever else races or fails.                                                                *)
THEOREM NothingPurgedUnasked ==
  Spec => [](Never({"interrupt", "early_trash"}) => NoSpuriousPurge)
<1>1. Init => (PurgeCalm => PurgeHeld)
  BY DEF Init, PurgeHeld, TrashHeld, TrashSeenAt, Everywhere, LiveRowHeld, NoSpuriousPurge
<1>2. IInv /\ (PurgeCalm => PurgeHeld) /\ [Next]_vars => (PurgeCalm => PurgeHeld)'
  BY PurgeInductive
<1>3. (PurgeCalm => PurgeHeld) => (Never({"interrupt", "early_trash"}) => NoSpuriousPurge)
  BY DEF PurgeCalm, PurgeHeld
<1> QED BY <1>1, <1>2, <1>3, Inductive, PTL DEF Spec
-----------------------------------------------------------------------------
(* The pass is about to upload the PDF of the entry. *)
UploadAhead(d, e) ==
  /\ pc[d] \in {"preflight", "upload"}
  /\ local[d][e] # None /\ ~local[d][e].trashed /\ HasFile(local[d][e], e, cache[d])

(* An operation that promises a PDF. *)
Promises(o) == ~o.payload.deleted /\ ~o.payload.missing

(* What a device promises is in R2, or will be before the pass pushes the promise. *)
BlobAhead(d) ==
  \A o \in log[d] : o.dev = d /\ Promises(o) =>
    o.entity \in r2 \/ (o \notin pushed[d] /\ UploadAhead(d, o.entity))

BlobHeld ==
  /\ BlobBeforeMetadata
  /\ \A d \in Device : /\ BlobAhead(d) /\ uploaded[d] \subseteq r2
                       /\ pc[d] = "seeded" => scanClean[d]

BlobCalm == Never({"interrupt", "midpass", "blobs"})

(* What a step must leave true on the device that takes it. *)
BlobStep(d) ==
  /\ BlobAhead(d)' /\ uploaded'[d] \subseteq r2'
  /\ pc'[d] = "seeded" => scanClean'[d]

(* R2 keeps what it has. *)
LEMMA BlobsStay ==
  ASSUME [Next]_vars
  PROVE  r2 \subseteq r2'
<1>1. CASE UNCHANGED vars
  BY <1>1 DEF vars, remoteVars
<1>2. ASSUME NEW d \in Device, User(d) PROVE r2' = r2
  BY <1>2 DEF User, Import, EditMeta, SetTrashed, Delete, UserChange, remoteVars
<1>3. ASSUME NEW d \in Device, SkipScan(d) \/ Seed(d) \/ Prepare(d) \/ Preflight(d)
      PROVE  r2' = r2
  BY <1>3 DEF SkipScan, Seed, Prepare, Preflight, remoteVars
<1>4. ASSUME NEW d \in Device, UploadBlobs(d) PROVE r2 \subseteq r2'
  BY <1>4 DEF UploadBlobs
<1>5. ASSUME NEW d \in Device, \/ PullBeforePush(d) \/ PullAfterPush(d) \/ AdvanceCursor(d)
                               \/ PushOne(d) \/ MarkPushed(d)
      PROVE  r2' = r2
  BY <1>5 DEF PullBeforePush, PullAfterPush, Pull, AdvanceCursor, PushOne, MarkPushed, remoteVars
<1>6. ASSUME NEW d \in Device, \/ MaterializeFirst(d) \/ MaterializeLast(d) \/ HydrateEntry(d)
                               \/ HydrateDone(d) \/ Interrupt(d)
      PROVE  r2' = r2
  BY <1>6 DEF MaterializeFirst, MaterializeLast, Materialize, HydrateEntry, HydrateDone, Interrupt,
              remoteVars
<1> QED BY <1>1, <1>2, <1>3, <1>4, <1>5, <1>6 DEF Next, Pass, Scan, Exchange

(* A scan records a promise only for an entry that the next upload takes. *)
LEMMA PrepareAhead ==
  ASSUME IInv, BlobHeld, NEW d \in Device, Prepare(d)
  PROVE  BlobStep(d)
<1>1. TypeOK /\ SeedFresh
  BY DEF IInv
<1>2. /\ local' = local /\ cache' = cache /\ pushed' = pushed /\ r2' = r2 /\ uploaded' = uploaded
      /\ pc[d] = "seeded" /\ pc'[d] = "preflight" /\ scanClean[d]
  BY <1>1 DEF Prepare, libVars, remoteVars, BlobHeld, TypeOK
<1>3. PICK new \in SUBSET Op :
        /\ log' = [log EXCEPT ![d] = log[d] \cup new]
        /\ \A o \in new : o.dev = d /\ \A p \in log[d] : p.time < o.time
  BY PrepareRecords
<1>4. \A o \in log'[d] : o \in log[d] \/ o.payload = Scanned(d, o.entity)
  BY <1>1 DEF Prepare, TypeOK
<1> SUFFICES ASSUME NEW o \in log'[d], o.dev = d, Promises(o)
             PROVE  o.entity \in r2 \/ (o \notin pushed[d] /\ UploadAhead(d, o.entity)')
  BY <1>2 DEF BlobStep, BlobAhead, BlobHeld
<1>5. CASE o \in log[d]
  BY <1>2, <1>5 DEF BlobHeld, BlobAhead, UploadAhead
<1>6. CASE o \notin log[d]
  <2>1. o \in new /\ o \in Op /\ o.payload = Scanned(d, o.entity)
    BY <1>1, <1>3, <1>4, <1>6 DEF TypeOK
  <2>2. o \notin pushed[d]
    <3>1. o \in pushed[d] => o \in log[d]
      BY <2>1 DEF IInv, PushedIsPublished, Log!IInv, Log!OriginKeeps, Log!AllOps, Published
    <3> QED BY <1>6, <3>1
  <2>3. UploadAhead(d, o.entity)'
    <3> DEFINE e == o.entity
    <3>1. e \in Entry /\ o.payload \in Payload
      BY <2>1 DEF Op, Log!Op
    <3>2. o.payload # None
      BY <3>1, NoneAssumption
    <3>3. local[d][e] # None
      BY <2>1, <3>2 DEF Scanned, PurgedPayload, Promises
    <3>4. o.payload = LivePayload(d, e, IsDeleted(row[d][e]))
      BY <2>1, <3>3 DEF Scanned
    <3>5. ~IsDeleted(row[d][e]) /\ HasFile(local[d][e], e, cache[d])
      <4>1. /\ o.payload.deleted = IsDeleted(row[d][e])
            /\ o.payload.missing = (local[d][e].missing \/ ~HasFile(local[d][e], e, cache[d]))
        BY <3>4 DEF LivePayload
      <4> QED BY <4>1, Zenon DEF Promises
    <3>6. ~local[d][e].trashed
      BY <1>1, <1>2, <3>1, <3>3, <3>5 DEF SeedFresh
    <3> QED BY <1>2, <3>3, <3>5, <3>6 DEF UploadAhead, HasFile
  <2> QED BY <2>2, <2>3
<1> QED BY <1>5, <1>6

(* The upload keeps the promises of the scan. *)
LEMMA UploadKeepsPromises ==
  ASSUME IInv, BlobHeld, BlobCalm, NEW d \in Device, UploadBlobs(d)
  PROVE  BlobStep(d)
<1>1. TypeOK
  BY DEF IInv
<1> DEFINE ingest == {e \in NeedUpload(d) : HasFile(local[d][e], e, cache[d])}
<1>2. /\ r2' = r2 \cup ingest /\ uploaded' = [uploaded EXCEPT ![d] = uploaded[d] \cup ingest]
      /\ log' = log /\ pc[d] = "upload" /\ pc'[d] = "pull1"
  <2>1. log' = log /\ pc[d] = "upload" /\ pc'[d] = "pull1"
    BY <1>1 DEF UploadBlobs, opVars, TypeOK
  <2>2. \E sent \in SUBSET ingest :
          /\ sent = ingest \/ "blobs" \in allowed
          /\ r2' = r2 \cup sent
          /\ uploaded' = [uploaded EXCEPT ![d] = @ \cup sent]
    BY Zenon DEF UploadBlobs
  <2>3. "blobs" \notin allowed
    BY DEF BlobCalm, Never
  <2> HIDE DEF ingest
  <2> QED BY <2>1, <2>2, <2>3
<1>3. uploaded'[d] \subseteq r2'
  BY <1>1, <1>2 DEF BlobHeld, TypeOK
<1>4. ASSUME NEW o \in log[d], o.dev = d, Promises(o) PROVE o.entity \in r2'
  <2>1. o.entity \in Entry
    BY <1>1 DEF TypeOK, Op, Log!Op
  <2>2. CASE o.entity \in r2
    BY <1>2, <2>2
  <2>3. CASE UploadAhead(d, o.entity)
    <3>1. CASE o.entity \in uploaded[d]
      BY <1>2, <3>1 DEF BlobHeld
    <3>2. CASE o.entity \notin uploaded[d]
      BY <1>2, <2>1, <2>3, <3>2 DEF UploadAhead, NeedUpload
    <3> QED BY <3>1, <3>2
  <2> QED BY <1>4, <2>2, <2>3 DEF BlobHeld, BlobAhead
<1> QED BY <1>2, <1>3, <1>4 DEF BlobStep, BlobAhead

LEMMA BlobStepHolds ==
  ASSUME IInv, BlobHeld, BlobCalm, NEW d \in Device, User(d) \/ Pass(d)
  PROVE  BlobStep(d)
<1>1. TypeOK
  BY DEF IInv
<1>2. r2 \subseteq r2'
  BY BlobsStay DEF Next
<1>3. /\ uploaded[d] \subseteq r2 /\ BlobAhead(d)
      /\ pc[d] = "seeded" => scanClean[d]
  BY DEF BlobHeld
<1>4. ASSUME uploaded'[d] = uploaded[d], pc'[d] = "seeded" => scanClean'[d],
             pc[d] \notin {"preflight", "upload"},
             \A o \in log'[d] : o.dev = d => o \in log[d]
      PROVE  BlobStep(d)
  BY <1>2, <1>3, <1>4 DEF BlobStep, BlobAhead, UploadAhead
<1>5. CASE Prepare(d)
  BY <1>5, PrepareAhead
<1>6. CASE UploadBlobs(d)
  BY <1>6, UploadKeepsPromises
<1>7. CASE Preflight(d)
  <2>1. /\ log' = log /\ pushed' = pushed /\ local' = local /\ cache' = cache /\ r2' = r2
        /\ uploaded' = uploaded /\ pc[d] = "preflight"
        /\ pc'[d] = IF NeedSync(d) THEN "upload" ELSE "idle"
    BY <1>1, <1>7 DEF Preflight, opVars, libVars, remoteVars, TypeOK
  <2>2. ASSUME NEW o \in log[d], o.dev = d, o \notin pushed[d] PROVE NeedSync(d)
    BY <2>2 DEF NeedSync, Pending
  <2>3. BlobAhead(d)'
    BY <1>3, <2>1, <2>2 DEF BlobAhead, UploadAhead
  <2> QED BY <1>3, <2>1, <2>3 DEF BlobStep
<1>8. CASE User(d)
  <2>1. pc[d] = "idle"
    BY <1>8 DEF User, Import, EditMeta, SetTrashed, Delete, UserMay, BlobCalm, Never
  <2>2. log' = log /\ uploaded' = uploaded /\ pc' = pc
    BY <1>8 DEF User, Import, EditMeta, SetTrashed, Delete, UserChange, opVars
  <2> QED BY <1>4, <2>1, <2>2
<1>9. CASE SkipScan(d) \/ Seed(d)
  <2>1. log' = log /\ uploaded' = uploaded /\ pc[d] = "idle"
    BY <1>9 DEF SkipScan, Seed, opVars, libVars
  <2>2. pc'[d] = "seeded" => scanClean'[d]
    BY <1>1, <1>9 DEF SkipScan, Seed, TypeOK
  <2> QED BY <1>4, <2>1, <2>2
<1>10. CASE PullBeforePush(d) \/ PullAfterPush(d)
  <2>1. PICK new \in SUBSET Published : log' = [log EXCEPT ![d] = log[d] \cup new]
    BY <1>10, PullLearns
  <2>2. \A o \in log'[d] : o.dev = d => o \in log[d]
    BY <1>1, <2>1 DEF IInv, Log!IInv, Log!OriginKeeps, Log!AllOps, Published, TypeOK
  <2>3. uploaded' = uploaded /\ pc[d] \in {"pull1", "pull2"} /\ pc'[d] # "seeded"
    BY <1>1, <1>10 DEF PullBeforePush, PullAfterPush, Pull, libVars, TypeOK
  <2> QED BY <1>4, <2>2, <2>3
<1>11. CASE AdvanceCursor(d) \/ PushOne(d) \/ MarkPushed(d) \/ HydrateDone(d)
  <2>1. /\ log' = log /\ uploaded' = uploaded /\ pc[d] \notin {"preflight", "upload", "seeded"}
        /\ pc'[d] # "seeded"
    BY <1>1, <1>11 DEF AdvanceCursor, PushOne, MarkPushed, HydrateDone, opVars, libVars, TypeOK
  <2> QED BY <1>4, <2>1
<1>12. CASE MaterializeFirst(d) \/ MaterializeLast(d) \/ HydrateEntry(d)
  <2>1. /\ log' = log /\ uploaded' = uploaded /\ pc[d] \notin {"preflight", "upload", "seeded"}
        /\ pc'[d] # "seeded"
    BY <1>1, <1>12 DEF MaterializeFirst, MaterializeLast, Materialize, HydrateEntry, opVars, TypeOK
  <2> QED BY <1>4, <2>1
<1> QED BY <1>5, <1>6, <1>7, <1>8, <1>9, <1>10, <1>11, <1>12 DEF Pass, Scan, Exchange

LEMMA BlobInductive ==
  ASSUME IInv, BlobCalm => BlobHeld, [Next]_vars
  PROVE  (BlobCalm => BlobHeld)'
<1> SUFFICES ASSUME BlobCalm' PROVE BlobHeld'
  OBVIOUS
<1>1. BlobCalm /\ BlobHeld /\ r2 \subseteq r2'
  BY EventsSettled, BlobsStay DEF BlobCalm, Never
<1>2. CASE UNCHANGED vars
  BY <1>1, <1>2 DEF BlobHeld, BlobBeforeMetadata, BlobAhead, UploadAhead, HasFile, Published,
                    vars, remoteVars, opVars, libVars, scanVars
<1>3. ASSUME NEW d \in Device, User(d) \/ Pass(d) PROVE BlobHeld'
  <2>1. BlobStep(d)
    BY <1>1, <1>3, BlobStepHolds
  <2>2. ASSUME NEW c \in Device, c # d
        PROVE  BlobAhead(c)' /\ uploaded'[c] \subseteq r2' /\ (pc'[c] = "seeded" => scanClean'[c])
    <3>1. /\ log'[c] = log[c] /\ pushed'[c] = pushed[c] /\ local'[c] = local[c]
          /\ cache'[c] = cache[c] /\ pc'[c] = pc[c] /\ scanClean'[c] = scanClean[c]
      BY <1>3, <2>2, OthersUntouched, OtherLogs DEF IInv
    <3>2. uploaded'[c] = uploaded[c]
      <4>1. CASE UploadBlobs(d)
        BY <2>2, <4>1 DEF UploadBlobs, IInv, TypeOK
      <4>2. CASE User(d) \/ SkipScan(d) \/ Seed(d) \/ Prepare(d) \/ Preflight(d)
        BY <4>2 DEF User, Import, EditMeta, SetTrashed, Delete, UserChange, SkipScan, Seed,
                    Prepare, Preflight, libVars
      <4>3. CASE \/ PullBeforePush(d) \/ PullAfterPush(d) \/ AdvanceCursor(d) \/ PushOne(d)
                 \/ MarkPushed(d) \/ HydrateDone(d)
        BY <4>3 DEF PullBeforePush, PullAfterPush, Pull, AdvanceCursor, PushOne, MarkPushed,
                    HydrateDone, libVars
      <4>4. CASE MaterializeFirst(d) \/ MaterializeLast(d) \/ HydrateEntry(d)
        BY <4>4 DEF MaterializeFirst, MaterializeLast, Materialize, HydrateEntry
      <4> QED BY <1>3, <4>1, <4>2, <4>3, <4>4 DEF Pass, Scan, Exchange
    <3>3. BlobAhead(c)'
      BY <1>1, <3>1 DEF BlobHeld, BlobAhead, UploadAhead
    <3> QED BY <1>1, <3>1, <3>2, <3>3 DEF BlobHeld
  <2>3. BlobBeforeMetadata'
    <3>1. CASE Published' = Published
      BY <1>1, <3>1 DEF BlobHeld, BlobBeforeMetadata
    <3>2. CASE PushOne(d)
      <4>1. PICK o \in log[d] : o.dev = d /\ Published' = Published \cup {o}
        BY <3>2, PushAppends
      <4>2. Promises(o) => o.entity \in r2
        BY <1>1, <3>2, <4>1 DEF PushOne, BlobHeld, BlobAhead, UploadAhead
      <4> QED BY <1>1, <4>1, <4>2 DEF BlobHeld, BlobBeforeMetadata, Promises
    <3>3. CASE ~PushOne(d)
      <4>1. remote' = remote
        <5>1. CASE User(d)
          BY <5>1 DEF User, Import, EditMeta, SetTrashed, Delete, UserChange, remoteVars
        <5>2. CASE SkipScan(d) \/ Seed(d) \/ Prepare(d) \/ Preflight(d) \/ UploadBlobs(d)
          BY <5>2 DEF SkipScan, Seed, Prepare, Preflight, UploadBlobs, remoteVars
        <5>3. CASE \/ PullBeforePush(d) \/ PullAfterPush(d) \/ AdvanceCursor(d)
                   \/ MarkPushed(d) \/ HydrateDone(d)
          BY <5>3 DEF PullBeforePush, PullAfterPush, Pull, AdvanceCursor, MarkPushed,
                      HydrateDone, remoteVars
        <5>4. CASE MaterializeFirst(d) \/ MaterializeLast(d) \/ HydrateEntry(d)
          BY <5>4 DEF MaterializeFirst, MaterializeLast, Materialize, HydrateEntry, remoteVars
        <5> QED BY <1>3, <3>3, <5>1, <5>2, <5>3, <5>4 DEF Pass, Scan, Exchange
      <4> QED BY <3>1, <4>1 DEF Published
    <3> QED BY <3>2, <3>3
  <2> QED BY <2>1, <2>2, <2>3 DEF BlobHeld, BlobStep
<1>4. ASSUME NEW d \in Device PROVE ~Interrupt(d)
  BY <1>1 DEF Interrupt, BlobCalm, Never
<1> QED BY <1>2, <1>3, <1>4 DEF Next

(* Where passes run to their end, no edit lands while one runs, and R2 accepts uploads, an      *)
(* operation that promises a PDF reaches Turso only after the PDF reached R2: whoever pulls it   *)
(* can download the file (upload_local_blobs comes before the push).                            *)
THEOREM BlobsComeFirst ==
  Spec => [](Never({"interrupt", "midpass", "blobs"}) => BlobBeforeMetadata)
<1>1. Init => (BlobCalm => BlobHeld)
  BY DEF Init, BlobHeld, BlobBeforeMetadata, BlobAhead, Published
<1>2. IInv /\ (BlobCalm => BlobHeld) /\ [Next]_vars => (BlobCalm => BlobHeld)'
  BY BlobInductive
<1>3. (BlobCalm => BlobHeld) => (Never({"interrupt", "midpass", "blobs"}) => BlobBeforeMetadata)
  BY DEF BlobCalm, BlobHeld
<1> QED BY <1>1, <1>2, <1>3, Inductive, PTL DEF Spec
-----------------------------------------------------------------------------
(* Nothing is left to replay while a pass has not pulled yet, or has replayed all. *)
NothingAffected(d) ==
  pc[d] \in {"idle", "seeded", "preflight", "upload", "pull1", "hydrate"} => affected[d] = {}

(* What a device remembers of an entry is what wins, but for what it is yet to replay. *)
VersionWins(d, e) ==
  Known(d, e) /\ e \notin affected[d] => version[d][e] = WinningPayload(d, e)

(* An entry with an operation has its row, at the latest when the pass has replayed it. *)
RowKnown(d, e) ==
  Known(d, e) => \/ row[d][e] # None \/ e \in affected[d]
                 \/ pc[d] \in {"preflight", "upload"} /\ e \in Entities(Pending(d))
                 \/ pc[d] = "pull1" /\ e \in Entities(batch[d])

(* Between seed and prepare a row whose entry is gone is a tombstone, unless an edit raced. *)
SeedGone(d, e) ==
  pc[d] = "seeded" /\ scanClean[d] /\ local[d][e] = None => row[d][e] = None \/ row[d][e].deleted

(* When a scan may be skipped, an entry that is not here was purged, or is to be hydrated. *)
AbsentPurged(d, e) ==
  snapCurrent[d] /\ local[d][e] = None /\ Known(d, e) /\ e \notin affected[d] =>
    WinningPayload(d, e).purged \/ (pc[d] = "hydrate" /\ e \in todo[d])

(* Where nobody uses the trash, every tombstone is a purge. *)
TrashIsPurge(d, e) ==
  /\ \A o \in log[d] : o.entity = e /\ o.payload.deleted => o.payload.purged
  /\ local[d][e] # None =>
       ~local[d][e].trashed /\ (pc[d] = "seeded" => row[d][e] = None \/ ~row[d][e].deleted)

EntryTidy(d, e) ==
  VersionWins(d, e) /\ RowKnown(d, e) /\ SeedGone(d, e) /\ AbsentPurged(d, e)

SkipHeld ==
  /\ "delete" \notin allowed => discarded = {}
  /\ "delete" \in allowed => \A d \in Device, e \in Entry : TrashIsPurge(d, e)
  /\ \A d \in Device : NothingAffected(d)
  /\ \A d \in Device, e \in Entry : EntryTidy(d, e)

SkipCalm ==
  /\ Never({"interrupt", "early_trash"})
  /\ "delete" \in allowed => Never({"trash", "midpass"})

(* There is one winner. *)
LEMMA OnlyWinner ==
  ASSUME NEW ops \in SUBSET Op, NEW e, NEW o, Log!IsWinner(o, ops, e)
  PROVE  Log!Winner(ops, e) = o
<1> DEFINE w == Log!Winner(ops, e)
<1>1. w \in Log!OpsFor(ops, e) /\ Log!IsWinner(w, ops, e)
  BY DEF Log!Winner, Log!IsWinner
<1>2. w \in Op /\ o \in Op
  BY <1>1 DEF Log!IsWinner, Log!OpsFor
<1>3. w.time \in Nat /\ o.time \in Nat /\ w.dev \in Nat /\ o.dev \in Nat
  BY <1>2, ConstantsAssumption DEF Op, Log!Op
<1>4. ~(Log!Beats(w, o) /\ Log!Beats(o, w))
  BY <1>3 DEF Log!Beats
<1> HIDE DEF w
<1> QED BY <1>1, <1>4 DEF Log!IsWinner, w

(* As long as its operations are the same. *)
LEMMA SameWinner ==
  ASSUME NEW d \in Device, NEW e \in Entry, Log!OpsFor(log'[d], e) = Log!OpsFor(log[d], e)
  PROVE  WinningPayload(d, e)' = WinningPayload(d, e)
<1>1. \A o : Log!IsWinner(o, log'[d], e) <=> Log!IsWinner(o, log[d], e)
  BY DEF Log!IsWinner
<1> QED BY <1>1, Zenon DEF WinningPayload, Log!Winner

(* A scan records an operation that wins for each entry that changed, and none for others. *)
LEMMA PrepareWins ==
  ASSUME IInv, NEW d \in Device, Prepare(d), NEW e \in Entry
  PROVE  /\ e \notin Changed(d) => Log!OpsFor(log'[d], e) = Log!OpsFor(log[d], e)
         /\ e \in Changed(d) =>
              \E o \in log'[d] : /\ o.dev = d /\ o.entity = e /\ o \notin log[d]
                                 /\ o.payload = Scanned(d, e)
                                 /\ Log!IsWinner(o, log'[d], e)
<1> DEFINE n == Cardinality(Changed(d))
<1>1. PICK start \in StartTimes(d), place \in [Changed(d) -> 0..n - 1] :
        log' = [log EXCEPT ![d] = log[d] \cup
             {[dev |-> d, time |-> start + place[x], entity |-> x,
               payload |-> Scanned(d, x)] : x \in Changed(d)}]
  BY Zenon DEF Prepare
<1> DEFINE OpAt(x) == [dev |-> d, time |-> start + place[x], entity |-> x,
                       payload |-> Scanned(d, x)]
<1>2. n \in Nat
  BY ConstantsAssumption, FS_Subset, FS_CardinalityType DEF Changed
<1>3. log[d] \subseteq Op /\ log \in [Device -> SUBSET Op]
  BY DEF IInv, TypeOK
<1>4. start \in Nat /\ \A p \in log[d] : p.time < start
  BY <1>3, ConstantsAssumption DEF StartTimes, Op, Log!Op
<1> HIDE DEF n
<1>5. \A x \in Changed(d) : place[x] \in Nat
  BY <1>1, <1>2
<1>6. log'[d] = log[d] \cup {OpAt(x) : x \in Changed(d)}
  BY <1>1, <1>3
<1>7. e \notin Changed(d) => Log!OpsFor(log'[d], e) = Log!OpsFor(log[d], e)
  BY <1>6 DEF Log!OpsFor
<1>8. ASSUME e \in Changed(d) PROVE Log!IsWinner(OpAt(e), log'[d], e) /\ OpAt(e) \notin log[d]
  <2>1. OpAt(e) \in Log!OpsFor(log'[d], e)
    BY <1>6, <1>8 DEF Log!OpsFor
  <2>2. \A p \in log[d] : p.time \in Nat /\ p.time < OpAt(e).time
    BY <1>3, <1>4, <1>5, <1>8 DEF Op, Log!Op
  <2>3. \A p \in Log!OpsFor(log'[d], e) : p = OpAt(e) \/ p \in log[d]
    BY <1>6 DEF Log!OpsFor
  <2>4. OpAt(e).time \in Nat
    BY <1>4, <1>5, <1>8
  <2> HIDE DEF OpAt
  <2>5. OpAt(e) \notin log[d]
    BY <2>2, <2>4
  <2> QED BY <2>1, <2>2, <2>3, <2>4, <2>5 DEF Log!IsWinner, Log!Beats
<1>9. e \in Changed(d) => /\ OpAt(e) \in log'[d] /\ OpAt(e).dev = d /\ OpAt(e).entity = e
                          /\ OpAt(e).payload = Scanned(d, e)
  BY <1>6
<1> HIDE DEF OpAt
<1> QED BY <1>7, <1>8, <1>9

(* Steps of a pass that only move it on. *)
MovesOn(d) ==
  \/ SkipScan(d) \/ Preflight(d) \/ AdvanceCursor(d) \/ PushOne(d) \/ MarkPushed(d)
  \/ HydrateDone(d)

LEMMA MovesOnFrame ==
  ASSUME NEW d \in Device, MovesOn(d)
  PROVE  /\ log' = log /\ version' = version /\ row' = row /\ local' = local
         /\ affected' = affected /\ todo' = todo
         /\ snapCurrent' = snapCurrent /\ scanClean' = scanClean
BY DEF MovesOn, SkipScan, Preflight, AdvanceCursor, PushOne, MarkPushed, HydrateDone, opVars,
       libVars, passVars, scanVars

(* What steps that record and replay nothing leave alone. *)
LEMMA NoReplayFrame ==
  ASSUME NEW d \in Device, \/ MovesOn(d) \/ User(d) \/ Seed(d) \/ UploadBlobs(d)
                           \/ HydrateEntry(d)
  PROVE  log' = log /\ version' = version /\ affected' = affected
<1>1. CASE MovesOn(d)
  BY <1>1, MovesOnFrame
<1>2. CASE User(d)
  BY <1>2 DEF User, Import, EditMeta, SetTrashed, Delete, UserChange, opVars, passVars
<1>3. CASE Seed(d) \/ UploadBlobs(d) \/ HydrateEntry(d)
  BY <1>3 DEF Seed, UploadBlobs, HydrateEntry, opVars, passVars
<1> QED BY <1>1, <1>2, <1>3

(* What a pull adds is to be replayed. *)
LEMMA PullAffects ==
  ASSUME IInv, NEW d \in Device, NothingAffected(d), PullBeforePush(d) \/ PullAfterPush(d),
         NEW e \in Entry
  PROVE  /\ version' = version /\ row' = row /\ local' = local /\ todo' = todo
         /\ snapCurrent' = snapCurrent /\ pc'[d] \in {"cursor1", "cursor2"}
         /\ e \in affected[d] => e \in affected'[d]
         /\ PullBeforePush(d) => Entities(batch[d]) \subseteq affected'[d]
         /\ e \notin affected'[d] => Log!OpsFor(log'[d], e) = Log!OpsFor(log[d], e)
<1>1. TypeOK
  BY DEF IInv
<1> DEFINE new == {remote[i] : i \in cursor[d] + 1..Len(remote)}
<1>2. /\ version' = version /\ row' = row /\ local' = local /\ todo' = todo
      /\ snapCurrent' = snapCurrent /\ pc'[d] \in {"cursor1", "cursor2"}
  BY <1>1 DEF PullBeforePush, PullAfterPush, Pull, libVars, scanVars, TypeOK
<1>3. log'[d] = log[d] \cup new
  BY <1>1 DEF PullBeforePush, PullAfterPush, Pull, Upserted, TypeOK
<1>4. PullBeforePush(d) => affected'[d] = Entities(batch[d]) \cup Entities(new) /\ affected[d] = {}
  BY <1>1 DEF PullBeforePush, Pull, NothingAffected, TypeOK
<1>5. PullAfterPush(d) => affected'[d] = affected[d] \cup Entities(new)
  <2>1. PullAfterPush(d) => affected' = [affected EXCEPT ![d] = affected[d] \cup Entities(new)]
    BY DEF PullAfterPush, Pull
  <2> HIDE DEF new
  <2> QED BY <1>1, <2>1 DEF TypeOK
<1>6. e \notin Entities(new) => Log!OpsFor(log'[d], e) = Log!OpsFor(log[d], e)
  <2> HIDE DEF new
  <2> QED BY <1>3 DEF Entities, Log!OpsFor
<1> HIDE DEF new
<1> QED BY <1>2, <1>4, <1>5, <1>6

(* What a replay does to the entry. *)
LEMMA MaterializeOne ==
  ASSUME IInv, NEW d \in Device, MaterializeFirst(d) \/ MaterializeLast(d), NEW e \in Entry
  PROVE  /\ log' = log /\ Materialize(d)
         /\ version'[d][e] = IF e \in affected[d] THEN WinningPayload(d, e) ELSE version[d][e]
         /\ row'[d][e] = IF e \in affected[d] THEN RowOf(WinningPayload(d, e)) ELSE row[d][e]
         /\ local'[d][e] = IF e \in affected[d]
                           THEN Applied(local[d][e], e, WinningPayload(d, e), cache[d])
                           ELSE local[d][e]
         /\ e \in affected[d] => Known(d, e) /\ WinningPayload(d, e) \in Payload
<1>1. TypeOK
  BY DEF IInv
<1>2. Materialize(d) /\ log' = log
  BY DEF MaterializeFirst, MaterializeLast, Materialize
<1>3. e \in affected[d] => Known(d, e) /\ WinningPayload(d, e) \in Payload
  BY WinnerTyped DEF IInv, AffectedKnown, Known
<1> QED BY <1>1, <1>2, <1>3 DEF Materialize, Remembered, TypeOK

LEMMA NothingAffectedKept ==
  ASSUME IInv, NEW d \in Device, NothingAffected(d), User(d) \/ Pass(d)
  PROVE  NothingAffected(d)'
<1>1. TypeOK
  BY DEF IInv
<1>2. CASE MovesOn(d)
  <2>1. affected' = affected
    BY <1>2, MovesOnFrame
  <2>2. \/ pc[d] \in {"idle", "seeded", "preflight", "upload", "pull1", "hydrate"}
        \/ pc'[d] \notin {"idle", "seeded", "preflight", "upload", "pull1", "hydrate"}
    BY <1>1, <1>2 DEF MovesOn, SkipScan, Preflight, AdvanceCursor, PushOne, MarkPushed,
                      HydrateDone, TypeOK
  <2> QED BY <2>1, <2>2 DEF NothingAffected
<1>3. CASE User(d) \/ HydrateEntry(d)
  <2>1. affected' = affected /\ pc' = pc
    BY <1>3 DEF User, Import, EditMeta, SetTrashed, Delete, UserChange, HydrateEntry, passVars
  <2> QED BY <2>1 DEF NothingAffected
<1>4. CASE Seed(d) \/ Prepare(d) \/ UploadBlobs(d)
  <2>1. affected' = affected /\ pc[d] \in {"idle", "seeded", "upload"}
    BY <1>4 DEF Seed, Prepare, UploadBlobs, passVars
  <2> QED BY <2>1 DEF NothingAffected
<1>5. CASE PullBeforePush(d) \/ PullAfterPush(d)
  <2>1. pc'[d] \in {"cursor1", "cursor2"}
    BY <1>1, <1>5 DEF PullBeforePush, PullAfterPush, Pull, TypeOK
  <2> QED BY <2>1 DEF NothingAffected
<1>6. CASE MaterializeFirst(d) \/ MaterializeLast(d)
  <2>1. pc'[d] = "push" \/ affected'[d] = {}
    BY <1>1, <1>6 DEF MaterializeFirst, MaterializeLast, TypeOK
  <2> QED BY <2>1 DEF NothingAffected
<1> QED BY <1>2, <1>3, <1>4, <1>5, <1>6 DEF MovesOn, Pass, Scan, Exchange

(* The version a device remembers keeps being that of the winner: a scan remembers what it    *)
(* records, a replay what it replays.                                                          *)
LEMMA VersionKept ==
  ASSUME IInv, NEW d \in Device, NothingAffected(d), User(d) \/ Pass(d),
         NEW e \in Entry, VersionWins(d, e)
  PROVE  VersionWins(d, e)'
<1>1. TypeOK
  BY DEF IInv
<1>2. CASE MovesOn(d) \/ User(d) \/ Seed(d) \/ UploadBlobs(d) \/ HydrateEntry(d)
  <2>1. log' = log /\ version' = version /\ affected' = affected
    BY <1>2, NoReplayFrame
  <2>2. WinningPayload(d, e)' = WinningPayload(d, e)
    BY <2>1, SameWinner
  <2> QED BY <2>1, <2>2 DEF VersionWins, Known
<1>3. CASE Prepare(d)
  <2>1. /\ affected' = affected
        /\ version'[d][e] = IF e \in Changed(d) THEN Scanned(d, e) ELSE version[d][e]
    BY <1>1, <1>3 DEF Prepare, passVars, TypeOK
  <2>2. CASE e \notin Changed(d)
    <3>1. Log!OpsFor(log'[d], e) = Log!OpsFor(log[d], e)
      BY <1>3, <2>2, PrepareWins
    <3>2. WinningPayload(d, e)' = WinningPayload(d, e)
      BY <3>1, SameWinner
    <3> QED BY <2>1, <2>2, <3>1, <3>2 DEF VersionWins, Known
  <2>3. CASE e \in Changed(d)
    <3>1. PICK o \in log'[d] : o.payload = Scanned(d, e) /\ Log!IsWinner(o, log'[d], e)
      BY <1>3, <2>3, PrepareWins
    <3>2. log'[d] \in SUBSET Op
      BY <1>3, StepTyped DEF Next, Pass, Scan, TypeOK
    <3>3. Log!Winner(log'[d], e) = o
      BY <3>1, <3>2, OnlyWinner
    <3> QED BY <2>1, <2>3, <3>1, <3>3 DEF VersionWins, WinningPayload
  <2> QED BY <2>2, <2>3
<1>4. CASE PullBeforePush(d) \/ PullAfterPush(d)
  <2> SUFFICES ASSUME Known(d, e)', e \notin affected'[d]
               PROVE  version'[d][e] = WinningPayload(d, e)'
    BY DEF VersionWins
  <2>1. /\ version' = version /\ e \notin affected[d]
        /\ Log!OpsFor(log'[d], e) = Log!OpsFor(log[d], e)
    BY <1>4, PullAffects
  <2>2. WinningPayload(d, e)' = WinningPayload(d, e)
    BY <2>1, SameWinner
  <2> QED BY <2>1, <2>2 DEF VersionWins, Known
<1>5. CASE MaterializeFirst(d) \/ MaterializeLast(d)
  <2>1. /\ log' = log
        /\ version'[d][e] = IF e \in affected[d] THEN WinningPayload(d, e) ELSE version[d][e]
    BY <1>5, MaterializeOne
  <2>2. WinningPayload(d, e)' = WinningPayload(d, e)
    BY <2>1, SameWinner
  <2> QED BY <2>1, <2>2 DEF VersionWins, Known
<1> QED BY <1>2, <1>3, <1>4, <1>5 DEF MovesOn, Pass, Scan, Exchange

(* An operation gets its row when the pass that recorded or pulled it replays it. *)
LEMMA RowKept ==
  ASSUME IInv, NEW d \in Device, NothingAffected(d), User(d) \/ Pass(d),
         NEW e \in Entry, RowKnown(d, e)
  PROVE  RowKnown(d, e)'
<1>1. TypeOK
  BY DEF IInv
<1>2. CASE MovesOn(d) /\ ~Preflight(d)
  <2>1. log' = log /\ row' = row /\ affected' = affected
    BY <1>2, MovesOnFrame
  <2>2. pc[d] \notin {"preflight", "upload", "pull1"}
    BY <1>2 DEF MovesOn, SkipScan, AdvanceCursor, PushOne, MarkPushed, HydrateDone
  <2> QED BY <2>1, <2>2 DEF RowKnown, Known
<1>3. CASE Preflight(d)
  <2>1. log' = log /\ row' = row /\ affected' = affected /\ pushed' = pushed
    BY <1>3 DEF Preflight, opVars, libVars, passVars
  <2>2. pc[d] = "preflight" /\ (Pending(d) # {} => pc'[d] = "upload")
    BY <1>1, <1>3 DEF Preflight, NeedSync, TypeOK
  <2>3. Pending(d)' = Pending(d)
    BY <2>1 DEF Pending
  <2> QED BY <2>1, <2>2, <2>3 DEF RowKnown, Known, Entities
<1>4. CASE User(d) \/ HydrateEntry(d)
  <2>1. /\ log' = log /\ row' = row /\ affected' = affected /\ pushed' = pushed
        /\ pc' = pc /\ batch' = batch
    BY <1>4 DEF User, Import, EditMeta, SetTrashed, Delete, UserChange, HydrateEntry, opVars,
                passVars
  <2>2. Pending(d)' = Pending(d)
    BY <2>1 DEF Pending
  <2> QED BY <2>1, <2>2 DEF RowKnown, Known, Entities
<1>5. CASE Seed(d)
  <2>1. log' = log /\ affected' = affected /\ pc[d] = "idle" /\ row'[d][e] = SeededRow(d, e)
    BY <1>1, <1>5 DEF Seed, opVars, passVars, TypeOK
  <2>2. row[d][e] # None => SeededRow(d, e) # None
    <3> SUFFICES ASSUME row[d][e] # None PROVE SeededRow(d, e) \in SyncRow
      BY NoneAssumption
    <3>1. row[d][e] \in SyncRow /\ local[d][e] \in LocalRow \cup {None}
      BY <1>1 DEF TypeOK
    <3>2. local[d][e] \in LocalRow =>
            [meta |-> local[d][e].meta, stamp |-> local[d][e].stamp,
             deleted |-> local[d][e].trashed] \in SyncRow
      BY DEF LocalRow, SyncRow
    <3>3. [row[d][e] EXCEPT !.deleted = TRUE, !.stamp = d] \in SyncRow
      BY <3>1 DEF SyncRow
    <3> QED BY <3>1, <3>2, <3>3, Zenon DEF SeededRow
  <2> QED BY <2>1, <2>2 DEF RowKnown, Known
<1>6. CASE Prepare(d)
  <2>1. row' = row /\ affected' = affected /\ pushed' = pushed /\ pc[d] = "seeded"
        /\ pc'[d] = "preflight"
    BY <1>1, <1>6 DEF Prepare, libVars, passVars, TypeOK
  <2>2. CASE e \notin Changed(d)
    BY <1>6, <2>1, <2>2, PrepareWins DEF RowKnown, Known
  <2>3. CASE e \in Changed(d)
    <3>1. PICK o \in log'[d] : o.dev = d /\ o.entity = e /\ o \notin log[d]
      BY <1>6, <2>3, PrepareWins
    <3>2. o \notin pushed[d]
      BY <3>1 DEF IInv, PushedIsPublished, Log!IInv, Log!OriginKeeps, Log!AllOps, Published
    <3>3. o \in Pending(d)'
      BY <2>1, <3>1, <3>2 DEF Pending
    <3>4. e \in Entities(Pending(d)')
      BY <3>1, <3>3 DEF Entities
    <3> QED BY <2>1, <3>4 DEF RowKnown, Entities
  <2> QED BY <2>2, <2>3
<1>7. CASE UploadBlobs(d)
  <2>1. /\ log' = log /\ row' = row /\ affected' = affected /\ pc[d] = "upload"
        /\ pc'[d] = "pull1" /\ batch'[d] = Pending(d)
    BY <1>1, <1>7 DEF UploadBlobs, opVars, TypeOK
  <2> QED BY <2>1 DEF RowKnown, Known
<1>8. CASE PullBeforePush(d) \/ PullAfterPush(d)
  <2>1. row' = row /\ (e \in affected[d] => e \in affected'[d])
    BY <1>8, PullAffects
  <2>2. CASE e \in affected'[d]
    BY <2>2 DEF RowKnown
  <2>3. CASE e \notin affected'[d]
    <3>1. Known(d, e)' => Known(d, e)
      BY <1>8, <2>3, PullAffects DEF Known
    <3>2. pc[d] = "pull1" => e \notin Entities(batch[d])
      BY <1>8, <2>3, PullAffects DEF PullAfterPush, Pull
    <3>3. pc[d] \in {"pull1", "pull2"}
      BY <1>8 DEF PullBeforePush, PullAfterPush, Pull
    <3> QED BY <2>1, <2>3, <3>1, <3>2, <3>3 DEF RowKnown
  <2> QED BY <2>2, <2>3
<1>9. CASE MaterializeFirst(d) \/ MaterializeLast(d)
  <2>1. /\ log' = log
        /\ row'[d][e] = IF e \in affected[d] THEN RowOf(WinningPayload(d, e)) ELSE row[d][e]
        /\ e \in affected[d] => WinningPayload(d, e) \in Payload
    BY <1>9, MaterializeOne
  <2>2. e \in affected[d] => row'[d][e] # None
    <3>1. \A p \in Payload : RowOf(p) \in SyncRow
      BY DEF RowOf, Payload, SyncRow
    <3> QED BY <2>1, <3>1, NoneAssumption
  <2>3. pc[d] \in {"materialize1", "materialize2"}
    BY <1>9 DEF MaterializeFirst, MaterializeLast
  <2> QED BY <2>1, <2>2, <2>3 DEF RowKnown, Known
<1> QED BY <1>2, <1>3, <1>4, <1>5, <1>6, <1>7, <1>8, <1>9 DEF MovesOn, Pass, Scan, Exchange

(* A scan makes a tombstone of every live row that has no entry. *)
LEMMA SeedGoneKept ==
  ASSUME IInv, NEW d \in Device, User(d) \/ Pass(d), NEW e \in Entry, SeedGone(d, e)
  PROVE  SeedGone(d, e)'
<1>1. TypeOK
  BY DEF IInv
<1>2. CASE Seed(d)
  <2>1. local' = local /\ row'[d][e] = SeededRow(d, e)
    BY <1>1, <1>2 DEF Seed, TypeOK
  <2>2. ASSUME local[d][e] = None, SeededRow(d, e) # None PROVE SeededRow(d, e).deleted
    <3>1. row[d][e] \in SyncRow \cup {None}
      BY <1>1 DEF TypeOK
    <3>2. CASE row[d][e] = None \/ row[d][e].deleted
      BY <2>2, <3>2, Zenon DEF SeededRow, IsDeleted
    <3>3. CASE row[d][e] # None /\ ~row[d][e].deleted
      <4>1. SeededRow(d, e) = [row[d][e] EXCEPT !.deleted = TRUE, !.stamp = d]
        BY <2>2, <3>3, Zenon DEF SeededRow, IsDeleted
      <4>2. row[d][e] \in SyncRow
        BY <3>1, <3>3
      <4>3. [row[d][e] EXCEPT !.deleted = TRUE, !.stamp = d].deleted
        BY <4>2 DEF SyncRow
      <4> QED BY <4>1, <4>3
    <3> QED BY <3>2, <3>3
  <2> QED BY <2>1, <2>2 DEF SeedGone
<1>3. CASE User(d)
  <2>1. scanClean'[d] = FALSE
    BY <1>1, <1>3 DEF User, Import, EditMeta, SetTrashed, Delete, UserChange, Bump, TypeOK
  <2> QED BY <2>1 DEF SeedGone
<1>4. CASE Pass(d) /\ ~Seed(d)
  <2>1. pc'[d] # "seeded"
    <3>1. CASE MovesOn(d)
      BY <1>1, <3>1 DEF MovesOn, SkipScan, Preflight, AdvanceCursor, PushOne, MarkPushed,
                        HydrateDone, TypeOK
    <3>2. CASE Prepare(d) \/ UploadBlobs(d) \/ PullBeforePush(d) \/ PullAfterPush(d)
      BY <1>1, <3>2 DEF Prepare, UploadBlobs, PullBeforePush, PullAfterPush, Pull, TypeOK
    <3>3. CASE MaterializeFirst(d) \/ MaterializeLast(d) \/ HydrateEntry(d)
      BY <1>1, <3>3 DEF MaterializeFirst, MaterializeLast, HydrateEntry, TypeOK
    <3> QED BY <1>4, <3>1, <3>2, <3>3 DEF MovesOn, Pass, Scan, Exchange
  <2> QED BY <2>1 DEF SeedGone
<1> QED BY <1>2, <1>3, <1>4

(* A tombstone that a device without the entry replays is a purge: a trashed entry is still  *)
(* on every device, or nobody uses the trash.                                                  *)
LEMMA AbsentWinner ==
  ASSUME IInv, PurgeHeld, SkipHeld, NEW d \in Device, NEW e \in Entry,
         local[d][e] = None, Known(d, e), WinningPayload(d, e).deleted
  PROVE  WinningPayload(d, e).purged
<1>1. PICK o \in log[d] : o.entity = e /\ WinningPayload(d, e) = o.payload
  BY WinnerKnown DEF Known
<1>2. CASE "delete" \in allowed
  BY <1>1, <1>2 DEF SkipHeld, TrashIsPurge
<1>3. CASE "delete" \notin allowed
  <2>1. TrashSeenAt(d, e)
    BY <1>1 DEF TrashSeenAt
  <2>2. Everywhere(e)
    BY <1>3, <2>1 DEF PurgeHeld, TrashHeld, SkipHeld
  <2> QED BY <2>2 DEF Everywhere
<1> QED BY <1>2, <1>3

LEMMA AbsentKept ==
  ASSUME IInv, PurgeHeld, SkipHeld, NEW d \in Device, User(d) \/ Pass(d), NEW e \in Entry
  PROVE  AbsentPurged(d, e)'
<1>1. /\ TypeOK /\ NothingAffected(d)
      /\ VersionWins(d, e) /\ RowKnown(d, e) /\ SeedGone(d, e) /\ AbsentPurged(d, e)
  BY DEF IInv, SkipHeld, EntryTidy
<1> SUFFICES ASSUME snapCurrent'[d], local'[d][e] = None, Known(d, e)', e \notin affected'[d]
             PROVE  WinningPayload(d, e)'.purged \/ (pc'[d] = "hydrate" /\ e \in todo'[d])
  BY DEF AbsentPurged
<1>2. CASE MovesOn(d)
  <2>1. /\ log' = log /\ local' = local /\ affected' = affected /\ todo' = todo
        /\ snapCurrent' = snapCurrent
    BY <1>2, MovesOnFrame
  <2>2. WinningPayload(d, e)' = WinningPayload(d, e)
    BY <2>1, SameWinner
  <2>3. pc[d] = "hydrate" => todo[d] = {}
    BY <1>2 DEF MovesOn, SkipScan, Preflight, AdvanceCursor, PushOne, MarkPushed, HydrateDone
  <2> QED BY <1>1, <2>1, <2>2, <2>3 DEF AbsentPurged, Known
<1>3. CASE User(d) \/ HydrateEntry(d)
  <2>1. ~snapCurrent'[d]
    BY <1>1, <1>3 DEF User, Import, EditMeta, SetTrashed, Delete, UserChange, HydrateEntry, Bump,
                      TypeOK
  <2> QED BY <2>1
<1>4. CASE Seed(d)
  <2>1. snapCurrent' = snapCurrent /\ ~snapCurrent[d]
    BY <1>4 DEF Seed
  <2> QED BY <2>1
<1>5. CASE UploadBlobs(d)
  <2>1. /\ log' = log /\ affected' = affected /\ pc[d] = "upload"
        /\ snapCurrent'[d] => snapCurrent[d]
    BY <1>1, <1>5 DEF UploadBlobs, opVars, BumpIf, Bump, scanVars, TypeOK
  <2>2. local[d][e] = None
    BY <1>5, UploadOne
  <2>3. WinningPayload(d, e)' = WinningPayload(d, e)
    BY <2>1, SameWinner
  <2> QED BY <1>1, <2>1, <2>2, <2>3 DEF AbsentPurged, Known
<1>6. CASE Prepare(d)
  <2>1. /\ row' = row /\ local' = local /\ affected' = affected /\ pc[d] = "seeded" /\ scanClean[d]
    BY <1>1, <1>6 DEF Prepare, MarkerKept, libVars, passVars, TypeOK
  <2>2. local[d][e] = None /\ affected[d] = {} /\ (row[d][e] = None \/ row[d][e].deleted)
    BY <1>1, <2>1 DEF NothingAffected, SeedGone
  <2>3. CASE e \in Changed(d)
    <3>1. PICK o \in log'[d] : o.payload = Scanned(d, e) /\ Log!IsWinner(o, log'[d], e)
      BY <1>6, <2>3, PrepareWins
    <3>2. log'[d] \in SUBSET Op
      BY <1>6, StepTyped DEF Next, Pass, Scan, TypeOK
    <3>3. Log!Winner(log'[d], e) = o
      BY <3>1, <3>2, OnlyWinner
    <3>4. Scanned(d, e) = PurgedPayload(d, e)
      BY <2>2, <2>3, Zenon DEF Changed, Scanned
    <3> QED BY <3>1, <3>3, <3>4 DEF WinningPayload, PurgedPayload
  <2>4. CASE e \notin Changed(d)
    <3>1. Log!OpsFor(log'[d], e) = Log!OpsFor(log[d], e)
      BY <1>6, <2>4, PrepareWins
    <3>2. WinningPayload(d, e)' = WinningPayload(d, e) /\ Known(d, e)
      BY <3>1, SameWinner DEF Known
    <3>3. row[d][e] # None
      BY <1>1, <2>1, <2>2, <3>2 DEF RowKnown
    <3>4. Scanned(d, e) = PurgedPayload(d, e)
      BY <2>2, <3>3, Zenon DEF Scanned, IsDeleted
    <3>5. Scanned(d, e) # None
      <4>1. row[d][e] \in SyncRow
        BY <1>1, <3>3 DEF TypeOK
      <4>2. PurgedPayload(d, e) \in Payload
        BY <4>1 DEF PurgedPayload, SyncRow, Payload
      <4> QED BY <3>4, <4>2, NoneAssumption
    <3>6. Scanned(d, e) = version[d][e]
      BY <2>4, <3>5 DEF Changed
    <3>7. version[d][e] = WinningPayload(d, e)
      BY <1>1, <2>2, <3>2 DEF VersionWins
    <3> QED BY <3>2, <3>4, <3>6, <3>7 DEF PurgedPayload
  <2> QED BY <2>3, <2>4
<1>7. CASE PullBeforePush(d) \/ PullAfterPush(d)
  <2>1. /\ local' = local /\ snapCurrent' = snapCurrent /\ e \notin affected[d]
        /\ Log!OpsFor(log'[d], e) = Log!OpsFor(log[d], e)
    BY <1>1, <1>7, PullAffects
  <2>2. WinningPayload(d, e)' = WinningPayload(d, e)
    BY <2>1, SameWinner
  <2>3. pc[d] # "hydrate"
    BY <1>7 DEF PullBeforePush, PullAfterPush, Pull
  <2> QED BY <1>1, <2>1, <2>2, <2>3 DEF AbsentPurged, Known
<1>8. CASE MaterializeFirst(d) \/ MaterializeLast(d)
  <2>1. /\ log' = log /\ Materialize(d)
        /\ row'[d][e] = IF e \in affected[d] THEN RowOf(WinningPayload(d, e)) ELSE row[d][e]
        /\ local'[d][e] = IF e \in affected[d]
                          THEN Applied(local[d][e], e, WinningPayload(d, e), cache[d])
                          ELSE local[d][e]
        /\ e \in affected[d] => Known(d, e) /\ WinningPayload(d, e) \in Payload
    BY <1>8, MaterializeOne
  <2>2. WinningPayload(d, e)' = WinningPayload(d, e)
    BY <2>1, SameWinner
  <2>3. /\ snapCurrent[d] /\ pc[d] # "hydrate"
        /\ \A x \in affected[d] : local[d][x] = None
    BY <1>1, <1>8, <2>1 DEF MaterializeFirst, MaterializeLast, Materialize, BumpIf, Bump,
                            scanVars, TypeOK
  <2>4. CASE e \notin affected[d]
    BY <1>1, <2>1, <2>2, <2>3, <2>4 DEF AbsentPurged, Known
  <2>5. CASE e \in affected[d] /\ ~WinningPayload(d, e).purged
    <3>1. ~WinningPayload(d, e).deleted
      BY <2>1, <2>3, <2>5, AbsentWinner
    <3>2. row'[d][e].deleted = WinningPayload(d, e).deleted /\ row'[d][e] # None
      <4>1. \A p \in Payload : RowOf(p) \in SyncRow /\ RowOf(p).deleted = p.deleted
        BY DEF RowOf, Payload, SyncRow
      <4> QED BY <2>1, <2>5, <4>1, NoneAssumption
    <3>3. MaterializeLast(d)
      BY <1>8, <2>5 DEF MaterializeFirst
    <3>4. pc'[d] = "hydrate" /\ todo'[d] = NeedHydration(row'[d], local'[d])
      BY <1>1, <2>5, <3>3 DEF MaterializeLast, TypeOK
    <3> QED BY <3>1, <3>2, <3>4 DEF NeedHydration, IsDeleted
  <2> QED BY <2>2, <2>4, <2>5
<1> QED BY <1>2, <1>3, <1>4, <1>5, <1>6, <1>7, <1>8 DEF MovesOn, Pass, Scan, Exchange

(* Where entries are deleted, and neither trashed nor edited during passes, a scan finds no    *)
(* entry in the trash.                                                                           *)
LEMMA TrashIsPurgeKept ==
  ASSUME IInv, \A c \in Device, x \in Entry : TrashIsPurge(c, x),
         Never({"trash", "midpass"}), NEW d \in Device, User(d) \/ Pass(d), NEW e \in Entry
  PROVE  TrashIsPurge(d, e)'
<1>1. TypeOK /\ local[d][e] \in LocalRow \cup {None} /\ row[d][e] \in SyncRow \cup {None}
  BY DEF IInv, TypeOK
<1>2. CASE MovesOn(d)
  <2>1. log' = log /\ row' = row /\ local' = local
    BY <1>2, MovesOnFrame
  <2>2. pc'[d] # "seeded"
    BY <1>1, <1>2 DEF MovesOn, SkipScan, Preflight, AdvanceCursor, PushOne, MarkPushed,
                      HydrateDone, TypeOK
  <2> QED BY <2>1, <2>2 DEF TrashIsPurge
<1>3. CASE User(d)
  <2>1. log' = log /\ pc' = pc /\ pc[d] = "idle"
    BY <1>3 DEF User, Import, EditMeta, SetTrashed, Delete, UserChange, UserMay, opVars, Never
  <2>2. local'[d][e] = None \/ local'[d][e] = local[d][e] \/ ~local'[d][e].trashed
    <3>1. PICK x \in Entry : Import(d, x) \/ EditMeta(d, x) \/ Delete(d, x)
      BY <1>3 DEF User, SetTrashed, UserMay, Never
    <3>2. CASE x # e
      BY <1>1, <3>1, <3>2 DEF Import, EditMeta, Delete, UserChange, TypeOK
    <3>3. ASSUME NEW l, UserChange(d, e, l) PROVE local'[d][e] = l
      BY <1>1, <3>3 DEF UserChange, TypeOK
    <3>4. CASE Import(d, e)
      <4> DEFINE l == [meta |-> FileMeta, missing |-> FALSE, trashed |-> FALSE,
                       managed |-> FALSE,
                       stamp |-> IF local[d][e] = None THEN d ELSE local[d][e].stamp]
      <4>1. ~l.trashed /\ UserChange(d, e, l)
        BY <3>4 DEF Import
      <4> HIDE DEF l
      <4> QED BY <3>3, <4>1
    <3>5. CASE EditMeta(d, e)
      <4>1. PICK m \in Meta : UserChange(d, e, [local[d][e] EXCEPT !.meta = m])
        BY <3>5 DEF EditMeta
      <4> DEFINE l == [local[d][e] EXCEPT !.meta = m]
      <4>2. local[d][e] \in LocalRow
        BY <1>1, <3>5 DEF EditMeta
      <4>3. ~l.trashed /\ UserChange(d, e, l)
        BY <4>1, <4>2, NoneAssumption DEF LocalRow, TrashIsPurge
      <4> HIDE DEF l
      <4> QED BY <3>3, <4>3
    <3>6. CASE Delete(d, e)
      BY <3>3, <3>6 DEF Delete
    <3> QED BY <3>1, <3>2, <3>4, <3>5, <3>6
  <2> QED BY <2>1, <2>2 DEF TrashIsPurge
<1>4. CASE Seed(d)
  <2>1. log' = log /\ local' = local /\ row'[d][e] = SeededRow(d, e)
    BY <1>1, <1>4 DEF Seed, opVars, TypeOK
  <2>2. local[d][e] # None =>
          SeededRow(d, e) = [meta |-> local[d][e].meta, stamp |-> local[d][e].stamp,
                             deleted |-> local[d][e].trashed]
    BY Zenon DEF SeededRow
  <2> QED BY <2>1, <2>2 DEF TrashIsPurge
<1>5. CASE Prepare(d)
  <2>1. local' = local /\ row' = row /\ pc[d] = "seeded" /\ pc'[d] = "preflight"
    BY <1>1, <1>5 DEF Prepare, libVars, TypeOK
  <2>2. log'[d] \subseteq Op /\ \A o \in log'[d] : o \in log[d] \/ o.payload = Scanned(d, o.entity)
    <3>1. log'[d] \subseteq Op
      BY <1>5, StepTyped DEF Next, Pass, Scan, TypeOK
    <3> QED BY <1>1, <1>5, <3>1 DEF Prepare, TypeOK
  <2>3. ASSUME NEW o \in log'[d], o.entity = e, o.payload.deleted PROVE o.payload.purged
    <3>1. CASE o \in log[d]
      BY <2>3, <3>1 DEF TrashIsPurge
    <3>2. CASE o.payload = Scanned(d, e)
      <4>1. o.payload \in Payload /\ o.payload # None
        BY <2>2, NoneAssumption DEF Op, Log!Op
      <4>2. CASE local[d][e] = None
        <5>1. o.payload = PurgedPayload(d, e)
          BY <3>2, <4>1, <4>2, Zenon DEF Scanned
        <5> QED BY <5>1 DEF PurgedPayload
      <4>3. CASE local[d][e] # None
        <5>1. o.payload = LivePayload(d, e, IsDeleted(row[d][e]))
          BY <3>2, <4>3, Zenon DEF Scanned
        <5>2. ~IsDeleted(row[d][e])
          BY <2>1, <4>3 DEF TrashIsPurge, IsDeleted
        <5>3. o.payload.deleted = IsDeleted(row[d][e])
          BY <5>1 DEF LivePayload
        <5> QED BY <2>3, <5>2, <5>3
      <4> QED BY <4>2, <4>3
    <3> QED BY <2>2, <2>3, <3>1, <3>2
  <2> QED BY <2>1, <2>3 DEF TrashIsPurge
<1>6. CASE UploadBlobs(d)
  <2>1. pc'[d] = "pull1"
    BY <1>1, <1>6 DEF UploadBlobs, TypeOK
  <2> QED BY <1>6, <2>1, UploadOne DEF TrashIsPurge
<1>7. CASE PullBeforePush(d) \/ PullAfterPush(d)
  <2>1. PICK new \in SUBSET Published : log' = [log EXCEPT ![d] = log[d] \cup new]
    BY <1>7, PullLearns
  <2>2. \A o \in log'[d] : \E c \in Device : o \in log[c]
    BY <1>1, <2>1 DEF IInv, Log!IInv, Log!OriginKeeps, Log!AllOps, Published, Op, Log!Op,
                      Log!TypeOK
  <2>3. row' = row /\ local' = local /\ pc'[d] # "seeded"
    BY <1>1, <1>7 DEF PullBeforePush, PullAfterPush, Pull, libVars, TypeOK
  <2> QED BY <2>2, <2>3 DEF TrashIsPurge
<1>8. CASE MaterializeFirst(d) \/ MaterializeLast(d)
  <2>1. /\ log' = log
        /\ local'[d][e] = IF e \in affected[d]
                          THEN Applied(local[d][e], e, WinningPayload(d, e), cache[d])
                          ELSE local[d][e]
        /\ e \in affected[d] => Known(d, e) /\ WinningPayload(d, e) \in Payload
    BY <1>8, MaterializeOne
  <2>2. pc'[d] # "seeded"
    BY <1>1, <1>8 DEF MaterializeFirst, MaterializeLast, TypeOK
  <2>3. Known(d, e) /\ WinningPayload(d, e).deleted => WinningPayload(d, e).purged
    BY WinnerKnown DEF Known, TrashIsPurge
  <2>4. local'[d][e] # None => ~local'[d][e].trashed
    <3>1. CASE e \notin affected[d]
      BY <2>1, <3>1 DEF TrashIsPurge
    <3>2. CASE e \in affected[d] /\ (WinningPayload(d, e).purged \/ local[d][e] = None)
      BY <2>1, <3>2 DEF Applied
    <3>3. CASE e \in affected[d] /\ ~WinningPayload(d, e).purged /\ local[d][e] # None
      <4>1. Applied(local[d][e], e, WinningPayload(d, e), cache[d]).trashed
              = WinningPayload(d, e).deleted
        <5>1. \A l \in LocalRow, p \in Payload :
                ~p.purged /\ l # None => Applied(l, e, p, cache[d]).trashed = p.deleted
          BY DEF Applied, LocalRow, Payload
        <5> QED BY <1>1, <2>1, <3>3, <5>1
      <4> QED BY <2>1, <2>3, <3>3, <4>1
    <3> QED BY <3>1, <3>2, <3>3
  <2> QED BY <2>1, <2>2, <2>4 DEF TrashIsPurge
<1>9. CASE HydrateEntry(d)
  <2>1. log' = log /\ row' = row /\ pc' = pc /\ pc[d] = "hydrate"
    BY <1>9, HydrateOne
  <2>2. Known(d, e) /\ ~WinningPayload(d, e).purged => ~WinningPayload(d, e).deleted
    BY WinnerKnown DEF Known, TrashIsPurge
  <2>3. local'[d][e] # None => ~local'[d][e].trashed
    BY <1>9, <2>2, HydrateOne DEF TrashIsPurge
  <2> QED BY <2>1, <2>3 DEF TrashIsPurge
<1> QED BY <1>2, <1>3, <1>4, <1>5, <1>6, <1>7, <1>8, <1>9 DEF MovesOn, Pass, Scan, Exchange

LEMMA SkipInductive ==
  ASSUME IInv, SkipCalm => PurgeHeld /\ SkipHeld, [Next]_vars
  PROVE  (SkipCalm => PurgeHeld /\ SkipHeld)'
<1> SUFFICES ASSUME SkipCalm' PROVE PurgeHeld' /\ SkipHeld'
  OBVIOUS
<1>1. SkipCalm /\ PurgeHeld /\ SkipHeld /\ allowed' = allowed
  BY EventsSettled DEF SkipCalm, Never
<1>2. PurgeHeld'
  BY <1>1, PurgeInductive DEF SkipCalm, PurgeCalm, Never
<1>3. CASE UNCHANGED vars
  <2>1. \A d \in Device, e \in Entry : WinningPayload(d, e)' = WinningPayload(d, e)
    BY <1>3, SameWinner DEF vars, opVars
  <2>2. \A d \in Device : Pending(d)' = Pending(d) /\ \A e \in Entry : Known(d, e)' = Known(d, e)
    BY <1>3 DEF Pending, Known, vars, opVars
  <2>3. \A d \in Device, e \in Entry : EntryTidy(d, e)'
    BY <1>1, <1>3, <2>1, <2>2 DEF SkipHeld, EntryTidy, VersionWins, RowKnown, SeedGone,
       AbsentPurged, Entities, vars, opVars, libVars, scanVars, passVars
  <2> QED BY <1>1, <1>2, <1>3, <2>3 DEF SkipHeld, NothingAffected, TrashIsPurge,
             vars, opVars, libVars, passVars, userVars
<1>4. ASSUME NEW d \in Device, User(d) \/ Pass(d) PROVE SkipHeld'
  <2>1. "delete" \notin allowed' => discarded' = {}
    <3>1. CASE Pass(d)
      <4>1. CASE MovesOn(d) \/ Seed(d) \/ Prepare(d) \/ UploadBlobs(d) \/ HydrateEntry(d)
        BY <1>1, <4>1 DEF SkipHeld, MovesOn, SkipScan, Preflight, AdvanceCursor, PushOne,
           MarkPushed, HydrateDone, Seed, Prepare, UploadBlobs, HydrateEntry, userVars
      <4>2. CASE PullBeforePush(d) \/ PullAfterPush(d) \/ MaterializeFirst(d) \/ MaterializeLast(d)
        BY <1>1, <4>2 DEF SkipHeld, PullBeforePush, PullAfterPush, Pull, MaterializeFirst,
           MaterializeLast, Materialize, userVars
      <4> QED BY <3>1, <4>1, <4>2 DEF MovesOn, Pass, Scan, Exchange
    <3>2. CASE User(d)
      BY <1>1, <3>2 DEF SkipHeld, User, Import, EditMeta, SetTrashed, Delete, UserMay
    <3> QED BY <1>4, <3>1, <3>2
  <2>2. ASSUME NEW c \in Device, c # d
        PROVE  /\ log'[c] = log[c] /\ pushed'[c] = pushed[c] /\ version'[c] = version[c]
               /\ row'[c] = row[c] /\ local'[c] = local[c] /\ pc'[c] = pc[c]
               /\ affected'[c] = affected[c] /\ todo'[c] = todo[c] /\ batch'[c] = batch[c]
               /\ snapCurrent'[c] = snapCurrent[c] /\ scanClean'[c] = scanClean[c]
    BY <1>4, <2>2, OthersUntouched, OtherLogs DEF IInv
  <2>3. ASSUME NEW c \in Device PROVE NothingAffected(c)'
    <3>1. CASE c = d
      BY <1>1, <1>4, <3>1, NothingAffectedKept DEF SkipHeld
    <3>2. CASE c # d
      BY <1>1, <2>2, <3>2 DEF SkipHeld, NothingAffected
    <3> QED BY <3>1, <3>2
  <2>4. ASSUME NEW c \in Device, NEW e \in Entry PROVE EntryTidy(c, e)'
    <3>1. CASE c = d
      <4>1. NothingAffected(d) /\ EntryTidy(d, e)
        BY <1>1 DEF SkipHeld
      <4>2. VersionWins(d, e)' /\ RowKnown(d, e)' /\ SeedGone(d, e)' /\ AbsentPurged(d, e)'
        BY <1>1, <1>4, <4>1, VersionKept, RowKept, SeedGoneKept, AbsentKept DEF EntryTidy
      <4> QED BY <3>1, <4>2 DEF EntryTidy
    <3>2. CASE c # d
      <4>1. WinningPayload(c, e)' = WinningPayload(c, e)
        BY <2>2, <3>2, SameWinner
      <4>2. Pending(c)' = Pending(c) /\ Known(c, e)' = Known(c, e)
        BY <2>2, <3>2 DEF Pending, Known
      <4>3. EntryTidy(c, e)
        BY <1>1 DEF SkipHeld
      <4> QED BY <2>2, <3>2, <4>1, <4>2, <4>3 DEF EntryTidy, VersionWins, RowKnown, SeedGone,
                 AbsentPurged, Entities
    <3> QED BY <3>1, <3>2
  <2>5. ASSUME "delete" \in allowed, NEW c \in Device, NEW e \in Entry PROVE TrashIsPurge(c, e)'
    <3>1. Never({"trash", "midpass"}) /\ \A x \in Device, y \in Entry : TrashIsPurge(x, y)
      BY <1>1, <2>5 DEF SkipCalm, SkipHeld
    <3>2. CASE c = d
      BY <1>4, <3>1, <3>2, TrashIsPurgeKept
    <3>3. CASE c # d
      BY <2>2, <3>1, <3>3 DEF TrashIsPurge
    <3> QED BY <3>2, <3>3
  <2> QED BY <1>1, <2>1, <2>3, <2>4, <2>5 DEF SkipHeld
<1>5. ASSUME NEW d \in Device PROVE ~Interrupt(d)
  BY <1>1 DEF Interrupt, SkipCalm, Never
<1> QED BY <1>2, <1>3, <1>4, <1>5 DEF Next

(* Where passes run to their end and entries are trashed only when every device has them, and   *)
(* users either never delete for good or neither trash nor edit while passes run, a preflight     *)
(* that finds no work is right (run.rs): the library then shows of every entry what wins.          *)
THEOREM SkippedPassIsSafe ==
  Spec => []((/\ Never({"interrupt", "early_trash"})
              /\ "delete" \in allowed => Never({"trash", "midpass"})) => SkipIsSafe)
<1>1. Init => (SkipCalm => PurgeHeld /\ SkipHeld)
  <2> SUFFICES ASSUME Init PROVE PurgeHeld /\ SkipHeld
    OBVIOUS
  <2>1. PurgeHeld
    BY DEF Init, PurgeHeld, TrashHeld, TrashSeenAt, Everywhere, LiveRowHeld, NoSpuriousPurge
  <2>2. \A d \in Device, e \in Entry : ~Known(d, e) /\ row[d][e] = None /\ local[d][e] = None
    BY DEF Init, Known, Log!OpsFor
  <2>3. \A d \in Device, e \in Entry : EntryTidy(d, e)
    BY <2>2 DEF EntryTidy, VersionWins, RowKnown, SeedGone, AbsentPurged
  <2> QED BY <2>1, <2>2, <2>3 DEF Init, SkipHeld, NothingAffected, TrashIsPurge
<1>2. IInv /\ (SkipCalm => PurgeHeld /\ SkipHeld) /\ [Next]_vars
        => (SkipCalm => PurgeHeld /\ SkipHeld)'
  BY SkipInductive
<1>3. IInv /\ (SkipCalm => PurgeHeld /\ SkipHeld) =>
        ((/\ Never({"interrupt", "early_trash"})
          /\ "delete" \in allowed => Never({"trash", "midpass"})) => SkipIsSafe)
  <2> SUFFICES ASSUME IInv, SkipHeld, NEW d \in Device, pc[d] = "idle", snapCurrent[d],
                      NEW e \in Entry, Known(d, e)
               PROVE  Visible(d, e) = VisibleOf(WinningPayload(d, e))
    BY DEF SkipCalm, SkipIsSafe, Known
  <2>1. e \notin affected[d] /\ version[d][e] = WinningPayload(d, e)
    BY DEF SkipHeld, NothingAffected, EntryTidy, VersionWins
  <2>2. CASE local[d][e] = None
    <3>1. WinningPayload(d, e).purged
      BY <2>1, <2>2 DEF SkipHeld, EntryTidy, AbsentPurged
    <3> QED BY <2>2, <3>1 DEF Visible, VisibleOf
  <2>3. CASE local[d][e] # None
    <3>1. WinningPayload(d, e) = LivePayload(d, e, local[d][e].trashed)
      BY <2>1, <2>3 DEF IInv, SnapshotSound
    <3> QED BY <2>3, <3>1 DEF Visible, VisibleOf, LivePayload
  <2> QED BY <2>2, <2>3
<1> QED BY <1>1, <1>2, <1>3, Inductive, PTL DEF Spec
=============================================================================
