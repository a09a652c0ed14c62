------------------------------- MODULE OpLog -------------------------------
(* What the replicated operation log promises, whatever a stream carries: every *)
(* device keeps a growing set of immutable operations, an operation reaches the *)
(* other devices only through the shared log, and the operation a device uses  *)
(* for an entity is the last-writer-wins maximum of those it knows.            *)
(*                                                                             *)
(* The content stream of a library (CrdtSync) implements this specification.   *)
EXTENDS Integers, FiniteSets, WellFoundedInduction, TLAPS

CONSTANTS
  Device,      \* the devices of the one user; device ids are ordered as text
  Entity,      \* the entities of the stream
  Payload      \* the values a register can hold

VARIABLES
  known,       \* known[d]: the operations in d's sync_crdt_operations table
  published    \* the operations in the remote sync_operations table

vars == <<known, published>>

Op == [dev : Device, time : Nat, entity : Entity, payload : Payload]

(* The order of operation_wins: logical time, then device id. The third key of *)
(* the code, the operation id, never decides between operations of the log:    *)
(* StampsUnique below.                                                         *)
Beats(o, p) ==
  \/ o.time > p.time
  \/ o.time = p.time /\ o.dev > p.dev

OpsFor(ops, e) == {o \in ops : o.entity = e}

IsWinner(o, ops, e) ==
  /\ o \in OpsFor(ops, e)
  /\ \A p \in OpsFor(ops, e) : p = o \/ Beats(o, p)

(* winners_for_operations, for one entity that has an operation. *)
Winner(ops, e) == CHOOSE o \in OpsFor(ops, e) : IsWinner(o, ops, e)
-----------------------------------------------------------------------------
Init ==
  /\ known = [d \in Device |-> {}]
  /\ published = {}

(* A device records new operations of its own, each later than all it knows. *)
Record(d) ==
  LET new == known'[d] \ known[d] IN
  /\ known' = [known EXCEPT ![d] = @ \cup new]
  /\ new \subseteq Op
  /\ \A o \in new : o.dev = d /\ \A p \in known[d] : p.time < o.time
  /\ \A o, p \in new : o.time = p.time => o = p
  /\ UNCHANGED published

(* A device appends one of its own operations to the shared log. *)
Publish(d) ==
  /\ \E o \in known[d] : o.dev = d /\ published' = published \cup {o}
  /\ UNCHANGED known

(* A device learns operations of the shared log. *)
Learn(d) ==
  LET new == known'[d] \ known[d] IN
  /\ known' = [known EXCEPT ![d] = @ \cup new]
  /\ new \subseteq published
  /\ UNCHANGED published

Next == \E d \in Device : Record(d) \/ Publish(d) \/ Learn(d)

Spec == Init /\ [][Next]_vars
-----------------------------------------------------------------------------
AllOps == published \cup UNION {known[d] : d \in Device}

TypeOK ==
  /\ known \in [Device -> SUBSET Op]
  /\ published \subseteq Op

(* An operation that exists anywhere is still in the log of the device that    *)
(* recorded it (crdt.rs pushes from the local table and never deletes).         *)
OriginKeeps == \A o \in AllOps : o \in known[o.dev]

(* No two operations share a stamp: the logical time a device gives a new       *)
(* operation is past everything it knows (prepare_local_crdt_operations), so    *)
(* the order of operation_wins is total on the log and every device that knows  *)
(* the same operations picks the same winner.                                   *)
StampsUnique ==
  \A o, p \in AllOps : o.dev = p.dev /\ o.time = p.time => o = p

(* A device never goes back to an operation that a later one has beaten: what   *)
(* wins for an entity after a step is what won before it, or beats it.           *)
WinnerAdvances ==
  [][\A d \in Device, e \in Entity :
       \A o \in OpsFor(known[d], e), p \in OpsFor(known'[d], e) :
         IsWinner(o, known[d], e) /\ IsWinner(p, known'[d], e)
           => p = o \/ Beats(p, o)]_vars
-----------------------------------------------------------------------------
(* A bounded set of naturals has a greatest element: its distances to the bound   *)
(* have a least one.                                                              *)
LEMMA BoundedHasMax ==
  ASSUME NEW S, S \subseteq Nat, S # {}, NEW n \in Nat, \A x \in S : x <= n
  PROVE  \E x \in S : \A y \in S : y <= x
<1> DEFINE T == {n - x : x \in S}
<1>1. T \subseteq Nat
  OBVIOUS
<1>2. T # {}
  OBVIOUS
<1>3. PICK t \in T : \A u \in T : ~ (<<u, t>> \in OpToRel(<, Nat))
  <2> HIDE DEF T
  <2> QED BY <1>1, <1>2, NatLessThanWellFounded, WFMin, Zenon
<1>4. \A u \in T : ~ (u < t)
  <2> HIDE DEF T
  <2> QED BY <1>1, <1>3 DEF OpToRel
<1>5. PICK x \in S : t = n - x
  OBVIOUS
<1>6. \A y \in S : ~ (n - y < n - x)
  BY <1>4, <1>5
<1> QED BY <1>5, <1>6

(* The rule is total (operation_wins): a device that knows an operation of an       *)
(* entity has a winner for it, and only one, whatever the log, as long as stamps    *)
(* are unique.                                                                      *)
THEOREM WinnerIsWinner ==
  ASSUME Device \subseteq Nat, NEW m \in Nat, \A d \in Device : d <= m,
         NEW ops, ops \subseteq Op, NEW n \in Nat, \A o \in ops : o.time <= n,
         \A o, p \in ops : o.dev = p.dev /\ o.time = p.time => o = p,
         NEW e, OpsFor(ops, e) # {}
  PROVE  IsWinner(Winner(ops, e), ops, e)
<1> DEFINE S == OpsFor(ops, e)
           Times == {o.time : o \in S}
<1>1. S \subseteq Op /\ S \subseteq ops
  BY DEF OpsFor
<1>2. \E t \in Times : \A u \in Times : u <= t
  <2>1. Times \subseteq Nat /\ Times # {} /\ \A t \in Times : t <= n
    BY <1>1 DEF Op
  <2> HIDE DEF Times
  <2> QED BY <2>1, BoundedHasMax
<1>3. PICK last \in S : \A o \in S : o.time <= last.time
  BY <1>2
<1> DEFINE Devs == {o.dev : o \in {p \in S : p.time = last.time}}
<1>4. \E d \in Devs : \A c \in Devs : c <= d
  <2>1. Devs \subseteq Device
    BY <1>1 DEF Op
  <2>2. last.dev \in Devs
    BY <1>3
  <2> HIDE DEF Devs
  <2> QED BY <2>1, <2>2, BoundedHasMax
<1>5. PICK w \in S : w.time = last.time
                    /\ \A o \in S : o.time = last.time => o.dev <= w.dev
  BY <1>4
<1>6. ASSUME NEW p \in S PROVE p = w \/ Beats(w, p)
  <2>1. /\ p.time \in Nat /\ w.time \in Nat /\ p.dev \in Nat /\ w.dev \in Nat
        /\ p.time <= w.time
    BY <1>1, <1>3, <1>5 DEF Op
  <2>2. CASE p.time < w.time
    BY <2>1, <2>2 DEF Beats
  <2>3. CASE p.time = w.time
    <3>1. p.dev = w.dev \/ w.dev > p.dev
      BY <2>1, <2>3, <1>5
    <3>2. p.dev = w.dev => p = w
      BY <2>3, <1>1, <1>5
    <3> QED BY <3>1, <3>2, <2>3 DEF Beats
  <2> QED BY <2>1, <2>2, <2>3
<1>7. IsWinner(w, ops, e)
  BY <1>5, <1>6 DEF IsWinner
<1> QED BY <1>5, <1>7 DEF Winner
-----------------------------------------------------------------------------
IInv == TypeOK /\ OriginKeeps /\ StampsUnique

(* Recording keeps the invariant: the new operations are the device's own, later *)
(* than all it knows, and no operation of the device exists that it does not know.*)
LEMMA RecordPreserves ==
  ASSUME IInv, NEW d \in Device, Record(d)
  PROVE  IInv'
<1> DEFINE new == known'[d] \ known[d]
<1>1. /\ known' = [known EXCEPT ![d] = known[d] \cup new]
      /\ new \subseteq Op
      /\ \A o \in new : o.dev = d /\ \A p \in known[d] : p.time < o.time
      /\ \A o, p \in new : o.time = p.time => o = p
      /\ published' = published
  BY DEF Record
<1>2. known \in [Device -> SUBSET Op] /\ published \subseteq Op
  BY DEF IInv, TypeOK
<1> HIDE DEF new
<1>3. /\ known' \in [Device -> SUBSET Op] /\ known'[d] = known[d] \cup new
      /\ \A x \in Device : x # d => known'[x] = known[x]
  BY <1>1, <1>2
<1>4. AllOps' = AllOps \cup new
  BY <1>1, <1>3 DEF AllOps
<1>5. TypeOK'
  BY <1>1, <1>2, <1>3 DEF TypeOK
<1>6. OriginKeeps'
  BY <1>1, <1>3, <1>4 DEF OriginKeeps, IInv
<1>7. StampsUnique'
  <2> SUFFICES ASSUME NEW o \in AllOps \cup new, NEW p \in AllOps \cup new,
                      o.dev = p.dev, o.time = p.time
               PROVE  o = p
    BY <1>4 DEF StampsUnique
  <2>1. \A q \in AllOps : q.dev = d => q \in known[d]
    BY DEF IInv, OriginKeeps
  <2>2. \A q \in AllOps \cup new : q \in Op
    BY <1>1, <1>2 DEF AllOps
  <2>3. \A q \in new, r \in known[d] : q.time # r.time
    BY <1>1, <1>2, <2>2 DEF Op, AllOps
  <2>4. CASE o \in AllOps /\ p \in AllOps
    BY <2>4 DEF IInv, StampsUnique
  <2>5. CASE o \in new /\ p \in new
    BY <2>5, <1>1
  <2>6. CASE o \in new /\ p \in AllOps
    BY <2>6, <2>1, <2>3, <1>1
  <2>7. CASE o \in AllOps /\ p \in new
    BY <2>7, <2>1, <2>3, <1>1
  <2> QED BY <2>4, <2>5, <2>6, <2>7
<1> QED BY <1>5, <1>6, <1>7 DEF IInv

(* Publishing and learning move operations that exist already. *)
LEMMA SpreadPreserves ==
  ASSUME IInv, NEW d \in Device, Publish(d) \/ Learn(d)
  PROVE  IInv'
<1>1. known \in [Device -> SUBSET Op] /\ published \subseteq Op
  BY DEF IInv, TypeOK
<1>2. CASE Publish(d)
  <2>1. PICK o \in known[d] : published' = published \cup {o}
    BY <1>2 DEF Publish
  <2>2. known' = known
    BY <1>2 DEF Publish
  <2>3. AllOps' = AllOps
    BY <2>1, <2>2 DEF AllOps
  <2>4. TypeOK'
    BY <1>1, <2>1, <2>2 DEF TypeOK
  <2> QED BY <2>2, <2>3, <2>4 DEF IInv, OriginKeeps, StampsUnique
<1>3. CASE Learn(d)
  <2> DEFINE new == known'[d] \ known[d]
  <2>1. /\ known' = [known EXCEPT ![d] = known[d] \cup new]
        /\ new \subseteq published /\ published' = published
    BY <1>3 DEF Learn
  <2> HIDE DEF new
  <2>2. /\ known' \in [Device -> SUBSET Op]
        /\ \A x \in Device : known[x] \subseteq known'[x]
        /\ \A x \in Device : known'[x] \subseteq known[x] \cup published
    BY <1>1, <2>1
  <2>3. AllOps' = AllOps
    BY <2>1, <2>2 DEF AllOps
  <2>4. TypeOK'
    BY <1>1, <2>1, <2>2 DEF TypeOK
  <2>5. \A o \in AllOps : o.dev \in Device
    BY <1>1 DEF AllOps, Op
  <2>6. OriginKeeps'
    BY <2>2, <2>3, <2>5 DEF IInv, OriginKeeps
  <2> QED BY <2>3, <2>4, <2>6 DEF IInv, StampsUnique
<1> QED BY <1>2, <1>3

(* On every replicated log, whatever the devices and the payloads, no operation   *)
(* is lost by the device that recorded it and no two operations share a stamp.      *)
THEOREM LogInvariant == Spec => [](TypeOK /\ OriginKeeps /\ StampsUnique)
<1>1. Init => IInv
  BY DEF Init, IInv, TypeOK, OriginKeeps, StampsUnique, AllOps
<1>2. IInv /\ [Next]_vars => IInv'
  <2> SUFFICES ASSUME IInv, [Next]_vars PROVE IInv'
    OBVIOUS
  <2>1. CASE UNCHANGED vars
    BY <2>1 DEF vars, IInv, TypeOK, OriginKeeps, StampsUnique, AllOps
  <2>2. ASSUME NEW d \in Device, Record(d) PROVE IInv'
    BY <2>2, RecordPreserves
  <2>3. ASSUME NEW d \in Device, Publish(d) \/ Learn(d) PROVE IInv'
    BY <2>3, SpreadPreserves
  <2> QED BY <2>1, <2>2, <2>3 DEF Next
<1> QED BY <1>1, <1>2, PTL DEF Spec, IInv

(* On every replicated log, no device goes back on the operation it uses for an   *)
(* entity.                                                                         *)
THEOREM WinnerNeverRetreats == Spec => WinnerAdvances
<1> DEFINE Advance == \A d \in Device, e \in Entity :
       \A o \in OpsFor(known[d], e), p \in OpsFor(known'[d], e) :
         IsWinner(o, known[d], e) /\ IsWinner(p, known'[d], e)
           => p = o \/ Beats(p, o)
<1>1. TypeOK /\ [Next]_vars => [Advance]_vars
  <2> SUFFICES ASSUME TypeOK, Next PROVE Advance
    OBVIOUS
  <2>1. known \in [Device -> SUBSET Op]
    BY DEF TypeOK
  <2>2. \A d \in Device : known[d] \subseteq known'[d]
    BY <2>1 DEF Next, Record, Publish, Learn
  <2> QED BY <2>2 DEF IsWinner, OpsFor
<1>2. Spec => []TypeOK
  BY LogInvariant, PTL
<1> QED BY <1>1, <1>2, PTL DEF Spec, WinnerAdvances
=============================================================================
