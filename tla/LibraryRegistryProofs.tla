----------------------- MODULE LibraryRegistryProofs -----------------------
(* Proofs about LibraryRegistry, for any devices, libraries, scenarios and number of tasks: *)
(* its types; that nothing counts as deleted that no user deleted; and that neither a        *)
(* database nor, while tasks do not overlap, a profile is lost.                              *)
EXTENDS LibraryRegistry, TLAPS

(* Every operation, in Turso or in a database. *)
Files == {db[d][l] : d \in Device, l \in Library} \ {None}
Ops   == published \cup UNION {file.log : file \in Files}

(* The clock is past every operation, and a device makes one at a time of a library, so that *)
(* a library with an operation has a winner.                                                  *)
Stamped ==
  /\ \A o \in Ops : o.time < clock
  /\ \A o, p \in Ops : (o.dev = p.dev /\ o.time = p.time /\ o.entity = p.entity) => o = p

(* What counts as deleted was deleted by a user: in the stream, in every list, in what a task *)
(* brings back, and in what it is about to do.                                                *)
OpsGivenUp == \A o \in Ops : o.payload = Deleted => o.entity \in discarded
ListsGivenUp == \A d \in Device : mem[d].dead \subseteq discarded /\ disk[d].dead \subseteq discarded
GivenUp(t) ==
  /\ t.reg.dead \subseteq discarded
  /\ \A l \in Library : t.won[l] = Deleted => l \in discarded
  /\ t.step = "delete" => t.lib \in discarded
TasksGivenUp == \A d \in Device : \A s \in Slots[d] : GivenUp(task[d][s])

(* Without overlaps a device has one task, and neither its list, from when it brings it back *)
(* the one on disk too, nor the disk misses a profile of memory that was not deleted.          *)
Lost(from, to) == Profiles(from) \ Profiles(to)
OneTask(d) == \A r, s \in Slots[d] : r = s \/ task[d][r].step = "none" \/ task[d][s].step = "none"
Carries(d, t) ==
  /\ t.step # "none" => Lost(mem[d], t.reg) \subseteq discarded
  /\ t.step \in {"updated", "synced"} => Lost(t.reg, disk[d]) \subseteq discarded
Alone ==
  "overlap" \notin allowed =>
    \A d \in Device : /\ OneTask(d) /\ Lost(mem[d], disk[d]) \subseteq discarded
                      /\ \A s \in Slots[d] : Carries(d, task[d][s])

IInv == TypeOK /\ Stamped /\ OpsGivenUp /\ ListsGivenUp /\ TasksGivenUp /\ Alone
(* What a step leaves: the databases and the profiles that were not given up. *)
Kept ==
  /\ \A d \in Device, l \in Library : (db[d][l] # None /\ db'[d][l] = None) => l \in discarded
  /\ \A d \in Device : "overlap" \notin allowed => Lost(mem[d], mem'[d]) \subseteq discarded
-----------------------------------------------------------------------------
LEMMA FirstFits ==
  /\ FirstRegistry \in Registry /\ NoTask \in Tasks /\ NoTask.step = "none"
  /\ FirstRegistry.dead = {} /\ NoTask.reg.dead = {} /\ \A l \in Library : NoTask.won[l] = None
  /\ Fresh \in Stream /\ Fresh.log = {}
BY ConstantsAssumption DEF FirstRegistry, Registry, NoTask, Tasks, Steps, NoRows, Row, Fresh, Stream

LEMMA OpsTyped ==
  ASSUME TypeOK
  PROVE  /\ Ops \subseteq Op
         /\ \A d \in Device, l \in Library : db[d][l] # None => db[d][l].log \subseteq Ops
         /\ \A d \in Device, l \in Library : Opened(db[d][l]) \in Stream /\ Opened(db[d][l]).log \subseteq Ops
<1>1. \A d \in Device, l \in Library : db[d][l] \in Stream \cup {None}
  BY DEF TypeOK
<1>2. Ops \subseteq Op
  BY <1>1 DEF TypeOK, Ops, Files, Stream
<1>3. \A d \in Device, l \in Library : db[d][l] # None => db[d][l].log \subseteq Ops
  BY DEF Ops, Files
<1>4. \A d \in Device, l \in Library : Opened(db[d][l]) \in Stream /\ Opened(db[d][l]).log \subseteq Ops
  BY <1>1, <1>3, FirstFits DEF Opened
<1> QED BY <1>2, <1>3, <1>4

(* Operations that a step adds keep what is known of all of them, if they have the times of *)
(* the clock, which moves past them, and are of one device and one of each library at a time. *)
LEMMA OpsGrow ==
  ASSUME IInv, NEW d \in Device, NEW new \in SUBSET Op,
         \A o \in new : o.dev = d /\ o.time \in {clock, clock + 1},
         \A o, p \in new : (o.time = p.time /\ o.entity = p.entity) => o = p,
         \A o \in new : o.payload = Deleted => o.entity \in discarded,
         clock' = IF new = {} THEN clock ELSE clock + 2,
         published' \subseteq Ops \cup new,
         \A x \in Device, l \in Library : db'[x][l] # None => db'[x][l].log \subseteq Ops \cup new,
         discarded \subseteq discarded'
  PROVE  /\ Ops' \subseteq Ops \cup new /\ published' \subseteq Op /\ clock' \in Nat
         /\ Stamped' /\ OpsGivenUp'
<1>1. Ops \subseteq Op /\ clock \in Nat
  BY OpsTyped DEF IInv, TypeOK
<1>2. Ops' \subseteq Ops \cup new
  BY DEF Ops, Files
<1>3. \A o \in Ops : o.time < clock /\ o.time \in Nat
  BY <1>1 DEF IInv, Stamped, Op, Log!Op
<1>4. Stamped'
  <2>1. \A o \in Ops' : o.time < clock'
    BY <1>1, <1>2, <1>3
  <2>2. ASSUME NEW o \in Ops', NEW p \in Ops', o.dev = p.dev, o.time = p.time, o.entity = p.entity
        PROVE  o = p
    <3>1. CASE o \in Ops /\ p \in Ops
      BY <2>2, <3>1 DEF IInv, Stamped
    <3>2. CASE o \in new /\ p \in new
      BY <2>2, <3>2
    <3>3. CASE (o \in Ops /\ p \in new) \/ (o \in new /\ p \in Ops)
      BY <1>1, <1>3, <2>2, <3>3
    <3> QED BY <1>2, <3>1, <3>2, <3>3
  <2> QED BY <2>1, <2>2 DEF Stamped
<1>5. OpsGivenUp'
  BY <1>2 DEF IInv, OpsGivenUp
<1> QED BY <1>1, <1>2, <1>4, <1>5

(* Most steps make, keep or remove databases, and leave the operations alone. *)
LEMMA StoreKeeps ==
  ASSUME IInv, UNCHANGED streamVars, discarded \subseteq discarded',
         \A x \in Device, l \in Library : db'[x][l] \in {db[x][l], Fresh, None}
  PROVE  published' \subseteq Op /\ clock' \in Nat /\ Stamped' /\ OpsGivenUp'
<1>1. published' \subseteq Ops /\ clock' = clock
  BY DEF streamVars, Ops
<1>2. \A x \in Device, l \in Library : db'[x][l] # None => db'[x][l].log \subseteq Ops
  BY OpsTyped, FirstFits DEF IInv
<1>3. PICK d \in Device : TRUE
  BY ConstantsAssumption
<1> DEFINE new == {}
<1>4. /\ new \in SUBSET Op /\ \A o \in new : FALSE
      /\ clock' = IF new = {} THEN clock ELSE clock + 2
      /\ published' \subseteq Ops \cup new
      /\ \A x \in Device, l \in Library : db'[x][l] # None => db'[x][l].log \subseteq Ops \cup new
  BY <1>1, <1>2
<1> HIDE DEF new
<1> QED BY <1>3, <1>4, OpsGrow

(* One task of a device takes a step. *)
LEMMA TaskSet ==
  ASSUME IInv, NEW d \in Device, NEW s \in Slots[d], NEW t \in Tasks,
         task' = [task EXCEPT ![d][s] = t], discarded \subseteq discarded',
         t.reg.dead \subseteq discarded', \A l \in Library : t.won[l] = Deleted => l \in discarded',
         t.step = "delete" => t.lib \in discarded'
  PROVE  /\ DOMAIN task' = Device /\ \A x \in Device : task'[x] \in [Slots[x] -> Tasks]
         /\ \A x \in Device : \A r \in Slots[x] :
              task'[x][r] = IF x = d /\ r = s THEN t ELSE task[x][r]
         /\ TasksGivenUp'
<1>1. DOMAIN task = Device /\ \A x \in Device : task[x] \in [Slots[x] -> Tasks]
  BY DEF IInv, TypeOK
<1>2. /\ DOMAIN task' = Device /\ \A x \in Device : task'[x] \in [Slots[x] -> Tasks]
      /\ \A x \in Device : \A r \in Slots[x] :
           task'[x][r] = IF x = d /\ r = s THEN t ELSE task[x][r]
  BY <1>1
<1>3. TasksGivenUp'
  BY <1>2 DEF IInv, TasksGivenUp, GivenUp
<1> QED BY <1>2, <1>3

(* ... and the others of the device rest, unless tasks overlap. *)
LEMMA AloneGoesOn ==
  ASSUME IInv, NEW d \in Device, NEW s \in Slots[d], NEW t \in Tasks,
         \A x \in Device : \A r \in Slots[x] :
           task'[x][r] = IF x = d /\ r = s THEN t ELSE task[x][r],
         discarded \subseteq discarded', allowed' = allowed,
         \A x \in Device : x # d => mem'[x] = mem[x] /\ disk'[x] = disk[x],
         Free(d, s) \/ task[d][s].step # "none",
         "overlap" \notin allowed =>
           /\ Lost(mem'[d], disk'[d]) \subseteq discarded'
           /\ t.step # "none" => Lost(mem'[d], t.reg) \subseteq discarded'
           /\ t.step \in {"updated", "synced"} => Lost(t.reg, disk'[d]) \subseteq discarded'
  PROVE  Alone'
<1> SUFFICES ASSUME "overlap" \notin allowed, NEW x \in Device
             PROVE  /\ OneTask(x)' /\ Lost(mem'[x], disk'[x]) \subseteq discarded'
                    /\ \A r \in Slots[x] : Carries(x, task[x][r])'
  BY DEF Alone
<1>1. OneTask(x) /\ Lost(mem[x], disk[x]) \subseteq discarded /\ \A r \in Slots[x] : Carries(x, task[x][r])
  BY DEF IInv, Alone
<1>2. CASE x # d
  BY <1>1, <1>2 DEF OneTask, Carries
<1>3. CASE x = d
  <2>1. \A r \in Slots[d] : r # s => task'[d][r].step = "none"
    BY <1>1, <1>3 DEF OneTask, Free, Idle
  <2>2. OneTask(d)'
    BY <2>1 DEF OneTask
  <2>3. \A r \in Slots[d] : Carries(d, task[d][r])'
    <3> SUFFICES ASSUME NEW r \in Slots[d]
                 PROVE  /\ task'[d][r].step # "none" => Lost(mem'[d], task'[d][r].reg) \subseteq discarded'
                        /\ task'[d][r].step \in {"updated", "synced"} =>
                             Lost(task'[d][r].reg, disk'[d]) \subseteq discarded'
      BY DEF Carries
    <3> QED BY <2>1
  <2> QED BY <1>3, <2>2, <2>3
<1> QED BY <1>2, <1>3
-----------------------------------------------------------------------------
(* Databases that are made, or removed with a library that was given up. *)
LEMMA StoreGoesOn ==
  ASSUME IInv, NEW d \in Device, NEW file,
         UNCHANGED streamVars, discarded \subseteq discarded',
         db' = [db EXCEPT ![d] = file], file \in [Library -> Stream \cup {None}],
         \A l \in Library : file[l] \in {db[d][l], Opened(db[d][l])} \/ (file[l] = None /\ l \in discarded)
  PROVE  /\ db' \in [Device -> [Library -> Stream \cup {None}]]
         /\ published' \subseteq Op /\ clock' \in Nat /\ Stamped' /\ OpsGivenUp'
         /\ \A x \in Device, l \in Library : (db[x][l] # None /\ db'[x][l] = None) => l \in discarded
<1>1. db \in [Device -> [Library -> Stream \cup {None}]]
  BY DEF IInv, TypeOK
<1>2. /\ db' \in [Device -> [Library -> Stream \cup {None}]]
      /\ \A x \in Device : db'[x] = IF x = d THEN file ELSE db[x]
  BY <1>1
<1>3. \A x \in Device, l \in Library : db'[x][l] \in {db[x][l], Fresh, None}
  BY <1>2 DEF Opened
<1>4. \A x \in Device, l \in Library : (db[x][l] # None /\ db'[x][l] = None) => l \in discarded
  BY <1>2 DEF Opened
<1>5. published' \subseteq Op /\ clock' \in Nat /\ Stamped' /\ OpsGivenUp'
  BY <1>3, StoreKeeps
<1> QED BY <1>2, <1>4, <1>5

LEMMA StoreRests ==
  ASSUME IInv, UNCHANGED <<streamVars, db>>, discarded \subseteq discarded'
  PROVE  /\ db' \in [Device -> [Library -> Stream \cup {None}]]
         /\ published' \subseteq Op /\ clock' \in Nat /\ Stamped' /\ OpsGivenUp'
<1>1. \A x \in Device, l \in Library : db'[x][l] \in {db[x][l], Fresh, None}
  OBVIOUS
<1> QED BY <1>1, StoreKeeps DEF IInv, TypeOK

LEMMA IInvInit == Init => IInv
<1> SUFFICES ASSUME Init PROVE IInv
  OBVIOUS
<1>1. TypeOK
  <2>1. db \in [Device -> [Library -> Stream \cup {None}]]
    BY FirstFits, ConstantsAssumption DEF Init, NoRows
  <2>2. DOMAIN task = Device /\ \A d \in Device : task[d] \in [Slots[d] -> Tasks]
    BY FirstFits DEF Init
  <2> QED BY <2>1, <2>2, FirstFits, ConstantsAssumption DEF Init, TypeOK
<1>2. Ops = {}
  <2>1. \A d \in Device, l \in Library : db[d][l] # None => db[d][l] = Fresh
    BY DEF Init, NoRows
  <2>2. published = {}
    BY DEF Init
  <2> QED BY <2>1, <2>2, FirstFits DEF Ops, Files
<1>3. Stamped /\ OpsGivenUp
  BY <1>2 DEF Stamped, OpsGivenUp
<1>4. ListsGivenUp /\ TasksGivenUp
  BY FirstFits, ConstantsAssumption DEF Init, ListsGivenUp, TasksGivenUp, GivenUp
<1>5. Alone
  BY FirstFits DEF Init, Alone, OneTask, Lost, Carries
<1> QED BY <1>1, <1>3, <1>4, <1>5 DEF IInv

(* A user's request: a clone of the list, without what the user gives up. *)
LEMMA RequestKeeps ==
  ASSUME IInv, NEW d \in Device, NEW s \in Slots[d], NEW step \in {"create", "rename", "delete"},
         NEW l \in Library, NEW reg \in Registry, Request(d, s, step, l, reg),
         reg.dead \subseteq discarded', step = "delete" => l \in discarded',
         Lost(mem[d], reg) \subseteq discarded',
         used' \subseteq Library, discarded' \subseteq Library, discarded \subseteq discarded'
  PROVE  IInv' /\ Kept
<1> DEFINE t == [NoTask EXCEPT !.step = step, !.reg = reg, !.lib = l]
<1>1. /\ task' = [task EXCEPT ![d][s] = t] /\ Free(d, s)
      /\ UNCHANGED <<streamVars, db, mem, disk, ready, allowed>> /\ edits' = edits + 1
  BY DEF Request
<1>2. /\ t \in Tasks /\ t.reg = reg /\ t.step = step /\ t.lib = l
      /\ \A k \in Library : t.won[k] = None
  BY FirstFits DEF Tasks, Steps
<1> HIDE DEF t
<1>3. \A k \in Library : t.won[k] = Deleted => k \in discarded'
  BY <1>2, ConstantsAssumption
<1>4. /\ DOMAIN task' = Device /\ \A x \in Device : task'[x] \in [Slots[x] -> Tasks]
      /\ \A x \in Device : \A r \in Slots[x] :
           task'[x][r] = IF x = d /\ r = s THEN t ELSE task[x][r]
      /\ TasksGivenUp'
  BY <1>1, <1>2, <1>3, TaskSet
<1>5. Alone'
  <2>1. "overlap" \notin allowed => Lost(mem'[d], disk'[d]) \subseteq discarded'
    BY <1>1 DEF IInv, Alone
  <2> QED BY <1>1, <1>2, <1>4, <2>1, AloneGoesOn
<1>6. /\ db' \in [Device -> [Library -> Stream \cup {None}]]
      /\ published' \subseteq Op /\ clock' \in Nat /\ Stamped' /\ OpsGivenUp'
  BY <1>1, StoreRests
<1>7. ListsGivenUp'
  BY <1>1 DEF IInv, ListsGivenUp
<1>8. TypeOK'
  BY <1>1, <1>4, <1>6 DEF IInv, TypeOK
<1>9. Kept
  BY <1>1 DEF Kept, Lost
<1> QED BY <1>4, <1>5, <1>6, <1>7, <1>8, <1>9 DEF IInv

LEMMA MemTyped ==
  ASSUME IInv, NEW d \in Device
  PROVE  /\ mem[d] \in Registry /\ disk[d] \in Registry
         /\ mem[d].names \in [Library -> Name \cup {None}] /\ mem[d].dead \in SUBSET Library
         /\ mem[d].active \in Library
BY DEF IInv, TypeOK, Registry

LEMMA UserKeeps ==
  ASSUME IInv, NEW d \in Device, NEW s \in Slots[d], User(d, s)
  PROVE  IInv' /\ Kept
<1>1. /\ mem[d] \in Registry /\ mem[d].names \in [Library -> Name \cup {None}]
      /\ mem[d].dead \in SUBSET Library /\ mem[d].active \in Library
      /\ mem[d].dead \subseteq discarded /\ used \subseteq Library /\ discarded \subseteq Library
  BY MemTyped DEF IInv, TypeOK, ListsGivenUp
<1>2. CASE CreateLibrary(d, s)
  <2>1. PICK l \in Library :
          /\ Request(d, s, "create", l, [mem[d] EXCEPT !.names[l] = FirstName, !.active = l])
          /\ used' = used \cup {l} /\ discarded' = discarded
    BY <1>2 DEF CreateLibrary
  <2> DEFINE reg == [mem[d] EXCEPT !.names[l] = FirstName, !.active = l]
  <2>2. reg \in Registry /\ reg.dead = mem[d].dead /\ reg.names = [mem[d].names EXCEPT ![l] = FirstName]
    BY <1>1, ConstantsAssumption DEF Registry
  <2>3. Lost(mem[d], reg) = {}
    BY <1>1, <2>2, ConstantsAssumption DEF Lost, Profiles
  <2> HIDE DEF reg
  <2>4. Request(d, s, "create", l, reg)
    BY <2>1 DEF reg
  <2> QED BY <1>1, <2>1, <2>2, <2>3, <2>4, RequestKeeps
<1>3. CASE RenameLibrary(d, s)
  <2>1. PICK l \in Profiles(mem[d]), n \in Name :
          /\ Request(d, s, "rename", l, [mem[d] EXCEPT !.names[l] = n])
          /\ UNCHANGED <<used, discarded>>
    BY <1>3 DEF RenameLibrary
  <2> DEFINE reg == [mem[d] EXCEPT !.names[l] = n]
  <2>2. /\ l \in Library /\ reg \in Registry /\ reg.dead = mem[d].dead
        /\ reg.names = [mem[d].names EXCEPT ![l] = n]
    BY <1>1 DEF Registry, Profiles
  <2>3. Lost(mem[d], reg) = {}
    BY <1>1, <2>2, ConstantsAssumption DEF Lost, Profiles
  <2> HIDE DEF reg
  <2>4. Request(d, s, "rename", l, reg)
    BY <2>1 DEF reg
  <2> QED BY <1>1, <2>1, <2>2, <2>3, <2>4, RequestKeeps
<1>4. CASE DeleteLibrary(d, s)
  <2>1. PICK l \in Profiles(mem[d]) :
          /\ \E next \in NextActive([mem[d].names EXCEPT ![l] = None], mem[d].active, l) :
               Request(d, s, "delete", l,
                [names |-> [mem[d].names EXCEPT ![l] = None], dead |-> mem[d].dead \cup {l}, active |-> next])
          /\ discarded' = discarded \cup {l} /\ used' = used
    BY <1>4, Zenon DEF DeleteLibrary
  <2>2. PICK next \in NextActive([mem[d].names EXCEPT ![l] = None], mem[d].active, l) :
          Request(d, s, "delete", l,
            [names |-> [mem[d].names EXCEPT ![l] = None], dead |-> mem[d].dead \cup {l}, active |-> next])
    BY <2>1
  <2> DEFINE reg == [names |-> [mem[d].names EXCEPT ![l] = None], dead |-> mem[d].dead \cup {l},
                     active |-> next]
  <2>3. l \in Library /\ next \in Library
    BY <1>1, ConstantsAssumption DEF Profiles, NextActive
  <2>4. reg \in Registry /\ reg.dead = mem[d].dead \cup {l}
    BY <1>1, <2>3 DEF Registry
  <2>5. Lost(mem[d], reg) \subseteq {l}
    BY <1>1 DEF Lost, Profiles
  <2> HIDE DEF reg
  <2>6. Request(d, s, "delete", l, reg)
    BY <2>2 DEF reg
  <2> QED BY <1>1, <2>1, <2>3, <2>4, <2>5, <2>6, RequestKeeps
<1> QED BY <1>2, <1>3, <1>4 DEF User
-----------------------------------------------------------------------------
LEMMA TaskTyped ==
  ASSUME IInv, NEW d \in Device, NEW s \in Slots[d]
  PROVE  LET t == task[d][s] IN
         /\ t \in Tasks /\ t.reg \in Registry /\ t.lib \in Library /\ t.won \in [Library -> Row]
         /\ t.reg.names \in [Library -> Name \cup {None}] /\ t.reg.dead \in SUBSET Library
         /\ t.reg.active \in Library /\ t.step \in Steps /\ t.push \in BOOLEAN
         /\ t.reg.dead \subseteq discarded /\ \A l \in Library : t.won[l] = Deleted => l \in discarded
         /\ t.step = "delete" => t.lib \in discarded
<1>1. task[d][s] \in Tasks
  BY DEF IInv, TypeOK
<1>2. GivenUp(task[d][s])
  BY DEF IInv, TasksGivenUp
<1> QED BY <1>1, <1>2 DEF Tasks, Registry, GivenUp

(* A user's task saves the list, and makes or removes its database. *)
LEMMA UserTaskKeeps ==
  ASSUME IInv, NEW d \in Device, NEW s \in Slots[d], UserTask(d, s)
  PROVE  IInv' /\ Kept
<1> DEFINE t == task[d][s]
           after == [t EXCEPT !.step = "updated"]
           file == [db[d] EXCEPT ![t.lib] =
                     IF t.step = "create" THEN Opened(@) ELSE IF t.step = "delete" THEN None ELSE @]
<1>1. /\ t \in Tasks /\ t.reg \in Registry /\ t.lib \in Library /\ t.reg.dead \subseteq discarded
      /\ \A l \in Library : t.won[l] = Deleted => l \in discarded
      /\ t.step = "delete" => t.lib \in discarded
  BY TaskTyped
<1>2. /\ t.step \in {"create", "rename", "delete"} /\ t.step # "none"
      /\ disk' = [disk EXCEPT ![d] = t.reg] /\ db' = [db EXCEPT ![d] = file]
      /\ task' = [task EXCEPT ![d][s] = after]
      /\ UNCHANGED <<streamVars, mem, ready, used, discarded, edits, allowed>>
  BY DEF UserTask, userVars
<1>3. after \in Tasks /\ after.reg = t.reg /\ after.step = "updated" /\ after.won = t.won
  BY <1>1 DEF Tasks, Steps
<1>4. /\ file \in [Library -> Stream \cup {None}]
      /\ \A l \in Library : file[l] \in {db[d][l], Opened(db[d][l])} \/ (file[l] = None /\ l \in discarded)
  <2>1. db[d] \in [Library -> Stream \cup {None}] /\ Opened(db[d][t.lib]) \in Stream
    BY <1>1, OpsTyped DEF IInv, TypeOK
  <2> QED BY <1>1, <2>1
<1>5. disk \in [Device -> Registry] /\ disk'[d] = t.reg /\ \A x \in Device : x # d => disk'[x] = disk[x]
  BY <1>2 DEF IInv, TypeOK
<1> HIDE DEF after, file
<1>6. /\ DOMAIN task' = Device /\ \A x \in Device : task'[x] \in [Slots[x] -> Tasks]
      /\ \A x \in Device : \A r \in Slots[x] :
           task'[x][r] = IF x = d /\ r = s THEN after ELSE task[x][r]
      /\ TasksGivenUp'
  BY <1>1, <1>2, <1>3, TaskSet
<1>7. Alone'
  <2>1. "overlap" \notin allowed => Lost(mem[d], t.reg) \subseteq discarded
    BY <1>2 DEF IInv, Alone, Carries
  <2>2. Lost(t.reg, t.reg) = {}
    BY DEF Lost
  <2> HIDE DEF t
  <2>3. task[d][s].step # "none"
    BY <1>2 DEF t
  <2> QED BY <1>2, <1>3, <1>5, <1>6, <2>1, <2>2, <2>3, AloneGoesOn
<1>8. /\ db' \in [Device -> [Library -> Stream \cup {None}]]
      /\ published' \subseteq Op /\ clock' \in Nat /\ Stamped' /\ OpsGivenUp'
      /\ \A x \in Device, l \in Library : (db[x][l] # None /\ db'[x][l] = None) => l \in discarded
  BY <1>2, <1>4, StoreGoesOn
<1>9. ListsGivenUp'
  BY <1>1, <1>2, <1>5 DEF IInv, ListsGivenUp
<1>10. TypeOK'
  BY <1>1, <1>2, <1>5, <1>6, <1>8 DEF IInv, TypeOK
<1>11. Kept
  BY <1>2, <1>8 DEF Kept, Lost
<1> QED BY <1>6, <1>7, <1>8, <1>9, <1>10, <1>11 DEF IInv

LEMMA SelectLibraryKeeps ==
  ASSUME IInv, NEW d \in Device, SelectLibrary(d)
  PROVE  IInv' /\ Kept
<1>1. PICK l \in Profiles(mem[d]) :
        /\ mem' = [mem EXCEPT ![d].active = l] /\ db' = [db EXCEPT ![d][l] = Opened(@)]
  BY DEF SelectLibrary
<1>2. /\ disk' = [disk EXCEPT ![d] = mem'[d]] /\ edits' = edits + 1
      /\ UNCHANGED <<streamVars, task, ready, used, discarded, allowed>>
      /\ "overlap" \in allowed \/ Idle(d)
  BY DEF SelectLibrary
<1> DEFINE reg == [mem[d] EXCEPT !.active = l]
           file == [db[d] EXCEPT ![l] = Opened(@)]
<1>3. /\ l \in Library /\ mem \in [Device -> Registry] /\ disk \in [Device -> Registry]
      /\ db \in [Device -> [Library -> Stream \cup {None}]]
  BY <1>1 DEF Profiles, IInv, TypeOK
<1>4. reg \in Registry /\ reg.names = mem[d].names /\ reg.dead = mem[d].dead
  BY <1>3 DEF Registry
<1>5. mem' = [mem EXCEPT ![d] = reg] /\ db' = [db EXCEPT ![d] = file]
  BY <1>1, <1>3
<1>6. /\ file \in [Library -> Stream \cup {None}]
      /\ \A k \in Library : file[k] \in {db[d][k], Opened(db[d][k])}
  <2>1. db[d] \in [Library -> Stream \cup {None}] /\ Opened(db[d][l]) \in Stream
    BY <1>3, OpsTyped DEF IInv
  <2> QED BY <1>3, <2>1
<1> HIDE DEF reg, file
<1>7. /\ mem' \in [Device -> Registry] /\ disk' \in [Device -> Registry]
      /\ mem'[d] = reg /\ disk'[d] = reg
      /\ \A x \in Device : x # d => mem'[x] = mem[x] /\ disk'[x] = disk[x]
  BY <1>2, <1>3, <1>4, <1>5
<1>8. /\ db' \in [Device -> [Library -> Stream \cup {None}]]
      /\ published' \subseteq Op /\ clock' \in Nat /\ Stamped' /\ OpsGivenUp'
      /\ \A x \in Device, k \in Library : (db[x][k] # None /\ db'[x][k] = None) => k \in discarded
  BY <1>2, <1>5, <1>6, StoreGoesOn
<1>9. ListsGivenUp' /\ TasksGivenUp'
  BY <1>2, <1>4, <1>7 DEF IInv, ListsGivenUp, TasksGivenUp, GivenUp
<1>10. Alone'
  <2> SUFFICES ASSUME "overlap" \notin allowed, NEW x \in Device
               PROVE  /\ OneTask(x)' /\ Lost(mem'[x], disk'[x]) \subseteq discarded'
                      /\ \A r \in Slots[x] : Carries(x, task[x][r])'
    BY <1>2 DEF Alone
  <2>1. OneTask(x) /\ Lost(mem[x], disk[x]) \subseteq discarded /\ \A r \in Slots[x] : Carries(x, task[x][r])
    BY DEF IInv, Alone
  <2>2. CASE x # d
    BY <1>2, <1>7, <2>1, <2>2 DEF OneTask, Carries
  <2>3. CASE x = d
    BY <1>2, <1>7, <2>1, <2>3 DEF OneTask, Carries, Idle, Lost
  <2> QED BY <2>2, <2>3
<1>11. TypeOK'
  BY <1>2, <1>7, <1>8 DEF IInv, TypeOK
<1>12. Kept
  BY <1>2, <1>4, <1>7, <1>8 DEF Kept, Lost, Profiles
<1> QED BY <1>8, <1>9, <1>10, <1>11, <1>12 DEF IInv

(* A sync begins with a clone of the list. *)
LEMMA SyncTaskFits ==
  ASSUME NEW reg \in Registry, NEW push \in BOOLEAN
  PROVE  LET t == SyncTask(reg, push) IN
         /\ t \in Tasks /\ t.step \in {"none", "sync"} /\ t.reg.dead \subseteq reg.dead
         /\ t.step # "none" => t.reg = reg
         /\ \A l \in Library : t.won[l] # Deleted
<1>1. reg.active \in Library
  BY DEF Registry
<1>2. [NoTask EXCEPT !.step = "sync", !.reg = reg, !.lib = reg.active, !.push = push] \in Tasks
  BY <1>1, FirstFits DEF Tasks, Steps
<1> QED BY <1>2, FirstFits, ConstantsAssumption DEF SyncTask, Tasks

LEMMA StartedKeeps ==
  ASSUME IInv, NEW d \in Device, Started(d)
  PROVE  IInv' /\ Kept
<1>1. PICK s \in Slots[d], push \in BOOLEAN :
        /\ Free(d, s) /\ task' = [task EXCEPT ![d][s] = SyncTask(mem[d], push)]
        /\ UNCHANGED <<streamVars, db, mem, disk, userVars>> /\ ready' \in [Device -> BOOLEAN]
  BY DEF Started, StartupReady, RemoteAvailable, IInv, TypeOK
<1> DEFINE t == SyncTask(mem[d], push)
<1>2. /\ t \in Tasks /\ t.step \in {"none", "sync"} /\ t.reg.dead \subseteq mem[d].dead
      /\ t.step # "none" => t.reg = mem[d]
      /\ \A l \in Library : t.won[l] # Deleted
  BY MemTyped, SyncTaskFits
<1>3. UNCHANGED <<used, discarded, edits, allowed>>
  BY <1>1 DEF userVars
<1>4. task' = [task EXCEPT ![d][s] = t]
  BY <1>1
<1> HIDE DEF t
<1>5. t.reg.dead \subseteq discarded
  BY <1>2 DEF IInv, ListsGivenUp
<1>6. /\ DOMAIN task' = Device /\ \A x \in Device : task'[x] \in [Slots[x] -> Tasks]
      /\ \A x \in Device : \A r \in Slots[x] :
           task'[x][r] = IF x = d /\ r = s THEN t ELSE task[x][r]
      /\ TasksGivenUp'
  BY <1>2, <1>3, <1>4, <1>5, TaskSet
<1>7. Alone'
  <2>1. "overlap" \notin allowed => Lost(mem'[d], disk'[d]) \subseteq discarded'
    BY <1>1, <1>3 DEF IInv, Alone
  <2>2. t.step # "none" => Lost(mem'[d], t.reg) \subseteq discarded'
    BY <1>1, <1>2 DEF Lost
  <2> QED BY <1>1, <1>2, <1>3, <1>6, <2>1, <2>2, AloneGoesOn
<1>8. /\ db' \in [Device -> [Library -> Stream \cup {None}]]
      /\ published' \subseteq Op /\ clock' \in Nat /\ Stamped' /\ OpsGivenUp'
  BY <1>1, <1>3, StoreRests
<1>9. ListsGivenUp'
  BY <1>1, <1>3 DEF IInv, ListsGivenUp
<1>10. TypeOK'
  BY <1>1, <1>3, <1>6, <1>8 DEF IInv, TypeOK
<1>11. Kept
  BY <1>1 DEF Kept, Lost
<1> QED BY <1>6, <1>7, <1>8, <1>9, <1>10, <1>11 DEF IInv
-----------------------------------------------------------------------------
(* The rows that a sync records: of the device, at the times of the clock, one of a library *)
(* at a time, and a tombstone only of what was given up.                                     *)
LEMMA NewOpsFit ==
  ASSUME IInv, NEW d \in Device, NEW t, t.reg \in Registry, t.reg.dead \subseteq discarded,
         NEW file, NEW again
  PROVE  /\ NewOps(d, t, file, again) \in SUBSET Op
         /\ \A o \in NewOps(d, t, file, again) : o.dev = d /\ o.time \in {clock, clock + 1}
         /\ \A o, p \in NewOps(d, t, file, again) : (o.time = p.time /\ o.entity = p.entity) => o = p
         /\ \A o \in NewOps(d, t, file, again) : o.payload = Deleted => o.entity \in discarded
<1> DEFINE live == {l \in Profiles(t.reg) : file.version[l] # t.reg.names[l] \/ l \in again}
           dead == {l \in t.reg.dead : file.version[l] # Deleted \/ l \in again \cup live}
           Live(l) == [dev |-> d, time |-> clock, entity |-> l, payload |-> t.reg.names[l]]
           Dead(l) == [dev |-> d, time |-> clock + 1, entity |-> l, payload |-> Deleted]
<1>1. NewOps(d, t, file, again) = {Live(l) : l \in live} \cup {Dead(l) : l \in dead}
  BY DEF NewOps
<1>2. \A l \in live : l \in Library /\ t.reg.names[l] \in Name
  BY DEF Profiles, Registry
<1>3. dead \subseteq t.reg.dead /\ dead \subseteq Library
  BY DEF Registry
<1>4. clock \in Nat /\ Deleted \notin Name
  BY ConstantsAssumption DEF IInv, TypeOK
<1> HIDE DEF live, dead
<1>5. \A o \in {Live(l) : l \in live} : /\ o \in Op /\ o.dev = d /\ o.time = clock
                                      /\ o.payload = t.reg.names[o.entity] /\ o.payload # Deleted
  BY <1>2, <1>4 DEF Op, Log!Op
<1>6. \A o \in {Dead(l) : l \in dead} : /\ o \in Op /\ o.dev = d /\ o.time = clock + 1
                                      /\ o.payload = Deleted /\ o.entity \in discarded
  BY <1>3, <1>4 DEF Op, Log!Op
<1>7. \A o, p \in Op : (o.dev = p.dev /\ o.time = p.time /\ o.entity = p.entity /\ o.payload = p.payload) => o = p
  BY DEF Op, Log!Op
<1> HIDE DEF Live, Dead
<1>8. clock # clock + 1
  BY <1>4
<1> QED BY <1>1, <1>5, <1>6, <1>7, <1>8

(* What a sync leaves of a row in the database. *)
LEMMA RecordedFits ==
  ASSUME NEW t, t.reg \in Registry, NEW file \in Stream, NEW new \in SUBSET Op
  PROVE  /\ Recorded(t, file, new) \in Stream
         /\ Recorded(t, file, new).log = file.log \cup new
BY ConstantsAssumption DEF Recorded, Stream, Registry, Profiles, Row

(* The rows that win are rows, and a tombstone wins only if there is one. *)
LEMMA WonFits ==
  ASSUME NEW ops \in SUBSET Op, NEW n \in Nat, \A o \in ops : o.time < n,
         \A o, p \in ops : (o.dev = p.dev /\ o.time = p.time /\ o.entity = p.entity) => o = p
  PROVE  /\ Won(ops) \in [Library -> Row]
         /\ \A l \in Library : Won(ops)[l] = Deleted => \E o \in ops : o.entity = l /\ o.payload = Deleted
<1>1. ASSUME NEW l \in Library, Log!OpsFor(ops, l) # {}
      PROVE  Log!Winner(ops, l) \in ops /\ Log!Winner(ops, l).entity = l
  <2> DEFINE S == Log!OpsFor(ops, l)
  <2>1. S \subseteq Op /\ S \subseteq ops /\ \A o \in S : o.entity = l
    BY DEF Log!OpsFor
  <2>2. Log!OpsFor(S, l) = S
    BY DEF Log!OpsFor
  <2>3. Log!Winner(S, l) = Log!Winner(ops, l)
    BY <2>2 DEF Log!Winner, Log!IsWinner
  <2>4. PICK m \in Nat : \A d \in Device : d <= m
    BY ConstantsAssumption
  <2>5. \A o \in S : o.time <= n
    BY <2>1 DEF Op, Log!Op
  <2>6. \A o, p \in S : o.dev = p.dev /\ o.time = p.time => o = p
    BY <2>1
  <2> HIDE DEF S
  <2>7. S # {}
    BY <1>1 DEF S
  <2>8. Log!IsWinner(Log!Winner(S, l), S, l)
    BY <2>1, <2>2, <2>4, <2>5, <2>6, <2>7, ConstantsAssumption, Log!WinnerIsWinner DEF Op
  <2> QED BY <2>1, <2>2, <2>3, <2>8 DEF Log!IsWinner
<1>2. \A l \in Library : Won(ops)[l] \in Row
  BY <1>1 DEF Won, Row, Op, Log!Op
<1>3. ASSUME NEW l \in Library, Won(ops)[l] = Deleted
      PROVE  \E o \in ops : o.entity = l /\ o.payload = Deleted
  BY <1>1, <1>3, ConstantsAssumption DEF Won
<1>4. Won(ops) \in [Library -> Row]
  BY <1>2 DEF Won
<1> QED BY <1>3, <1>4

LEMMA SyncExchangeKeeps ==
  ASSUME IInv, NEW d \in Device, NEW s \in Slots[d], SyncExchange(d, s)
  PROVE  IInv' /\ Kept
<1> DEFINE t == task[d][s]
           file == Opened(db[d][t.lib])
           New(again) == IF t.push THEN NewOps(d, t, file, again) ELSE {}
           Rec(again) == IF t.push THEN Recorded(t, file, New(again)) ELSE file
<1>1. /\ t \in Tasks /\ t.reg \in Registry /\ t.lib \in Library /\ t.reg.dead \subseteq discarded
      /\ \A l \in Library : t.won[l] = Deleted => l \in discarded
      /\ file \in Stream /\ file.log \subseteq Ops
  BY TaskTyped, OpsTyped DEF IInv
<1>2. PICK again \in Rewritten(t.reg) :
        LET new == New(again)  rec == Rec(again)
            own == {o \in rec.log : o.dev = d}
            all == rec.log \cup published IN
        /\ clock' = IF new = {} THEN clock ELSE clock + 2
        /\ \/ /\ published' = published \cup own
              /\ db' = [db EXCEPT ![d][t.lib] = [rec EXCEPT !.log = all]]
              /\ task' = [task EXCEPT ![d][s].step = "merge", ![d][s].won = Won(all)]
              /\ UNCHANGED edits
           \/ /\ "failure" \in allowed /\ edits < MaxEdits[allowed]
              /\ edits' = edits + 1
              /\ \E log \in {rec.log, all}, sent \in SUBSET own :
                   /\ sent # {} => log = all
                   /\ published' = published \cup sent
                   /\ db' = [db EXCEPT ![d][t.lib] = [rec EXCEPT !.log = log]]
              /\ task' = [task EXCEPT ![d][s] = NoTask]
  BY Zenon DEF SyncExchange
<1> DEFINE new == New(again)
           rec == Rec(again)
           all == rec.log \cup published
<1>3. t.step = "sync" /\ UNCHANGED <<mem, disk, ready, used, discarded, allowed>>
  BY DEF SyncExchange
<1>4. /\ new \in SUBSET Op
      /\ \A o \in new : o.dev = d /\ o.time \in {clock, clock + 1}
      /\ \A o, p \in new : (o.time = p.time /\ o.entity = p.entity) => o = p
      /\ \A o \in new : o.payload = Deleted => o.entity \in discarded
  BY <1>1, NewOpsFit
<1>5. rec \in Stream /\ rec.log \subseteq Ops \cup new
  BY <1>1, <1>4, RecordedFits
<1>6. \E log, after :
        /\ (log = all /\ after = [t EXCEPT !.step = "merge", !.won = Won(all)]) \/ after = NoTask
        /\ log \in SUBSET all /\ task' = [task EXCEPT ![d][s] = after]
        /\ db' = [db EXCEPT ![d][t.lib] = [rec EXCEPT !.log = log]]
        /\ published' \subseteq published \cup rec.log
        /\ edits' \in {edits, edits + 1}
        /\ clock' = IF new = {} THEN clock ELSE clock + 2
  <2>1. CASE /\ published' = published \cup {o \in rec.log : o.dev = d}
             /\ db' = [db EXCEPT ![d][t.lib] = [rec EXCEPT !.log = all]]
             /\ task' = [task EXCEPT ![d][s].step = "merge", ![d][s].won = Won(all)]
             /\ UNCHANGED edits
    <3>1. task' = [task EXCEPT ![d][s] = [t EXCEPT !.step = "merge", !.won = Won(all)]]
      BY <2>1 DEF IInv, TypeOK
    <3>2. published' \subseteq published \cup rec.log /\ edits' = edits
      BY <2>1
    <3>3. clock' = IF new = {} THEN clock ELSE clock + 2
      BY <1>2
    <3>4. db' = [db EXCEPT ![d][t.lib] = [rec EXCEPT !.log = all]]
      BY <2>1
    <3> HIDE DEF all, rec, t, new
    <3> WITNESS all, [t EXCEPT !.step = "merge", !.won = Won(all)]
    <3> QED BY <3>1, <3>2, <3>3, <3>4
  <2>2. CASE /\ edits' = edits + 1
             /\ \E log \in {rec.log, all}, sent \in SUBSET {o \in rec.log : o.dev = d} :
                  /\ published' = published \cup sent
                  /\ db' = [db EXCEPT ![d][t.lib] = [rec EXCEPT !.log = log]]
             /\ task' = [task EXCEPT ![d][s] = NoTask]
    <3>1. PICK log \in {rec.log, all}, sent \in SUBSET {o \in rec.log : o.dev = d} :
            /\ published' = published \cup sent
            /\ db' = [db EXCEPT ![d][t.lib] = [rec EXCEPT !.log = log]]
      BY <2>2
    <3>2. log \in SUBSET all /\ published' \subseteq published \cup rec.log
      BY <3>1
    <3> HIDE DEF all, rec, t, new
    <3> QED BY <1>2, <2>2, <3>1, <3>2 DEF new
  <2> QED BY <1>2, <2>1, <2>2
<1> HIDE DEF t, file, New, Rec, new, rec, all
<1>7. PICK log, after :
        /\ (log = all /\ after = [t EXCEPT !.step = "merge", !.won = Won(all)]) \/ after = NoTask
        /\ log \in SUBSET all /\ task' = [task EXCEPT ![d][s] = after]
        /\ db' = [db EXCEPT ![d][t.lib] = [rec EXCEPT !.log = log]]
        /\ published' \subseteq published \cup rec.log
        /\ edits' \in {edits, edits + 1}
        /\ clock' = IF new = {} THEN clock ELSE clock + 2
  BY <1>6
<1> DEFINE stored == [rec EXCEPT !.log = log]
<1>8. all \in SUBSET Op /\ all \subseteq Ops \cup new
  BY <1>4, <1>5, OpsTyped DEF IInv, all, Ops
<1>9. stored \in Stream /\ stored.log = log
  BY <1>5, <1>7, <1>8 DEF Stream
<1>10. /\ db' \in [Device -> [Library -> Stream \cup {None}]]
       /\ \A x \in Device, l \in Library : db'[x][l] = IF x = d /\ l = t.lib THEN stored ELSE db[x][l]
  <2>1. db \in [Device -> [Library -> Stream \cup {None}]] /\ db' = [db EXCEPT ![d][t.lib] = stored]
    BY <1>7 DEF IInv, TypeOK
  <2> HIDE DEF stored
  <2> QED BY <1>1, <1>9, <2>1
<1> HIDE DEF stored
<1>11. /\ Ops' \subseteq Ops \cup new /\ published' \subseteq Op /\ clock' \in Nat
       /\ Stamped' /\ OpsGivenUp'
  <2>1. \A x \in Device, l \in Library : db'[x][l] # None => db'[x][l].log \subseteq Ops \cup new
    BY <1>7, <1>8, <1>9, <1>10, OpsTyped DEF IInv
  <2>2. published' \subseteq Ops \cup new
    BY <1>5, <1>7 DEF Ops
  <2> QED BY <1>3, <1>4, <1>7, <2>1, <2>2, OpsGrow
<1>12. /\ after \in Tasks /\ after.reg.dead \subseteq discarded /\ after.step \in {"none", "merge"}
       /\ after.step # "none" => after.reg = t.reg
       /\ \A l \in Library : after.won[l] = Deleted => l \in discarded
  <2>1. CASE after = NoTask
    BY <2>1, FirstFits, ConstantsAssumption
  <2>2. CASE log = all /\ after = [t EXCEPT !.step = "merge", !.won = Won(all)]
    <3>1. all \subseteq Ops'
      <4>1. db'[d][t.lib] = stored /\ stored # None
        BY <1>1, <1>9, <1>10, NoneAssumption
      <4>2. stored.log \subseteq Ops'
        BY <1>1, <4>1 DEF Ops, Files
      <4> QED BY <1>9, <2>2, <4>2
    <3>2. Won(all) \in [Library -> Row]
          /\ \A l \in Library : Won(all)[l] = Deleted => \E o \in all : o.entity = l /\ o.payload = Deleted
      <4>1. \A o \in all : o.time < clock'
        BY <1>11, <3>1 DEF Stamped
      <4>2. \A o, p \in all : (o.dev = p.dev /\ o.time = p.time /\ o.entity = p.entity) => o = p
        BY <1>11, <3>1 DEF Stamped
      <4> QED BY <1>8, <1>11, <4>1, <4>2, WonFits
    <3>3. \A l \in Library : Won(all)[l] = Deleted => l \in discarded
      BY <1>3, <1>11, <3>1, <3>2 DEF OpsGivenUp
    <3>4. after \in Tasks /\ after.reg = t.reg /\ after.step = "merge" /\ after.won = Won(all)
      BY <1>1, <2>2, <3>2 DEF Tasks, Steps
    <3> QED BY <1>1, <3>3, <3>4
  <2> QED BY <1>7, <2>1, <2>2
<1>13. /\ DOMAIN task' = Device /\ \A x \in Device : task'[x] \in [Slots[x] -> Tasks]
       /\ \A x \in Device : \A r \in Slots[x] :
            task'[x][r] = IF x = d /\ r = s THEN after ELSE task[x][r]
       /\ TasksGivenUp'
  BY <1>3, <1>7, <1>12, TaskSet
<1>14. Alone'
  <2>1. task[d][s].step # "none"
    BY <1>3 DEF t
  <2>2. "overlap" \notin allowed =>
          Lost(mem[d], disk[d]) \subseteq discarded /\ Lost(mem[d], t.reg) \subseteq discarded
    BY <2>1 DEF IInv, Alone, Carries, t
  <2> QED BY <1>3, <1>12, <1>13, <2>1, <2>2, AloneGoesOn
<1>15. ListsGivenUp'
  BY <1>3 DEF IInv, ListsGivenUp
<1>16. TypeOK'
  BY <1>3, <1>7, <1>10, <1>11, <1>13 DEF IInv, TypeOK
<1>17. Kept
  BY <1>3, <1>9, <1>10, NoneAssumption DEF Kept, Lost
<1> QED BY <1>11, <1>13, <1>14, <1>15, <1>16, <1>17 DEF IInv
-----------------------------------------------------------------------------
(* The winners merged into a list: a list, which misses only what was given up. *)
LEMMA MergedFits ==
  ASSUME IInv, NEW d \in Device, NEW s \in Slots[d]
  PROVE  LET t == task[d][s]  names == MergedNames(t.reg, t.won) IN
         /\ names \in [Library -> Name \cup {None}]
         /\ \A l \in Library : (t.reg.names[l] # None /\ names[l] = None) => l \in discarded
         /\ MergedDead(t.reg, t.won) \in SUBSET Library /\ MergedDead(t.reg, t.won) \subseteq discarded
         /\ Removed(t.reg, t.won) \subseteq discarded
<1> DEFINE t == task[d][s]
           names == MergedNames(t.reg, t.won)
<1>1. /\ t.won \in [Library -> Row] /\ t.reg.names \in [Library -> Name \cup {None}]
      /\ t.reg.dead \in SUBSET Library /\ t.reg.dead \subseteq discarded
      /\ \A l \in Library : t.won[l] = Deleted => l \in discarded
  BY TaskTyped
<1> HIDE DEF t
<1>2. \A l \in Library : names[l] = IF t.won[l] = None THEN t.reg.names[l]
                                ELSE IF t.won[l] = Deleted THEN None ELSE t.won[l]
  BY ConstantsAssumption DEF MergedNames
<1>3. names \in [Library -> Name \cup {None}]
  <2>1. \A l \in Library : names[l] \in Name \cup {None}
    BY <1>1, <1>2 DEF Row
  <2> QED BY <2>1 DEF MergedNames
<1>4. \A l \in Library : (t.reg.names[l] # None /\ names[l] = None) => l \in discarded
  BY <1>1, <1>2
<1>5. MergedDead(t.reg, t.won) \in SUBSET Library /\ MergedDead(t.reg, t.won) \subseteq discarded
  BY <1>1 DEF MergedDead
<1>6. Removed(t.reg, t.won) \subseteq discarded
  BY <1>1 DEF Removed, Profiles
<1> QED BY <1>3, <1>4, <1>5, <1>6 DEF t

LEMMA SyncMergeKeeps ==
  ASSUME IInv, NEW d \in Device, NEW s \in Slots[d], SyncMerge(d, s)
  PROVE  IInv' /\ Kept
<1> DEFINE t == task[d][s]
           names == MergedNames(t.reg, t.won)
           gone == Removed(t.reg, t.won)
           file == [l \in Library |-> IF l \in gone THEN None
                     ELSE IF t.won[l] \in Name /\ l \notin Profiles(t.reg) THEN Opened(db[d][l])
                     ELSE db[d][l]]
           Reg(next) == [names |-> names, dead |-> MergedDead(t.reg, t.won), active |-> next]
           After(next) == [NoTask EXCEPT !.step = "synced", !.reg = Reg(next)]
<1>1. PICK next \in IF t.reg.active \in gone
                   THEN NextActive(names, t.reg.active, t.reg.active) ELSE {t.reg.active} :
        disk' = [disk EXCEPT ![d] = Reg(next)] /\ task' = [task EXCEPT ![d][s] = After(next)]
  BY DEF SyncMerge
<1>2. /\ t.step = "merge" /\ db' = [db EXCEPT ![d] = file]
      /\ UNCHANGED <<streamVars, mem, ready, used, discarded, edits, allowed>>
  BY DEF SyncMerge, userVars, IInv, TypeOK
<1>3. /\ names \in [Library -> Name \cup {None}]
      /\ \A l \in Library : (t.reg.names[l] # None /\ names[l] = None) => l \in discarded
      /\ MergedDead(t.reg, t.won) \in SUBSET Library /\ MergedDead(t.reg, t.won) \subseteq discarded
      /\ gone \subseteq discarded
  BY MergedFits
<1>4. t.reg.active \in Library
  BY TaskTyped
<1> HIDE DEF t, names, gone
<1> DEFINE reg == Reg(next)
           after == After(next)
<1>5. next \in Library
  BY <1>1, <1>4, ConstantsAssumption DEF NextActive
<1>6. reg \in Registry /\ reg.names = names /\ reg.dead \subseteq discarded
  BY <1>3, <1>5 DEF Registry
<1> HIDE DEF reg, Reg
<1>7. /\ after \in Tasks /\ after.step = "synced" /\ after.reg = reg
      /\ \A l \in Library : after.won[l] # Deleted
  BY <1>6, FirstFits, ConstantsAssumption DEF Tasks, Steps, reg
<1>8. /\ file \in [Library -> Stream \cup {None}]
      /\ \A l \in Library : file[l] \in {db[d][l], Opened(db[d][l])} \/ (file[l] = None /\ l \in discarded)
  <2>1. \A l \in Library : db[d][l] \in Stream \cup {None} /\ Opened(db[d][l]) \in Stream
    BY OpsTyped DEF IInv, TypeOK
  <2> QED BY <1>3, <2>1
<1>9. /\ disk' = [disk EXCEPT ![d] = reg] /\ task' = [task EXCEPT ![d][s] = after]
  BY <1>1 DEF reg
<1> HIDE DEF after, After, file
<1>10. /\ disk' \in [Device -> Registry] /\ disk'[d] = reg
       /\ \A x \in Device : x # d => disk'[x] = disk[x]
  BY <1>6, <1>9 DEF IInv, TypeOK
<1>11. /\ DOMAIN task' = Device /\ \A x \in Device : task'[x] \in [Slots[x] -> Tasks]
       /\ \A x \in Device : \A r \in Slots[x] :
            task'[x][r] = IF x = d /\ r = s THEN after ELSE task[x][r]
       /\ TasksGivenUp'
  BY <1>2, <1>6, <1>7, <1>9, TaskSet
<1>12. Alone'
  <2>1. task[d][s].step # "none"
    BY <1>2 DEF t
  <2>2. "overlap" \notin allowed => Lost(mem[d], t.reg) \subseteq discarded
    BY <2>1 DEF IInv, Alone, Carries, t
  <2>3. Lost(mem[d], reg) \subseteq Lost(mem[d], t.reg) \cup discarded
    BY <1>3, <1>6 DEF Lost, Profiles
  <2>4. Lost(reg, reg) = {}
    BY DEF Lost
  <2> QED BY <1>2, <1>7, <1>10, <1>11, <2>1, <2>2, <2>3, <2>4, AloneGoesOn
<1>13. /\ db' \in [Device -> [Library -> Stream \cup {None}]]
       /\ published' \subseteq Op /\ clock' \in Nat /\ Stamped' /\ OpsGivenUp'
       /\ \A x \in Device, l \in Library : (db[x][l] # None /\ db'[x][l] = None) => l \in discarded
  BY <1>2, <1>8, StoreGoesOn
<1>14. ListsGivenUp'
  BY <1>2, <1>6, <1>10 DEF IInv, ListsGivenUp
<1>15. TypeOK'
  BY <1>2, <1>10, <1>11, <1>13 DEF IInv, TypeOK
<1>16. Kept
  BY <1>2, <1>13 DEF Kept, Lost
<1> QED BY <1>11, <1>12, <1>13, <1>14, <1>15, <1>16 DEF IInv

(* The list that a task brings back takes the place of the one in memory. *)
LEMMA ApplyKeeps ==
  ASSUME IInv, NEW d \in Device, NEW s \in Slots[d], task[d][s].step \in {"updated", "synced"},
         Apply(d, task[d][s].reg), NEW t \in {NoTask, SyncTask(task[d][s].reg, TRUE)},
         task' = [task EXCEPT ![d][s] = t], UNCHANGED <<streamVars, ready, userVars>>
  PROVE  IInv' /\ Kept
<1> DEFINE reg == task[d][s].reg
           selects == reg.active # mem[d].active /\ reg.active \in Profiles(reg)
           file == [db[d] EXCEPT ![reg.active] = IF selects THEN Opened(@) ELSE @]
<1>1. reg \in Registry /\ reg.active \in Library /\ reg.dead \subseteq discarded
  BY TaskTyped
<1>2. /\ mem' = [mem EXCEPT ![d] = reg]
      /\ disk' = [disk EXCEPT ![d] = IF selects THEN reg ELSE @]
      /\ db' = [db EXCEPT ![d] = file]
  BY DEF Apply
<1>3. UNCHANGED <<used, discarded, edits, allowed>>
  BY DEF userVars
<1>4. /\ file \in [Library -> Stream \cup {None}]
      /\ \A k \in Library : file[k] \in {db[d][k], Opened(db[d][k])}
  <2>1. db[d] \in [Library -> Stream \cup {None}] /\ Opened(db[d][reg.active]) \in Stream
    BY <1>1, OpsTyped DEF IInv, TypeOK
  <2> QED BY <1>1, <2>1
<1>5. /\ t \in Tasks /\ t.reg.dead \subseteq discarded /\ t.step \in {"none", "sync"}
      /\ t.step # "none" => t.reg = reg
      /\ \A l \in Library : t.won[l] # Deleted
  <2>1. CASE t = NoTask
    BY <2>1, FirstFits, ConstantsAssumption
  <2>2. CASE t = SyncTask(reg, TRUE)
    <3> HIDE DEF reg
    <3>1. TRUE \in BOOLEAN
      OBVIOUS
    <3> QED BY <1>1, <2>2, <3>1, SyncTaskFits
  <2> QED BY <2>1, <2>2
<1> HIDE DEF file, selects
<1>6. /\ mem' \in [Device -> Registry] /\ disk' \in [Device -> Registry]
      /\ mem'[d] = reg /\ disk'[d] \in {reg, disk[d]}
      /\ \A x \in Device : x # d => mem'[x] = mem[x] /\ disk'[x] = disk[x]
  BY <1>1, <1>2 DEF IInv, TypeOK
<1>7. /\ DOMAIN task' = Device /\ \A x \in Device : task'[x] \in [Slots[x] -> Tasks]
      /\ \A x \in Device : \A r \in Slots[x] :
           task'[x][r] = IF x = d /\ r = s THEN t ELSE task[x][r]
      /\ TasksGivenUp'
  BY <1>3, <1>5, TaskSet
<1>8. "overlap" \notin allowed =>
        /\ Lost(mem[d], reg) \subseteq discarded /\ Lost(reg, disk[d]) \subseteq discarded
  BY DEF IInv, Alone, Carries
<1>9. Alone'
  <2>1. Lost(reg, reg) = {}
    BY DEF Lost
  <2> HIDE DEF reg
  <2> QED BY <1>3, <1>5, <1>6, <1>7, <1>8, <2>1, AloneGoesOn
<1>10. /\ db' \in [Device -> [Library -> Stream \cup {None}]]
       /\ published' \subseteq Op /\ clock' \in Nat /\ Stamped' /\ OpsGivenUp'
       /\ \A x \in Device, l \in Library : (db[x][l] # None /\ db'[x][l] = None) => l \in discarded
  BY <1>2, <1>3, <1>4, StoreGoesOn
<1>11. ListsGivenUp'
  BY <1>1, <1>3, <1>6 DEF IInv, ListsGivenUp
<1>12. TypeOK'
  BY <1>3, <1>6, <1>7, <1>10 DEF IInv, TypeOK
<1>13. Kept
  <2>1. \A x \in Device : x # d => Lost(mem[x], mem'[x]) = {}
    BY <1>6 DEF Lost
  <2> QED BY <1>6, <1>8, <1>10, <2>1 DEF Kept
<1> QED BY <1>7, <1>9, <1>10, <1>11, <1>12, <1>13 DEF IInv

(* The application is started again: the list on disk, of which nothing was lost. *)
LEMMA RestartKeeps ==
  ASSUME IInv, NEW d \in Device, Restart(d)
  PROVE  IInv' /\ Kept
<1>1. PICK reg \in Loaded(d) :
        /\ mem' = [mem EXCEPT ![d] = reg] /\ disk' = [disk EXCEPT ![d] = reg]
        /\ db' = [db EXCEPT ![d][reg.active] = Opened(@)]
  BY DEF Restart
<1>2. /\ task' = [task EXCEPT ![d] = [s \in Slots[d] |-> NoTask]]
      /\ ready' = [ready EXCEPT ![d] = FALSE] /\ edits' = edits + 1
      /\ UNCHANGED <<streamVars, used, discarded, allowed>>
  BY DEF Restart
<1>3. reg \in Registry /\ reg.active \in Library /\ reg.dead = disk[d].dead /\ Lost(disk[d], reg) = {}
  <2>1. disk[d] \in Registry /\ disk[d].names \in [Library -> Name \cup {None}]
    BY DEF IInv, TypeOK, Registry
  <2>2. CASE Profiles(disk[d]) = {}
    <3>1. reg = [disk[d] EXCEPT !.names[Default] = FirstName, !.active = Default]
      BY <1>1, <2>2 DEF Loaded
    <3>2. [disk[d].names EXCEPT ![Default] = FirstName] \in [Library -> Name \cup {None}]
      BY <2>1, ConstantsAssumption
    <3>3. reg \in Registry /\ reg.active = Default /\ reg.dead = disk[d].dead
      BY <2>1, <3>1, <3>2, ConstantsAssumption DEF Registry
    <3> QED BY <2>2, <3>3, ConstantsAssumption DEF Lost
  <2>3. CASE Profiles(disk[d]) # {}
    <3>1. PICK l \in Profiles(disk[d]) : reg = [disk[d] EXCEPT !.active = l]
      BY <1>1, <2>3 DEF Loaded
    <3>2. l \in Library
      BY DEF Profiles
    <3>3. /\ reg \in Registry /\ reg.active = l /\ reg.dead = disk[d].dead
          /\ reg.names = disk[d].names
      BY <2>1, <3>1, <3>2 DEF Registry
    <3> QED BY <3>2, <3>3 DEF Lost, Profiles
  <2> QED BY <2>2, <2>3
<1> DEFINE file == [db[d] EXCEPT ![reg.active] = Opened(@)]
<1>4. /\ file \in [Library -> Stream \cup {None}] /\ db' = [db EXCEPT ![d] = file]
      /\ \A k \in Library : file[k] \in {db[d][k], Opened(db[d][k])}
  <2>1. /\ db[d] \in [Library -> Stream \cup {None}] /\ Opened(db[d][reg.active]) \in Stream
        /\ db \in [Device -> [Library -> Stream \cup {None}]]
    BY <1>3, OpsTyped DEF IInv, TypeOK
  <2> QED BY <1>1, <1>3, <2>1
<1> HIDE DEF file
<1>5. /\ mem' \in [Device -> Registry] /\ disk' \in [Device -> Registry]
      /\ mem'[d] = reg /\ disk'[d] = reg
      /\ \A x \in Device : x # d => mem'[x] = mem[x] /\ disk'[x] = disk[x]
  BY <1>1, <1>3 DEF IInv, TypeOK
<1>6. /\ DOMAIN task' = Device /\ \A x \in Device : task'[x] \in [Slots[x] -> Tasks]
      /\ \A x \in Device : \A r \in Slots[x] : task'[x][r] = IF x = d THEN NoTask ELSE task[x][r]
  BY <1>2, FirstFits DEF IInv, TypeOK
<1>7. TasksGivenUp' /\ ListsGivenUp'
  BY <1>2, <1>3, <1>5, <1>6, FirstFits, ConstantsAssumption
     DEF IInv, TasksGivenUp, ListsGivenUp, GivenUp
<1>8. \A x \in Device : "overlap" \notin allowed => Lost(mem[x], mem'[x]) \subseteq discarded
  <2>1. \A x \in Device : x # d => Lost(mem[x], mem'[x]) = {}
    BY <1>5 DEF Lost
  <2>2. "overlap" \notin allowed => Lost(mem[d], disk[d]) \subseteq discarded
    BY DEF IInv, Alone
  <2>3. Lost(mem[d], reg) \subseteq Lost(mem[d], disk[d]) \cup Lost(disk[d], reg)
    BY DEF Lost
  <2> QED BY <1>3, <1>5, <2>1, <2>2, <2>3
<1>9. Alone'
  <2> SUFFICES ASSUME "overlap" \notin allowed, NEW x \in Device
               PROVE  /\ OneTask(x)' /\ Lost(mem'[x], disk'[x]) \subseteq discarded'
                      /\ \A r \in Slots[x] : Carries(x, task[x][r])'
    BY <1>2 DEF Alone
  <2>1. OneTask(x) /\ Lost(mem[x], disk[x]) \subseteq discarded /\ \A r \in Slots[x] : Carries(x, task[x][r])
    BY DEF IInv, Alone
  <2>2. CASE x # d
    BY <1>2, <1>5, <1>6, <2>1, <2>2 DEF OneTask, Carries
  <2>3. CASE x = d
    BY <1>5, <1>6, <2>3, FirstFits DEF OneTask, Carries, Lost
  <2> QED BY <2>2, <2>3
<1>10. /\ db' \in [Device -> [Library -> Stream \cup {None}]]
       /\ published' \subseteq Op /\ clock' \in Nat /\ Stamped' /\ OpsGivenUp'
       /\ \A x \in Device, l \in Library : (db[x][l] # None /\ db'[x][l] = None) => l \in discarded
  BY <1>2, <1>4, StoreGoesOn
<1>11. TypeOK'
  BY <1>2, <1>5, <1>6, <1>10 DEF IInv, TypeOK
<1> QED BY <1>7, <1>8, <1>9, <1>10, <1>11 DEF IInv, Kept
-----------------------------------------------------------------------------
LEMMA IInvNext == IInv /\ [Next]_vars => IInv' /\ Kept
<1> SUFFICES ASSUME IInv, [Next]_vars PROVE IInv' /\ Kept
  OBVIOUS
<1>1. CASE UNCHANGED vars
  <2>1. UNCHANGED <<published, clock, db, mem, disk, task, ready, used, discarded, edits, allowed>>
    BY <1>1 DEF vars, streamVars, userVars
  <2>2. TypeOK' /\ ListsGivenUp' /\ TasksGivenUp' /\ Alone'
    BY <2>1 DEF IInv, TypeOK, ListsGivenUp, TasksGivenUp, GivenUp, Alone, OneTask, Carries
  <2>3. Stamped' /\ OpsGivenUp'
    BY <2>1, StoreRests DEF streamVars
  <2>4. Kept
    BY <2>1 DEF Kept, Lost
  <2> QED BY <2>2, <2>3, <2>4 DEF IInv
<1>2. ASSUME NEW d \in Device, NEW s \in Slots[d], User(d, s) \/ Tasked(d, s) PROVE IInv' /\ Kept
  <2>1. CASE LibraryRegistryUpdated(d, s)
    <3> DEFINE t == IF SelectFails(d, task[d][s].reg) THEN NoTask ELSE SyncTask(task[d][s].reg, TRUE)
    <3>1. t \in {NoTask, SyncTask(task[d][s].reg, TRUE)}
      OBVIOUS
    <3>2. /\ task' = [task EXCEPT ![d][s] = t] /\ Apply(d, task[d][s].reg)
          /\ task[d][s].step \in {"updated", "synced"} /\ UNCHANGED <<streamVars, ready, userVars>>
      BY <2>1 DEF LibraryRegistryUpdated
    <3> HIDE DEF t
    <3> QED BY <3>1, <3>2, ApplyKeeps
  <2>2. CASE LibraryRegistrySyncFinished(d, s)
    BY <2>2, ApplyKeeps DEF LibraryRegistrySyncFinished
  <2> QED BY <1>2, <2>1, <2>2, UserKeeps, UserTaskKeeps, SyncExchangeKeeps, SyncMergeKeeps DEF Tasked
<1>3. ASSUME NEW d \in Device, Started(d) \/ SelectLibrary(d) \/ Restart(d) PROVE IInv' /\ Kept
  BY <1>3, StartedKeeps, SelectLibraryKeeps, RestartKeeps
<1> QED BY <1>1, <1>2, <1>3 DEF Next

LEMMA IInvAlways == Spec => []IInv
<1>1. IInv /\ [Next]_vars => IInv'
  BY IInvNext
<1> QED BY <1>1, IInvInit, PTL DEF Spec

(* Every list, task, database and operation has its type, whatever overlaps or fails. *)
THEOREM RegistryTyped == Spec => []TypeOK
<1>1. IInv => TypeOK
  BY DEF IInv
<1> QED BY <1>1, IInvAlways, PTL

(* A library counts as deleted, in any list or in the stream, only after a user deleted it. *)
THEOREM NoSpuriousDeletionHolds == Spec => []NoSpuriousDeletion
<1>1. IInv => NoSpuriousDeletion
  BY DEF IInv, ListsGivenUp, OpsGivenUp, Ops, NoSpuriousDeletion
<1> QED BY <1>1, IInvAlways, PTL

(* No database is removed of a library that no user deleted, and, while tasks do not overlap, *)
(* no profile leaves the list: the clone that a task brings back has lost nothing, and the     *)
(* disk, from which the application starts again, neither.                                     *)
THEOREM NothingLostHolds == Spec => NothingLost
<1>1. IInv /\ [Next]_vars =>
        /\ [\A d \in Device, l \in Library :
              db[d][l] # None /\ db'[d][l] = None => l \in discarded]_vars
        /\ [\A d \in Device : "overlap" \notin allowed =>
              Profiles(mem[d]) \ Profiles(mem'[d]) \subseteq discarded]_vars
  BY IInvNext DEF Kept, Lost
<1>2. Spec => StorageKept
  BY <1>1, IInvAlways, PTL DEF Spec, StorageKept
<1>3. Spec => ProfilesKept
  BY <1>1, IInvAlways, PTL DEF Spec, ProfilesKept
<1> QED BY <1>2, <1>3 DEF NothingLost
=============================================================================
