---------------------------- MODULE DesktopProofs ----------------------------
(* Proofs about Desktop: the folders of the library and their history, and what imports *)
(* brought, on the desktop with all that goes on beside them.                           *)
EXTENDS Desktop, FiniteSetTheorems, SequenceTheorems, TLAPS

(* X holds with a folder all that hang from it, among the given ones. *)
Closed(s, among, X) == \A h \in among : s.parent[h] \in X => h \in X

(* What collect_folder_subtree_ids collects: the least closed set around f. *)
LEMMA SubtreeClosed ==
  ASSUME NEW s, NEW among \in SUBSET Folder, NEW f
  PROVE  Closed(s, among, Subtree(s, among, f))
BY DEF Closed, Subtree

LEMMA SubtreeRoot ==
  ASSUME NEW s, NEW among, NEW f \in Folder
  PROVE  f \in Subtree(s, among, f)
BY DEF Subtree

LEMMA SubtreeLeast ==
  ASSUME NEW s, NEW among, NEW f, NEW X \in SUBSET Folder, f \in X, Closed(s, among, X)
  PROVE  Subtree(s, among, f) \subseteq X
BY DEF Closed, Subtree

LEMMA SubtreeMember ==
  ASSUME NEW s, NEW among \in SUBSET Folder, NEW f \in Folder,
         NEW g \in Subtree(s, among, f), g # f
  PROVE  g \in among /\ s.parent[g] \in Subtree(s, among, f)
<1> DEFINE sub == Subtree(s, among, f)
           X   == {h \in sub : h = f \/ (h \in among /\ s.parent[h] \in sub)}
<1>1. X \in SUBSET Folder /\ f \in X BY SubtreeRoot DEF Subtree
<1>2. Closed(s, among, X) BY SubtreeClosed DEF Closed
<1>3. g \in X BY <1>1, <1>2, SubtreeLeast
<1> QED BY <1>3

(* Fewer links, or fewer folders, collect less. *)
LEMMA SubtreeShrinks ==
  ASSUME NEW s, NEW among \in SUBSET Folder, NEW z, NEW fewer \in SUBSET among, NEW f,
         \A h \in fewer : z.parent[h] = s.parent[h]
  PROVE  Subtree(z, fewer, f) \subseteq Subtree(s, among, f)
BY DEF Subtree

LEMMA SubtreeSame ==
  ASSUME NEW s, NEW among \in SUBSET Folder, NEW z, NEW f,
         \A h \in among : z.parent[h] = s.parent[h]
  PROVE  Subtree(z, among, f) = Subtree(s, among, f)
BY DEF Subtree
-----------------------------------------------------------------------------
(* What a value of the store consists of. How folders are ordered is left out. *)
Columns == {"folder", "parent", "name", "order", "entry", "title", "tags", "member"}
Shaped(s) ==
  /\ s = [c \in Columns |-> s[c]]
  /\ s.folder \in [Folder -> Status] /\ s.parent \in [Folder -> Folder \cup {Root}]
  /\ s.entry \in [Entry -> Status]
  /\ s.title = [e \in Entry |-> s.title[e]] /\ s.tags = [e \in Entry |-> s.tags[e]]

(* A forest of folders, of which the live ones hang from live ones, and whose ids are *)
(* among the first n.                                                                 *)
Forest(s) == \A X \in SUBSET Existing(s) : X # {} => \E f \in X : s.parent[f] \notin X
Hung(s) ==
  /\ \A f \in Live(s) : s.parent[f] \in Live(s) \cup {Root}
  /\ \A f \in Existing(s) : s.parent[f] \in Existing(s) \cup {Root}
Grown(s, n) == Forest(s) /\ Hung(s) /\ Existing(s) \subseteq 1 .. n

(* Nothing that is live is deleted. *)
SparesEntries(s, z) == \A e \in LiveEntries(s) : z.entry[e] # "absent"
SparesFolders(s, z) == \A f \in Live(s) : z.folder[f] # "absent"
Spares(s, z) == SparesEntries(s, z) /\ SparesFolders(s, z)

LEMMA FolderIds == Folder \subseteq Nat \ {0} /\ IsFiniteSet(Folder)
BY FS_CardinalityType, OrganizationAssumption

LEMMA GrownMore ==
  ASSUME NEW s, NEW n \in Nat, NEW k \in Nat, Grown(s, n), n <= k
  PROVE  Grown(s, k)
BY DEF Grown

(* Where no folder is touched the tree stays. *)
LEMMA GrownSame ==
  ASSUME NEW s, NEW z, NEW n, Grown(s, n), z.folder = s.folder, z.parent = s.parent
  PROVE  Grown(z, n) /\ SparesFolders(s, z)
BY DEF Grown, Forest, Hung, Existing, Live, Trashed, SparesFolders
-----------------------------------------------------------------------------
(* The calls that change the rows: what each leaves of the shape, of the tree, of what *)
(* is live, and of the set of entries.                                                 *)
SameRows(s, z) ==
  /\ Rows(z) = Rows(s)
  /\ \A e \in Entry \ Rows(s) : z.title[e] = s.title[e] /\ z.tags[e] = s.tags[e]

SameFolders(s, z) == z.folder = s.folder /\ z.parent = s.parent

LEMMA WithoutFoldersFields ==
  ASSUME NEW s, Shaped(s), NEW gone
  PROVE  LET z == WithoutFolders(s, gone) IN
         /\ Shaped(z)
         /\ z.folder = [f \in Folder |-> IF f \in gone THEN "absent" ELSE s.folder[f]]
         /\ z.parent = [f \in Folder |-> IF f \in gone THEN Root ELSE s.parent[f]]
         /\ z.entry = s.entry /\ z.title = s.title /\ z.tags = s.tags
BY DEF Shaped, Columns, WithoutFolders, Status

LEMMA WithoutEntriesFields ==
  ASSUME NEW s, Shaped(s), NEW gone
  PROVE  LET z == WithoutEntries(s, gone) IN
         /\ Shaped(z) /\ SameFolders(s, z)
         /\ z.entry = [e \in Entry |-> IF e \in gone THEN "absent" ELSE s.entry[e]]
BY DEF Shaped, Columns, WithoutEntries, Status, SameFolders

LEMMA SetFoldersFields ==
  ASSUME NEW s, Shaped(s), NEW fs, NEW status \in Status
  PROVE  LET z == SetFolders(s, fs, status) IN
         /\ Shaped(z) /\ z.parent = s.parent
         /\ z.folder = [f \in Folder |-> IF f \in fs THEN status ELSE s.folder[f]]
         /\ z.entry = s.entry /\ z.title = s.title /\ z.tags = s.tags
BY DEF Shaped, Columns, SetFolders, Status

LEMMA SetEntriesFields ==
  ASSUME NEW s, Shaped(s), NEW entries, NEW status \in {"live", "trashed"}
  PROVE  LET z == SetEntries(s, entries, status) IN
         /\ Shaped(z) /\ SameFolders(s, z) /\ SparesEntries(s, z) /\ SameRows(s, z)
         /\ z.title = s.title /\ z.tags = s.tags
<1> DEFINE z == SetEntries(s, entries, status)
<1>1. /\ Shaped(z) /\ SameFolders(s, z) /\ z.title = s.title /\ z.tags = s.tags
      /\ z.entry = [e \in Entry |-> IF e \in entries \cap Rows(s) THEN status ELSE s.entry[e]]
  BY DEF Shaped, Columns, SetEntries, Status, SameFolders
<1>2. SparesEntries(s, z) BY <1>1 DEF SparesEntries, LiveEntries
<1>3. SameRows(s, z) BY <1>1 DEF SameRows, Rows, LiveEntries, TrashedEntries
<1> QED BY <1>1, <1>2, <1>3

(* Created: the id is fresh, so that nothing hangs from it. *)
LEMMA CreatedAs ==
  ASSUME NEW s, Shaped(s), NEW p, NEW f
  PROVE  /\ Created(s, p, f).folder = [s.folder EXCEPT ![f] = "live"]
         /\ Created(s, p, f).parent = [s.parent EXCEPT ![f] = p]
<1>1. DOMAIN s = Columns /\ s = [c \in DOMAIN s |-> s[c]] BY DEF Shaped
<1> QED BY <1>1 DEF Created, Columns

LEMMA CreatedKeeps ==
  ASSUME NEW s, Shaped(s), NEW p \in Folder \cup {Root}, NEW f
  PROVE  LET z == Created(s, p, f) IN
         /\ Shaped(z) /\ SparesEntries(s, z) /\ SparesFolders(s, z) /\ SameRows(s, z)
         /\ z.folder = [s.folder EXCEPT ![f] = "live"] /\ z.parent = [s.parent EXCEPT ![f] = p]
<1> DEFINE z == Created(s, p, f)
           m == [s.folder EXCEPT ![f] = "live"]
           u == [s.parent EXCEPT ![f] = p]
<1>1. DOMAIN s = Columns /\ s = [c \in DOMAIN s |-> s[c]] BY DEF Shaped
<1>2. z = [s EXCEPT !.folder = m, !.parent = u, !.order = z.order]
  BY <1>1 DEF Created, Columns
<1>3. m \in [Folder -> Status] /\ u \in [Folder -> Folder \cup {Root}]
  BY DEF Shaped, Status
<1> HIDE DEF m, u, z
<1>4. /\ z = [c \in Columns |-> z[c]] /\ z.folder = m /\ z.parent = u
      /\ z.entry = s.entry /\ z.title = s.title /\ z.tags = s.tags
  BY <1>1, <1>2 DEF Columns
<1>5. Shaped(z) BY <1>3, <1>4 DEF Shaped
<1>6. SparesEntries(s, z) /\ SameRows(s, z)
  BY <1>4 DEF SparesEntries, SameRows, Rows, LiveEntries, TrashedEntries
<1>7. SparesFolders(s, z) BY <1>4 DEF m, Shaped, SparesFolders, Live
<1> QED BY <1>4, <1>5, <1>6, <1>7 DEF m, u, z

LEMMA CreatedGrows ==
  ASSUME NEW s, Shaped(s), NEW n \in Nat, Grown(s, n), n + 1 \in Folder,
         NEW p \in Live(s) \cup {Root}
  PROVE  Grown(Created(s, p, n + 1), n + 1)
<1> DEFINE z == Created(s, p, n + 1)
<1>p. p \in Folder \cup {Root} BY DEF Live
<1>1. /\ z.folder = [s.folder EXCEPT ![n + 1] = "live"]
      /\ z.parent = [s.parent EXCEPT ![n + 1] = p]
  BY <1>p, CreatedAs
<1> HIDE DEF z
<1>2. /\ Existing(s) \subseteq 1 .. n /\ p # n + 1 /\ Root # n + 1
      /\ Live(s) \subseteq Existing(s) /\ Existing(s) \subseteq Folder
  BY FolderIds DEF Grown, Existing, Live, Trashed, Root
<1>3. Live(z) = Live(s) \cup {n + 1} /\ Existing(z) = Existing(s) \cup {n + 1}
  BY <1>1 DEF Live, Trashed, Existing, Shaped
<1>4. \A g \in Existing(s) : z.parent[g] = s.parent[g]
  <2> TAKE g \in Existing(s)
  <2>1. g # n + 1 /\ g \in Folder BY <1>2
  <2> QED BY <1>1, <2>1 DEF Shaped
<1>5. z.parent[n + 1] = p BY <1>1 DEF Shaped
<1>6. Forest(z)
  <2> SUFFICES ASSUME NEW X \in SUBSET Existing(z), X # {}
               PROVE  \E g \in X : z.parent[g] \notin X
    BY DEF Forest
  <2>1. CASE X \ {n + 1} = {}
    BY <2>1, <1>2, <1>5
  <2>2. CASE X \ {n + 1} # {}
    <3>1. X \ {n + 1} \in SUBSET Existing(s) BY <1>3
    <3>2. PICK g \in X \ {n + 1} : s.parent[g] \notin X \ {n + 1}
      BY <2>2, <3>1 DEF Grown, Forest
    <3>3. s.parent[g] # n + 1 BY <3>1, <3>2, <1>2 DEF Grown, Hung
    <3> QED BY <3>1, <3>2, <3>3, <1>4
  <2> QED BY <2>1, <2>2
<1>7. Hung(z)
  BY <1>2, <1>3, <1>4, <1>5 DEF Grown, Hung
<1>8. Existing(z) \subseteq 1 .. (n + 1)
  BY <1>2, <1>3
<1> QED BY <1>6, <1>7, <1>8 DEF Grown, z

(* Moved: the new parent is not below the folder. *)
LEMMA MovedKeeps ==
  ASSUME NEW s, Shaped(s), NEW p \in Folder \cup {Root}, NEW f
  PROVE  LET z == Moved(s, f, p) IN
         Shaped(z) /\ SparesEntries(s, z) /\ SparesFolders(s, z) /\ SameRows(s, z)
<1> DEFINE z == Moved(s, f, p)
<1>1. /\ Shaped(z) /\ z.entry = s.entry /\ z.title = s.title /\ z.tags = s.tags
      /\ z.folder = s.folder
  BY DEF Shaped, Columns, Moved
<1> QED
  BY <1>1 DEF Shaped, SparesEntries, SparesFolders, SameRows, Rows, LiveEntries, TrashedEntries, Live

LEMMA MovedGrown ==
  ASSUME NEW s, Shaped(s), NEW n, Grown(s, n), NEW p \in Live(s) \cup {Root}, NEW f,
         p \notin Subtree(s, Existing(s), f)
  PROVE  Grown(Moved(s, f, p), n)
<1> DEFINE z   == Moved(s, f, p)
           sub == Subtree(s, Existing(s), f)
<1>1. CASE f \notin Existing(s)
  BY <1>1 DEF Moved
<1>2. CASE f \in Existing(s)
  <2>1. z.folder = s.folder /\ z.parent = [s.parent EXCEPT ![f] = p]
    BY <1>2 DEF Shaped, Columns, Moved
  <2>2. Live(z) = Live(s) /\ Existing(z) = Existing(s) /\ Live(s) \subseteq Existing(s)
    BY <2>1 DEF Live, Trashed, Existing
  <2>3. /\ f \in Folder /\ f \in sub /\ Existing(s) \subseteq Folder /\ Root \notin Folder
        /\ Closed(s, Existing(s), sub)
    BY <1>2, SubtreeRoot, SubtreeClosed, FolderIds DEF Existing, Live, Trashed, Root
  <2>4. z.parent[f] = p /\ \A g \in Existing(s) : g # f => z.parent[g] = s.parent[g]
    BY <2>1, <2>3 DEF Shaped
  <2>5. Forest(z)
    <3> SUFFICES ASSUME NEW X \in SUBSET Existing(z), X # {},
                        \A g \in X : z.parent[g] \in X
                 PROVE  FALSE
      BY DEF Forest
    <3>1. CASE f \notin X
      BY <3>1, <2>2, <2>4 DEF Grown, Forest
    <3>2. CASE f \in X
      <4>1. p \in X \ sub BY <3>2, <2>4
      <4>2. PICK g \in X \ sub : s.parent[g] \notin X \ sub
        BY <4>1, <2>2 DEF Grown, Forest
      <4>3. g # f /\ s.parent[g] \in X /\ g \in Existing(s)
        BY <4>2, <2>2, <2>3, <2>4
      <4> QED BY <4>2, <4>3, <2>3 DEF Closed
    <3> QED BY <3>1, <3>2
  <2>6. Hung(z) BY <2>2, <2>4 DEF Grown, Hung
  <2> QED BY <2>2, <2>5, <2>6 DEF Grown
<1> QED BY <1>1, <1>2

(* Copied: the copies get ids of their own, in the order of the originals. *)
LEMMA CopyIds ==
  ASSUME NEW sub \in SUBSET Folder, NEW last \in Nat
  PROVE  /\ Cardinality(sub) \in Nat
         /\ \A h \in sub : CopyId(sub, h, last) \in (last + 1) .. (last + Cardinality(sub))
         /\ \A h, k \in sub : CopyId(sub, h, last) = CopyId(sub, k, last) => h = k
<1> DEFINE below(h) == {g \in sub : g <= h}
<1>1. sub \subseteq Nat /\ IsFiniteSet(sub) /\ Cardinality(sub) \in Nat
  BY FolderIds, FS_Subset, FS_CardinalityType
<1>2. \A h \in sub : IsFiniteSet(below(h)) /\ Cardinality(below(h)) \in 1 .. Cardinality(sub)
  <2> TAKE h \in sub
  <2>1. below(h) \in SUBSET sub /\ h \in below(h) BY <1>1
  <2>2. IsFiniteSet(below(h)) /\ Cardinality(below(h)) <= Cardinality(sub)
    BY <1>1, <2>1, FS_Subset
  <2>3. Cardinality(below(h)) \in Nat /\ Cardinality(below(h)) # 0
    BY <2>1, <2>2, FS_CardinalityType, FS_EmptySet
  <2> QED BY <1>1, <2>2, <2>3
<1>3. ASSUME NEW h \in sub, NEW k \in sub, h < k
      PROVE  Cardinality(below(h)) < Cardinality(below(k))
  <2>0. h \in Nat /\ k \in Nat BY <1>1
  <2>1. below(h) \in SUBSET below(k)
    <3> SUFFICES ASSUME NEW g \in sub, g <= h PROVE g <= k OBVIOUS
    <3> QED BY <1>1, <1>3, <2>0
  <2>4. k \in below(k) /\ k \notin below(h) BY <1>3, <2>0
  <2> HIDE DEF below
  <2>2. Cardinality(below(h)) <= Cardinality(below(k)) BY <1>2, <2>1, FS_Subset
  <2>3. Cardinality(below(h)) # Cardinality(below(k)) BY <1>2, <2>1, <2>4, FS_Subset
  <2> QED BY <1>1, <1>2, <2>2, <2>3
<1>4. \A h \in sub : CopyId(sub, h, last) = last + Cardinality(below(h)) BY DEF CopyId
<1> HIDE DEF below
<1>5. \A h \in sub : CopyId(sub, h, last) \in (last + 1) .. (last + Cardinality(sub))
  BY <1>1, <1>2, <1>4
<1>6. ASSUME NEW h \in sub, NEW k \in sub, CopyId(sub, h, last) = CopyId(sub, k, last)
      PROVE  h = k
  <2>1. Cardinality(below(h)) = Cardinality(below(k)) BY <1>2, <1>4, <1>6
  <2>2. h \in Nat /\ k \in Nat BY <1>1
  <2> QED BY <2>1, <2>2, <1>2, <1>3
<1> QED BY <1>1, <1>5, <1>6

CopiesOf(s, f, last) == {CopyId(Subtree(s, Live(s), f), h, last) : h \in Subtree(s, Live(s), f)}

LEMMA CopiedFields ==
  ASSUME NEW s, Shaped(s), NEW f \in Live(s), NEW p \in Folder \cup {Root}, NEW last \in Nat,
         last + Cardinality(Subtree(s, Live(s), f)) <= Cardinality(Folder)
  PROVE  LET z   == CopiedSubtree(s, f, p, last)
             sub == Subtree(s, Live(s), f)
         IN /\ Shaped(z) /\ SparesEntries(s, z) /\ SparesFolders(s, z) /\ SameRows(s, z)
            /\ CopiesOf(s, f, last) \subseteq Folder
            /\ \A g \in Folder : g \notin CopiesOf(s, f, last) =>
                 z.folder[g] = s.folder[g] /\ z.parent[g] = s.parent[g]
            /\ \A h \in sub :
                 /\ z.folder[CopyId(sub, h, last)] = "live"
                 /\ z.parent[CopyId(sub, h, last)] =
                      IF h = f THEN p ELSE CopyId(sub, s.parent[h], last)
<1> DEFINE z    == CopiedSubtree(s, f, p, last)
           sub  == Subtree(s, Live(s), f)
           orig == [g \in {CopyId(sub, h, last) : h \in sub} |->
                      CHOOSE h \in sub : CopyId(sub, h, last) = g]
           copy == DOMAIN orig
           m == [g \in Folder |-> IF g \in copy THEN "live" ELSE s.folder[g]]
           u == [g \in Folder |->
                   IF g \notin copy THEN s.parent[g]
                   ELSE IF orig[g] = f THEN p ELSE CopyId(sub, s.parent[orig[g]], last)]
<1>1. sub \in SUBSET Folder /\ Live(s) \in SUBSET Folder /\ f \in Folder BY DEF Subtree, Live
<1>2. copy = CopiesOf(s, f, last) BY DEF CopiesOf
<1>3. /\ Cardinality(sub) \in Nat
      /\ \A h \in sub : CopyId(sub, h, last) \in (last + 1) .. (last + Cardinality(sub))
      /\ \A h, k \in sub : CopyId(sub, h, last) = CopyId(sub, k, last) => h = k
  BY <1>1, CopyIds
<1>4. copy \subseteq Folder
  <2>1. /\ Cardinality(Folder) \in Nat /\ Folder = 1 .. Cardinality(Folder)
        /\ last + Cardinality(sub) <= Cardinality(Folder)
    BY OrganizationAssumption, FS_CardinalityType
  <2> HIDE DEF sub
  <2> QED BY <2>1, <1>3
<1>5. \A h \in sub : CopyId(sub, h, last) \in copy /\ orig[CopyId(sub, h, last)] = h
  <2> HIDE DEF sub
  <2> QED BY <1>3
<1>6. \A g \in copy : orig[g] \in sub /\ CopyId(sub, orig[g], last) = g
  <2> HIDE DEF sub
  <2> QED OBVIOUS
<1>7. \A h \in sub : h # f => s.parent[h] \in sub BY <1>1, SubtreeMember
<1>8. m \in [Folder -> Status] BY DEF Shaped, Status
<1>9. u \in [Folder -> Folder \cup {Root}]
  <2> HIDE DEF sub, orig
  <2>1. \A g \in copy : orig[g] # f => CopyId(sub, s.parent[orig[g]], last) \in Folder
    BY <1>4, <1>5, <1>6, <1>7
  <2> QED BY <2>1 DEF Shaped
<1>10. DOMAIN s = Columns /\ s = [c \in DOMAIN s |-> s[c]] BY DEF Shaped
<1>11. z = [s EXCEPT !.folder = m, !.parent = u, !.order = z.order, !.name = z.name,
                     !.member = z.member]
  BY <1>10 DEF CopiedSubtree, Columns
<1> HIDE DEF m, u, z
<1>12. /\ z = [c \in Columns |-> z[c]] /\ z.folder = m /\ z.parent = u
       /\ z.entry = s.entry /\ z.title = s.title /\ z.tags = s.tags
  BY <1>10, <1>11 DEF Columns
<1>13. Shaped(z) BY <1>8, <1>9, <1>12 DEF Shaped
<1>14. SparesEntries(s, z) /\ SparesFolders(s, z) /\ SameRows(s, z)
  BY <1>12 DEF m, Shaped, SparesEntries, SparesFolders, SameRows, Rows, LiveEntries,
               TrashedEntries, Live
<1>15. \A g \in Folder : g \notin copy => z.folder[g] = s.folder[g] /\ z.parent[g] = s.parent[g]
  BY <1>12 DEF m, u
<1>16. ASSUME NEW h \in sub
       PROVE  /\ z.folder[CopyId(sub, h, last)] = "live"
              /\ z.parent[CopyId(sub, h, last)] =
                   IF h = f THEN p ELSE CopyId(sub, s.parent[h], last)
  <2> DEFINE g == CopyId(sub, h, last)
  <2>1. g \in copy /\ g \in Folder /\ orig[g] = h BY <1>4, <1>5
  <2> HIDE DEF sub, orig, g
  <2>2. z.folder[g] = "live" BY <2>1, <1>12 DEF m
  <2>3. z.parent[g] = IF h = f THEN p ELSE CopyId(sub, s.parent[h], last)
    BY <2>1, <1>12 DEF u
  <2> QED BY <2>2, <2>3 DEF g
<1> HIDE DEF sub, orig
<1>17. CopiesOf(s, f, last) = copy /\ copy \subseteq Folder BY <1>2, <1>4
<1> QED BY <1>13, <1>14, <1>15, <1>16, <1>17 DEF z, sub

LEMMA CopiedGrown ==
  ASSUME NEW s, Shaped(s), NEW n \in Nat, Grown(s, n), NEW f \in Live(s),
         NEW p \in Live(s) \cup {Root},
         n + Cardinality(Subtree(s, Live(s), f)) <= Cardinality(Folder)
  PROVE  Grown(CopiedSubtree(s, f, p, n), n + Cardinality(Subtree(s, Live(s), f)))
<1> DEFINE z     == CopiedSubtree(s, f, p, n)
           sub   == Subtree(s, Live(s), f)
           copy  == CopiesOf(s, f, n)
           id(h) == CopyId(sub, h, n)
<1>1. /\ sub \in SUBSET Folder /\ Live(s) \in SUBSET Folder /\ f \in Folder /\ f \in sub
      /\ p \in Folder \cup {Root} /\ Existing(s) \subseteq Folder /\ Root \notin Folder
  BY SubtreeRoot, FolderIds DEF Subtree, Live, Trashed, Existing, Root
<1>2. /\ Cardinality(sub) \in Nat
      /\ \A h \in sub : id(h) \in (n + 1) .. (n + Cardinality(sub))
      /\ \A h, k \in sub : id(h) = id(k) => h = k
  BY <1>1, CopyIds
<1>3. /\ Shaped(z) /\ copy \subseteq Folder
      /\ \A g \in Folder : g \notin copy => z.folder[g] = s.folder[g] /\ z.parent[g] = s.parent[g]
      /\ \A h \in sub : /\ z.folder[id(h)] = "live"
                        /\ z.parent[id(h)] = IF h = f THEN p ELSE id(s.parent[h])
  BY <1>1, CopiedFields
<1>4. copy = {id(h) : h \in sub} BY DEF CopiesOf
<1>5. \A h \in sub : h \in Live(s) /\ (h # f => s.parent[h] \in sub)
  BY <1>1, SubtreeMember
<1> HIDE DEF z, sub, copy, id
<1>6. /\ Existing(s) \subseteq 1 .. n /\ copy \cap (Existing(s) \cup {Root}) = {}
      /\ Live(s) \subseteq Existing(s) /\ p \notin copy
  <2>1. Existing(s) \subseteq 1 .. n /\ Live(s) \subseteq Existing(s) BY DEF Grown, Existing
  <2>2. \A g \in copy : g > n /\ g \in Nat BY <1>2, <1>4
  <2> QED BY <2>1, <2>2 DEF Root
<1>7. Live(z) = Live(s) \cup copy
  BY <1>3, <1>4 DEF Live
<1>8. Existing(z) = Existing(s) \cup copy
  BY <1>3, <1>4, <1>7 DEF Live, Trashed, Existing
<1>9. \A g \in Existing(s) : z.parent[g] = s.parent[g]
  BY <1>1, <1>3, <1>6
<1>10. Forest(z)
  <2> SUFFICES ASSUME NEW X \in SUBSET Existing(z), X # {}
               PROVE  \E g \in X : z.parent[g] \notin X
    BY DEF Forest
  <2>1. CASE X \cap Existing(s) # {}
    <3>1. PICK g \in X \cap Existing(s) : s.parent[g] \notin X \cap Existing(s)
      BY <2>1 DEF Grown, Forest
    <3>2. s.parent[g] \in Existing(s) \cup {Root} BY <3>1 DEF Grown, Hung
    <3> QED BY <3>1, <3>2, <1>1, <1>3, <1>8, <1>9
  <2>2. CASE X \cap Existing(s) = {}
    <3> DEFINE Y == {h \in sub : id(h) \in X}
    <3>1. X \subseteq copy BY <2>2, <1>8
    <3>2. Y \in SUBSET Existing(s) /\ Y # {} BY <3>1, <1>4, <1>5, <1>6
    <3>3. PICK h \in Y : s.parent[h] \notin Y BY <3>2 DEF Grown, Forest
    <3>4. CASE h = f BY <3>1, <3>3, <3>4, <1>3, <1>6
    <3>5. CASE h # f
      <4>1. s.parent[h] \in sub /\ z.parent[id(h)] = id(s.parent[h]) BY <3>3, <3>5, <1>3, <1>5
      <4> QED BY <3>3, <4>1
    <3> QED BY <3>4, <3>5
  <2> QED BY <2>1, <2>2
<1>11. Hung(z)
  <2>1. \A h \in sub : z.parent[id(h)] \in Live(s) \cup {Root} \cup copy
    BY <1>3, <1>4, <1>5
  <2>2. \A g \in copy : z.parent[g] \in Live(z) \cup {Root} BY <2>1, <1>4, <1>7
  <2>3. \A g \in Existing(s) : z.parent[g] = s.parent[g] BY <1>9
  <2>4. \A g \in Live(s) : z.parent[g] \in Live(z) \cup {Root}
    BY <2>3, <1>6, <1>7 DEF Grown, Hung
  <2>5. \A g \in Existing(s) : z.parent[g] \in Existing(z) \cup {Root}
    BY <2>3, <1>8 DEF Grown, Hung
  <2> QED BY <2>2, <2>4, <2>5, <1>6, <1>7, <1>8 DEF Hung
<1>12. Existing(z) \subseteq 1 .. (n + Cardinality(sub))
  <2>1. \A g \in copy : g \in 1 .. (n + Cardinality(sub)) BY <1>2, <1>4
  <2>2. \A g \in 1 .. n : g \in 1 .. (n + Cardinality(sub)) BY <1>2
  <2> QED BY <2>1, <2>2, <1>6, <1>8
<1>13. Grown(z, n + Cardinality(sub)) BY <1>10, <1>11, <1>12 DEF Grown
<1> QED BY <1>13 DEF z, sub

(* Trashed: with a folder go the live folders below it. *)
LEMMA TrashedKeeps ==
  ASSUME NEW s, Shaped(s), NEW f
  PROVE  LET z == TrashedTree(s, f) IN
         /\ Shaped(z) /\ Spares(s, z) /\ SameRows(s, z)
         /\ \A n : Grown(s, n) => Grown(z, n)
<1> DEFINE sub == Subtree(s, Live(s), f)
           cut == sub \cap Existing(s)
           y   == SetFolders(s, cut, "trashed")
           z   == TrashedTree(s, f)
<1>1. Live(s) \in SUBSET Folder BY DEF Live
<1>2. Closed(s, Live(s), sub) BY <1>1, SubtreeClosed
<1>3. z = SetEntries(y, MembersOf(s, cut), "trashed") BY DEF TrashedTree
<1> HIDE DEF sub, z
<1>s. "trashed" \in Status BY DEF Status
<1>4. /\ Shaped(y) /\ y.parent = s.parent /\ y.entry = s.entry
      /\ y.title = s.title /\ y.tags = s.tags
      /\ y.folder = [g \in Folder |-> IF g \in cut THEN "trashed" ELSE s.folder[g]]
  BY <1>s, SetFoldersFields
<1> HIDE DEF y
<1>5. /\ Shaped(z) /\ SameFolders(y, z) /\ SparesEntries(y, z) /\ SameRows(y, z)
  BY <1>3, <1>4, SetEntriesFields
<1>6. SparesEntries(s, z) /\ SameRows(s, z)
  BY <1>4, <1>5 DEF SparesEntries, SameRows, Rows, LiveEntries, TrashedEntries
<1>7. SparesFolders(s, z) BY <1>4, <1>5 DEF SparesFolders, SameFolders, Live
<1>8. Live(z) = Live(s) \ cut /\ Existing(z) = Existing(s) /\ z.parent = s.parent
  BY <1>4, <1>5 DEF SameFolders, Live, Trashed, Existing
<1>9. ASSUME NEW n, Grown(s, n) PROVE Grown(z, n)
  <2>1. Forest(z) BY <1>8, <1>9 DEF Grown, Forest
  <2>2. \A g \in Live(s) : s.parent[g] \in cut => g \in cut
    BY <1>2 DEF Closed, Existing
  <2>3. Hung(z) BY <1>8, <1>9, <2>2 DEF Grown, Hung
  <2> QED BY <1>8, <1>9, <2>1, <2>3 DEF Grown
<1> QED BY <1>5, <1>6, <1>7, <1>9 DEF Spares, z

(* Restored: all that is below the folder comes back, at the root if its place is gone. *)
LEMMA RestoredKeeps ==
  ASSUME NEW s, Shaped(s), NEW f
  PROVE  LET z == RestoredTree(s, f) IN
         /\ Shaped(z) /\ Spares(s, z) /\ SameRows(s, z)
         /\ \A n : Grown(s, n) => Grown(z, n)
<1> DEFINE sub == Subtree(s, Existing(s), f)
           up  == IF s.parent[f] \in Live(s) \cup {Root} THEN s.parent[f] ELSE Root
           y   == SetFolders(s, sub, "live")
           x   == SetEntries(y, MembersOf(s, sub), "live")
           z   == RestoredTree(s, f)
<1>1. CASE f \notin Existing(s)
  BY <1>1 DEF RestoredTree, Spares, SparesEntries, SparesFolders, SameRows, LiveEntries, Live
<1>2. CASE f \in Existing(s)
  <2>1. /\ Existing(s) \in SUBSET Folder /\ f \in Folder /\ f \in sub /\ Root \notin Folder
        /\ up \in Live(s) \cup {Root} /\ Live(s) \subseteq Existing(s) /\ Live(s) \subseteq Folder
    BY <1>2, SubtreeRoot, FolderIds DEF Existing, Live, Trashed, Root
  <2>2. \A g \in sub : g # f => g \in Existing(s) /\ s.parent[g] \in sub
    BY <2>1, SubtreeMember
  <2>3. z = [x EXCEPT !.parent[f] = up] BY <1>2 DEF RestoredTree
  <2> HIDE DEF sub, up
  <2>s. "live" \in Status BY DEF Status
  <2>4. /\ Shaped(y) /\ y.parent = s.parent /\ y.entry = s.entry
        /\ y.title = s.title /\ y.tags = s.tags
        /\ y.folder = [g \in Folder |-> IF g \in sub THEN "live" ELSE s.folder[g]]
    BY <2>s, SetFoldersFields
  <2> HIDE DEF y
  <2>5. Shaped(x) /\ SameFolders(y, x) /\ SparesEntries(y, x) /\ SameRows(y, x)
    BY <2>4, SetEntriesFields
  <2> HIDE DEF x, z
  <2>6. /\ Shaped(z) /\ z.folder = y.folder /\ z.parent = [s.parent EXCEPT ![f] = up]
        /\ z.entry = x.entry /\ z.title = x.title /\ z.tags = x.tags
    <3>1. DOMAIN x = Columns /\ x.parent = s.parent /\ x.folder = y.folder
      BY <2>4, <2>5 DEF Shaped, SameFolders
    <3>2. /\ z = [c \in Columns |-> z[c]] /\ z.folder = y.folder
          /\ z.parent = [s.parent EXCEPT ![f] = up]
          /\ z.entry = x.entry /\ z.title = x.title /\ z.tags = x.tags
      BY <2>3, <3>1 DEF Columns
    <3>3. z.parent \in [Folder -> Folder \cup {Root}] BY <3>2, <2>1 DEF Shaped
    <3> QED BY <3>2, <3>3, <2>4, <2>5 DEF Shaped
  <2>7. SparesEntries(s, z) /\ SameRows(s, z)
    BY <2>4, <2>5, <2>6 DEF SparesEntries, SameRows, Rows, LiveEntries, TrashedEntries
  <2>8. SparesFolders(s, z) BY <2>4, <2>6 DEF SparesFolders, Live
  <2>9. /\ Live(z) = Live(s) \cup sub /\ Existing(z) = Existing(s)
        /\ z.parent[f] = up /\ \A g \in Folder : g # f => z.parent[g] = s.parent[g]
    <3>1. sub \subseteq Existing(s) BY <1>2, <2>2
    <3>2. \A g \in Folder : z.folder[g] = IF g \in sub THEN "live" ELSE s.folder[g]
      BY <2>4, <2>6
    <3>3. Live(z) = Live(s) \cup sub BY <2>1, <3>1, <3>2 DEF Live
    <3>4. Existing(z) = Existing(s) BY <3>1, <3>2, <3>3 DEF Live, Trashed, Existing
    <3>5. z.parent[f] = up /\ \A g \in Folder : g # f => z.parent[g] = s.parent[g]
      BY <2>1, <2>6 DEF Shaped
    <3> QED BY <3>3, <3>4, <3>5
  <2>10. ASSUME NEW n, Grown(s, n) PROVE Grown(z, n)
    <3>0. up = s.parent[f] \/ up = Root BY DEF up
    <3>1. Forest(z)
      <4> SUFFICES ASSUME NEW X \in SUBSET Existing(s), X # {}
                   PROVE  \E g \in X : z.parent[g] \notin X
        BY <2>9 DEF Forest
      <4>1. PICK g \in X : s.parent[g] \notin X BY <2>10 DEF Grown, Forest
      <4> QED BY <3>0, <4>1, <2>1, <2>9
    <3>2. Hung(z)
      <4>1. \A g \in Live(s) : g # f => z.parent[g] \in Live(z) \cup {Root}
        BY <2>1, <2>9, <2>10 DEF Grown, Hung
      <4>2. \A g \in sub : g # f => z.parent[g] \in Live(z) \cup {Root}
        BY <2>1, <2>2, <2>9
      <4>3. z.parent[f] \in Live(z) \cup {Root} BY <2>1, <2>9
      <4>4. \A g \in Existing(s) : g # f => z.parent[g] \in Existing(s) \cup {Root}
        BY <2>1, <2>9, <2>10 DEF Grown, Hung
      <4>5. z.parent[f] \in Existing(s) \cup {Root} BY <2>1, <2>9
      <4> QED BY <2>9, <4>1, <4>2, <4>3, <4>4, <4>5 DEF Hung
    <3> QED BY <2>9, <2>10, <3>1, <3>2 DEF Grown
  <2> QED BY <2>6, <2>7, <2>8, <2>10 DEF Spares, z
<1> QED BY <1>1, <1>2

(* What is below a folder in the trash is in the trash. *)
LEMMA TrashedBelow ==
  ASSUME NEW s, Hung(s), NEW f \in Trashed(s)
  PROVE  Subtree(s, Existing(s), f) \subseteq Trashed(s)
<1>1. Trashed(s) \in SUBSET Folder /\ Root \notin Folder /\ Root \notin Live(s)
  BY FolderIds DEF Trashed, Live, Root
<1>2. \A h \in Live(s) : s.parent[h] \notin Trashed(s)
  BY <1>1 DEF Hung, Live, Trashed
<1>3. Closed(s, Existing(s), Trashed(s)) BY <1>2 DEF Closed, Existing
<1> QED BY <1>1, <1>3, SubtreeLeast

(* Whole subtrees are removed. *)
LEMMA WithoutFoldersGrown ==
  ASSUME NEW s, Shaped(s), NEW gone, Closed(s, Existing(s), gone), NEW n, Grown(s, n)
  PROVE  Grown(WithoutFolders(s, gone), n)
<1> DEFINE z == WithoutFolders(s, gone)
<1>1. /\ z.folder = [f \in Folder |-> IF f \in gone THEN "absent" ELSE s.folder[f]]
      /\ z.parent = [f \in Folder |-> IF f \in gone THEN Root ELSE s.parent[f]]
  BY WithoutFoldersFields
<1> HIDE DEF z
<1>2. /\ Live(z) = Live(s) \ gone /\ Existing(z) = Existing(s) \ gone
      /\ \A f \in Existing(z) : z.parent[f] = s.parent[f]
      /\ Live(z) \subseteq Existing(z)
  BY <1>1 DEF Live, Trashed, Existing
<1>3. \A h \in Existing(z) : s.parent[h] \notin gone BY <1>2 DEF Closed
<1>4. Forest(z) BY <1>2 DEF Grown, Forest
<1>5. Hung(z)
  <2>1. \A f \in Live(z) : z.parent[f] \in Live(z) \cup {Root}
    BY <1>2, <1>3 DEF Grown, Hung
  <2>2. \A f \in Existing(z) : z.parent[f] \in Existing(z) \cup {Root}
    BY <1>2, <1>3 DEF Grown, Hung
  <2> QED BY <2>1, <2>2 DEF Hung
<1>6. Grown(z, n) BY <1>2, <1>4, <1>5 DEF Grown
<1> QED BY <1>6 DEF z

LEMMA SubtreesClosed ==
  ASSUME NEW s, NEW fs
  PROVE  Closed(s, Existing(s), UNION {Subtree(s, Existing(s), f) : f \in fs})
<1>1. Existing(s) \in SUBSET Folder BY DEF Existing, Live, Trashed
<1>2. \A f \in fs : Closed(s, Existing(s), Subtree(s, Existing(s), f)) BY <1>1, SubtreeClosed
<1> QED BY <1>2 DEF Closed

(* Both deletions of folders: rows in the trash, and subtrees of it. *)
LEMMA DeletedKeeps ==
  ASSUME NEW s, Shaped(s), NEW es, es \cap LiveEntries(s) = {}, NEW gone
  PROVE  LET z == WithoutFolders(WithoutEntries(s, es), gone) IN
         /\ Shaped(z) /\ SparesEntries(s, z) /\ LiveEntries(z) = LiveEntries(s)
         /\ Hung(s) /\ gone \subseteq Trashed(s) => SparesFolders(s, z) /\ Live(z) = Live(s)
         /\ Existing(z) \subseteq Existing(s) /\ Live(z) \subseteq Live(s)
         /\ \A f \in Existing(z) : z.parent[f] = s.parent[f]
         /\ Closed(s, Existing(s), gone) => \A n : Grown(s, n) => Grown(z, n)
<1> DEFINE y == WithoutEntries(s, es)
           z == WithoutFolders(y, gone)
<1>1. /\ Shaped(y) /\ SameFolders(s, y)
      /\ y.entry = [e \in Entry |-> IF e \in es THEN "absent" ELSE s.entry[e]]
  BY WithoutEntriesFields
<1> HIDE DEF y
<1>2. /\ Shaped(z) /\ z.entry = y.entry
      /\ z.folder = [f \in Folder |-> IF f \in gone THEN "absent" ELSE s.folder[f]]
      /\ z.parent = [f \in Folder |-> IF f \in gone THEN Root ELSE s.parent[f]]
  BY <1>1, WithoutFoldersFields DEF SameFolders
<1>3. Closed(s, Existing(s), gone) => \A n : Grown(s, n) => Grown(z, n)
  <2> SUFFICES ASSUME Closed(s, Existing(s), gone), NEW n, Grown(s, n) PROVE Grown(z, n)
    OBVIOUS
  <2>1. Existing(y) = Existing(s) /\ Grown(y, n)
    BY <1>1, GrownSame DEF SameFolders, Existing, Live, Trashed
  <2>2. Closed(y, Existing(y), gone) BY <1>1, <2>1 DEF Closed, SameFolders
  <2> QED BY <1>1, <2>1, <2>2, WithoutFoldersGrown
<1> HIDE DEF z
<1>4. LiveEntries(z) = LiveEntries(s) /\ SparesEntries(s, z)
  BY <1>1, <1>2 DEF LiveEntries, SparesEntries
<1>5. /\ Live(z) = Live(s) \ gone /\ Existing(z) = Existing(s) \ gone
      /\ \A f \in Existing(z) : z.parent[f] = s.parent[f]
  BY <1>2 DEF Live, Trashed, Existing
<1>6. gone \subseteq Trashed(s) => SparesFolders(s, z) /\ Live(z) = Live(s)
  BY <1>2, <1>5 DEF Live, Trashed, SparesFolders
<1> QED BY <1>2, <1>3, <1>4, <1>5, <1>6 DEF y, z

LEMMA PurgedKeeps ==
  ASSUME NEW s, Shaped(s), NEW f
  PROVE  LET z == PurgedTree(s, f) IN
         /\ Shaped(z) /\ SparesEntries(s, z) /\ (Hung(s) => SparesFolders(s, z))
         /\ \A n : Grown(s, n) => Grown(z, n)
<1> DEFINE z   == PurgedTree(s, f)
           sub == Subtree(s, Existing(s), f)
           es  == MembersOf(s, sub) \cap TrashedEntries(s)
<1>1. CASE f \notin Trashed(s)
  BY <1>1 DEF PurgedTree, SparesEntries, SparesFolders, LiveEntries, Live
<1>2. CASE f \in Trashed(s)
  <2>1. z = WithoutFolders(WithoutEntries(s, es), sub) BY <1>2 DEF PurgedTree
  <2>2. es \cap LiveEntries(s) = {} BY DEF TrashedEntries, LiveEntries
  <2>3. Hung(s) => sub \subseteq Trashed(s) BY <1>2, TrashedBelow
  <2>4. Existing(s) \in SUBSET Folder BY DEF Existing, Live, Trashed
  <2>5. Closed(s, Existing(s), sub) BY <2>4, SubtreeClosed
  <2> HIDE DEF z, sub, es
  <2>6. /\ Shaped(z) /\ SparesEntries(s, z) /\ (Hung(s) => SparesFolders(s, z))
        /\ \A n : Grown(s, n) => Grown(z, n)
    BY <2>1, <2>2, <2>3, <2>5, DeletedKeeps
  <2> QED BY <2>6 DEF z
<1> QED BY <1>1, <1>2

LEMMA ExpiredKeeps ==
  ASSUME NEW s, Shaped(s), NEW es \in SUBSET TrashedEntries(s), NEW fs \in SUBSET Trashed(s)
  PROVE  LET z == Expired(s, es, fs) IN
         /\ Shaped(z) /\ SparesEntries(s, z) /\ LiveEntries(z) = LiveEntries(s)
         /\ Hung(s) => SparesFolders(s, z) /\ Live(z) = Live(s)
         /\ Existing(z) \subseteq Existing(s) /\ Live(z) \subseteq Live(s)
         /\ \A f \in Existing(z) : z.parent[f] = s.parent[f]
         /\ \A n : Grown(s, n) => Grown(z, n)
<1> DEFINE gone == UNION {Subtree(s, Existing(s), f) : f \in fs}
           z    == Expired(s, es, fs)
<1>1. z = WithoutFolders(WithoutEntries(s, es), gone) BY DEF Expired
<1>2. es \cap LiveEntries(s) = {} BY DEF TrashedEntries, LiveEntries
<1>3. Closed(s, Existing(s), gone) BY SubtreesClosed
<1>4. Hung(s) => gone \subseteq Trashed(s) BY TrashedBelow
<1> HIDE DEF gone, z
<1>5. /\ Shaped(z) /\ SparesEntries(s, z) /\ LiveEntries(z) = LiveEntries(s)
      /\ Hung(s) => SparesFolders(s, z) /\ Live(z) = Live(s)
      /\ Existing(z) \subseteq Existing(s) /\ Live(z) \subseteq Live(s)
      /\ \A f \in Existing(z) : z.parent[f] = s.parent[f]
      /\ \A n : Grown(s, n) => Grown(z, n)
  BY <1>1, <1>2, <1>3, <1>4, DeletedKeeps
<1> QED BY <1>5 DEF z

(* A rewind brings back the folders of the snapshot, and no entry that the table has lost. *)
LEMMA RewoundKeeps ==
  ASSUME NEW s, Shaped(s), NEW want, Shaped(want)
  PROVE  LET z == Rewound(s, want) IN
         /\ Shaped(z) /\ SparesEntries(s, z) /\ SameFolders(want, z)
         /\ SameRows(s, want) => z = want
<1> DEFINE z     == Rewound(s, want)
           known == Rows(s) \cap Rows(want)
           a == [e \in Entry |-> IF e \in known THEN want.entry[e] ELSE s.entry[e]]
           b == [e \in Entry |-> IF e \in known THEN want.title[e] ELSE s.title[e]]
           c == [e \in Entry |-> IF e \in known THEN want.tags[e] ELSE s.tags[e]]
<1>1. z = [want EXCEPT !.entry = a, !.title = b, !.tags = c]
  BY DEF Shaped, Columns, Rewound
<1>2. a \in [Entry -> Status] BY DEF Shaped
<1>3. SameRows(s, want) => a = want.entry /\ b = want.title /\ c = want.tags
  <2> SUFFICES ASSUME SameRows(s, want)
               PROVE  a = want.entry /\ b = want.title /\ c = want.tags
    OBVIOUS
  <2>1. \A e \in Entry : e \notin known => s.entry[e] = "absent" /\ want.entry[e] = "absent"
    BY DEF SameRows, Rows, LiveEntries, TrashedEntries, Shaped, Status
  <2>2. \A e \in Entry : e \notin known => s.title[e] = want.title[e] /\ s.tags[e] = want.tags[e]
    BY DEF SameRows
  <2> HIDE DEF known
  <2>3. a = [e \in Entry |-> want.entry[e]] BY <2>1
  <2>4. b = [e \in Entry |-> want.title[e]] /\ c = [e \in Entry |-> want.tags[e]] BY <2>2
  <2> QED BY <2>3, <2>4 DEF Shaped
<1>4. \A e \in Entry : s.entry[e] = "live" => a[e] # "absent"
  BY DEF Rows, LiveEntries, TrashedEntries
<1>5. DOMAIN b = Entry /\ DOMAIN c = Entry OBVIOUS
<1>6. b = [e \in Entry |-> b[e]] /\ c = [e \in Entry |-> c[e]] OBVIOUS
<1> HIDE DEF a, b, c, z
<1>7. /\ z = [x \in Columns |-> z[x]] /\ z.entry = a /\ z.title = b /\ z.tags = c
      /\ z.folder = want.folder /\ z.parent = want.parent
  BY <1>1 DEF Shaped, Columns
<1>8. Shaped(z) BY <1>2, <1>6, <1>7 DEF Shaped
<1>9. SparesEntries(s, z) BY <1>4, <1>7 DEF SparesEntries, LiveEntries
<1>10. SameRows(s, want) => z = want BY <1>1, <1>3 DEF Shaped, Columns
<1> QED BY <1>7, <1>8, <1>9, <1>10 DEF z, SameFolders

(* What leaves the folders and the set of entries alone. *)
Neat(s) == \A e \in Entry \ Rows(s) : s.tags[e] = {}
Plain(s, z) ==
  Shaped(z) /\ SameFolders(s, z) /\ SparesEntries(s, z) /\ (Neat(s) => SameRows(s, z))

LEMMA PlainFields ==
  ASSUME NEW s, Shaped(s), NEW z, z = [c \in Columns |-> z[c]],
         SameFolders(s, z), z.entry = s.entry,
         z.title = [e \in Entry |-> z.title[e]], z.tags = [e \in Entry |-> z.tags[e]],
         Neat(s) => \A e \in Entry \ Rows(s) : z.title[e] = s.title[e] /\ z.tags[e] = s.tags[e]
  PROVE  Plain(s, z)
<1>1. Shaped(z) BY DEF Shaped, SameFolders
<1>2. SparesEntries(s, z) BY DEF SparesEntries, LiveEntries
<1>3. Rows(z) = Rows(s) BY DEF Rows, LiveEntries, TrashedEntries
<1> QED BY <1>1, <1>2, <1>3 DEF Plain, SameRows

LEMMA PlainItself == ASSUME NEW s, Shaped(s) PROVE Plain(s, s)
BY DEF Plain, SameFolders, SparesEntries, SameRows, LiveEntries

LEMMA PlainTwice ==
  ASSUME NEW s, NEW y, NEW z, Plain(s, y), Plain(y, z), y.entry = s.entry
  PROVE  Plain(s, z)
BY DEF Plain, SameFolders, SparesEntries, SameRows, LiveEntries, Neat

LEMMA RenamedPlain ==
  ASSUME NEW s, Shaped(s), NEW f, NEW name PROVE Plain(s, Renamed(s, f, name))
<1> DEFINE z == Renamed(s, f, name)
<1>1. CASE f \notin Existing(s) BY <1>1, PlainItself DEF Renamed
<1>2. CASE f \in Existing(s)
  <2>1. /\ z = [c \in Columns |-> z[c]] /\ SameFolders(s, z) /\ z.entry = s.entry
        /\ z.title = s.title /\ z.tags = s.tags
    BY <1>2 DEF Shaped, Columns, Renamed, SameFolders
  <2> HIDE DEF z
  <2>2. Plain(s, z)
    <3>1. s.title = [e \in Entry |-> s.title[e]] /\ s.tags = [e \in Entry |-> s.tags[e]]
      BY DEF Shaped
    <3> QED BY <2>1, <3>1, PlainFields
  <2> QED BY <2>2 DEF z
<1> QED BY <1>1, <1>2

LEMMA InOrderPlain ==
  ASSUME NEW s, Shaped(s), NEW list PROVE Plain(s, InOrder(s, list))
<1> DEFINE z == InOrder(s, list)
<1>1. /\ z = [c \in Columns |-> z[c]] /\ SameFolders(s, z) /\ z.entry = s.entry
      /\ z.title = s.title /\ z.tags = s.tags
  BY DEF Shaped, Columns, InOrder, SameFolders
<1> HIDE DEF z
<1>2. s.title = [e \in Entry |-> s.title[e]] /\ s.tags = [e \in Entry |-> s.tags[e]]
  BY DEF Shaped
<1>3. Plain(s, z) BY <1>1, <1>2, PlainFields
<1> QED BY <1>3 DEF z

LEMMA MembersPlain ==
  ASSUME NEW s, Shaped(s), NEW members PROVE Plain(s, [s EXCEPT !.member = members])
<1> DEFINE z == [s EXCEPT !.member = members]
<1>1. /\ z = [c \in Columns |-> z[c]] /\ SameFolders(s, z) /\ z.entry = s.entry
      /\ z.title = s.title /\ z.tags = s.tags
  BY DEF Shaped, Columns, SameFolders
<1> HIDE DEF z
<1>2. s.title = [e \in Entry |-> s.title[e]] /\ s.tags = [e \in Entry |-> s.tags[e]]
  BY DEF Shaped
<1>3. Plain(s, z) BY <1>1, <1>2, PlainFields
<1> QED BY <1>3 DEF z

LEMMA TaggedPlain ==
  ASSUME NEW s, Shaped(s), NEW entries, NEW tag
  PROVE  Plain(s, Tagged(s, entries, tag)) /\ Tagged(s, entries, tag).entry = s.entry
<1> DEFINE z == Tagged(s, entries, tag)
<1>1. /\ z = [c \in Columns |-> z[c]] /\ SameFolders(s, z) /\ z.entry = s.entry
      /\ z.title = s.title
      /\ z.tags = [e \in Entry |-> IF e \in entries \cap Rows(s) THEN s.tags[e] \cup {tag}
                                   ELSE s.tags[e]]
  BY DEF Shaped, Columns, Tagged, SameFolders
<1> HIDE DEF z
<1>2. s.title = [e \in Entry |-> s.title[e]] BY DEF Shaped
<1>3. z.tags = [e \in Entry |-> z.tags[e]] /\ \A e \in Entry \ Rows(s) : z.tags[e] = s.tags[e]
  BY <1>1
<1>4. Plain(s, z) BY <1>1, <1>2, <1>3, PlainFields
<1> QED BY <1>1, <1>4 DEF z

LEMMA UntaggedPlain ==
  ASSUME NEW s, Shaped(s), NEW entries, NEW tag PROVE Plain(s, Untagged(s, entries, tag))
<1> DEFINE z == Untagged(s, entries, tag)
<1>1. /\ z = [c \in Columns |-> z[c]] /\ SameFolders(s, z) /\ z.entry = s.entry
      /\ z.title = s.title
      /\ z.tags = [e \in Entry |-> IF e \in entries THEN s.tags[e] \ {tag} ELSE s.tags[e]]
  BY DEF Shaped, Columns, Untagged, SameFolders
<1> HIDE DEF z
<1>2. s.title = [e \in Entry |-> s.title[e]] BY DEF Shaped
<1>3. z.tags = [e \in Entry |-> z.tags[e]] BY <1>1
<1>4. Neat(s) => \A e \in Entry \ Rows(s) : z.tags[e] = s.tags[e] BY <1>1 DEF Neat
<1>5. Plain(s, z) BY <1>1, <1>2, <1>3, <1>4, PlainFields
<1> QED BY <1>5 DEF z

LEMMA TagRenamedPlain ==
  ASSUME NEW s, Shaped(s), NEW old, NEW new PROVE Plain(s, TagRenamed(s, old, new))
<1> DEFINE y == Tagged(s, {e \in Entry : old \in s.tags[e]}, new)
<1>1. Plain(s, y) /\ y.entry = s.entry BY TaggedPlain
<1>2. Shaped(y) BY <1>1 DEF Plain
<1>3. TagRenamed(s, old, new) = Untagged(y, Entry, old) BY DEF TagRenamed
<1> HIDE DEF y
<1> QED BY <1>1, <1>2, <1>3, UntaggedPlain, PlainTwice

LEMMA TitledPlain ==
  ASSUME NEW s, Shaped(s), NEW entries, NEW title PROVE Plain(s, Titled(s, entries, title))
<1> DEFINE z == Titled(s, entries, title)
<1>1. /\ z = [c \in Columns |-> z[c]] /\ SameFolders(s, z) /\ z.entry = s.entry
      /\ z.tags = s.tags
      /\ z.title = [e \in Entry |-> IF e \in entries \cap Rows(s) THEN title ELSE s.title[e]]
  BY DEF Shaped, Columns, Titled, SameFolders
<1> HIDE DEF z
<1>2. s.tags = [e \in Entry |-> s.tags[e]] BY DEF Shaped
<1>3. z.title = [e \in Entry |-> z.title[e]] /\ \A e \in Entry \ Rows(s) : z.title[e] = s.title[e]
  BY <1>1
<1>4. Plain(s, z) BY <1>1, <1>2, <1>3, PlainFields
<1> QED BY <1>4 DEF z

LEMMA SetEntriesPlain ==
  ASSUME NEW s, Shaped(s), NEW entries, NEW status \in {"live", "trashed"}
  PROVE  Plain(s, SetEntries(s, entries, status))
BY SetEntriesFields DEF Plain
-----------------------------------------------------------------------------
(* What a state consists of while commands wait for one another: a task at most, with *)
(* the ids it asked for, snapshots that are stores, and nodes that hang from others.  *)
Alone == "overlap" \notin events

TaskFields == {"phase", "cmd", "before", "after", "changed"}

TaskHeld(x, s, n) ==
  /\ x = [c \in TaskFields |-> x[c]]
  /\ x.phase \in {"begin", "change"} =>
       /\ x.cmd.kind = "create" => n < Cardinality(Folder)
       /\ x.cmd.kind = "copy" =>
            n + Cardinality(Subtree(s, Live(s), x.cmd.folder)) <= Cardinality(Folder)
       /\ x.cmd.kind = "rewind" => Shaped(x.cmd.want)
  /\ x.phase \notin {"free", "begin"} => Shaped(x.before)
  /\ x.phase = "done" => Shaped(x.after)

OneTask == \A r, t \in Slots : r = t \/ tasks[r].phase = "free" \/ tasks[t].phase = "free"

CoreHeld ==
  /\ Shaped(store) /\ lastFolder \in 0 .. Cardinality(Folder)
  /\ tasks = [t \in Slots |-> tasks[t]]
  /\ \A t \in Slots : TaskHeld(tasks[t], store, lastFolder)
  /\ OneTask
  /\ \E S : nodes \in Seq(S)
  /\ current \in DOMAIN nodes
  /\ \A n \in DOMAIN nodes :
       /\ Shaped(nodes[n].before) /\ Shaped(nodes[n].after)
       /\ nodes[n].parent \in Nat /\ nodes[n].parent < n
       /\ n # 1 => nodes[n].parent \in DOMAIN nodes
  /\ \A t \in Slots :
       tasks[t].phase # "free" /\ tasks[t].cmd.kind = "rewind" =>
         tasks[t].cmd.target \in DOMAIN nodes

CoreInv == Alone => CoreHeld

(* The tree, and what a command was given for, while its task has not come to it. *)
Calm == events \cap {"overlap", "trashPaste"} = {}

Ready(x, s, n) ==
  LET c == x.cmd
      ahead == x.phase \in {"begin", "change"}
  IN /\ ahead /\ c.kind \in {"create", "copy"} => c.to \in Live(s) \cup {Root}
     /\ (ahead \/ x.phase = "write") /\ c.kind = "move" => c.to \in Live(s) \cup {Root}
     /\ x.phase = "write" /\ c.kind = "move" => c.to \notin Subtree(s, Existing(s), c.folder)
     /\ ahead /\ c.kind = "purge" => c.entries \cap LiveEntries(s) = {}
     /\ ahead /\ c.kind = "rewind" => Grown(c.want, n)
     /\ x.phase \notin {"free", "begin"} => Grown(x.before, n)
     /\ x.phase = "done" => Grown(x.after, n)

TreeHeld ==
  /\ Grown(store, lastFolder)
  /\ \A t \in Slots : Ready(tasks[t], store, lastFolder)
  /\ \A n \in DOMAIN nodes :
       Grown(nodes[n].before, lastFolder) /\ Grown(nodes[n].after, lastFolder)

TreeInv == Calm => TreeHeld

(* Along the nodes of the history the library changed; the task that is under way, in *)
(* terms of the node that is current.                                                 *)
Filing == events \cap {"overlap", "failure", "expiry", "import", "purge", "card"} = {}

Follows(x, s, now) ==
  LET c == x.cmd IN
  /\ \/ x.phase \in {"free", "begin", "change", "failed"}
     \/ x.phase = "write" /\ c.kind = "move"
     \/ c.kind = "reindex"
     => s = now
  /\ x.phase \notin {"free", "begin", "failed"} => x.before = now
  /\ x.phase = "done" => x.after = s
  /\ x.phase # "free" => c.kind \notin {"import", "purge", "purgeFolder", "card"}
  /\ c.kind = "rewind" /\ x.phase \notin {"free", "failed"} =>
       nodes[c.target].after = IF x.phase \in {"begin", "change"} THEN c.want ELSE s

HistoryHeld ==
  /\ Neat(store)
  /\ \A n \in DOMAIN nodes :
       /\ SameRows(store, nodes[n].after)
       /\ n # 1 => nodes[n].before = nodes[nodes[n].parent].after
  /\ Idle => store = nodes[current].after
  /\ \A t \in Slots : tasks[t].phase # "free" => Follows(tasks[t], store, nodes[current].after)

HistoryInv == Filing => HistoryHeld
-----------------------------------------------------------------------------
(* The tasks, once for all three invariants: what a step of one leaves. *)
Goes(t, phases) ==
  /\ tasks' = [tasks EXCEPT ![t] = tasks'[t]]
  /\ tasks'[t] = [c \in TaskFields |-> tasks'[t][c]]
  /\ tasks'[t].phase \in phases
  /\ tasks'[t].cmd = tasks[t].cmd /\ tasks'[t].before = tasks[t].before
  /\ UNCHANGED <<nodes, current, events>>

(* The rows stay as they are: a check, the index, or a failure. *)
Rests(t) ==
  LET c == tasks[t].cmd IN
  /\ Goes(t, {"write", "index", "end", "failed"}) /\ UNCHANGED <<store, lastFolder>>
  /\ tasks[t].phase \in {"change", "write", "index"}
  /\ tasks[t].phase = "write" => c.kind = "move"
  /\ tasks[t].phase = "index" => tasks'[t].phase \in {"end", "failed"}
  /\ tasks'[t].phase = "write" =>
       \/ c.kind = "restore"
       \/ c.kind = "move" /\ c.to \notin Subtree(store, Existing(store), c.folder)
  /\ tasks'[t].phase = "failed" =>
       tasks[t].phase \in {"change", "write"} \/ "failure" \in events
  /\ c.kind = "rewind" /\ tasks[t].phase = "change" => tasks'[t].phase = "failed"

(* What was asked for is done to the rows. *)
Alters(t) ==
  LET c == tasks[t].cmd
      sound == Grown(store, lastFolder) /\ Ready(tasks[t], store, lastFolder)
  IN /\ Goes(t, {"write", "index", "end"})
     /\ tasks[t].phase \in {"change", "write"} /\ c.kind \notin {"rewind", "reindex"}
     /\ tasks'[t].phase = "write" => c.kind = "restore"
     /\ Shaped(store') /\ lastFolder' \in lastFolder .. Cardinality(Folder)
     /\ sound => Grown(store', lastFolder') /\ Spares(store, store')
     /\ Neat(store) /\ c.kind \notin {"import", "purge", "purgeFolder", "card"} =>
          SameRows(store, store')

(* An undo or a redo. *)
Rewinds(t) ==
  /\ Goes(t, {"index"}) /\ UNCHANGED lastFolder
  /\ tasks[t].phase = "change" /\ tasks[t].cmd.kind = "rewind"
  /\ Shaped(store') /\ SparesEntries(store, store') /\ SameFolders(tasks[t].cmd.want, store')
  /\ SameRows(store, tasks[t].cmd.want) => store' = tasks[t].cmd.want

LEMMA BecomeGoes ==
  ASSUME CoreHeld, NEW t \in Slots, NEW phase, Become(t, phase),
         UNCHANGED <<nodes, current, events>>
  PROVE  Goes(t, {phase}) /\ tasks'[t].phase = phase /\ tasks'[t].changed = tasks[t].changed
BY DEF CoreHeld, TaskHeld, TaskFields, Become, Goes

LEMMA ChangedGoes ==
  ASSUME CoreHeld, NEW t \in Slots, NEW phase, NEW changed,
         tasks' = [tasks EXCEPT ![t].phase = phase, ![t].changed = changed],
         UNCHANGED <<nodes, current, events>>
  PROVE  Goes(t, {phase}) /\ tasks'[t].phase = phase
BY DEF CoreHeld, TaskHeld, TaskFields, Goes

LEMMA GoesMore ==
  ASSUME NEW t, NEW less, NEW more, less \subseteq more, Goes(t, less) PROVE Goes(t, more)
BY DEF Goes

LEMMA TaskFailsRests ==
  ASSUME CoreHeld, NEW t \in Slots, tasks[t].phase \in {"change", "write"},
         tasks[t].phase = "write" => tasks[t].cmd.kind = "move",
         Become(t, "failed"), UNCHANGED <<store, lastFolder, nodes, current, events>>
  PROVE  Rests(t)
<1>1. Goes(t, {"failed"}) /\ tasks'[t].phase = "failed" BY BecomeGoes
<1>2. Goes(t, {"write", "index", "end", "failed"}) BY <1>1, GoesMore
<1> QED BY <1>1, <1>2 DEF Rests

LEMMA PlainAlters ==
  ASSUME CoreHeld, NEW t \in Slots, Goes(t, {"index", "end"}), UNCHANGED lastFolder,
         tasks[t].phase \in {"change", "write"}, tasks[t].cmd.kind \notin {"rewind", "reindex"},
         Plain(store, store')
  PROVE  Alters(t)
<1>1. Goes(t, {"write", "index", "end"}) BY GoesMore
<1>2. tasks'[t].phase # "write" BY DEF Goes
<1>3. Grown(store, lastFolder) => Grown(store', lastFolder') /\ Spares(store, store')
  BY GrownSame DEF Plain, SameFolders, Spares
<1>4. lastFolder' \in lastFolder .. Cardinality(Folder)
  BY FolderIds, FS_CardinalityType DEF CoreHeld
<1> QED BY <1>1, <1>2, <1>3, <1>4 DEF Alters, Plain

LEMMA ChangesRowsAlters ==
  ASSUME CoreHeld, NEW t \in Slots, NEW kind, kind \notin {"rewind", "reindex"},
         NEW new, Plain(store, new), ChangesRows(t, kind, new)
  PROVE  Alters(t)
<1>1. /\ tasks[t].phase = "change" /\ tasks[t].cmd.kind = kind /\ store' = new
      /\ Become(t, "end") /\ UNCHANGED <<lastFolder, nodes, current, events>>
  BY DEF ChangesRows, InChange, historyVars
<1>2. Goes(t, {"end"}) BY <1>1, BecomeGoes
<1>3. Goes(t, {"index", "end"}) BY <1>2, GoesMore
<1> QED BY <1>1, <1>3, PlainAlters

LEMMA ChangesMembersAlters ==
  ASSUME CoreHeld, NEW t \in Slots, NEW kind, kind \notin {"rewind", "reindex"},
         NEW kept, ChangesMembers(t, kind, kept)
  PROVE  Alters(t)
<1>1. /\ tasks[t].phase = "change" /\ tasks[t].cmd.kind = kind
      /\ store' = store \/ \E m : store' = [store EXCEPT !.member = m]
      /\ Become(t, "end") /\ UNCHANGED <<lastFolder, nodes, current, events>>
  BY DEF ChangesMembers, InChange, historyVars
<1>2. Plain(store, store')
  <2>1. Shaped(store) BY DEF CoreHeld
  <2>2. CASE store' = store BY <2>1, <2>2, PlainItself
  <2>3. CASE \E m : store' = [store EXCEPT !.member = m]
    <3>1. PICK m : store' = [store EXCEPT !.member = m] BY <2>3
    <3>2. Plain(store, [store EXCEPT !.member = m]) BY <2>1, MembersPlain
    <3> QED BY <3>1, <3>2
  <2> QED BY <1>1, <2>2, <2>3
<1>3. Goes(t, {"end"}) BY <1>1, BecomeGoes
<1>4. Goes(t, {"index", "end"}) BY <1>3, GoesMore
<1> QED BY <1>1, <1>2, <1>4, PlainAlters

LEMMA ChangesEntriesGoes ==
  ASSUME CoreHeld, NEW t \in Slots, NEW kind, NEW new, NEW also,
         ChangesEntries(t, kind, new, also)
  PROVE  /\ Goes(t, {"index"}) /\ tasks'[t].phase = "index"
         /\ tasks[t].phase = "change" /\ tasks[t].cmd.kind = kind
         /\ store' = new /\ UNCHANGED lastFolder
<1>1. /\ tasks' = [tasks EXCEPT ![t].phase = "index",
                                ![t].changed = tasks[t].changed \cup also]
      /\ UNCHANGED <<nodes, current, events>>
      /\ tasks[t].phase = "change" /\ tasks[t].cmd.kind = kind
      /\ store' = new /\ UNCHANGED lastFolder
  BY DEF ChangesEntries, InChange, historyVars, CoreHeld, TaskHeld, TaskFields
<1> QED BY <1>1, ChangedGoes

LEMMA ChangesEntriesAlters ==
  ASSUME CoreHeld, NEW t \in Slots, NEW kind, kind \notin {"rewind", "reindex"}, NEW new,
         Plain(store, new), NEW also, ChangesEntries(t, kind, new, also)
  PROVE  Alters(t)
<1>1. /\ Goes(t, {"index"}) /\ tasks[t].phase = "change" /\ tasks[t].cmd.kind = kind
      /\ store' = new /\ UNCHANGED lastFolder
  BY ChangesEntriesGoes
<1>2. Goes(t, {"index", "end"}) BY <1>1, GoesMore
<1> QED BY <1>1, <1>2, PlainAlters

(* The steps of a task, one by one. *)
LEMMA CreateFolderAlters ==
  ASSUME CoreHeld, NEW t \in Slots, CreateFolder(t) PROVE Rests(t) \/ Alters(t)
<1> DEFINE c == tasks[t].cmd
<1>1. tasks[t].phase = "change" /\ c.kind = "create" /\ UNCHANGED <<nodes, current, events>>
  BY DEF CreateFolder, InChange, historyVars
<1>2. /\ Shaped(store) /\ lastFolder \in Nat /\ lastFolder < Cardinality(Folder)
      /\ Cardinality(Folder) \in Nat
  BY <1>1, FolderIds, FS_CardinalityType DEF CoreHeld, TaskHeld
<1>3. CASE TaskFails(t)
  BY <1>1, <1>3, TaskFailsRests DEF TaskFails
<1>4. CASE /\ c.to \in Existing(store) \cup {Root} /\ Become(t, "end")
           /\ store' = Created(store, c.to, lastFolder + 1) /\ lastFolder' = lastFolder + 1
  <2>1. Goes(t, {"end"}) /\ tasks'[t].phase = "end" BY <1>1, <1>4, BecomeGoes
  <2>2. Goes(t, {"write", "index", "end"}) BY <2>1, GoesMore
  <2>3. c.to \in Folder \cup {Root} BY <1>4 DEF Existing, Live, Trashed
  <2>4. /\ Shaped(store') /\ SparesEntries(store, store') /\ SparesFolders(store, store')
        /\ SameRows(store, store')
    BY <1>2, <1>4, <2>3, CreatedKeeps
  <2>5. lastFolder + 1 \in Folder
    <3>1. Folder = 1 .. Cardinality(Folder) BY OrganizationAssumption
    <3> QED BY <1>2, <3>1
  <2>6. Grown(store, lastFolder) /\ Ready(tasks[t], store, lastFolder)
          => Grown(store', lastFolder')
    <3> SUFFICES ASSUME Grown(store, lastFolder), Ready(tasks[t], store, lastFolder)
                 PROVE  Grown(store', lastFolder')
      OBVIOUS
    <3>1. c.to \in Live(store) \cup {Root} BY <1>1 DEF Ready
    <3> QED BY <1>2, <1>4, <2>5, <3>1, CreatedGrows
  <2>7. lastFolder' \in lastFolder .. Cardinality(Folder) BY <1>2, <1>4
  <2> QED BY <1>1, <2>1, <2>2, <2>4, <2>6, <2>7 DEF Alters, Spares
<1> QED BY <1>3, <1>4 DEF CreateFolder

LEMMA CopyFolderAlters ==
  ASSUME CoreHeld, NEW t \in Slots, CopyFolder(t) PROVE Rests(t) \/ Alters(t)
<1> DEFINE c    == tasks[t].cmd
           size == Cardinality(Subtree(store, Live(store), c.folder))
<1>1. tasks[t].phase = "change" /\ c.kind = "copy" /\ UNCHANGED <<nodes, current, events>>
  BY DEF CopyFolder, InChange, historyVars
<1>2. /\ Shaped(store) /\ lastFolder \in Nat /\ lastFolder + size <= Cardinality(Folder)
      /\ Cardinality(Folder) \in Nat
  BY <1>1, FolderIds, FS_CardinalityType DEF CoreHeld, TaskHeld
<1>3. CASE TaskFails(t)
  BY <1>1, <1>3, TaskFailsRests DEF TaskFails
<1>4. CASE /\ c.folder \in Live(store) /\ c.to \in Existing(store) \cup {Root}
           /\ store' = CopiedSubtree(store, c.folder, c.to, lastFolder)
           /\ lastFolder' = lastFolder + size /\ Become(t, "end")
  <2>1. Goes(t, {"end"}) /\ tasks'[t].phase = "end" BY <1>1, <1>4, BecomeGoes
  <2>2. Goes(t, {"write", "index", "end"}) BY <2>1, GoesMore
  <2>3. c.to \in Folder \cup {Root} BY <1>4 DEF Existing, Live, Trashed
  <2>4. /\ Shaped(store') /\ SparesEntries(store, store') /\ SparesFolders(store, store')
        /\ SameRows(store, store')
    BY <1>2, <1>4, <2>3, CopiedFields
  <2>5. size \in Nat
    <3>1. Subtree(store, Live(store), c.folder) \in SUBSET Folder BY DEF Subtree
    <3> QED BY <3>1, FolderIds, FS_Subset, FS_CardinalityType
  <2>6. Grown(store, lastFolder) /\ Ready(tasks[t], store, lastFolder)
          => Grown(store', lastFolder')
    <3> SUFFICES ASSUME Grown(store, lastFolder), Ready(tasks[t], store, lastFolder)
                 PROVE  Grown(store', lastFolder')
      OBVIOUS
    <3>1. c.to \in Live(store) \cup {Root} BY <1>1 DEF Ready
    <3> QED BY <1>2, <1>4, <3>1, CopiedGrown
  <2> HIDE DEF size
  <2>7. lastFolder' \in lastFolder .. Cardinality(Folder) BY <1>2, <1>4, <2>5
  <2> QED BY <1>1, <2>1, <2>2, <2>4, <2>6, <2>7 DEF Alters, Spares
<1> QED BY <1>3, <1>4 DEF CopyFolder

LEMMA MoveChecksRests ==
  ASSUME CoreHeld, NEW t \in Slots, MoveChecks(t) PROVE Rests(t)
<1> DEFINE c == tasks[t].cmd
<1>1. /\ tasks[t].phase = "change" /\ c.kind = "move"
      /\ UNCHANGED <<store, lastFolder, nodes, current, events>>
  BY DEF MoveChecks, InChange, TaskFails, historyVars
<1>2. CASE c.to \in Subtree(store, Existing(store), c.folder)
  BY <1>1, <1>2, TaskFailsRests DEF MoveChecks, TaskFails
<1>3. CASE c.to \notin Subtree(store, Existing(store), c.folder)
  <2>1. Become(t, "write") BY <1>3 DEF MoveChecks
  <2>2. Goes(t, {"write"}) /\ tasks'[t].phase = "write" BY <1>1, <2>1, BecomeGoes
  <2>3. Goes(t, {"write", "index", "end", "failed"}) BY <2>2, GoesMore
  <2> QED BY <1>1, <1>3, <2>2, <2>3 DEF Rests
<1> QED BY <1>2, <1>3

LEMMA MoveWriteAlters ==
  ASSUME CoreHeld, NEW t \in Slots, MoveWrite(t) PROVE Rests(t) \/ Alters(t)
<1> DEFINE c == tasks[t].cmd
<1>1. /\ tasks[t].phase = "write" /\ c.kind = "move"
      /\ UNCHANGED <<lastFolder, nodes, current, events>>
  BY DEF MoveWrite, historyVars
<1>2. /\ Shaped(store) /\ lastFolder \in Nat /\ lastFolder <= Cardinality(Folder)
      /\ Cardinality(Folder) \in Nat
  BY FolderIds, FS_CardinalityType DEF CoreHeld
<1>3. CASE Become(t, "failed") /\ UNCHANGED store
  BY <1>1, <1>3, TaskFailsRests
<1>4. CASE /\ c.to \in Existing(store) \cup {Root}
           /\ store' = Moved(store, c.folder, c.to) /\ Become(t, "end")
  <2>1. Goes(t, {"end"}) /\ tasks'[t].phase = "end" BY <1>1, <1>4, BecomeGoes
  <2>2. Goes(t, {"write", "index", "end"}) BY <2>1, GoesMore
  <2>3. c.to \in Folder \cup {Root} BY <1>4 DEF Existing, Live, Trashed
  <2>4. /\ Shaped(store') /\ SparesEntries(store, store') /\ SparesFolders(store, store')
        /\ SameRows(store, store')
    BY <1>2, <1>4, <2>3, MovedKeeps
  <2>5. Grown(store, lastFolder) /\ Ready(tasks[t], store, lastFolder)
          => Grown(store', lastFolder')
    <3> SUFFICES ASSUME Grown(store, lastFolder), Ready(tasks[t], store, lastFolder)
                 PROVE  Grown(store', lastFolder')
      OBVIOUS
    <3>1. /\ c.to \in Live(store) \cup {Root}
          /\ c.to \notin Subtree(store, Existing(store), c.folder)
      BY <1>1 DEF Ready
    <3>2. Grown(Moved(store, c.folder, c.to), lastFolder) BY <1>2, <3>1, MovedGrown
    <3> QED BY <1>1, <1>4, <3>2
  <2>6. lastFolder' \in lastFolder .. Cardinality(Folder) BY <1>1, <1>2
  <2> QED BY <1>1, <2>1, <2>2, <2>4, <2>5, <2>6 DEF Alters, Spares
<1> QED BY <1>3, <1>4 DEF MoveWrite

LEMMA TrashFolderAlters ==
  ASSUME CoreHeld, NEW t \in Slots, TrashFolder(t) PROVE Alters(t)
<1> DEFINE f == tasks[t].cmd.folder
           z == TrashedTree(store, f)
<1>1. /\ Goes(t, {"index"}) /\ tasks'[t].phase = "index"
      /\ tasks[t].phase = "change" /\ tasks[t].cmd.kind = "trashFolder"
      /\ store' = z /\ UNCHANGED lastFolder
  BY ChangesEntriesGoes DEF TrashFolder
<1>2. Goes(t, {"write", "index", "end"}) BY <1>1, GoesMore
<1>3. /\ Shaped(store) /\ lastFolder \in Nat /\ lastFolder <= Cardinality(Folder)
      /\ Cardinality(Folder) \in Nat
  BY FolderIds, FS_CardinalityType DEF CoreHeld
<1>4. /\ Shaped(z) /\ Spares(store, z) /\ SameRows(store, z)
      /\ \A n : Grown(store, n) => Grown(z, n)
  BY <1>3, TrashedKeeps
<1> QED BY <1>1, <1>2, <1>3, <1>4 DEF Alters

LEMMA PurgeFolderAlters ==
  ASSUME CoreHeld, NEW t \in Slots, PurgeFolder(t) PROVE Alters(t)
<1> DEFINE f == tasks[t].cmd.folder
           z == PurgedTree(store, f)
<1>1. /\ Goes(t, {"index"}) /\ tasks'[t].phase = "index"
      /\ tasks[t].phase = "change" /\ tasks[t].cmd.kind = "purgeFolder"
      /\ store' = z /\ UNCHANGED lastFolder
  BY ChangesEntriesGoes DEF PurgeFolder
<1>2. Goes(t, {"write", "index", "end"}) BY <1>1, GoesMore
<1>3. /\ Shaped(store) /\ lastFolder \in Nat /\ lastFolder <= Cardinality(Folder)
      /\ Cardinality(Folder) \in Nat
  BY FolderIds, FS_CardinalityType DEF CoreHeld
<1>4. /\ Shaped(z) /\ SparesEntries(store, z) /\ (Hung(store) => SparesFolders(store, z))
      /\ \A n : Grown(store, n) => Grown(z, n)
  BY <1>3, PurgedKeeps
<1>5. Grown(store, lastFolder) => Spares(store, z) BY <1>4 DEF Grown, Spares
<1> QED BY <1>1, <1>2, <1>3, <1>4, <1>5 DEF Alters

LEMMA PurgeEntriesAlters ==
  ASSUME CoreHeld, NEW t \in Slots, PurgeEntries(t) PROVE Alters(t)
<1> DEFINE es == tasks[t].cmd.entries
           z  == WithoutEntries(store, es)
<1>1. /\ Goes(t, {"index"}) /\ tasks'[t].phase = "index"
      /\ tasks[t].phase = "change" /\ tasks[t].cmd.kind = "purge"
      /\ store' = z /\ UNCHANGED lastFolder
  BY ChangesEntriesGoes DEF PurgeEntries
<1>2. Goes(t, {"write", "index", "end"}) BY <1>1, GoesMore
<1>3. /\ Shaped(store) /\ lastFolder \in Nat /\ lastFolder <= Cardinality(Folder)
      /\ Cardinality(Folder) \in Nat
  BY FolderIds, FS_CardinalityType DEF CoreHeld
<1>4. /\ Shaped(z) /\ SameFolders(store, z)
      /\ z.entry = [e \in Entry |-> IF e \in es THEN "absent" ELSE store.entry[e]]
  BY <1>3, WithoutEntriesFields
<1> HIDE DEF z
<1>5. Grown(store, lastFolder) => Grown(z, lastFolder) /\ SparesFolders(store, z)
  BY <1>4, GrownSame DEF SameFolders
<1>6. Ready(tasks[t], store, lastFolder) => SparesEntries(store, z)
  <2> SUFFICES ASSUME Ready(tasks[t], store, lastFolder) PROVE SparesEntries(store, z)
    OBVIOUS
  <2>1. es \cap LiveEntries(store) = {} BY <1>1 DEF Ready
  <2> QED BY <1>4, <2>1 DEF SparesEntries, LiveEntries
<1> QED BY <1>1, <1>2, <1>3, <1>4, <1>5, <1>6 DEF Alters, Spares

LEMMA ImportEntryAlters ==
  ASSUME CoreHeld, NEW t \in Slots, ImportEntry(t) PROVE Alters(t)
<1> DEFINE c == tasks[t].cmd
           a == [e \in Entry |-> IF e \in c.entries THEN "live" ELSE store.entry[e]]
           m == store.member \cup {x \in c.entries \X {c.to} : c.to \in Existing(store)}
           z == [store EXCEPT !.entry = a, !.member = m]
<1>1. Shaped(store) BY DEF CoreHeld
<1>2. /\ Goes(t, {"index"}) /\ tasks[t].phase = "change" /\ c.kind = "import"
      /\ store' = z /\ UNCHANGED lastFolder
  <2>1. ChangesEntries(t, "import", z, {}) BY <1>1 DEF ImportEntry, Shaped, Columns
  <2> HIDE DEF z
  <2> QED BY <2>1, ChangesEntriesGoes
<1>3. Goes(t, {"write", "index", "end"}) /\ tasks'[t].phase # "write"
  BY <1>2, GoesMore DEF Goes
<1>4. a \in [Entry -> Status] BY <1>1 DEF Shaped, Status
<1> HIDE DEF a, m
<1>5. /\ z = [x \in Columns |-> z[x]] /\ z.entry = a /\ SameFolders(store, z)
      /\ z.title = store.title /\ z.tags = store.tags
  BY <1>1 DEF Shaped, Columns, SameFolders
<1> HIDE DEF z
<1>6. Shaped(z) BY <1>1, <1>4, <1>5 DEF Shaped, SameFolders
<1>7. SparesEntries(store, z) BY <1>5 DEF a, SparesEntries, LiveEntries
<1>8. Grown(store, lastFolder) => Grown(z, lastFolder) /\ SparesFolders(store, z)
  BY <1>5, GrownSame DEF SameFolders
<1>9. /\ lastFolder \in Nat /\ lastFolder <= Cardinality(Folder)
      /\ Cardinality(Folder) \in Nat
  BY FolderIds, FS_CardinalityType DEF CoreHeld
<1> QED BY <1>2, <1>3, <1>6, <1>7, <1>8, <1>9 DEF Alters, Spares

LEMMA RestoreTreeAlters ==
  ASSUME CoreHeld, NEW t \in Slots, RestoreTree(t) PROVE Rests(t) \/ Alters(t)
<1> DEFINE c     == tasks[t].cmd
           found == MembersOf(store, Subtree(store, Trashed(store), c.folder))
                      \cap TrashedEntries(store)
           z     == RestoredTree(store, c.folder)
<1>1. /\ tasks[t].phase = "change" /\ c.kind = "restore"
      /\ UNCHANGED <<lastFolder, nodes, current, events>>
  BY DEF RestoreTree, historyVars
<1>2. CASE Become(t, "write") /\ UNCHANGED store
  <2>1. Goes(t, {"write"}) /\ tasks'[t].phase = "write" BY <1>1, <1>2, BecomeGoes
  <2>2. Goes(t, {"write", "index", "end", "failed"}) BY <2>1, GoesMore
  <2> QED BY <1>1, <1>2, <2>1, <2>2 DEF Rests
<1>3. CASE /\ store' = z
           /\ tasks' = [tasks EXCEPT ![t].phase = "write", ![t].changed = @ \cup found]
  <2>1. tasks' = [tasks EXCEPT ![t].phase = "write",
                               ![t].changed = tasks[t].changed \cup found]
    BY <1>3 DEF CoreHeld, TaskHeld, TaskFields
  <2>2. Goes(t, {"write"}) /\ tasks'[t].phase = "write" BY <1>1, <2>1, ChangedGoes
  <2>3. Goes(t, {"write", "index", "end"}) BY <2>2, GoesMore
  <2>4. /\ Shaped(store) /\ lastFolder \in Nat /\ lastFolder <= Cardinality(Folder)
        /\ Cardinality(Folder) \in Nat
    BY FolderIds, FS_CardinalityType DEF CoreHeld
  <2>5. /\ Shaped(z) /\ Spares(store, z) /\ SameRows(store, z)
        /\ \A n : Grown(store, n) => Grown(z, n)
    BY <2>4, RestoredKeeps
  <2> QED BY <1>1, <1>3, <2>2, <2>3, <2>4, <2>5 DEF Alters
<1> QED BY <1>2, <1>3 DEF RestoreTree

LEMMA RestoreEntriesAlters ==
  ASSUME CoreHeld, NEW t \in Slots, RestoreEntries(t) PROVE Alters(t)
<1>1. /\ tasks[t].phase = "write" /\ tasks[t].cmd.kind = "restore"
      /\ store' = SetEntries(store, tasks[t].changed, "live") /\ Become(t, "index")
      /\ UNCHANGED <<lastFolder, nodes, current, events>>
  BY DEF RestoreEntries, historyVars
<1>2. Plain(store, store') BY <1>1, SetEntriesPlain DEF CoreHeld
<1>3. Goes(t, {"index"}) BY <1>1, BecomeGoes
<1>4. Goes(t, {"index", "end"}) BY <1>3, GoesMore
<1> QED BY <1>1, <1>2, <1>4, PlainAlters

LEMMA RewindRewinds ==
  ASSUME CoreHeld, NEW t \in Slots, Rewind(t) PROVE Rests(t) \/ Rewinds(t)
<1> DEFINE c == tasks[t].cmd
<1>1. /\ tasks[t].phase = "change" /\ c.kind = "rewind"
      /\ UNCHANGED <<lastFolder, nodes, current, events>>
  BY DEF Rewind, InChange, historyVars
<1>2. CASE Become(t, "failed") /\ UNCHANGED store
  BY <1>1, <1>2, TaskFailsRests
<1>3. CASE store' = Rewound(store, c.want) /\ Become(t, "index")
  <2>1. Goes(t, {"index"}) BY <1>1, <1>3, BecomeGoes
  <2>2. Shaped(store) /\ Shaped(c.want) BY <1>1 DEF CoreHeld, TaskHeld
  <2>3. /\ Shaped(store') /\ SparesEntries(store, store') /\ SameFolders(c.want, store')
        /\ SameRows(store, c.want) => store' = c.want
    BY <1>3, <2>2, RewoundKeeps
  <2> QED BY <1>1, <2>1, <2>3 DEF Rewinds
<1> QED BY <1>2, <1>3 DEF Rewind

LEMMA ReindexRests == ASSUME CoreHeld, NEW t \in Slots, Reindex(t) PROVE Rests(t)
<1>1. /\ Goes(t, {"index"}) /\ tasks'[t].phase = "index"
      /\ tasks[t].phase = "change" /\ tasks[t].cmd.kind = "reindex"
      /\ store' = store /\ UNCHANGED lastFolder
  BY ChangesEntriesGoes DEF Reindex
<1>2. Goes(t, {"write", "index", "end", "failed"}) BY <1>1, GoesMore
<1> QED BY <1>1, <1>2 DEF Rests

LEMMA WriteIndexRests == ASSUME CoreHeld, NEW t \in Slots, WriteIndex(t) PROVE Rests(t)
<1>1. /\ tasks[t].phase = "index" /\ UNCHANGED <<store, lastFolder, nodes, current, events>>
      /\ Become(t, "end") \/ (Become(t, "failed") /\ "failure" \in events)
  BY DEF WriteIndex, historyVars
<1>2. CASE Become(t, "end")
  <2>1. Goes(t, {"end"}) /\ tasks'[t].phase = "end" BY <1>1, <1>2, BecomeGoes
  <2>2. Goes(t, {"write", "index", "end", "failed"}) BY <2>1, GoesMore
  <2> QED BY <1>1, <2>1, <2>2 DEF Rests
<1>3. CASE Become(t, "failed") /\ "failure" \in events
  <2>1. Goes(t, {"failed"}) /\ tasks'[t].phase = "failed" BY <1>1, <1>3, BecomeGoes
  <2>2. Goes(t, {"write", "index", "end", "failed"}) BY <2>1, GoesMore
  <2> QED BY <1>1, <1>3, <2>1, <2>2 DEF Rests
<1> QED BY <1>1, <1>2, <1>3

LEMMA OrderFoldersAlters ==
  ASSUME CoreHeld, NEW t \in Slots, OrderFolders(t) PROVE Rests(t) \/ Alters(t)
<1> DEFINE c == tasks[t].cmd
<1>1. CASE ChangesRows(t, "order", InOrder(store, c.list))
  <2>1. Plain(store, InOrder(store, c.list)) BY InOrderPlain DEF CoreHeld
  <2> QED BY <1>1, <2>1, ChangesRowsAlters
<1>2. CASE /\ InChange(t, {"order"}) /\ TaskFails(t)
           /\ UNCHANGED <<indexed, historyVars, screenVars, acts, events>>
  BY <1>2, TaskFailsRests DEF InChange, TaskFails, historyVars
<1> QED BY <1>1, <1>2 DEF OrderFolders

LEMMA SubmitTagAlters ==
  ASSUME CoreHeld, NEW t \in Slots, SubmitTag(t) PROVE Rests(t) \/ Alters(t)
<1> DEFINE c == tasks[t].cmd
<1>1. CASE ChangesRows(t, "card", Tagged(store, c.entries, c.tags[1]))
  <2>1. Plain(store, Tagged(store, c.entries, c.tags[1])) BY TaggedPlain DEF CoreHeld
  <2> QED BY <1>1, <2>1, ChangesRowsAlters
<1>2. CASE /\ InChange(t, {"card"}) /\ TaskFails(t)
           /\ UNCHANGED <<indexed, historyVars, screenVars, acts, events>>
  BY <1>2, TaskFailsRests DEF InChange, TaskFails, historyVars
<1> QED BY <1>1, <1>2 DEF SubmitTag

(* Every step of a task is one of these. *)
LEMMA TaskSteps ==
  ASSUME CoreHeld, NEW t \in Slots, OrgTask(t)
  PROVE  Begin(t) \/ End(t) \/ Rests(t) \/ Alters(t) \/ Rewinds(t)
<1>0. Shaped(store) BY DEF CoreHeld
<1>1. CASE AddToFolder(t) \/ MoveToFolder(t) \/ RemoveFromFolder(t)
  <2>1. CASE AddToFolder(t) BY <2>1, ChangesMembersAlters DEF AddToFolder
  <2>2. CASE MoveToFolder(t) BY <2>2, ChangesMembersAlters DEF MoveToFolder
  <2>3. CASE RemoveFromFolder(t) BY <2>3, ChangesMembersAlters DEF RemoveFromFolder
  <2> QED BY <1>1, <2>1, <2>2, <2>3
<1>2. CASE RenameFolder(t)
  BY <1>0, <1>2, RenamedPlain, ChangesRowsAlters DEF RenameFolder
<1>3. CASE AddTag(t)
  BY <1>0, <1>3, TaggedPlain, ChangesRowsAlters DEF AddTag
<1>4. CASE RemoveTag(t)
  BY <1>0, <1>4, UntaggedPlain, ChangesRowsAlters DEF RemoveTag
<1>5. CASE RenameTag(t)
  BY <1>0, <1>5, TagRenamedPlain, ChangesRowsAlters DEF RenameTag
<1>6. CASE DeleteTag(t)
  BY <1>0, <1>6, UntaggedPlain, ChangesRowsAlters DEF DeleteTag
<1>7. CASE TrashEntries(t)
  <2>1. Plain(store, SetEntries(store, tasks[t].cmd.entries, "trashed"))
    BY <1>0, SetEntriesPlain
  <2> QED BY <1>7, <2>1, ChangesEntriesAlters DEF TrashEntries
<1>8. CASE EditMetadata(t)
  <2>1. Plain(store, Titled(store, tasks[t].cmd.entries, tasks[t].cmd.title))
    BY <1>0, TitledPlain
  <2> QED BY <1>8, <2>1, ChangesEntriesAlters DEF EditMetadata
<1>9. CASE ResetMetadata(t)
  <2>1. Plain(store, Titled(store, tasks[t].cmd.entries, FileTitle)) BY <1>0, TitledPlain
  <2> QED BY <1>9, <2>1, ChangesEntriesAlters DEF ResetMetadata
<1> QED
  BY <1>1, <1>2, <1>3, <1>4, <1>5, <1>6, <1>7, <1>8, <1>9, CreateFolderAlters,
     CopyFolderAlters, MoveChecksRests, MoveWriteAlters, TrashFolderAlters, PurgeFolderAlters,
     PurgeEntriesAlters, ImportEntryAlters, RestoreTreeAlters, RestoreEntriesAlters,
     RewindRewinds, ReindexRests, WriteIndexRests, OrderFoldersAlters, SubmitTagAlters
     DEF OrgTask
-----------------------------------------------------------------------------
(* A command is given: what its task starts with. *)
Gives(t) ==
  LET c == tasks'[t].cmd IN
  /\ tasks' = [tasks EXCEPT ![t] = tasks'[t]]
  /\ tasks'[t] = [x \in TaskFields |-> tasks'[t][x]]
  /\ tasks[t].phase = "free" /\ tasks'[t].phase = "begin" /\ (Alone => Idle)
  /\ UNCHANGED <<store, lastFolder, nodes, current, events>>
  /\ c.kind = "create" => IdsLeft(1)
  /\ c.kind = "copy" => IdsLeft(Cardinality(Subtree(store, Live(store), c.folder)))
  /\ c.kind \in {"create", "copy", "move"} /\ Calm => c.to \in Live(store) \cup {Root}
  /\ c.kind = "purge" => c.entries \cap LiveEntries(store) = {}
  /\ Filing => c.kind \notin {"import", "purge", "purgeFolder", "card"}
  /\ c.kind = "import" => "import" \in events
  /\ c.kind = "rewind" =>
       \/ /\ current # 1 /\ c.want = nodes[current].before /\ c.target = nodes[current].parent
       \/ /\ c.target \in DOMAIN nodes /\ nodes[c.target].parent = current
          /\ c.want = nodes[c.target].after

(* Kinds that ask for nothing. *)
Modest == {"edit", "reset", "reindex", "rename", "order", "tag", "untag", "renameTag", "deleteTag"}

LEMMA StartedTask ==
  ASSUME CoreHeld, NEW t \in Slots, NEW cmd, Started(t, cmd)
  PROVE  /\ tasks' = [tasks EXCEPT ![t] = tasks'[t]]
         /\ tasks'[t] = [x \in TaskFields |-> tasks'[t][x]]
         /\ tasks[t].phase = "free" /\ tasks'[t].phase = "begin" /\ (Alone => Idle)
         /\ tasks'[t].cmd = cmd
<1> DEFINE x == [FreeTask EXCEPT !.phase = "begin", !.cmd = cmd]
<1>1. x = [c \in TaskFields |-> x[c]] /\ x.phase = "begin" /\ x.cmd = cmd
  BY DEF FreeTask, TaskFields
<1>2. tasks' = [tasks EXCEPT ![t] = x] /\ tasks[t].phase = "free" /\ (Alone => Idle)
  BY DEF Started, Alone, Quiet
<1> HIDE DEF x
<1>3. tasks'[t] = x BY <1>2 DEF CoreHeld
<1> QED BY <1>1, <1>2, <1>3

LEMMA LabelGives ==
  ASSUME CoreHeld, NEW t \in Slots, NEW cmd, NEW event, LabelGiven(t, event, cmd),
         cmd.kind \in Modest \/ (cmd.kind = "card" /\ event = "card")
  PROVE  Gives(t)
<1>1. /\ Started(t, cmd) /\ UNCHANGED <<store, lastFolder, nodes, current, events>>
      /\ event \in events
  BY DEF LabelGiven, dataVars, historyVars
<1>2. /\ tasks' = [tasks EXCEPT ![t] = tasks'[t]]
      /\ tasks'[t] = [x \in TaskFields |-> tasks'[t][x]]
      /\ tasks[t].phase = "free" /\ tasks'[t].phase = "begin" /\ (Alone => Idle)
      /\ tasks'[t].cmd = cmd
  BY <1>1, StartedTask
<1>3. cmd.kind \notin {"create", "copy", "move", "purge", "rewind", "import", "purgeFolder"}
  BY DEF Modest
<1>4. Filing => cmd.kind # "card" BY <1>1 DEF Filing, Modest
<1> QED BY <1>1, <1>2, <1>3, <1>4 DEF Gives

LEMMA CommandGives ==
  ASSUME CoreHeld, NEW t \in Slots, CommandGiven(t) PROVE Gives(t)
<1>1. /\ UNCHANGED <<store, lastFolder, nodes, current, events>>
      /\ \E c \in FolderCommands \cup TrashCommands \cup EntryCommands :
           /\ EventOf(c.kind) \in events
           /\ c.kind = "create" => IdsLeft(1)
           /\ c.kind = "copy" => IdsLeft(Cardinality(Subtree(store, Live(store), c.folder)))
           /\ Started(t, [NoCommand EXCEPT !.kind = c.kind, !.folder = c.folder, !.to = c.to,
                                           !.entries = c.entries])
  BY DEF CommandGiven, dataVars, historyVars
<1>2. PICK c \in FolderCommands \cup TrashCommands \cup EntryCommands :
           /\ EventOf(c.kind) \in events
           /\ c.kind = "create" => IdsLeft(1)
           /\ c.kind = "copy" => IdsLeft(Cardinality(Subtree(store, Live(store), c.folder)))
           /\ Started(t, [NoCommand EXCEPT !.kind = c.kind, !.folder = c.folder, !.to = c.to,
                                           !.entries = c.entries])
  BY <1>1
<1> DEFINE cmd == [NoCommand EXCEPT !.kind = c.kind, !.folder = c.folder, !.to = c.to,
                                    !.entries = c.entries]
<1>3. /\ cmd.kind = c.kind /\ cmd.folder = c.folder /\ cmd.to = c.to
      /\ cmd.entries = c.entries
  BY DEF NoCommand
<1> HIDE DEF cmd
<1>4. /\ tasks' = [tasks EXCEPT ![t] = tasks'[t]]
      /\ tasks'[t] = [x \in TaskFields |-> tasks'[t][x]]
      /\ tasks[t].phase = "free" /\ tasks'[t].phase = "begin" /\ (Alone => Idle)
      /\ tasks'[t].cmd = cmd
  BY <1>2, StartedTask DEF cmd
<1>5. c.kind # "rewind"
  BY DEF FolderCommands, TrashCommands, EntryCommands
<1>6. c.kind \in {"create", "copy", "move"} /\ Calm => c.to \in Live(store) \cup {Root}
  <2>1. c.kind \in {"create", "copy", "move"} => c \in FolderCommands
    BY DEF FolderCommands, TrashCommands, EntryCommands
  <2>2. Calm => "trashPaste" \notin events BY DEF Calm
  <2> QED BY <2>1, <2>2 DEF FolderCommands, MayMoveInto
<1>7. c.kind = "purge" => c.entries \cap LiveEntries(store) = {}
  <2>1. c.kind = "purge" => c.entries \subseteq TrashedEntries(store)
    BY DEF FolderCommands, TrashCommands, EntryCommands
  <2> QED BY <2>1 DEF TrashedEntries, LiveEntries
<1>8. /\ Filing => c.kind \notin {"import", "purge", "purgeFolder", "card"}
      /\ c.kind = "import" => "import" \in events
  BY <1>2 DEF EventOf, Filing
<1> QED BY <1>1, <1>2, <1>3, <1>4, <1>5, <1>6, <1>7, <1>8 DEF Gives

LEMMA RewindGives ==
  ASSUME CoreHeld, NEW t \in Slots, UndoLibraryAction(t) \/ RedoLibraryAction(t)
  PROVE  Gives(t)
<1> SUFFICES ASSUME NEW want, NEW from, NEW target, Rewinding(t, want, from, target),
                    \/ /\ current # 1 /\ want = nodes[current].before
                       /\ target = nodes[current].parent
                    \/ /\ target \in DOMAIN nodes /\ nodes[target].parent = current
                       /\ want = nodes[target].after
             PROVE  Gives(t)
  BY DEF UndoLibraryAction, RedoLibraryAction
<1> DEFINE cmd == [NoCommand EXCEPT !.kind = "rewind", !.want = want, !.target = target,
                                    !.entries = SearchChanged(want, from)]
<1>1. Started(t, cmd) /\ UNCHANGED <<store, lastFolder, nodes, current, events>>
  BY DEF Rewinding, dataVars
<1>2. cmd.kind = "rewind" /\ cmd.want = want /\ cmd.target = target BY DEF NoCommand
<1> HIDE DEF cmd
<1>3. /\ tasks' = [tasks EXCEPT ![t] = tasks'[t]]
      /\ tasks'[t] = [x \in TaskFields |-> tasks'[t][x]]
      /\ tasks[t].phase = "free" /\ tasks'[t].phase = "begin" /\ (Alone => Idle)
      /\ tasks'[t].cmd = cmd
  BY <1>1, StartedTask
<1> QED BY <1>1, <1>2, <1>3 DEF Gives

LEMMA UserSteps == ASSUME CoreHeld, NEW t \in Slots, OrgUser(t) PROVE Gives(t)
<1>1. CASE CommandGiven(t) BY <1>1, CommandGives
<1>2. CASE UndoLibraryAction(t) \/ RedoLibraryAction(t) BY <1>2, RewindGives
<1>3. CASE EditGiven(t)
  <2>1. PICK e \in Inspected : \E n \in Title \ {store.title[e]} :
          LabelGiven(t, "edit", [NoCommand EXCEPT !.kind = "edit", !.entries = {e}, !.title = n])
    BY <1>3 DEF EditGiven
  <2>2. PICK n \in Title \ {store.title[e]} :
          LabelGiven(t, "edit", [NoCommand EXCEPT !.kind = "edit", !.entries = {e}, !.title = n])
    BY <2>1
  <2>3. [NoCommand EXCEPT !.kind = "edit", !.entries = {e}, !.title = n].kind \in Modest
    BY DEF NoCommand, Modest
  <2> QED BY <2>2, <2>3, LabelGives
<1>4. CASE ResetGiven(t)
  <2>1. PICK es \in SUBSET Inspected \ {{}} :
          LabelGiven(t, "edit", [NoCommand EXCEPT !.kind = "reset", !.entries = es])
    BY <1>4 DEF ResetGiven
  <2>2. [NoCommand EXCEPT !.kind = "reset", !.entries = es].kind \in Modest
    BY DEF NoCommand, Modest
  <2> QED BY <2>1, <2>2, LabelGives
<1>5. CASE ReindexGiven(t)
  <2>1. PICK es \in SUBSET Inspected \ {{}} :
          LabelGiven(t, "reindex", [NoCommand EXCEPT !.kind = "reindex", !.entries = es])
    BY <1>5 DEF ReindexGiven
  <2>2. [NoCommand EXCEPT !.kind = "reindex", !.entries = es].kind \in Modest
    BY DEF NoCommand, Modest
  <2> QED BY <2>1, <2>2, LabelGives
<1>6. CASE RenameFolderGiven(t)
  <2>1. PICK f \in Existing(store) : \E n \in Title \ {store.name[f]} :
          LabelGiven(t, "label", [NoCommand EXCEPT !.kind = "rename", !.folder = f, !.title = n])
    BY <1>6 DEF RenameFolderGiven
  <2>2. PICK n \in Title \ {store.name[f]} :
          LabelGiven(t, "label", [NoCommand EXCEPT !.kind = "rename", !.folder = f, !.title = n])
    BY <2>1
  <2>3. [NoCommand EXCEPT !.kind = "rename", !.folder = f, !.title = n].kind \in Modest
    BY DEF NoCommand, Modest
  <2> QED BY <2>2, <2>3, LabelGives
<1>7. CASE OrderGiven(t)
  <2>1. PICK p \in Live(store) \cup {Root} :
          \E list \in SetToSeqs({f \in Live(store) : store.parent[f] = p}) :
            LabelGiven(t, "label", [NoCommand EXCEPT !.kind = "order", !.to = p, !.list = list])
    BY <1>7 DEF OrderGiven
  <2>2. PICK list \in SetToSeqs({f \in Live(store) : store.parent[f] = p}) :
          LabelGiven(t, "label", [NoCommand EXCEPT !.kind = "order", !.to = p, !.list = list])
    BY <2>1
  <2>3. [NoCommand EXCEPT !.kind = "order", !.to = p, !.list = list].kind \in Modest
    BY DEF NoCommand, Modest
  <2> QED BY <2>2, <2>3, LabelGives
<1>8. CASE TagGiven(t)
  <2>1. PICK e \in Inspected, tag \in Tag, kind \in {"tag", "untag", "card"} :
          LabelGiven(t, IF kind = "card" THEN "card" ELSE "tag",
                     [NoCommand EXCEPT !.kind = kind, !.entries = {e}, !.tags = <<tag>>])
    BY <1>8 DEF TagGiven
  <2>2. [NoCommand EXCEPT !.kind = kind, !.entries = {e}, !.tags = <<tag>>].kind = kind
    BY DEF NoCommand
  <2>3. CASE kind = "card" BY <2>1, <2>2, <2>3, LabelGives
  <2>4. CASE kind # "card" BY <2>1, <2>2, <2>4, LabelGives DEF Modest
  <2> QED BY <2>3, <2>4
<1>9. CASE TagListGiven(t)
  <2>1. PICK old \in TagUsed :
          \/ LabelGiven(t, "tag", [NoCommand EXCEPT !.kind = "deleteTag", !.tags = <<old>>])
          \/ \E new \in Tag \ {old} :
               LabelGiven(t, "tag", [NoCommand EXCEPT !.kind = "renameTag", !.tags = <<old, new>>])
    BY <1>9 DEF TagListGiven
  <2>2. CASE LabelGiven(t, "tag", [NoCommand EXCEPT !.kind = "deleteTag", !.tags = <<old>>])
    <3>1. [NoCommand EXCEPT !.kind = "deleteTag", !.tags = <<old>>].kind \in Modest
      BY DEF NoCommand, Modest
    <3> QED BY <2>2, <3>1, LabelGives
  <2>3. ASSUME NEW new \in Tag \ {old},
               LabelGiven(t, "tag", [NoCommand EXCEPT !.kind = "renameTag", !.tags = <<old, new>>])
        PROVE  Gives(t)
    <3>1. [NoCommand EXCEPT !.kind = "renameTag", !.tags = <<old, new>>].kind \in Modest
      BY DEF NoCommand, Modest
    <3> QED BY <2>3, <3>1, LabelGives
  <2> QED BY <2>1, <2>2, <2>3
<1> QED BY <1>1, <1>2, <1>3, <1>4, <1>5, <1>6, <1>7, <1>8, <1>9 DEF OrgUser
-----------------------------------------------------------------------------
(* The desktop: of what the other parts do nothing reaches the rows but old trash that *)
(* expires when the library is read.                                                   *)
coreVars == <<store, lastFolder, tasks, nodes, current, acts, events>>

LEMMA DesktopSteps ==
  ASSUME [DesktopNext]_desktopVars
  PROVE  \/ UNCHANGED coreVars
         \/ Refresh
         \/ \E t \in Slots : OrgUser(t) \/ OrgTask(t) \/ OrgMessage(t) \/ TaskFailed(t)
<1>1. UNCHANGED orgVars => UNCHANGED coreVars
  BY DEF orgVars, dataVars, historyVars, coreVars
<1>2. UNCHANGED libraryVars => UNCHANGED coreVars BY <1>1 DEF libraryVars
<1>3. CASE UNCHANGED desktopVars BY <1>2, <1>3 DEF desktopVars
<1>4. CASE DesktopUser
  <2>1. CASE LibraryUser
    <3>1. CASE ScreenInput
      <4>1. CASE OpenTrashCan BY <4>1 DEF OpenTrashCan, dataVars, historyVars, coreVars
      <4> QED
        BY <3>1, <4>1, <1>1 DEF ScreenInput, SearchQueryChanged, FolderSelected,
           ClearLibraryFilters, TagPillClicked, RestoreLibraryViewBeforeTag
    <3>2. CASE \E t \in Slots : LibraryCommand(t) BY <3>2 DEF LibraryCommand
    <3> QED BY <2>1, <3>1, <3>2 DEF LibraryUser
  <2> QED BY <1>2, <1>4, <2>1 DEF DesktopUser
<1>5. CASE DesktopGoesOn
  <2>1. CASE LibraryGoesOn
    <3>1. CASE ScreenLoaded
      BY <3>1 DEF ScreenLoaded, LibraryLoaded, dataVars, coreVars
    <3>2. CASE \E i \in Searches : SearchStep(i)
      BY <3>2, <1>1 DEF SearchStep, SearchDebounced, SearchRuns, SearchResults
    <3> QED BY <2>1, <3>1, <3>2 DEF LibraryGoesOn
  <2>2. CASE ImportRefreshes
    BY <2>2 DEF ImportRefreshes, libraryRest, dataVars, coreVars
  <2>3. CASE ImportErrs
    BY <2>3 DEF ImportErrs, libraryRest, dataVars, coreVars
  <2>4. CASE CommandErrs BY <2>4 DEF CommandErrs
  <2> QED BY <1>2, <1>5, <2>1, <2>2, <2>3, <2>4 DEF DesktopGoesOn
<1> QED BY <1>3, <1>4, <1>5 DEF DesktopNext

LEMMA Appended ==
  ASSUME NEW seq, \E S : seq \in Seq(S), NEW r
  PROVE  /\ \E S : Append(seq, r) \in Seq(S)
         /\ Len(seq) \in Nat /\ DOMAIN seq = 1 .. Len(seq)
         /\ DOMAIN Append(seq, r) = 1 .. (Len(seq) + 1)
         /\ \A n \in 1 .. Len(seq) : Append(seq, r)[n] = seq[n]
         /\ Append(seq, r)[Len(seq) + 1] = r
<1>1. PICK S : seq \in Seq(S) OBVIOUS
<1> DEFINE T == S \cup {r}
<1>2. seq \in Seq(T) /\ r \in T BY <1>1
<1> HIDE DEF T
<1>3. /\ Append(seq, r) \in Seq(T) /\ Len(Append(seq, r)) = Len(seq) + 1
      /\ \A n \in 1 .. Len(seq) : Append(seq, r)[n] = seq[n]
      /\ Append(seq, r)[Len(seq) + 1] = r
  BY <1>2, AppendProperties
<1>4. Len(seq) \in Nat /\ DOMAIN seq = 1 .. Len(seq) BY <1>2
<1>5. DOMAIN Append(seq, r) = 1 .. (Len(seq) + 1) BY <1>3
<1> QED BY <1>3, <1>4, <1>5

LEMMA FreeHeld ==
  ASSUME NEW s, NEW n
  PROVE  TaskHeld(FreeTask, s, n) /\ Ready(FreeTask, s, n) /\ FreeTask.phase = "free"
<1>1. FreeTask.phase = "free" BY DEF FreeTask
<1>2. FreeTask = [c \in TaskFields |-> FreeTask[c]] BY DEF FreeTask, TaskFields
<1>3. TaskHeld(FreeTask, s, n) BY <1>1, <1>2 DEF TaskHeld
<1> QED BY <1>1, <1>3 DEF Ready

(* The others are free. *)
LEMMA Only ==
  ASSUME OneTask, NEW t \in Slots, tasks[t].phase # "free" \/ Idle
  PROVE  \A r \in Slots \ {t} : tasks[r].phase = "free"
BY DEF OneTask, Idle

LEMMA CoreKept ==
  ASSUME CoreHeld, NEW t \in Slots, \A r \in Slots \ {t} : tasks[r].phase = "free",
         tasks' = [tasks EXCEPT ![t] = tasks'[t]], TaskHeld(tasks'[t], store', lastFolder'),
         tasks'[t].phase # "free" /\ tasks'[t].cmd.kind = "rewind" =>
           tasks'[t].cmd.target \in DOMAIN nodes',
         Shaped(store'), lastFolder' \in 0 .. Cardinality(Folder),
         \E S : nodes' \in Seq(S), current' \in DOMAIN nodes',
         \A n \in DOMAIN nodes' :
           /\ Shaped(nodes'[n].before) /\ Shaped(nodes'[n].after)
           /\ nodes'[n].parent \in Nat /\ nodes'[n].parent < n
           /\ n # 1 => nodes'[n].parent \in DOMAIN nodes'
  PROVE  CoreHeld'
<1>1. \A r \in Slots \ {t} : tasks'[r] = tasks[r] /\ tasks'[r].phase = "free"
  BY DEF CoreHeld
<1>2. tasks' = [r \in Slots |-> tasks'[r]] BY DEF CoreHeld
<1>3. \A r \in Slots : TaskHeld(tasks'[r], store', lastFolder')
  BY <1>1 DEF CoreHeld, TaskHeld
<1>4. OneTask' BY <1>1 DEF OneTask
<1>5. \A r \in Slots :
        tasks'[r].phase # "free" /\ tasks'[r].cmd.kind = "rewind" =>
          tasks'[r].cmd.target \in DOMAIN nodes'
  BY <1>1
<1> QED BY <1>2, <1>3, <1>4, <1>5 DEF CoreHeld

(* The nodes and the current one are left alone. *)
LEMMA CoreTaskKept ==
  ASSUME CoreHeld, NEW t \in Slots, \A r \in Slots \ {t} : tasks[r].phase = "free",
         tasks' = [tasks EXCEPT ![t] = tasks'[t]], TaskHeld(tasks'[t], store', lastFolder'),
         tasks'[t].phase # "free" /\ tasks'[t].cmd.kind = "rewind" =>
           tasks'[t].cmd.target \in DOMAIN nodes,
         Shaped(store'), lastFolder' \in 0 .. Cardinality(Folder), UNCHANGED <<nodes, current>>
  PROVE  CoreHeld'
<1>1. /\ \E S : nodes' \in Seq(S)
      /\ current' \in DOMAIN nodes'
      /\ \A n \in DOMAIN nodes' :
           /\ Shaped(nodes'[n].before) /\ Shaped(nodes'[n].after)
           /\ nodes'[n].parent \in Nat /\ nodes'[n].parent < n
           /\ n # 1 => nodes'[n].parent \in DOMAIN nodes'
  BY DEF CoreHeld
<1>2. tasks'[t].phase # "free" /\ tasks'[t].cmd.kind = "rewind" =>
           tasks'[t].cmd.target \in DOMAIN nodes'
  OBVIOUS
<1> QED BY <1>1, <1>2, CoreKept

LEMMA CoreStep ==
  ASSUME CoreHeld, Alone, [DesktopNext]_desktopVars
  PROVE  CoreHeld'
<1>1. /\ Shaped(store) /\ lastFolder \in Nat /\ lastFolder \in 0 .. Cardinality(Folder)
      /\ Cardinality(Folder) \in Nat
  BY FolderIds, FS_CardinalityType DEF CoreHeld
<1>2. CASE UNCHANGED coreVars
  BY <1>2 DEF coreVars, CoreHeld, OneTask
<1>3. CASE Refresh
  <2>1. UNCHANGED <<lastFolder, tasks, nodes, current>> BY <1>3 DEF Refresh, historyVars
  <2>2. /\ Shaped(store') /\ Live(store') \subseteq Live(store)
        /\ \A f \in Live(store') : store'.parent[f] = store.parent[f]
    <3>1. CASE UNCHANGED store BY <1>1, <3>1
    <3>2. CASE UNCHANGED store => FALSE
      <4>1. PICK gone \in SUBSET TrashedEntries(store), old \in SUBSET Trashed(store) :
              store' = Expired(store, gone, old)
        BY <1>3, <3>2 DEF Refresh
      <4>2. /\ Shaped(store') /\ Live(store') \subseteq Live(store)
            /\ \A f \in Existing(store') : store'.parent[f] = store.parent[f]
        BY <1>1, <4>1, ExpiredKeeps
      <4> QED BY <4>2 DEF Existing
    <3> QED BY <3>1, <3>2
  <2>3. ASSUME NEW t \in Slots PROVE TaskHeld(tasks[t], store', lastFolder)
    <3> DEFINE f == tasks[t].cmd.folder
               A == Subtree(store, Live(store), f)
               B == Subtree(store', Live(store'), f)
    <3>1. TaskHeld(tasks[t], store, lastFolder) BY DEF CoreHeld
    <3>2. B \in SUBSET A /\ A \in SUBSET Folder
      <4>1. Live(store) \in SUBSET Folder BY DEF Live
      <4> QED BY <2>2, <4>1, SubtreeShrinks DEF Subtree
    <3> HIDE DEF A, B
    <3>3. IsFiniteSet(A) /\ Cardinality(A) \in Nat BY <3>2, FolderIds, FS_Subset, FS_CardinalityType
    <3>4. Cardinality(B) <= Cardinality(A) /\ Cardinality(B) \in Nat
      BY <3>2, <3>3, FS_Subset, FS_CardinalityType
    <3>5. lastFolder + Cardinality(A) <= Cardinality(Folder)
            => lastFolder + Cardinality(B) <= Cardinality(Folder)
      BY <1>1, <3>3, <3>4
    <3> QED BY <3>1, <3>5 DEF TaskHeld, A, B
  <2>4. UNCHANGED OneTask BY <2>1 DEF OneTask
  <2> QED BY <2>1, <2>2, <2>3, <2>4 DEF CoreHeld
<1>4. ASSUME NEW t \in Slots, OrgUser(t) PROVE CoreHeld'
  <2>1. Gives(t) BY <1>4, UserSteps
  <2> DEFINE c == tasks'[t].cmd
  <2>2. \A r \in Slots \ {t} : tasks[r].phase = "free" BY <2>1 DEF Gives, Idle
  <2>3. c.kind = "rewind" => c.target \in DOMAIN nodes /\ Shaped(c.want)
    BY <2>1 DEF Gives, CoreHeld
  <2>4. TaskHeld(tasks'[t], store', lastFolder')
    BY <1>1, <2>1, <2>3 DEF Gives, TaskHeld, IdsLeft
  <2>5. /\ tasks' = [tasks EXCEPT ![t] = tasks'[t]]
        /\ UNCHANGED <<store, lastFolder, nodes, current>>
    BY <2>1 DEF Gives
  <2> QED BY <1>1, <2>2, <2>3, <2>4, <2>5, CoreTaskKept
<1>5. ASSUME NEW t \in Slots, OrgTask(t) PROVE CoreHeld'
  <2> DEFINE c == tasks[t].cmd
  <2>0. TaskHeld(tasks[t], store, lastFolder) BY DEF CoreHeld
  <2>1. CASE Begin(t)
    <3>1. /\ tasks[t].phase = "begin" /\ UNCHANGED <<store, lastFolder, nodes, current>>
      BY <2>1 DEF Begin, dataVars, historyVars
    <3>2. /\ tasks' = [tasks EXCEPT ![t] = tasks'[t]]
          /\ tasks'[t] = [x \in TaskFields |-> tasks'[t][x]]
          /\ tasks'[t].phase = "change" /\ tasks'[t].cmd = c /\ tasks'[t].before = store
      BY <2>1, <2>0 DEF Begin, TaskHeld, TaskFields, CoreHeld
    <3>3. TaskHeld(tasks'[t], store', lastFolder')
      BY <1>1, <2>0, <3>1, <3>2 DEF TaskHeld
    <3>4. c.kind = "rewind" => c.target \in DOMAIN nodes BY <3>1 DEF CoreHeld
    <3>5. \A r \in Slots \ {t} : tasks[r].phase = "free" BY <3>1, Only DEF CoreHeld
    <3> QED BY <1>1, <3>1, <3>2, <3>3, <3>4, <3>5, CoreTaskKept
  <2>2. CASE End(t)
    <3>1. /\ tasks[t].phase = "end" /\ UNCHANGED <<store, lastFolder, nodes, current>>
      BY <2>2 DEF End, dataVars, historyVars
    <3>2. /\ tasks' = [tasks EXCEPT ![t] = tasks'[t]]
          /\ tasks'[t] = [x \in TaskFields |-> tasks'[t][x]]
          /\ tasks'[t].phase = "done" /\ tasks'[t].cmd = c /\ tasks'[t].after = store
          /\ tasks'[t].before = tasks[t].before
      BY <2>2, <2>0 DEF End, TaskHeld, TaskFields, CoreHeld
    <3>3. TaskHeld(tasks'[t], store', lastFolder')
      BY <1>1, <2>0, <3>1, <3>2 DEF TaskHeld
    <3>4. c.kind = "rewind" => c.target \in DOMAIN nodes BY <3>1 DEF CoreHeld
    <3>5. \A r \in Slots \ {t} : tasks[r].phase = "free" BY <3>1, Only DEF CoreHeld
    <3> QED BY <1>1, <3>1, <3>2, <3>3, <3>4, <3>5, CoreTaskKept
  <2>3. CASE Rests(t) \/ Alters(t) \/ Rewinds(t)
    <3>1. /\ Goes(t, {"write", "index", "end", "failed"})
          /\ tasks[t].phase \notin {"free", "begin"}
      BY <2>3, GoesMore DEF Rests, Alters, Rewinds
    <3>2. Shaped(store') /\ lastFolder' \in 0 .. Cardinality(Folder)
      BY <1>1, <2>3 DEF Rests, Alters, Rewinds
    <3>3. TaskHeld(tasks'[t], store', lastFolder')
      BY <2>0, <3>1 DEF TaskHeld, Goes
    <3>4. c.kind = "rewind" => c.target \in DOMAIN nodes BY <3>1 DEF CoreHeld
    <3>5. \A r \in Slots \ {t} : tasks[r].phase = "free" BY <3>1, Only DEF CoreHeld
    <3>6. /\ tasks' = [tasks EXCEPT ![t] = tasks'[t]] /\ tasks'[t].cmd = c
          /\ UNCHANGED <<nodes, current>>
      BY <3>1 DEF Goes
    <3> QED BY <3>2, <3>3, <3>4, <3>5, <3>6, CoreTaskKept
  <2> QED BY <1>5, <2>1, <2>2, <2>3, TaskSteps
<1>6. ASSUME NEW t \in Slots, OrgMessage(t) \/ TaskFailed(t) PROVE CoreHeld'
  <2>1. /\ tasks' = [tasks EXCEPT ![t] = FreeTask] /\ UNCHANGED <<store, lastFolder>>
        /\ tasks[t].phase # "free"
    BY <1>6 DEF OrgMessage, ActionFinished, UnfiledFinished, RestoreFinished, TaskFailed, Freed,
                dataVars
  <2>2. tasks'[t] = FreeTask /\ tasks' = [tasks EXCEPT ![t] = tasks'[t]] BY <2>1 DEF CoreHeld
  <2>3. TaskHeld(tasks'[t], store', lastFolder') /\ tasks'[t].phase = "free"
    BY <2>2, FreeHeld
  <2>4. \A r \in Slots \ {t} : tasks[r].phase = "free" BY <2>1, Only DEF CoreHeld
  <2>5. TaskHeld(tasks[t], store, lastFolder) BY DEF CoreHeld
  <2>6. CASE UNCHANGED nodes
    <3>1. current' = current \/ (/\ tasks[t].cmd.kind = "rewind"
                                 /\ current' = tasks[t].cmd.target)
      BY <1>6, <2>6 DEF OrgMessage, ActionFinished, UnfiledFinished, RestoreFinished, TaskFailed,
                        historyVars, Push
    <3>2. current' \in DOMAIN nodes BY <2>1, <3>1 DEF CoreHeld
    <3>3. /\ \E S : nodes' \in Seq(S)
          /\ current' \in DOMAIN nodes'
          /\ \A n \in DOMAIN nodes' :
               /\ Shaped(nodes'[n].before) /\ Shaped(nodes'[n].after)
               /\ nodes'[n].parent \in Nat /\ nodes'[n].parent < n
               /\ n # 1 => nodes'[n].parent \in DOMAIN nodes'
      BY <2>6, <3>2 DEF CoreHeld
    <3> QED BY <1>1, <2>1, <2>2, <2>3, <2>4, <3>3, CoreKept
  <2>7. CASE UNCHANGED nodes => FALSE
    <3> DEFINE node == [parent |-> current, before |-> tasks[t].before, after |-> tasks[t].after]
               k    == Len(nodes)
    <3>1. /\ tasks[t].phase = "done" /\ nodes' = Append(nodes, node) /\ current' = k + 1
      BY <1>6, <2>7 DEF OrgMessage, ActionFinished, UnfiledFinished, RestoreFinished, TaskFailed,
                        historyVars, Push
    <3>2. /\ \E S : Append(nodes, node) \in Seq(S)
          /\ k \in Nat /\ DOMAIN nodes = 1 .. k /\ DOMAIN Append(nodes, node) = 1 .. (k + 1)
          /\ \A n \in 1 .. k : Append(nodes, node)[n] = nodes[n]
          /\ Append(nodes, node)[k + 1] = node
      <4>1. \E S : nodes \in Seq(S) BY DEF CoreHeld
      <4> HIDE DEF node
      <4> QED BY <4>1, Appended
    <3>3. Shaped(node.before) /\ Shaped(node.after) /\ node.parent = current
      BY <2>5, <3>1 DEF TaskHeld
    <3> HIDE DEF node, k
    <3>4. current \in 1 .. k BY <3>2 DEF CoreHeld
    <3>5. \A n \in 1 .. k :
            /\ Shaped(nodes[n].before) /\ Shaped(nodes[n].after)
            /\ nodes[n].parent \in Nat /\ nodes[n].parent < n
            /\ n # 1 => nodes[n].parent \in 1 .. k
      BY <3>2 DEF CoreHeld
    <3>6. \A n \in DOMAIN nodes' :
               /\ Shaped(nodes'[n].before) /\ Shaped(nodes'[n].after)
               /\ nodes'[n].parent \in Nat /\ nodes'[n].parent < n
               /\ n # 1 => nodes'[n].parent \in DOMAIN nodes'
      <4> SUFFICES ASSUME NEW n \in 1 .. (k + 1)
                   PROVE  /\ Shaped(nodes'[n].before) /\ Shaped(nodes'[n].after)
                          /\ nodes'[n].parent \in Nat /\ nodes'[n].parent < n
                          /\ n # 1 => nodes'[n].parent \in 1 .. (k + 1)
        BY <3>1, <3>2
      <4>1. CASE n = k + 1
        <5>1. nodes'[n] = node BY <3>1, <3>2, <4>1
        <5> QED BY <3>2, <3>3, <3>4, <4>1, <5>1
      <4>2. CASE n # k + 1
        <5>1. n \in 1 .. k BY <3>2, <4>2
        <5>2. nodes'[n] = nodes[n] BY <3>1, <3>2, <5>1
        <5> QED BY <3>2, <3>5, <5>1, <5>2
      <4> QED BY <4>1, <4>2
    <3>7. current' \in DOMAIN nodes' BY <3>1, <3>2
    <3>8. \E S : nodes' \in Seq(S) BY <3>1, <3>2
    <3> QED BY <1>1, <2>1, <2>2, <2>3, <2>4, <3>6, <3>7, <3>8, CoreKept
  <2> QED BY <2>6, <2>7
<1> QED BY <1>2, <1>3, <1>4, <1>5, <1>6, DesktopSteps

(* A behaviour stays in its scenario, and counts its commands. *)
Counted == UNCHANGED events /\ acts' \in {acts, acts + 1}

LEMMA ActsCounted == ASSUME [DesktopNext]_desktopVars PROVE Counted
<1>1. UNCHANGED coreVars => Counted BY DEF Counted, coreVars
<1>2. Refresh => Counted BY DEF Counted, Refresh
<1>3. ASSUME NEW t \in Slots, OrgUser(t) PROVE Counted
  <2>1. ASSUME NEW event, NEW cmd, LabelGiven(t, event, cmd) PROVE Counted
    BY <2>1 DEF Counted, LabelGiven
  <2>2. CommandGiven(t) => Counted BY DEF Counted, CommandGiven
  <2>3. EditGiven(t) \/ ResetGiven(t) \/ ReindexGiven(t) \/ RenameFolderGiven(t) => Counted
    BY <2>1 DEF EditGiven, ResetGiven, ReindexGiven, RenameFolderGiven
  <2>4. OrderGiven(t) \/ TagGiven(t) \/ TagListGiven(t) => Counted
    BY <2>1 DEF OrderGiven, TagGiven, TagListGiven
  <2>5. ASSUME NEW want, NEW from, NEW target, Rewinding(t, want, from, target) PROVE Counted
    BY <2>5 DEF Counted, Rewinding
  <2>6. UndoLibraryAction(t) \/ RedoLibraryAction(t) => Counted
    BY <2>5 DEF UndoLibraryAction, RedoLibraryAction
  <2> QED BY <1>3, <2>2, <2>3, <2>4, <2>6 DEF OrgUser
<1>4. ASSUME NEW t \in Slots, OrgTask(t) PROVE Counted
  <2>1. ASSUME NEW kind, NEW kept, ChangesMembers(t, kind, kept) PROVE Counted
    BY <2>1 DEF Counted, ChangesMembers
  <2>2. ASSUME NEW kind, NEW new, ChangesRows(t, kind, new) PROVE Counted
    BY <2>2 DEF Counted, ChangesRows
  <2>3. ASSUME NEW kind, NEW new, NEW also, ChangesEntries(t, kind, new, also)
        PROVE  Counted
    BY <2>3 DEF Counted, ChangesEntries
  <2>4. AddToFolder(t) \/ MoveToFolder(t) \/ RemoveFromFolder(t) => Counted
    BY <2>1 DEF AddToFolder, MoveToFolder, RemoveFromFolder
  <2>5. RenameFolder(t) \/ AddTag(t) \/ RemoveTag(t) \/ RenameTag(t) \/ DeleteTag(t)
           => Counted
    BY <2>2 DEF RenameFolder, AddTag, RemoveTag, RenameTag, DeleteTag
  <2>6. OrderFolders(t) \/ SubmitTag(t) => Counted
    BY <2>2 DEF Counted, OrderFolders, SubmitTag
  <2>7. TrashEntries(t) \/ TrashFolder(t) \/ PurgeEntries(t) \/ PurgeFolder(t) => Counted
    BY <2>3 DEF TrashEntries, TrashFolder, PurgeEntries, PurgeFolder
  <2>8. EditMetadata(t) \/ ResetMetadata(t) \/ Reindex(t) \/ ImportEntry(t) => Counted
    BY <2>3 DEF EditMetadata, ResetMetadata, Reindex, ImportEntry
  <2>9. Begin(t) \/ CreateFolder(t) \/ CopyFolder(t) \/ MoveChecks(t) \/ MoveWrite(t) => Counted
    BY DEF Counted, Begin, CreateFolder, CopyFolder, MoveChecks, MoveWrite
  <2>10. RestoreTree(t) \/ RestoreEntries(t) => Counted
    BY DEF Counted, RestoreTree, RestoreEntries
  <2>11. Rewind(t) => Counted BY DEF Counted, Rewind
  <2>12. WriteIndex(t) \/ End(t) => Counted BY DEF Counted, WriteIndex, End
  <2> QED BY <1>4, <2>4, <2>5, <2>6, <2>7, <2>8, <2>9, <2>10,
         <2>11, <2>12
         DEF OrgTask
<1>5. ASSUME NEW t \in Slots, OrgMessage(t) \/ TaskFailed(t) PROVE Counted
  BY <1>5 DEF Counted, OrgMessage, ActionFinished, UnfiledFinished, RestoreFinished, TaskFailed
<1> QED BY <1>1, <1>2, <1>3, <1>4, <1>5, DesktopSteps

LEMMA EventsKept == ASSUME [DesktopNext]_desktopVars PROVE UNCHANGED events
BY ActsCounted DEF Counted

LEMMA CoreInit == ASSUME DesktopInit PROVE CoreHeld
<1>1. OrgInit BY DEF DesktopInit, LibraryInit
<1>2. store \in Start /\ store \in Store BY <1>1, OrganizationAssumption DEF OrgInit
<1>3. Shaped(store) BY <1>2 DEF Store, Shaped, Columns
<1>4. lastFolder \in 0 .. Cardinality(Folder)
  <2>1. Existing(store) \in SUBSET Folder BY DEF Existing, Live, Trashed
  <2>2. IsFiniteSet(Existing(store)) /\ Cardinality(Existing(store)) <= Cardinality(Folder)
    BY <2>1, FolderIds, FS_Subset
  <2>3. Cardinality(Existing(store)) \in Nat /\ Cardinality(Folder) \in Nat
    BY <2>2, FolderIds, FS_CardinalityType
  <2> QED BY <1>1, <2>2, <2>3 DEF OrgInit
<1>5. /\ tasks = [t \in Slots |-> tasks[t]] /\ \A t \in Slots : tasks[t] = FreeTask
  BY <1>1 DEF OrgInit
<1>6. /\ \A t \in Slots : TaskHeld(tasks[t], store, lastFolder) /\ tasks[t].phase = "free"
      /\ OneTask
  BY <1>5, FreeHeld DEF OneTask
<1> DEFINE node == [parent |-> 0, before |-> store, after |-> store]
<1>7. node.parent = 0 /\ node.before = store /\ node.after = store OBVIOUS
<1>8. nodes = <<node>> /\ current = 1 BY <1>1 DEF OrgInit
<1> HIDE DEF node
<1>9. nodes \in Seq({node}) /\ DOMAIN nodes = {1} /\ nodes[1] = node BY <1>8
<1>10. \E S : nodes \in Seq(S) BY <1>9
<1>11. \A n \in DOMAIN nodes :
         /\ Shaped(nodes[n].before) /\ Shaped(nodes[n].after)
         /\ nodes[n].parent \in Nat /\ nodes[n].parent < n
         /\ n # 1 => nodes[n].parent \in DOMAIN nodes
  BY <1>3, <1>7, <1>9
<1>12. current \in DOMAIN nodes BY <1>8, <1>9
<1> QED BY <1>3, <1>4, <1>5, <1>6, <1>10, <1>11, <1>12 DEF CoreHeld
-----------------------------------------------------------------------------
LEMMA TreeKept ==
  ASSUME CoreHeld, TreeHeld, NEW t \in Slots, \A r \in Slots \ {t} : tasks[r].phase = "free",
         tasks' = [tasks EXCEPT ![t] = tasks'[t]], Ready(tasks'[t], store', lastFolder'),
         Grown(store', lastFolder'), lastFolder' \in Nat, lastFolder <= lastFolder',
         UNCHANGED nodes
  PROVE  TreeHeld'
<1>1. \A r \in Slots \ {t} : tasks'[r] = tasks[r] /\ tasks'[r].phase = "free"
  BY DEF CoreHeld
<1>2. \A r \in Slots : Ready(tasks'[r], store', lastFolder')
  BY <1>1 DEF Ready
<1>3. lastFolder \in Nat BY FolderIds, FS_CardinalityType DEF CoreHeld
<1>4. \A n \in DOMAIN nodes' :
        Grown(nodes'[n].before, lastFolder') /\ Grown(nodes'[n].after, lastFolder')
  BY <1>3, GrownMore DEF TreeHeld
<1> QED BY <1>2, <1>4 DEF TreeHeld

(* An undo takes folders back. *)
Undoes(t) == tasks[t].phase = "change" /\ tasks[t].cmd.kind = "rewind"

LEMMA TreeStep ==
  ASSUME CoreHeld, TreeHeld, Calm, [DesktopNext]_desktopVars
  PROVE  /\ TreeHeld' /\ SparesEntries(store, store')
         /\ SparesFolders(store, store') \/ \E t \in Slots : Undoes(t)
<1>0. /\ Alone /\ Shaped(store) /\ lastFolder \in Nat /\ Grown(store, lastFolder)
      /\ Cardinality(Folder) \in Nat /\ lastFolder \in 0 .. Cardinality(Folder)
  BY FolderIds, FS_CardinalityType DEF Calm, Alone, CoreHeld, TreeHeld
<1>1. UNCHANGED store => Spares(store, store')
  BY DEF Spares, SparesEntries, SparesFolders, LiveEntries, Live
<1>2. CASE UNCHANGED coreVars
  <2>1. TreeHeld' BY <1>2 DEF coreVars, TreeHeld
  <2> QED BY <1>1, <1>2, <2>1 DEF coreVars, Spares
<1>3. CASE Refresh
  <2>1. UNCHANGED <<lastFolder, tasks, nodes>> BY <1>3 DEF Refresh, historyVars
  <2>2. CASE UNCHANGED store
    <3>1. TreeHeld' BY <2>1, <2>2 DEF TreeHeld
    <3> QED BY <1>1, <2>2, <3>1 DEF Spares
  <2>3. CASE UNCHANGED store => FALSE
    <3>1. PICK gone \in SUBSET TrashedEntries(store), old \in SUBSET Trashed(store) :
            store' = Expired(store, gone, old)
      BY <1>3, <2>3 DEF Refresh
    <3>2. Hung(store) BY <1>0 DEF Grown
    <3>3. /\ SparesEntries(store, store') /\ LiveEntries(store') = LiveEntries(store)
          /\ SparesFolders(store, store') /\ Live(store') = Live(store)
          /\ Existing(store') \subseteq Existing(store)
          /\ \A f \in Existing(store') : store'.parent[f] = store.parent[f]
          /\ Grown(store', lastFolder)
      BY <1>0, <3>1, <3>2, ExpiredKeeps
    <3>4. ASSUME NEW t \in Slots PROVE Ready(tasks[t], store', lastFolder)
      <4>1. Ready(tasks[t], store, lastFolder) BY DEF TreeHeld
      <4>2. Existing(store) \in SUBSET Folder BY DEF Existing, Live, Trashed
      <4>3. Subtree(store', Existing(store'), tasks[t].cmd.folder)
              \subseteq Subtree(store, Existing(store), tasks[t].cmd.folder)
        BY <3>3, <4>2, SubtreeShrinks
      <4> QED BY <3>3, <4>1, <4>3 DEF Ready
    <3>5. TreeHeld' BY <2>1, <3>3, <3>4 DEF TreeHeld
    <3> QED BY <3>3, <3>5
  <2> QED BY <2>2, <2>3
<1>4. ASSUME NEW t \in Slots, OrgUser(t) PROVE TreeHeld' /\ Spares(store, store')
  <2>1. Gives(t) BY <1>4, UserSteps
  <2> DEFINE c == tasks'[t].cmd
  <2>2. /\ \A r \in Slots \ {t} : tasks[r].phase = "free"
        /\ tasks' = [tasks EXCEPT ![t] = tasks'[t]]
        /\ UNCHANGED <<store, lastFolder, nodes, current>> /\ tasks'[t].phase = "begin"
    BY <1>0, <2>1 DEF Gives, Idle
  <2>3. c.kind = "rewind" => Grown(c.want, lastFolder)
    BY <2>1 DEF Gives, CoreHeld, TreeHeld
  <2>4. c.kind \in {"create", "copy", "move"} => c.to \in Live(store) \cup {Root}
    BY <2>1 DEF Gives
  <2>5. c.kind = "purge" => c.entries \cap LiveEntries(store) = {} BY <2>1 DEF Gives
  <2>6. Ready(tasks'[t], store', lastFolder')
    BY <2>2, <2>3, <2>4, <2>5 DEF Ready
  <2>7. TreeHeld' BY <1>0, <2>2, <2>6, TreeKept
  <2> QED BY <1>1, <2>2, <2>7
<1>5. ASSUME NEW t \in Slots, OrgTask(t)
      PROVE  /\ TreeHeld' /\ SparesEntries(store, store')
             /\ SparesFolders(store, store') \/ Undoes(t)
  <2> DEFINE c == tasks[t].cmd
  <2>0. Ready(tasks[t], store, lastFolder) /\ TaskHeld(tasks[t], store, lastFolder)
    BY DEF CoreHeld, TreeHeld
  <2>1. CASE Begin(t)
    <3>1. /\ tasks[t].phase = "begin" /\ UNCHANGED <<store, lastFolder, nodes, current>>
      BY <2>1 DEF Begin, dataVars, historyVars
    <3>2. /\ tasks' = [tasks EXCEPT ![t] = tasks'[t]]
          /\ tasks'[t].phase = "change" /\ tasks'[t].cmd = c /\ tasks'[t].before = store
      BY <2>1, <2>0 DEF Begin, TaskHeld, TaskFields, CoreHeld
    <3>3. Ready(tasks'[t], store', lastFolder')
      BY <1>0, <2>0, <3>1, <3>2 DEF Ready
    <3>4. \A r \in Slots \ {t} : tasks[r].phase = "free" BY <3>1, Only DEF CoreHeld
    <3>5. TreeHeld' BY <1>0, <3>1, <3>2, <3>3, <3>4, TreeKept
    <3> QED BY <1>1, <3>1, <3>5 DEF Spares
  <2>2. CASE End(t)
    <3>1. /\ tasks[t].phase = "end" /\ UNCHANGED <<store, lastFolder, nodes, current>>
      BY <2>2 DEF End, dataVars, historyVars
    <3>2. /\ tasks' = [tasks EXCEPT ![t] = tasks'[t]]
          /\ tasks'[t].phase = "done" /\ tasks'[t].cmd = c /\ tasks'[t].after = store
          /\ tasks'[t].before = tasks[t].before
      BY <2>2, <2>0 DEF End, TaskHeld, TaskFields, CoreHeld
    <3>3. Ready(tasks'[t], store', lastFolder')
      BY <1>0, <2>0, <3>1, <3>2 DEF Ready
    <3>4. \A r \in Slots \ {t} : tasks[r].phase = "free" BY <3>1, Only DEF CoreHeld
    <3>5. TreeHeld' BY <1>0, <3>1, <3>2, <3>3, <3>4, TreeKept
    <3> QED BY <1>1, <3>1, <3>5 DEF Spares
  <2>3. CASE Rests(t)
    <3>1. /\ Goes(t, {"write", "index", "end", "failed"}) /\ UNCHANGED <<store, lastFolder, nodes>>
          /\ tasks[t].phase \notin {"free", "begin"}
      BY <2>3 DEF Rests, Goes
    <3>2. Ready(tasks'[t], store', lastFolder')
      BY <2>0, <2>3, <3>1 DEF Ready, Goes, Rests
    <3>3. \A r \in Slots \ {t} : tasks[r].phase = "free" BY <3>1, Only DEF CoreHeld
    <3>4. TreeHeld' BY <1>0, <3>1, <3>2, <3>3, TreeKept DEF Goes
    <3> QED BY <1>1, <3>1, <3>4 DEF Spares
  <2>4. CASE Alters(t)
    <3>1. /\ Goes(t, {"write", "index", "end"}) /\ tasks[t].phase \notin {"free", "begin"}
          /\ lastFolder' \in lastFolder .. Cardinality(Folder)
          /\ Grown(store', lastFolder') /\ Spares(store, store')
          /\ tasks'[t].phase = "write" => c.kind = "restore"
      BY <1>0, <2>0, <2>4 DEF Alters
    <3>2. lastFolder' \in Nat /\ lastFolder <= lastFolder' BY <1>0, <3>1
    <3>3. Grown(tasks[t].before, lastFolder') BY <1>0, <2>0, <3>1, <3>2, GrownMore DEF Ready
    <3>4. Ready(tasks'[t], store', lastFolder')
      BY <3>1, <3>3 DEF Ready, Goes
    <3>5. \A r \in Slots \ {t} : tasks[r].phase = "free" BY <3>1, Only DEF CoreHeld
    <3>6. TreeHeld' BY <3>1, <3>2, <3>4, <3>5, TreeKept DEF Goes
    <3> QED BY <3>1, <3>6 DEF Spares
  <2>5. CASE Rewinds(t)
    <3>1. /\ Goes(t, {"index"}) /\ tasks[t].phase = "change" /\ c.kind = "rewind"
          /\ UNCHANGED lastFolder /\ SparesEntries(store, store') /\ SameFolders(c.want, store')
      BY <2>5 DEF Rewinds
    <3>2. Grown(store', lastFolder')
      <4>1. Grown(c.want, lastFolder) BY <2>0, <3>1 DEF Ready
      <4> QED BY <3>1, <4>1, GrownSame DEF SameFolders
    <3>3. Ready(tasks'[t], store', lastFolder') BY <2>0, <3>1 DEF Ready, Goes
    <3>4. \A r \in Slots \ {t} : tasks[r].phase = "free" BY <3>1, Only DEF CoreHeld
    <3>5. TreeHeld' BY <1>0, <3>1, <3>2, <3>3, <3>4, TreeKept DEF Goes
    <3> QED BY <3>1, <3>5 DEF Undoes
  <2> QED BY <1>5, <2>1, <2>2, <2>3, <2>4, <2>5, TaskSteps DEF Spares
<1>6. ASSUME NEW t \in Slots, OrgMessage(t) \/ TaskFailed(t)
      PROVE  TreeHeld' /\ Spares(store, store')
  <2>1. /\ tasks' = [tasks EXCEPT ![t] = FreeTask] /\ UNCHANGED <<store, lastFolder>>
        /\ tasks[t].phase # "free"
    BY <1>6 DEF OrgMessage, ActionFinished, UnfiledFinished, RestoreFinished, TaskFailed, Freed,
                dataVars
  <2>2. \A r \in Slots : Ready(tasks'[r], store', lastFolder')
    <3>1. \A r \in Slots \ {t} : tasks'[r] = tasks[r] BY <2>1 DEF CoreHeld
    <3>2. tasks'[t] = FreeTask BY <2>1 DEF CoreHeld
    <3> QED BY <2>1, <3>1, <3>2, FreeHeld DEF TreeHeld
  <2>3. \A n \in DOMAIN nodes' :
          Grown(nodes'[n].before, lastFolder) /\ Grown(nodes'[n].after, lastFolder)
    <3>1. CASE UNCHANGED nodes BY <3>1 DEF TreeHeld
    <3>2. CASE UNCHANGED nodes => FALSE
      <4> DEFINE node == [parent |-> current, before |-> tasks[t].before, after |-> tasks[t].after]
                 k    == Len(nodes)
      <4>1. tasks[t].phase = "done" /\ nodes' = Append(nodes, node)
        BY <1>6, <3>2 DEF OrgMessage, ActionFinished, UnfiledFinished, RestoreFinished,
                          TaskFailed, historyVars, Push
      <4>2. /\ k \in Nat /\ DOMAIN nodes = 1 .. k /\ DOMAIN Append(nodes, node) = 1 .. (k + 1)
            /\ \A n \in 1 .. k : Append(nodes, node)[n] = nodes[n]
            /\ Append(nodes, node)[k + 1] = node
        BY Appended DEF CoreHeld
      <4>3. Grown(node.before, lastFolder) /\ Grown(node.after, lastFolder)
        BY <4>1 DEF TreeHeld, Ready
      <4> HIDE DEF node, k
      <4> SUFFICES ASSUME NEW n \in 1 .. (k + 1)
                   PROVE  Grown(nodes'[n].before, lastFolder) /\ Grown(nodes'[n].after, lastFolder)
        BY <4>1, <4>2
      <4>4. CASE n = k + 1 BY <4>1, <4>2, <4>3, <4>4
      <4>5. CASE n # k + 1
        <5>1. n \in 1 .. k BY <4>2, <4>5
        <5> QED BY <4>1, <4>2, <5>1 DEF TreeHeld
      <4> QED BY <4>4, <4>5
    <3> QED BY <3>1, <3>2
  <2>4. TreeHeld' BY <1>0, <2>1, <2>2, <2>3 DEF TreeHeld
  <2> QED BY <1>1, <2>1, <2>4
<1> QED BY <1>2, <1>3, <1>4, <1>5, <1>6, DesktopSteps DEF Spares
-----------------------------------------------------------------------------
LEMMA RowsChange ==
  ASSUME NEW s, NEW z, NEW w, SameRows(s, z), SameRows(s, w)
  PROVE  SameRows(z, w) /\ (Neat(s) => Neat(z))
BY DEF SameRows, Neat

LEMMA HistoryKept ==
  ASSUME CoreHeld, HistoryHeld, NEW t \in Slots,
         \A r \in Slots \ {t} : tasks[r].phase = "free",
         tasks' = [tasks EXCEPT ![t] = tasks'[t]], tasks'[t].phase # "free",
         SameRows(store, store'), Follows(tasks'[t], store', nodes[current].after),
         UNCHANGED <<nodes, current>>
  PROVE  HistoryHeld'
<1>1. \A r \in Slots \ {t} : tasks'[r] = tasks[r] /\ tasks'[r].phase = "free"
  BY DEF CoreHeld
<1>2. ~Idle' BY DEF Idle
<1>3. \A r \in Slots : tasks'[r].phase # "free" =>
        Follows(tasks[r], store, nodes[current].after)'
  BY <1>1 DEF Follows
<1>4. Neat(store') BY RowsChange DEF HistoryHeld
<1>5. \A n \in DOMAIN nodes : SameRows(store', nodes[n].after) BY RowsChange DEF HistoryHeld
<1> QED BY <1>2, <1>3, <1>4, <1>5 DEF HistoryHeld

LEMMA HistoryStep ==
  ASSUME CoreHeld, HistoryHeld, Filing, [DesktopNext]_desktopVars
  PROVE  HistoryHeld'
<1> DEFINE now == nodes[current].after
<1>0. /\ Alone /\ "failure" \notin events /\ "expiry" \notin events /\ Neat(store)
      /\ current \in DOMAIN nodes
  BY DEF Filing, Alone, HistoryHeld, CoreHeld
<1>1. SameRows(store, store) BY DEF SameRows
<1>2. CASE UNCHANGED coreVars
  BY <1>2 DEF coreVars, HistoryHeld, Idle, Follows
<1>3. CASE Refresh
  <2>1. UNCHANGED <<store, tasks, nodes, current>> BY <1>0, <1>3 DEF Refresh, historyVars
  <2> QED BY <2>1 DEF HistoryHeld, Idle, Follows
<1>4. ASSUME NEW t \in Slots, OrgUser(t) PROVE HistoryHeld'
  <2>1. Gives(t) BY <1>4, UserSteps
  <2> DEFINE c == tasks'[t].cmd
  <2>2. /\ Idle /\ \A r \in Slots \ {t} : tasks[r].phase = "free"
        /\ tasks' = [tasks EXCEPT ![t] = tasks'[t]]
        /\ UNCHANGED <<store, nodes, current>> /\ tasks'[t].phase = "begin"
        /\ c.kind \notin {"import", "purge", "purgeFolder", "card"}
    BY <1>0, <2>1 DEF Gives, Idle
  <2>3. store = now BY <2>2 DEF HistoryHeld
  <2>4. c.kind = "rewind" => nodes[c.target].after = c.want
    BY <1>0, <2>1 DEF Gives, HistoryHeld
  <2>5. Follows(tasks'[t], store', now) BY <2>2, <2>3, <2>4 DEF Follows
  <2> QED BY <1>1, <2>2, <2>5, HistoryKept
<1>5. ASSUME NEW t \in Slots, OrgTask(t) PROVE HistoryHeld'
  <2> DEFINE c == tasks[t].cmd
  <2>0. /\ tasks[t].phase # "free" => Follows(tasks[t], store, now)
        /\ TaskHeld(tasks[t], store, lastFolder)
    BY DEF CoreHeld, HistoryHeld
  <2>1. CASE Begin(t)
    <3>1. /\ tasks[t].phase = "begin" /\ UNCHANGED <<store, lastFolder, nodes, current>>
      BY <2>1 DEF Begin, dataVars, historyVars
    <3>2. /\ tasks' = [tasks EXCEPT ![t] = tasks'[t]]
          /\ tasks'[t].phase = "change" /\ tasks'[t].cmd = c /\ tasks'[t].before = store
      BY <2>1, <2>0 DEF Begin, TaskHeld, TaskFields, CoreHeld
    <3>3. Follows(tasks'[t], store', now) BY <2>0, <3>1, <3>2 DEF Follows
    <3>4. \A r \in Slots \ {t} : tasks[r].phase = "free" BY <3>1, Only DEF CoreHeld
    <3> QED BY <1>1, <3>1, <3>2, <3>3, <3>4, HistoryKept
  <2>2. CASE End(t)
    <3>1. /\ tasks[t].phase = "end" /\ UNCHANGED <<store, lastFolder, nodes, current>>
      BY <2>2 DEF End, dataVars, historyVars
    <3>2. /\ tasks' = [tasks EXCEPT ![t] = tasks'[t]]
          /\ tasks'[t].phase = "done" /\ tasks'[t].cmd = c /\ tasks'[t].after = store
          /\ tasks'[t].before = tasks[t].before
      BY <2>2, <2>0 DEF End, TaskHeld, TaskFields, CoreHeld
    <3>3. Follows(tasks'[t], store', now) BY <2>0, <3>1, <3>2 DEF Follows
    <3>4. \A r \in Slots \ {t} : tasks[r].phase = "free" BY <3>1, Only DEF CoreHeld
    <3> QED BY <1>1, <3>1, <3>2, <3>3, <3>4, HistoryKept
  <2>3. CASE Rests(t)
    <3>1. /\ Goes(t, {"write", "index", "end", "failed"}) /\ UNCHANGED <<store, nodes, current>>
          /\ tasks[t].phase \in {"change", "write", "index"}
      BY <2>3 DEF Rests, Goes
    <3>2. Follows(tasks[t], store, now) BY <2>0, <3>1
    <3>3. Follows(tasks'[t], store', now)
      <4>1. tasks'[t].phase \in {"write", "index", "end", "failed"} /\ tasks'[t].cmd = c
            /\ tasks'[t].before = tasks[t].before
        BY <3>1 DEF Goes
      <4>2. CASE tasks[t].phase = "change"
        <5>1. store = now /\ tasks[t].before = now BY <3>2, <4>2 DEF Follows
        <5>2. c.kind = "rewind" => tasks'[t].phase = "failed" BY <2>3, <4>2 DEF Rests
        <5> QED BY <3>1, <3>2, <4>1, <4>2, <5>1, <5>2 DEF Follows
      <4>3. CASE tasks[t].phase = "write"
        <5>1. c.kind = "move" BY <2>3, <4>3 DEF Rests
        <5>2. store = now /\ tasks[t].before = now BY <3>2, <4>3, <5>1 DEF Follows
        <5> QED BY <3>1, <4>1, <5>1, <5>2 DEF Follows
      <4>4. CASE tasks[t].phase = "index"
        <5>1. tasks'[t].phase = "end" BY <1>0, <2>3, <4>4 DEF Rests
        <5> QED BY <3>1, <3>2, <4>1, <4>4, <5>1 DEF Follows
      <4> QED BY <3>1, <4>2, <4>3, <4>4
    <3>4. \A r \in Slots \ {t} : tasks[r].phase = "free" BY <3>1, Only DEF CoreHeld
    <3> QED BY <1>1, <3>1, <3>3, <3>4, HistoryKept DEF Goes
  <2>4. CASE Alters(t)
    <3>1. /\ Goes(t, {"write", "index", "end"}) /\ UNCHANGED <<nodes, current>>
          /\ tasks[t].phase \in {"change", "write"} /\ c.kind \notin {"rewind", "reindex"}
          /\ tasks'[t].phase = "write" => c.kind = "restore"
      BY <2>4 DEF Alters, Goes
    <3>2. Follows(tasks[t], store, now) BY <2>0, <3>1
    <3>3. SameRows(store, store') BY <1>0, <2>4, <3>1, <3>2 DEF Alters, Follows
    <3>4. Follows(tasks'[t], store', now) BY <3>1, <3>2 DEF Follows, Goes
    <3>5. \A r \in Slots \ {t} : tasks[r].phase = "free" BY <3>1, Only DEF CoreHeld
    <3> QED BY <3>1, <3>3, <3>4, <3>5, HistoryKept DEF Goes
  <2>5. CASE Rewinds(t)
    <3>1. /\ Goes(t, {"index"}) /\ tasks[t].phase = "change" /\ c.kind = "rewind"
          /\ UNCHANGED <<nodes, current>>
          /\ SameRows(store, c.want) => store' = c.want
      BY <2>5 DEF Rewinds, Goes
    <3>2. Follows(tasks[t], store, now) BY <2>0, <3>1
    <3>3. nodes[c.target].after = c.want /\ c.target \in DOMAIN nodes
      BY <3>1, <3>2 DEF Follows, CoreHeld
    <3>4. SameRows(store, store') /\ store' = c.want BY <3>1, <3>3 DEF HistoryHeld
    <3>5. Follows(tasks'[t], store', now) BY <3>1, <3>2, <3>3, <3>4 DEF Follows, Goes
    <3>6. \A r \in Slots \ {t} : tasks[r].phase = "free" BY <3>1, Only DEF CoreHeld
    <3> QED BY <3>1, <3>4, <3>5, <3>6, HistoryKept DEF Goes
  <2> QED BY <1>5, <2>1, <2>2, <2>3, <2>4, <2>5, TaskSteps
<1>6. ASSUME NEW t \in Slots, OrgMessage(t) \/ TaskFailed(t) PROVE HistoryHeld'
  <2> DEFINE c == tasks[t].cmd
  <2>1. /\ tasks' = [tasks EXCEPT ![t] = FreeTask] /\ UNCHANGED store /\ tasks[t].phase # "free"
    BY <1>6 DEF OrgMessage, ActionFinished, UnfiledFinished, RestoreFinished, TaskFailed, Freed,
                dataVars
  <2>2. \A r \in Slots \ {t} : tasks[r].phase = "free" BY <2>1, Only DEF CoreHeld
  <2>3. \A r \in Slots : tasks'[r].phase = "free"
    <3>1. \A r \in Slots \ {t} : tasks'[r] = tasks[r] BY <2>1 DEF CoreHeld
    <3>2. tasks'[t] = FreeTask BY <2>1 DEF CoreHeld
    <3> QED BY <2>2, <3>1, <3>2, FreeHeld
  <2>4. Follows(tasks[t], store, now) BY <2>1 DEF HistoryHeld
  <2>5. CASE UNCHANGED nodes
    <3>1. store = nodes[current'].after
      <4>1. CASE ActionFinished(t)
        <5>1. /\ tasks[t].phase = "done" /\ current' = current
              /\ tasks[t].before = tasks[t].after
          <6>1. Push(tasks[t].before, tasks[t].after) /\ tasks[t].phase = "done"
            BY <4>1 DEF ActionFinished
          <6>2. CASE tasks[t].before = tasks[t].after /\ UNCHANGED <<nodes, current>>
            BY <6>1, <6>2
          <6>3. ASSUME NEW r, nodes' = Append(nodes, r) PROVE FALSE
            <7>1. DOMAIN nodes = 1 .. Len(nodes) /\ Len(nodes) \in Nat
                  /\ DOMAIN Append(nodes, r) = 1 .. (Len(nodes) + 1)
              BY Appended DEF CoreHeld
            <7>2. Len(nodes) + 1 \in DOMAIN Append(nodes, r) /\ Len(nodes) + 1 \notin DOMAIN nodes
              BY <7>1
            <7> QED BY <2>5, <6>3, <7>2
          <6> QED BY <6>1, <6>2, <6>3 DEF Push
        <5> QED BY <2>4, <5>1 DEF Follows
      <4>2. CASE UnfiledFinished(t)
        <5>1. tasks[t].phase = "done" /\ c.kind \in Unfiled /\ current' = current
          BY <4>2 DEF UnfiledFinished, historyVars
        <5>2. c.kind = "reindex" BY <2>4, <5>1 DEF Follows, Unfiled
        <5> QED BY <2>4, <5>1, <5>2 DEF Follows
      <4>3. CASE RestoreFinished(t)
        BY <2>4, <4>3 DEF RestoreFinished, Follows
      <4>4. CASE TaskFailed(t)
        BY <2>4, <4>4 DEF TaskFailed, Follows
      <4> QED BY <1>6, <4>1, <4>2, <4>3, <4>4 DEF OrgMessage
    <3> QED BY <2>1, <2>3, <2>5, <3>1 DEF HistoryHeld
  <2>6. CASE UNCHANGED nodes => FALSE
    <3> DEFINE node == [parent |-> current, before |-> tasks[t].before, after |-> tasks[t].after]
               k    == Len(nodes)
    <3>1. /\ tasks[t].phase = "done" /\ nodes' = Append(nodes, node) /\ current' = k + 1
      BY <1>6, <2>6 DEF OrgMessage, ActionFinished, UnfiledFinished, RestoreFinished, TaskFailed,
                        historyVars, Push
    <3>2. /\ k \in Nat /\ DOMAIN nodes = 1 .. k /\ DOMAIN Append(nodes, node) = 1 .. (k + 1)
          /\ \A n \in 1 .. k : Append(nodes, node)[n] = nodes[n]
          /\ Append(nodes, node)[k + 1] = node
      BY Appended DEF CoreHeld
    <3>3. node.before = now /\ node.after = store /\ node.parent = current
      BY <2>4, <3>1 DEF Follows
    <3> HIDE DEF node, k
    <3>4. /\ \A n \in 1 .. k : nodes'[n] = nodes[n]
          /\ nodes'[k + 1] = node /\ DOMAIN nodes' = 1 .. (k + 1)
      BY <3>1, <3>2
    <3>5. current \in 1 .. k /\ \A n \in 1 .. k : n # 1 => nodes[n].parent \in 1 .. k
      BY <3>2 DEF CoreHeld
    <3>6. ASSUME NEW n \in 1 .. (k + 1)
          PROVE  /\ SameRows(store, nodes'[n].after)
                 /\ n # 1 => nodes'[n].before = nodes'[nodes'[n].parent].after
      <4>1. CASE n = k + 1
        <5>1. nodes'[n] = node BY <3>4, <4>1
        <5>2. nodes'[n].after = store /\ nodes'[n].before = nodes[current].after
              /\ nodes'[n].parent = current
          BY <3>3, <5>1
        <5>3. nodes'[current] = nodes[current] BY <3>4, <3>5
        <5> QED BY <1>1, <5>2, <5>3
      <4>2. CASE n # k + 1
        <5>1. n \in 1 .. k BY <3>2, <4>2
        <5>2. nodes'[n] = nodes[n] BY <3>4, <5>1
        <5>3. SameRows(store, nodes[n].after)
              /\ (n # 1 => nodes[n].before = nodes[nodes[n].parent].after)
          BY <3>2, <5>1 DEF HistoryHeld
        <5>4. n # 1 => nodes'[nodes[n].parent] = nodes[nodes[n].parent] BY <3>4, <3>5, <5>1
        <5> QED BY <5>2, <5>3, <5>4
      <4> QED BY <4>1, <4>2
    <3>7. store = nodes'[current'].after BY <3>1, <3>3, <3>4
    <3> QED BY <1>0, <2>1, <2>3, <3>4, <3>6, <3>7 DEF HistoryHeld
  <2> QED BY <2>5, <2>6
<1> QED BY <1>2, <1>3, <1>4, <1>5, <1>6, DesktopSteps
-----------------------------------------------------------------------------
(* Without an order there is no import and nothing to undo. *)
NoImports ==
  /\ orders \in Nat
  /\ orders = 0 => /\ imports = <<>> /\ mail = <<>> /\ checked
                   /\ rollback = NoRollback /\ cleaners = {}

LEMMA NoImportsInit == ASSUME DesktopInit PROVE NoImports
BY DEF DesktopInit, RaindropInit, NoImports

LEMMA NoImportsStep ==
  ASSUME NoImports, [DesktopNext]_desktopVars
  PROVE  NoImports' /\ (orders' = 0 => orders = 0)
<1>1. CASE UNCHANGED raindropVars BY <1>1 DEF raindropVars, NoImports
<1>2. CASE RaindropUser
  BY <1>2 DEF RaindropUser, ImportSelectedRaindropPdfs, CancelRaindropImport, Crash, Ordered,
     NoImports
<1>3. CASE RaindropAlone
  <2>1. UNCHANGED orders
    BY <1>3 DEF RaindropAlone, RaindropTask, ImportStarts, ImportFails, ImportPrepares,
       ImportEnds, ImportPdf, StreamReports, StreamEnds, RollbackEntries, RollbackFolders,
       RollbackEnds, CleanUp, RaindropImportProgressUpdated, RaindropImportCreatedFolder,
       PendingRaindropRollbackChecked
  <2>2. orders # 0
    <3> SUFFICES ASSUME orders = 0 PROVE FALSE OBVIOUS
    <3>1. /\ DOMAIN imports = {} /\ mail = <<>> /\ checked /\ cleaners = {}
          /\ rollback.stage = "none"
      BY DEF NoImports, NoRollback
    <3> QED
      BY <1>3, <3>1 DEF RaindropAlone, RaindropTask, RollbackEntries, RollbackFolders,
         RollbackEnds, RaindropImportProgressUpdated, RaindropImportCreatedFolder, Hears,
         PendingRaindropRollbackChecked
  <2> QED BY <2>1, <2>2 DEF NoImports
<1>4. CASE RaindropImportFinished \/ RaindropImportRollbackFinished \/ RaindropImportFailed
  <2>1. UNCHANGED orders /\ mail # <<>>
    BY <1>4 DEF RaindropImportFinished, RaindropImportRollbackFinished, RaindropImportFailed, Hears
  <2> QED BY <2>1 DEF NoImports
<1>5. CASE CommandErrs
  BY <1>5 DEF CommandErrs, raindropRest, NoImports
<1>6. CASE UNCHANGED desktopVars BY <1>1, <1>6 DEF desktopVars
<1>7. CASE DesktopUser BY <1>1, <1>2, <1>7 DEF DesktopUser
<1>8. CASE DesktopGoesOn
  BY <1>1, <1>3, <1>4, <1>5, <1>8 DEF DesktopGoesOn, ImportRefreshes, ImportErrs
<1> QED BY <1>6, <1>7, <1>8 DEF DesktopNext

-----------------------------------------------------------------------------
DesktopInv == CoreInv /\ TreeInv /\ HistoryInv

LEMMA DesktopInvInit == ASSUME DesktopInit PROVE DesktopInv
<1>1. OrgInit /\ CoreHeld BY CoreInit DEF DesktopInit, LibraryInit
<1>2. store \in Start /\ lastFolder = Cardinality(Existing(store))
  BY <1>1 DEF OrgInit
<1>3. Grown(store, lastFolder) /\ Neat(store)
  BY <1>2, StartAssumption DEF Grown, Forest, Hung, Neat
<1>4. \A t \in Slots : tasks[t] = FreeTask /\ tasks[t].phase = "free"
  BY <1>1, FreeHeld DEF OrgInit
<1>5. /\ current = 1 /\ DOMAIN nodes = {1}
      /\ nodes[1].before = store /\ nodes[1].after = store
  BY <1>1 DEF OrgInit
<1>6. TreeHeld BY <1>3, <1>4, <1>5, FreeHeld DEF TreeHeld
<1>7. HistoryHeld BY <1>3, <1>4, <1>5 DEF HistoryHeld, SameRows
<1> QED BY <1>1, <1>6, <1>7 DEF DesktopInv, CoreInv, TreeInv, HistoryInv

LEMMA DesktopInvStep == ASSUME DesktopInv, [DesktopNext]_desktopVars PROVE DesktopInv'
<1>1. UNCHANGED events BY EventsKept
<1>2. CoreInv'
  <2> SUFFICES ASSUME Alone PROVE CoreHeld' BY <1>1 DEF CoreInv, Alone
  <2> QED BY CoreStep DEF DesktopInv, CoreInv
<1>3. TreeInv'
  <2> SUFFICES ASSUME Calm PROVE TreeHeld' BY <1>1 DEF TreeInv, Calm
  <2>1. Alone BY DEF Calm, Alone
  <2> QED BY <2>1, TreeStep DEF DesktopInv, CoreInv, TreeInv
<1>4. HistoryInv'
  <2> SUFFICES ASSUME Filing PROVE HistoryHeld' BY <1>1 DEF HistoryInv, Filing
  <2>1. Alone BY DEF Filing, Alone
  <2> QED BY <2>1, HistoryStep DEF DesktopInv, CoreInv, HistoryInv
<1> QED BY <1>2, <1>3, <1>4 DEF DesktopInv

LEMMA DesktopInvHolds == DesktopSpec => []DesktopInv
<1>1. DesktopInit => DesktopInv BY DesktopInvInit
<1>2. DesktopInv /\ [DesktopNext]_desktopVars => DesktopInv' BY DesktopInvStep
<1> QED BY <1>1, <1>2, PTL DEF DesktopSpec

(* Whatever the desktop does beside it, and however old trash expires, the folders stay *)
(* a forest in which the live ones can be reached (organization.rs), as long as commands *)
(* wait for one another and nothing is pasted while the trash is on the screen.          *)
THEOREM TreeSoundHolds == DesktopSpec => []TreeSound
<1>1. DesktopInv => TreeSound
  BY DEF DesktopInv, TreeInv, TreeHeld, TreeSound, Calm, Grown, Forest, Hung
<1> QED BY <1>1, DesktopInvHolds, PTL

(* Under the same conditions nothing that is live is deleted for good: no permanent *)
(* deletion, expiry or cascade takes more than the trash.                           *)
THEOREM OnlyTrashDeletedHolds == DesktopSpec => OnlyTrashDeleted
<1> DEFINE Step ==
      events \cap {"overlap", "trashPaste"} = {} =>
         /\ \A e \in LiveEntries(store) : store'.entry[e] # "absent"
         /\ \/ \E t \in Slots : tasks[t].phase = "change" /\ tasks[t].cmd.kind = "rewind"
            \/ \A f \in Live(store) : store'.folder[f] # "absent"
<1>1. ASSUME DesktopInv, [DesktopNext]_desktopVars PROVE [Step]_orgVars
  <2> SUFFICES ASSUME Calm PROVE Step BY DEF Calm
  <2>1. CoreHeld /\ TreeHeld BY <1>1 DEF DesktopInv, CoreInv, TreeInv, Calm, Alone
  <2>2. /\ SparesEntries(store, store')
        /\ SparesFolders(store, store') \/ \E t \in Slots : Undoes(t)
    BY <1>1, <2>1, TreeStep
  <2> QED BY <2>2 DEF SparesEntries, SparesFolders, Undoes
<1>2. DesktopSpec => [][Step]_orgVars
  BY <1>1, DesktopInvHolds, PTL DEF DesktopSpec
<1> QED BY <1>2 DEF OnlyTrashDeleted

(* Between commands the current node of the history stands for the library as it is, and *)
(* the nodes below it start from there, down every branch: what LibraryHistory::push      *)
(* files, and what an undo or a redo restores, is what is in the database.                *)
THEOREM HistoryMatchesStoreHolds == DesktopSpec => []HistoryMatchesStore
<1>1. ASSUME DesktopInv PROVE HistoryMatchesStore
  <2> SUFFICES ASSUME Idle, Filing
               PROVE  /\ nodes[current].after = store
                      /\ \A n \in DOMAIN nodes : nodes[n].parent = current => nodes[n].before = store
    BY DEF HistoryMatchesStore, Filing
  <2>1. CoreHeld /\ HistoryHeld BY <1>1 DEF DesktopInv, CoreInv, HistoryInv, Filing, Alone
  <2>2. nodes[current].after = store BY <2>1 DEF HistoryHeld
  <2>3. \A n \in DOMAIN nodes : nodes[n].parent = current => n # 1
    <3>1. PICK S : nodes \in Seq(S) BY <2>1 DEF CoreHeld
    <3>2. DOMAIN nodes = 1 .. Len(nodes) /\ Len(nodes) \in Nat BY <3>1
    <3> QED BY <2>1, <3>2 DEF CoreHeld
  <2> QED BY <2>1, <2>2, <2>3 DEF HistoryHeld
<1> QED BY <1>1, DesktopInvHolds, PTL
-----------------------------------------------------------------------------
(* Imports from Raindrop: what has finished stays. No import is heard, and no result of *)
(* one is on its way, while something is undone; and nothing that was told of imports,  *)
(* or is to be undone, names what is settled.                                           *)

(* What is reported and told of n imports. *)
Reports(n) == [entries : SUBSET (Pdf \X BOOLEAN), folders : SUBSET (0 .. n)]
Messages(n) == [kind : {"progress", "folder", "ok", "error", "undone"}, import : Nat,
                entries : SUBSET (Pdf \X BOOLEAN), folders : SUBSET (0 .. n), done : SUBSET Pdf]

Imported(i) == /\ i \in 1 .. begun /\ imports[i] \in Import
               /\ i \in DOMAIN said /\ said[i] \in Seq(Reports(begun))

(* The types, apart from those of the imports and of their messages. *)
RestTyped ==
  /\ rows \in [Pdf -> Place] /\ files \subseteq Pdf /\ folders \subseteq 0 .. begun
  /\ under \in {TopLevel} \cup 1 .. begun
  /\ undo \in Reports(begun)
  /\ bar \in [shown : BOOLEAN, handle : 0 .. begun, entries : SUBSET (Pdf \X BOOLEAN),
              folders : SUBSET (0 .. begun)]
  /\ rollback \in [stage : {"none", "entries", "folders", "end"},
                  entries : SUBSET (Pdf \X BOOLEAN), folders : SUBSET (0 .. begun),
                  clean : SUBSET Pdf]
  /\ cleaners \subseteq [pdfs : SUBSET Pdf, clear : BOOLEAN]
  /\ checked \in BOOLEAN /\ begun \in Nat /\ occurs \in RaindropScenarios
  /\ orders \in 0 .. MaxOrders[occurs]
  /\ settled \in [pdfs : SUBSET Pdf, folders : SUBSET (0 .. begun)]

ImportsTyped ==
  /\ RestTyped /\ mail \in Seq(Messages(begun))
  /\ \A i \in DOMAIN imports : Imported(i)

(* What is the library's own, and of what is told nothing that is settled. *)
Own == {p \in Pdf : rows[p] = "own"}
SparesSettled(told) ==
  Inserted(told.entries) \cap settled.pdfs = {} /\ told.folders \cap settled.folders = {}
Telling(m) == m.kind \in {"progress", "folder"}

(* A settled row and a settled folder are there, *)
LibraryHeld ==
  /\ \A p \in Pdf : rows[p] # "other"
  /\ settled.pdfs \subseteq Own /\ settled.folders \subseteq folders

(* and nothing that is to be undone, or was told and may come to be, is one of them. *)
ToldHeld ==
  /\ SparesSettled(undo) /\ SparesSettled(bar) /\ SparesSettled(rollback)
  /\ \A k \in DOMAIN mail : Telling(mail[k]) => SparesSettled(mail[k])
  /\ \A i \in DOMAIN imports : imports[i].heard =>
       \A k \in DOMAIN said[i] : SparesSettled(said[i][k])

(* While an import is heard nothing is undone and no result is on its way; when a result *)
(* is, it is the last message and there is no import; at a start there is neither.       *)
Turn(i) ==
  /\ i = begun /\ i \notin settled.folders /\ imports[i].into \subseteq occurs
  /\ imports[i].phase \in {"ok", "error"} => imports[i].heard
  /\ imports[i].heard =>
       /\ rollback = NoRollback /\ imports[i].done \subseteq Own
       /\ "cancel" \in occurs => bar.shown /\ bar.handle = i
       /\ \A k \in DOMAIN mail : Telling(mail[k])

Done(k) == mail[k].kind = "ok" =>
  /\ k = Len(mail) /\ DOMAIN imports = {} /\ rollback = NoRollback /\ mail[k].done \subseteq Own
  /\ begun # 0

AtRest == ~checked => DOMAIN imports = {} /\ mail = <<>> /\ rollback = NoRollback /\ bar = NoBar

TurnHeld ==
  /\ \A i \in DOMAIN imports : Turn(i)
  /\ \A k \in DOMAIN mail : Done(k)
  /\ AtRest

(* The mirrored folder is in another only when it is made in it, and then no import comes  *)
(* after the one that settled it.                                                          *)
FoldersHeld ==
  /\ ~({"new", "mirror"} \subseteq occurs) => under = TopLevel
  /\ "again" \notin occurs => begun <= 1
  /\ ({"new", "mirror"} \subseteq occurs /\ settled.folders # {}) =>
       /\ begun = 1 /\ mail = <<>> /\ DOMAIN imports = {} /\ bar = NoBar /\ undo = Nothing
       /\ rollback = NoRollback

RaindropHeld == LibraryHeld /\ ToldHeld /\ TurnHeld /\ FoldersHeld

LEMMA WithoutFacts ==
  ASSUME NEW i
  PROVE  /\ DOMAIN Without(i) = DOMAIN imports \ {i}
         /\ \A k \in DOMAIN Without(i) : Without(i)[k] = imports[k]
BY DEF Without, Restrict

(* What was told of fewer imports is told of more. *)
LEMMA ReportsGrow ==
  ASSUME NEW n \in Nat, NEW m \in Nat, n <= m
  PROVE  /\ Reports(n) \subseteq Reports(m) /\ Messages(n) \subseteq Messages(m)
         /\ Seq(Reports(n)) \subseteq Seq(Reports(m))
         /\ Seq(Messages(n)) \subseteq Seq(Messages(m))
<1>1. 0 .. n \subseteq 0 .. m OBVIOUS
<1>2. Reports(n) \subseteq Reports(m) /\ Messages(n) \subseteq Messages(m)
  BY <1>1 DEF Reports, Messages
<1>3. \A S, T : S \subseteq T => Seq(S) \subseteq Seq(T) OBVIOUS
<1> QED BY <1>2, <1>3

LEMMA ImportsTypedInit == RaindropInit => ImportsTyped
<1> SUFFICES ASSUME RaindropInit PROVE ImportsTyped OBVIOUS
<1>1. DOMAIN imports = {} BY DEF RaindropInit
<1>2. MaxOrders[occurs] \in Nat BY RaindropAssumption DEF RaindropInit
<1>3. mail \in Seq(Messages(begun)) BY DEF RaindropInit
<1>4. bar \in [shown : BOOLEAN, handle : 0 .. begun, entries : SUBSET (Pdf \X BOOLEAN),
        folders : SUBSET (0 .. begun)]
  BY DEF RaindropInit, NoBar
<1>5. undo \in Reports(begun) BY DEF RaindropInit, Nothing, Reports
<1>6. rollback \in [stage : {"none", "entries", "folders", "end"},
        entries : SUBSET (Pdf \X BOOLEAN),
                  folders : SUBSET (0 .. begun), clean : SUBSET Pdf]
  BY DEF RaindropInit, NoRollback
<1> QED
  BY <1>1, <1>2, <1>3, <1>4, <1>5, <1>6, RaindropAssumption
      DEF RaindropInit, ImportsTyped, RestTyped, Imported

LEMMA OrderedFacts ==
  ASSUME RestTyped, Ordered, occurs' = occurs
  PROVE  orders' \in 0 .. MaxOrders[occurs]
<1>1. MaxOrders[occurs] \in Nat BY RaindropAssumption DEF RestTyped
<1> QED BY <1>1 DEF RestTyped, Ordered

LEMMA BeginTyped ==
  ASSUME ImportsTyped, ImportSelectedRaindropPdfs
  PROVE  ImportsTyped'
<1>0. RestTyped /\ mail \in Seq(Messages(begun)) /\ \A i \in DOMAIN imports : Imported(i)
  BY DEF ImportsTyped
<1>1. begun \in Nat /\ begun' = begun + 1 BY <1>0 DEF RestTyped, ImportSelectedRaindropPdfs
<1>2. 0 .. begun \subseteq 0 .. begun' /\ 1 .. begun \subseteq 1 .. begun' BY <1>1
<1>3. /\ Reports(begun) \subseteq Reports(begun')
      /\ Seq(Reports(begun)) \subseteq Seq(Reports(begun'))
      /\ Seq(Messages(begun)) \subseteq Seq(Messages(begun'))
  BY <1>1, ReportsGrow
<1>4. PICK todo \in (SUBSET Pdf) \ {{}}, into \in SUBSET ({"new", "mirror"} \cap occurs) :
        imports' = With(imports, begun', [phase |-> "begin", heard |-> TRUE, into |-> into,
                                          todo |-> todo, done |-> {}])
  BY DEF ImportSelectedRaindropPdfs
<1>5. said' = With(said, begun', <<>>) BY DEF ImportSelectedRaindropPdfs
<1>6. ASSUME NEW i \in DOMAIN imports' PROVE Imported(i)'
  <2>1. CASE i = begun'
    <3>1. imports'[i] \in Import BY <1>4, <2>1 DEF With, Import
    <3>2. i \in DOMAIN said' /\ said'[i] = <<>> BY <1>5, <2>1 DEF With
    <3>3. said'[i] \in Seq(Reports(begun')) BY <3>2
    <3> QED BY <1>1, <2>1, <3>1, <3>2, <3>3 DEF Imported
  <2>2. CASE i # begun'
    <3>1. i \in DOMAIN imports /\ imports'[i] = imports[i] BY <1>4, <2>2 DEF With
    <3>2. Imported(i) BY <1>0, <3>1
    <3>3. i \in DOMAIN said' /\ said'[i] = said[i] BY <1>5, <2>2, <3>2 DEF With, Imported
    <3> QED BY <1>2, <1>3, <3>1, <3>2, <3>3 DEF Imported
  <2> QED BY <2>1, <2>2
<1>7. bar' = [shown |-> TRUE, handle |-> begun', entries |-> {}, folders |-> {}]
  BY DEF ImportSelectedRaindropPdfs
<1>8. orders' \in 0 .. MaxOrders[occurs] BY <1>0, OrderedFacts DEF ImportSelectedRaindropPdfs
<1>9. RestTyped'
  BY <1>0, <1>1, <1>2, <1>3, <1>7, <1>8 DEF RestTyped, ImportSelectedRaindropPdfs, libraryRows
<1>10. mail' \in Seq(Messages(begun')) BY <1>0, <1>3 DEF ImportSelectedRaindropPdfs
<1> QED BY <1>6, <1>9, <1>10 DEF ImportsTyped, RestTyped, Imported

(* A step of an import that goes on: the others, and what they have said, stay. *)
LEMMA OneImportTyped ==
  ASSUME ImportsTyped, NEW i \in DOMAIN imports, begun' = begun,
         DOMAIN imports' \subseteq DOMAIN imports, DOMAIN said' = DOMAIN said,
         \A k \in DOMAIN imports' : k # i => imports'[k] = imports[k] /\ said'[k] = said[k],
         i \in DOMAIN imports' => imports'[i] \in Import /\ said'[i] \in Seq(Reports(begun))
  PROVE  \A k \in DOMAIN imports' : Imported(k)'
BY DEF ImportsTyped, Imported

LEMMA StartsTyped ==
  ASSUME ImportsTyped, NEW i \in DOMAIN imports, ImportStarts(i)
  PROVE  ImportsTyped'
<1>0. RestTyped /\ mail \in Seq(Messages(begun)) /\ Imported(i) BY DEF ImportsTyped
<1>1. \A k \in DOMAIN imports' : Imported(k)'
  <2>1. imports'[i] \in Import BY <1>0 DEF ImportStarts, Imported, Import
  <2> QED BY <1>0, <2>1, OneImportTyped DEF ImportStarts, Imported
<1>2. mail' \in Seq(Messages(begun)) /\ folders' \subseteq 0 .. begun
  <2>1. [kind |-> "folder", import |-> i, entries |-> {}, folders |-> {i}, done |-> {}]
          \in Messages(begun)
    BY <1>0 DEF Messages, Imported, RestTyped
  <2>2. i \in 0 .. begun /\ folders \subseteq 0 .. begun BY <1>0 DEF RestTyped, Imported
  <2>3. CASE "new" \in imports[i].into
    <3> DEFINE told == [kind |-> "folder", import |-> i, entries |-> {}, folders |-> {i},
                 done |-> {}]
    <3>1. mail' = Append(mail, told) /\ folders' = folders \cup {i} BY <2>3 DEF ImportStarts
    <3>2. told \in Messages(begun) BY <2>1
    <3> HIDE DEF told
    <3>3. mail' \in Seq(Messages(begun)) BY <1>0, <3>1, <3>2
    <3>4. folders' \subseteq 0 .. begun BY <2>2, <3>1
    <3> QED BY <3>3, <3>4
  <2>4. CASE "new" \notin imports[i].into BY <1>0, <2>2, <2>4 DEF ImportStarts
  <2> QED BY <2>3, <2>4
<1> QED BY <1>0, <1>1, <1>2 DEF ImportsTyped, RestTyped, Imported, ImportStarts

LEMMA FailsTyped ==
  ASSUME ImportsTyped, NEW i \in DOMAIN imports, ImportFails(i)
  PROVE  ImportsTyped'
<1>0. RestTyped /\ mail \in Seq(Messages(begun)) /\ Imported(i) BY DEF ImportsTyped
<1>1. \A k \in DOMAIN imports' : Imported(k)'
  <2>1. i \in DOMAIN imports' => imports'[i] \in Import
    BY <1>0, WithoutFacts DEF ImportFails, Imported, Import
  <2>2. said'[i] \in Seq(Reports(begun)) BY <1>0 DEF ImportFails, Imported
  <2>3. /\ begun' = begun /\ DOMAIN said' = DOMAIN said
        /\ imports' = [imports EXCEPT ![i].phase = "error"] \/ imports' = Without(i)
        /\ \A k \in DOMAIN said : k # i => said'[k] = said[k]
    BY DEF ImportFails
  <2>4. /\ DOMAIN imports' \subseteq DOMAIN imports
        /\ \A k \in DOMAIN imports' : k # i => imports'[k] = imports[k]
    BY <2>3, WithoutFacts
  <2>5. \A k \in DOMAIN imports' : k # i => said'[k] = said[k]
    BY <2>3, <2>4 DEF ImportsTyped, Imported
  <2> QED BY <2>1, <2>2, <2>3, <2>4, <2>5, OneImportTyped
<1> QED BY <1>0, <1>1 DEF ImportsTyped, RestTyped, Imported, ImportFails, libraryRows

LEMMA PreparesTyped ==
  ASSUME ImportsTyped, NEW i \in DOMAIN imports, ImportPrepares(i)
  PROVE  ImportsTyped'
<1>0. RestTyped /\ mail \in Seq(Messages(begun)) /\ Imported(i) BY DEF ImportsTyped
<1> DEFINE fresh == IF "mirror" \in imports[i].into THEN {Mirror} \ folders ELSE {}
<1>1. fresh \subseteq 0 .. begun /\ [entries |-> {}, folders |-> fresh] \in Reports(begun)
  BY <1>0 DEF Mirror, Reports, RestTyped
<1>2. /\ folders' = folders \cup fresh
      /\ said' = [said EXCEPT ![i] = Append(@, [entries |-> {}, folders |-> fresh])]
  BY DEF ImportPrepares, Said
<1>3. \A k \in DOMAIN imports' : Imported(k)'
  <2>1. imports'[i] \in Import BY <1>0 DEF ImportPrepares, Imported, Import
  <2>2. said'[i] \in Seq(Reports(begun)) BY <1>0, <1>1, <1>2 DEF Imported
  <2>3. begun' = begun /\ DOMAIN said' = DOMAIN said /\ DOMAIN imports' = DOMAIN imports
    BY <1>2 DEF ImportPrepares
  <2>4. \A k \in DOMAIN imports' : k # i => imports'[k] = imports[k] /\ said'[k] = said[k]
    BY <1>2, <2>3 DEF ImportPrepares, Imported
  <2> QED BY <2>1, <2>2, <2>3, <2>4, OneImportTyped
<1>4. folders' \subseteq 0 .. begun BY <1>0, <1>1, <1>2 DEF RestTyped
<1>5. under' \in {TopLevel} \cup 1 .. begun BY <1>0 DEF ImportPrepares, RestTyped, Imported
<1> QED BY <1>0, <1>3, <1>4, <1>5 DEF ImportsTyped, RestTyped, Imported, ImportPrepares

LEMMA PdfTyped ==
  ASSUME ImportsTyped, NEW i \in DOMAIN imports, NEW p \in Pdf, ImportPdf(i, p)
  PROVE  ImportsTyped'
<1>0. RestTyped /\ mail \in Seq(Messages(begun)) /\ Imported(i) BY DEF ImportsTyped
<1>1. PICK written, reported \in BOOLEAN :
        /\ IF written THEN files' = files \cup {p} /\ rows' = [rows EXCEPT ![p] = "own"]
           ELSE UNCHANGED <<files, rows>>
        /\ imports' = [imports EXCEPT ![i].todo = @ \ {p},
                                      ![i].done = IF reported THEN @ \cup {p} ELSE @]
        /\ Said(i, [entries |-> IF reported THEN {<<p, rows[p] # "own">>} ELSE {},
                    folders |-> {}])
  BY DEF ImportPdf
<1>2. [entries |-> IF reported THEN {<<p, rows[p] # "own">>} ELSE {}, folders |-> {}]
        \in Reports(begun)
  <2> DEFINE b == rows[p] # "own"
  <2>1. b \in BOOLEAN BY Zenon
  <2> HIDE DEF b
  <2>2. {<<p, b>>} \subseteq Pdf \X BOOLEAN BY <2>1
  <2>3. [entries |-> IF reported THEN {<<p, b>>} ELSE {}, folders |-> {}] \in Reports(begun)
    BY <2>2 DEF Reports
  <2> QED BY <2>3 DEF b
<1>3. \A k \in DOMAIN imports' : Imported(k)'
  <2>1. imports'[i] \in Import BY <1>0, <1>1 DEF Imported, Import
  <2>2. said'[i] \in Seq(Reports(begun)) BY <1>0, <1>1, <1>2 DEF Imported, Said
  <2>3. begun' = begun /\ DOMAIN said' = DOMAIN said /\ DOMAIN imports' = DOMAIN imports
    BY <1>1 DEF ImportPdf, Said
  <2>4. \A k \in DOMAIN imports' : k # i => imports'[k] = imports[k] /\ said'[k] = said[k]
    BY <1>1, <2>3 DEF Said, Imported
  <2> QED BY <2>1, <2>2, <2>3, <2>4, OneImportTyped
<1>4. rows' \in [Pdf -> Place] /\ files' \subseteq Pdf BY <1>0, <1>1 DEF RestTyped, Place
<1> QED BY <1>0, <1>3, <1>4 DEF ImportsTyped, RestTyped, Imported, ImportPdf

LEMMA EndsTyped ==
  ASSUME ImportsTyped, NEW i \in DOMAIN imports, ImportEnds(i)
  PROVE  ImportsTyped'
<1>0. RestTyped /\ mail \in Seq(Messages(begun)) /\ Imported(i) BY DEF ImportsTyped
<1>1. \A k \in DOMAIN imports' : Imported(k)'
  <2>1. i \in DOMAIN imports' => imports'[i] \in Import
    BY <1>0, WithoutFacts DEF ImportEnds, Imported, Import
  <2> QED BY <1>0, <2>1, OneImportTyped, WithoutFacts DEF ImportEnds, Imported
<1> QED BY <1>0, <1>1 DEF ImportsTyped, RestTyped, Imported, ImportEnds, libraryRows

LEMMA ReportsTyped ==
  ASSUME ImportsTyped, NEW i \in DOMAIN imports, StreamReports(i)
  PROVE  ImportsTyped'
<1>0. RestTyped /\ mail \in Seq(Messages(begun)) /\ Imported(i) BY DEF ImportsTyped
<1>1. said[i] \in Seq(Reports(begun)) /\ said[i] # <<>> BY <1>0 DEF Imported, StreamReports
<1>2. Head(said[i]) \in Reports(begun) /\ Tail(said[i]) \in Seq(Reports(begun)) BY <1>1
<1> DEFINE report == Head(said[i])
           told == [kind |-> "progress", import |-> i, entries |-> report.entries,
                    folders |-> report.folders, done |-> {}]
<1>3. told \in Messages(begun) BY <1>0, <1>2 DEF Messages, Reports, Imported
<1>4. mail' = Append(mail, told) BY DEF StreamReports
<1>5. \A k \in DOMAIN imports' : Imported(k)'
  <2>1. said'[i] \in Seq(Reports(begun)) BY <1>0, <1>2 DEF StreamReports, Imported
  <2> QED BY <1>0, <2>1, OneImportTyped DEF StreamReports, Imported
<1>6. mail' \in Seq(Messages(begun)) BY <1>0, <1>3, <1>4
<1> QED BY <1>0, <1>5, <1>6 DEF ImportsTyped, RestTyped, Imported, StreamReports, libraryRows

LEMMA StreamEndsTyped ==
  ASSUME ImportsTyped, NEW i \in DOMAIN imports, StreamEnds(i)
  PROVE  ImportsTyped'
<1>0. RestTyped /\ mail \in Seq(Messages(begun)) /\ Imported(i) BY DEF ImportsTyped
<1> DEFINE told == [kind |-> imports[i].phase, import |-> i, entries |-> {},
                    folders |-> FoldersOf(i), done |-> imports[i].done]
<1>1. FoldersOf(i) \subseteq 0 .. begun BY <1>0 DEF FoldersOf, Mirror, Imported, RestTyped
<1>2. told \in Messages(begun) BY <1>0, <1>1 DEF Messages, Imported, Import, StreamEnds
<1>3. mail' = Append(mail, told) BY DEF StreamEnds
<1>4. \A k \in DOMAIN imports' : Imported(k)'
  <2>1. /\ begun' = begun /\ DOMAIN said' = DOMAIN said /\ imports' = Without(i)
        /\ \A k \in DOMAIN said : k # i => said'[k] = said[k]
    BY DEF StreamEnds
  <2>2. /\ DOMAIN imports' \subseteq DOMAIN imports /\ i \notin DOMAIN imports'
        /\ \A k \in DOMAIN imports' : imports'[k] = imports[k]
    BY <2>1, WithoutFacts
  <2>3. \A k \in DOMAIN imports' : k # i => said'[k] = said[k]
    BY <2>1, <2>2 DEF ImportsTyped, Imported
  <2> QED BY <2>1, <2>2, <2>3, OneImportTyped
<1>5. mail' \in Seq(Messages(begun)) BY <1>0, <1>2, <1>3
<1>6. undo' \in Reports(begun) BY <1>0 DEF StreamEnds, Nothing, Reports, RestTyped
<1> QED BY <1>0, <1>4, <1>5, <1>6 DEF ImportsTyped, RestTyped, Imported, StreamEnds, libraryRows

(* What a message tells joins what is shown. *)
LEMMA MessageIs ==
  ASSUME mail \in Seq(Messages(begun)), mail # <<>>
  PROVE  Head(mail) \in Messages(begun) /\ Tail(mail) \in Seq(Messages(begun))
OBVIOUS

LEMMA ProgressTold ==
  ASSUME ImportsTyped, RaindropImportProgressUpdated
  PROVE  \E told \in Reports(begun) :
           /\ told.entries = bar.entries \cup
                 {e \in Head(mail).entries : e[1] \notin {x[1] : x \in bar.entries}}
           /\ told.folders = bar.folders \cup Head(mail).folders
           /\ bar' = [shown |-> TRUE, handle |-> bar.handle, entries |-> told.entries,
                      folders |-> told.folders]
           /\ undo' = IF told = Nothing THEN undo ELSE told
<1>1. RestTyped /\ Head(mail) \in Messages(begun)
  BY MessageIs DEF ImportsTyped, RaindropImportProgressUpdated, Hears
<1> DEFINE known == {x[1] : x \in bar.entries}
           all == [entries |-> bar.entries \cup {e \in Head(mail).entries : e[1] \notin known},
                   folders |-> bar.folders \cup Head(mail).folders]
<1>2. all \in Reports(begun) BY <1>1 DEF Reports, Messages, RestTyped
<1>3. bar' = [bar EXCEPT !.shown = TRUE, !.entries = all.entries, !.folders = all.folders]
  BY DEF RaindropImportProgressUpdated
<1>4. undo' = IF all = Nothing THEN undo ELSE all BY DEF RaindropImportProgressUpdated
<1>5. bar' = [shown |-> TRUE, handle |-> bar.handle, entries |-> all.entries,
        folders |-> all.folders]
  BY <1>1, <1>3 DEF RestTyped
<1> QED BY <1>2, <1>4, <1>5

LEMMA ToldTyped ==
  ASSUME ImportsTyped, RaindropImportProgressUpdated
  PROVE  ImportsTyped'
<1>0. RestTyped /\ mail' \in Seq(Messages(begun)) /\ \A i \in DOMAIN imports : Imported(i)
  BY MessageIs DEF ImportsTyped, RaindropImportProgressUpdated, Hears
<1>1. PICK told \in Reports(begun) :
        /\ bar' = [shown |-> TRUE, handle |-> bar.handle, entries |-> told.entries,
                   folders |-> told.folders]
        /\ undo' = IF told = Nothing THEN undo ELSE told
  BY ProgressTold
<1>2. undo' \in Reports(begun) BY <1>0, <1>1 DEF RestTyped
<1>3. bar' \in [shown : BOOLEAN, handle : 0 .. begun, entries : SUBSET (Pdf \X BOOLEAN),
                folders : SUBSET (0 .. begun)]
  BY <1>0, <1>1 DEF RestTyped, Reports
<1> QED BY <1>0, <1>2, <1>3
         DEF ImportsTyped, RestTyped, Imported, RaindropImportProgressUpdated, libraryRows

LEMMA BarGone ==
  ASSUME RestTyped
  PROVE  NoBar \in [shown : BOOLEAN, handle : 0 .. begun, entries : SUBSET (Pdf \X BOOLEAN),
                    folders : SUBSET (0 .. begun)]
BY DEF NoBar, RestTyped

LEMMA MessagesTyped ==
  ASSUME ImportsTyped,
         \/ RaindropImportCreatedFolder \/ RaindropImportFinished \/ RaindropImportFailed
         \/ RaindropImportRollbackFinished \/ PendingRaindropRollbackChecked
  PROVE  ImportsTyped'
<1>0. RestTyped /\ mail \in Seq(Messages(begun)) /\ \A i \in DOMAIN imports : Imported(i)
  BY DEF ImportsTyped
<1>1. CASE RaindropImportCreatedFolder
  <2>1. Head(mail) \in Messages(begun) /\ mail' \in Seq(Messages(begun))
    BY <1>0, <1>1, MessageIs DEF RaindropImportCreatedFolder, Hears
  <2>2. bar' \in [shown : BOOLEAN, handle : 0 .. begun, entries : SUBSET (Pdf \X BOOLEAN),
                  folders : SUBSET (0 .. begun)]
    BY <1>0, <1>1, <2>1 DEF RaindropImportCreatedFolder, RestTyped, Messages
  <2> QED BY <1>0, <1>1, <2>1, <2>2
           DEF ImportsTyped, RestTyped, Imported, RaindropImportCreatedFolder, libraryRows
<1>2. CASE RaindropImportFinished
  <2>1. Head(mail) \in Messages(begun) /\ mail' \in Seq(Messages(begun))
    BY <1>0, <1>2, MessageIs DEF RaindropImportFinished, Hears
  <2>2. bar' \in [shown : BOOLEAN, handle : 0 .. begun, entries : SUBSET (Pdf \X BOOLEAN),
                  folders : SUBSET (0 .. begun)]
    BY <1>0, <1>2, BarGone DEF RaindropImportFinished
  <2>3. undo' \in Reports(begun) BY <1>2 DEF RaindropImportFinished, Nothing, Reports
  <2>4. settled' \in [pdfs : SUBSET Pdf, folders : SUBSET (0 .. begun)]
    BY <1>0, <1>2, <2>1 DEF RaindropImportFinished, RestTyped, Messages
  <2> QED BY <1>0, <1>2, <2>1, <2>2, <2>3, <2>4
           DEF ImportsTyped, RestTyped, Imported, RaindropImportFinished, libraryRows
<1>3. CASE RaindropImportFailed \/ RaindropImportRollbackFinished
  <2>1. mail' \in Seq(Messages(begun))
    BY <1>0, <1>3, MessageIs DEF RaindropImportFailed, RaindropImportRollbackFinished, Hears
  <2>2. bar' \in [shown : BOOLEAN, handle : 0 .. begun, entries : SUBSET (Pdf \X BOOLEAN),
                  folders : SUBSET (0 .. begun)]
    BY <1>0, <1>3, BarGone DEF RaindropImportFailed, RaindropImportRollbackFinished
  <2> QED BY <1>0, <1>3, <2>1, <2>2
           DEF ImportsTyped, RestTyped, Imported, RaindropImportFailed,
             RaindropImportRollbackFinished, libraryRows
<1>4. CASE PendingRaindropRollbackChecked
  <2>1. rollback' \in [stage : {"none", "entries", "folders", "end"},
                       entries : SUBSET (Pdf \X BOOLEAN), folders : SUBSET (0 .. begun),
                       clean : SUBSET Pdf]
    BY <1>0, <1>4 DEF PendingRaindropRollbackChecked, RollbackOf, RestTyped, Reports
  <2> QED BY <1>0, <1>4, <2>1
           DEF ImportsTyped, RestTyped, Imported, PendingRaindropRollbackChecked, libraryRows
<1> QED BY <1>1, <1>2, <1>3, <1>4

LEMMA RollbackTyped ==
  ASSUME ImportsTyped,
         RollbackEntries \/ RollbackFolders \/ RollbackEnds \/ \E c \in cleaners : CleanUp(c)
  PROVE  ImportsTyped'
<1>0. RestTyped /\ mail \in Seq(Messages(begun)) /\ \A i \in DOMAIN imports : Imported(i)
  BY DEF ImportsTyped
<1> DEFINE Told(r) == r \in [stage : {"none", "entries", "folders", "end"},
                             entries : SUBSET (Pdf \X BOOLEAN), folders : SUBSET (0 .. begun),
                             clean : SUBSET Pdf]
<1>1. Told(rollback) BY <1>0 DEF RestTyped
<1>2. [entries |-> rollback.entries, folders |-> rollback.folders] \in Reports(begun)
  BY <1>1 DEF Reports
<1>3. CASE RollbackEntries
  <2>1. rows' \in [Pdf -> Place] BY <1>0, <1>3 DEF RollbackEntries, RestTyped, Place
  <2>2. \A e \in rollback.entries : e[1] \in Pdf BY <1>1
  <2>3. Told(rollback')
    <3> DEFINE clean == {e[1] : e \in rollback.entries}
    <3>1. clean \subseteq Pdf BY <2>2
    <3>2. \/ rollback' = [rollback EXCEPT !.stage = "folders", !.entries = {}, !.clean = clean]
          \/ rollback' = [rollback EXCEPT !.stage = "folders"]
      BY <1>3 DEF RollbackEntries
    <3> HIDE DEF clean
    <3> QED BY <1>1, <3>1, <3>2
  <2> QED BY <1>0, <1>2, <1>3, <2>1, <2>3 DEF ImportsTyped, RestTyped, Imported, RollbackEntries
<1>4. CASE RollbackFolders
  <2>1. folders' \subseteq 0 .. begun BY <1>0, <1>4 DEF RollbackFolders, FoldersLeft, RestTyped
  <2>2. Told(rollback')
    <3>1. PICK kept \in SUBSET rollback.folders :
            rollback' = [rollback EXCEPT !.stage = "end", !.folders = kept]
      BY <1>4 DEF RollbackFolders
    <3>2. kept \subseteq 0 .. begun BY <1>1, <3>1
    <3> QED BY <1>1, <3>1, <3>2
  <2> QED BY <1>0, <1>4, <2>1, <2>2 DEF ImportsTyped, RestTyped, Imported, RollbackFolders
<1>5. CASE RollbackEnds
  <2>1. [kind |-> "undone", import |-> 0, entries |-> {}, folders |-> {}, done |-> {}]
          \in Messages(begun)
    BY DEF Messages
  <2>2. mail' \in Seq(Messages(begun)) BY <1>0, <1>5, <2>1 DEF RollbackEnds
  <2>3. Told(rollback') BY <1>5 DEF RollbackEnds, NoRollback
  <2>4. undo' \in Reports(begun) BY <1>0, <1>2, <1>5 DEF RollbackEnds, RestTyped, Nothing, Reports
  <2>5. cleaners' \subseteq [pdfs : SUBSET Pdf, clear : BOOLEAN]
    <3> DEFINE left == [entries |-> rollback.entries, folders |-> rollback.folders]
               b == left = Nothing
    <3>1. b \in BOOLEAN BY Zenon
    <3>2. \/ cleaners' = cleaners
          \/ cleaners' = cleaners \cup {[pdfs |-> rollback.clean, clear |-> b]}
      BY <1>5 DEF RollbackEnds
    <3>3. cleaners \subseteq [pdfs : SUBSET Pdf, clear : BOOLEAN] /\ rollback.clean \subseteq Pdf
      BY <1>0, <1>1 DEF RestTyped
    <3> HIDE DEF b
    <3> QED BY <3>1, <3>2, <3>3
  <2> QED BY <1>0, <1>5, <2>2, <2>3, <2>4, <2>5
           DEF ImportsTyped, RestTyped, Imported, RollbackEnds, libraryRows
<1>6. ASSUME NEW c \in cleaners, CleanUp(c) PROVE ImportsTyped'
  <2>1. undo' \in Reports(begun) BY <1>0, <1>6 DEF CleanUp, RestTyped, Nothing, Reports
  <2> QED BY <1>0, <1>6, <2>1 DEF ImportsTyped, RestTyped, Imported, CleanUp
<1> QED BY <1>3, <1>4, <1>5, <1>6

LEMMA CancelTyped ==
  ASSUME ImportsTyped, CancelRaindropImport
  PROVE  ImportsTyped'
<1>0. RestTyped /\ mail \in Seq(Messages(begun)) /\ \A i \in DOMAIN imports : Imported(i)
  BY DEF ImportsTyped
<1>1. bar' \in [shown : BOOLEAN, handle : 0 .. begun, entries : SUBSET (Pdf \X BOOLEAN),
                folders : SUBSET (0 .. begun)]
  BY <1>0, BarGone DEF CancelRaindropImport
<1>2. mail' \in Seq(Messages(begun))
  <2>1. PICK n \in 0 .. Len(mail) : mail' = SubSeq(mail, 1, n) BY DEF CancelRaindropImport
  <2> QED BY <1>0, <2>1
<1>3. orders' \in 0 .. MaxOrders[occurs] BY <1>0, OrderedFacts DEF CancelRaindropImport
<1>4. [entries |-> bar.entries, folders |-> bar.folders] \in Reports(begun)
  BY <1>0 DEF Reports, RestTyped
<1>5. undo' \in Reports(begun) BY <1>0, <1>4 DEF CancelRaindropImport, RestTyped
<1>6. rollback' \in [stage : {"none", "entries", "folders", "end"},
                     entries : SUBSET (Pdf \X BOOLEAN), folders : SUBSET (0 .. begun),
                     clean : SUBSET Pdf]
  BY <1>0 DEF CancelRaindropImport, RollbackOf, RestTyped
<1>7. \A i \in DOMAIN imports' : Imported(i)'
  <2> DEFINE h == bar.handle
  <2>1. CASE h \notin DOMAIN imports
    BY <1>0, <2>1 DEF CancelRaindropImport, Imported
  <2>2. CASE h \in DOMAIN imports
    <3>1. /\ imports' = [imports EXCEPT ![h].heard = FALSE] \/ imports' = Without(h)
          /\ said' = [said EXCEPT ![h] = <<>>] /\ begun' = begun
      BY <2>2 DEF CancelRaindropImport
    <3>2. /\ DOMAIN imports' \subseteq DOMAIN imports
          /\ \A k \in DOMAIN imports' : k # h => imports'[k] = imports[k]
      BY <3>1, WithoutFacts
    <3>3. h \in DOMAIN imports' => imports'[h] \in Import
      <4>1. imports[h] \in Import BY <1>0, <2>2 DEF Imported
      <4>2. CASE imports' = [imports EXCEPT ![h].heard = FALSE] BY <2>2, <4>1, <4>2 DEF Import
      <4> QED BY <3>1, <4>2, WithoutFacts
    <3>4. \A k \in DOMAIN imports' : k # h => said'[k] = said[k]
      BY <1>0, <3>1, <3>2 DEF Imported
    <3>5. said'[h] \in Seq(Reports(begun)) BY <1>0, <2>2, <3>1 DEF Imported
    <3> QED BY <2>2, <3>1, <3>2, <3>3, <3>4, <3>5, OneImportTyped
  <2> QED BY <2>1, <2>2
<1> QED BY <1>0, <1>1, <1>2, <1>3, <1>5, <1>6, <1>7
         DEF ImportsTyped, RestTyped, Imported, CancelRaindropImport, libraryRows

LEMMA CrashTyped ==
  ASSUME ImportsTyped, Crash
  PROVE  ImportsTyped'
<1>0. RestTyped BY DEF ImportsTyped
<1>1. DOMAIN imports' = {} /\ mail' \in Seq(Messages(begun)) BY DEF Crash
<1>2. orders' \in 0 .. MaxOrders[occurs] BY <1>0, OrderedFacts DEF Crash
<1>3. bar' \in [shown : BOOLEAN, handle : 0 .. begun, entries : SUBSET (Pdf \X BOOLEAN),
                folders : SUBSET (0 .. begun)]
  BY <1>0, BarGone DEF Crash
<1>4. rollback' \in [stage : {"none", "entries", "folders", "end"},
                     entries : SUBSET (Pdf \X BOOLEAN), folders : SUBSET (0 .. begun),
                     clean : SUBSET Pdf]
  BY DEF Crash, NoRollback
<1> QED BY <1>0, <1>1, <1>2, <1>3, <1>4 DEF ImportsTyped, RestTyped, Imported, Crash, libraryRows

LEMMA ImportsTypedStep ==
  ASSUME ImportsTyped, RaindropNext
  PROVE  ImportsTyped'
BY BeginTyped, StartsTyped, FailsTyped, PreparesTyped, PdfTyped, EndsTyped, ReportsTyped,
   StreamEndsTyped, ToldTyped, MessagesTyped, RollbackTyped, CancelTyped, CrashTyped
   DEF RaindropNext, RaindropUser, RaindropTask, RaindropMessage
-----------------------------------------------------------------------------
LEMMA NothingTold == SparesSettled(Nothing) /\ SparesSettled(NoBar) /\ SparesSettled(NoRollback)
BY DEF SparesSettled, Inserted, Nothing, NoBar, NoRollback

LEMMA TailFacts ==
  ASSUME NEW S, NEW s \in Seq(S), s # <<>>
  PROVE  /\ Len(Tail(s)) = Len(s) - 1 /\ Head(s) = s[1] /\ 1 \in DOMAIN s
         /\ \A k \in DOMAIN Tail(s) : k + 1 \in DOMAIN s /\ Tail(s)[k] = s[k + 1]
OBVIOUS

(* While an import goes on, nothing has finished that is not settled. *)
LEMMA WhileItGoesOn ==
  ASSUME ImportsTyped, ImportsInTurn, RaindropHeld, NEW i \in DOMAIN imports
  PROVE  /\ Turn(i) /\ i = begun /\ checked /\ i \notin settled.folders /\ i \in 1 .. begun
         /\ \A k \in DOMAIN mail : mail[k].kind # "ok"
         /\ \A j \in DOMAIN imports : j = i
         /\ {"new", "mirror"} \subseteq occurs => settled.folders = {}
BY DEF ImportsTyped, RestTyped, Imported, RaindropHeld, TurnHeld, Turn, Done, AtRest, FoldersHeld

LEMMA BeginHeld ==
  ASSUME ImportsTyped, ImportsInTurn, RaindropHeld, ImportSelectedRaindropPdfs
  PROVE  RaindropHeld'
<1>0. "race" \notin occurs /\ "late" \notin occurs BY DEF ImportsInTurn
<1>1. DOMAIN imports = {} /\ mail = <<>> /\ rollback = NoRollback /\ checked
  BY <1>0 DEF ImportSelectedRaindropPdfs, AllQuiet
<1>2. PICK todo \in (SUBSET Pdf) \ {{}}, into \in SUBSET ({"new", "mirror"} \cap occurs) :
        imports' = With(imports, begun', [phase |-> "begin", heard |-> TRUE, into |-> into,
                                          todo |-> todo, done |-> {}])
  BY DEF ImportSelectedRaindropPdfs
<1>3. begun \in Nat /\ begun' = begun + 1 /\ settled.folders \subseteq 0 .. begun
  BY DEF ImportsTyped, RestTyped, Imported, ImportSelectedRaindropPdfs
<1>4. DOMAIN imports' = {begun'} /\ imports'[begun'] =
        [phase |-> "begin", heard |-> TRUE, into |-> into, todo |-> todo, done |-> {}]
  BY <1>1, <1>2 DEF With
<1>5. /\ said' = With(said, begun', <<>>)
      /\ bar' = [shown |-> TRUE, handle |-> begun', entries |-> {}, folders |-> {}]
  BY DEF ImportSelectedRaindropPdfs
<1>6. UNCHANGED <<rows, folders, under, settled, occurs, undo, mail, rollback, checked>>
  BY DEF ImportSelectedRaindropPdfs, libraryRows
<1>7. LibraryHeld' BY <1>6 DEF RaindropHeld, LibraryHeld, Own
<1>8. ToldHeld'
  <2>1. said'[begun'] = <<>> BY <1>5 DEF With
  <2>2. SparesSettled(bar)' BY <1>5 DEF SparesSettled, Inserted
  <2>3. (SparesSettled(undo) /\ SparesSettled(rollback))'
    BY <1>6 DEF RaindropHeld, ToldHeld, SparesSettled
  <2> QED BY <1>1, <1>4, <1>6, <2>1, <2>2, <2>3 DEF ToldHeld
<1>9. TurnHeld'
  <2>1. begun' \notin settled.folders BY <1>3
  <2>2. DOMAIN mail' = {} BY <1>1, <1>6
  <2>3. begun' \in DOMAIN imports' /\ imports'[begun'].into \subseteq occurs BY <1>4
  <2>4. /\ imports'[begun'].phase = "begin" /\ imports'[begun'].done = {}
        /\ bar'.shown /\ bar'.handle = begun' /\ rollback' = NoRollback
        /\ begun' \notin settled'.folders /\ imports'[begun'].into \subseteq occurs'
    BY <1>1, <1>4, <1>5, <1>6, <2>1, <2>3
  <2>5. \A j \in DOMAIN imports' : Turn(j)' BY <1>4, <2>2, <2>4 DEF Turn
  <2> QED BY <1>1, <1>4, <1>6, <2>2, <2>5 DEF TurnHeld, Turn, Done, AtRest
<1>10. FoldersHeld'
  <2>1. "again" \in occurs \/ begun = 0 BY DEF ImportSelectedRaindropPdfs
  <2>2. {"new", "mirror"} \subseteq occurs => "again" \notin occurs BY DEF ImportsInTurn
  <2>3. {"new", "mirror"} \subseteq occurs => settled.folders = {}
    BY <1>3, <2>1, <2>2 DEF RaindropHeld, FoldersHeld
  <2>4. "again" \notin occurs => begun' <= 1 BY <1>3, <2>1
  <2> QED BY <1>6, <2>3, <2>4 DEF RaindropHeld, FoldersHeld
<1> QED BY <1>7, <1>8, <1>9, <1>10 DEF RaindropHeld

(* An import that goes on leaves what was told as it was, and tells more of its own. *)
LEMMA ImportHeld ==
  ASSUME ImportsTyped, ImportsInTurn, RaindropHeld, NEW i \in DOMAIN imports,
         DOMAIN imports' \subseteq {i}, Own \subseteq Own', \A p \in Pdf : rows'[p] # "other",
         folders \subseteq folders',
         UNCHANGED <<undo, bar, rollback, settled, checked, begun, occurs>>,
         ~({"new", "mirror"} \subseteq occurs) => under' = under,
         mail' \in Seq(Messages(begun)),
         \A k \in DOMAIN mail' : \/ k \in DOMAIN mail /\ mail'[k] = mail[k]
                                 \/ Telling(mail'[k]) /\ SparesSettled(mail'[k]),
         i \in DOMAIN imports' =>
           /\ imports'[i].into = imports[i].into /\ imports'[i].heard = imports[i].heard
           /\ imports'[i].phase \in {"ok", "error"} => imports[i].heard
           /\ imports[i].heard => /\ imports'[i].done \subseteq Own'
                                  /\ \A k \in DOMAIN said'[i] : SparesSettled(said'[i][k])
  PROVE  RaindropHeld'
<1>1. Turn(i) /\ \A k \in DOMAIN mail : mail[k].kind # "ok" BY WhileItGoesOn
<1>2. checked BY WhileItGoesOn
<1>3. LibraryHeld' BY DEF RaindropHeld, LibraryHeld
<1>5. ToldHeld'
  <2>1. (SparesSettled(undo) /\ SparesSettled(bar) /\ SparesSettled(rollback))'
    BY DEF RaindropHeld, ToldHeld, SparesSettled
  <2>2. \A k \in DOMAIN mail' : Telling(mail'[k]) => SparesSettled(mail[k])'
    BY DEF RaindropHeld, ToldHeld, SparesSettled
  <2>3. \A j \in DOMAIN imports' : imports'[j].heard =>
          \A k \in DOMAIN said'[j] : SparesSettled(said[j][k])'
    BY DEF SparesSettled
  <2> QED BY <2>1, <2>2, <2>3 DEF ToldHeld, Telling
<1>6. \A j \in DOMAIN imports' : Turn(j)' BY <1>1 DEF Turn, Telling
<1>7. \A k \in DOMAIN mail' : Done(k)' BY <1>1 DEF Done, Telling
<1>8. FoldersHeld'
  <2>1. {"new", "mirror"} \subseteq occurs => settled.folders = {} BY WhileItGoesOn
  <2> QED BY <2>1 DEF RaindropHeld, FoldersHeld
<1> QED BY <1>2, <1>3, <1>5, <1>6, <1>7, <1>8 DEF RaindropHeld, TurnHeld, Turn, Done, AtRest

LEMMA StartsHeld ==
  ASSUME ImportsTyped, ImportsInTurn, RaindropHeld, NEW i \in DOMAIN imports, ImportStarts(i)
  PROVE  RaindropHeld'
<1>0. RestTyped /\ mail \in Seq(Messages(begun)) /\ Imported(i) /\ ImportsTyped'
  BY StartsTyped DEF ImportsTyped
<1>1. i \notin settled.folders BY WhileItGoesOn
<1>2. imports' = [imports EXCEPT ![i].phase = "prepare"] BY DEF ImportStarts
<1>3. imports[i] \in Import BY <1>0 DEF Imported
<1>4. DOMAIN imports' \subseteq {i} BY <1>2, WhileItGoesOn
<1>5. /\ imports'[i].into = imports[i].into /\ imports'[i].heard = imports[i].heard
      /\ imports'[i].phase = "prepare" /\ imports'[i].done = imports[i].done
  BY <1>2, <1>3 DEF Import
<1>6. UNCHANGED <<rows, under, undo, bar, said, rollback, settled, checked, begun, occurs>>
  BY DEF ImportStarts
<1>7. folders \subseteq folders' BY DEF ImportStarts
<1>8. mail' \in Seq(Messages(begun)) BY <1>0, <1>6 DEF ImportsTyped, RestTyped, Imported
<1>9. \A k \in DOMAIN mail' : \/ k \in DOMAIN mail /\ mail'[k] = mail[k]
                              \/ Telling(mail'[k]) /\ SparesSettled(mail'[k])
  <2> DEFINE told == [kind |-> "folder", import |-> i, entries |-> {}, folders |-> {i},
               done |-> {}]
  <2>1. Telling(told) /\ SparesSettled(told) BY <1>1 DEF Telling, SparesSettled, Inserted
  <2>2. mail' = mail \/ mail' = Append(mail, told) BY DEF ImportStarts
  <2> HIDE DEF told
  <2> QED BY <1>0, <2>1, <2>2
<1>10. imports[i].heard => /\ imports'[i].done \subseteq Own'
                           /\ \A k \in DOMAIN said'[i] : SparesSettled(said'[i][k])
  BY <1>5, <1>6, WhileItGoesOn DEF RaindropHeld, ToldHeld, Turn, Own
<1> QED
  BY <1>4, <1>5, <1>6, <1>7, <1>8, <1>9, <1>10, ImportHeld DEF RaindropHeld, LibraryHeld, Own

LEMMA FailsHeld ==
  ASSUME ImportsTyped, ImportsInTurn, RaindropHeld, NEW i \in DOMAIN imports, ImportFails(i)
  PROVE  RaindropHeld'
<1>0. RestTyped /\ mail \in Seq(Messages(begun)) /\ Imported(i) BY DEF ImportsTyped
<1>1. \/ imports[i].heard /\ imports' = [imports EXCEPT ![i].phase = "error"]
      \/ imports' = Without(i)
  BY DEF ImportFails
<1>2. DOMAIN imports' \subseteq {i} BY <1>1, WhileItGoesOn, WithoutFacts
<1>3. UNCHANGED <<rows, folders, under, undo, bar, mail, rollback, settled, checked, begun,
        occurs>>
  BY DEF ImportFails, libraryRows
<1>4. imports[i] \in Import BY <1>0 DEF Imported
<1>5. i \in DOMAIN imports' =>
        /\ imports'[i].into = imports[i].into /\ imports'[i].heard = imports[i].heard
        /\ imports[i].heard /\ imports'[i].done = imports[i].done
  <2>1. CASE imports[i].heard /\ imports' = [imports EXCEPT ![i].phase = "error"]
    <3>1. imports'[i] = [imports[i] EXCEPT !.phase = "error"] BY <2>1
    <3> QED BY <1>4, <2>1, <3>1 DEF Import
  <2>2. CASE imports' = Without(i) BY <2>2, WithoutFacts
  <2> QED BY <1>1, <2>1, <2>2
<1>6. imports[i].heard => imports[i].done \subseteq Own BY WhileItGoesOn DEF Turn
<1>7. said'[i] = <<>> BY <1>0 DEF ImportFails, Imported
<1>8. Own' = Own BY <1>3 DEF Own
<1>9. \A k \in DOMAIN said'[i] : SparesSettled(said'[i][k]) BY <1>7
<1> QED BY <1>0, <1>2, <1>3, <1>5, <1>6, <1>8, <1>9, ImportHeld DEF RaindropHeld, LibraryHeld

LEMMA PreparesHeld ==
  ASSUME ImportsTyped, ImportsInTurn, RaindropHeld, NEW i \in DOMAIN imports, ImportPrepares(i)
  PROVE  RaindropHeld'
<1>0. RestTyped /\ mail \in Seq(Messages(begun)) /\ Imported(i) BY DEF ImportsTyped
<1> DEFINE fresh == IF "mirror" \in imports[i].into THEN {Mirror} \ folders ELSE {}
           told == [entries |-> {}, folders |-> fresh]
<1>1. /\ imports' = [imports EXCEPT ![i].phase = "import"] /\ folders' = folders \cup fresh
      /\ said' = [said EXCEPT ![i] = Append(@, told)]
      /\ UNCHANGED <<rows, undo, bar, mail, rollback, settled, checked, begun, occurs>>
  BY DEF ImportPrepares, Said
<1>2. imports[i] \in Import /\ i \in DOMAIN said /\ said[i] \in Seq(Reports(begun))
  BY <1>0 DEF Imported
<1>3. SparesSettled(told) BY DEF RaindropHeld, LibraryHeld, SparesSettled, Inserted
<1>4. DOMAIN imports' \subseteq {i} BY <1>1, WhileItGoesOn
<1>5. /\ imports'[i].into = imports[i].into /\ imports'[i].heard = imports[i].heard
      /\ imports'[i].phase = "import" /\ imports'[i].done = imports[i].done
  BY <1>1, <1>2 DEF Import
<1>6. imports[i].heard => \A k \in DOMAIN said'[i] : SparesSettled(said'[i][k])
  <2>1. said'[i] = Append(said[i], told) BY <1>1, <1>2
  <2>2. imports[i].heard => \A k \in DOMAIN said[i] : SparesSettled(said[i][k])
    BY DEF RaindropHeld, ToldHeld
  <2> HIDE DEF told
  <2> QED BY <1>2, <1>3, <2>1, <2>2
<1>7. imports[i].heard => imports[i].done \subseteq Own BY WhileItGoesOn DEF Turn
<1>8. ~({"new", "mirror"} \subseteq occurs) => under' = under
  <2>1. imports[i].into \subseteq occurs BY WhileItGoesOn DEF Turn
  <2>2. under = TopLevel \/ {"new", "mirror"} \subseteq occurs BY DEF RaindropHeld, FoldersHeld
  <2> QED BY <2>1, <2>2 DEF ImportPrepares
<1>9. Own' = Own BY <1>1 DEF Own
<1> QED
  BY <1>0, <1>1, <1>4, <1>5, <1>6, <1>7, <1>8, <1>9, ImportHeld DEF RaindropHeld, LibraryHeld

LEMMA PdfHeld ==
  ASSUME ImportsTyped, ImportsInTurn, RaindropHeld, NEW i \in DOMAIN imports, NEW p \in Pdf,
         ImportPdf(i, p)
  PROVE  RaindropHeld'
<1>0. RestTyped /\ mail \in Seq(Messages(begun)) /\ Imported(i) BY DEF ImportsTyped
<1> DEFINE b == rows[p] # "own"
<1>1. PICK written, reported \in BOOLEAN :
        /\ reported => written
        /\ IF written THEN files' = files \cup {p} /\ rows' = [rows EXCEPT ![p] = "own"]
           ELSE UNCHANGED <<files, rows>>
        /\ imports' = [imports EXCEPT ![i].todo = @ \ {p},
                                      ![i].done = IF reported THEN @ \cup {p} ELSE @]
        /\ Said(i, [entries |-> IF reported THEN {<<p, b>>} ELSE {}, folders |-> {}])
  BY DEF ImportPdf
<1>2. UNCHANGED <<folders, under, undo, bar, mail, rollback, settled, checked, begun, occurs>>
  BY DEF ImportPdf
<1>3. imports[i] \in Import /\ i \in DOMAIN said /\ said[i] \in Seq(Reports(begun))
  BY <1>0 DEF Imported
<1>4. imports[i].phase = "import" BY DEF ImportPdf
<1>5. DOMAIN imports' \subseteq {i} BY <1>1, WhileItGoesOn
<1>6. /\ imports'[i].into = imports[i].into /\ imports'[i].heard = imports[i].heard
      /\ imports'[i].phase = "import"
      /\ imports'[i].done = IF reported THEN imports[i].done \cup {p} ELSE imports[i].done
  BY <1>1, <1>3, <1>4 DEF Import
<1>7. /\ Own \subseteq Own' /\ (reported => p \in Own')
      /\ \A q \in Pdf : rows'[q] # "other"
  BY <1>0, <1>1 DEF Own, RaindropHeld, LibraryHeld, RestTyped
<1>8. imports[i].heard => imports[i].done \subseteq Own BY WhileItGoesOn DEF Turn
<1> DEFINE told == [entries |-> IF reported THEN {<<p, b>>} ELSE {}, folders |-> {}]
<1>9. SparesSettled(told)
  <2>1. p \in settled.pdfs => ~b BY DEF RaindropHeld, LibraryHeld, Own
  <2>2. Inserted(told.entries) \subseteq {p} /\ (~b => Inserted(told.entries) = {})
    <3>1. b \in BOOLEAN BY Zenon
    <3> HIDE DEF b
    <3> QED BY <3>1 DEF Inserted
  <2> HIDE DEF b
  <2> QED BY <2>1, <2>2 DEF SparesSettled
<1>10. imports[i].heard => \A k \in DOMAIN said'[i] : SparesSettled(said'[i][k])
  <2>1. said'[i] = Append(said[i], told) BY <1>1, <1>3 DEF Said
  <2>2. imports[i].heard => \A k \in DOMAIN said[i] : SparesSettled(said[i][k])
    BY DEF RaindropHeld, ToldHeld
  <2> HIDE DEF told
  <2> QED BY <1>3, <1>9, <2>1, <2>2
<1>11. imports[i].heard => imports'[i].done \subseteq Own'
  <2>1. \/ imports'[i].done = imports[i].done
        \/ reported /\ imports'[i].done = imports[i].done \cup {p}
    BY <1>6
  <2> QED BY <1>7, <1>8, <2>1
<1>12. imports'[i].phase \notin {"ok", "error"} BY <1>6
<1>13. mail' \in Seq(Messages(begun)) BY <1>0, <1>2
<1> HIDE DEF b, told
<1> QED BY <1>2, <1>5, <1>6, <1>7, <1>10, <1>11, <1>12, <1>13, ImportHeld

LEMMA EndsHeld ==
  ASSUME ImportsTyped, ImportsInTurn, RaindropHeld, NEW i \in DOMAIN imports, ImportEnds(i)
  PROVE  RaindropHeld'
<1>0. RestTyped /\ mail \in Seq(Messages(begun)) /\ Imported(i) BY DEF ImportsTyped
<1>1. \/ imports[i].heard /\ imports' = [imports EXCEPT ![i].phase = "ok"]
      \/ imports' = Without(i)
  BY DEF ImportEnds
<1>2. DOMAIN imports' \subseteq {i} BY <1>1, WhileItGoesOn, WithoutFacts
<1>3. UNCHANGED <<rows, folders, under, undo, bar, said, mail, rollback, settled, checked,
        begun, occurs>>
  BY DEF ImportEnds, libraryRows
<1>4. imports[i] \in Import BY <1>0 DEF Imported
<1>5. i \in DOMAIN imports' =>
        /\ imports'[i].into = imports[i].into /\ imports'[i].heard = imports[i].heard
        /\ imports[i].heard /\ imports'[i].done = imports[i].done
  <2>1. CASE imports[i].heard /\ imports' = [imports EXCEPT ![i].phase = "ok"]
    <3>1. imports'[i] = [imports[i] EXCEPT !.phase = "ok"] BY <2>1
    <3> QED BY <1>4, <2>1, <3>1 DEF Import
  <2>2. CASE imports' = Without(i) BY <2>2, WithoutFacts
  <2> QED BY <1>1, <2>1, <2>2
<1>6. imports[i].heard =>
        imports[i].done \subseteq Own /\ \A k \in DOMAIN said[i] : SparesSettled(said[i][k])
  BY WhileItGoesOn DEF Turn, RaindropHeld, ToldHeld
<1>7. Own' = Own BY <1>3 DEF Own
<1> QED BY <1>0, <1>2, <1>3, <1>5, <1>6, <1>7, ImportHeld DEF RaindropHeld, LibraryHeld

LEMMA ReportsHeld ==
  ASSUME ImportsTyped, ImportsInTurn, RaindropHeld, NEW i \in DOMAIN imports, StreamReports(i)
  PROVE  RaindropHeld'
<1>0. RestTyped /\ mail \in Seq(Messages(begun)) /\ Imported(i) /\ ImportsTyped'
  BY ReportsTyped DEF ImportsTyped
<1>1. /\ imports[i].heard /\ said[i] # <<>> /\ said' = [said EXCEPT ![i] = Tail(@)]
      /\ UNCHANGED <<rows, folders, under, undo, bar, imports, rollback, settled, checked,
           begun, occurs>>
  BY DEF StreamReports, libraryRows
<1>2. i \in DOMAIN said /\ said[i] \in Seq(Reports(begun)) BY <1>0 DEF Imported
<1>3. \A k \in DOMAIN said[i] : SparesSettled(said[i][k]) BY <1>1 DEF RaindropHeld, ToldHeld
<1>4. /\ SparesSettled(Head(said[i]))
      /\ \A k \in DOMAIN said'[i] : SparesSettled(said'[i][k])
  <2>1. said'[i] = Tail(said[i]) BY <1>1, <1>2
  <2> QED BY <1>1, <1>2, <1>3, <2>1, TailFacts
<1> DEFINE report == Head(said[i])
           told == [kind |-> "progress", import |-> i, entries |-> report.entries,
                    folders |-> report.folders, done |-> {}]
<1>5. mail' = Append(mail, told) BY DEF StreamReports
<1>6. Telling(told) /\ SparesSettled(told) BY <1>4 DEF Telling, SparesSettled
<1>7. \A k \in DOMAIN mail' : \/ k \in DOMAIN mail /\ mail'[k] = mail[k]
                              \/ Telling(mail'[k]) /\ SparesSettled(mail'[k])
  <2> HIDE DEF told
  <2> QED BY <1>0, <1>5, <1>6
<1>8. mail' \in Seq(Messages(begun)) BY <1>0, <1>1 DEF ImportsTyped, RestTyped, Imported
<1>9. imports[i].done \subseteq Own /\ (imports[i].phase \in {"ok", "error"} => imports[i].heard)
  BY <1>1, WhileItGoesOn DEF Turn
<1>10. Own' = Own /\ DOMAIN imports' \subseteq {i} BY <1>1, WhileItGoesOn DEF Own
<1> QED BY <1>1, <1>4, <1>7, <1>8, <1>9, <1>10, ImportHeld DEF RaindropHeld, LibraryHeld

(* The import ends, and nothing of it is left but its result. *)
LEMMA StreamEndsHeld ==
  ASSUME ImportsTyped, ImportsInTurn, RaindropHeld, NEW i \in DOMAIN imports, StreamEnds(i)
  PROVE  RaindropHeld'
<1>0. RestTyped /\ mail \in Seq(Messages(begun)) /\ Imported(i) /\ ImportsTyped'
  BY StreamEndsTyped DEF ImportsTyped
<1>1. /\ imports[i].heard /\ imports' = Without(i)
      /\ UNCHANGED <<rows, folders, under, bar, rollback, settled, checked, begun, occurs>>
      /\ undo' = Nothing \/ undo' = undo
  BY DEF StreamEnds, libraryRows
<1> DEFINE told == [kind |-> imports[i].phase, import |-> i, entries |-> {},
                    folders |-> FoldersOf(i), done |-> imports[i].done]
<1>2. mail' = Append(mail, told) /\ imports[i].phase \in {"ok", "error"} BY DEF StreamEnds
<1>3. /\ rollback = NoRollback /\ imports[i].done \subseteq Own /\ checked
      /\ \A k \in DOMAIN mail : Telling(mail[k])
  BY <1>1, WhileItGoesOn DEF Turn
<1>4. DOMAIN imports' = {} BY <1>1, WhileItGoesOn, WithoutFacts
<1>5. begun # 0 /\ ({"new", "mirror"} \subseteq occurs => settled.folders = {})
  <2>1. i = begun /\ i \in 1 .. begun BY WhileItGoesOn
  <2> QED BY <2>1, WhileItGoesOn
<1>6. ~Telling(told) /\ told.done \subseteq Own BY <1>2, <1>3 DEF Telling
<1> HIDE DEF told
<1>7. \A k \in DOMAIN mail' : \/ k \in DOMAIN mail /\ mail'[k] = mail[k]
                              \/ k = Len(mail') /\ mail'[k] = told
  BY <1>0, <1>2
<1>8. Own' = Own BY <1>1 DEF Own
<1>9. LibraryHeld' BY <1>1, <1>8 DEF RaindropHeld, LibraryHeld
<1>10. ToldHeld'
  <2>1. (SparesSettled(undo) /\ SparesSettled(bar) /\ SparesSettled(rollback))'
    BY <1>1, NothingTold DEF RaindropHeld, ToldHeld, SparesSettled
  <2>2. \A k \in DOMAIN mail' : Telling(mail[k])' => SparesSettled(mail[k])'
    BY <1>1, <1>6, <1>7 DEF RaindropHeld, ToldHeld, SparesSettled, Telling
  <2> QED BY <1>4, <2>1, <2>2 DEF ToldHeld, Telling
<1>11. \A k \in DOMAIN mail' : Done(k)'
  <2> TAKE k \in DOMAIN mail'
  <2>1. CASE k \in DOMAIN mail /\ mail'[k] = mail[k] BY <1>3, <2>1 DEF Done, Telling
  <2>2. CASE k = Len(mail') /\ mail'[k] = told
    BY <1>1, <1>3, <1>4, <1>5, <1>6, <1>8, <2>2 DEF Done
  <2> QED BY <1>7, <2>1, <2>2
<1>12. FoldersHeld' BY <1>1, <1>5 DEF RaindropHeld, FoldersHeld
<1> QED
  BY <1>1, <1>3, <1>4, <1>9, <1>10, <1>11, <1>12 DEF RaindropHeld, TurnHeld, Turn, Done, AtRest

(* A message is taken in. *)
LEMMA TakenHeld ==
  ASSUME ImportsTyped, ImportsInTurn, RaindropHeld, mail # <<>>, mail' = Tail(mail),
         UNCHANGED <<rows, folders, under, imports, said, rollback, settled, checked, begun,
           occurs>>,
         SparesSettled(undo'), SparesSettled(bar'),
         \/ Telling(Head(mail)) /\ (bar.shown => bar'.shown) /\ bar'.handle = bar.handle
         \/ ~Telling(Head(mail)) /\ bar' = NoBar
         \/ "cancel" \notin occurs /\ bar' = NoBar
  PROVE  RaindropHeld'
<1>0. mail \in Seq(Messages(begun)) BY DEF ImportsTyped
<1>1. /\ Len(mail') = Len(mail) - 1 /\ Head(mail) = mail[1] /\ 1 \in DOMAIN mail
      /\ \A k \in DOMAIN mail' : k + 1 \in DOMAIN mail /\ mail'[k] = mail[k + 1]
  BY <1>0, TailFacts
<1>2. Own' = Own BY DEF Own
<1>3. LibraryHeld' BY <1>2 DEF RaindropHeld, LibraryHeld
<1>4. ToldHeld'
  <2>1. (SparesSettled(undo) /\ SparesSettled(bar) /\ SparesSettled(rollback))'
    BY DEF RaindropHeld, ToldHeld, SparesSettled
  <2>2. \A k \in DOMAIN mail' : Telling(mail[k])' => SparesSettled(mail[k])'
    BY <1>1 DEF RaindropHeld, ToldHeld, SparesSettled, Telling
  <2>3. \A i \in DOMAIN imports' : imports'[i].heard =>
          \A k \in DOMAIN said'[i] : SparesSettled(said[i][k])'
    BY DEF RaindropHeld, ToldHeld, SparesSettled
  <2> QED BY <2>1, <2>2, <2>3 DEF ToldHeld, Telling
<1>5. \A i \in DOMAIN imports' : Turn(i)'
  <2> TAKE i \in DOMAIN imports'
  <2>1. Turn(i) BY WhileItGoesOn
  <2>2. imports[i].heard => \A k \in DOMAIN mail' : Telling(mail'[k])
    BY <1>1, <2>1 DEF Turn
  <2>3. imports[i].heard /\ "cancel" \in occurs => bar'.shown /\ bar'.handle = i
    BY <1>1, <2>1 DEF Turn
  <2> QED BY <1>2, <2>1, <2>2, <2>3 DEF Turn, Telling
<1>6. \A k \in DOMAIN mail' : Done(k)'
  <2> TAKE k \in DOMAIN mail'
  <2>1. k + 1 \in DOMAIN mail /\ mail'[k] = mail[k + 1] BY <1>1
  <2>2. Done(k + 1) BY <2>1 DEF RaindropHeld, TurnHeld
  <2>3. k \in Nat /\ Len(mail) \in Nat BY <1>0, <1>1
  <2>4. k + 1 = Len(mail) => k = Len(mail') BY <1>1, <2>3
  <2> QED BY <1>2, <2>1, <2>2, <2>4 DEF Done
<1>7. AtRest' BY DEF RaindropHeld, TurnHeld, AtRest
<1>8. FoldersHeld' BY DEF RaindropHeld, FoldersHeld
<1> QED BY <1>3, <1>4, <1>5, <1>6, <1>7, <1>8 DEF RaindropHeld, TurnHeld, Turn, Done, AtRest

LEMMA ToldBy ==
  ASSUME ImportsTyped, RaindropHeld, mail # <<>>, Telling(Head(mail))
  PROVE  SparesSettled(Head(mail)) /\ Head(mail) \in Messages(begun)
<1>1. mail \in Seq(Messages(begun)) BY DEF ImportsTyped
<1>2. Head(mail) = mail[1] /\ 1 \in DOMAIN mail BY <1>1, TailFacts
<1> QED BY <1>1, <1>2, MessageIs DEF RaindropHeld, ToldHeld

LEMMA HearsHeld ==
  ASSUME ImportsTyped, ImportsInTurn, RaindropHeld,
         \/ RaindropImportProgressUpdated \/ RaindropImportCreatedFolder
         \/ RaindropImportFailed \/ RaindropImportRollbackFinished
  PROVE  RaindropHeld'
<1>0. RestTyped /\ SparesSettled(undo) /\ SparesSettled(bar)
  BY DEF ImportsTyped, RaindropHeld, ToldHeld
<1>1. CASE RaindropImportProgressUpdated
  <2>1. mail # <<>> /\ mail' = Tail(mail) /\ Telling(Head(mail))
    BY <1>1 DEF RaindropImportProgressUpdated, Hears, Telling
  <2>2. PICK told \in Reports(begun) :
          /\ told.entries = bar.entries \cup
                 {e \in Head(mail).entries : e[1] \notin {x[1] : x \in bar.entries}}
          /\ told.folders = bar.folders \cup Head(mail).folders
          /\ bar' = [shown |-> TRUE, handle |-> bar.handle, entries |-> told.entries,
                     folders |-> told.folders]
          /\ undo' = IF told = Nothing THEN undo ELSE told
    BY <1>1, ProgressTold
  <2>3. SparesSettled(told)
    <3>1. SparesSettled(Head(mail)) BY <2>1, ToldBy
    <3>2. Inserted(told.entries) \subseteq Inserted(bar.entries) \cup Inserted(Head(mail).entries)
      BY <2>2 DEF Inserted
    <3> QED BY <1>0, <2>2, <3>1, <3>2 DEF SparesSettled
  <2>4. SparesSettled(undo') /\ SparesSettled(bar') BY <1>0, <2>2, <2>3 DEF SparesSettled
  <2>5. bar'.shown /\ bar'.handle = bar.handle BY <2>2
  <2> QED BY <1>1, <2>1, <2>4, <2>5, TakenHeld DEF RaindropImportProgressUpdated, libraryRows
<1>2. CASE RaindropImportCreatedFolder
  <2>1. mail # <<>> /\ mail' = Tail(mail) /\ Telling(Head(mail))
    BY <1>2 DEF RaindropImportCreatedFolder, Hears, Telling
  <2>2. SparesSettled(Head(mail)) BY <2>1, ToldBy
  <2>3. bar' = IF bar.shown THEN [bar EXCEPT !.folders = @ \cup Head(mail).folders] ELSE bar
    BY <1>2 DEF RaindropImportCreatedFolder
  <2>4. /\ bar'.entries = bar.entries /\ bar'.shown = bar.shown /\ bar'.handle = bar.handle
        /\ bar'.folders \subseteq bar.folders \cup Head(mail).folders
    BY <1>0, <2>3 DEF RestTyped
  <2>5. SparesSettled(undo') /\ SparesSettled(bar')
    BY <1>0, <1>2, <2>2, <2>4 DEF SparesSettled, RaindropImportCreatedFolder
  <2> QED BY <1>2, <2>1, <2>4, <2>5, TakenHeld DEF RaindropImportCreatedFolder, libraryRows
<1>3. CASE RaindropImportFailed \/ RaindropImportRollbackFinished
  <2>1. mail # <<>> /\ mail' = Tail(mail) /\ ~Telling(Head(mail)) /\ bar' = NoBar /\ undo' = undo
    BY <1>3 DEF RaindropImportFailed, RaindropImportRollbackFinished, Hears, Telling
  <2> QED BY <1>0, <1>3, <2>1, NothingTold, TakenHeld
           DEF RaindropImportFailed, RaindropImportRollbackFinished, libraryRows
<1> QED BY <1>1, <1>2, <1>3

(* What has finished is settled, and nothing is left that could undo it. *)
LEMMA FinishedHeld ==
  ASSUME ImportsTyped, ImportsInTurn, RaindropHeld, RaindropImportFinished
  PROVE  RaindropHeld'
<1>0. RestTyped /\ mail \in Seq(Messages(begun)) BY DEF ImportsTyped
<1>1. /\ mail # <<>> /\ mail' = Tail(mail) /\ Head(mail).kind = "ok"
      /\ bar' = NoBar /\ undo' = Nothing
      /\ settled' = [pdfs |-> settled.pdfs \cup Head(mail).done,
                     folders |-> settled.folders \cup (Head(mail).folders \cap folders)]
      /\ UNCHANGED <<rows, folders, under, imports, said, rollback, checked, begun, occurs>>
  BY DEF RaindropImportFinished, Hears, libraryRows
<1>2. Head(mail) = mail[1] /\ 1 \in DOMAIN mail BY <1>0, <1>1, TailFacts
<1>3. Done(1) BY <1>2 DEF RaindropHeld, TurnHeld
<1>4. /\ Len(mail) = 1 /\ DOMAIN imports = {} /\ rollback = NoRollback
      /\ mail[1].done \subseteq Own
      /\ begun # 0
  BY <1>1, <1>2, <1>3 DEF Done
<1>5. mail' = <<>>
  <2>1. mail' \in Seq(Messages(begun)) /\ Len(mail') = 0 BY <1>0, <1>1, <1>4
  <2> QED BY <2>1
<1>6. Own' = Own BY <1>1 DEF Own
<1>7. LibraryHeld' BY <1>1, <1>2, <1>4, <1>6 DEF RaindropHeld, LibraryHeld
<1>8. ToldHeld'
  BY <1>1, <1>4, <1>5, NothingTold
      DEF ToldHeld, SparesSettled, Inserted, Nothing, NoBar, NoRollback
<1>9. TurnHeld' BY <1>1, <1>4, <1>5 DEF TurnHeld, Turn, Done, AtRest
<1>10. FoldersHeld'
  <2>1. begun \in Nat BY <1>0 DEF RestTyped
  <2>2. {"new", "mirror"} \subseteq occurs => begun = 1
    BY <1>4, <2>1 DEF RaindropHeld, FoldersHeld, ImportsInTurn
  <2> QED BY <1>1, <1>4, <1>5, <2>2 DEF RaindropHeld, FoldersHeld
<1> QED BY <1>7, <1>8, <1>9, <1>10 DEF RaindropHeld

(* After a cancel no import is heard, and no result of one is on its way. *)
LEMMA CancelHeld ==
  ASSUME ImportsTyped, ImportsInTurn, RaindropHeld, CancelRaindropImport
  PROVE  RaindropHeld'
<1>0. RestTyped /\ mail \in Seq(Messages(begun)) BY DEF ImportsTyped
<1> DEFINE h == bar.handle
           all == [entries |-> bar.entries, folders |-> bar.folders]
<1>1. /\ "cancel" \in occurs /\ bar.shown /\ bar' = NoBar
      /\ UNCHANGED <<rows, folders, under, settled, checked, begun, occurs>>
  BY DEF CancelRaindropImport, libraryRows
<1>2. bar # NoBar BY <1>1 DEF NoBar
<1>3. PICK n \in 0 .. Len(mail) :
        /\ "late" \in occurs \/ \A k \in 1 .. n : mail[k].kind # "ok"
        /\ mail' = SubSeq(mail, 1, n)
  BY DEF CancelRaindropImport
<1>4. \A k \in DOMAIN mail' : k \in DOMAIN mail /\ mail'[k] = mail[k] /\ mail[k].kind # "ok"
  BY <1>0, <1>3 DEF ImportsInTurn
<1>5. checked BY <1>2 DEF RaindropHeld, TurnHeld, AtRest
<1>6. \A i \in DOMAIN imports' :
        /\ i \in DOMAIN imports /\ imports'[i].into = imports[i].into
        /\ ~imports'[i].heard /\ imports'[i].phase \notin {"ok", "error"}
  <2>1. CASE h \notin DOMAIN imports
    <3>1. imports' = imports BY <2>1 DEF CancelRaindropImport
    <3>2. \A i \in DOMAIN imports : Turn(i) BY DEF RaindropHeld, TurnHeld
    <3>3. \A i \in DOMAIN imports : ~imports[i].heard BY <1>1, <2>1, <3>2 DEF Turn
    <3> QED BY <3>1, <3>2, <3>3 DEF Turn
  <2>2. CASE h \in DOMAIN imports
    <3>1. \A i \in DOMAIN imports : i = h BY <2>2, WhileItGoesOn
    <3>2. CASE imports[h].phase \in {"prepare", "import"}
      <4>1. imports' = [imports EXCEPT ![h].heard = FALSE] BY <2>2, <3>2 DEF CancelRaindropImport
      <4>2. imports[h] \in Import BY <2>2 DEF ImportsTyped, Imported
      <4>3. imports'[h] = [imports[h] EXCEPT !.heard = FALSE] /\ DOMAIN imports' = DOMAIN imports
        BY <2>2, <4>1
      <4>4. /\ imports'[h].into = imports[h].into /\ ~imports'[h].heard
            /\ imports'[h].phase = imports[h].phase
        BY <4>2, <4>3 DEF Import
      <4> QED BY <3>1, <3>2, <4>3, <4>4
    <3>3. CASE imports[h].phase \notin {"prepare", "import"}
      <4>1. imports' = Without(h) BY <2>2, <3>3 DEF CancelRaindropImport
      <4> QED BY <3>1, <4>1, WithoutFacts
    <3> QED BY <3>2, <3>3
  <2> QED BY <2>1, <2>2
<1>7. \/ UNCHANGED <<undo, rollback>>
      \/ undo' = all /\ rollback' = RollbackOf(all)
  BY DEF CancelRaindropImport
<1>8. Own' = Own BY <1>1 DEF Own
<1>9. LibraryHeld' BY <1>1, <1>8 DEF RaindropHeld, LibraryHeld
<1>10. ToldHeld'
  <2>1. SparesSettled(undo) /\ SparesSettled(bar) /\ SparesSettled(rollback)
    BY DEF RaindropHeld, ToldHeld
  <2>2. SparesSettled(all) /\ SparesSettled(RollbackOf(all)) BY <2>1 DEF SparesSettled, RollbackOf
  <2>3. SparesSettled(undo') /\ SparesSettled(bar') /\ SparesSettled(rollback')
    BY <1>1, <1>7, <2>1, <2>2, NothingTold
  <2>4. \A k \in DOMAIN mail' : Telling(mail'[k]) => SparesSettled(mail'[k])
    BY <1>4 DEF RaindropHeld, ToldHeld
  <2>5. settled' = settled BY <1>1
  <2> HIDE DEF all
  <2> QED BY <1>6, <2>3, <2>4, <2>5 DEF ToldHeld, SparesSettled, Telling
<1>11. TurnHeld'
  <2>1. \A i \in DOMAIN imports' : Turn(i)'
    <3> TAKE i \in DOMAIN imports'
    <3>1. Turn(i) BY <1>6 DEF RaindropHeld, TurnHeld
    <3> QED BY <1>1, <1>6, <3>1 DEF Turn
  <2>2. \A k \in DOMAIN mail' : mail'[k].kind # "ok" BY <1>4
  <2> QED BY <1>1, <1>5, <2>1, <2>2 DEF TurnHeld, Turn, Done, AtRest
<1>12. FoldersHeld' BY <1>1, <1>2 DEF RaindropHeld, FoldersHeld
<1> QED BY <1>9, <1>10, <1>11, <1>12 DEF RaindropHeld

(* While something is undone no import is heard, and no result of one is on its way. *)
LEMMA WhileUndone ==
  ASSUME ImportsInTurn, RaindropHeld, rollback # NoRollback
  PROVE  /\ \A i \in DOMAIN imports : ~imports[i].heard
         /\ \A k \in DOMAIN mail : mail[k].kind # "ok"
         /\ checked
         /\ {"new", "mirror"} \subseteq occurs => settled.folders = {}
BY DEF RaindropHeld, TurnHeld, Turn, Done, AtRest, FoldersHeld

LEMMA UndoHeld ==
  ASSUME ImportsTyped, ImportsInTurn, RaindropHeld, rollback # NoRollback,
         UNCHANGED <<under, bar, imports, said, checked, begun, settled, occurs>>,
         mail' \in Seq(Messages(begun)),
         \A k \in DOMAIN mail' :
           (k \in DOMAIN mail /\ mail'[k] = mail[k]) \/ mail'[k].kind = "undone",
         \A p \in Pdf : rows'[p] # "other", settled.pdfs \subseteq Own',
         settled.folders \subseteq folders', SparesSettled(undo'), SparesSettled(rollback')
  PROVE  RaindropHeld'
<1>1. LibraryHeld' BY DEF LibraryHeld
<1>2. ToldHeld'
  <2>1. (SparesSettled(undo) /\ SparesSettled(bar) /\ SparesSettled(rollback))'
    BY DEF RaindropHeld, ToldHeld, SparesSettled
  <2>2. \A k \in DOMAIN mail' : Telling(mail[k])' => SparesSettled(mail[k])'
    BY DEF RaindropHeld, ToldHeld, SparesSettled, Telling
  <2> QED BY <2>1, <2>2, WhileUndone DEF ToldHeld, Telling
<1>3. TurnHeld'
  <2>1. \A i \in DOMAIN imports' : Turn(i)'
    <3> TAKE i \in DOMAIN imports'
    <3>1. Turn(i) /\ ~imports[i].heard BY WhileUndone DEF RaindropHeld, TurnHeld
    <3> QED BY <3>1 DEF Turn
  <2>2. \A k \in DOMAIN mail' : mail'[k].kind # "ok" BY WhileUndone
  <2>3. checked' BY WhileUndone
  <2> QED BY <2>1, <2>2, <2>3 DEF TurnHeld, Turn, Done, AtRest
<1>4. FoldersHeld' BY WhileUndone DEF RaindropHeld, FoldersHeld
<1> QED BY <1>1, <1>2, <1>3, <1>4 DEF RaindropHeld

LEMMA RollbackHeld ==
  ASSUME ImportsTyped, ImportsInTurn, RaindropHeld,
         RollbackEntries \/ RollbackFolders \/ RollbackEnds
  PROVE  RaindropHeld'
<1>0. RestTyped /\ mail \in Seq(Messages(begun)) /\ ImportsTyped'
  BY RollbackTyped DEF ImportsTyped
<1> DEFINE left == [entries |-> rollback.entries, folders |-> rollback.folders]
<1>1. rollback # NoRollback
  <2>1. rollback.stage \in {"entries", "folders", "end"}
    BY DEF RollbackEntries, RollbackFolders, RollbackEnds
  <2>2. NoRollback.stage = "none" BY DEF NoRollback
  <2> QED BY <2>1, <2>2
<1>2. /\ SparesSettled(undo) /\ SparesSettled(rollback) /\ SparesSettled(left) /\ LibraryHeld
  BY DEF RaindropHeld, ToldHeld, SparesSettled
<1>3. CASE RollbackEntries
  <2>1. /\ undo' = left
        /\ UNCHANGED <<folders, under, bar, imports, said, mail, checked, begun, settled, occurs>>
    BY <1>3 DEF RollbackEntries
  <2>2. rollback'.entries \subseteq rollback.entries /\ rollback'.folders = rollback.folders
    <3> DEFINE clean == {e[1] : e \in rollback.entries}
    <3>1. \/ rollback' = [rollback EXCEPT !.stage = "folders", !.entries = {}, !.clean = clean]
          \/ rollback' = [rollback EXCEPT !.stage = "folders"]
      BY <1>3 DEF RollbackEntries
    <3> HIDE DEF clean
    <3> QED BY <1>0, <3>1 DEF RestTyped
  <2>3. SparesSettled(rollback') BY <1>2, <2>2 DEF SparesSettled, Inserted
  <2>4. \A p \in Pdf :
          /\ rows'[p] # "other"
          /\ rows[p] = "own" /\ p \notin Inserted(rollback.entries) => rows'[p] = "own"
    BY <1>2, <1>3 DEF RollbackEntries, LibraryHeld
  <2>5. settled.pdfs \subseteq Own' BY <1>2, <2>4 DEF LibraryHeld, SparesSettled, Own
  <2> HIDE DEF left
  <2> QED BY <1>0, <1>1, <1>2, <2>1, <2>3, <2>4, <2>5, UndoHeld DEF LibraryHeld
<1>4. CASE RollbackFolders
  <2>1. PICK kept \in IF "stuck" \in occurs THEN SUBSET rollback.folders ELSE {{}} :
          /\ folders' = FoldersLeft(rollback.folders \ kept)
          /\ rollback' = [rollback EXCEPT !.stage = "end", !.folders = kept]
    BY <1>4 DEF RollbackFolders
  <2>2. UNCHANGED <<rows, undo, under, bar, imports, said, mail, checked, begun, settled, occurs>>
    BY <1>4 DEF RollbackFolders
  <2>3. kept \subseteq rollback.folders BY <2>1
  <2>4. rollback'.entries = rollback.entries /\ rollback'.folders \subseteq rollback.folders
    BY <1>0, <2>1, <2>3 DEF RestTyped
  <2>5. SparesSettled(rollback') BY <1>2, <2>4 DEF SparesSettled
  <2>6. settled.folders \subseteq folders'
    <3>1. CASE {"new", "mirror"} \subseteq occurs BY <1>1, <3>1, WhileUndone
    <3>2. CASE ~({"new", "mirror"} \subseteq occurs)
      <4>1. under = TopLevel BY <3>2 DEF RaindropHeld, FoldersHeld
      <4>2. rollback.folders \subseteq 0 .. begun BY <1>0 DEF RestTyped
      <4>3. under \notin rollback.folders \ kept BY <4>1, <4>2 DEF TopLevel
      <4> QED BY <1>2, <2>1, <4>3 DEF FoldersLeft, LibraryHeld, SparesSettled
    <3> QED BY <3>1, <3>2
  <2>7. Own' = Own BY <2>2 DEF Own
  <2> QED BY <1>0, <1>1, <1>2, <2>2, <2>5, <2>6, <2>7, UndoHeld DEF LibraryHeld
<1>5. CASE RollbackEnds
  <2> DEFINE told == [kind |-> "undone", import |-> 0, entries |-> {}, folders |-> {},
               done |-> {}]
  <2>1. /\ rollback' = NoRollback /\ mail' = Append(mail, told)
        /\ undo' = left \/ undo' = Nothing \/ undo' = undo
        /\ UNCHANGED <<rows, folders, under, bar, imports, said, checked, begun, settled, occurs>>
    BY <1>5 DEF RollbackEnds, libraryRows
  <2>2. told.kind = "undone" OBVIOUS
  <2> HIDE DEF told, left
  <2>3. \A k \in DOMAIN mail' :
          (k \in DOMAIN mail /\ mail'[k] = mail[k]) \/ mail'[k].kind = "undone"
    BY <1>0, <2>1, <2>2
  <2>4. Own' = Own /\ mail' \in Seq(Messages(begun))
    BY <1>0, <2>1 DEF Own, ImportsTyped, RestTyped, Imported
  <2>5. SparesSettled(undo') /\ SparesSettled(rollback') BY <1>2, <2>1, NothingTold
  <2> QED BY <1>1, <1>2, <2>1, <2>3, <2>4, <2>5, UndoHeld DEF LibraryHeld
<1> QED BY <1>3, <1>4, <1>5

LEMMA CleanUpHeld ==
  ASSUME ImportsTyped, RaindropHeld, NEW c \in cleaners, CleanUp(c)
  PROVE  RaindropHeld'
<1>1. /\ undo' = Nothing \/ undo' = undo
      /\ UNCHANGED <<rows, folders, under, bar, imports, said, mail, rollback, checked, begun,
                     settled, occurs>>
  BY DEF CleanUp
<1>2. Own' = Own BY <1>1 DEF Own
<1>3. LibraryHeld' BY <1>1, <1>2 DEF RaindropHeld, LibraryHeld
<1>4. ToldHeld' BY <1>1, NothingTold DEF RaindropHeld, ToldHeld, SparesSettled, Telling
<1>5. TurnHeld' BY <1>1, <1>2 DEF RaindropHeld, TurnHeld, Turn, Done, AtRest, Telling
<1>6. FoldersHeld' BY <1>1 DEF RaindropHeld, FoldersHeld
<1> QED BY <1>3, <1>4, <1>5, <1>6 DEF RaindropHeld

LEMMA RestartHeld ==
  ASSUME ImportsTyped, ImportsInTurn, RaindropHeld, Crash \/ PendingRaindropRollbackChecked
  PROVE  RaindropHeld'
<1>1. CASE Crash
  <2>1. /\ bar' = NoBar /\ DOMAIN imports' = {} /\ mail' = <<>> /\ rollback' = NoRollback
        /\ UNCHANGED <<rows, folders, under, undo, begun, settled, occurs>>
    BY <1>1 DEF Crash, libraryRows
  <2>2. Own' = Own /\ DOMAIN mail' = {} BY <2>1 DEF Own
  <2>3. LibraryHeld' BY <2>1, <2>2 DEF RaindropHeld, LibraryHeld
  <2>4. ToldHeld' BY <2>1, <2>2, NothingTold DEF RaindropHeld, ToldHeld, SparesSettled
  <2>5. TurnHeld' BY <2>1, <2>2 DEF TurnHeld, Turn, Done, AtRest
  <2>6. FoldersHeld' BY <2>1 DEF RaindropHeld, FoldersHeld
  <2> QED BY <2>3, <2>4, <2>5, <2>6 DEF RaindropHeld
<1>2. CASE PendingRaindropRollbackChecked
  <2>1. /\ ~checked /\ (rollback' = rollback \/ (undo # Nothing /\ rollback' = RollbackOf(undo)))
        /\ checked' = TRUE
        /\ UNCHANGED <<rows, folders, under, undo, bar, imports, said, mail, begun, settled,
             occurs>>
    BY <1>2 DEF PendingRaindropRollbackChecked, libraryRows
  <2>2. DOMAIN imports = {} /\ DOMAIN mail = {}
    BY <2>1 DEF RaindropHeld, TurnHeld, AtRest
  <2>3. Own' = Own BY <2>1 DEF Own
  <2>4. LibraryHeld' BY <2>1, <2>3 DEF RaindropHeld, LibraryHeld
  <2>5. ToldHeld'
    <3>1. SparesSettled(undo) /\ SparesSettled(bar) /\ SparesSettled(rollback)
      BY DEF RaindropHeld, ToldHeld
    <3>2. SparesSettled(RollbackOf(undo)) BY <3>1 DEF SparesSettled, RollbackOf
    <3>3. SparesSettled(rollback') BY <2>1, <3>1, <3>2
    <3> QED BY <2>1, <2>2, <3>1, <3>3 DEF ToldHeld, SparesSettled
  <2>6. TurnHeld' BY <2>1, <2>2 DEF TurnHeld, Turn, Done, AtRest
  <2>7. FoldersHeld' BY <2>1 DEF RaindropHeld, FoldersHeld
  <2> QED BY <2>4, <2>5, <2>6, <2>7 DEF RaindropHeld
<1> QED BY <1>1, <1>2

(* The bar goes: an error of a command of the library. *)
LEMMA BarDropped ==
  ASSUME RaindropHeld, bar' = NoBar, "cancel" \notin occurs,
         UNCHANGED <<libraryRows, undo, imports, said, mail, rollback, checked, begun,
           settled, occurs>>
  PROVE  RaindropHeld'
<1>1. UNCHANGED <<rows, folders, under>> /\ Own' = Own BY DEF libraryRows, Own
<1>2. LibraryHeld' BY <1>1 DEF RaindropHeld, LibraryHeld
<1>3. ToldHeld' BY <1>1, NothingTold DEF RaindropHeld, ToldHeld, SparesSettled, Telling
<1>4. TurnHeld' BY <1>1 DEF RaindropHeld, TurnHeld, Turn, Done, AtRest, Telling
<1>5. FoldersHeld' BY <1>1 DEF RaindropHeld, FoldersHeld
<1> QED BY <1>2, <1>3, <1>4, <1>5 DEF RaindropHeld

LEMMA RaindropHeldInit == RaindropInit /\ ImportsInTurn => RaindropHeld
<1> SUFFICES ASSUME RaindropInit, ImportsInTurn PROVE RaindropHeld OBVIOUS
<1>1. /\ DOMAIN imports = {} /\ DOMAIN mail = {} /\ checked /\ undo = Nothing /\ bar = NoBar
      /\ rollback = NoRollback /\ under = TopLevel /\ begun = 0 /\ folders = {}
      /\ settled.folders = {} /\ settled.pdfs = {p \in Pdf : rows[p] # "none"}
  BY DEF RaindropInit
<1>2. \A p \in Pdf : rows[p] \in Place /\ rows[p] # "other"
  <2>1. rows \in InLibrary /\ rows \in [Pdf -> Place] BY RaindropAssumption DEF RaindropInit
  <2> QED BY <2>1 DEF ImportsInTurn
<1>3. LibraryHeld BY <1>1, <1>2 DEF LibraryHeld, Own, Place
<1>4. ToldHeld BY <1>1, NothingTold DEF ToldHeld
<1>5. TurnHeld BY <1>1 DEF TurnHeld, Turn, Done, AtRest
<1>6. FoldersHeld BY <1>1 DEF FoldersHeld
<1> QED BY <1>3, <1>4, <1>5, <1>6 DEF RaindropHeld

LEMMA RaindropHeldStep ==
  ASSUME ImportsTyped, ImportsInTurn, RaindropHeld, RaindropNext
  PROVE  RaindropHeld'
BY BeginHeld, StartsHeld, FailsHeld, PreparesHeld, PdfHeld, EndsHeld, ReportsHeld, StreamEndsHeld,
   HearsHeld, FinishedHeld, CancelHeld, RollbackHeld, CleanUpHeld, RestartHeld
   DEF RaindropNext, RaindropUser, RaindropTask, RaindropMessage

LEMMA OccursStays == RaindropNext => occurs' = occurs
BY DEF RaindropNext, RaindropUser, RaindropTask, RaindropMessage, ImportSelectedRaindropPdfs,
       ImportStarts, ImportFails, ImportPrepares, ImportPdf, ImportEnds, StreamReports,
         StreamEnds,
       RaindropImportProgressUpdated, RaindropImportCreatedFolder, RaindropImportFinished,
       RaindropImportFailed, RaindropImportRollbackFinished, CancelRaindropImport,
         RollbackEntries,
       RollbackFolders, RollbackEnds, CleanUp, Crash, PendingRaindropRollbackChecked
-----------------------------------------------------------------------------
(* Before the first command there are no tasks and nothing to undo: only a command of *)
(* the library can fail.                                                              *)
Untouched ==
  /\ acts \in Nat
  /\ acts = 0 => /\ \A t \in Slots : tasks[t].phase = "free"
                 /\ current = 1 /\ DOMAIN nodes = {1} /\ nodes[1].parent = 0

LEMMA UntouchedInit == ASSUME DesktopInit PROVE Untouched
<1>1. OrgInit BY DEF DesktopInit, LibraryInit
<1>2. \A t \in Slots : tasks[t] = FreeTask /\ tasks[t].phase = "free" BY <1>1, FreeHeld DEF OrgInit
<1> QED BY <1>1, <1>2 DEF OrgInit, Untouched

LEMMA NoTaskGoesOn ==
  ASSUME NEW t \in Slots, tasks[t].phase = "free"
  PROVE  ~OrgTask(t) /\ ~OrgMessage(t) /\ ~TaskFailed(t)
<1>1. \A kinds : ~InChange(t, kinds) BY DEF InChange
<1>2. \A kind, kept : ~ChangesMembers(t, kind, kept) BY <1>1 DEF ChangesMembers
<1>3. \A kind, new : ~ChangesRows(t, kind, new) BY <1>1 DEF ChangesRows
<1>4. \A kind, new, also : ~ChangesEntries(t, kind, new, also) BY <1>1 DEF ChangesEntries
<1>5. ~(AddToFolder(t) \/ MoveToFolder(t) \/ RemoveFromFolder(t))
  BY <1>1, <1>2 DEF AddToFolder, MoveToFolder, RemoveFromFolder
<1>6. ~(RenameFolder(t) \/ AddTag(t) \/ RemoveTag(t) \/ RenameTag(t) \/ DeleteTag(t))
  BY <1>1, <1>3 DEF RenameFolder, AddTag, RemoveTag, RenameTag, DeleteTag
<1>7. ~(OrderFolders(t) \/ SubmitTag(t)) BY <1>1, <1>3 DEF OrderFolders, SubmitTag
<1>8. ~(TrashEntries(t) \/ TrashFolder(t) \/ PurgeEntries(t) \/ PurgeFolder(t))
  BY <1>1, <1>4 DEF TrashEntries, TrashFolder, PurgeEntries, PurgeFolder
<1>9. ~(EditMetadata(t) \/ ResetMetadata(t) \/ Reindex(t) \/ ImportEntry(t))
  BY <1>1, <1>4 DEF EditMetadata, ResetMetadata, Reindex, ImportEntry
<1>10. ~(Begin(t) \/ CreateFolder(t) \/ CopyFolder(t) \/ MoveChecks(t) \/ MoveWrite(t))
  BY <1>1 DEF Begin, CreateFolder, CopyFolder, MoveChecks, MoveWrite
<1>11. ~(RestoreTree(t) \/ RestoreEntries(t) \/ Rewind(t) \/ WriteIndex(t) \/ End(t))
  BY <1>1 DEF RestoreTree, RestoreEntries, Rewind, WriteIndex, End
<1>12. ~OrgTask(t) BY <1>5, <1>6, <1>7, <1>8, <1>9, <1>10, <1>11 DEF OrgTask
<1>13. ~OrgMessage(t) /\ ~TaskFailed(t)
  BY DEF OrgMessage, ActionFinished, UnfiledFinished, RestoreFinished, TaskFailed
<1> QED BY <1>12, <1>13

LEMMA UntouchedStep ==
  ASSUME Untouched, [DesktopNext]_desktopVars
  PROVE  Untouched' /\ (acts' = 0 => acts = 0)
<1>1. acts' \in {acts, acts + 1} BY ActsCounted DEF Counted
<1>2. acts' \in Nat /\ (acts' = 0 => acts = 0) BY <1>1 DEF Untouched
<1>3. SUFFICES ASSUME acts' = 0
               PROVE  UNCHANGED <<tasks, nodes, current>>
  BY <1>2 DEF Untouched
<1>4. /\ \A t \in Slots : tasks[t].phase = "free"
      /\ current = 1 /\ DOMAIN nodes = {1} /\ nodes[1].parent = 0
  BY <1>2, <1>3 DEF Untouched
<1>5. UNCHANGED coreVars => UNCHANGED <<tasks, nodes, current>> BY DEF coreVars
<1>6. Refresh => UNCHANGED <<tasks, nodes, current>> BY DEF Refresh, historyVars
<1>7. ASSUME NEW t \in Slots, OrgUser(t) PROVE FALSE
  <2>1. acts' # acts + 1 BY <1>2, <1>3
  <2>2. \A event, cmd : ~LabelGiven(t, event, cmd) BY <2>1 DEF LabelGiven
  <2>3. ~CommandGiven(t) BY <2>1 DEF CommandGiven
  <2>4. ~(EditGiven(t) \/ ResetGiven(t) \/ ReindexGiven(t) \/ RenameFolderGiven(t))
    BY <2>2 DEF EditGiven, ResetGiven, ReindexGiven, RenameFolderGiven
  <2>5. ~(OrderGiven(t) \/ TagGiven(t) \/ TagListGiven(t))
    BY <2>2 DEF OrderGiven, TagGiven, TagListGiven
  <2>6. ~UndoLibraryAction(t) /\ ~RedoLibraryAction(t)
    BY <1>4 DEF UndoLibraryAction, RedoLibraryAction
  <2> QED BY <1>7, <2>3, <2>4, <2>5, <2>6 DEF OrgUser
<1> QED BY <1>4, <1>5, <1>6, <1>7, NoTaskGoesOn, DesktopSteps
-----------------------------------------------------------------------------
(* What imports do, and what a command does to them. *)
LEMMA ImportSteps ==
  ASSUME [DesktopNext]_desktopVars
  PROVE  UNCHANGED raindropVars \/ RaindropNext \/ CommandErrs
<1>1. RaindropAlone => RaindropNext BY DEF RaindropAlone, RaindropNext, RaindropMessage
<1>2. ImportRefreshes \/ ImportErrs => RaindropNext
  BY DEF ImportRefreshes, ImportErrs, RaindropNext, RaindropMessage
<1>3. RaindropUser => RaindropNext BY DEF RaindropNext
<1>4. DesktopUser => UNCHANGED raindropVars \/ RaindropNext BY <1>3 DEF DesktopUser
<1>5. DesktopGoesOn => UNCHANGED raindropVars \/ RaindropNext \/ CommandErrs
  BY <1>1, <1>2 DEF DesktopGoesOn
<1>6. UNCHANGED desktopVars => UNCHANGED raindropVars BY DEF desktopVars
<1> QED BY <1>4, <1>5, <1>6 DEF DesktopNext

Uncancelled == acts = 0 \/ "cancel" \notin occurs

ImportsInv ==
  /\ ImportsTyped /\ Untouched
  /\ Uncancelled /\ ImportsInTurn => RaindropHeld

LEMMA ImportsInvInit == ASSUME DesktopInit PROVE ImportsInv
BY UntouchedInit, ImportsTypedInit, RaindropHeldInit DEF DesktopInit, ImportsInv

LEMMA SameImports ==
  ASSUME UNCHANGED raindropVars
  PROVE  (ImportsTyped => ImportsTyped') /\ (RaindropHeld => RaindropHeld')
<1>1. ImportsTyped => ImportsTyped'
  BY DEF raindropVars, libraryRows, ImportsTyped, RestTyped, Imported
<1>2. RaindropHeld => RaindropHeld'
  <2>1. Own' = Own BY DEF raindropVars, libraryRows, Own
  <2> QED BY <2>1 DEF raindropVars, libraryRows, RaindropHeld, LibraryHeld, ToldHeld, TurnHeld, Turn,
             Done, AtRest, FoldersHeld, SparesSettled, Telling
<1> QED BY <1>1, <1>2

LEMMA ImportsInvStep == ASSUME ImportsInv, [DesktopNext]_desktopVars PROVE ImportsInv'
<1>1. Untouched' /\ (acts' = 0 => acts = 0) BY UntouchedStep DEF ImportsInv
<1>2. CASE UNCHANGED raindropVars
  <2>1. occurs' = occurs BY <1>2 DEF raindropVars
  <2> QED BY <1>1, <1>2, <2>1, SameImports DEF ImportsInv, Uncancelled, ImportsInTurn
<1>3. CASE RaindropNext
  <2>1. occurs' = occurs BY <1>3, OccursStays
  <2>2. ImportsTyped' BY <1>3, ImportsTypedStep DEF ImportsInv
  <2>3. ImportsInTurn /\ RaindropHeld => RaindropHeld'
    BY <1>3, RaindropHeldStep DEF ImportsInv
  <2> QED BY <1>1, <2>1, <2>2, <2>3 DEF ImportsInv, Uncancelled, ImportsInTurn
<1>4. CASE CommandErrs
  <2>1. PICK t \in Slots : TaskFailed(t) BY <1>4 DEF CommandErrs
  <2>2. acts # 0 BY <2>1, NoTaskGoesOn DEF ImportsInv, Untouched
  <2>3. bar' = NoBar /\ UNCHANGED raindropRest BY <1>4 DEF CommandErrs
  <2>4. /\ UNCHANGED <<libraryRows, undo, imports, said, mail, rollback, checked, begun, settled,
                       occurs>>
        /\ occurs' = occurs
    BY <2>3 DEF raindropRest
  <2>5. ImportsTyped'
    BY <2>3, BarGone
       DEF ImportsInv, ImportsTyped, RestTyped, Imported, raindropRest, libraryRows
  <2>6. "cancel" \notin occurs /\ RaindropHeld => RaindropHeld' BY <2>3, <2>4, BarDropped
  <2> QED BY <1>1, <2>2, <2>4, <2>5, <2>6 DEF ImportsInv, Uncancelled, ImportsInTurn
<1> QED BY <1>2, <1>3, <1>4, ImportSteps

LEMMA ImportsInvHolds == DesktopSpec => []ImportsInv
<1>1. DesktopInit => ImportsInv BY ImportsInvInit
<1>2. ImportsInv /\ [DesktopNext]_desktopVars => ImportsInv' BY ImportsInvStep
<1> QED BY <1>1, <1>2, PTL DEF DesktopSpec

(* The state of imports and of what undoes them is of its types, and no number of an    *)
(* import is used that was not given out (RaindropImportProgress, PendingRaindropRollback). *)
THEOREM RaindropTyped == DesktopSpec => []RaindropTypeOK
<1>1. ASSUME ImportsInv PROVE RaindropTypeOK
  <2>1. RestTyped /\ mail \in Seq(Messages(begun)) /\ \A i \in DOMAIN imports : Imported(i)
    BY <1>1 DEF ImportsInv, ImportsTyped
  <2>2. Reports(begun) \subseteq Report BY <2>1 DEF Reports, Report, RestTyped
  <2>3. Seq(Reports(begun)) \subseteq Seq(Report) BY <2>2
  <2>4. \A k \in DOMAIN mail : mail[k] \in Messages(begun) BY <2>1
  <2>5. \A k \in DOMAIN mail : mail[k].kind \in {"progress", "folder", "ok", "error", "undone"}
    BY <2>4 DEF Messages
  <2>6. /\ DOMAIN imports \subseteq 1 .. begun /\ \A i \in DOMAIN imports : imports[i] \in Import
        /\ \A i \in DOMAIN imports : said[i] \in Seq(Report)
    BY <2>1, <2>3 DEF Imported
  <2> QED BY <2>1, <2>2, <2>5, <2>6 DEF RaindropTypeOK, RestTyped
<1> QED BY <1>1, ImportsInvHolds, PTL

(* However imports, cancels, crashes and late reports come after one another, and beside *)
(* whatever commands, what the user was told has finished is not undone, nor what the    *)
(* library had (raindrop_import.rs, rollback_pending_raindrop_import_task), except where  *)
(* ImportsInTurn and FinishedStays say.                                                    *)
THEOREM FinishedStaysHolds == DesktopSpec => []FinishedStays
<1>1. ASSUME ImportsInv PROVE FinishedStays
  <2> SUFFICES ASSUME Uncancelled, ImportsInTurn
               PROVE  /\ \A p \in settled.pdfs : rows[p] # "none"
                      /\ settled.folders \subseteq folders
    BY DEF FinishedStays, SettledStays, Uncancelled
  <2>1. LibraryHeld BY <1>1 DEF ImportsInv, RaindropHeld
  <2> QED BY <2>1 DEF LibraryHeld, Own
<1> QED BY <1>1, ImportsInvHolds, PTL
=============================================================================
