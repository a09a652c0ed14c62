-------------------------- MODULE RaindropTransfer --------------------------
(* What an import from Raindrop does with the account: it lists the PDFs page by page, *)
(* mirrors the collections, fetches what was chosen, one by one or out of the export   *)
(* of the whole account, and puts it in the library. RaindropImport has what the       *)
(* program does around it. The account goes on changing, and the user with the folders. *)
EXTENDS Integers, FiniteSets, SequencesExt

CONSTANTS
  Item,           \* the bookmarks of an account, by id
  Collection,     \* its collections
  Content,        \* PDFs, by what they hold
  Mine,           \* a folder of the user
  Nothing, Top,      \* nothing; the top level
  Accounts,       \* the accounts: name -> [here, item, parent, export], see TransferInit
  Safe,           \* safe_path_component and lower case, of a letter of a name
  PerPage,        \* MAX_PER_PAGE
  ZipThreshold,   \* ZIP_IMPORT_THRESHOLD
  MaxRedirects,   \* MAX_PDF_REDIRECTS
  Transfers,      \* scenarios: <<account, events, origins>>; a behaviour has one
  MaxMoves        \* bound: imports, and what is done to the account and the folders

(* The account: items are added, removed, or get another PDF. The user: moves and deletes *)
(* mirrored folders, or removes PDFs. "again": imports follow each other; "fault": a       *)
(* request fails, the archive is damaged, or the index is not written.                     *)
TransferEvents == {"add", "remove", "edit", "move", "delete", "purge", "again", "fault", "into"}
Shelf == Collection \cup {Mine}

ASSUME TransferAssumption ==
  /\ Item \subseteq Nat /\ {Nothing, Top, Mine} \cap (Item \cup Collection) = {}
  /\ PerPage \in Nat \ {0} /\ ZipThreshold \in Nat \ {0} /\ MaxRedirects \in Nat
  /\ \A t \in Transfers : t[2] \subseteq TransferEvents /\ t[3] \subseteq {"preview", "direct"}

VARIABLES
  scenario,  \* what may happen in this behaviour
  here,      \* the account lists these items, the newest first
  holds,     \* Item -> the PDF it holds now
  had,       \* Item -> the PDFs it has held
  stage,     \* of the import
  job,       \* what the import has, see NoJob
  listed,    \* the pages read so far, and what they had
  rows,      \* entries: PDF -> the item whose download path its row has, or Nothing
  disk,      \* item -> the PDF in the file at its download path, or Nothing
  mapped,    \* raindrop_entries: item -> PDF, or Nothing
  folderOf,  \* raindrop_collections and folders: folder -> the one it is in, or Nothing
  filed,     \* entry_folders
  settled,   \* items that finished imports reported as imported
  moves      \* so far

remoteVars == <<here, holds, had>>
localVars  == <<rows, disk, mapped, folderOf, filed>>
transferVars == <<scenario, remoteVars, stage, job, listed, localVars, settled, moves>>

Stages == {"idle", "list", "listed", "mirror", "fetch", "extract", "import", "linked", "done"}
NoJob  == [from |-> "preview", list |-> <<>>, preserve |-> FALSE, root |-> Top,
           todo |-> <<>>, deferred |-> <<>>, done |-> {}, stuck |-> FALSE,
           archive |-> <<>>, remaining |-> {}, extracted |-> {}, queue |-> <<>>, errors |-> {}]

May(event) == event \in scenario[2]
Moved == moves < MaxMoves[scenario[2]] /\ moves' = moves + 1
TheAccount == Accounts[scenario[1]]
ItemOf(i) == TheAccount.item[i]
-----------------------------------------------------------------------------
(* What the bookmarks say. *)

(* Raindrop::is_pdf *)
IsPdf(i) == \/ ItemOf(i).file = "pdf" \/ ItemOf(i).link = "ends"
            \/ ItemOf(i).document /\ ItemOf(i).link = "contains"

(* RaindropPdfCandidate::to_raindrop: every candidate of a preview has a file that is a PDF. *)
HasFile(i) == ItemOf(i).file \in {"pdf", "hosted"}
HasUploadedFile(i) == job.from = "preview" \/ HasFile(i)

(* download_pdf_for_raindrop: the copy that Raindrop keeps, or the link, followed. *)
Hops(i) == IF HasUploadedFile(i) THEN 0 ELSE ItemOf(i).hops
Downloads(i)  ==
  /\ IF HasUploadedFile(i) THEN ItemOf(i).cached ELSE ItemOf(i).reached
  /\ Hops(i) <= MaxRedirects /\ ItemOf(i).gives = "pdf"

Uploaded(list) == SelectSeq(list, HasUploadedFile)
Linked(list)   == SelectSeq(list, LAMBDA i : ~HasUploadedFile(i))
ByZip(list)    == Len(Uploaded(list)) >= ZipThreshold
-----------------------------------------------------------------------------
(* ZipMatchIndex: which of the chosen a member of the archive is. *)
Cleaned(name) ==
  [stem |-> [k \in DOMAIN name.stem |-> Safe[name.stem[k]]], pdfs |-> Max({1, name.pdfs})]
NameOf(i) == IF ItemOf(i).name = Nothing THEN Nothing ELSE Cleaned(ItemOf(i).name)

Resembling(list, member, remaining) ==
  LET n        == Cleaned(member.name)
      named(k) == NameOf(list[k]) # Nothing
      exact    == {k \in remaining : NameOf(list[k]) = n}
      sized    == {k \in remaining : member.size > 0 /\ ItemOf(list[k]).size = member.size}
      stem     == {k \in remaining : named(k) /\ (named(k) => NameOf(list[k]).stem = n.stem)}
      ends     == {k \in remaining : named(k) /\ (named(k) => IsSuffix(NameOf(list[k]).stem, n.stem))}
      endsName == {k \in ends : NameOf(list[k]).pdfs = n.pdfs}
  IN <<exact \cap sized, exact, sized, stem, endsName, ends>>

(* Mutant: the first that resembles the member, although others do. *)
MatchAny(list, member, remaining) ==
  LET some == SelectSeq(Resembling(list, member, remaining), LAMBDA s : s # {})
  IN IF some = <<>> THEN {} ELSE {CHOOSE k \in Head(some) : TRUE}

(* The first kind of resemblance that only one has. *)
MatchEntry(list, member, remaining) ==
  LET unique == SelectSeq(Resembling(list, member, remaining), LAMBDA s : Cardinality(s) = 1)
  IN IF unique = <<>> THEN {} ELSE Head(unique)
-----------------------------------------------------------------------------
(* The library: insert_entry finds the row by its PDF; another row at the path is replaced, *)
(* unless the PDF has a row: then the path cannot be taken.                                *)
InsertFails(c, i) == rows[c] # Nothing /\ \E d \in Content \ {c} : rows[d] = i
Replaced(c, i) == {d \in Content \ {c} : rows[d] = i}

(* A folder and those it is in. *)
Above(f) ==
  {g \in Shelf : \A X \in SUBSET Shelf :
     (f \in X /\ \A h \in X \cap Shelf : folderOf[h] \in Shelf => folderOf[h] \in X) => g \in X}

(* delete_folder, of a folder and what is below it. *)
GoneWith(f) == {g \in Shelf : folderOf[g] # Nothing /\ f \in Above(g)}
-----------------------------------------------------------------------------
(* The import: import_preview and import_pdfs_with_auth list the account, *)
StartListing ==
  /\ stage = "idle" \/ (stage = "done" /\ May("again"))
  /\ Moved /\ stage' = "list" /\ listed' = [page |-> 0, got |-> <<>>]
  /\ \E from \in scenario[3] : job' = [NoJob EXCEPT !.from = from]
  /\ UNCHANGED <<scenario, remoteVars, localVars, settled>>

(* pdf_raindrops, a page at a time until one is short. *)
ListPage ==
  LET first == listed.page * PerPage + 1
      page  == SubSeq(here, first, Min({first + PerPage - 1, Len(here)}))
  IN /\ stage = "list"
     /\ listed' = [page |-> listed.page + 1, got |-> listed.got \o SelectSeq(page, IsPdf)]
     /\ stage' = IF Len(page) < PerPage THEN "listed" ELSE "list"
     /\ UNCHANGED <<scenario, remoteVars, job, localVars, settled, moves>>

(* the user chooses some and where they go, *)
Choose ==
  /\ stage = "listed" /\ stage' = "mirror"
  /\ \E chosen \in SUBSET ToSet(listed.got) \ {{}}, preserve \in BOOLEAN,
        root \in {Top} \cup {f \in Shelf : folderOf[f] # Nothing} :
       /\ root \in {Top, Mine} \/ May("into")
       /\ (preserve /\ root = Mine) => (May("into") \/ Above(Mine) = {Mine})
       /\ job' = [job EXCEPT !.list = SelectSeq(listed.got, LAMBDA i : i \in chosen),
                             !.preserve = preserve, !.root = root,
                             !.todo = IF preserve THEN TheAccount.collections ELSE <<>>]
  /\ UNCHANGED <<scenario, remoteVars, listed, localVars, settled, moves>>

(* the collections are mirrored, each after the one it is in, if that is listed: *)
(* mirror_collections and upsert_raindrop_collection_mapping.                    *)
ParentOf(c) == TheAccount.parent[c]
MirrorInto(c) ==
  LET p == IF job.stuck /\ job.root # Top THEN Nothing ELSE ParentOf(c)
  IN IF p # Nothing THEN IF folderOf[p] # Nothing THEN p ELSE Top
     ELSE job.root

(* Mutant: collections are mirrored as they are listed. *)
MirrorNeverWaits(c) == FALSE

MirrorWaits(c) == ~job.stuck /\ ParentOf(c) # Nothing /\ ParentOf(c) \notin job.done

MirrorCollection ==
  /\ stage = "mirror" /\ job.todo # <<>>
  /\ LET c == Head(job.todo)
     IN IF MirrorWaits(c)
        THEN /\ job' = [job EXCEPT !.todo = Tail(@), !.deferred = Append(@, c)]
             /\ UNCHANGED folderOf
        ELSE /\ job' = [job EXCEPT !.todo = Tail(@), !.done = @ \cup {c}]
             /\ folderOf' = [folderOf EXCEPT ![c] = MirrorInto(c)]
  /\ UNCHANGED <<scenario, remoteVars, stage, listed, rows, disk, mapped, filed, settled, moves>>

(* Those that wait have another turn; when none had one, they go where they can. *)
MirrorAgain ==
  /\ stage = "mirror" /\ job.todo = <<>> /\ job.deferred # <<>>
  /\ job' = [job EXCEPT !.todo = job.deferred, !.deferred = <<>>,
                        !.stuck = \A c \in ToSet(job.deferred) : ParentOf(c) \notin job.done]
  /\ UNCHANGED <<scenario, remoteVars, stage, listed, localVars, settled, moves>>

(* choose_import_strategy *)
MirrorEnds ==
  /\ stage = "mirror" /\ job.todo = <<>> /\ job.deferred = <<>>
  /\ stage' = IF ByZip(job.list) THEN "fetch" ELSE "linked"
  /\ job' = [job EXCEPT !.queue = IF ByZip(job.list) THEN Uploaded(job.list) ELSE job.list]
  /\ UNCHANGED <<scenario, remoteVars, listed, localVars, settled, moves>>

(* download_pdf_export_zip; without it the uploaded ones fail, and the linked ones follow. *)
ZipFails ==
  /\ stage \in {"fetch", "extract"} /\ May("fault")
  /\ stage' = "linked"
  /\ job' = [job EXCEPT !.errors = @ \cup ToSet(job.queue), !.queue = Linked(job.list)]
  /\ UNCHANGED <<scenario, remoteVars, listed, localVars, settled, moves>>

(* The export has every file of the account, also of those that were not chosen. *)
Export == SelectSeq(TheAccount.export, LAMBDA m : m.of \in ToSet(here))
ZipDownloaded ==
  /\ stage = "fetch" /\ stage' = "extract"
  /\ job' = [job EXCEPT !.archive = Export, !.remaining = DOMAIN job.queue, !.extracted = {}]
  /\ UNCHANGED <<scenario, remoteVars, listed, localVars, settled, moves>>

(* extract_selected_pdfs_from_zip, a member at a time. *)
ExtractMember ==
  /\ stage = "extract" /\ job.archive # <<>>
  /\ LET m == Head(job.archive)
         k == MatchEntry(job.queue, m, job.remaining)
     IN /\ disk' = [i \in Item |-> IF \E x \in k : job.queue[x] = i THEN holds[m.of] ELSE disk[i]]
        /\ job' = [job EXCEPT !.archive = Tail(@), !.remaining = @ \ k,
                              !.extracted = @ \cup {job.queue[x] : x \in k}]
  /\ UNCHANGED <<scenario, remoteVars, stage, listed, rows, mapped, folderOf, filed, settled, moves>>

ExtractEnds ==
  /\ stage = "extract" /\ job.archive = <<>> /\ stage' = "import"
  /\ UNCHANGED <<scenario, remoteVars, job, listed, localVars, settled, moves>>

(* import_downloaded_raindrop_pdf, of the file at the path of i. *)
FolderFor(i) ==
  IF ~job.preserve THEN {job.root} \cap Shelf
  ELSE {c \in Collection : c = ItemOf(i).collection /\ folderOf[c] # Nothing}

Imports(i, c) ==
  /\ rows' = [d \in Content |-> IF d = c THEN i ELSE IF rows[d] = i THEN Nothing ELSE rows[d]]
  /\ mapped' = [j \in Item |-> IF j = i THEN c ELSE IF mapped[j] \in Replaced(c, i) THEN Nothing
                               ELSE mapped[j]]
  /\ filed' = {m \in filed : m[1] \notin Replaced(c, i)} \cup ({c} \X FolderFor(i))
  /\ UNCHANGED folderOf

(* The row is not written, or only the index. *)
NotImported(i) ==
  /\ job' = [job EXCEPT !.queue = Tail(@), !.errors = @ \cup {i}]
  /\ UNCHANGED <<rows, mapped, folderOf, filed>>

ImportExtracted ==
  /\ stage = "import" /\ job.queue # <<>> /\ UNCHANGED disk
  /\ LET i == Head(job.queue)
     IN IF i \notin job.extracted \/ InsertFails(disk[i], i) THEN NotImported(i)
        ELSE Imports(i, disk[i]) /\ job' = [job EXCEPT !.queue = Tail(@)]
  /\ UNCHANGED <<scenario, remoteVars, stage, listed, settled, moves>>

ZipEnds ==
  /\ stage = "import" /\ job.queue = <<>> /\ stage' = "linked"
  /\ job' = [job EXCEPT !.queue = Linked(job.list)]
  /\ UNCHANGED <<scenario, remoteVars, listed, localVars, settled, moves>>

(* import_raindrop_pdfs_individually *)
ImportOne ==
  /\ stage = "linked" /\ job.queue # <<>>
  /\ LET i == Head(job.queue)
     IN \/ /\ ~Downloads(i) \/ May("fault")
           /\ NotImported(i) /\ UNCHANGED disk
        \/ /\ Downloads(i) /\ disk' = [disk EXCEPT ![i] = holds[i]]
           /\ IF InsertFails(holds[i], i) THEN NotImported(i)
              ELSE /\ Imports(i, holds[i])
                   /\ \E indexed \in IF May("fault") THEN BOOLEAN ELSE {TRUE} :
                        job' = [job EXCEPT !.queue = Tail(@),
                                           !.errors = IF indexed THEN @ ELSE @ \cup {i}]
  /\ UNCHANGED <<scenario, remoteVars, stage, listed, settled, moves>>

ImportDone ==
  /\ stage = "linked" /\ job.queue = <<>> /\ stage' = "done"
  /\ settled' = settled \cup (ToSet(job.list) \ job.errors)
  /\ UNCHANGED <<scenario, remoteVars, job, listed, localVars, moves>>
-----------------------------------------------------------------------------
(* Raindrop. *)
AccountChanges ==
  /\ Moved
  /\ \/ /\ May("add") /\ (\E i \in Item \ ToSet(here) : had[i] = {} /\ here' = <<i>> \o here)
        /\ UNCHANGED <<holds, had>>
     \/ /\ May("remove") /\ (\E i \in ToSet(here) : here' = SelectSeq(here, LAMBDA j : j # i))
        /\ UNCHANGED <<holds, had>>
     \/ /\ May("edit") /\ UNCHANGED here
        /\ \E i \in ToSet(here), c \in Content \ UNION {had[j] : j \in Item} :
             /\ holds' = [holds EXCEPT ![i] = c]
             /\ had' = [had EXCEPT ![i] = @ \cup {c}]
  /\ UNCHANGED <<scenario, stage, job, listed, localVars, settled>>

(* The user, between imports. *)
Resting == stage \in {"idle", "done"}

MovesFolder ==
  /\ May("move") /\ Resting /\ Moved
  /\ \E f \in Shelf, p \in Shelf \cup {Top} :
       /\ folderOf[f] # Nothing /\ p # folderOf[f] /\ (p \in Shelf => folderOf[p] # Nothing)
       /\ (p \in Shelf => f \notin Above(p))
       /\ folderOf' = [folderOf EXCEPT ![f] = p]
  /\ stage' = "idle" /\ UNCHANGED <<scenario, remoteVars, job, listed, rows, disk, mapped, filed, settled>>

DeletesFolder ==
  /\ May("delete") /\ Resting /\ Moved
  /\ \E f \in Shelf :
       /\ folderOf[f] # Nothing
       /\ folderOf' = [g \in Shelf |-> IF g \in GoneWith(f) THEN Nothing ELSE folderOf[g]]
       /\ filed' = {m \in filed : m[2] \notin GoneWith(f)}
  /\ stage' = "idle" /\ UNCHANGED <<scenario, remoteVars, job, listed, rows, disk, mapped, settled>>

PurgesPdf ==
  /\ May("purge") /\ Resting /\ Moved
  /\ \E c \in Content :
       /\ rows[c] # Nothing /\ rows' = [rows EXCEPT ![c] = Nothing]
       /\ mapped' = [i \in Item |-> IF mapped[i] = c THEN Nothing ELSE mapped[i]]
       /\ filed' = {m \in filed : m[1] # c}
       /\ settled' = {i \in settled : mapped[i] # c}
  /\ stage' = "idle" /\ UNCHANGED <<scenario, remoteVars, job, listed, disk, folderOf>>
-----------------------------------------------------------------------------
TransferInit ==
  /\ scenario \in Transfers
  /\ here = TheAccount.here
  /\ holds = [i \in Item |-> ItemOf(i).content]
  /\ had = [i \in Item |-> IF i \in ToSet(here) THEN {holds[i]} ELSE {}]
  /\ stage = "idle" /\ job = NoJob /\ listed = [page |-> 0, got |-> <<>>]
  /\ rows = [c \in Content |-> Nothing]
  /\ disk = [i \in Item |-> Nothing] /\ mapped = [i \in Item |-> Nothing]
  /\ folderOf = [f \in Shelf |-> IF f = Mine THEN Top ELSE Nothing] /\ filed = {}
  /\ settled = {} /\ moves = 0

TransferGoesOn ==
  \/ ListPage \/ MirrorCollection \/ MirrorAgain \/ MirrorEnds \/ ZipFails \/ ZipDownloaded
  \/ ExtractMember \/ ExtractEnds \/ ImportExtracted \/ ZipEnds \/ ImportOne \/ ImportDone

TransferNext ==
  \/ StartListing \/ Choose \/ TransferGoesOn \/ AccountChanges
  \/ MovesFolder \/ DeletesFolder \/ PurgesPdf

TransferSpec == TransferInit /\ [][TransferNext]_transferVars
-----------------------------------------------------------------------------
(* Types of the account, the import, the library and its folders. *)
TransferTypeOK ==
  /\ ToSet(here) \subseteq Item /\ stage \in Stages
  /\ holds \in [Item -> Content] /\ rows \in [Content -> Item \cup {Nothing}]
  /\ disk \in [Item -> Content \cup {Nothing}] /\ mapped \in [Item -> Content \cup {Nothing}]
  /\ folderOf \in [Shelf -> Shelf \cup {Top, Nothing}] /\ filed \subseteq Content \X Shelf
  /\ job.errors \subseteq Item /\ job.extracted \subseteq Item /\ settled \subseteq Item

(* A PDF of the export that belongs to a bookmark that was chosen is taken for that one's, *)
(* or for nobody's, whatever names and sizes the bookmarks share, unless a PDF that was     *)
(* not chosen resembles one that was ("so a PDF is never attached to the wrong item").     *)
Told(list) == \A m \in ToSet(TheAccount.export) :
  m.of \in ToSet(list) \/ \A s \in ToSet(Resembling(list, m, DOMAIN list)) : s = {}
PdfsReachTheirItems ==
  [][(stage = "extract" /\ stage' = "extract" /\ Told(job.queue)) =>
       \A k \in job.remaining \ job'.remaining : job.queue[k] = Head(job.archive).of]_transferVars

(* An import that has ended has an error for a bookmark or its PDF in the library, with    *)
(* its file, in the folder of its collection; what earlier imports brought is still there; *)
(* and the folders are in each other as the collections are, below the chosen one.         *)
Brought(i) ==
  /\ mapped[i] # Nothing /\ rows[mapped[i]] # Nothing /\ disk[rows[mapped[i]]] = mapped[i]
  /\ \A f \in FolderFor(i) : <<mapped[i], f>> \in filed
Mirrors(c) ==
  /\ ParentOf(c) \in ToSet(TheAccount.collections) => folderOf[c] = ParentOf(c)
  /\ ParentOf(c) = Nothing => folderOf[c] = job.root
ImportAccounts ==
  /\ Resting => \A i \in settled : mapped[i] # Nothing
  /\ stage = "done" =>
       /\ \A i \in ToSet(job.list) : i \in job.errors \/ Brought(i)
       /\ job.preserve => \A c \in ToSet(TheAccount.collections) : Mirrors(c)
  /\ \A f \in Shelf : folderOf[f] # Nothing => \E g \in Above(f) : folderOf[g] = Top

(* What was chosen is there, and each PDF is the one of its bookmark. *)
ImportsBring == []ImportAccounts /\ PdfsReachTheirItems
=============================================================================
