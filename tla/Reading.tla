------------------------------- MODULE Reading -------------------------------
(* What the viewer keeps of a library entry in the database: the page it was left at, *)
(* saved some time after the last turn of a page and on leaving, and the annotations, *)
(* which the screen changes with each command and takes anew with each reading.       *)
EXTENDS Viewer, SequencesExt

CONSTANT MaxNotes \* bound: annotations made in a behaviour

(* "note": annotations are made, edited and deleted; "refresh": the library is read   *)
(* again, as after a sync; "overlap": a command on annotations does not wait for the  *)
(* last one, nor for a reading, nor a document for them; "race": the library is read  *)
(* before progress is written, a document opens before it is read, and two writes end *)
(* in either order.                                                                   *)
ASSUME ReadingAssumption == MaxNotes \in Nat

VARIABLES
  savedPage,   \* last_page in the database
  shownPage,   \* last_page in library_entries
  lastSaved,   \* last_saved_progress_page
  progressGen, \* progress_save_generation
  debounces,   \* ProgressSaveSettled on their way
  updates,     \* ProgressUpdated on their way
  writes,      \* update_last_page tasks
  reads,       \* readings of the library to come
  readings,    \* LibraryLoaded on their way: the pages that were read
  lastPage,    \* the page on which each document was last seen
  notes,       \* the annotations in the database
  annotations, \* those on the screen, as [id, text]
  draft,       \* annotation_draft
  draftGen,    \* annotation_draft_generation
  noteTasks,   \* commands on annotations: the tasks, and the messages they end with
  loadGen,     \* annotations_load_generation
  noteLoads,   \* readings of annotations
  made         \* annotations made so far

progressVars == <<savedPage, shownPage, lastSaved, progressGen, debounces, updates, writes,
                  reads, readings, lastPage>>
noteVars     == <<notes, annotations, draft, draftGen, noteTasks, loadGen, noteLoads, made>>
readingVars  == <<viewerVars, progressVars, noteVars>>

NoPage == -1
Note == 1 .. MaxNotes
Text == {1, 2}

NoDraft == [kind |-> "none", id |-> 0]
Compose == [kind |-> "compose", id |-> 0]

(* Reading and writing of annotations that must not overlap. *)
NotesIdle == noteTasks = {} /\ noteLoads = {} /\ reads = 0 /\ readings = <<>>
-----------------------------------------------------------------------------
(* Reading progress. *)

(* schedule_reading_progress_save. A page that is saved already leaves an earlier timer be. *)
ScheduleProgress(p) ==
  IF lastSaved = p THEN UNCHANGED <<progressGen, debounces>>
  ELSE /\ progressGen' = progressGen + 1
       /\ debounces' = debounces \cup {[gen |-> progressGen', doc |-> doc, page |-> p]}

(* Mutant: the timers stay valid when nothing is to be saved. *)
FlushKeepsTimers ==
  IF lastSaved = page THEN UNCHANGED <<progressGen, lastSaved, updates>>
  ELSE /\ progressGen' = progressGen + 1 /\ lastSaved' = page
       /\ updates' = Append(updates, [doc |-> doc, page |-> page])

(* flush_reading_progress. *)
FlushProgress ==
  /\ progressGen' = progressGen + 1
  /\ IF lastSaved = page THEN UNCHANGED <<lastSaved, updates>>
     ELSE lastSaved' = page /\ updates' = Append(updates, [doc |-> doc, page |-> page])

ProgressSaveSettled(b) ==
  /\ b \in debounces /\ debounces' = debounces \ {b}
  /\ IF b.gen # progressGen \/ lastSaved = b.page THEN UNCHANGED <<lastSaved, updates>>
     ELSE lastSaved' = b.page /\ updates' = Append(updates, [doc |-> b.doc, page |-> b.page])
  /\ UNCHANGED <<viewerVars, savedPage, shownPage, progressGen, writes, reads, readings,
                 lastPage, noteVars>>

ProgressUpdated ==
  /\ updates # <<>> /\ updates' = Tail(updates)
  /\ shownPage' = [shownPage EXCEPT ![Head(updates).doc] = Head(updates).page]
  /\ writes' = Append(writes, Head(updates))
  /\ UNCHANGED <<viewerVars, savedPage, lastSaved, progressGen, debounces, reads, readings,
                 lastPage, noteVars>>

WriteProgress(i) ==
  /\ i \in DOMAIN writes
  /\ i = 1 \/ "race" \in happens
  /\ savedPage' = [savedPage EXCEPT ![writes[i].doc] = writes[i].page]
  /\ writes' = RemoveAt(writes, i)
  /\ UNCHANGED <<viewerVars, shownPage, lastSaved, progressGen, debounces, updates, reads,
                 readings, lastPage, noteVars>>

(* refresh_library. *)
ReadLibrary ==
  /\ reads > 0 /\ reads' = reads - 1
  /\ "race" \in happens \/ (updates = <<>> /\ writes = <<>>)
  /\ readings' = Append(readings, savedPage)
  /\ UNCHANGED <<viewerVars, savedPage, shownPage, lastSaved, progressGen, debounces, updates,
                 writes, lastPage, noteVars>>
-----------------------------------------------------------------------------
(* Annotations. *)

(* load_annotations_task. *)
LoadAnnotations(d) ==
  /\ loadGen' = loadGen + 1
  /\ noteLoads' = IF "note" \notin happens THEN {}
                  ELSE noteLoads \cup {[doc |-> d, gen |-> loadGen', phase |-> "read", found |-> {}]}

ReadAnnotations(l) ==
  /\ l \in noteLoads /\ l.phase = "read"
  /\ noteLoads' = (noteLoads \ {l}) \cup
       {[l EXCEPT !.phase = "done", !.found = {n \in notes : n.doc = l.doc}]}
  /\ UNCHANGED <<viewerVars, progressVars, notes, annotations, draft, draftGen, noteTasks,
                 loadGen, made>>

(* Mutant: the last to come is shown, whatever document it is about. *)
AnnotationsLoadedAlways(l) ==
  /\ l \in noteLoads /\ l.phase = "done" /\ noteLoads' = noteLoads \ {l}
  /\ annotations' = SetToSeq({[id |-> n.id, text |-> n.text] : n \in l.found})
  /\ UNCHANGED <<viewerVars, progressVars, notes, draft, draftGen, noteTasks, loadGen, made>>

AnnotationsLoaded(l) ==
  /\ l \in noteLoads /\ l.phase = "done" /\ noteLoads' = noteLoads \ {l}
  /\ IF l.gen = loadGen /\ l.doc = doc
     THEN annotations' = SetToSeq({[id |-> n.id, text |-> n.text] : n \in l.found})
     ELSE UNCHANGED annotations
  /\ UNCHANGED <<viewerVars, progressVars, notes, draft, draftGen, noteTasks, loadGen, made>>

NoteInput ==
  /\ Does("note") /\ mode = "viewer"
  /\ NotesIdle \/ "overlap" \in happens
  /\ UNCHANGED <<mode, doc, page, tileVars, textVars, openings, errorVars, happens, progressVars,
                 notes, annotations, loadGen, noteLoads>>

(* A draft takes the place of another, or none does. *)
Drafted(d) == draft' = d /\ draftGen' = draftGen + 1

(* StartAnnotationCompose and AnnotationEditStarted. *)
StartDraft ==
  /\ NoteInput /\ UNCHANGED <<noteTasks, made>>
  /\ \/ Drafted(Compose)
     \/ \E i \in DOMAIN annotations : Drafted([kind |-> "edit", id |-> annotations[i].id])

CancelDraft ==
  /\ NoteInput /\ draft # NoDraft /\ Drafted(NoDraft) /\ UNCHANGED <<noteTasks, made>>

NoteTask(kind, id, text) ==
  [kind |-> kind, id |-> id, text |-> text, doc |-> doc, gen |-> draftGen, phase |-> "write"]

(* AnnotationCreateSubmitted, AnnotationEditSubmitted and AnnotationDeleteRequested: *)
(* the draft stays until the task has ended.                                         *)
SubmitNote ==
  /\ NoteInput /\ UNCHANGED <<draft, draftGen>>
  /\ \/ /\ draft = Compose /\ made < MaxNotes /\ made' = made + 1
        /\ noteTasks' = noteTasks \cup {NoteTask("create", made', 1)}
     \/ /\ draft.kind = "edit" /\ UNCHANGED made
        /\ noteTasks' = noteTasks \cup {NoteTask("edit", draft.id, 2)}
     \/ /\ UNCHANGED made
        /\ \E i \in DOMAIN annotations :
             noteTasks' = noteTasks \cup {NoteTask("delete", annotations[i].id, 1)}

(* An annotation that is gone cannot be edited; deleting it again is no error. *)
WriteNote(x) ==
  LET row == [id |-> x.id, doc |-> x.doc, text |-> x.text]
      old == {n \in notes : n.id = x.id}
      fails == x.kind = "edit" /\ old = {}
  IN /\ x \in noteTasks /\ x.phase = "write"
     /\ notes' = (notes \ old) \cup (IF x.kind = "delete" \/ fails THEN {} ELSE {row})
     /\ noteTasks' = (noteTasks \ {x}) \cup
          {[x EXCEPT !.phase = IF fails THEN "failed" ELSE "done"]}
     /\ UNCHANGED <<viewerVars, progressVars, annotations, draft, draftGen, loadGen, noteLoads,
                    made>>

(* Mutant: whatever is being composed is dropped. *)
EndsDraftAny(x) ==
  IF x.kind = "create" THEN draft = Compose ELSE draft = [kind |-> "edit", id |-> x.id]

(* clear_compose_draft_if_generation and clear_edit_draft_if. *)
EndsDraft(x) ==
  IF x.kind = "create" THEN draft = Compose /\ draftGen = x.gen
  ELSE draft = [kind |-> "edit", id |-> x.id]

(* The first annotation of that id on the screen, and the others (find and retain). Their *)
(* order, by place in the document, is left out.                                          *)
IsFirst(i, id) == annotations[i].id = id /\ \A j \in 1 .. i - 1 : annotations[j].id # id

WithoutNote(id) ==
  LET others == SetToSeq({i \in DOMAIN annotations : annotations[i].id # id})
  IN  [k \in DOMAIN others |-> annotations[others[k]]]

(* AnnotationCreateFinished, AnnotationEditFinished and AnnotationDeleteFinished: no *)
(* look at the document that is open now.                                            *)
NoteFinished(x) ==
  /\ x \in noteTasks /\ x.phase \in {"done", "failed"} /\ noteTasks' = noteTasks \ {x}
  /\ IF x.phase = "done" /\ EndsDraft(x) THEN Drafted(NoDraft) ELSE UNCHANGED <<draft, draftGen>>
  /\ IF x.phase = "failed" THEN error' \in ErrorText ELSE error' = error
  /\ annotations' =
       IF x.phase = "failed" THEN annotations
       ELSE CASE x.kind = "create" -> Append(annotations, [id |-> x.id, text |-> x.text])
         [] x.kind = "edit" -> [i \in DOMAIN annotations |-> IF IsFirst(i, x.id)
                 THEN [annotations[i] EXCEPT !.text = x.text] ELSE annotations[i]]
         [] OTHER -> WithoutNote(x.id)
  /\ UNCHANGED <<mode, doc, page, tileVars, textVars, dismissed, openings, views, happens,
                 progressVars, notes, loadGen, noteLoads, made>>
-----------------------------------------------------------------------------
(* The handlers of Viewer that concern the entry. *)

(* A document opens at the page that the list of entries has. *)
EntryOpened(d) ==
  /\ "overlap" \in happens \/ noteTasks = {}
  /\ "race" \in happens \/ (updates = <<>> /\ reads = 0 /\ readings = <<>>)
  /\ DocumentOpened(d, shownPage[d])
  /\ lastSaved' = shownPage[d] /\ progressGen' = progressGen + 1
  /\ lastPage' = [lastPage EXCEPT ![d] = shownPage[d]]
  /\ annotations' = <<>> /\ LoadAnnotations(d)
  /\ IF draft = NoDraft THEN UNCHANGED <<draft, draftGen>> ELSE Drafted(NoDraft)
  /\ UNCHANGED <<savedPage, shownPage, debounces, updates, writes, reads, readings, notes,
                 noteTasks, made>>

EntryTurned ==
  /\ TurnPage /\ ScheduleProgress(page')
  /\ lastPage' = [lastPage EXCEPT ![doc] = page']
  /\ UNCHANGED <<savedPage, shownPage, lastSaved, updates, writes, reads, readings, noteVars>>

EntryLeft ==
  /\ "overlap" \in happens \/ noteTasks = {}
  /\ BackToLibrary /\ FlushProgress /\ reads' = reads + 1
  /\ UNCHANGED <<savedPage, shownPage, debounces, writes, readings, lastPage, noteVars>>

(* Another library, with its own database: what becomes of this one is not followed. *)
EntryClosed == SelectLibrary /\ UNCHANGED <<progressVars, noteVars>>

(* LibraryLoaded: the annotations of the open document are read again. *)
EntriesLoaded ==
  /\ readings # <<>> /\ readings' = Tail(readings) /\ shownPage' = Head(readings)
  /\ IF doc = NoDoc THEN UNCHANGED <<loadGen, noteLoads>> ELSE LoadAnnotations(doc)
  /\ UNCHANGED <<viewerVars, savedPage, lastSaved, progressGen, debounces, updates, writes,
                 reads, lastPage, notes, annotations, draft, draftGen, noteTasks, made>>

LibraryRefreshed ==
  /\ Does("refresh") /\ reads' = reads + 1
  /\ "overlap" \in happens \/ noteTasks = {}
  /\ UNCHANGED <<mode, doc, page, tileVars, textVars, openings, errorVars, happens, savedPage,
                 shownPage, lastSaved, progressGen, debounces, updates, writes, readings,
                 lastPage, noteVars>>
-----------------------------------------------------------------------------
ReadingInit ==
  /\ ViewerInit
  /\ savedPage = [d \in Doc |-> 0] /\ shownPage = savedPage /\ lastPage = savedPage
  /\ lastSaved = NoPage /\ progressGen = 0 /\ debounces = {} /\ updates = <<>> /\ writes = <<>>
  /\ reads = 0 /\ readings = <<>>
  /\ notes = {} /\ annotations = <<>> /\ draft = NoDraft /\ draftGen = 0 /\ noteTasks = {}
  /\ loadGen = 0 /\ noteLoads = {} /\ made = 0

ProgressStep ==
  \/ ProgressUpdated \/ ReadLibrary \/ EntriesLoaded
  \/ \E b \in debounces : ProgressSaveSettled(b)
  \/ \E i \in DOMAIN writes : WriteProgress(i)

NoteStep ==
  \/ \E l \in noteLoads : ReadAnnotations(l) \/ AnnotationsLoaded(l)
  \/ \E x \in noteTasks : WriteNote(x) \/ NoteFinished(x)

ReadingUser ==
  \/ ViewerInput /\ UNCHANGED <<progressVars, noteVars>>
  \/ EntryTurned \/ EntryLeft \/ EntryClosed \/ LibraryRefreshed
  \/ StartDraft \/ CancelDraft \/ SubmitNote

ReadingGoesOn ==
  \/ ViewerResult /\ UNCHANGED <<progressVars, noteVars>>
  \/ \E d \in openings : EntryOpened(d)
  \/ ProgressStep \/ NoteStep

ReadingNext == ReadingUser \/ ReadingGoesOn

ReadingFairness == WF_readingVars(ReadingGoesOn)

ReadingSpec == ReadingInit /\ [][ReadingNext]_readingVars /\ ReadingFairness
-----------------------------------------------------------------------------
ReadingTypeOK ==
  /\ ViewerTypeOK
  /\ savedPage \in [Doc -> Pages] /\ shownPage \in [Doc -> Pages] /\ lastPage \in [Doc -> Pages]
  /\ lastSaved \in Pages \cup {NoPage} /\ progressGen \in Nat
  /\ debounces \subseteq [gen : 1 .. progressGen, doc : Doc, page : Pages]
  /\ updates \in Seq([doc : Doc, page : Pages]) /\ writes \in Seq([doc : Doc, page : Pages])
  /\ reads \in Nat /\ readings \in Seq([Doc -> Pages])
  /\ notes \subseteq [id : Note, doc : Doc, text : Text]
  /\ annotations \in Seq([id : Note, text : Text])
  /\ draft \in {NoDraft, Compose} \cup [kind : {"edit"}, id : Note] /\ draftGen \in Nat
  /\ \A x \in noteTasks : x.id \in Note /\ x.doc \in Doc /\ x.gen \in 0 .. draftGen
  /\ \A l \in noteLoads : l.doc \in Doc /\ l.gen \in 1 .. loadGen
  /\ made \in 0 .. MaxNotes

(* Back in the library, when all is written, every entry has the page on which it was *)
(* last seen, in the database and in the list, however the pages were turned between  *)
(* two saves (state.rs: leaving "invalidates pending debounced saves"). It does not   *)
(* hold when the next document is opened without leaving the last one, nor when the   *)
(* library is read before the page is written.                                        *)
PageRemembered ==
  (/\ mode = "library" /\ openings = {} /\ updates = <<>> /\ writes = <<>>
   /\ reads = 0 /\ readings = <<>> /\ happens \cap {"hasty", "race", "switch"} = {})
  => savedPage = lastPage /\ shownPage = lastPage

(* When readings and commands have ended, the screen has the annotations of the       *)
(* document that is open, each once and with its text, whatever documents were opened *)
(* and refreshed meanwhile. It does not hold when a command overlaps a reading or     *)
(* another document.                                                                  *)
AnnotationsMatchStore ==
  (doc # NoDoc /\ NotesIdle /\ "note" \in happens /\ happens \cap {"overlap", "switch"} = {}) =>
    /\ Cardinality(DOMAIN annotations) = Cardinality({n \in notes : n.doc = doc})
    /\ \A n \in notes : n.doc = doc =>
         \E i \in DOMAIN annotations : annotations[i] = [id |-> n.id, text |-> n.text]

(* A command on an annotation that ends leaves a draft alone that was begun after it *)
(* (update.rs: "so a slower create cannot clear a newer compose/edit that replaced   *)
(* this form while the task ran"), and an edit of another annotation.                *)
NewerDraftSurvives ==
  [][\A x \in noteTasks :
       (/\ x.phase \in {"done", "failed"} /\ x \notin noteTasks'
        /\ \/ x.kind = "create" /\ draftGen # x.gen
           \/ x.kind # "create" /\ draft # [kind |-> "edit", id |-> x.id])
       => draft' = draft]_readingVars
=============================================================================
