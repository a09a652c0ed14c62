---------------------------- MODULE ReadingProofs ----------------------------
(* Proofs about Desktop: the document in the viewer, the page and the annotations that are *)
(* kept of it, whatever commands, readings, renders and imports go on beside them.          *)
EXTENDS DesktopProofs
-----------------------------------------------------------------------------
(* What the viewer keeps: types, and whose pictures and texts they are. *)
Renders  == [doc : Doc, key : Key, gen : Nat]
Extracts == [doc : Doc, page : Pages, gen : Nat]

ScreenTyped ==
  /\ mode \in {"library", "viewer"} /\ doc \in Doc \cup {NoDoc} /\ page \in Pages
  /\ mode = "viewer" => doc # NoDoc
  /\ width \in Width /\ thumbnails \in BOOLEAN /\ findOpen \in BOOLEAN
  /\ error \in ErrorText \cup {NoError} /\ dismissed \subseteq ErrorText
  /\ openings \subseteq Doc
  /\ happens \in ViewerScenarios /\ views \in Nat /\ views <= MaxViews[happens]
TilesTyped ==
  /\ zoomGen \in Nat /\ (doc # NoDoc => zoomGen > 0)
  /\ tiles \in [Key -> Doc \cup {NoDoc}] /\ pending \in [Key -> Int]
  /\ \A k \in Key : NotPending <= pending[k] /\ pending[k] <= zoomGen
  /\ renders \subseteq Renders
  /\ \A r \in renders : r.gen <= zoomGen /\ (r.gen = Unnumbered <=> r.key[2] = Thumb)
  /\ settles \subseteq Nat /\ \A g \in settles : g > 0 /\ g <= zoomGen
TextTyped ==
  /\ docGen \in Nat /\ (doc # NoDoc => docGen > 0)
  /\ layers \in [Pages -> Doc \cup {NoDoc}] /\ pendingLayers \subseteq Pages
  /\ extracts \subseteq Extracts /\ \A x \in extracts : x.gen > 0 /\ x.gen <= docGen
  /\ findGen \in Nat /\ continues \subseteq Nat /\ \A g \in continues : g > 0 /\ g <= findGen

(* A render or a text that is still wanted is of the document that is open. *)
TilesHeld == doc # NoDoc =>
  /\ \A r \in renders :
       r.gen = zoomGen \/ (r.gen = Unnumbered /\ "quick" \notin happens) => r.doc = doc
  /\ \A k \in Key : k[2] # Thumb \/ "quick" \notin happens => tiles[k] \in {NoDoc, doc}
TextHeld == doc # NoDoc =>
  /\ \A x \in extracts : x.gen = docGen => x.doc = doc
  /\ \A p \in Pages : layers[p] \in {NoDoc, doc}
TilePart   == TilesTyped /\ TilesHeld
TextPart   == TextTyped /\ TextHeld
ViewerHeld == ScreenTyped /\ TilePart /\ TextPart
-----------------------------------------------------------------------------
(* What a list of pages that wait to be written leaves for a document. *)
Saves == [doc : Doc, page : Pages]
Spared(s, d)    == \A i \in DOMAIN s : s[i].doc # d
Leaves(s, d, p) == \E i \in DOMAIN s :
  s[i].doc = d /\ s[i].page = p /\ \A j \in DOMAIN s : j > i => s[j].doc # d

(* The page that a document comes to have, when all is written in turn. *)
Comes(d, p) ==
  \/ Leaves(updates, d, p)
  \/ Spared(updates, d) /\ (Leaves(writes, d, p) \/ (Spared(writes, d) /\ savedPage[d] = p))

ProgressTyped ==
  /\ savedPage \in [Doc -> Pages] /\ shownPage \in [Doc -> Pages] /\ lastPage \in [Doc -> Pages]
  /\ lastSaved \in Pages \cup {NoPage} /\ progressGen \in Nat
  /\ debounces \subseteq [gen : Nat, doc : Doc, page : Pages]
  /\ \A b \in debounces : b.gen > 0 /\ b.gen <= progressGen
  /\ updates \in Seq(Saves) /\ writes \in Seq(Saves)
  /\ reads \in Nat /\ readings \in Seq([Doc -> Pages])

Orderly == happens \cap {"hasty", "race", "switch"} = {}

(* One document at a time is opened, out of the library; each comes to have the page on  *)
(* which it was last seen, the open one the page that was saved last, and a timer that is *)
(* not invalid yet is for that one. In the library the list has the same, or the last of   *)
(* the readings that wait.                                                                *)
ProgressHeld == Orderly =>
  /\ openings # {} => mode = "library" /\ \A c, d \in openings : c = d
  /\ doc # NoDoc => Comes(doc, lastSaved) /\ lastPage[doc] = page
  /\ \A d \in Doc : (d # doc \/ mode = "library") => Comes(d, lastPage[d])
  /\ \A b \in debounces : b.gen = progressGen => mode = "viewer" /\ b.doc = doc
  /\ (mode = "library" /\ reads = 0) =>
       /\ updates = <<>> /\ writes = <<>>
       /\ readings = <<>> => shownPage = savedPage
       /\ readings # <<>> => readings[Len(readings)] = savedPage
-----------------------------------------------------------------------------
(* Annotations. *)
Notes   == [id : Note, doc : Doc, text : Text]
Shows   == [id : Note, text : Text]
NoteTasks == [kind : {"create", "edit", "delete"}, id : Note, text : Text, doc : Doc, gen : Nat,
              phase : {"write", "done", "failed"}]
NoteLoads == [doc : Doc, gen : Nat, phase : {"read", "done"}, found : SUBSET Notes]

(* Every annotation has its id for itself. *)
OneEach(s) == \A n, m \in s : n.id = m.id => n = m
RowOf(n)     == [id |-> n.id, text |-> n.text]
OwnNotes        == {n \in notes : n.doc = doc}

NotesTyped ==
  /\ notes \subseteq Notes /\ OneEach(notes) /\ annotations \in Seq(Shows)
  /\ draft \in {NoDraft, Compose} \cup [kind : {"edit"}, id : Note] /\ draftGen \in Nat
  /\ noteTasks \subseteq NoteTasks /\ \A x \in noteTasks : x.gen <= draftGen
  /\ loadGen \in Nat /\ noteLoads \subseteq NoteLoads
  /\ \A l \in noteLoads : l.gen > 0 /\ l.gen <= loadGen /\ OneEach(l.found)
  /\ made \in Nat /\ made <= MaxNotes
  /\ \A n \in notes : n.id <= made
  /\ \A x \in noteTasks : x.kind = "create" => x.text = 1 /\ x.id <= made

(* The list has these annotations, each once. *)
Lists(a, s) ==
  /\ \A i, j \in DOMAIN a : a[i].id = a[j].id => i = j
  /\ \A i \in DOMAIN a : \E n \in s : a[i] = RowOf(n)
  /\ \A n \in s : \E i \in DOMAIN a : a[i] = RowOf(n)

(* What the list has before the result of a command comes to it. *)
NoteOf(id, text) == [id |-> id, doc |-> doc, text |-> text]
OtherNotes(id)   == {n \in OwnNotes : n.id # id}
Behind(x) ==
  IF x.phase # "done" THEN Lists(annotations, OwnNotes)
  ELSE /\ IF x.kind = "delete" THEN \A n \in notes : n.id # x.id ELSE NoteOf(x.id, x.text) \in notes
       /\ IF x.kind = "create" THEN Lists(annotations, OtherNotes(x.id))
          ELSE \E t \in Text : Lists(annotations, OtherNotes(x.id) \cup {NoteOf(x.id, t)})

NotesAlone == "note" \in happens /\ happens \cap {"overlap", "switch"} = {} /\ orders = 0

NotesHeld == NotesAlone =>
  /\ noteTasks # {} => /\ doc # NoDoc /\ noteLoads = {} /\ reads = 0 /\ readings = <<>>
                       /\ \A x, y \in noteTasks : x = y
  /\ \A x \in noteTasks :
       /\ x.doc = doc /\ Behind(x)
       /\ x.phase = "write" => /\ \A n \in notes : n.id = x.id => n.doc = doc
                               /\ x.kind = "create" => \A n \in notes : n.id # x.id
                               /\ x.kind = "delete" => \E n \in notes : n.id = x.id
  /\ \A l \in noteLoads : l.gen = loadGen => l.doc = doc /\ (l.phase = "done" => l.found = OwnNotes)
  /\ (doc # NoDoc /\ noteTasks = {}) =>
       (\E l \in noteLoads : l.gen = loadGen) \/ Lists(annotations, OwnNotes)
  /\ draft.kind = "edit" => doc # NoDoc /\ \A n \in notes : n.id = draft.id => n.doc = doc
  /\ doc = NoDoc => notes = {} /\ annotations = <<>>

ReadingInv == ViewerHeld /\ ProgressTyped /\ ProgressHeld /\ NotesTyped /\ NotesHeld
-----------------------------------------------------------------------------
(* Pictures are asked for of the document that is open, and so is text. *)
LEMMA TilesAsked ==
  ASSUME NEW pages \in SUBSET Pages, NEW before \in [Key -> Int], RequestTiles(pages, before),
         width' \in Width, doc' \in Doc, zoomGen' \in Nat, zoomGen' > 0, renders \subseteq Renders,
         \A k \in Key : NotPending <= before[k] /\ before[k] <= zoomGen',
         \A r \in renders : r.gen <= zoomGen' /\ (r.gen = Unnumbered <=> r.key[2] = Thumb)
  PROVE  /\ pending' \in [Key -> Int]
         /\ \A k \in Key : NotPending <= pending'[k] /\ pending'[k] <= zoomGen'
         /\ renders' \subseteq Renders
         /\ \A r \in renders' : r.gen <= zoomGen' /\ (r.gen = Unnumbered <=> r.key[2] = Thumb)
         /\ \A r \in renders' : r \in renders \/ r.doc = doc'
<1> DEFINE full  == {k \in pages \X {width'} : "render" \in happens /\ Missing(k, before)}
           small == {k \in Pages \X {Thumb} : thumbnails' /\ MissingThumbnail(k, before)}
<1>1. /\ full \subseteq Key /\ \A k \in full : k[2] # Thumb
      /\ small \subseteq Key /\ \A k \in small : k[2] = Thumb
  BY ViewerAssumption DEF Key
<1>2. /\ pending' = [k \in Key |-> IF k \in full THEN zoomGen'
                                   ELSE IF k \in small THEN Unnumbered ELSE before[k]]
      /\ renders' = renders
           \cup {[doc |-> doc', key |-> k, gen |-> zoomGen'] : k \in full}
           \cup {[doc |-> doc', key |-> k, gen |-> Unnumbered] : k \in small}
  BY DEF RequestTiles
<1> HIDE DEF full, small
<1>3. \A r \in renders' : \/ r \in renders
                          \/ \E k \in full : r = [doc |-> doc', key |-> k, gen |-> zoomGen']
                          \/ \E k \in small : r = [doc |-> doc', key |-> k, gen |-> Unnumbered]
  BY <1>2
<1>4. \A k \in Key : /\ pending'[k] \in Int
                     /\ NotPending <= pending'[k] /\ pending'[k] <= zoomGen'
  BY <1>2 DEF Unnumbered, NotPending
<1>5. ASSUME NEW r \in renders', r \notin renders
      PROVE  /\ r \in Renders /\ r.gen <= zoomGen' /\ r.doc = doc'
             /\ r.gen = Unnumbered <=> r.key[2] = Thumb
  BY <1>1, <1>3, <1>5 DEF Unnumbered, Renders
<1> QED BY <1>2, <1>4, <1>5

LEMMA TextAsked ==
  ASSUME NEW pages \in SUBSET Pages, NEW before \in SUBSET Pages, RequestText(pages, before),
         doc' \in Doc, docGen' \in Nat, docGen' > 0, extracts \subseteq Extracts,
         \A x \in extracts : x.gen > 0 /\ x.gen <= docGen'
  PROVE  /\ pendingLayers' \subseteq Pages /\ extracts' \subseteq Extracts
         /\ \A x \in extracts' : x.gen > 0 /\ x.gen <= docGen'
         /\ \A x \in extracts' : x \in extracts \/ x.doc = doc'
<1> DEFINE wanted == {p \in pages : "find" \in happens /\ layers'[p] = NoDoc /\ p \notin before}
<1>1. /\ pendingLayers' = before \cup wanted /\ wanted \subseteq Pages
      /\ extracts' = extracts \cup {[doc |-> doc', page |-> p, gen |-> docGen'] : p \in wanted}
  BY DEF RequestText
<1> HIDE DEF wanted
<1>2. ASSUME NEW x \in extracts', x \notin extracts
      PROVE  x \in Extracts /\ x.gen = docGen' /\ x.doc = doc'
  BY <1>1, <1>2 DEF Extracts
<1> QED BY <1>1, <1>2

(* The parts of the viewer, in a step that asks for nothing or for the document that is open. *)
LEMMA TilesStay ==
  ASSUME ViewerHeld, UNCHANGED <<doc, happens, zoomGen, tiles>>, renders' \subseteq renders,
         settles' \subseteq settles, pending' = pending \/ pending' = Idling
  PROVE  TilePart'
<1>1. pending' \in [Key -> Int] /\ \A k \in Key : NotPending <= pending'[k] /\ pending'[k] <= zoomGen
  BY DEF ViewerHeld, TilePart, TilesTyped, Idling, NotPending
<1> QED BY <1>1 DEF ViewerHeld, TilePart, TilesTyped, TilesHeld

LEMMA TilesFollow ==
  ASSUME ViewerHeld, doc # NoDoc, UNCHANGED <<doc, happens, tiles>>,
         zoomGen' \in {zoomGen, zoomGen + 1}, settles' \subseteq settles \cup {zoomGen'},
         width' \in Width, NEW pages \in SUBSET Pages, RequestTiles(pages, pending)
  PROVE  TilePart'
<1>1. zoomGen \in Nat /\ zoomGen > 0 /\ zoomGen' \in Nat /\ zoomGen' > 0 /\ zoomGen <= zoomGen'
  BY DEF ViewerHeld, TilePart, TilesTyped
<1>2. doc' \in Doc BY DEF ViewerHeld, ScreenTyped
<1>3. /\ pending \in [Key -> Int] /\ \A k \in Key : NotPending <= pending[k] /\ pending[k] <= zoomGen'
      /\ renders \subseteq Renders
      /\ \A r \in renders : r.gen <= zoomGen' /\ (r.gen = Unnumbered <=> r.key[2] = Thumb)
  BY <1>1 DEF ViewerHeld, TilePart, TilesTyped, Renders, NotPending
<1>4. /\ pending' \in [Key -> Int]
      /\ \A k \in Key : NotPending <= pending'[k] /\ pending'[k] <= zoomGen'
      /\ renders' \subseteq Renders
      /\ \A r \in renders' : r.gen <= zoomGen' /\ (r.gen = Unnumbered <=> r.key[2] = Thumb)
      /\ \A r \in renders' : r \in renders \/ r.doc = doc'
  BY <1>1, <1>2, <1>3, TilesAsked
<1>5. \A r \in renders : r.gen <= zoomGen /\ r.gen \in Nat
  BY DEF ViewerHeld, TilePart, TilesTyped, Renders
<1>6. settles' \subseteq Nat /\ \A g \in settles' : g > 0 /\ g <= zoomGen'
  BY <1>1 DEF ViewerHeld, TilePart, TilesTyped
<1>7. TilesHeld'
  BY <1>1, <1>4, <1>5 DEF ViewerHeld, TilePart, TilesHeld
<1> QED BY <1>1, <1>4, <1>6, <1>7 DEF ViewerHeld, TilePart, TilesTyped

LEMMA TextStays ==
  ASSUME ViewerHeld, UNCHANGED <<doc, docGen, layers>>, extracts' \subseteq extracts,
         pendingLayers' \subseteq pendingLayers, findGen' \in {findGen, findGen + 1},
         continues' \subseteq continues \/ (findGen' = findGen + 1 /\ continues' \subseteq continues \cup {findGen'})
  PROVE  TextPart'
<1>2. findGen \in Nat /\ continues \subseteq Nat /\ \A g \in continues : g > 0 /\ g <= findGen
  BY DEF ViewerHeld, TextPart, TextTyped
<1>3. continues' \subseteq Nat /\ findGen' \in Nat /\ \A g \in continues' : g > 0 /\ g <= findGen'
  <2>1. findGen' \in Nat /\ findGen <= findGen' BY <1>2
  <2>2. \A g \in continues' : g \in continues \/ (g = findGen' /\ g > 0)
    BY <1>2
  <2>3. ASSUME NEW g \in continues' PROVE g \in Nat /\ g > 0 /\ g <= findGen'
    <3>1. CASE g \in continues BY <1>2, <2>1, <3>1
    <3>2. CASE g = findGen' /\ g > 0 BY <2>1, <3>2
    <3> QED BY <2>2, <3>1, <3>2
  <2> QED BY <2>1, <2>3
<1>4. TextHeld' BY DEF ViewerHeld, TextPart, TextHeld
<1> QED BY <1>3, <1>4 DEF ViewerHeld, TextPart, TextTyped

LEMMA TextFollows ==
  ASSUME ViewerHeld, doc # NoDoc, UNCHANGED <<doc, docGen, layers>>,
         NEW pages \in SUBSET Pages, RequestText(pages, pendingLayers),
         \/ UNCHANGED <<findGen, continues>>
         \/ findGen' = findGen + 1 /\ continues' \subseteq continues \cup {findGen'}
  PROVE  TextPart'
<1>1. doc' \in Doc /\ docGen' \in Nat /\ docGen' > 0
  BY DEF ViewerHeld, ScreenTyped, TextPart, TextTyped
<1>2. /\ pendingLayers \in SUBSET Pages /\ extracts \subseteq Extracts
      /\ \A x \in extracts : x.gen > 0 /\ x.gen <= docGen'
  BY DEF ViewerHeld, TextPart, TextTyped
<1>3. /\ pendingLayers' \subseteq Pages /\ extracts' \subseteq Extracts
      /\ \A x \in extracts' : x.gen > 0 /\ x.gen <= docGen'
      /\ \A x \in extracts' : x \in extracts \/ x.doc = doc'
  BY <1>1, <1>2, TextAsked
<1>4. continues' \subseteq Nat /\ findGen' \in Nat /\ \A g \in continues' : g > 0 /\ g <= findGen'
  <2>1. findGen \in Nat /\ continues \subseteq Nat /\ \A g \in continues : g > 0 /\ g <= findGen
    BY DEF ViewerHeld, TextPart, TextTyped
  <2>2. findGen' \in Nat /\ findGen <= findGen' BY <2>1
  <2>3. \A g \in continues' : g \in continues \/ (g = findGen' /\ g > 0) BY <2>1
  <2>4. ASSUME NEW g \in continues' PROVE g \in Nat /\ g > 0 /\ g <= findGen'
    <3>1. CASE g \in continues BY <2>1, <2>2, <3>1
    <3>2. CASE g = findGen' /\ g > 0 BY <2>2, <3>2
    <3> QED BY <2>3, <3>1, <3>2
  <2> QED BY <2>2, <2>4
<1> QED BY <1>1, <1>3, <1>4 DEF ViewerHeld, TextPart, TextTyped, TextHeld

(* A document that opens begins with nothing; what is on its way is not wanted any more. *)
LEMMA DocumentInstalls ==
  ASSUME ViewerHeld, NEW d \in Doc, NEW p \in Pages, DocumentOpened(d, p)
  PROVE  ViewerHeld'
<1>1. /\ Installed(d, p) /\ doc' = d /\ doc' # NoDoc /\ page' = p /\ mode' = "viewer"
      /\ width' \in Width /\ zoomGen' = zoomGen + 1 /\ docGen' = docGen + 1
      /\ RequestTiles({0, p}, Idling) /\ RequestText({0, p}, {})
      /\ tiles' = Blank /\ layers' = NoText /\ UNCHANGED <<settles, continues, views, happens>>
      /\ findGen' = findGen + 1 /\ {0, p} \in SUBSET Pages
  BY ViewerAssumption DEF DocumentOpened, Installed, Pages
<1>2. zoomGen \in Nat /\ zoomGen' \in Nat /\ zoomGen' > 0 /\ docGen \in Nat /\ docGen' \in Nat /\ docGen' > 0
  BY <1>1 DEF ViewerHeld, TilePart, TilesTyped, TextPart, TextTyped
<1>3. /\ Idling \in [Key -> Int] /\ \A k \in Key : NotPending <= Idling[k] /\ Idling[k] <= zoomGen'
  BY <1>2 DEF Idling, NotPending
<1>4. /\ renders \subseteq Renders
      /\ \A r \in renders : /\ r.gen \in Nat /\ r.gen <= zoomGen /\ r.gen <= zoomGen'
                            /\ (r.gen = Unnumbered <=> r.key[2] = Thumb)
  BY <1>1, <1>2 DEF ViewerHeld, TilePart, TilesTyped, Renders
<1>5. /\ pending' \in [Key -> Int]
      /\ \A k \in Key : NotPending <= pending'[k] /\ pending'[k] <= zoomGen'
      /\ renders' \subseteq Renders
      /\ \A r \in renders' : r.gen <= zoomGen' /\ (r.gen = Unnumbered <=> r.key[2] = Thumb)
      /\ \A r \in renders' : r \in renders \/ r.doc = doc'
  BY <1>1, <1>2, <1>3, <1>4, TilesAsked
<1>6. "quick" \notin happens => \A r \in renders : r.gen # Unnumbered
  BY DEF DocumentOpened
<1>7. TilePart'
  <2>1. tiles' \in [Key -> Doc \cup {NoDoc}] /\ \A k \in Key : tiles'[k] = NoDoc
    BY <1>1 DEF Blank
  <2>2. settles' \subseteq Nat /\ \A g \in settles' : g > 0 /\ g <= zoomGen'
    BY <1>1 DEF ViewerHeld, TilePart, TilesTyped
  <2>3. TilesHeld' BY <1>1, <1>2, <1>4, <1>5, <1>6, <2>1 DEF TilesHeld
  <2> QED BY <1>2, <1>5, <2>1, <2>2, <2>3 DEF TilePart, TilesTyped
<1>8. /\ extracts \subseteq Extracts
      /\ \A x \in extracts : x.gen \in Nat /\ x.gen > 0 /\ x.gen <= docGen /\ x.gen <= docGen'
  BY <1>1, <1>2 DEF ViewerHeld, TextPart, TextTyped, Extracts
<1>9. /\ pendingLayers' \subseteq Pages /\ extracts' \subseteq Extracts
      /\ \A x \in extracts' : x.gen > 0 /\ x.gen <= docGen'
      /\ \A x \in extracts' : x \in extracts \/ x.doc = doc'
  <2>1. {} \in SUBSET Pages OBVIOUS
  <2> QED BY <1>1, <1>2, <1>8, <2>1, TextAsked
<1>10. TextPart'
  <2>1. layers' \in [Pages -> Doc \cup {NoDoc}] /\ \A q \in Pages : layers'[q] = NoDoc
    BY <1>1 DEF NoText
  <2>2. continues' \subseteq Nat /\ findGen' \in Nat /\ \A g \in continues' : g > 0 /\ g <= findGen'
    BY <1>1 DEF ViewerHeld, TextPart, TextTyped
  <2>3. TextHeld' BY <1>1, <1>2, <1>8, <1>9, <2>1 DEF TextHeld
  <2> QED BY <1>2, <1>9, <2>1, <2>2, <2>3 DEF TextPart, TextTyped
<1>11. ScreenTyped'
  BY <1>1, ViewerAssumption DEF ViewerHeld, ScreenTyped, DocumentOpened, Installed
<1> QED BY <1>7, <1>10, <1>11 DEF ViewerHeld

LEMMA DoesCounts == ASSUME ViewerHeld, NEW kind, Does(kind), happens' = happens
                    PROVE  happens' \in ViewerScenarios /\ views' \in Nat /\ views' <= MaxViews[happens']
<1>1. MaxViews[happens] \in Nat BY ViewerAssumption DEF ViewerHeld, ScreenTyped
<1> QED BY <1>1 DEF Does, ViewerHeld, ScreenTyped

LEMMA ViewerInputHeld == ASSUME ViewerHeld, ViewerInput PROVE ViewerHeld'
<1> USE DEF tileVars, textVars, errorVars
<1>1. CASE OpenLibraryEntry
  <2>1. TilePart' BY <1>1, TilesStay DEF OpenLibraryEntry
  <2>2. TextPart' BY <1>1, TextStays DEF OpenLibraryEntry
  <2>3. openings' \subseteq Doc BY <1>1 DEF OpenLibraryEntry, ViewerHeld, ScreenTyped
  <2>4. happens' \in ViewerScenarios /\ views' \in Nat /\ views' <= MaxViews[happens']
    BY <1>1, DoesCounts DEF OpenLibraryEntry
  <2> QED BY <1>1, <2>1, <2>2, <2>3, <2>4 DEF OpenLibraryEntry, ViewerHeld, ScreenTyped
<1>2. CASE DismissDocumentError
  <2>1. CASE doc = NoDoc
    <3>1. TilePart' BY <1>2, <2>1, TilesStay DEF DismissDocumentError
    <3>2. TextPart' BY <1>2, <2>1, TextStays DEF DismissDocumentError
    <3> QED BY <1>2, <2>1, <3>1, <3>2 DEF DismissDocumentError, ViewerHeld, ScreenTyped
  <2>2. CASE doc # NoDoc
    <3>0. {page'} \in SUBSET Pages /\ width' \in Width
      BY <1>2 DEF DismissDocumentError, ViewerHeld, ScreenTyped
    <3>1. TilePart' BY <1>2, <2>2, <3>0, TilesFollow DEF DismissDocumentError, RequestVisible
    <3>2. TextPart' BY <1>2, <2>2, <3>0, TextFollows DEF DismissDocumentError, RequestVisible
    <3> QED BY <1>2, <2>2, <3>1, <3>2 DEF DismissDocumentError, ViewerHeld, ScreenTyped
  <2> QED BY <2>1, <2>2
<1>3. CASE BackToViewer
  <2>0. {page'} \in SUBSET Pages /\ width' \in Width
    BY <1>3 DEF BackToViewer, ViewerHeld, ScreenTyped
  <2>1. TilePart' BY <1>3, <2>0, TilesFollow DEF BackToViewer, RequestVisible
  <2>2. TextPart' BY <1>3, <2>0, TextFollows DEF BackToViewer, RequestVisible
  <2>3. happens' \in ViewerScenarios /\ views' \in Nat /\ views' <= MaxViews[happens']
    BY <1>3, DoesCounts DEF BackToViewer
  <2> QED BY <1>3, <2>1, <2>2, <2>3 DEF BackToViewer, ViewerHeld, ScreenTyped
<1>4. CASE ZoomToWidth
  <2>0. /\ {page'} \in SUBSET Pages /\ width' \in Width /\ doc # NoDoc
        /\ zoomGen' = zoomGen + 1 /\ zoomGen \in Nat /\ zoomGen > 0
    BY <1>4 DEF ZoomToWidth, ViewerHeld, ScreenTyped, TilePart, TilesTyped
  <2>3. TilePart' /\ TextPart'
    <3>1. CASE UNCHANGED settles /\ RequestVisible
      <4>1. TilePart' BY <1>4, <2>0, <3>1, TilesFollow DEF ZoomToWidth, RequestVisible
      <4>2. TextPart' BY <1>4, <2>0, <3>1, TextFollows DEF ZoomToWidth, RequestVisible
      <4> QED BY <4>1, <4>2
    <3>2. CASE settles' = settles \cup {zoomGen'} /\ UNCHANGED <<pending, renders, pendingLayers, extracts>>
      <4>1. TextPart' BY <1>4, <3>2, TextStays DEF ZoomToWidth
      <4>2. /\ UNCHANGED <<doc, happens, tiles, pending, renders>>
            /\ settles' \subseteq Nat /\ \A g \in settles' : g > 0 /\ g <= zoomGen'
        BY <1>4, <2>0, <3>2 DEF ZoomToWidth, ViewerHeld, TilePart, TilesTyped
      <4>3. \A k \in Key : NotPending <= pending[k] /\ pending[k] <= zoomGen'
        BY <2>0 DEF ViewerHeld, TilePart, TilesTyped, NotPending
      <4>4. \A r \in renders : r.gen \in Nat /\ r.gen <= zoomGen /\ r.gen <= zoomGen'
        BY <2>0 DEF ViewerHeld, TilePart, TilesTyped, Renders
      <4>5. TilesTyped' BY <2>0, <4>2, <4>3, <4>4 DEF ViewerHeld, TilePart, TilesTyped
      <4>6. TilesHeld' BY <2>0, <4>2, <4>4 DEF ViewerHeld, TilePart, TilesHeld
      <4> QED BY <4>1, <4>5, <4>6 DEF TilePart
    <3> QED BY <1>4, <3>1, <3>2 DEF ZoomToWidth
  <2>4. happens' \in ViewerScenarios /\ views' \in Nat /\ views' <= MaxViews[happens']
    BY <1>4, DoesCounts DEF ZoomToWidth
  <2> QED BY <1>4, <2>0, <2>3, <2>4 DEF ZoomToWidth, ViewerHeld, ScreenTyped
<1>5. CASE ViewerSidebarTabSelected
  <2>0. {} \in SUBSET Pages /\ width' \in Width /\ doc # NoDoc
    BY <1>5 DEF ViewerSidebarTabSelected, ViewerHeld, ScreenTyped
  <2>1. TilePart' BY <1>5, <2>0, TilesFollow DEF ViewerSidebarTabSelected
  <2>2. TextPart' BY <1>5, TextStays DEF ViewerSidebarTabSelected
  <2>3. happens' \in ViewerScenarios /\ views' \in Nat /\ views' <= MaxViews[happens']
    BY <1>5, DoesCounts DEF ViewerSidebarTabSelected
  <2> QED BY <1>5, <2>0, <2>1, <2>2, <2>3 DEF ViewerSidebarTabSelected, ViewerHeld, ScreenTyped
<1>6. CASE SearchText
  <2>0. doc # NoDoc /\ {p \in Pages : p - page \in -FindMargin .. FindMargin} \in SUBSET Pages
    BY <1>6 DEF SearchText, ViewerHeld, ScreenTyped
  <2>1. TilePart' BY <1>6, TilesStay DEF SearchText
  <2>2. TextPart' BY <1>6, <2>0, TextFollows DEF SearchText, RequestFindText
  <2>3. happens' \in ViewerScenarios /\ views' \in Nat /\ views' <= MaxViews[happens']
    BY <1>6, DoesCounts DEF SearchText
  <2> QED BY <1>6, <2>1, <2>2, <2>3 DEF SearchText, ViewerHeld, ScreenTyped
<1>7. CASE CloseViewerFind
  <2>1. TilePart' BY <1>7, TilesStay DEF CloseViewerFind
  <2>2. TextPart' BY <1>7, TextStays DEF CloseViewerFind
  <2>3. happens' \in ViewerScenarios /\ views' \in Nat /\ views' <= MaxViews[happens']
    BY <1>7, DoesCounts DEF CloseViewerFind
  <2> QED BY <1>7, <2>1, <2>2, <2>3 DEF CloseViewerFind, ViewerHeld, ScreenTyped
<1>8. CASE (\E d \in openings : DocumentFails(d)) \/ (\E r \in renders : RenderFails(r))
  <2>1. PICK text \in ErrorText : Failed(text) BY <1>8 DEF DocumentFails, RenderFails
  <2>2. Does("failure") /\ openings' \subseteq openings /\ renders' \subseteq renders
    BY <1>8 DEF DocumentFails, RenderFails
  <2>3. TilePart' BY <2>1, <2>2, TilesStay DEF Failed
  <2>4. TextPart' BY <2>1, TextStays DEF Failed
  <2>5. happens' \in ViewerScenarios /\ views' \in Nat /\ views' <= MaxViews[happens']
    BY <2>1, <2>2, DoesCounts DEF Failed
  <2> QED BY <2>1, <2>2, <2>3, <2>4, <2>5 DEF Failed, ViewerHeld, ScreenTyped
<1>9. CASE \E x \in extracts : ViewerTextLayerError(x)
  <2>1. PICK x \in extracts : ViewerTextLayerError(x) BY <1>9
  <2>2. TilePart' BY <2>1, TilesStay DEF ViewerTextLayerError
  <2>3. TextPart' BY <2>1, TextStays DEF ViewerTextLayerError
  <2>4. happens' \in ViewerScenarios /\ views' \in Nat /\ views' <= MaxViews[happens']
    BY <2>1, DoesCounts DEF ViewerTextLayerError
  <2> QED BY <2>1, <2>2, <2>3, <2>4 DEF ViewerTextLayerError, ViewerHeld, ScreenTyped
<1> QED BY <1>1, <1>2, <1>3, <1>4, <1>5, <1>6, <1>7, <1>8, <1>9 DEF ViewerInput

LEMMA ViewerResultHeld == ASSUME ViewerHeld, ViewerResult PROVE ViewerHeld'
<1> USE DEF tileVars, textVars, errorVars
<1>1. CASE \E g \in settles : ZoomRenderSettled(g)
  <2>1. PICK g \in settles : ZoomRenderSettled(g) BY <1>1
  <2>2. ScreenTyped' BY <2>1 DEF ZoomRenderSettled, ViewerHeld, ScreenTyped
  <2>3. CASE g = zoomGen /\ doc # NoDoc
    <3>0. {page'} \in SUBSET Pages /\ width' \in Width
      BY <2>1 DEF ZoomRenderSettled, ViewerHeld, ScreenTyped
    <3>1. TilePart' BY <2>1, <2>3, <3>0, TilesFollow DEF ZoomRenderSettled, RequestVisible
    <3>2. TextPart' BY <2>1, <2>3, <3>0, TextFollows DEF ZoomRenderSettled, RequestVisible
    <3> QED BY <2>2, <3>1, <3>2 DEF ViewerHeld
  <2>4. CASE ~(g = zoomGen /\ doc # NoDoc)
    <3>1. TilePart' BY <2>1, <2>4, TilesStay DEF ZoomRenderSettled
    <3>2. TextPart' BY <2>1, <2>4, TextStays DEF ZoomRenderSettled
    <3> QED BY <2>2, <3>1, <3>2 DEF ViewerHeld
  <2> QED BY <2>3, <2>4
<1>2. CASE \E r \in renders : PageRendered(r)
  <2>1. PICK r \in renders : PageRendered(r) BY <1>2
  <2>2. TextPart' BY <2>1, TextStays DEF PageRendered
  <2>3. ScreenTyped' BY <2>1 DEF PageRendered, ViewerHeld, ScreenTyped
  <2>4. /\ r \in Renders /\ renders' \subseteq renders /\ UNCHANGED <<doc, happens, zoomGen, settles>>
        /\ r.gen = Unnumbered <=> r.key[2] = Thumb
    BY <2>1 DEF PageRendered, ViewerHeld, TilePart, TilesTyped
  <2>5. /\ pending' \in [Key -> Int]
        /\ \A k \in Key : NotPending <= pending'[k] /\ pending'[k] <= zoomGen
    <3>1. zoomGen \in Nat BY DEF ViewerHeld, TilePart, TilesTyped
    <3>2. /\ pending \in [Key -> Int]
          /\ \A k \in Key : NotPending <= pending[k] /\ pending[k] <= zoomGen
      BY DEF ViewerHeld, TilePart, TilesTyped
    <3>3. pending' = [pending EXCEPT ![r.key] = IF @ = r.gen THEN NotPending ELSE @]
      BY <2>1 DEF PageRendered
    <3>4. pending' \in [Key -> Int] /\ \A k \in Key : pending'[k] \in {pending[k], NotPending}
      <4>1. r.key \in Key BY <2>4 DEF Renders
      <4>2. PICK v \in {pending[r.key], NotPending} : pending' = [pending EXCEPT ![r.key] = v]
        BY <3>3
      <4> QED BY <3>2, <4>1, <4>2 DEF NotPending
    <3>5. NotPending \in Int /\ NotPending <= zoomGen BY <3>1 DEF NotPending
    <3> QED BY <3>2, <3>4, <3>5
  <2>6. /\ tiles' \in [Key -> Doc \cup {NoDoc}]
        /\ \A k \in Key : \/ tiles'[k] = tiles[k]
                          \/ r.gen \in {zoomGen, Unnumbered} /\ k = r.key /\ tiles'[k] = r.doc
    BY <2>1, <2>4 DEF PageRendered, ViewerHeld, TilePart, TilesTyped, Renders
  <2>7. TilesTyped' BY <2>4, <2>5, <2>6 DEF ViewerHeld, TilePart, TilesTyped
  <2>8. TilesHeld' BY <2>1, <2>4, <2>6 DEF ViewerHeld, TilePart, TilesHeld
  <2> QED BY <2>2, <2>3, <2>7, <2>8 DEF ViewerHeld, TilePart
<1>3. CASE \E x \in extracts : ViewerTextLayerLoaded(x)
  <2>1. PICK x \in extracts : ViewerTextLayerLoaded(x) BY <1>3
  <2>2. TilePart' BY <2>1, TilesStay DEF ViewerTextLayerLoaded
  <2>3. ScreenTyped' BY <2>1 DEF ViewerTextLayerLoaded, ViewerHeld, ScreenTyped
  <2>4. /\ x \in Extracts /\ extracts' \subseteq extracts /\ pendingLayers' \subseteq pendingLayers
        /\ UNCHANGED <<doc, docGen, findGen, continues>>
    BY <2>1 DEF ViewerTextLayerLoaded, ViewerHeld, TextPart, TextTyped
  <2>5. /\ layers' \in [Pages -> Doc \cup {NoDoc}]
        /\ \A p \in Pages : layers'[p] = layers[p] \/ (x.gen = docGen /\ layers'[p] = x.doc)
    BY <2>1, <2>4 DEF ViewerTextLayerLoaded, ViewerHeld, TextPart, TextTyped, Extracts
  <2>6. TextTyped' BY <2>4, <2>5 DEF ViewerHeld, TextPart, TextTyped
  <2>7. TextHeld' BY <2>1, <2>4, <2>5 DEF ViewerHeld, TextPart, TextHeld
  <2> QED BY <2>2, <2>3, <2>6, <2>7 DEF ViewerHeld, TextPart
<1>4. CASE \E g \in continues : FindContinue(g)
  <2>1. PICK g \in continues : FindContinue(g) BY <1>4
  <2>2. TilePart' BY <2>1, TilesStay DEF FindContinue
  <2>3. ScreenTyped' BY <2>1 DEF FindContinue, ViewerHeld, ScreenTyped
  <2> DEFINE missing == {p \in Pages : layers[p] = NoDoc /\ p \notin pendingLayers}
             batch   == {p \in missing : Cardinality({q \in missing : q < p}) < FindBatch}
  <2>4. \/ doc # NoDoc /\ RequestText(batch, pendingLayers) /\ UNCHANGED continues
        \/ continues' = continues \ {g} /\ UNCHANGED <<pendingLayers, extracts>>
    BY <2>1 DEF FindContinue
  <2>5. batch \in SUBSET Pages OBVIOUS
  <2> HIDE DEF batch
  <2>6. UNCHANGED <<doc, docGen, layers, findGen>> BY <2>1 DEF FindContinue
  <2>7. TextPart' BY <2>4, <2>5, <2>6, TextFollows, TextStays
  <2> QED BY <2>2, <2>3, <2>7 DEF ViewerHeld
<1> QED BY <1>1, <1>2, <1>3, <1>4 DEF ViewerResult

LEMMA TurnPageHeld == ASSUME ViewerHeld, TurnPage PROVE ViewerHeld'
<1> USE DEF tileVars, textVars, errorVars
<1>0. {page'} \in SUBSET Pages /\ width' \in Width /\ doc # NoDoc
  BY DEF TurnPage, ViewerHeld, ScreenTyped
<1>1. TilePart' BY <1>0, TilesFollow DEF TurnPage, RequestVisible
<1>2. TextPart' BY <1>0, TextFollows DEF TurnPage, RequestVisible
<1>3. happens' \in ViewerScenarios /\ views' \in Nat /\ views' <= MaxViews[happens']
  BY DoesCounts DEF TurnPage
<1> QED BY <1>0, <1>1, <1>2, <1>3 DEF TurnPage, ViewerHeld, ScreenTyped

LEMMA LeavesHeld == ASSUME ViewerHeld, BackToLibrary \/ SelectLibrary PROVE ViewerHeld'
<1> USE DEF tileVars, textVars, errorVars
<1>1. happens' \in ViewerScenarios /\ views' \in Nat /\ views' <= MaxViews[happens']
  BY DoesCounts DEF BackToLibrary, SelectLibrary
<1>2. CASE BackToLibrary
  <2>1. TilePart' BY <1>2, TilesStay DEF BackToLibrary
  <2>2. TextPart' BY <1>2, TextStays DEF BackToLibrary
  <2> QED BY <1>1, <1>2, <2>1, <2>2 DEF BackToLibrary, ViewerHeld, ScreenTyped
<1>3. CASE SelectLibrary
  <2>1. TilesTyped'
    BY <1>3 DEF SelectLibrary, ViewerHeld, TilePart, TilesTyped, Blank, Idling, NotPending
  <2>2. TextTyped' BY <1>3 DEF SelectLibrary, ViewerHeld, TextPart, TextTyped
  <2> QED BY <1>1, <1>3, <2>1, <2>2
       DEF SelectLibrary, ViewerHeld, ScreenTyped, TilePart, TextPart, TilesHeld, TextHeld
<1> QED BY <1>2, <1>3

(* The other inputs and results concern the entry; they leave the viewer its document. *)
LEMMA EntryStepHeld ==
  ASSUME ViewerHeld, UNCHANGED <<mode, doc, page, tileVars, textVars, openings, happens>>,
         error' \in ErrorText \cup {NoError}, UNCHANGED dismissed,
         views' = views \/ (\E kind : Does(kind))
  PROVE  ViewerHeld'
<1> USE DEF tileVars, textVars, errorVars
<1>1. happens' \in ViewerScenarios /\ views' \in Nat /\ views' <= MaxViews[happens']
  BY DoesCounts DEF ViewerHeld, ScreenTyped
<1>2. TilePart' /\ TextPart' BY TilesStay, TextStays
<1> QED BY <1>1, <1>2 DEF ViewerHeld, ScreenTyped
-----------------------------------------------------------------------------
(* What a list leaves for a document, with one more at its end, and without its first. *)
LEMMA AppendLeaves ==
  ASSUME NEW s \in Seq(Saves), NEW e \in Saves, NEW d, NEW p
  PROVE  /\ Append(s, e) \in Seq(Saves) /\ Append(s, e) # <<>>
         /\ Leaves(Append(s, e), d, p) <=> IF e.doc = d THEN e.page = p ELSE Leaves(s, d, p)
         /\ Spared(Append(s, e), d) <=> e.doc # d /\ Spared(s, d)
<1> DEFINE t == Append(s, e)
           n == Len(s)
<1>1. /\ t \in Seq(Saves) /\ t # <<>> /\ Len(t) = n + 1
      /\ \A i \in 1 .. n : t[i] = s[i]
      /\ t[n + 1] = e /\ n \in Nat /\ DOMAIN s = 1 .. n
  BY AppendProperties, LenProperties
<1>2. DOMAIN t = 1 .. n + 1 BY <1>1, LenProperties
<1> HIDE DEF t, n
<1>3. \A i \in DOMAIN t : i = n + 1 \/ (i \in DOMAIN s /\ i < n + 1 /\ t[i] = s[i]) BY <1>1, <1>2
<1>4. \A i \in DOMAIN s : i \in DOMAIN t /\ i < n + 1 /\ t[i] = s[i] BY <1>1, <1>2
<1>5. n + 1 \in DOMAIN t /\ \A j \in DOMAIN t : ~(j > n + 1) BY <1>1, <1>2
<1>6. Leaves(t, d, p) <=> IF e.doc = d THEN e.page = p ELSE Leaves(s, d, p)
  <2>1. CASE e.doc = d
    <3>1. \A i \in DOMAIN s : n + 1 > i BY <1>1
    <3> QED BY <1>1, <1>3, <1>5, <2>1, <3>1 DEF Leaves
  <2>2. CASE e.doc # d BY <1>1, <1>3, <1>4, <2>2 DEF Leaves
  <2> QED BY <2>1, <2>2
<1>7. Spared(t, d) <=> e.doc # d /\ Spared(s, d) BY <1>1, <1>3, <1>4, <1>5 DEF Spared
<1> QED BY <1>1, <1>6, <1>7 DEF t

LEMMA TailLeaves ==
  ASSUME NEW s \in Seq(Saves), s # <<>>, NEW d, NEW p
  PROVE  /\ Head(s) \in Saves /\ Tail(s) \in Seq(Saves)
         /\ Leaves(s, d, p) <=> \/ Leaves(Tail(s), d, p)
                                \/ Spared(Tail(s), d) /\ Head(s).doc = d /\ Head(s).page = p
         /\ Spared(s, d) <=> Head(s).doc # d /\ Spared(Tail(s), d)
<1> DEFINE t == Tail(s)
           n == Len(s)
<1>1. /\ t \in Seq(Saves) /\ Head(s) \in Saves /\ Len(t) = n - 1
      /\ \A i \in 1 .. n - 1 : t[i] = s[i + 1]
      /\ n \in Nat \ {0} /\ DOMAIN s = 1 .. n /\ Head(s) = s[1]
  BY HeadTailProperties, LenProperties, EmptySeq
<1>2. DOMAIN t = 1 .. n - 1 BY <1>1, LenProperties
<1> HIDE DEF t, n
<1>3. \A i \in DOMAIN s : i \in Nat /\ (i = 1 \/ (i - 1 \in DOMAIN t /\ t[i - 1] = s[i]))
  BY <1>1, <1>2
<1>4. \A i \in DOMAIN t : i \in Nat /\ i > 0 /\ i + 1 \in DOMAIN s /\ t[i] = s[i + 1]
  BY <1>1, <1>2
<1>5. 1 \in DOMAIN s BY <1>1
<1>6. Spared(s, d) <=> Head(s).doc # d /\ Spared(t, d)
  <2>1. ASSUME Spared(s, d) PROVE Head(s).doc # d /\ Spared(t, d)
    BY <1>1, <1>4, <1>5, <2>1 DEF Spared
  <2>2. ASSUME Head(s).doc # d, Spared(t, d) PROVE Spared(s, d) BY <1>1, <1>3, <2>2 DEF Spared
  <2> QED BY <2>1, <2>2
<1>7. ASSUME Leaves(s, d, p)
      PROVE  Leaves(t, d, p) \/ (Spared(t, d) /\ Head(s).doc = d /\ Head(s).page = p)
  <2>1. PICK i \in DOMAIN s : /\ s[i].doc = d /\ s[i].page = p
                              /\ \A j \in DOMAIN s : j > i => s[j].doc # d
    BY <1>7 DEF Leaves
  <2>2. CASE i = 1
    <3>1. \A j \in DOMAIN t : t[j].doc # d BY <1>4, <2>1, <2>2
    <3> QED BY <1>1, <2>1, <2>2, <3>1 DEF Spared
  <2>3. CASE i # 1
    <3>1. i - 1 \in DOMAIN t /\ t[i - 1] = s[i] /\ i \in Nat BY <1>3, <2>3
    <3>2. \A j \in DOMAIN t : j > i - 1 => t[j].doc # d
      <4>1. SUFFICES ASSUME NEW j \in DOMAIN t, j > i - 1 PROVE t[j].doc # d OBVIOUS
      <4>2. j + 1 \in DOMAIN s /\ j + 1 > i /\ t[j] = s[j + 1] BY <1>4, <3>1, <4>1
      <4> QED BY <2>1, <4>2
    <3> QED BY <2>1, <3>1, <3>2 DEF Leaves
  <2> QED BY <2>2, <2>3
<1>8. ASSUME Leaves(t, d, p) PROVE Leaves(s, d, p)
  <2>1. PICK i \in DOMAIN t : /\ t[i].doc = d /\ t[i].page = p
                              /\ \A j \in DOMAIN t : j > i => t[j].doc # d
    BY <1>8 DEF Leaves
  <2>2. i + 1 \in DOMAIN s /\ s[i + 1] = t[i] /\ i \in Nat /\ i > 0 BY <1>4
  <2>3. ASSUME NEW j \in DOMAIN s, j > i + 1 PROVE s[j].doc # d
    <3>1. j - 1 \in DOMAIN t /\ t[j - 1] = s[j] /\ j - 1 > i BY <1>3, <2>2, <2>3
    <3> QED BY <2>1, <3>1
  <2> QED BY <2>1, <2>2, <2>3 DEF Leaves
<1>9. ASSUME Spared(t, d), Head(s).doc = d, Head(s).page = p PROVE Leaves(s, d, p)
  <2>1. \A j \in DOMAIN s : j > 1 => s[j].doc # d BY <1>3, <1>9 DEF Spared
  <2> QED BY <1>1, <1>5, <1>9, <2>1 DEF Leaves
<1> QED BY <1>1, <1>6, <1>7, <1>8, <1>9 DEF t

LEMMA EmptyLeaves == \A d, p : Spared(<<>>, d) /\ ~Leaves(<<>>, d, p)
BY DEF Spared, Leaves

(* One page more is to be saved: it is what its document comes to have. *)
LEMMA MoreComes ==
  ASSUME ProgressTyped, NEW e \in Saves, updates' = Append(updates, e), UNCHANGED <<writes, savedPage>>
  PROVE  /\ updates' \in Seq(Saves) /\ updates' # <<>>
         /\ \A d, p : Comes(d, p)' <=> IF e.doc = d THEN e.page = p ELSE Comes(d, p)
<1>1. updates \in Seq(Saves) BY DEF ProgressTyped
<1>2. \A d, p : /\ Leaves(updates', d, p) <=> IF e.doc = d THEN e.page = p ELSE Leaves(updates, d, p)
                /\ Spared(updates', d) <=> e.doc # d /\ Spared(updates, d)
  BY <1>1, AppendLeaves
<1> QED BY <1>1, <1>2, AppendProperties DEF Comes

(* What is written, or waits to be, comes to the same. *)
LEMMA UpdateComes ==
  ASSUME ProgressTyped, updates # <<>>, updates' = Tail(updates),
         writes' = Append(writes, Head(updates)), UNCHANGED savedPage
  PROVE  /\ updates' \in Seq(Saves) /\ writes' \in Seq(Saves) /\ Head(updates) \in Saves
         /\ \A d, p : Comes(d, p)' <=> Comes(d, p)
<1>1. updates \in Seq(Saves) /\ writes \in Seq(Saves) BY DEF ProgressTyped
<1>2. \A d, p : /\ Head(updates) \in Saves /\ updates' \in Seq(Saves)
                /\ Leaves(updates, d, p) <=>
                     \/ Leaves(updates', d, p)
                     \/ Spared(updates', d) /\ Head(updates).doc = d /\ Head(updates).page = p
                /\ Spared(updates, d) <=> Head(updates).doc # d /\ Spared(updates', d)
  BY <1>1, TailLeaves
<1>3. \A d, p : /\ writes' \in Seq(Saves)
                /\ Leaves(writes', d, p) <=>
                     IF Head(updates).doc = d THEN Head(updates).page = p ELSE Leaves(writes, d, p)
                /\ Spared(writes', d) <=> Head(updates).doc # d /\ Spared(writes, d)
  BY <1>1, <1>2, AppendLeaves
<1>4. ASSUME NEW d, NEW p PROVE ~(Leaves(updates', d, p) /\ Spared(updates', d))
  BY DEF Leaves, Spared
<1>5. ASSUME NEW d, NEW p PROVE Comes(d, p)' <=> Comes(d, p)
  BY <1>2, <1>3, <1>4 DEF Comes
<1> QED BY <1>2, <1>3, <1>5

LEMMA WriteComes ==
  ASSUME ProgressTyped, 1 \in DOMAIN writes, UNCHANGED updates,
         savedPage' = [savedPage EXCEPT ![writes[1].doc] = writes[1].page],
         writes' = RemoveAt(writes, 1)
  PROVE  \A d \in Doc : \A p : Comes(d, p)' <=> Comes(d, p)
<1>1. writes \in Seq(Saves) /\ writes # <<>> /\ savedPage \in [Doc -> Pages] BY DEF ProgressTyped
<1>2. writes' = Tail(writes) /\ writes[1] = Head(writes)
  <2>1. SubSeq(writes, 1, 0) = <<>> BY SubSeqEmpty
  <2>2. Tail(writes) = SubSeq(writes, 2, Len(writes)) BY <1>1, TailIsSubSeq
  <2>3. <<>> \o Tail(writes) = Tail(writes) BY <1>1, ConcatEmptySeq, HeadTailProperties
  <2>4. RemoveAt(writes, 1) = SubSeq(writes, 1, 0) \o SubSeq(writes, 2, Len(writes))
    BY DEF RemoveAt
  <2> QED BY <2>1, <2>2, <2>3, <2>4
<1>3. \A d, p : /\ Head(writes) \in Saves
                /\ Leaves(writes, d, p) <=>
                     \/ Leaves(writes', d, p)
                     \/ Spared(writes', d) /\ Head(writes).doc = d /\ Head(writes).page = p
                /\ Spared(writes, d) <=> Head(writes).doc # d /\ Spared(writes', d)
  <2>1. \A d, p : /\ Head(writes) \in Saves
                  /\ Leaves(writes, d, p) <=>
                       \/ Leaves(Tail(writes), d, p)
                       \/ Spared(Tail(writes), d) /\ Head(writes).doc = d /\ Head(writes).page = p
                  /\ Spared(writes, d) <=> Head(writes).doc # d /\ Spared(Tail(writes), d)
    BY <1>1, TailLeaves
  <2> QED BY <1>2, <2>1
<1>4. \A d \in Doc : savedPage'[d] = IF Head(writes).doc = d THEN Head(writes).page ELSE savedPage[d]
  BY <1>1, <1>2
<1>5. ASSUME NEW d \in Doc, NEW p PROVE Comes(d, p)' <=> Comes(d, p)
  <2>1. ~(Leaves(writes', d, p) /\ Spared(writes', d)) BY DEF Leaves, Spared
  <2> QED BY <1>3, <1>4, <2>1 DEF Comes
<1> QED BY <1>5

LEMMA RemoveTyped == ASSUME NEW s \in Seq(Saves), NEW i \in DOMAIN s PROVE RemoveAt(s, i) \in Seq(Saves)
<1>1. i \in 1 .. Len(s) /\ Len(s) \in Nat /\ \A k \in 1 .. Len(s) : s[k] \in Saves
  BY LenProperties, ElementOfSeq
<1>2. SubSeq(s, 1, i - 1) \in Seq(Saves)
  <2>1. \A k \in 1 .. i - 1 : s[k] \in Saves BY <1>1
  <2>2. i - 1 \in Int BY <1>1
  <2> QED BY <2>1, <2>2, SubSeqProperties
<1>3. SubSeq(s, i + 1, Len(s)) \in Seq(Saves)
  <2>1. \A k \in i + 1 .. Len(s) : s[k] \in Saves BY <1>1
  <2>2. i + 1 \in Int /\ Len(s) \in Int BY <1>1
  <2> QED BY <2>1, <2>2, SubSeqProperties
<1> QED BY <1>2, <1>3, ConcatProperties DEF RemoveAt

ProgressInv == ProgressTyped /\ ProgressHeld

LEMMA ViewerFrame ==
  ASSUME ViewerInput \/ ViewerResult
  PROVE  /\ UNCHANGED <<doc, page, happens>>
         /\ (UNCHANGED mode /\ openings' \subseteq openings) \/ OpenLibraryEntry \/ BackToViewer
BY
     DEF ViewerInput, ViewerResult, DismissDocumentError, ZoomToWidth, ViewerSidebarTabSelected, SearchText,
   CloseViewerFind, DocumentFails, RenderFails, Failed, ViewerTextLayerError, ZoomRenderSettled, PageRendered,
   ViewerTextLayerLoaded, FindContinue, BackToViewer, OpenLibraryEntry, tileVars, textVars, errorVars

LEMMA ProgressKept ==
  ASSUME ViewerHeld, ProgressInv, UNCHANGED progressVars, UNCHANGED <<doc, page, happens>>,
         (UNCHANGED mode /\ openings' \subseteq openings) \/ OpenLibraryEntry \/ BackToViewer
  PROVE  ProgressInv'
<1> USE DEF ProgressInv, progressVars
<1>1. ProgressTyped' BY DEF ProgressTyped
<1>2. \A d, p : Comes(d, p)' <=> Comes(d, p) BY DEF Comes
<1>3. ASSUME Orderly' PROVE ProgressHeld'
  <2>1. Orderly BY <1>3 DEF Orderly
  <2>2. CASE UNCHANGED mode /\ openings' \subseteq openings
    BY <1>2, <2>1, <2>2 DEF ProgressHeld
  <2>3. CASE OpenLibraryEntry
    BY <1>2, <2>1, <2>3 DEF ProgressHeld, OpenLibraryEntry, Orderly
  <2>4. CASE BackToViewer
    <3>1. mode = "library" /\ mode' = "viewer" /\ openings' = {}
      BY <2>1, <2>4 DEF BackToViewer, Orderly
    <3> QED BY <1>2, <2>1, <3>1 DEF ProgressHeld
  <2> QED BY <2>2, <2>3, <2>4
<1> QED BY <1>1, <1>3 DEF ProgressHeld

LEMMA SaveSettledKept ==
  ASSUME ViewerHeld, ProgressInv, NEW b \in debounces, ProgressSaveSettled(b)
  PROVE  ProgressInv'
<1> USE DEF ProgressInv, viewerVars
<1>1. [doc |-> b.doc, page |-> b.page] \in Saves /\ b.page \in Pages
  BY DEF ProgressTyped, Saves
<1>2. CASE b.gen # progressGen \/ lastSaved = b.page
  <2>1. UNCHANGED <<doc, page, happens, mode, openings, updates, writes, savedPage, shownPage, lastPage,
                    lastSaved, progressGen, reads, readings>> /\ debounces' \subseteq debounces
    BY <1>2 DEF ProgressSaveSettled
  <2> QED BY <2>1 DEF ProgressTyped, ProgressHeld, Comes, Orderly
<1>3. CASE b.gen = progressGen /\ lastSaved # b.page
  <2> DEFINE e == [doc |-> b.doc, page |-> b.page]
  <2>1. /\ UNCHANGED <<doc, page, happens, mode, openings, writes, savedPage, shownPage, lastPage,
                       progressGen, reads, readings>> /\ debounces' \subseteq debounces
        /\ lastSaved' = b.page /\ updates' = Append(updates, e)
    BY <1>3 DEF ProgressSaveSettled
  <2>2. /\ updates' \in Seq(Saves) /\ updates' # <<>>
        /\ \A d, p : Comes(d, p)' <=> IF e.doc = d THEN e.page = p ELSE Comes(d, p)
    BY <1>1, <2>1, MoreComes
  <2>3. ProgressTyped' BY <1>1, <2>1, <2>2 DEF ProgressTyped
  <2>4. Orderly => mode = "viewer" /\ b.doc = doc BY <1>3 DEF ProgressHeld
  <2>5. Orderly' => ProgressHeld' BY <2>1, <2>2, <2>4 DEF ProgressHeld, Orderly
  <2> QED BY <2>3, <2>5 DEF ProgressHeld
<1> QED BY <1>2, <1>3

LEMMA UpdatedKept == ASSUME ViewerHeld, ProgressInv, ProgressUpdated PROVE ProgressInv'
<1> USE DEF ProgressInv, viewerVars
<1>1. UNCHANGED <<doc, page, happens, mode, openings, savedPage, lastPage, debounces,
                  lastSaved, progressGen, reads, readings>> /\ updates # <<>>
  BY DEF ProgressUpdated
<1>2. /\ updates' \in Seq(Saves) /\ writes' \in Seq(Saves) /\ Head(updates) \in Saves
      /\ \A d, p : Comes(d, p)' <=> Comes(d, p)
  BY UpdateComes DEF ProgressUpdated
<1>3. shownPage' \in [Doc -> Pages] BY <1>2 DEF ProgressUpdated, ProgressTyped, Saves
<1>4. ProgressTyped' BY <1>1, <1>2, <1>3 DEF ProgressTyped
<1>5. Orderly => ~(mode = "library" /\ reads = 0) BY <1>1 DEF ProgressHeld
<1> QED BY <1>1, <1>2, <1>4, <1>5 DEF ProgressHeld, Orderly

LEMMA WrittenKept ==
  ASSUME ViewerHeld, ProgressInv, NEW i \in DOMAIN writes, WriteProgress(i)
  PROVE  ProgressInv'
<1> USE DEF ProgressInv, viewerVars
<1>1. UNCHANGED <<doc, page, happens, mode, openings, shownPage, lastPage, debounces, updates,
                  lastSaved, progressGen, reads, readings>>
  BY DEF WriteProgress
<1>2. writes' \in Seq(Saves) /\ writes[i] \in Saves
  BY RemoveTyped, LenProperties, ElementOfSeq DEF WriteProgress, ProgressTyped
<1>3. savedPage' \in [Doc -> Pages] BY <1>2 DEF WriteProgress, ProgressTyped, Saves
<1>4. ProgressTyped' BY <1>1, <1>2, <1>3 DEF ProgressTyped
<1>5. ASSUME Orderly PROVE ProgressHeld'
  <2>1. i = 1 BY <1>5 DEF WriteProgress, Orderly
  <2>2. \A d \in Doc : \A p : Comes(d, p)' <=> Comes(d, p) BY <2>1, WriteComes DEF WriteProgress
  <2>3. writes # <<>> BY DEF ProgressTyped
  <2>4. ~(mode = "library" /\ reads = 0) BY <1>5, <2>3 DEF ProgressHeld
  <2>5. doc # NoDoc => doc \in Doc BY DEF ViewerHeld, ScreenTyped
  <2> QED BY <1>1, <1>5, <2>2, <2>4, <2>5 DEF ProgressHeld, Orderly
<1> QED BY <1>1, <1>4, <1>5 DEF ProgressHeld, Orderly

LEMMA ReadKept == ASSUME ViewerHeld, ProgressInv, ReadLibrary PROVE ProgressInv'
<1> USE DEF ProgressInv, viewerVars
<1>1. /\ UNCHANGED <<doc, page, happens, mode, openings, savedPage, shownPage, lastPage, debounces, updates,
                     writes, lastSaved, progressGen>>
      /\ readings' = Append(readings, savedPage) /\ reads' = reads - 1 /\ reads > 0
  BY DEF ReadLibrary
<1>2. /\ readings' \in Seq([Doc -> Pages]) /\ readings' # <<>>
      /\ readings'[Len(readings')] = savedPage
  BY <1>1, AppendProperties DEF ProgressTyped
<1>3. ProgressTyped' BY <1>1, <1>2 DEF ProgressTyped
<1>4. Orderly => updates = <<>> /\ writes = <<>> BY DEF ReadLibrary, Orderly
<1>5. \A d, p : Comes(d, p)' <=> Comes(d, p) BY <1>1 DEF Comes
<1> QED BY <1>1, <1>2, <1>3, <1>4, <1>5 DEF ProgressHeld, Orderly

LEMMA LoadedKept == ASSUME ViewerHeld, ProgressInv, EntriesLoaded PROVE ProgressInv'
<1> USE DEF ProgressInv, viewerVars
<1>1. /\ UNCHANGED <<doc, page, happens, mode, openings, savedPage, lastPage, debounces, updates,
                     writes, lastSaved, progressGen, reads>>
      /\ readings # <<>> /\ readings' = Tail(readings) /\ shownPage' = Head(readings)
  BY DEF EntriesLoaded
<1> DEFINE n == Len(readings)
<1>2. /\ Head(readings) \in [Doc -> Pages] /\ Tail(readings) \in Seq([Doc -> Pages])
      /\ Len(Tail(readings)) = n - 1 /\ n \in Nat \ {0} /\ Head(readings) = readings[1]
      /\ \A k \in 1 .. n - 1 : Tail(readings)[k] = readings[k + 1]
  BY <1>1, HeadTailProperties, LenProperties, EmptySeq DEF ProgressTyped
<1>3. ProgressTyped' BY <1>1, <1>2 DEF ProgressTyped
<1>4. /\ readings' # <<>> => readings'[Len(readings')] = readings[n]
      /\ readings' = <<>> => readings[n] = shownPage'
  <2>1. CASE n = 1
    <3>1. Len(Tail(readings)) = 0 BY <1>2, <2>1
    <3>2. Tail(readings) = <<>> BY <1>2, <3>1, EmptySeq
    <3> QED BY <1>1, <1>2, <2>1, <3>2
  <2>2. CASE n # 1
    <3>1. n - 1 \in 1 .. n - 1 /\ n - 1 # 0 /\ n - 1 + 1 = n BY <1>2, <2>2
    <3>2. Tail(readings) # <<>> BY <1>2, <3>1, EmptySeq
    <3> QED BY <1>1, <1>2, <3>1, <3>2
  <2> QED BY <2>1, <2>2
<1>5. \A d, p : Comes(d, p)' <=> Comes(d, p) BY <1>1 DEF Comes
<1> QED BY <1>1, <1>3, <1>4, <1>5 DEF ProgressHeld, Orderly

LEMMA OpenedKept ==
  ASSUME ViewerHeld, ProgressInv, NEW d \in openings, EntryOpened(d)
  PROVE  ProgressInv'
<1> USE DEF ProgressInv
<1>1. d \in Doc /\ doc' = d /\ d # NoDoc /\ mode' = "viewer" /\ page' = shownPage[d] /\ openings' = openings \ {d}
      /\ UNCHANGED happens
  BY ViewerAssumption DEF EntryOpened, DocumentOpened, Installed, ViewerHeld, ScreenTyped
<1>2. /\ lastSaved' = shownPage[d] /\ progressGen' = progressGen + 1
      /\ lastPage' = [lastPage EXCEPT ![d] = shownPage[d]] /\ shownPage[d] \in Pages
      /\ UNCHANGED <<savedPage, shownPage, debounces, updates, writes, reads, readings>>
  BY <1>1 DEF EntryOpened, ProgressTyped
<1>3. ProgressTyped' BY <1>1, <1>2 DEF ProgressTyped
<1>4. ASSUME Orderly PROVE ProgressHeld'
  <2>1. updates = <<>> /\ reads = 0 /\ readings = <<>> /\ mode = "library" /\ \A c \in openings : c = d
    BY <1>4 DEF EntryOpened, Orderly, ProgressHeld
  <2>2. writes = <<>> /\ shownPage = savedPage BY <1>4, <2>1 DEF ProgressHeld
  <2>3. \A c, p : Comes(c, p)' <=> savedPage[c] = p BY <1>2, <2>1, <2>2, EmptyLeaves DEF Comes
  <2>4. \A c \in Doc : savedPage[c] = lastPage[c]
    BY <1>4, <2>1, <2>2, EmptyLeaves DEF ProgressHeld, Comes
  <2>5. \A b \in debounces' : b.gen # progressGen'
    BY <1>2 DEF ProgressTyped
  <2>6. openings' = {} BY <1>1, <2>1
  <2>7. lastPage'[d] = page' /\ \A c \in Doc : c # d => lastPage'[c] = lastPage[c]
    BY <1>1, <1>2 DEF ProgressTyped
  <2> QED BY <1>1, <1>2, <2>2, <2>3, <2>4, <2>5, <2>6, <2>7 DEF ProgressHeld
<1> QED BY <1>1, <1>3, <1>4 DEF ProgressHeld, Orderly

LEMMA TurnedKept == ASSUME ViewerHeld, ProgressInv, EntryTurned PROVE ProgressInv'
<1> USE DEF ProgressInv
<1>1. /\ UNCHANGED <<doc, mode, happens, openings>> /\ mode = "viewer" /\ page' \in Pages /\ doc \in Doc
      /\ lastPage' = [lastPage EXCEPT ![doc] = page']
      /\ UNCHANGED <<savedPage, shownPage, lastSaved, updates, writes, reads, readings>>
  BY DEF EntryTurned, TurnPage, ViewerHeld, ScreenTyped
<1>2. /\ progressGen' \in Nat /\ debounces' \subseteq [gen : Nat, doc : Doc, page : Pages]
      /\ \A b \in debounces' : b.gen > 0 /\ b.gen <= progressGen'
      /\ \A b \in debounces' : b.gen = progressGen' => b.doc = doc \/ (b \in debounces /\ progressGen' = progressGen)
  <2>1. CASE lastSaved = page' BY <1>1, <2>1 DEF EntryTurned, ScheduleProgress, ProgressTyped
  <2>2. CASE lastSaved # page'
    <3> DEFINE b0 == [gen |-> progressGen', doc |-> doc, page |-> page']
    <3>1. progressGen' = progressGen + 1 /\ debounces' = debounces \cup {b0}
      BY <2>2 DEF EntryTurned, ScheduleProgress
    <3>2. progressGen \in Nat /\ progressGen' \in Nat /\ b0 \in [gen : Nat, doc : Doc, page : Pages]
          /\ b0.gen = progressGen' /\ b0.doc = doc /\ progressGen' > 0 /\ progressGen' <= progressGen'
      BY <1>1, <3>1 DEF ProgressTyped
    <3> HIDE DEF b0
    <3>3. \A b \in debounces : /\ b \in [gen : Nat, doc : Doc, page : Pages] /\ b.gen \in Nat
                               /\ b.gen > 0 /\ b.gen <= progressGen
      BY DEF ProgressTyped
    <3>4. ASSUME NEW b \in debounces'
          PROVE  /\ b \in [gen : Nat, doc : Doc, page : Pages]
                 /\ b.gen > 0 /\ b.gen <= progressGen' /\ (b.gen = progressGen' => b.doc = doc)
      <4>1. CASE b \in debounces BY <3>1, <3>2, <3>3, <4>1
      <4>2. CASE b = b0 BY <3>2, <4>2
      <4> QED BY <3>1, <4>1, <4>2
    <3>5. debounces' \subseteq [gen : Nat, doc : Doc, page : Pages] BY <3>4
    <3> QED BY <3>2, <3>4, <3>5
  <2> QED BY <2>1, <2>2
<1>3. lastPage' \in [Doc -> Pages] /\ lastPage'[doc] = page' /\ \A c \in Doc : c # doc => lastPage'[c] = lastPage[c]
  BY <1>1 DEF ProgressTyped
<1>4. ProgressTyped' BY <1>1, <1>2, <1>3 DEF ProgressTyped
<1>5. \A d, p : Comes(d, p)' <=> Comes(d, p) BY <1>1 DEF Comes
<1> QED BY <1>1, <1>2, <1>3, <1>4, <1>5 DEF ProgressHeld, Orderly

LEMMA LeftKept == ASSUME ViewerHeld, ProgressInv, EntryLeft PROVE ProgressInv'
<1> USE DEF ProgressInv
<1>1. /\ UNCHANGED <<doc, page, happens, openings>> /\ mode = "viewer" /\ mode' = "library" /\ doc \in Doc
      /\ page \in Pages /\ reads' = reads + 1 /\ progressGen' = progressGen + 1
      /\ UNCHANGED <<savedPage, shownPage, debounces, writes, readings, lastPage>>
  BY DEF EntryLeft, BackToLibrary, FlushProgress, ViewerHeld, ScreenTyped, textVars, tileVars
<1>2. /\ reads' > 0 /\ reads' \in Nat /\ progressGen' \in Nat
      /\ \A b \in debounces' : b.gen > 0 /\ b.gen <= progressGen' /\ b.gen # progressGen'
  BY <1>1 DEF ProgressTyped
<1>3. CASE lastSaved = page
  <2>1. UNCHANGED <<lastSaved, updates>> BY <1>3 DEF EntryLeft, FlushProgress
  <2>2. \A d, p : Comes(d, p)' <=> Comes(d, p) BY <1>1, <2>1 DEF Comes
  <2>3. ProgressTyped' BY <1>1, <1>2, <2>1 DEF ProgressTyped
  <2> QED BY <1>1, <1>2, <1>3, <2>1, <2>2, <2>3, ViewerAssumption DEF ProgressHeld, Orderly
<1>4. CASE lastSaved # page
  <2> DEFINE e == [doc |-> doc, page |-> page]
  <2>1. lastSaved' = page /\ updates' = Append(updates, e) /\ e \in Saves
    BY <1>1, <1>4 DEF EntryLeft, FlushProgress, Saves
  <2>2. /\ updates' \in Seq(Saves)
        /\ \A d, p : Comes(d, p)' <=> IF e.doc = d THEN e.page = p ELSE Comes(d, p)
    BY <1>1, <2>1, MoreComes
  <2>3. ProgressTyped' BY <1>1, <1>2, <2>1, <2>2 DEF ProgressTyped
  <2> QED BY <1>1, <1>2, <2>1, <2>2, <2>3, ViewerAssumption DEF ProgressHeld, Orderly
<1> QED BY <1>3, <1>4

(* Another reading of the library is asked for. *)
MoreReads == reads' = reads + 1 /\ UNCHANGED <<mode, doc, page, openings, happens, savedPage, shownPage, lastSaved,
                                               progressGen, debounces, updates, writes, readings, lastPage>>
LEMMA RefreshKept == ASSUME ProgressInv, MoreReads PROVE ProgressInv'
<1>1. ProgressTyped' BY DEF ProgressInv, MoreReads, ProgressTyped
<1>2. \A d, p : Comes(d, p)' <=> Comes(d, p) BY DEF MoreReads, Comes
<1>3. reads' # 0 BY DEF ProgressInv, MoreReads, ProgressTyped
<1> QED BY <1>1, <1>2, <1>3 DEF ProgressInv, MoreReads, ProgressHeld, Orderly
-----------------------------------------------------------------------------
(* Sets of annotations are finite, and listed by any sequence of all. *)
LEMMA NotesFinite ==
  ASSUME NEW s \in SUBSET Notes, OneEach(s)
  PROVE  IsFiniteSet(s) /\ IsFiniteSet({RowOf(n) : n \in s})
<1>1. IsFiniteSet(Note) BY ReadingAssumption, FS_Interval DEF Note
<1>2. IsFiniteSet(s)
  <2> DEFINE f == [n \in s |-> n.id]
  <2>1. f \in Injection(s, Note) BY DEF Injection, IsInjective, OneEach, Notes
  <2> QED BY <1>1, <2>1, FS_Injection
<1>3. IsFiniteSet({RowOf(n) : n \in s})
  <2> DEFINE r == {RowOf(n) : n \in s}
             f == [a \in r |-> a.id]
  <2>1. \A a \in r : a.id \in Note BY DEF RowOf, Notes
  <2>2. \A a, b \in r : a.id = b.id => a = b BY DEF RowOf, OneEach
  <2>3. f \in Injection(r, Note) BY <2>1, <2>2 DEF Injection, IsInjective
  <2> HIDE DEF r, f
  <2>4. IsFiniteSet(r) BY <1>1, <2>3, FS_Injection
  <2> QED BY <2>4 DEF r
<1> QED BY <1>2, <1>3

LEMMA Sequenced ==
  ASSUME NEW S, IsFiniteSet(S)
  PROVE  /\ SetToSeq(S) \in Seq(S)
         /\ \A i, j \in DOMAIN SetToSeq(S) : SetToSeq(S)[i] = SetToSeq(S)[j] => i = j
         /\ \A i \in DOMAIN SetToSeq(S) : SetToSeq(S)[i] \in S
         /\ \A e \in S : \E i \in DOMAIN SetToSeq(S) : SetToSeq(S)[i] = e
<1> DEFINE n == Cardinality(S)
           q == SetToSeq(S)
<1>1. n \in Nat /\ ExistsBijection(1 .. n, S) BY FS_CardinalityType
<1>2. \E f \in [1 .. n -> S] : IsInjective(f)
  BY <1>1 DEF ExistsBijection, Bijection, Injection
<1>3. q \in [1 .. n -> S] /\ IsInjective(q) BY <1>2 DEF SetToSeq
<1>4. q \in Injection(1 .. n, S) BY <1>3 DEF Injection
<1>5. Cardinality(1 .. n) = n BY <1>1, FS_Interval
<1>6. q \in Surjection(1 .. n, S)
  <2>1. Cardinality(1 .. n) = Cardinality(S) <=> q \in Surjection(1 .. n, S) BY <1>4, FS_Injection
  <2> QED BY <1>5, <2>1
<1>7. q \in Seq(S) BY <1>1, <1>3
<1> HIDE DEF q, n
<1>8. DOMAIN q = 1 .. n BY <1>3
<1>9. \A i, j \in DOMAIN q : q[i] = q[j] => i = j BY <1>3 DEF IsInjective
<1>10. \A i \in DOMAIN q : q[i] \in S BY <1>3, <1>8
<1>11. \A e \in S : \E i \in DOMAIN q : q[i] = e BY <1>6, <1>8 DEF Surjection
<1> QED BY <1>7, <1>9, <1>10, <1>11 DEF q

LEMMA LoadLists ==
  ASSUME NEW s \in SUBSET Notes, OneEach(s)
  PROVE  SetToSeq({RowOf(n) : n \in s}) \in Seq(Shows) /\ Lists(SetToSeq({RowOf(n) : n \in s}), s)
<1> DEFINE r == {RowOf(n) : n \in s}
           q == SetToSeq(r)
<1>1. IsFiniteSet(r) BY NotesFinite
<1>2. /\ r \subseteq Shows BY DEF RowOf, Notes, Shows
<1>3. \A a, b \in r : a.id = b.id => a = b BY DEF RowOf, OneEach
<1>4. (\A a \in r : \E n \in s : a = RowOf(n)) /\ \A n \in s : RowOf(n) \in r OBVIOUS
<1> HIDE DEF r
<1>5. /\ q \in Seq(r)
      /\ \A i, j \in DOMAIN q : q[i] = q[j] => i = j
      /\ \A i \in DOMAIN q : q[i] \in r
      /\ \A e \in r : \E i \in DOMAIN q : q[i] = e
  BY <1>1, Sequenced
<1>6. q \in Seq(Shows) BY <1>2, <1>5, SeqMonotonic
<1> HIDE DEF q
<1>7. Lists(q, s) BY <1>3, <1>4, <1>5 DEF Lists
<1> QED BY <1>6, <1>7 DEF q, r

(* A list of all has as many as there are. *)
LEMMA ListsCount ==
  ASSUME NEW s \in SUBSET Notes, OneEach(s), NEW a \in Seq(Shows), Lists(a, s)
  PROVE  Cardinality(DOMAIN a) = Cardinality(s)
<1> DEFINE f == [i \in DOMAIN a |-> CHOOSE n \in s : a[i] = RowOf(n)]
<1>1. DOMAIN a = 1 .. Len(a) /\ Len(a) \in Nat BY LenProperties
<1>2. IsFiniteSet(DOMAIN a) BY <1>1, FS_Interval
<1>3. \A i \in DOMAIN a : f[i] \in s /\ a[i] = RowOf(f[i]) BY DEF Lists
<1>4. f \in [DOMAIN a -> s] BY <1>3
<1> HIDE DEF f
<1>5. \A i, j \in DOMAIN a : f[i] = f[j] => i = j BY <1>3 DEF Lists
<1>6. \A n \in s : \E i \in DOMAIN a : f[i] = n
  <2> SUFFICES ASSUME NEW n \in s PROVE \E i \in DOMAIN a : f[i] = n OBVIOUS
  <2>1. PICK i \in DOMAIN a : a[i] = RowOf(n) BY DEF Lists
  <2>2. f[i].id = n.id BY <1>3, <2>1 DEF RowOf
  <2> QED BY <1>3, <2>2 DEF OneEach
<1>7. f \in Bijection(DOMAIN a, s)
  BY <1>4, <1>5, <1>6 DEF Bijection, Injection, Surjection, IsInjective
<1> QED BY <1>2, <1>7, FS_Bijection DEF ExistsBijection

(* What the results of commands make of a list. *)
LEMMA ListAppends ==
  ASSUME NEW s \in SUBSET Notes, NEW a \in Seq(Shows), Lists(a, s), NEW n \in Notes, \A m \in s : m.id # n.id
  PROVE  Lists(Append(a, RowOf(n)), s \cup {n})
<1> DEFINE b == Append(a, RowOf(n))
           k == Len(a)
<1>1. RowOf(n) \in Shows /\ RowOf(n).id = n.id /\ \A m \in s : RowOf(m).id = m.id
  BY DEF RowOf, Shows, Notes
<1>2. /\ k \in Nat /\ DOMAIN a = 1 .. k /\ b \in Seq(Shows) /\ Len(b) = k + 1
      /\ \A i \in 1 .. k : b[i] = a[i]
      /\ b[k + 1] = RowOf(n)
  BY <1>1, AppendProperties, LenProperties
<1>3. DOMAIN b = 1 .. k + 1 BY <1>2, LenProperties
<1> HIDE DEF b, k
<1>4. \A i \in DOMAIN b : i = k + 1 \/ (i \in DOMAIN a /\ b[i] = a[i]) BY <1>2, <1>3
<1>5. k + 1 \in DOMAIN b /\ \A i \in DOMAIN a : i \in DOMAIN b /\ b[i] = a[i] BY <1>2, <1>3
<1>6. \A i \in DOMAIN a : a[i].id # n.id BY <1>1 DEF Lists
<1>7. \A i, j \in DOMAIN b : b[i].id = b[j].id => i = j BY <1>1, <1>2, <1>4, <1>6 DEF Lists
<1>8. \A i \in DOMAIN b : \E m \in s \cup {n} : b[i] = RowOf(m) BY <1>2, <1>4 DEF Lists
<1>9. \A m \in s \cup {n} : \E i \in DOMAIN b : b[i] = RowOf(m) BY <1>2, <1>5 DEF Lists
<1> QED BY <1>7, <1>8, <1>9 DEF Lists, b

LEMMA ListEdits ==
  ASSUME NEW s \in SUBSET Notes, annotations \in Seq(Shows), NEW n \in Notes, NEW m \in Notes, n.id = m.id,
         \A o \in s : o.id # n.id, Lists(annotations, s \cup {n})
  PROVE  LET b == [i \in DOMAIN annotations |-> IF IsFirst(i, m.id)
                    THEN [annotations[i] EXCEPT !.text = m.text] ELSE annotations[i]]
         IN  Lists(b, s \cup {m})
<1> DEFINE b == [i \in DOMAIN annotations |-> IF IsFirst(i, m.id)
                    THEN [annotations[i] EXCEPT !.text = m.text] ELSE annotations[i]]
<1>1. DOMAIN annotations = 1 .. Len(annotations) /\ Len(annotations) \in Nat BY LenProperties
<1>2. \A i \in DOMAIN annotations : annotations[i] \in Shows BY <1>1, ElementOfSeq
<1>3. \A i \in DOMAIN annotations : IsFirst(i, m.id) <=> annotations[i].id = m.id
  <2> SUFFICES ASSUME NEW i \in DOMAIN annotations, annotations[i].id = m.id,
                      NEW j \in 1 .. i - 1, annotations[j].id = m.id
               PROVE  FALSE
    BY DEF IsFirst
  <2>1. j \in DOMAIN annotations /\ j # i BY <1>1
  <2> QED BY <2>1 DEF Lists
<1>4. \A i \in DOMAIN annotations :
        b[i] = IF annotations[i].id = m.id THEN [annotations[i] EXCEPT !.text = m.text] ELSE annotations[i]
  BY <1>3
<1>5. DOMAIN b = DOMAIN annotations OBVIOUS
<1> HIDE DEF b
<1>6. \A i \in DOMAIN annotations : annotations[i].id = m.id => b[i] = RowOf(m)
  BY <1>2, <1>4 DEF Shows, RowOf
<1>7. \A i \in DOMAIN annotations : annotations[i].id # m.id => b[i] = annotations[i] BY <1>4
<1>8. RowOf(n).id = m.id /\ RowOf(m).id = m.id /\ \A o \in s : RowOf(o).id # m.id /\ RowOf(o).id = o.id
  BY DEF RowOf
<1>9. \A i, j \in DOMAIN b : b[i].id = b[j].id => i = j
  <2>1. \A i \in DOMAIN annotations : b[i].id = annotations[i].id BY <1>6, <1>7, <1>8
  <2> QED BY <1>5, <2>1 DEF Lists
<1>10. \A i \in DOMAIN b : \E o \in s \cup {m} : b[i] = RowOf(o)
  BY <1>5, <1>6, <1>7, <1>8 DEF Lists
<1>11. \A o \in s \cup {m} : \E i \in DOMAIN b : b[i] = RowOf(o)
  BY <1>5, <1>6, <1>7, <1>8 DEF Lists
<1> QED BY <1>9, <1>10, <1>11 DEF Lists, b

Drops(b, id) ==
  /\ b \in Seq(Shows)
  /\ \A i, j \in DOMAIN b : \E k, l \in DOMAIN annotations :
       b[i] = annotations[k] /\ b[j] = annotations[l] /\ (k = l => i = j)
  /\ \A i \in DOMAIN b : b[i].id # id
  /\ \A k \in DOMAIN annotations : annotations[k].id # id => \E i \in DOMAIN b : b[i] = annotations[k]
LEMMA WithoutTyped == ASSUME annotations \in Seq(Shows), NEW id PROVE Drops(WithoutNote(id), id)
<1> DEFINE S == {i \in DOMAIN annotations : annotations[i].id # id}
           q == SetToSeq(S)
           b == [k \in DOMAIN q |-> annotations[q[k]]]
<1>1. /\ DOMAIN annotations = 1 .. Len(annotations) /\ Len(annotations) \in Nat
      /\ \A i \in 1 .. Len(annotations) : annotations[i] \in Shows
  BY LenProperties, ElementOfSeq
<1>2. IsFiniteSet(S)
  <2>1. IsFiniteSet(DOMAIN annotations) /\ S \in SUBSET DOMAIN annotations BY <1>1, FS_Interval
  <2> QED BY <2>1, FS_Subset
<1>3. WithoutNote(id) = b BY DEF WithoutNote
<1>4. \A i \in S : i \in DOMAIN annotations /\ annotations[i].id # id OBVIOUS
<1>5. \A i \in DOMAIN annotations : annotations[i].id # id => i \in S OBVIOUS
<1> HIDE DEF S
<1>6. /\ q \in Seq(S)
      /\ \A i, j \in DOMAIN q : q[i] = q[j] => i = j
      /\ \A i \in DOMAIN q : q[i] \in S
      /\ \A e \in S : \E i \in DOMAIN q : q[i] = e
  BY <1>2, Sequenced
<1>7. Len(q) \in Nat /\ DOMAIN q = 1 .. Len(q) BY <1>6, LenProperties
<1> HIDE DEF q
<1>8. b \in [1 .. Len(q) -> Shows] BY <1>1, <1>4, <1>6, <1>7
<1>9. b \in Seq(Shows) BY <1>7, <1>8
<1>10. DOMAIN b = DOMAIN q /\ \A i \in DOMAIN q : b[i] = annotations[q[i]] OBVIOUS
<1> HIDE DEF b
<1>11. ASSUME NEW i \in DOMAIN b, NEW j \in DOMAIN b
       PROVE  \E k, l \in DOMAIN annotations : b[i] = annotations[k] /\ b[j] = annotations[l] /\ (k = l => i = j)
  BY <1>4, <1>6, <1>10
<1>12. \A i \in DOMAIN b : b[i].id # id BY <1>4, <1>6, <1>10
<1>13. \A k \in DOMAIN annotations : annotations[k].id # id => \E i \in DOMAIN b : b[i] = annotations[k]
  BY <1>5, <1>6, <1>10
<1> QED BY <1>3, <1>9, <1>11, <1>12, <1>13 DEF Drops

LEMMA ListDrops ==
  ASSUME NEW s \in SUBSET Notes, annotations \in Seq(Shows), NEW n \in Notes,
         \A o \in s : o.id # n.id, Lists(annotations, s \cup {n})
  PROVE  Lists(WithoutNote(n.id), s)
<1> DEFINE b == WithoutNote(n.id)
<1>2. Drops(b, n.id) BY WithoutTyped
<1> HIDE DEF b
<1>3. RowOf(n).id = n.id /\ \A o \in s : RowOf(o).id # n.id BY DEF RowOf
<1>4. \A k, l \in DOMAIN annotations : annotations[k].id = annotations[l].id => k = l BY DEF Lists
<1>5. ASSUME NEW i \in DOMAIN b, NEW j \in DOMAIN b, b[i].id = b[j].id PROVE i = j
  <2>1. PICK k, l \in DOMAIN annotations :
           b[i] = annotations[k] /\ b[j] = annotations[l] /\ (k = l => i = j) BY <1>2 DEF Drops
  <2> QED BY <1>4, <1>5, <2>1
<1>6. ASSUME NEW i \in DOMAIN b PROVE \E o \in s : b[i] = RowOf(o)
  <2>1. PICK k \in DOMAIN annotations : b[i] = annotations[k] BY <1>2 DEF Drops
  <2>2. PICK o \in s \cup {n} : annotations[k] = RowOf(o) BY DEF Lists
  <2> QED BY <1>2, <1>3, <2>1, <2>2 DEF Drops
<1>7. ASSUME NEW o \in s PROVE \E i \in DOMAIN b : b[i] = RowOf(o)
  <2>1. PICK k \in DOMAIN annotations : annotations[k] = RowOf(o) BY DEF Lists
  <2> QED BY <1>2, <1>3, <2>1 DEF Drops
<1> QED BY <1>5, <1>6, <1>7 DEF Lists, b
-----------------------------------------------------------------------------
(* Annotations, step by step. *)
NotesInv == NotesTyped /\ NotesHeld
SameRules == UNCHANGED happens /\ (orders' = 0 => orders = 0)

LEMMA RulesStay == ASSUME SameRules, NotesAlone' PROVE NotesAlone
BY DEF SameRules, NotesAlone

(* What leaves the annotations alone, and is no reading beside a command. *)
LEMMA NotesStay ==
  ASSUME NotesInv, SameRules, UNCHANGED <<noteVars, doc>>,
         NotesAlone /\ noteTasks # {} /\ reads = 0 /\ readings = <<>> => reads' = 0 /\ readings' = <<>>
  PROVE  NotesInv'
<1>1. UNCHANGED <<notes, annotations, draft, draftGen, noteTasks, loadGen, noteLoads, made>>
  BY DEF noteVars
<1>2. NotesTyped' BY <1>1 DEF NotesInv, NotesTyped
<1>3. \A x : Behind(x)' <=> Behind(x) BY <1>1 DEF Behind, OwnNotes, OtherNotes, NoteOf, Lists
<1>4. OwnNotes' = OwnNotes /\ (Lists(annotations, OwnNotes)' <=> Lists(annotations, OwnNotes))
  BY <1>1 DEF OwnNotes, Lists
<1>5. NotesHeld' BY <1>1, <1>3, <1>4, RulesStay DEF NotesInv, NotesHeld
<1> QED BY <1>2, <1>5 DEF NotesInv

LEMMA OwnTyped ==
  ASSUME NotesTyped
  PROVE  OwnNotes \in SUBSET Notes /\ OneEach(OwnNotes) /\ \A id : OtherNotes(id) \in SUBSET Notes
BY DEF NotesTyped, OwnNotes, OtherNotes, OneEach

LEMMA ReadNotesKept ==
  ASSUME NotesInv, SameRules, NEW l \in noteLoads, ReadAnnotations(l)
  PROVE  NotesInv'
<1> DEFINE m == [l EXCEPT !.phase = "done", !.found = {n \in notes : n.doc = l.doc}]
<1>1. /\ UNCHANGED <<notes, annotations, draft, draftGen, noteTasks, loadGen, made>> /\ l.phase = "read"
      /\ noteLoads' = (noteLoads \ {l}) \cup {m} /\ UNCHANGED <<doc, reads, readings>>
  BY DEF ReadAnnotations, viewerVars, progressVars
<1>2. l \in NoteLoads /\ l.gen > 0 /\ l.gen <= loadGen BY DEF NotesInv, NotesTyped
<1>3. notes \subseteq Notes /\ OneEach(notes) BY DEF NotesInv, NotesTyped
<1>4. m \in NoteLoads /\ m.gen = l.gen /\ m.doc = l.doc /\ m.phase = "done" /\ m.found = {n \in notes : n.doc = l.doc}
  BY <1>2, <1>3 DEF NoteLoads
<1>5. OneEach(m.found) BY <1>3, <1>4 DEF OneEach
<1> HIDE DEF m
<1>6. NotesTyped'
  <2>1. \A x \in noteLoads' : x \in NoteLoads /\ x.gen > 0 /\ x.gen <= loadGen /\ OneEach(x.found)
    BY <1>1, <1>2, <1>4, <1>5 DEF NotesInv, NotesTyped
  <2> QED BY <1>1, <2>1 DEF NotesInv, NotesTyped
<1>7. ASSUME NotesAlone PROVE NotesHeld'
  <2>1. noteTasks = {} BY <1>7 DEF NotesInv, NotesHeld
  <2>2. \A x \in noteLoads' : x.gen = loadGen => x.doc = doc /\ (x.phase = "done" => x.found = OwnNotes)
    BY <1>1, <1>4, <1>7 DEF NotesInv, NotesHeld, OwnNotes
  <2>3. (\E x \in noteLoads : x.gen = loadGen) => \E x \in noteLoads' : x.gen = loadGen
    BY <1>1, <1>4
  <2>4. OwnNotes' = OwnNotes /\ (Lists(annotations, OwnNotes)' <=> Lists(annotations, OwnNotes))
    BY <1>1 DEF OwnNotes, Lists
  <2> QED BY <1>1, <1>7, <2>1, <2>2, <2>3, <2>4 DEF NotesInv, NotesHeld
<1> QED BY <1>6, <1>7, RulesStay DEF NotesInv, NotesHeld

LEMMA NotesLoadedKept ==
  ASSUME NotesInv, SameRules, NEW l \in noteLoads, AnnotationsLoaded(l)
  PROVE  NotesInv'
<1>1. /\ UNCHANGED <<notes, draft, draftGen, noteTasks, loadGen, made>> /\ l.phase = "done"
      /\ noteLoads' = noteLoads \ {l} /\ UNCHANGED <<doc, reads, readings>>
  BY DEF AnnotationsLoaded, viewerVars, progressVars
<1>2. l \in NoteLoads /\ OneEach(l.found) /\ l.found \in SUBSET Notes
  BY DEF NotesInv, NotesTyped, NoteLoads
<1>3. SetToSeq({RowOf(n) : n \in l.found}) \in Seq(Shows) /\ Lists(SetToSeq({RowOf(n) : n \in l.found}), l.found)
  BY <1>2, LoadLists
<1>4. IF l.gen = loadGen /\ l.doc = doc THEN annotations' = SetToSeq({RowOf(n) : n \in l.found})
      ELSE UNCHANGED annotations
  BY DEF AnnotationsLoaded, RowOf
<1>5. annotations' \in Seq(Shows) BY <1>3, <1>4 DEF NotesInv, NotesTyped
<1>6. NotesTyped' BY <1>1, <1>5 DEF NotesInv, NotesTyped
<1>7. ASSUME NotesAlone PROVE NotesHeld'
  <2>1. noteTasks = {} BY <1>7 DEF NotesInv, NotesHeld
  <2>2. OwnNotes' = OwnNotes /\ \A a : Lists(a, OwnNotes)' <=> Lists(a, OwnNotes')
    BY <1>1 DEF OwnNotes, Lists
  <2>3. CASE l.gen = loadGen /\ l.doc = doc /\ doc # NoDoc
    <3>1. l.found = OwnNotes BY <1>1, <1>7, <2>3 DEF NotesInv, NotesHeld
    <3>2. Lists(annotations', OwnNotes') BY <1>3, <1>4, <2>2, <2>3, <3>1
    <3>3. Lists(annotations, OwnNotes)' BY <3>2
    <3> QED BY <1>1, <1>7, <2>1, <2>2, <2>3, <3>3 DEF NotesInv, NotesHeld
  <2>4. CASE ~(l.gen = loadGen /\ l.doc = doc)
    <3>1. UNCHANGED annotations /\ l.gen # loadGen BY <1>4, <1>7, <2>4 DEF NotesInv, NotesHeld
    <3>2. Lists(annotations, OwnNotes)' <=> Lists(annotations, OwnNotes) BY <2>2, <3>1 DEF Lists
    <3>3. (\E x \in noteLoads : x.gen = loadGen) => \E x \in noteLoads' : x.gen = loadGen
      BY <1>1, <3>1
    <3> QED BY <1>1, <1>7, <2>1, <2>2, <3>1, <3>2, <3>3 DEF NotesInv, NotesHeld
  <2>5. CASE l.gen = loadGen /\ l.doc = doc /\ doc = NoDoc
    <3>1. notes = {} /\ l.found = {} BY <1>1, <1>7, <2>5 DEF NotesInv, NotesHeld, OwnNotes
    <3>2. Lists(annotations', {}) BY <1>3, <1>4, <2>5, <3>1
    <3>3. DOMAIN annotations' = {} BY <3>2 DEF Lists
    <3>4. annotations' = <<>> BY <1>5, <3>3, EmptySeq, LenProperties
    <3> QED BY <1>1, <1>7, <2>1, <2>2, <2>5, <3>1, <3>4 DEF NotesInv, NotesHeld
  <2> QED BY <2>3, <2>4, <2>5
<1> QED BY <1>6, <1>7, RulesStay DEF NotesInv, NotesHeld

(* A command begins when none is under way and the list is read. *)
LEMMA InputKept ==
  ASSUME NotesInv, NoteInput, UNCHANGED happens
  PROVE  /\ UNCHANGED <<doc, reads, readings, notes, annotations, loadGen, noteLoads>> /\ draftGen \in Nat
         /\ NotesAlone => /\ noteTasks = {} /\ noteLoads = {} /\ reads = 0 /\ readings = <<>>
                          /\ (doc # NoDoc => Lists(annotations, OwnNotes))
BY DEF NoteInput, progressVars, NotesIdle, NotesInv, NotesHeld, NotesAlone, NotesTyped

LEMMA OnScreen ==
  ASSUME NotesInv, NotesAlone, doc # NoDoc, Lists(annotations, OwnNotes), NEW i \in DOMAIN annotations
  PROVE  /\ \E n \in notes : n.id = annotations[i].id
         /\ \A n \in notes : n.id = annotations[i].id => n.doc = doc
<1>1. PICK m \in OwnNotes : annotations[i] = RowOf(m) BY DEF Lists
<1>2. m \in notes /\ m.doc = doc /\ annotations[i].id = m.id BY <1>1 DEF OwnNotes, RowOf
<1> QED BY <1>2 DEF NotesInv, NotesTyped, OneEach

LEMMA DraftKept ==
  ASSUME ViewerHeld, NotesInv, SameRules, StartDraft \/ CancelDraft
  PROVE  NotesInv'
<1>1. NoteInput /\ UNCHANGED <<noteTasks, made>> /\ draftGen' = draftGen + 1 /\ mode = "viewer" /\ doc # NoDoc
      /\ (draft' \in {Compose, NoDraft} \/ \E i \in DOMAIN annotations : draft' = [kind |-> "edit", id |-> annotations[i].id])
  BY ViewerAssumption DEF StartDraft, CancelDraft, Drafted, NoteInput, ViewerHeld, ScreenTyped
<1>2. /\ UNCHANGED <<doc, reads, readings, notes, annotations, loadGen, noteLoads>> /\ draftGen \in Nat
      /\ NotesAlone => /\ noteTasks = {} /\ noteLoads = {} /\ reads = 0 /\ readings = <<>>
                       /\ Lists(annotations, OwnNotes)
  BY <1>1, InputKept DEF SameRules
<1>3. \A i \in DOMAIN annotations : annotations[i].id \in Note
  <2>1. \A i \in DOMAIN annotations : annotations[i] \in Shows
    BY ElementOfSeq, LenProperties DEF NotesInv, NotesTyped
  <2> QED BY <2>1 DEF Shows
<1>4. draft' \in {NoDraft, Compose} \cup [kind : {"edit"}, id : Note] BY <1>1, <1>3
<1>5. NotesTyped'
  <2>1. \A x \in noteTasks : x.gen \in Nat /\ x.gen <= draftGen
    BY DEF NotesInv, NotesTyped, NoteTasks
  <2>2. \A x \in noteTasks : x.gen <= draftGen' BY <1>1, <1>2, <2>1
  <2>3. draftGen' \in Nat BY <1>1, <1>2
  <2> QED BY <1>1, <1>2, <1>4, <2>2, <2>3 DEF NotesInv, NotesTyped
<1>6. ASSUME NotesAlone PROVE NotesHeld'
  <2>1. Lists(annotations, OwnNotes)' BY <1>2, <1>6 DEF Lists, OwnNotes
  <2>2. draft'.kind = "edit" => \A n \in notes : n.id = draft'.id => n.doc = doc
    <3>1. CASE draft' \in {Compose, NoDraft} BY <3>1 DEF Compose, NoDraft
    <3>2. CASE \E i \in DOMAIN annotations : draft' = [kind |-> "edit", id |-> annotations[i].id]
      BY <1>1, <1>2, <1>6, <3>2, OnScreen
    <3> QED BY <1>1, <3>1, <3>2
  <2> QED BY <1>1, <1>2, <1>6, <2>1, <2>2 DEF NotesHeld
<1> QED BY <1>5, <1>6, RulesStay DEF NotesInv, NotesHeld

LEMMA SubmitKept ==
  ASSUME ViewerHeld, NotesInv, SameRules, SubmitNote
  PROVE  NotesInv'
<1>1. NoteInput /\ UNCHANGED <<draft, draftGen>> /\ mode = "viewer" /\ doc # NoDoc /\ doc \in Doc
  BY ViewerAssumption DEF SubmitNote, NoteInput, ViewerHeld, ScreenTyped
<1>2. /\ UNCHANGED <<doc, reads, readings, notes, annotations, loadGen, noteLoads>> /\ draftGen \in Nat
      /\ NotesAlone => /\ noteTasks = {} /\ noteLoads = {} /\ reads = 0 /\ readings = <<>>
                       /\ Lists(annotations, OwnNotes)
  BY <1>1, InputKept DEF SameRules
<1>3. PICK x : /\ noteTasks' = noteTasks \cup {x} /\ x \in NoteTasks /\ x.doc = doc /\ x.phase = "write" /\ x.gen = draftGen
               /\ made' \in Nat /\ made <= made' /\ made' <= MaxNotes
               /\ x.kind = "create" => made' = made + 1 /\ x.id = made' /\ x.text = 1
               /\ x.kind = "edit" => draft = [kind |-> "edit", id |-> x.id]
               /\ x.kind = "delete" => \E i \in DOMAIN annotations : x.id = annotations[i].id
  <2>1. made \in Nat /\ made <= MaxNotes /\ MaxNotes \in Nat /\ draftGen \in Nat
        /\ draft \in {NoDraft, Compose} \cup [kind : {"edit"}, id : Note]
    BY ReadingAssumption DEF NotesInv, NotesTyped
  <2>2. CASE /\ draft = Compose /\ made < MaxNotes /\ made' = made + 1
             /\ noteTasks' = noteTasks \cup {NoteTask("create", made', 1)}
    <3>1. made' \in Note BY <2>1, <2>2 DEF Note
    <3> DEFINE x == NoteTask("create", made', 1)
    <3>2. /\ x \in NoteTasks /\ x.doc = doc /\ x.phase = "write" /\ x.gen = draftGen /\ x.kind = "create"
          /\ x.id = made' /\ x.text = 1
      BY <1>1, <2>1, <3>1 DEF NoteTask, NoteTasks, Text
    <3> HIDE DEF x
    <3>3. made' \in Nat /\ made <= made' /\ made' <= MaxNotes BY <2>1, <2>2
    <3> QED BY <2>2, <3>2, <3>3 DEF x
  <2>3. CASE draft.kind = "edit" /\ UNCHANGED made /\ noteTasks' = noteTasks \cup {NoteTask("edit", draft.id, 2)}
    <3>1. draft \in [kind : {"edit"}, id : Note] BY <2>1, <2>3 DEF NoDraft, Compose
    <3> DEFINE x == NoteTask("edit", draft.id, 2)
    <3>2. /\ x \in NoteTasks /\ x.doc = doc /\ x.phase = "write" /\ x.gen = draftGen /\ x.kind = "edit"
          /\ draft = [kind |-> "edit", id |-> x.id]
      BY <1>1, <2>1, <3>1 DEF NoteTask, NoteTasks, Text
    <3> HIDE DEF x
    <3> QED BY <2>1, <2>3, <3>2 DEF x
  <2>4. CASE /\ UNCHANGED made
             /\ \E i \in DOMAIN annotations : noteTasks' = noteTasks \cup {NoteTask("delete", annotations[i].id, 1)}
    <3>1. PICK i \in DOMAIN annotations : noteTasks' = noteTasks \cup {NoteTask("delete", annotations[i].id, 1)}
      BY <2>4
    <3>2. annotations[i] \in Shows BY ElementOfSeq, LenProperties DEF NotesInv, NotesTyped
    <3> DEFINE x == NoteTask("delete", annotations[i].id, 1)
    <3>3. /\ x \in NoteTasks /\ x.doc = doc /\ x.phase = "write" /\ x.gen = draftGen /\ x.kind = "delete"
          /\ x.id = annotations[i].id
      BY <1>1, <2>1, <3>2 DEF NoteTask, NoteTasks, Text, Shows
    <3> HIDE DEF x
    <3> QED BY <2>1, <2>4, <3>1, <3>3 DEF x
  <2> QED BY <2>2, <2>3, <2>4 DEF SubmitNote
<1>4. made \in Nat /\ \A n \in notes : n.id <= made /\ n.id \in Nat
  BY DEF NotesInv, NotesTyped, Notes, Note
<1>5. NotesTyped'
  <2>1. \A y \in noteTasks' : y \in NoteTasks /\ y.gen <= draftGen /\ (y.kind = "create" => y.text = 1 /\ y.id <= made')
    <3>1. \A y \in noteTasks : y \in NoteTasks /\ y.gen <= draftGen /\ (y.kind = "create" => y.text = 1 /\ y.id <= made)
      BY DEF NotesInv, NotesTyped
    <3>2. \A y \in NoteTasks : y.id \in Nat BY DEF NoteTasks, Note
    <3>3. ASSUME NEW y \in noteTasks PROVE y.kind = "create" => y.id <= made'
      BY <1>3, <1>4, <3>1, <3>2
    <3> QED BY <1>2, <1>3, <1>4, <3>1, <3>3
  <2>2. \A n \in notes : n.id <= made' BY <1>3, <1>4
  <2> QED BY <1>1, <1>2, <1>3, <2>1, <2>2 DEF NotesInv, NotesTyped
<1>6. ASSUME NotesAlone PROVE NotesHeld'
  <2>1. noteTasks' = {x} BY <1>2, <1>3, <1>6
  <2>2. Lists(annotations, OwnNotes)' BY <1>2, <1>6 DEF Lists, OwnNotes
  <2>3. Behind(x)' BY <1>3, <2>2 DEF Behind
  <2>4. /\ \A n \in notes : n.id = x.id => n.doc = doc
        /\ x.kind = "create" => \A n \in notes : n.id # x.id
        /\ x.kind = "delete" => \E n \in notes : n.id = x.id
    <3>1. CASE x.kind = "create" BY <1>3, <1>4, <3>1
    <3>2. CASE x.kind = "edit"
      <4>1. draft.kind = "edit" /\ draft.id = x.id BY <1>3, <3>2
      <4> QED BY <1>6, <3>2, <4>1 DEF NotesInv, NotesHeld
    <3>3. CASE x.kind = "delete" BY <1>1, <1>2, <1>3, <1>6, <3>3, OnScreen
    <3> QED BY <1>3, <3>1, <3>2, <3>3 DEF NoteTasks
  <2>5. draft.kind = "edit" => \A n \in notes : n.id = draft.id => n.doc = doc
    BY <1>6 DEF NotesInv, NotesHeld
  <2> QED BY <1>1, <1>2, <1>3, <1>6, <2>1, <2>2, <2>3, <2>4, <2>5 DEF NotesHeld
<1> QED BY <1>5, <1>6, RulesStay DEF NotesInv, NotesHeld

(* The command that ends is the only one, and it leaves a list of what there is. *)
LEMMA WriteNoteKept ==
  ASSUME ViewerHeld, NotesInv, SameRules, NEW x \in noteTasks, WriteNote(x)
  PROVE  NotesInv'
<1> DEFINE row == [id |-> x.id, doc |-> x.doc, text |-> x.text]
           old == {n \in notes : n.id = x.id}
           fails == x.kind = "edit" /\ old = {}
<1>0. PICK y : y = [x EXCEPT !.phase = IF fails THEN "failed" ELSE "done"] OBVIOUS
<1>1. /\ UNCHANGED <<doc, reads, readings, annotations, draft, draftGen, loadGen, noteLoads, made>>
      /\ x.phase = "write" /\ noteTasks' = (noteTasks \ {x}) \cup {y}
      /\ notes' = (notes \ old) \cup (IF x.kind = "delete" \/ fails THEN {} ELSE {row})
  BY <1>0 DEF WriteNote, viewerVars, progressVars
<1>2. x \in NoteTasks BY DEF NotesInv, NotesTyped
<1>3. /\ y \in NoteTasks /\ y.kind = x.kind /\ y.id = x.id /\ y.text = x.text /\ y.doc = x.doc /\ y.gen = x.gen
      /\ y.phase = IF fails THEN "failed" ELSE "done"
  BY <1>0, <1>2 DEF NoteTasks
<1>4. row \in Notes /\ row.id = x.id /\ row.doc = x.doc BY <1>2 DEF NoteTasks, Notes
<1>5. notes \subseteq Notes /\ OneEach(notes) BY DEF NotesInv, NotesTyped
<1>6. \A n \in notes' : (n \in notes /\ n.id # x.id) \/ n = row \/ (n \in notes /\ old = {})
  BY <1>1
<1>7. \A n \in notes' : n = row => x.kind # "delete" BY <1>1, <1>4
<1>8. OneEach(notes') /\ notes' \subseteq Notes
  <2>1. \A n \in notes' : n \in Notes BY <1>4, <1>5, <1>6
  <2>2. \A n, m \in notes' : n.id = m.id => n = m
    <3>1. CASE old = {} /\ fails BY <1>1, <1>5, <3>1 DEF OneEach
    <3>2. CASE ~fails
      <4>1. \A n \in notes' : (n \in notes /\ n.id # x.id) \/ n = row BY <1>1, <3>2
      <4> QED BY <1>4, <1>5, <4>1 DEF OneEach
    <3> QED BY <3>1, <3>2
  <2> QED BY <2>1, <2>2 DEF OneEach
<1>9. NotesTyped'
  <2>1. \A n \in notes' : n.id <= made
    <3>1. \A n \in notes : n.id <= made BY DEF NotesInv, NotesTyped
    <3>2. CASE x.kind = "create"
      <4>1. x.id <= made BY <3>2 DEF NotesInv, NotesTyped
      <4> QED BY <1>1, <1>4, <3>1, <4>1
    <3>3. CASE x.kind # "create"
      <4>1. CASE old = {} 
        <5>1. \A n \in notes' : n \in notes BY <1>1, <1>2, <3>3, <4>1 DEF NoteTasks
        <5> QED BY <3>1, <5>1
      <4>2. CASE old # {}
        <5>1. PICK n \in notes : n.id = x.id BY <4>2
        <5>2. x.id <= made BY <3>1, <5>1
        <5> QED BY <1>1, <1>4, <3>1, <5>2
      <4> QED BY <4>1, <4>2
    <3> QED BY <3>2, <3>3
  <2>2. \A z \in noteTasks' : z \in NoteTasks /\ z.gen <= draftGen /\ (z.kind = "create" => z.text = 1 /\ z.id <= made)
    <3>1. \A z \in noteTasks : z \in NoteTasks /\ z.gen <= draftGen /\ (z.kind = "create" => z.text = 1 /\ z.id <= made)
      BY DEF NotesInv, NotesTyped
    <3>2. \A z \in noteTasks' : z \in noteTasks \/ z = y BY <1>1
    <3> QED BY <1>3, <3>1, <3>2
  <2> HIDE DEF row, old, fails
  <2>3. /\ annotations \in Seq(Shows) /\ draft \in {NoDraft, Compose} \cup [kind : {"edit"}, id : Note]
        /\ draftGen \in Nat /\ loadGen \in Nat /\ noteLoads \subseteq NoteLoads
        /\ \A l \in noteLoads : l.gen > 0 /\ l.gen <= loadGen /\ OneEach(l.found)
        /\ made \in Nat /\ made <= MaxNotes
    BY DEF NotesInv, NotesTyped
  <2> QED BY <1>1, <1>8, <2>1, <2>2, <2>3 DEF NotesTyped
<1>10. ASSUME NotesAlone PROVE NotesHeld'
  <2>1. /\ noteTasks' = {y} /\ x.doc = doc /\ doc # NoDoc /\ noteLoads = {} /\ reads = 0 /\ readings = <<>>
        /\ \A n \in notes : n.id = x.id => n.doc = doc
        /\ x.kind = "create" => old = {}
        /\ x.kind = "delete" => old # {}
        /\ Lists(annotations, OwnNotes)
        /\ draft.kind = "edit" => \A n \in notes : n.id = draft.id => n.doc = doc
    BY <1>1, <1>10 DEF NotesInv, NotesHeld, Behind
  <2>2. row = NoteOf(x.id, x.text) BY <2>1 DEF NoteOf
  <2>3. y.phase \in {"done", "failed"} BY <1>3
  <2>4. Behind(y)'
    <3>1. CASE fails
      <4>1. notes' = notes BY <1>1, <3>1
      <4>2. Lists(annotations, OwnNotes)' BY <1>1, <2>1, <4>1 DEF Lists, OwnNotes
      <4> QED BY <1>3, <3>1, <4>2 DEF Behind
    <3>2. CASE ~fails
      <4>1. \A n \in notes' : (n \in notes /\ n.id # x.id) \/ n = row BY <1>1, <3>2
      <4>2. \A n \in notes : n.id # x.id => n \in notes' BY <1>1
      <4>3. OtherNotes(x.id)' = OtherNotes(x.id)
        <5>1. OtherNotes(x.id) = {n \in notes : n.doc = doc /\ n.id # x.id}
          BY DEF OtherNotes, OwnNotes
        <5>2. OtherNotes(x.id)' = {n \in notes' : n.doc = doc /\ n.id # x.id}
          BY <1>1 DEF OtherNotes, OwnNotes
        <5> QED BY <1>4, <4>1, <4>2, <5>1, <5>2
      <4>4. x.kind # "delete" => row \in notes' BY <1>1, <3>2
      <4>5. x.kind = "delete" => \A n \in notes' : n.id # x.id BY <1>7, <4>1
      <4>6. \A id, t : NoteOf(id, t)' = NoteOf(id, t) BY <1>1 DEF NoteOf
      <4>7. CASE old = {}
        <5>1. x.kind = "create" BY <1>2, <2>1, <3>2, <4>7 DEF NoteTasks
        <5>2. OtherNotes(x.id) = OwnNotes BY <4>7 DEF OtherNotes, OwnNotes
        <5>3. Lists(annotations, OtherNotes(x.id))' BY <1>1, <2>1, <4>3, <5>2 DEF Lists
        <5> QED BY <1>3, <2>2, <3>2, <4>4, <4>6, <5>1, <5>3 DEF Behind
      <4>8. CASE old # {}
        <5>1. PICK o \in notes : o.id = x.id BY <4>8
        <5>2. o \in Notes /\ o.doc = doc BY <1>5, <2>1, <5>1
        <5>3. o.text \in Text /\ o = NoteOf(x.id, o.text) BY <5>1, <5>2 DEF Notes, NoteOf
        <5>4. OwnNotes = OtherNotes(x.id) \cup {o}
          BY <1>5, <5>1, <5>2 DEF OtherNotes, OwnNotes, OneEach
        <5>5. (OtherNotes(x.id) \cup {NoteOf(x.id, o.text)})' = OwnNotes BY <4>3, <4>6, <5>3, <5>4
        <5>6. Lists(annotations', (OtherNotes(x.id) \cup {NoteOf(x.id, o.text)})')
          BY <1>1, <2>1, <5>5
        <5>7. x.kind # "create" BY <2>1, <4>8
        <5>8. \E t \in Text : Lists(annotations, OtherNotes(x.id) \cup {NoteOf(x.id, t)})'
          BY <5>3, <5>6
        <5> QED BY <1>3, <2>2, <3>2, <4>4, <4>5, <4>6, <5>7, <5>8 DEF Behind
      <4> QED BY <4>7, <4>8
    <3> QED BY <3>1, <3>2
  <2>5. draft.kind = "edit" => \A n \in notes' : n.id = draft.id => n.doc = doc
    BY <1>4, <1>6, <2>1
  <2>6. y.doc = doc /\ y.phase # "write" BY <1>3, <2>1
  <2> HIDE DEF row, old, fails
  <2> QED BY <1>1, <2>1, <2>4, <2>5, <2>6 DEF NotesHeld
<1> QED BY <1>9, <1>10, RulesStay DEF NotesInv, NotesHeld

LEMMA FinishedKept ==
  ASSUME NotesInv, SameRules, NEW x \in noteTasks, NoteFinished(x)
  PROVE  NotesInv'
<1> DEFINE n == NoteOf(x.id, x.text)
<1>1. /\ UNCHANGED <<doc, reads, readings, notes, loadGen, noteLoads, made>>
      /\ x.phase \in {"done", "failed"} /\ noteTasks' = noteTasks \ {x}
      /\ UNCHANGED <<draft, draftGen>> \/ (draft' = NoDraft /\ draftGen' = draftGen + 1)
  BY DEF NoteFinished, Drafted, progressVars
<1>2. /\ notes \subseteq Notes /\ OneEach(notes) /\ annotations \in Seq(Shows) /\ noteTasks \subseteq NoteTasks
      /\ draftGen \in Nat /\ x \in NoteTasks
  BY DEF NotesInv, NotesTyped
<1>3. [id |-> x.id, text |-> x.text] = RowOf(n) /\ n.id = x.id /\ n.text = x.text /\ n.doc = doc
  BY DEF RowOf, NoteOf
<1>4. annotations' = IF x.phase = "failed" THEN annotations
                     ELSE IF x.kind = "create" THEN Append(annotations, RowOf(n))
                     ELSE IF x.kind = "edit"
                          THEN [i \in DOMAIN annotations |-> IF IsFirst(i, n.id)
                                  THEN [annotations[i] EXCEPT !.text = n.text] ELSE annotations[i]]
                     ELSE WithoutNote(n.id)
  BY <1>2, <1>3 DEF NoteFinished, NoteTasks
<1>5. RowOf(n) \in Shows BY <1>2, <1>3 DEF NoteTasks, Shows
<1>6. annotations' \in Seq(Shows)
  <2>1. CASE x.phase = "failed" BY <1>2, <1>4, <2>1
  <2>2. CASE x.phase # "failed" /\ x.kind = "create" BY <1>2, <1>4, <1>5, <2>2, AppendProperties
  <2>3. CASE x.phase # "failed" /\ x.kind = "edit"
    <3>1. \A i \in DOMAIN annotations : annotations[i] \in Shows
      BY <1>2, ElementOfSeq, LenProperties
    <3>2. \A i \in DOMAIN annotations : [annotations[i] EXCEPT !.text = n.text] \in Shows
      BY <1>2, <1>3, <3>1 DEF Shows, NoteTasks
    <3>3. Len(annotations) \in Nat /\ DOMAIN annotations = 1 .. Len(annotations)
      BY <1>2, LenProperties
    <3>4. annotations' \in [1 .. Len(annotations) -> Shows] BY <1>4, <2>3, <3>1, <3>2, <3>3
    <3> QED BY <3>3, <3>4
  <2>4. CASE x.phase # "failed" /\ x.kind \notin {"create", "edit"}
    <3>1. Drops(WithoutNote(n.id), n.id) BY <1>2, WithoutTyped
    <3> QED BY <1>4, <2>4, <3>1 DEF Drops
  <2> QED BY <2>1, <2>2, <2>3, <2>4
<1>7. NotesTyped'
  <2>1. \A z \in noteTasks : z.gen \in Nat /\ z.gen <= draftGen
    BY DEF NotesInv, NotesTyped, NoteTasks
  <2>2. draftGen' \in Nat /\ \A z \in noteTasks : z.gen <= draftGen' BY <1>1, <1>2, <2>1
  <2>3. draft' \in {NoDraft, Compose} \cup [kind : {"edit"}, id : Note]
    BY <1>1 DEF NotesInv, NotesTyped
  <2> QED BY <1>1, <1>6, <2>2, <2>3 DEF NotesInv, NotesTyped
<1>8. ASSUME NotesAlone PROVE NotesHeld'
  <2>1. /\ noteTasks' = {} /\ x.doc = doc /\ doc # NoDoc /\ noteLoads = {} /\ Behind(x)
        /\ draft.kind = "edit" => doc # NoDoc /\ \A m \in notes : m.id = draft.id => m.doc = doc
    BY <1>1, <1>8 DEF NotesInv, NotesHeld
  <2>2. draft'.kind = "edit" => \A m \in notes : m.id = draft'.id => m.doc = doc
    BY <1>1, <2>1 DEF NoDraft
  <2>3. OtherNotes(x.id) \in SUBSET Notes /\ \A m \in OtherNotes(x.id) : m.id # n.id
    BY <1>2, <1>3 DEF OtherNotes, OwnNotes
  <2>4. ASSUME n \in notes PROVE OtherNotes(x.id) \cup {n} = OwnNotes
    BY <1>2, <1>3, <2>4 DEF OtherNotes, OwnNotes, OneEach
  <2>5. Lists(annotations', OwnNotes)
    <3>1. CASE x.phase = "failed" BY <1>4, <2>1, <3>1 DEF Behind
    <3>2. CASE x.phase = "done" /\ x.kind = "create"
      <4>1. n \in notes /\ Lists(annotations, OtherNotes(x.id)) BY <2>1, <3>2 DEF Behind
      <4>2. n \in Notes BY <1>2, <4>1
      <4> HIDE DEF n
      <4>3. Lists(Append(annotations, RowOf(n)), OtherNotes(x.id) \cup {n})
        BY <1>2, <2>3, <4>1, <4>2, ListAppends
      <4> QED BY <1>4, <2>4, <3>2, <4>1, <4>3
    <3>3. CASE x.phase = "done" /\ x.kind = "edit"
      <4>1. n \in notes /\ \E t \in Text : Lists(annotations, OtherNotes(x.id) \cup {NoteOf(x.id, t)})
        BY <2>1, <3>3 DEF Behind
      <4>2. PICK t \in Text : Lists(annotations, OtherNotes(x.id) \cup {NoteOf(x.id, t)}) BY <4>1
      <4>3. PICK o : o = NoteOf(x.id, t) OBVIOUS
      <4>4. n \in Notes BY <1>2, <4>1
      <4>5. o \in Notes /\ o.id = n.id BY <1>3, <4>3, <4>4 DEF NoteOf, Notes
      <4>6. Lists(annotations, OtherNotes(x.id) \cup {o}) /\ \A m \in OtherNotes(x.id) : m.id # o.id
        BY <2>3, <4>2, <4>3, <4>5
      <4> HIDE DEF n
      <4>7. Lists([i \in DOMAIN annotations |-> IF IsFirst(i, n.id)
                     THEN [annotations[i] EXCEPT !.text = n.text] ELSE annotations[i]], OtherNotes(x.id) \cup {n})
        BY <1>2, <2>3, <4>4, <4>5, <4>6, ListEdits
      <4> QED BY <1>4, <2>4, <3>3, <4>1, <4>7
    <3>4. CASE x.phase = "done" /\ x.kind = "delete"
      <4>1. /\ \A m \in notes : m.id # x.id
            /\ \E t \in Text : Lists(annotations, OtherNotes(x.id) \cup {NoteOf(x.id, t)})
        BY <2>1, <3>4 DEF Behind
      <4>2. PICK t \in Text : Lists(annotations, OtherNotes(x.id) \cup {NoteOf(x.id, t)}) BY <4>1
      <4>3. PICK o : o = NoteOf(x.id, t) OBVIOUS
      <4>4. o \in Notes BY <1>2, <2>1, <4>3 DEF NoteOf, Notes, NoteTasks
      <4>5. o.id = n.id /\ n.id = x.id BY <1>3, <4>3 DEF NoteOf
      <4>6. OwnNotes = OtherNotes(x.id) BY <4>1 DEF OtherNotes, OwnNotes
      <4> HIDE DEF n
      <4>7. Lists(WithoutNote(o.id), OtherNotes(x.id))
        BY <1>2, <2>3, <4>2, <4>3, <4>4, <4>5, ListDrops
      <4> QED BY <1>4, <3>4, <4>5, <4>6, <4>7
    <3> QED BY <1>1, <1>2, <3>1, <3>2, <3>3, <3>4 DEF NoteTasks
  <2>6. Lists(annotations, OwnNotes)' BY <1>1, <2>5 DEF OwnNotes, Lists
  <2> QED BY <1>1, <2>1, <2>2, <2>6 DEF NotesHeld
<1> QED BY <1>7, <1>8, RulesStay DEF NotesInv, NotesHeld

(* A reading of the annotations of a document begins; it is the last. *)
LEMMA LoadBegins ==
  ASSUME NotesTyped, NEW d \in Doc, LoadAnnotations(d)
  PROVE  /\ loadGen' \in Nat /\ loadGen' > 0 /\ noteLoads' \subseteq NoteLoads
         /\ \A l \in noteLoads' : l.gen > 0 /\ l.gen <= loadGen' /\ OneEach(l.found)
         /\ \A l \in noteLoads' : l.gen = loadGen' => l.doc = d /\ l.phase = "read"
         /\ "note" \in happens => \E l \in noteLoads' : l.gen = loadGen'
<1>1. PICK m : m = [doc |-> d, gen |-> loadGen', phase |-> "read", found |-> {}] OBVIOUS
<1>2. loadGen' = loadGen + 1 /\ noteLoads' = IF "note" \notin happens THEN {} ELSE noteLoads \cup {m}
  BY <1>1 DEF LoadAnnotations
<1>3. loadGen \in Nat /\ \A l \in noteLoads : l \in NoteLoads /\ l.gen \in Nat /\ l.gen > 0 /\ l.gen <= loadGen /\ OneEach(l.found)
  BY DEF NotesTyped, NoteLoads
<1>4. loadGen' \in Nat /\ loadGen' > 0 /\ \A l \in noteLoads : l.gen <= loadGen' /\ l.gen # loadGen'
  BY <1>2, <1>3
<1>5. m \in NoteLoads /\ m.gen = loadGen' /\ m.doc = d /\ m.phase = "read" /\ OneEach(m.found)
  BY <1>1, <1>4 DEF NoteLoads, OneEach
<1>6. \A l \in noteLoads' : l \in noteLoads \/ l = m BY <1>2
<1>7. loadGen' <= loadGen' BY <1>4
<1> QED BY <1>2, <1>3, <1>4, <1>5, <1>6, <1>7

LEMMA OpenedNotes ==
  ASSUME NotesInv, SameRules, NEW d \in Doc, EntryOpened(d), NoDoc \notin Doc
  PROVE  NotesInv'
<1>1. /\ doc' = d /\ d # NoDoc /\ annotations' = <<>> /\ LoadAnnotations(d)
      /\ UNCHANGED <<reads, readings, notes, noteTasks, made>>
      /\ ("overlap" \in happens \/ noteTasks = {})
      /\ (draft = NoDraft /\ UNCHANGED <<draft, draftGen>>) \/ (draft' = NoDraft /\ draftGen' = draftGen + 1)
  BY DEF EntryOpened, DocumentOpened, Installed, Drafted
<1>2. NotesTyped BY DEF NotesInv
<1>3. /\ loadGen' \in Nat /\ loadGen' > 0 /\ noteLoads' \subseteq NoteLoads
      /\ \A l \in noteLoads' : l.gen > 0 /\ l.gen <= loadGen' /\ OneEach(l.found)
      /\ \A l \in noteLoads' : l.gen = loadGen' => l.doc = d /\ l.phase = "read"
      /\ "note" \in happens => \E l \in noteLoads' : l.gen = loadGen'
  BY <1>1, <1>2, LoadBegins
<1>4. annotations' \in Seq(Shows) BY <1>1
<1>5. draft' = NoDraft /\ draft'.kind = "none" BY <1>1 DEF NoDraft
<1>6. draftGen' \in Nat /\ \A x \in noteTasks : x.gen <= draftGen'
  <2>1. draftGen \in Nat /\ \A x \in noteTasks : x.gen \in Nat /\ x.gen <= draftGen
    BY <1>2 DEF NotesTyped, NoteTasks
  <2> QED BY <1>1, <2>1
<1>7. NotesTyped' BY <1>1, <1>2, <1>3, <1>4, <1>5, <1>6 DEF NotesTyped
<1>8. ASSUME NotesAlone PROVE NotesHeld'
  <2>1. noteTasks = {} /\ "note" \in happens BY <1>1, <1>8 DEF NotesAlone
  <2> QED BY <1>1, <1>3, <1>5, <2>1 DEF NotesHeld
<1> QED BY <1>7, <1>8, RulesStay DEF NotesInv, NotesHeld

LEMMA EntriesNotes ==
  ASSUME ViewerHeld, NotesInv, SameRules, EntriesLoaded
  PROVE  NotesInv'
<1>1. /\ UNCHANGED <<doc, reads, notes, annotations, draft, draftGen, noteTasks, made>> /\ readings # <<>>
      /\ IF doc = NoDoc THEN UNCHANGED <<loadGen, noteLoads>> ELSE LoadAnnotations(doc)
  BY DEF EntriesLoaded, viewerVars
<1>2. NotesTyped BY DEF NotesInv
<1>3. NotesAlone => noteTasks = {} BY <1>1 DEF NotesInv, NotesHeld
<1>4. OwnNotes' = OwnNotes /\ (Lists(annotations, OwnNotes)' <=> Lists(annotations, OwnNotes))
  BY <1>1 DEF OwnNotes, Lists
<1>5. CASE doc = NoDoc
  <2>1. NotesTyped' BY <1>1, <1>2, <1>5 DEF NotesTyped
  <2>2. NotesAlone => NotesHeld' BY <1>1, <1>3, <1>4, <1>5 DEF NotesInv, NotesHeld
  <2> QED BY <2>1, <2>2, RulesStay DEF NotesInv, NotesHeld
<1>6. CASE doc # NoDoc
  <2>1. doc \in Doc BY <1>6 DEF ViewerHeld, ScreenTyped
  <2>2. /\ loadGen' \in Nat /\ loadGen' > 0 /\ noteLoads' \subseteq NoteLoads
        /\ \A l \in noteLoads' : l.gen > 0 /\ l.gen <= loadGen' /\ OneEach(l.found)
        /\ \A l \in noteLoads' : l.gen = loadGen' => l.doc = doc /\ l.phase = "read"
        /\ "note" \in happens => \E l \in noteLoads' : l.gen = loadGen'
    BY <1>1, <1>2, <1>6, <2>1, LoadBegins
  <2>3. NotesTyped' BY <1>1, <1>2, <2>2 DEF NotesTyped
  <2>4. ASSUME NotesAlone PROVE NotesHeld'
    <3>1. "note" \in happens /\ noteTasks = {} BY <1>3, <2>4 DEF NotesAlone
    <3>2. draft.kind = "edit" => \A n \in notes : n.id = draft.id => n.doc = doc
      BY <2>4 DEF NotesInv, NotesHeld
    <3> QED BY <1>1, <1>6, <2>2, <3>1, <3>2 DEF NotesHeld
  <2> QED BY <2>3, <2>4, RulesStay DEF NotesInv, NotesHeld
<1> QED BY <1>5, <1>6

LEMMA ClosedNotes == ASSUME NotesInv, SameRules, EntryClosed PROVE NotesInv'
<1>1. UNCHANGED noteVars /\ "switch" \in happens BY DEF EntryClosed, SelectLibrary, Does
<1>2. NotesTyped' BY <1>1 DEF NotesInv, NotesTyped, noteVars
<1>3. ~NotesAlone' BY <1>1 DEF SameRules, NotesAlone
<1> QED BY <1>2, <1>3 DEF NotesInv, NotesHeld
-----------------------------------------------------------------------------
LEMMA ReadingInits ==
  ASSUME ReadingInit
  PROVE  ReadingInv
<1>1. ScreenTyped
  <2>1. happens \in ViewerScenarios /\ MaxViews[happens] \in Nat
    BY ViewerAssumption DEF ReadingInit, ViewerInit
  <2>2. 0 \in Pages /\ FitWidth \in Width BY ViewerAssumption DEF Pages
  <2>3. views \in Nat /\ views <= MaxViews[happens] BY <2>1 DEF ReadingInit, ViewerInit
  <2> QED BY <2>1, <2>2, <2>3 DEF ReadingInit, ViewerInit, ScreenTyped
<1>2. TilePart BY ViewerAssumption
     DEF ReadingInit, ViewerInit, TilePart, TilesTyped, TilesHeld, Blank, Idling, NotPending
<1>3. TextPart BY ViewerAssumption
     DEF ReadingInit, ViewerInit, TextPart, TextTyped, TextHeld, NoText
<1>4. ViewerHeld BY <1>1, <1>2, <1>3 DEF ViewerHeld
<1>5. 0 \in Pages BY ViewerAssumption DEF Pages
<1>6. ProgressTyped BY <1>5, ViewerAssumption DEF ReadingInit, ProgressTyped
<1>7. \A d \in Doc : Comes(d, lastPage[d])
  BY EmptyLeaves DEF ReadingInit, Comes
<1>8. ProgressHeld BY <1>7 DEF ReadingInit, ViewerInit, ProgressHeld
<1>9. NotesTyped BY ReadingAssumption DEF ReadingInit, NotesTyped, NoDraft, OneEach
<1>10. NotesHeld BY DEF ReadingInit, ViewerInit, NotesHeld, NoDraft
<1> QED BY <1>4, <1>6, <1>8, <1>9, <1>10 DEF ReadingInv

(* One part of the state at a time. *)
LEMMA UserViewer == ASSUME ViewerHeld, ReadingUser PROVE ViewerHeld'
<1>1. CASE ViewerInput BY <1>1, ViewerInputHeld
<1>2. CASE EntryTurned BY <1>2, TurnPageHeld DEF EntryTurned
<1>3. CASE EntryLeft \/ EntryClosed BY <1>3, LeavesHeld DEF EntryLeft, EntryClosed
<1>4. CASE LibraryRefreshed \/ StartDraft \/ CancelDraft \/ SubmitNote
  <2>1. UNCHANGED errorVars /\ error \in ErrorText \cup {NoError}
    BY <1>4
         DEF LibraryRefreshed, StartDraft, CancelDraft, SubmitNote, NoteInput, ViewerHeld, ScreenTyped
  <2> QED BY <1>4, <2>1, EntryStepHeld
       DEF LibraryRefreshed, StartDraft, CancelDraft, SubmitNote, NoteInput, errorVars
<1> QED BY <1>1, <1>2, <1>3, <1>4 DEF ReadingUser

LEMMA GoesOnViewer == ASSUME ViewerHeld, ProgressTyped, ReadingGoesOn PROVE ViewerHeld'
<1>1. CASE ViewerResult BY <1>1, ViewerResultHeld
<1>2. CASE \E d \in openings : EntryOpened(d)
  <2>1. PICK d \in openings : EntryOpened(d) BY <1>2
  <2>2. d \in Doc BY DEF ViewerHeld, ScreenTyped
  <2>3. shownPage[d] \in Pages BY <2>2 DEF ProgressTyped
  <2> QED BY <2>1, <2>2, <2>3, DocumentInstalls DEF EntryOpened
<1>3. CASE UNCHANGED viewerVars
  <2>1. UNCHANGED <<mode, doc, page, tileVars, textVars, openings, happens, errorVars, views>>
    BY <1>3 DEF viewerVars
  <2> QED BY <2>1, EntryStepHeld DEF ViewerHeld, ScreenTyped, errorVars
<1>4. CASE \E x \in noteTasks : NoteFinished(x)
  <2>1. PICK x \in noteTasks : NoteFinished(x) BY <1>4
  <2>2. error' \in ErrorText \cup {NoError} BY <2>1 DEF NoteFinished, ViewerHeld, ScreenTyped
  <2> QED BY <2>1, <2>2, EntryStepHeld DEF NoteFinished
<1>5. CASE ProgressStep
  BY <1>3, <1>5
       DEF ProgressStep, ProgressUpdated, ReadLibrary, EntriesLoaded, ProgressSaveSettled, WriteProgress
<1>6. CASE NoteStep
  BY <1>3, <1>4, <1>6 DEF NoteStep, ReadAnnotations, AnnotationsLoaded, WriteNote
<1> QED BY <1>1, <1>2, <1>5, <1>6 DEF ReadingGoesOn

(* The steps that leave the pages that are saved alone. *)
LEMMA PagesStay ==
  ASSUME ViewerHeld, ProgressInv, UNCHANGED progressVars, UNCHANGED <<mode, doc, page, happens, openings>>
  PROVE  ProgressInv'
BY ProgressKept

LEMMA UserProgress == ASSUME ViewerHeld, ProgressInv, ReadingUser PROVE ProgressInv'
<1>1. CASE ViewerInput /\ UNCHANGED progressVars
  <2>1. UNCHANGED <<doc, page, happens>> /\ ((UNCHANGED mode /\ openings' \subseteq openings) \/ OpenLibraryEntry \/ BackToViewer)
    BY <1>1, ViewerFrame
  <2> QED BY <1>1, <2>1, ProgressKept
<1>2. CASE EntryTurned BY <1>2, TurnedKept
<1>3. CASE EntryLeft BY <1>3, LeftKept
<1>4. CASE EntryClosed
  <2>1. UNCHANGED progressVars /\ "switch" \in happens /\ happens' = happens
    BY <1>4 DEF EntryClosed, SelectLibrary, Does
  <2>2. ProgressTyped' BY <2>1 DEF ProgressInv, ProgressTyped, progressVars
  <2>3. ~Orderly' BY <2>1 DEF Orderly
  <2> QED BY <2>2, <2>3 DEF ProgressInv, ProgressHeld
<1>5. CASE LibraryRefreshed BY <1>5, RefreshKept DEF LibraryRefreshed, MoreReads
<1>6. CASE StartDraft \/ CancelDraft \/ SubmitNote
  BY <1>6, PagesStay DEF StartDraft, CancelDraft, SubmitNote, NoteInput
<1> QED BY <1>1, <1>2, <1>3, <1>4, <1>5, <1>6 DEF ReadingUser

LEMMA GoesOnProgress == ASSUME ViewerHeld, ProgressInv, ReadingGoesOn PROVE ProgressInv'
<1>1. CASE ViewerResult /\ UNCHANGED progressVars
  <2>1. UNCHANGED <<doc, page, happens>> /\ ((UNCHANGED mode /\ openings' \subseteq openings) \/ OpenLibraryEntry \/ BackToViewer)
    BY <1>1, ViewerFrame
  <2> QED BY <1>1, <2>1, ProgressKept
<1>2. CASE \E d \in openings : EntryOpened(d) BY <1>2, OpenedKept
<1>3. CASE ProgressStep BY <1>3, UpdatedKept, ReadKept, LoadedKept, SaveSettledKept, WrittenKept
     DEF ProgressStep
<1>4. CASE NoteStep
  <2>1. UNCHANGED progressVars /\ UNCHANGED <<mode, doc, page, happens, openings>>
    BY <1>4 DEF NoteStep, ReadAnnotations, AnnotationsLoaded, WriteNote, NoteFinished, viewerVars
  <2> QED BY <2>1, PagesStay
<1> QED BY <1>1, <1>2, <1>3, <1>4 DEF ReadingGoesOn

LEMMA UserNotes == ASSUME ViewerHeld, NotesInv, SameRules, ReadingUser PROVE NotesInv'
<1>1. CASE ViewerInput /\ UNCHANGED <<progressVars, noteVars>>
  <2>1. UNCHANGED <<doc, reads, readings, noteVars>> BY <1>1, ViewerFrame DEF progressVars
  <2> QED BY <2>1, NotesStay
<1>2. CASE EntryTurned
  <2>1. UNCHANGED <<doc, reads, readings, noteVars>> BY <1>2 DEF EntryTurned, TurnPage
  <2> QED BY <2>1, NotesStay
<1>3. CASE EntryLeft
  <2>1. UNCHANGED <<doc, readings, noteVars>> /\ ("overlap" \in happens \/ noteTasks = {})
    BY <1>3 DEF EntryLeft, BackToLibrary
  <2> QED BY <2>1, NotesStay DEF NotesAlone
<1>4. CASE EntryClosed BY <1>4, ClosedNotes
<1>5. CASE LibraryRefreshed
  <2>1. UNCHANGED <<doc, readings, noteVars>> /\ ("overlap" \in happens \/ noteTasks = {})
    BY <1>5 DEF LibraryRefreshed
  <2> QED BY <2>1, NotesStay DEF NotesAlone
<1>6. CASE StartDraft \/ CancelDraft BY <1>6, DraftKept
<1>7. CASE SubmitNote BY <1>7, SubmitKept
<1> QED BY <1>1, <1>2, <1>3, <1>4, <1>5, <1>6, <1>7 DEF ReadingUser

LEMMA GoesOnNotes == ASSUME ViewerHeld, ProgressTyped, NotesInv, SameRules, ReadingGoesOn PROVE NotesInv'
<1>1. CASE ViewerResult /\ UNCHANGED <<progressVars, noteVars>>
  <2>1. UNCHANGED <<doc, reads, readings, noteVars>> BY <1>1, ViewerFrame DEF progressVars
  <2> QED BY <2>1, NotesStay
<1>2. CASE \E d \in openings : EntryOpened(d)
  <2>1. PICK d \in openings : EntryOpened(d) BY <1>2
  <2>2. d \in Doc BY DEF ViewerHeld, ScreenTyped
  <2> QED BY <2>1, <2>2, OpenedNotes, ViewerAssumption
<1>3. CASE EntriesLoaded BY <1>3, EntriesNotes
<1>4. CASE ReadLibrary
  <2>1. UNCHANGED <<doc, noteVars>> /\ reads # 0 BY <1>4 DEF ReadLibrary, viewerVars
  <2> QED BY <2>1, NotesStay
<1>5. CASE ProgressUpdated \/ (\E b \in debounces : ProgressSaveSettled(b)) \/ (\E i \in DOMAIN writes : WriteProgress(i))
  <2>1. UNCHANGED <<doc, reads, readings, noteVars>>
    BY <1>5 DEF ProgressUpdated, ProgressSaveSettled, WriteProgress, viewerVars
  <2> QED BY <2>1, NotesStay
<1>6. CASE NoteStep BY <1>6, ReadNotesKept, NotesLoadedKept, WriteNoteKept, FinishedKept
     DEF NoteStep
<1> QED BY <1>1, <1>2, <1>3, <1>4, <1>5, <1>6 DEF ReadingGoesOn, ProgressStep

LEMMA ReadingStep ==
  ASSUME ReadingInv, ReadingNext, orders' = orders
  PROVE  ReadingInv'
<1>1. ViewerHeld /\ ProgressTyped /\ ProgressInv /\ NotesInv
  BY DEF ReadingInv, ProgressInv, NotesInv
<1>2. happens' = happens
  <2>1. CASE ReadingUser
    BY <2>1, ViewerFrame
         DEF ReadingUser, EntryTurned, TurnPage, EntryLeft, BackToLibrary, EntryClosed, SelectLibrary,
       LibraryRefreshed, StartDraft, CancelDraft, SubmitNote, NoteInput
  <2>2. CASE ReadingGoesOn
    BY <2>2, ViewerFrame
         DEF ReadingGoesOn, EntryOpened, DocumentOpened, Installed, ProgressStep, ProgressUpdated,
       ReadLibrary, EntriesLoaded, ProgressSaveSettled, WriteProgress, NoteStep, ReadAnnotations, AnnotationsLoaded,
       WriteNote, NoteFinished, viewerVars
  <2> QED BY <2>1, <2>2 DEF ReadingNext
<1>3. SameRules BY <1>2 DEF SameRules
<1>4. ViewerHeld' BY <1>1, UserViewer, GoesOnViewer DEF ReadingNext
<1>5. ProgressInv' BY <1>1, UserProgress, GoesOnProgress DEF ReadingNext
<1>6. NotesInv' BY <1>1, <1>3, UserNotes, GoesOnNotes DEF ReadingNext
<1> QED BY <1>4, <1>5, <1>6 DEF ReadingInv, ProgressInv, NotesInv
-----------------------------------------------------------------------------
(* On the desktop: an import may have the library read, but then one was ordered. *)
LEMMA ReadingInvInit == ASSUME DesktopInit PROVE ReadingInv
BY ReadingInits DEF DesktopInit

LEMMA ReadingSteps ==
  ASSUME NoImports, [DesktopNext]_desktopVars
  PROVE  \/ UNCHANGED readingVars
         \/ ReadingNext /\ UNCHANGED orders
         \/ orders' # 0 /\ reads' = reads + 1 /\ UNCHANGED readingRest
<1>1. CASE ReadingUser /\ UNCHANGED <<libraryVars, raindropVars>>
  BY <1>1 DEF ReadingNext, raindropVars
<1>2. CASE ReadingGoesOn /\ UNCHANGED <<libraryVars, raindropVars>>
  BY <1>2 DEF ReadingNext, raindropVars
<1>3. CASE ImportRefreshes
  <2>1. mail # <<>> /\ UNCHANGED orders
    BY <1>3 DEF ImportRefreshes, RaindropImportFinished, RaindropImportRollbackFinished, Hears
  <2> QED BY <1>3, <2>1 DEF ImportRefreshes, NoImports
<1> QED
  BY <1>1, <1>2, <1>3
       DEF DesktopNext, DesktopUser, DesktopGoesOn, ImportErrs, CommandErrs, desktopVars

LEMMA ReadingInvStep ==
  ASSUME NoImports, ReadingInv, [DesktopNext]_desktopVars
  PROVE  ReadingInv'
<1>1. (orders' = 0 => orders = 0) /\ ViewerHeld /\ ProgressInv /\ NotesInv
  BY NoImportsStep DEF ReadingInv, ProgressInv, NotesInv
<1>2. CASE ReadingNext /\ UNCHANGED orders BY <1>2, ReadingStep
<1>3. CASE UNCHANGED readingVars
  <2>1. UNCHANGED <<mode, doc, page, tileVars, textVars, openings, happens, errorVars, views,
                    progressVars, noteVars, reads, readings>>
    BY <1>3 DEF readingVars, viewerVars, progressVars
  <2>2. ViewerHeld' BY <1>1, <2>1, EntryStepHeld DEF ViewerHeld, ScreenTyped, errorVars
  <2>3. ProgressInv' BY <1>1, <2>1, PagesStay
  <2>4. SameRules BY <1>1, <2>1 DEF SameRules
  <2>5. NotesInv' BY <1>1, <2>1, <2>4, NotesStay
  <2> QED BY <2>2, <2>3, <2>5 DEF ReadingInv, ProgressInv, NotesInv
<1>4. CASE orders' # 0 /\ reads' = reads + 1 /\ UNCHANGED readingRest
  <2>1. /\ UNCHANGED <<mode, doc, page, tileVars, textVars, openings, happens, errorVars, views,
                       noteVars, readings>>
        /\ MoreReads
    BY <1>4 DEF readingRest, viewerVars, MoreReads
  <2>2. ViewerHeld' BY <1>1, <2>1, EntryStepHeld DEF ViewerHeld, ScreenTyped, errorVars
  <2>3. ProgressInv' BY <1>1, <2>1, RefreshKept
  <2>4. NotesTyped' BY <1>1, <2>1 DEF NotesInv, NotesTyped, noteVars
  <2>5. ~NotesAlone' BY <1>4 DEF NotesAlone
  <2> QED BY <2>2, <2>3, <2>4, <2>5 DEF ReadingInv, ProgressInv, NotesHeld
<1> QED BY <1>2, <1>3, <1>4, ReadingSteps

LEMMA ReadingInvHolds == DesktopSpec => [](NoImports /\ ReadingInv)
<1>1. DesktopInit => NoImports /\ ReadingInv BY NoImportsInit, ReadingInvInit
<1>2. NoImports /\ ReadingInv /\ [DesktopNext]_desktopVars => (NoImports /\ ReadingInv)'
  BY NoImportsStep, ReadingInvStep
<1> QED BY <1>1, <1>2, PTL DEF DesktopSpec

(* What the viewer keeps of a document, its progress, its annotations and what is on its way *)
(* have the types of update.rs and state.rs, for every document, page and zoom.              *)
THEOREM ReadingTyped == DesktopSpec => []ReadingTypeOK
<1>1. ASSUME ReadingInv PROVE ReadingTypeOK
  <2>1. ViewerTypeOK
    <3>1. ScreenTyped /\ TilesTyped /\ TextTyped
      BY <1>1 DEF ReadingInv, ViewerHeld, TilePart, TextPart
    <3>2. views \in 0 .. MaxViews[happens]
      <4>1. MaxViews[happens] \in Nat BY <3>1, ViewerAssumption DEF ScreenTyped
      <4> QED BY <3>1, <4>1 DEF ScreenTyped
    <3>3. pending \in [Key -> NotPending .. zoomGen]
      <4>1. \A k \in Key : pending[k] \in NotPending .. zoomGen BY <3>1 DEF TilesTyped, NotPending
      <4> QED BY <3>1, <4>1 DEF TilesTyped
    <3>4. /\ \A r \in renders : r.doc \in Doc /\ r.key \in Key /\ r.gen \in 0 .. zoomGen
          /\ settles \subseteq 1 .. zoomGen
      BY <3>1 DEF TilesTyped, Renders
    <3>5. /\ extracts \subseteq [doc : Doc, page : Pages, gen : 1 .. docGen]
          /\ continues \subseteq 1 .. findGen
      BY <3>1 DEF TextTyped, Extracts
    <3> QED BY <3>1, <3>2, <3>3, <3>4, <3>5 DEF ViewerTypeOK, ScreenTyped, TilesTyped, TextTyped
  <2>2. debounces \subseteq [gen : 1 .. progressGen, doc : Doc, page : Pages]
    BY <1>1 DEF ReadingInv, ProgressTyped
  <2>3. /\ \A x \in noteTasks : x.id \in Note /\ x.doc \in Doc /\ x.gen \in 0 .. draftGen
        /\ \A l \in noteLoads : l.doc \in Doc /\ l.gen \in 1 .. loadGen
        /\ made \in 0 .. MaxNotes
    BY <1>1, ReadingAssumption DEF ReadingInv, NotesTyped, NoteTasks, NoteLoads
  <2> QED BY <1>1, <2>1, <2>2, <2>3
       DEF ReadingInv, ReadingTypeOK, ProgressTyped, NotesTyped, Saves, Notes, Shows
<1> QED BY <1>1, ReadingInvHolds, PTL

(* No picture and no text of a document that was left comes into the next one, for any number  *)
(* of documents, pages and zooms and any order in which renders and extractions end             *)
(* (handle_page_rendered, ViewerTextLayerLoaded: their generations); thumbnails, which have      *)
(* none, unless a document opens while some are on their way.                                    *)
THEOREM PagesStayOfDocument == DesktopSpec => []PagesAreOfDocument
<1>1. ReadingInv => PagesAreOfDocument
  BY DEF ReadingInv, ViewerHeld, TilePart, TextPart, TilesHeld, TextHeld, PagesAreOfDocument
<1> QED BY <1>1, ReadingInvHolds, PTL

(* When all is written in the library, every document has the page on which it was last seen,  *)
(* in the database and in the list (schedule_reading_progress_save, flush_reading_progress);     *)
(* when nothing is under way the screen has the annotations of the open document, each once;     *)
(* a command that ends leaves a newer draft alone (clear_compose_draft_if_generation,            *)
(* clear_edit_draft_if); and the viewer shows pages of the open document only.                    *)
THEOREM ReadingKeptHolds == DesktopSpec => ReadingKept
<1>1. ASSUME NoImports, ReadingInv PROVE PageRemembered
  <2> SUFFICES ASSUME mode = "library", openings = {}, updates = <<>>, writes = <<>>,
                      reads = 0, readings = <<>>, Orderly
               PROVE  savedPage = lastPage /\ shownPage = lastPage
    BY DEF PageRemembered, Orderly
  <2>1. savedPage \in [Doc -> Pages] /\ lastPage \in [Doc -> Pages]
    BY <1>1 DEF ReadingInv, ProgressTyped
  <2>2. shownPage = savedPage /\ \A d \in Doc : Comes(d, lastPage[d])
    BY <1>1 DEF ReadingInv, ProgressHeld
  <2>3. \A d \in Doc : savedPage[d] = lastPage[d] BY <2>2, EmptyLeaves DEF Comes
  <2> QED BY <2>1, <2>2, <2>3
<1>2. ASSUME NoImports, ReadingInv, orders = 0 PROVE AnnotationsMatchStore
  <2> SUFFICES ASSUME doc # NoDoc, NotesIdle, NotesAlone
               PROVE  /\ Cardinality(DOMAIN annotations) = Cardinality(OwnNotes)
                      /\ \A n \in OwnNotes : \E i \in DOMAIN annotations : annotations[i] = RowOf(n)
    BY <1>2 DEF AnnotationsMatchStore, NotesAlone, OwnNotes, RowOf
  <2>1. NotesTyped /\ Lists(annotations, OwnNotes) BY <1>2 DEF ReadingInv, NotesHeld, NotesIdle
  <2>2. OwnNotes \in SUBSET Notes /\ OneEach(OwnNotes) /\ annotations \in Seq(Shows)
    BY <2>1, OwnTyped DEF NotesTyped
  <2>3. Cardinality(DOMAIN annotations) = Cardinality(OwnNotes) BY <2>1, <2>2, ListsCount
  <2> QED BY <2>1, <2>3 DEF Lists
<1> DEFINE Step ==
      \A x \in noteTasks :
        (/\ x.phase \in {"done", "failed"} /\ x \notin noteTasks'
         /\ \/ x.kind = "create" /\ draftGen # x.gen
            \/ x.kind # "create" /\ draft # [kind |-> "edit", id |-> x.id])
        => draft' = draft
<1>3. ASSUME NoImports, ReadingInv, [DesktopNext]_desktopVars PROVE [Step]_readingVars
  <2> SUFFICES ASSUME NEW x \in noteTasks, x.phase \in {"done", "failed"}, x \notin noteTasks',
                      \/ x.kind = "create" /\ draftGen # x.gen
                      \/ x.kind # "create" /\ draft # [kind |-> "edit", id |-> x.id],
                      draft' # draft
               PROVE  FALSE
    OBVIOUS
  <2>1. NotesTyped BY <1>3 DEF ReadingInv
  <2>2. ReadingNext BY <1>3, ReadingSteps DEF readingVars, readingRest, noteVars
  <2>3. CASE ReadingUser
    BY <2>3
         DEF ReadingUser, EntryTurned, EntryLeft, EntryClosed, LibraryRefreshed, StartDraft, CancelDraft, SubmitNote,
       noteVars
  <2>4. CASE NoteStep
    <3>1. PICK y \in noteTasks : WriteNote(y) \/ NoteFinished(y)
      BY <2>4 DEF NoteStep, ReadAnnotations, AnnotationsLoaded
    <3>2. NoteFinished(y) BY <3>1 DEF WriteNote
    <3>3. y = x BY <3>2 DEF NoteFinished
    <3> QED BY <3>2, <3>3 DEF NoteFinished, EndsDraft
  <2>5. CASE ViewerResult /\ UNCHANGED noteVars BY <2>5 DEF noteVars
  <2>6. CASE ProgressStep
    BY <2>6
         DEF ProgressStep, ProgressUpdated, ReadLibrary, EntriesLoaded, ProgressSaveSettled, WriteProgress, noteVars
  <2>7. CASE \E d \in openings : EntryOpened(d) BY <2>7 DEF EntryOpened
  <2> QED BY <2>2, <2>3, <2>4, <2>5, <2>6, <2>7 DEF ReadingNext, ReadingGoesOn
<1>4. DesktopSpec => [][Step]_readingVars
  BY <1>3, ReadingInvHolds, PTL DEF DesktopSpec
<1>5. DesktopSpec => []PageRemembered BY <1>1, ReadingInvHolds, PTL
<1>6. DesktopSpec => [](orders = 0 => AnnotationsMatchStore)
  <2>1. NoImports /\ ReadingInv => (orders = 0 => AnnotationsMatchStore) BY <1>2
  <2> QED BY <2>1, ReadingInvHolds, PTL
<1> QED BY <1>4, <1>5, <1>6, PagesStayOfDocument DEF ReadingKept, NewerDraftSurvives
=============================================================================
