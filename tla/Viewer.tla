------------------------------- MODULE Viewer -------------------------------
(* The document in the viewer. Opening it, rendering its pages and reading their text *)
(* are tasks on other threads; their results come back as messages in any order,      *)
(* after the page, the zoom or the document has changed, and generation counters tell *)
(* which ones are still wanted.                                                       *)
EXTENDS Integers, FiniteSets

CONSTANTS
  Doc,             \* documents of the library
  NoDoc,           \* no document is open
  PageCount,       \* pages of each
  Width,           \* zoom widths
  FitWidth,        \* the width that ZoomPreset::Automatic comes to
  Thumb,           \* the width of a thumbnail in the sidebar
  FindMargin,      \* FIND_TEXT_LAYER_MARGIN
  FindBatch,       \* FIND_TEXT_LAYER_BATCH
  ErrorText,       \* the texts of errors
  NoError,         \* no error is shown
  ViewerScenarios, \* sets of what may happen, see ViewerEvents; a behaviour has one
  MaxViews         \* bound: MaxViews[s] are the inputs of a behaviour

(* "open": documents are opened and left; "turn": the page is turned; "render": pages *)
(* are rendered, "find": their text is read, behaviours without leave it out; "zoom"; *)
(* "thumbnails": of the sidebar; "failure": a document, page or text cannot be read;  *)
(* "again": for a document or page with a text that the user has dismissed before;    *)
(* "switch": another library is selected; "quick": a document opens while the last    *)
(* one's thumbnails are on their way; "hasty": a document is asked for before the     *)
(* last one opened, or without leaving the last one, or that one is gone back to      *)
(* first. The others are those of Reading.                                            *)
ViewerEvents ==
  {"open", "turn", "render", "zoom", "thumbnails", "find", "failure", "again", "switch",
   "quick", "hasty", "note", "refresh", "overlap", "race"}

Pages == 0 .. PageCount - 1
Key == Pages \X (Width \cup {Thumb})   \* TileKey

ASSUME ViewerAssumption ==
  /\ NoDoc \notin Doc /\ PageCount \in Nat \ {0} /\ FitWidth \in Width /\ Thumb \notin Width
  /\ FindMargin \in Nat /\ FindBatch \in Nat \ {0} /\ NoError \notin ErrorText
  /\ ViewerScenarios \subseteq SUBSET ViewerEvents /\ MaxViews \in [ViewerScenarios -> Nat]

VARIABLES
  mode, doc, page, width,  \* what is on the screen
  zoomGen,       \* zoom_generation
  thumbnails,    \* the sidebar shows thumbnails
  tiles,         \* rendered_pages, and the cache: the document whose picture a tile is
  pending,       \* pending_renders: Some(generation), Unnumbered or NotPending
  renders,       \* renders on their way
  settles,       \* ZoomRenderSettled on their way: their generations
  docGen,        \* document_generation
  layers,        \* viewer_text_layers: the document whose text it is
  pendingLayers, \* pending_text_layers
  extracts,      \* text layers on their way
  findOpen,      \* viewer_find.open
  findGen,       \* find_text_generation
  continues,     \* ViewerFindTextLayersContinue on their way: their generations
  openings,      \* documents on their way
  error,         \* document_error
  dismissed,     \* dismissed_document_errors
  views,         \* inputs so far
  happens        \* what may happen in this behaviour

tileVars == <<width, zoomGen, thumbnails, tiles, pending, renders, settles>>
textVars == <<docGen, layers, pendingLayers, extracts, findOpen, findGen, continues>>
errorVars == <<error, dismissed>>
viewerVars == <<mode, doc, page, tileVars, textVars, errorVars, openings, views, happens>>

NotPending == -1
Unnumbered == 0  \* None, the generation of thumbnails; zoom_generation is positive with a document

Blank   == [k \in Key |-> NoDoc]
Idling  == [k \in Key |-> NotPending]
NoText  == [p \in Pages |-> NoDoc]

Does(kind) == kind \in happens /\ views < MaxViews[happens] /\ views' = views + 1
-----------------------------------------------------------------------------
(* Requests, made at the end of a handler about what it has set. The pages in sight *)
(* are one page here; those prefetched around it are asked for in the same way.     *)

(* Mutant: any pending render of the tile will do. *)
MissingUnlessPending(k, before) == tiles'[k] = NoDoc /\ before[k] = NotPending

(* A tile at the zoom width is asked for again when the zoom has changed since. *)
Missing(k, before) == tiles'[k] = NoDoc /\ before[k] # zoomGen'

MissingThumbnail(k, before) == tiles'[k] = NoDoc /\ before[k] = NotPending

(* request_visible_pages and request_viewer_thumbnail_pages; before: pending_renders. *)
RequestTiles(pages, before) ==
  LET full  == {k \in pages \X {width'} : "render" \in happens /\ Missing(k, before)}
      small == {k \in Pages \X {Thumb} : thumbnails' /\ MissingThumbnail(k, before)}
  IN /\ pending' = [k \in Key |-> IF k \in full THEN zoomGen'
                                  ELSE IF k \in small THEN Unnumbered ELSE before[k]]
     /\ renders' = renders
          \cup {[doc |-> doc', key |-> k, gen |-> zoomGen'] : k \in full}
          \cup {[doc |-> doc', key |-> k, gen |-> Unnumbered] : k \in small}

(* request_text_layers. *)
RequestText(pages, before) ==
  LET wanted == {p \in pages : "find" \in happens /\ layers'[p] = NoDoc /\ p \notin before} IN
  /\ pendingLayers' = before \cup wanted
  /\ extracts' = extracts \cup {[doc |-> doc', page |-> p, gen |-> docGen'] : p \in wanted}

RequestVisible == RequestTiles({page'}, pending) /\ RequestText({page'}, pendingLayers)
-----------------------------------------------------------------------------
(* OpenLibraryEntry and FileSelected. *)
OpenLibraryEntry ==
  /\ Does("open") /\ \/ mode = "library" /\ openings = {}
                     \/ "hasty" \in happens
  /\ \E d \in Doc : openings' = openings \cup {d}
  /\ UNCHANGED <<mode, doc, page, tileVars, textVars, errorVars, happens>>

(* Mutant: the renders of the last document stay valid. *)
InstalledSameZoom(d, p) ==
  /\ mode' = "viewer" /\ doc' = d /\ page' = p /\ width' = FitWidth
  /\ tiles' = Blank /\ zoomGen' = IF zoomGen = 0 THEN 1 ELSE zoomGen
  /\ layers' = NoText /\ docGen' = docGen + 1
  /\ findOpen' = FALSE /\ findGen' = findGen + 1 /\ error' = NoError
  /\ thumbnails' = FALSE
  /\ RequestTiles({0, p}, Idling) /\ RequestText({0, p}, {})
  /\ UNCHANGED <<settles, continues, dismissed, views, happens>>

(* open_document_with_path, and then the position of open_library_document: its first *)
(* page is asked for, and the page it was left at.                                    *)
Installed(d, p) ==
  /\ mode' = "viewer" /\ doc' = d /\ page' = p /\ width' = FitWidth
  /\ tiles' = Blank /\ zoomGen' = zoomGen + 1
  /\ layers' = NoText /\ docGen' = docGen + 1
  /\ findOpen' = FALSE /\ findGen' = findGen + 1 /\ error' = NoError
  /\ thumbnails' = FALSE
  /\ RequestTiles({0, p}, Idling) /\ RequestText({0, p}, {})
  /\ UNCHANGED <<settles, continues, dismissed, views, happens>>

(* LibraryDocumentOpened. *)
DocumentOpened(d, p) ==
  /\ d \in openings /\ openings' = openings \ {d}
  /\ "quick" \in happens \/ \A r \in renders : r.gen # Unnumbered
  /\ Installed(d, p)

(* DocumentError. A text that was dismissed once is not shown again. *)
Failed(text) ==
  /\ text \in dismissed => "again" \in happens
  /\ error' = (IF text \in dismissed THEN error ELSE text) /\ pending' = Idling
  /\ UNCHANGED <<mode, doc, page, width, zoomGen, thumbnails, tiles, settles, textVars, dismissed,
                 happens>>

DocumentFails(d) ==
  /\ Does("failure") /\ d \in openings /\ openings' = openings \ {d}
  /\ (\E text \in ErrorText : Failed(text)) /\ UNCHANGED renders

RenderFails(r) ==
  /\ Does("failure") /\ r \in renders /\ renders' = renders \ {r}
  /\ (\E text \in ErrorText : Failed(text)) /\ UNCHANGED openings

DismissDocumentError ==
  /\ error # NoError /\ error' = NoError /\ dismissed' = dismissed \cup {error}
  /\ UNCHANGED <<mode, doc, page, width, zoomGen, thumbnails, tiles, settles, docGen, layers,
                 findOpen, findGen, continues, openings, views, happens>>
  /\ IF doc = NoDoc THEN UNCHANGED <<pending, renders, pendingLayers, extracts>>
     ELSE RequestVisible

BackToLibrary ==
  /\ Does("open") /\ mode = "viewer"
  /\ mode' = "library" /\ error' = NoError
  /\ UNCHANGED <<doc, page, tileVars, textVars, openings, dismissed, happens>>

BackToViewer ==
  /\ Does("open") /\ mode = "library" /\ doc # NoDoc
  /\ openings = {} \/ "hasty" \in happens
  /\ mode' = "viewer"
  /\ UNCHANGED <<doc, page, width, zoomGen, thumbnails, tiles, settles, docGen, layers,
                 findOpen, findGen, continues, openings, errorVars, happens>>
  /\ RequestVisible

(* reset_runtime_for_active_library: no generation is raised and the text stays. *)
SelectLibrary ==
  /\ Does("switch")
  /\ mode' = "library" /\ doc' = NoDoc /\ tiles' = Blank /\ pending' = Idling
  /\ error' = NoError
  /\ UNCHANGED <<page, width, zoomGen, thumbnails, renders, settles, textVars, openings, dismissed,
                 happens>>
-----------------------------------------------------------------------------
(* JumpToPage, NextPage, PreviousPage, ViewportChanged and the wheel. *)
TurnPage ==
  /\ Does("turn") /\ mode = "viewer" /\ page' \in Pages
  /\ UNCHANGED <<mode, doc, width, zoomGen, thumbnails, tiles, settles, docGen, layers,
                 findOpen, findGen, continues, openings, errorVars, happens>>
  /\ RequestVisible

(* zoom_to_width: at once, or when the wheel has come to rest. *)
ZoomToWidth ==
  /\ Does("zoom") /\ mode = "viewer"
  /\ width' \in Width \ {width} /\ zoomGen' = zoomGen + 1
  /\ UNCHANGED <<mode, doc, page, thumbnails, tiles, docGen, layers, findOpen, findGen,
                 continues, openings, errorVars, happens>>
  /\ \/ UNCHANGED settles /\ RequestVisible
     \/ settles' = settles \cup {zoomGen'} /\ UNCHANGED <<pending, renders, pendingLayers, extracts>>

ZoomRenderSettled(g) ==
  /\ g \in settles /\ settles' = settles \ {g}
  /\ UNCHANGED <<mode, doc, page, width, zoomGen, thumbnails, tiles, docGen, layers, findOpen,
                 findGen, continues, openings, errorVars, views, happens>>
  /\ IF g = zoomGen /\ doc # NoDoc THEN RequestVisible
     ELSE UNCHANGED <<pending, renders, pendingLayers, extracts>>

ViewerSidebarTabSelected ==
  /\ Does("thumbnails") /\ mode = "viewer" /\ thumbnails' = ~thumbnails
  /\ UNCHANGED <<mode, doc, page, width, zoomGen, tiles, settles, textVars, openings,
                 errorVars, happens>>
  /\ RequestTiles({}, pending)

(* A render that the zoom has overtaken is dropped, one without a number never is. *)
PageRendered(r) ==
  /\ r \in renders /\ renders' = renders \ {r}
  /\ pending' = [pending EXCEPT ![r.key] = IF @ = r.gen THEN NotPending ELSE @]
  /\ \/ r.gen \in {zoomGen, Unnumbered} /\ tiles' = [tiles EXCEPT ![r.key] = r.doc]
     \/ r.gen \notin {zoomGen, Unnumbered} /\ UNCHANGED tiles
  /\ UNCHANGED <<mode, doc, page, width, zoomGen, thumbnails, settles, textVars, openings,
                 errorVars, views, happens>>
-----------------------------------------------------------------------------
(* The text layers. *)

ViewerTextLayerLoaded(x) ==
  /\ x \in extracts /\ extracts' = extracts \ {x}
  /\ \/ /\ x.gen = docGen
        /\ pendingLayers' = pendingLayers \ {x.page} /\ layers' = [layers EXCEPT ![x.page] = x.doc]
     \/ x.gen # docGen /\ UNCHANGED <<pendingLayers, layers>>
  /\ UNCHANGED <<mode, doc, page, tileVars, docGen, findOpen, findGen, continues, openings,
                 errorVars, views, happens>>

ViewerTextLayerError(x) ==
  /\ Does("failure") /\ x \in extracts /\ extracts' = extracts \ {x}
  /\ \/ x.gen = docGen /\ pendingLayers' = pendingLayers \ {x.page} /\ error' \in ErrorText
     \/ x.gen # docGen /\ UNCHANGED <<pendingLayers, error>>
  /\ UNCHANGED <<mode, doc, page, tileVars, docGen, layers, findOpen, findGen, continues,
                 openings, dismissed, happens>>

(* Mutant: a batch that is on its way already is relied on. *)
RequestFindTextOnce ==
  /\ findGen' = findGen + 1
  /\ continues' = IF continues = {} THEN {findGen'} ELSE continues
  /\ RequestText({p \in Pages : p - page \in -FindMargin .. FindMargin}, pendingLayers)

(* request_find_text_layers: the pages around those in sight, and then batch by batch. *)
RequestFindText ==
  /\ findGen' = findGen + 1 /\ continues' = continues \cup {findGen'}
  /\ RequestText({p \in Pages : p - page \in -FindMargin .. FindMargin}, pendingLayers)

(* OpenViewerFind and ViewerFindQueryChanged. *)
SearchText ==
  /\ Does("find") /\ mode = "viewer" /\ findOpen' = TRUE
  /\ UNCHANGED <<mode, doc, page, tileVars, docGen, layers, openings, errorVars, happens>>
  /\ RequestFindText

CloseViewerFind ==
  /\ Does("find") /\ findOpen /\ mode = "viewer"
  /\ findOpen' = FALSE /\ findGen' = findGen + 1
  /\ UNCHANGED <<mode, doc, page, tileVars, docGen, layers, pendingLayers, extracts, continues,
                 openings, errorVars, happens>>

(* continue_find_text_layers. *)
FindContinue(g) ==
  LET missing == {p \in Pages : layers[p] = NoDoc /\ p \notin pendingLayers}
      batch   == {p \in missing : Cardinality({q \in missing : q < p}) < FindBatch}
      goesOn  == g = findGen /\ findOpen /\ doc # NoDoc /\ batch # {}
  IN /\ g \in continues
     /\ UNCHANGED <<mode, doc, page, tileVars, docGen, layers, findOpen, findGen, openings,
                    errorVars, views, happens>>
     /\ \/ goesOn /\ RequestText(batch, pendingLayers) /\ UNCHANGED continues
        \/ ~goesOn /\ continues' = continues \ {g} /\ UNCHANGED <<pendingLayers, extracts>>
-----------------------------------------------------------------------------
ViewerInit ==
  /\ mode = "library" /\ doc = NoDoc /\ page = 0 /\ width = FitWidth /\ zoomGen = 0
  /\ thumbnails = FALSE /\ tiles = Blank /\ pending = Idling /\ renders = {} /\ settles = {}
  /\ docGen = 0 /\ layers = NoText /\ pendingLayers = {} /\ extracts = {}
  /\ findOpen = FALSE /\ findGen = 0 /\ continues = {}
  /\ openings = {} /\ error = NoError /\ dismissed = {} /\ views = 0 /\ happens \in ViewerScenarios

(* What neither opens nor turns nor leaves a document. *)
ViewerInput ==
  \/ OpenLibraryEntry \/ DismissDocumentError \/ BackToViewer \/ ZoomToWidth
  \/ ViewerSidebarTabSelected \/ SearchText \/ CloseViewerFind
  \/ \E d \in openings : DocumentFails(d)
  \/ \E r \in renders : RenderFails(r)
  \/ \E x \in extracts : ViewerTextLayerError(x)

ViewerResult ==
  \/ \E g \in settles : ZoomRenderSettled(g)
  \/ \E r \in renders : PageRendered(r)
  \/ \E x \in extracts : ViewerTextLayerLoaded(x)
  \/ \E g \in continues : FindContinue(g)

ViewerNext ==
  \/ ViewerInput \/ ViewerResult \/ BackToLibrary \/ SelectLibrary \/ TurnPage
  \/ \E d \in openings, p \in Pages : DocumentOpened(d, p)

(* Tasks end, and timers and results are delivered. *)
ViewerFairness ==
  WF_viewerVars(ViewerResult \/ \E d \in openings, p \in Pages : DocumentOpened(d, p))

ViewerSpec == ViewerInit /\ [][ViewerNext]_viewerVars /\ ViewerFairness
-----------------------------------------------------------------------------
ViewerTypeOK ==
  /\ mode \in {"library", "viewer"} /\ doc \in Doc \cup {NoDoc} /\ page \in Pages
  /\ mode = "viewer" => doc # NoDoc
  /\ width \in Width /\ zoomGen \in Nat /\ thumbnails \in BOOLEAN /\ (doc # NoDoc => zoomGen > 0)
  /\ tiles \in [Key -> Doc \cup {NoDoc}] /\ pending \in [Key -> NotPending .. zoomGen]
  /\ \A r \in renders : r.doc \in Doc /\ r.key \in Key /\ r.gen \in 0 .. zoomGen
  /\ settles \subseteq 1 .. zoomGen
  /\ docGen \in Nat /\ layers \in [Pages -> Doc \cup {NoDoc}] /\ pendingLayers \subseteq Pages
  /\ extracts \subseteq [doc : Doc, page : Pages, gen : 1 .. docGen]
  /\ findOpen \in BOOLEAN /\ findGen \in Nat /\ continues \subseteq 1 .. findGen
  /\ openings \subseteq Doc /\ views \in 0 .. MaxViews[happens]
  /\ error \in ErrorText \cup {NoError} /\ dismissed \subseteq ErrorText

(* Every picture and every text layer that the viewer keeps is of the document that   *)
(* is open, whatever was on its way when it was opened, zoomed and left (document.rs: *)
(* results of "a previous document cannot mutate the new document's find/selection    *)
(* state"). Only thumbnails carry no generation, and one that arrives late is taken   *)
(* for the new document.                                                              *)
PagesAreOfDocument ==
  doc # NoDoc =>
    /\ \A k \in Key :
         k[2] # Thumb \/ "quick" \notin happens => tiles[k] \in {NoDoc, doc}
    /\ \A p \in Pages : layers[p] \in {NoDoc, doc}

(* The page in sight gets its picture, at the zoom it is seen at, or an error is      *)
(* shown: no render that is dropped or failed leaves it blank (rendering is asked for *)
(* only when nothing is pending for it). It does not hold when one fails with a text  *)
(* that was dismissed before: it is not shown, and the page not asked for again.      *)
VisiblePagesRendered ==
  (/\ {"render", "again"} \cap happens = {"render"} /\ mode = "viewer"
   /\ tiles[<<page, width>>] = NoDoc)
    ~> (mode # "viewer" \/ error # NoError \/ tiles[<<page, width>>] # NoDoc)

(* While the find bar is open the text of every page comes in, so that the matches *)
(* are those of the whole document, unless a page cannot be read.                  *)
FindSearchesDocument ==
  (findOpen /\ doc # NoDoc /\ (\E p \in Pages : layers[p] = NoDoc) /\ "failure" \notin happens)
    ~> ((\A p \in Pages : layers[p] # NoDoc) \/ ~findOpen \/ doc = NoDoc)
=============================================================================
