------------------------------ MODULE PageView ------------------------------
(* Where the pages of the open document lie, and where the viewer is scrolled to: the  *)
(* four scroll modes with single pages and spreads, zoom, jumps, the wheel, the column *)
(* of annotation cards beside the pages, and the scrollable that the pages are in,     *)
(* which tells the viewer where it stands only afterwards. Lengths are in steps of     *)
(* several pixels, rounded down.                                                       *)
EXTENDS Integers, FiniteSets, SequencesExt

CONSTANTS
  Papers,                  \* documents: [page |-> twice its height by its width]
  Notes,                   \* Notes[d]: the annotations, in order: on which page, at which
                           \* eighth of its height, and how tall the card is
  MinZoom, MaxZoom, ActualSize,
  PageGutter, PageGap,
  CardWidth, CardGap,      \* CardGap: from the pages and between cards
  EditingHeight,           \* of the card that is edited
  Window, SidebarWidth,    \* sizes of the window below the toolbar; what the sidebar takes
  Notch,                   \* what the wheel scrolls by
  PageScenarios            \* a document, a window, a set of PageEvents, and how many

PageEvents == {"jump", "mode", "zoom", "preset", "scroll", "wheel", "resize", "note", "find"}

ASSUME PageAssumption ==
  /\ \A d \in DOMAIN Papers : 0 \in DOMAIN Papers[d]
  /\ MinZoom \in Nat \ {0} /\ MaxZoom >= MinZoom
  /\ PageScenarios \subseteq [document : DOMAIN Papers, window : Window,
                              events : SUBSET PageEvents, most : Nat]

VARIABLES
  pages,     \* what the viewer keeps of them, see PageInit
  window, sidebar,
  told,      \* what the scrollable has reported last
  wheel,     \* page_mode_wheel_accum, and whether the gesture has turned the page
  aim,       \* ghost: what the last step was to bring into view
  may, moves \* the scenario, and how many of its inputs there were

pageVars == <<pages, window, sidebar, told, wheel, aim, may, moves>>

Modes    == {"page", "vertical", "horizontal", "wrapped"}
Spreads  == {"none", "odd", "even"}
Fitting  == {"automatic", "fit", "width"} \* is_dimension_dependent

paper == Papers[may.document]
notes == Notes[may.document]
LastPage == Max(DOMAIN paper)

Within(n, low, high) == Max({low, Min({n, high})})
Total(Op(_), S) == MapThenSumSet(Op, S)
-----------------------------------------------------------------------------
(* Layout: v is what the viewer keeps. *)

PageHeight(v, p) == (v.zoom * paper[p]) \div 2

(* The pages beside each other: current_spread_pages, viewer_spread_groups. *)
Spread(v, p) ==
  LET left == CASE v.spread = "none" -> p
                [] v.spread = "odd"  -> p - (p % 2)
                [] v.spread = "even" -> IF p = 0 THEN 0 ELSE p - ((p - 1) % 2)
      both == v.spread # "none" /\ (v.spread = "even" => p # 0)
  IN (IF both THEN {left, left + 1} ELSE {left}) \cap DOMAIN paper

Groups(v) == {Spread(v, p) : p \in DOMAIN paper}

GroupWidth(v, g)  == v.zoom * Cardinality(g) + PageGap * (Cardinality(g) - 1)
GroupHeight(v, g) == Max({PageHeight(v, p) : p \in g})
WidestGroup(v)    == Max({GroupWidth(v, g) : g \in Groups(v)}) + 2 * PageGutter
TallestGroup(v)   == Max({GroupHeight(v, g) : g \in Groups(v)})

(* What the groups of a set take, with the gaps after them. *)
Across(v, gs) == Total(LAMBDA g : GroupWidth(v, g) + PageGap, gs)
Down(v, gs)   == Total(LAMBDA g : GroupHeight(v, g) + PageGap, gs)
Before(v, g)  == {h \in Groups(v) : Min(h) < Min(g)}

InlineWidth(v) == Across(v, Groups(v)) - PageGap + 2 * PageGutter

(* A group, where it begins, and the height it is centred in. *)
At(g, x, y, h) == [group |-> g, x |-> x, y |-> y, h |-> h]

(* wrapped_page_rects: groups in rows, the next row where one does not fit. *)
PutGroup(row, g, there, wide) ==
  [x |-> there.x + wide + PageGap, y |-> there.y, at |-> row.at \cup {there},
   tall |-> IF there.y > row.y THEN there.h ELSE Max({row.tall, there.h})]

Rows(v, room) ==
  LET Put(row, g) ==
        PutGroup(row, g,
          IF row.x > PageGutter /\ row.x + GroupWidth(v, g) > PageGutter + room
          THEN At(g, PageGutter, row.y + row.tall + PageGap, GroupHeight(v, g))
          ELSE At(g, row.x, row.y, GroupHeight(v, g)), GroupWidth(v, g))
  IN FoldLeft(Put, [x |-> PageGutter, y |-> PageGutter, tall |-> 0, at |-> {}],
              SetToSortSeq(Groups(v), LAMBDA g, h : Min(g) < Min(h))).at

Centred(room, taken) == Max({(room - taken) \div 2, PageGutter})

GroupsAt(v) ==
  CASE v.mode = "vertical" ->
         {At(g, Centred(Max({WidestGroup(v), v.w}), GroupWidth(v, g)),
             PageGutter + Down(v, Before(v, g)), GroupHeight(v, g)) : g \in Groups(v)}
    [] v.mode = "horizontal" ->
         {At(g, Centred(Max({InlineWidth(v), v.w}), InlineWidth(v)) + Across(v, Before(v, g)),
             0, Max({TallestGroup(v) + 2 * PageGutter, v.h})) : g \in Groups(v)}
    [] v.mode = "wrapped" -> Rows(v, Max({v.w - 2 * PageGutter, WidestGroup(v), v.zoom}))

Box(p, x, y, w, h) == [page |-> p, x |-> x, y |-> y, w |-> w, h |-> h]

(* viewer_page_rects_content. *)
Rects(v) ==
  LET width == Max({v.zoom + 2 * PageGutter, v.w})
  IN IF v.mode = "page"
     THEN {Box(v.onPage, Max({(width - v.zoom) \div 2, PageGutter}), PageGutter,
               v.zoom, PageHeight(v, v.onPage))}
     ELSE UNION {{Box(p, g.x + (p - Min(g.group)) * (v.zoom + PageGap),
                      g.y + (g.h - PageHeight(v, p)) \div 2, v.zoom, PageHeight(v, p)) :
                  p \in g.group} : g \in GroupsAt(v)}

RectOf(v, p) == CHOOSE r \in v.rects : r.page = p

(* viewer_base_content_size, with the rectangles. *)
BaseSize(v) ==
  LET height == CASE v.mode = "page" -> PageHeight(v, v.onPage) + 2 * PageGutter
                  [] v.mode = "vertical" ->
                       Down(v, Groups(v)) + 2 * PageGutter
                  [] v.mode = "horizontal" -> TallestGroup(v) + 2 * PageGutter
                  [] v.mode = "wrapped" ->
                       Max({r.y + r.h : r \in v.rects}) + PageGutter
      width == CASE v.mode = "page" -> v.zoom + 2 * PageGutter
                 [] v.mode \in {"vertical", "wrapped"} -> WidestGroup(v)
                 [] v.mode = "horizontal" -> InlineWidth(v)
  IN [w |-> Max({width, v.w}), h |-> Max({height, v.h})]
-----------------------------------------------------------------------------
(* The column of cards. *)

(* annotation_mark_on_page: where its first character is, or near the upper third of   *)
(* the page while its text is not read.                                                *)
MarkOn(v, n, r) ==
  LET read == n.page \in v.layers
      h == Max({r.h \div (IF read THEN 16 ELSE 20), 1})
  IN [y |-> r.y + (IF read THEN (r.h * n.at) \div 8 ELSE r.h \div 5 - h \div 2), h |-> h]

CardHeight(v, i) == IF v.editing = i THEN EditingHeight ELSE notes[i].tall

(* annotation_anchor_center; a page that is not laid out leaves the first that is. *)
Anchor(v, n) ==
  LET there == {r \in v.rects : r.page = n.page}
      rect  == IF there # {} THEN CHOOSE r \in there : TRUE
               ELSE CHOOSE r \in v.rects : \A s \in v.rects : r.page <= s.page
      mark  == MarkOn(v, n, rect)
  IN [y |-> IF there # {} THEN mark.y + mark.h \div 2 ELSE rect.y + 1, right |-> rect.x + v.zoom]

(* The cards, by their annotation: where one is anchored, its height, and where its top *)
(* is desired.                                                                         *)
Cards(v) ==
  {LET anchor == Anchor(v, notes[i])
       tall   == CardHeight(v, i)
   IN [note |-> i, y |-> anchor.y, right |-> anchor.right, h |-> tall,
       top |-> anchor.y - tall \div 2] : i \in DOMAIN notes}

(* layout_anchored_tops: cards that would overlap are stacked around the middle of     *)
(* their marks, below the stack before.                                                *)
Stacked(cards) ==
  LET Precedes(c, d) == c.top < d.top \/ (c.top = d.top /\ c.note < d.note)
      Join(stacks, c) ==
        LET last == Last(Last(stacks))
        IN IF stacks # <<>> /\ c.top < last.top + last.h + CardGap
           THEN Append(Front(stacks), Append(Last(stacks), c)) ELSE Append(stacks, <<c>>)
      Put(done, c) == [bottom |-> done.bottom + c.h + CardGap,
                       cards |-> done.cards \cup {[c EXCEPT !.top = done.bottom + CardGap]}]
      Stack(done, stack) ==
        LET members == ToSet(stack)
            tall == Total(LAMBDA c : c.h + CardGap, members) - CardGap
            middle == Total(LAMBDA c : c.y, members) \div Len(stack)
            top == Max({PageGutter, middle - tall \div 2, done.bottom + CardGap})
        IN FoldLeft(Put, [done EXCEPT !.bottom = top - CardGap], stack)
  IN FoldLeft(Stack, [bottom |-> PageGutter - CardGap, cards |-> {}],
              FoldLeft(Join, <<>>, SetToSortSeq(cards, Precedes))).cards

(* The layout as the viewer finds it each time: the rectangles, the cards, where their *)
(* column is (annotation_layer_metrics), and the size of it all (viewer_content_size). *)
WithCards(v, base, cards, column) ==
  [v EXCEPT !.cards = cards, !.column = column, !.content =
     IF v.comments
     THEN [w |-> Max({base.w, column + CardWidth + CardGap}),
           h |-> Max({base.h} \cup {c.top + c.h + CardGap : c \in cards})]
     ELSE base]
WithColumn(v, base, cards) ==
  WithCards(v, base, cards, Max({base.w - CardWidth - CardGap} \cup {c.right + CardGap : c \in cards}))
WithRects(v) == IF notes = <<>> THEN [v EXCEPT !.content = BaseSize(v)]
                ELSE WithColumn(v, BaseSize(v), Stacked(Cards(v)))
Laid(v) == WithRects([v EXCEPT !.rects = Rects(v)])
-----------------------------------------------------------------------------
(* What is in sight. *)

MaxX(v) == Max({v.content.w - v.w, 0})
MaxY(v) == Max({v.content.h - v.h, 0})
ClampX(v) == [v EXCEPT !.x = Within(@, 0, MaxX(v))]
ClampY(v) == [v EXCEPT !.y = Within(@, 0, MaxY(v))]
Clamped(v) == ClampY(ClampX(v))

Seen(v, r) == r.x <= v.x + v.w /\ r.x + r.w >= v.x /\ r.y <= v.y + v.h /\ r.y + r.h >= v.y

(* visible_page_range *)
VisiblePages(v) ==
  LET seen == {r.page : r \in {s \in v.rects : Seen(v, s)}}
  IN IF v.mode = "page" THEN {v.onPage} ELSE IF seen = {} THEN {0} ELSE Min(seen) .. Max(seen)

(* current_page: the one in the middle, or the first in sight. *)
CurrentPage(v) ==
  LET x == v.x + v.w \div 2
      y == v.y + v.h \div 2
      middle == {r \in v.rects : x \in r.x .. r.x + r.w /\ y \in r.y .. r.y + r.h}
  IN IF v.mode = "page" THEN v.onPage
     ELSE IF middle # {} THEN Min({r.page : r \in middle}) ELSE Min(VisiblePages(v))

(* ZoomPreset::width_for, of the spread that is current. *)
PresetWidth(v) ==
  LET spread == Spread(v, CurrentPage(v))
      across == Max({v.w - 2 * PageGutter, MinZoom})
      high   == Max({v.h - 2 * PageGutter, MinZoom})
      tall   == Max({paper[p] : p \in spread})
      Each(width) == Max({(width - PageGap * (Cardinality(spread) - 1)) \div Cardinality(spread), 1})
      width == CASE v.preset = "automatic" ->
                      Min({Each((across * 86) \div 100), (high * 175 * 2) \div (100 * tall)})
                 [] v.preset = "fit"   -> Min({Each(across), (high * 2) \div tall})
                 [] v.preset = "width" -> Each(across)
                 [] v.preset = "actual" -> ActualSize
  IN Within(width, MinZoom, MaxZoom)

(* zoom_to_width: what is below the cursor stays there; without one nothing moves, and *)
(* the vertical offset is not even clamped.                                            *)
Zoomed(v, new, cursor) ==
  LET Moved(at, c, most) == Within(((at + c) * new.zoom) \div v.zoom - c, 0, most)
  IN CASE new.zoom = v.zoom -> v
       [] new.zoom # v.zoom /\ cursor = <<>> -> ClampX(new)
       [] OTHER -> ClampX([new EXCEPT !.x = Moved(@, cursor[1], MaxX(new)),
                                      !.y = Moved(@, cursor[2], MaxY(new))])
ZoomTo(v, width, cursor) ==
  Zoomed(v, Laid([v EXCEPT !.zoom = Within(width, MinZoom, MaxZoom)]), cursor)

ToPreset(v) ==
  IF v.preset = "width" THEN [ZoomTo(v, PresetWidth(v), <<>>) EXCEPT !.x = 0]
  ELSE ZoomTo(v, PresetWidth(v), <<>>)

(* apply_active_dimension_zoom *)
Fit(v) == IF v.preset \in Fitting THEN Clamped(ToPreset(v)) ELSE v

(* jump_to_page *)
JumpTo(v, page) ==
  LET p == Min({page, LastPage})
  IN Clamped(CASE v.mode = "page"       -> Laid([v EXCEPT !.onPage = p, !.x = 0, !.y = 0])
               [] v.mode = "horizontal" -> [v EXCEPT !.x = RectOf(v, p).x, !.y = 0]
               [] v.mode = "vertical"   -> [v EXCEPT !.y = RectOf(v, p).y]
               [] v.mode = "wrapped"    -> [v EXCEPT !.x = 0, !.y = RectOf(v, p).y])

(* Mutant: the jump comes before the zoom. *)
RelaidJumpFirst(v, new) == Fit(JumpTo(Laid([new EXCEPT !.x = 0, !.y = 0]), CurrentPage(v)))

(* set_viewer_scroll_mode and set_viewer_spread_mode: back to the page that is current. *)
Relaid(v, new) == JumpTo(Fit(Laid([new EXCEPT !.x = 0, !.y = 0])), CurrentPage(v))

(* scroll_to_page_rect: a point of the page, at a quarter of what is in sight. *)
OnPage(v, p) == IF v.mode = "page" THEN Laid([v EXCEPT !.onPage = p]) ELSE v

ScrolledTo(v, r, eighth) ==
  LET y == Max({r.y + (r.h * eighth) \div 8 - v.h \div 4, 0})
      x == Max({r.x + r.w \div 2 - v.w \div 4, 0})
  IN Clamped(CASE v.mode = "horizontal" -> [v EXCEPT !.x = x, !.y = 0]
               [] v.mode = "wrapped"    -> [v EXCEPT !.x = 0, !.y = y]
               [] v.mode \in {"page", "vertical"} -> [v EXCEPT !.y = y])
ScrolledOn(v, p, eighth) == ScrolledTo(v, RectOf(v, p), eighth)
RevealPoint(v, p, eighth) == ScrolledOn(OnPage(v, p), p, eighth)

(* Mutant: the mark alone is scrolled to. *)
PairSpanMark(v, i) ==
  LET mark == MarkOn(v, notes[i], RectOf(v, notes[i].page))
  IN [top |-> mark.y, low |-> mark.y + mark.h]

(* The span of a mark and its card; in page mode of the card alone, when the page that *)
(* is laid out is another.                                                             *)
PairSpan(v, i) ==
  LET card == CHOOSE c \in v.cards : c.note = i
      mark == MarkOn(v, notes[i], RectOf(v, notes[i].page))
  IN IF notes[i].page \in {r.page : r \in v.rects}
     THEN [top |-> Min({mark.y, card.top}), low |-> Max({mark.y + mark.h, card.top + card.h})]
     ELSE [top |-> card.top, low |-> card.top + card.h]

(* scroll_annotation_pair_into_view *)
PairShown(v, there, span) ==
  LET right == v.column + CardWidth + CardGap
      y == Max({(span.top + span.low - v.h) \div 2, 0})
      x == IF right > v.x + v.w THEN Max({right - v.w, 0}) ELSE v.x
  IN Clamped(CASE v.mode = "horizontal" ->
                    [there EXCEPT !.y = 0, !.x = Max({(2 * v.column + CardWidth - v.w) \div 2, 0})]
               [] v.mode = "wrapped" -> [there EXCEPT !.y = y, !.x = 0]
               [] v.mode \in {"page", "vertical"} -> [there EXCEPT !.y = y, !.x = x])
RevealPair(v, i) == PairShown(v, OnPage(v, notes[i].page), PairSpan(v, i))
-----------------------------------------------------------------------------
(* What the canvas really has. *)
Canvas(win, side) == [w |-> win[1] - (IF side THEN SidebarWidth ELSE 0), h |-> win[2]]

(* The viewer knows the size it has: the wheel has not told it that of the content. *)
Measured == [w |-> pages.w, h |-> pages.h] = Canvas(window, sidebar)

NoAim == [kind |-> "none", at |-> 0, where |-> 0]
AimAt(kind, at, where) ==
  aim' = IF Measured THEN [kind |-> kind, at |-> at, where |-> where] ELSE NoAim

Inputs(kind) ==
  /\ pages.rects # {} /\ kind \in may.events /\ moves < may.most /\ moves' = moves + 1
  /\ UNCHANGED may

Still == UNCHANGED <<window, sidebar, told>>

(* JumpToPage, SubmitJump, PreviousPage and NextPage. *)
JumpToPage ==
  /\ Inputs("jump") /\ Still /\ UNCHANGED wheel
  /\ \E p \in (0 .. LastPage + 1) \cup {Max({CurrentPage(pages) - 1, 0}), CurrentPage(pages) + 1} :
       pages' = JumpTo(pages, p) /\ AimAt("page", Min({p, LastPage}), 0)

ViewerScrollModeSelected ==
  /\ Inputs("mode") /\ Still
  /\ \E m \in Modes \ {pages.mode} :
       /\ pages' = Relaid(pages, [pages EXCEPT !.mode = m,
                                    !.onPage = IF m = "page" THEN CurrentPage(pages) ELSE @])
       /\ wheel' = IF m = "page" THEN [turned |-> FALSE, by |-> 0] ELSE wheel
  /\ AimAt("page", CurrentPage(pages), 0)

ViewerSpreadModeSelected ==
  /\ Inputs("mode") /\ Still /\ UNCHANGED wheel
  /\ \E s \in Spreads \ {pages.spread} : pages' = Relaid(pages, [pages EXCEPT !.spread = s])
  /\ AimAt("page", CurrentPage(pages), 0)

ZoomedOut(width) == Min({(width * 100 + 56) \div 112, width - 1})
ZoomedIn(width)  == Max({(width * 112 + 50) \div 100, width + 1})

(* ZoomIn, ZoomOut, ZoomSet and SubmitZoomInput. *)
ZoomSet ==
  /\ Inputs("zoom") /\ Still /\ UNCHANGED wheel /\ aim' = NoAim
  /\ \E width \in {ZoomedIn(pages.zoom), ZoomedOut(pages.zoom), MinZoom, MaxZoom} :
       pages' = ZoomTo([pages EXCEPT !.preset = "none"], width, <<>>)

ZoomPresetSelected ==
  /\ Inputs("preset") /\ Still /\ UNCHANGED wheel /\ aim' = NoAim
  /\ \E to \in Fitting \cup {"actual"} : pages' = ToPreset([pages EXCEPT !.preset = to])

(* The wheel on the canvas, with Ctrl or in the modes that do not leave it to the      *)
(* scrollable. The size it comes with is that of the canvas, which is as large as its  *)
(* content, and the place of the cursor is in the content.                             *)
Wheeled(v) == Clamped(Laid([v EXCEPT !.w = v.content.w, !.h = v.content.h]))

ZoomWheel ==
  /\ Inputs("wheel") /\ Still /\ UNCHANGED wheel /\ aim' = NoAim
  /\ \E width \in {ZoomedIn(pages.zoom), ZoomedOut(pages.zoom)} :
       pages' = ZoomTo([Wheeled(pages) EXCEPT !.preset = "none"], width,
                       <<pages.x + pages.w \div 2, pages.y + pages.h \div 2>>)

(* take_page_mode_wheel_turn, maybe after a pause, and scroll_page_mode_by. *)
TurnWheel ==
  /\ Inputs("wheel") /\ Still /\ pages.mode = "page"
  /\ \E by \in {-Notch, 1, Notch}, pause \in BOOLEAN :
       LET now == IF pause THEN [turned |-> FALSE, by |-> 0] ELSE wheel
           sum == now.by + by
           to  == Within(pages.onPage + (IF sum > 0 THEN 1 ELSE -1), 0, LastPage)
       IN IF now.turned \/ sum \in -Notch + 1 .. Notch - 1
          THEN /\ wheel' = IF now.turned THEN now ELSE [now EXCEPT !.by = sum]
               /\ pages' = Wheeled(pages) /\ aim' = NoAim
          ELSE /\ wheel' = [turned |-> TRUE, by |-> 0]
               /\ pages' = Laid([Wheeled(pages) EXCEPT !.onPage = to, !.x = 0, !.y = 0])
               /\ AimAt("page", to, 0)

PanWheel ==
  /\ Inputs("wheel") /\ Still /\ UNCHANGED wheel /\ aim' = NoAim
  /\ pages.mode = "horizontal"
  /\ \E by \in {-Notch, Notch} : pages' = ClampX([Wheeled(pages) EXCEPT !.x = Max({@ + by, 0})])

(* ToggleSidebar and WindowResized. *)
Resize ==
  /\ Inputs("resize") /\ UNCHANGED <<told, wheel>> /\ aim' = NoAim
  /\ \/ sidebar' = ~sidebar /\ UNCHANGED window
     \/ window' \in Window \ {window} /\ UNCHANGED sidebar
  /\ LET size == Canvas(window', sidebar')
     IN pages' = Fit(Laid([pages EXCEPT !.w = size.w, !.h = size.h]))

(* ViewportChanged *)
Reported(v, x, y) ==
  LET size == Canvas(window, sidebar)
  IN Fit(Clamped(Laid([v EXCEPT !.x = x, !.y = y, !.w = size.w, !.h = size.h])))

Report(x, y) == <<x, y, pages.content, Canvas(window, sidebar)>>

(* Where the scrollable can stand on one axis. *)
Reach(content, size) == Max({content - size, 0})

(* The scrollable tells where the viewer has put it, within its content, when that or  *)
(* its size has changed, and not when all of its content is in sight.                  *)
ScrollableReports ==
  LET size == Canvas(window, sidebar)
      content == pages.content
      x == Min({pages.x, Reach(content.w, size.w)})
      y == Min({pages.y, Reach(content.h, size.h)})
  IN /\ pages.rects # {}
     /\ content.w > size.w \/ content.h > size.h
     /\ told # Report(x, y) /\ told' = Report(x, y)
     /\ pages' = Reported(pages, x, y)
     /\ aim' = IF pages'.zoom = pages.zoom /\ pages'.x = x THEN aim ELSE NoAim
     /\ UNCHANGED <<window, sidebar, wheel, may, moves>>

(* The user scrolls: State::scroll keeps within the content, and what has not moved is *)
(* not reported.                                                                       *)
UserScrolls ==
  /\ Inputs("scroll") /\ UNCHANGED <<window, sidebar, wheel>> /\ aim' = NoAim
  /\ LET size == Canvas(window, sidebar)
         content == pages.content
         Places(most) == {0, most \div 3, (2 * most) \div 3, most}
     IN \E x \in Places(Reach(content.w, size.w)), y \in Places(Reach(content.h, size.h)) :
          /\ content.w > size.w \/ content.h > size.h
          /\ told # Report(x, y) /\ told' = Report(x, y)
          /\ pages' = Reported(pages, x, y)

(* ViewerFindNext and ViewerFindPrevious, to a match on a page that is read. *)
ScrollToMatch ==
  /\ Inputs("find") /\ Still /\ UNCHANGED wheel
  /\ \E p \in pages.layers, eighth \in {0, 3, 7} :
       pages' = RevealPoint(pages, p, eighth) /\ AimAt("match", p, eighth)

(* AnnotationSelected and the carousel. *)
AnnotationSelected ==
  /\ Inputs("note") /\ Still /\ UNCHANGED wheel
  /\ \E i \in DOMAIN notes :
       /\ pages' = RevealPair([pages EXCEPT !.chosen = i], i)
       /\ AimAt(IF pages.mode = "page" /\ notes[i].page # pages.onPage THEN "none" ELSE "note", i, 0)

(* AnnotationEditStarted, AnnotationEditCancelled and ToggleHideComments. *)
AnnotationCards ==
  /\ Inputs("note") /\ Still /\ UNCHANGED wheel /\ aim' = NoAim
  /\ \/ \E i \in DOMAIN notes : pages' = Laid([pages EXCEPT !.editing = i, !.chosen = i])
     \/ pages.editing # 0 /\ pages' = Laid([pages EXCEPT !.editing = 0])
     \/ pages' = Laid([pages EXCEPT !.comments = ~@])

(* ViewerTextLayerLoaded: with the text of its page the annotation selected is where   *)
(* it belongs, and is scrolled to again.                                               *)
ViewerTextLayerLoaded(p) ==
  LET Read(v) == Laid([v EXCEPT !.layers = @ \cup {p}])
      chosen == pages.chosen # 0 /\ notes[pages.chosen].page = p
  IN /\ pages.rects # {} /\ {"note", "find"} \cap may.events # {} /\ p \in VisiblePages(pages) \ pages.layers
     /\ pages' = (IF chosen THEN RevealPair(Read(pages), pages.chosen) ELSE Read(pages))
     /\ aim' = IF chosen THEN [NoAim EXCEPT !.kind = "note", !.at = pages.chosen] ELSE NoAim
     /\ UNCHANGED <<window, sidebar, told, wheel, may, moves>>

(* open_document_with_path *)
OpenPages ==
  LET Shown(v) == Laid([v EXCEPT !.zoom = PresetWidth(v)])
  IN /\ may.events # {} /\ pages.rects = {} /\ pages' = Shown(Laid(pages))
     /\ UNCHANGED <<window, sidebar, told, wheel, aim, may, moves>>

PageInit ==
  /\ may \in PageScenarios /\ window = may.window /\ sidebar = TRUE
  /\ LET size == Canvas(window, sidebar)
     IN pages = [mode |-> "vertical", spread |-> "none", preset |-> "automatic", zoom |-> MinZoom,
                 x |-> 0, y |-> 0, w |-> size.w, h |-> size.h, onPage |-> 0, layers |-> {},
                 chosen |-> 0, editing |-> 0, comments |-> TRUE,
                 rects |-> {}, cards |-> {}, column |-> 0, content |-> size]
  /\ told = <<>> /\ wheel = [turned |-> FALSE, by |-> 0] /\ aim = NoAim /\ moves = 0

PageNext ==
  \/ OpenPages \/ JumpToPage \/ ViewerScrollModeSelected \/ ViewerSpreadModeSelected
  \/ ZoomSet \/ ZoomPresetSelected \/ ZoomWheel \/ TurnWheel \/ PanWheel \/ Resize
  \/ ScrollableReports \/ UserScrolls \/ ScrollToMatch \/ AnnotationSelected \/ AnnotationCards
  \/ \E p \in DOMAIN paper : ViewerTextLayerLoaded(p)

PageSpec == PageInit /\ [][PageNext]_pageVars
-----------------------------------------------------------------------------
(* Type invariant. *)
PageTypeOK ==
  /\ pages.mode \in Modes /\ pages.spread \in Spreads /\ pages.zoom \in MinZoom .. MaxZoom
  /\ pages.x \in Nat /\ pages.y \in Nat /\ pages.onPage \in DOMAIN paper
  /\ pages.layers \subseteq DOMAIN paper /\ aim.kind \in {"none", "page", "match", "note"}

(* A page takes the middle of what is in sight when it is scrolled to, unless the end  *)
(* of the document comes first.                                                        *)
LargePages ==
  \A r \in pages.rects : 2 * r.h > pages.h + 2 /\ 2 * r.w > pages.w + 2

(* After a jump the page jumped to is the current one, or its neighbour of the spread  *)
(* is, and after another scroll mode or spread mode the page that was current before,  *)
(* also when the scrollable has answered, which only knows the size the content had:   *)
(* what is jumped to is found in the layout that is shown in the end. Not claimed when *)
(* the answer fits the zoom to another spread, or moves to the left for the preset of  *)
(* the page's width (set_viewer_scroll_mode, jump_to_page, current_page).              *)
JumpLands ==
  (aim.kind = "page" /\ LargePages) => Spread(pages, aim.at) = Spread(pages, CurrentPage(pages))

(* The match that is stepped to is in sight, and of an annotation that is selected the *)
(* mark and its card, wherever the stacking has pushed the card, if both fit at once.  *)
(* Not in horizontal mode, which never scrolls down, and in page mode not for a note   *)
(* on another page, whose card is looked up before the page is turned                  *)
(* (scroll_to_page_rect, scroll_annotation_pair_into_view, layout_anchored_tops).      *)
RevealedInView ==
  pages.mode # "horizontal" =>
    /\ aim.kind = "match" =>
         LET r == RectOf(pages, aim.at)
         IN r.y + (r.h * aim.where) \div 8 \in pages.y .. pages.y + pages.h
    /\ (aim.kind = "note" /\ pages.comments) =>
         LET card == CHOOSE c \in pages.cards : c.note = aim.at
             mark == MarkOn(pages, notes[aim.at], RectOf(pages, notes[aim.at].page))
             top  == Min({mark.y, card.top})
             low  == Max({mark.y + mark.h, card.top + card.h})
         IN low - top <= pages.h => pages.y <= top /\ low <= pages.y + pages.h

(* What the user asks to see is in view. *)
ViewFollows == JumpLands /\ RevealedInView
=============================================================================
