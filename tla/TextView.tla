------------------------------ MODULE TextView ------------------------------
(* The text of the open document: finding in it, selecting in it with the pointer, and *)
(* copying what is selected, while the text of its pages arrives page by page, in any  *)
(* order.                                                                              *)
EXTENDS Integers, FiniteSets, SequencesExt

CONSTANTS
  Text,        \* Text[p]: the characters of page p in order
  LineOf,      \* LineOf[p][i]: the line that character i is on
  Lower,       \* Lower[c]: what the character is in lower case, one or more characters
  Plain,       \* Plain[c]: the letter without its diacritics
  WordBreak,   \* characters that are not of a word
  Queries,     \* what is searched for
  TextScenarios, MaxTexts \* sets of {"find", "select"}, and the bound on their inputs

TextPages == DOMAIN Text

ASSUME TextAssumption ==
  /\ \A p \in TextPages : p \in Nat /\ DOMAIN LineOf[p] = DOMAIN Text[p]
  /\ \A c \in DOMAIN Lower : ToSet(Lower[c]) \subseteq DOMAIN Plain
  /\ TextScenarios \subseteq SUBSET {"find", "select"} /\ MaxTexts \in [TextScenarios -> Nat]

VARIABLES
  textRead,  \* viewer_text_layers: pages whose text has arrived
  finder,    \* viewer_find; at: which of the matches is selected, or 0
  selection, \* viewer_text_selection, or NoSelection
  click,     \* of the canvas: the character clicked last and how often, and whether the
             \* button went down on no character
  copying,   \* viewer_copy_pending
  clipping,  \* the text on the clipboard
  wanted,    \* ghost: what was selected when copying was asked for last
  mayText, texts

textViewVars == <<textRead, finder, selection, click, copying, clipping, wanted, mayText, texts>>

NoSelection == [anchor |-> <<0, 0>>, focus |-> <<0, 0>>, dragging |-> FALSE]
NoClick     == [at |-> <<0, 0>>, count |-> 0, empty |-> FALSE]

Precedes(a, b) == a[1] < b[1] \/ (a[1] = b[1] /\ a[2] <= b[2])
-----------------------------------------------------------------------------
(* Finding. *)

(* normalize_find_char *)
Normal(c, f) ==
  LET lower == IF f.case THEN <<c>> ELSE Lower[c]
  IN [i \in DOMAIN lower |-> IF f.marks THEN lower[i] ELSE Plain[lower[i]]]

(* normalize_find_text, with the place each of the characters comes from. *)
Normalized(text, f) ==
  FlattenSeq([i \in DOMAIN text |->
    LET n == Normal(text[i], f) IN [j \in DOMAIN n |-> [char |-> n[j], from |-> i]]])

Occurs(needle, text, at) ==
  at + Len(needle) - 1 <= Len(text) /\ \A i \in DOMAIN needle : text[at + i - 1].char = needle[i].char

(* The matches of a page: from the left, each behind the one before. *)
MatchesOn(p, f) ==
  LET needle == Normalized(f.query, f)
      text   == Normalized(Text[p], f)
      Take(found, at) ==
        IF at >= found.next /\ Occurs(needle, text, at)
        THEN [next |-> at + Len(needle),
              all  |-> Append(found.all, <<p, text[at].from, text[at + Len(needle) - 1].from>>)]
        ELSE found
  IN IF needle = <<>> THEN <<>>
     ELSE FoldLeft(Take, [next |-> 1, all |-> <<>>], [i \in 1 .. Len(text) |-> i]).all

(* viewer_find_matches *)
Matches(read, f) ==
  FlattenSeq([i \in 1 .. Cardinality(read) |->
                MatchesOn(SetToSortSeq(read, LAMBDA p, q : p < q)[i], f)])

(* The order of matches: by page, start and end. *)
Earlier(m, n) ==
  IF <<m[1], m[2]>> = <<n[1], n[2]>> THEN m[3] <= n[3]
  ELSE Precedes(<<m[1], m[2]>>, <<n[1], n[2]>>)

Selected(f) == f.matches[f.at]

(* Mutant: the selected one is kept by its number. *)
RefreshedByNumber(f, read) ==
  LET all == Matches(read, f)
  IN [f EXCEPT !.matches = all, !.at = IF all = <<>> THEN 0 ELSE IF @ \in DOMAIN all THEN @ ELSE 1]

(* refresh_matches: the selected one stays, or else the first one behind it is. *)
Refreshed(f, read) ==
  LET all    == Matches(read, f)
      behind == {i \in DOMAIN all : f.at # 0 /\ Earlier(Selected(f), all[i])}
      first  == IF behind = {} THEN 1 ELSE Min(behind)
  IN [f EXCEPT !.matches = all, !.at = IF all = <<>> THEN 0 ELSE first]

Types(kind) == kind \in mayText /\ texts < MaxTexts[mayText] /\ texts' = texts + 1 /\ UNCHANGED mayText

selectVars == <<selection, click, copying, clipping, wanted>>

(* OpenViewerFind, and Ctrl+G while it is closed. *)
OpenViewerFind ==
  /\ Types("find") /\ finder' = Refreshed([finder EXCEPT !.open = TRUE], textRead)
  /\ UNCHANGED <<textRead, selectVars>>

(* CloseViewerFind and Escape. *)
CloseViewerFind ==
  /\ Types("find") /\ finder.open /\ finder' = [finder EXCEPT !.open = FALSE]
  /\ UNCHANGED <<textRead, selectVars>>

(* Mutant: the matches stay those of the other case. *)
MatchCaseStale(f) == f

(* ViewerFindQueryChanged, ViewerFindMatchCaseToggled, ViewerFindMatchDiacriticsToggled. *)
MatchCase(f) == Refreshed(f, textRead)

ViewerFindChanged ==
  /\ Types("find") /\ finder.open /\ UNCHANGED <<textRead, selectVars>>
  /\ \/ \E q \in Queries \ {finder.query} :
          finder' = Refreshed([finder EXCEPT !.query = q], textRead)
     \/ finder' = MatchCase([finder EXCEPT !.case = ~@])
     \/ finder' = Refreshed([finder EXCEPT !.marks = ~@], textRead)

(* ViewerFindNext and ViewerFindPrevious: select_relative. *)
ViewerFindStep ==
  /\ Types("find") /\ finder.open /\ UNCHANGED <<textRead, selectVars>>
  /\ \E delta \in {1, -1} :
       LET many == Len(finder.matches)
       IN finder' = [finder EXCEPT !.at = IF many = 0 THEN 0 ELSE ((@ - 1 + delta + many) % many) + 1]
-----------------------------------------------------------------------------
(* Selecting. *)

Ends(s) == IF Precedes(s.anchor, s.focus) THEN <<s.anchor, s.focus>> ELSE <<s.focus, s.anchor>>
PagesOf(s) == Ends(s)[1][1] .. Ends(s)[2][1]

(* char_range_for_page *)
RangeOn(s, p) ==
  {i \in DOMAIN Text[p] : Precedes(Ends(s)[1], <<p, i>>) /\ Precedes(<<p, i>>, Ends(s)[2])}

(* selected_viewer_text *)
TextOf(s) == [p \in {q \in PagesOf(s) : RangeOn(s, q) # {}} |-> RangeOn(s, p)]

(* word_char_range and line_char_range. *)
WordAround(p, i) ==
  LET OfWord(j) == Text[p][j] \notin WordBreak
      Joined(j) == \A k \in DOMAIN Text[p] : (Min({i, j}) <= k /\ k <= Max({i, j})) => OfWord(k)
  IN IF OfWord(i) THEN {j \in DOMAIN Text[p] : Joined(j)} ELSE {i}
LineAround(p, i) == {j \in DOMAIN Text[p] : LineOf[p][j] = LineOf[p][i]}

Anchors == {<<p, i>> : p \in textRead, i \in UNION {DOMAIN Text[q] : q \in textRead}}

(* start_viewer_text_selection: a double click selects a word, a third click its line. *)
ViewerTextSelectionStarted(a, expand) ==
  LET around == IF expand >= 3 THEN LineAround(a[1], a[2]) ELSE WordAround(a[1], a[2])
  IN /\ selection' = IF expand >= 2
                     THEN [anchor |-> <<a[1], Min(around)>>, focus |-> <<a[1], Max(around)>>, dragging |-> FALSE]
                     ELSE [anchor |-> a, focus |-> a, dragging |-> TRUE]
     /\ copying' = FALSE /\ UNCHANGED <<clipping, wanted>>

(* The button goes down on a character, maybe in time for a multiple click. *)
PressOnText ==
  /\ Types("select") /\ ~selection.dragging /\ UNCHANGED <<textRead, finder>>
  /\ \E a \in {b \in Anchors : b[2] \in DOMAIN Text[b[1]]}, again \in BOOLEAN :
       LET expand == IF again THEN Min({click.count + 1, 3}) ELSE 1
       IN /\ again => click.count > 0 /\ click.at = a
          /\ ViewerTextSelectionStarted(a, expand)
          /\ click' = [at |-> a, count |-> expand, empty |-> FALSE]

(* It goes down beside the text, or on a page whose text has not arrived. *)
PressBesideText ==
  /\ Types("select") /\ ~selection.dragging
  /\ click' = [NoClick EXCEPT !.empty = selection # NoSelection]
  /\ UNCHANGED <<textRead, finder, selection, copying, clipping, wanted>>

(* Mutant: a copy that waits is not called off. *)
ViewerTextSelectionChangedOnly(a) ==
  /\ selection' = [selection EXCEPT !.focus = a] /\ UNCHANGED copying

(* ViewerTextSelectionChanged: the pointer is dragged over a character. *)
ViewerTextSelectionChanged(a) ==
  /\ selection' = [selection EXCEPT !.focus = a] /\ copying' = FALSE

DragOnText ==
  /\ Types("select") /\ selection.dragging
  /\ \E a \in {b \in Anchors : b[2] \in DOMAIN Text[b[1]]} : ViewerTextSelectionChanged(a)
  /\ UNCHANGED <<textRead, finder, click, clipping, wanted>>

(* The pointer moves away from where it went down beside the text. *)
DragBesideText ==
  /\ click.empty /\ click' = [click EXCEPT !.empty = FALSE]
  /\ UNCHANGED <<textRead, finder, selection, copying, clipping, wanted, mayText, texts>>

(* ViewerTextSelectionEnded, or ViewerCanvasClicked. *)
Release ==
  /\ selection.dragging \/ click.empty
  /\ click' = [click EXCEPT !.empty = FALSE]
  /\ IF selection.dragging
     THEN selection' = [selection EXCEPT !.dragging = FALSE] /\ UNCHANGED copying
     ELSE selection' = NoSelection /\ copying' = FALSE
  /\ UNCHANGED <<textRead, finder, clipping, wanted, mayText, texts>>

(* Mutant: the copy still waits for what is no longer selected. *)
ClearViewerTextSelectionPending ==
  /\ Types("select") /\ selection # NoSelection
  /\ selection' = NoSelection
  /\ UNCHANGED <<copying, textRead, finder, click, clipping, wanted>>

(* ClearViewerTextSelection *)
ClearViewerTextSelection ==
  /\ Types("select") /\ selection # NoSelection
  /\ selection' = NoSelection /\ copying' = FALSE
  /\ UNCHANGED <<textRead, finder, click, clipping, wanted>>

(* copy_selected_viewer_text, once the text of these pages is there. *)
Copied(read) ==
  IF PagesOf(selection) \subseteq read
  THEN /\ copying' = FALSE
       /\ clipping' = IF DOMAIN TextOf(selection) = {} THEN clipping ELSE TextOf(selection)
  ELSE copying' = TRUE /\ UNCHANGED clipping

CopyViewerTextSelection ==
  /\ Types("select") /\ selection # NoSelection
  /\ wanted' = selection /\ Copied(textRead)
  /\ UNCHANGED <<textRead, finder, selection, click>>
-----------------------------------------------------------------------------
(* ViewerTextLayerLoaded *)
TextArrives(p) ==
  /\ mayText # {} /\ textRead' = textRead \cup {p}
  /\ finder' = IF finder.open THEN Refreshed(finder, textRead') ELSE finder
  /\ IF copying /\ PagesOf(selection) \subseteq textRead'
     THEN Copied(textRead') ELSE UNCHANGED <<copying, clipping>>
  /\ UNCHANGED <<selection, click, wanted, mayText, texts>>

TextInit ==
  /\ textRead = {} /\ selection = NoSelection /\ click = NoClick
  /\ finder = [open |-> FALSE, query |-> <<>>, case |-> FALSE, marks |-> FALSE,
               matches |-> <<>>, at |-> 0]
  /\ copying = FALSE /\ clipping = <<>> /\ wanted = NoSelection
  /\ mayText \in TextScenarios /\ texts = 0

TextNext ==
  \/ OpenViewerFind \/ CloseViewerFind \/ ViewerFindChanged \/ ViewerFindStep
  \/ PressOnText \/ PressBesideText \/ DragOnText \/ DragBesideText \/ Release
  \/ ClearViewerTextSelection \/ CopyViewerTextSelection
  \/ \E p \in TextPages \ textRead : TextArrives(p)

TextSpec == TextInit /\ [][TextNext]_textViewVars
-----------------------------------------------------------------------------
(* Type invariant. *)
TextTypeOK ==
  /\ textRead \subseteq TextPages /\ finder.query \in Queries \cup {<<>>}
  /\ finder.at \in 0 .. Len(finder.matches) /\ (finder.at = 0) = (finder.matches = <<>>)
  /\ copying \in BOOLEAN /\ (copying => selection # NoSelection)
  /\ (selection # NoSelection => {selection.anchor[1], selection.focus[1]} \subseteq textRead)

(* While the find bar is open its matches are those of the query and the options that  *)
(* it shows, in all of the text that has arrived: matches do not overlap, and wherever *)
(* the query is found there is a match or one that begins before and reaches into it   *)
(* (viewer_find_matches, refresh_matches and the messages that must call it).          *)
FindIsCurrent ==
  finder.open =>
    LET needle == Normalized(finder.query, finder)
        found  == ToSet(finder.matches)
    IN \A p \in TextPages :
         LET text == Normalized(Text[p], finder)
             Of(at) == <<p, text[at].from, text[at + Len(needle) - 1].from>>
             there == IF p \notin textRead \/ needle = <<>> THEN {}
                      ELSE {at \in DOMAIN text : Occurs(needle, text, at)}
             taken == {at \in there : Of(at) \in found}
         IN /\ {m \in found : m[1] = p} = {Of(at) : at \in taken}
            /\ \A at \in there : \E by \in taken : by <= at /\ at < by + Len(needle)

(* While text arrives, before or behind it, the match that is selected stays so: the   *)
(* reader is not taken from it (refresh_matches in ViewerTextLayerLoaded).             *)
FindKeepsPlace ==
  [][textRead' # textRead /\ finder.open /\ finder.at # 0
       => finder'.at # 0 /\ Selected(finder') = Selected(finder)]_textViewVars

(* What is put on the clipboard is what was selected when copying was wanted for,       *)
(* although it had to wait for text and the pointer went on selecting meanwhile        *)
(* (copy_selected_viewer_text, viewer_copy_pending).                                   *)
CopiedIsSelected ==
  [][clipping' # clipping => clipping' = TextOf(wanted')]_textViewVars

(* While text comes in, the find bar shows what is there and stays where the reader is, *)
(* and copies are of what was selected.                                                *)
TextStands == []FindIsCurrent /\ FindKeepsPlace /\ CopiedIsSelected
=============================================================================
