------------------------------ MODULE MCShell ------------------------------
EXTENDS Shell

CONSTANTS e1, e2, e3

(* Three PDFs whose order by title is not their manual order. *)
ByTitle == [e \in Entry |-> CASE e = e1 -> 3 [] e = e2 -> 1 [] OTHER -> 2]
OneRow(n, tag, passed) ==
  [place |-> "live", filed |-> FALSE, tagged |-> tag, passes |-> passed, order |-> n,
   folderOrder |-> 0]
AtRoot == [e \in Entry |-> CASE e = e1 -> OneRow(1, TRUE, {"reading", "missing"})
                             [] e = e2 -> OneRow(2, FALSE, {"recent", "missing"})
                             [] OTHER  -> OneRow(3, TRUE, {"reading", "recent"})]
InFolder == [e \in Entry |-> [AtRoot[e] EXCEPT !.filed = TRUE, !.folderOrder = 4 - AtRoot[e].order]]
Strewn == [AtRoot EXCEPT ![e1].filed = TRUE, ![e1].folderOrder = 1, ![e2].place = "trash"]
Starts3 == {AtRoot, InFolder, Strewn}

NoBrowsing == {}
Browsings ==
  {{"drag", "folder", "sort", "remote"}, {"drag", "check", "filter"},
   {"filter", "tag", "check", "folder", "remote"}, {"search", "check", "remote", "click"},
   {"trash", "check", "confirm", "remote"}, {"clip", "click", "folder", "all"},
   {"progress", "filter", "click"}, {"sort", "early", "drag", "tag"},
   {"trash", "confirm", "check", "behind", "folder"}, {"search", "check", "remote", "late"},
   {"search", "drag", "early"}, {"trash", "check", "confirm", "remote", "early"}}
MCBrowser == Browsings \cup {NoBrowsing}
MCSteps == [s \in MCBrowser |-> CASE s = NoBrowsing -> 0 [] {"trash", "remote"} \subseteq s -> 4
                                  [] "search" \in s /\ s \cap {"early", "late"} # {} -> 2
                                  [] OTHER -> 3]

(* Two themes, a card and a sidebar with two states, and files of the user that change *)
(* a colour, states, layouts, or are wrong.                                            *)
MCFallback == [t \in Theme |-> [k \in Token |-> <<t, k>>]]
MCFallbackStyle ==
  [c \in Class |-> [s \in State |-> [p \in Prop |->
    IF p # "background" \/ c # "card" THEN <<>>
    ELSE IF s = "normal" THEN <<"surface">> ELSE <<"surface", "accent">>]]]
MCBase == [c \in Class |-> [s \in State |-> [p \in Prop |->
            IF p # "background" THEN <<>> ELSE IF s = "normal" THEN <<"surface">> ELSE <<"surface", "accent">>]]]
Literal(v) == [literal |-> <<v>>]
ThemeNode(t, c) == [node |-> "theme", theme |-> t, colours |-> c, primitive |-> <<>>]
StateNode(c, s, ts, sets) == [node |-> "state", class |-> c, state |-> s, themes |-> ts, sets |-> sets]
ClassNode(c, k, v) == [node |-> "class", class |-> c, key |-> k, value |-> <<v>>]
ValueNode(k, v) == [node |-> k, value |-> <<v>>]
LayoutNode(k, v) == [node |-> "layout", key |-> k, value |-> <<v>>]
MCBundled ==
  <<ThemeNode("espresso", "accent" :> <<"gold">>), ThemeNode("light", "accent" :> <<"brown">>),
    StateNode("card", "normal", <<"espresso">>,
              [background |-> Literal("dark"), left |-> Literal("line"), top |-> Literal("line")]),
    StateNode("card", "normal", <<"light">>, [background |-> Literal("pale")]),
    StateNode("sidebar", "hovered", <<>>, [background |-> [tokens |-> <<"surface", "accent">>]]),
    ClassNode("sidebar", "sidebar", "200"), LayoutNode("card", "160"),
    ValueNode("primitive", "8"), ValueNode("label", "PDFs")>>
MCGroup == [f \in UserFile |-> IF f = "themes" THEN 0 ELSE 1]
MCName  == [f \in UserFile |-> IF f = "themes" THEN 2 ELSE 1]
MCContents ==
  {<<ThemeNode("espresso", "accent" :> <<"red">>), ValueNode("label", "Files")>>,
   <<StateNode("card", "normal", <<>>, [left |-> [tokens |-> <<"accent">>]]),
     StateNode("card", "hovered", <<"light">>, [top |-> Literal("edge")])>>,
   <<LayoutNode("sidebar", "240"), ClassNode("card", "card", "180"),
     StateNode("sidebar", "normal", <<"dark">>, [background |-> Literal("no")])>>,
   <<ClassNode("sidebar", "none", "99"), LayoutNode("sidebar", "240"), [node |-> "bad"]>>,
   <<ClassNode("sidebar", "sidebar", "99"),
     StateNode("sidebar", "normal", <<"light">>, [background |-> Literal("blue")]),
     ValueNode("primitive", "12")>>}
NoFiles == [f \in UserFile |-> Absent]
Restyles == {"none", "edit", "overlap"}

(* Four pages, of one shape or with a wide one, in a tall or a wide window. *)
MCPapers == [same |-> [p \in 0 .. 3 |-> 3], mixed |-> [p \in 0 .. 3 |-> IF p = 1 THEN 1 ELSE 3]]
NoteOn(p, a, t) == [page |-> p, at |-> a, tall |-> t]
MCNotes == [same |-> <<NoteOn(0, 5, 4), NoteOn(1, 4, 6), NoteOn(1, 5, 5)>>,
            mixed |-> <<NoteOn(1, 4, 6), NoteOn(2, 2, 4)>>]
Tall == <<24, 22>>
Wide == <<44, 16>>
Windows == {Tall, Wide}
Looking(d, w, e, n) == [document |-> d, window |-> w, events |-> e, most |-> n]
Closed == Looking("same", Wide, {}, 0)
Lookings ==
  {Looking("mixed", Tall, {"jump", "mode"}, 3), Looking("same", Wide, {"jump", "mode", "preset"}, 3),
   Looking("mixed", Tall, {"zoom", "scroll", "jump"}, 2), Looking("mixed", Wide, {"wheel", "mode"}, 3),
   Looking("mixed", Tall, {"resize", "jump"}, 3), Looking("same", Wide, {"note", "mode"}, 3),
   Looking("mixed", Tall, {"find", "mode"}, 2)}
MCPages == Lookings \cup {Closed}

(* Letters in two cases, one with a diacritic, one of two letters in lower case, and a *)
(* blank that breaks words and a line that ends.                                       *)
MCText == [p \in 0 .. 2 |-> CASE p = 0 -> <<"a", "A", "b">>
                              [] p = 1 -> <<"b", "a", "ae", " ", "b">> [] OTHER -> <<"I", "a">>]
MCLineOf == [p \in 0 .. 2 |-> IF p = 1 THEN <<1, 1, 1, 1, 2>> ELSE [i \in DOMAIN MCText[p] |-> 1]]
MCLower == [c \in {"a", "A", "b", "ae", " ", "I", "dot"} |->
              CASE c = "A" -> <<"a">> [] c = "I" -> <<"i", "dot">> [] OTHER -> <<c>>]
MCPlain == [c \in {"a", "A", "b", "ae", " ", "i", "dot", "I"} |-> IF c = "ae" THEN "a" ELSE c]
MCQueries == {<<"a">>, <<"a", "a">>, <<"dot", "a">>, <<"a", "b">>}
NoText == {}
MCTexts == {NoText, {"find"}, {"select"}}
MCMaxTexts == [s \in MCTexts |-> CASE s = NoText -> 0 [] "find" \in s -> 4 [] OTHER -> 5]

(* One part at a time. *)
MCShells ==
  (Starts3 \X Browsings \X {"none"} \X {Closed} \X {NoText})
  \cup ({AtRoot} \X {NoBrowsing} \X {"edit", "overlap"} \X {Closed} \X {NoText})
  \cup ({AtRoot} \X {NoBrowsing} \X {"none"} \X Lookings \X {NoText})
  \cup ({AtRoot} \X {NoBrowsing} \X {"none"} \X {Closed} \X {{"find"}, {"select"}})
=============================================================================
