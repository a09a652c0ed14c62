----------------------------- MODULE StyleBook -----------------------------
(* The style book: bundled and user KDL files applied one after another to themes,  *)
(* class styles and layout, and the hot reload that replaces the book the screen is  *)
(* painted with. Colours are sequences, so that a mix of two has a value of its own; *)
(* <<>> is a property not set.                                                       *)
EXTENDS Integers, FiniteSets, SequencesExt

CONSTANTS
  Theme, Class, State,     \* of which State has "normal"
  Prop,                    \* what a state sets: a background, the sides of a border
  Token, Fallback,         \* the palette, and that of fallback_dark/light_tokens
  FallbackStyle,           \* apply_fallback_class_styles: class and state to properties
  Base,                    \* what a class is painted with in a state by itself
  Bundled,                 \* the nodes of the bundled files; a "state" with themes <<>> is for
                           \* all, "class" the layout of a class and maybe of the application,
                           \* "primitive" a size or a colour of every theme, "label" a text
  UserFile, Group, Name,   \* the user's files with what style_file_order_key says
  Contents, FirstFiles,    \* what may be in one, sequences of nodes; what is there at first
  Absent,
  StyleScenarios, MaxEdits \* "edit": one load at a time; "overlap": several; "none"

VARIABLES
  files,     \* what the user has on disk
  book,      \* style_book: [themes, layout, label]
  bookError, \* style_load_error is set
  dirty,     \* the watcher has a change to report
  reloads,   \* ReloadStyles messages
  loads,     \* loads under way and done: what has been read, and when it began
  kept,      \* ghost: the files of the last book that compiled
  edits, restyle

diskVars == <<files, dirty, edits, restyle>>
styleVars == <<diskVars, book, bookError, reloads, loads, kept>>

ASSUME StyleAssumption ==
  /\ "normal" \in State /\ Fallback \in [Theme -> [Token -> Seq(STRING)]]
  /\ {FallbackStyle, Base} \subseteq [Class -> [State -> [Prop -> Seq(Token)]]]
  /\ Group \in [UserFile -> 0 .. 3] /\ Name \in [UserFile -> Nat] /\ IsInjective(Name)
  /\ Absent \notin Contents /\ FirstFiles \in [UserFile -> Contents \cup {Absent}]
  /\ StyleScenarios \subseteq {"none", "edit", "overlap"} /\ MaxEdits \in Nat
-----------------------------------------------------------------------------
Mix(base, overlay) == base \o overlay

(* parse_color_expression: a literal, or tokens of the palette, mixed. *)
Colour(expr, palette) ==
  IF "literal" \in DOMAIN expr THEN expr.literal
  ELSE FoldLeft(LAMBDA c, token : Mix(c, palette[token]), <<>>, expr.tokens)

(* VisualStyle::merged, VisualBorder::merged, ComponentLayout::merged. *)
Merged(base, overlay) ==
  [p \in DOMAIN base |-> IF p \in DOMAIN overlay /\ overlay[p] # <<>> THEN overlay[p] ELSE base[p]]

Evaluated(sets, palette) == [p \in DOMAIN sets |-> Colour(sets[p], palette)]

(* Properties made of tokens of a palette. *)
FromPalette(tokens, palette) ==
  [p \in Prop |-> FoldLeft(LAMBDA c, token : Mix(c, palette[token]), <<>>, tokens[p])]

(* apply_fallback_class_styles *)
FallbackStates(t) == [c \in Class |-> [s \in State |-> FromPalette(FallbackStyle[c][s], Fallback[t])]]

(* raw_theme_from_fallback *)
FreshTheme(t) ==
  [palette |-> Fallback[t], primitive |-> <<>>, width |-> [c \in Class |-> <<>>],
   states |-> FallbackStates(t)]

Failed(raw) == [raw EXCEPT !.ok = FALSE]

(* apply_theme_node: what the theme had before is not kept. *)
ApplyTheme(raw, n) ==
  [raw EXCEPT !.themes = (n.theme :> [FreshTheme(n.theme) EXCEPT
                                        !.palette = n.colours @@ @,
                                        !.primitive = n.primitive]) @@ raw.themes]

(* Mutant: a state is replaced. *)
ApplyStateWhole(raw, n) ==
  LET targets == IF n.themes = <<>> THEN DOMAIN raw.themes ELSE ToSet(n.themes)
      Whole(th) == [p \in Prop |-> <<>>]
      With(th) == [th EXCEPT !.states[n.class][n.state] = Merged(Whole(th), Evaluated(n.sets, th.palette))]
  IN IF ~(targets \subseteq DOMAIN raw.themes) THEN Failed(raw)
     ELSE [raw EXCEPT !.themes = [t \in DOMAIN @ |-> IF t \in targets THEN With(@[t]) ELSE @[t]]]

(* apply_component_node, of a state: tokens are those the theme has now. *)
ApplyState(raw, n) ==
  LET targets == IF n.themes = <<>> THEN DOMAIN raw.themes ELSE ToSet(n.themes)
      With(th) == [th EXCEPT !.states[n.class][n.state] = Merged(@, Evaluated(n.sets, th.palette))]
  IN IF ~(targets \subseteq DOMAIN raw.themes) THEN Failed(raw)
     ELSE [raw EXCEPT !.themes = [t \in DOMAIN @ |-> IF t \in targets THEN With(@[t]) ELSE @[t]]]

(* apply_class_component_layout_node: the class in every theme, and the application. *)
ApplyClassLayout(raw, n) ==
  [raw EXCEPT !.themes = [t \in DOMAIN @ |-> [@[t] EXCEPT !.width[n.class] = n.value]],
              !.layout = IF n.key \in DOMAIN @ THEN [@ EXCEPT ![n.key] = n.value] ELSE @]

(* The layout of the application, by its own component or by a metric. *)
ApplyLayout(raw, n) ==
  IF n.key \in DOMAIN raw.layout THEN [raw EXCEPT !.layout[n.key] = n.value] ELSE Failed(raw)

(* apply_primitive_node: in the themes there are. *)
ApplyPrimitive(raw, n) ==
  [raw EXCEPT !.themes = [t \in DOMAIN @ |-> [@[t] EXCEPT !.primitive = n.value]]]

(* apply_labels_node, apply_component_labels_node and apply_app_component_labels_node. *)
ApplyLabel(raw, n) == [raw EXCEPT !.label = n.value]

Apply(raw, n) ==
  CASE ~raw.ok -> raw
    [] raw.ok /\ n.node = "theme"  -> ApplyTheme(raw, n)
    [] raw.ok /\ n.node = "state"  -> ApplyState(raw, n)
    [] raw.ok /\ n.node = "class"  -> ApplyClassLayout(raw, n)
    [] raw.ok /\ n.node = "layout" -> ApplyLayout(raw, n)
    [] raw.ok /\ n.node = "primitive" -> ApplyPrimitive(raw, n)
    [] raw.ok /\ n.node = "label"  -> ApplyLabel(raw, n)
    [] raw.ok /\ n.node = "bad"    -> Failed(raw)

NoBook ==
  [ok |-> TRUE, themes |-> <<>>, layout |-> [sidebar |-> <<>>, card |-> <<>>], label |-> <<>>]

(* compile: both themes are required. *)
Compiled(raw) == IF Theme \subseteq DOMAIN raw.themes THEN raw ELSE Failed(raw)

FromSources(nodes) ==
  LET raw == FoldLeft(Apply, NoBook, nodes) IN IF raw.ok THEN Compiled(raw) ELSE raw

(* style_files_in_dir: themes first, then components, then the application. *)
InOrder(fs) ==
  SetToSortSeq(fs, LAMBDA x, y : \/ Group[x] < Group[y]
                                 \/ Group[x] = Group[y] /\ Name[x] < Name[y])

Present(fs) == {f \in UserFile : fs[f] # Absent}

Sources(fs) ==
  Bundled \o FlattenSeq([i \in 1 .. Cardinality(Present(fs)) |-> fs[InOrder(Present(fs))[i]]])

(* ClassStyle::resolve *)
Resolve(b, t, c, s) == Merged(b.themes[t].states[c]["normal"], b.themes[t].states[c][s])

(* with_visual_override: what the class is by itself, in the colours of the theme. *)
Painted(b, t, c, s) == Merged(FromPalette(Base[c][s], b.themes[t].palette), Resolve(b, t, c, s))
-----------------------------------------------------------------------------
ShownBook(b) == [themes |-> b.themes, layout |-> b.layout, label |-> b.label]

(* The user writes, breaks or removes a file: the watcher or its poll will notice. *)
EditFile ==
  /\ restyle # "none" /\ edits < MaxEdits /\ edits' = edits + 1 /\ dirty' = TRUE
  /\ \E f \in UserFile, to \in Contents \cup {Absent} :
       to # files[f] /\ files' = [files EXCEPT ![f] = to]
  /\ UNCHANGED <<book, bookError, reloads, loads, kept, restyle>>

(* watch_style_directories_stream *)
WatcherReports ==
  /\ dirty /\ dirty' = FALSE /\ reloads' = reloads + 1
  /\ UNCHANGED <<files, book, bookError, loads, kept, edits, restyle>>

(* ReloadStyles: the files are listed, and then read one after another. *)
ReloadStyles ==
  /\ reloads > 0 /\ reloads' = reloads - 1
  /\ loads = <<>> \/ restyle = "overlap"
  /\ loads' = Append(loads, [left |-> InOrder(Present(files)), read |-> [f \in UserFile |-> Absent],
                             ok |-> TRUE])
  /\ UNCHANGED <<diskVars, book, bookError, kept>>

(* A file that is gone since is an error of the load. *)
LoadReads(i) ==
  /\ loads[i].ok /\ loads[i].left # <<>>
  /\ LET f == Head(loads[i].left)
     IN loads' = [loads EXCEPT ![i].left = Tail(@), ![i].read[f] = files[f],
                               ![i].ok = files[f] # Absent]
  /\ UNCHANGED <<diskVars, book, bookError, reloads, kept>>

(* Mutant: a load that fails leaves the bundled book. *)
StylesReloadedDefault(i) ==
  /\ loads[i].left = <<>> \/ ~loads[i].ok
  /\ LET to == FromSources(Sources(loads[i].read))
         good == loads[i].ok /\ to.ok
     IN /\ book' = ShownBook(IF good THEN to ELSE FromSources(Bundled))
        /\ kept' = IF good THEN loads[i].read ELSE kept
        /\ bookError' = ~good
  /\ loads' = RemoveAt(loads, i)
  /\ UNCHANGED <<diskVars, reloads>>

(* StylesReloaded: a book that does not compile leaves the one there is. *)
StylesReloaded(i) ==
  /\ loads[i].left = <<>> \/ ~loads[i].ok
  /\ LET to == FromSources(Sources(loads[i].read))
         good == loads[i].ok /\ to.ok
     IN /\ book' = IF good THEN ShownBook(to) ELSE book
        /\ kept' = IF good THEN loads[i].read ELSE kept
        /\ bookError' = ~good
  /\ loads' = RemoveAt(loads, i)
  /\ UNCHANGED <<diskVars, reloads>>

(* The book at start, or the bundled one. *)
StyleInit ==
  /\ files = FirstFiles
  /\ LET first == FromSources(Sources(files))
     IN /\ book = ShownBook(IF first.ok THEN first ELSE FromSources(Bundled))
        /\ bookError = ~first.ok
        /\ kept = IF first.ok THEN files ELSE [f \in UserFile |-> Absent]
  /\ dirty = FALSE /\ reloads = 0 /\ loads = <<>> /\ edits = 0 /\ restyle \in StyleScenarios

StyleNext ==
  \/ EditFile \/ WatcherReports \/ ReloadStyles
  \/ \E i \in DOMAIN loads : LoadReads(i) \/ StylesReloaded(i)

StyleSpec == StyleInit /\ [][StyleNext]_styleVars
-----------------------------------------------------------------------------
StyleTypeOK ==
  /\ files \in [UserFile -> Contents \cup {Absent}] /\ DOMAIN book.themes = Theme
  /\ reloads \in Nat /\ bookError \in BOOLEAN /\ dirty \in BOOLEAN

LastTheme(nodes, t) ==
  CHOOSE i \in DOMAIN nodes :
    /\ nodes[i].node = "theme" /\ nodes[i].theme = t
    /\ \A j \in i + 1 .. Len(nodes) : nodes[j].node = "theme" => nodes[j].theme # t

LastPalette(nodes, t) == nodes[LastTheme(nodes, t)].colours @@ Fallback[t]

(* What a property of a state is defined as by the last node that names it, after the   *)
(* last that defines the theme, with the colours the theme was given there.             *)
LastDefined(nodes, t, c, s, p) ==
  LET sets == {i \in LastTheme(nodes, t) + 1 .. Len(nodes) :
                 /\ nodes[i].node = "state" /\ nodes[i].class = c /\ nodes[i].state = s
                 /\ nodes[i].themes = <<>> \/ t \in ToSet(nodes[i].themes)
                 /\ p \in DOMAIN nodes[i].sets}
  IN IF sets = {} THEN FreshTheme(t).states[c][s][p]
     ELSE Colour(nodes[Max(sets)].sets[p], LastPalette(nodes, t))

LastPrimitive(nodes, t) ==
  LET sets == {i \in LastTheme(nodes, t) + 1 .. Len(nodes) : nodes[i].node = "primitive"}
  IN IF sets = {} THEN nodes[LastTheme(nodes, t)].primitive ELSE nodes[Max(sets)].value

LastLabel(nodes) ==
  LET sets == {i \in DOMAIN nodes : nodes[i].node = "label"}
  IN IF sets = {} THEN <<>> ELSE nodes[Max(sets)].value

LastLayout(nodes, key) ==
  LET sets == {i \in DOMAIN nodes : nodes[i].node \in {"class", "layout"} /\ nodes[i].key = key}
  IN IF sets = {} THEN <<>> ELSE nodes[Max(sets)].value

LastWidth(nodes, t, c) ==
  LET sets == {i \in LastTheme(nodes, t) .. Len(nodes) : nodes[i].node = "class" /\ nodes[i].class = c}
  IN IF sets = {} THEN <<>> ELSE nodes[Max(sets)].value

(* When the changes of the files have been reported and read, one at a time, what the   *)
(* screen is painted with is what the files define last, the state over the normal one, *)
(* or, when they do not compile, what they last defined when they did, and the error is  *)
(* shown (book/mod.rs: "On parse failure the previous book stays active"): whatever was  *)
(* read half before and half after an edit. It does not hold when two loads overlap.     *)
StylesSettle ==
  (~dirty /\ reloads = 0 /\ loads = <<>> /\ restyle = "edit") =>
    /\ bookError = ~FromSources(Sources(files)).ok
    /\ bookError \/ kept = files
    /\ \A t \in Theme, c \in Class, s \in State, p \in Prop :
         LET own    == LastDefined(Sources(kept), t, c, s, p)
             normal == LastDefined(Sources(kept), t, c, "normal", p)
             base   == FromPalette(Base[c][s], LastPalette(Sources(kept), t))[p]
         IN Painted(book, t, c, s)[p] = (CASE own # <<>> -> own
                                           [] own = <<>> /\ normal # <<>> -> normal [] OTHER -> base)
    /\ book.label = LastLabel(Sources(kept))
    /\ \A t \in Theme : book.themes[t].primitive = LastPrimitive(Sources(kept), t)
    /\ \A t \in Theme, c \in Class : book.themes[t].width[c] = LastWidth(Sources(kept), t, c)
    /\ \A key \in DOMAIN book.layout : book.layout[key] = LastLayout(Sources(kept), key)
=============================================================================
