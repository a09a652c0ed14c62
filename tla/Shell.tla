-------------------------------- MODULE Shell --------------------------------
(* Parts of the application whose state the others only look at: the list of PDFs, the *)
(* style book, the pages on the canvas and their text. Each handles its own messages,   *)
(* in any order with those of the others; a behaviour exercises one of them at a time.  *)
EXTENDS LibraryBrowser, StyleBook, PageView, TextView

CONSTANT ShellScenarios \* what may happen in a behaviour: the rows at first, and of each
                        \* part its scenario: <<rows, can, restyle, may, mayText>>

ASSUME ShellAssumption ==
  ShellScenarios \subseteq Start \X BrowserScenarios \X StyleScenarios \X PageScenarios
                                 \X TextScenarios

shellVars == <<browserVars, styleVars, pageVars, textViewVars>>

ShellInit ==
  /\ StyleInit /\ PageInit /\ TextInit /\ BrowserInit
  /\ <<rows, can, restyle, may, mayText>> \in ShellScenarios

ShellNext ==
  \/ BrowserNext /\ UNCHANGED <<styleVars, pageVars, textViewVars>>
  \/ StyleNext /\ UNCHANGED <<browserVars, pageVars, textViewVars>>
  \/ PageNext /\ UNCHANGED <<browserVars, styleVars, textViewVars>>
  \/ TextNext /\ UNCHANGED <<browserVars, styleVars, pageVars>>

ShellSpec == ShellInit /\ [][ShellNext]_shellVars
-----------------------------------------------------------------------------
(* The types of the parts. *)
ShellTypeOK == BrowserTypeOK /\ StyleTypeOK /\ PageTypeOK /\ TextTypeOK
=============================================================================
