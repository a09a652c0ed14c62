------------------------------- MODULE Desktop -------------------------------
(* The program on one desktop: the library screen, the viewer and an import from     *)
(* Raindrop share an update function. They meet in the messages of the library: what *)
(* an import brings or has undone is read again by the others, and LibraryError,     *)
(* whoever it is from, ends what they wait for.                                      *)
EXTENDS LibraryScreen, Reading, RaindropImport

CONSTANT DesktopScenarios \* what may happen in a behaviour: <<events, happens, occurs>>

ASSUME DesktopAssumption ==
  DesktopScenarios \subseteq OrgScenarios \X ViewerScenarios \X RaindropScenarios

desktopVars == <<libraryVars, readingVars, raindropVars>>

(* The parts of the three that the messages in common leave alone. *)
libraryRest == <<dataVars, tasks, nodes, current, loads, shown, acts, events, viewVars>>
readingRest == <<viewerVars, savedPage, shownPage, lastSaved, progressGen, debounces, updates,
                 writes, readings, lastPage, noteVars>>
raindropRest == <<libraryRows, undo, imports, said, mail, rollback, cleaners, checked, begun,
                  settled, orders, occurs>>
-----------------------------------------------------------------------------
(* refresh_folders and refresh_library, for the list of entries and their pages. *)
ImportRefreshes ==
  /\ RaindropImportFinished \/ RaindropImportRollbackFinished
  /\ refreshes' = refreshes + 1 /\ reads' = reads + 1
  /\ UNCHANGED <<libraryRest, restoring, readingRest>>

(* LibraryError from the import: the lock of an undo is released. *)
ImportErrs ==
  /\ RaindropImportFailed /\ restoring' = FALSE
  /\ UNCHANGED <<libraryRest, refreshes, readingVars>>

(* LibraryError from a command: the import is no longer shown. *)
CommandErrs ==
  /\ \E t \in Slots : TaskFailed(t)
  /\ bar' = NoBar
  /\ UNCHANGED <<viewVars, readingVars, raindropRest>>

DesktopUser ==
  \/ LibraryUser /\ UNCHANGED <<readingVars, raindropVars>>
  \/ ReadingUser /\ UNCHANGED <<libraryVars, raindropVars>>
  \/ RaindropUser /\ UNCHANGED <<libraryVars, readingVars>>

RaindropAlone ==
  \/ RaindropTask \/ RaindropImportProgressUpdated \/ RaindropImportCreatedFolder
  \/ PendingRaindropRollbackChecked

DesktopGoesOn ==
  \/ LibraryGoesOn /\ UNCHANGED <<readingVars, raindropVars>>
  \/ ReadingGoesOn /\ UNCHANGED <<libraryVars, raindropVars>>
  \/ RaindropAlone /\ UNCHANGED <<libraryVars, readingVars>>
  \/ ImportRefreshes \/ ImportErrs \/ CommandErrs

DesktopInit ==
  /\ LibraryInit /\ ReadingInit /\ RaindropInit
  /\ <<events, happens, occurs>> \in DesktopScenarios

DesktopNext == DesktopUser \/ DesktopGoesOn

(* Pages are rendered and read, and imports go on and are undone, whatever the others *)
(* do; of the commands of the library nothing is claimed but where they come to rest. *)
DesktopFairness == ReadingFairness /\ RaindropFairness

DesktopSpec == DesktopInit /\ [][DesktopNext]_desktopVars /\ DesktopFairness
-----------------------------------------------------------------------------
(* The types of the components. *)
DesktopTypeOK == OrgTypeOK /\ ScreenTypeOK /\ ReadingTypeOK /\ RaindropTypeOK

(* The library is read after a command, not beside it: every input waits, and nothing is *)
(* imported from Raindrop. Trash that expires beside a restore is lost to the index, and *)
(* of two readings the older may come last.                                              *)
InTurn == "hasty" \notin ScreenEvents[events] /\ orders = 0

(* A search finds what is in the library: between commands the index covers the live entries *)
(* and no others, and at rest the screen shows what it finds for what is in the search field. *)
SearchFinds == InTurn => IndexCoversLibrary /\ ResultsAreCurrent

(* The viewer shows pages of the document that is open and of no other, and the page, the  *)
(* notes of the screen and the draft are as the user left them, whatever commands, readings *)
(* and documents overlap; the notes, unless an import or its undo has the library read     *)
(* while a command on them is under way.                                                   *)
ReadingKept ==
  /\ []PagesAreOfDocument
  /\ []PageRemembered /\ [](orders = 0 => AnnotationsMatchStore) /\ NewerDraftSurvives

(* What imports finished stays, whatever commands fail beside them (LibraryError ends   *)
(* what is shown of an import, and the handle by which a cancel would stop it), unless  *)
(* there may be a cancel after that.                                                    *)
FinishedStays == (acts = 0 \/ "cancel" \notin occurs) => SettledStays

(* What goes on in the background ends as the user needs it: the page in sight is shown, *)
(* the whole document is searched, and what an interrupted import brought goes.          *)
WorkEnds == VisiblePagesRendered /\ FindSearchesDocument /\ InterruptedUndone

(* What any command, undo or expiry changed has come to the list, whatever was opened and *)
(* searched meanwhile.                                                                    *)
ScreenIsCurrent == InTurn => ChangesAreShown
=============================================================================
