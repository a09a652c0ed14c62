------------------------------ MODULE Services ------------------------------
(* Parts of the program that work beside the screens, each on state of its own: the     *)
(* folders in the sync, the import out of a Raindrop account, signing in, the files of     *)
(* PDFs that come, go and are exported, and what is kept of the app while it does not run.  *)
(* They run at any time; a behaviour exercises one of them.                                *)
EXTENDS FolderSync, RaindropTransfer, SignIn, LibraryFiles, AppSession

CONSTANT ServiceScenarios \* what may happen in a behaviour: of each part its scenario,
                          \* <<may, scenario, visit, errand, day>>

(* A part that nothing may happen to rests. *)
NoTransfer(t) == t[3] = {}
NoErrand(e)   == e[2] = {}
FoldersAtRest == CHOOSE folders \in {DOMAIN start.tree : start \in FolderStart} : TRUE

ASSUME ServicesAssumption ==
  ServiceScenarios \subseteq FolderScenarios \X Transfers \X Visits \X Errands \X Days

serviceVars == <<folderVars, transferVars, signVars, fileVars, sessionVars>>

ServicesInit ==
  /\ FolderInit /\ TransferInit /\ SignInInit /\ FilesInit /\ SessionInit
  /\ <<may, scenario, visit, errand, day>> \in ServiceScenarios
  /\ may = {} => made = FoldersAtRest

ServicesNext ==
  \/ FolderNext /\ may # {} /\ UNCHANGED <<transferVars, signVars, fileVars, sessionVars>>
  \/ TransferNext /\ ~NoTransfer(scenario) /\ UNCHANGED <<folderVars, signVars, fileVars, sessionVars>>
  \/ SignInNext /\ visit # {} /\ UNCHANGED <<folderVars, transferVars, fileVars, sessionVars>>
  \/ FilesNext /\ ~NoErrand(errand) /\ UNCHANGED <<folderVars, transferVars, signVars, sessionVars>>
  \/ SessionNext /\ day # {} /\ UNCHANGED <<folderVars, transferVars, signVars, fileVars>>

ServicesSpec == ServicesInit /\ [][ServicesNext]_serviceVars
-----------------------------------------------------------------------------
(* The types of the parts. *)
ServicesTypeOK == FolderTypeOK /\ TransferTypeOK /\ SignInTypeOK /\ FilesTypeOK /\ SessionTypeOK
=============================================================================
