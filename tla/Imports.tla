------------------------------- MODULE Imports -------------------------------
(***************************************************************************)
(* The two sides of a bank file import: its confirmations on the server,   *)
(* by ImportConfirm, the module extended, and the page that asks for them. *)
(* One of them at most is at work in a behaviour, and the variables of the *)
(* other stay as they were: each models what it needs of the other side.   *)
(***************************************************************************)
EXTENDS ImportConfirm

CONSTANTS Labels, NoEdit, Picked, Suggested, Matches, MaxRuns   \* ImportPage

VARIABLES
  part,   \* the side at work
  server, outcomes, upload, heldImportId, preview, included, labels, appliedKey,  \* ImportPage
  picks, previewRun, previewing, uploading, confirming, left, calls

page == <<server, outcomes, upload, heldImportId, preview, included, labels, appliedKey,
          picks, previewRun, previewing, uploading, confirming, left, calls>>

Page == INSTANCE ImportPage WITH Line <- Row, Choice <- Picked

ASSUME PageAssumption == Page!PageAssumption

ImportInit ==
  /\ Init
  /\ IF part = "page" THEN Page!Init
     ELSE /\ server = NULL /\ outcomes = NULL /\ upload = NULL /\ heldImportId = NULL
          /\ preview = NULL /\ included = NULL /\ labels = NULL /\ appliedKey = NULL
          /\ picks = NULL /\ previewRun = NULL /\ previewing = NULL /\ uploading = NULL
          /\ confirming = NULL /\ left = NULL /\ calls = NULL

ConfirmImport == part = "confirm" /\ Next /\ UNCHANGED <<part, page>>
ShowImport == part = "page" /\ Page!Next /\ UNCHANGED <<part, vars>>

ImportSpec == ImportInit /\ [][ConfirmImport \/ ShowImport]_<<part, vars, page>>

\* ImportPage: what may be confirmed is what the page shows, and so is what is
\* recorded (useImportSession.ts:137, revision.ts:52).
ConfirmsWhatIsShown == part = "page" => Page!ConfirmsWhatIsShown
=============================================================================
