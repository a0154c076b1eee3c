----------------------------- MODULE ImportPage -----------------------------
(***************************************************************************)
(* The page a member imports a bank file from, and what the server holds   *)
(* for it.  The page uploads a file, shows its preview, asks for it again  *)
(* as the member edits labels or moves rows, and confirms what it shows;   *)
(* the answers to its requests come in any order, and the operations that  *)
(* rows match change in between.                                           *)
(*                                                                         *)
(* A request is sent and answered in three steps: the page sends it, the   *)
(* server serves it, the page gets the answer.                             *)
(***************************************************************************)
EXTENDS Naturals, FiniteSets

CONSTANTS
  Import,     \* the ids the server gives to uploads
  Labels,     \* the label edits a member may have made, none of them included
  NoEdit,     \* the one of no edit
  Line,       \* the rows of a file
  Choice,     \* what a row may be: a transfer, or of another method
  Suggested,  \* what it is until the member picks
  Matches,    \* which rows may match an operation, as which choice
  MaxRuns,    \* bound on the previews asked for
  NULL

\* NULL is the id of no import.
PageAssumption == NULL \notin Import /\ MaxRuns \in Nat

VARIABLES
  server,        \* the imports held
  outcomes,      \* the imports confirmed, whose outcome is held
  upload,        \* the import shown
  heldImportId,  \* the one to release when the page is done with it
  preview,       \* the preview shown: of which import, with which labels
  included,      \* the skipped rows to import anyway
  labels, appliedKey,   \* the label edits, and those the preview was built with
  picks,         \* what each row is, as the member picked
  previewRun, previewing, uploading, confirming,
  left,          \* the member left the page
  calls          \* the requests on their way, and their answers

held == <<server, outcomes>>
page == <<upload, heldImportId, preview, included, labels, appliedKey, picks>>
flags == <<previewRun, previewing, uploading, confirming, left>>
vars == <<held, page, flags, calls>>

NoPicks == [line \in Line |-> Suggested]

Init ==
  /\ server = {} /\ outcomes = {}
  /\ upload = NULL /\ heldImportId = NULL /\ preview = NULL
  /\ included = {} /\ labels = NoEdit /\ appliedKey = NoEdit /\ picks = NoPicks
  /\ previewRun = 0 /\ previewing = FALSE /\ uploading = FALSE /\ confirming = FALSE
  /\ left = FALSE /\ calls = {}

-----------------------------------------------------------------------------
(* Requests.                                                               *)

Call(to, import) ==
  [to |-> to, import |-> import, run |-> 0, key |-> NoEdit, picks |-> NoPicks,
   included |-> {}, shown |-> {}, revision |-> NULL,
   status |-> "sent", skipped |-> {}, recorded |-> NULL]

\* The page tells the server to drop what it holds, and does not wait.
Release == IF heldImportId = NULL THEN {} ELSE {Call("release", heldImportId)}

\* A preview is asked for: the newest run is the one that counts.
RunPreview(others, import, key, chosen) ==
  /\ previewRun < MaxRuns
  /\ previewRun' = previewRun + 1 /\ previewing' = TRUE
  /\ calls' = others \cup {[Call("preview", import) EXCEPT
                              !.run = previewRun + 1, !.key = key, !.picks = chosen]}

\* The rows the page shows as those to import.
Shown == (Line \ preview.skipped) \cup included

-----------------------------------------------------------------------------
(* The member.                                                             *)

UploadFile ==
  /\ ~left /\ ~uploading
  /\ uploading' = TRUE
  /\ calls' = calls \cup {Call("upload", NULL)}
  /\ UNCHANGED <<held, page, previewRun, previewing, confirming, left>>

Previewable == ~left /\ preview # NULL /\ upload # NULL

\* A label is kept in its row, which asks for the preview again unless the
\* edits are those it was built with.
KeepEdit(l) ==
  /\ Previewable /\ l \notin {labels, NoEdit}
  /\ labels' = l
  /\ IF l = appliedKey THEN UNCHANGED <<previewRun, previewing, calls>>
     ELSE RunPreview(calls, upload, l, picks)
  /\ UNCHANGED <<held, upload, heldImportId, preview, included, appliedKey, picks,
                 uploading, confirming, left>>

\* A row becomes a transfer or stops being one: it may move.
PickChoice(line, choice) ==
  /\ Previewable /\ choice # picks[line]
  /\ picks' = [picks EXCEPT ![line] = choice]
  /\ RunPreview(calls, upload, labels, picks')
  /\ UNCHANGED <<held, upload, heldImportId, preview, included, labels, appliedKey,
                 uploading, confirming, left>>

\* The labels could not be applied, and the member tries again.
Retry ==
  /\ Previewable /\ labels # appliedKey /\ ~previewing
  /\ RunPreview(calls, upload, labels, picks)
  /\ UNCHANGED <<held, page, uploading, confirming, left>>

ToggleIncluded(line) ==
  /\ ~left /\ preview # NULL /\ line \in preview.skipped
  /\ included' = IF line \in included THEN included \ {line} ELSE included \cup {line}
  /\ UNCHANGED <<held, upload, heldImportId, preview, labels, appliedKey, picks, flags, calls>>

Confirmable ==
  /\ Previewable
  /\ labels = appliedKey /\ ~previewing /\ ~confirming

Confirm ==
  /\ Confirmable
  /\ confirming' = TRUE
  /\ calls' = calls \cup {[Call("confirm", upload) EXCEPT
                !.picks = picks, !.included = included,
                !.revision = preview.revision, !.shown = Shown]}
  /\ UNCHANGED <<held, page, previewRun, previewing, uploading, left>>

\* The member cancels or goes to another page, or the import is confirmed.
Leave ==
  /\ ~left /\ left' = TRUE
  /\ calls' = calls \cup Release /\ heldImportId' = NULL
  /\ UNCHANGED <<held, upload, preview, included, labels, appliedKey, picks,
                 previewRun, previewing, uploading, confirming>>

-----------------------------------------------------------------------------
(* The server.                                                             *)

\* The rows that match an operation of the account are skipped.  Other pages
\* change those operations, so each request finds its own.
Skipped(matched, chosen) == {line \in Line : <<line, chosen[line]>> \in matched}

\* What a preview rests on, and where it puts the rows.
Revision(matched, chosen) == <<matched, Skipped(matched, chosen)>>

Answered(c, status) == [Call(c.to, c.import) EXCEPT !.run = c.run, !.status = status]

Answers(c, answer) == calls' = (calls \ {c}) \cup {answer}

\* The ids no one has seen: which of them is taken does not matter.
NewIds ==
  Import \ (server \cup outcomes \cup {upload, heldImportId} \cup {d.import : d \in calls})

ServeUpload(c) ==
  /\ NewIds # {}
  /\ LET i == CHOOSE i \in NewIds : TRUE
     IN  server' = server \cup {i} /\ Answers(c, [Answered(c, "ok") EXCEPT !.import = i])
  /\ UNCHANGED outcomes

ServePreview(c) ==
  /\ UNCHANGED held
  /\ \/ /\ c.import \in server
        /\ \E matched \in Matches :
             Answers(c, [Answered(c, "ok") EXCEPT
                            !.key = c.key, !.skipped = Skipped(matched, c.picks),
                            !.revision = Revision(matched, c.picks)])
     \/ c.import \notin server /\ Answers(c, Answered(c, "not_found"))

\* Confirmed before, gone, or of another revision: nothing is recorded.  The
\* suggestions and corrections behind a preview may have changed as well.
ServeConfirm(c) ==
  \/ /\ c.import \in server \ outcomes
     /\ \E matched \in Matches :
          LET skipped == Skipped(matched, c.picks)
          IN  /\ c.revision = Revision(matched, c.picks)
              /\ Answers(c, [Answered(c, "ok") EXCEPT !.shown = c.shown,
                               !.recorded = (Line \ skipped) \cup (c.included \cap skipped)])
     /\ server' = server \ {c.import} /\ outcomes' = outcomes \cup {c.import}
  \/ /\ UNCHANGED held
     /\ Answers(c, Answered(c, IF c.import \in outcomes THEN "ok"
                               ELSE IF c.import \in server THEN "stale" ELSE "not_found"))

ServeRelease(c) ==
  /\ server' = server \ {c.import} /\ calls' = calls \ {c}
  /\ UNCHANGED outcomes

Serve(c) ==
  /\ c.status = "sent"
  /\ \/ c.to = "upload" /\ ServeUpload(c)
     \/ c.to = "preview" /\ ServePreview(c)
     \/ c.to = "confirm" /\ ServeConfirm(c)
     \/ c.to = "release" /\ ServeRelease(c)
  /\ UNCHANGED <<page, flags>>

\* The network fails, or the server refuses: a request may have been served.
Fail(c) ==
  /\ c.status # "error"
  /\ IF c.to = "release" THEN calls' = calls \ {c}
     ELSE Answers(c, Answered(c, "error"))
  /\ UNCHANGED <<held, page, flags>>

\* What is held expires, or a newer upload of another page evicts it.
Expire(i) ==
  /\ i \in server \cup outcomes
  /\ server' = server \ {i} /\ outcomes' = outcomes \ {i}
  /\ UNCHANGED <<page, flags, calls>>

-----------------------------------------------------------------------------
(* The answers.                                                            *)

\* The import expired, or was replaced; the preview may be asked for again.
Failure(c) ==
  IF c.status = "not_found"
  THEN upload' = NULL /\ preview' = NULL /\ heldImportId' = NULL
  ELSE UNCHANGED <<upload, preview, heldImportId>>

Uploaded(c) ==
  /\ c.to = "upload" /\ c.status \notin {"sent", "error"}
  /\ uploading' = FALSE
  /\ upload' = c.import /\ heldImportId' = c.import /\ preview' = NULL
  /\ included' = {} /\ labels' = NoEdit /\ appliedKey' = NoEdit /\ picks' = NoPicks
  /\ RunPreview((calls \ {c}) \cup Release, c.import, NoEdit, NoPicks)
  /\ UNCHANGED <<held, confirming, left>>

UploadFailed(c) ==
  /\ c.to = "upload" /\ c.status = "error"
  /\ uploading' = FALSE /\ calls' = calls \ {c}
  /\ UNCHANGED <<held, page, previewRun, previewing, confirming, left>>

\* Mutant: any answer counts, in the order they come.
AnyAnswer(c) == c.run > 0

\* An answer that a newer request made old is dropped.
IsNewest(c) == c.run = previewRun

Previewed(c) ==
  /\ c.to = "preview" /\ c.status # "sent" /\ IsNewest(c)
  /\ previewing' = IF c.run = previewRun THEN FALSE ELSE previewing
  /\ calls' = calls \ {c}
  /\ \/ /\ c.status = "ok"
        /\ preview' = [import |-> c.import, key |-> c.key, skipped |-> c.skipped,
                       revision |-> c.revision]
        /\ appliedKey' = c.key
        /\ included' = included \cap c.skipped
        /\ UNCHANGED <<upload, heldImportId>>
     \/ /\ c.status # "ok" /\ Failure(c)
        /\ UNCHANGED <<appliedKey, included>>
  /\ UNCHANGED <<held, labels, picks, previewRun, uploading, confirming, left>>

DropOldPreview(c) ==
  /\ c.to = "preview" /\ c.status # "sent" /\ ~IsNewest(c)
  /\ calls' = calls \ {c}
  /\ UNCHANGED <<held, page, flags>>

\* Once it is confirmed the page is about to be left, and stays confirming.
Confirmed(c) ==
  /\ c.to = "confirm" /\ c.status # "sent"
  /\ \/ /\ c.status = "ok"
        /\ heldImportId' = NULL /\ calls' = calls \ {c}
        /\ UNCHANGED <<upload, preview, previewRun, previewing, confirming>>
     \/ /\ c.status = "stale" /\ upload # NULL
        /\ RunPreview(calls \ {c}, upload, labels, picks) /\ confirming' = FALSE
        /\ UNCHANGED <<upload, preview, heldImportId>>
     \/ /\ c.status \in {"not_found", "error"} \/ (c.status = "stale" /\ upload = NULL)
        /\ Failure(c) /\ calls' = calls \ {c} /\ confirming' = FALSE
        /\ UNCHANGED <<previewRun, previewing>>
  /\ UNCHANGED <<held, included, labels, appliedKey, picks, uploading, left>>

-----------------------------------------------------------------------------
Receive(c) == Uploaded(c) \/ UploadFailed(c) \/ Previewed(c) \/ DropOldPreview(c) \/ Confirmed(c)

Next ==
  \/ UploadFile \/ Retry \/ Confirm \/ Leave
  \/ \E l \in Labels : KeepEdit(l)
  \/ \E line \in Line, choice \in Choice : PickChoice(line, choice)
  \/ \E line \in Line : ToggleIncluded(line)
  \/ \E c \in calls : Serve(c) \/ Fail(c) \/ Receive(c)
  \/ \E i \in Import : Expire(i)

Spec == Init /\ [][Next]_vars

-----------------------------------------------------------------------------
(* Properties.                                                             *)

\* What the member may confirm is what the page shows: the preview is that of
\* the file uploaded last, built with the labels as they are edited, and the
\* rows to import anyway are rows it skips - whatever order the answers came in.
\* And what a confirmation records is what the page showed when it was sent, even
\* after a pick whose preview failed, or a change of the account's operations.
ConfirmsWhatIsShown ==
  /\ Confirmable =>
       /\ preview.import = upload /\ preview.key = labels
       /\ included \subseteq preview.skipped
  /\ \A c \in calls : c.recorded # NULL => c.recorded = c.shown
=============================================================================
