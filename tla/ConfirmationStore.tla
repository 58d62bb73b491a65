------------------------- MODULE ConfirmationStore -------------------------
(***************************************************************************)
(* The rows of the local journal and the three ways the store builds one:  *)
(* Services/ExampleConfirmationStore.cs and the ExampleConfirmationFlow    *)
(* record of Services/ExampleAuthSession.cs.                               *)
(*                                                                         *)
(* A date is kept as whether it is set.  The columns no operation ever     *)
(* changes after Start (TransactionId, WebHook, CreatedOn, RusAuth's own   *)
(* number) are left out, except the client's number, which the protocol    *)
(* compares with the number RusAuth was asked to confirm.                  *)
(***************************************************************************)

CONSTANTS Phones,   \* client numbers the form's validation accepts
          Null      \* C#'s null, and the empty string of a form field

Statuses == {"Unhandled", "Success", "Failed", "Expired"}

Flows == [ phone     : Phones,     \* ClientPhoneNumber
           status    : Statuses,   \* Status
           completed : BOOLEAN,    \* CompletedOn is set
           callback  : BOOLEAN,    \* CallbackReceivedOn is set
           checked   : BOOLEAN ]   \* LastManualCheckOn is set

ASSUME NullAssumption == Null \notin Phones \cup Statuses \cup Flows

---------------------------------------------------------------------------
\* Faults: bugs the properties of the protocol are meant to notice.

\* CompletedOn is left as it was, whatever the status.
ManualStatusUndated(existing, status) ==
    [existing EXCEPT !.status = status, !.checked = TRUE]

\* The webhook's date is forgotten.
CallbackUndated(existing) ==
    [existing EXCEPT !.status = "Success", !.completed = TRUE]

\* The webhook builds its row from the known columns, not from the row it found.
CallbackRebuilt(existing) ==
    [existing EXCEPT !.status = "Success", !.completed = TRUE, !.callback = TRUE,
                     !.checked = FALSE]

\* The webhook only dates the row; the status is left to a manual check.
CallbackWithoutStatus(existing) ==
    [existing EXCEPT !.completed = TRUE, !.callback = TRUE]

---------------------------------------------------------------------------
\* Start: the row of a transaction RusAuth has just issued.
NewFlow(phone) ==
    [ phone     |-> phone,
      status    |-> "Unhandled",
      completed |-> FALSE,
      callback  |-> FALSE,
      checked   |-> FALSE ]

\* MarkCallbackReceived: the row that replaces `existing` after a webhook.
CallbackReceived(existing) ==
    [existing EXCEPT !.status    = "Success",
                     !.completed = TRUE,
                     !.callback  = TRUE]

\* MarkManualStatus: the row that replaces `existing` after a status check.
ManualStatus(existing, status) ==
    [existing EXCEPT !.status    = status,
                     !.completed = IF status = "Unhandled" THEN @ ELSE TRUE,
                     !.checked   = TRUE]

=============================================================================
