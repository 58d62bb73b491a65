--------------------- MODULE ConfirmationProtocolProofs ---------------------
(***************************************************************************)
(* Safety of the confirmation protocol for every number of phones,         *)
(* transactions, circuits, calls and webhook requests.                     *)
(*                                                                         *)
(* IInv (ConfirmationInvariant) is inductive: one lemma per action shows   *)
(* that its step preserves it, with one step per conjunct it can disturb.  *)
(* The safety properties are its consequences, and the refinement of the   *)
(* journal is proved under it.                                             *)
(***************************************************************************)
EXTENDS ConfirmationInvariant, TLAPS

USE DEF rusauth, ui, history

---------------------------------------------------------------------------
\* What the three operations of the store do to a row.

\* No row is C#'s null, and neither is a phone, a transaction or a circuit.
LEMMA NullIsApart ==
    /\ Null \notin Flows
    /\ Null \notin Phones
    /\ Null \notin Statuses
    /\ Null \notin Transactions
    /\ Null \notin Circuits
  BY NullAssumption, SetsAssumption

\* Start builds a row of the journal that has nothing to explain.
LEMMA NewRow ==
    ASSUME NEW phone \in Phones
    PROVE  /\ NewFlow(phone) \in Flows
           /\ Explained(NewFlow(phone))
  BY DEF Flows, Statuses, NewFlow, Explained

\* A row that may stand in the journal may still stand there after a manual
\* check wrote an answer RusAuth could give; what was dated stays dated.
LEMMA ManualStatusRow ==
    ASSUME NEW t \in Transactions, NEW f \in Flows, NEW status \in Statuses,
           RowOK(t, f), status \in {"Success", "Expired"} => status = verdict[t]
    PROVE  /\ ManualStatus(f, status) \in Flows
           /\ RowOK(t, ManualStatus(f, status))
           /\ ManualStatus(f, status).checked
           /\ f.callback => ManualStatus(f, status).callback
           /\ f.completed => ManualStatus(f, status).completed
  BY DEF RowOK, Explained, Flows, Statuses, ManualStatus

\* Likewise after the webhook of a confirmed transaction, which dates it.
LEMMA CallbackRow ==
    ASSUME NEW t \in Transactions, NEW f \in Flows,
           RowOK(t, f), verdict[t] = "Success"
    PROVE  /\ CallbackReceived(f) \in Flows
           /\ RowOK(t, CallbackReceived(f))
           /\ CallbackReceived(f).status = "Success"
           /\ CallbackReceived(f).completed /\ CallbackReceived(f).callback
  BY DEF RowOK, Explained, Flows, Statuses, CallbackReceived

---------------------------------------------------------------------------
\* The initial states, and the steps of the user and of the browser.

\* Nothing has been issued, stored or called yet.
LEMMA InitIInv == Init => IInv
<1> SUFFICES ASSUME Init PROVE IInv
  OBVIOUS
<1>1. Typed
  BY DEF Init, Typed, CallRecord, HookRecord, CallPc, IdleCall, IdleHook
<1>2. TrackedIsStored /\ RowsOK
  BY DEF Init, TrackedIsStored, RowsOK
<1>3. CallsOK /\ StartsApart
  BY DEF Init, CallsOK, StartOK, CheckOK, StartsApart, IdleCall
<1>4. HooksOK /\ DeliveredOK
  BY DEF Init, HooksOK, DeliveredOK, Delivered, IdleHook
<1> QED
  BY <1>1, <1>2, <1>3, <1>4 DEF IInv

\* Opening or closing a tab and editing the form touch nothing IInv relates.
LEMMA PageStep ==
    ASSUME IInv, NEW c \in Circuits,
           \/ OpenCircuit(c) \/ CloseCircuit(c)
           \/ \E phone \in Phones \cup {Null} : EditPhone(c, phone)
    PROVE  IInv'
<1>1. Typed'
  BY DEF IInv, Typed, OpenCircuit, CloseCircuit, EditPhone
<1>2. TrackedIsStored' /\ RowsOK' /\ CallsOK'
  BY DEF IInv, OpenCircuit, CloseCircuit, EditPhone, TrackedIsStored, RowsOK,
     RowOK, CallsOK, StartOK, CheckOK
<1>3. StartsApart' /\ HooksOK' /\ DeliveredOK'
  BY DEF IInv, OpenCircuit, CloseCircuit, EditPhone, StartsApart, HooksOK,
     RowOK, DeliveredOK, Delivered
<1> QED
  BY <1>1, <1>2, <1>3 DEF IInv

---------------------------------------------------------------------------
\* Starting a confirmation.

\* A request carries the number of a valid form.
LEMMA SubmitStep ==
    ASSUME IInv, NEW k \in Calls, NEW c \in Circuits, Submit(k, c)
    PROVE  IInv'
<1>1. Typed'
  BY NullIsApart DEF IInv, Typed, CallRecord, CallPc, IdleCall, Submit
<1>2. TrackedIsStored' /\ RowsOK' /\ HooksOK'
  BY DEF IInv, TrackedIsStored, RowsOK, HooksOK, RowOK, Submit
<1>3. CallsOK'
  BY DEF IInv, Typed, RowOK, CallsOK, StartOK, CheckOK, Submit
<1>4. StartsApart'
  BY DEF IInv, StartsApart, Submit
<1>5. DeliveredOK'
  BY DEF IInv, DeliveredOK, Delivered, Submit
<1> QED
  BY <1>1, <1>2, <1>3, <1>4, <1>5 DEF IInv

\* A fresh transaction has no row and belongs to no other call.
LEMMA IssueTransactionStep ==
    ASSUME IInv, NEW k \in Calls, NEW t \in Transactions, IssueTransaction(k, t)
    PROVE  IInv'
<1>1. flows[t] = Null
  BY DEF IInv, RowsOK, RowOK, IssueTransaction
<1>2. [calls[k] EXCEPT !.pc = "startAnswered", !.txn = t] \in CallRecord
  BY DEF IInv, Typed, CallRecord, CallPc
<1>3. Typed'
  BY <1>2 DEF IInv, Typed, CallsOK, StartOK, IssueTransaction
<1>4. TrackedIsStored' /\ RowsOK'
  BY DEF IInv, TrackedIsStored, RowsOK, RowOK, IssueTransaction
<1>5. CallsOK'
  BY <1>1 DEF IInv, Typed, RowOK, CallsOK, StartOK, CheckOK, IssueTransaction
<1>6. StartsApart'
  BY DEF IInv, Typed, StartsApart, CallsOK, StartOK, IssueTransaction
<1>7. HooksOK'
  BY DEF IInv, HooksOK, RowOK, IssueTransaction
<1>8. DeliveredOK'
  BY DEF IInv, Typed, DeliveredOK, Delivered, IssueTransaction
<1> QED
  BY <1>1, <1>2, <1>3, <1>4, <1>5, <1>6, <1>7, <1>8 DEF IInv

\* The row of a fresh transaction is new: no webhook and no check know it.
LEMMA StoreStartStep ==
    ASSUME IInv, NEW k \in Calls, StoreStart(k)
    PROVE  IInv'
<1> DEFINE t == calls[k].txn
<1> DEFINE row == NewFlow(RequestedPhone(k))
<1>1. /\ t \in Transactions /\ verdict[t] # "unissued" /\ asked[t] = calls[k].phone
      /\ flows[t] = Null /\ row.phone = calls[k].phone
  BY DEF IInv, NewFlow, CallsOK, StartOK, StoreStart, RequestedPhone
<1>2. row \in Flows /\ row # Null /\ Explained(row) /\ row.status = "Unhandled"
  BY NewRow, NullIsApart DEF IInv, CallsOK, StartOK, StoreStart,
     RequestedPhone, NewFlow
<1> HIDE DEF row
<1>3. flows' = [flows EXCEPT ![t] = row] /\ UNCHANGED <<verdict, asked, session, hooks, history>>
  BY DEF row, StoreStart
<1>4. Typed'
  BY <1>1, <1>2, <1>3 DEF IInv, Typed, CallRecord, CallPc, StoreStart
<1>5. TrackedIsStored'
  BY <1>2, <1>3 DEF IInv, TrackedIsStored
<1>6. RowsOK'
  BY <1>1, <1>2, <1>3 DEF IInv, RowsOK, RowOK
<1>7. CallsOK'
  BY <1>2, <1>3 DEF IInv, Typed, RowOK, StartsApart, CallsOK, StartOK,
     CheckOK, StoreStart
<1>8. StartsApart'
  BY DEF IInv, StartsApart, StoreStart
<1>9. HooksOK'
  BY <1>2, <1>3 DEF IInv, HooksOK, RowOK
<1>10. DeliveredOK'
  BY <1>1 DEF IInv, DeliveredOK, Delivered, StoreStart
<1> QED
  BY <1>1, <1>2, <1>3, <1>4, <1>5, <1>6, <1>7, <1>8, <1>9, <1>10 DEF IInv

\* The session takes over a transaction whose row is in the store.
LEMMA TrackTransactionStep ==
    ASSUME IInv, NEW k \in Calls, TrackTransaction(k)
    PROVE  IInv'
<1>1. Typed'
  BY DEF IInv, Typed, CallRecord, CallPc, IdleCall, CallsOK, TrackTransaction
<1>2. TrackedIsStored'
  BY DEF IInv, TrackedIsStored, CallsOK, StartOK, TrackTransaction
<1>3. RowsOK' /\ HooksOK'
  BY DEF IInv, RowsOK, HooksOK, RowOK, TrackTransaction
<1>4. CallsOK'
  BY DEF IInv, IdleCall, RowOK, CallsOK, StartOK, CheckOK, TrackTransaction
<1>5. StartsApart' /\ DeliveredOK'
  BY DEF IInv, StartsApart, DeliveredOK, Delivered, IdleCall, TrackTransaction
<1> QED
  BY <1>1, <1>2, <1>3, <1>4, <1>5 DEF IInv

---------------------------------------------------------------------------
\* Checking a confirmation by hand.

\* The transaction of a check is the session's, so its row is in the store.
LEMMA CheckStatusStep ==
    ASSUME IInv, NEW k \in Calls, NEW c \in Circuits, CheckStatus(k, c)
    PROVE  IInv'
<1>1. Typed'
  BY DEF IInv, Typed, CallRecord, CallPc, IdleCall, CheckStatus
<1>2. TrackedIsStored' /\ RowsOK' /\ HooksOK'
  BY DEF IInv, TrackedIsStored, RowsOK, HooksOK, RowOK, CheckStatus
<1>3. CallsOK'
  BY DEF IInv, Typed, TrackedIsStored, RowOK, CallsOK, StartOK, CheckOK,
     CheckStatus
<1>4. StartsApart'
  BY DEF IInv, StartsApart, CheckStatus
<1>5. DeliveredOK'
  BY DEF IInv, DeliveredOK, Delivered, CheckStatus
<1> QED
  BY <1>1, <1>2, <1>3, <1>4, <1>5 DEF IInv

\* The answer is RusAuth's verdict, or that nothing was found.
LEMMA AnswerCheckStep ==
    ASSUME IInv, NEW k \in Calls, AnswerCheck(k)
    PROVE  IInv'
<1> DEFINE answer == IF calls[k].phone = asked[calls[k].txn]
                     THEN verdict[calls[k].txn] ELSE "Failed"
<1>1. calls[k].txn \in Transactions /\ answer \in Statuses
  BY DEF IInv, Typed, RowsOK, RowOK, Statuses, Decided, CallsOK, CheckOK,
     AnswerCheck
<1> HIDE DEF answer
<1>2. [calls[k] EXCEPT !.pc = "checkAnswered", !.reply = answer] \in CallRecord
  BY <1>1 DEF IInv, Typed, CallRecord, CallPc
<1>3. Typed'
  BY <1>2 DEF IInv, Typed, answer, AnswerCheck
<1>4. TrackedIsStored' /\ RowsOK' /\ HooksOK'
  BY DEF IInv, TrackedIsStored, RowsOK, HooksOK, RowOK, AnswerCheck
<1>5. CallsOK'
  BY <1>1 DEF IInv, Typed, RowOK, CallsOK, StartOK, CheckOK, answer,
     AnswerCheck
<1>6. StartsApart' /\ DeliveredOK'
  BY DEF IInv, Typed, StartsApart, DeliveredOK, Delivered, AnswerCheck
<1> QED
  BY <1>1, <1>2, <1>3, <1>4, <1>5, <1>6 DEF IInv

\* The copy the check takes is the row of the journal.
LEMMA ReadForManualStatusStep ==
    ASSUME IInv, NEW k \in Calls, ReadForManualStatus(k)
    PROVE  IInv'
<1>1. /\ calls[k].txn \in Transactions
      /\ flows[calls[k].txn] \in Flows
      /\ RowOK(calls[k].txn, flows[calls[k].txn])
  BY DEF IInv, Typed, RowsOK, CallsOK, CheckOK, ReadForManualStatus
<1>2. [calls[k] EXCEPT !.pc = "marking", !.existing = flows[calls[k].txn]] \in CallRecord
  BY <1>1 DEF IInv, Typed, CallRecord, CallPc
<1>3. Typed'
  BY <1>2 DEF IInv, Typed, CheckTarget, ReadForManualStatus
<1>4. TrackedIsStored' /\ RowsOK' /\ HooksOK'
  BY DEF IInv, TrackedIsStored, RowsOK, HooksOK, RowOK, ReadForManualStatus
<1>5. CallsOK'
  BY <1>1 DEF IInv, Typed, RowOK, CallsOK, StartOK, CheckOK, CheckTarget,
     ReadForManualStatus
<1>6. StartsApart'
  BY DEF IInv, Typed, StartsApart, ReadForManualStatus
<1>7. DeliveredOK'
  BY DEF IInv, Typed, DeliveredOK, Delivered, CheckTarget, ReadForManualStatus
<1> QED
  BY <1>1, <1>2, <1>3, <1>4, <1>5, <1>6, <1>7 DEF IInv

\* Writing the copy back leaves a row that may stand, and keeps a webhook the
\* copy knows about.
LEMMA WriteManualStatusStep ==
    ASSUME IInv, NEW k \in Calls, WriteManualStatus(k)
    PROVE  IInv'
<1> DEFINE t == calls[k].txn
<1> DEFINE row == ManualStatus(calls[k].existing, calls[k].reply)
<1>1. /\ t \in Transactions /\ flows[t] # Null
      /\ calls[k].existing \in Flows /\ calls[k].reply \in Statuses
      /\ RowOK(t, calls[k].existing)
      /\ calls[k].reply \in {"Success", "Expired"} => calls[k].reply = verdict[t]
  BY DEF IInv, CallsOK, CheckOK, WriteManualStatus
<1>2. /\ row \in Flows /\ row # Null /\ RowOK(t, row) /\ row.checked
      /\ calls[k].existing.callback => row.callback
      /\ calls[k].existing.completed => row.completed
  BY <1>1, ManualStatusRow, NullIsApart
<1>3. /\ flows' = [flows EXCEPT ![t] = row]
      /\ calls' = [calls EXCEPT ![k] = IdleCall]
      /\ UNCHANGED <<rusauth, ui, hooks, history>>
  BY <1>1, NullIsApart DEF WriteManualStatus, CheckTarget
<1> HIDE DEF row
<1>4. Typed'
  BY <1>2, <1>3 DEF IInv, Typed, CallRecord, CallPc, IdleCall
<1>5. TrackedIsStored' /\ RowsOK'
  BY <1>2, <1>3 DEF IInv, TrackedIsStored, RowsOK, RowOK
<1>6. CallsOK'
  BY <1>1, <1>2, <1>3 DEF IInv, IdleCall, RowOK, CallsOK, StartOK, CheckOK
<1>7. StartsApart'
  BY <1>3 DEF IInv, StartsApart, IdleCall
<1>8. HooksOK'
  BY <1>2, <1>3 DEF IInv, HooksOK, RowOK
<1>9. DeliveredOK'
  BY <1>2, <1>3 DEF IInv, DeliveredOK, Delivered, IdleCall, WriteManualStatus
<1> QED
  BY <1>1, <1>2, <1>3, <1>4, <1>5, <1>6, <1>7, <1>8, <1>9 DEF IInv

\* A call that fails leaves everything but itself as it was.
LEMMA CallFailsStep ==
    ASSUME IInv, NEW k \in Calls, CallFails(k)
    PROVE  IInv'
<1>1. Typed'
  BY DEF IInv, Typed, CallRecord, CallPc, IdleCall, CallFails
<1>2. TrackedIsStored' /\ RowsOK' /\ HooksOK'
  BY DEF IInv, TrackedIsStored, RowsOK, HooksOK, RowOK, CallFails
<1>3. CallsOK'
  BY DEF IInv, IdleCall, RowOK, CallsOK, StartOK, CheckOK, CallFails
<1>4. StartsApart' /\ DeliveredOK'
  BY DEF IInv, StartsApart, DeliveredOK, Delivered, IdleCall, CallFails
<1> QED
  BY <1>1, <1>2, <1>3, <1>4 DEF IInv

---------------------------------------------------------------------------
\* RusAuth decides and delivers, and the process restarts.

\* A pending transaction has no outcome in the journal that could be disproved.
LEMMA DecideStep ==
    ASSUME IInv, NEW t \in Transactions, NEW decision \in Decided, Decide(t, decision)
    PROVE  IInv'
<1>1. Typed'
  BY DEF IInv, Typed, Decide
<1>2. \A u \in Transactions, f \in Flows : RowOK(u, f) => RowOK(u, f)'
  BY DEF IInv, RowOK, Decided, Decide
<1>3. TrackedIsStored' /\ RowsOK'
  BY DEF IInv, TrackedIsStored, RowsOK, RowOK, Decided, Decide
<1>4. CallsOK'
  BY <1>2 DEF IInv, CallsOK, StartOK, CheckOK, Decided, Decide
<1>5. StartsApart' /\ DeliveredOK'
  BY DEF IInv, StartsApart, DeliveredOK, Delivered, Decide
<1>6. HooksOK'
  BY <1>2 DEF IInv, HooksOK, Decide
<1> QED
  BY <1>1, <1>2, <1>3, <1>4, <1>5, <1>6 DEF IInv

\* The copy a webhook request takes is the row of the journal.
LEMMA CallbackLookupStep ==
    ASSUME IInv, NEW h \in Hooks, NEW t \in Transactions, CallbackLookup(h, t)
    PROVE  IInv'
<1>1. flows[t] # Null => flows[t] \in Flows /\ RowOK(t, flows[t])
  BY DEF IInv, Typed, RowsOK
<1>2. Typed'
  BY DEF IInv, Typed, HookRecord, CallbackLookup
<1>3. TrackedIsStored' /\ RowsOK' /\ CallsOK' /\ StartsApart'
  BY DEF IInv, TrackedIsStored, RowsOK, RowOK, StartsApart, CallsOK, StartOK,
     CheckOK, CallbackLookup
<1>4. HooksOK'
  BY <1>1 DEF IInv, Typed, HooksOK, RowOK, CallbackLookup
<1>5. DeliveredOK'
  BY DEF IInv, Typed, DeliveredOK, Delivered, CallbackLookup
<1> QED
  BY <1>1, <1>2, <1>3, <1>4, <1>5 DEF IInv

\* The webhook makes the row a dated Success; a check that holds a copy of it
\* puts the transaction among the raced ones.
LEMMA CallbackWriteStep ==
    ASSUME IInv, NEW h \in Hooks, CallbackWrite(h)
    PROVE  IInv'
<1> DEFINE t == hooks[h].txn
<1> DEFINE row == CallbackReceived(hooks[h].existing)
<1>1. /\ t \in Transactions /\ flows[t] # Null /\ verdict[t] = "Success"
      /\ hooks[h].existing \in Flows /\ RowOK(t, hooks[h].existing)
  BY DEF IInv, HooksOK, CallbackWrite
<1>2. /\ row \in Flows /\ row # Null /\ RowOK(t, row)
      /\ row.status = "Success" /\ row.completed /\ row.callback
  BY <1>1, CallbackRow, NullIsApart
<1>3. /\ flows' = [flows EXCEPT ![t] = row]
      /\ UNCHANGED <<rusauth, ui, calls, acked, refused>>
  BY DEF CallbackWrite
<1> HIDE DEF row
<1>4. [hooks[h] EXCEPT !.pc = "publishing", !.existing = Null] \in HookRecord
  BY DEF IInv, Typed, HookRecord
<1>5. Typed'
  BY <1>1, <1>2, <1>3, <1>4 DEF IInv, Typed, CallbackWrite
<1>6. TrackedIsStored' /\ RowsOK'
  BY <1>2, <1>3 DEF IInv, TrackedIsStored, RowsOK, RowOK
<1>7. CallsOK' /\ StartsApart'
  BY <1>1, <1>2, <1>3 DEF IInv, StartsApart, RowOK, CallsOK, StartOK, CheckOK
<1>8. HooksOK'
  BY <1>2, <1>3 DEF IInv, Typed, HooksOK, RowOK, CallbackWrite
<1>9. DeliveredOK'
  BY <1>2, <1>3 DEF IInv, Typed, DeliveredOK, Delivered, CheckMarking,
     CallbackWrite
<1> QED
  BY <1>1, <1>2, <1>3, <1>4, <1>5, <1>6, <1>7, <1>8, <1>9 DEF IInv

\* Answering a webhook does not change what has been delivered.
LEMMA CallbackAnswerStep ==
    ASSUME IInv, NEW h \in Hooks, CallbackAnswer(h)
    PROVE  IInv'
<1>1. Typed'
  BY DEF IInv, Typed, HookRecord, HooksOK, IdleHook, CallbackAnswer
<1>2. TrackedIsStored' /\ RowsOK' /\ CallsOK' /\ StartsApart'
  BY DEF IInv, TrackedIsStored, RowsOK, RowOK, StartsApart, CallsOK, StartOK,
     CheckOK, CallbackAnswer
<1>3. HooksOK'
  BY DEF IInv, HooksOK, RowOK, IdleHook, CallbackAnswer
<1>4. DeliveredOK'
  BY DEF IInv, DeliveredOK, Delivered, IdleHook, CallbackAnswer
<1> QED
  BY <1>1, <1>2, <1>3, <1>4 DEF IInv

\* A request that fails leaves the row as it wrote it.
LEMMA CallbackFailsStep ==
    ASSUME IInv, NEW h \in Hooks, CallbackFails(h)
    PROVE  IInv'
<1>1. Typed'
  BY DEF IInv, Typed, HookRecord, HooksOK, IdleHook, CallbackFails
<1>2. TrackedIsStored' /\ RowsOK' /\ CallsOK' /\ StartsApart'
  BY DEF IInv, TrackedIsStored, RowsOK, RowOK, StartsApart, CallsOK, StartOK,
     CheckOK, CallbackFails
<1>3. HooksOK'
  BY DEF IInv, HooksOK, RowOK, IdleHook, CallbackFails
<1>4. DeliveredOK'
  BY DEF IInv, DeliveredOK, Delivered, IdleHook, CallbackFails
<1> QED
  BY <1>1, <1>2, <1>3, <1>4 DEF IInv

\* A restart empties the journal and everything that refers to it together.
LEMMA RestartStep ==
    ASSUME IInv, Restart
    PROVE  IInv'
<1>1. Typed'
  BY DEF IInv, Typed, CallRecord, HookRecord, CallPc, IdleCall, IdleHook,
     Restart
<1>2. TrackedIsStored' /\ RowsOK'
  BY DEF TrackedIsStored, RowsOK, Restart
<1>3. CallsOK' /\ StartsApart'
  BY DEF CallsOK, StartOK, CheckOK, StartsApart, IdleCall, Restart
<1>4. HooksOK' /\ DeliveredOK'
  BY DEF HooksOK, DeliveredOK, Delivered, IdleHook, Restart
<1> QED
  BY <1>1, <1>2, <1>3, <1>4 DEF IInv

---------------------------------------------------------------------------
\* Induction.

\* A step that changes nothing preserves IInv.
LEMMA StutterIInv ==
    ASSUME IInv, UNCHANGED vars
    PROVE  IInv'
  BY DEF IInv, vars, Typed, TrackedIsStored, RowsOK, RowOK, CallsOK, StartOK,
     CheckOK, StartsApart, HooksOK, DeliveredOK, Delivered

\* Every step preserves IInv, whatever runs in between.
LEMMA NextIInv == IInv /\ [Next]_vars => IInv'
<1> SUFFICES ASSUME IInv, [Next]_vars PROVE IInv'
  OBVIOUS
<1>1. ASSUME NEW c \in Circuits,
             \/ OpenCircuit(c) \/ CloseCircuit(c)
             \/ \E phone \in Phones \cup {Null} : EditPhone(c, phone)
      PROVE  IInv'
  BY <1>1, PageStep
<1>2. ASSUME NEW c \in Circuits, NEW k \in Calls, Submit(k, c) \/ CheckStatus(k, c)
      PROVE  IInv'
  BY <1>2, SubmitStep, CheckStatusStep
<1>3. ASSUME NEW k \in Calls, NEW t \in Transactions, IssueTransaction(k, t)
      PROVE  IInv'
  BY <1>3, IssueTransactionStep
<1>4. ASSUME NEW k \in Calls, AnswerCheck(k) \/ CallProceeds(k)
      PROVE  IInv'
  BY <1>4, AnswerCheckStep, StoreStartStep, TrackTransactionStep,
     ReadForManualStatusStep, WriteManualStatusStep, CallFailsStep DEF
     CallProceeds
<1>5. ASSUME NEW t \in Transactions, NEW decision \in Decided, Decide(t, decision)
      PROVE  IInv'
  BY <1>5, DecideStep
<1>6. ASSUME NEW t \in Transactions, NEW h \in Hooks, CallbackLookup(h, t)
      PROVE  IInv'
  BY <1>6, CallbackLookupStep
<1>7. ASSUME NEW h \in Hooks, HookProceeds(h)
      PROVE  IInv'
  BY <1>7, CallbackWriteStep, CallbackAnswerStep, CallbackFailsStep DEF
     HookProceeds
<1>8. CASE Restart
  BY <1>8, RestartStep
<1>9. CASE UNCHANGED vars
  BY <1>9, StutterIInv
<1> QED
  BY <1>1, <1>2, <1>3, <1>4, <1>5, <1>6, <1>7, <1>8, <1>9 DEF Next

\* IInv holds in every reachable state: the protocol never carries a value
\* across an await that would break the journal when it is written.
THEOREM Invariance == Spec => []IInv
  BY InitIInv, NextIInv, PTL DEF Spec

---------------------------------------------------------------------------
\* What IInv means for the journal.

\* Every variable keeps its type, and no call and no request reaches a step with
\* a missing circuit, number, transaction, answer or row, however the awaits
\* interleave.
THEOREM TypeCorrect == Spec => []TypeOK
<1>1. IInv => Complete
  <2> SUFFICES ASSUME IInv PROVE Complete
    OBVIOUS
  <2>1. ASSUME NEW k \in Calls
        PROVE  /\ calls[k].pc # "idle" => calls[k].circuit # Null
               /\ calls[k].pc \in {"startSent", "startAnswered", "tracking"}
                     => calls[k].phone # Null
               /\ calls[k].pc \notin {"idle", "startSent"} => calls[k].txn # Null
               /\ calls[k].pc \in {"checkAnswered", "marking"}
                     => calls[k].reply # Null
               /\ calls[k].pc = "marking" => calls[k].existing # Null
    <3>1. calls[k].pc \in CallPc
      BY DEF IInv, Typed, CallRecord
    <3> QED
      BY <3>1, NullIsApart DEF IInv, CallPc, CallsOK, StartOK, CheckOK
  <2>2. ASSUME NEW h \in Hooks, hooks[h].pc # "idle"
        PROVE  /\ hooks[h].txn # Null
               /\ hooks[h].pc = "marking" => hooks[h].existing # Null
    BY <2>2, NullIsApart DEF IInv, HooksOK
  <2>3. \A h \in Hooks :
           /\ hooks[h].pc # "idle" => hooks[h].txn # Null
           /\ hooks[h].pc = "marking" => hooks[h].existing # Null
    BY <2>2
  <2> QED
    BY <2>1, <2>3 DEF Complete
<1>2. IInv => TypeOK
  BY <1>1 DEF IInv, TypeOK
<1> QED
  BY <1>2, Invariance, PTL

\* The transaction a session tracks is always in the store, restarts included.
THEOREM TrackedStaysStored == Spec => []TrackedIsStored
<1>1. IInv => TrackedIsStored
  BY DEF IInv
<1> QED
  BY <1>1, Invariance, PTL

\* The journal shows only outcomes RusAuth decided, for whatever number of
\* tabs, calls and redelivered webhooks.
THEOREM OutcomesAreGenuine == Spec => []OutcomeIsGenuine
<1>1. IInv => OutcomeIsGenuine
  BY DEF IInv, RowsOK, RowOK, OutcomeIsGenuine
<1> QED
  BY <1>1, Invariance, PTL

\* The number of a row is the number RusAuth was asked to confirm.
THEOREM PhonesAreTheConfirmedOnes == Spec => []PhoneIsTheConfirmedOne
<1>1. IInv => PhoneIsTheConfirmedOne
  BY DEF IInv, RowsOK, RowOK, PhoneIsTheConfirmedOne
<1> QED
  BY <1>1, Invariance, PTL

\* The dates of a row account for its status, whatever rows overwrote it.
THEOREM OutcomesAreExplained == Spec => []OutcomeExplained
<1>1. IInv => OutcomeExplained
  BY DEF IInv, RowsOK, RowOK, OutcomeExplained
<1> QED
  BY <1>1, Invariance, PTL

\* Only a manual check takes an acknowledged confirmation back.
THEOREM AckedStaysSuccess == Spec => []AckedSuccessUntilChecked
<1>1. IInv => AckedSuccessUntilChecked
  BY DEF IInv, Typed, DeliveredOK, Delivered, AckedSuccessUntilChecked
<1> QED
  BY <1>1, Invariance, PTL

\* The date of an acknowledged webhook is lost only to a check that held a copy
\* of the row when the webhook was written.
THEOREM CallbackStaysUnlessRaced == Spec => []CallbackKeptUnlessRaced
<1>1. IInv => CallbackKeptUnlessRaced
  BY DEF IInv, Typed, DeliveredOK, Delivered, CallbackKeptUnlessRaced
<1> QED
  BY <1>1, Invariance, PTL

\* A check writes its own date, and so does not take it away; a webhook takes it
\* away only by writing back a copy that is older than the check.
LEMMA StepKeepsChecks ==
    ASSUME IInv, [Next]_vars, NEW t \in Transactions,
           flows[t] # Null, flows[t].checked, flows'[t] # Null, ~flows'[t].checked
    PROVE  \E h \in Hooks :
              /\ hooks[h].pc = "marking" /\ hooks'[h].pc = "publishing"
              /\ hooks[h].txn = t /\ ~hooks[h].existing.checked
<1>1. flows'[t] # flows[t]
  OBVIOUS
<1>2. ASSUME NEW k \in Calls, StoreStart(k) PROVE FALSE
  <2>1. flows[calls[k].txn] = Null
    BY <1>2 DEF IInv, CallsOK, StartOK, StoreStart
  <2> QED
    BY <1>1, <1>2, <2>1 DEF IInv, Typed, StoreStart
<1>3. ASSUME NEW k \in Calls, WriteManualStatus(k) PROVE FALSE
  <2>1. /\ calls[k].existing \in Flows /\ calls[k].reply \in Statuses
        /\ RowOK(calls[k].txn, calls[k].existing) /\ calls[k].txn \in Transactions
        /\ calls[k].reply \in {"Success", "Expired"}
              => calls[k].reply = verdict[calls[k].txn]
    BY <1>3 DEF IInv, CallsOK, CheckOK, WriteManualStatus
  <2>2. ManualStatus(calls[k].existing, calls[k].reply).checked
    BY <2>1, ManualStatusRow
  <2> QED
    BY <1>1, <1>3, <2>1, <2>2 DEF IInv, Typed, WriteManualStatus, CheckTarget
<1>4. ASSUME NEW h \in Hooks, CallbackWrite(h)
      PROVE  /\ hooks[h].pc = "marking" /\ hooks'[h].pc = "publishing"
             /\ hooks[h].txn = t /\ ~hooks[h].existing.checked
  <2>1. /\ hooks[h].txn \in Transactions /\ hooks[h].existing \in Flows
    BY <1>4 DEF IInv, HooksOK, CallbackWrite
  <2>2. CallbackReceived(hooks[h].existing).checked = hooks[h].existing.checked
    BY <2>1 DEF CallbackReceived, Flows
  <2>3. flows' = [flows EXCEPT ![hooks[h].txn] = CallbackReceived(hooks[h].existing)]
    BY <1>4 DEF CallbackWrite
  <2>4. hooks[h].pc = "marking" /\ hooks'[h].pc = "publishing"
    BY <1>4 DEF IInv, Typed, HookRecord, CallbackWrite
  <2> QED
    BY <1>1, <2>1, <2>2, <2>3, <2>4 DEF IInv, Typed
<1>5. ~Restart
  BY DEF Restart
<1>6. \/ \E k \in Calls : StoreStart(k) \/ WriteManualStatus(k)
      \/ \E h \in Hooks : CallbackWrite(h)
  BY <1>1, <1>5 DEF Next, CallProceeds, HookProceeds, vars, OpenCircuit,
     CloseCircuit, EditPhone, Submit, CheckStatus, IssueTransaction, AnswerCheck,
     TrackTransaction, ReadForManualStatus, CallFails, Decide, CallbackLookup,
     CallbackAnswer, CallbackFails
<1> QED
  BY <1>2, <1>3, <1>4, <1>6

\* The date of a manual check is lost only to a webhook that held an older copy
\* of the row.
THEOREM ChecksStayUnlessRaced == Spec => CheckKeptUnlessRaced
<1>1. IInv /\ [Next]_vars =>
         [\A t \in Transactions :
             /\ flows[t] # Null /\ flows[t].checked
             /\ flows'[t] # Null /\ ~flows'[t].checked
             => \E h \in Hooks :
                   /\ hooks[h].pc = "marking" /\ hooks'[h].pc = "publishing"
                   /\ hooks[h].txn = t /\ ~hooks[h].existing.checked]_vars
  BY StepKeepsChecks
<1> QED
  BY <1>1, Invariance, PTL DEF Spec, CheckKeptUnlessRaced

\* A row is written only for a start that was answered, or over a row that is
\* there.
LEMMA StepLeavesLost ==
    ASSUME IInv, [Next]_vars, NEW t \in Transactions, Lost(t)
    PROVE  Lost(t)'
<1>1. verdict[t] # "unissued" /\ flows[t] = Null
  BY DEF Lost
<1>2. verdict'[t] # "unissued"
  <2>1. ASSUME NEW k \in Calls, NEW u \in Transactions, IssueTransaction(k, u)
        PROVE  verdict'[t] # "unissued"
    BY <1>1, <2>1 DEF IssueTransaction, IInv, Typed
  <2>2. ASSUME NEW u \in Transactions, NEW decision \in Decided, Decide(u, decision)
        PROVE  verdict'[t] # "unissued"
    BY <1>1, <2>2 DEF Decide, Decided, IInv, Typed
  <2>3. CASE UNCHANGED verdict
    BY <1>1, <2>3
  <2> QED
    BY <2>1, <2>2, <2>3 DEF Next, CallProceeds, HookProceeds, vars, OpenCircuit,
       CloseCircuit, EditPhone, Submit, CheckStatus, AnswerCheck, StoreStart,
       TrackTransaction, ReadForManualStatus, WriteManualStatus, CallFails,
       CallbackLookup, CallbackWrite, CallbackAnswer, CallbackFails, Restart
<1>3. flows'[t] = Null
  <2>1. ASSUME NEW k \in Calls, StoreStart(k) PROVE flows'[t] = Null
    BY <1>1, <2>1 DEF Lost, ReplyOnItsWay, StoreStart, IInv, Typed
  <2>2. ASSUME NEW k \in Calls, WriteManualStatus(k) PROVE flows'[t] = Null
    BY <1>1, <2>2 DEF WriteManualStatus, CheckTarget, IInv, Typed, CallsOK, CheckOK
  <2>3. ASSUME NEW h \in Hooks, CallbackWrite(h) PROVE flows'[t] = Null
    BY <1>1, <2>3 DEF CallbackWrite, IInv, Typed, HooksOK
  <2>4. Restart => flows'[t] = Null
    BY DEF Restart
  <2>5. CASE UNCHANGED flows
    BY <1>1, <2>5
  <2> QED
    BY <2>1, <2>2, <2>3, <2>4, <2>5 DEF Next, CallProceeds, HookProceeds, vars,
       OpenCircuit, CloseCircuit, EditPhone, Submit, CheckStatus,
       IssueTransaction, AnswerCheck, TrackTransaction, ReadForManualStatus,
       CallFails, Decide, CallbackLookup, CallbackAnswer, CallbackFails
<1>4. ASSUME NEW k \in Calls PROVE ~(calls'[k].pc = "startAnswered" /\ calls'[k].txn = t)
  <2>1. ~(calls[k].pc = "startAnswered" /\ calls[k].txn = t)
    BY DEF Lost, ReplyOnItsWay
  <2>2. ASSUME NEW l \in Calls, NEW u \in Transactions, IssueTransaction(l, u)
        PROVE  ~(calls'[k].pc = "startAnswered" /\ calls'[k].txn = t)
    <3>1. u # t
      BY <1>1, <2>2 DEF IssueTransaction
    <3> QED
      BY <2>1, <2>2, <3>1 DEF IssueTransaction, IInv, Typed, CallRecord
  <2>3. ASSUME NEW l \in Calls, NEW c \in Circuits, Submit(l, c) \/ CheckStatus(l, c)
        PROVE  calls'[k] = calls[k] \/ calls'[k].pc \in {"startSent", "checkSent"}
    BY <2>3 DEF Submit, CheckStatus, IInv, Typed, IdleCall
  <2>4. ASSUME NEW l \in Calls, AnswerCheck(l) \/ CallProceeds(l)
        PROVE  calls'[k] = calls[k] \/ calls'[k].pc # "startAnswered"
    <3>1. CASE AnswerCheck(l)
      BY <3>1 DEF AnswerCheck, IInv, Typed, CallRecord
    <3>2. CASE StoreStart(l)
      BY <3>2 DEF StoreStart, IInv, Typed, CallRecord
    <3>3. CASE ReadForManualStatus(l)
      BY <3>3 DEF ReadForManualStatus, IInv, Typed, CallRecord
    <3>4. CASE TrackTransaction(l) \/ WriteManualStatus(l) \/ CallFails(l)
      BY <3>4 DEF TrackTransaction, WriteManualStatus, CallFails, IInv, Typed,
         IdleCall
    <3> QED
      BY <2>4, <3>1, <3>2, <3>3, <3>4 DEF CallProceeds
  <2>5. Restart => calls'[k].pc # "startAnswered"
    BY DEF Restart, IdleCall
  <2>6. CASE UNCHANGED calls
    BY <2>1, <2>6
  <2> QED
    BY <2>1, <2>2, <2>3, <2>4, <2>5, <2>6 DEF Next, HookProceeds, vars,
       OpenCircuit, CloseCircuit, EditPhone, Decide, CallbackLookup,
       CallbackWrite, CallbackAnswer, CallbackFails
<1> QED
  BY <1>2, <1>3, <1>4 DEF Lost, ReplyOnItsWay

\* However many calls, webhooks and restarts there are, a transaction that was
\* issued and is not in the journal never comes back to it.
THEOREM LostTransactionsStayLost == Spec => LostStaysLost
<1>1. IInv /\ [Next]_vars => [\A t \in Transactions : Lost(t) => Lost(t)']_vars
  BY StepLeavesLost
<1> QED
  BY <1>1, Invariance, PTL DEF Spec, LostStaysLost

---------------------------------------------------------------------------
\* The store implements the abstract journal.

\* Writing the row of t changes what the journal shows of t, and nothing else.
LEMMA ViewOfWrite ==
    ASSUME Typed, NEW t \in Transactions, NEW row \in Flows,
           flows' = [flows EXCEPT ![t] = row]
    PROVE  JournalView' = [JournalView EXCEPT ![t] = row.status]
  BY NullIsApart DEF Typed, JournalView

\* A reader finds an empty journal at first.
LEMMA InitJournal == Init => Journal!Init
  BY DEF Init, JournalView, Journal!Init

\* A step of the protocol issues, decides, enters, reports or forgets, or it
\* changes nothing a reader of the journal could see.
LEMMA StepJournal ==
    ASSUME IInv, [Next]_vars
    PROVE  Journal!Next \/ UNCHANGED Journal!jvars
<1>1. CASE UNCHANGED <<verdict, flows>>
  BY <1>1 DEF JournalView, Journal!jvars
<1>2. ASSUME NEW k \in Calls, NEW t \in Transactions, IssueTransaction(k, t)
      PROVE  Journal!Issue(t)
  BY <1>2 DEF IssueTransaction, JournalView, Journal!Issue
<1>3. ASSUME NEW k \in Calls, StoreStart(k)
      PROVE  calls[k].txn \in Transactions /\ Journal!Enter(calls[k].txn)
  <2> DEFINE t == calls[k].txn
  <2> DEFINE row == NewFlow(RequestedPhone(k))
  <2>1. t \in Transactions /\ verdict[t] # "unissued" /\ flows[t] = Null
    BY <1>3 DEF IInv, CallsOK, StartOK, StoreStart
  <2>2. row \in Flows /\ row.status = "Unhandled"
    BY <1>3, NewRow DEF IInv, CallsOK, StartOK, StoreStart, RequestedPhone,
       NewFlow
  <2>3. flows' = [flows EXCEPT ![t] = row] /\ UNCHANGED verdict
    BY <1>3 DEF StoreStart
  <2>4. JournalView' = [JournalView EXCEPT ![t] = "Unhandled"]
    BY <2>1, <2>2, <2>3, ViewOfWrite DEF IInv
  <2> QED
    BY <2>1, <2>3, <2>4 DEF JournalView, Journal!Enter
<1>4. ASSUME NEW k \in Calls, WriteManualStatus(k)
      PROVE  /\ calls[k].txn \in Transactions /\ calls[k].reply \in Statuses
             /\ Journal!Report(calls[k].txn, calls[k].reply)
  <2> DEFINE t == calls[k].txn
  <2> DEFINE status == calls[k].reply
  <2> DEFINE row == ManualStatus(calls[k].existing, status)
  <2>1. /\ t \in Transactions /\ flows[t] # Null
        /\ calls[k].existing \in Flows /\ status \in Statuses
        /\ RowOK(t, calls[k].existing)
        /\ status \in {"Success", "Expired"} => status = verdict[t]
    BY <1>4 DEF IInv, CallsOK, CheckOK, WriteManualStatus
  <2>2. row \in Flows /\ row.status = status
    BY <2>1, ManualStatusRow DEF ManualStatus, Flows
  <2>3. flows' = [flows EXCEPT ![t] = row] /\ UNCHANGED verdict
    BY <1>4, <2>1, NullIsApart DEF WriteManualStatus, CheckTarget
  <2>4. JournalView' = [JournalView EXCEPT ![t] = status]
    BY <2>1, <2>2, <2>3, ViewOfWrite DEF IInv
  <2>5. JournalView[t] # "absent" /\ status \in {"Unhandled", "Failed", verdict[t]}
    BY <2>1 DEF IInv, Typed, JournalView, Flows, Statuses
  <2> QED
    BY <2>1, <2>3, <2>4, <2>5 DEF Journal!Report
<1>5. ASSUME NEW t \in Transactions, NEW decision \in Decided, Decide(t, decision)
      PROVE  Journal!Decide(t, decision)
  BY <1>5 DEF Decide, JournalView, Journal!Decide
<1>6. ASSUME NEW h \in Hooks, CallbackWrite(h)
      PROVE  hooks[h].txn \in Transactions /\ Journal!Report(hooks[h].txn, "Success")
  <2> DEFINE t == hooks[h].txn
  <2> DEFINE row == CallbackReceived(hooks[h].existing)
  <2>1. /\ t \in Transactions /\ flows[t] # Null /\ verdict[t] = "Success"
        /\ hooks[h].existing \in Flows /\ RowOK(t, hooks[h].existing)
    BY <1>6 DEF IInv, HooksOK, CallbackWrite
  <2>2. row \in Flows /\ row.status = "Success"
    BY <2>1, CallbackRow
  <2>3. flows' = [flows EXCEPT ![t] = row] /\ UNCHANGED verdict
    BY <1>6 DEF CallbackWrite
  <2>4. JournalView' = [JournalView EXCEPT ![t] = "Success"]
    BY <2>1, <2>2, <2>3, ViewOfWrite DEF IInv
  <2>5. JournalView[t] # "absent"
    BY <2>1 DEF IInv, Typed, JournalView, Flows, Statuses
  <2> QED
    BY <2>1, <2>3, <2>4, <2>5 DEF Journal!Report
<1>7. ASSUME Restart PROVE Journal!Forget
  BY <1>7 DEF Restart, JournalView, Journal!Forget
<1>8. CASE Next
  <2>1. ASSUME NEW c \in Circuits,
               \/ OpenCircuit(c) \/ CloseCircuit(c)
               \/ \E phone \in Phones \cup {Null} : EditPhone(c, phone)
               \/ \E k \in Calls : Submit(k, c) \/ CheckStatus(k, c)
        PROVE  UNCHANGED <<verdict, flows>>
    BY <2>1 DEF OpenCircuit, CloseCircuit, EditPhone, Submit, CheckStatus
  <2>2. ASSUME NEW k \in Calls,
               \/ AnswerCheck(k) \/ TrackTransaction(k)
               \/ ReadForManualStatus(k) \/ CallFails(k)
        PROVE  UNCHANGED <<verdict, flows>>
    BY <2>2 DEF AnswerCheck, TrackTransaction, ReadForManualStatus, CallFails
  <2>3. ASSUME NEW h \in Hooks,
               \/ CallbackAnswer(h) \/ CallbackFails(h)
               \/ \E t \in Transactions : CallbackLookup(h, t)
        PROVE  UNCHANGED <<verdict, flows>>
    BY <2>3 DEF CallbackAnswer, CallbackFails, CallbackLookup
  <2>4. ASSUME NEW t \in Transactions, Journal!Issue(t) \/ Journal!Enter(t)
        PROVE  Journal!Next
    BY <2>4 DEF Journal!Next
  <2>5. ASSUME NEW t \in Transactions, NEW decision \in Decided,
               Journal!Decide(t, decision)
        PROVE  Journal!Next
    BY <2>5 DEF Journal!Next, Journal!Decisions, Decided
  <2>6. ASSUME NEW t \in Transactions, NEW status \in Statuses,
               Journal!Report(t, status)
        PROVE  Journal!Next
    BY <2>6 DEF Journal!Next, Journal!Decisions, Statuses
  <2>7. Restart => Journal!Next
    BY <1>7 DEF Journal!Next
  <2>8. ASSUME NEW k \in Calls, NEW t \in Transactions, IssueTransaction(k, t)
        PROVE  Journal!Next
    BY <2>8, <1>2, <2>4
  <2>9. ASSUME NEW k \in Calls, StoreStart(k) \/ WriteManualStatus(k)
        PROVE  Journal!Next
    BY <2>9, <1>3, <1>4, <2>4, <2>6
  <2>10. ASSUME NEW t \in Transactions, NEW decision \in Decided, Decide(t, decision)
         PROVE  Journal!Next
    BY <2>10, <1>5, <2>5
  <2>11. ASSUME NEW h \in Hooks, CallbackWrite(h)
         PROVE  Journal!Next
    BY <2>11, <1>6, <2>6 DEF Statuses
  <2> QED
    BY <1>1, <1>8, <2>1, <2>2, <2>3, <2>7, <2>8, <2>9, <2>10, <2>11 DEF Next,
       CallProceeds, HookProceeds
<1> QED
  BY <1>1, <1>8 DEF vars

\* The store implements the abstract journal: a reader sees rows appear, report
\* what RusAuth decided, fall back or be forgotten, and nothing else.
THEOREM ImplementsJournal == Spec => JournalSpec
<1>1. IInv /\ [Next]_vars => [Journal!Next]_(Journal!jvars)
  BY StepJournal
<1> QED
  BY <1>1, InitJournal, Invariance, PTL DEF Spec, JournalSpec, Journal!Spec

=============================================================================
