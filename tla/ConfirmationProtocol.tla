----------------------- MODULE ConfirmationProtocol -----------------------
(***************************************************************************)
(* A phone-call confirmation from the button to the journal:               *)
(*   - UI calls (Authorize.SubmitAsync and CheckStatusAsync through        *)
(*     ExampleAuthFacade) that run on the dispatcher of their circuit and  *)
(*     give it up while they await RusAuth;                                *)
(*   - webhook requests (RusAuthCallbackController.Confirmation) on the    *)
(*     threads of the web server;                                          *)
(*   - the singleton ExampleConfirmationStore both of them read and then   *)
(*     write, and the scoped ExampleAuthSession of each circuit;           *)
(*   - RusAuth itself, known only from how the code uses it.               *)
(* A step is what runs between two accesses to shared state: a read of the *)
(* store and the write that follows it are two steps.                      *)
(* The messages of the session and the live pages are left out here.       *)
(***************************************************************************)
EXTENDS ConfirmationStore

CONSTANTS Transactions,  \* transactions RusAuth may issue; each is issued once
          Circuits,      \* browser tabs: each is opened at most once
          Calls,         \* UI calls that may be in flight together
          Hooks          \* webhook requests that may be in progress together

ASSUME SetsAssumption ==
    Null \notin Transactions \cup Circuits \cup Calls \cup Hooks

VARIABLES
    verdict,   \* RusAuth: what it knows of each transaction
    asked,     \* RusAuth: the number it was asked to confirm
    flows,     \* ExampleConfirmationStore._flows; Null where there is no key
    circuit,   \* the life of each circuit
    session,   \* ExampleAuthSession.CurrentTransactionId of each circuit
    form,      \* Model.PhoneNumber of the circuit's page; Null is not valid
    calls,     \* the UI calls in flight
    hooks,     \* the webhook requests in progress
    acked,     \* history: transactions whose webhook was answered 200
    refused,   \* history: transactions whose last webhook was answered 404
               \* while the reply to their start was on its way
    raced      \* history: transactions whose last webhook was written
               \* between the read and the write of a manual check

rusauth == <<verdict, asked>>
ui      == <<circuit, session, form>>
history == <<acked, refused, raced>>
vars    == <<rusauth, flows, ui, calls, hooks, history>>

---------------------------------------------------------------------------
\* Types and idle values.

Decided == {"Success", "Failed", "Expired"}

CallPc == {"idle",
           "startSent", "startAnswered", "tracking",   \* StartConfirmationAsync
           "checkSent", "checkAnswered", "marking"}    \* CheckCurrentConfirmationAsync

CallRecord == [ pc       : CallPc,
                circuit  : Circuits \cup {Null},
                phone    : Phones \cup {Null},
                txn      : Transactions \cup {Null},
                reply    : Statuses \cup {Null},
                existing : Flows \cup {Null} ]

IdleCall == [ pc |-> "idle", circuit |-> Null, phone |-> Null,
              txn |-> Null, reply |-> Null, existing |-> Null ]

HookRecord == [ pc       : {"idle", "marking", "publishing"},
                txn      : Transactions \cup {Null},
                existing : Flows \cup {Null} ]

IdleHook == [ pc |-> "idle", txn |-> Null, existing |-> Null ]

\* Every variable, and every field of a call or of a request in progress, holds
\* a value the code could put there.
Typed ==
    /\ verdict \in [Transactions -> {"unissued", "Unhandled"} \cup Decided]
    /\ asked   \in [Transactions -> Phones \cup {Null}]
    /\ flows   \in [Transactions -> Flows \cup {Null}]
    /\ circuit \in [Circuits -> {"unopened", "open", "closed"}]
    /\ session \in [Circuits -> Transactions \cup {Null}]
    /\ form    \in [Circuits -> Phones \cup {Null}]
    /\ calls   \in [Calls -> CallRecord]
    /\ hooks   \in [Hooks -> HookRecord]
    /\ acked   \in SUBSET Transactions
    /\ refused \in SUBSET Transactions
    /\ raced   \in SUBSET Transactions

\* What a call or a request needs from here on is there: it was read, or RusAuth
\* answered it, before the await or the lookup behind it.
Complete ==
    /\ \A k \in Calls : LET c == calls[k] IN
          /\ c.pc # "idle" => c.circuit # Null
          /\ c.pc \in {"startSent", "startAnswered", "tracking"} => c.phone # Null
          /\ c.pc \notin {"idle", "startSent"} => c.txn # Null
          /\ c.pc \in {"checkAnswered", "marking"} => c.reply # Null
          /\ c.pc = "marking" => c.existing # Null
    /\ \A h \in Hooks :
          /\ hooks[h].pc # "idle" => hooks[h].txn # Null
          /\ hooks[h].pc = "marking" => hooks[h].existing # Null

\* The one type invariant: no step of a call or of a request finds a value
\* missing or of another kind, whatever ran during its awaits.
TypeOK == Typed /\ Complete

Init ==
    /\ verdict = [t \in Transactions |-> "unissued"]
    /\ asked   = [t \in Transactions |-> Null]
    /\ flows   = [t \in Transactions |-> Null]
    /\ circuit = [c \in Circuits |-> "unopened"]
    /\ session = [c \in Circuits |-> Null]
    /\ form    = [c \in Circuits |-> Null]
    /\ calls   = [k \in Calls |-> IdleCall]
    /\ hooks   = [h \in Hooks |-> IdleHook]
    /\ acked   = {}
    /\ refused = {}
    /\ raced   = {}

---------------------------------------------------------------------------
\* The dispatcher of a circuit runs one piece of code at a time.  A call holds
\* it between two awaits; "tracking" and "marking" are the places inside such
\* a piece where another thread can get in between.
DispatcherFree(c) ==
    \A k \in Calls : calls[k].circuit = c => calls[k].pc \notin {"tracking", "marking"}

\* A browser tab connects: a new scope, hence a new session, and an empty form.
OpenCircuit(c) ==
    /\ circuit[c] = "unopened"
    /\ circuit' = [circuit EXCEPT ![c] = "open"]
    /\ UNCHANGED <<rusauth, flows, session, form, calls, hooks, history>>

\* The tab is closed or reloaded. Calls in flight are not cancelled: the page
\* passes no CancellationToken, and they go on with the session of their scope.
\* Its page, and the form with it, is disposed.
CloseCircuit(c) ==
    /\ circuit[c] = "open"
    /\ circuit' = [circuit EXCEPT ![c] = "closed"]
    /\ form' = [form EXCEPT ![c] = Null]
    /\ UNCHANGED <<rusauth, flows, session, calls, hooks, history>>

\* The user edits the number, or comes back to the page and finds it empty.
EditPhone(c, phone) ==
    /\ circuit[c] = "open"
    /\ DispatcherFree(c)
    /\ form' = [form EXCEPT ![c] = phone]
    /\ UNCHANGED <<rusauth, flows, circuit, session, calls, hooks, history>>

---------------------------------------------------------------------------
\* SubmitAsync, StartConfirmationAsync.

\* The form is valid, the request is built from it and sent. IsBusy is not a
\* guard: it disables the button only once the browser has drawn it.
Submit(k, c) ==
    /\ calls[k] = IdleCall
    /\ circuit[c] = "open"
    /\ DispatcherFree(c)
    /\ form[c] # Null
    /\ calls' = [calls EXCEPT ![k] = [IdleCall EXCEPT !.pc      = "startSent",
                                                      !.circuit = c,
                                                      !.phone   = form[c]]]
    /\ UNCHANGED <<rusauth, flows, ui, hooks, history>>

\* RusAuth accepts the request and issues a fresh transaction.
IssueTransaction(k, t) ==
    /\ calls[k].pc = "startSent"
    /\ verdict[t] = "unissued"
    /\ verdict' = [verdict EXCEPT ![t] = "Unhandled"]
    /\ asked' = [asked EXCEPT ![t] = calls[k].phone]
    /\ calls' = [calls EXCEPT ![k].pc = "startAnswered", ![k].txn = t]
    /\ UNCHANGED <<flows, ui, hooks, history>>

\* Fault: the row is built from the form as it is now, not from the request.
FormPhone(k) == form[calls[k].circuit]

\* The number the row is written with: the request's, captured before the await.
RequestedPhone(k) == calls[k].phone

\* Fault: the transaction is announced to the session and never stored.
TrackWithoutStore(k) ==
    /\ calls[k].pc = "startAnswered"
    /\ DispatcherFree(calls[k].circuit)
    /\ session' = [session EXCEPT ![calls[k].circuit] = calls[k].txn]
    /\ calls' = [calls EXCEPT ![k] = IdleCall]
    /\ UNCHANGED <<rusauth, flows, circuit, form, hooks, history>>

\* The reply arrives and the call takes its dispatcher back: store.Start.
StoreStart(k) ==
    /\ calls[k].pc = "startAnswered"
    /\ DispatcherFree(calls[k].circuit)
    /\ flows' = [flows EXCEPT ![calls[k].txn] = NewFlow(RequestedPhone(k))]
    /\ calls' = [calls EXCEPT ![k].pc = "tracking"]
    /\ UNCHANGED <<rusauth, ui, hooks, history>>

\* Fault: one session serves all circuits.
TrackForAll(k) ==
    /\ calls[k].pc = "tracking"
    /\ session' = [c \in Circuits |-> calls[k].txn]
    /\ calls' = [calls EXCEPT ![k] = IdleCall]
    /\ UNCHANGED <<rusauth, flows, circuit, form, hooks, history>>

\* session.TrackTransaction, and the end of the call.
TrackTransaction(k) ==
    /\ calls[k].pc = "tracking"
    /\ session' = [session EXCEPT ![calls[k].circuit] = calls[k].txn]
    /\ calls' = [calls EXCEPT ![k] = IdleCall]
    /\ UNCHANGED <<rusauth, flows, circuit, form, hooks, history>>

---------------------------------------------------------------------------
\* CheckStatusAsync, CheckCurrentConfirmationAsync.

\* The session's transaction is read before the await. The form is not
\* validated here, so the number sent is whatever it holds. With no current
\* transaction the code throws before it has changed anything modelled here.
CheckStatus(k, c) ==
    /\ calls[k] = IdleCall
    /\ circuit[c] = "open"
    /\ DispatcherFree(c)
    /\ session[c] # Null
    /\ calls' = [calls EXCEPT ![k] = [IdleCall EXCEPT !.pc      = "checkSent",
                                                      !.circuit = c,
                                                      !.phone   = form[c],
                                                      !.txn     = session[c]]]
    /\ UNCHANGED <<rusauth, flows, ui, hooks, history>>

\* RusAuth answers with what it knows at this moment; it finds nothing for a
\* number that is not the one it was asked to confirm.
AnswerCheck(k) ==
    /\ calls[k].pc = "checkSent"
    /\ calls' = [calls EXCEPT
                    ![k].pc    = "checkAnswered",
                    ![k].reply = IF calls[k].phone = asked[calls[k].txn]
                                 THEN verdict[calls[k].txn]
                                 ELSE "Failed"]
    /\ UNCHANGED <<rusauth, flows, ui, hooks, history>>

\* Fault: the session is read again after the await.
CurrentTarget(k) == session[calls[k].circuit]

\* The transaction the answer is applied to: the one read before the await.
CheckTarget(k) == calls[k].txn

\* MarkManualStatus, TryGetValue: the row as it is when the answer arrives.
ReadForManualStatus(k) ==
    /\ calls[k].pc = "checkAnswered"
    /\ DispatcherFree(calls[k].circuit)
    /\ calls' = [calls EXCEPT ![k].pc = "marking",
                              ![k].existing = flows[CheckTarget(k)]]
    /\ UNCHANGED <<rusauth, flows, ui, hooks, history>>

\* MarkManualStatus, the indexer, and the end of the call. Where no row was
\* found the code writes nothing and the caller throws.
WriteManualStatus(k) ==
    /\ calls[k].pc = "marking"
    /\ flows' = IF calls[k].existing = Null THEN flows
                ELSE [flows EXCEPT ![CheckTarget(k)] =
                          ManualStatus(calls[k].existing, calls[k].reply)]
    /\ calls' = [calls EXCEPT ![k] = IdleCall]
    /\ UNCHANGED <<rusauth, ui, hooks, history>>

---------------------------------------------------------------------------
AwaitingRusAuth(k) ==
    calls[k].pc \in {"startSent", "startAnswered", "checkSent", "checkAnswered"}

\* Fault: a check that fails is recorded as an expired confirmation.
FailAsExpired(k) ==
    /\ AwaitingRusAuth(k)
    /\ DispatcherFree(calls[k].circuit)
    /\ calls' = [calls EXCEPT ![k] = IdleCall]
    /\ flows' = IF calls[k].pc \in {"checkSent", "checkAnswered"}
                THEN [flows EXCEPT ![calls[k].txn] = ManualStatus(@, "Expired")]
                ELSE flows
    /\ UNCHANGED <<rusauth, ui, hooks, history>>

\* The client throws: RusAuth refused, could not be reached, or did not answer
\* within the configured TimeOut. ExecuteAsync catches it and the call is over.
\* RusAuth may have issued the transaction all the same.
CallFails(k) ==
    /\ AwaitingRusAuth(k)
    /\ DispatcherFree(calls[k].circuit)
    /\ calls' = [calls EXCEPT ![k] = IdleCall]
    /\ UNCHANGED <<rusauth, flows, ui, hooks, history>>

---------------------------------------------------------------------------
\* RusAuth decides a transaction, once and for good.
Decide(t, decision) ==
    /\ verdict[t] = "Unhandled"
    /\ verdict' = [verdict EXCEPT ![t] = decision]
    /\ UNCHANGED <<asked, flows, ui, calls, hooks, history>>

\* Fault: an unknown transaction is entered, as an upsert would do.
CallbackLookupOrAdd(h, t) ==
    /\ hooks[h] = IdleHook
    /\ verdict[t] = "Success"
    /\ LET row == IF flows[t] = Null THEN NewFlow(asked[t]) ELSE flows[t] IN
          /\ flows' = [flows EXCEPT ![t] = row]
          /\ hooks' = [hooks EXCEPT ![h] = [ pc       |-> "marking",
                                             txn      |-> t,
                                             existing |-> row ]]
    /\ UNCHANGED <<rusauth, ui, calls, history>>

\* RusAuth has issued t and the reply to its start has not been taken yet.
ReplyOnItsWay(t) ==
    \E k \in Calls : calls[k].pc = "startAnswered" /\ calls[k].txn = t

\* RusAuth delivers, or delivers again, the webhook of a confirmed transaction
\* with the right bearer token. MarkCallbackReceived, TryGetValue: an unknown
\* transaction is answered 404 at once.
CallbackLookup(h, t) ==
    /\ hooks[h] = IdleHook
    /\ verdict[t] = "Success"
    /\ \/ /\ flows[t] = Null
          /\ refused' = IF ReplyOnItsWay(t) THEN refused \cup {t} ELSE refused
          /\ UNCHANGED hooks
       \/ /\ flows[t] # Null
          /\ hooks' = [hooks EXCEPT ![h] = [ pc       |-> "marking",
                                             txn      |-> t,
                                             existing |-> flows[t] ]]
          /\ refused' = refused \ {t}
    /\ UNCHANGED <<rusauth, flows, ui, calls, acked, raced>>

\* A manual check of t is between its read and its write.
CheckMarking(t) ==
    \E k \in Calls : calls[k].pc = "marking" /\ calls[k].txn = t

\* MarkCallbackReceived, the indexer.
CallbackWrite(h) ==
    LET t == hooks[h].txn IN
    /\ hooks[h].pc = "marking"
    /\ flows' = [flows EXCEPT ![t] = CallbackReceived(hooks[h].existing)]
    /\ hooks' = [hooks EXCEPT ![h].pc = "publishing", ![h].existing = Null]
    /\ raced' = IF CheckMarking(t) THEN raced \cup {t} ELSE raced \ {t}
    /\ UNCHANGED <<rusauth, ui, calls, acked, refused>>

\* PublishAsync is over and the request is answered 200.
CallbackAnswer(h) ==
    /\ hooks[h].pc = "publishing"
    /\ acked' = acked \cup {hooks[h].txn}
    /\ hooks' = [hooks EXCEPT ![h] = IdleHook]
    /\ UNCHANGED <<rusauth, flows, ui, calls, refused, raced>>

\* PublishAsync throws, for a page's handler did: the request is answered 500,
\* and the row stays written. RusAuth may deliver the webhook again.
CallbackFails(h) ==
    /\ hooks[h].pc = "publishing"
    /\ hooks' = [hooks EXCEPT ![h] = IdleHook]
    /\ UNCHANGED <<rusauth, flows, ui, calls, history>>

\* The process restarts. Store, sessions, calls and requests were in its memory
\* only; RusAuth keeps its transactions. Tabs have to be loaded again.
Restart ==
    /\ flows' = [t \in Transactions |-> Null]
    /\ circuit' = [c \in Circuits |->
                      IF circuit[c] = "open" THEN "closed" ELSE circuit[c]]
    /\ session' = [c \in Circuits |-> Null]
    /\ form' = [c \in Circuits |-> Null]
    /\ calls' = [k \in Calls |-> IdleCall]
    /\ hooks' = [h \in Hooks |-> IdleHook]
    /\ acked' = {}
    /\ refused' = {}
    /\ raced' = {}
    /\ UNCHANGED rusauth

---------------------------------------------------------------------------
\* What a call does once RusAuth answered or failed to.
CallProceeds(k) ==
    \/ StoreStart(k)
    \/ TrackTransaction(k)
    \/ ReadForManualStatus(k)
    \/ WriteManualStatus(k)
    \/ CallFails(k)

HookProceeds(h) == CallbackWrite(h) \/ CallbackAnswer(h) \/ CallbackFails(h)

Next ==
    \/ \E c \in Circuits :
          \/ OpenCircuit(c)
          \/ CloseCircuit(c)
          \/ \E phone \in Phones \cup {Null} : EditPhone(c, phone)
          \/ \E k \in Calls : Submit(k, c) \/ CheckStatus(k, c)
    \/ \E k \in Calls :
          \/ \E t \in Transactions : IssueTransaction(k, t)
          \/ AnswerCheck(k)
          \/ CallProceeds(k)
    \/ \E t \in Transactions :
          \/ \E decision \in Decided : Decide(t, decision)
          \/ \E h \in Hooks : CallbackLookup(h, t)
    \/ \E h \in Hooks : HookProceeds(h)
    \/ Restart

Spec == Init /\ [][Next]_vars

---------------------------------------------------------------------------
\* A transaction a session tracks is in the journal: Authorize.razor reads
\* CurrentFlow again after it tested it for null, so the key must not vanish
\* under a session, not even when the process restarts.
TrackedIsStored ==
    \A c \in Circuits : session[c] # Null => flows[session[c]] # Null

\* The journal shows "confirmed" or "expired" only for a transaction RusAuth
\* decided so, whichever answers arrive late, twice or to another session.
OutcomeIsGenuine ==
    \A t \in Transactions :
        flows[t] # Null /\ flows[t].status \in {"Success", "Expired"}
            => flows[t].status = verdict[t]

\* The client number a row shows is the one RusAuth was asked to call for that
\* transaction, although the form may have been edited during the await.
PhoneIsTheConfirmedOne ==
    \A t \in Transactions : flows[t] # Null => flows[t].phone = asked[t]

Explained(f) ==
    /\ f.status # "Unhandled" =>
          f.completed /\ (f.checked \/ (f.callback /\ f.status = "Success"))
    /\ f.callback => f.completed /\ (f.checked \/ f.status = "Success")

\* The dates of a row account for its status, also when whole rows overwrite
\* each other: an outcome is dated, and comes from a manual check or is the
\* Success of a webhook; a received webhook is a completed confirmation.
OutcomeExplained ==
    \A t \in Transactions : flows[t] # Null => Explained(flows[t])

\* A webhook answered 200 shows as Success for as long as the row shows no
\* manual check: nothing else takes an acknowledged confirmation back.
AckedSuccessUntilChecked ==
    \A t \in acked : ~flows[t].checked => flows[t].status = "Success"

\* The date of a webhook answered 200 stays in the row, however often the
\* transaction is checked later, unless its last webhook was written between
\* the read and the write of a manual check: nothing else can lose the update,
\* and a delivery that no check overlaps makes the loss good.
CallbackKeptUnlessRaced ==
    \A t \in acked \ raced : flows[t].callback /\ flows[t].completed

\* The other half of the lost update: a recorded manual check vanishes from a
\* row only when a webhook writes back the copy it read before the check wrote.
CheckKeptUnlessRaced ==
    [][\A t \in Transactions :
          /\ flows[t] # Null /\ flows[t].checked
          /\ flows'[t] # Null /\ ~flows'[t].checked
          => \E h \in Hooks :
                /\ hooks[h].pc = "marking" /\ hooks'[h].pc = "publishing"
                /\ hooks[h].txn = t /\ ~hooks[h].existing.checked]_vars

\* RusAuth issued t and no row of it is left or on its way: the start failed
\* after RusAuth had issued it, or the process restarted.
Lost(t) ==
    /\ verdict[t] # "unissued"
    /\ flows[t] = Null
    /\ ~ReplyOnItsWay(t)

\* What is lost stays lost: no webhook, check or late reply brings a row back
\* for a transaction whose number and session nobody knows any more.
LostStaysLost == [][\A t \in Transactions : Lost(t) => Lost(t)']_vars

\* MarkManualStatus reads a row and writes it back without a lock, and still no
\* two manual checks of the same row overlap: a transaction is tracked in one
\* circuit only, and a circuit's dispatcher runs one of its calls at a time.
ChecksDoNotOverlap ==
    \A k, l \in Calls :
        /\ calls[k].pc = "marking" /\ calls[l].pc = "marking"
        /\ calls[k].txn = calls[l].txn
        => k = l

\* A transaction belongs to the circuit that started it: store.Start comes
\* before session.TrackTransaction, and what the scoped sessions track
\* implements TabTransactions.
Stored == {t \in Transactions : flows[t] # Null}

BeingTracked ==
    {t \in Transactions : \E k \in Calls : calls[k].pc = "tracking" /\ calls[k].txn = t}

Tabs == INSTANCE TabTransactions
        WITH Tabs <- Circuits, Nobody <- Null, stored <- Stored,
             taken <- Stored \ BeingTracked, followed <- session

TabsSpec == Tabs!Spec

\* The journal as a reader sees it implements the abstract one.
JournalView ==
    [t \in Transactions |-> IF flows[t] = Null THEN "absent" ELSE flows[t].status]

Journal == INSTANCE ConfirmationJournal WITH journal <- JournalView

JournalSpec == Journal!Spec

---------------------------------------------------------------------------
\* What the documentation says and the code does not do.

\* "After the callback the screen updates automatically": once the webhook was
\* answered 200 its transaction reads Success. A manual check that RusAuth
\* answered earlier, or for another number, is written over it.
AckedIsSuccess == \A t \in acked : flows[t].status = "Success"

\* A webhook that overtakes the reply to CallToConfirm is refused, and the row
\* written afterwards stays pending.
StoredWasNotRefused == \A t \in refused : flows[t] = Null

=============================================================================
