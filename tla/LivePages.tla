----------------------------- MODULE LivePages -----------------------------
(***************************************************************************)
(* How what is written to the journal reaches the screens: the calls and   *)
(* the webhooks that write it, ExampleConfirmationNotifier, the pages      *)
(* Authorize and Account that subscribe to it, and the renderer that draws *)
(* them.                                                                   *)
(*                                                                         *)
(* Of a row only its revision is kept, the number of times it has been     *)
(* written: a page shows a row as it was at some revision, and the         *)
(* properties say how old that may be.  What a revision says is the        *)
(* business of ConfirmationProtocol.                                       *)
(*                                                                         *)
(* PublishAsync runs on the thread of the webhook request.  Each circuit   *)
(* has a dispatcher that runs one piece of page code at a time; a piece is *)
(* split here wherever the thread of a webhook can see it half done.       *)
(***************************************************************************)
EXTENDS Naturals

CONSTANTS Transactions,  \* each is started at most once
          Circuits,      \* browser tabs
          Pages,         \* page instances; each is opened at most once
          Calls,         \* UI calls that may be in flight together
          Hooks,         \* webhook requests that may be in progress together
          MaxRevision,   \* bound: how often a row may be written
          Null

ASSUME PagesAssumption == Null \notin Transactions \cup Circuits \cup Pages

VARIABLES
    row,         \* the store: the revision of each row; 0 where there is none
    current,     \* ExampleAuthSession.CurrentTransactionId of each circuit
    kind,        \* the component a page instance is of
    home,        \* the circuit a page instance lives in
    stage,       \* the life of a page instance
    subscribers, \* ConfirmationUpdated: the pages whose handler is attached
    shown,       \* the revisions each page drew last; 0 for a row it does not show
    calls,       \* the UI calls in flight
    hooks,       \* the webhook requests in progress
    answered     \* history: the newest revision whose webhook was answered 200

pageVars == <<kind, home, stage, subscribers, shown>>
vars     == <<row, current, pageVars, calls, hooks, answered>>

Revisions == [Transactions -> Nat]
Kinds     == {"Authorize", "Account"}

IdleCall == [pc |-> "idle", page |-> Null, txn |-> Null]
IdleHook == [pc |-> "idle", txn |-> Null, revision |-> 0, todo |-> {}, drawing |-> Null]

CallRecord == [ pc   : {"idle", "starting", "checking", "stored", "ending"},
                page : Pages \cup {Null},           \* the page that awaits the call
                txn  : Transactions \cup {Null} ]

HookRecord == [ pc       : {"idle", "marked", "publishing"},
                txn      : Transactions \cup {Null},
                revision : Nat,                     \* what this webhook wrote
                todo     : SUBSET Pages,            \* handlers still to be called
                drawing  : Pages \cup {Null} ]      \* the page a handler awaits

\* Every variable, and every field of a call or of a request in progress, holds
\* a value the code could put there.
Typed ==
    /\ row         \in Revisions
    /\ current     \in [Circuits -> Transactions \cup {Null}]
    /\ kind        \in [Pages -> Kinds]
    /\ home        \in [Pages -> Circuits \cup {Null}]
    /\ stage       \in [Pages -> {"unused", "initialized", "live", "leaving", "disposed"}]
    /\ subscribers \in SUBSET Pages
    /\ shown       \in [Pages -> Revisions]
    /\ calls       \in [Calls -> CallRecord]
    /\ hooks       \in [Hooks -> HookRecord]
    /\ answered    \in Revisions

\* What a page, a call or a request needs from here on is there.
Complete ==
    /\ \A p \in Pages : stage[p] # "unused" => home[p] # Null
    /\ \A k \in Calls :
          /\ calls[k].pc # "idle" => calls[k].page # Null
          /\ calls[k].pc \in {"checking", "stored"} => calls[k].txn # Null
    /\ \A h \in Hooks :
          hooks[h].pc # "idle" => hooks[h].txn # Null /\ hooks[h].revision > 0

\* The one type invariant: no step of a page, a call or a request finds a value
\* missing or of another kind; a check has a transaction to ask RusAuth for.
TypeOK == Typed /\ Complete

NoRevision == [t \in Transactions |-> 0]

Init ==
    /\ row         = NoRevision
    /\ current     = [c \in Circuits |-> Null]
    /\ kind        \in [Pages -> Kinds]
    /\ home        = [p \in Pages |-> Null]
    /\ stage       = [p \in Pages |-> "unused"]
    /\ subscribers = {}
    /\ shown       = [p \in Pages |-> NoRevision]
    /\ calls       = [k \in Calls |-> IdleCall]
    /\ hooks       = [h \in Hooks |-> IdleHook]
    /\ answered    = NoRevision

---------------------------------------------------------------------------
\* The renderer.

\* No piece of page code is half done on the dispatcher of c.
DispatcherFree(c) ==
    /\ \A p \in Pages : home[p] = c => stage[p] \notin {"initialized", "leaving"}
    /\ \A k \in Calls : calls[k].pc \in {"stored", "ending"} => home[calls[k].page] # c

\* Account draws the whole journal, Authorize the session's transaction.
\* Authorize reads CurrentFlow again for every field it draws, and a webhook may
\* write the row in between: `shown` is then the revision read first, the oldest
\* of those the drawing shows a field of.
AccountView == row

AuthorizeView(c) ==
    [t \in Transactions |-> IF current[c] = t THEN row[t] ELSE 0]

View(p) == IF kind[p] = "Account" THEN AccountView ELSE AuthorizeView(home[p])

\* StateHasChanged; the renderer ignores a page that is no longer there.
Drawn(p) == IF stage[p] = "live" THEN [shown EXCEPT ![p] = View(p)] ELSE shown

\* Navigation to p: OnInitializedAsync subscribes, and the page it replaces is
\* about to be disposed; the router keeps an instance that is of the same kind.
\* A prerendered page is one in a circuit of its own, soon left.
OpenPage(c, p) ==
    /\ DispatcherFree(c)
    /\ stage[p] = "unused"
    /\ \A q \in Pages : home[q] = c /\ stage[q] = "live" => kind[q] # kind[p]
    /\ home' = [home EXCEPT ![p] = c]
    /\ stage' = [q \in Pages |->
                    IF q = p THEN "initialized"
                    ELSE IF home[q] = c /\ stage[q] = "live" THEN "leaving"
                    ELSE stage[q]]
    /\ subscribers' = subscribers \cup {p}
    /\ UNCHANGED <<row, current, kind, shown, calls, hooks, answered>>

\* The first render, after OnInitializedAsync.
FirstRender(p) ==
    /\ stage[p] = "initialized"
    /\ stage' = [stage EXCEPT ![p] = "live"]
    /\ shown' = [shown EXCEPT ![p] = View(p)]
    /\ UNCHANGED <<row, current, kind, home, subscribers, calls, hooks, answered>>

\* The tab is closed, or shows a page that is not of these two.
LeavePage(p) ==
    /\ stage[p] = "live"
    /\ DispatcherFree(home[p])
    /\ stage' = [stage EXCEPT ![p] = "leaving"]
    /\ UNCHANGED <<row, current, kind, home, subscribers, shown, calls, hooks, answered>>

\* Fault: Dispose waits until no publication is under way.
DisposeAfterPublication(p) ==
    /\ stage[p] = "leaving"
    /\ \A h \in Hooks : hooks[h].pc # "publishing"
    /\ stage' = [stage EXCEPT ![p] = "disposed"]
    /\ subscribers' = subscribers \ {p}
    /\ UNCHANGED <<row, current, kind, home, shown, calls, hooks, answered>>

\* Dispose detaches the handler.
DisposePage(p) ==
    /\ stage[p] = "leaving"
    /\ stage' = [stage EXCEPT ![p] = "disposed"]
    /\ subscribers' = subscribers \ {p}
    /\ UNCHANGED <<row, current, kind, home, shown, calls, hooks, answered>>

\* RefreshAsync: the page is drawn again.
Redraw(p) ==
    /\ stage[p] = "live"
    /\ DispatcherFree(home[p])
    /\ shown' = Drawn(p)
    /\ UNCHANGED <<row, current, kind, home, stage, subscribers, calls, hooks, answered>>

---------------------------------------------------------------------------
\* ExecuteAsync, with StartConfirmationAsync or CheckCurrentConfirmationAsync.

\* A call begins: the page is drawn with its buttons disabled. The user may
\* leave the page, or press again, while the reply is awaited.
Execute(k, p, pc, t) ==
    /\ stage[p] = "live" /\ kind[p] = "Authorize"
    /\ DispatcherFree(home[p])
    /\ calls[k] = IdleCall
    /\ calls' = [calls EXCEPT ![k] = [pc |-> pc, page |-> p, txn |-> t]]
    /\ shown' = Drawn(p)
    /\ UNCHANGED <<row, current, kind, home, stage, subscribers, hooks, answered>>

Submit(k, p) == Execute(k, p, "starting", Null)

\* Fault: nothing is thrown where the session has no transaction.
CheckStatusUnguarded(k, p) ==
    /\ stage[p] = "live"
    /\ Execute(k, p, "checking", current[home[p]])

\* The session's transaction is read before the await; where there is none the
\* code throws before it has changed anything modelled here.
CheckStatus(k, p) ==
    /\ stage[p] = "live" /\ current[home[p]] # Null
    /\ Execute(k, p, "checking", current[home[p]])

\* RusAuth answered with a fresh transaction: store.Start.
StoreStart(k, t) ==
    /\ calls[k].pc = "starting"
    /\ DispatcherFree(home[calls[k].page])
    /\ row[t] = 0
    /\ row' = [row EXCEPT ![t] = 1]
    /\ calls' = [calls EXCEPT ![k].pc = "stored", ![k].txn = t]
    /\ UNCHANGED <<current, pageVars, hooks, answered>>

\* Fault: one session serves all circuits.
TrackForAll(k) ==
    /\ calls[k].pc = "stored"
    /\ current' = [c \in Circuits |-> calls[k].txn]
    /\ calls' = [calls EXCEPT ![k].pc = "ending"]
    /\ UNCHANGED <<row, pageVars, hooks, answered>>

\* session.TrackTransaction, in the session of the circuit.
TrackTransaction(k) ==
    /\ calls[k].pc = "stored"
    /\ current' = [current EXCEPT ![home[calls[k].page]] = calls[k].txn]
    /\ calls' = [calls EXCEPT ![k].pc = "ending"]
    /\ UNCHANGED <<row, pageVars, hooks, answered>>

\* RusAuth answered the check: store.MarkManualStatus. Nothing is published.
MarkManualStatus(k) ==
    LET t == calls[k].txn IN
    /\ calls[k].pc = "checking"
    /\ DispatcherFree(home[calls[k].page])
    /\ row[t] < MaxRevision
    /\ row' = [row EXCEPT ![t] = @ + 1]
    /\ calls' = [calls EXCEPT ![k].pc = "ending"]
    /\ UNCHANGED <<current, pageVars, hooks, answered>>

\* ExecuteAsync is over: the page that started the call is drawn, if it is
\* still there, and no other.
Return(k) ==
    /\ shown' = Drawn(calls[k].page)
    /\ calls' = [calls EXCEPT ![k] = IdleCall]
    /\ UNCHANGED <<row, current, kind, home, stage, subscribers, hooks, answered>>

EndCall(k) == calls[k].pc = "ending" /\ Return(k)

\* Fault: no timeout, so only a reply ends the wait.
FailsOnReplyOnly(k) == FALSE

\* The client throws, at the latest when TimeOut is over: nothing was stored.
CallFails(k) ==
    /\ calls[k].pc \in {"starting", "checking"}
    /\ DispatcherFree(home[calls[k].page])
    /\ Return(k)

---------------------------------------------------------------------------
\* Confirmation, PublishAsync and the handlers of the pages.

\* MarkCallbackReceived finds the row and writes it, at every delivery.
MarkCallbackReceived(h, t) ==
    /\ hooks[h] = IdleHook
    /\ row[t] # 0
    /\ row[t] < MaxRevision
    /\ row' = [row EXCEPT ![t] = @ + 1]
    /\ hooks' = [hooks EXCEPT ![h] =
                    [@ EXCEPT !.pc = "marked", !.txn = t, !.revision = row'[t]]]
    /\ UNCHANGED <<current, pageVars, calls, answered>>

\* PublishAsync takes the invocation list as it is now.
Publish(h) ==
    /\ hooks[h].pc = "marked"
    /\ hooks' = [hooks EXCEPT ![h].pc = "publishing", ![h].todo = subscribers]
    /\ UNCHANGED <<row, current, pageVars, calls, answered>>

\* Fault: Account asks for the session's transaction as Authorize does.
ConcernsSession(p, t) == current[home[p]] = t

\* Fault: a page that is busy ignores updates, for it is drawn later anyway.
ConcernsIdle(p, t) ==
    /\ kind[p] = "Authorize" => current[home[p]] = t
    /\ \A k \in Calls : calls[k].page # p

\* OnConfirmationUpdatedAsync: Authorize drops the update of a transaction that
\* is not the session's at this moment; Account takes them all.
Concerns(p, t) == kind[p] = "Authorize" => current[home[p]] = t

\* One handler is called, on the webhook's thread; it awaits the drawing of its
\* page, or returns at once. The invocation list is in order of subscription,
\* here any order.
CallHandler(h, p) ==
    /\ hooks[h].pc = "publishing"
    /\ hooks[h].drawing = Null
    /\ p \in hooks[h].todo
    /\ hooks' = [hooks EXCEPT ![h].todo = @ \ {p},
                              ![h].drawing = IF Concerns(p, hooks[h].txn)
                                             THEN p ELSE Null]
    /\ UNCHANGED <<row, current, pageVars, calls, answered>>

\* Fault: the page draws the row the update carries, not the one in the store.
DrawUpdate(h) ==
    LET p == hooks[h].drawing IN
    /\ p # Null
    /\ DispatcherFree(home[p])
    /\ shown' = IF stage[p] = "live"
                THEN [shown EXCEPT ![p][hooks[h].txn] = hooks[h].revision]
                ELSE shown
    /\ hooks' = [hooks EXCEPT ![h].drawing = Null]
    /\ UNCHANGED <<row, current, kind, home, stage, subscribers, calls, answered>>

\* InvokeAsync(StateHasChanged) gets the dispatcher of the page's circuit.
DrawForHandler(h) ==
    LET p == hooks[h].drawing IN
    /\ p # Null
    /\ DispatcherFree(home[p])
    /\ shown' = Drawn(p)
    /\ hooks' = [hooks EXCEPT ![h].drawing = Null]
    /\ UNCHANGED <<row, current, kind, home, stage, subscribers, calls, answered>>

\* A handler throws, or what it awaits does: PublishAsync ends there, the
\* handlers behind it are not called, and the request is answered 500. The row
\* stays written, and RusAuth may deliver the webhook again.
HandlerThrows(h) ==
    /\ hooks[h].pc = "publishing"
    /\ hooks[h].todo # {} \/ hooks[h].drawing # Null
    /\ hooks' = [hooks EXCEPT ![h] = IdleHook]
    /\ UNCHANGED <<row, current, pageVars, calls, answered>>

\* Fault: the answer does not wait for the handlers.
AnswerAtOnce(h) ==
    /\ hooks[h].pc = "publishing"
    /\ answered' = [answered EXCEPT ![hooks[h].txn] = hooks[h].revision]
    /\ hooks' = [hooks EXCEPT ![h] = IdleHook]
    /\ UNCHANGED <<row, current, pageVars, calls>>

\* Every handler has returned: 200.
Answer(h) ==
    /\ hooks[h].pc = "publishing"
    /\ hooks[h].todo = {} /\ hooks[h].drawing = Null
    /\ answered' = [answered EXCEPT ![hooks[h].txn] =
                        IF @ < hooks[h].revision THEN hooks[h].revision ELSE @]
    /\ hooks' = [hooks EXCEPT ![h] = IdleHook]
    /\ UNCHANGED <<row, current, pageVars, calls>>

---------------------------------------------------------------------------
\* Code that is running, on a dispatcher or on a webhook's thread.
PageProceeds(p) == FirstRender(p) \/ DisposePage(p)

CallProceeds(k) == TrackTransaction(k) \/ EndCall(k) \/ CallFails(k)

HookProceeds(h) ==
    \/ Publish(h)
    \/ \E p \in Pages : CallHandler(h, p)
    \/ DrawForHandler(h)
    \/ Answer(h)

Next ==
    \/ \E p \in Pages :
          \/ \E c \in Circuits : OpenPage(c, p)
          \/ LeavePage(p) \/ Redraw(p) \/ PageProceeds(p)
    \/ \E k \in Calls :
          \/ \E p \in Pages : Submit(k, p) \/ CheckStatus(k, p)
          \/ \E t \in Transactions : StoreStart(k, t)
          \/ MarkManualStatus(k) \/ CallProceeds(k)
    \/ \E h \in Hooks :
          \/ \E t \in Transactions : MarkCallbackReceived(h, t)
          \/ HandlerThrows(h) \/ HookProceeds(h)

Spec == Init /\ [][Next]_vars

\* Running code runs on (weak). A dispatcher serves its queue in order, so the
\* drawing a handler asked for, and the reply or the timeout of a call, get
\* their turn although others use the dispatcher in between (strong). Nothing
\* is assumed of the user or of RusAuth; no handler need throw.
Fairness ==
    /\ \A p \in Pages : WF_vars(PageProceeds(p))
    /\ \A k \in Calls : SF_vars(CallProceeds(k))
    /\ \A h \in Hooks : SF_vars(HookProceeds(h))

FairSpec == Spec /\ Fairness

---------------------------------------------------------------------------
\* "New callback events come to this page automatically": an open journal page
\* is never older than what a webhook answered 200 has written, also when it
\* was opened while the update was being published, when the webhook came twice
\* or when a handler of another page threw.
JournalPagesShowAnswered ==
    \A p \in Pages, t \in Transactions :
        stage[p] = "live" /\ kind[p] = "Account" => shown[p][t] >= answered[t]

\* p does not show an older revision of t than n.
NotOlder(p, t, n) == shown[p][t] = 0 \/ shown[p][t] >= n

\* "After the callback the screen updates automatically": an Authorize page
\* that shows the session's transaction is never older than its answered
\* webhook, which may come before the session tracks the transaction, while it
\* is checked, or while another page of the tab awaits a call.
CurrentShowsAnswered ==
    \A p \in Pages, t \in Transactions :
        stage[p] = "live" /\ kind[p] = "Authorize" /\ current[home[p]] = t
            => NotOlder(p, t, answered[t])

\* The open journal pages implement the abstract screens.
OpenJournals == {p \in Pages : stage[p] = "live" /\ kind[p] = "Account"}

SeenByReaders == [p \in Pages |-> IF p \in OpenJournals THEN shown[p] ELSE NoRevision]

Screens == INSTANCE JournalScreens
           WITH Screens <- Pages, journal <- row, open <- OpenJournals,
                seen <- SeenByReaders, promised <- answered

ScreensSpec == Screens!Spec

\* The handlers of overlapping webhooks, calls and refreshes draw a page in any
\* order; none of them brings back a row written earlier. A row disappears only from an
\* Authorize page, and only once its session tracks another transaction.
PagesNeverGoBack ==
    [][\A p \in Pages, t \in Transactions :
          \/ shown'[p][t] >= shown[p][t]
          \/ kind[p] = "Authorize" /\ shown'[p][t] = 0 /\ current[home[p]] # t]_vars

\* Webhook handlers run in every tab, but an Authorize page draws a transaction
\* only in the tab that started it, also after that tab has moved on.
ShownInOneTab ==
    \A p, q \in Pages, t \in Transactions :
        /\ kind[p] = "Authorize" /\ shown[p][t] > 0
        /\ kind[q] = "Authorize" /\ shown[q][t] > 0
        => home[p] = home[q]

\* The sessions of the circuits implement TabTransactions.
Stored == {t \in Transactions : row[t] > 0}

BeingTracked ==
    {t \in Transactions : \E k \in Calls : calls[k].pc = "stored" /\ calls[k].txn = t}

Tabs == INSTANCE TabTransactions
        WITH Tabs <- Circuits, Nobody <- Null, stored <- Stored,
             taken <- Stored \ BeingTracked, followed <- current

TabsSpec == Tabs!Spec

\* A webhook that found its row is answered, 200 or 500: no handler waits for
\* ever for a dispatcher, whatever pages are opened and left meanwhile.
WebhooksAnswered == \A h \in Hooks : hooks[h].pc = "marked" ~> hooks[h].pc = "idle"

\* Every UI call ends, with an answer or when the HTTP client gives up, although
\* webhooks draw on the same dispatchers and RusAuth need never reply.
CallsEnd == \A k \in Calls : calls[k].pc # "idle" ~> calls[k].pc = "idle"

\* Every Authorize page that shows a transaction is never older than its
\* answered webhook. It does not hold: a page opened while another page's start
\* was awaited is not drawn when that start replaces the session's transaction,
\* and from then on drops the webhook of the transaction it shows.
ShownIsAnswered ==
    \A p \in Pages, t \in Transactions :
        /\ stage[p] = "live" /\ kind[p] = "Authorize"
        /\ \A k \in Calls : calls[k].pc # "idle" => home[calls[k].page] # home[p]
        => NotOlder(p, t, answered[t])

=============================================================================
