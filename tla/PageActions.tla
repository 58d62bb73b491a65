---------------------------- MODULE PageActions ----------------------------
(***************************************************************************)
(* What the buttons and the webhooks of one tab do to its messages: the    *)
(* pages Authorize and Account and the unlocked fields of their            *)
(* ExampleAuthSession, which the handlers of webhooks write from the       *)
(* threads of the web server.                                              *)
(*                                                                         *)
(* Each method of the session writes two fields, so a step here is one     *)
(* assignment.  Of a message only its origin is kept.  Navigation replaces *)
(* the page; what the old instance still runs goes on in the session, but  *)
(* its own fields concern nobody any more.  Which transaction a call is    *)
(* about is left to ConfirmationProtocol.                                  *)
(***************************************************************************)
CONSTANTS Calls,   \* button presses that may be under way together
          Hooks,   \* webhooks whose handler may run together
          None     \* null

ASSUME NoneAssumption == None \notin {"call", "hook", "failure"}

VARIABLES
    info,        \* ExampleAuthSession.InfoMessage
    error,       \* ExampleAuthSession.ErrorMessage
    tracked,     \* ExampleAuthSession.CurrentTransactionId is set
    page,        \* the component the tab shows
    localError,  \* Authorize.LocalError of the page instance shown
    busy,        \* Authorize.IsBusy of that instance
    drawn,       \* that instance as the server drew it last
    disabled,    \* its buttons as the browser has them
    calls,       \* where each press is
    hooks,       \* where each handler is
    oldCalls,    \* the presses that belong to a page the tab has left
    oldHooks,    \* the handlers that do
    told         \* history: what became of the session's last message

session == <<info, error, tracked>>
screen  == <<page, localError, busy, drawn, disabled>>
vars    == <<session, screen, calls, hooks, oldCalls, oldHooks, told>>

\* The pieces of ExecuteAsync, of RefreshAsync and of the handlers, each named
\* for the assignment that comes next.
CallPc ==
    {"idle", "pressed", "clearInfo", "clearError", "starting", "checking",
     "answered", "setInfo", "infoClearsError",
     "failed", "errorClearsInfo", "setLocalError", "finally",
     "refresh", "refreshClearInfo", "refreshClearError"}

HookPc == {"idle", "called", "infoClearsError", "clearLocalError", "drawing"}

\* The places where a press does not hold the dispatcher of the circuit.
Waiting == {"idle", "pressed", "starting", "checking", "refresh"}

\* What the Authorize page draws of its own fields.
Body == [busy |-> busy, error |-> localError]

NewBody == [busy |-> FALSE, error |-> None]

\* The one type invariant.
TypeOK ==
    /\ info       \in {None, "call", "hook"}
    /\ error      \in {None, "failure"}
    /\ tracked    \in BOOLEAN
    /\ page       \in {"Authorize", "Account"}
    /\ localError \in {None, "failure"}
    /\ busy       \in BOOLEAN
    /\ drawn      \in [busy : BOOLEAN, error : {None, "failure"}]
    /\ disabled   \in BOOLEAN
    /\ calls      \in [Calls -> CallPc]
    /\ hooks      \in [Hooks -> HookPc]
    /\ oldCalls   \in SUBSET Calls
    /\ oldHooks   \in SUBSET Hooks
    /\ told       \in {"cleared", "set", "crossed"}

Init ==
    /\ info = None /\ error = None /\ tracked = FALSE
    /\ page \in {"Authorize", "Account"}
    /\ localError = None /\ busy = FALSE /\ drawn = NewBody /\ disabled = FALSE
    /\ calls = [k \in Calls |-> "idle"]
    /\ hooks = [h \in Hooks |-> "idle"]
    /\ oldCalls = {} /\ oldHooks = {}
    /\ told = "cleared"

DispatcherFree == \A k \in Calls : calls[k] \in Waiting

\* A press, or a handler, goes from one place to the next; at the last one it
\* belongs to no page any more.
Goes(k, from, to) ==
    /\ calls[k] = from
    /\ calls' = [calls EXCEPT ![k] = to]
    /\ oldCalls' = IF to = "idle" THEN oldCalls \ {k} ELSE oldCalls
    /\ UNCHANGED <<hooks, oldHooks>>

HookGoes(h, from, to) ==
    /\ hooks[h] = from
    /\ hooks' = [hooks EXCEPT ![h] = to]
    /\ oldHooks' = IF to = "idle" THEN oldHooks \ {h} ELSE oldHooks
    /\ UNCHANGED <<calls, oldCalls>>

\* An assignment to a field of the page: of the one that is shown, or of one
\* that is gone.
Mine(k, new, old) == IF k \in oldCalls THEN old ELSE new
HookMine(h, new, old) == IF h \in oldHooks THEN old ELSE new

---------------------------------------------------------------------------
\* A link to the other page: the router makes a new instance of it. (A link to
\* the page that is shown keeps its instance.)
Navigate ==
    /\ DispatcherFree
    /\ page' = IF page = "Authorize" THEN "Account" ELSE "Authorize"
    /\ localError' = None /\ busy' = FALSE /\ drawn' = NewBody /\ disabled' = FALSE
    /\ oldCalls' = {k \in Calls : calls[k] # "idle"}
    /\ oldHooks' = {h \in Hooks : hooks[h] # "idle"}
    /\ UNCHANGED <<session, calls, hooks, told>>

\* The browser sends a press of a button it has enabled; the server takes it
\* when its turn comes, whatever it has drawn meanwhile: no method tests IsBusy.
Press(k) ==
    /\ ~disabled
    /\ \/ page = "Authorize" /\ Goes(k, "idle", "pressed")
       \/ Goes(k, "idle", "refresh")
    /\ UNCHANGED <<session, screen, told>>

\* A press that comes too late for its page is dropped.
Drop(k) ==
    /\ k \in oldCalls
    /\ Goes(k, "pressed", "idle") \/ Goes(k, "refresh", "idle")
    /\ UNCHANGED <<session, screen, told>>

\* ExecuteAsync, up to the messages: LocalError = null; IsBusy = true.
Begin(k) ==
    /\ DispatcherFree
    /\ k \notin oldCalls
    /\ Goes(k, "pressed", "clearInfo")
    /\ localError' = None
    /\ busy' = TRUE
    /\ UNCHANGED <<session, page, drawn, disabled, told>>

\* ClearMessages, first field.
ClearInfo(k) ==
    /\ Goes(k, "clearInfo", "clearError")
    /\ info' = None
    /\ told' = "cleared"
    /\ UNCHANGED <<error, tracked, screen>>

\* ClearMessages, second field. The call is sent and the page drawn while it is
\* awaited; a check without a current transaction throws before that.
ClearError(k) ==
    /\ error' = None
    /\ \/ /\ Goes(k, "clearError", "starting")
          /\ drawn' = Body
       \/ /\ tracked
          /\ Goes(k, "clearError", "checking")
          /\ drawn' = Body
       \/ /\ ~tracked
          /\ Goes(k, "clearError", "failed")
          /\ UNCHANGED drawn
    /\ UNCHANGED <<info, tracked, page, localError, busy, disabled, told>>

\* The reply is there: StartConfirmationAsync tracks a transaction,
\* CheckCurrentConfirmationAsync only tells what it heard.
Answered(k) ==
    /\ DispatcherFree
    /\ Goes(k, "starting", "answered") \/ Goes(k, "checking", "setInfo")
    /\ UNCHANGED <<session, screen, told>>

\* TrackTransaction: CurrentTransactionId, then ErrorMessage = null.
TrackTransaction(k) ==
    /\ Goes(k, "answered", "setInfo")
    /\ tracked' = TRUE
    /\ error' = None
    /\ UNCHANGED <<info, screen, told>>

\* A message is written while a method that writes the other one is half done.
Told(crossing) == IF crossing \/ told = "crossed" THEN "crossed" ELSE "set"

SetErrorHalfDone == \E k \in Calls : calls[k] = "errorClearsInfo"

SetInfoHalfDone ==
    \/ \E k \in Calls : calls[k] = "infoClearsError"
    \/ \E h \in Hooks : hooks[h] = "infoClearsError"

\* SetInfo, first field.
SetInfo(k) ==
    /\ Goes(k, "setInfo", "infoClearsError")
    /\ info' = "call"
    /\ told' = Told(SetErrorHalfDone)
    /\ UNCHANGED <<error, tracked, screen>>

\* SetInfo, second field.
InfoClearsError(k) ==
    /\ Goes(k, "infoClearsError", "finally")
    /\ error' = None
    /\ UNCHANGED <<info, tracked, screen, told>>

\* The client threw.
Failed(k) ==
    /\ DispatcherFree
    /\ Goes(k, "starting", "failed") \/ Goes(k, "checking", "failed")
    /\ UNCHANGED <<session, screen, told>>

\* Fault: SetError clears the other field first.
SetErrorLast(k) ==
    \/ /\ Goes(k, "failed", "errorClearsInfo")
       /\ info' = None
       /\ UNCHANGED <<error, told>>
    \/ /\ Goes(k, "errorClearsInfo", "setLocalError")
       /\ error' = "failure"
       /\ told' = Told(SetInfoHalfDone)
       /\ UNCHANGED info

\* SetError: the message, then the other field.
SetErrorFields(k) ==
    \/ /\ Goes(k, "failed", "errorClearsInfo")
       /\ error' = "failure"
       /\ told' = Told(SetInfoHalfDone)
       /\ UNCHANGED info
    \/ /\ Goes(k, "errorClearsInfo", "setLocalError")
       /\ info' = None
       /\ UNCHANGED <<error, told>>

SetError(k) == SetErrorFields(k) /\ UNCHANGED <<tracked, screen>>

\* LocalError = ex.Message.
SetLocalError(k) ==
    /\ Goes(k, "setLocalError", "finally")
    /\ localError' = Mine(k, "failure", localError)
    /\ UNCHANGED <<session, page, busy, drawn, disabled, told>>

\* Fault: the buttons are drawn before IsBusy is reset.
FinallyDrawnFirst(k) ==
    /\ Goes(k, "finally", "idle")
    /\ busy' = Mine(k, FALSE, busy)
    /\ drawn' = Mine(k, Body, drawn)
    /\ UNCHANGED <<session, page, localError, disabled, told>>

\* Fault: the messages of the session are cleared when the action is over.
FinallyClears(k) ==
    /\ Goes(k, "finally", "idle")
    /\ busy' = Mine(k, FALSE, busy)
    /\ drawn' = Mine(k, [busy |-> FALSE, error |-> localError], drawn)
    /\ info' = None /\ error' = None
    /\ UNCHANGED <<tracked, page, localError, disabled, told>>

\* finally: IsBusy = false; the page is drawn when the handler is over.
Finally(k) ==
    /\ Goes(k, "finally", "idle")
    /\ busy' = Mine(k, FALSE, busy)
    /\ drawn' = Mine(k, [busy |-> FALSE, error |-> localError], drawn)
    /\ UNCHANGED <<session, page, localError, disabled, told>>

\* RefreshAsync of either page: ClearMessages, on Authorize LocalError = null,
\* and the drawing.
Refresh(k) ==
    \/ /\ DispatcherFree
       /\ k \notin oldCalls
       /\ Goes(k, "refresh", "refreshClearInfo")
       /\ UNCHANGED <<session, screen, told>>
    \/ /\ Goes(k, "refreshClearInfo", "refreshClearError")
       /\ info' = None
       /\ told' = "cleared"
       /\ UNCHANGED <<error, tracked, screen>>
    \/ /\ Goes(k, "refreshClearError", "idle")
       /\ error' = None
       /\ localError' = None
       /\ drawn' = [busy |-> busy, error |-> None]
       /\ UNCHANGED <<info, tracked, page, busy, disabled, told>>

---------------------------------------------------------------------------
\* OnConfirmationUpdatedAsync of the page that is shown, on the thread of a
\* webhook, with an update that concerns it.
HandlerCalled(h) ==
    /\ HookGoes(h, "idle", "called")
    /\ UNCHANGED <<session, screen, told>>

\* Both pages: Session.SetInfo, first and second field.
HandlerSetsInfo(h) ==
    /\ HookGoes(h, "called", "infoClearsError")
    /\ info' = "hook"
    /\ told' = Told(SetErrorHalfDone)
    /\ UNCHANGED <<error, tracked, screen>>

\* Account has no LocalError to clear; what the handler of a page that is gone
\* clears is nobody's.
HandlerClearsError(h) ==
    /\ HookGoes(h, "infoClearsError",
                IF page = "Authorize" THEN "clearLocalError" ELSE "drawing")
    /\ error' = None
    /\ UNCHANGED <<info, tracked, screen, told>>

\* Fault: LocalError is cleared after the drawing was asked for, unseen.
HandlerClearsUnseen(h) ==
    /\ HookGoes(h, "clearLocalError", "idle")
    /\ localError' = HookMine(h, None, localError)
    /\ UNCHANGED <<session, page, busy, drawn, disabled, told>>

\* LocalError = null, still on the webhook's thread.
HandlerClearsLocal(h) ==
    /\ HookGoes(h, "clearLocalError", "drawing")
    /\ localError' = HookMine(h, None, localError)
    /\ UNCHANGED <<session, page, busy, drawn, disabled, told>>

\* InvokeAsync(StateHasChanged): the page is drawn.
HandlerDraws(h) ==
    /\ DispatcherFree
    /\ HookGoes(h, "drawing", "idle")
    /\ drawn' = HookMine(h, Body, drawn)
    /\ UNCHANGED <<session, page, localError, busy, disabled, told>>

HandlerRuns(h) ==
    \/ HandlerSetsInfo(h) \/ HandlerClearsError(h)
    \/ HandlerClearsLocal(h) \/ HandlerDraws(h)

\* The browser applies what the server drew.
Deliver ==
    /\ disabled' = drawn.busy
    /\ UNCHANGED <<session, page, localError, busy, drawn>>
    /\ UNCHANGED <<calls, hooks, oldCalls, oldHooks, told>>

---------------------------------------------------------------------------
\* The code of a press that is not waiting for RusAuth or for its turn.
Runs(k) ==
    \/ ClearInfo(k) \/ ClearError(k)
    \/ TrackTransaction(k) \/ SetInfo(k) \/ InfoClearsError(k)
    \/ SetError(k) \/ SetLocalError(k) \/ Finally(k) \/ Refresh(k)

Next ==
    \/ \E k \in Calls :
          \/ Press(k) \/ Drop(k) \/ Begin(k)
          \/ Answered(k) \/ Failed(k) \/ Runs(k)
    \/ \E h \in Hooks : HandlerCalled(h) \/ HandlerRuns(h)
    \/ Navigate
    \/ Deliver

Spec == Init /\ [][Next]_vars

\* Running code runs on (weak). The dispatcher serves its queue in order, and a
\* call ends at the latest when the HTTP client gives up, so a press that waits
\* gets its turn (strong). The connection delivers what was drawn (weak).
Fairness ==
    /\ \A k \in Calls : /\ WF_vars(Runs(k))
                        /\ SF_vars(Begin(k) \/ Failed(k) \/ Refresh(k))
    /\ WF_vars(Deliver)

FairSpec == Spec /\ Fairness

---------------------------------------------------------------------------
\* No method of the session is half done, on the dispatcher or off it.
MethodsReturned ==
    /\ DispatcherFree
    /\ \A h \in Hooks : hooks[h] # "infoClearsError"

\* MainLayout draws both messages when both are set. No interleaving of calls
\* and webhook handlers leaves both set once their methods have returned: each
\* method sets its own field before it clears the other one.
NeverBothMessages ==
    MethodsReturned => info = None \/ error = None

\* A message stays until ClearMessages or the next message: none is lost,
\* unless SetInfo and SetError began to write while the other was half done, in
\* which case each can clear what the other has set.
MessageStandsUnlessCrossed ==
    MethodsReturned /\ told = "set" => info # None \/ error # None

\* Nothing of the page that is shown is under way.
AtRest ==
    /\ \A k \in Calls \ oldCalls : calls[k] \in {"idle", "pressed", "refresh"}
    /\ \A h \in Hooks \ oldHooks : hooks[h] \notin {"clearLocalError", "drawing"}

\* When no action is under way the buttons are, or are about to be, enabled:
\* neither a failure nor an overlap of two actions leaves the page busy.
IdleIsNotBusy == AtRest => ~busy /\ ~drawn.busy

\* The page at rest shows its LocalError as it is, although webhook threads
\* clear it while the dispatcher draws.
PageIsCurrent == AtRest => drawn.error = localError

\* A user whose buttons are disabled gets them back, whether RusAuth answers or
\* not, even if buttons were pressed twice.
ButtonsComeBack == disabled ~> ~disabled

=============================================================================
