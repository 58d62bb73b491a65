----------------------------- MODULE MainLayout -----------------------------
(***************************************************************************)
(* MainLayout around the pages of PageActions: what it shows of the        *)
(* session, and when it is drawn.  It is a component of the same circuit,  *)
(* above the page; it is drawn by the router, around each new page, and    *)
(* by nothing else: StateHasChanged of a page draws that page only.        *)
(*                                                                         *)
(* It reads the two messages of the session one after the other, on the    *)
(* dispatcher, while webhook threads write them; a drawing is two steps.   *)
(***************************************************************************)
EXTENDS PageActions

VARIABLES
    layout,  \* the session as MainLayout drew it last
    begun    \* what a drawing that is under way has read so far, or None

lvars == <<vars, layout, begun>>

\* What MainLayout shows of the session: in the heading whether a transaction is
\* active, and the messages. It reads the heading and InfoMessage first.
Header  == [info |-> info, error |-> error, tracked |-> tracked]
Heading == [info |-> info, tracked |-> tracked]

LayoutTypeOK ==
    /\ layout \in [info : {None, "call", "hook"}, error : {None, "failure"},
                   tracked : BOOLEAN]
    /\ begun = None \/ begun \in [info : {None, "call", "hook"}, tracked : BOOLEAN]

LayoutInit == Init /\ layout = Header /\ begun = None

\* Fault: a drawing begins while a press still runs.
DrawingBeginsAtOnce ==
    /\ begun = None
    /\ begun' = Heading
    /\ UNCHANGED <<vars, layout>>

\* A link was followed: the router begins to draw the layout.
DrawingBegins ==
    /\ DispatcherFree
    /\ begun = None
    /\ begun' = Heading
    /\ UNCHANGED <<vars, layout>>

\* ErrorMessage is read, and the body drawn: a new instance of the other page,
\* or the page that is shown, where the link leads to it.
DrawingEnds ==
    /\ begun # None
    /\ layout' = [info |-> begun.info, error |-> error, tracked |-> begun.tracked]
    /\ begun' = None
    /\ Navigate \/ UNCHANGED vars

\* What the dispatcher runs draws a page, or nothing; it waits for the layout.
DispatcherRuns ==
    /\ begun = None
    /\ \/ \E k \in Calls : Begin(k) \/ Answered(k) \/ Failed(k) \/ Runs(k)
       \/ \E h \in Hooks : HandlerDraws(h)
    /\ UNCHANGED <<layout, begun>>

\* What happens off the dispatcher does not wait.
OthersRun ==
    /\ \/ \E k \in Calls : Press(k) \/ Drop(k)
       \/ \E h \in Hooks : \/ HandlerCalled(h) \/ HandlerSetsInfo(h)
                           \/ HandlerClearsError(h) \/ HandlerClearsLocal(h)
       \/ Deliver
    /\ UNCHANGED <<layout, begun>>

LayoutNext == DrawingBegins \/ DrawingEnds \/ DispatcherRuns \/ OthersRun

LayoutSpec == LayoutInit /\ [][LayoutNext]_lvars

\* A drawing that has begun goes on (weak).
LayoutFairSpec == LayoutSpec /\ Fairness /\ WF_lvars(DrawingEnds)

---------------------------------------------------------------------------
\* The layout draws both messages where it finds both, and then shows them until
\* the next navigation. That happens only where it reads ErrorMessage between
\* the two assignments of a webhook's SetInfo: no press can be caught half done,
\* and a message it has already read is not taken back while it goes on.
BothShownOnlyIfTorn ==
    [][layout' # layout /\ layout'.info # None /\ layout'.error # None
          => \E h \in Hooks : hooks[h] = "infoClearsError"]_lvars

\* "After the callback the screen updates automatically": when all calls and
\* handlers are over, the layout shows the session's messages and transaction.
\* It does not hold: the message of a call or of a webhook, which only the
\* layout draws, appears at the next navigation.
LayoutIsCurrent ==
    /\ \A k \in Calls : calls[k] = "idle"
    /\ \A h \in Hooks : hooks[h] = "idle"
    /\ begun = None
    => layout = Header

=============================================================================
