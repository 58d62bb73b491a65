-------------------------- MODULE MainLayoutProofs --------------------------
(***************************************************************************)
(* Theorems about MainLayout: what holds of the pages and the session      *)
(* holds inside the layout, and what the layout can catch half done.       *)
(***************************************************************************)
EXTENDS MainLayout, PageActionsProofs

USE DEF session, screen

\* Around the pages, a step of the layout is one of theirs or none.
LEMMA NextInLayout == [LayoutNext]_lvars => [Next]_vars
<1> SUFFICES ASSUME [LayoutNext]_lvars PROVE Next \/ UNCHANGED vars
  OBVIOUS
<1>1. CASE DrawingBegins
  BY <1>1 DEF DrawingBegins
<1>2. CASE DrawingEnds
  BY <1>2 DEF DrawingEnds, Next
<1>3. CASE DispatcherRuns
  BY <1>3 DEF DispatcherRuns, HandlerRuns, Next
<1>4. CASE OthersRun
  BY <1>4 DEF OthersRun, HandlerRuns, Next
<1>5. CASE UNCHANGED lvars
  BY <1>5 DEF lvars
<1> QED
  BY <1>1, <1>2, <1>3, <1>4, <1>5 DEF LayoutNext

\* The pages inside the layout behave as PageActions says, so that every
\* property of theirs, the liveness included, holds of the whole tab.
THEOREM PagesInLayout == LayoutSpec => Spec
<1>1. LayoutInit => Init
  BY DEF LayoutInit
<1> QED
  BY <1>1, NextInLayout, PTL DEF LayoutSpec, Spec

THEOREM FairPagesInLayout == LayoutFairSpec => FairSpec
  BY PagesInLayout, PTL DEF LayoutFairSpec, FairSpec

\* The invariant of the pages, inside the layout.
LEMMA LayoutInvariance == LayoutSpec => []IInv
  BY PagesInLayout, Invariance, PTL

---------------------------------------------------------------------------
\* While a drawing is under way it has the dispatcher, and a message it has read
\* is still there or was replaced by a webhook's: whatever clears InfoMessage
\* runs on the dispatcher.
DrawingOK ==
    begun # None => DispatcherFree /\ (begun.info # None => info # None)

\* What runs off the dispatcher takes it from nobody and clears no InfoMessage.
LEMMA OthersKeepInfo ==
    ASSUME TypeOK, OthersRun
    PROVE  /\ DispatcherFree => DispatcherFree'
           /\ info # None => info' # None
<1>1. ASSUME NEW k \in Calls, Press(k) \/ Drop(k)
      PROVE  (DispatcherFree => DispatcherFree') /\ info' = info
  BY <1>1 DEF TypeOK, Press, Drop, Goes, DispatcherFree, Waiting
<1>2. ASSUME NEW h \in Hooks,
             \/ HandlerCalled(h) \/ HandlerSetsInfo(h)
             \/ HandlerClearsError(h) \/ HandlerClearsLocal(h)
      PROVE  UNCHANGED calls /\ (info # None => info' # None)
  BY <1>2, NoneAssumption DEF HandlerCalled, HandlerSetsInfo, HandlerClearsError,
     HandlerClearsLocal, HookGoes
<1>3. CASE Deliver
  BY <1>3 DEF Deliver, DispatcherFree
<1> QED
  BY <1>1, <1>2, <1>3 DEF OthersRun, DispatcherFree

LEMMA DrawingInvariance == LayoutSpec => []DrawingOK
<1>1. LayoutInit => DrawingOK
  BY DEF LayoutInit, DrawingOK
<1>2. IInv /\ DrawingOK /\ [LayoutNext]_lvars => DrawingOK'
  <2> SUFFICES ASSUME IInv, DrawingOK, [LayoutNext]_lvars PROVE DrawingOK'
    OBVIOUS
  <2>1. CASE DrawingBegins
    BY <2>1 DEF DrawingBegins, DrawingOK, Heading, vars, DispatcherFree
  <2>2. CASE DrawingEnds
    BY <2>2 DEF DrawingEnds, DrawingOK
  <2>3. CASE DispatcherRuns
    BY <2>3 DEF DispatcherRuns, DrawingOK
  <2>4. CASE OthersRun
    <3>1. UNCHANGED begun
      BY <2>4 DEF OthersRun
    <3> QED
      BY <2>4, <3>1, OthersKeepInfo DEF IInv, DrawingOK
  <2>5. CASE UNCHANGED lvars
    BY <2>5 DEF lvars, vars, DrawingOK, DispatcherFree
  <2> QED
    BY <2>1, <2>2, <2>3, <2>4, <2>5 DEF LayoutNext
<1> QED
  BY <1>1, <1>2, LayoutInvariance, PTL DEF LayoutSpec

\* What the layout shows is something the session has held.
THEOREM LayoutTypeCorrect == LayoutSpec => []LayoutTypeOK
<1>1. LayoutInit /\ IInv => LayoutTypeOK
  BY DEF LayoutInit, IInv, TypeOK, Header, LayoutTypeOK
<1>2. IInv /\ LayoutTypeOK /\ [LayoutNext]_lvars => LayoutTypeOK'
  BY DEF IInv, TypeOK, Heading, LayoutTypeOK, LayoutNext, DrawingBegins,
     DrawingEnds, DispatcherRuns, OthersRun, lvars
<1> QED
  BY <1>1, <1>2, LayoutInvariance, PTL DEF LayoutSpec

\* Among any number of presses and handlers, the layout begins to show both
\* messages only while a webhook's handler has written one of them and not yet
\* cleared the other: a press does both before it lets the layout be drawn.
THEOREM BothShownAreTorn == LayoutSpec => BothShownOnlyIfTorn
<1> DEFINE Torn == layout' # layout /\ layout'.info # None /\ layout'.error # None
                      => \E h \in Hooks : hooks[h] = "infoClearsError"
<1>1. IInv /\ DrawingOK /\ [LayoutNext]_lvars => Torn
  <2> SUFFICES ASSUME IInv, DrawingOK, [LayoutNext]_lvars, layout' # layout,
                      layout'.info # None, layout'.error # None
               PROVE  \E h \in Hooks : hooks[h] = "infoClearsError"
    OBVIOUS
  <2>1. DrawingEnds
    BY DEF LayoutNext, DrawingBegins, DispatcherRuns, OthersRun, lvars
  <2>2. DispatcherFree /\ info # None /\ error # None
    BY <2>1 DEF DrawingEnds, DrawingOK
  <2>3. SetInfoHalfDone \/ SetErrorHalfDone
    BY <2>2 DEF IInv, MessagesOK
  <2> QED
    BY <2>2, <2>3 DEF DispatcherFree, Waiting, SetInfoHalfDone, SetErrorHalfDone
<1> QED
  BY <1>1, LayoutInvariance, DrawingInvariance, PTL DEF LayoutSpec, BothShownOnlyIfTorn

=============================================================================
