------------------------- MODULE PageActionsProofs -------------------------
(***************************************************************************)
(* Theorems about PageActions, for any number of presses and of webhook    *)
(* handlers: two messages are never left standing, none is lost unless two *)
(* methods crossed, and a page at rest has its buttons and shows its error *)
(* as it is.                                                               *)
(***************************************************************************)
EXTENDS PageActions, TLAPS

USE DEF session, screen

\* The dispatcher runs one press at a time.
OneRuns == \A j, k \in Calls :
    calls[j] \notin Waiting /\ calls[k] \notin Waiting => j = k

\* Whoever made the second message stand is about to clear one of the two.
MessagesOK ==
    info # None /\ error # None => SetInfoHalfDone \/ SetErrorHalfDone

\* A message that was told stands, or the press that cleared it is about to
\* tell the next one; it stands in particular where the other field is about to
\* be cleared. Two methods that are half done at once have crossed.
StandsOK ==
    /\ SetInfoHalfDone /\ SetErrorHalfDone => told = "crossed"
    /\ told = "set" =>
          /\ \/ info # None \/ error # None
             \/ \E k \in Calls : calls[k] = "setInfo"
          /\ SetInfoHalfDone => info # None
          /\ SetErrorHalfDone => error # None
          /\ \A k \in Calls :
                calls[k] \in {"clearError", "refreshClearError"} => info # None

\* The places of a press between IsBusy = true and its finally.
Acting ==
    {"clearInfo", "clearError", "starting", "checking", "answered", "setInfo",
     "infoClearsError", "failed", "errorClearsInfo", "setLocalError", "finally"}

\* A page that is busy, was drawn busy or shows another LocalError than it has
\* is about to be drawn again, by an action or a handler of its own.
ActionUnderWay == \E k \in Calls \ oldCalls : calls[k] \in Acting
DrawingUnderWay == \E h \in Hooks \ oldHooks : hooks[h] = "drawing"

PageOK ==
    /\ busy \/ drawn.busy => ActionUnderWay
    /\ drawn.error # localError => ActionUnderWay \/ DrawingUnderWay

IInv == TypeOK /\ OneRuns /\ MessagesOK /\ StandsOK /\ PageOK


\* No message stands and nothing is under way at first.
LEMMA InitIInv == Init => IInv
<1> SUFFICES ASSUME Init PROVE IInv
  OBVIOUS
<1>1. TypeOK
  BY DEF Init, TypeOK, CallPc, HookPc, NewBody
<1>2. OneRuns /\ MessagesOK
  BY DEF Init, OneRuns, Waiting, MessagesOK
<1>3. StandsOK
  BY DEF Init, StandsOK, SetInfoHalfDone, SetErrorHalfDone
<1>4. PageOK
  BY DEF Init, PageOK, NewBody
<1> QED
  BY <1>1, <1>2, <1>3, <1>4 DEF IInv

\* A press or a handler that goes on keeps to its places.
LEMMA GoesType ==
    ASSUME TypeOK, NEW k \in Calls, NEW from, NEW to \in CallPc, Goes(k, from, to)
    PROVE  /\ calls' \in [Calls -> CallPc] /\ oldCalls' \in SUBSET Calls
           /\ hooks' \in [Hooks -> HookPc] /\ oldHooks' \in SUBSET Hooks
  BY DEF TypeOK, Goes

LEMMA HookGoesType ==
    ASSUME TypeOK, NEW h \in Hooks, NEW from, NEW to \in HookPc,
           HookGoes(h, from, to)
    PROVE  /\ calls' \in [Calls -> CallPc] /\ oldCalls' \in SUBSET Calls
           /\ hooks' \in [Hooks -> HookPc] /\ oldHooks' \in SUBSET Hooks
  BY DEF TypeOK, HookGoes

\* Every step keeps the types.
LEMMA TypeNext == TypeOK /\ [Next]_vars => TypeOK'
<1> SUFFICES ASSUME TypeOK, [Next]_vars PROVE TypeOK'
  OBVIOUS
<1>0. ASSUME NEW k \in Calls, NEW from, NEW to \in CallPc, Goes(k, from, to),
             UNCHANGED <<session, screen, told>>
      PROVE  TypeOK'
  BY <1>0, GoesType DEF TypeOK
<1>1. ASSUME NEW k \in Calls, Press(k) \/ Drop(k) \/ Answered(k) \/ Failed(k)
      PROVE  TypeOK'
  BY <1>0, <1>1 DEF CallPc, Press, Drop, Answered, Failed
<1>2. ASSUME NEW k \in Calls, Begin(k) PROVE TypeOK'
  BY <1>2, GoesType DEF TypeOK, CallPc, Begin
<1>3. ASSUME NEW k \in Calls, ClearInfo(k) \/ TrackTransaction(k) PROVE TypeOK'
  BY <1>3, GoesType DEF TypeOK, CallPc, ClearInfo, TrackTransaction
<1>4. ASSUME NEW k \in Calls, ClearError(k) PROVE TypeOK'
  BY <1>4, GoesType DEF TypeOK, CallPc, ClearError, Body
<1>5. ASSUME NEW k \in Calls, SetInfo(k) \/ InfoClearsError(k) PROVE TypeOK'
  BY <1>5, GoesType DEF TypeOK, CallPc, SetInfo, InfoClearsError, Told
<1>6. ASSUME NEW k \in Calls, SetError(k) PROVE TypeOK'
  <2>1. CASE Goes(k, "failed", "errorClearsInfo")
    BY <1>6, <2>1, GoesType DEF TypeOK, CallPc, SetError, SetErrorFields, Told, Goes
  <2>2. CASE Goes(k, "errorClearsInfo", "setLocalError")
    BY <1>6, <2>2, GoesType DEF TypeOK, CallPc, SetError, SetErrorFields, Told, Goes
  <2> QED
    BY <1>6, <2>1, <2>2 DEF SetError, SetErrorFields
<1>7. ASSUME NEW k \in Calls, SetLocalError(k) \/ Finally(k) PROVE TypeOK'
  <2>1. CASE SetLocalError(k)
    BY <2>1, GoesType DEF TypeOK, CallPc, SetLocalError, Mine
  <2>2. CASE Finally(k)
    BY <2>2, GoesType DEF TypeOK, CallPc, Finally, Mine
  <2> QED
    BY <1>7, <2>1, <2>2
<1>8. ASSUME NEW k \in Calls, Refresh(k) PROVE TypeOK'
  BY <1>8, GoesType DEF TypeOK, CallPc, Refresh
<1>9. ASSUME NEW h \in Hooks, HandlerCalled(h) \/ HandlerRuns(h) PROVE TypeOK'
  BY <1>9, HookGoesType DEF TypeOK, HookPc, HandlerCalled, HandlerRuns,
     HandlerSetsInfo, HandlerClearsError, HandlerClearsLocal, HandlerDraws,
     Told, HookMine, Body
<1>10. CASE Navigate
  BY <1>10 DEF TypeOK, Navigate, NewBody
<1>11. CASE Deliver \/ UNCHANGED vars
  BY <1>11 DEF TypeOK, Deliver, vars
<1> QED
  BY <1>1, <1>2, <1>3, <1>4, <1>5, <1>6, <1>7, <1>8, <1>9, <1>10, <1>11 DEF Next, Runs

\* A press starts to run only while no other one does.
LEMMA OneRunsNext == TypeOK /\ OneRuns /\ [Next]_vars => OneRuns'
<1> SUFFICES ASSUME TypeOK, OneRuns, [Next]_vars PROVE OneRuns'
  OBVIOUS
<1>1. ASSUME NEW k \in Calls, NEW from, NEW to, Goes(k, from, to),
             DispatcherFree \/ to \in Waiting \/ from \notin Waiting
      PROVE  OneRuns'
  BY <1>1 DEF TypeOK, OneRuns, Goes, DispatcherFree
<1>2. ASSUME NEW k \in Calls, Press(k) \/ Drop(k) \/ Begin(k) \/ Answered(k) \/ Failed(k)
      PROVE  OneRuns'
  BY <1>1, <1>2 DEF Waiting, Press, Drop, Begin, Answered, Failed
<1>3. ASSUME NEW k \in Calls, Runs(k) PROVE OneRuns'
  BY <1>1, <1>3 DEF Waiting, Runs, ClearInfo, ClearError, TrackTransaction, SetInfo,
     InfoClearsError, SetError, SetErrorFields, SetLocalError, Finally, Refresh
<1>4. CASE UNCHANGED calls
  BY <1>4 DEF OneRuns
<1>5. ASSUME NEW h \in Hooks, HandlerCalled(h) \/ HandlerRuns(h)
      PROVE  UNCHANGED calls
  BY <1>5 DEF HandlerCalled, HandlerRuns, HandlerSetsInfo, HandlerClearsError,
     HandlerClearsLocal, HandlerDraws, HookGoes
<1> QED
  BY <1>2, <1>3, <1>4, <1>5 DEF Next, Navigate, Deliver, vars

\* A step either leaves one message cleared, or is followed by the assignment
\* that clears it.
LEMMA MessagesNext == TypeOK /\ MessagesOK /\ [Next]_vars => MessagesOK'
<1> SUFFICES ASSUME TypeOK, MessagesOK, [Next]_vars PROVE MessagesOK'
  OBVIOUS
<1> USE DEF MessagesOK, SetInfoHalfDone, SetErrorHalfDone
<1>1. ASSUME NEW k \in Calls, Press(k) \/ Drop(k) \/ Begin(k) \/ Answered(k) \/ Failed(k)
      PROVE  MessagesOK'
  BY <1>1 DEF TypeOK, Goes, Press, Drop, Begin, Answered, Failed
<1>2. ASSUME NEW k \in Calls, ClearInfo(k) \/ ClearError(k) \/ TrackTransaction(k)
      PROVE  MessagesOK'
  BY <1>2 DEF TypeOK, Goes, ClearInfo, ClearError, TrackTransaction
<1>3. ASSUME NEW k \in Calls, SetInfo(k) \/ InfoClearsError(k) PROVE MessagesOK'
  BY <1>3 DEF TypeOK, Goes, SetInfo, InfoClearsError
<1>4. ASSUME NEW k \in Calls, SetError(k) \/ SetLocalError(k) PROVE MessagesOK'
  BY <1>4 DEF TypeOK, Goes, SetError, SetErrorFields, SetLocalError
<1>5. ASSUME NEW k \in Calls, Finally(k) \/ Refresh(k) PROVE MessagesOK'
  BY <1>5 DEF TypeOK, Goes, Finally, Refresh
<1>6. ASSUME NEW h \in Hooks, HandlerCalled(h) \/ HandlerRuns(h) PROVE MessagesOK'
  BY <1>6 DEF TypeOK, HookGoes, HandlerCalled, HandlerRuns, HandlerSetsInfo,
     HandlerClearsError, HandlerClearsLocal, HandlerDraws
<1>7. CASE Navigate \/ Deliver \/ UNCHANGED vars
  BY <1>7 DEF Navigate, Deliver, vars
<1> QED
  BY <1>1, <1>2, <1>3, <1>4, <1>5, <1>6, <1>7 DEF Next, Runs

\* A message is cleared by ClearMessages, or as the next one is written; by
\* another method that is half done only if the two have crossed.
LEMMA StandsNext ==
    TypeOK /\ OneRuns /\ StandsOK /\ [Next]_vars => StandsOK'
<1> SUFFICES ASSUME TypeOK, OneRuns, StandsOK, [Next]_vars PROVE StandsOK'
  OBVIOUS
<1> USE DEF StandsOK, SetInfoHalfDone, SetErrorHalfDone
<1>1. ASSUME NEW k \in Calls, Press(k) \/ Drop(k) \/ Begin(k) \/ Answered(k) \/ Failed(k)
      PROVE  StandsOK'
  BY <1>1 DEF TypeOK, Goes, Press, Drop, Begin, Answered, Failed
<1>2. ASSUME NEW k \in Calls, ClearInfo(k) PROVE StandsOK'
  BY <1>2 DEF TypeOK, OneRuns, Waiting, Goes, ClearInfo
<1>3. ASSUME NEW k \in Calls, ClearError(k) PROVE StandsOK'
  BY <1>3 DEF TypeOK, OneRuns, Waiting, Goes, ClearError
<1>4. ASSUME NEW k \in Calls, TrackTransaction(k) PROVE StandsOK'
  BY <1>4 DEF TypeOK, OneRuns, Waiting, Goes, TrackTransaction
<1>5. ASSUME NEW k \in Calls, SetInfo(k) PROVE StandsOK'
  BY <1>5, NoneAssumption DEF TypeOK, OneRuns, Waiting, Goes, SetInfo, Told
<1>6. ASSUME NEW k \in Calls, InfoClearsError(k) PROVE StandsOK'
  BY <1>6 DEF TypeOK, OneRuns, Waiting, Goes, InfoClearsError
<1>7. ASSUME NEW k \in Calls, SetError(k) PROVE StandsOK'
  <2>1. CASE Goes(k, "failed", "errorClearsInfo")
    BY <1>7, <2>1, NoneAssumption DEF TypeOK, OneRuns, Waiting, Goes, SetError,
       SetErrorFields, Told
  <2>2. CASE Goes(k, "errorClearsInfo", "setLocalError")
    BY <1>7, <2>2 DEF TypeOK, OneRuns, Waiting, Goes, SetError, SetErrorFields
  <2> QED
    BY <1>7, <2>1, <2>2 DEF SetError, SetErrorFields, Told
<1>8. ASSUME NEW k \in Calls, SetLocalError(k) \/ Finally(k) PROVE StandsOK'
  BY <1>8 DEF TypeOK, Goes, SetLocalError, Finally
<1>9. ASSUME NEW k \in Calls, Refresh(k) PROVE StandsOK'
  BY <1>9 DEF TypeOK, OneRuns, Waiting, Goes, Refresh
<1>10. ASSUME NEW h \in Hooks, HandlerSetsInfo(h) PROVE StandsOK'
  BY <1>10, NoneAssumption DEF TypeOK, HookGoes, HandlerSetsInfo, Told
<1>11. ASSUME NEW h \in Hooks, HandlerClearsError(h) PROVE StandsOK'
  BY <1>11 DEF TypeOK, HookGoes, HandlerClearsError
<1>12. ASSUME NEW h \in Hooks,
              HandlerCalled(h) \/ HandlerClearsLocal(h) \/ HandlerDraws(h)
       PROVE  StandsOK'
  BY <1>12 DEF TypeOK, HookGoes, HandlerCalled, HandlerClearsLocal, HandlerDraws
<1>13. CASE Navigate \/ Deliver \/ UNCHANGED vars
  BY <1>13 DEF Navigate, Deliver, vars
<1> QED
  BY <1>1, <1>2, <1>3, <1>4, <1>5, <1>6, <1>7, <1>8, <1>9, <1>10, <1>11, <1>12,
     <1>13 DEF Next, Runs, HandlerRuns

\* What a page sets of its own is drawn by the action, or the handler, that set
\* it; an old page's actions leave the page that is shown alone.
LEMMA PageNext == TypeOK /\ PageOK /\ [Next]_vars => PageOK'
<1> SUFFICES ASSUME TypeOK, PageOK, [Next]_vars PROVE PageOK'
  OBVIOUS
<1> USE DEF PageOK, ActionUnderWay, DrawingUnderWay, Acting
<1>1. ASSUME NEW k \in Calls, Press(k) \/ Drop(k) \/ Begin(k) \/ Answered(k) \/ Failed(k)
      PROVE  PageOK'
  BY <1>1 DEF TypeOK, Goes, Press, Drop, Begin, Answered, Failed
<1>2. ASSUME NEW k \in Calls, ClearInfo(k) \/ TrackTransaction(k) \/ SetInfo(k)
                              \/ InfoClearsError(k)
      PROVE  PageOK'
  BY <1>2 DEF TypeOK, Goes, ClearInfo, TrackTransaction, SetInfo, InfoClearsError
<1>3. ASSUME NEW k \in Calls, ClearError(k) PROVE PageOK'
  BY <1>3 DEF TypeOK, Goes, ClearError, Body
<1>4. ASSUME NEW k \in Calls, SetError(k) PROVE PageOK'
  BY <1>4 DEF TypeOK, Goes, SetError, SetErrorFields
<1>5. ASSUME NEW k \in Calls, SetLocalError(k) PROVE PageOK'
  BY <1>5 DEF TypeOK, Goes, SetLocalError, Mine
<1>6. ASSUME NEW k \in Calls, Finally(k) PROVE PageOK'
  BY <1>6 DEF TypeOK, Goes, Finally, Mine
<1>7. ASSUME NEW k \in Calls, Refresh(k) PROVE PageOK'
  BY <1>7 DEF TypeOK, Goes, Refresh
<1>8. ASSUME NEW h \in Hooks, HandlerCalled(h) \/ HandlerSetsInfo(h) \/ HandlerClearsError(h)
      PROVE  PageOK'
  BY <1>8 DEF TypeOK, HookGoes, HandlerCalled, HandlerSetsInfo, HandlerClearsError
<1>9. ASSUME NEW h \in Hooks, HandlerClearsLocal(h) PROVE PageOK'
  BY <1>9 DEF TypeOK, HookGoes, HandlerClearsLocal, HookMine
<1>10. ASSUME NEW h \in Hooks, HandlerDraws(h) PROVE PageOK'
  BY <1>10 DEF TypeOK, HookGoes, HandlerDraws, HookMine, Body
<1>11. CASE Navigate
  BY <1>11 DEF Navigate, NewBody
<1>12. CASE Deliver \/ UNCHANGED vars
  BY <1>12 DEF Deliver, vars
<1> QED
  BY <1>1, <1>2, <1>3, <1>4, <1>5, <1>6, <1>7, <1>8, <1>9, <1>10, <1>11, <1>12
  DEF Next, Runs, HandlerRuns

\* The invariant the theorems below follow from.
LEMMA Invariance == Spec => []IInv
<1>1. IInv /\ [Next]_vars => IInv'
  BY TypeNext, OneRunsNext, MessagesNext, StandsNext, PageNext DEF IInv
<1> QED
  BY <1>1, InitIInv, PTL DEF Spec

\* Every variable keeps its type, wherever presses and handlers overlap.
THEOREM TypeCorrect == Spec => []TypeOK
<1>1. IInv => TypeOK
  BY DEF IInv
<1> QED
  BY <1>1, Invariance, PTL

\* SetInfo and SetError, run by any number of threads without a lock, never
\* leave both messages set.
THEOREM MessagesExclude == Spec => []NeverBothMessages
<1>1. IInv => NeverBothMessages
  BY DEF IInv, TypeOK, MessagesOK, SetInfoHalfDone, SetErrorHalfDone,
     NeverBothMessages, MethodsReturned, DispatcherFree, Waiting
<1> QED
  BY <1>1, Invariance, PTL

\* Among any number of threads, the one way to lose a message is that SetInfo
\* and SetError are half done together.
THEOREM MessagesStand == Spec => []MessageStandsUnlessCrossed
<1>1. IInv => MessageStandsUnlessCrossed
  BY DEF IInv, StandsOK, MessageStandsUnlessCrossed, MethodsReturned,
     DispatcherFree, Waiting
<1> QED
  BY <1>1, Invariance, PTL

\* Whatever actions overlap, fail or outlive their page, the page that is shown
\* is not left busy.
THEOREM IdlePagesAreNotBusy == Spec => []IdleIsNotBusy
<1>1. IInv => IdleIsNotBusy
  BY DEF IInv, PageOK, ActionUnderWay, Acting, IdleIsNotBusy, AtRest
<1> QED
  BY <1>1, Invariance, PTL

\* Whatever threads clear LocalError while the dispatcher draws, the page at
\* rest shows it as it is.
THEOREM PagesAreCurrent == Spec => []PageIsCurrent
<1>1. IInv => PageIsCurrent
  BY DEF IInv, PageOK, ActionUnderWay, Acting, DrawingUnderWay, PageIsCurrent, AtRest
<1> QED
  BY <1>1, Invariance, PTL

=============================================================================
