------------------------- MODULE LivePagesRefinement -------------------------
(***************************************************************************)
(* The open journal pages implement JournalScreens: each step of the pages,*)
(* calls and webhooks is one of its steps or leaves its state alone.  What *)
(* those steps draw, and in whose tab, then shows that no page goes back   *)
(* to an older row and that the sessions implement TabTransactions.        *)
(***************************************************************************)
EXTENDS LivePagesProofs

USE DEF pageVars

\* What is open and seen, page by page.
LEMMA ReadersByPage ==
    ASSUME NEW p \in Pages
    PROVE  /\ p \in OpenJournals <=> stage[p] = "live" /\ kind[p] = "Account"
           /\ SeenByReaders[p] = IF p \in OpenJournals THEN shown[p] ELSE NoRevision
  BY DEF OpenJournals, SeenByReaders

\* A drawing shows an open journal page the journal, and the readers of the
\* other pages nothing.
LEMMA DrawnScreens ==
    ASSUME Typed, NEW p \in Pages, shown' = Drawn(p),
           UNCHANGED <<row, kind, stage, answered>>
    PROVE  Screens!Draw(p) \/ UNCHANGED Screens!svars
<1>1. OpenJournals' = OpenJournals
  BY DEF OpenJournals
<1>2. CASE p \in OpenJournals
  <2>1. shown' = [shown EXCEPT ![p] = row] /\ shown'[p] = row
    BY <1>2 DEF Typed, OpenJournals, Drawn, View, AccountView
  <2>2. SeenByReaders' = [SeenByReaders EXCEPT ![p] = row]
    BY <1>1, <1>2, <2>1 DEF Typed, SeenByReaders
  <2>3. OpenJournals' = OpenJournals \cup {p}
    BY <1>1, <1>2
  <2> QED
    BY <2>2, <2>3 DEF Screens!Draw
<1>3. CASE p \notin OpenJournals
  <2>1. \A q \in OpenJournals : shown'[q] = shown[q]
    BY <1>3 DEF Typed, OpenJournals, Drawn
  <2>2. SeenByReaders' = SeenByReaders
    BY <1>1, <2>1 DEF SeenByReaders
  <2> QED
    BY <1>1, <2>2 DEF Screens!svars
<1> QED
  BY <1>2, <1>3

\* A write is seen by no reader before a page is drawn.
LEMMA WrittenScreens ==
    ASSUME NEW t \in Transactions, row' = [row EXCEPT ![t] = @ + 1],
           UNCHANGED <<kind, stage, shown, answered>>
    PROVE  Screens!Write(t)
<1>1. OpenJournals' = OpenJournals /\ SeenByReaders' = SeenByReaders
  BY DEF OpenJournals, SeenByReaders
<1> QED
  BY <1>1 DEF Screens!Write

\* The pages of a tab that are left are closed.
LEMMA OpenPageScreens ==
    ASSUME Typed, NEW c \in Circuits, NEW p \in Pages, OpenPage(c, p)
    PROVE  \E closed \in SUBSET Pages : Screens!Close(closed)
<1> DEFINE closed == {q \in Pages : home[q] = c /\ stage[q] = "live"}
<1>1. \A q \in Pages :
         stage'[q] = "live" <=> stage[q] = "live" /\ q \notin closed
  BY DEF OpenPage
<1>2. UNCHANGED <<row, kind, shown, answered>>
  BY DEF OpenPage
<1>3. closed \in SUBSET Pages
  OBVIOUS
<1> HIDE DEF closed
<1>4. OpenJournals' = OpenJournals \ closed
  BY <1>1, <1>2 DEF OpenJournals
<1>5. SeenByReaders' = [q \in Pages |-> IF q \in closed THEN NoRevision
                                        ELSE SeenByReaders[q]]
  BY <1>2, <1>4 DEF SeenByReaders
<1>6. Screens!Close(closed)
  BY <1>2, <1>4, <1>5 DEF Screens!Close, Screens!Blank, NoRevision
<1> QED
  BY <1>3, <1>6

\* The first drawing opens a screen.
LEMMA FirstRenderScreens ==
    ASSUME Typed, NEW p \in Pages, FirstRender(p)
    PROVE  Screens!Draw(p) \/ UNCHANGED Screens!svars
<1>1. /\ stage' = [stage EXCEPT ![p] = "live"] /\ stage[p] # "live"
      /\ shown' = [shown EXCEPT ![p] = View(p)]
      /\ UNCHANGED <<row, kind, answered>>
  BY DEF FirstRender
<1>2. \A q \in Pages : q # p => stage'[q] = stage[q] /\ shown'[q] = shown[q]
  BY <1>1 DEF Typed
<1>3. stage'[p] = "live"
  BY <1>1 DEF Typed
<1>4. CASE kind[p] = "Account"
  <2>1. shown'[p] = row
    BY <1>1, <1>4 DEF Typed, View, AccountView
  <2>2. OpenJournals' = OpenJournals \cup {p}
    BY <1>1, <1>2, <1>3, <1>4 DEF OpenJournals
  <2>3. SeenByReaders' = [SeenByReaders EXCEPT ![p] = row]
    BY <1>2, <2>1, <2>2 DEF SeenByReaders
  <2> QED
    BY <1>1, <2>2, <2>3 DEF Screens!Draw
<1>5. CASE kind[p] # "Account"
  <2>1. OpenJournals' = OpenJournals /\ p \notin OpenJournals
    BY <1>1, <1>2, <1>5 DEF OpenJournals
  <2>2. SeenByReaders' = SeenByReaders
    BY <1>2, <2>1 DEF SeenByReaders, OpenJournals
  <2> QED
    BY <1>1, <2>1, <2>2 DEF Screens!svars
<1> QED
  BY <1>4, <1>5

\* A page that is being left is no screen any more.
LEMMA LeavePageScreens ==
    ASSUME Typed, NEW p \in Pages, LeavePage(p)
    PROVE  \E closed \in SUBSET Pages : Screens!Close(closed)
<1>1. /\ \A q \in Pages : stage'[q] = "live" <=> stage[q] = "live" /\ q # p
      /\ UNCHANGED <<row, kind, shown, answered>>
  BY DEF Typed, LeavePage
<1>2. OpenJournals' = OpenJournals \ {p}
  BY <1>1 DEF OpenJournals
<1>3. SeenByReaders' = [q \in Pages |-> IF q \in {p} THEN NoRevision
                                        ELSE SeenByReaders[q]]
  BY <1>1, <1>2 DEF SeenByReaders
<1>4. Screens!Close({p})
  BY <1>1, <1>2, <1>3 DEF Screens!Close, Screens!Blank, NoRevision
<1> QED
  BY <1>4

\* A promise is made only when every open screen can keep it.
LEMMA AnswerScreens ==
    ASSUME IInv, NEW h \in Hooks, Answer(h)
    PROVE  \E t \in Transactions : \E n \in 0 .. row[t] : Screens!Promise(t, n)
<1>1. PICK t \in Transactions, n \in Nat :
         t = hooks[h].txn /\ n = hooks[h].revision /\ n <= row[t]
  BY DEF IInv, Typed, Revisions, UpdatesOK, Answer
<1>2. /\ answered' = [answered EXCEPT ![t] = IF @ < n THEN n ELSE @]
      /\ UNCHANGED <<row, kind, stage, shown>>
      /\ \A q \in Pages : Reached(h, q)
  BY <1>1, NullIsApart DEF Reached, Answer
<1>3. \A q \in OpenJournals : SeenByReaders[q] = shown[q] /\ shown[q][t] >= n
  <2>1. \A q \in OpenJournals : q \in Pages /\ Fresh(q, t, n)
    BY <1>1, <1>2 DEF IInv, UpdatesOK, OpenJournals
  <2> QED
    BY <2>1, ReadersByPage DEF Fresh
<1>4. OpenJournals' = OpenJournals /\ SeenByReaders' = SeenByReaders
  BY <1>2 DEF OpenJournals, SeenByReaders
<1>5. Screens!Promise(t, n)
  BY <1>1, <1>2, <1>3, <1>4 DEF Screens!Promise
<1>6. n \in 0 .. row[t]
  BY <1>1 DEF IInv, Typed, Revisions
<1> QED
  BY <1>5, <1>6

\* A page that is detached was no screen any more.
LEMMA DisposePageScreens ==
    ASSUME Typed, NEW p \in Pages, DisposePage(p)
    PROVE  UNCHANGED Screens!svars
<1>1. /\ \A q \in Pages : stage'[q] = "live" <=> stage[q] = "live"
      /\ UNCHANGED <<row, kind, shown, answered>>
  BY DEF Typed, DisposePage
<1>2. OpenJournals' = OpenJournals
  BY <1>1 DEF OpenJournals
<1>3. SeenByReaders' = SeenByReaders
  BY <1>1, <1>2 DEF SeenByReaders
<1> QED
  BY <1>1, <1>2, <1>3 DEF Screens!svars

\* Steps that neither write, draw, close nor answer.
LEMMA UnseenSteps ==
    ASSUME UNCHANGED <<row, kind, stage, shown, answered>>
    PROVE  UNCHANGED Screens!svars
<1>1. OpenJournals' = OpenJournals /\ SeenByReaders' = SeenByReaders
  BY DEF OpenJournals, SeenByReaders
<1> QED
  BY <1>1 DEF Screens!svars

\* Every step is a step of the screens, or leaves them as they are.
LEMMA NextScreens == IInv /\ [Next]_vars => [Screens!Next]_Screens!svars
<1> SUFFICES ASSUME IInv, [Next]_vars PROVE Screens!Next \/ UNCHANGED Screens!svars
  OBVIOUS
<1> USE DEF Screens!Next
<1>0. Typed
  BY DEF IInv
<1>1. ASSUME NEW p \in Pages,
             \/ \E c \in Circuits : OpenPage(c, p)
             \/ LeavePage(p) \/ Redraw(p) \/ PageProceeds(p)
      PROVE  Screens!Next \/ UNCHANGED Screens!svars
  <2>1. ASSUME NEW c \in Circuits, OpenPage(c, p)
        PROVE  Screens!Next
    BY <1>0, <2>1, OpenPageScreens
  <2>2. CASE LeavePage(p)
    BY <1>0, <2>2, LeavePageScreens
  <2>3. CASE Redraw(p)
    BY <1>0, <2>3, DrawnScreens DEF Redraw
  <2>4. CASE FirstRender(p)
    BY <1>0, <2>4, FirstRenderScreens
  <2>5. CASE DisposePage(p)
    BY <1>0, <2>5, DisposePageScreens
  <2> QED
    BY <1>1, <2>1, <2>2, <2>3, <2>4, <2>5 DEF PageProceeds
<1>2. ASSUME NEW k \in Calls,
             \/ \E p \in Pages : Submit(k, p) \/ CheckStatus(k, p)
             \/ \E t \in Transactions : StoreStart(k, t)
             \/ MarkManualStatus(k) \/ CallProceeds(k)
      PROVE  Screens!Next \/ UNCHANGED Screens!svars
  <2>1. ASSUME NEW p \in Pages, NEW pc, NEW t, Execute(k, p, pc, t)
        PROVE  Screens!Next \/ UNCHANGED Screens!svars
    BY <1>0, <2>1, DrawnScreens DEF Execute
  <2>2. ASSUME NEW t \in Transactions, StoreStart(k, t)
        PROVE  Screens!Next
    <3>1. row' = [row EXCEPT ![t] = @ + 1] /\ UNCHANGED <<kind, stage, shown, answered>>
      BY <1>0, <2>2 DEF Typed, Revisions, StoreStart
    <3> QED
      BY <3>1, WrittenScreens
  <2>3. CASE MarkManualStatus(k)
    <3>1. PICK t \in Transactions : t = calls[k].txn
      BY <2>3 DEF IInv, StartsOK, MarkManualStatus
    <3>2. row' = [row EXCEPT ![t] = @ + 1] /\ UNCHANGED <<kind, stage, shown, answered>>
      BY <2>3, <3>1 DEF MarkManualStatus
    <3> QED
      BY <3>2, WrittenScreens
  <2>4. CASE TrackTransaction(k)
    BY <2>4, UnseenSteps DEF TrackTransaction
  <2>5. CASE calls[k].pc # "idle" /\ Return(k)
    <3>1. PICK p \in Pages : p = calls[k].page
      BY <2>5 DEF IInv, StartsOK
    <3> QED
      BY <1>0, <2>5, <3>1, DrawnScreens DEF Return
  <2> QED
    BY <1>2, <2>1, <2>2, <2>3, <2>4, <2>5
       DEF Submit, CheckStatus, CallProceeds, EndCall, CallFails
<1>3. ASSUME NEW h \in Hooks,
             \/ \E t \in Transactions : MarkCallbackReceived(h, t)
             \/ HandlerThrows(h) \/ HookProceeds(h)
      PROVE  Screens!Next \/ UNCHANGED Screens!svars
  <2>1. ASSUME NEW t \in Transactions, MarkCallbackReceived(h, t)
        PROVE  Screens!Next
    BY <2>1, WrittenScreens DEF MarkCallbackReceived
  <2>2. CASE Publish(h)
    BY <2>2, UnseenSteps DEF Publish
  <2>3. ASSUME NEW p \in Pages, CallHandler(h, p)
        PROVE  UNCHANGED Screens!svars
    BY <2>3, UnseenSteps DEF CallHandler
  <2>4. CASE HandlerThrows(h)
    BY <2>4, UnseenSteps DEF HandlerThrows
  <2>5. CASE DrawForHandler(h)
    <3>1. PICK p \in Pages : p = hooks[h].drawing
      BY <1>0, <2>5 DEF Typed, HookRecord, DrawForHandler
    <3> QED
      BY <1>0, <2>5, <3>1, DrawnScreens DEF DrawForHandler
  <2>6. CASE Answer(h)
    BY <2>6, AnswerScreens
  <2> QED
    BY <1>3, <2>1, <2>2, <2>3, <2>4, <2>5, <2>6 DEF HookProceeds
<1>4. CASE UNCHANGED vars
  BY <1>4, UnseenSteps DEF vars
<1> QED
  BY <1>1, <1>2, <1>3, <1>4 DEF Next

\* At first nothing is open and nothing is promised.
LEMMA InitScreens == Init => Screens!Init
<1> SUFFICES ASSUME Init PROVE Screens!Init
  OBVIOUS
<1>1. OpenJournals = {}
  BY DEF Init, OpenJournals
<1>2. SeenByReaders = [p \in Pages |-> NoRevision]
  BY <1>1 DEF SeenByReaders
<1> QED
  BY <1>1, <1>2 DEF Init, NoRevision, Screens!Init, Screens!Blank

\* Whatever runs behind them, the open journal pages are readers that never go
\* back, and no webhook is answered before they show what it wrote.
THEOREM ImplementsScreens == Spec => ScreensSpec
<1>1. IInv /\ [Next]_vars => [Screens!Next]_Screens!svars
  BY NextScreens
<1> QED
  BY <1>1, InitScreens, Invariance, PTL DEF Spec, ScreensSpec, Screens!Spec

---------------------------------------------------------------------------
\* A page changes by drawing what is stored, and by nothing else.

DrawsOrNot(q) ==
    \/ shown'[q] = shown[q]
    \/ stage[q] # "unused" /\ shown'[q] = View(q)

LEMMA StepsDraw == IInv /\ [Next]_vars => \A q \in Pages : DrawsOrNot(q)
<1> SUFFICES ASSUME IInv, [Next]_vars, NEW q \in Pages PROVE DrawsOrNot(q)
  OBVIOUS
<1> USE DEF DrawsOrNot
<1>0. shown \in [Pages -> Revisions]
  BY DEF IInv, Typed
<1>1. ASSUME NEW p \in Pages, shown' = Drawn(p)
      PROVE  DrawsOrNot(q)
  BY <1>0, <1>1 DEF Drawn
<1>2. CASE UNCHANGED shown
  BY <1>2
<1>3. ASSUME NEW p \in Pages, FirstRender(p)
      PROVE  DrawsOrNot(q)
  BY <1>0, <1>3 DEF FirstRender
<1>4. ASSUME NEW p \in Pages,
             \/ \E c \in Circuits : OpenPage(c, p)
             \/ LeavePage(p) \/ DisposePage(p)
      PROVE  UNCHANGED shown
  BY <1>4 DEF OpenPage, LeavePage, DisposePage
<1>5. ASSUME NEW k \in Calls,
             \/ \E t \in Transactions : StoreStart(k, t)
             \/ MarkManualStatus(k) \/ TrackTransaction(k)
      PROVE  UNCHANGED shown
  BY <1>5 DEF StoreStart, MarkManualStatus, TrackTransaction
<1>6. ASSUME NEW k \in Calls, EndCall(k) \/ CallFails(k)
      PROVE  \E p \in Pages : shown' = Drawn(p)
  BY <1>6 DEF EndCall, CallFails, Return, IInv, StartsOK
<1>7. ASSUME NEW h \in Hooks,
             \/ \E t \in Transactions : MarkCallbackReceived(h, t)
             \/ HandlerThrows(h) \/ Publish(h) \/ Answer(h)
             \/ \E p \in Pages : CallHandler(h, p)
      PROVE  UNCHANGED shown
  BY <1>7 DEF MarkCallbackReceived, HandlerThrows, Publish, Answer, CallHandler
<1>8. ASSUME NEW h \in Hooks, DrawForHandler(h)
      PROVE  \E p \in Pages : shown' = Drawn(p)
  BY <1>8 DEF DrawForHandler, IInv, Typed, HookRecord
<1>9. ASSUME NEW p \in Pages,
             Redraw(p) \/ \E k \in Calls : Submit(k, p) \/ CheckStatus(k, p)
      PROVE  shown' = Drawn(p)
  BY <1>9 DEF Redraw, Submit, CheckStatus, Execute
<1>10. CASE UNCHANGED vars
  BY <1>10 DEF vars
<1> QED
  BY <1>1, <1>2, <1>3, <1>4, <1>5, <1>6, <1>7, <1>8, <1>9, <1>10
     DEF Next, PageProceeds, CallProceeds, HookProceeds

\* In whatever order the handlers of any number of webhooks, calls and refreshes
\* get a dispatcher, no drawing of a page brings back an older row.
THEOREM PagesGoForward == Spec => PagesNeverGoBack
<1> DEFINE Forward ==
      \A p \in Pages, t \in Transactions :
          \/ shown'[p][t] >= shown[p][t]
          \/ kind[p] = "Authorize" /\ shown'[p][t] = 0 /\ current[home[p]] # t
<1>1. IInv /\ [Next]_vars => Forward
  <2> SUFFICES ASSUME IInv, [Next]_vars, NEW p \in Pages, NEW t \in Transactions
               PROVE  \/ shown'[p][t] >= shown[p][t]
                      \/ kind[p] = "Authorize" /\ shown'[p][t] = 0
                         /\ current[home[p]] # t
    OBVIOUS
  <2>1. /\ shown[p][t] \in Nat /\ row[t] \in Nat /\ shown[p][t] <= row[t]
        /\ kind[p] \in {"Authorize", "Account"}
    BY DEF IInv, Typed, Revisions, Kinds, StartsOK
  <2>2. CASE shown'[p] = shown[p]
    BY <2>1, <2>2
  <2>3. CASE shown'[p] = View(p)
    BY <2>1, <2>3, ViewOfRows DEF IInv
  <2> QED
    BY <2>2, <2>3, StepsDraw DEF DrawsOrNot
<1> QED
  BY <1>1, Invariance, PTL DEF Spec, PagesNeverGoBack

---------------------------------------------------------------------------
\* A transaction belongs to one tab.

\* Nothing is shown or tracked at first.
LEMMA InitOwn == Init => OwnInv
<1> SUFFICES ASSUME Init PROVE OwnInv
  OBVIOUS
<1>1. \A c \in Circuits, t \in Transactions : ~Involved(c, t)
  BY NullIsApart DEF Init, Involved, Starting, IdleCall, NoRevision
<1> QED
  BY <1>1 DEF Init, NoRevision, OwnInv, OneCircuit, UnopenedIsBlank

\* A transaction without a row is tracked, held and shown nowhere.
LEMMA FreshIsFree ==
    ASSUME IInv, NEW t \in Transactions, row[t] = 0, NEW c \in Circuits
    PROVE  ~Involved(c, t)
<1>1. current[c] # t
  BY NullIsApart DEF IInv, StartsOK
<1>2. \A k \in Calls : ~Starting(k, t)
  BY DEF IInv, StartsOK, Starting
<1>3. \A p \in Pages : ~(shown[p][t] > 0)
  BY DEF IInv, Typed, Revisions, StartsOK
<1> QED
  BY <1>1, <1>2, <1>3 DEF Involved

\* Drawing shows a page its own session's transaction.
LEMMA DrawingOwn ==
    ASSUME IInv, OwnInv, UNCHANGED <<current, kind, home>>,
           \A q \in Pages : stage'[q] = "unused" => stage[q] = "unused",
           \A q \in Pages : DrawsOrNot(q),
           \A k \in Calls, t \in Transactions : Starting(k, t)' =>
              Starting(k, t) /\ calls'[k].page = calls[k].page
    PROVE  OwnInv'
<1>1. ASSUME NEW c \in Circuits, NEW t \in Transactions, Involved(c, t)'
      PROVE  Involved(c, t)
  <2>1. CASE current'[c] = t
    BY <2>1 DEF Involved
  <2>2. CASE \E k \in Calls : Starting(k, t)' /\ home'[calls'[k].page] = c
    BY <2>2 DEF Involved
  <2>3. ASSUME NEW p \in Pages,
               kind'[p] = "Authorize", shown'[p][t] > 0, home'[p] = c
        PROVE  Involved(c, t)
    <3>1. CASE shown'[p] = shown[p]
      BY <2>3, <3>1 DEF Involved
    <3>2. CASE shown'[p] = View(p)
      <4>1. View(p)[t] = IF current[c] = t THEN row[t] ELSE 0
        BY <2>3, ViewOfRows DEF IInv
      <4> QED
        BY <2>3, <3>2, <4>1 DEF Involved
    <3> QED
      BY <3>1, <3>2 DEF DrawsOrNot
  <2> QED
    BY <1>1, <2>1, <2>2, <2>3 DEF Involved
<1>2. OneCircuit'
  BY <1>1 DEF OwnInv, OneCircuit
<1>3. UnopenedIsBlank'
  BY DEF OwnInv, UnopenedIsBlank, DrawsOrNot
<1> QED
  BY <1>2, <1>3 DEF OwnInv

\* A page that is opened shows nothing yet, in whatever tab it is.
LEMMA OpenPageOwn ==
    ASSUME IInv, OwnInv, NEW c \in Circuits, NEW p \in Pages, OpenPage(c, p)
    PROVE  OwnInv'
<1>1. /\ UNCHANGED <<current, kind, shown, calls>>
      /\ \A q \in Pages \ {p} : home'[q] = home[q]
      /\ \A t \in Transactions : shown[p][t] = 0
      /\ \A q \in Pages : stage'[q] = "unused" => stage[q] = "unused"
  BY DEF IInv, Typed, OwnInv, UnopenedIsBlank, OpenPage
<1>2. \A k \in Calls, t \in Transactions : Starting(k, t) => calls[k].page \in Pages \ {p}
  BY DEF Starting, IInv, StartsOK, OpenPage
<1>3. ASSUME NEW d \in Circuits, NEW t \in Transactions, Involved(d, t)'
      PROVE  Involved(d, t)
  BY <1>1, <1>2, <1>3 DEF Involved, Starting
<1>4. OneCircuit'
  BY <1>3 DEF OwnInv, OneCircuit
<1>5. UnopenedIsBlank'
  BY <1>1 DEF OwnInv, UnopenedIsBlank
<1> QED
  BY <1>4, <1>5 DEF OwnInv

\* A start that is stored is the business of the tab it was pressed in.
LEMMA StoreStartOwn ==
    ASSUME IInv, OwnInv, NEW k \in Calls, NEW t \in Transactions, StoreStart(k, t)
    PROVE  OwnInv'
<1>1. /\ UNCHANGED <<current, kind, home, stage, shown>>
      /\ calls'[k].txn = t /\ calls'[k].page = calls[k].page
      /\ \A l \in Calls \ {k} : calls'[l] = calls[l]
  BY DEF IInv, Typed, CallRecord, StoreStart
<1>2. ASSUME NEW c \in Circuits, NEW u \in Transactions, Involved(c, u)'
      PROVE  IF u = t THEN c = home[calls[k].page] ELSE Involved(c, u)
  <2>1. CASE current'[c] = u
    BY <1>1, <2>1, FreshIsFree DEF StoreStart, Involved
  <2>2. ASSUME NEW l \in Calls, Starting(l, u)', home'[calls'[l].page] = c
        PROVE  IF u = t THEN c = home[calls[k].page] ELSE Involved(c, u)
    <3>1. CASE l = k
      BY <1>1, <2>2, <3>1 DEF Starting
    <3>2. CASE l # k
      <4>1. Involved(c, u)
        BY <1>1, <2>2, <3>2 DEF Involved, Starting
      <4> QED
        BY <4>1, FreshIsFree DEF StoreStart
    <3> QED
      BY <3>1, <3>2
  <2>3. CASE \E p \in Pages : kind'[p] = "Authorize" /\ shown'[p][u] > 0 /\ home'[p] = c
    BY <1>1, <2>3, FreshIsFree DEF StoreStart, Involved
  <2> QED
    BY <1>2, <2>1, <2>2, <2>3 DEF Involved
<1>3. OneCircuit'
  BY <1>2 DEF OwnInv, OneCircuit
<1>4. UnopenedIsBlank'
  BY <1>1 DEF OwnInv, UnopenedIsBlank
<1> QED
  BY <1>3, <1>4 DEF OwnInv

\* And it is that tab's session which tracks it.
LEMMA TrackTransactionOwn ==
    ASSUME IInv, OwnInv, NEW k \in Calls, TrackTransaction(k)
    PROVE  OwnInv'
<1> DEFINE c == home[calls[k].page]
<1>1. /\ UNCHANGED <<kind, home, stage, shown>>
      /\ current' = [current EXCEPT ![c] = calls[k].txn]
      /\ \A l \in Calls, t \in Transactions : Starting(l, t)' =>
            Starting(l, t) /\ calls'[l].page = calls[l].page
      /\ Starting(k, calls[k].txn)
  BY DEF IInv, Typed, Starting, TrackTransaction
<1>2. ASSUME NEW d \in Circuits, NEW t \in Transactions, Involved(d, t)'
      PROVE  Involved(d, t)
  BY <1>1, <1>2 DEF IInv, Typed, Involved
<1>3. OneCircuit'
  BY <1>2 DEF OwnInv, OneCircuit
<1>4. UnopenedIsBlank'
  BY <1>1 DEF OwnInv, UnopenedIsBlank
<1> QED
  BY <1>3, <1>4 DEF OwnInv

\* Steps that open no page, store no start and track nothing.
Draws ==
    \/ \E p \in Pages : LeavePage(p) \/ Redraw(p) \/ PageProceeds(p)
    \/ \E k \in Calls :
          \/ \E p \in Pages : Submit(k, p) \/ CheckStatus(k, p)
          \/ MarkManualStatus(k) \/ EndCall(k) \/ CallFails(k)
    \/ \E h \in Hooks :
          \/ \E t \in Transactions : MarkCallbackReceived(h, t)
          \/ HandlerThrows(h) \/ HookProceeds(h)
    \/ UNCHANGED vars

LEMMA DrawsFacts ==
    ASSUME IInv, Draws
    PROVE  /\ UNCHANGED <<current, kind, home>>
           /\ \A q \in Pages : stage'[q] = "unused" => stage[q] = "unused"
           /\ \A k \in Calls : calls'[k].pc = "stored" \/ calls[k].pc = "stored"
                                  => calls'[k] = calls[k]
           /\ \A t \in Transactions : row'[t] > 0 <=> row[t] > 0
<1>1. ASSUME NEW p \in Pages, LeavePage(p) \/ Redraw(p) \/ PageProceeds(p)
      PROVE  /\ UNCHANGED <<row, current, kind, home, calls>>
             /\ \A q \in Pages : stage'[q] = "unused" => stage[q] = "unused"
  BY <1>1 DEF IInv, Typed, LeavePage, Redraw, PageProceeds, FirstRender, DisposePage
<1>2. ASSUME NEW k \in Calls, NEW p \in Pages, NEW pc \in {"starting", "checking"},
             NEW t, Execute(k, p, pc, t)
      PROVE  /\ UNCHANGED <<row, current, kind, home, stage>>
             /\ \A l \in Calls : calls'[l].pc = "stored" \/ calls[l].pc = "stored"
                                    => calls'[l] = calls[l]
  BY <1>2 DEF IInv, Typed, IdleCall, Execute
<1>3. ASSUME NEW k \in Calls, MarkManualStatus(k)
      PROVE  /\ UNCHANGED <<current, kind, home, stage>>
             /\ \A l \in Calls : calls'[l].pc = "stored" \/ calls[l].pc = "stored"
                                    => calls'[l] = calls[l]
             /\ \A t \in Transactions : row'[t] > 0 <=> row[t] > 0
  BY <1>3 DEF IInv, Typed, CallRecord, Revisions, StartsOK, MarkManualStatus
<1>4. ASSUME NEW k \in Calls, EndCall(k) \/ CallFails(k)
      PROVE  /\ UNCHANGED <<row, current, kind, home, stage>>
             /\ \A l \in Calls : calls'[l].pc = "stored" \/ calls[l].pc = "stored"
                                    => calls'[l] = calls[l]
  BY <1>4 DEF IInv, Typed, IdleCall, EndCall, CallFails, Return
<1>5. ASSUME NEW h \in Hooks, NEW t \in Transactions, MarkCallbackReceived(h, t)
      PROVE  /\ UNCHANGED <<current, kind, home, stage, calls>>
             /\ \A u \in Transactions : row'[u] > 0 <=> row[u] > 0
  BY <1>5 DEF IInv, Typed, Revisions, MarkCallbackReceived
<1>6. ASSUME NEW h \in Hooks, HandlerThrows(h) \/ HookProceeds(h)
      PROVE  UNCHANGED <<row, current, kind, home, stage, calls>>
  BY <1>6 DEF HandlerThrows, HookProceeds, Publish, CallHandler, DrawForHandler, Answer
<1>7. CASE UNCHANGED vars
  BY <1>7 DEF vars
<1>8. ASSUME NEW k \in Calls, NEW p \in Pages, Submit(k, p) \/ CheckStatus(k, p)
      PROVE  \E pc \in {"starting", "checking"}, t \in {Null, current[home[p]]} :
                Execute(k, p, pc, t)
  BY <1>8 DEF Submit, CheckStatus
<1> QED
  BY <1>1, <1>2, <1>3, <1>4, <1>5, <1>6, <1>7, <1>8 DEF Draws

\* Every step is one of these.
LEMMA NextCases ==
    [Next]_vars =>
        \/ \E p \in Pages, c \in Circuits : OpenPage(c, p)
        \/ \E k \in Calls, t \in Transactions : StoreStart(k, t)
        \/ \E k \in Calls : TrackTransaction(k)
        \/ Draws
  BY DEF Next, CallProceeds, Draws

\* Every step leaves a transaction with its tab.
LEMMA NextOwn == IInv /\ OwnInv /\ [Next]_vars => OwnInv'
<1> SUFFICES ASSUME IInv, OwnInv, [Next]_vars PROVE OwnInv'
  OBVIOUS
<1>1. CASE Draws
  BY <1>1, DrawsFacts, StepsDraw, DrawingOwn DEF Starting
<1> QED
  BY <1>1, NextCases, OpenPageOwn, StoreStartOwn, TrackTransactionOwn

\* In every reachable state a transaction belongs to one tab.
LEMMA Ownership == Spec => []OwnInv
<1>1. IInv /\ OwnInv /\ [Next]_vars => OwnInv'
  BY NextOwn
<1> QED
  BY <1>1, InitOwn, Invariance, PTL DEF Spec

\* Of any number of tabs, one shows a transaction on its Authorize pages.
THEOREM TabsShowTheirOwn == Spec => []ShownInOneTab
<1>1. IInv /\ OwnInv => ShownInOneTab
  <2> SUFFICES ASSUME IInv, OwnInv, NEW p \in Pages, NEW q \in Pages,
                      NEW t \in Transactions,
                      kind[p] = "Authorize", shown[p][t] > 0,
                      kind[q] = "Authorize", shown[q][t] > 0
               PROVE  home[p] = home[q]
    BY DEF ShownInOneTab
  <2>1. home[p] \in Circuits /\ home[q] \in Circuits
    BY DEF IInv, PagesOK, OwnInv, UnopenedIsBlank
  <2>2. Involved(home[p], t) /\ Involved(home[q], t)
    BY DEF Involved
  <2> QED
    BY <2>1, <2>2 DEF OwnInv, OneCircuit
<1> QED
  BY <1>1, Invariance, Ownership, PTL

---------------------------------------------------------------------------
\* The sessions implement TabTransactions.

\* store.Start stores a transaction nobody has taken.
LEMMA StoreStartTabs ==
    ASSUME IInv, NEW k \in Calls, NEW t \in Transactions, StoreStart(k, t)
    PROVE  Tabs!Store(t)
<1>1. /\ UNCHANGED current
      /\ calls'[k].pc = "stored" /\ calls'[k].txn = t /\ calls[k].pc # "stored"
      /\ \A l \in Calls \ {k} : calls'[l] = calls[l]
      /\ row[t] = 0 /\ row'[t] = 1
      /\ \A u \in Transactions \ {t} : row'[u] = row[u]
  BY DEF IInv, Typed, Revisions, CallRecord, StoreStart
<1>2. Stored' = Stored \cup {t} /\ t \notin Stored
  BY <1>1 DEF Stored
<1>3. BeingTracked' = BeingTracked \cup {t}
  BY <1>1 DEF BeingTracked
<1> QED
  BY <1>1, <1>2, <1>3 DEF Tabs!Store

\* session.TrackTransaction takes it, for it was tracked by this call alone.
LEMMA TrackTransactionTabs ==
    ASSUME IInv, NEW k \in Calls, TrackTransaction(k)
    PROVE  /\ home[calls[k].page] \in Circuits /\ calls[k].txn \in Transactions
           /\ Tabs!Take(home[calls[k].page], calls[k].txn)
<1> DEFINE t == calls[k].txn
<1>1. /\ home[calls[k].page] \in Circuits /\ t \in Transactions /\ row[t] > 0
      /\ Starting(k, t)
  BY DEF IInv, PagesOK, StartsOK, Starting, TrackTransaction
<1>2. /\ UNCHANGED row
      /\ current' = [current EXCEPT ![home[calls[k].page]] = t]
      /\ calls'[k].pc = "ending"
      /\ \A l \in Calls \ {k} : calls'[l] = calls[l]
  BY DEF IInv, Typed, CallRecord, TrackTransaction
<1>3. Stored' = Stored /\ t \in Stored /\ t \in BeingTracked
  BY <1>1, <1>2 DEF Stored, BeingTracked, Starting
<1>4. \A l \in Calls : Starting(l, t) => l = k
  BY <1>1 DEF IInv, StartsOK
<1>5. BeingTracked' = BeingTracked \ {t}
  BY <1>2, <1>4 DEF BeingTracked, Starting
<1> QED
  BY <1>1, <1>2, <1>3, <1>5 DEF Tabs!Take

\* Every step stores or takes a transaction, or leaves all of them alone.
LEMMA NextTabs == IInv /\ [Next]_vars => [Tabs!Next]_Tabs!tvars
<1> SUFFICES ASSUME IInv, [Next]_vars PROVE Tabs!Next \/ UNCHANGED Tabs!tvars
  OBVIOUS
<1>1. ASSUME NEW p \in Pages, NEW c \in Circuits, OpenPage(c, p)
      PROVE  UNCHANGED Tabs!tvars
  BY <1>1 DEF OpenPage, Stored, BeingTracked, Tabs!tvars
<1>2. CASE Draws
  <2>1. /\ UNCHANGED current
        /\ \A k \in Calls : calls'[k].pc = "stored" \/ calls[k].pc = "stored"
                               => calls'[k] = calls[k]
        /\ \A t \in Transactions : row'[t] > 0 <=> row[t] > 0
    BY <1>2, DrawsFacts
  <2>2. Stored' = Stored /\ BeingTracked' = BeingTracked
    BY <2>1 DEF Stored, BeingTracked
  <2> QED
    BY <2>1, <2>2 DEF Tabs!tvars
<1>3. ASSUME NEW k \in Calls, NEW t \in Transactions, StoreStart(k, t)
      PROVE  Tabs!Next
  BY <1>3, StoreStartTabs DEF Tabs!Next
<1>4. ASSUME NEW k \in Calls, TrackTransaction(k)
      PROVE  Tabs!Next
  BY <1>4, TrackTransactionTabs DEF Tabs!Next
<1> QED
  BY <1>1, <1>2, <1>3, <1>4, NextCases

LEMMA InitTabs == Init => Tabs!Init
  BY DEF Init, NoRevision, IdleCall, Stored, BeingTracked, Tabs!Init

\* Where pages come and go too, the sessions share the transactions out: each
\* is taken once, by the tab that started it.
THEOREM ImplementsTabs == Spec => TabsSpec
<1>1. IInv /\ [Next]_vars => [Tabs!Next]_Tabs!tvars
  BY NextTabs
<1> QED
  BY <1>1, InitTabs, Invariance, PTL DEF Spec, TabsSpec, Tabs!Spec

=============================================================================
