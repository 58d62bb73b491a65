--------------------------- MODULE LivePagesProofs ---------------------------
(***************************************************************************)
(* For every number of tabs, page instances, transactions, calls, webhook  *)
(* requests and writes: no screen is older than an answered webhook, and   *)
(* the open journal pages implement JournalScreens.                        *)
(***************************************************************************)
EXTENDS LivePagesInvariant, TLAPS

USE DEF pageVars

\* Null is no page and no transaction.
LEMMA NullIsApart == Null \notin Transactions /\ Null \notin Pages /\ Null \notin Circuits
  BY PagesAssumption

\* What a page draws is what is stored, or nothing.
LEMMA ViewOfRows ==
    ASSUME Typed, NEW p \in Pages
    PROVE  /\ View(p) \in Revisions
           /\ \A t \in Transactions :
                 /\ View(p)[t] \in {0, row[t]}
                 /\ kind[p] = "Account" => View(p)[t] = row[t]
                 /\ kind[p] = "Authorize" =>
                       View(p)[t] = IF current[home[p]] = t THEN row[t] ELSE 0
<1>1. row \in Revisions /\ row \in [Transactions -> Nat]
  BY DEF Typed, Revisions
<1>2. CASE kind[p] = "Account"
  BY <1>1, <1>2 DEF View, AccountView
<1>3. CASE kind[p] # "Account"
  BY <1>1, <1>3 DEF View, AuthorizeView, Revisions
<1> QED
  BY <1>2, <1>3

\* A page that is drawn becomes at least as new as anything stored, and no page
\* becomes older.
LEMMA DrawnPages ==
    ASSUME IInv, NEW p \in Pages, home[p] \in Circuits,
           shown' \in {shown, [shown EXCEPT ![p] = View(p)]},
           UNCHANGED <<row, current, kind, home>>
    PROVE  /\ shown' \in [Pages -> Revisions]
           /\ \A q \in Pages, t \in Transactions : shown'[q][t] <= row[t]
           /\ \A q \in Pages, t \in Transactions :
                 /\ kind[q] = "Authorize" /\ shown[q][t] = 0
                 /\ \A c \in Circuits : current[c] # t
                 => shown'[q][t] = 0
           /\ \A q \in Pages, t \in Transactions, n \in Nat :
                 n <= row[t] /\ Fresh(q, t, n) => Fresh(q, t, n)'
           /\ \A t \in Transactions, n \in Nat :
                 n <= row[t] /\ shown' = [shown EXCEPT ![p] = View(p)]
                    => Fresh(p, t, n)'
<1>1. /\ row \in [Transactions -> Nat] /\ shown \in [Pages -> [Transactions -> Nat]]
      /\ kind[p] \in {"Account", "Authorize"}
  BY DEF IInv, Typed, Revisions, Kinds
<1>2. \A q \in Pages, t \in Transactions : shown[q][t] <= row[t]
  BY DEF IInv, StartsOK
<1>3. CASE shown' = shown /\ shown' # [shown EXCEPT ![p] = View(p)]
  BY <1>1, <1>2, <1>3 DEF Fresh, NotOlder, Revisions
<1>4. CASE shown' = [shown EXCEPT ![p] = View(p)]
  <2>1. View(p) \in [Transactions -> Nat]
    BY ViewOfRows DEF IInv, Revisions
  <2>2. \A q \in Pages : shown'[q] = IF q = p THEN View(p) ELSE shown[q]
    BY <1>1, <1>4
  <2>3. \A t \in Transactions :
           /\ View(p)[t] \in {0, row[t]}
           /\ kind[p] = "Account" => View(p)[t] = row[t]
           /\ kind[p] = "Authorize" =>
                 View(p)[t] = IF current[home[p]] = t THEN row[t] ELSE 0
    BY ViewOfRows DEF IInv
  <2>4. \A t \in Transactions, n \in Nat : n <= row[t] => Fresh(p, t, n)'
    BY <1>1, <2>2, <2>3 DEF Fresh, NotOlder
  <2>5. \A q \in Pages, t \in Transactions, n \in Nat :
           q # p /\ Fresh(q, t, n) => Fresh(q, t, n)'
    BY <2>2 DEF Fresh, NotOlder
  <2>6. shown' \in [Pages -> Revisions]
    BY <1>1, <1>4, <2>1 DEF Revisions
  <2>7. \A q \in Pages, t \in Transactions : shown'[q][t] <= row[t]
    BY <1>1, <1>2, <2>2, <2>3
  <2>8. \A q \in Pages, t \in Transactions :
           /\ kind[q] = "Authorize" /\ shown[q][t] = 0
           /\ \A c \in Circuits : current[c] # t
           => shown'[q][t] = 0
    BY <2>2, <2>3
  <2> QED
    BY <2>4, <2>5, <2>6, <2>7, <2>8
<1> QED
  BY <1>3, <1>4

\* Nothing is open, stored or published yet.
LEMMA InitIInv == Init => IInv
<1> SUFFICES ASSUME Init PROVE IInv
  OBVIOUS
<1>1. Typed
  BY DEF Init, Typed, NoRevision, Revisions, CallRecord, HookRecord, IdleCall,
     IdleHook
<1>2. PagesOK
  BY DEF Init, PagesOK, IdleHook
<1>3. StartsOK
  BY DEF Init, StartsOK, Starting, IdleCall, NoRevision
<1>4. UpdatesOK
  BY DEF Init, UpdatesOK, IdleHook, NoRevision
<1> QED
  BY <1>1, <1>2, <1>3, <1>4 DEF IInv

---------------------------------------------------------------------------
\* A new page is attached before it is drawn.
LEMMA OpenPageStep ==
    ASSUME IInv, NEW c \in Circuits, NEW p \in Pages, OpenPage(c, p)
    PROVE  IInv'
<1>1. Typed'
  BY DEF IInv, Typed, OpenPage
<1>2. /\ home' = [home EXCEPT ![p] = c] /\ subscribers' = subscribers \cup {p}
      /\ UNCHANGED <<row, current, kind, shown, calls, hooks, answered>>
      /\ stage'[p] = "initialized"
      /\ \A q \in Pages : stage[q] # "unused" => q # p /\ stage'[q] # "unused"
      /\ \A q \in Pages : q # p /\ stage'[q] # "unused" => stage[q] # "unused"
      /\ \A q \in Pages : q # p /\ stage'[q] \in {"initialized", "live"} =>
            stage'[q] = stage[q]
  BY DEF OpenPage
<1>3. PagesOK'
  BY <1>2 DEF IInv, Typed, HookRecord, PagesOK
<1>4. StartsOK'
  BY <1>2 DEF IInv, StartsOK, Starting
<1>5. UpdatesOK'
  <2>1. \A q \in Pages : stage'[q] = "live" => stage[q] = "live" /\ home'[q] = home[q]
    BY <1>2 DEF IInv, Typed
  <2>2. \A q \in Pages, t \in Transactions, n \in Nat :
           home'[q] = home[q] /\ Fresh(q, t, n) => Fresh(q, t, n)'
    BY <1>2 DEF Fresh, NotOlder
  <2>3. \A h \in Hooks, q \in Pages : Reached(h, q)' <=> Reached(h, q)
    BY <1>2 DEF Reached
  <2>4. /\ answered \in [Transactions -> Nat]
        /\ \A h \in Hooks : hooks[h].revision \in Nat
    BY DEF IInv, Typed, Revisions, HookRecord
  <2>5. \A h \in Hooks, q \in Pages : Reached(h, q) => hooks[h].txn \in Transactions
    BY DEF IInv, UpdatesOK, Reached
  <2> QED
    BY <1>2, <2>1, <2>2, <2>3, <2>4, <2>5 DEF IInv, UpdatesOK
<1> QED
  BY <1>1, <1>3, <1>4, <1>5 DEF IInv

\* The pages stay as new as they must be when one of them is drawn.
LEMMA DrawnUpdatesOK ==
    ASSUME IInv, NEW p \in Pages, home[p] \in Circuits,
           shown' \in {shown, [shown EXCEPT ![p] = View(p)]},
           \A q \in Pages : stage'[q] = "live" => stage[q] = "live" \/ q = p,
           stage[p] = "live" \/ shown' = [shown EXCEPT ![p] = View(p)],
           UNCHANGED <<row, current, kind, home, hooks, answered>>
    PROVE  UpdatesOK'
<1>1. /\ \A q \in Pages, t \in Transactions, n \in Nat :
            n <= row[t] /\ Fresh(q, t, n) => Fresh(q, t, n)'
      /\ \A t \in Transactions, n \in Nat :
            n <= row[t] /\ shown' = [shown EXCEPT ![p] = View(p)] => Fresh(p, t, n)'
  BY DrawnPages
<1>2. /\ answered \in [Transactions -> Nat]
      /\ \A t \in Transactions : answered[t] <= row[t]
  BY DEF IInv, Typed, Revisions, UpdatesOK
<1>3. \A h \in Hooks, q \in Pages : Reached(h, q)' <=> Reached(h, q)
  BY DEF Reached
<1>4. \A h \in Hooks, q \in Pages : Reached(h, q) =>
         /\ hooks[h].txn \in Transactions
         /\ hooks[h].revision \in Nat /\ hooks[h].revision <= row[hooks[h].txn]
  BY DEF IInv, Typed, Revisions, UpdatesOK, Reached
<1>5. \A q \in Pages : stage'[q] = "live" =>
         /\ \A t \in Transactions : Fresh(q, t, answered[t])'
         /\ \A h \in Hooks :
               Reached(h, q) => Fresh(q, hooks[h].txn, hooks[h].revision)'
  BY <1>1, <1>2, <1>4 DEF IInv, UpdatesOK
<1> QED
  BY <1>3, <1>5 DEF IInv, UpdatesOK

\* What is in flight knows only rows that are stored, and no page that is drawn
\* runs ahead of the journal or of the session.
LEMMA DrawnStartsOK ==
    ASSUME IInv, NEW p \in Pages, home[p] \in Circuits,
           shown' \in {shown, [shown EXCEPT ![p] = View(p)]},
           \A q \in Pages : stage[q] # "unused" => stage'[q] # "unused",
           \A k \in Calls :
              \/ calls'[k] = calls[k] \/ calls'[k].pc = "idle"
              \/ /\ calls'[k].page \in Pages /\ stage[calls'[k].page] # "unused"
                 /\ calls'[k].pc # "stored"
                 /\ calls'[k].pc = "checking" =>
                       calls'[k].txn \in Transactions /\ row[calls'[k].txn] > 0,
           UNCHANGED <<row, current, kind, home>>
    PROVE  StartsOK'
<1>1. /\ \A q \in Pages, t \in Transactions : shown'[q][t] <= row[t]
      /\ \A q \in Pages, t \in Transactions :
            /\ kind[q] = "Authorize" /\ shown[q][t] = 0
            /\ \A c \in Circuits : current[c] # t
            => shown'[q][t] = 0
  BY DrawnPages
<1>2. \A k \in Calls, t \in Transactions : Starting(k, t)' => Starting(k, t)
  BY DEF Starting
<1> QED
  BY <1>1, <1>2 DEF IInv, StartsOK

\* The first drawing shows what is stored by then.
LEMMA FirstRenderStep ==
    ASSUME IInv, NEW p \in Pages, FirstRender(p)
    PROVE  IInv'
<1>1. home[p] \in Circuits
  BY DEF IInv, PagesOK, FirstRender
<1>2. Typed'
  <2>1. shown' \in [Pages -> Revisions]
    BY <1>1, DrawnPages DEF FirstRender
  <2> QED
    BY <2>1 DEF IInv, Typed, FirstRender
<1>3. PagesOK'
  BY DEF IInv, PagesOK, FirstRender
<1>4. StartsOK'
  <2>1. \A q \in Pages : stage[q] # "unused" => stage'[q] # "unused"
    BY DEF IInv, Typed, FirstRender
  <2> QED
    BY <1>1, <2>1, DrawnStartsOK DEF FirstRender
<1>5. UpdatesOK'
  <2>1. \A q \in Pages : stage'[q] = "live" => stage[q] = "live" \/ q = p
    BY DEF IInv, Typed, FirstRender
  <2> QED
    BY <1>1, <2>1, DrawnUpdatesOK DEF FirstRender
<1> QED
  BY <1>2, <1>3, <1>4, <1>5 DEF IInv

\* A page that is being left stays attached and is not drawn any more.
LEMMA LeavePageStep ==
    ASSUME IInv, NEW p \in Pages, LeavePage(p)
    PROVE  IInv'
<1>1. Typed'
  BY DEF IInv, Typed, LeavePage
<1>2. PagesOK'
  BY DEF IInv, PagesOK, LeavePage
<1>3. StartsOK'
  BY DEF IInv, StartsOK, Starting, LeavePage
<1>4. UpdatesOK'
  BY DEF IInv, UpdatesOK, Fresh, NotOlder, Reached, LeavePage
<1> QED
  BY <1>1, <1>2, <1>3, <1>4 DEF IInv

\* Only a page that is gone is detached.
LEMMA DisposePageStep ==
    ASSUME IInv, NEW p \in Pages, DisposePage(p)
    PROVE  IInv'
<1>1. Typed'
  BY DEF IInv, Typed, DisposePage
<1>2. PagesOK'
  BY DEF IInv, PagesOK, DisposePage
<1>3. StartsOK'
  BY DEF IInv, StartsOK, Starting, DisposePage
<1>4. UpdatesOK'
  BY DEF IInv, UpdatesOK, Fresh, NotOlder, Reached, DisposePage
<1> QED
  BY <1>1, <1>2, <1>3, <1>4 DEF IInv

\* Drawing a page again shows what is stored now.
LEMMA RedrawStep ==
    ASSUME IInv, NEW p \in Pages, Redraw(p)
    PROVE  IInv'
<1>1. /\ home[p] \in Circuits
      /\ shown' = [shown EXCEPT ![p] = View(p)]
  BY DEF IInv, PagesOK, Drawn, Redraw
<1>2. Typed'
  <2>1. shown' \in [Pages -> Revisions]
    BY <1>1, DrawnPages DEF Redraw
  <2> QED
    BY <2>1 DEF IInv, Typed, Redraw
<1>3. PagesOK'
  BY DEF IInv, PagesOK, Redraw
<1>4. StartsOK'
  BY <1>1, DrawnStartsOK DEF Redraw
<1>5. UpdatesOK'
  BY <1>1, DrawnUpdatesOK DEF Redraw
<1> QED
  BY <1>2, <1>3, <1>4, <1>5 DEF IInv

---------------------------------------------------------------------------
\* A call that begins carries no transaction, or that of a session.
LEMMA ExecuteStep ==
    ASSUME IInv, NEW k \in Calls, NEW p \in Pages,
           NEW pc \in {"starting", "checking"}, NEW t \in Transactions \cup {Null},
           pc = "checking" => t \in Transactions /\ row[t] > 0,
           Execute(k, p, pc, t)
    PROVE  IInv'
<1>1. /\ home[p] \in Circuits
      /\ shown' = [shown EXCEPT ![p] = View(p)]
  BY DEF IInv, PagesOK, Drawn, Execute
<1>2. calls' = [calls EXCEPT ![k] = [pc |-> pc, page |-> p, txn |-> t]]
  BY DEF Execute
<1>3. Typed'
  <2>1. shown' \in [Pages -> Revisions]
    BY <1>1, DrawnPages DEF Execute
  <2>2. [pc |-> pc, page |-> p, txn |-> t] \in CallRecord
    BY DEF CallRecord
  <2> QED
    BY <2>1, <2>2, <1>2 DEF IInv, Typed, Execute
<1>4. PagesOK'
  BY DEF IInv, PagesOK, Execute
<1>5. StartsOK'
  <2>1. stage[p] # "unused"
    BY DEF Execute
  <2>2. \A j \in Calls :
           calls'[j] = IF j = k THEN [pc |-> pc, page |-> p, txn |-> t] ELSE calls[j]
    BY <1>2 DEF IInv, Typed
  <2>3. \A j \in Calls :
           \/ calls'[j] = calls[j]
           \/ /\ calls'[j].page \in Pages /\ stage[calls'[j].page] # "unused"
              /\ calls'[j].pc # "stored"
              /\ calls'[j].pc = "checking" =>
                    calls'[j].txn \in Transactions /\ row[calls'[j].txn] > 0
    BY <2>1, <2>2
  <2>4. UNCHANGED <<row, current, kind, home, stage>>
    BY DEF Execute
  <2> QED
    BY <1>1, <2>3, <2>4, DrawnStartsOK
<1>6. UpdatesOK'
  BY <1>1, DrawnUpdatesOK DEF Execute
<1> QED
  BY <1>3, <1>4, <1>5, <1>6 DEF IInv

\* A request that was sent carries no transaction yet.
LEMMA SubmitStep ==
    ASSUME IInv, NEW k \in Calls, NEW p \in Pages, Submit(k, p)
    PROVE  IInv'
  BY ExecuteStep DEF Submit

\* A session tracks only what is stored.
LEMMA CheckStatusStep ==
    ASSUME IInv, NEW k \in Calls, NEW p \in Pages, CheckStatus(k, p)
    PROVE  IInv'
<1> DEFINE t == current[home[p]]
<1>1. home[p] \in Circuits
  BY DEF IInv, PagesOK, CheckStatus
<1>2. t \in Transactions /\ row[t] > 0
  BY <1>1 DEF IInv, Typed, StartsOK, CheckStatus
<1> HIDE DEF t
<1>3. Execute(k, p, "checking", t)
  BY DEF CheckStatus, t
<1> QED
  BY <1>2, <1>3, ExecuteStep

\* A write that is no webhook's disturbs no update: rows only become newer.
LEMMA WrittenUpdatesOK ==
    ASSUME IInv, row' \in [Transactions -> Nat],
           \A t \in Transactions : row'[t] >= row[t],
           UNCHANGED <<current, kind, home, stage, shown, hooks, answered>>
    PROVE  UpdatesOK'
<1>1. /\ row \in [Transactions -> Nat] /\ answered \in [Transactions -> Nat]
      /\ \A h \in Hooks : hooks[h].revision \in Nat
  BY DEF IInv, Typed, Revisions, HookRecord
<1>2. \A p \in Pages : \A t, n : Fresh(p, t, n)' <=> Fresh(p, t, n)
  BY DEF Fresh, NotOlder
<1>3. \A h \in Hooks, p \in Pages : Reached(h, p)' <=> Reached(h, p)
  BY DEF Reached
<1>4. \A t \in Transactions, n \in Nat : n <= row[t] => n <= row'[t]
  BY <1>1
<1> QED
  BY <1>1, <1>2, <1>3, <1>4 DEF IInv, UpdatesOK

\* A row that is new was unknown to every session, page and other call.
LEMMA StoreStartStep ==
    ASSUME IInv, NEW k \in Calls, NEW t \in Transactions, StoreStart(k, t)
    PROVE  IInv'
<1>1. /\ row' = [row EXCEPT ![t] = 1] /\ row[t] = 0
      /\ calls' = [calls EXCEPT ![k].pc = "stored", ![k].txn = t]
      /\ UNCHANGED <<current, kind, home, stage, subscribers, shown, hooks, answered>>
  BY DEF StoreStart
<1>2. row \in [Transactions -> Nat] /\ row' \in [Transactions -> Nat]
  BY <1>1 DEF IInv, Typed, Revisions
<1>3. Typed'
  <2>1. [calls[k] EXCEPT !.pc = "stored", !.txn = t] \in CallRecord
    BY DEF IInv, Typed, CallRecord
  <2> QED
    BY <1>1, <1>2, <2>1 DEF IInv, Typed, Revisions
<1>4. PagesOK'
  BY DEF IInv, PagesOK, StoreStart
<1>5. StartsOK'
  <2>1. /\ \A c \in Circuits : current[c] # t
        /\ \A q \in Pages : shown[q][t] = 0
        /\ \A j \in Calls : ~Starting(j, t)
    BY <1>1, NullIsApart DEF IInv, Typed, Revisions, StartsOK, Starting
  <2>2. /\ calls[k].page \in Pages /\ stage[calls[k].page] # "unused"
        /\ calls'[k].page = calls[k].page
        /\ calls'[k].pc = "stored" /\ calls'[k].txn = t
        /\ \A j \in Calls : j # k => calls'[j] = calls[j]
    BY <1>1 DEF IInv, Typed, CallRecord, StartsOK, StoreStart
  <2>3. \A j \in Calls, u \in Transactions :
           Starting(j, u)' => (j = k /\ u = t) \/ (j # k /\ u # t /\ Starting(j, u))
    BY <2>1, <2>2 DEF Starting
  <2>4. \A u \in Transactions : row'[u] = IF u = t THEN 1 ELSE row[u]
    BY <1>1, <1>2
  <2>5. \A j \in Calls, u \in Transactions : Starting(j, u)' =>
           /\ \A c \in Circuits : current[c] # u
           /\ \A i \in Calls : Starting(i, u)' => i = j
           /\ \A q \in Pages : kind[q] = "Authorize" => shown[q][u] = 0
    BY <2>1, <2>3 DEF IInv, StartsOK
  <2>6. \A u \in Transactions : row[u] > 0 => row'[u] > 0
    BY <1>1, <2>4
  <2>7. \A j \in Calls :
           /\ calls'[j].pc # "idle" =>
                 calls'[j].page \in Pages /\ stage[calls'[j].page] # "unused"
           /\ calls'[j].pc \in {"stored", "checking"} =>
                 calls'[j].txn \in Transactions /\ row'[calls'[j].txn] > 0
    BY <2>2, <2>4, <2>6 DEF IInv, StartsOK
  <2>8. \A q \in Pages, u \in Transactions : shown[q][u] <= row'[u]
    BY <1>1, <1>2, <2>1, <2>4 DEF IInv, StartsOK
  <2>9. \A c \in Circuits : current[c] # Null => row'[current[c]] > 0
    BY <2>6 DEF IInv, Typed, StartsOK
  <2> QED
    BY <1>1, <2>5, <2>7, <2>8, <2>9 DEF StartsOK
<1>6. UpdatesOK'
  <2>1. \A u \in Transactions : row'[u] >= row[u]
    BY <1>1, <1>2
  <2> QED
    BY <1>1, <1>2, <2>1, WrittenUpdatesOK
<1> QED
  BY <1>3, <1>4, <1>5, <1>6 DEF IInv

\* No page shows yet the transaction a session takes over.
LEMMA TrackTransactionStep ==
    ASSUME IInv, NEW k \in Calls, TrackTransaction(k)
    PROVE  IInv'
<1> DEFINE t == calls[k].txn
           c == home[calls[k].page]
<1>1. /\ t \in Transactions /\ row[t] > 0 /\ c \in Circuits
      /\ \A q \in Pages : kind[q] = "Authorize" => shown[q][t] = 0
  BY DEF IInv, PagesOK, StartsOK, Starting, TrackTransaction
<1>2. /\ current' = [current EXCEPT ![c] = t]
      /\ calls' = [calls EXCEPT ![k].pc = "ending"]
      /\ UNCHANGED <<row, kind, home, stage, subscribers, shown, hooks, answered>>
  BY DEF TrackTransaction
<1>3. calls[k].pc = "stored"
  BY DEF TrackTransaction
<1>4. /\ calls'[k].pc = "ending" /\ calls'[k].page = calls[k].page
      /\ \A j \in Calls : j # k => calls'[j] = calls[j]
  BY <1>2 DEF IInv, Typed, CallRecord
<1>5. \A d \in Circuits : current'[d] = IF d = c THEN t ELSE current[d]
  BY <1>2 DEF IInv, Typed
<1>6. Typed'
  <2>1. [calls[k] EXCEPT !.pc = "ending"] \in CallRecord
    BY DEF IInv, Typed, CallRecord
  <2> QED
    BY <1>1, <1>2, <2>1 DEF IInv, Typed
<1>7. PagesOK'
  BY DEF IInv, PagesOK, TrackTransaction
<1> HIDE DEF t, c
<1>8. StartsOK'
  <2>1. Starting(k, t)
    BY <1>3 DEF Starting, t
  <2>2. \A j \in Calls, u \in Transactions :
           Starting(j, u)' => j # k /\ u # t /\ Starting(j, u)
    BY <1>1, <1>4, <2>1 DEF IInv, StartsOK, Starting
  <2>3. \A d \in Circuits : current'[d] # Null => row'[current'[d]] > 0
    BY <1>1, <1>2, <1>5 DEF IInv, StartsOK
  <2>4. \A j \in Calls :
           /\ calls'[j].pc # "idle" =>
                 calls'[j].page \in Pages /\ stage[calls'[j].page] # "unused"
           /\ calls'[j].pc \in {"stored", "checking"} =>
                 calls'[j].txn \in Transactions /\ row[calls'[j].txn] > 0
    BY <1>3, <1>4 DEF IInv, StartsOK
  <2>5. \A j \in Calls, u \in Transactions : Starting(j, u)' =>
           /\ \A d \in Circuits : current'[d] # u
           /\ \A i \in Calls : Starting(i, u)' => i = j
           /\ \A q \in Pages : kind[q] = "Authorize" => shown[q][u] = 0
    BY <1>5, <2>2 DEF IInv, StartsOK
  <2> QED
    BY <1>2, <2>3, <2>4, <2>5 DEF IInv, StartsOK
<1>9. UpdatesOK'
  <2>1. \A q \in Pages, u \in Transactions : \A n :
           stage[q] = "live" /\ Fresh(q, u, n) => Fresh(q, u, n)'
    <3>1. \A q \in Pages : stage[q] = "live" => home[q] \in Circuits
      BY DEF IInv, PagesOK
    <3> QED
      BY <1>1, <1>2, <1>5, <3>1 DEF Fresh, NotOlder
  <2>2. \A h \in Hooks, q \in Pages : Reached(h, q)' <=> Reached(h, q)
    BY <1>2 DEF Reached
  <2>3. \A h \in Hooks, q \in Pages : Reached(h, q) => hooks[h].txn \in Transactions
    BY DEF IInv, UpdatesOK, Reached
  <2> QED
    BY <1>2, <2>1, <2>2, <2>3 DEF IInv, UpdatesOK
<1> QED
  BY <1>6, <1>7, <1>8, <1>9 DEF IInv

\* A manual check only makes its row newer.
LEMMA MarkManualStatusStep ==
    ASSUME IInv, NEW k \in Calls, MarkManualStatus(k)
    PROVE  IInv'
<1> DEFINE t == calls[k].txn
<1>1. t \in Transactions
  BY DEF IInv, StartsOK, MarkManualStatus
<1>2. /\ row' = [row EXCEPT ![t] = @ + 1]
      /\ calls' = [calls EXCEPT ![k].pc = "ending"]
      /\ UNCHANGED <<current, kind, home, stage, subscribers, shown, hooks, answered>>
  BY DEF MarkManualStatus
<1>3. /\ calls'[k].pc = "ending" /\ calls'[k].page = calls[k].page
      /\ calls[k].pc # "idle"
      /\ \A j \in Calls : j # k => calls'[j] = calls[j]
  BY <1>2 DEF IInv, Typed, CallRecord, MarkManualStatus
<1>4. Typed'
  <2>1. [calls[k] EXCEPT !.pc = "ending"] \in CallRecord
    BY DEF IInv, Typed, CallRecord
  <2> QED
    BY <1>1, <1>2, <2>1 DEF IInv, Typed, Revisions
<1>5. PagesOK'
  BY DEF IInv, PagesOK, MarkManualStatus
<1> HIDE DEF t
<1>6. /\ row \in [Transactions -> Nat] /\ row' \in [Transactions -> Nat]
      /\ \A u \in Transactions : row'[u] = IF u = t THEN row[u] + 1 ELSE row[u]
  BY <1>1, <1>2, <1>4 DEF IInv, Typed, Revisions
<1>7. \A u \in Transactions : row'[u] >= row[u]
  BY <1>6
<1>8. StartsOK'
  <2>1. \A u \in Transactions : row[u] > 0 => row'[u] > 0
    BY <1>6
  <2>2. \A j \in Calls, u \in Transactions : Starting(j, u)' => Starting(j, u)
    BY <1>3 DEF Starting
  <2>3. \A q \in Pages, u \in Transactions : shown[q][u] \in Nat
    BY DEF IInv, Typed, Revisions
  <2>4. \A q \in Pages, u \in Transactions : shown[q][u] <= row'[u]
    BY <1>6, <1>7, <2>3 DEF IInv, StartsOK
  <2>5. \A d \in Circuits : current[d] # Null => row'[current[d]] > 0
    BY <2>1 DEF IInv, Typed, StartsOK
  <2> QED
    BY <1>2, <1>3, <2>1, <2>2, <2>4, <2>5 DEF IInv, StartsOK
<1>9. UpdatesOK'
  BY <1>2, <1>6, <1>7, WrittenUpdatesOK
<1> QED
  BY <1>4, <1>5, <1>8, <1>9 DEF IInv

\* A call that is over leaves its page drawn with what is stored.
LEMMA ReturnStep ==
    ASSUME IInv, NEW k \in Calls, calls[k].pc # "idle", Return(k)
    PROVE  IInv'
<1>0. PICK p \in Pages : p = calls[k].page
  BY DEF IInv, StartsOK
<1>1. /\ p \in Pages /\ home[p] \in Circuits
      /\ shown' \in {shown, [shown EXCEPT ![p] = View(p)]}
      /\ calls' = [calls EXCEPT ![k] = IdleCall]
      /\ UNCHANGED <<row, current, kind, home, stage, subscribers, hooks, answered>>
  BY <1>0 DEF IInv, PagesOK, StartsOK, Drawn, Return
<1>2. Typed'
  <2>1. shown' \in [Pages -> Revisions]
    BY <1>1, DrawnPages
  <2> QED
    BY <1>1, <2>1 DEF IInv, Typed, IdleCall, CallRecord
<1>3. PagesOK'
  BY <1>1 DEF IInv, PagesOK
<1>4. StartsOK'
  <2>1. \A j \in Calls : calls'[j] = calls[j] \/ calls'[j].pc = "idle"
    BY <1>1 DEF IInv, Typed, IdleCall
  <2> QED
    BY <1>1, <2>1, DrawnStartsOK
<1>5. UpdatesOK'
  <2>1. stage[p] = "live" \/ shown' = shown
    BY <1>0 DEF Drawn, Return
  <2>2. CASE stage[p] = "live"
    BY <1>1, <2>2, DrawnUpdatesOK
  <2>3. CASE shown' = shown
    BY <1>1, <2>3 DEF IInv, UpdatesOK, Fresh, NotOlder, Reached
  <2> QED
    BY <2>1, <2>2, <2>3
<1> QED
  BY <1>2, <1>3, <1>4, <1>5 DEF IInv

---------------------------------------------------------------------------
\* The row is written before any page is told.
LEMMA MarkCallbackReceivedStep ==
    ASSUME IInv, NEW h \in Hooks, NEW t \in Transactions, MarkCallbackReceived(h, t)
    PROVE  IInv'
<1> DEFINE r == [hooks[h] EXCEPT !.pc = "marked", !.txn = t, !.revision = row'[t]]
<1>1. /\ hooks[h] = IdleHook /\ hooks' = [hooks EXCEPT ![h] = r]
      /\ row' = [row EXCEPT ![t] = @ + 1]
      /\ UNCHANGED <<current, kind, home, stage, subscribers, shown, calls, answered>>
  BY DEF MarkCallbackReceived
<1>2. /\ row \in [Transactions -> Nat] /\ row' \in [Transactions -> Nat]
      /\ \A u \in Transactions : row'[u] = IF u = t THEN row[u] + 1 ELSE row[u]
  BY <1>1 DEF IInv, Typed, Revisions
<1>3. /\ r.pc = "marked" /\ r.txn = t /\ r.revision = row'[t]
      /\ r.todo = {} /\ r.drawing = Null
      /\ r \in HookRecord
  <2>1. hooks[h] \in HookRecord /\ row'[t] \in Nat
    BY <1>2 DEF IInv, Typed
  <2>2. hooks[h].todo = {} /\ hooks[h].drawing = Null
    BY <1>1 DEF IdleHook
  <2> QED
    BY <2>1, <2>2 DEF HookRecord
<1> HIDE DEF r
<1>4. \A g \in Hooks : hooks'[g] = IF g = h THEN r ELSE hooks[g]
  BY <1>1 DEF IInv, Typed
<1>5. Typed'
  BY <1>1, <1>2, <1>3 DEF IInv, Typed, Revisions
<1>6. PagesOK'
  BY <1>1, <1>3, <1>4 DEF IInv, PagesOK
<1>7. StartsOK'
  <2>1. \A u \in Transactions : row[u] > 0 => row'[u] > 0
    BY <1>2
  <2>2. \A j \in Calls, u \in Transactions : Starting(j, u)' <=> Starting(j, u)
    BY <1>1 DEF Starting
  <2>3. \A q \in Pages, u \in Transactions : shown[q][u] \in Nat
    BY DEF IInv, Typed, Revisions
  <2>4. \A q \in Pages, u \in Transactions : shown[q][u] <= row'[u]
    BY <1>2, <2>3 DEF IInv, StartsOK
  <2>5. \A d \in Circuits : current[d] # Null => row'[current[d]] > 0
    BY <2>1 DEF IInv, Typed, StartsOK
  <2> QED
    BY <1>1, <2>1, <2>2, <2>4, <2>5 DEF IInv, StartsOK
<1>8. UpdatesOK'
  <2>1. \A q \in Pages : \A u, n : Fresh(q, u, n)' <=> Fresh(q, u, n)
    BY <1>1 DEF Fresh, NotOlder
  <2>2. \A g \in Hooks, q \in Pages : Reached(g, q)' => g # h /\ Reached(g, q)
    BY <1>3, <1>4 DEF Reached
  <2>3. /\ answered \in [Transactions -> Nat]
        /\ \A g \in Hooks : hooks[g].revision \in Nat
    BY DEF IInv, Typed, Revisions, HookRecord
  <2>4. \A u \in Transactions, n \in Nat : n <= row[u] => n <= row'[u]
    BY <1>2
  <2>5. row'[t] \in 1 .. row'[t]
    BY <1>2
  <2>6. \A g \in Hooks : hooks'[g].pc # "idle" =>
           hooks'[g].txn \in Transactions /\ hooks'[g].revision \in 1 .. row'[hooks'[g].txn]
    BY <1>2, <1>3, <1>4, <2>3, <2>4, <2>5 DEF IInv, UpdatesOK
  <2>7. \A g \in Hooks : hooks'[g].pc # "publishing" =>
           hooks'[g].todo = {} /\ hooks'[g].drawing = Null
    BY <1>3, <1>4 DEF IInv, UpdatesOK
  <2>8. \A u \in Transactions : answered[u] <= row'[u]
    BY <2>3, <2>4 DEF IInv, UpdatesOK
  <2>9. \A q \in Pages : stage[q] = "live" =>
           /\ \A u \in Transactions : Fresh(q, u, answered[u])
           /\ \A g \in Hooks : Reached(g, q)' => Fresh(q, hooks'[g].txn, hooks'[g].revision)
    BY <1>4, <2>2 DEF IInv, UpdatesOK
  <2> QED
    BY <1>1, <2>1, <2>6, <2>7, <2>8, <2>9 DEF UpdatesOK
<1> QED
  BY <1>5, <1>6, <1>7, <1>8 DEF IInv

\* Every page that is drawn is on the list.
LEMMA PublishStep ==
    ASSUME IInv, NEW h \in Hooks, Publish(h)
    PROVE  IInv'
<1> DEFINE r == [hooks[h] EXCEPT !.pc = "publishing", !.todo = subscribers]
<1>1. /\ hooks[h].pc = "marked" /\ hooks' = [hooks EXCEPT ![h] = r]
      /\ UNCHANGED <<row, current, kind, home, stage, subscribers, shown, calls, answered>>
  BY DEF IInv, Typed, Publish
<1>2. /\ r.pc = "publishing" /\ r.txn = hooks[h].txn
      /\ r.revision = hooks[h].revision
      /\ r.todo = subscribers /\ r.drawing = hooks[h].drawing
      /\ r \in HookRecord
  BY DEF IInv, Typed, HookRecord
<1> HIDE DEF r
<1>3. \A g \in Hooks : hooks'[g] = IF g = h THEN r ELSE hooks[g]
  BY <1>1 DEF IInv, Typed
<1>4. Typed'
  BY <1>1, <1>2 DEF IInv, Typed
<1>5. PagesOK'
  BY <1>1, <1>2, <1>3 DEF IInv, Typed, PagesOK
<1>6. StartsOK'
  BY DEF IInv, StartsOK, Starting, Publish
<1>7. UpdatesOK'
  <2>1. \A q \in Pages : \A u, n : Fresh(q, u, n)' <=> Fresh(q, u, n)
    BY <1>1 DEF Fresh, NotOlder
  <2>2. \A g \in Hooks, q \in Pages :
           stage[q] = "live" /\ Reached(g, q)' => g # h /\ Reached(g, q)
    BY <1>2, <1>3 DEF IInv, PagesOK, Reached
  <2> QED
    BY <1>1, <1>2, <1>3, <2>1, <2>2 DEF IInv, UpdatesOK
<1> QED
  BY <1>4, <1>5, <1>6, <1>7 DEF IInv

\* A page is passed over only if the update does not concern it.
LEMMA CallHandlerStep ==
    ASSUME IInv, NEW h \in Hooks, NEW p \in Pages, CallHandler(h, p)
    PROVE  IInv'
<1> DEFINE next == IF Concerns(p, hooks[h].txn) THEN p ELSE Null
           r == [hooks[h] EXCEPT !.todo = @ \ {p}, !.drawing = next]
<1>1. /\ hooks[h].pc = "publishing" /\ hooks[h].drawing = Null
      /\ p \in hooks[h].todo
      /\ hooks' = [hooks EXCEPT ![h] = r]
      /\ UNCHANGED <<row, current, kind, home, stage, subscribers, shown, calls, answered>>
  BY DEF IInv, Typed, CallHandler
<1>2. /\ next \in Pages \cup {Null}
      /\ Concerns(p, hooks[h].txn) => next = p
  OBVIOUS
<1>3. next \in {p, Null}
  OBVIOUS
<1> HIDE DEF next
<1>4. /\ r.pc = "publishing" /\ r.txn = hooks[h].txn
      /\ r.revision = hooks[h].revision
      /\ r.todo = hooks[h].todo \ {p} /\ r.drawing = next
      /\ r \in HookRecord
  <2>1. hooks[h] \in HookRecord
    BY DEF IInv, Typed
  <2>2. hooks[h].todo \ {p} \in SUBSET Pages
    BY <2>1 DEF HookRecord
  <2> QED
    BY <1>1, <1>2, <2>1, <2>2 DEF HookRecord
<1> HIDE DEF r
<1>5. \A g \in Hooks : hooks'[g] = IF g = h THEN r ELSE hooks[g]
  BY <1>1 DEF IInv, Typed
<1>6. Typed'
  BY <1>1, <1>4 DEF IInv, Typed
<1>7. PagesOK'
  BY <1>1, <1>3, <1>4, <1>5 DEF IInv, PagesOK
<1>8. StartsOK'
  BY DEF IInv, StartsOK, Starting, CallHandler
<1>9. UpdatesOK'
  <2>1. \A q \in Pages : \A u, n : Fresh(q, u, n)' <=> Fresh(q, u, n)
    BY <1>1 DEF Fresh, NotOlder
  <2>2. \A n : ~Concerns(p, hooks[h].txn) => Fresh(p, hooks[h].txn, n)
    BY DEF Concerns, Fresh
  <2>3. \A q \in Pages :
           Reached(h, q)' => Reached(h, q) \/ (q = p /\ ~Concerns(p, hooks[h].txn))
    <3>1. /\ hooks'[h].pc = "publishing" /\ hooks'[h].drawing = next
          /\ hooks'[h].todo = hooks[h].todo \ {p}
      BY <1>4, <1>5
    <3>2. \A q \in Pages : q # Null
      BY NullIsApart
    <3>3. \A q \in Pages : Reached(h, q)' => q \notin hooks[h].todo \ {p} /\ q # next
      BY <3>1 DEF Reached
    <3>4. \A q \in Pages : q \notin hooks[h].todo => Reached(h, q)
      BY <1>1, <3>2 DEF Reached
    <3>5. \A q \in Pages : q = p /\ Reached(h, q)' => ~Concerns(p, hooks[h].txn)
      BY <1>2, <3>3
    <3>6. \A q \in Pages : q # p /\ Reached(h, q)' => Reached(h, q)
      BY <3>3, <3>4
    <3> QED
      BY <3>5, <3>6
  <2>4. \A g \in Hooks, q \in Pages : g # h => (Reached(g, q)' <=> Reached(g, q))
    BY <1>5 DEF Reached
  <2>5. \A g \in Hooks :
           hooks'[g].txn = hooks[g].txn /\ hooks'[g].revision = hooks[g].revision
    BY <1>4, <1>5
  <2>6. \A g \in Hooks, q \in Pages : stage[q] = "live" /\ Reached(g, q)' =>
           Fresh(q, hooks[g].txn, hooks[g].revision)
    BY <2>2, <2>3, <2>4 DEF IInv, UpdatesOK
  <2>7. \A g \in Hooks : /\ hooks'[g].pc = hooks[g].pc
                         /\ g # h => hooks'[g] = hooks[g]
    BY <1>1, <1>4, <1>5
  <2> QED
    BY <1>1, <2>1, <2>5, <2>6, <2>7 DEF IInv, UpdatesOK
<1> QED
  BY <1>6, <1>7, <1>8, <1>9 DEF IInv

\* The page a handler awaits is drawn with the row the webhook wrote.
LEMMA DrawForHandlerStep ==
    ASSUME IInv, NEW h \in Hooks, DrawForHandler(h)
    PROVE  IInv'
<1> DEFINE r == [hooks[h] EXCEPT !.drawing = Null]
<1>0. PICK p \in Pages : p = hooks[h].drawing
  BY DEF IInv, Typed, HookRecord, DrawForHandler
<1>1. /\ p \in Pages /\ home[p] \in Circuits
      /\ shown' \in {shown, [shown EXCEPT ![p] = View(p)]}
      /\ stage[p] = "live" => shown' = [shown EXCEPT ![p] = View(p)]
      /\ hooks' = [hooks EXCEPT ![h] = r]
      /\ UNCHANGED <<row, current, kind, home, stage, subscribers, calls, answered>>
  BY <1>0 DEF IInv, Typed, HookRecord, PagesOK, Drawn, DrawForHandler
<1>2. /\ r.pc = hooks[h].pc /\ r.txn = hooks[h].txn
      /\ r.revision = hooks[h].revision
      /\ r.todo = hooks[h].todo /\ r.drawing = Null
      /\ r \in HookRecord
  BY DEF IInv, Typed, HookRecord
<1>3. hooks[h].drawing # Null
  BY DEF DrawForHandler
<1>4. hooks[h].pc = "publishing"
  BY <1>3 DEF IInv, UpdatesOK
<1>5. \A q \in Pages : Reached(h, q) <=> q \notin hooks[h].todo /\ q # p
  BY <1>0, <1>4 DEF Reached
<1> HIDE DEF r
<1>6. \A g \in Hooks : hooks'[g] = IF g = h THEN r ELSE hooks[g]
  BY <1>1 DEF IInv, Typed
<1>7. Typed'
  <2>1. shown' \in [Pages -> Revisions]
    BY <1>1, DrawnPages
  <2> QED
    BY <1>1, <1>2, <2>1 DEF IInv, Typed
<1>8. PagesOK'
  BY <1>1, <1>2, <1>6 DEF IInv, PagesOK
<1>9. StartsOK'
  <2>1. \A j \in Calls : calls'[j] = calls[j]
    BY <1>1
  <2>2. \A q \in Pages : stage[q] # "unused" => stage'[q] # "unused"
    BY <1>1
  <2> QED
    BY <1>1, <2>1, <2>2, DrawnStartsOK
<1>10. UpdatesOK'
  <2>1. /\ \A q \in Pages, t \in Transactions, n \in Nat :
              n <= row[t] /\ Fresh(q, t, n) => Fresh(q, t, n)'
        /\ \A t \in Transactions, n \in Nat :
              n <= row[t] /\ stage[p] = "live" => Fresh(p, t, n)'
    <3>1. /\ p \in Pages /\ home[p] \in Circuits
          /\ shown' \in {shown, [shown EXCEPT ![p] = View(p)]}
          /\ UNCHANGED <<row, current, kind, home>>
      BY <1>1
    <3>2. /\ \A q \in Pages, t \in Transactions, n \in Nat :
                n <= row[t] /\ Fresh(q, t, n) => Fresh(q, t, n)'
          /\ \A t \in Transactions, n \in Nat :
                n <= row[t] /\ shown' = [shown EXCEPT ![p] = View(p)]
                   => Fresh(p, t, n)'
      BY <3>1, DrawnPages
    <3> QED
      BY <1>1, <3>2
  <2>2. /\ answered \in [Transactions -> Nat]
        /\ \A t \in Transactions : answered[t] <= row[t]
    BY DEF IInv, Typed, Revisions, UpdatesOK
  <2>3. \A g \in Hooks, q \in Pages : Reached(g, q)' => Reached(g, q) \/ (g = h /\ q = p)
    <3>1. \A g \in Hooks, q \in Pages : g # h /\ Reached(g, q)' => Reached(g, q)
      BY <1>6 DEF Reached
    <3>2. \A g \in Hooks, q \in Pages :
             g = h /\ Reached(g, q)' => q \notin hooks[h].todo
      BY <1>2, <1>6 DEF Reached
    <3>3. \A g \in Hooks, q \in Pages : g = h /\ q # p /\ Reached(g, q)' => Reached(g, q)
      BY <1>5, <3>2
    <3> QED
      BY <3>1, <3>3
  <2>4. \A g \in Hooks, q \in Pages : Reached(g, q)' =>
           /\ hooks[g].txn \in Transactions
           /\ hooks[g].revision \in Nat /\ hooks[g].revision <= row[hooks[g].txn]
    BY <1>2, <1>6 DEF IInv, Typed, Revisions, UpdatesOK, Reached
  <2>5. ASSUME NEW q \in Pages, stage[q] = "live", NEW t \in Transactions
        PROVE  Fresh(q, t, answered[t])'
    <3>1. Fresh(q, t, answered[t]) /\ answered[t] \in Nat /\ answered[t] <= row[t]
      BY <2>2, <2>5 DEF IInv, UpdatesOK
    <3>2. \A n \in Nat : n <= row[t] /\ Fresh(q, t, n) => Fresh(q, t, n)'
      BY <2>1
    <3> QED
      BY <1>1, <3>1, <3>2
  <2>6. ASSUME NEW q \in Pages, stage[q] = "live", NEW g \in Hooks, Reached(g, q)'
        PROVE  Fresh(q, hooks[g].txn, hooks[g].revision)'
    <3>1. PICK t \in Transactions, n \in Nat :
             t = hooks[g].txn /\ n = hooks[g].revision /\ n <= row[t]
      BY <2>4, <2>6
    <3>2. Reached(g, q) => Fresh(q, t, n)
      BY <3>1, <2>6 DEF IInv, UpdatesOK
    <3>3. Fresh(q, t, n)'
      BY <2>1, <2>3, <2>6, <3>1, <3>2
    <3>4. hooks'[g].txn = t /\ hooks'[g].revision = n
      BY <1>2, <1>6, <3>1
    <3> QED
      BY <3>3, <3>4
  <2>7. \A g \in Hooks : /\ hooks'[g].pc = hooks[g].pc
                         /\ hooks'[g].txn = hooks[g].txn
                         /\ hooks'[g].revision = hooks[g].revision
                         /\ g # h => hooks'[g] = hooks[g]
    BY <1>2, <1>6
  <2> QED
    BY <1>1, <1>4, <2>5, <2>6, <2>7 DEF IInv, UpdatesOK
<1> QED
  BY <1>7, <1>8, <1>9, <1>10 DEF IInv

\* A request that ends without an answer promises nothing.
LEMMA HandlerThrowsStep ==
    ASSUME IInv, NEW h \in Hooks, HandlerThrows(h)
    PROVE  IInv'
<1>1. /\ hooks' = [hooks EXCEPT ![h] = IdleHook]
      /\ UNCHANGED <<row, current, kind, home, stage, subscribers, shown, calls, answered>>
  BY DEF HandlerThrows
<1>2. \A g \in Hooks : hooks'[g] = IF g = h THEN IdleHook ELSE hooks[g]
  BY <1>1 DEF IInv, Typed
<1>3. Typed'
  BY <1>1 DEF IInv, Typed, HookRecord, IdleHook
<1>4. PagesOK'
  BY <1>1, <1>2 DEF IInv, PagesOK, IdleHook
<1>5. StartsOK'
  BY DEF IInv, StartsOK, Starting, HandlerThrows
<1>6. UpdatesOK'
  <2>1. \A q \in Pages : \A u, n : Fresh(q, u, n)' <=> Fresh(q, u, n)
    BY <1>1 DEF Fresh, NotOlder
  <2>2. \A g \in Hooks, q \in Pages : Reached(g, q)' => g # h /\ Reached(g, q)
    BY <1>2 DEF Reached, IdleHook
  <2> QED
    BY <1>1, <1>2, <2>1, <2>2 DEF IInv, UpdatesOK, IdleHook
<1> QED
  BY <1>3, <1>4, <1>5, <1>6 DEF IInv

\* An answered webhook has reached every page.
LEMMA AnswerStep ==
    ASSUME IInv, NEW h \in Hooks, Answer(h)
    PROVE  IInv'
<1>1. PICK t \in Transactions, n \in Nat :
         t = hooks[h].txn /\ n = hooks[h].revision /\ n <= row[t]
  BY DEF IInv, Typed, Revisions, UpdatesOK, Answer
<1>2. /\ hooks' = [hooks EXCEPT ![h] = IdleHook]
      /\ answered' = [answered EXCEPT ![t] = IF @ < n THEN n ELSE @]
      /\ UNCHANGED <<row, current, kind, home, stage, subscribers, shown, calls>>
      /\ \A q \in Pages : Reached(h, q)
  BY <1>1, NullIsApart DEF Reached, Answer
<1>3. \A g \in Hooks : hooks'[g] = IF g = h THEN IdleHook ELSE hooks[g]
  BY <1>2 DEF IInv, Typed
<1>4. answered \in [Transactions -> Nat] /\ answered' \in [Transactions -> Nat]
  BY <1>2 DEF IInv, Typed, Revisions
<1>5. \A u \in Transactions :
         \/ answered'[u] = answered[u]
         \/ u = t /\ answered'[u] = n
  BY <1>2, <1>4
<1>6. Typed'
  BY <1>2, <1>4 DEF IInv, Typed, Revisions, HookRecord, IdleHook
<1>7. PagesOK'
  BY <1>2, <1>3 DEF IInv, PagesOK, IdleHook
<1>8. StartsOK'
  BY DEF IInv, StartsOK, Starting, Answer
<1>9. UpdatesOK'
  <2>1. \A q \in Pages : \A u, m : Fresh(q, u, m)' <=> Fresh(q, u, m)
    BY <1>2 DEF Fresh, NotOlder
  <2>2. \A g \in Hooks, q \in Pages : Reached(g, q)' => g # h /\ Reached(g, q)
    BY <1>3 DEF Reached, IdleHook
  <2>3. \A q \in Pages : stage[q] = "live" => Fresh(q, t, n)
    BY <1>1, <1>2 DEF IInv, UpdatesOK
  <2>4. \A q \in Pages, u \in Transactions :
           stage[q] = "live" => Fresh(q, u, answered'[u])
    BY <1>5, <2>3 DEF IInv, UpdatesOK
  <2>5. \A u \in Transactions : answered'[u] <= row[u]
    BY <1>1, <1>5 DEF IInv, UpdatesOK
  <2> QED
    BY <1>2, <1>3, <2>1, <2>2, <2>4, <2>5 DEF IInv, UpdatesOK, IdleHook
<1> QED
  BY <1>6, <1>7, <1>8, <1>9 DEF IInv

---------------------------------------------------------------------------
\* A step that changes nothing preserves IInv.
LEMMA StutterIInv ==
    ASSUME IInv, UNCHANGED vars
    PROVE  IInv'
  BY DEF IInv, vars, Typed, PagesOK, StartsOK, Starting, UpdatesOK, Fresh,
     NotOlder, Reached

\* Every step preserves IInv, however pages, calls and webhooks interleave.
LEMMA NextIInv == IInv /\ [Next]_vars => IInv'
<1> SUFFICES ASSUME IInv, [Next]_vars PROVE IInv'
  OBVIOUS
<1>1. ASSUME NEW p \in Pages,
             \/ \E c \in Circuits : OpenPage(c, p)
             \/ LeavePage(p) \/ Redraw(p) \/ PageProceeds(p)
      PROVE  IInv'
  BY <1>1, OpenPageStep, LeavePageStep, RedrawStep, FirstRenderStep,
     DisposePageStep DEF PageProceeds
<1>2. ASSUME NEW k \in Calls,
             \/ \E p \in Pages : Submit(k, p) \/ CheckStatus(k, p)
             \/ \E t \in Transactions : StoreStart(k, t)
             \/ MarkManualStatus(k) \/ CallProceeds(k)
      PROVE  IInv'
  <2>1. EndCall(k) \/ CallFails(k) => calls[k].pc # "idle" /\ Return(k)
    BY DEF EndCall, CallFails
  <2> QED
    BY <1>2, <2>1, SubmitStep, CheckStatusStep, StoreStartStep,
       TrackTransactionStep, MarkManualStatusStep, ReturnStep DEF CallProceeds
<1>3. ASSUME NEW h \in Hooks,
             \/ \E t \in Transactions : MarkCallbackReceived(h, t)
             \/ HandlerThrows(h) \/ HookProceeds(h)
      PROVE  IInv'
  BY <1>3, MarkCallbackReceivedStep, PublishStep, CallHandlerStep,
     DrawForHandlerStep, HandlerThrowsStep, AnswerStep DEF HookProceeds
<1>4. CASE UNCHANGED vars
  BY <1>4, StutterIInv
<1> QED
  BY <1>1, <1>2, <1>3, <1>4 DEF Next

\* IInv holds in every reachable state.
THEOREM Invariance == Spec => []IInv
  BY InitIInv, NextIInv, PTL DEF Spec

\* Every variable keeps its type: no handler waits for a page that does not
\* exist, and no request, check or answered start is without its transaction.
THEOREM TypeCorrect == Spec => []TypeOK
<1>1. IInv => Complete
  BY PagesAssumption DEF IInv, PagesOK, StartsOK, UpdatesOK, Complete
<1>2. IInv => TypeOK
  BY <1>1 DEF IInv, TypeOK
<1> QED
  BY <1>2, Invariance, PTL

\* No open journal page is older than an answered webhook.
THEOREM JournalPagesAreLive == Spec => []JournalPagesShowAnswered
<1>1. IInv => JournalPagesShowAnswered
  BY DEF IInv, UpdatesOK, Fresh, JournalPagesShowAnswered
<1> QED
  BY <1>1, Invariance, PTL

\* No Authorize page that shows the session's transaction is older than its
\* answered webhook.
THEOREM CurrentIsLive == Spec => []CurrentShowsAnswered
<1>1. IInv => CurrentShowsAnswered
  BY DEF IInv, UpdatesOK, Fresh, CurrentShowsAnswered
<1> QED
  BY <1>1, Invariance, PTL

=============================================================================
