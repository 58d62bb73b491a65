------------------------ MODULE ConfirmationOwnership ------------------------
(***************************************************************************)
(* Whose a transaction is, for every number of circuits, calls and webhook *)
(* requests.  OwnInv is inductive under IInv: a fresh transaction is held  *)
(* by the call that started it and by nothing else, it passes from there   *)
(* to the session of that call's circuit, and only calls of that circuit   *)
(* read it from there.  That no two manual checks of a row overlap, and    *)
(* that the sessions implement TabTransactions, follow.                    *)
(***************************************************************************)
EXTENDS ConfirmationProtocolProofs

USE DEF rusauth, ui, history

\* Nobody is involved in anything at first.
LEMMA InitOwn == Init => OwnInv
<1> SUFFICES ASSUME Init PROVE OwnInv
  OBVIOUS
<1>1. \A c \in Circuits, t \in Transactions : ~Involved(c, t)
  BY NullIsApart DEF Init, Involved, Holds, IdleCall
<1> QED
  BY <1>1 DEF Init, OwnInv, OneCircuit, StartsAlone, OneHolds, IdleCall

\* A transaction RusAuth has not issued is tracked by no session and held by no
\* call.
LEMMA FreshIsFree ==
    ASSUME IInv, NEW t \in Transactions, verdict[t] = "unissued"
    PROVE  /\ \A c \in Circuits : session[c] # t
           /\ \A k \in Calls : ~Holds(k, t)
<1>1. flows[t] = Null
  BY DEF IInv, RowsOK, RowOK
<1>2. \A c \in Circuits : session[c] # t
  BY <1>1, NullIsApart DEF IInv, TrackedIsStored
<1>3. \A k \in Calls : ~Holds(k, t)
  <2> SUFFICES ASSUME NEW k \in Calls, Holds(k, t) PROVE FALSE
    OBVIOUS
  <2>1. calls[k].pc \in CallPc
    BY DEF IInv, Typed, CallRecord
  <2> QED
    BY <1>1, <2>1 DEF Holds, CallPc, IInv, CallsOK, StartOK, CheckOK
<1> QED
  BY <1>2, <1>3

\* Where nobody becomes involved, everybody stays apart.
LEMMA NobodyNew ==
    ASSUME OneCircuit,
           \A c \in Circuits, t \in Transactions : Involved(c, t)' => Involved(c, t)
    PROVE  OneCircuit'
  BY DEF OneCircuit

\* The call that is answered with a fresh transaction has it for itself.
LEMMA IssueTransactionOwn ==
    ASSUME IInv, OwnInv, NEW k \in Calls, NEW u \in Transactions, IssueTransaction(k, u)
    PROVE  OwnInv'
<1>1. /\ \A c \in Circuits : session[c] # u
      /\ \A l \in Calls : ~Holds(l, u)
  BY FreshIsFree DEF IssueTransaction
<1>2. /\ UNCHANGED session
      /\ calls'[k].pc = "startAnswered" /\ calls'[k].txn = u
      /\ calls'[k].circuit = calls[k].circuit
      /\ \A l \in Calls \ {k} : calls'[l] = calls[l]
      /\ calls[k].pc = "startSent"
  BY DEF IInv, Typed, CallRecord, IssueTransaction
<1>3. \A l \in Calls, t \in Transactions : Holds(l, t)' =>
          IF l = k THEN t = u ELSE Holds(l, t)
  BY <1>2 DEF Holds
<1>4. \A c \in Circuits, t \in Transactions : Involved(c, t)' =>
          IF t = u THEN c = calls[k].circuit ELSE Involved(c, t)
  BY <1>1, <1>2, <1>3 DEF Involved
<1>5. OneCircuit'
  BY <1>4 DEF OwnInv, OneCircuit
<1>6. StartsAlone'
  <2> SUFFICES ASSUME NEW j \in Calls, calls'[j].pc \in {"startAnswered", "tracking"}
               PROVE  /\ \A c \in Circuits : session'[c] # calls'[j].txn
                      /\ \A l \in Calls : Holds(l, calls[j].txn)' => l = j
    BY DEF StartsAlone
  <2>1. CASE j = k
    BY <1>1, <1>2, <1>3, <2>1
  <2>2. CASE j # k
    BY <1>1, <1>2, <1>3, <2>2 DEF OwnInv, StartsAlone, Holds, IInv, CallsOK, StartOK
  <2> QED
    BY <2>1, <2>2
<1>7. OneHolds'
  BY <1>2 DEF OwnInv, OneHolds
<1> QED
  BY <1>5, <1>6, <1>7 DEF OwnInv

\* What sending a call does to the calls.
LEMMA CallSent ==
    ASSUME IInv, NEW k \in Calls, NEW c \in Circuits, Submit(k, c) \/ CheckStatus(k, c)
    PROVE  /\ UNCHANGED session
           /\ calls'[k].pc \in {"startSent", "checkSent"} /\ calls'[k].circuit = c
           /\ calls'[k].pc = "checkSent" => calls'[k].txn = session[c]
           /\ \A l \in Calls \ {k} : calls'[l] = calls[l]
           /\ calls[k].pc = "idle"
<1>1. CASE Submit(k, c)
  BY <1>1 DEF IInv, Typed, IdleCall, Submit
<1>2. CASE CheckStatus(k, c)
  BY <1>2 DEF IInv, Typed, IdleCall, CheckStatus
<1> QED
  BY <1>1, <1>2

\* A call that is sent holds nothing, or the transaction of its own session.
LEMMA CallSentOwn ==
    ASSUME IInv, OwnInv, NEW k \in Calls, NEW c \in Circuits,
           Submit(k, c) \/ CheckStatus(k, c)
    PROVE  OwnInv'
<1>1. /\ UNCHANGED session
      /\ calls'[k].pc \in {"startSent", "checkSent"} /\ calls'[k].circuit = c
      /\ calls'[k].pc = "checkSent" => calls'[k].txn = session[c]
      /\ \A l \in Calls \ {k} : calls'[l] = calls[l]
      /\ calls[k].pc = "idle"
  BY CallSent
<1>2. \A l \in Calls : \A t : Holds(l, t)' =>
          IF l = k THEN t = session[c] ELSE Holds(l, t)
  BY <1>1 DEF Holds
<1>3. \A d \in Circuits, t \in Transactions : Involved(d, t)' => Involved(d, t)
  BY <1>1, <1>2 DEF Involved
<1>4. OneCircuit'
  BY <1>3, NobodyNew DEF OwnInv
<1>5. StartsAlone'
  BY <1>1, <1>2 DEF OwnInv, StartsAlone
<1>6. OneHolds'
  BY <1>1 DEF OwnInv, OneHolds
<1> QED
  BY <1>4, <1>5, <1>6 DEF OwnInv

\* A call that goes on with what it holds takes a dispatcher only when it is
\* free.
LEMMA CallGoesOnOwn ==
    ASSUME IInv, OwnInv, NEW k \in Calls,
           StoreStart(k) \/ AnswerCheck(k) \/ ReadForManualStatus(k)
    PROVE  OwnInv'
<1>1. /\ UNCHANGED session
      /\ calls'[k].txn = calls[k].txn /\ calls'[k].circuit = calls[k].circuit
      /\ \A l \in Calls \ {k} : calls'[l] = calls[l]
      /\ calls[k].pc \notin {"idle", "startSent"}
      /\ calls'[k].pc \notin {"idle", "startSent"}
      /\ calls'[k].pc \in {"startAnswered", "tracking"} => calls[k].pc = "startAnswered"
      /\ calls'[k].pc \in {"tracking", "marking"} => DispatcherFree(calls[k].circuit)
  BY DEF IInv, Typed, CallRecord, StoreStart, AnswerCheck, ReadForManualStatus
<1>2. \A l \in Calls : \A t : Holds(l, t)' <=> Holds(l, t)
  BY <1>1 DEF Holds
<1>3. OneCircuit'
  BY <1>1, <1>2, NobodyNew DEF OwnInv, Involved
<1>4. StartsAlone'
  <2> SUFFICES ASSUME NEW j \in Calls, calls'[j].pc \in {"startAnswered", "tracking"}
               PROVE  /\ \A c \in Circuits : session'[c] # calls'[j].txn
                      /\ \A l \in Calls : Holds(l, calls[j].txn)' => l = j
    BY DEF StartsAlone
  <2>1. calls[j].pc \in {"startAnswered", "tracking"} /\ calls'[j].txn = calls[j].txn
    BY <1>1
  <2> QED
    BY <1>1, <2>1 DEF OwnInv, StartsAlone, Holds
<1>5. OneHolds'
  BY <1>1 DEF OwnInv, OneHolds, DispatcherFree
<1> QED
  BY <1>3, <1>4, <1>5 DEF OwnInv

\* A call that is over holds nothing; if it leaves its transaction to the
\* session, that is the session of its own circuit.
LEMMA CallOverOwn ==
    ASSUME IInv, OwnInv, NEW k \in Calls,
           TrackTransaction(k) \/ WriteManualStatus(k) \/ CallFails(k)
    PROVE  OwnInv'
<1>1. calls' = [calls EXCEPT ![k] = IdleCall]
  BY DEF TrackTransaction, WriteManualStatus, CallFails
<1>2. /\ calls'[k].pc = "idle"
      /\ \A l \in Calls \ {k} : calls'[l] = calls[l]
  BY <1>1 DEF IInv, Typed, IdleCall
<1>3. \A l \in Calls : \A t : Holds(l, t)' => Holds(l, t) /\ l # k
  BY <1>2 DEF Holds
<1>4. OneHolds'
  BY <1>2 DEF OwnInv, OneHolds
<1>5. CASE UNCHANGED session
  <2>1. OneCircuit'
    BY <1>2, <1>3, <1>5, NobodyNew DEF OwnInv, Involved
  <2>2. StartsAlone'
    BY <1>2, <1>3, <1>5 DEF OwnInv, StartsAlone
  <2> QED
    BY <1>4, <2>1, <2>2 DEF OwnInv
<1>6. CASE TrackTransaction(k)
  <2> DEFINE c == calls[k].circuit
  <2>1. /\ c \in Circuits /\ Holds(k, calls[k].txn)
        /\ calls[k].pc = "tracking"
    BY <1>6 DEF IInv, CallsOK, Holds, TrackTransaction
  <2>2. session' = [session EXCEPT ![c] = calls[k].txn]
    BY <1>6 DEF TrackTransaction
  <2>3. \A d \in Circuits, t \in Transactions : Involved(d, t)' => Involved(d, t)
    BY <1>2, <1>3, <2>1, <2>2 DEF Involved, IInv, Typed
  <2>4. OneCircuit'
    BY <2>3, NobodyNew DEF OwnInv
  <2>5. StartsAlone'
    <3> SUFFICES ASSUME NEW j \in Calls, calls'[j].pc \in {"startAnswered", "tracking"}
                 PROVE  /\ \A d \in Circuits : session'[d] # calls'[j].txn
                        /\ \A l \in Calls : Holds(l, calls[j].txn)' => l = j
      BY DEF StartsAlone
    <3>1. /\ j # k /\ calls'[j] = calls[j]
          /\ calls[j].pc \in {"startAnswered", "tracking"}
      BY <1>2
    <3>2. calls[j].txn # calls[k].txn
      BY <2>1, <3>1 DEF OwnInv, StartsAlone, Holds
    <3> QED
      BY <1>3, <2>2, <3>1, <3>2 DEF OwnInv, StartsAlone, Holds, IInv, Typed
  <2> QED
    BY <1>4, <2>4, <2>5 DEF OwnInv
<1> QED
  BY <1>5, <1>6 DEF WriteManualStatus, CallFails

\* Webhooks, RusAuth and the user do not touch what is whose, and a restart
\* forgets it.
LEMMA OthersOwn ==
    ASSUME OwnInv, UNCHANGED <<session, calls>>
    PROVE  OwnInv'
  BY DEF OwnInv, OneCircuit, Involved, Holds, StartsAlone, OneHolds

LEMMA RestartOwn ==
    ASSUME Restart
    PROVE  OwnInv'
<1>1. /\ \A c \in Circuits : session'[c] = Null
      /\ \A k \in Calls : calls'[k].pc = "idle"
  BY DEF Restart, IdleCall
<1>2. \A c \in Circuits, t \in Transactions : ~Involved(c, t)'
  BY <1>1, NullIsApart DEF Involved, Holds
<1> QED
  BY <1>1, <1>2 DEF OwnInv, OneCircuit, StartsAlone, OneHolds

\* Steps that leave the sessions and the calls alone.
Elsewhere ==
    \/ \E c \in Circuits :
          \/ OpenCircuit(c) \/ CloseCircuit(c)
          \/ \E phone \in Phones \cup {Null} : EditPhone(c, phone)
    \/ \E t \in Transactions :
          \/ \E decision \in Decided : Decide(t, decision)
          \/ \E h \in Hooks : CallbackLookup(h, t)
    \/ \E h \in Hooks : HookProceeds(h)
    \/ UNCHANGED vars

LEMMA ElsewhereSteps == Elsewhere => UNCHANGED <<session, calls>>
  BY DEF Elsewhere, OpenCircuit, CloseCircuit, EditPhone, Decide, CallbackLookup,
     HookProceeds, CallbackWrite, CallbackAnswer, CallbackFails, vars

\* Every step leaves a transaction with the circuit it belongs to.
LEMMA NextOwn == IInv /\ OwnInv /\ [Next]_vars => OwnInv'
<1> SUFFICES ASSUME IInv, OwnInv, [Next]_vars PROVE OwnInv'
  OBVIOUS
<1>1. ASSUME NEW k \in Calls, NEW c \in Circuits, Submit(k, c) \/ CheckStatus(k, c)
      PROVE  OwnInv'
  BY <1>1, CallSentOwn
<1>2. ASSUME NEW k \in Calls, NEW t \in Transactions, IssueTransaction(k, t)
      PROVE  OwnInv'
  BY <1>2, IssueTransactionOwn
<1>3. ASSUME NEW k \in Calls, AnswerCheck(k) \/ CallProceeds(k)
      PROVE  OwnInv'
  BY <1>3, CallGoesOnOwn, CallOverOwn DEF CallProceeds
<1>4. CASE Elsewhere
  BY <1>4, ElsewhereSteps, OthersOwn
<1>5. CASE Restart
  BY <1>5, RestartOwn
<1> QED
  BY <1>1, <1>2, <1>3, <1>4, <1>5 DEF Next, Elsewhere

\* In every reachable state a transaction belongs to one circuit.
THEOREM Ownership == Spec => []OwnInv
<1>1. IInv /\ OwnInv /\ [Next]_vars => OwnInv'
  BY NextOwn
<1> QED
  BY <1>1, InitOwn, Invariance, PTL DEF Spec

\* However many circuits and calls there are, MarkManualStatus never runs twice
\* at a time for the same row, so of manual checks no update is lost.
THEOREM ChecksNeverOverlap == Spec => []ChecksDoNotOverlap
<1>1. IInv /\ OwnInv => ChecksDoNotOverlap
  <2> SUFFICES ASSUME IInv, OwnInv, NEW k \in Calls, NEW l \in Calls,
                      calls[k].pc = "marking", calls[l].pc = "marking",
                      calls[k].txn = calls[l].txn
               PROVE  k = l
    BY DEF ChecksDoNotOverlap
  <2> DEFINE t == calls[k].txn
  <2>1. /\ calls[k].circuit \in Circuits /\ calls[l].circuit \in Circuits
        /\ t \in Transactions
    BY DEF IInv, CallsOK, CheckOK
  <2>2. Involved(calls[k].circuit, t) /\ Involved(calls[l].circuit, t)
    BY DEF Involved, Holds
  <2>3. calls[k].circuit = calls[l].circuit
    BY <2>1, <2>2 DEF OwnInv, OneCircuit
  <2> QED
    BY <2>3 DEF OwnInv, OneHolds
<1> QED
  BY <1>1, Invariance, Ownership, PTL

---------------------------------------------------------------------------
\* The sessions implement TabTransactions.

\* No two circuits track the same transaction.
THEOREM SessionsAreApart == Spec => []Tabs!Apart
<1>1. IInv /\ OwnInv => Tabs!Apart
  BY DEF IInv, Typed, OwnInv, OneCircuit, Involved, Tabs!Apart
<1> QED
  BY <1>1, Invariance, Ownership, PTL

\* Nothing is stored or taken at first.
LEMMA InitTabs == Init => Tabs!Init
  BY DEF Init, IdleCall, Stored, BeingTracked, Tabs!Init

\* store.Start stores a transaction nobody has taken.
LEMMA StoreStartTabs ==
    ASSUME IInv, NEW k \in Calls, StoreStart(k)
    PROVE  calls[k].txn \in Transactions /\ Tabs!Store(calls[k].txn)
<1> DEFINE t == calls[k].txn
<1>1. /\ t \in Transactions /\ flows[t] = Null
      /\ NewFlow(RequestedPhone(k)) # Null
  BY NewRow, NullIsApart DEF IInv, CallsOK, StartOK, StoreStart, RequestedPhone
<1>2. /\ \A u \in Transactions : flows'[u] # Null <=> flows[u] # Null \/ u = t
      /\ UNCHANGED session
  BY <1>1 DEF IInv, Typed, StoreStart
<1>3. Stored' = Stored \cup {t} /\ t \notin Stored
  BY <1>1, <1>2 DEF Stored
<1>4. /\ calls'[k].pc = "tracking" /\ calls'[k].txn = t
      /\ calls[k].pc = "startAnswered"
      /\ \A l \in Calls \ {k} : calls'[l] = calls[l]
  BY DEF IInv, Typed, CallRecord, StoreStart
<1>5. BeingTracked' = BeingTracked \cup {t}
  BY <1>1, <1>4 DEF BeingTracked
<1> QED
  BY <1>1, <1>2, <1>3, <1>5 DEF Tabs!Store

\* session.TrackTransaction takes it, for it was tracked by this call alone.
LEMMA TrackTransactionTabs ==
    ASSUME IInv, OwnInv, NEW k \in Calls, TrackTransaction(k)
    PROVE  /\ calls[k].circuit \in Circuits /\ calls[k].txn \in Transactions
           /\ Tabs!Take(calls[k].circuit, calls[k].txn)
<1> DEFINE t == calls[k].txn
<1>1. /\ calls[k].circuit \in Circuits /\ t \in Transactions
      /\ flows[t] # Null /\ calls[k].pc = "tracking"
  BY DEF IInv, CallsOK, StartOK, TrackTransaction
<1>2. UNCHANGED flows /\ session' = [session EXCEPT ![calls[k].circuit] = t]
  BY DEF TrackTransaction
<1>3. Stored' = Stored /\ t \in Stored /\ t \in BeingTracked
  BY <1>1, <1>2 DEF Stored, BeingTracked
<1>4. /\ calls'[k].pc = "idle"
      /\ \A l \in Calls \ {k} : calls'[l] = calls[l]
  BY DEF IInv, Typed, IdleCall, TrackTransaction
<1>5. \A l \in Calls : calls[l].pc = "tracking" /\ calls[l].txn = t => l = k
  BY <1>1 DEF OwnInv, StartsAlone, Holds
<1>6. BeingTracked' = BeingTracked \ {t}
  BY <1>1, <1>4, <1>5 DEF BeingTracked
<1> QED
  BY <1>1, <1>2, <1>3, <1>6 DEF Tabs!Take

\* No other step stores a transaction or begins to track one.
LEMMA UnseenTabs ==
    ASSUME UNCHANGED session,
           \A t \in Transactions : flows'[t] = Null <=> flows[t] = Null,
           \A k \in Calls : calls'[k].pc = "tracking" \/ calls[k].pc = "tracking"
                               => calls'[k] = calls[k]
    PROVE  UNCHANGED Tabs!tvars
<1>1. Stored' = Stored
  BY DEF Stored
<1>2. BeingTracked' = BeingTracked
  BY DEF BeingTracked
<1> QED
  BY <1>1, <1>2 DEF Tabs!tvars

LEMMA OtherCallsTabs ==
    ASSUME IInv, NEW k \in Calls,
           \/ \E c \in Circuits : Submit(k, c) \/ CheckStatus(k, c)
           \/ \E t \in Transactions : IssueTransaction(k, t)
           \/ AnswerCheck(k) \/ ReadForManualStatus(k)
           \/ WriteManualStatus(k) \/ CallFails(k)
    PROVE  UNCHANGED Tabs!tvars
<1>1. UNCHANGED session
  BY DEF Submit, CheckStatus, IssueTransaction, AnswerCheck, ReadForManualStatus,
     WriteManualStatus, CallFails
<1>2. /\ calls[k].pc # "tracking" /\ calls'[k].pc # "tracking"
      /\ \A l \in Calls \ {k} : calls'[l] = calls[l]
  <2>1. ASSUME NEW c \in Circuits, Submit(k, c) \/ CheckStatus(k, c)
        PROVE  calls[k].pc = "idle" /\ calls'[k].pc \in {"startSent", "checkSent"}
    BY <2>1, CallSent
  <2>2. ASSUME NEW t \in Transactions, IssueTransaction(k, t)
        PROVE  calls[k].pc = "startSent" /\ calls'[k].pc = "startAnswered"
    BY <2>2 DEF IInv, Typed, CallRecord, IssueTransaction
  <2>3. CASE AnswerCheck(k) \/ ReadForManualStatus(k)
    BY <2>3 DEF IInv, Typed, CallRecord, AnswerCheck, ReadForManualStatus
  <2>4. CASE WriteManualStatus(k) \/ CallFails(k)
    BY <2>4 DEF IInv, Typed, IdleCall, AwaitingRusAuth, WriteManualStatus, CallFails
  <2>5. \A l \in Calls \ {k} : calls'[l] = calls[l]
    BY DEF IInv, Typed, Submit, CheckStatus, IssueTransaction, AnswerCheck,
       ReadForManualStatus, WriteManualStatus, CallFails
  <2> QED
    BY <2>1, <2>2, <2>3, <2>4, <2>5
<1>3. CASE WriteManualStatus(k)
  <2> DEFINE row == ManualStatus(calls[k].existing, calls[k].reply)
  <2>1. /\ calls[k].txn \in Transactions /\ flows[calls[k].txn] # Null
        /\ calls[k].existing \in Flows /\ calls[k].reply \in Statuses
        /\ RowOK(calls[k].txn, calls[k].existing)
        /\ calls[k].reply \in {"Success", "Expired"}
              => calls[k].reply = verdict[calls[k].txn]
    BY <1>3 DEF IInv, CallsOK, CheckOK, WriteManualStatus
  <2>2. row \in Flows /\ row # Null
    BY <2>1, ManualStatusRow, NullIsApart
  <2>3. flows' = [flows EXCEPT ![calls[k].txn] = row]
    BY <1>3, <2>1, NullIsApart DEF WriteManualStatus, CheckTarget
  <2> HIDE DEF row
  <2>4. \A t \in Transactions : flows'[t] = Null <=> flows[t] = Null
    BY <2>1, <2>2, <2>3 DEF IInv, Typed
  <2> QED
    BY <1>1, <1>2, <2>4, UnseenTabs
<1>4. CASE UNCHANGED flows
  BY <1>1, <1>2, <1>4, UnseenTabs
<1> QED
  BY <1>3, <1>4 DEF Submit, CheckStatus, IssueTransaction, AnswerCheck,
     ReadForManualStatus, CallFails

\* A webhook writes a row that is there.
LEMMA ElsewhereTabs ==
    ASSUME IInv, Elsewhere
    PROVE  UNCHANGED Tabs!tvars
<1>1. UNCHANGED <<session, calls>>
  BY ElsewhereSteps
<1>2. ASSUME NEW h \in Hooks, CallbackWrite(h)
      PROVE  \A t \in Transactions : flows'[t] = Null <=> flows[t] = Null
  <2> DEFINE row == CallbackReceived(hooks[h].existing)
  <2>1. /\ hooks[h].txn \in Transactions /\ flows[hooks[h].txn] # Null
        /\ hooks[h].existing \in Flows /\ RowOK(hooks[h].txn, hooks[h].existing)
        /\ verdict[hooks[h].txn] = "Success"
    BY <1>2 DEF IInv, HooksOK, CallbackWrite
  <2>2. row \in Flows /\ row # Null
    BY <2>1, CallbackRow, NullIsApart
  <2>3. flows' = [flows EXCEPT ![hooks[h].txn] = row]
    BY <1>2 DEF CallbackWrite
  <2> HIDE DEF row
  <2> QED
    BY <2>1, <2>2, <2>3 DEF IInv, Typed
<1>3. \A t \in Transactions : flows'[t] = Null <=> flows[t] = Null
  <2>1. CASE UNCHANGED flows
    BY <2>1
  <2>2. CASE \E h \in Hooks : CallbackWrite(h)
    BY <1>2, <2>2
  <2> QED
    BY <2>1, <2>2 DEF Elsewhere, OpenCircuit, CloseCircuit, EditPhone, Decide,
       CallbackLookup, HookProceeds, CallbackAnswer, CallbackFails, vars
<1> QED
  BY <1>1, <1>3, UnseenTabs

\* Every step stores, takes or forgets transactions, or leaves them alone.
LEMMA NextTabs == IInv /\ OwnInv /\ [Next]_vars => [Tabs!Next]_Tabs!tvars
<1> SUFFICES ASSUME IInv, OwnInv, [Next]_vars PROVE Tabs!Next \/ UNCHANGED Tabs!tvars
  OBVIOUS
<1>1. ASSUME NEW k \in Calls, StoreStart(k) PROVE Tabs!Next
  BY <1>1, StoreStartTabs DEF Tabs!Next
<1>2. ASSUME NEW k \in Calls, TrackTransaction(k) PROVE Tabs!Next
  BY <1>2, TrackTransactionTabs DEF Tabs!Next
<1>3. ASSUME NEW k \in Calls,
             \/ \E c \in Circuits : Submit(k, c) \/ CheckStatus(k, c)
             \/ \E t \in Transactions : IssueTransaction(k, t)
             \/ AnswerCheck(k) \/ ReadForManualStatus(k)
             \/ WriteManualStatus(k) \/ CallFails(k)
      PROVE  UNCHANGED Tabs!tvars
  BY <1>3, OtherCallsTabs
<1>4. CASE Elsewhere
  BY <1>4, ElsewhereTabs
<1>5. CASE Restart
  BY <1>5 DEF Restart, IdleCall, Stored, BeingTracked, Tabs!Next, Tabs!Forget
<1> QED
  BY <1>1, <1>2, <1>3, <1>4, <1>5 DEF Next, CallProceeds, Elsewhere

\* The scoped sessions of any number of circuits share the transactions out: a
\* circuit takes the one it started, after its row was stored, and nobody takes
\* it again.
THEOREM ImplementsTabs == Spec => TabsSpec
<1>1. IInv /\ OwnInv /\ [Next]_vars => [Tabs!Next]_Tabs!tvars
  BY NextTabs
<1> QED
  BY <1>1, InitTabs, Invariance, Ownership, PTL DEF Spec, TabsSpec, Tabs!Spec

=============================================================================
