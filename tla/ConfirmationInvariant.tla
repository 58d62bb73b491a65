----------------------- MODULE ConfirmationInvariant -----------------------
(***************************************************************************)
(* The inductive invariant of the protocol.  The properties of             *)
(* ConfirmationProtocol speak of the journal at rest; they hold because of *)
(* what is true of the values that calls and webhook requests carry across *)
(* an await or between a read of the store and the write that follows it.  *)
(* OwnInv adds whose a transaction is.                                     *)
(***************************************************************************)
EXTENDS ConfirmationProtocol

\* A row that may stand in the journal for t, now or when whoever holds a copy
\* of it writes it back: RusAuth issued t for this number, and the status is
\* one RusAuth decided, dated.
RowOK(t, f) ==
    /\ verdict[t] # "unissued"
    /\ f.phone = asked[t]
    /\ f.status \in {"Success", "Expired"} => f.status = verdict[t]
    /\ Explained(f)

RowsOK == \A t \in Transactions : flows[t] # Null => RowOK(t, flows[t])

\* A start that was answered carries an issued transaction and the number it
\* was issued for, and nobody has written its row before the call does.
StartOK(k) ==
    LET c == calls[k] IN
    /\ c.pc \in {"startSent", "startAnswered", "tracking"} => c.phone \in Phones
    /\ c.pc \in {"startAnswered", "tracking"} =>
          /\ c.txn \in Transactions
          /\ verdict[c.txn] # "unissued"
          /\ asked[c.txn] = c.phone
    /\ c.pc = "startAnswered" => flows[c.txn] = Null
    /\ c.pc = "tracking" => flows[c.txn] # Null

\* A check carries a transaction whose row is in the store, an answer RusAuth
\* could still give, and a copy of a row that may be written back.
CheckOK(k) ==
    LET c == calls[k] IN
    /\ c.pc \in {"checkSent", "checkAnswered", "marking"} =>
          c.txn \in Transactions /\ flows[c.txn] # Null
    /\ c.pc \in {"checkAnswered", "marking"} =>
          /\ c.reply \in Statuses
          /\ c.reply \in {"Success", "Expired"} => c.reply = verdict[c.txn]
    /\ c.pc = "marking" => c.existing \in Flows /\ RowOK(c.txn, c.existing)

CallsOK == \A k \in Calls :
              /\ calls[k].pc # "idle" => calls[k].circuit \in Circuits
              /\ StartOK(k)
              /\ CheckOK(k)

\* RusAuth never answers two calls with the same transaction.
StartsApart ==
    \A k, l \in Calls :
        k # l /\ calls[k].pc = "startAnswered" /\ calls[l].pc = "startAnswered"
            => calls[k].txn # calls[l].txn

HooksOK == \A h \in Hooks : hooks[h].pc # "idle" =>
    LET t == hooks[h].txn IN
    /\ t \in Transactions
    /\ verdict[t] = "Success"
    /\ flows[t] # Null
    /\ hooks[h].pc = "marking" =>
          hooks[h].existing \in Flows /\ RowOK(t, hooks[h].existing)

\* The webhook of t has been written to the journal, answered yet or not.
Delivered(t) ==
    t \in acked \/ \E h \in Hooks : hooks[h].pc = "publishing" /\ hooks[h].txn = t

\* A delivered webhook stays in the row, and in the copy any manual check is
\* about to write back, unless a check was holding a copy when it was written.
DeliveredOK ==
    \A t \in Transactions : Delivered(t) =>
        /\ flows[t] # Null
        /\ ~flows[t].checked => flows[t].status = "Success"
        /\ t \notin raced =>
              /\ flows[t].callback /\ flows[t].completed
              /\ \A k \in Calls : calls[k].pc = "marking" /\ calls[k].txn = t =>
                    calls[k].existing.callback /\ calls[k].existing.completed

\* The inductive invariant: what the values in flight carry, besides the types
\* and TrackedIsStored, for each property to survive the next write.
IInv ==
    /\ Typed
    /\ TrackedIsStored
    /\ RowsOK
    /\ CallsOK
    /\ StartsApart
    /\ HooksOK
    /\ DeliveredOK

---------------------------------------------------------------------------
\* Call k is about transaction t.
Holds(k, t) == calls[k].pc \notin {"idle", "startSent"} /\ calls[k].txn = t

\* Circuit c has to do with t: its session tracks t, or one of its calls holds it.
Involved(c, t) ==
    \/ session[c] = t
    \/ \E k \in Calls : calls[k].circuit = c /\ Holds(k, t)

OneCircuit ==
    \A c, d \in Circuits, t \in Transactions :
        Involved(c, t) /\ Involved(d, t) => c = d

\* An answered start is the only one that holds its transaction.
StartsAlone ==
    \A k \in Calls : calls[k].pc \in {"startAnswered", "tracking"} =>
        /\ \A c \in Circuits : session[c] # calls[k].txn
        /\ \A l \in Calls : Holds(l, calls[k].txn) => l = k

\* A dispatcher is held by one call at a time.
OneHolds ==
    \A k, l \in Calls :
        /\ calls[k].pc \in {"tracking", "marking"} /\ calls[l].pc \in {"tracking", "marking"}
        /\ calls[k].circuit = calls[l].circuit
        => k = l

\* Inductive together with IInv.
OwnInv == OneCircuit /\ StartsAlone /\ OneHolds

=============================================================================
