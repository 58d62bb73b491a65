------------------------- MODULE LivePagesInvariant -------------------------
(***************************************************************************)
(* The inductive invariant of LivePages: where what a webhook wrote is on  *)
(* its way to a page that has not drawn it yet, and in which tab a         *)
(* transaction may be shown.                                               *)
(***************************************************************************)
EXTENDS LivePages

\* An attached handler is that of a page that lives somewhere, and every page
\* that is drawn is attached.
PagesOK ==
    /\ \A p \in Pages : stage[p] # "unused" => home[p] \in Circuits
    /\ \A p \in Pages : stage[p] \in {"initialized", "live"} => p \in subscribers
    /\ \A p \in subscribers : stage[p] # "unused"
    /\ \A h \in Hooks : \A p \in hooks[h].todo : stage[p] # "unused"
    /\ \A h \in Hooks : hooks[h].drawing # Null => stage[hooks[h].drawing] # "unused"

\* A start that was answered carries a transaction whose row exists and which
\* no session and no other start has; a check carries the transaction of a
\* session; a page can only draw what is stored.
Starting(k, t) == calls[k].pc = "stored" /\ calls[k].txn = t

StartsOK ==
    /\ \A k \in Calls : calls[k].pc # "idle" =>
          calls[k].page \in Pages /\ stage[calls[k].page] # "unused"
    /\ \A k \in Calls : calls[k].pc \in {"stored", "checking"} =>
          calls[k].txn \in Transactions /\ row[calls[k].txn] > 0
    /\ \A k \in Calls, t \in Transactions : Starting(k, t) =>
          /\ \A c \in Circuits : current[c] # t
          /\ \A j \in Calls : Starting(j, t) => j = k
          /\ \A q \in Pages : kind[q] = "Authorize" => shown[q][t] = 0
    /\ \A c \in Circuits : current[c] # Null => row[current[c]] > 0
    /\ \A p \in Pages, t \in Transactions : shown[p][t] <= row[t]

\* Page p is not older than revision n of t, unless it is an Authorize page of
\* another transaction.
Fresh(p, t, n) ==
    /\ kind[p] = "Account" => shown[p][t] >= n
    /\ kind[p] = "Authorize" /\ current[home[p]] = t => NotOlder(p, t, n)

\* h has published to p, or p came too late for it.
Reached(h, p) ==
    hooks[h].pc = "publishing" /\ p \notin hooks[h].todo /\ hooks[h].drawing # p

\* What a webhook in progress has written is stored, and a page it has reached
\* is not older; neither is any page older than an answered webhook.
UpdatesOK ==
    /\ \A h \in Hooks : hooks[h].pc # "idle" =>
          hooks[h].txn \in Transactions /\ hooks[h].revision \in 1 .. row[hooks[h].txn]
    /\ \A h \in Hooks : hooks[h].pc # "publishing" =>
          hooks[h].todo = {} /\ hooks[h].drawing = Null
    /\ \A t \in Transactions : answered[t] <= row[t]
    /\ \A p \in Pages : stage[p] = "live" =>
          /\ \A t \in Transactions : Fresh(p, t, answered[t])
          /\ \A h \in Hooks : Reached(h, p) => Fresh(p, hooks[h].txn, hooks[h].revision)

IInv ==
    /\ Typed
    /\ PagesOK
    /\ StartsOK
    /\ UpdatesOK

---------------------------------------------------------------------------
\* Circuit c has to do with t: its session tracks t, one of its starts has just
\* stored t, or one of its Authorize pages shows t.
Involved(c, t) ==
    \/ current[c] = t
    \/ \E k \in Calls : Starting(k, t) /\ home[calls[k].page] = c
    \/ \E p \in Pages : kind[p] = "Authorize" /\ shown[p][t] > 0 /\ home[p] = c

OneCircuit ==
    \A c, d \in Circuits, t \in Transactions :
        Involved(c, t) /\ Involved(d, t) => c = d

\* A page that has not been opened has drawn nothing.
UnopenedIsBlank ==
    \A p \in Pages, t \in Transactions : stage[p] = "unused" => shown[p][t] = 0

\* Inductive together with IInv.
OwnInv == OneCircuit /\ UnopenedIsBlank

=============================================================================
