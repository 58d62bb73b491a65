--------------------------- MODULE TabTransactions ---------------------------
(***************************************************************************)
(* Whose a transaction is.  The journal is shared by all tabs, but a       *)
(* transaction belongs to the tab that started it: its row is written      *)
(* first, then the tab takes it, and nobody ever takes it again.  A tab    *)
(* follows the transaction it took last.                                   *)
(***************************************************************************)
CONSTANTS Transactions, Tabs,
          Nobody               \* what a tab follows before it has taken one

VARIABLES stored,   \* the transactions that have a row
          taken,    \* those a tab has taken
          followed  \* the transaction each tab follows

tvars == <<stored, taken, followed>>

TypeOK ==
    /\ stored   \in SUBSET Transactions
    /\ taken    \in SUBSET stored
    /\ followed \in [Tabs -> taken \cup {Nobody}]

Init ==
    /\ stored = {}
    /\ taken = {}
    /\ followed = [tab \in Tabs |-> Nobody]

\* The row of a new transaction is written.
Store(t) ==
    /\ t \notin stored
    /\ stored' = stored \cup {t}
    /\ UNCHANGED <<taken, followed>>

\* A tab takes a transaction that nobody has had.
Take(tab, t) ==
    /\ t \in stored \ taken
    /\ taken' = taken \cup {t}
    /\ followed' = [followed EXCEPT ![tab] = t]
    /\ UNCHANGED stored

\* The process restarts.
Forget ==
    /\ stored' = {}
    /\ taken' = {}
    /\ followed' = [tab \in Tabs |-> Nobody]

Next ==
    \/ \E t \in Transactions : Store(t) \/ \E tab \in Tabs : Take(tab, t)
    \/ Forget

Spec == Init /\ [][Next]_tvars

\* No two tabs follow the same transaction.
Apart ==
    \A a, b \in Tabs :
        followed[a] = followed[b] /\ followed[a] # Nobody => a = b

=============================================================================
