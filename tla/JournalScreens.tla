--------------------------- MODULE JournalScreens ---------------------------
(***************************************************************************)
(* What the journal pages promise their readers, whatever runs behind      *)
(* them.  A row is known by its revision, the number of times it has been  *)
(* written.  An open screen shows the whole journal as it was at some      *)
(* moment, and never an older one after a newer one; a webhook is answered *)
(* only when no open screen is older than what that webhook wrote.         *)
(***************************************************************************)
EXTENDS Naturals

CONSTANTS Transactions, Screens

VARIABLES journal,    \* the revision of each row; 0 where there is none
          open,       \* the screens that are open
          seen,       \* the revisions an open screen shows
          promised    \* the newest revision whose webhook was answered

svars == <<journal, open, seen, promised>>

Blank == [t \in Transactions |-> 0]

TypeOK ==
    /\ journal  \in [Transactions -> Nat]
    /\ open     \in SUBSET Screens
    /\ seen     \in [Screens -> [Transactions -> Nat]]
    /\ promised \in [Transactions -> Nat]

Init ==
    /\ journal = Blank
    /\ open = {}
    /\ seen = [s \in Screens |-> Blank]
    /\ promised = Blank

\* A row is written: by a start, by a manual check, by a webhook.
Write(t) ==
    /\ journal' = [journal EXCEPT ![t] = @ + 1]
    /\ UNCHANGED <<open, seen, promised>>

\* A screen is opened or drawn again: it shows the journal as it is now.
Draw(s) ==
    /\ open' = open \cup {s}
    /\ seen' = [seen EXCEPT ![s] = journal]
    /\ UNCHANGED <<journal, promised>>

\* Screens are closed, by navigation or with their tab.
Close(closed) ==
    /\ open' = open \ closed
    /\ seen' = [s \in Screens |-> IF s \in closed THEN Blank ELSE seen[s]]
    /\ UNCHANGED <<journal, promised>>

\* The webhook that wrote revision n of t is answered.
Promise(t, n) ==
    /\ n <= journal[t]
    /\ \A s \in open : seen[s][t] >= n
    /\ promised' = [promised EXCEPT ![t] = IF @ < n THEN n ELSE @]
    /\ UNCHANGED <<journal, open, seen>>

Next ==
    \/ \E t \in Transactions : Write(t) \/ \E n \in 0 .. journal[t] : Promise(t, n)
    \/ \E s \in Screens : Draw(s)
    \/ \E closed \in SUBSET Screens : Close(closed)

Spec == Init /\ [][Next]_svars

=============================================================================
