------------------------ MODULE ConfirmationJournal ------------------------
(***************************************************************************)
(* What the journal promises a reader, whatever the threads behind it do:  *)
(* a row appears only for a transaction RusAuth issued, it starts pending, *)
(* and from then on it says "pending", "not confirmed", or exactly what    *)
(* RusAuth decided.  It may go back from a decision to "pending" or to     *)
(* "not confirmed" (a late or mistaken manual check does that), and a      *)
(* restart of the process empties it; it never invents a decision.         *)
(***************************************************************************)

CONSTANTS Transactions   \* the transactions RusAuth may issue

VARIABLES verdict,       \* what RusAuth knows of each transaction
          journal        \* the status the journal shows, or "absent"

jvars == <<verdict, journal>>

Decisions == {"Success", "Failed", "Expired"}

TypeOK ==
    /\ verdict \in [Transactions -> {"unissued", "Unhandled"} \cup Decisions]
    /\ journal \in [Transactions -> {"absent", "Unhandled"} \cup Decisions]

Init ==
    /\ verdict = [t \in Transactions |-> "unissued"]
    /\ journal = [t \in Transactions |-> "absent"]

\* RusAuth issues a transaction.
Issue(t) ==
    /\ verdict[t] = "unissued"
    /\ verdict' = [verdict EXCEPT ![t] = "Unhandled"]
    /\ UNCHANGED journal

\* RusAuth decides a transaction, once.
Decide(t, decision) ==
    /\ verdict[t] = "Unhandled"
    /\ verdict' = [verdict EXCEPT ![t] = decision]
    /\ UNCHANGED journal

\* The application writes the row of an issued transaction.
Enter(t) ==
    /\ verdict[t] # "unissued"
    /\ journal[t] = "absent"
    /\ journal' = [journal EXCEPT ![t] = "Unhandled"]
    /\ UNCHANGED verdict

\* The row takes a status RusAuth answers, or has answered, for it.
Report(t, status) ==
    /\ journal[t] # "absent"
    /\ status \in {"Unhandled", "Failed", verdict[t]}
    /\ journal' = [journal EXCEPT ![t] = status]
    /\ UNCHANGED verdict

\* The process restarts: the journal lives in memory only.
Forget ==
    /\ journal' = [t \in Transactions |-> "absent"]
    /\ UNCHANGED verdict

Next ==
    \/ \E t \in Transactions :
          \/ Issue(t)
          \/ \E decision \in Decisions : Decide(t, decision)
          \/ Enter(t)
          \/ \E status \in {"Unhandled"} \cup Decisions : Report(t, status)
    \/ Forget

Spec == Init /\ [][Next]_jvars

=============================================================================
