-------------------------- MODULE ReconnectProofs --------------------------
(***************************************************************************)
(* Theorems about Reconnect, for any number of attempts that overlap.      *)
(***************************************************************************)
EXTENDS Reconnect, TLAPS

\* A connected page has its circuit, and an attempt that is still about to
\* resume the circuit then has been overtaken: it asked before.
LateOK ==
    link = "up" =>
        /\ circuit = "kept"
        /\ \A k \in Attempts :
              attempts[k] \in {"resumeCircuit", "resume"} => k \in overtaken

IInv == TypeOK /\ NeverStranded /\ LateOK

\* The page is connected at first.
LEMMA InitIInv == Init => IInv
  BY DEF Init, IInv, TypeOK, NeverStranded, LateOK

\* Blazor and the server attach the listener where Blazor gives up; what makes
\* a connection marks the attempts it comes before.
LEMMA BlazorStep ==
    ASSUME IInv,
           \/ ServerChanges \/ CircuitAges \/ LoseConnection \/ Pause
           \/ ReconnectedByBlazor \/ HandleRejected \/ HandleFailed \/ LeaveTab
    PROVE  IInv'
<1>1. CASE ServerChanges \/ CircuitAges \/ LeaveTab
  BY <1>1 DEF IInv, TypeOK, NeverStranded, LateOK, ServerChanges, CircuitAges, LeaveTab
<1>2. CASE LoseConnection \/ Pause
  BY <1>2 DEF IInv, TypeOK, NeverStranded, LateOK, LoseConnection, Pause
<1>3. CASE ReconnectedByBlazor
  BY <1>3 DEF IInv, TypeOK, NeverStranded, LateOK, ReconnectedByBlazor, Connected
<1>4. CASE HandleRejected \/ HandleFailed
  BY <1>4 DEF IInv, TypeOK, NeverStranded, LateOK, HandleRejected, HandleFailed
<1> QED
  BY <1>1, <1>2, <1>3, <1>4

\* The listener is removed only as an attempt starts, and the last attempt that
\* ends without success attaches it. None starts to resume while connected.
LEMMA AttemptStep ==
    ASSUME IInv, NEW k \in Attempts,
           PressRetry(k) \/ ReturnToTab(k) \/ PressResume(k) \/ Answered(k)
    PROVE  IInv'
<1>1. CASE PressRetry(k) \/ ReturnToTab(k)
  BY <1>1 DEF IInv, TypeOK, NeverStranded, LateOK, PressRetry, ReturnToTab, StartRetry
<1>2. CASE PressResume(k) \/ ResumeThrew(k)
  BY <1>2 DEF IInv, TypeOK, NeverStranded, LateOK, PressResume, ResumeThrew, Ends
<1>3. CASE Threw(k)
  BY <1>3 DEF IInv, TypeOK, NeverStranded, LateOK, Threw, Ends
<1>4. CASE ReconnectAnswered(k)
  BY <1>4 DEF IInv, TypeOK, NeverStranded, LateOK, ReconnectAnswered, Connected
<1>5. CASE ResumeAnswered(k)
  BY <1>5 DEF IInv, TypeOK, NeverStranded, LateOK, ResumeAnswered, Connected, Ends
<1> QED
  BY <1>1, <1>2, <1>3, <1>4, <1>5 DEF Answered

\* NeverStranded and LateOK are inductive, given the types.
LEMMA Invariance == Spec => []IInv
<1>1. IInv /\ UNCHANGED vars => IInv'
  BY DEF IInv, TypeOK, NeverStranded, LateOK, vars
<1>2. IInv /\ [Next]_vars => IInv'
  BY <1>1, BlazorStep, AttemptStep DEF Next
<1> QED
  BY <1>2, InitIInv, PTL DEF Spec

\* Every variable keeps its type.
THEOREM TypeCorrect == Spec => []TypeOK
<1>1. IInv => TypeOK
  BY DEF IInv
<1> QED
  BY <1>1, Invariance, PTL

\* However many attempts overlap, in whatever order they end, the page either
\* listens for the user's return or is still being reconnected.
THEOREM NobodyIsStranded == Spec => []NeverStranded
<1>1. IInv => NeverStranded
  BY DEF IInv
<1> QED
  BY <1>1, Invariance, PTL

\* Among any number of attempts, only one that was overtaken can reload a page
\* that works: Blazor.reconnect is asked first, and knows.
THEOREM WorkingPagesAreKept == Spec => WorkingPageIsKept
<1> DEFINE Kept == page = "running" /\ link = "up" /\ page' = "reloading"
                     => \E k \in overtaken : attempts[k] # "idle" /\ attempts'[k] = "idle"
<1>1. IInv /\ [Next]_vars => Kept
  <2> SUFFICES ASSUME IInv, [Next]_vars, page = "running", link = "up", page' = "reloading"
               PROVE  \E k \in overtaken : attempts[k] # "idle" /\ attempts'[k] = "idle"
    OBVIOUS
  <2>1. PICK k \in Attempts : ResumeAnswered(k)
    BY DEF Next, vars, ServerChanges, CircuitAges, LoseConnection, Pause,
       ReconnectedByBlazor, HandleRejected, HandleFailed, LeaveTab, PressRetry,
       ReturnToTab, StartRetry, PressResume, Answered, Threw, ReconnectAnswered,
       ResumeThrew
  <2>2. k \in overtaken
    BY <2>1 DEF IInv, LateOK, ResumeAnswered
  <2>3. attempts[k] # "idle" /\ attempts'[k] = "idle"
    BY <2>1 DEF IInv, TypeOK, ResumeAnswered, Ends
  <2> QED
    BY <2>2, <2>3
<1> QED
  BY <1>1, Invariance, PTL DEF Spec, WorkingPageIsKept

=============================================================================
