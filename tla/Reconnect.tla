----------------------------- MODULE Reconnect -----------------------------
(***************************************************************************)
(* Components/Layout/ReconnectModal.razor.js: how a page whose connection  *)
(* is gone gets it back.  Blazor tries by itself for a while; once it has  *)
(* given up, the script tries again when the user presses "retry" or comes *)
(* back to the tab.  An attempt awaits the server, twice if need be, and   *)
(* other attempts may start meanwhile.  What the dialog shows is left out, *)
(* except which button it offers: "retry" while Blazor has given up,       *)
(* "resume" while the circuit is paused.                                   *)
(***************************************************************************)
CONSTANTS Attempts   \* calls of retry and resume that may be under way together

VARIABLES
    link,       \* Blazor: the connection of the page
    circuit,    \* the server: the page's circuit
    server,     \* whether the server can be reached
    page,       \* the document, until location.reload
    visible,    \* document.visibilityState
    listening,  \* retryWhenDocumentBecomesVisible is attached
    attempts,   \* what each attempt awaits
    overtaken   \* history: attempts during which something else brought the
                \* connection back

vars == <<link, circuit, server, page, visible, listening, attempts, overtaken>>

TypeOK ==
    /\ link     \in {"up", "retrying", "failed", "paused"}
    /\ circuit  \in {"kept", "parked", "dropped"}
    /\ server   \in {"here", "away"}
    /\ page     \in {"running", "reloading"}
    /\ visible \in BOOLEAN /\ listening \in BOOLEAN
    /\ attempts \in [Attempts -> {"idle", "reconnect", "resumeCircuit", "resume"}]
    /\ overtaken \in SUBSET Attempts

Init ==
    /\ link = "up" /\ circuit = "kept" /\ server = "here"
    /\ page = "running" /\ visible = TRUE /\ listening = FALSE
    /\ attempts = [k \in Attempts |-> "idle"]
    /\ overtaken = {}

\* The connection is back, by an attempt or by none: whatever other attempt
\* still awaits an answer comes late.
Connected(by) ==
    /\ link' = "up"
    /\ overtaken' = {k \in Attempts \ by : attempts[k] # "idle"}

\* Attempt k is over, without success.
Ends(k) ==
    /\ attempts' = [attempts EXCEPT ![k] = "idle"]
    /\ overtaken' = overtaken \ {k}

---------------------------------------------------------------------------
\* The server and Blazor.

\* The server goes away or comes back.
ServerChanges ==
    /\ server' = IF server = "here" THEN "away" ELSE "here"
    /\ UNCHANGED <<link, circuit, page, visible, listening, attempts, overtaken>>

\* A circuit without a connection is kept for a while, then its state is put
\* aside, then it is dropped; a restart of the server drops it at once.
CircuitAges ==
    /\ link # "up"
    /\ \/ circuit = "kept" /\ circuit' \in {"parked", "dropped"}
       \/ circuit = "parked" /\ circuit' = "dropped"
    /\ UNCHANGED <<link, server, page, visible, listening, attempts, overtaken>>

\* The connection breaks and Blazor tries again by itself ("show").
LoseConnection ==
    /\ page = "running" /\ link = "up"
    /\ link' = "retrying"
    /\ UNCHANGED <<circuit, server, page, visible, listening, attempts, overtaken>>

\* The server pauses the circuit.
Pause ==
    /\ page = "running" /\ link = "up"
    /\ link' = "paused" /\ circuit' = "parked"
    /\ UNCHANGED <<server, page, visible, listening, attempts, overtaken>>

\* One of Blazor's own attempts succeeds ("hide").
ReconnectedByBlazor ==
    /\ page = "running" /\ link = "retrying"
    /\ server = "here" /\ circuit = "kept"
    /\ Connected({})
    /\ UNCHANGED <<circuit, server, page, visible, listening, attempts>>

\* The server does not know the circuit any more ("rejected").
HandleRejected ==
    /\ page = "running" /\ link = "retrying"
    /\ server = "here" /\ circuit # "kept"
    /\ page' = "reloading"
    /\ UNCHANGED <<link, circuit, server, visible, listening, attempts, overtaken>>

\* Fault: the event is taken for a mere change of the dialog.
HandleFailedByDrawing ==
    /\ page = "running" /\ link = "retrying"
    /\ link' = "failed"
    /\ UNCHANGED <<circuit, server, page, visible, listening, attempts, overtaken>>

\* Blazor gives up ("failed"): the script waits for the user to come back.
HandleFailed ==
    /\ page = "running" /\ link = "retrying"
    /\ link' = "failed"
    /\ listening' = TRUE
    /\ UNCHANGED <<circuit, server, page, visible, attempts, overtaken>>

---------------------------------------------------------------------------
\* retry.

\* The listener is removed, and Blazor.reconnect awaited.
StartRetry(k) ==
    /\ page = "running"
    /\ attempts[k] = "idle"
    /\ attempts' = [attempts EXCEPT ![k] = "reconnect"]
    /\ listening' = FALSE

\* "Retry" is pressed; nothing keeps it from being pressed twice.
PressRetry(k) ==
    /\ link = "failed"
    /\ StartRetry(k)
    /\ UNCHANGED <<link, circuit, server, page, visible, overtaken>>

\* The user leaves the tab or comes back to it.
LeaveTab ==
    /\ visible
    /\ visible' = FALSE
    /\ UNCHANGED <<link, circuit, server, page, listening, attempts, overtaken>>

ReturnToTab(k) ==
    /\ ~visible
    /\ visible' = TRUE
    /\ IF listening /\ page = "running" THEN StartRetry(k)
       ELSE UNCHANGED <<listening, attempts>>
    /\ UNCHANGED <<link, circuit, server, page, overtaken>>

\* Fault: the exception is swallowed.
ThrewQuietly(k) ==
    /\ attempts[k] \in {"reconnect", "resumeCircuit"}
    /\ server = "away"
    /\ Ends(k)
    /\ UNCHANGED <<link, circuit, server, page, visible, listening>>

\* Either call throws, for the server was not reached: wait for the next return.
Threw(k) ==
    /\ attempts[k] \in {"reconnect", "resumeCircuit"}
    /\ server = "away"
    /\ Ends(k)
    /\ listening' = TRUE
    /\ UNCHANGED <<link, circuit, server, page, visible>>

\* Fault: the answer of Blazor.reconnect is not looked at.
RetryResumesAlways(k) ==
    /\ attempts[k] = "reconnect"
    /\ server = "here"
    /\ attempts' = [attempts EXCEPT ![k] = "resumeCircuit"]
    /\ IF circuit = "kept" THEN Connected({k}) ELSE UNCHANGED <<link, overtaken>>
    /\ UNCHANGED <<circuit, server, page, visible, listening>>

\* Blazor.reconnect answers: true, or false and the circuit is to be resumed.
ReconnectAnswered(k) ==
    /\ attempts[k] = "reconnect"
    /\ server = "here"
    /\ \/ /\ circuit = "kept"
          /\ attempts' = [attempts EXCEPT ![k] = "idle"]
          /\ Connected({k})
       \/ /\ circuit # "kept"
          /\ attempts' = [attempts EXCEPT ![k] = "resumeCircuit"]
          /\ UNCHANGED <<link, overtaken>>
    /\ UNCHANGED <<circuit, server, page, visible, listening>>

\* Blazor.resumeCircuit answers, to retry or to resume. It resumes a circuit
\* that was put aside; nothing is known of one another attempt has resumed.
ResumeAnswered(k) ==
    /\ attempts[k] \in {"resumeCircuit", "resume"}
    /\ server = "here"
    /\ \/ /\ circuit # "dropped"
          /\ circuit' = "kept"
          /\ attempts' = [attempts EXCEPT ![k] = "idle"]
          /\ Connected({k})
          /\ UNCHANGED page
       \/ /\ circuit # "parked"
          /\ page' = "reloading"
          /\ Ends(k)
          /\ UNCHANGED <<link, circuit>>
    /\ UNCHANGED <<server, visible, listening>>

---------------------------------------------------------------------------
\* resume: the button of a paused circuit.
PressResume(k) ==
    /\ page = "running" /\ link = "paused"
    /\ attempts[k] = "idle"
    /\ attempts' = [attempts EXCEPT ![k] = "resume"]
    /\ UNCHANGED <<link, circuit, server, page, visible, listening, overtaken>>

\* The call throws: the dialog says so and goes on offering the button.
ResumeThrew(k) ==
    /\ attempts[k] = "resume"
    /\ server = "away"
    /\ Ends(k)
    /\ UNCHANGED <<link, circuit, server, page, visible, listening>>

Answered(k) ==
    Threw(k) \/ ReconnectAnswered(k) \/ ResumeAnswered(k) \/ ResumeThrew(k)

Next ==
    \/ ServerChanges \/ CircuitAges
    \/ LoseConnection \/ Pause \/ ReconnectedByBlazor \/ HandleRejected \/ HandleFailed
    \/ LeaveTab
    \/ \E k \in Attempts :
          PressRetry(k) \/ ReturnToTab(k) \/ PressResume(k) \/ Answered(k)

Spec == Init /\ [][Next]_vars

\* Every call of Blazor returns or throws. Nothing is assumed of the user.
FairSpec == Spec /\ \A k \in Attempts : WF_vars(Answered(k))

---------------------------------------------------------------------------
\* When Blazor has given up and no attempt is under way, coming back to the tab
\* starts one, however earlier attempts overlapped and ended.
NeverStranded ==
    page = "running" /\ link = "failed"
        => \/ listening
           \/ \E k \in Attempts : attempts[k] \in {"reconnect", "resumeCircuit"}

\* A page whose connection works is reloaded, and its session lost, only by an
\* attempt that another one, or Blazor, has overtaken: a single attempt, however
\* long it takes and whatever happens meanwhile, does no such harm.
WorkingPageIsKept ==
    [][page = "running" /\ link = "up" /\ page' = "reloading"
          => \E k \in overtaken : attempts[k] # "idle" /\ attempts'[k] = "idle"]_vars

\* A user who keeps coming back to the tab, and never presses a button, gets
\* the page back once the server is there to stay.
Recovers ==
    <>[](server = "here") /\ []<>visible /\ []<>~visible
        => (link = "failed" ~> link = "up" \/ page = "reloading")

=============================================================================
