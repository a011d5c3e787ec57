------------------------------ MODULE WebDispatcher ------------------------------
(***************************************************************************)
(* POST /api/agents/[agentKind] of the web app: session, job, event, direct *)
(* runner, web_jobs row, in this order, with no transaction around them.    *)
(* The bobTaskId is the browser's cookie.                                   *)
(***************************************************************************)
EXTENDS JobIntake

\* The agent kind and the body are looked at before anything is written. A
\* cached question names a snapshot, which is one of those there are or is not.
Post(c, snapshots) ==
  /\ Web(c) /\ at[c] = <<"arrive", "call">>
  /\ \/ Goto(c, "over", "invalid") /\ UNCHANGED source
     \/ /\ \E s \in IF Cached(c) THEN snapshots \cup {NoSource} ELSE {NoSource} :
             source' = [source EXCEPT ![c] = s]
        /\ Goto(c, "door", "select")
  /\ UNCHANGED <<ask, memory, tables, starting, faults>>

EnsureSession(c) ==
  /\ Web(c)
  /\ UpsertSession(c, "door", ask[c].task, FirstOfDispatch(c))

\* Mutant of SendEvent: an event that could not be sent is only logged.
SendEvent_Logged(c) ==
  /\ Web(c) /\ at[c] = <<"dispatch", "start">>
  /\ \/ /\ sent' = sent \cup {c}
        /\ running' = running \cup {<<c, "durable">>}
        /\ UNCHANGED faults
     \/ /\ faults < MaxFaults /\ faults' = faults + 1
        /\ UNCHANGED <<sent, running>>
  /\ scheduled' = scheduled \cup {c}
  /\ Goto(c, "link", "insert")
  /\ UNCHANGED <<request, memory, tables>>

\* inngest.send, and after() at once. When send throws there is no direct runner,
\* though Inngest may have the event and will run the job.
SendEvent(c) ==
  /\ Web(c) /\ at[c] = <<"dispatch", "start">>
  /\ sent' = sent \cup {c}
  /\ running' = running \cup {<<c, "durable">>}
  /\ \/ /\ scheduled' = scheduled \cup {c}
        /\ Goto(c, "link", "insert")
        /\ UNCHANGED faults
     \/ /\ faults < MaxFaults /\ faults' = faults + 1
        /\ Throw(c)
        /\ UNCHANGED scheduled
  /\ UNCHANGED <<request, memory, tables>>

\* The web_jobs row, and the answer: 202.
Link(c) ==
  /\ Web(c) /\ at[c] = <<"link", "insert">>
  /\ linked' = linked \cup {c}
  /\ Then(c, "over", "answered")
  /\ UNCHANGED <<request, memory, sessions, jobs, jobSession, starting>>

\* The callback runs after the answer, whatever the answer was.
RunAfter(c) ==
  /\ Web(c) /\ at[c] \in {<<"over", "answered">>, <<"over", "refused">>}
  /\ c \in scheduled
  /\ scheduled' = scheduled \ {c}
  /\ running' = running \cup {<<c, "direct">>}
  /\ UNCHANGED <<request, at, memory, tables, sent, faults>>

\* The function's process dies before its answer; nothing runs after.
FunctionDies(c) ==
  /\ Web(c) /\ ~Over(c) /\ at[c][1] # "arrive"
  /\ faults < MaxFaults /\ faults' = faults + 1
  /\ Goto(c, "over", "cut")
  /\ scheduled' = scheduled \ {c}
  /\ UNCHANGED <<request, memory, tables, sent, running>>

Dispatch(c) ==
  \/ EnsureSession(c)
  \/ Web(c) /\ FindSource(c)
  \/ Web(c) /\ CreateJob(c)
  \/ SendEvent(c)
  \/ Link(c)
  \/ RunAfter(c)

================================================================================
