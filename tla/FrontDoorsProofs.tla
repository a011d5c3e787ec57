---------------------------- MODULE FrontDoorsProofs ----------------------------
(***************************************************************************)
(* Theorems about FrontDoors: any number of requests at both doors, tasks,  *)
(* patches and snapshots, any budget of attempts and failures.              *)
(***************************************************************************)
EXTENDS FrontDoors, WellFoundedInduction, TLAPS

--------------------------------------------------------------------------------
(* The statements of a runner.                                              *)

\* Where a runner of a question asks.
AskAt(c) == IF Cached(c) THEN 5 ELSE 13

\* A question is asked of a snapshot that is found, or cloned and indexed, and its
\* job is completed afterwards.
LEMMA StatementOrder ==
  ASSUME NEW r \in Runners, ask[r[1]].kind = "qa", NEW i \in DOMAIN Statements(r)
  PROVE  /\ Statements(r)[i] = "find" => i = 2 /\ Cached(r[1])
         /\ Statements(r)[i] = "snapshot" => i = 6 /\ ~Cached(r[1])
         /\ Statements(r)[i] = "walk" => i = 9 /\ ~Cached(r[1])
         /\ Statements(r)[i] = "ask" => i = AskAt(r[1])
         /\ Statements(r)[i] = "complete" => i > AskAt(r[1])
         /\ Statements(r)[i] # "run"
         /\ Statements(r)[1] \in StepStarts
<1> USE DEF Statements, Resolve, Answer, Finalize, AskAt, StepStarts
<1>1. CASE Cached(r[1])
  <2>1. CASE r[2] = "durable"
    BY <1>1, <2>1
  <2>2. CASE r[2] # "durable"
    BY <1>1, <2>2
  <2> QED
    BY <2>1, <2>2
<1>2. CASE ~Cached(r[1])
  <2>1. CASE r[2] = "durable"
    BY <1>2, <2>1
  <2>2. CASE r[2] # "durable"
    BY <1>2, <2>2
  <2> QED
    BY <2>1, <2>2
<1> QED
  BY <1>1, <1>2

LEMMA StatementCount ==
  ASSUME NEW r \in Runners
  PROVE  DOMAIN Statements(r) = 1..Len(Statements(r)) /\ Len(Statements(r)) \in Nat
<1> USE DEF Statements, Resolve, Answer, Finalize
<1>1. CASE ask[r[1]].kind = "qa" /\ Cached(r[1])
  BY <1>1
<1>2. CASE ask[r[1]].kind = "qa" /\ ~Cached(r[1])
  BY <1>2
<1>3. CASE ask[r[1]].kind # "qa"
  BY <1>3
<1> QED
  BY <1>1, <1>2, <1>3

\* A runner of another agent has one statement.
LEMMA OtherStatement ==
  ASSUME NEW r \in Runners, ask[r[1]].kind # "qa", NEW i \in DOMAIN Statements(r)
  PROVE  Statements(r)[i] = "run"
BY DEF Statements

--------------------------------------------------------------------------------
(* Types.                                                                   *)

\* The statement a request does next, or how it ended.
Acts == {"call", "select", "upsert", "find", "create", "start", "insert", "run", "read",
         "write", "status", "record", "answered", "refused", "invalid", "threw", "cut"}

Spots == Places \X Acts

Ids == (Requests \X Places) \cup {NoSource}

Snapshots ==
  (Sources \cup {NoSource}) \cup (Requests \X {"durable", "direct"} \X (1..MaxAttempts))

DoorTypeOK ==
  /\ ask \in Asks
  /\ at \in [Requests -> Spots]
  /\ found \in [Requests -> BOOLEAN]
  /\ session \in [Requests -> Ids] /\ jobSession \in [Requests -> Ids]
  /\ source \in [Requests -> Snapshots]
  /\ sessions \subseteq Tasks \X (Requests \X Places)
  /\ jobs \subseteq Requests /\ linked \subseteq Requests /\ sent \subseteq Requests
  /\ scheduled \subseteq sent /\ running \subseteq Runners
  /\ faults \in 0..MaxFaults

ServerTypeOK ==
  /\ status \in [Patches -> {"proposed", "applied"}]
  /\ onDisk \in [Files -> Patches \cup {Original}]
  /\ written \subseteq Patches
  /\ invocations \subseteq {c \in Requests : Mcp(c)} \X {"ok", "error"}

HostTypeOK ==
  /\ host \in [Runners -> Hosts]
  /\ \A r \in Runners : host[r] \in HostsOf[r[2]]

QaTypeOK ==
  /\ pos \in [Runners -> Nat]
  /\ attempt \in [Runners -> 1..MaxAttempts]
  /\ HostTypeOK
  /\ snapshot \in [Runners -> Snapshots]
  /\ snapshots \subseteq Snapshots /\ Sources \subseteq snapshots
  /\ indexed \subseteq Snapshots
  /\ transcripts \subseteq Requests \X Snapshots
  /\ jobState \in [Requests -> JobStates \cup {"draft", "done"}]
  /\ tree \in [Requests \X Hosts -> {"absent", "part", "whole"}]
  /\ robbed \subseteq Runners

--------------------------------------------------------------------------------
(* What a step may be.                                                      *)

\* The three places where a request has a session row looked up.
Uses(c, part, task, next) ==
  \/ part = "door" /\ task = ask[c].task /\ next = FirstOfDispatch(c)
  \/ part = "audit" /\ Mcp(c) /\ task = ServerTask /\ next = FirstOfTool(c)
  \/ part = "error" /\ Mcp(c) /\ task = ServerTask /\ next = <<"error", "record">>

Enter(c) ==
  /\ at[c] = <<"arrive", "call">>
  /\ \/ Goto(c, "over", "invalid") /\ UNCHANGED source
     \/ /\ \E s \in snapshots \cup {NoSource} : source' = [source EXCEPT ![c] = s]
        /\ \/ Web(c) /\ Goto(c, "door", "select")
           \/ Mcp(c) /\ Goto(c, "audit", "select")
  /\ UNCHANGED <<ask, memory, tables, starting, faults>>

Lookup(c) ==
  \E part \in {"door", "audit", "error"}, task \in Tasks, next \in Spots :
    Uses(c, part, task, next) /\ UpsertSession(c, part, task, next)

\* The statements that are the web door's, the server's, or both's.
OfBoth(c) == FindSource(c) \/ CreateJob(c) \/ StatementFails(c)

OfWeb(c) == SendEvent(c) \/ Link(c) \/ RunAfter(c) \/ FunctionDies(c)

OfServer(c) ==
  \/ RecordSuccess(c) \/ RecordError(c) \/ StartDirect(c) \/ RunAgent(c)
  \/ ReadPatch(c) \/ WritePatch(c) \/ UpdateStatus(c)

ServerGone ==
  /\ ServerDies
  /\ faults < MaxFaults /\ faults' = faults + 1

RunnerMoves(r) == RunnerStep(r) \/ RunnerFails(r)

server == <<patching, invocations>>

LEMMA AskTypes ==
  ASSUME DoorTypeOK, NEW c \in Requests
  PROVE  /\ ask[c].door \in {"web", "mcp", "none"} /\ ask[c].kind \in Kinds
         /\ ask[c].task \in Tasks /\ Cached(c) \in BOOLEAN
BY IntakeAssumption DEF DoorTypeOK, Cached

LEMMA StepCases ==
  ASSUME DoorTypeOK, [Next]_vars
  PROVE  \/ \E c \in Requests :
              \/ Enter(c) /\ UNCHANGED <<server, qa>>
              \/ Lookup(c) /\ UNCHANGED <<server, qa>>
              \/ OfBoth(c) /\ UNCHANGED <<server, qa>>
              \/ OfWeb(c) /\ UNCHANGED <<server, qa>>
              \/ OfServer(c) /\ UNCHANGED qa
         \/ \E r \in Runners : RunnerMoves(r) /\ UNCHANGED <<doors, server>>
         \/ ServerGone
         \/ UNCHANGED vars
<1> USE DEF server
<1>1. ASSUME NEW c \in Requests, Arrive(c) PROVE Enter(c) /\ UNCHANGED <<server, qa>>
  <2>1. CASE Post(c, snapshots) /\ UNCHANGED <<server, qa>>
    BY <2>1 DEF Post, Enter
  <2>2. CASE CallTool(c, snapshots) /\ UNCHANGED qa
    BY <2>2 DEF CallTool, Enter
  <2> QED
    BY <1>1, <2>1, <2>2 DEF Arrive
<1>2. ASSUME NEW c \in Requests, NEW part, NEW task, NEW next,
             Uses(c, part, task, next), UpsertSession(c, part, task, next)
      PROVE  Lookup(c)
  <2>1. part \in {"door", "audit", "error"} /\ task \in Tasks
    BY <1>2, AskTypes, ServerAssumption DEF Uses
  <2>2. next \in Spots
    <3>1. FirstOfDispatch(c) \in {<<"dispatch", "find">>, <<"dispatch", "create">>}
      BY DEF FirstOfDispatch
    <3>2. FirstOfTool(c) \in {<<"apply", "read">>, <<"agent", "run">>, <<"door", "select">>}
      BY DEF FirstOfTool
    <3>3. /\ <<"error", "record">> \in Spots
          /\ <<"dispatch", "find">> \in Spots
          /\ <<"dispatch", "create">> \in Spots
          /\ <<"apply", "read">> \in Spots
          /\ <<"agent", "run">> \in Spots
          /\ <<"door", "select">> \in Spots
      BY DEF Spots, Places, Acts
    <3> QED
      BY <1>2, <3>1, <3>2, <3>3 DEF Uses
  <2> QED
    BY <1>2, <2>1, <2>2 DEF Lookup
<1>3. ASSUME NEW c \in Requests, Dispatch(c) PROVE Lookup(c) \/ OfBoth(c) \/ OfWeb(c)
  <2>1. CASE EnsureSession(c)
    BY <1>2, <2>1 DEF EnsureSession, Uses
  <2> QED
    BY <1>3, <2>1 DEF Dispatch, OfBoth, OfWeb
<1>4. ASSUME NEW c \in Requests, ServeCall(c)
      PROVE  OfServer(c) \/ ((Lookup(c) \/ OfBoth(c)) /\ UNCHANGED server)
  <2>1. CASE Sessions(c)
    BY <1>2, <2>1 DEF Sessions, Uses
  <2> QED
    BY <1>4, <2>1 DEF ServeCall, OfBoth, OfServer
<1>5. CASE ServerCrashes \/ \E r \in Runners : UnhandledRejection(r)
  BY <1>5 DEF ServerCrashes, UnhandledRejection, ServerGone
<1> QED
  BY <1>1, <1>3, <1>4, <1>5 DEF Next, Serve, Run, OfBoth, OfWeb, RunnerMoves

LEMMA SpotTypes ==
  ASSUME DoorTypeOK, NEW c \in Requests, NEW part, NEW act, Goto(c, part, act),
         part \in Places, act \in Acts
  PROVE  at' \in [Requests -> Spots]
BY DEF DoorTypeOK, Goto, Spots

LEMMA ThrowTypes ==
  ASSUME DoorTypeOK, NEW c \in Requests, Throw(c)
  PROVE  at' \in [Requests -> Spots]
BY SpotTypes DEF Throw, Places, Acts

LEMMA ThenTypes ==
  ASSUME DoorTypeOK, NEW c \in Requests, NEW part \in Places, NEW act \in Acts,
         Then(c, part, act)
  PROVE  at' \in [Requests -> Spots] /\ faults' \in 0..MaxFaults
<1>1. at' \in [Requests -> Spots]
  BY SpotTypes, ThrowTypes DEF Then
<1>2. faults' \in 0..MaxFaults
  BY IntakeAssumption DEF Then, DoorTypeOK
<1> QED
  BY <1>1, <1>2

LEMMA DoorTypes ==
  ASSUME DoorTypeOK, QaTypeOK, [Next]_vars
  PROVE  DoorTypeOK'
<1> USE IntakeAssumption
<1>1. ASSUME NEW c \in Requests, Enter(c) PROVE DoorTypeOK'
  <2>1. at' \in [Requests -> Spots]
    BY <1>1, SpotTypes DEF Enter, Places, Acts
  <2>2. source' \in [Requests -> Snapshots]
    BY <1>1 DEF Enter, DoorTypeOK, QaTypeOK, Snapshots
  <2> QED
    BY <1>1, <2>1, <2>2 DEF Enter, DoorTypeOK, memory, tables, starting
<1>2. ASSUME NEW c \in Requests, Lookup(c) PROVE DoorTypeOK'
  <2>1. PICK part \in {"door", "audit", "error"}, task \in Tasks, next \in Spots :
          UpsertSession(c, part, task, next)
    BY <1>2 DEF Lookup
  <2>2. next[1] \in Places /\ next[2] \in Acts /\ part \in Places
    BY DEF Spots, Places
  <2>3. CASE SelectSession(c, part, task)
    <3>1. at' \in [Requests -> Spots]
      BY <2>2, <2>3, SpotTypes DEF SelectSession, Acts
    <3> QED
      BY <2>3, <3>1 DEF SelectSession, DoorTypeOK, request, tables, starting
  <2>4. CASE TouchSession(c, part, task, next)
    <3>1. at' \in [Requests -> Spots] /\ faults' \in 0..MaxFaults
      BY <2>2, <2>4, ThenTypes DEF TouchSession
    <3>2. session' \in [Requests -> Ids]
      BY <2>4 DEF TouchSession, RowsOf, DoorTypeOK, Ids
    <3> QED
      BY <2>4, <3>1, <3>2 DEF TouchSession, DoorTypeOK, request, tables, starting
  <2>5. CASE InsertSession(c, part, task, next)
    <3>1. at' \in [Requests -> Spots] /\ faults' \in 0..MaxFaults
      BY <2>2, <2>5, ThenTypes, ThrowTypes DEF InsertSession, DoorTypeOK
    <3>2. /\ session' \in [Requests -> Ids]
          /\ sessions' \subseteq Tasks \X (Requests \X Places)
      BY <2>2, <2>5 DEF InsertSession, DoorTypeOK, Ids
    <3> QED
      BY <2>5, <3>1, <3>2 DEF InsertSession, DoorTypeOK, request, starting
  <2> QED
    BY <2>1, <2>3, <2>4, <2>5 DEF UpsertSession
<1>3. ASSUME NEW c \in Requests, OfBoth(c) PROVE DoorTypeOK'
  <2>1. CASE FindSource(c)
    <3>1. at' \in [Requests -> Spots]
      BY <2>1, SpotTypes, ThrowTypes DEF FindSource, Places, Acts
    <3> QED
      BY <2>1, <3>1 DEF FindSource, DoorTypeOK, request, memory, tables, starting
  <2>2. CASE CreateJob(c)
    <3>1. at' \in [Requests -> Spots] /\ faults' \in 0..MaxFaults
      BY <2>2, ThenTypes DEF CreateJob, Places, Acts
    <3> QED
      BY <2>2, <3>1 DEF CreateJob, DoorTypeOK, request, memory, starting
  <2>3. CASE StatementFails(c)
    <3>1. at' \in [Requests -> Spots]
      BY <2>3, ThrowTypes DEF StatementFails
    <3> QED
      BY <2>3, <3>1 DEF StatementFails, DoorTypeOK, request, memory, tables, starting
  <2> QED
    BY <1>3, <2>1, <2>2, <2>3 DEF OfBoth
<1>4. ASSUME NEW c \in Requests, OfWeb(c) PROVE DoorTypeOK'
  <2>1. CASE SendEvent(c)
    <3>1. at' \in [Requests -> Spots]
      BY <2>1, SpotTypes, ThrowTypes DEF SendEvent, Places, Acts
    <3> QED
      BY <2>1, <3>1 DEF SendEvent, DoorTypeOK, request, memory, tables, Runners
  <2>2. CASE Link(c)
    <3>1. at' \in [Requests -> Spots] /\ faults' \in 0..MaxFaults
      BY <2>2, ThenTypes DEF Link, Places, Acts
    <3> QED
      BY <2>2, <3>1 DEF Link, DoorTypeOK, request, memory, starting
  <2>3. CASE RunAfter(c)
    BY <2>3 DEF RunAfter, DoorTypeOK, request, memory, tables, Runners
  <2>4. CASE FunctionDies(c)
    <3>1. at' \in [Requests -> Spots]
      BY <2>4, SpotTypes DEF FunctionDies, Places, Acts
    <3> QED
      BY <2>4, <3>1 DEF FunctionDies, DoorTypeOK, request, memory, tables
  <2> QED
    BY <1>4, <2>1, <2>2, <2>3, <2>4 DEF OfWeb
<1>5. ASSUME NEW c \in Requests, OfServer(c) PROVE DoorTypeOK'
  <2>1. at' \in [Requests -> Spots] /\ faults' \in 0..MaxFaults
    BY <1>5, SpotTypes, ThrowTypes, ThenTypes
    DEF OfServer, RecordSuccess, RecordError, StartDirect, RunAgent, ReadPatch, WritePatch,
        UpdateStatus, Places, Acts, DoorTypeOK
  <2>2. UNCHANGED <<request, memory, tables, sent, scheduled>>
    BY <1>5 DEF OfServer, RecordSuccess, RecordError, StartDirect, RunAgent, ReadPatch,
         WritePatch, UpdateStatus, starting
  <2>3. running' \subseteq Runners
    BY <1>5 DEF OfServer, RecordSuccess, RecordError, StartDirect, RunAgent, ReadPatch,
         WritePatch, UpdateStatus, starting, DoorTypeOK, Runners
  <2> QED
    BY <2>1, <2>2, <2>3 DEF DoorTypeOK, request, memory, tables
<1>6. ASSUME NEW r \in Runners, RunnerMoves(r), UNCHANGED doors PROVE DoorTypeOK'
  <2>1. faults' \in 0..MaxFaults
    BY <1>6
    DEF RunnerMoves, RunnerStep, RunnerFails, Start, UpdateState, MarkCompleted, FindSnapshot,
        Wipe, Copy, CheckOut, TakeSnapshot, Walk, Parse, AskQuestion, Audit, RunOther, Done, DoorTypeOK
  <2> QED
    BY <1>6, <2>1 DEF doors, DoorTypeOK, request, memory, tables, starting
<1>7. CASE ServerGone
  <2>1. at' \in [Requests -> Spots]
    BY <1>7 DEF ServerGone, ServerDies, CutCalls, DoorTypeOK, Spots, Places, Acts
  <2> QED
    BY <1>7, <2>1
    DEF ServerGone, ServerDies, DoorTypeOK, request, memory, tables, starting
<1>8. CASE UNCHANGED vars
  BY <1>8 DEF vars, doors, DoorTypeOK, request, memory, tables, starting
<1> QED
  BY <1>1, <1>2, <1>3, <1>4, <1>5, <1>6, <1>7, <1>8, StepCases

LEMMA Greatest ==
  ASSUME NEW n \in Nat, NEW S, S \subseteq 1..n, S # {}
  PROVE  \E i \in S : \A j \in S : j <= i
<1> DEFINE below == {n - i : i \in S}
<1>1. below \subseteq Nat /\ below # {} /\ \A j \in S : n - j \in below
  <2>1. \A j \in S : n - j \in Nat
    OBVIOUS
  <2> QED
    BY <2>1
<1>2. \A y \in below : \E i \in S : y = n - i
  OBVIOUS
<1> HIDE DEF below
<1>3. PICK x \in below : \A y \in below : <<y, x>> \notin OpToRel(<, Nat)
  BY <1>1, WFMin, NatLessThanWellFounded
<1>4. \A y \in below : ~(y < x)
  BY <1>1, <1>3 DEF OpToRel
<1>5. PICK i \in S : x = n - i
  BY <1>2
<1>6. \A j \in S : ~(n - j < n - i) /\ i \in Nat /\ j \in Nat
  BY <1>1, <1>4, <1>5
<1>7. \A j \in S : j <= i
  BY <1>6
<1> QED
  BY <1>7

LEMMA StepStartBehind ==
  ASSUME QaTypeOK, NEW r \in Runners, pos[r] \in DOMAIN Statements(r), ask[r[1]].kind = "qa"
  PROVE  StepStart(r) \in 1..pos[r]
<1> DEFINE starts == {i \in 1..pos[r] : Statements(r)[i] \in StepStarts}
<1>1. pos[r] \in Nat /\ 1 \in 1..pos[r]
  BY StatementCount
<1>2. 1 \in starts
  BY <1>1, StatementOrder
<1>3. PICK i \in starts : \A j \in starts : j <= i
  BY <1>1, <1>2, Greatest
<1>4. /\ i \in 1..pos[r] /\ Statements(r)[i] \in StepStarts
      /\ \A j \in (i + 1)..pos[r] : Statements(r)[j] \notin StepStarts
  BY <1>1, <1>3
<1> QED
  BY <1>4 DEF StepStart

LEMMA MovesTypes ==
  ASSUME HostTypeOK, NEW r \in Runners, Moves(r) \/ UNCHANGED host
  PROVE  HostTypeOK'
<1>1. CASE Moves(r)
  <2>1. PICK h \in HostsOf[r[2]] : host' = [host EXCEPT ![r] = h]
    BY <1>1 DEF Moves
  <2>2. r[2] \in {"durable", "direct"} /\ h \in Hosts
    BY <2>1, HostsAssumption DEF Runners
  <2> QED
    BY <2>1, <2>2 DEF HostTypeOK
<1>2. CASE UNCHANGED host
  BY <1>2 DEF HostTypeOK
<1> QED
  BY <1>1, <1>2

\* A runner that fails goes back to the beginning of a step, or is at its end.
LEMMA FailsBack ==
  ASSUME QaTypeOK, NEW r \in Runners, pos[r] \in DOMAIN Statements(r), Fails(r)
  PROVE  /\ attempt' \in [Runners -> 1..MaxAttempts]
         /\ Moves(r) \/ UNCHANGED host
         /\ \E n \in 0..pos[r] : pos' = [pos EXCEPT ![r] = n]
<1>1. pos[r] \in Nat
  BY DEF QaTypeOK
<1>2. CASE r[2] = "durable" /\ attempt[r] < MaxAttempts /\ ask[r[1]].kind = "qa"
  <2>1. /\ pos' = [pos EXCEPT ![r] = StepStart(r)] /\ attempt' = [attempt EXCEPT ![r] = @ + 1]
       /\ Moves(r)
    BY <1>2 DEF Fails
  <2>2. StepStart(r) \in 0..pos[r]
    BY <1>1, <1>2, StepStartBehind
  <2>3. attempt[r] + 1 \in 1..MaxAttempts
    BY <1>2, IntakeAssumption DEF QaTypeOK
  <2> QED
    BY <2>1, <2>2, <2>3 DEF QaTypeOK
<1>3. CASE ~(r[2] = "durable" /\ attempt[r] < MaxAttempts /\ ask[r[1]].kind = "qa")
  BY <1>1, <1>3 DEF Fails, Failed, QaTypeOK
<1> QED
  BY <1>2, <1>3

LEMMA GoesOn ==
  ASSUME QaTypeOK, NEW r \in Runners, Goes(r)
  PROVE  /\ attempt' \in [Runners -> 1..MaxAttempts]
         /\ Moves(r) \/ UNCHANGED host
         /\ pos' = [pos EXCEPT ![r] = pos[r] + 1]
<1>1. attempt' = [attempt EXCEPT ![r] = IF StartsStep(r, pos[r] + 1) THEN 1 ELSE @]
  BY DEF Goes
<1> QED
  BY <1>1, IntakeAssumption DEF Goes, QaTypeOK

\* What a step of a runner does to the place of the runner.
LEMMA RunnerPlaces ==
  ASSUME QaTypeOK, NEW r \in Runners, RunnerMoves(r)
  PROVE  /\ Active(r)
         /\ attempt' \in [Runners -> 1..MaxAttempts]
         /\ HostTypeOK'
         /\ \E n \in Nat : /\ pos' = [pos EXCEPT ![r] = n]
                           /\ n <= pos[r] \/ (n = pos[r] + 1 /\ Goes(r))
<1>1. Active(r) /\ (Fails(r) \/ Goes(r))
  BY DEF RunnerMoves, RunnerStep, RunnerFails, Start, UpdateState, MarkCompleted, FindSnapshot,
     Wipe, Copy, CheckOut, TakeSnapshot, Walk, Parse, AskQuestion, Audit, RunOther, Done, Doing
<1>2. pos[r] \in Nat /\ pos[r] \in DOMAIN Statements(r)
  BY <1>1 DEF QaTypeOK, Active
<1>3. CASE Fails(r)
  <2>1. PICK n \in 0..pos[r] : pos' = [pos EXCEPT ![r] = n]
    BY <1>2, <1>3, FailsBack
  <2>2. n \in Nat /\ n <= pos[r]
    BY <1>2
  <2>3. attempt' \in [Runners -> 1..MaxAttempts] /\ (Moves(r) \/ UNCHANGED host)
    BY <1>2, <1>3, FailsBack
  <2> QED
    BY <1>1, <2>1, <2>2, <2>3, MovesTypes DEF QaTypeOK
<1>4. CASE Goes(r)
  <2>1. /\ attempt' \in [Runners -> 1..MaxAttempts] /\ (Moves(r) \/ UNCHANGED host)
        /\ pos' = [pos EXCEPT ![r] = pos[r] + 1] /\ pos[r] + 1 \in Nat
    BY <1>2, <1>4, GoesOn
  <2> QED
    BY <1>1, <1>4, <2>1, MovesTypes DEF QaTypeOK
<1> QED
  BY <1>1, <1>3, <1>4

\* What a runner may do to the trees.
LEMMA DiskTypes ==
  ASSUME QaTypeOK, NEW r \in Runners, RunnerMoves(r)
  PROVE  /\ tree' \in [Requests \X Hosts -> {"absent", "part", "whole"}]
         /\ robbed' \subseteq Runners
<1> USE DEF QaTypeOK
<1>1. CASE UNCHANGED disk
  BY <1>1 DEF disk
<1>2. CASE Remove(r)
  BY <1>2 DEF Remove
<1>3. CASE Copy(r)
  BY <1>3 DEF Copy
<1>4. CASE CheckOut(r) /\ ~Remove(r)
  BY <1>4 DEF CheckOut
<1>5. CASE Walk(r)
  BY <1>5 DEF Walk
<1>6. \/ UNCHANGED disk \/ Remove(r) \/ Copy(r) \/ (CheckOut(r) /\ ~Remove(r)) \/ Walk(r)
  BY DEF RunnerMoves, RunnerStep, RunnerFails, Start, UpdateState, MarkCompleted, FindSnapshot,
     Wipe, TakeSnapshot, Parse, AskQuestion, Audit, RunOther
<1> QED
  BY <1>1, <1>2, <1>3, <1>4, <1>5, <1>6

LEMMA QaTypes ==
  ASSUME DoorTypeOK, QaTypeOK, [Next]_vars
  PROVE  QaTypeOK'
<1>1. ASSUME NEW r \in Runners, RunnerMoves(r) PROVE QaTypeOK'
  <2>1. /\ pos' \in [Runners -> Nat] /\ attempt' \in [Runners -> 1..MaxAttempts]
        /\ HostTypeOK'
        /\ tree' \in [Requests \X Hosts -> {"absent", "part", "whole"}]
        /\ robbed' \subseteq Runners
    BY <1>1, RunnerPlaces, DiskTypes DEF QaTypeOK
  <2>2. r[1] \in Requests /\ r[2] \in {"durable", "direct"} /\ source[r[1]] \in Snapshots
    BY DEF Runners, DoorTypeOK
  <2>3. NewSnapshot(r) \in Snapshots /\ snapshot[r] \in Snapshots
    BY <2>2 DEF NewSnapshot, Snapshots, QaTypeOK
  <2>4. CASE FindSnapshot(r)
    BY <2>1, <2>2, <2>4 DEF FindSnapshot, QaTypeOK
  <2>5. CASE TakeSnapshot(r)
    BY <2>1, <2>3, <2>5 DEF TakeSnapshot, QaTypeOK
  <2>6. CASE Walk(r)
    BY <2>1, <2>3, <2>6 DEF Walk, QaTypeOK
  <2>7. CASE AskQuestion(r)
    BY <2>1, <2>2, <2>3, <2>7 DEF AskQuestion, QaTypeOK
  <2>8. CASE UpdateState(r) \/ MarkCompleted(r)
    BY <2>1, <2>2, <2>8 DEF UpdateState, MarkCompleted, QaTypeOK
  <2>9. CASE Start(r) \/ Wipe(r) \/ Copy(r) \/ CheckOut(r) \/ Parse(r) \/ Audit(r)
             \/ RunOther(r) \/ RunnerFails(r)
    <3>1. UNCHANGED <<snapshot, snapshots, indexed, transcripts, jobState>>
      BY <2>9 DEF Start, Wipe, Copy, CheckOut, Parse, Audit, RunOther, RunnerFails
    <3> QED
      BY <2>1, <3>1 DEF QaTypeOK
  <2> QED
    BY <1>1, <2>4, <2>5, <2>6, <2>7, <2>8, <2>9 DEF RunnerMoves, RunnerStep
<1>2. CASE ServerGone
  BY <1>2 DEF ServerGone, ServerDies, QaTypeOK, HostTypeOK, Failed, disk
<1>3. CASE UNCHANGED qa \/ UNCHANGED vars
  BY <1>3 DEF qa, vars, QaTypeOK, HostTypeOK, disk
<1> QED
  BY <1>1, <1>2, <1>3, StepCases

--------------------------------------------------------------------------------
(* Where a call of the server can be.                                       *)

\* The part of a tool fits its kind; a patch that is being written exists.
Fits(c, part, act) ==
  Mcp(c) =>
    /\ part \in {"door", "dispatch"} => ask[c].kind \notin {"apply_patch", "agent"}
    /\ part = "agent" => ask[c].kind = "agent"
    /\ part = "apply" => ask[c].kind = "apply_patch"
    /\ part = "apply" /\ act \in {"write", "status"} => Target(c) \in Patches

KindInv == \A c \in Requests : Fits(c, at[c][1], at[c][2])

\* What a step does to the place of a request.
LEMMA Elsewhere ==
  ASSUME DoorTypeOK, NEW c \in Requests, NEW part, NEW act, Goto(c, part, act)
  PROVE  /\ at'[c] = <<part, act>>
         /\ \A d \in Requests \ {c} : at'[d] = at[d]
BY DEF DoorTypeOK, Goto

LEMMA KindStep ==
  ASSUME DoorTypeOK, QaTypeOK, KindInv, [Next]_vars
  PROVE  KindInv'
<1> USE DEF KindInv, Fits, Mcp, Target
\* It is enough to look at the call that moves.
<1>1. ASSUME NEW c \in Requests, UNCHANGED ask, NEW part, NEW act, Goto(c, part, act), Fits(c, part, act)
      PROVE  KindInv'
  BY <1>1, Elsewhere
<1>2. ASSUME NEW c \in Requests, UNCHANGED ask, Throw(c) PROVE KindInv'
  BY <1>1, <1>2 DEF Throw
<1>3. ASSUME NEW c \in Requests, UNCHANGED ask, NEW part, NEW act, Then(c, part, act), Fits(c, part, act)
      PROVE  KindInv'
  BY <1>1, <1>2, <1>3 DEF Then
<1>4. ASSUME NEW c \in Requests, Enter(c) PROVE KindInv'
  BY <1>1, <1>4 DEF Enter, Web
<1>5. ASSUME NEW c \in Requests, Lookup(c) PROVE KindInv'
  <2>1. PICK part \in {"door", "audit", "error"}, task \in Tasks, next \in Spots :
          Uses(c, part, task, next) /\ UpsertSession(c, part, task, next)
    BY <1>5 DEF Lookup
  <2>2. UNCHANGED ask /\ at[c][1] = part
    BY <2>1 DEF UpsertSession, SelectSession, TouchSession, InsertSession, request
  <2>3. Goto(c, part, "upsert") \/ Throw(c) \/ Then(c, next[1], next[2])
    BY <2>1 DEF UpsertSession, SelectSession, TouchSession, InsertSession
  <2>4. Fits(c, next[1], next[2])
    <3>1. CASE part = "door"
      BY <2>1, <2>2, <3>1 DEF Uses, FirstOfDispatch
    <3>2. CASE part = "audit"
      BY <2>1, <3>2 DEF Uses, FirstOfTool
    <3>3. CASE part = "error"
      BY <2>1, <3>3 DEF Uses
    <3> QED
      BY <3>1, <3>2, <3>3
  <2> QED
    BY <1>1, <1>2, <1>3, <2>2, <2>3, <2>4
<1>6. ASSUME NEW c \in Requests, OfBoth(c) PROVE KindInv'
  BY <1>1, <1>2, <1>3, <1>6 DEF OfBoth, FindSource, CreateJob, StatementFails, request
<1>7. ASSUME NEW c \in Requests, OfWeb(c) PROVE KindInv'
  BY <1>1, <1>2, <1>3, <1>7 DEF OfWeb, SendEvent, Link, RunAfter, FunctionDies, request, Web
<1>8. ASSUME NEW c \in Requests, OfServer(c) PROVE KindInv'
  <2>1. UNCHANGED ask /\ at[c] \in Spots
    BY <1>8 DEF OfServer, RecordSuccess, RecordError, StartDirect, RunAgent, ReadPatch, WritePatch,
         UpdateStatus, request, DoorTypeOK
  <2>2. CASE RecordSuccess(c) \/ RecordError(c) \/ StartDirect(c) \/ RunAgent(c)
    BY <1>1, <1>2, <1>3, <2>1, <2>2 DEF RecordSuccess, RecordError, StartDirect, RunAgent
  <2>3. CASE ReadPatch(c) \/ WritePatch(c) \/ UpdateStatus(c)
    <3>1. at[c][1] = "apply" /\ ask[c].kind = "apply_patch"
      BY <2>3 DEF ReadPatch, WritePatch, UpdateStatus
    <3>2. CASE ReadPatch(c)
      BY <1>1, <1>2, <2>1, <3>1, <3>2 DEF ReadPatch
    <3>3. CASE WritePatch(c)
      <4>1. Target(c) \in Patches /\ Then(c, "apply", "status")
        BY <3>3 DEF WritePatch
      <4> QED
        BY <1>3, <2>1, <3>1, <4>1
    <3>4. CASE UpdateStatus(c)
      <4>1. Then(c, "record", "insert")
        BY <3>4 DEF UpdateStatus
      <4> QED
        BY <1>3, <2>1, <4>1
    <3> QED
      BY <2>3, <3>2, <3>3, <3>4
  <2> QED
    BY <1>8, <2>2, <2>3 DEF OfServer
<1>9. CASE ServerGone
  BY <1>9 DEF ServerGone, ServerDies, CutCalls, request, DoorTypeOK
<1>10. CASE UNCHANGED <<doors, server>> \/ UNCHANGED vars
  BY <1>10 DEF vars, doors, request
<1> QED
  BY <1>4, <1>5, <1>6, <1>7, <1>8, <1>9, <1>10, StepCases

LEMMA AsksStay ==
  ASSUME DoorTypeOK, [Next]_vars
  PROVE  UNCHANGED ask
<1> USE DEF request
<1>1. ASSUME NEW c \in Requests, Enter(c) \/ Lookup(c) \/ OfBoth(c) \/ OfWeb(c)
      PROVE  UNCHANGED ask
  BY <1>1 DEF Enter, Lookup, UpsertSession, SelectSession, TouchSession, InsertSession, OfBoth,
       FindSource, CreateJob, StatementFails, OfWeb, SendEvent, Link, RunAfter, FunctionDies
<1>2. ASSUME NEW c \in Requests, OfServer(c) PROVE UNCHANGED ask
  BY <1>2 DEF OfServer, RecordSuccess, RecordError, StartDirect, RunAgent, ReadPatch, WritePatch,
       UpdateStatus
<1>3. ServerGone \/ UNCHANGED vars \/ UNCHANGED <<doors, server>> => UNCHANGED ask
  BY DEF ServerGone, ServerDies, vars, doors
<1> QED
  BY <1>1, <1>2, <1>3, StepCases

LEMMA ServerTypes ==
  ASSUME DoorTypeOK, ServerTypeOK, KindInv, [Next]_vars
  PROVE  ServerTypeOK'
<1> USE DEF patching, server
<1>1. UNCHANGED ask
  BY AsksStay
<1>2. ASSUME NEW c \in Requests, OfServer(c) PROVE ServerTypeOK'
  <2>1. Mcp(c)
    BY <1>2 DEF OfServer, RecordSuccess, RecordError, StartDirect, RunAgent, ReadPatch,
         WritePatch, UpdateStatus
  <2>2. status' \in [Patches -> {"proposed", "applied"}]
    BY <1>2 DEF OfServer, RecordSuccess, RecordError, StartDirect, RunAgent, ReadPatch,
         WritePatch, UpdateStatus, ServerTypeOK
  <2>3. invocations' \subseteq {d \in Requests : Mcp(d)} \X {"ok", "error"}
    BY <1>2, <2>1 DEF OfServer, RecordSuccess, RecordError, StartDirect, RunAgent, ReadPatch,
         WritePatch, UpdateStatus, ServerTypeOK, Mcp
  <2>4. onDisk' \in [Files -> Patches \cup {Original}] /\ written' \subseteq Patches
    <3>1. CASE WritePatch(c)
      <4>1. Target(c) \in Patches
        <5>1. at[c][1] = "apply" /\ at[c][2] = "write"
          BY <3>1 DEF WritePatch
        <5> QED
          BY <2>1, <5>1 DEF KindInv, Fits
      <4> QED
        BY <3>1, <4>1 DEF WritePatch, Overwrite, ServerTypeOK
    <3> QED
      BY <1>2, <3>1 DEF OfServer, RecordSuccess, RecordError, StartDirect, RunAgent,
           ReadPatch, UpdateStatus, ServerTypeOK
  <2> QED
    BY <1>1, <2>2, <2>3, <2>4 DEF ServerTypeOK, Mcp
<1>3. ASSUME UNCHANGED server PROVE ServerTypeOK'
  BY <1>1, <1>3 DEF ServerTypeOK, Mcp
<1>4. ServerGone \/ UNCHANGED vars => UNCHANGED server
  BY DEF ServerGone, ServerDies, vars
<1> QED
  BY <1>2, <1>3, <1>4, StepCases

--------------------------------------------------------------------------------
(* Sessions.                                                                *)

\* A task has one row, a request that makes a job has the row of its task, and so
\* does every job.
SessionInv ==
  /\ \A s, t \in sessions : s[1] = t[1] => s = t
  /\ \A c \in Requests : at[c][1] = "dispatch" => <<ask[c].task, session[c]>> \in sessions
  /\ \A c \in jobs : <<ask[c].task, jobSession[c]>> \in sessions

\* Where an exception leads to, nothing is expected of a request.
LEMMA Thrown ==
  ASSUME DoorTypeOK, NEW c \in Requests, Throw(c)
  PROVE  /\ Web(c) => at'[c] = <<"over", "refused">>
         /\ ~Web(c) => at'[c] \in {<<"over", "threw">>, <<"error", "select">>}
         /\ at'[c] = <<"over", "threw">> => at[c][1] = "error"
         /\ \A d \in Requests \ {c} : at'[d] = at[d]
BY Elsewhere DEF Throw

LEMMA SessionStep ==
  ASSUME DoorTypeOK, QaTypeOK, SessionInv, [Next]_vars
  PROVE  SessionInv'
<1> USE DEF SessionInv
<1>0. UNCHANGED ask
  BY AsksStay
\* A request that does not begin to make a job.
<1>1. ASSUME NEW c \in Requests, UNCHANGED <<sessions, session, jobs, jobSession>>,
             at'[c][1] # "dispatch" \/ at[c][1] = "dispatch",
             \A d \in Requests \ {c} : at'[d] = at[d]
      PROVE  SessionInv'
  BY <1>0, <1>1
<1>2. ASSUME NEW c \in Requests, UNCHANGED <<sessions, session, jobs, jobSession>>, Throw(c)
      PROVE  SessionInv'
  BY <1>1, <1>2, Thrown
<1>3. ASSUME NEW c \in Requests, UNCHANGED <<sessions, session, jobs, jobSession>>,
             NEW part, NEW act, Goto(c, part, act) \/ Then(c, part, act),
             part # "dispatch" \/ at[c][1] = "dispatch"
      PROVE  SessionInv'
  BY <1>1, <1>2, <1>3, Elsewhere DEF Then
<1>4. ASSUME NEW c \in Requests, Enter(c) PROVE SessionInv'
  BY <1>3, <1>4 DEF Enter, memory, tables
<1>5. ASSUME NEW c \in Requests, Lookup(c) PROVE SessionInv'
  <2>1. PICK part \in {"door", "audit", "error"}, task \in Tasks, next \in Spots :
          Uses(c, part, task, next) /\ UpsertSession(c, part, task, next)
    BY <1>5 DEF Lookup
  <2>2. next[1] = "dispatch" => task = ask[c].task
    BY <2>1 DEF Uses, FirstOfTool
  <2>3. CASE SelectSession(c, part, task)
    BY <1>3, <2>3 DEF SelectSession, tables
  \* Afterwards the request has the row of its task, and the others what they had.
  <2>4. ASSUME sessions \subseteq sessions', \A s, t \in sessions' : s[1] = t[1] => s = t,
               <<task, session'[c]>> \in sessions', UNCHANGED <<jobs, jobSession>>,
               \A d \in Requests \ {c} : session'[d] = session[d],
               Then(c, next[1], next[2])
        PROVE  SessionInv'
    <3>1. /\ at'[c] = <<next[1], next[2]>> \/ at'[c][1] # "dispatch"
          /\ \A d \in Requests \ {c} : at'[d] = at[d]
      BY <2>4, Elsewhere, Thrown DEF Then
    <3> QED
      BY <1>0, <2>2, <2>4, <3>1
  <2>5. CASE TouchSession(c, part, task, next)
    <3>1. PICK s \in sessions : s[1] = task /\ session' = [session EXCEPT ![c] = s[2]]
      BY <2>5 DEF TouchSession, RowsOf
    <3>2. <<task, session'[c]>> \in sessions
      BY <3>1 DEF DoorTypeOK
    <3> QED
      BY <2>4, <2>5, <3>1, <3>2 DEF TouchSession, tables, DoorTypeOK
  <2>6. CASE InsertSession(c, part, task, next)
    <3>1. CASE Taken(task)
      BY <1>2, <2>6, <3>1 DEF InsertSession
    <3>2. CASE ~Taken(task)
      <4>1. /\ sessions' = sessions \cup {<<task, <<c, part>>>>}
            /\ session' = [session EXCEPT ![c] = <<c, part>>]
            /\ \A s \in sessions : s[1] # task
        BY <2>6, <3>2 DEF InsertSession, Taken, RowsOf
      <4>2. session'[c] = <<c, part>> /\ \A d \in Requests \ {c} : session'[d] = session[d]
        BY <4>1 DEF DoorTypeOK
      <4>3. \A s, t \in sessions' : s[1] = t[1] => s = t
        BY <4>1
      <4> QED
        BY <2>4, <2>6, <3>2, <4>1, <4>2, <4>3 DEF InsertSession
    <3> QED
      BY <3>1, <3>2
  <2> QED
    BY <2>1, <2>3, <2>5, <2>6 DEF UpsertSession
<1>6. ASSUME NEW c \in Requests, OfBoth(c) PROVE SessionInv'
  <2>1. CASE FindSource(c) \/ StatementFails(c)
    BY <1>2, <1>3, <2>1 DEF FindSource, StatementFails, memory, tables
  <2>2. CASE CreateJob(c)
    <3>1. at[c][1] = "dispatch" /\ UNCHANGED <<session, sessions>> /\ jobs' = jobs \cup {c}
          /\ jobSession' = [jobSession EXCEPT ![c] = session[c]]
      BY <2>2 DEF CreateJob, memory
    <3>2. \A d \in Requests \ {c} : at'[d] = at[d]
      BY <2>2, Elsewhere, Thrown DEF CreateJob, Then
    <3> QED
      BY <1>0, <3>1, <3>2 DEF DoorTypeOK
  <2> QED
    BY <1>6, <2>1, <2>2 DEF OfBoth
<1>7. ASSUME NEW c \in Requests, OfWeb(c) PROVE SessionInv'
  BY <1>0, <1>2, <1>3, <1>7
  DEF OfWeb, SendEvent, Link, RunAfter, FunctionDies, memory, tables
<1>8. ASSUME NEW c \in Requests, OfServer(c) PROVE SessionInv'
  <2>1. UNCHANGED <<sessions, session, jobs, jobSession>>
    BY <1>8 DEF OfServer, RecordSuccess, RecordError, StartDirect, RunAgent, ReadPatch, WritePatch,
         UpdateStatus, memory, tables
  <2>2. CASE RecordSuccess(c) \/ RecordError(c) \/ StartDirect(c) \/ RunAgent(c)
    BY <1>2, <1>3, <2>1, <2>2 DEF RecordSuccess, RecordError, StartDirect, RunAgent
  <2>3. CASE ReadPatch(c)
    BY <1>2, <1>3, <2>1, <2>3 DEF ReadPatch
  <2>4. CASE WritePatch(c) \/ UpdateStatus(c)
    <3>1. Then(c, "apply", "status") \/ Then(c, "record", "insert")
      BY <2>4 DEF WritePatch, UpdateStatus
    <3> QED
      BY <1>3, <2>1, <3>1
  <2> QED
    BY <1>8, <2>2, <2>3, <2>4 DEF OfServer
<1>9. CASE ServerGone
  <2>1. \A c \in Requests : at'[c] = at[c] \/ at'[c] = <<"over", "cut">>
    BY <1>9 DEF ServerGone, ServerDies, CutCalls
  <2> QED
    BY <1>0, <1>9, <2>1 DEF ServerGone, ServerDies, memory, tables
<1>10. CASE UNCHANGED <<doors, server>> \/ UNCHANGED vars
  BY <1>0, <1>10 DEF vars, doors, memory, tables
<1> QED
  BY <1>4, <1>5, <1>6, <1>7, <1>8, <1>9, <1>10, StepCases

--------------------------------------------------------------------------------
(* Jobs.                                                                    *)

\* Inngest has the event of a job, and the direct runner starts or will.
Started(c) ==
  /\ c \in jobs \cap sent
  /\ <<c, "durable">> \in running
  /\ c \in scheduled \/ <<c, "direct">> \in running

JobInv ==
  /\ \A c \in Requests :
       /\ at[c] = <<"dispatch", "start">> => c \in jobs
       /\ at[c] = <<"link", "insert">> => Started(c)
       /\ Web(c) /\ at[c] = <<"over", "answered">> => Started(c) /\ c \in linked
  /\ linked \subseteq jobs /\ sent \subseteq jobs
  /\ \A r \in running : r[1] \in jobs
  /\ \A c \in jobs :
       /\ at[c][1] # "arrive"
       /\ faults = 0 => \/ at[c] = <<"dispatch", "start">>
                        \/ <<c, "durable">> \in running \/ <<c, "direct">> \in running

LEMMA JobStep ==
  ASSUME DoorTypeOK, QaTypeOK, JobInv, [Next]_vars
  PROVE  JobInv'
<1> USE DEF JobInv, Started, Web
<1>0. UNCHANGED ask /\ faults \in Nat
  BY AsksStay DEF DoorTypeOK
\* A step of a request that neither makes nor starts its job.
<1>1. ASSUME NEW c \in Requests, UNCHANGED <<jobs, linked, sent, scheduled, running>>,
             faults' = 0 => faults = 0,
             at'[c] \notin {<<"dispatch", "start">>, <<"link", "insert">>},
             at'[c][1] # "arrive", Web(c) => at'[c] # <<"over", "answered">>,
             at[c] = <<"dispatch", "start">> => faults' # 0,
             \A d \in Requests \ {c} : at'[d] = at[d]
      PROVE  JobInv'
  <2>1. ASSUME NEW d \in Requests
        PROVE  /\ at'[d] = <<"dispatch", "start">> => d \in jobs'
               /\ at'[d] = <<"link", "insert">> => Started(d)'
               /\ Web(d) /\ at'[d] = <<"over", "answered">> => Started(d)' /\ d \in linked'
    BY <1>1
  <2>2. ASSUME NEW d \in jobs
        PROVE  /\ at'[d][1] # "arrive"
               /\ faults' = 0 =>
                    \/ at'[d] = <<"dispatch", "start">>
                    \/ <<d, "durable">> \in running \/ <<d, "direct">> \in running
    BY <1>1 DEF DoorTypeOK
  <2> QED
    BY <1>0, <1>1, <2>1, <2>2
<1>2. ASSUME NEW c \in Requests, UNCHANGED <<jobs, linked, sent, scheduled, running>>, Throw(c),
             faults' = 0 => faults = 0,
             at[c] = <<"dispatch", "start">> => faults' # 0
      PROVE  JobInv'
  BY <1>1, <1>2, Thrown
<1>3. ASSUME NEW c \in Requests, UNCHANGED <<jobs, linked, sent, scheduled, running>>,
             NEW part, NEW act, Then(c, part, act),
             <<part, act>> \notin {<<"dispatch", "start">>, <<"link", "insert">>},
             part # "arrive", Web(c) => <<part, act>> # <<"over", "answered">>,
             at[c] # <<"dispatch", "start">>
      PROVE  JobInv'
  <2>1. CASE Goto(c, part, act) /\ UNCHANGED faults
    BY <1>1, <1>3, <2>1, Elsewhere
  <2>2. CASE faults' = faults + 1 /\ Throw(c)
    BY <1>0, <1>2, <1>3, <2>2
  <2> QED
    BY <1>3, <2>1, <2>2 DEF Then
<1>4. ASSUME NEW c \in Requests, Enter(c) PROVE JobInv'
  <2>1. PICK part \in {"over", "door", "audit"}, act \in {"invalid", "select"} :
          Goto(c, part, act) /\ act # "answered"
    BY <1>4 DEF Enter
  <2> QED
    BY <1>1, <1>4, <2>1, Elsewhere DEF Enter, tables, starting
<1>5. ASSUME NEW c \in Requests, Lookup(c) PROVE JobInv'
  <2>1. PICK part \in {"door", "audit", "error"}, task \in Tasks, next \in Spots :
          Uses(c, part, task, next) /\ UpsertSession(c, part, task, next)
    BY <1>5 DEF Lookup
  <2>2. /\ UNCHANGED <<jobs, linked, sent, scheduled, running>>
        /\ at[c] \in {<<part, "select">>, <<part, "upsert">>}
    BY <2>1 DEF UpsertSession, SelectSession, TouchSession, InsertSession, tables, starting
  <2>3. /\ next # <<"dispatch", "start">> /\ next[1] \notin {"link", "arrive", "over"}
        /\ next = <<next[1], next[2]>>
    <3>1. FirstOfDispatch(c) \in {<<"dispatch", "find">>, <<"dispatch", "create">>}
      BY DEF FirstOfDispatch
    <3>2. FirstOfTool(c) \in {<<"apply", "read">>, <<"agent", "run">>, <<"door", "select">>}
      BY DEF FirstOfTool
    <3> QED
      BY <2>1, <3>1, <3>2 DEF Uses, Spots
  <2>4. CASE SelectSession(c, part, task)
    BY <1>1, <2>2, <2>4, Elsewhere DEF SelectSession
  <2>5. CASE Throw(c) /\ UNCHANGED faults
    BY <1>2, <2>2, <2>5
  <2>6. CASE Then(c, next[1], next[2])
    BY <1>3, <2>2, <2>3, <2>6
  <2> QED
    BY <2>1, <2>4, <2>5, <2>6 DEF UpsertSession, TouchSession, InsertSession
<1>6. ASSUME NEW c \in Requests, OfBoth(c) PROVE JobInv'
  <2>1. CASE FindSource(c)
    <3>1. CASE Throw(c)
      BY <1>2, <2>1, <3>1 DEF FindSource, tables, starting
    <3>2. CASE Goto(c, "dispatch", "create")
      BY <1>1, <2>1, <3>2, Elsewhere DEF FindSource, tables, starting
    <3> QED
      BY <2>1, <3>1, <3>2 DEF FindSource
  <2>2. CASE StatementFails(c)
    BY <1>0, <1>2, <2>2 DEF StatementFails, tables, starting
  <2>3. CASE CreateJob(c)
    <3>1. jobs' = jobs \cup {c} /\ UNCHANGED <<linked, sent, scheduled, running>>
      BY <2>3 DEF CreateJob, starting
    <3>2. /\ \A d \in Requests \ {c} : at'[d] = at[d]
          /\ \/ at'[c] = <<"dispatch", "start">> /\ faults' = faults
             \/ at'[c] # <<"over", "answered">> /\ at'[c][1] \in {"over", "error"} /\ faults' > 0
      BY <1>0, <2>3, Elsewhere, Thrown DEF CreateJob, Then
    <3> QED
      BY <1>0, <3>1, <3>2 DEF DoorTypeOK
  <2> QED
    BY <1>6, <2>1, <2>2, <2>3 DEF OfBoth
<1>7. ASSUME NEW c \in Requests, OfWeb(c) PROVE JobInv'
  <2>1. CASE SendEvent(c)
    <3>1. /\ c \in jobs /\ sent' = sent \cup {c} /\ running' = running \cup {<<c, "durable">>}
          /\ UNCHANGED <<jobs, linked>> /\ scheduled \subseteq scheduled'
      BY <2>1 DEF SendEvent, tables
    <3>2. /\ \A d \in Requests \ {c} : at'[d] = at[d]
          /\ faults' = 0 => faults = 0
          /\ \/ at'[c] = <<"link", "insert">> /\ c \in scheduled'
             \/ at'[c] = <<"over", "refused">>
      BY <1>0, <2>1, Elsewhere, Thrown DEF SendEvent
    <3> QED
      BY <1>0, <3>1, <3>2 DEF DoorTypeOK
  <2>2. CASE Link(c)
    <3>1. Started(c) /\ linked' = linked \cup {c}
          /\ UNCHANGED <<jobs, sent, scheduled, running>>
      BY <2>2 DEF Link, starting
    <3>2. /\ \A d \in Requests \ {c} : at'[d] = at[d]
          /\ faults' = 0 => faults = 0
          /\ at'[c] \in {<<"over", "answered">>, <<"over", "refused">>}
      <4>1. Then(c, "over", "answered")
        BY <2>2 DEF Link
      <4>2. CASE Goto(c, "over", "answered") /\ UNCHANGED faults
        <5>1. at'[c] = <<"over", "answered">> /\ \A d \in Requests \ {c} : at'[d] = at[d]
          BY <4>2, Elsewhere
        <5> QED
          BY <4>2, <5>1
      <4>3. CASE faults' = faults + 1 /\ Throw(c)
        <5>1. faults' # 0
          BY <1>0, <4>3
        <5>2. ask[c].door = "web"
          BY <2>2 DEF Link
        <5> QED
          BY <4>3, <5>1, <5>2, Thrown
      <4> QED
        BY <4>1, <4>2, <4>3 DEF Then
    <3>3. ASSUME NEW d \in Requests
          PROVE  /\ at'[d] = <<"dispatch", "start">> => d \in jobs'
                 /\ at'[d] = <<"link", "insert">> => Started(d)'
                 /\ Web(d) /\ at'[d] = <<"over", "answered">> => Started(d)' /\ d \in linked'
      <4>1. Started(d) => Started(d)'
        BY <3>1
      <4>2. CASE d = c
        BY <3>1, <3>2, <4>1, <4>2
      <4>3. CASE d # c
        BY <1>0, <3>1, <3>2, <4>1, <4>3
      <4> QED
        BY <4>2, <4>3
    <3>4. ASSUME NEW d \in jobs'
          PROVE  /\ at'[d][1] # "arrive"
                 /\ faults' = 0 => \/ at'[d] = <<"dispatch", "start">>
                                   \/ <<d, "durable">> \in running' \/ <<d, "direct">> \in running'
      <4>1. d \in Requests /\ d \in jobs
        BY <3>1 DEF DoorTypeOK
      <4>2. CASE d = c
        <5>1. at[c] = <<"link", "insert">>
          BY <2>2 DEF Link
        <5> QED
          BY <3>1, <3>2, <4>1, <4>2, <5>1
      <4>3. CASE d # c
        BY <3>1, <3>2, <4>1, <4>3
      <4> QED
        BY <4>2, <4>3
    <3>5. linked' \subseteq jobs' /\ sent' \subseteq jobs' /\ \A r \in running' : r[1] \in jobs'
      BY <3>1
    <3>6. \A d \in Requests :
            /\ at'[d] = <<"dispatch", "start">> => d \in jobs'
            /\ at'[d] = <<"link", "insert">> => Started(d)'
            /\ Web(d)' /\ at'[d] = <<"over", "answered">> => Started(d)' /\ d \in linked'
      BY <1>0, <3>3
    <3> QED
      BY <3>4, <3>5, <3>6
  <2>3. CASE RunAfter(c)
    <3>1. /\ c \in jobs /\ scheduled' = scheduled \ {c}
          /\ running' = running \cup {<<c, "direct">>}
          /\ UNCHANGED <<at, faults, jobs, linked, sent>>
      BY <2>3 DEF RunAfter, tables, DoorTypeOK
    <3> QED
      BY <1>0, <3>1
  <2>4. CASE FunctionDies(c)
    <3>1. /\ at'[c] = <<"over", "cut">> /\ \A d \in Requests \ {c} : at'[d] = at[d]
          /\ scheduled' = scheduled \ {c} /\ faults' > 0
          /\ UNCHANGED <<jobs, linked, sent, running>>
      BY <1>0, <2>4, Elsewhere DEF FunctionDies, tables
    <3> QED
      BY <1>0, <3>1 DEF DoorTypeOK
  <2> QED
    BY <1>7, <2>1, <2>2, <2>3, <2>4 DEF OfWeb
<1>8. ASSUME NEW c \in Requests, OfServer(c) PROVE JobInv'
  <2>0. UNCHANGED <<jobs, linked, sent, scheduled>> /\ ~Web(c)
    BY <1>8 DEF OfServer, RecordSuccess, RecordError, StartDirect, RunAgent, ReadPatch, WritePatch,
         UpdateStatus, tables, starting, Mcp
  <2>1. CASE StartDirect(c)
    <3>1. /\ at[c] = <<"dispatch", "start">> /\ at'[c] = <<"record", "insert">>
          /\ \A d \in Requests \ {c} : at'[d] = at[d]
          /\ running' = running \cup {<<c, "direct">>} /\ UNCHANGED faults
      BY <2>1, Elsewhere DEF StartDirect
    <3>2. c \in jobs /\ \A r \in running' : r[1] \in jobs'
      <4>1. c \in jobs
        BY <3>1
      <4>2. \A r \in running \cup {<<c, "direct">>} : r[1] \in jobs
        BY <4>1
      <4> QED
        BY <2>0, <3>1, <4>1, <4>2
    <3>3. ASSUME NEW d \in Requests
          PROVE  /\ at'[d] = <<"dispatch", "start">> => d \in jobs'
                 /\ at'[d] = <<"link", "insert">> => Started(d)'
                 /\ Web(d)' /\ at'[d] = <<"over", "answered">> => Started(d)' /\ d \in linked'
      BY <1>0, <2>0, <3>1
    <3>4. ASSUME NEW d \in jobs
          PROVE  /\ at'[d][1] # "arrive"
                 /\ faults' = 0 => \/ at'[d] = <<"dispatch", "start">>
                                   \/ <<d, "durable">> \in running'
                                   \/ <<d, "direct">> \in running'
      BY <3>1 DEF DoorTypeOK
    <3> QED
      BY <2>0, <3>2, <3>3, <3>4
  <2>2. CASE RecordSuccess(c)
    BY <1>3, <2>0, <2>2 DEF RecordSuccess, starting
  <2>3. CASE RecordError(c)
    BY <1>1, <2>0, <2>3, Elsewhere DEF RecordError, starting
  <2>4. CASE RunAgent(c)
    BY <1>1, <1>2, <2>0, <2>4, Elsewhere DEF RunAgent, starting
  <2>5. CASE ReadPatch(c)
    BY <1>1, <1>2, <2>0, <2>5, Elsewhere DEF ReadPatch, starting
  <2>6. CASE WritePatch(c) \/ UpdateStatus(c)
    <3>1. /\ Then(c, "apply", "status") \/ Then(c, "record", "insert")
          /\ UNCHANGED running /\ at[c] # <<"dispatch", "start">>
      BY <2>6 DEF WritePatch, UpdateStatus, starting
    <3> QED
      BY <1>3, <2>0, <3>1
  <2> QED
    BY <1>8, <2>1, <2>2, <2>3, <2>4, <2>5, <2>6 DEF OfServer
<1>9. ASSUME UNCHANGED <<at, jobs, linked, sent, scheduled, running>>, faults' = 0 => faults = 0
       PROVE  JobInv'
  <2>1. \A c \in Requests : Started(c)' <=> Started(c)
    BY <1>9
  <2>2. \A c \in Requests : Web(c)' <=> Web(c)
    BY <1>0
  <2> QED
    BY <1>9, <2>1, <2>2
<1>10. ASSUME NEW r \in Runners, RunnerMoves(r), UNCHANGED doors PROVE JobInv'
  <2>1. faults' = 0 => faults = 0
    BY <1>0, <1>10
    DEF RunnerMoves, RunnerStep, RunnerFails, Start, UpdateState, MarkCompleted, FindSnapshot,
        Wipe, Copy, CheckOut, TakeSnapshot, Walk, Parse, AskQuestion, Audit, RunOther, Done
  <2> QED
    BY <1>10, <1>9, <2>1 DEF doors, tables, starting
<1>11. CASE ServerGone
  <2>1. \A c \in Requests : at'[c] = at[c] \/ at'[c] = <<"over", "cut">>
    BY <1>11 DEF ServerGone, ServerDies, CutCalls
  <2>2. faults' > 0 /\ UNCHANGED <<jobs, linked, sent, scheduled, running>>
    BY <1>0, <1>11 DEF ServerGone, ServerDies, tables, starting
  <2> QED
    BY <1>0, <2>1, <2>2 DEF DoorTypeOK
<1>12. CASE UNCHANGED vars
  BY <1>12, <1>9 DEF vars, doors, tables, starting
<1> QED
  BY <1>4, <1>5, <1>6, <1>7, <1>8, <1>10, <1>11, <1>12, StepCases

--------------------------------------------------------------------------------
(* The log of tool calls.                                                   *)

\* What a tool does is done.
Worked(c) ==
  /\ ask[c].kind = "apply_patch" => Target(c) \in Patches /\ status[Target(c)] = "applied"
  /\ ask[c].kind \notin {"apply_patch", "agent"} => <<c, "direct">> \in running

\* As long as nothing fails, a call that throws finds the session of the server
\* that its own first statement, or whoever was faster, has left.
Undisturbed(c) ==
  /\ at[c][1] \notin {"arrive", "audit", "over"} => Taken(ServerTask)
  /\ at[c] = <<"error", "upsert">> => found[c]
  /\ at[c] = <<"over", "threw">> => <<c, "error">> \in invocations

RecordInv ==
  \A c \in Requests : Mcp(c) =>
    /\ at[c] = <<"over", "answered">> => <<c, "ok">> \in invocations
    /\ <<c, "error">> \in invocations => at[c] = <<"over", "threw">>
    /\ at[c] = <<"record", "insert">> \/ <<c, "ok">> \in invocations => Worked(c)
    /\ faults = 0 => Undisturbed(c)

\* What is done stays done, whatever others do.
Lasting ==
  /\ running \subseteq running' /\ sessions \subseteq sessions'
  /\ \A p \in Patches : status[p] = "applied" => status'[p] = "applied"
  /\ faults' = 0 => faults = 0

LEMMA WorkLasts ==
  ASSUME DoorTypeOK, ServerTypeOK, Lasting, UNCHANGED ask, NEW c \in Requests
  PROVE  /\ Worked(c) => Worked(c)'
         /\ Taken(ServerTask) => Taken(ServerTask)'
<1>1. Worked(c) => Worked(c)'
  BY DEF Worked, Lasting, Target
<1>2. Taken(ServerTask) => Taken(ServerTask)'
  BY DEF Taken, RowsOf, Lasting
<1> QED
  BY <1>1, <1>2

\* Of two states only the call that moves, its row, and what lasts are different.
LEMMA RecordMove ==
  ASSUME DoorTypeOK, ServerTypeOK, RecordInv, Lasting, UNCHANGED ask,
         NEW c \in Requests, \A d \in Requests \ {c} : at'[d] = at[d] /\ found'[d] = found[d],
         UNCHANGED invocations,
         Mcp(c) => /\ at[c][1] # "over" /\ at'[c] # <<"over", "answered">>
                   /\ at'[c] = <<"record", "insert">> => Worked(c)'
                   /\ faults' = 0 => /\ at'[c][1] \notin {"arrive", "audit", "over"} =>
                                          Taken(ServerTask)'
                                     /\ at'[c] = <<"error", "upsert">> => found'[c]
                                     /\ at'[c] # <<"over", "threw">>
  PROVE  RecordInv'
<1> SUFFICES ASSUME NEW d \in Requests, Mcp(d)
             PROVE  /\ at'[d] = <<"over", "answered">> => <<d, "ok">> \in invocations
                    /\ <<d, "error">> \in invocations => at'[d] = <<"over", "threw">>
                    /\ at'[d] = <<"record", "insert">> \/ <<d, "ok">> \in invocations => Worked(d)'
                    /\ faults' = 0 => Undisturbed(d)'
  BY DEF RecordInv, Mcp
<1>1. CASE d = c
  <2>1. <<c, "ok">> \in invocations => Worked(c)'
    BY <1>1, WorkLasts DEF RecordInv
  <2>2. <<c, "error">> \notin invocations
    <3>1. Mcp(c) /\ at[c][1] # "over"
      BY <1>1
    <3>2. at[c] # <<"over", "threw">>
      BY <3>1
    <3> QED
      BY <3>1, <3>2 DEF RecordInv
  <2>3. faults' = 0 => Undisturbed(c)'
    BY <1>1, <2>2 DEF Undisturbed
  <2> QED
    BY <1>1, <2>1, <2>2, <2>3
<1>2. CASE d # c
  <2>1. at'[d] = at[d] /\ found'[d] = found[d]
    BY <1>2
  <2>2. Worked(d) => Worked(d)'
    BY WorkLasts
  <2>3. faults' = 0 => Undisturbed(d)'
    BY <2>1, WorkLasts DEF RecordInv, Undisturbed, Lasting
  <2> QED
    BY <2>1, <2>2, <2>3 DEF RecordInv
<1> QED
  BY <1>1, <1>2


\* The same of a call that gets its row.
LEMMA RecordLogged ==
  ASSUME DoorTypeOK, ServerTypeOK, RecordInv, Lasting, UNCHANGED <<ask, found>>,
         NEW c \in Requests, \A d \in Requests \ {c} : at'[d] = at[d],
         NEW outcome \in {"ok", "error"}, invocations' = invocations \cup {<<c, outcome>>},
         at'[c] = <<"over", "answered">> => <<c, "ok">> \in invocations',
         <<c, "error">> \in invocations' => at'[c] = <<"over", "threw">>,
         at'[c] # <<"record", "insert">>, <<c, "ok">> \in invocations' => Worked(c)',
         faults' = 0 => at'[c][1] = "over",
         at'[c] = <<"over", "threw">> => <<c, "error">> \in invocations'
  PROVE  RecordInv'
<1> SUFFICES ASSUME NEW d \in Requests, Mcp(d)
             PROVE  /\ at'[d] = <<"over", "answered">> => <<d, "ok">> \in invocations'
                    /\ <<d, "error">> \in invocations' => at'[d] = <<"over", "threw">>
                    /\ at'[d] = <<"record", "insert">> \/ <<d, "ok">> \in invocations' => Worked(d)'
                    /\ faults' = 0 => Undisturbed(d)'
  BY DEF RecordInv, Mcp
<1>1. CASE d = c
  <2>1. faults' = 0 => Undisturbed(c)'
    BY DEF Undisturbed
  <2> QED
    BY <1>1, <2>1
<1>2. CASE d # c
  <2>1. at'[d] = at[d] /\ \A o \in {"ok", "error"} : <<d, o>> \in invocations' <=> <<d, o>> \in invocations
    BY <1>2
  <2>2. Worked(d) => Worked(d)'
    BY WorkLasts
  <2>3. faults' = 0 => Undisturbed(d)'
    BY <2>1, WorkLasts DEF RecordInv, Undisturbed, Lasting
  <2> QED
    BY <2>1, <2>2, <2>3 DEF RecordInv
<1> QED
  BY <1>1, <1>2

LEMMA Lasts ==
  ASSUME DoorTypeOK, ServerTypeOK, KindInv, [Next]_vars
  PROVE  Lasting
<1> USE DEF Lasting, server, patching
<1>1. ASSUME NEW c \in Requests, Enter(c), UNCHANGED server PROVE Lasting
  BY <1>1 DEF Enter, tables, starting
<1>2. ASSUME NEW c \in Requests, Lookup(c), UNCHANGED server PROVE Lasting
  BY <1>2 DEF Lookup, UpsertSession, SelectSession, TouchSession, InsertSession, Then, tables,
       starting, DoorTypeOK
<1>3. ASSUME NEW c \in Requests, OfBoth(c), UNCHANGED server PROVE Lasting
  BY <1>3 DEF OfBoth, FindSource, CreateJob, StatementFails, Then, tables, starting, DoorTypeOK
<1>4. ASSUME NEW c \in Requests, OfWeb(c), UNCHANGED server PROVE Lasting
  BY <1>4 DEF OfWeb, SendEvent, Link, RunAfter, FunctionDies, Then, tables, starting, DoorTypeOK
<1>5. ASSUME NEW c \in Requests, OfServer(c) PROVE Lasting
  <2>1. CASE UpdateStatus(c)
    BY <2>1 DEF UpdateStatus, Then, tables, starting, DoorTypeOK, ServerTypeOK
  <2> QED
    BY <1>5, <2>1 DEF OfServer, RecordSuccess, RecordError, StartDirect, RunAgent, ReadPatch,
         WritePatch, Then, tables, starting, DoorTypeOK
<1>6. ASSUME NEW r \in Runners, RunnerMoves(r), UNCHANGED <<doors, server>> PROVE Lasting
  BY <1>6
  DEF RunnerMoves, RunnerStep, RunnerFails, Start, UpdateState, MarkCompleted, FindSnapshot,
      Wipe, Copy, CheckOut, TakeSnapshot, Walk, Parse, AskQuestion, Audit, RunOther, Done, doors, tables, starting, DoorTypeOK
<1>7. CASE ServerGone
  BY <1>7 DEF ServerGone, ServerDies, tables, starting, DoorTypeOK
<1>8. CASE UNCHANGED vars
  BY <1>8 DEF vars, doors, tables, starting
<1> QED
  BY <1>1, <1>2, <1>3, <1>4, <1>5, <1>6, <1>7, <1>8, StepCases

LEMMA RecordStep ==
  ASSUME DoorTypeOK, ServerTypeOK, QaTypeOK, KindInv, RecordInv, [Next]_vars
  PROVE  RecordInv'
<1>1. UNCHANGED ask /\ Lasting /\ faults \in Nat /\ (faults' = 0 => faults = 0)
  BY AsksStay, Lasts DEF DoorTypeOK, Lasting
<1>2. \A c \in Requests : Mcp(c) => ~Web(c)
  BY DEF Mcp, Web
<1>3. ASSUME NEW c \in Requests, Enter(c), UNCHANGED <<server, qa>> PROVE RecordInv'
  <2>1. /\ \A d \in Requests \ {c} : at'[d] = at[d] /\ found'[d] = found[d]
        /\ at[c][1] = "arrive"
        /\ at'[c] \in {<<"over", "invalid">>, <<"audit", "select">>} \/ ~Mcp(c)
    BY <1>2, <1>3, Elsewhere DEF Enter, memory
  <2> QED
    BY <1>1, <1>3, <2>1, RecordMove DEF server
<1>4. ASSUME NEW c \in Requests, Lookup(c), UNCHANGED <<server, qa>> PROVE RecordInv'
  <2>1. PICK part \in {"door", "audit", "error"}, task \in Tasks, next \in Spots :
          Uses(c, part, task, next) /\ UpsertSession(c, part, task, next)
    BY <1>4 DEF Lookup
  <2>2. /\ at[c] \in {<<part, "select">>, <<part, "upsert">>}
        /\ \A d \in Requests \ {c} : found'[d] = found[d]
    BY <2>1 DEF UpsertSession, SelectSession, TouchSession, InsertSession, DoorTypeOK
  <2>10. at[c][1] = part /\ part \notin {"arrive", "over"}
    BY <2>2
  <2>3. Mcp(c) /\ faults' = 0 /\ part = "door" => Taken(ServerTask)'
    <3>1. Mcp(c) /\ faults = 0 /\ part = "door" => Taken(ServerTask)
      BY <2>10 DEF RecordInv, Undisturbed
    <3> QED
      BY <1>1, <3>1, WorkLasts
  <2>4. Mcp(c) /\ faults' = 0 /\ at[c] = <<"error", "upsert">> => found[c]
    BY <1>1 DEF RecordInv, Undisturbed, Lasting
  <2>5. CASE SelectSession(c, part, task)
    <3>1. /\ at'[c] = <<part, "upsert">> /\ \A d \in Requests \ {c} : at'[d] = at[d]
          /\ at[c] = <<part, "select">> /\ found'[c] = Taken(task)
      BY <2>5, Elsewhere DEF SelectSession, Taken, DoorTypeOK
    <3>2. Mcp(c) /\ faults' = 0 /\ part = "error" => task = ServerTask /\ Taken(ServerTask)
      <4>1. Mcp(c) /\ faults = 0 /\ part = "error" => Taken(ServerTask)
        BY <2>10 DEF RecordInv, Undisturbed
      <4> QED
        BY <1>1, <2>1, <4>1 DEF Uses
    <3> QED
      BY <1>1, <1>4, <2>2, <2>3, <3>1, <3>2, RecordMove, WorkLasts DEF server
  \* The part is done: there is a row of its task.
  <2>6. ASSUME Taken(task)', Then(c, next[1], next[2]) PROVE RecordInv'
    <3>1. Mcp(c) /\ faults' = 0 => Taken(ServerTask)'
      BY <2>1, <2>3, <2>6 DEF Uses
    <3>2. next[1] \in {"dispatch", "apply", "agent", "door"} \/ next = <<"error", "record">>
      BY <2>1 DEF Uses, FirstOfDispatch, FirstOfTool
    <3>3. /\ \A d \in Requests \ {c} : at'[d] = at[d]
          /\ \/ at'[c] = <<next[1], next[2]>> /\ faults' = faults
             \/ faults' = faults + 1 /\ Throw(c)
      BY <2>6, Elsewhere, Thrown DEF Then
    <3>4. CASE at'[c] = <<next[1], next[2]>> /\ faults' = faults
      BY <1>1, <1>4, <2>2, <3>1, <3>2, <3>3, <3>4, RecordMove DEF server
    <3>5. CASE faults' = faults + 1 /\ Throw(c)
      <4>1. at'[c] \notin {<<"over", "answered">>, <<"record", "insert">>} /\ faults' # 0
        BY <1>1, <3>5, Thrown
      <4> QED
        BY <1>1, <1>4, <2>2, <3>3, <4>1, RecordMove DEF server
    <3> QED
      BY <3>3, <3>4, <3>5
  <2>7. CASE TouchSession(c, part, task, next)
    BY <2>6, <2>7 DEF TouchSession, Taken, RowsOf, tables
  <2>8. CASE InsertSession(c, part, task, next)
    <3>1. CASE ~Taken(task)
      <4>1. sessions' = sessions \cup {<<task, <<c, part>>>>} /\ Then(c, next[1], next[2])
        BY <2>8, <3>1 DEF InsertSession
      <4>2. Taken(task)'
        <5>1. <<task, <<c, part>>>> \in sessions' /\ <<task, <<c, part>>>>[1] = task
          BY <4>1
        <5> QED
          BY <5>1 DEF Taken, RowsOf
      <4> QED
        BY <2>6, <4>1, <4>2
    <3>2. CASE Taken(task)
      <4>1. Throw(c) /\ UNCHANGED <<sessions, faults>> /\ ~found[c] /\ at[c] = <<part, "upsert">>
        BY <2>8, <3>2 DEF InsertSession
      <4>2. Mcp(c) /\ faults' = 0 => Taken(ServerTask)'
        BY <2>1, <2>3, <3>2, <4>1 DEF Uses, Taken, RowsOf
      <4>3. Mcp(c) /\ faults' = 0 => part # "error"
        BY <2>4, <4>1
      <4>4. /\ \A d \in Requests \ {c} : at'[d] = at[d]
            /\ Mcp(c) => at'[c] \in {<<"over", "threw">>, <<"error", "select">>}
            /\ at'[c] = <<"over", "threw">> => part = "error"
        BY <1>2, <4>1, Thrown
      <4> QED
        BY <1>1, <1>4, <2>2, <4>2, <4>3, <4>4, RecordMove DEF server
    <3> QED
      BY <3>1, <3>2
  <2> QED
    BY <2>1, <2>5, <2>7, <2>8 DEF UpsertSession
<1>5. ASSUME NEW c \in Requests, OfBoth(c), UNCHANGED <<server, qa>> PROVE RecordInv'
  <2>1. UNCHANGED <<found, invocations, sessions>>
    BY <1>5 DEF OfBoth, FindSource, CreateJob, StatementFails, memory, tables, server
  <2>2. Mcp(c) /\ faults' = 0 /\ at[c][1] = "dispatch" => Taken(ServerTask)'
    <3>1. Mcp(c) /\ faults = 0 /\ at[c][1] = "dispatch" => Taken(ServerTask)
      BY DEF RecordInv, Undisturbed
    <3> QED
      BY <1>1, <3>1, WorkLasts
  <2>3. CASE FindSource(c)
    <3>1. /\ \A d \in Requests \ {c} : at'[d] = at[d]
          /\ at[c][1] = "dispatch"
          /\ Mcp(c) => at'[c] \in {<<"error", "select">>, <<"dispatch", "create">>}
      BY <1>2, <2>3, Elsewhere, Thrown DEF FindSource
    <3> QED
      BY <1>1, <2>1, <2>2, <3>1, RecordMove
  <2>4. CASE CreateJob(c)
    <3>1. at[c][1] = "dispatch" /\ Then(c, "dispatch", "start")
      BY <2>4 DEF CreateJob
    <3>2. /\ \A d \in Requests \ {c} : at'[d] = at[d]
          /\ Mcp(c) => at'[c] \in {<<"error", "select">>, <<"dispatch", "start">>}
      BY <1>2, <3>1, Elsewhere, Thrown DEF Then
    <3> QED
      BY <1>1, <2>1, <2>2, <3>1, <3>2, RecordMove
  <2>5. CASE StatementFails(c)
    <3>1. /\ \A d \in Requests \ {c} : at'[d] = at[d]
          /\ at[c][1] # "over" /\ faults' # 0
          /\ Mcp(c) => at'[c] \in {<<"error", "select">>, <<"over", "threw">>}
      BY <1>1, <1>2, <2>5, Thrown DEF StatementFails, Over
    <3> QED
      BY <1>1, <2>1, <3>1, RecordMove
  <2> QED
    BY <1>5, <2>3, <2>4, <2>5 DEF OfBoth
<1>6. ASSUME NEW c \in Requests, OfWeb(c), UNCHANGED <<server, qa>> PROVE RecordInv'
  <2>1. UNCHANGED <<found, invocations>> /\ ~Mcp(c)
    BY <1>2, <1>6 DEF OfWeb, SendEvent, Link, RunAfter, FunctionDies, memory, server
  <2>2. \A d \in Requests \ {c} : at'[d] = at[d]
    BY <1>6, Elsewhere, Thrown DEF OfWeb, SendEvent, Link, RunAfter, FunctionDies, Then
  <2> QED
    BY <1>1, <2>1, <2>2, RecordMove
<1>7. ASSUME NEW c \in Requests, OfServer(c), UNCHANGED qa PROVE RecordInv'
  <2>1. Mcp(c) /\ UNCHANGED found /\ at[c][1] \notin {"arrive", "audit", "over"}
    BY <1>7 DEF OfServer, RecordSuccess, RecordError, StartDirect, RunAgent, ReadPatch, WritePatch,
         UpdateStatus, memory
  <2>2. faults' = 0 => Taken(ServerTask)'
    <3>1. faults = 0 => Taken(ServerTask)
      BY <2>1 DEF RecordInv, Undisturbed
    <3> QED
      BY <1>1, <3>1, WorkLasts
  <2>3. CASE StartDirect(c)
    <3>1. /\ at'[c] = <<"record", "insert">> /\ \A d \in Requests \ {c} : at'[d] = at[d]
          /\ ask[c].kind # "apply_patch" /\ <<c, "direct">> \in running' /\ UNCHANGED invocations
      BY <2>1, <2>3, Elsewhere DEF StartDirect, KindInv, Fits
    <3>2. Worked(c)'
      BY <1>1, <3>1 DEF Worked
    <3> QED
      BY <1>1, <2>1, <2>2, <3>1, <3>2, RecordMove
  <2>4. CASE UpdateStatus(c)
    <3>1. Target(c) \in Patches /\ ask[c].kind = "apply_patch"
      BY <2>1, <2>4 DEF UpdateStatus, KindInv, Fits
    <3>2. Worked(c)'
      BY <1>1, <2>4, <3>1 DEF UpdateStatus, Worked, Target, ServerTypeOK
    <3>3. Then(c, "record", "insert") /\ at[c][1] = "apply" /\ UNCHANGED invocations
      BY <2>4 DEF UpdateStatus
    <3>4. /\ \A d \in Requests \ {c} : at'[d] = at[d]
          /\ at'[c] \in {<<"record", "insert">>, <<"error", "select">>}
      BY <1>2, <2>1, <3>3, Elsewhere, Thrown DEF Then
    <3> QED
      BY <1>1, <2>1, <2>2, <3>2, <3>3, <3>4, RecordMove
  <2>5. CASE WritePatch(c)
    <3>1. Then(c, "apply", "status") /\ at[c][1] = "apply" /\ UNCHANGED invocations
      BY <2>5 DEF WritePatch
    <3>2. /\ \A d \in Requests \ {c} : at'[d] = at[d]
          /\ at'[c] \in {<<"apply", "status">>, <<"error", "select">>}
      BY <1>2, <2>1, <3>1, Elsewhere, Thrown DEF Then
    <3> QED
      BY <1>1, <2>1, <2>2, <3>1, <3>2, RecordMove
  <2>6. CASE ReadPatch(c)
    <3>1. /\ \A d \in Requests \ {c} : at'[d] = at[d]
          /\ at'[c] \in {<<"apply", "write">>, <<"error", "select">>}
          /\ UNCHANGED invocations
      BY <1>2, <2>1, <2>6, Elsewhere, Thrown DEF ReadPatch
    <3> QED
      BY <1>1, <2>1, <2>2, <3>1, RecordMove
  <2>7. CASE RunAgent(c)
    <3>1. /\ \A d \in Requests \ {c} : at'[d] = at[d]
          /\ at'[c] \in {<<"record", "insert">>, <<"error", "select">>}
          /\ UNCHANGED invocations
      BY <1>2, <2>1, <2>7, Elsewhere, Thrown DEF RunAgent
    <3>2. Worked(c)'
      BY <1>1, <2>1, <2>7 DEF RunAgent, Worked, KindInv, Fits
    <3> QED
      BY <1>1, <2>1, <2>2, <3>1, <3>2, RecordMove
  <2>8. CASE RecordSuccess(c)
    <3>1. /\ at[c] = <<"record", "insert">> /\ invocations' = invocations \cup {<<c, "ok">>}
          /\ Then(c, "over", "answered")
      BY <2>8 DEF RecordSuccess
    <3>2. /\ \A d \in Requests \ {c} : at'[d] = at[d]
          /\ \/ at'[c] = <<"over", "answered">>
             \/ at'[c] = <<"error", "select">> /\ faults' # 0
      BY <1>1, <1>2, <2>1, <3>1, Elsewhere, Thrown DEF Then
    <3>3. Worked(c)'
      BY <1>1, <2>1, <3>1, WorkLasts DEF RecordInv
    <3>4. <<c, "error">> \notin invocations'
      <4>1. at[c] # <<"over", "threw">>
        BY <3>1
      <4>2. <<c, "error">> \notin invocations
        BY <2>1, <4>1 DEF RecordInv
      <4> QED
        BY <3>1, <4>2
    <3>5. UNCHANGED <<ask, found>> /\ "ok" \in {"ok", "error"} /\ <<c, "ok">> \in invocations'
      BY <1>1, <2>1, <3>1
    <3>6. faults' = 0 => at'[c][1] = "over"
      BY <3>2
    <3>7. at'[c] # <<"record", "insert">> /\ at'[c] # <<"over", "threw">>
      BY <3>2
    <3> QED
      BY <1>1, <3>1, <3>2, <3>3, <3>4, <3>5, <3>6, <3>7, RecordLogged
  <2>9. CASE RecordError(c)
    <3>1. /\ at[c] = <<"error", "record">> /\ invocations' = invocations \cup {<<c, "error">>}
          /\ at'[c] = <<"over", "threw">> /\ \A d \in Requests \ {c} : at'[d] = at[d]
      BY <2>9, Elsewhere DEF RecordError
    <3>2. <<c, "ok">> \in invocations' => Worked(c)'
      BY <1>1, <2>1, <3>1, WorkLasts DEF RecordInv
    <3>3. UNCHANGED <<ask, found>> /\ "error" \in {"ok", "error"} /\ <<c, "error">> \in invocations'
      BY <1>1, <2>1, <3>1
    <3>4. at'[c] # <<"record", "insert">> /\ at'[c] # <<"over", "answered">> /\ at'[c][1] = "over"
      BY <3>1
    <3> QED
      BY <1>1, <3>1, <3>2, <3>3, <3>4, RecordLogged
  <2> QED
    BY <1>7, <2>3, <2>4, <2>5, <2>6, <2>7, <2>8, <2>9 DEF OfServer
<1>8. ASSUME UNCHANGED <<found, invocations>>,
             \A c \in Requests : at'[c] = at[c] \/ (at'[c] = <<"over", "cut">> /\ ~Over(c) /\ faults' # 0)
      PROVE  RecordInv'
  <2> SUFFICES ASSUME NEW d \in Requests, Mcp(d)
               PROVE  /\ at'[d] = <<"over", "answered">> => <<d, "ok">> \in invocations
                      /\ <<d, "error">> \in invocations => at'[d] = <<"over", "threw">>
                      /\ at'[d] = <<"record", "insert">> \/ <<d, "ok">> \in invocations => Worked(d)'
                      /\ faults' = 0 => Undisturbed(d)'
    BY <1>1, <1>8 DEF RecordInv, Mcp
  <2>1. Worked(d) => Worked(d)'
    BY <1>1, WorkLasts
  <2>2. at'[d] = at[d] => (faults' = 0 => Undisturbed(d)')
    BY <1>1, <1>8, WorkLasts DEF RecordInv, Undisturbed, Lasting
  <2>3. CASE at'[d] = at[d]
    BY <1>8, <2>1, <2>2, <2>3 DEF RecordInv
  <2>4. CASE at'[d] = <<"over", "cut">> /\ ~Over(d) /\ faults' # 0
    <3>1. <<d, "error">> \notin invocations
      <4>1. at[d] # <<"over", "threw">>
        BY <2>4 DEF Over
      <4> QED
        BY <4>1 DEF RecordInv
    <3> QED
      BY <1>8, <2>1, <2>4, <3>1 DEF RecordInv
  <2> QED
    BY <1>8, <2>3, <2>4
<1>9. ASSUME NEW r \in Runners, UNCHANGED <<doors, server>> PROVE RecordInv'
  BY <1>8, <1>9 DEF doors, memory, server
<1>10. CASE ServerGone
  BY <1>1, <1>8, <1>10 DEF ServerGone, ServerDies, CutCalls, memory
<1>11. CASE UNCHANGED vars
  BY <1>8, <1>11 DEF vars, doors, memory
<1> QED
  BY <1>3, <1>4, <1>5, <1>6, <1>7, <1>9, <1>10, <1>11, StepCases

--------------------------------------------------------------------------------
(* Patches.                                                                 *)

\* Whose status is, or is about to be, "applied" was written; a file that was written
\* has the contents of a patch of its own that was; what is on disk was written by a
\* call of apply_patch.
PatchInv ==
  /\ \A p \in Patches : status[p] = "applied" => p \in written
  /\ \A c \in Requests : Mcp(c) /\ at[c] = <<"apply", "status">> => Target(c) \in written
  /\ \A p \in written : onDisk[FileOf[p]] \in {q \in written : FileOf[q] = FileOf[p]}
  /\ \A f \in Files : onDisk[f] # Original =>
       \E c \in Requests : Mcp(c) /\ ask[c].kind = "apply_patch" /\ Target(c) = onDisk[f]

LEMMA PatchStep ==
  ASSUME DoorTypeOK, ServerTypeOK, QaTypeOK, KindInv, PatchInv, [Next]_vars
  PROVE  PatchInv'
<1>1. UNCHANGED ask
  BY AsksStay
\* Nobody else comes to the update of a status.
<1>2. ASSUME UNCHANGED patching, NEW c \in Requests,
             Mcp(c) => at'[c] # <<"apply", "status">> \/ at[c] = <<"apply", "status">>,
             \A d \in Requests \ {c} : at'[d] = at[d]
      PROVE  PatchInv'
  BY <1>1, <1>2 DEF PatchInv, patching, Mcp, Target
<1>3. ASSUME NEW c \in Requests, UNCHANGED patching, NEW part, NEW act,
             Goto(c, part, act) \/ Then(c, part, act) \/ Throw(c),
             <<part, act>> # <<"apply", "status">>
      PROVE  PatchInv'
  <2>1. CASE Goto(c, part, act)
    BY <1>2, <1>3, <2>1, Elsewhere
  <2>2. CASE Throw(c)
    BY <1>2, <1>3, <2>2, Thrown
  <2> QED
    BY <1>3, <2>1, <2>2 DEF Then
<1>4. ASSUME NEW c \in Requests, Enter(c), UNCHANGED server PROVE PatchInv'
  <2>1. \E part \in {"over", "door", "audit"}, act \in {"invalid", "select"} : Goto(c, part, act)
    BY <1>4 DEF Enter
  <2> QED
    BY <1>3, <1>4, <2>1 DEF server
<1>5. ASSUME NEW c \in Requests, Lookup(c), UNCHANGED server PROVE PatchInv'
  <2>1. PICK part \in {"door", "audit", "error"}, task \in Tasks, next \in Spots :
          Uses(c, part, task, next) /\ UpsertSession(c, part, task, next)
    BY <1>5 DEF Lookup
  <2>2. Goto(c, part, "upsert") \/ Throw(c) \/ Then(c, next[1], next[2])
    BY <2>1 DEF UpsertSession, SelectSession, TouchSession, InsertSession
  <2>3. <<next[1], next[2]>> # <<"apply", "status">>
    <3>1. FirstOfTool(c) \in {<<"apply", "read">>, <<"agent", "run">>, <<"door", "select">>}
      BY DEF FirstOfTool
    <3> QED
      BY <2>1, <3>1 DEF Uses, FirstOfDispatch
  <2> QED
    BY <1>3, <1>5, <2>2, <2>3 DEF server
<1>6. ASSUME NEW c \in Requests, OfBoth(c), UNCHANGED server PROVE PatchInv'
  BY <1>3, <1>6 DEF OfBoth, FindSource, CreateJob, StatementFails, server
<1>7. ASSUME NEW c \in Requests, OfWeb(c), UNCHANGED server PROVE PatchInv'
  <2>1. CASE RunAfter(c)
    BY <1>2, <1>7, <2>1 DEF RunAfter, server
  <2> QED
    BY <1>3, <1>7, <2>1 DEF OfWeb, SendEvent, Link, FunctionDies, server
<1>8. ASSUME NEW c \in Requests, OfServer(c) PROVE PatchInv'
  <2>1. CASE RecordSuccess(c) \/ RecordError(c) \/ StartDirect(c) \/ RunAgent(c) \/ ReadPatch(c)
    BY <1>3, <2>1 DEF RecordSuccess, RecordError, StartDirect, RunAgent, ReadPatch
  <2>2. CASE WritePatch(c)
    <3>1. Mcp(c) /\ at[c][1] = "apply" /\ at[c][2] = "write"
      BY <2>2 DEF WritePatch
    <3>2. Target(c) \in Patches /\ ask[c].kind = "apply_patch"
      BY <3>1 DEF KindInv, Fits
    <3>3. /\ onDisk' = [onDisk EXCEPT ![FileOf[Target(c)]] = Target(c)] /\ UNCHANGED status
          /\ written' = written \cup {Target(c)}
          /\ Target(c) # Original /\ FileOf[Target(c)] \in Files
      BY <2>2, <3>2, ServerAssumption DEF WritePatch, Overwrite, Files
    <3>4. /\ onDisk'[FileOf[Target(c)]] = Target(c)
          /\ \A f \in Files : f # FileOf[Target(c)] => onDisk'[f] = onDisk[f]
      BY <3>3 DEF ServerTypeOK
    <3>5. \A d \in Requests \ {c} : at'[d] = at[d]
      BY <2>2, Elsewhere, Thrown DEF WritePatch, Then
    <3>6. written \subseteq Patches /\ \A p \in Patches : FileOf[p] \in Files
      BY DEF Files, ServerTypeOK
    <3>7. ASSUME NEW d \in Requests, Mcp(d), at'[d] = <<"apply", "status">>
          PROVE  Target(d) \in written'
      BY <3>3, <3>5, <3>7 DEF PatchInv
    <3>8. ASSUME NEW f \in Files, onDisk'[f] # Original
          PROVE  \E d \in Requests :
                   Mcp(d) /\ ask[d].kind = "apply_patch" /\ Target(d) = onDisk'[f]
      BY <3>1, <3>2, <3>4, <3>8 DEF PatchInv
    <3>9. ASSUME NEW p \in written'
          PROVE  onDisk'[FileOf[p]] \in {q \in written' : FileOf[q] = FileOf[p]}
      <4>1. CASE FileOf[p] = FileOf[Target(c)]
        BY <3>3, <3>4, <4>1
      <4>2. CASE FileOf[p] # FileOf[Target(c)]
        <5>1. p \in written /\ FileOf[p] \in Files
          BY <3>3, <3>6, <3>9, <4>2
        <5> QED
          BY <3>3, <3>4, <4>2, <5>1 DEF PatchInv
      <4> QED
        BY <4>1, <4>2
    <3>10. \A p \in Patches : status'[p] = "applied" => p \in written'
      BY <3>3 DEF PatchInv
    <3> QED
      BY <1>1, <3>7, <3>8, <3>9, <3>10 DEF PatchInv, Mcp, Target
  <2>3. CASE UpdateStatus(c)
    <3>1. /\ at[c] = <<"apply", "status">> /\ Mcp(c)
          /\ status' = [status EXCEPT ![Target(c)] = "applied"] /\ UNCHANGED <<onDisk, written>>
          /\ Then(c, "record", "insert")
      BY <2>3 DEF UpdateStatus
    <3>2. /\ at'[c] # <<"apply", "status">>
          /\ \A d \in Requests \ {c} : at'[d] = at[d]
      BY <3>1, Elsewhere, Thrown DEF Then
    <3>3. \A p \in Patches : status'[p] = "applied" => status[p] = "applied" \/ p = Target(c)
      BY <3>1 DEF ServerTypeOK
    <3>4. Target(c) \in written
      BY <3>1 DEF PatchInv
    <3> QED
      BY <1>1, <3>1, <3>2, <3>3, <3>4 DEF PatchInv, Mcp, Target
  <2> QED
    BY <1>8, <2>1, <2>2, <2>3 DEF OfServer
<1>9. ASSUME UNCHANGED patching,
             \A c \in Requests : at'[c] = at[c] \/ at'[c] = <<"over", "cut">>
      PROVE  PatchInv'
  BY <1>1, <1>9 DEF PatchInv, patching, Mcp, Target
<1>10. CASE UNCHANGED <<doors, server>> \/ UNCHANGED vars \/ ServerGone
  BY <1>9, <1>10 DEF vars, doors, server, patching, ServerGone, ServerDies, CutCalls
<1> QED
  BY <1>4, <1>5, <1>6, <1>7, <1>8, <1>10, StepCases

--------------------------------------------------------------------------------
(* Questions.                                                               *)

\* What the question of a job is answered from is what was asked about.
WellAnswered(c) ==
  \E t \in transcripts :
    t[1] = c /\ IF Cached(c) THEN t[2] = source[c] ELSE t[2][1] = c /\ t[2] \in indexed

\* What a runner of a question has behind it.
RunnerInv(r) ==
  ask[r[1]].kind = "qa" =>
    /\ Cached(r[1]) /\ pos[r] > 2 => snapshot[r] = source[r[1]]
    /\ ~Cached(r[1]) /\ pos[r] > 6 => snapshot[r] \in snapshots /\ snapshot[r][1] = r[1]
    /\ ~Cached(r[1]) /\ pos[r] > 9 => snapshot[r] \in indexed
    /\ pos[r] > AskAt(r[1]) => WellAnswered(r[1])

QaInv ==
  /\ \A r \in Runners :
       /\ pos[r] # 1 => r \in running
       /\ pos[r] <= Len(Statements(r)) + 1
       /\ RunnerInv(r)
  /\ \A c \in Requests : source[c] \in snapshots \cup {NoSource}
  /\ \A r \in Runners : snapshot[r] \in snapshots \cup {NoSource}
  /\ indexed \subseteq snapshots
  /\ \A c \in Requests : jobState[c] = "done" => c \in jobs /\ WellAnswered(c)

\* The statements that a runner has something to show for.
LEMMA StatementAt ==
  ASSUME NEW r \in Runners, ask[r[1]].kind = "qa"
  PROVE  /\ Cached(r[1]) => Statements(r)[2] = "find" /\ Statements(r)[5] = "ask"
         /\ ~Cached(r[1]) => /\ Statements(r)[6] = "snapshot" /\ Statements(r)[9] = "walk"
                             /\ Statements(r)[13] = "ask"
<1> USE DEF Statements, Resolve, Answer, Finalize
<1>1. CASE Cached(r[1])
  BY <1>1
<1>2. CASE ~Cached(r[1])
  BY <1>2
<1> QED
  BY <1>1, <1>2

\* Rows stay.
QaLasting ==
  /\ transcripts \subseteq transcripts' /\ indexed \subseteq indexed'
  /\ snapshots \subseteq snapshots'

LEMMA AnswersLast ==
  ASSUME DoorTypeOK, QaTypeOK, UNCHANGED ask, QaLasting, NEW c \in Requests,
         source'[c] = source[c], WellAnswered(c)
  PROVE  WellAnswered(c)'
BY DEF WellAnswered, QaLasting, Cached

\* A runner whose snapshot stays, at a place that is not beyond what it has done.
LEMMA RunnerBehind ==
  ASSUME DoorTypeOK, QaTypeOK, UNCHANGED ask, QaLasting, NEW r \in Runners, RunnerInv(r),
         source'[r[1]] = source[r[1]], snapshot'[r] = snapshot[r], pos'[r] \in Nat,
         \/ pos'[r] <= pos[r]
         \/ /\ pos'[r] = pos[r] + 1
            /\ Statements(r)[pos[r]] \notin {"find", "snapshot", "walk", "ask"}
  PROVE  RunnerInv(r)'
<1> USE DEF QaLasting, Runners
<1>1. r[1] \in Requests /\ pos[r] \in Nat
  BY DEF QaTypeOK
<1>2. CASE pos'[r] <= pos[r]
  <2>1. AskAt(r[1])' = AskAt(r[1]) /\ AskAt(r[1]) \in {5, 13} /\ (Cached(r[1])' <=> Cached(r[1]))
    BY DEF AskAt, Cached
  <2>2. WellAnswered(r[1]) => WellAnswered(r[1])'
    BY <1>1, AnswersLast
  <2> QED
    BY <1>1, <1>2, <2>1, <2>2 DEF RunnerInv
<1>3. CASE /\ pos'[r] = pos[r] + 1
           /\ Statements(r)[pos[r]] \notin {"find", "snapshot", "walk", "ask"}
           /\ ask[r[1]].kind = "qa"
  <2>1. AskAt(r[1])' = AskAt(r[1]) /\ (Cached(r[1])' <=> Cached(r[1]))
    BY DEF AskAt, Cached
  <2>2. WellAnswered(r[1]) => WellAnswered(r[1])'
    BY <1>1, AnswersLast
  <2>3. CASE Cached(r[1])
    <3>1. pos[r] # 2 /\ pos[r] # 5 /\ AskAt(r[1]) = 5
      BY <1>3, <2>3, StatementAt DEF AskAt
    <3> QED
      BY <1>1, <1>3, <2>1, <2>2, <2>3, <3>1 DEF RunnerInv
  <2>4. CASE ~Cached(r[1])
    <3>1. pos[r] # 6 /\ pos[r] # 9 /\ pos[r] # 13 /\ AskAt(r[1]) = 13
      BY <1>3, <2>4, StatementAt DEF AskAt
    <3> QED
      BY <1>1, <1>3, <2>1, <2>2, <2>4, <3>1 DEF RunnerInv
  <2> QED
    BY <2>3, <2>4
<1> QED
  BY <1>2, <1>3 DEF RunnerInv

\* A step that moves one runner, when that one and its job are as they should be.
LEMMA QaMove ==
  ASSUME DoorTypeOK, QaTypeOK, JobInv, QaInv, UNCHANGED ask, UNCHANGED <<source, jobs, running>>,
         QaLasting, NEW r \in Runners, Active(r),
         NEW n \in Nat, pos' = [pos EXCEPT ![r] = n], n <= pos[r] + 1,
         \A d \in Runners \ {r} : snapshot'[d] = snapshot[d],
         snapshot'[r] \in snapshots' \cup {NoSource}, indexed' \subseteq snapshots',
         RunnerInv(r)',
         \A c \in Requests \ {r[1]} : jobState'[c] = jobState[c],
         jobState'[r[1]] = "done" => jobState[r[1]] = "done" \/ WellAnswered(r[1])
  PROVE  QaInv'
<1> USE DEF QaLasting
<1>1. r \in running /\ pos[r] \in 1..Len(Statements(r)) /\ Len(Statements(r)) \in Nat
  BY StatementCount DEF Active
<1>2. \A d \in Runners : Statements(d)' = Statements(d)
  BY DEF Statements, Resolve, Answer, Finalize, Cached
<1>3. ASSUME NEW d \in Runners
      PROVE  /\ pos'[d] # 1 => d \in running
             /\ pos'[d] <= Len(Statements(d)) + 1
             /\ RunnerInv(d)'
             /\ snapshot'[d] \in snapshots' \cup {NoSource}
  <2>1. CASE d = r
    BY <1>1, <2>1 DEF QaTypeOK
  <2>2. CASE d # r
    <3>1. pos'[d] = pos[d] /\ pos[d] \in Nat /\ snapshot'[d] = snapshot[d]
      BY <2>2 DEF QaTypeOK
    <3>2. RunnerInv(d)'
      BY <3>1, RunnerBehind DEF QaInv
    <3> QED
      BY <3>1, <3>2 DEF QaInv
  <2> QED
    BY <2>1, <2>2
<1>4. ASSUME NEW c \in Requests, jobState'[c] = "done"
      PROVE  c \in jobs /\ WellAnswered(c)'
  <2>1. r[1] \in jobs
    BY <1>1 DEF JobInv
  <2>2. c \in jobs /\ WellAnswered(c)
    BY <1>4, <2>1 DEF QaInv
  <2> QED
    BY <2>2, AnswersLast
<1>5. \A c \in Requests : source'[c] \in snapshots' \cup {NoSource}
  BY DEF QaInv
<1> QED
  BY <1>2, <1>3, <1>4, <1>5 DEF QaInv

LEMMA QaStep ==
  ASSUME DoorTypeOK, ServerTypeOK, QaTypeOK, JobInv, QaInv, Lasting, [Next]_vars
  PROVE  QaInv'
<1>1. UNCHANGED ask
  BY AsksStay
<1>2. \A d \in Runners : Statements(d)' = Statements(d)
  BY <1>1 DEF Statements, Resolve, Answer, Finalize, Cached
\* A step of a request: a job's source stays what it is.
<1>3. ASSUME UNCHANGED qa, running \subseteq running', jobs \subseteq jobs',
             \A c \in jobs : source'[c] = source[c],
             \A c \in Requests : source'[c] \in snapshots \cup {NoSource}
      PROVE  QaInv'
  <2> USE <1>3 DEF qa
  <2>1. QaLasting
    BY DEF QaLasting
  <2>2. ASSUME NEW d \in Runners
        PROVE  (pos'[d] # 1 => d \in running') /\ RunnerInv(d)'
    <3>1. CASE d \in running
      <4>1. source'[d[1]] = source[d[1]]
        BY <3>1 DEF JobInv
      <4> QED
        BY <1>1, <2>1, <3>1, <4>1, RunnerBehind DEF QaInv, QaTypeOK
    <3>2. CASE d \notin running
      <4>1. pos[d] = 1
        BY <3>2 DEF QaInv
      <4> QED
        BY <1>1, <4>1 DEF RunnerInv, AskAt, Cached
    <3> QED
      BY <3>1, <3>2
  <2>3. ASSUME NEW c \in Requests, jobState'[c] = "done" PROVE c \in jobs' /\ WellAnswered(c)'
    <3>1. c \in jobs /\ WellAnswered(c)
      BY <2>3 DEF QaInv
    <3> QED
      BY <1>1, <2>1, <3>1, AnswersLast
  <2> QED
    BY <1>2, <2>2, <2>3 DEF QaInv
<1>4. ASSUME NEW c \in Requests, Enter(c), UNCHANGED qa PROVE QaInv'
  <2>0. at[c][1] = "arrive"
    BY <1>4 DEF Enter
  <2>1. /\ c \notin jobs /\ UNCHANGED <<jobs, running>>
        /\ \A d \in Requests \ {c} : source'[d] = source[d]
        /\ source'[c] = source[c] \/ source'[c] \in snapshots \cup {NoSource}
    <3>1. \/ UNCHANGED source
          \/ \E s \in snapshots \cup {NoSource} : source' = [source EXCEPT ![c] = s]
      BY <1>4 DEF Enter
    <3>2. c \notin jobs
      BY <2>0 DEF JobInv
    <3> QED
      BY <1>4, <3>1, <3>2 DEF Enter, tables, starting, DoorTypeOK
  <2>2. \A d \in jobs : source'[d] = source[d]
    BY <2>1 DEF DoorTypeOK
  <2> QED
    BY <1>3, <1>4, <2>1, <2>2 DEF QaInv
<1>5. ASSUME UNCHANGED qa, UNCHANGED source, running \subseteq running', jobs \subseteq jobs'
      PROVE  QaInv'
  BY <1>3, <1>5 DEF QaInv
<1>6. ASSUME NEW c \in Requests, Lookup(c) \/ OfBoth(c) \/ OfWeb(c) \/ OfServer(c), UNCHANGED qa
      PROVE  QaInv'
  <2>1. Lookup(c) => UNCHANGED source /\ jobs \subseteq jobs'
    BY DEF Lookup, UpsertSession, SelectSession, TouchSession, InsertSession, request, tables
  <2>2. OfBoth(c) => UNCHANGED source /\ jobs \subseteq jobs'
    BY DEF OfBoth, FindSource, CreateJob, StatementFails, request, tables
  <2>3. OfWeb(c) => UNCHANGED source /\ jobs \subseteq jobs'
    BY DEF OfWeb, SendEvent, Link, RunAfter, FunctionDies, request, tables
  <2>4. OfServer(c) => UNCHANGED source /\ jobs \subseteq jobs'
    BY DEF OfServer, RecordSuccess, RecordError, StartDirect, RunAgent, ReadPatch, WritePatch,
       UpdateStatus, request, tables
  <2> QED
    BY <1>5, <1>6, <2>1, <2>2, <2>3, <2>4 DEF Lasting
<1>7. ASSUME NEW r \in Runners, RunnerMoves(r), UNCHANGED <<doors, server>> PROVE QaInv'
  <2> USE DEF Runners
  <2>1. UNCHANGED <<ask, source, jobs, running>> /\ r[1] \in Requests
    BY <1>1, <1>7 DEF doors, request, tables, starting
  <2>2. PICK n \in Nat : /\ pos' = [pos EXCEPT ![r] = n]
                         /\ n <= pos[r] \/ (n = pos[r] + 1 /\ Goes(r))
    BY <1>7, RunnerPlaces
  <2>3. Active(r) /\ pos[r] \in Nat /\ n <= pos[r] + 1 /\ pos'[r] = n
    BY <1>7, <2>2, RunnerPlaces DEF QaTypeOK
  <2>4. QaLasting
    BY <1>7 DEF RunnerMoves, RunnerStep, RunnerFails, Start, UpdateState, MarkCompleted,
       FindSnapshot, Wipe, Copy, CheckOut, TakeSnapshot, Walk, Parse, AskQuestion, Audit,
       RunOther, QaLasting
  <2>5. ASSUME NEW statement, Doing(r, statement)
        PROVE  pos[r] \in DOMAIN Statements(r) /\ Statements(r)[pos[r]] = statement
    BY <2>5 DEF Doing, Active
  <2>16. ASSUME pos[r] \in DOMAIN Statements(r), Fails(r) PROVE n <= pos[r]
    <3>1. PICK m \in 0..pos[r] : pos' = [pos EXCEPT ![r] = m]
      BY <2>16, FailsBack
    <3>2. pos'[r] = m
      BY <3>1 DEF QaTypeOK
    <3> QED
      BY <2>3, <3>1, <3>2
  \* The states, the audit, the completion, a failure: nothing new to show for.
  <2>6. ASSUME UNCHANGED <<snapshot, snapshots, indexed>>,
               n <= pos[r] \/ Statements(r)[pos[r]] \notin {"find", "snapshot", "walk", "ask"},
               \A c \in Requests \ {r[1]} : jobState'[c] = jobState[c],
               jobState'[r[1]] = "done" => jobState[r[1]] = "done" \/ WellAnswered(r[1])
        PROVE  QaInv'
    <3>1. RunnerInv(r)'
      BY <2>1, <2>2, <2>3, <2>4, <2>6, RunnerBehind DEF QaInv
    <3> QED
      BY <2>1, <2>2, <2>3, <2>4, <2>6, <3>1, QaMove DEF QaInv
  <2>7. CASE UpdateState(r)
    <3>1. PICK s \in JobStates : Doing(r, s) /\ jobState' = [jobState EXCEPT ![r[1]] = s]
      BY <2>7 DEF UpdateState
    <3>2. jobState'[r[1]] = s /\ \A c \in Requests \ {r[1]} : jobState'[c] = jobState[c]
      BY <2>1, <3>1 DEF QaTypeOK
    <3> QED
      BY <2>5, <2>6, <2>7, <3>1, <3>2 DEF UpdateState, JobStates
  <2>8. CASE MarkCompleted(r)
    <3>1. pos[r] \in DOMAIN Statements(r) /\ Statements(r)[pos[r]] = "complete"
      BY <2>5, <2>8 DEF MarkCompleted
    <3>2. WellAnswered(r[1])
      <4>1. ask[r[1]].kind = "qa"
        BY <3>1, OtherStatement
      <4>2. pos[r] > AskAt(r[1])
        BY <3>1, <4>1, StatementOrder
      <4> QED
        BY <4>1, <4>2 DEF QaInv, RunnerInv
    <3>3. \A c \in Requests \ {r[1]} : jobState'[c] = jobState[c]
      BY <2>8 DEF MarkCompleted, QaTypeOK
    <3> QED
      BY <2>6, <2>8, <3>1, <3>2, <3>3 DEF MarkCompleted
  <2>9. CASE FindSnapshot(r)
    <3>1. pos[r] \in DOMAIN Statements(r) /\ Statements(r)[pos[r]] = "find"
      BY <2>5, <2>9 DEF FindSnapshot
    <3>2. ask[r[1]].kind = "qa"
      BY <3>1, OtherStatement
    <3>3. pos[r] = 2 /\ Cached(r[1])
      BY <3>1, <3>2, StatementOrder
    <3>4. snapshot'[r] = source[r[1]] /\ \A d \in Runners \ {r} : snapshot'[d] = snapshot[d]
      BY <2>9 DEF FindSnapshot, QaTypeOK
    <3>5. RunnerInv(r)'
      BY <2>1, <2>3, <3>3, <3>4 DEF RunnerInv, AskAt, Cached
    <3> QED
      BY <2>1, <2>2, <2>3, <2>4, <2>9, <3>4, <3>5, QaMove DEF FindSnapshot, QaInv
  <2>10. CASE TakeSnapshot(r)
    <3>1. pos[r] \in DOMAIN Statements(r) /\ Statements(r)[pos[r]] = "snapshot"
      BY <2>5, <2>10 DEF TakeSnapshot
    <3>2. ask[r[1]].kind = "qa"
      BY <3>1, OtherStatement
    <3>3. pos[r] = 6 /\ ~Cached(r[1])
      BY <3>1, <3>2, StatementOrder
    <3>4. CASE Fails(r) /\ UNCHANGED <<snapshots, snapshot>>
      <4>1. n <= pos[r]
        BY <2>16, <3>1, <3>4
      <4> QED
        BY <2>6, <2>10, <3>4, <4>1 DEF TakeSnapshot
    <3>5. CASE /\ snapshots' = snapshots \cup {NewSnapshot(r)}
               /\ snapshot' = [snapshot EXCEPT ![r] = NewSnapshot(r)]
      <4>1. /\ snapshot'[r] = NewSnapshot(r)
            /\ \A d \in Runners \ {r} : snapshot'[d] = snapshot[d]
            /\ UNCHANGED <<indexed, jobState>>
        BY <2>10, <3>5 DEF TakeSnapshot, QaTypeOK
      <4>2. NewSnapshot(r)[1] = r[1]
        BY DEF NewSnapshot
      <4>3. RunnerInv(r)'
        BY <2>1, <2>3, <3>3, <3>5, <4>1, <4>2 DEF RunnerInv, AskAt, Cached
      <4>4. /\ indexed' \subseteq snapshots' /\ snapshot'[r] \in snapshots'
            /\ \A c \in Requests : jobState'[c] = jobState[c]
        BY <3>5, <4>1 DEF QaInv
      <4> QED
        BY <2>1, <2>2, <2>3, <2>4, <4>1, <4>3, <4>4, QaMove
    <3> QED
      BY <2>10, <3>4, <3>5 DEF TakeSnapshot
  <2>11. CASE Walk(r)
    <3>1. pos[r] \in DOMAIN Statements(r) /\ Statements(r)[pos[r]] = "walk"
      BY <2>5, <2>11 DEF Walk
    <3>2. ask[r[1]].kind = "qa"
      BY <3>1, OtherStatement
    <3>3. pos[r] = 9 /\ ~Cached(r[1])
      BY <3>1, <3>2, StatementOrder
    <3>4. UNCHANGED <<snapshot, snapshots, jobState>>
      BY <2>11 DEF Walk
    <3>5. CASE Fails(r) /\ UNCHANGED indexed
      <4>1. n <= pos[r]
        BY <2>16, <3>1, <3>5
      <4> QED
        BY <2>6, <3>4, <3>5, <4>1
    <3>6. CASE indexed' = indexed \cup {snapshot[r]}
      <4>1. snapshot[r] \in snapshots /\ snapshot[r][1] = r[1]
        BY <3>2, <3>3 DEF QaInv, RunnerInv
      <4>2. RunnerInv(r)'
        BY <2>1, <2>3, <3>3, <3>4, <3>6, <4>1 DEF RunnerInv, AskAt, Cached
      <4>3. indexed' \subseteq snapshots'
        BY <3>4, <3>6, <4>1 DEF QaInv
      <4> QED
        BY <2>1, <2>2, <2>3, <2>4, <3>4, <4>2, <4>3, QaMove DEF QaInv
    <3> QED
      BY <2>11, <3>5, <3>6 DEF Walk
  <2>12. CASE AskQuestion(r)
    <3>1. pos[r] \in DOMAIN Statements(r) /\ Statements(r)[pos[r]] = "ask"
      BY <2>5, <2>12 DEF AskQuestion
    <3>2. ask[r[1]].kind = "qa"
      BY <3>1, OtherStatement
    <3>3. pos[r] = AskAt(r[1])
      BY <3>1, <3>2, StatementOrder
    <3>4. /\ transcripts' = transcripts \cup {<<r[1], snapshot[r]>>}
          /\ UNCHANGED <<snapshot, snapshots, indexed, jobState>>
      BY <2>12 DEF AskQuestion
    <3>5. WellAnswered(r[1])'
      <4>1. IF Cached(r[1]) THEN snapshot[r] = source[r[1]]
            ELSE snapshot[r][1] = r[1] /\ snapshot[r] \in indexed
        BY <3>2, <3>3 DEF QaInv, RunnerInv, AskAt
      <4>2. /\ <<r[1], snapshot[r]>> \in transcripts'
            /\ <<r[1], snapshot[r]>>[1] = r[1] /\ <<r[1], snapshot[r]>>[2] = snapshot[r]
        BY <3>4
      <4> QED
        BY <2>1, <3>4, <4>1, <4>2 DEF WellAnswered, Cached
    <3>6. RunnerInv(r)'
      <4>1. RunnerInv(r)
        BY DEF QaInv
      <4>2. AskAt(r[1]) \in {5, 13} /\ (Cached(r[1]) <=> AskAt(r[1]) = 5)
        BY DEF AskAt
      <4>3. AskAt(r[1])' = AskAt(r[1]) /\ (Cached(r[1])' <=> Cached(r[1]))
        BY <2>1 DEF AskAt, Cached
      <4> QED
        BY <2>1, <2>3, <3>2, <3>3, <3>4, <3>5, <4>1, <4>2, <4>3 DEF RunnerInv
    <3> QED
      BY <2>1, <2>2, <2>3, <2>4, <3>4, <3>6, QaMove DEF QaInv
  <2>13. CASE Start(r) \/ Wipe(r) \/ Copy(r) \/ Audit(r)
    <3>1. /\ UNCHANGED <<snapshot, snapshots, indexed, jobState>>
          /\ Doing(r, "started") \/ Doing(r, "wipe") \/ Doing(r, "copy") \/ Doing(r, "audit")
      BY <2>13 DEF Start, Wipe, Copy, Audit
    <3>2. Statements(r)[pos[r]] \in {"started", "wipe", "copy", "audit"}
      BY <2>5, <3>1
    <3>3. Statements(r)[pos[r]] \notin {"find", "snapshot", "walk", "ask"}
      BY <3>2
    <3>4. \A c \in Requests : jobState'[c] = jobState[c]
      BY <3>1
    <3> QED
      BY <2>1, <2>6, <3>1, <3>3, <3>4
  <2>17. CASE CheckOut(r) \/ Parse(r)
    <3>1. /\ UNCHANGED <<snapshot, snapshots, indexed, jobState>>
          /\ Doing(r, "checkout") \/ Doing(r, "parse")
      BY <2>17 DEF CheckOut, Parse
    <3>2. Statements(r)[pos[r]] \in {"checkout", "parse"}
      BY <2>5, <3>1
    <3>3. Statements(r)[pos[r]] \notin {"find", "snapshot", "walk", "ask"}
      BY <3>2
    <3>4. \A c \in Requests : jobState'[c] = jobState[c]
      BY <3>1
    <3> QED
      BY <2>1, <2>6, <3>1, <3>3, <3>4
  <2>14. CASE RunOther(r)
    BY <2>5, <2>6, <2>14 DEF RunOther
  <2>15. CASE RunnerFails(r)
    <3>1. n <= pos[r]
      BY <2>3, <2>15, <2>16 DEF RunnerFails, Active
    <3> QED
      BY <2>6, <2>15, <3>1 DEF RunnerFails
  <2> QED
    BY <1>7, <2>7, <2>8, <2>9, <2>10, <2>11, <2>12, <2>13, <2>14, <2>15, <2>17
    DEF RunnerMoves, RunnerStep
<1>8. CASE ServerGone
  <2>1. /\ UNCHANGED <<source, jobs, running, snapshot, snapshots, indexed, transcripts, jobState>>
        /\ \A d \in Runners : pos'[d] = pos[d] \/ (pos'[d] = 0 /\ d \in running)
    BY <1>8 DEF ServerGone, ServerDies, request, tables, starting, Failed, Active
  <2>2. QaLasting
    BY <2>1 DEF QaLasting
  <2>3. ASSUME NEW d \in Runners
        PROVE  (pos'[d] # 1 => d \in running) /\ pos'[d] <= Len(Statements(d)) + 1 /\ RunnerInv(d)'
    <3>1. /\ pos'[d] <= pos[d] /\ pos'[d] \in Nat /\ pos[d] \in Nat
          /\ Len(Statements(d)) \in Nat
      <4>1. pos[d] \in Nat /\ (pos'[d] = pos[d] \/ pos'[d] = 0)
        BY <2>1 DEF QaTypeOK
      <4> QED
        BY <4>1, StatementCount
    <3>2. RunnerInv(d)'
      BY <1>1, <2>1, <2>2, <3>1, RunnerBehind DEF QaInv
    <3> QED
      BY <2>1, <3>1, <3>2 DEF QaInv
  <2>4. ASSUME NEW c \in Requests, jobState'[c] = "done" PROVE c \in jobs' /\ WellAnswered(c)'
    <3>1. c \in jobs /\ WellAnswered(c)
      BY <2>1, <2>4 DEF QaInv
    <3> QED
      BY <1>1, <2>1, <2>2, <3>1, AnswersLast
  <2> QED
    BY <1>2, <2>1, <2>3, <2>4 DEF QaInv
<1>9. CASE UNCHANGED vars
  BY <1>5, <1>9 DEF vars, doors, request, tables, starting
<1> QED
  BY <1>4, <1>6, <1>7, <1>8, <1>9, StepCases

--------------------------------------------------------------------------------
(* Theorems.                                                                *)

IInv ==
  /\ DoorTypeOK /\ ServerTypeOK /\ QaTypeOK
  /\ KindInv /\ SessionInv /\ JobInv /\ RecordInv /\ PatchInv /\ QaInv

LEMMA Initially == Init => IInv
<1> SUFFICES ASSUME Init PROVE IInv
  OBVIOUS
<1> USE DEF Init, IntakeInit, ServerInit, QaInit
<1>1. DoorTypeOK
  <2>1. <<"arrive", "call">> \in Spots
    BY DEF Spots, Places, Acts
  <2> QED
    BY <2>1, IntakeAssumption DEF DoorTypeOK, Ids, Snapshots
<1>2. ServerTypeOK
  BY DEF ServerTypeOK
<1>3. QaTypeOK
  <2>1. HostTypeOK
    <3>1. ASSUME NEW r \in Runners
          PROVE  (CHOOSE h \in HostsOf[r[2]] : TRUE) \in HostsOf[r[2]] /\ HostsOf[r[2]] \subseteq Hosts
      <4>1. HostsOf[r[2]] \in (SUBSET Hosts) \ {{}}
        BY HostsAssumption DEF Runners
      <4>2. PICK h \in HostsOf[r[2]] : TRUE
        BY <4>1
      <4> QED
        BY <4>1, <4>2
    <3> QED
      BY <3>1 DEF HostTypeOK
  <2>2. 1 \in 1..MaxAttempts
    BY IntakeAssumption
  <2>3. pos \in [Runners -> Nat] /\ attempt \in [Runners -> 1..MaxAttempts]
    BY <2>2
  <2>4. /\ snapshot \in [Runners -> Snapshots]
        /\ snapshots \subseteq Snapshots /\ Sources \subseteq snapshots
        /\ indexed \subseteq Snapshots
    BY DEF Snapshots
  <2>5. /\ transcripts \subseteq Requests \X Snapshots
        /\ jobState \in [Requests -> JobStates \cup {"draft", "done"}]
    OBVIOUS
  <2>6. /\ tree \in [Requests \X Hosts -> {"absent", "part", "whole"}]
        /\ robbed \subseteq Runners
    OBVIOUS
  <2> QED
    BY <2>1, <2>3, <2>4, <2>5, <2>6 DEF QaTypeOK
<1>4. \A c \in Requests : at[c] = <<"arrive", "call">> /\ at[c][1] = "arrive"
  OBVIOUS
<1>5. KindInv
  BY <1>4 DEF KindInv, Fits
<1>6. SessionInv
  BY <1>4 DEF SessionInv
<1>7. JobInv
  BY <1>4 DEF JobInv, Started
<1>8. RecordInv
  BY <1>4 DEF RecordInv, Undisturbed
<1>9. PatchInv
  <2>1. \A p \in Patches : FileOf[p] \in Files
    BY DEF Files
  <2> QED
    BY <1>4, <2>1 DEF PatchInv
<1>10. QaInv
  <2>1. ASSUME NEW r \in Runners
        PROVE  pos[r] = 1 /\ pos[r] <= Len(Statements(r)) + 1 /\ RunnerInv(r)
    BY StatementCount DEF RunnerInv, AskAt
  <2> QED
    BY <2>1 DEF QaInv
<1> QED
  BY <1>1, <1>2, <1>3, <1>5, <1>6, <1>7, <1>8, <1>9, <1>10 DEF IInv

LEMMA Inductive == IInv /\ [Next]_vars => IInv'
<1> SUFFICES ASSUME IInv, [Next]_vars PROVE IInv'
  OBVIOUS
<1> USE DEF IInv
<1>1. DoorTypeOK'
  BY DoorTypes
<1>2. ServerTypeOK' /\ QaTypeOK'
  BY ServerTypes, QaTypes
<1>3. KindInv' /\ SessionInv' /\ JobInv' /\ PatchInv'
  BY KindStep, SessionStep, JobStep, PatchStep
<1>4. RecordInv' /\ QaInv'
  BY RecordStep, QaStep, Lasts
<1> QED
  BY <1>1, <1>2, <1>3, <1>4

\* The requests, their sessions and jobs, the calls of the server, the patches and
\* the runners of the questions stay consistent, in every behaviour of both doors.
THEOREM Invariance == Spec => []IInv
BY Initially, Inductive, PTL DEF Spec

\* What the tables, the requests and the runners hold is of its type, and no runner
\* is past its statements.
THEOREM TypeCorrectness == Spec => []TypeOK
<1>1. IInv => TypeOK
  <2> SUFFICES ASSUME IInv PROVE TypeOK
    OBVIOUS
  <2> USE DEF IInv
  <2>1. \A c \in Requests : at[c][1] \in Places
    BY DEF DoorTypeOK, Spots
  <2>2. /\ jobs \subseteq Requests /\ linked \subseteq jobs /\ sent \subseteq jobs
        /\ scheduled \subseteq sent /\ running \subseteq Runners /\ faults \in 0..MaxFaults
    BY DEF DoorTypeOK, JobInv
  <2>3. \A r \in Runners : pos[r] \in 0..(Len(Statements(r)) + 1)
    <3> TAKE r \in Runners
    <3>1. pos[r] \in Nat /\ pos[r] <= Len(Statements(r)) + 1 /\ Len(Statements(r)) \in Nat
      BY StatementCount DEF QaTypeOK, QaInv
    <3> QED
      BY <3>1
  <2>4. /\ attempt \in [Runners -> 1..MaxAttempts] /\ indexed \subseteq snapshots
        /\ \A r \in Runners : host[r] \in HostsOf[r[2]]
        /\ tree \in [Requests \X Hosts -> {"absent", "part", "whole"}]
        /\ robbed \subseteq Runners
    BY DEF QaTypeOK, HostTypeOK, QaInv
  <2>5. \A r \in Runners : snapshot[r] \in snapshots \cup {NoSource}
    BY DEF QaInv
  <2> QED
    BY <2>1, <2>2, <2>3, <2>4, <2>5 DEF TypeOK, ServerTypeOK
<1> QED
  BY <1>1, Invariance, PTL

\* Whoever makes jobs at the same time, the jobs of one bobTaskId share one
\* mcp_sessions row, and the row is there (upsertSession of both doors).
THEOREM SharedSessions == Spec => []SessionsAreShared
<1>1. IInv => SessionsAreShared
  BY DEF IInv, SessionInv, SessionsAreShared
<1> QED
  BY <1>1, Invariance, PTL

\* A browser that is told its job is queued has its web_jobs row, its event and its
\* direct runner; runners have jobs; without a failure every job has a runner.
THEOREM StartedJobs == Spec => []AcceptedJobsAreStarted
<1>1. IInv => AcceptedJobsAreStarted
  <2> SUFFICES ASSUME IInv PROVE AcceptedJobsAreStarted
    OBVIOUS
  <2>1. ASSUME NEW c \in jobs, Over(c), faults = 0 PROVE \E r \in running : r[1] = c
    <3>1. at[c] # <<"dispatch", "start">>
      BY <2>1 DEF Over
    <3>2. <<c, "durable">> \in running \/ <<c, "direct">> \in running
      BY <2>1, <3>1 DEF IInv, JobInv
    <3> QED
      BY <3>2
  <2> QED
    BY <2>1 DEF IInv, JobInv, Started, AcceptedJobsAreStarted
<1> QED
  BY <1>1, Invariance, PTL

\* What tool_invocations says of a call is so: withAudit's row of a success is there
\* before the host has its answer, and stands for work that was done.
THEOREM TruthfulRecords == Spec => []RecordsTellTheTruth
<1>1. IInv => RecordsTellTheTruth
  <2> SUFFICES ASSUME IInv, NEW c \in Requests, Mcp(c)
               PROVE  /\ at[c] = <<"over", "answered">> =>
                           <<c, "ok">> \in invocations /\ <<c, "error">> \notin invocations
                      /\ <<c, "ok">> \in invocations => Worked(c)
                      /\ at[c] = <<"over", "threw">> /\ faults = 0 => <<c, "error">> \in invocations
    BY DEF RecordsTellTheTruth, Worked
  <2> QED
    BY DEF IInv, RecordInv, Undisturbed
<1> QED
  BY <1>1, Invariance, PTL

\* A patch whose status is "applied" was itself written to its file, which holds it
\* or another patch of the file that was written; and what is on disk without that
\* status belongs to a call of apply_patch that was not answered.
THEOREM PatchesOnDisk == Spec => []AppliedPatchesAreOnDisk
<1>1. IInv => AppliedPatchesAreOnDisk
  <2> SUFFICES ASSUME IInv PROVE AppliedPatchesAreOnDisk
    OBVIOUS
  <2>1. ASSUME NEW f \in Files, onDisk[f] # Original, status[onDisk[f]] # "applied"
        PROVE  \E c \in Requests : /\ ask[c].kind = "apply_patch" /\ Target(c) = onDisk[f]
                                   /\ at[c] # <<"over", "answered">>
    <3>1. PICK c \in Requests : Mcp(c) /\ ask[c].kind = "apply_patch" /\ Target(c) = onDisk[f]
      BY <2>1 DEF IInv, PatchInv
    <3>2. at[c] # <<"over", "answered">>
      BY <2>1, <3>1 DEF IInv, RecordInv, Worked
    <3> QED
      BY <3>1, <3>2
  <2> QED
    BY <2>1 DEF IInv, PatchInv, AppliedPatchesAreOnDisk
<1> QED
  BY <1>1, Invariance, PTL

\* A job of a question that is done has a transcript, of the snapshot that was asked
\* about or of one that was cloned for it and indexed, whichever runner did it and
\* however often its steps were run again.
THEOREM AnsweredJobs == Spec => []DoneMeansAnswered
<1>1. IInv => DoneMeansAnswered
  BY DEF IInv, QaInv, JobInv, DoorTypeOK, WellAnswered, DoneMeansAnswered
<1> QED
  BY <1>1, Invariance, PTL

================================================================================
