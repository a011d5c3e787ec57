---------------------------- MODULE LlmAgentsProofs -----------------------------
(***************************************************************************)
(* Theorems about LlmAgents: any number of calls of agents at once, any     *)
(* inputs, any budget of replies, attempts and failures.                    *)
(***************************************************************************)
EXTENDS LlmAgents, WellFoundedInduction, TLAPS

--------------------------------------------------------------------------------
(* What a step does to the loop and the router of its call.                 *)

\* The call moves on, and asks watsonx only with a token that has time left.
Moves(c, s) ==
  /\ s \in Stops \ {"token"}
  /\ Goto(c, s)
  /\ at[c] \notin {"token", "returned", "failed"}
  /\ at[c] = "ask" => s = "reply" /\ (SelectAdapter(large[c]) = "watsonx" => token.expiresAt > now)
  /\ UNCHANGED <<attempt, retries, large, asked>>

\* What there is besides the router's own steps for a token and the time.
Acts(c) ==
  \/ Throw(c)
  \/ \E s \in Stops : Moves(c, s)
  \/ StartAsking(c) /\ UNCHANGED <<attempt, asked>>
  \/ AskAgain(c) /\ UNCHANGED <<attempt, asked>>

Counted == faults' = faults \/ (faults < MaxFaults /\ faults' = faults + 1)

LEMMA LoopCases ==
  ASSUME [Next]_vars
  PROVE  \/ \E c \in Calls : Acts(c) /\ Counted /\ ~Ended(c) /\ UNCHANGED process
         \/ \E c \in Calls : AskWatsonx(c)
         \/ \E c \in Calls : TokenArrives(c)
         \/ SetMcpServer
         \/ Tick
         \/ UNCHANGED <<process, loop>>
<1> DEFINE Goal == \E c \in Calls : Acts(c) /\ Counted /\ ~Ended(c) /\ UNCHANGED process
<1> USE DEF Counted, process, Ended
<1>1. ASSUME NEW c \in Calls, Route(c)
      PROVE  Goal \/ AskWatsonx(c) \/ TokenArrives(c)
  <2>1. CASE AskNobody(c)
    BY <2>1 DEF AskNobody, Asks, Acts
  <2>2. CASE AskHost(c)
    BY <2>2 DEF AskHost, Asks, Acts, Moves, Stops
  <2>3. CASE AskModel(c)
    BY <2>3 DEF AskModel, Asks, Acts, Moves, Stops
  <2> QED
    BY <1>1, <2>1, <2>2, <2>3 DEF Route
<1>2. ASSUME NEW c \in Calls, CartographerStep(c) PROVE Goal
  <2>1. CASE RefuseQa(c)
    BY <2>1 DEF RefuseQa, Acts
  <2>2. CASE LookupHit(c)
    BY <2>2 DEF LookupHit, Acts, Moves, Stops
  <2>3. CASE FindRules(c)
    BY <2>3 DEF FindRules, Acts, Moves, Stops
  <2>4. CASE ResolvePack(c)
    BY <2>4 DEF ResolvePack, Acts, Moves, Stops
  <2>5. CASE ElicitRules(c)
    BY <2>5 DEF ElicitRules, Acts
  <2>6. CASE HearRules(c)
    BY <2>6 DEF HearRules, Acts, Moves, Stops
  <2>7. CASE HearNoRules(c)
    BY <2>7 DEF HearNoRules, Acts
  <2>8. CASE Save(c)
    BY <2>8 DEF Save, Acts, Moves, Stops
  <2>9. CASE ReturnPlan(c)
    BY <2>9 DEF ReturnPlan, Acts, Moves, Stops
  <2> QED
    BY <1>2, <2>1, <2>2, <2>3, <2>4, <2>5, <2>6, <2>7, <2>8, <2>9 DEF CartographerStep
<1>3. ASSUME NEW c \in Calls, CodeStep(c) PROVE Goal
  <2> USE DEF Stops
  <2>1. CASE ReadBatch(c)
    BY <2>1 DEF ReadBatch, Acts
  <2>2. CASE HearPatches(c)
    BY <2>2 DEF HearPatches, Acts, Moves
  <2>3. CASE HearNoPatches(c)
    BY <2>3 DEF HearNoPatches, Acts, Moves
  <2>4. ASSUME NEW e, NextPatch(c, e), UNCHANGED <<attempt, asked>>, at[c] \in {"start", "reply"}
        PROVE  Acts(c)
    BY <2>4 DEF NextPatch, Acts, Moves
  <2>5. CASE StartExam(c)
    BY <2>4, <2>5 DEF StartExam
  <2>6. CASE HearTest(c)
    BY <2>4, <2>6 DEF HearTest
  <2>7. CASE HearNoTest(c)
    BY <2>4, <2>7 DEF HearNoTest, Acts
  <2>8. CASE StartQuestion(c)
    BY <2>8 DEF StartQuestion, Acts
  <2>9. CASE HearAnswer(c)
    BY <2>9 DEF HearAnswer, Acts, Moves
  <2>10. CASE HearNoAnswer(c)
    BY <2>10 DEF HearNoAnswer, Acts
  <2> QED
    BY <1>3, <2>1, <2>2, <2>3, <2>5, <2>6, <2>7, <2>8, <2>9, <2>10 DEF CodeStep
<1>4. ASSUME NEW c \in Calls, Fault(c) PROVE Goal
  BY <1>4 DEF Fault, Acts
<1> QED
  BY <1>1, <1>2, <1>3, <1>4 DEF Next, Step, vars

--------------------------------------------------------------------------------
(* Tokens.                                                                  *)

\* The cached token is honoured Margin longer than it is used.
TokenIsKept == token # NoToken => token.expiresAt + Margin <= token.until

\* A request for a token is under way for no longer than IamDelay.
TokensCome ==
  \A c \in Calls : at[c] = "token" => asked[c] <= now /\ now <= asked[c] + IamDelay

RouterInv == RouterTypeOK /\ TokenIsKept /\ TokensCome

LEMMA RouterInit1 == Init => RouterInv
<1> SUFFICES ASSUME Init PROVE RouterInv
  OBVIOUS
<1>1. token \in Token /\ 0 \in 0..MaxTime /\ 1 \in 1..MaxAttempts /\ 0 \in 0..MaxRetries
      /\ 0 \in 0..MaxFaults
  BY RouterAssumption DEF Init, RouterInit, NoToken, Token
<1>2. role \in [Calls -> Roles] /\ configured \subseteq Providers
  BY RouterAssumption DEF Init, RouterInit
<1> QED
  BY <1>1, <1>2
  DEF Init, RouterInit, RouterInv, RouterTypeOK, TokenIsKept, TokensCome, Stops

LEMMA RouterStep ==
  ASSUME RouterInv, [Next]_vars
  PROVE  RouterInv'
<1> USE DEF RouterInv
<1>1. /\ at \in [Calls -> Stops] /\ attempt \in [Calls -> 1..MaxAttempts]
      /\ retries \in [Calls -> 0..MaxRetries] /\ large \in [Calls -> BOOLEAN]
      /\ asked \in [Calls -> 0..MaxTime] /\ now \in 0..MaxTime /\ faults \in 0..MaxFaults
  BY DEF RouterTypeOK
<1>2. ASSUME NEW c \in Calls, Acts(c), Counted, UNCHANGED process
      PROVE  RouterInv'
  <2>1. faults' \in 0..MaxFaults
    BY <1>1, <1>2, RouterAssumption DEF Counted
  <2>2. /\ at' \in [Calls -> Stops]
        /\ at'[c] # "token" /\ \A d \in Calls \ {c} : at'[d] = at[d] /\ asked'[d] = asked[d]
    BY <1>1, <1>2 DEF Acts, Throw, Moves, StartAsking, AskAgain, Goto, Stops
  <2>3. attempt' \in [Calls -> 1..MaxAttempts]
    <3>1. attempt[c] < MaxAttempts => attempt[c] + 1 \in 1..MaxAttempts
      BY <1>1, RouterAssumption
    <3> QED
      BY <1>1, <1>2, <3>1 DEF Acts, Throw, Moves, StartAsking, AskAgain
  <2>4. retries' \in [Calls -> 0..MaxRetries]
    <3>1. retries[c] < MaxRetries => retries[c] + 1 \in 0..MaxRetries
      BY <1>1, RouterAssumption
    <3>2. 0 \in 0..MaxRetries
      BY RouterAssumption
    <3> QED
      BY <1>1, <1>2, <3>1, <3>2 DEF Acts, Throw, Moves, StartAsking, AskAgain
  <2>5. large' \in [Calls -> BOOLEAN]
    <3>1. \A b \in Sizes : b \in BOOLEAN
      BY DEF Sizes
    <3>2. UNCHANGED large \/ \E b \in BOOLEAN : large' = [large EXCEPT ![c] = b]
      <4>1. CASE \E b \in Sizes : large' = [large EXCEPT ![c] = large[c] \/ b]
        <5>1. PICK b \in Sizes : large' = [large EXCEPT ![c] = large[c] \/ b]
          BY <4>1
        <5>2. (large[c] \/ b) \in BOOLEAN
          OBVIOUS
        <5> QED
          BY <5>1, <5>2
      <4> QED
        BY <1>2, <3>1, <4>1 DEF Acts, Throw, Moves, StartAsking, AskAgain
    <3> QED
      BY <1>1, <3>2
  <2>6. asked' \in [Calls -> 0..MaxTime]
    <3>1. 0 \in 0..MaxTime
      BY RouterAssumption
    <3> QED
      BY <1>1, <1>2, <3>1 DEF Acts, Throw, Moves, StartAsking, AskAgain
  <2>7. RouterTypeOK'
    BY <1>2, <2>1, <2>2, <2>3, <2>4, <2>5, <2>6 DEF RouterTypeOK, process
  <2>8. TokenIsKept' /\ TokensCome'
    BY <1>2, <2>2 DEF TokenIsKept, TokensCome, process
  <2> QED
    BY <2>7, <2>8
<1>3. ASSUME NEW c \in Calls, AskWatsonx(c) PROVE RouterInv'
  <2>1. at' \in [Calls -> Stops] /\ asked' \in [Calls -> 0..MaxTime]
    BY <1>1, <1>3 DEF AskWatsonx, Goto, Stops
  <2>2. RouterTypeOK'
    BY <1>3, <2>1 DEF AskWatsonx, RouterTypeOK, process
  <2>3. TokensCome'
    BY <1>1, <1>3, RouterAssumption DEF AskWatsonx, Goto, TokensCome, process
  <2> QED
    BY <1>3, <2>2, <2>3 DEF AskWatsonx, TokenIsKept, process
<1>4. ASSUME NEW c \in Calls, TokenArrives(c) PROVE RouterInv'
  <2>1. PICK made \in asked[c]..now :
          token' = [expiresAt |-> asked[c] + Life - Margin, until |-> made + Life]
    BY <1>4 DEF TokenArrives, ExpiresAt
  <2>2. asked[c] \in 0..MaxTime /\ made \in 0..MaxTime /\ asked[c] <= made
    BY <1>1, <2>1, RouterAssumption
  <2>3. /\ asked[c] + Life - Margin \in 0..(MaxTime + Life)
        /\ made + Life \in 0..(MaxTime + Life)
        /\ asked[c] + Life - Margin + Margin <= made + Life
    BY <2>2, RouterAssumption
  <2>4. token' \in Token /\ TokenIsKept'
    BY <2>1, <2>3 DEF Token, TokenIsKept
  <2>5. /\ at' \in [Calls -> Stops] /\ asked' \in [Calls -> 0..MaxTime]
        /\ at'[c] = "reply" /\ \A d \in Calls \ {c} : at'[d] = at[d] /\ asked'[d] = asked[d]
    BY <1>1, <1>4, RouterAssumption DEF TokenArrives, Goto, Stops
  <2> QED
    BY <1>4, <2>4, <2>5 DEF TokenArrives, RouterTypeOK, TokensCome
<1>5. CASE SetMcpServer
  BY <1>5 DEF SetMcpServer, RouterTypeOK, TokenIsKept, TokensCome, loop
<1>6. CASE Tick
  <2>1. now' \in 0..MaxTime
    BY <1>1, <1>6, RouterAssumption DEF Tick
  <2>2. TokensCome'
    BY <1>1, <1>6, RouterAssumption DEF Tick, TokensCome, loop
  <2> QED
    BY <1>6, <2>1, <2>2 DEF Tick, RouterTypeOK, TokenIsKept, loop
<1>7. CASE UNCHANGED <<process, loop>>
  BY <1>7 DEF RouterTypeOK, TokenIsKept, TokensCome, process, loop
<1> QED
  BY <1>2, <1>3, <1>4, <1>5, <1>6, <1>7, LoopCases

\* A request to watsonx never goes out with a token about to end, whichever of any
\* number of calls that refresh it together has the last word.
THEOREM FreshTokens == Spec => TokensAreFresh
<1> DEFINE Fresh == \A c \in Calls :
       /\ at[c] \in {"ask", "token"} /\ at'[c] = "reply"
       /\ SelectAdapter(large[c]) = "watsonx"
       => now + Margin <= token'.until
<1>1. ASSUME RouterInv, [Next]_vars
      PROVE  [Fresh]_vars
  <2>1. /\ at \in [Calls -> Stops] /\ now \in 0..MaxTime /\ asked \in [Calls -> 0..MaxTime]
        /\ token \in Token
    BY <1>1 DEF RouterInv, RouterTypeOK
  <2> SUFFICES ASSUME NEW c \in Calls, at[c] \in {"ask", "token"}, at'[c] = "reply",
                      SelectAdapter(large[c]) = "watsonx"
               PROVE  now + Margin <= token'.until
    OBVIOUS
  <2>2. token.expiresAt > now => now + Margin <= token.until
    BY <1>1, <2>1, RouterAssumption DEF RouterInv, TokenIsKept, Token, NoToken
  <2>3. ASSUME NEW d \in Calls, Acts(d), UNCHANGED process
        PROVE  now + Margin <= token'.until
    <3>1. d = c
      BY <2>1, <2>3 DEF Acts, Throw, Moves, StartAsking, AskAgain, Goto
    <3>2. \E s \in Stops : Moves(c, s)
      BY <2>1, <2>3, <3>1 DEF Acts, Throw, StartAsking, AskAgain, Goto
    <3> QED
      BY <2>2, <2>3, <3>2 DEF Moves, process
  <2>4. ASSUME NEW d \in Calls, AskWatsonx(d)
        PROVE  now + Margin <= token'.until
    <3>1. d = c /\ token.expiresAt > now
      BY <2>1, <2>4 DEF AskWatsonx, Goto
    <3> QED
      BY <2>2, <2>4, <3>1 DEF AskWatsonx, process
  <2>5. ASSUME NEW d \in Calls, TokenArrives(d)
        PROVE  now + Margin <= token'.until
    <3>1. d = c
      BY <2>1, <2>5 DEF TokenArrives, Goto
    <3>2. PICK made \in asked[c]..now : token'.until = made + Life
      BY <2>5, <3>1 DEF TokenArrives
    <3>3. now <= asked[c] + IamDelay /\ asked[c] <= made
      BY <1>1, <2>5, <3>1, <3>2 DEF RouterInv, TokensCome, TokenArrives
    <3> QED
      BY <2>1, <3>2, <3>3, RouterAssumption
  <2>6. CASE SetMcpServer \/ Tick \/ UNCHANGED <<process, loop>>
    BY <2>6 DEF SetMcpServer, Tick, process, loop
  <2> QED
    BY <1>1, <2>3, <2>4, <2>5, <2>6, LoopCases
<1> QED
  BY <1>1, RouterInit1, RouterStep, PTL DEF Spec, TokensAreFresh
--------------------------------------------------------------------------------
(* Plans.                                                                   *)

\* A step that leaves the plans alone, and ends no planner's call but a saved one.
Aside(c) ==
  /\ UNCHANGED <<planning, role>>
  /\ \E s \in Stops : /\ at' = [at EXCEPT ![c] = s]
                      /\ s \notin {"rules", "save", "saved"}
                      /\ s = "returned" /\ Planner(c) => at[c] = "saved"
  /\ at[c] # "returned"

LEMMA PlanCases ==
  ASSUME [Next]_vars
  PROVE  \/ \E c \in Calls : \/ Aside(c) \/ LookupHit(c) \/ FindRules(c) \/ ResolvePack(c)
                             \/ HearRules(c) \/ Save(c)
         \/ UNCHANGED <<planning, role, at>>
<1> USE DEF process, Stops, Goto
<1>1. ASSUME NEW c \in Calls, Route(c), UNCHANGED planning PROVE Aside(c)
  BY <1>1 DEF Route, AskNobody, AskHost, AskModel, AskWatsonx, TokenArrives, Asks, Throw, Aside
<1>2. ASSUME NEW c \in Calls, Fault(c), UNCHANGED planning PROVE Aside(c)
  BY <1>2 DEF Fault, Throw, Ended, Aside
<1>3. ASSUME NEW c \in Calls, CodeStep(c), UNCHANGED planning PROVE Aside(c)
  <2>1. ASSUME NEW e, NextPatch(c, e), UNCHANGED <<planning, role>>,
               role[c] = "examiner", at[c] # "returned"
        PROVE  Aside(c)
    BY <2>1 DEF NextPatch, StartAsking, Aside, Planner
  <2>2. CASE StartExam(c) \/ HearTest(c)
    BY <1>3, <2>1, <2>2 DEF StartExam, HearTest
  <2>3. CASE HearNoTest(c)
    BY <1>3, <2>1, <2>3 DEF HearNoTest, AskAgain, Aside
  <2>4. CASE ReadBatch(c) \/ HearPatches(c) \/ HearNoPatches(c)
    BY <1>3, <2>4
    DEF ReadBatch, HearPatches, HearNoPatches, StartAsking, AskAgain, Aside, Planner
  <2>5. CASE StartQuestion(c) \/ HearAnswer(c) \/ HearNoAnswer(c)
    BY <1>3, <2>5
    DEF StartQuestion, HearAnswer, HearNoAnswer, StartAsking, AskAgain, Throw, Aside, Planner
  <2> QED
    BY <1>3, <2>2, <2>3, <2>4, <2>5 DEF CodeStep
<1>4. ASSUME NEW c \in Calls,
             RefuseQa(c) \/ ElicitRules(c) \/ HearNoRules(c) \/ ReturnPlan(c)
      PROVE  Aside(c)
  BY <1>4 DEF RefuseQa, ElicitRules, HearNoRules, ReturnPlan, StartAsking, AskAgain, Throw, Aside
<1>5. CASE SetMcpServer /\ UNCHANGED planning
  BY <1>5 DEF SetMcpServer, loop
<1>6. CASE Tick /\ UNCHANGED planning
  BY <1>6 DEF Tick, loop
<1>7. CASE UNCHANGED vars
  BY <1>7 DEF vars, loop
<1> QED
  BY <1>1, <1>2, <1>3, <1>4, <1>5, <1>6, <1>7 DEF Next, Step, CartographerStep

\* What a bundled pack resolves to is the rules of one pack, or nothing.
LEMMA PackRules ==
  ASSUME NEW i, ResolvePackRules(i) # {}
  PROVE  ResolvePackRules(i) \in RuleSets
<1> DEFINE fits(q) == /\ i.agentKind = "migrate"
                      /\ q.ecosystem = i.ecosystem
                      /\ q.fromMajor = ExtractMajorVersion(i.fromVersion)
                      /\ q.toMajor = ExtractMajorVersion(i.toVersion)
                      /\ i.package # <<>> => q.package = i.package
<1>1. PICK p \in BundledPacks : fits(p)
  BY DEF ResolvePackRules
<1>2. \A q \in BundledPacks : fits(q) => q = p
  <2>1. \A q, r \in BundledPacks : q.fromMajor = r.fromMajor => q = r
    BY DEF BundledPacks
  <2> QED
    BY <1>1, <2>1
<1>3. ResolvePackRules(i) = p.rules
  <2>1. {q \in BundledPacks : fits(q)} = {p}
    BY <1>1, <1>2
  <2>2. ResolvePackRules(i) = UNION {q.rules : q \in {q \in BundledPacks : fits(q)}}
    BY DEF ResolvePackRules
  <2> HIDE DEF fits
  <2>3. ResolvePackRules(i) = UNION {q.rules : q \in {p}}
    BY <2>1, <2>2
  <2> QED
    BY <2>3
<1> QED
  BY <1>1, <1>3 DEF RuleSets

\* A planner has rules before it saves, and what it found or saved is stored under
\* its key, where it stays.
PlansAreStored ==
  /\ \A c \in Calls :
       /\ role[c] = "pack" <=> input[c] \in PackInputs
       /\ at[c] \in {"rules", "save", "saved"} => Planner(c)
       /\ at[c] = "save" => plan[c] \in RuleSets
       /\ at[c] = "rules" => Key(c) \in maps
       /\ Planner(c) /\ at[c] \in {"saved", "returned"} =>
            Key(c) \in maps /\ plan[c] = rules[Key(c)]
  /\ \A k \in maps : rules[k] \in RuleSets

PlanInv == PlanTypeOK /\ at \in [Calls -> Stops] /\ PlansAreStored

LEMMA PlanInit1 == Init => PlanInv
<1> SUFFICES ASSUME Init PROVE PlanInv
  OBVIOUS
<1>1. PlanTypeOK
  BY DEF Init, PlanInit, PlanTypeOK
<1>2. at \in [Calls -> Stops] /\ \A c \in Calls : at[c] = "start"
  BY DEF Init, RouterInit, Stops
<1> QED
  BY <1>1, <1>2 DEF Init, PlanInit, PlanInv, PlansAreStored

LEMMA KeyType ==
  ASSUME PlanTypeOK, NEW c \in Calls
  PROVE  Key(c) \in CacheKeys
BY DEF PlanTypeOK, Key, CacheKeys

LEMMA PlanStep ==
  ASSUME PlanInv, [Next]_vars
  PROVE  PlanInv'
<1> USE DEF PlanInv
<1>1. /\ at \in [Calls -> Stops]
      /\ rules \in [CacheKeys -> RuleSets \cup {NoRules}] /\ maps \subseteq CacheKeys
      /\ plan \in [Calls -> RuleSets \cup {NoRules}]
  BY DEF PlanTypeOK
<1>2. ASSUME NEW c \in Calls, Aside(c) PROVE PlanInv'
  <2>1. PICK s \in Stops : /\ at' = [at EXCEPT ![c] = s]
                           /\ s \notin {"rules", "save", "saved"}
                           /\ s = "returned" /\ Planner(c) => at[c] = "saved"
    BY <1>2 DEF Aside
  <2>2. at'[c] = s /\ \A d \in Calls \ {c} : at'[d] = at[d]
    BY <1>1, <2>1
  <2>3. PlanTypeOK' /\ at' \in [Calls -> Stops]
    BY <1>1, <1>2, <2>1 DEF Aside, PlanTypeOK, planning
  <2>4. PlansAreStored'
    BY <1>2, <2>1, <2>2 DEF Aside, PlansAreStored, planning, Planner, Key
  <2> QED
    BY <2>3, <2>4
<1>3. ASSUME NEW c \in Calls, LookupHit(c) PROVE PlanInv'
  <2>1. at'[c] = "rules" /\ \A d \in Calls \ {c} : at'[d] = at[d]
    BY <1>1, <1>3 DEF LookupHit, Goto
  <2>2. PlanTypeOK' /\ at' \in [Calls -> Stops]
    BY <1>1, <1>3 DEF LookupHit, Goto, PlanTypeOK, planning, Stops
  <2>3. PlansAreStored'
    BY <1>3, <2>1 DEF LookupHit, FindMap, PlansAreStored, planning, process, Planner, Key
  <2> QED
    BY <2>2, <2>3
<1>4. ASSUME NEW c \in Calls, FindRules(c) PROVE PlanInv'
  <2>1. /\ at'[c] = "saved" /\ \A d \in Calls \ {c} : at'[d] = at[d] /\ plan'[d] = plan[d]
        /\ plan'[c] = rules[Key(c)]
    BY <1>1, <1>4 DEF FindRules, Goto
  <2>2. PlanTypeOK' /\ at' \in [Calls -> Stops]
    BY <1>1, <1>4, KeyType DEF FindRules, Goto, PlanTypeOK, Stops
  <2>3. PlansAreStored'
    BY <1>4, <2>1 DEF FindRules, PlansAreStored, process, Planner, Key
  <2> QED
    BY <2>2, <2>3
\* Rules are made up of a pack, or heard of a model.
<1>5. ASSUME NEW c \in Calls, NEW r \in RuleSets, Planner(c),
             plan' = [plan EXCEPT ![c] = r], at' = [at EXCEPT ![c] = "save"],
             UNCHANGED <<input, maps, rules, process>>
      PROVE  PlanInv'
  <2>1. /\ at'[c] = "save" /\ \A d \in Calls \ {c} : at'[d] = at[d] /\ plan'[d] = plan[d]
        /\ plan'[c] = r
    BY <1>1, <1>5
  <2>2. PlanTypeOK' /\ at' \in [Calls -> Stops]
    BY <1>1, <1>5 DEF PlanTypeOK, Stops
  <2>3. PlansAreStored'
    BY <1>5, <2>1 DEF PlansAreStored, process, Planner, Key
  <2> QED
    BY <2>2, <2>3
<1>6. ASSUME NEW c \in Calls, Planner(c), Throw(c), UNCHANGED <<planning, process>>,
             at[c] # "returned"
      PROVE  PlanInv'
  <2>1. Aside(c)
    BY <1>6 DEF Throw, Goto, Aside, process, Stops
  <2> QED
    BY <1>2, <2>1
<1>7. ASSUME NEW c \in Calls, ResolvePack(c) PROVE PlanInv'
  <2>1. CASE ResolvePackRules(input[c]) = {}
    BY <1>6, <1>7, <2>1 DEF ResolvePack, Planner, planning
  <2>2. CASE ResolvePackRules(input[c]) # {}
    BY <1>5, <1>7, <2>2, PackRules DEF ResolvePack, Planner, Goto
  <2> QED
    BY <2>1, <2>2
<1>8. ASSUME NEW c \in Calls, HearRules(c) PROVE PlanInv'
  BY <1>5, <1>8 DEF HearRules, Planner, Goto, RuleSets
<1>9. ASSUME NEW c \in Calls, Save(c) PROVE PlanInv'
  <2>1. CASE Key(c) \in maps
    BY <1>6, <1>9, <2>1 DEF Save, Taken, planning, PlansAreStored
  <2>2. CASE Key(c) \notin maps
    <3>1. /\ maps' = maps \cup {Key(c)} /\ rules' = [rules EXCEPT ![Key(c)] = plan[c]]
          /\ at' = [at EXCEPT ![c] = "saved"] /\ UNCHANGED <<input, plan, process>>
          /\ at[c] = "save"
      BY <1>9, <2>2 DEF Save, Taken, Insert, Goto
    <3>2. plan[c] \in RuleSets /\ Key(c) \in CacheKeys /\ Planner(c)
      BY <3>1, KeyType DEF PlansAreStored
    <3>3. /\ at'[c] = "saved" /\ \A d \in Calls \ {c} : at'[d] = at[d]
          /\ rules'[Key(c)] = plan[c] /\ \A k \in maps : rules'[k] = rules[k]
      BY <1>1, <2>2, <3>1, <3>2
    <3>4. PlanTypeOK' /\ at' \in [Calls -> Stops]
      BY <1>1, <3>1, <3>2 DEF PlanTypeOK, Stops
    <3>5. /\ \A d \in Calls : Key(d)' = Key(d)
          /\ \A d \in Calls : Planner(d)' <=> Planner(d)
      BY <3>1 DEF Key, Planner, process
    <3>6. PlansAreStored'
      BY <3>1, <3>2, <3>3, <3>5 DEF PlansAreStored, process
    <3> QED
      BY <3>4, <3>6
  <2> QED
    BY <2>1, <2>2
<1>10. CASE UNCHANGED <<planning, role, at>>
  BY <1>10 DEF PlanTypeOK, PlansAreStored, planning, Planner, Key
<1> QED
  BY <1>2, <1>3, <1>4, <1>7, <1>8, <1>9, <1>10, PlanCases
--------------------------------------------------------------------------------
(* What the callers are promised.                                           *)

LEMMA RegisterInit == Init => Register!Init
<1> SUFFICES ASSUME Init PROVE Register!Init
  OBVIOUS
<1>1. maps = {} /\ \A c \in Calls : at[c] = "start"
  BY DEF Init, PlanInit, RouterInit
<1> QED
  BY <1>1 DEF Register!Init

LEMMA RegisterStep ==
  ASSUME PlanInv, [Next]_vars
  PROVE  [Register!Next]_<<[k \in CacheKeys |-> IF k \in maps THEN rules[k] ELSE NoRules],
                           [c \in Calls |-> IF Planner(c) /\ at[c] = "returned"
                                            THEN <<Key(c), plan[c]>> ELSE NoRules]>>
<1> DEFINE decided == [k \in CacheKeys |-> IF k \in maps THEN rules[k] ELSE NoRules]
           told == [c \in Calls |-> IF Planner(c) /\ at[c] = "returned"
                                    THEN <<Key(c), plan[c]>> ELSE NoRules]
<1>1. /\ at \in [Calls -> Stops]
      /\ rules \in [CacheKeys -> RuleSets \cup {NoRules}]
      /\ plan \in [Calls -> RuleSets \cup {NoRules}]
  BY DEF PlanInv, PlanTypeOK
<1>2. ASSUME NEW c \in Calls, Aside(c)
      PROVE  [Register!Next]_<<decided, told>>
  <2>1. PICK s \in Stops : /\ at' = [at EXCEPT ![c] = s]
                           /\ s = "returned" /\ Planner(c) => at[c] = "saved"
    BY <1>2 DEF Aside
  <2>2. at'[c] = s /\ at[c] # "returned" /\ \A d \in Calls \ {c} : at'[d] = at[d]
    BY <1>1, <1>2, <2>1 DEF Aside
  <2>3. /\ decided' = decided
        /\ \A d \in Calls : Key(d)' = Key(d) /\ plan'[d] = plan[d] /\ (Planner(d)' <=> Planner(d))
    BY <1>2 DEF Aside, planning, Key, Planner
  <2>4. CASE Planner(c) /\ s = "returned"
    <3>1. Key(c) \in maps /\ plan[c] = rules[Key(c)] /\ Key(c) \in CacheKeys
      BY <2>1, <2>4, KeyType DEF PlanInv, PlansAreStored
    <3>2. decided[Key(c)] = plan[c] /\ decided[Key(c)] # NoRules
      BY <3>1, PlanAssumption DEF PlanInv, PlansAreStored
    <3>3. told[c] = NoRules /\ told' = [told EXCEPT ![c] = <<Key(c), plan[c]>>]
      BY <2>2, <2>3, <2>4
    <3>4. PICK k \in CacheKeys : k = Key(c)
      BY <3>1
    <3>5. Register!Tell(c, k)
      BY <2>3, <3>2, <3>3, <3>4 DEF Register!Tell
    <3> QED
      BY <3>5 DEF Register!Next
  <2>5. CASE ~(Planner(c) /\ s = "returned")
    <3>1. told' = told
      BY <2>2, <2>3, <2>5
    <3> QED
      BY <2>3, <3>1
  <2> QED
    BY <2>4, <2>5
\* The other steps of a planner return nothing.
<1>3. ASSUME NEW c \in Calls, at[c] # "returned", at'[c] # "returned",
             \A d \in Calls \ {c} : at'[d] = at[d] /\ plan'[d] = plan[d],
             UNCHANGED <<input, role>>
      PROVE  told' = told
  BY <1>3 DEF Planner, Key
<1>4. ASSUME NEW c \in Calls, LookupHit(c) \/ FindRules(c) \/ ResolvePack(c) \/ HearRules(c)
      PROVE  [Register!Next]_<<decided, told>>
  <2>1. \A d \in Calls \ {c} : at'[d] = at[d] /\ plan'[d] = plan[d]
    BY <1>1, <1>4 DEF LookupHit, FindRules, ResolvePack, HearRules, Throw, Goto, planning
  <2>2. at[c] # "returned" /\ at'[c] # "returned" /\ UNCHANGED <<input, role>>
    BY <1>1, <1>4
    DEF LookupHit, FindRules, ResolvePack, HearRules, Throw, Goto, planning, process
  <2>3. decided' = decided
    BY <1>4 DEF LookupHit, FindRules, ResolvePack, HearRules, planning
  <2> QED
    BY <1>3, <2>1, <2>2, <2>3
<1>5. ASSUME NEW c \in Calls, Save(c)
      PROVE  [Register!Next]_<<decided, told>>
  <2>1. /\ \A d \in Calls \ {c} : at'[d] = at[d] /\ plan'[d] = plan[d]
        /\ at[c] # "returned" /\ at'[c] # "returned" /\ UNCHANGED <<input, role>>
    BY <1>1, <1>5 DEF Save, Throw, Goto, process
  <2>2. told' = told
    BY <1>3, <2>1
  <2>3. CASE Key(c) \in maps
    <3>1. decided' = decided
      BY <1>5, <2>3 DEF Save, Taken
    <3> QED
      BY <2>2, <3>1
  <2>4. CASE Key(c) \notin maps
    <3>1. /\ maps' = maps \cup {Key(c)} /\ rules' = [rules EXCEPT ![Key(c)] = plan[c]]
          /\ at[c] = "save"
      BY <1>5, <2>4 DEF Save, Taken, Insert
    <3>2. plan[c] \in RuleSets /\ Key(c) \in CacheKeys
      BY <3>1, KeyType DEF PlanInv, PlansAreStored
    <3>3. decided[Key(c)] = NoRules /\ decided' = [decided EXCEPT ![Key(c)] = plan[c]]
      BY <1>1, <2>4, <3>1, <3>2
    <3>4. PICK k \in CacheKeys, p \in RuleSets : k = Key(c) /\ p = plan[c]
      BY <3>2
    <3>5. Register!Decide(k, p)
      BY <2>2, <3>3, <3>4 DEF Register!Decide
    <3> QED
      BY <3>5 DEF Register!Next
  <2> QED
    BY <2>3, <2>4
<1>6. CASE UNCHANGED <<planning, role, at>>
  <2>1. decided' = decided /\ told' = told
    BY <1>6 DEF planning, Planner, Key
  <2> QED
    BY <2>1
<1> QED
  BY <1>2, <1>4, <1>5, <1>6, PlanCases

\* Whatever plans at once, is run again or is cut off, one plan is decided for each
\* key, and all are told that one.
THEOREM OnePlanForAKey == Spec => PlansAgree
BY PlanInit1, PlanStep, RegisterInit, RegisterStep, PTL DEF Spec, PlansAgree, Register!Spec

\* The rules of a map were decided for an input of its key, and so are those that
\* are about to be saved.
PlansAreDecided ==
  /\ \A k \in maps : \E i \in PackInputs \cup SourceInputs :
       CacheKey(i) = k /\ rules[k] \in RulesFor(i)
  /\ \A c \in Calls : at[c] = "save" => plan[c] \in RulesFor(input[c])

LEMMA DecidedStep ==
  ASSUME PlanInv, PlansAreDecided, [Next]_vars
  PROVE  PlansAreDecided'
<1>1. /\ at \in [Calls -> Stops]
      /\ rules \in [CacheKeys -> RuleSets \cup {NoRules}] /\ maps \subseteq CacheKeys
      /\ plan \in [Calls -> RuleSets \cup {NoRules}]
      /\ input \in [Calls -> PackInputs \cup SourceInputs]
  BY DEF PlanInv, PlanTypeOK
<1>2. ASSUME NEW c \in Calls, at'[c] = "save" => plan'[c] \in RulesFor(input[c]),
             \A d \in Calls \ {c} : at'[d] = at[d] /\ plan'[d] = plan[d],
             UNCHANGED <<input, role, maps, rules>>
      PROVE  PlansAreDecided'
  BY <1>2 DEF PlansAreDecided
<1>3. ASSUME NEW c \in Calls, Aside(c) \/ LookupHit(c) \/ FindRules(c)
      PROVE  PlansAreDecided'
  <2>1. \A d \in Calls \ {c} : at'[d] = at[d] /\ plan'[d] = plan[d]
    BY <1>1, <1>3 DEF Aside, LookupHit, FindRules, Goto, planning
  <2>2. at'[c] # "save" /\ UNCHANGED <<input, role, maps, rules>>
    BY <1>1, <1>3 DEF Aside, LookupHit, FindRules, Goto, planning, process
  <2> QED
    BY <1>2, <2>1, <2>2
<1>4. ASSUME NEW c \in Calls, ResolvePack(c) \/ HearRules(c) PROVE PlansAreDecided'
  <2>1. \A d \in Calls \ {c} : at'[d] = at[d] /\ plan'[d] = plan[d]
    BY <1>1, <1>4 DEF ResolvePack, HearRules, Throw, Goto
  <2>2. UNCHANGED <<input, role, maps, rules>>
    BY <1>4 DEF ResolvePack, HearRules, process
  <2>3. role[c] = "pack" <=> input[c] \in PackInputs
    BY DEF PlanInv, PlansAreStored
  <2>4. at'[c] = "save" => plan'[c] \in RulesFor(input[c])
    <3>1. CASE ResolvePack(c)
      BY <1>1, <2>3, <3>1 DEF ResolvePack, Throw, Goto, RulesFor
    <3>2. CASE HearRules(c)
      BY <1>1, <2>3, <3>2 DEF HearRules, RulesFor
    <3> QED
      BY <1>4, <3>1, <3>2
  <2> QED
    BY <1>2, <2>1, <2>2, <2>4
<1>5. ASSUME NEW c \in Calls, Save(c) PROVE PlansAreDecided'
  <2>1. /\ \A d \in Calls \ {c} : at'[d] = at[d] /\ plan'[d] = plan[d]
        /\ at'[c] # "save" /\ UNCHANGED <<input, role>>
    BY <1>1, <1>5 DEF Save, Throw, Goto, process
  <2>2. CASE Key(c) \in maps
    <3>1. UNCHANGED <<maps, rules>>
      BY <1>5, <2>2 DEF Save, Taken
    <3> QED
      BY <1>2, <2>1, <3>1
  <2>3. CASE Key(c) \notin maps
    <3>1. /\ maps' = maps \cup {Key(c)} /\ rules' = [rules EXCEPT ![Key(c)] = plan[c]]
          /\ at[c] = "save"
      BY <1>5, <2>3 DEF Save, Taken, Insert
    <3>2. /\ Key(c) \in CacheKeys /\ rules'[Key(c)] = plan[c]
          /\ \A k \in maps : rules'[k] = rules[k]
      BY <1>1, <2>3, <3>1, KeyType DEF PlanInv
    <3>3. Key(c) = CacheKey(input[c]) /\ rules'[Key(c)] \in RulesFor(input[c])
      BY <3>1, <3>2 DEF PlansAreDecided, Key
    <3>4. \A k \in maps' : \E i \in PackInputs \cup SourceInputs :
            CacheKey(i) = k /\ rules'[k] \in RulesFor(i)
      BY <1>1, <3>1, <3>2, <3>3 DEF PlansAreDecided
    <3> QED
      BY <2>1, <3>4 DEF PlansAreDecided
  <2> QED
    BY <2>2, <2>3
<1>6. CASE UNCHANGED <<planning, role, at>>
  BY <1>6 DEF PlansAreDecided, planning
<1> QED
  BY <1>3, <1>4, <1>5, <1>6, PlanCases

\* A plan is all of what was decided for an input of the same cache key.
THEOREM PlansAreWhole == Spec => []PlansFitTheirKey
<1>1. Init => PlansAreDecided
  BY DEF Init, PlanInit, RouterInit, PlansAreDecided
<1>2. ASSUME PlanInv, PlansAreDecided
      PROVE  PlansFitTheirKey
  <2> SUFFICES ASSUME NEW c \in Calls, Planner(c), at[c] = "returned"
               PROVE  \E i \in PackInputs \cup SourceInputs :
                        CacheKey(i) = Key(c) /\ plan[c] \in RulesFor(i)
    BY DEF PlansFitTheirKey
  <2>1. Key(c) \in maps /\ plan[c] = rules[Key(c)]
    BY <1>2 DEF PlanInv, PlansAreStored
  <2> QED
    BY <1>2, <2>1 DEF PlansAreDecided
<1>3. PlanInv /\ PlansAreDecided /\ [Next]_vars => PlansAreDecided'
  BY DecidedStep
<1> QED
  BY <1>1, <1>2, <1>3, PlanInit1, PlanStep, PTL DEF Spec
--------------------------------------------------------------------------------
(* Tests.                                                                   *)

\* Of the patches before the n-th, those worth testing have a good test or are
\* reported, and nothing else is.
Examined(e, n) ==
  LET tested == {test[1] : test \in e.tests}
  IN  /\ tested \cup e.errors = {u \in Testable : u < n}
      /\ tested \cap e.errors = {}
      /\ e.tests \subseteq tested \X {"good"}

Asking == {"ask", "token", "reply"}

ExamInv ==
  /\ exam \in [Calls -> Exam]
  /\ \A c \in Calls : role[c] = "examiner" =>
       /\ at[c] \in Asking => exam[c].pos \in Testable /\ Examined(exam[c], exam[c].pos)
       /\ at[c] = "returned" => Examined(exam[c], Units + 1)

LEMMA Least ==
  ASSUME NEW S, S \subseteq Nat, S # {}
  PROVE  \E x \in S : \A y \in S : x <= y
<1>1. PICK x \in S : \A y \in S : <<y, x>> \notin OpToRel(<, Nat)
  BY WFMin, NatLessThanWellFounded
<1>2. \A y \in S : ~(y < x)
  BY <1>1 DEF OpToRel
<1> QED
  BY <1>2

\* The patches before the next one are those before and the one between.
LEMMA UpTo ==
  ASSUME NEW T, T \subseteq Nat, NEW p \in T
  PROVE  /\ {u \in T : u < p + 1} = {u \in T : u < p} \cup {p}
         /\ p \notin {u \in T : u < p}
<1>1. \A u \in T : u < p + 1 <=> (u < p \/ u = p)
  OBVIOUS
<1>2. {u \in T : u < p + 1} = {u \in T : u < p} \cup {p}
  BY <1>1
<1>3. ~(p < p)
  OBVIOUS
<1> QED
  BY <1>2, <1>3

\* Another test adds its patch to the tested ones.
LEMMA Firsts ==
  ASSUME NEW S, NEW p, NEW s
  PROVE  {test[1] : test \in S \cup {<<p, s>>}} = {test[1] : test \in S} \cup {p}
<1>1. <<p, s>>[1] = p
  OBVIOUS
<1> DEFINE one == <<p, s>>
<1>2. one[1] = p
  BY <1>1
<1> HIDE DEF one
<1>3. {test[1] : test \in S \cup {one}} = {test[1] : test \in S} \cup {p}
  BY <1>2, Zenon
<1> QED
  BY <1>3 DEF one

\* Between two patches with none to test in the gap nothing is added.
LEMMA Gap ==
  ASSUME NEW T, T \subseteq Nat, NEW p \in Nat, NEW n \in Nat, p < n,
         \A u \in T : u > p => n <= u
  PROVE  {u \in T : u < p + 1} = {u \in T : u < n}
<1>1. ASSUME NEW u \in T PROVE u < p + 1 <=> u < n
  OBVIOUS
<1> QED
  BY <1>1

\* After the patch at e.pos the Examiner asks about the next, or is done.
LEMMA NextPatchFacts ==
  ASSUME NEW c \in Calls, NEW e \in Exam, NextPatch(c, e), Examined(e, e.pos + 1)
  PROVE  \E x \in Exam :
           /\ exam' = [exam EXCEPT ![c] = x]
           /\ \/ at' = [at EXCEPT ![c] = "returned"] /\ Examined(x, Units + 1)
              \/ /\ at' = [at EXCEPT ![c] = "ask"] /\ retries' = [retries EXCEPT ![c] = 0]
                 /\ x.pos \in Testable /\ Examined(x, x.pos) /\ e.pos < x.pos
<1> DEFINE later == {u \in Testable : u > e.pos}
<1>1. Testable \subseteq 1..Units /\ e.pos \in 0..Units /\ Units \in Nat
  BY CodeAssumption DEF Testable, Exam
<1>2. Testable \subseteq Nat /\ e.pos \in Nat /\ e.pos < Units + 1
  BY <1>1
<1>3. CASE later = {}
  <2>1. exam' = [exam EXCEPT ![c] = e] /\ at' = [at EXCEPT ![c] = "returned"]
    BY <1>3 DEF NextPatch, Goto
  <2>2. \A u \in Testable : u > e.pos => Units + 1 <= u
    BY <1>3
  <2>3. Units + 1 \in Nat
    BY <1>1
  <2>4. {u \in Testable : u < e.pos + 1} = {u \in Testable : u < Units + 1}
    BY <1>2, <2>2, <2>3, Gap
  <2>5. Examined(e, Units + 1)
    BY <2>4 DEF Examined
  <2> QED
    BY <2>1, <2>5
<1>4. CASE later # {}
  <2> DEFINE next == CHOOSE u \in later : \A v \in later : u <= v
             x == [e EXCEPT !.pos = next]
  <2>1. /\ exam' = [exam EXCEPT ![c] = x] /\ at' = [at EXCEPT ![c] = "ask"]
        /\ retries' = [retries EXCEPT ![c] = 0]
    BY <1>4 DEF NextPatch, StartAsking, Goto
  <2>2. later \subseteq Nat
    BY <1>2
  <2>3. next \in later /\ \A v \in later : next <= v
    <3> HIDE DEF later
    <3>1. \E u \in later : \A v \in later : u <= v
      BY <1>4, <2>2, Least
    <3> QED
      BY <3>1
  <2> HIDE DEF next
  <2>4. next \in Testable /\ next \in Nat /\ e.pos < next
        /\ \A u \in Testable : u > e.pos => next <= u
    BY <1>2, <2>3
  <2>5. /\ x \in Exam /\ x.pos = next /\ x.tests = e.tests /\ x.errors = e.errors
    BY <1>1, <2>4 DEF Exam
  <2>6. {u \in Testable : u < e.pos + 1} = {u \in Testable : u < next}
    <3> HIDE DEF later
    <3>1. Testable \subseteq Nat /\ e.pos \in Nat /\ next \in Nat /\ e.pos < next
      BY <1>2, <2>4
    <3>2. \A u \in Testable : u > e.pos => next <= u
      BY <2>4
    <3> QED
      BY <3>1, <3>2, Gap
  <2>7. Examined(x, next)
    BY <2>5, <2>6 DEF Examined
  <2> HIDE DEF x
  <2> QED
    BY <2>1, <2>4, <2>5, <2>7
<1> QED
  BY <1>3, <1>4

\* A step that leaves the results alone, and a question about a patch with it.
Beside(c) ==
  /\ UNCHANGED <<exam, role, statuses>>
  /\ \E s \in Stops : /\ at' = [at EXCEPT ![c] = s]
                      /\ role[c] = "examiner" =>
                           s \in {"start", "failed"} \/ (at[c] \in Asking /\ s \in Asking)

LEMMA ExamCases ==
  ASSUME PlanInv, [Next]_vars
  PROVE  \/ \E c \in Calls : Beside(c) \/ StartExam(c) \/ HearTest(c) \/ HearNoTest(c)
         \/ UNCHANGED <<exam, role, statuses, at>>
<1> USE DEF process, Stops, Goto, work, Asking
<1>1. ASSUME NEW c \in Calls, Route(c), UNCHANGED work PROVE Beside(c)
  BY <1>1 DEF Route, AskNobody, AskHost, AskModel, AskWatsonx, TokenArrives, Asks, Throw, Beside
<1>2. ASSUME NEW c \in Calls, Fault(c), UNCHANGED work PROVE Beside(c)
  BY <1>2 DEF Fault, Throw, Beside
<1>3. ASSUME NEW c \in Calls, CodeStep(c)
      PROVE  Beside(c) \/ StartExam(c) \/ HearTest(c) \/ HearNoTest(c)
  <2>1. CASE ReadBatch(c) \/ HearPatches(c) \/ HearNoPatches(c)
    BY <1>3, <2>1 DEF ReadBatch, HearPatches, HearNoPatches, StartAsking, AskAgain, Beside
  <2>2. CASE StartQuestion(c) \/ HearAnswer(c) \/ HearNoAnswer(c)
    BY <1>3, <2>2
    DEF StartQuestion, HearAnswer, HearNoAnswer, StartAsking, AskAgain, Throw, Beside
  <2> QED
    BY <1>3, <2>1, <2>2 DEF CodeStep
<1>4. ASSUME NEW c \in Calls, CartographerStep(c), UNCHANGED work PROVE Beside(c)
  <2>1. role[c] # "examiner"
    BY <1>4 DEF PlanInv, PlansAreStored, CartographerStep, RefuseQa, NotApplicable, LookupHit,
         FindRules, ResolvePack, ElicitRules, HearRules, HearNoRules, Save, ReturnPlan, Planner
  <2>2. \E s \in Stops : at' = [at EXCEPT ![c] = s]
    BY <1>4 DEF CartographerStep, RefuseQa, LookupHit, FindRules, ResolvePack, ElicitRules,
         HearRules, HearNoRules, Save, ReturnPlan, Throw, StartAsking, AskAgain
  <2>3. UNCHANGED role
    BY <1>4 DEF CartographerStep, RefuseQa, LookupHit, FindRules, ResolvePack, ElicitRules,
         HearRules, HearNoRules, Save, ReturnPlan
  <2> QED
    BY <1>4, <2>1, <2>2, <2>3 DEF Beside
<1>5. CASE SetMcpServer /\ UNCHANGED work
  BY <1>5 DEF SetMcpServer, loop
<1>6. CASE Tick /\ UNCHANGED work
  BY <1>6 DEF Tick, loop
<1>7. CASE UNCHANGED vars
  BY <1>7 DEF vars, loop
<1> QED
  BY <1>1, <1>2, <1>3, <1>4, <1>5, <1>6, <1>7 DEF Next, Step

\* A test for the patch the Examiner is at.
LEMMA TestAdded ==
  ASSUME NEW x \in Exam, x.pos \in Testable, Testable \subseteq 1..Units, Examined(x, x.pos),
         NEW e, e = [x EXCEPT !.tests = x.tests \cup {<<x.pos, "good">>}]
  PROVE  e \in Exam /\ e.pos = x.pos /\ Examined(e, e.pos + 1)
<1>1. /\ e \in Exam /\ e.pos = x.pos /\ e.errors = x.errors
      /\ e.tests = x.tests \cup {<<x.pos, "good">>}
  BY DEF Exam, TestSources
<1>2. {test[1] : test \in x.tests \cup {<<x.pos, "good">>}} = {test[1] : test \in x.tests} \cup {x.pos}
  BY Firsts
<1>3. Testable \subseteq Nat
  BY CodeAssumption
<1>4. /\ {u \in Testable : u < x.pos + 1} = {u \in Testable : u < x.pos} \cup {x.pos}
      /\ x.pos \notin {u \in Testable : u < x.pos}
  BY <1>3, UpTo
<1>5. {test[1] : test \in e.tests} = {test[1] : test \in x.tests} \cup {x.pos}
  BY <1>1, <1>2
<1> QED
  BY <1>1, <1>4, <1>5 DEF Examined

\* An error for it.
LEMMA ErrorAdded ==
  ASSUME NEW x \in Exam, x.pos \in Testable, Testable \subseteq 1..Units, Examined(x, x.pos),
         NEW e, e = Reported(x)
  PROVE  e \in Exam /\ e.pos = x.pos /\ Examined(e, e.pos + 1)
<1>1. /\ e \in Exam /\ e.pos = x.pos /\ e.tests = x.tests
      /\ e.errors = x.errors \cup {x.pos}
  BY DEF Exam, Reported
<1>2. Testable \subseteq Nat
  BY CodeAssumption
<1>3. /\ {u \in Testable : u < x.pos + 1} = {u \in Testable : u < x.pos} \cup {x.pos}
      /\ x.pos \notin {u \in Testable : u < x.pos}
  BY <1>2, UpTo
<1> QED
  BY <1>1, <1>3 DEF Examined

LEMMA ExamStep ==
  ASSUME PlanInv, ExamInv, [Next]_vars
  PROVE  ExamInv'
<1> USE DEF ExamInv, Asking
<1>1. at \in [Calls -> Stops]
  BY DEF PlanInv
\* The Examiner goes on from results e.
<1>2. ASSUME NEW c \in Calls, NEW e \in Exam, NextPatch(c, e), Examined(e, e.pos + 1),
             UNCHANGED <<role, statuses>>
      PROVE  ExamInv'
  <2>1. PICK x \in Exam :
           /\ exam' = [exam EXCEPT ![c] = x]
           /\ \/ at' = [at EXCEPT ![c] = "returned"] /\ Examined(x, Units + 1)
              \/ /\ at' = [at EXCEPT ![c] = "ask"]
                 /\ x.pos \in Testable /\ Examined(x, x.pos)
    BY <1>2, NextPatchFacts
  <2>2. Testable' = Testable
    BY <1>2 DEF Testable
  <2>3. /\ exam' \in [Calls -> Exam] /\ exam'[c] = x
        /\ \A d \in Calls \ {c} : exam'[d] = exam[d] /\ at'[d] = at[d]
    BY <1>1, <2>1
  <2>4. \/ at'[c] = "returned" /\ Examined(x, Units + 1)
        \/ at'[c] = "ask" /\ x.pos \in Testable /\ Examined(x, x.pos)
    BY <1>1, <2>1
  <2> QED
    BY <1>2, <2>2, <2>3, <2>4 DEF Examined
<1>3. ASSUME NEW c \in Calls, Beside(c) PROVE ExamInv'
  <2>1. PICK s \in Stops : /\ at' = [at EXCEPT ![c] = s]
                           /\ role[c] = "examiner" =>
                                s \in {"start", "failed"} \/ (at[c] \in Asking /\ s \in Asking)
    BY <1>3 DEF Beside
  <2>2. at'[c] = s /\ \A d \in Calls \ {c} : at'[d] = at[d]
    BY <1>1, <2>1
  <2>3. Testable' = Testable
    BY <1>3 DEF Beside, Testable
  <2> QED
    BY <1>3, <2>1, <2>2, <2>3 DEF Beside, Examined
<1>4. ASSUME NEW c \in Calls, StartExam(c) PROVE ExamInv'
  <2>1. NoExam \in Exam /\ Examined(NoExam, NoExam.pos + 1)
    <3>1. NoExam.pos = 0 /\ NoExam.tests = {} /\ NoExam.errors = {}
      BY DEF NoExam
    <3>2. {u \in Testable : u < 0 + 1} = {}
      BY CodeAssumption DEF Testable
    <3>3. NoExam \in Exam
      BY CodeAssumption DEF NoExam, Exam
    <3> QED
      BY <3>1, <3>2, <3>3 DEF Examined
  <2>2. NextPatch(c, NoExam) /\ UNCHANGED <<role, statuses>>
    BY <1>4 DEF StartExam, process
  <2> QED
    BY <1>2, <2>1, <2>2
<1>5. ASSUME NEW c \in Calls, at[c] = "reply", role[c] = "examiner"
      PROVE  /\ exam[c] \in Exam /\ exam[c].pos \in Testable /\ Testable \subseteq 1..Units
             /\ Examined(exam[c], exam[c].pos)
  BY <1>5 DEF Testable
<1>6. ASSUME NEW c \in Calls, HearTest(c) PROVE ExamInv'
  <2>1. PICK source \in TestSources \ {"empty"} :
          /\ ValidateTestSyntax(source)
          /\ NextPatch(c, [exam[c] EXCEPT !.tests = @ \cup {<<exam[c].pos, source>>}])
    BY <1>6 DEF HearTest
  <2>2. source = "good"
    BY <2>1 DEF TestSources, ValidateTestSyntax
  <2> DEFINE e == [exam[c] EXCEPT !.tests = exam[c].tests \cup {<<exam[c].pos, "good">>}]
  <2>3. /\ exam[c] \in Exam /\ exam[c].pos \in Testable /\ Testable \subseteq 1..Units
        /\ Examined(exam[c], exam[c].pos)
    BY <1>5, <1>6 DEF HearTest
  <2>4. e \in Exam /\ e.pos = exam[c].pos /\ Examined(e, e.pos + 1)
    BY <2>3, TestAdded
  <2>5. NextPatch(c, e) /\ UNCHANGED <<role, statuses>>
    BY <1>6, <2>1, <2>2 DEF HearTest, process
  <2> HIDE DEF e
  <2> QED
    BY <1>2, <2>4, <2>5
<1>7. ASSUME NEW c \in Calls, HearNoTest(c) PROVE ExamInv'
  <2>1. CASE AskAgain(c) /\ UNCHANGED exam
    <3>1. Beside(c)
      BY <1>7, <2>1 DEF HearNoTest, AskAgain, Goto, Beside, Stops, process
    <3> QED
      BY <1>3, <3>1
  <2>2. CASE NextPatch(c, Reported(exam[c]))
    <3> DEFINE e == Reported(exam[c])
    <3>1. /\ exam[c] \in Exam /\ exam[c].pos \in Testable /\ Testable \subseteq 1..Units
          /\ Examined(exam[c], exam[c].pos)
      BY <1>5, <1>7 DEF HearNoTest
    <3>2. e \in Exam /\ e.pos = exam[c].pos /\ Examined(e, e.pos + 1)
      BY <3>1, ErrorAdded
    <3>3. UNCHANGED <<role, statuses>>
      BY <1>7 DEF HearNoTest, process
    <3> HIDE DEF e
    <3> QED
      BY <1>2, <2>2, <3>2, <3>3 DEF e
  <2> QED
    BY <1>7, <2>1, <2>2 DEF HearNoTest
<1>8. CASE UNCHANGED <<exam, role, statuses, at>>
  BY <1>8 DEF Examined, Testable
<1> QED
  BY <1>3, <1>4, <1>6, <1>7, <1>8, ExamCases

LEMMA ExamInit1 == Init => ExamInv
<1> SUFFICES ASSUME Init PROVE ExamInv
  OBVIOUS
<1>1. NoExam \in Exam
  BY CodeAssumption DEF NoExam, Exam
<1> QED
  BY <1>1 DEF Init, WorkInit, RouterInit, ExamInv, Asking

\* Of any number of patches none is dropped between the loops the Examiner goes
\* through for them: each that is worth it is tested or reported.
THEOREM NoPatchIsDropped == Spec => []TestedOrReported
<1>1. ExamInv => TestedOrReported
  <2>1. {u \in Testable : u < Units + 1} = Testable
    BY CodeAssumption DEF Testable
  <2> QED
    BY <2>1 DEF ExamInv, Examined, TestedOrReported
<1> QED
  BY <1>1, ExamInit1, PlanInit1, PlanStep, ExamStep, PTL DEF Spec

--------------------------------------------------------------------------------
(* Patches and answers.                                                     *)

Replies == [usable : BOOLEAN, patches : SUBSET LlmPatch]

\* What the Surgeon returned is made of its last reply, or gives every file up.
ReturnedPatches(c) ==
  \/ /\ reply[c].usable /\ ValidatePatchSyntax(reply[c].patches)
     /\ replies[c] \in 1..(MaxRetries + 1)
     /\ patches[c] = Proposed(reply[c].patches, replies[c] - 1)
  \/ /\ ~reply[c].usable \/ ~ValidatePatchSyntax(reply[c].patches)
     /\ replies[c] = MaxRetries + 1
     /\ patches[c] = Stubs

\* Every patch may use up the budget of replies.
HeardInv ==
  /\ WorkTypeOK
  /\ reply \in [Calls -> Replies]
  /\ \A c \in Calls :
       /\ role[c] \in {"surgeon", "asker"} /\ at[c] \in Asking => replies[c] = retries[c]
       /\ role[c] = "surgeon" /\ at[c] = "returned" => ReturnedPatches(c)
       /\ role[c] = "examiner" /\ at[c] \in Asking =>
            replies[c] <= (MaxRetries + 1) * (exam[c].pos - 1) + retries[c]

\* A step that brings no reply, and begins no attempt.
Silent(c) ==
  /\ UNCHANGED <<work, role>>
  /\ \E s \in Stops : /\ at' = [at EXCEPT ![c] = s]
                      /\ Planner(c) \/ s \in {"start", "failed"} \/
                           (at[c] \in Asking /\ s \in Asking)
  /\ \A d \in Calls \ {c} : retries'[d] = retries[d]
  /\ at'[c] \in Asking /\ ~Planner(c) => retries'[c] = retries[c]

LEMMA HeardCases ==
  ASSUME PlanInv, RouterInv, [Next]_vars
  PROVE  \/ \E c \in Calls : Silent(c) \/ (CodeStep(c) /\ UNCHANGED planning)
         \/ UNCHANGED <<work, role, at, retries>>
<1> USE DEF process, Stops, Goto, Asking
<1>1. retries \in [Calls -> 0..MaxRetries] /\ at \in [Calls -> Stops]
  BY DEF RouterInv, RouterTypeOK
<1>2. ASSUME NEW c \in Calls, Route(c), UNCHANGED work PROVE Silent(c)
  BY <1>1, <1>2
  DEF Route, AskNobody, AskHost, AskModel, AskWatsonx, TokenArrives, Asks, Throw, Silent
<1>3. ASSUME NEW c \in Calls, Fault(c), UNCHANGED work PROVE Silent(c)
  BY <1>1, <1>3 DEF Fault, Throw, Silent
<1>4. ASSUME NEW c \in Calls, CartographerStep(c), UNCHANGED work PROVE Silent(c)
  <2>1. Planner(c)
    BY <1>4 DEF PlanInv, PlansAreStored, CartographerStep, RefuseQa, NotApplicable, LookupHit,
         FindRules, ResolvePack, ElicitRules, HearRules, HearNoRules, Save, ReturnPlan, Planner
  <2>2. \E s \in Stops : at' = [at EXCEPT ![c] = s]
    BY <1>4 DEF CartographerStep, RefuseQa, LookupHit, FindRules, ResolvePack, ElicitRules,
         HearRules, HearNoRules, Save, ReturnPlan, Throw, StartAsking, AskAgain
  <2>3. UNCHANGED role /\ \A d \in Calls \ {c} : retries'[d] = retries[d]
    BY <1>1, <1>4 DEF CartographerStep, RefuseQa, LookupHit, FindRules, ResolvePack, ElicitRules,
         HearRules, HearNoRules, Save, ReturnPlan, Throw, StartAsking, AskAgain
  <2> QED
    BY <1>4, <2>1, <2>2, <2>3 DEF Silent
<1>5. CASE SetMcpServer /\ UNCHANGED work
  BY <1>5 DEF SetMcpServer, loop
<1>6. CASE Tick /\ UNCHANGED work
  BY <1>6 DEF Tick, loop
<1>7. CASE UNCHANGED vars
  BY <1>7 DEF vars, loop
<1> QED
  BY <1>2, <1>3, <1>4, <1>5, <1>6, <1>7 DEF Next, Step

\* A budget for each of n patches is not more than one for each of m >= n.
LEMMA Budgets ==
  ASSUME NEW n \in Nat, NEW m \in Nat, n <= m
  PROVE  /\ (MaxRetries + 1) * n \in Nat
         /\ (MaxRetries + 1) * n <= (MaxRetries + 1) * m
         /\ (MaxRetries + 1) * (n + 1) = (MaxRetries + 1) * n + MaxRetries + 1
<1>1. MaxRetries \in Nat
  BY RouterAssumption
<1> QED
  BY <1>1, SMT

LEMMA SurgeonTypes ==
  /\ Stubs \in SUBSET Patch
  /\ \A ps \in SUBSET LlmPatch, n \in 0..MaxRetries : Proposed(ps, n) \in SUBSET Patch
<1>1. MaxRetries \in Nat
  BY RouterAssumption
<1>2. Stubs \in SUBSET Patch
  BY <1>1 DEF Stubs, Stub, Patch, Contents, PatchStatus
<1>3. ASSUME NEW ps \in SUBSET LlmPatch, NEW n \in 0..MaxRetries, NEW p \in Proposed(ps, n)
      PROVE  p \in Patch
  <2>1. PICK q \in ps : /\ q.filePath \in Files
                        /\ p = [filePath |-> q.filePath, after |-> q.after, status |-> "proposed",
                                confidence |-> ConfidenceForRetries(n), retries |-> n]
    BY <1>3 DEF Proposed, Kept
  <2>2. ConfidenceForRetries(n) \in {85, 70, 50, 30}
    BY <1>1 DEF ConfidenceForRetries
  <2>3. q.after \in Contents
    BY DEF LlmPatch
  <2> QED
    BY <2>1, <2>2, <2>3 DEF Patch, PatchStatus
<1> QED
  BY <1>2, <1>3

LEMMA HeardStep ==
  ASSUME RouterInv, PlanInv, ExamInv, ExamInv', HeardInv, [Next]_vars
  PROVE  HeardInv'
<1> USE DEF Asking
<1>1. /\ at \in [Calls -> Stops] /\ retries \in [Calls -> 0..MaxRetries]
      /\ MaxRetries \in Nat /\ Units \in Nat /\ role \in [Calls -> Roles]
  BY RouterAssumption, CodeAssumption DEF RouterInv, RouterTypeOK
<1>2. /\ statuses \in [1..Units -> PatchStatus] /\ patches \in [Calls -> SUBSET Patch]
      /\ offered \in [Calls -> SUBSET Files] /\ cites \in [Calls -> SUBSET Files]
      /\ reply \in [Calls -> Replies]
      /\ replies \in [Calls -> 0..(MaxRetries + 1) * (Units + 1)]
      /\ exam \in [Calls -> Exam] /\ exam' \in [Calls -> Exam]
  BY DEF HeardInv, WorkTypeOK, ExamInv
<1>3. /\ (MaxRetries + 1) * (Units + 1) \in Nat
      /\ MaxRetries + 1 <= (MaxRetries + 1) * (Units + 1)
  BY <1>1, Budgets
\* What a call other than c holds is not touched.
<1>4. ASSUME NEW c \in Calls, \A d \in Calls \ {c} : /\ at'[d] = at[d] /\ retries'[d] = retries[d]
                                                     /\ replies'[d] = replies[d] /\ reply'[d] = reply[d]
                                                     /\ patches'[d] = patches[d] /\ exam'[d] = exam[d],
             UNCHANGED role, WorkTypeOK', reply' \in [Calls -> Replies],
             role[c] \in {"surgeon", "asker"} /\ at'[c] \in Asking => replies'[c] = retries'[c],
             role[c] = "surgeon" /\ at'[c] = "returned" => ReturnedPatches(c)',
             role[c] = "examiner" /\ at'[c] \in Asking =>
               replies'[c] <= (MaxRetries + 1) * (exam'[c].pos - 1) + retries'[c]
      PROVE  HeardInv'
  BY <1>4 DEF HeardInv, ReturnedPatches, Stubs, Proposed
<1>5. ASSUME NEW c \in Calls, Silent(c) PROVE HeardInv'
  <2>1. PICK s \in Stops : /\ at' = [at EXCEPT ![c] = s]
                           /\ Planner(c) \/ s \in {"start", "failed"} \/
                                (at[c] \in Asking /\ s \in Asking)
    BY <1>5 DEF Silent
  <2>2. at'[c] = s /\ \A d \in Calls \ {c} : at'[d] = at[d]
    BY <1>1, <2>1
  <2>3. UNCHANGED <<statuses, patches, exam, offered, cites, reply, replies, role>>
    BY <1>5 DEF Silent, work, heard
  <2>4. WorkTypeOK'
    BY <1>2, <2>3 DEF WorkTypeOK
  <2>5. ReturnedPatches(c)' <=> ReturnedPatches(c)
    BY <2>3 DEF ReturnedPatches
  <2>6. Planner(c) => role[c] \notin {"surgeon", "asker", "examiner"}
    BY DEF Planner
  <2>7. ~Planner(c) /\ at'[c] \in Asking => at[c] \in Asking /\ retries'[c] = retries[c]
    BY <1>5, <2>1, <2>2 DEF Silent
  <2>8. ~Planner(c) => at'[c] # "returned"
    BY <2>1, <2>2
  <2> QED
    BY <1>2, <1>4, <1>5, <2>2, <2>3, <2>4, <2>6, <2>7, <2>8 DEF Silent, HeardInv
\* What a call hears, and forgets.
<1>6. ASSUME NEW c \in Calls, NEW r \in Replies, Hears(c, r)
      PROVE  /\ reply' \in [Calls -> Replies] /\ reply'[c] = r /\ replies'[c] = replies[c] + 1
             /\ \A d \in Calls \ {c} : reply'[d] = reply[d] /\ replies'[d] = replies[d]
             /\ DOMAIN replies' = Calls /\ replies' = [replies EXCEPT ![c] = replies[c] + 1]
  BY <1>2, <1>6 DEF Hears
<1>7. ASSUME NEW c \in Calls, HeardNothing(c)
      PROVE  /\ reply' \in [Calls -> Replies] /\ replies'[c] = 0
             /\ \A d \in Calls \ {c} : reply'[d] = reply[d] /\ replies'[d] = replies[d]
             /\ replies' \in [Calls -> 0..(MaxRetries + 1) * (Units + 1)]
  <2>1. Unusable \in Replies
    BY DEF Unusable, Replies
  <2> QED
    BY <1>2, <1>3, <1>7, <2>1 DEF HeardNothing
<1>8. Unusable \in Replies /\ ~Unusable.usable
      /\ \A ps \in SUBSET LlmPatch : /\ Answer(ps) \in Replies /\ Answer(ps).usable
                                     /\ Answer(ps).patches = ps
      /\ LlmPatches \subseteq SUBSET LlmPatch /\ {} \in SUBSET LlmPatch
  BY DEF Unusable, Answer, Replies, LlmPatches
\* One more reply is in the budget of a Surgeon or an asker.
<1>9. ASSUME NEW c \in Calls, role[c] \in {"surgeon", "asker"}, at[c] = "reply"
      PROVE  /\ replies[c] = retries[c]
             /\ [replies EXCEPT ![c] = replies[c] + 1] \in
                  [Calls -> 0..(MaxRetries + 1) * (Units + 1)]
  <2>1. replies[c] = retries[c]
    BY <1>9 DEF HeardInv
  <2>2. replies[c] + 1 \in 0..(MaxRetries + 1) * (Units + 1)
    BY <1>1, <1>3, <2>1
  <2> QED
    BY <1>2, <2>1, <2>2
<1>10. ASSUME NEW c \in Calls, AskAgain(c)
       PROVE  /\ at'[c] = "ask" /\ retries'[c] = retries[c] + 1 /\ retries[c] < MaxRetries
              /\ \A d \in Calls \ {c} : at'[d] = at[d] /\ retries'[d] = retries[d]
  BY <1>1, <1>10 DEF AskAgain, Goto
<1>11. ASSUME NEW c \in Calls, NEW stop, Goto(c, stop)
       PROVE  at'[c] = stop /\ \A d \in Calls \ {c} : at'[d] = at[d]
  BY <1>1, <1>11 DEF Goto
<1>12. ASSUME NEW c \in Calls, ReadBatch(c) \/ StartQuestion(c) PROVE HeardInv'
  <2>1. /\ at'[c] = "ask" /\ retries'[c] = 0 /\ HeardNothing(c)
        /\ \A d \in Calls \ {c} : at'[d] = at[d] /\ retries'[d] = retries[d]
        /\ role[c] # "examiner"
    BY <1>1, <1>12 DEF ReadBatch, StartQuestion, StartAsking, Goto
  <2>2. /\ UNCHANGED <<role, statuses, patches, exam, cites>>
        /\ offered' \in [Calls -> SUBSET Files]
    BY <1>2, <1>12 DEF ReadBatch, StartQuestion, FindRelevantFiles, process
  <2>3. WorkTypeOK' /\ reply' \in [Calls -> Replies]
    BY <1>2, <1>7, <2>1, <2>2 DEF WorkTypeOK
  <2> QED
    BY <1>4, <1>7, <2>1, <2>2, <2>3
<1>13. ASSUME NEW c \in Calls, HearPatches(c) PROVE HeardInv'
  <2>1. PICK ps \in LlmPatches :
          /\ ValidatePatchSyntax(ps)
          /\ patches' = [patches EXCEPT ![c] = Proposed(ps, retries[c])]
          /\ Hears(c, Answer(ps))
    BY <1>13 DEF HearPatches
  <2>2. /\ at'[c] = "returned" /\ \A d \in Calls \ {c} : at'[d] = at[d]
        /\ role[c] = "surgeon" /\ at[c] = "reply"
        /\ UNCHANGED <<role, retries, statuses, exam, offered, cites>>
    BY <1>11, <1>13 DEF HearPatches, process
  <2>3. ps \in SUBSET LlmPatch /\ Answer(ps) \in Replies /\ Answer(ps).usable
        /\ Answer(ps).patches = ps
    BY <1>8
  <2>4. /\ Proposed(ps, retries[c]) \in SUBSET Patch
        /\ patches' \in [Calls -> SUBSET Patch] /\ patches'[c] = Proposed(ps, retries[c])
        /\ \A d \in Calls \ {c} : patches'[d] = patches[d]
    BY <1>1, <1>2, <2>1, <2>3, SurgeonTypes
  <2>5. /\ reply'[c] = Answer(ps) /\ replies'[c] = retries[c] + 1 /\ reply' \in [Calls -> Replies]
        /\ \A d \in Calls \ {c} : reply'[d] = reply[d] /\ replies'[d] = replies[d]
        /\ replies' \in [Calls -> 0..(MaxRetries + 1) * (Units + 1)]
    BY <1>6, <1>9, <2>1, <2>2, <2>3
  <2>6. ReturnedPatches(c)'
    BY <1>1, <2>1, <2>3, <2>4, <2>5 DEF ReturnedPatches, ValidatePatchSyntax, Proposed
  <2>7. WorkTypeOK'
    BY <1>2, <2>2, <2>4, <2>5 DEF WorkTypeOK
  <2> QED
    BY <1>4, <2>2, <2>4, <2>5, <2>6, <2>7
<1>14. ASSUME NEW c \in Calls, HearNoPatches(c) PROVE HeardInv'
  <2>1. /\ role[c] = "surgeon" /\ at[c] = "reply"
        /\ UNCHANGED <<role, statuses, exam, offered, cites>>
    BY <1>14 DEF HearNoPatches, process
  <2>2. CASE AskAgain(c) /\ Hears(c, Unusable) /\ UNCHANGED patches
    <3>1. /\ replies'[c] = retries'[c] /\ reply' \in [Calls -> Replies]
          /\ \A d \in Calls \ {c} : reply'[d] = reply[d] /\ replies'[d] = replies[d]
          /\ replies' \in [Calls -> 0..(MaxRetries + 1) * (Units + 1)]
      BY <1>6, <1>8, <1>9, <1>10, <2>1, <2>2
    <3>2. WorkTypeOK'
      BY <1>2, <2>1, <2>2, <3>1 DEF WorkTypeOK
    <3> QED
      BY <1>4, <1>10, <2>1, <2>2, <3>1, <3>2
  <2>3. CASE /\ OutOfRetries(c) /\ patches' = [patches EXCEPT ![c] = Stubs]
             /\ Goto(c, "returned") /\ UNCHANGED retries
             /\ \/ Hears(c, Unusable)
                \/ \E ps \in LlmPatches : ~ValidatePatchSyntax(ps) /\ Hears(c, Answer(ps))
    <3>1. PICK r \in Replies : /\ Hears(c, r)
                               /\ ~r.usable \/ ~ValidatePatchSyntax(r.patches)
      BY <1>8, <2>3
    <3>2. /\ replies'[c] = MaxRetries + 1 /\ reply' \in [Calls -> Replies] /\ reply'[c] = r
          /\ \A d \in Calls \ {c} : reply'[d] = reply[d] /\ replies'[d] = replies[d]
          /\ replies' \in [Calls -> 0..(MaxRetries + 1) * (Units + 1)]
      BY <1>6, <1>9, <2>1, <2>3, <3>1 DEF OutOfRetries
    <3>3. /\ patches' \in [Calls -> SUBSET Patch] /\ patches'[c] = Stubs
          /\ \A d \in Calls \ {c} : patches'[d] = patches[d]
      BY <1>2, <2>3, SurgeonTypes
    <3>4. ReturnedPatches(c)'
      BY <3>1, <3>2, <3>3 DEF ReturnedPatches, ValidatePatchSyntax, Stubs
    <3>5. WorkTypeOK'
      BY <1>2, <2>1, <3>2, <3>3 DEF WorkTypeOK
    <3> QED
      BY <1>4, <1>11, <2>1, <2>3, <3>2, <3>3, <3>4, <3>5
  <2> QED
    BY <1>14, <2>2, <2>3 DEF HearNoPatches
<1>15. ASSUME NEW c \in Calls, HearAnswer(c) PROVE HeardInv'
  <2>1. /\ role[c] = "asker" /\ at[c] = "reply" /\ at'[c] = "returned"
        /\ \A d \in Calls \ {c} : at'[d] = at[d]
        /\ UNCHANGED <<role, retries, statuses, patches, exam, offered>>
        /\ Hears(c, Answer({}))
    BY <1>11, <1>15 DEF HearAnswer, process
  <2>2. cites' \in [Calls -> SUBSET Files]
    BY <1>2, <1>15 DEF HearAnswer
  <2>3. /\ reply' \in [Calls -> Replies]
        /\ \A d \in Calls \ {c} : reply'[d] = reply[d] /\ replies'[d] = replies[d]
        /\ replies' \in [Calls -> 0..(MaxRetries + 1) * (Units + 1)]
    BY <1>6, <1>8, <1>9, <2>1
  <2>4. WorkTypeOK'
    BY <1>2, <2>1, <2>2, <2>3 DEF WorkTypeOK
  <2> QED
    BY <1>4, <2>1, <2>3, <2>4
<1>16. ASSUME NEW c \in Calls, HearNoAnswer(c) PROVE HeardInv'
  <2>1. /\ role[c] = "asker" /\ at[c] = "reply" /\ Hears(c, Unusable)
        /\ UNCHANGED <<role, statuses, patches, exam, offered, cites>>
    BY <1>16 DEF HearNoAnswer, process
  <2>2. /\ reply' \in [Calls -> Replies] /\ replies'[c] = retries[c] + 1
        /\ \A d \in Calls \ {c} : reply'[d] = reply[d] /\ replies'[d] = replies[d]
        /\ replies' \in [Calls -> 0..(MaxRetries + 1) * (Units + 1)]
    BY <1>6, <1>8, <1>9, <2>1
  <2>3. /\ \A d \in Calls \ {c} : at'[d] = at[d] /\ retries'[d] = retries[d]
        /\ at'[c] \in {"start", "failed"} \/ (at'[c] = "ask" /\ retries'[c] = retries[c] + 1)
    <3>1. CASE AskAgain(c)
      BY <1>10, <3>1
    <3>2. CASE Throw(c)
      BY <1>1, <3>2 DEF Throw, Goto
    <3> QED
      BY <1>16, <3>1, <3>2 DEF HearNoAnswer
  <2>4. WorkTypeOK'
    BY <1>2, <2>1, <2>2 DEF WorkTypeOK
  <2> QED
    BY <1>4, <2>1, <2>2, <2>3, <2>4
\* The Examiner goes on from results e, of a patch before which the budget of
\* those that were passed was kept to.
<1>17. ASSUME NEW c \in Calls, role[c] = "examiner", NEW e \in Exam, NextPatch(c, e),
              Examined(e, e.pos + 1), replies'[c] \in Nat,
              replies'[c] <= (MaxRetries + 1) * e.pos,
              reply' \in [Calls -> Replies], DOMAIN replies' = Calls,
              replies' = [d \in Calls |-> replies'[d]],
              \A d \in Calls \ {c} : reply'[d] = reply[d] /\ replies'[d] = replies[d],
              UNCHANGED <<role, statuses, patches, offered, cites>>
      PROVE  HeardInv'
  <2>1. e.pos \in 0..Units
    BY DEF Exam
  <2>2. replies'[c] \in 0..(MaxRetries + 1) * (Units + 1)
    <3> DEFINE upto == (MaxRetries + 1) * e.pos
               all == (MaxRetries + 1) * (Units + 1)
    <3>1. upto \in Nat /\ all \in Nat /\ upto <= all
      BY <1>1, <1>3, <2>1, Budgets
    <3>2. replies'[c] <= upto
      BY <1>17
    <3> HIDE DEF upto, all
    <3>3. replies'[c] \in 0..all
      BY <1>17, <3>1, <3>2
    <3> QED
      BY <3>3 DEF all
  <2>3. replies' \in [Calls -> 0..(MaxRetries + 1) * (Units + 1)]
    BY <1>2, <1>17, <2>2
  <2>4. WorkTypeOK'
    BY <1>2, <1>17, <2>3 DEF WorkTypeOK
  <2>5. PICK x \in Exam :
           /\ exam' = [exam EXCEPT ![c] = x]
           /\ \/ at' = [at EXCEPT ![c] = "returned"]
              \/ /\ at' = [at EXCEPT ![c] = "ask"] /\ retries' = [retries EXCEPT ![c] = 0]
                 /\ e.pos < x.pos
    BY <1>17, NextPatchFacts
  <2>6. /\ exam'[c] = x /\ \A d \in Calls \ {c} : exam'[d] = exam[d] /\ at'[d] = at[d]
        /\ at'[c] = "returned" \/ (at'[c] = "ask" /\ retries'[c] = 0 /\ e.pos < x.pos)
    BY <1>1, <1>2, <2>5
  <2>7. \A d \in Calls \ {c} : retries'[d] = retries[d]
    BY <1>1, <1>17 DEF NextPatch, StartAsking
  <2>8. e.pos < x.pos => replies'[c] <= (MaxRetries + 1) * (x.pos - 1)
    <3> SUFFICES ASSUME e.pos < x.pos PROVE replies'[c] <= (MaxRetries + 1) * (x.pos - 1)
      OBVIOUS
    <3>1. x.pos - 1 \in Nat /\ e.pos \in Nat /\ e.pos <= x.pos - 1
      BY <1>1, <2>1 DEF Exam
    <3>2. /\ (MaxRetries + 1) * e.pos <= (MaxRetries + 1) * (x.pos - 1)
          /\ (MaxRetries + 1) * e.pos \in Nat /\ (MaxRetries + 1) * (x.pos - 1) \in Nat
      BY <3>1, Budgets
    <3> QED
      BY <1>17, <3>2
  <2>9. at'[c] \in Asking => replies'[c] <= (MaxRetries + 1) * (x.pos - 1) + retries'[c]
    <3> SUFFICES ASSUME at'[c] \in Asking
                 PROVE  replies'[c] <= (MaxRetries + 1) * (x.pos - 1) + retries'[c]
      OBVIOUS
    <3>1. retries'[c] = 0 /\ e.pos < x.pos
      BY <2>6
    <3>2. x.pos - 1 \in Nat
      BY <1>1, <2>1, <3>1 DEF Exam
    <3>3. (MaxRetries + 1) * (x.pos - 1) \in Nat
      BY <3>2, Budgets
    <3> QED
      BY <2>8, <3>1, <3>3
  <2> QED
    BY <1>4, <1>17, <2>4, <2>6, <2>7, <2>9
<1>18. ASSUME NEW c \in Calls, StartExam(c) PROVE HeardInv'
  <2>1. NoExam \in Exam /\ Examined(NoExam, NoExam.pos + 1) /\ NoExam.pos = 0
    <3>1. NoExam.pos = 0 /\ NoExam.tests = {} /\ NoExam.errors = {}
      BY DEF NoExam
    <3>2. {u \in Testable : u < 0 + 1} = {}
      BY CodeAssumption DEF Testable
    <3>3. NoExam \in Exam
      BY CodeAssumption DEF NoExam, Exam
    <3> QED
      BY <3>1, <3>2, <3>3 DEF Examined
  <2>2. /\ role[c] = "examiner" /\ NextPatch(c, NoExam) /\ HeardNothing(c)
        /\ UNCHANGED <<role, statuses, patches, offered, cites>>
    BY <1>18 DEF StartExam, process
  <2>3. replies'[c] \in Nat /\ replies'[c] <= (MaxRetries + 1) * NoExam.pos
    BY <1>1, <1>7, <2>1, <2>2
  <2>4. DOMAIN replies' = Calls /\ replies' = [d \in Calls |-> replies'[d]]
    BY <1>7, <2>2
  <2> QED
    BY <1>7, <1>17, <2>1, <2>2, <2>3, <2>4
\* A reply is one more in the budget of its patch.
<1>19. ASSUME NEW c \in Calls, role[c] = "examiner", at[c] = "reply"
       PROVE  /\ exam[c] \in Exam /\ exam[c].pos \in Testable /\ Testable \subseteq 1..Units
              /\ Examined(exam[c], exam[c].pos)
              /\ replies[c] + 1 <= (MaxRetries + 1) * exam[c].pos
              /\ replies[c] + 1 \in 0..(MaxRetries + 1) * (Units + 1)
  <2>1. /\ exam[c] \in Exam /\ exam[c].pos \in Testable /\ Testable \subseteq 1..Units
        /\ Examined(exam[c], exam[c].pos)
    BY <1>19 DEF ExamInv, Testable
  <2>2. exam[c].pos - 1 \in Nat /\ exam[c].pos \in Nat /\ exam[c].pos <= Units + 1
    <3>1. exam[c].pos \in 1..Units
      BY <2>1
    <3> QED
      BY <1>1, <3>1
  <2>3. replies[c] <= (MaxRetries + 1) * (exam[c].pos - 1) + retries[c]
    BY <1>19 DEF HeardInv
  <2>4. /\ (MaxRetries + 1) * exam[c].pos = (MaxRetries + 1) * (exam[c].pos - 1) + MaxRetries + 1
        /\ (MaxRetries + 1) * (exam[c].pos - 1) \in Nat
    <3> DEFINE n == exam[c].pos - 1
    <3>1. n \in Nat /\ exam[c].pos = n + 1
      BY <2>2
    <3> HIDE DEF n
    <3>2. (MaxRetries + 1) * (n + 1) = (MaxRetries + 1) * n + MaxRetries + 1 /\ (MaxRetries + 1) * n \in Nat
      BY <3>1, Budgets
    <3> QED
      BY <3>1, <3>2 DEF n
  <2>5. /\ (MaxRetries + 1) * exam[c].pos <= (MaxRetries + 1) * (Units + 1)
        /\ (MaxRetries + 1) * exam[c].pos \in Nat
    BY <1>1, <2>2, Budgets
  <2>6. replies[c] \in Nat /\ retries[c] \in 0..MaxRetries
    BY <1>1, <1>2, <1>3
  <2> DEFINE before == (MaxRetries + 1) * (exam[c].pos - 1)
             upto == (MaxRetries + 1) * exam[c].pos
             all == (MaxRetries + 1) * (Units + 1)
  <2>7. /\ before \in Nat /\ upto \in Nat /\ all \in Nat /\ upto <= all
        /\ upto = before + MaxRetries + 1 /\ replies[c] <= before + retries[c]
    BY <1>3, <2>3, <2>4, <2>5
  <2> HIDE DEF before, upto, all
  <2>8. replies[c] + 1 <= upto /\ replies[c] + 1 \in 0..all
    BY <1>1, <2>6, <2>7
  <2> QED
    BY <2>1, <2>8 DEF upto, all
<1>20. ASSUME NEW c \in Calls, HearTest(c) PROVE HeardInv'
  <2>1. PICK source \in TestSources \ {"empty"} :
          /\ ValidateTestSyntax(source)
          /\ NextPatch(c, [exam[c] EXCEPT !.tests = @ \cup {<<exam[c].pos, source>>}])
    BY <1>20 DEF HearTest
  <2>2. source = "good"
    BY <2>1 DEF TestSources, ValidateTestSyntax
  <2> DEFINE e == [exam[c] EXCEPT !.tests = exam[c].tests \cup {<<exam[c].pos, "good">>}]
  <2>3. /\ role[c] = "examiner" /\ at[c] = "reply" /\ NextPatch(c, e) /\ Hears(c, Answer({}))
        /\ UNCHANGED <<role, statuses, patches, offered, cites>>
    BY <1>20, <2>1, <2>2 DEF HearTest, process
  <2>4. /\ exam[c] \in Exam /\ exam[c].pos \in Testable /\ Testable \subseteq 1..Units
        /\ Examined(exam[c], exam[c].pos)
    BY <1>19, <2>3
  <2>5. e \in Exam /\ e.pos = exam[c].pos /\ Examined(e, e.pos + 1)
    BY <2>4, TestAdded
  <2> HIDE DEF e
  <2>6. /\ replies'[c] \in Nat /\ replies'[c] <= (MaxRetries + 1) * e.pos
        /\ reply' \in [Calls -> Replies] /\ DOMAIN replies' = Calls
        /\ replies' = [d \in Calls |-> replies'[d]]
        /\ \A d \in Calls \ {c} : reply'[d] = reply[d] /\ replies'[d] = replies[d]
    BY <1>2, <1>6, <1>8, <1>19, <2>3, <2>5
  <2> QED
    BY <1>17, <2>3, <2>5, <2>6
<1>21. ASSUME NEW c \in Calls, HearNoTest(c) PROVE HeardInv'
  <2>1. /\ role[c] = "examiner" /\ at[c] = "reply" /\ Hears(c, Unusable)
        /\ UNCHANGED <<role, statuses, patches, offered, cites>>
    BY <1>21 DEF HearNoTest, process
  <2>2. /\ replies'[c] = replies[c] + 1
        /\ reply' \in [Calls -> Replies] /\ DOMAIN replies' = Calls
        /\ replies' = [replies EXCEPT ![c] = replies[c] + 1]
        /\ \A d \in Calls \ {c} : reply'[d] = reply[d] /\ replies'[d] = replies[d]
    BY <1>6, <1>8, <2>1
  <2>3. CASE AskAgain(c) /\ UNCHANGED exam
    <3>1. replies' \in [Calls -> 0..(MaxRetries + 1) * (Units + 1)]
      BY <1>2, <1>19, <2>1, <2>2
    <3>2. WorkTypeOK'
      BY <1>2, <2>1, <2>3, <3>1 DEF WorkTypeOK
    <3>3. replies'[c] <= (MaxRetries + 1) * (exam'[c].pos - 1) + retries'[c]
      <4>1. replies[c] <= (MaxRetries + 1) * (exam[c].pos - 1) + retries[c]
        BY <2>1 DEF HeardInv
      <4>2. exam[c].pos - 1 \in Nat
        BY <1>1, <1>19, <2>1
      <4>3. (MaxRetries + 1) * (exam[c].pos - 1) \in Nat
        BY <4>2, Budgets
      <4> DEFINE before == (MaxRetries + 1) * (exam[c].pos - 1)
      <4>4. /\ before \in Nat /\ replies[c] <= before + retries[c]
            /\ replies[c] \in Nat /\ retries[c] \in Nat
        BY <1>1, <1>2, <1>3, <4>1, <4>3
      <4>5. exam'[c].pos = exam[c].pos /\ retries'[c] = retries[c] + 1
        BY <1>10, <2>3
      <4> HIDE DEF before
      <4>6. replies'[c] <= before + retries'[c]
        BY <2>2, <4>4, <4>5
      <4> QED
        BY <4>5, <4>6 DEF before
    <3> QED
      BY <1>4, <1>10, <2>1, <2>2, <2>3, <3>2, <3>3
  <2>4. CASE NextPatch(c, Reported(exam[c]))
    <3> DEFINE e == Reported(exam[c])
    <3>1. /\ exam[c] \in Exam /\ exam[c].pos \in Testable /\ Testable \subseteq 1..Units
          /\ Examined(exam[c], exam[c].pos)
      BY <1>19, <2>1
    <3>2. e \in Exam /\ e.pos = exam[c].pos /\ Examined(e, e.pos + 1)
      BY <3>1, ErrorAdded
    <3> HIDE DEF e
    <3>3. replies'[c] \in Nat /\ replies'[c] <= (MaxRetries + 1) * e.pos
      <4>1. /\ replies'[c] <= (MaxRetries + 1) * exam[c].pos
            /\ replies'[c] \in 0..(MaxRetries + 1) * (Units + 1)
        BY <1>19, <2>1, <2>2
      <4> QED
        BY <1>3, <3>2, <4>1
    <3>4. replies' = [d \in Calls |-> replies'[d]]
      BY <1>2, <2>2
    <3> QED
      BY <1>17, <2>1, <2>2, <2>4, <3>2, <3>3, <3>4 DEF e
  <2> QED
    BY <1>21, <2>3, <2>4 DEF HearNoTest
<1>22. CASE UNCHANGED <<work, role, at, retries>>
  <2>1. UNCHANGED <<statuses, patches, exam, offered, cites, reply, replies, role>>
    BY <1>22 DEF work, heard
  <2>2. WorkTypeOK'
    BY <1>2, <2>1 DEF WorkTypeOK
  <2> QED
    BY <1>22, <2>1, <2>2 DEF HeardInv, ReturnedPatches
<1> QED
  BY <1>5, <1>12, <1>13, <1>14, <1>15, <1>16, <1>18, <1>20, <1>21, <1>22, HeardCases DEF CodeStep


LEMMA HeardInit1 == Init => HeardInv
<1> SUFFICES ASSUME Init PROVE HeardInv
  OBVIOUS
<1> DEFINE all == (MaxRetries + 1) * (Units + 1)
<1>1. all \in Nat
  BY RouterAssumption, CodeAssumption, Budgets
<1>2. NoExam \in Exam /\ Unusable \in Replies
  BY CodeAssumption DEF NoExam, Exam, Unusable, Replies
<1> HIDE DEF all
<1>3. replies \in [Calls -> 0..all]
  BY <1>1 DEF Init, WorkInit
<1>4. WorkTypeOK
  BY <1>2, <1>3 DEF Init, WorkInit, WorkTypeOK, all
<1>5. \A c \in Calls : at[c] = "start"
  BY DEF Init, RouterInit
<1> QED
  BY <1>2, <1>4, <1>5 DEF Init, WorkInit, HeardInv, Asking

LEMMA HeardHolds == Spec => [](RouterInv /\ PlanInv /\ ExamInv /\ HeardInv)
<1>1. Init => RouterInv /\ PlanInv /\ ExamInv /\ HeardInv
  BY RouterInit1, PlanInit1, ExamInit1, HeardInit1
<1>2. RouterInv /\ PlanInv /\ ExamInv /\ HeardInv /\ [Next]_vars
        => (RouterInv /\ PlanInv /\ ExamInv /\ HeardInv)'
  <2> SUFFICES ASSUME RouterInv, PlanInv, ExamInv, HeardInv, [Next]_vars
               PROVE  (RouterInv /\ PlanInv /\ ExamInv /\ HeardInv)'
    OBVIOUS
  <2>1. RouterInv' /\ PlanInv' /\ ExamInv'
    BY RouterStep, PlanStep, ExamStep
  <2> QED
    BY <2>1, HeardStep
<1> QED
  BY <1>1, <1>2, PTL DEF Spec

\* Every variable of the router, the Cartographer and the agents that read code
\* keeps its type: above all, the replies an attempt is given stay within a
\* budget of MaxRetries + 1 for each patch, however often its step is run again.
THEOREM TypeCorrectness == Spec => []TypeOK
<1>1. RouterInv /\ PlanInv /\ ExamInv /\ HeardInv => TypeOK
  BY DEF RouterInv, PlanInv, HeardInv, TypeOK
<1> QED
  BY <1>1, HeardHolds, PTL

\* For any batch, any retry budget and any replies, what migrateBatch returns as
\* proposed was validated, and its confidence is that of the reply it came with.
THEOREM ValidatedPatches == Spec => []ProposedPatchesWereValidated
<1>1. HeardInv => ProposedPatchesWereValidated
  <2> SUFFICES ASSUME HeardInv, NEW c \in Calls, role[c] = "surgeon", at[c] = "returned",
                      NEW p \in patches[c], p.status = "proposed"
               PROVE  /\ p.filePath \in Files
                      /\ p.after # "same"
                      /\ p.filePath \in Parseable => p.after = "good"
                      /\ p.retries = replies[c] - 1
                      /\ <<p.retries, p.confidence>> \in
                           {<<0, 85>>, <<1, 70>>} \cup ((2..MaxRetries) \X {50})
    BY DEF ProposedPatchesWereValidated
  <2>1. ReturnedPatches(c)
    BY DEF HeardInv
  <2>2. \A q \in Stubs : q.status = "unresolved"
    BY DEF Stubs, Stub
  <2>3. /\ ValidatePatchSyntax(reply[c].patches)
        /\ replies[c] \in 1..(MaxRetries + 1)
        /\ patches[c] = Proposed(reply[c].patches, replies[c] - 1)
    BY <2>1, <2>2 DEF ReturnedPatches
  <2>4. PICK q \in reply[c].patches :
          /\ Kept(q)
          /\ p = [filePath |-> q.filePath, after |-> q.after, status |-> "proposed",
                  confidence |-> ConfidenceForRetries(replies[c] - 1), retries |-> replies[c] - 1]
    BY <2>3 DEF Proposed
  <2>5. q.after \in Contents
    BY DEF HeardInv, Replies, LlmPatch
  <2>6. p.filePath = q.filePath /\ p.after = q.after /\ p.retries = replies[c] - 1
        /\ p.confidence = ConfidenceForRetries(replies[c] - 1)
    BY <2>4
  <2>7. /\ p.filePath \in Files /\ p.after # "same"
        /\ p.filePath \in Parseable => p.after = "good"
    BY <2>3, <2>4, <2>5, <2>6 DEF Kept, ValidatePatchSyntax, Contents
  <2>8. <<p.retries, p.confidence>> \in {<<0, 85>>, <<1, 70>>} \cup ((2..MaxRetries) \X {50})
    <3>1. MaxRetries \in Nat /\ p.retries \in 0..MaxRetries
      BY <2>3, <2>6, RouterAssumption
    <3>2. CASE p.retries = 0
      <4>1. p.confidence = 85
        BY <2>6, <3>2 DEF ConfidenceForRetries
      <4> QED
        BY <3>2, <4>1
    <3>3. CASE p.retries = 1
      <4>1. p.confidence = 70
        BY <2>6, <3>3 DEF ConfidenceForRetries
      <4> QED
        BY <3>3, <4>1
    <3>4. CASE p.retries >= 2
      <4>1. p.confidence = 50
        BY <2>6, <3>1, <3>4 DEF ConfidenceForRetries
      <4> QED
        BY <3>1, <3>4, <4>1
    <3> QED
      BY <3>1, <3>2, <3>3, <3>4
  <2> QED
    BY <2>6, <2>7, <2>8
<1> QED
  BY <1>1, HeardHolds, PTL

\* A batch is given up when the budget is spent, and never before, and then each
\* of its files has a row that says so.
THEOREM VisibleGivingUp == Spec => []GaveUpIsVisible
<1>1. HeardInv => GaveUpIsVisible
  <2> SUFFICES ASSUME HeardInv, NEW c \in Calls, role[c] = "surgeon", at[c] = "returned"
               PROVE  LET unresolved == {p \in patches[c] : p.status = "unresolved"}
                      IN  IF \/ ~reply[c].usable
                             \/ \E p \in reply[c].patches : p.filePath \in Parseable /\ p.after = "broken"
                          THEN replies[c] = MaxRetries + 1 /\ {p.filePath : p \in unresolved} = Files
                          ELSE unresolved = {}
    BY DEF GaveUpIsVisible
  <2> DEFINE unresolved == {p \in patches[c] : p.status = "unresolved"}
             bad == ~reply[c].usable \/ ~ValidatePatchSyntax(reply[c].patches)
  <2>1. ReturnedPatches(c)
    BY DEF HeardInv
  <2>2. bad <=> \/ ~reply[c].usable
                \/ \E p \in reply[c].patches : p.filePath \in Parseable /\ p.after = "broken"
    BY DEF ValidatePatchSyntax
  <2>3. CASE bad
    <3>1. replies[c] = MaxRetries + 1 /\ patches[c] = Stubs
      BY <2>1, <2>3 DEF ReturnedPatches
    <3>2. unresolved = Stubs
      BY <3>1 DEF Stubs, Stub
    <3>3. {p.filePath : p \in Stubs} = Files
      <4>1. \A f : Stub(f).filePath = f
        BY DEF Stub
      <4> QED
        BY <4>1 DEF Stubs
    <3> QED
      BY <2>2, <2>3, <3>1, <3>2, <3>3
  <2>4. CASE ~bad
    <3>1. patches[c] = Proposed(reply[c].patches, replies[c] - 1)
      BY <2>1, <2>4 DEF ReturnedPatches
    <3>2. unresolved = {}
      BY <3>1 DEF Proposed
    <3> QED
      BY <2>2, <2>4, <3>2
  <2> QED
    BY <2>3, <2>4
<1> QED
  BY <1>1, HeardHolds, PTL

================================================================================
