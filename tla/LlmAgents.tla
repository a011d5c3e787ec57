------------------------------- MODULE LlmAgents --------------------------------
(***************************************************************************)
(* The agents over the router: several calls of several agents at once, one *)
(* process, one cache of plans, with failures anywhere. What the agents'    *)
(* callers rely on is stated here.                                          *)
(***************************************************************************)
EXTENDS Cartographer, CodeAgents

vars == <<process, loop, planning, work>>

Init ==
  /\ RouterInit
  /\ PlanInit
  /\ WorkInit

Step(c) ==
  \/ Route(c) /\ UNCHANGED <<planning, work>>
  \/ CartographerStep(c) /\ UNCHANGED work
  \/ CodeStep(c) /\ UNCHANGED planning

Next ==
  \/ \E c \in Calls : Step(c)
  \/ \E c \in Calls : Fault(c) /\ UNCHANGED <<planning, work>>
  \/ SetMcpServer /\ UNCHANGED <<planning, work>>
  \/ Tick /\ UNCHANGED <<planning, work>>

\* A call goes on: a request is answered, and Inngest runs a step again.
Fairness == \A c \in Calls : WF_vars(Step(c))

Spec == Init /\ [][Next]_vars /\ Fairness

--------------------------------------------------------------------------------
(* Properties.                                                              *)

TypeOK == RouterTypeOK /\ PlanTypeOK /\ WorkTypeOK

\* Callers of the Cartographer that share a cache key share a plan: the first one
\* saved. Runs of one job that plan at once, a step that is retried after its
\* save, a reader between the save's two inserts, all get the same rules.
Register == INSTANCE PlanRegister WITH
  Readers <- Calls,
  Keys <- CacheKeys,
  Plans <- RuleSets,
  NoPlan <- NoRules,
  decided <- [k \in CacheKeys |-> IF k \in maps THEN rules[k] ELSE NoRules],
  told <- [c \in Calls |-> IF Planner(c) /\ at[c] = "returned"
                          THEN <<Key(c), plan[c]>> ELSE NoRules]

PlansAgree == Register!Spec

\* What can be decided for an input: the rules of the packs that fit it, if any
\* does; for a source, whatever a model answers.
RulesFor(i) ==
  IF i \in PackInputs THEN {ResolvePackRules(i)} \ {{}} ELSE SourceRules

\* A plan is what was decided for an input of the same cache key, and is all of
\* it: no caller holds a half of a map, or rules that were decided for no input,
\* whoever wrote the map and whoever failed half way.
PlansFitTheirKey ==
  \A c \in Calls : Planner(c) /\ at[c] = "returned" =>
    \E i \in PackInputs \cup SourceInputs :
      CacheKey(i) = Key(c) /\ plan[c] \in RulesFor(i)

\* What the Surgeon proposes changes a file of its batch, is code that parses
\* where code can be parsed, and carries the confidence earned by the number of
\* replies it took, in this attempt of its step.
ProposedPatchesWereValidated ==
  \A c \in Calls : role[c] = "surgeon" /\ at[c] = "returned" =>
    \A p \in patches[c] : p.status = "proposed" =>
      /\ p.filePath \in Files
      /\ p.after # "same"
      /\ p.filePath \in Parseable => p.after = "good"
      /\ p.retries = replies[c] - 1
      /\ <<p.retries, p.confidence>> \in {<<0, 85>>, <<1, 70>>} \cup ((2..MaxRetries) \X {50})

\* A batch the Surgeon gives up leaves a row for each of its files, after as many
\* replies as the budget has and not before; one it does not give up leaves none.
GaveUpIsVisible ==
  \A c \in Calls : role[c] = "surgeon" /\ at[c] = "returned" =>
    LET unresolved == {p \in patches[c] : p.status = "unresolved"}
    IN  IF \/ ~reply[c].usable
           \/ \E p \in reply[c].patches : p.filePath \in Parseable /\ p.after = "broken"
        THEN replies[c] = MaxRetries + 1 /\ {p.filePath : p \in unresolved} = Files
        ELSE unresolved = {}

\* Every patch worth testing that examineBatch was given either has one test,
\* which is code that parses, or is in errors, and no other is, however the model
\* answers and however often the step is run again.
TestedOrReported ==
  \A c \in Calls : role[c] = "examiner" /\ at[c] = "returned" =>
    LET tested == {test[1] : test \in exam[c].tests}
    IN  /\ tested \cup exam[c].errors = Testable
        /\ tested \cap exam[c].errors = {}
        /\ exam[c].tests \subseteq tested \X {"good"}

\* A request to watsonx goes out with a token that is good for Margin more,
\* although two calls may refresh the token at once and the later answer wins.
TokensAreFresh ==
  [][\A c \in Calls :
       /\ at[c] \in {"ask", "token"} /\ at'[c] = "reply"
       /\ SelectAdapter(large[c]) = "watsonx"
       => now + Margin <= token'.until]_vars

\* Every call returns or fails: no agent asks for ever.
CallsEnd == \A c \in Calls : <>Ended(c)

\* A step that plans from a pack gets its plan in the end, although it may lose
\* the race for the cache, or be cut off after its save.
DurablePackPlans ==
  \A c \in Durable :
    role[c] = "pack" /\ ~NotApplicable(c) /\ ResolvePackRules(input[c]) # {}
      ~> at[c] = "returned"

================================================================================
