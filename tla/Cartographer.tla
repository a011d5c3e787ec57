------------------------------ MODULE Cartographer ------------------------------
(***************************************************************************)
(* The Cartographer: planFromPack and planFromSource over the cache of      *)
(* breaking-change maps. The cache is two tables, a row in                  *)
(* breaking_change_maps with a unique cache_key and its rules in            *)
(* breaking_changes, which one transaction writes and two SELECTs read.     *)
(*                                                                          *)
(* A version is the sequence of its characters, a package and a source of   *)
(* its words; a cache key is what is hashed, these sequences one after the  *)
(* other. sha256 is taken not to collide. A rule is its id, and the rules a *)
(* model writes for a source are any of SourceRules.                        *)
(***************************************************************************)
EXTENDS LlmRouter

CONSTANTS
  PackInputs,    \* the inputs planFromPack may be given
  SourceInputs,  \* the inputs planFromSource may be given
  SourceRules,   \* what a model may answer: sets of rules
  NoRules        \* no plan

VARIABLES
  input,         \* what each call is asked to plan
  maps,          \* breaking_change_maps: the cache keys that have a row
  rules,         \* breaking_changes: the rules under each key
  plan           \* the rules each call holds, or has returned

planning == <<input, maps, rules, plan>>

--------------------------------------------------------------------------------
(* Bundled packs.                                                           *)

React18To19Rules == {
  "react-19-useref-initial-arg", "react-19-defaultprops-removal",
  "react-19-string-refs-removal", "react-19-reactdom-render-removal",
  "react-19-proptypes-removal" }

Tailwind3To4Rules == {
  "tailwind-v4-css-import", "tailwind-v4-opacity-utilities",
  "tailwind-v4-shadow-rename", "tailwind-v4-default-border-color",
  "tailwind-v4-transform-filter-implicit" }

BundledPacks == {
  [ecosystem |-> "npm", package |-> <<"react">>, fromMajor |-> 18, toMajor |-> 19,
   rules |-> React18To19Rules],
  [ecosystem |-> "npm", package |-> <<"tailwindcss">>, fromMajor |-> 3, toMajor |-> 4,
   rules |-> Tailwind3To4Rules] }

Digits == <<"0", "1", "2", "3", "4", "5", "6", "7", "8", "9">>

IsDigit(character) == \E n \in DOMAIN Digits : Digits[n] = character

DigitValue(character) == (CHOOSE n \in DOMAIN Digits : Digits[n] = character) - 1

\* The number that the first digits of a version make; 0 if it has none.
ExtractMajorVersion(version) ==
  LET digits == {n \in DOMAIN version : IsDigit(version[n])}
      first == CHOOSE n \in digits : \A m \in digits : n <= m
      Value[n \in 0..Len(version)] ==
        IF n < first THEN 0 ELSE 10 * Value[n - 1] + DigitValue(version[n])
      last == CHOOSE n \in digits : first..n \subseteq digits /\ n + 1 \notin digits
  IN  IF digits = {} THEN 0 ELSE Value[last]

\* The rules of every pack that fits; none is an error of the caller's.
ResolvePackRules(i) ==
  UNION {p.rules : p \in {q \in BundledPacks :
    /\ i.agentKind = "migrate"
    /\ q.ecosystem = i.ecosystem
    /\ q.fromMajor = ExtractMajorVersion(i.fromVersion)
    /\ q.toMajor = ExtractMajorVersion(i.toVersion)
    /\ i.package # <<>> => q.package = i.package}}

--------------------------------------------------------------------------------
(* The cache.                                                               *)

\* Nothing stands between the parts.
BuildPackCacheKey(i) ==
  <<"pack", i.agentKind, i.ecosystem>> \o i.fromVersion \o i.toVersion \o i.package

\* The ecosystem and the versions are in the prompt and not in the key.
BuildSourceCacheKey(i) == i.sourceText \o <<i.sourceKind, i.agentKind>>

CacheKey(i) == IF i \in PackInputs THEN BuildPackCacheKey(i) ELSE BuildSourceCacheKey(i)

CacheKeys == {CacheKey(i) : i \in PackInputs \cup SourceInputs}

Key(c) == CacheKey(input[c])

RuleSets == {p.rules : p \in BundledPacks} \cup SourceRules

ASSUME PlanAssumption == NoRules \notin RuleSets

PlanTypeOK ==
  /\ input \in [Calls -> PackInputs \cup SourceInputs]
  /\ maps \subseteq CacheKeys
  /\ rules \in [CacheKeys -> RuleSets \cup {NoRules}]
  /\ plan \in [Calls -> RuleSets \cup {NoRules}]

PlanInit ==
  /\ input \in [Calls -> PackInputs \cup SourceInputs]
  /\ \A c \in Calls : role[c] = "pack" <=> input[c] \in PackInputs
  /\ maps = {}
  /\ rules = [k \in CacheKeys |-> NoRules]
  /\ plan = [c \in Calls |-> NoRules]

Planner(c) == role[c] \in {"pack", "source"}

NotApplicable(c) == Planner(c) /\ input[c].agentKind = "qa"

RefuseQa(c) ==
  /\ at[c] = "start"
  /\ NotApplicable(c)
  /\ Throw(c)
  /\ UNCHANGED <<process, faults, planning>>

\* Mutant of FindMap: the cache is not looked at.
FindMap_Never(c) == FALSE

\* The first SELECT of findByCacheKey.
FindMap(c) == Key(c) \in maps

LookupHit(c) ==
  /\ at[c] = "start"
  /\ Planner(c) /\ ~NotApplicable(c)
  /\ FindMap(c)
  /\ Goto(c, "rules")
  /\ UNCHANGED <<process, attempt, retries, large, asked, faults, planning>>

\* The second SELECT; reconstructRulesFromCache takes the rows as they are.
FindRules(c) ==
  /\ at[c] = "rules"
  /\ plan' = [plan EXCEPT ![c] = rules[Key(c)]]
  /\ Goto(c, "saved")
  /\ UNCHANGED <<process, attempt, retries, large, asked, faults, input, maps, rules>>

\* A miss: the bundled packs, or an exception when none fits.
ResolvePack(c) ==
  /\ at[c] = "start"
  /\ role[c] = "pack" /\ ~NotApplicable(c)
  /\ ~FindMap(c)
  /\ IF ResolvePackRules(input[c]) = {}
     THEN Throw(c) /\ UNCHANGED plan
     ELSE /\ Goto(c, "save")
          /\ plan' = [plan EXCEPT ![c] = ResolvePackRules(input[c])]
          /\ UNCHANGED <<attempt, retries, large, asked>>
  /\ UNCHANGED <<process, faults, input, maps, rules>>

\* A miss: ask the model.
ElicitRules(c) ==
  /\ at[c] = "start"
  /\ role[c] = "source" /\ ~NotApplicable(c)
  /\ ~FindMap(c)
  /\ StartAsking(c)
  /\ UNCHANGED <<process, attempt, asked, faults, planning>>

\* Rules that parse and validate end the loop ...
HearRules(c) ==
  /\ at[c] = "reply" /\ role[c] = "source"
  /\ \E r \in SourceRules : plan' = [plan EXCEPT ![c] = r]
  /\ Goto(c, "save")
  /\ UNCHANGED <<process, attempt, retries, large, asked, faults, input, maps, rules>>

\* ... a reply that does not, JSON or schema, is sent back, or is the last one:
\* CartographerLlmValidationError.
HearNoRules(c) ==
  /\ at[c] = "reply" /\ role[c] = "source"
  /\ \/ AskAgain(c) /\ UNCHANGED <<attempt, asked>>
     \/ OutOfRetries(c) /\ Throw(c)
  /\ UNCHANGED <<process, faults, planning>>

\* Mutant of Insert: two statements, and the second may be lost.
Insert_NoTransaction(k, r) ==
  /\ maps' = maps \cup {k}
  /\ rules' \in {rules, [rules EXCEPT ![k] = r]}

\* One transaction: the map row and its rules.
Insert(k, r) ==
  /\ maps' = maps \cup {k}
  /\ rules' = [rules EXCEPT ![k] = r]

\* Mutant of Taken: the unique index is gone.
Taken_Never(k) == FALSE

\* The unique index of cache_key.
Taken(k) == k \in maps

\* save: the loser of a race for the key throws.
Save(c) ==
  /\ at[c] = "save"
  /\ IF Taken(Key(c))
     THEN Throw(c) /\ UNCHANGED <<maps, rules>>
     ELSE /\ Insert(Key(c), plan[c])
          /\ Goto(c, "saved")
          /\ UNCHANGED <<attempt, retries, large, asked>>
  /\ UNCHANGED <<process, faults, input, plan>>

\* The plan is returned, and in a step Inngest has it.
ReturnPlan(c) ==
  /\ at[c] = "saved"
  /\ Goto(c, "returned")
  /\ UNCHANGED <<process, attempt, retries, large, asked, faults, planning>>

CartographerStep(c) ==
  \/ RefuseQa(c)
  \/ LookupHit(c)
  \/ FindRules(c)
  \/ ResolvePack(c)
  \/ ElicitRules(c)
  \/ HearRules(c)
  \/ HearNoRules(c)
  \/ Save(c)
  \/ ReturnPlan(c)

================================================================================
