------------------------------- MODULE LlmRouter -------------------------------
(***************************************************************************)
(* How an agent's call reaches a language model: the router of              *)
(* packages/llm, its five adapters, and the loop in which every agent asks  *)
(* again, with the error in the conversation, when it cannot use the reply. *)
(*                                                                          *)
(* Calls are calls of agent methods under way in one process: tools of the  *)
(* MCP server share one router, which is the harder case; a step of a       *)
(* workflow makes a router of its own. A call in Durable is the body of an  *)
(* Inngest step: what throws is run again from its first line, MaxAttempts  *)
(* times in all. Any other call that throws has failed.                     *)
(*                                                                          *)
(* Time counts only for the IAM token of watsonx. The agents themselves are *)
(* in Cartographer and CodeAgents; LlmAgents puts the parts together.       *)
(***************************************************************************)
EXTENDS Integers, Sequences

CONSTANTS
  Calls,         \* calls of agents
  Durable,       \* those that are the body of an Inngest step
  Settings,      \* bound: which agents are called in which environment
  MaxRetries,    \* MAX_LLM_VALIDATION_RETRIES
  MaxAttempts,   \* times Inngest runs a step
  MaxFaults,     \* bound: failures of a provider, the database or the process
  Life,          \* expires_in of an IAM token
  Margin,        \* TOKEN_SAFETY_MARGIN_MS
  IamDelay,      \* the longest a token request takes before fetch gives up
  MaxTime        \* bound: of the clock

Roles == {"pack", "source", "surgeon", "examiner", "asker"}

Providers == {"mcp", "watsonx", "gemini", "groq", "gateway"}

ASSUME RouterAssumption ==
  /\ Settings \subseteq [role : [Calls -> Roles], providers : SUBSET Providers]
  /\ Durable \subseteq Calls
  /\ MaxRetries \in Nat
  /\ MaxAttempts \in Nat \ {0}
  /\ MaxFaults \in Nat
  /\ {Life, Margin, IamDelay, MaxTime} \subseteq Nat
  /\ IamDelay + Margin <= Life

VARIABLES
  role,          \* the agent method each call is of
  configured,    \* the providers initializeAdapters found in the environment
  hosted,        \* setMcpServer has been called
  now,           \* Date.now()
  token,         \* watsonx's cachedToken, with the time the server honours it to
  at,            \* what each call does next, or waits for
  attempt,       \* which attempt of its step
  retries,       \* the loop's attempt: re-asks so far
  large,         \* the conversation has over 100k tokens
  asked,         \* when it asked for a token, while it waits for one
  faults         \* failures so far

process == <<role, configured, hosted, now, token>>
loop == <<at, attempt, retries, large, asked, faults>>

NoToken == [expiresAt |-> 0, until |-> 0]

Token == [expiresAt : 0..(MaxTime + Life), until : 0..(MaxTime + Life)]

Stops == {"start", "rules", "save", "saved", "ask", "token", "reply", "returned", "failed"}

RouterTypeOK ==
  /\ role \in [Calls -> Roles]
  /\ configured \subseteq Providers
  /\ hosted \in BOOLEAN
  /\ now \in 0..MaxTime
  /\ token \in Token
  /\ at \in [Calls -> Stops]
  /\ attempt \in [Calls -> 1..MaxAttempts]
  /\ retries \in [Calls -> 0..MaxRetries]
  /\ large \in [Calls -> BOOLEAN]
  /\ asked \in [Calls -> 0..MaxTime]
  /\ faults \in 0..MaxFaults

RouterInit ==
  /\ \E s \in Settings : role = s.role /\ configured = s.providers
  /\ hosted = FALSE
  /\ now = 0
  /\ token = NoToken
  /\ at = [c \in Calls |-> "start"]
  /\ attempt = [c \in Calls |-> 1]
  /\ retries = [c \in Calls |-> 0]
  /\ large = [c \in Calls |-> FALSE]
  /\ asked = [c \in Calls |-> 0]
  /\ faults = 0

--------------------------------------------------------------------------------
(* The end of an attempt, and moves within one.                             *)

Goto(c, stop) == at' = [at EXCEPT ![c] = stop]

Ended(c) == at[c] \in {"returned", "failed"}

\* An exception leaves the agent's method, and its variables are gone.
Throw(c) ==
  /\ IF c \in Durable /\ attempt[c] < MaxAttempts
     THEN Goto(c, "start") /\ attempt' = [attempt EXCEPT ![c] = @ + 1]
     ELSE Goto(c, "failed") /\ UNCHANGED attempt
  /\ retries' = [retries EXCEPT ![c] = 0]
  /\ large' = [large EXCEPT ![c] = FALSE]
  /\ asked' = [asked EXCEPT ![c] = 0]

\* A conversation may have over 100k tokens; it matters to Gemini only.
Sizes == {b \in BOOLEAN : b => "gemini" \in configured}

\* The first question of a loop, in a conversation of either size.
StartAsking(c) ==
  /\ Goto(c, "ask")
  /\ retries' = [retries EXCEPT ![c] = 0]
  /\ \E b \in Sizes : large' = [large EXCEPT ![c] = b]

\* Mutants of AskAgain: no end to the budget; a re-ask that is not counted.
AskAgain_NoBudget(c) ==
  /\ Goto(c, "ask")
  /\ retries' = [retries EXCEPT ![c] = @ + 1]
  /\ \E b \in Sizes : large' = [large EXCEPT ![c] = @ \/ b]

AskAgain_Uncounted(c) ==
  /\ Goto(c, "ask")
  /\ retries' = retries
  /\ \E b \in Sizes : large' = [large EXCEPT ![c] = @ \/ b]

\* A reply that cannot be used, and budget left: it is appended with the error
\* it met, which may take the conversation over the threshold.
AskAgain(c) ==
  /\ retries[c] < MaxRetries
  /\ Goto(c, "ask")
  /\ retries' = [retries EXCEPT ![c] = @ + 1]
  /\ \E b \in Sizes : large' = [large EXCEPT ![c] = @ \/ b]

OutOfRetries(c) == retries[c] = MaxRetries

--------------------------------------------------------------------------------
(* The router.                                                              *)

RoutingPolicy == <<"mcp", "watsonx", "gemini", "groq", "gateway">>

\* Gemini is for large contexts only, also when there is nothing else.
Usable(isLarge) == {p \in configured : p = "gemini" => isLarge}

SelectAdapter(isLarge) ==
  IF Usable(isLarge) = {}
  THEN "none"
  ELSE RoutingPolicy[CHOOSE i \in DOMAIN RoutingPolicy :
                       /\ RoutingPolicy[i] \in Usable(isLarge)
                       /\ \A j \in 1..(i - 1) : RoutingPolicy[j] \notin Usable(isLarge)]

Asks(c, provider) == at[c] = "ask" /\ SelectAdapter(large[c]) = provider

\* No adapter: selectAdapter throws.
AskNobody(c) ==
  /\ Asks(c, "none")
  /\ Throw(c)
  /\ UNCHANGED <<process, faults>>

\* sampling/createMessage goes to the host, once there is a server to send it.
AskHost(c) ==
  /\ Asks(c, "mcp")
  /\ IF hosted THEN Goto(c, "reply") /\ UNCHANGED <<attempt, retries, large, asked>>
               ELSE Throw(c)
  /\ UNCHANGED <<process, faults>>

\* Groq, Gemini and the gateway are asked at once.
AskModel(c) ==
  /\ \E p \in {"groq", "gemini", "gateway"} : Asks(c, p)
  /\ Goto(c, "reply")
  /\ UNCHANGED <<process, attempt, retries, large, asked, faults>>

\* watsonx needs a token: the cached one while it lasts, else a new one. Nothing
\* keeps a second call from asking for one too.
AskWatsonx(c) ==
  /\ Asks(c, "watsonx")
  /\ IF token.expiresAt > now
     THEN Goto(c, "reply") /\ UNCHANGED asked
     ELSE Goto(c, "token") /\ asked' = [asked EXCEPT ![c] = now]
  /\ UNCHANGED <<process, attempt, retries, large, faults>>

\* Mutant of ExpiresAt: from the arrival of the answer, not from the request.
ExpiresAt_Arrival(c) == now + Life - Margin

\* What getIamToken stores as the end of a token it asked for.
ExpiresAt(c) == asked[c] + Life - Margin

\* The token arrives: IAM made it at some moment since it was asked. The request
\* for the text goes out with it at once.
TokenArrives(c) ==
  /\ at[c] = "token"
  /\ \E made \in asked[c]..now :
       token' = [expiresAt |-> ExpiresAt(c), until |-> made + Life]
  /\ Goto(c, "reply")
  /\ asked' = [asked EXCEPT ![c] = 0]
  /\ UNCHANGED <<role, configured, hosted, now, attempt, retries, large, faults>>

\* A provider answers with an error, the network or the database fails, a file
\* cannot be read, or the process dies, wherever the call is.
Fault(c) ==
  /\ ~Ended(c)
  /\ faults < MaxFaults
  /\ faults' = faults + 1
  /\ Throw(c)
  /\ UNCHANGED process

\* The server's main calls setMcpServer once it is connected.
SetMcpServer ==
  /\ "mcp" \in configured
  /\ ~hosted
  /\ hosted' = TRUE
  /\ UNCHANGED <<role, configured, now, token, loop>>

Tick ==
  /\ SelectAdapter(FALSE) = "watsonx"
  /\ now < MaxTime
  /\ \A c \in Calls : at[c] = "token" => now < asked[c] + IamDelay
  /\ now' = now + 1
  /\ UNCHANGED <<role, configured, hosted, token, loop>>

Route(c) ==
  \/ AskNobody(c)
  \/ AskHost(c)
  \/ AskModel(c)
  \/ AskWatsonx(c)
  \/ TokenArrives(c)

================================================================================
