------------------------------ MODULE MCLlmAgents -------------------------------
(* A small instance of LlmAgents for TLC: a step of a workflow and a call that *)
(* is not retried, of every agent.                                             *)
EXTENDS LlmAgents

CONSTANTS wf, direct, code, data, stray, none

MCCalls == {wf, direct}

MCDurable == {wf}

Setting(r, s, providers) ==
  [role |-> [c \in MCCalls |-> IF c = wf THEN r ELSE s], providers |-> providers]

\* Agents that share state together, the others beside one that is soon done.
MCSettings == {
  Setting("pack", "pack", {"groq"}),
  Setting("source", "source", {"watsonx", "groq"}),
  Setting("source", "source", {"gemini", "groq"}),
  Setting("source", "source", {"mcp"}),
  Setting("surgeon", "pack", {"gateway"}),
  Setting("examiner", "pack", {"groq"}),
  Setting("pack", "asker", {"gemini"}) }

PackInput(kind, from, to, pkg) ==
  [agentKind |-> kind, ecosystem |-> "npm", fromVersion |-> from, toVersion |-> to,
   package |-> pkg]

\* The characters of some versions.
v1 == <<"1">>
v18 == <<"1", "8">>
v18_2 == <<"1", "8", ".", "2">>
v19 == <<"1", "9">>
v819 == <<"8", "1", "9">>

\* Two ways to ask for one pack, two that ask for what no pack fits, of which the
\* first has the key of a pack that fits, and two refusals.
MCPackInputs == {
  PackInput("migrate", v18, v19, <<>>),
  PackInput("migrate", v1, v819, <<>>),
  PackInput("migrate", v18, v19, <<"tailwindcss">>),
  PackInput("migrate", v18_2, v19, <<"react">>),
  PackInput("refactor", v18, v19, <<>>),
  PackInput("qa", v18, v19, <<>>) }

\* One changelog, which both calls ask about.
MCSourceInputs == {
  [sourceText |-> <<"changes">>, sourceKind |-> "changelog", agentKind |-> "migrate"]}

MCSourceRules == {{}, {"rule"}}

MCFiles == {code, data}

MCParseable == {code, stray}

================================================================================
