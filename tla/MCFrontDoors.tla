------------------------------ MODULE MCFrontDoors ------------------------------
(* A small instance of FrontDoors for TLC: two requests at once, in the pairs *)
(* that share something, and questions at the web door alone.                 *)
EXTENDS FrontDoors

CONSTANTS one, two, server, caller, browser, old, none, file, fix, rework, original,
          here, there

MCRequests == {one, two}

WebAsk(kind, cached) ==
  [door |-> "web", kind |-> kind, task |-> browser, cached |-> cached, patch |-> none]

McpAsk(kind, cached, patch) ==
  [door |-> "mcp", kind |-> kind, task |-> caller, cached |-> cached, patch |-> patch]

NotMade ==
  [door |-> "none", kind |-> "agent", task |-> server, cached |-> FALSE, patch |-> none]

Both(a, b) == [c \in MCRequests |-> IF c = one THEN a ELSE b]

MCAsks == {
  Both(WebAsk("qa", FALSE), NotMade),
  Both(WebAsk("qa", TRUE), NotMade),
  Both(WebAsk("refactor", FALSE), WebAsk("refactor", FALSE)),
  Both(McpAsk("qa", FALSE, none), McpAsk("refactor", FALSE, none)),
  Both(McpAsk("apply_patch", FALSE, fix), McpAsk("apply_patch", FALSE, rework)),
  Both(McpAsk("apply_patch", FALSE, fix), McpAsk("apply_patch", FALSE, fix)),
  Both(McpAsk("migrate", FALSE, none), McpAsk("apply_patch", FALSE, fix)),
  Both(McpAsk("agent", FALSE, none), McpAsk("apply_patch", FALSE, none)) }

\* A step of the workflow is on the direct runner's host, or not.
MCHostsOf == [durable |-> {here, there}, direct |-> {here}]

MCFileOf == [p \in {fix, rework} |-> file]

================================================================================
