------------------------------ MODULE PlanRegister ------------------------------
(***************************************************************************)
(* What the Cartographer's cache promises: for each cache key the rules are *)
(* decided once, and whoever is given a plan is given what was decided for  *)
(* its key. The Cartographer is shown to implement it (PlansAgree).         *)
(***************************************************************************)

CONSTANTS
  Readers,       \* those who are given plans
  Keys,          \* cache keys
  Plans,         \* what can be decided for a key
  NoPlan

VARIABLES
  decided,       \* the plan of each key
  told           \* the key and plan each reader was given

Init ==
  /\ decided = [k \in Keys |-> NoPlan]
  /\ told = [c \in Readers |-> NoPlan]

Decide(k, p) ==
  /\ decided[k] = NoPlan
  /\ decided' = [decided EXCEPT ![k] = p]
  /\ UNCHANGED told

Tell(c, k) ==
  /\ told[c] = NoPlan
  /\ decided[k] # NoPlan
  /\ told' = [told EXCEPT ![c] = <<k, decided[k]>>]
  /\ UNCHANGED decided

Next ==
  \/ \E k \in Keys, p \in Plans : Decide(k, p)
  \/ \E c \in Readers, k \in Keys : Tell(c, k)

Spec == Init /\ [][Next]_<<decided, told>>

================================================================================
