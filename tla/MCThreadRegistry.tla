-------------------------- MODULE MCThreadRegistry --------------------------
(* Small instances of ThreadRegistry for TLC.                              *)
EXTENDS ThreadRegistry, TLC

CONSTANTS c1, c2, r

OneCaller == {c1}
TwoCallers == {c1, c2}
OnRunnerZero == [c \in Callers |-> 0]
OwnRunners == (c1 :> 0) @@ (c2 :> 1)
OnRunnerOne == [c \in Callers |-> 1]
AllFaults == FaultKinds
=============================================================================
