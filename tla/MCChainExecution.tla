-------------------------- MODULE MCChainExecution --------------------------
(* Small groups of chains over the modules m, n, p and q.                  *)
EXTENDS ChainExecution, TLC

CONSTANTS m, n, p, q, c1, c2, c3, t1, t2

Nothing    == [from |-> "nothing"]
Input      == [from |-> "input"]
Returns(k) == [from |-> "order", order |-> k]

OrderOf(module, processors, source) ==
  [module |-> module, processors |-> processors, source |-> source]

(* Chain c1 feeds n with what m returns; m's commands pass p, which        *)
(* executes c2, whose commands pass q.  No chain is entered twice, so the  *)
(* nesting never comes to its bound.  Chain c3 is another thread's.        *)
LayeredOrders ==
     c1 :> <<OrderOf(m, <<p>>, Input), OrderOf(n, <<>>, Returns(1))>>
  @@ c2 :> <<OrderOf(n, <<q>>, Input)>>
  @@ c3 :> <<OrderOf(n, <<q>>, Nothing)>>
LayeredStarts == (t1 :> {c1}) @@ (t2 :> {c3})
LayeredNested == {<<p, c2>>}

(* One order with two processors.                                          *)
TwoProcessors == c1 :> <<OrderOf(m, <<p, q>>, Nothing)>>
OneThread     == t1 :> {c1}

(* No chain is entered twice in these groups.                              *)
ASSUME GroupsLayered ==
  \E owner \in [Chains -> Threads], level \in [Chains -> {0, 1}] : Layered(owner, level)
=============================================================================
