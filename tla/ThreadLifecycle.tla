-------------------------- MODULE ThreadLifecycle --------------------------
(***************************************************************************)
(* What the thread registry of a module promises to its users: every       *)
(* thread ID is issued once and in order, names one thread through one     *)
(* life, and is joined at most once; at most Limit threads are alive; a    *)
(* module whose registry has been closed issues no ID and has no thread.   *)
(***************************************************************************)
EXTENDS Naturals, FiniteSets

CONSTANTS
  ThreadIds,  \* the thread IDs, 1 .. n
  Limit       \* how many threads may be alive

VARIABLES
  life,       \* what has become of each ID
  open,       \* whether IDs are still issued
  settled     \* whether the registry has been emptied for good

vars == <<life, open, settled>>

Stages == {"unborn", "creating", "live", "finished", "joined", "failed"}
Alive  == {"creating", "live", "finished"}

Init ==
  /\ life = [i \in ThreadIds |-> "unborn"]
  /\ open = TRUE
  /\ settled = FALSE

Move(i, from, to) ==
  /\ life[i] = from
  /\ life' = [life EXCEPT ![i] = to]
  /\ UNCHANGED <<open, settled>>

(* IDs are issued in increasing order, none of them twice.                 *)
Issue(i) ==
  /\ open
  /\ \A j \in ThreadIds : j < i => life[j] # "unborn"
  /\ Cardinality({j \in ThreadIds : life[j] \in Alive}) < Limit
  /\ Move(i, "unborn", "creating")

Start(i)   == Move(i, "creating", "live")
Abandon(i) == Move(i, "creating", "failed")
End(i)     == Move(i, "live", "finished")
Join(i)    == Move(i, "finished", "joined")

Close == open' = FALSE /\ UNCHANGED <<life, settled>>

Settle ==
  /\ ~open
  /\ \A i \in ThreadIds : life[i] \notin Alive
  /\ settled' = TRUE
  /\ UNCHANGED <<life, open>>

Next ==
  \/ \E i \in ThreadIds : Issue(i) \/ Start(i) \/ Abandon(i) \/ End(i) \/ Join(i)
  \/ Close
  \/ Settle

Spec == Init /\ [][Next]_vars

=============================================================================
