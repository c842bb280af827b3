--------------------------- MODULE ChainExecution ---------------------------
(***************************************************************************)
(* Execution chains and the command processors of their orders             *)
(* (src/wahelib/wahe/wahe_execution.c and the first half of                *)
(* wahe_run_command_core in wahe_core.c).                                  *)
(*                                                                         *)
(* A chain executes its orders one after the other.  An order calls a      *)
(* function of a module with a copy of the message that an earlier order   *)
(* has returned or the chain was given.  While the function runs, the      *)
(* commands it issues go through the order's command processors; one of    *)
(* the commands executes another chain.  What is known of a running chain  *)
(* is kept in the chain itself and in its orders, and not in the           *)
(* activation, which matters as soon as a chain is entered twice.          *)
(***************************************************************************)
EXTENDS Naturals, Sequences, FiniteSets

CONSTANTS
  Threads,
  Modules,
  Chains,
  Orders,       \* the orders of each chain: their module, their processors
                \* and the source of their input
  Starts,       \* the chains each thread's host code executes
  Nested,       \* the pairs <<m, c>> where module m's code executes chain c
  NoChain,
  MaxCommands,  \* bound: the commands a function issues
  MaxNesting    \* bound: how deep chains are nested

Sources == [from : {"nothing", "input"}] \cup [from : {"order"}, order : Nat]
Order == [module : Modules, processors : Seq(Modules), source : Sources]

ASSUME ChainsAssumption ==
  /\ NoChain \notin Chains
  /\ Orders \in [Chains -> Seq(Order) \ {<<>>}]
  /\ \A c \in Chains : \A k \in DOMAIN Orders[c] : Orders[c][k].source.from = "order" =>
       Orders[c][k].source.order \in DOMAIN Orders[c] \ {k}
  /\ Starts \in [Threads -> SUBSET Chains]
  /\ Nested \subseteq Modules \X Chains
  /\ MaxCommands \in Nat /\ MaxNesting \in Nat \ {0}

VARIABLES
  current_eo,           \* per chain: the order being executed, 0 if none
  current_cmd_proc_id,  \* per chain: how many processors are in use
  dst_msg,              \* per order: the input allocated for it, 0 if none
  ret_msg,              \* per order: whether its last call returned a message
  cur_chain,            \* per thread: the chain it believes to execute
  stack,                \* per thread: activations of chains and functions
  live,                 \* per thread: its input allocations
  interpreted           \* per thread: the processors seen by the last command
                        \* of an order that has left them

chainVars == <<current_eo, current_cmd_proc_id, dst_msg, ret_msg>>
vars == <<current_eo, current_cmd_proc_id, dst_msg, ret_msg, cur_chain, stack,
          live, interpreted>>

Init ==
  /\ current_eo = [c \in Chains |-> 0]
  /\ current_cmd_proc_id = [c \in Chains |-> 0]
  /\ dst_msg = [c \in Chains |-> [k \in DOMAIN Orders[c] |-> 0]]
  /\ ret_msg = [c \in Chains |-> [k \in DOMAIN Orders[c] |-> FALSE]]
  /\ cur_chain = [t \in Threads |-> NoChain]
  /\ stack = [t \in Threads |-> <<>>]
  /\ live = [t \in Threads |-> {}]
  /\ interpreted = [t \in Threads |-> [order |-> <<>>, seen |-> {}]]

-----------------------------------------------------------------------------
(* Activations.                                                            *)

Top(t)           == stack[t][Len(stack[t])]
IsIn(t, kinds)   == stack[t] # <<>> /\ Top(t).kind \in kinds
Below(t)         == SubSeq(stack[t], 1, Len(stack[t]) - 1)
Push(t, frame)   == stack' = [stack EXCEPT ![t] = Append(@, frame)]
Replace(t, frame) == stack' = [stack EXCEPT ![t] = Append(Below(t), frame)]
Pop(t)           == stack' = [stack EXCEPT ![t] = Below(t)]
Depth(t)         == Cardinality({k \in DOMAIN stack[t] : stack[t][k].kind = "chain"})

(* Mutant: the orders are counted from 0.                                  *)
FromZero(c, input, previous) ==
  [kind |-> "chain", chain |-> c, order |-> 0, input |-> input,
   previous |-> previous, at |-> "next"]

ChainFrame(c, input, previous) ==
  [kind |-> "chain", chain |-> c, order |-> 1, input |-> input,
   previous |-> previous, at |-> "next"]

(* A module's function, called by an order or as a processor.  The command *)
(* a processor handles has been seen by the processors in seen.            *)
Function(kind, m, c, k, input, seen) ==
  [kind |-> kind, module |-> m, chain |-> c, order |-> k, input |-> input,
   seen |-> seen, left |-> MaxCommands]

Fresh(t) == CHOOSE n \in 1..(Cardinality(live[t]) + 1) : n \notin live[t]

Allocated(t) == live' = [live EXCEPT ![t] = @ \cup {Fresh(t)}]

(* Mutant: an input copy is not freed.                                     *)
Kept(t, n) == UNCHANGED live

Freed(t, n) == live' = [live EXCEPT ![t] = @ \ {n}]

-----------------------------------------------------------------------------
(* wahe_execute_chain_from_module.                                         *)

Execute(t, c, input) ==
  /\ cur_chain' = [cur_chain EXCEPT ![t] = c]
  /\ Push(t, ChainFrame(c, input, cur_chain[t]))

StartChain(t) ==
  /\ stack[t] = <<>>
  /\ \E c \in Starts[t], input \in BOOLEAN : Execute(t, c, input)
  /\ UNCHANGED <<chainVars, live, interpreted>>

Finished(frame) == frame.order > Len(Orders[frame.chain])

(* The source of the order's input, if there is a message.                 *)
HasInput(frame) ==
  LET source == Orders[frame.chain][frame.order].source
  IN  \/ source.from = "input" /\ frame.input
      \/ source.from = "order" /\ ret_msg[frame.chain][source.order]

(* The pending input of the order is forgotten before another is copied.   *)
PrepareInput(t) ==
  /\ IsIn(t, {"chain"}) /\ Top(t).at = "next" /\ ~Finished(Top(t))
  /\ LET f == Top(t)
     IN  /\ IF HasInput(f)
            THEN /\ Allocated(t)
                 /\ dst_msg' = [dst_msg EXCEPT ![f.chain][f.order] = Fresh(t)]
            ELSE /\ dst_msg' = [dst_msg EXCEPT ![f.chain][f.order] = 0]
                 /\ UNCHANGED live
         /\ Replace(t, [f EXCEPT !.at = "call"])
  /\ UNCHANGED <<current_eo, current_cmd_proc_id, ret_msg, cur_chain, interpreted>>

(* An input that cannot be transferred: the order is skipped.              *)
SkipOrder(t) ==
  /\ IsIn(t, {"chain"}) /\ Top(t).at = "next" /\ ~Finished(Top(t))
  /\ HasInput(Top(t))
  /\ LET f == Top(t)
     IN  /\ dst_msg' = [dst_msg EXCEPT ![f.chain][f.order] = 0]
         /\ ret_msg' = [ret_msg EXCEPT ![f.chain][f.order] = FALSE]
         /\ Replace(t, [f EXCEPT !.order = @ + 1])
  /\ UNCHANGED <<current_eo, current_cmd_proc_id, cur_chain, live, interpreted>>

CallOrder(t) ==
  /\ IsIn(t, {"chain"}) /\ Top(t).at = "call"
  /\ LET f == Top(t)
     IN  /\ current_eo' = [current_eo EXCEPT ![f.chain] = f.order]
         /\ current_cmd_proc_id' = [current_cmd_proc_id EXCEPT ![f.chain] = 0]
         /\ stack' = [stack EXCEPT ![t] = Below(t) \o
              <<[f EXCEPT !.at = "free"],
                Function("order", Orders[f.chain][f.order].module, f.chain,
                         f.order, dst_msg[f.chain][f.order], {})>>]
  /\ UNCHANGED <<dst_msg, ret_msg, cur_chain, live, interpreted>>

OrderReturns(t) ==
  /\ IsIn(t, {"order"})
  /\ \E message \in BOOLEAN :
       ret_msg' = [ret_msg EXCEPT ![Top(t).chain][Top(t).order] = message]
  /\ Pop(t)
  /\ UNCHANGED <<current_eo, current_cmd_proc_id, dst_msg, cur_chain, live,
                 interpreted>>

(* What is freed is the input the order holds by then.                     *)
FreeInput(t) ==
  /\ IsIn(t, {"chain"}) /\ Top(t).at = "free"
  /\ LET f == Top(t)
     IN  /\ current_eo' = [current_eo EXCEPT ![f.chain] = 0]
         /\ Freed(t, dst_msg[f.chain][f.order])
         /\ dst_msg' = [dst_msg EXCEPT ![f.chain][f.order] = 0]
         /\ Replace(t, [f EXCEPT !.order = @ + 1, !.at = "next"])
  /\ UNCHANGED <<current_cmd_proc_id, ret_msg, cur_chain, interpreted>>

(* Mutant: a finished chain leaves the thread without one.                 *)
NoneAfter(frame) == NoChain

ChainAfter(frame) == frame.previous

FinishChain(t) ==
  /\ IsIn(t, {"chain"}) /\ Top(t).at = "next" /\ Finished(Top(t))
  /\ cur_chain' = [cur_chain EXCEPT ![t] = ChainAfter(Top(t))]
  /\ Pop(t)
  /\ UNCHANGED <<chainVars, live, interpreted>>

-----------------------------------------------------------------------------
(* wahe_run_command_core: commands issued by a module's function.          *)

Processors(c, k) == Orders[c][k].processors

(* Whether a command of the function on top goes to a processor of the     *)
(* order its thread's chain is executing.                                  *)
ToProcessor(t) ==
  LET c == cur_chain[t]
  IN  /\ c # NoChain /\ current_eo[c] # 0
      /\ current_cmd_proc_id[c] < Len(Processors(c, current_eo[c]))
      /\ Orders[c][current_eo[c]].module = Top(t).module

(* An order's function issues commands of its own, a processor forwards    *)
(* the one it handles.                                                     *)
Issues(t) == IsIn(t, {"order", "processor"}) /\ Top(t).left > 0

Issued(frame) == [frame EXCEPT !.left = IF frame.kind = "order" THEN @ - 1 ELSE 0]

CallProcessor(t) ==
  /\ Issues(t) /\ ToProcessor(t)
  /\ LET c == cur_chain[t]
         k == current_eo[c]
         id == current_cmd_proc_id[c] + 1
     IN  /\ Allocated(t)
         /\ current_cmd_proc_id' = [current_cmd_proc_id EXCEPT ![c] = id]
         /\ stack' = [stack EXCEPT ![t] = Below(t) \o
              <<Issued(Top(t)),
                Function("processor", Processors(c, k)[id], c, k, Fresh(t),
                         Top(t).seen \cup {id})>>]
  /\ UNCHANGED <<current_eo, dst_msg, ret_msg, cur_chain, interpreted>>

(* A command that cannot be transferred to the processor gets no reply.    *)
ProcessorUnreachable(t) ==
  /\ Issues(t) /\ ToProcessor(t)
  /\ Replace(t, Issued(Top(t)))
  /\ UNCHANGED <<chainVars, cur_chain, live, interpreted>>

(* Mutant: the last processor stays in use.                                *)
InUseForGood(id, count) == id

InUseAfter(id, count) == IF id = count THEN 0 ELSE id

(* Uses the count of the order whose command this was.                     *)
ProcessorReturns(t) ==
  /\ IsIn(t, {"processor"})
  /\ LET f == Top(t)
     IN  /\ Freed(t, f.input)
         /\ current_cmd_proc_id' = [current_cmd_proc_id EXCEPT ![f.chain] =
              InUseAfter(@, Len(Processors(f.chain, f.order)))]
  /\ Pop(t)
  /\ UNCHANGED <<current_eo, dst_msg, ret_msg, cur_chain, interpreted>>

(* A command that has left the processors is looked up in the registry...  *)
Interpreted(t) ==
  interpreted' = [interpreted EXCEPT ![t] =
    [order |-> <<Top(t).chain, Top(t).order>>, seen |-> Top(t).seen]]

InterpretCommand(t) ==
  /\ Issues(t) /\ ~ToProcessor(t)
  /\ Interpreted(t)
  /\ Replace(t, Issued(Top(t)))
  /\ UNCHANGED <<chainVars, cur_chain, live>>

(* ...where "Run chain" executes another chain on the same thread.         *)
RunChain(t) ==
  /\ Issues(t) /\ ~ToProcessor(t)
  /\ Depth(t) < MaxNesting
  /\ \E c \in Chains, input \in BOOLEAN :
       /\ <<Top(t).module, c>> \in Nested
       /\ cur_chain' = [cur_chain EXCEPT ![t] = c]
       /\ stack' = [stack EXCEPT ![t] = Below(t) \o
            <<Issued(Top(t)), ChainFrame(c, input, cur_chain[t])>>]
  /\ Interpreted(t)
  /\ UNCHANGED <<chainVars, live>>

-----------------------------------------------------------------------------

Next ==
  \E t \in Threads :
    \/ StartChain(t) \/ PrepareInput(t) \/ SkipOrder(t) \/ CallOrder(t)
    \/ OrderReturns(t) \/ FreeInput(t) \/ FinishChain(t)
    \/ CallProcessor(t) \/ ProcessorUnreachable(t) \/ ProcessorReturns(t)
    \/ InterpretCommand(t) \/ RunChain(t)

Spec == Init /\ [][Next]_vars

-----------------------------------------------------------------------------

ChainFrames ==
  [kind : {"chain"}, chain : Chains, order : Nat \ {0}, input : BOOLEAN,
   previous : Chains \cup {NoChain}, at : {"next", "call", "free"}]

FunctionFrames ==
  [kind : {"order", "processor"}, module : Modules, chain : Chains,
   order : Nat \ {0}, input : Nat, seen : SUBSET Nat, left : 0..MaxCommands]

(* Every variable is of its type; what executes is an order of its chain,  *)
(* and no more processors are in use than it has.                          *)
TypeOK ==
  /\ current_eo \in [Chains -> Nat] /\ current_cmd_proc_id \in [Chains -> Nat]
  /\ DOMAIN dst_msg = Chains /\ DOMAIN ret_msg = Chains
  /\ \A c \in Chains :
       /\ current_eo[c] \in 0..Len(Orders[c])
       /\ current_eo[c] # 0 =>
            current_cmd_proc_id[c] <= Len(Processors(c, current_eo[c]))
       /\ dst_msg[c] \in [DOMAIN Orders[c] -> Nat]
       /\ ret_msg[c] \in [DOMAIN Orders[c] -> BOOLEAN]
  /\ cur_chain \in [Threads -> Chains \cup {NoChain}]
  /\ stack \in [Threads -> Seq(ChainFrames \cup FunctionFrames)]
  /\ live \in [Threads -> SUBSET (Nat \ {0})]
  /\ interpreted \in [Threads -> [order : {<<>>} \cup (Chains \X Nat), seen : SUBSET Nat]]
  /\ \A t \in Threads :
       /\ Depth(t) <= MaxNesting
       /\ IsFiniteSet(live[t])
       /\ \A k \in DOMAIN stack[t] :
            stack[t][k].order \in 1..Len(Orders[stack[t][k].chain])
              \cup (IF stack[t][k].kind = "chain" /\ stack[t][k].at = "next"
                    THEN {Len(Orders[stack[t][k].chain]) + 1} ELSE {})

(* The input copy an activation is to free, 0 if none.                     *)
InputOf(frame) ==
  CASE frame.kind = "chain" /\ frame.at # "next" -> dst_msg[frame.chain][frame.order]
    [] frame.kind = "processor"                  -> frame.input
    [] OTHER                                     -> 0

(* The temporary copies of messages are those that a running order or      *)
(* processor will free, each of them once: none is left when a thread has  *)
(* returned from its chains, and none is freed under a running function.   *)
InputsFreed ==
  \A t \in Threads :
    /\ live[t] = {InputOf(stack[t][k]) : k \in DOMAIN stack[t]} \ {0}
    /\ \A j, k \in DOMAIN stack[t] :
         j # k => InputOf(stack[t][j]) # InputOf(stack[t][k]) \/ InputOf(stack[t][j]) = 0
    /\ \A k \in DOMAIN stack[t] :
         stack[t][k].kind # "chain" => stack[t][k].input \in live[t] \cup {0}

(* Whatever chains a function has executed, it continues in its own.       *)
ChainRestored ==
  \A t \in Threads : \A k \in DOMAIN stack[t] :
    /\ stack[t][k].kind = "chain"
    /\ \A j \in (k + 1)..Len(stack[t]) : stack[t][j].kind # "chain"
    => cur_chain[t] = stack[t][k].chain

(* Every command an order's function issues passes all the processors of   *)
(* the order before it is interpreted.                                     *)
CascadeComplete ==
  \A t \in Threads : interpreted[t].order # <<>> =>
    interpreted[t].seen = DOMAIN Processors(interpreted[t].order[1],
                                            interpreted[t].order[2])

-----------------------------------------------------------------------------
(* What makes these invariants inductive.                                  *)

(* Each activation knows the one below it, and the thread the one on top.  *)
Linked ==
  \A t \in Threads :
    /\ cur_chain[t] = IF stack[t] = <<>> THEN NoChain ELSE Top(t).chain
    /\ \A k \in DOMAIN stack[t] :
         IF stack[t][k].kind = "chain"
         THEN stack[t][k].previous = IF k = 1 THEN NoChain ELSE stack[t][k - 1].chain
         ELSE k > 1 /\ stack[t][k].chain = stack[t][k - 1].chain

(* No chain has two activations at a time.  The code does not see to this, *)
(* and InputsFreed and CascadeComplete depend on it.                       *)
EnteredOnce ==
  \A t, u \in Threads : \A j \in DOMAIN stack[t], k \in DOMAIN stack[u] :
    /\ stack[t][j].kind = "chain" /\ stack[u][k].kind = "chain"
    /\ stack[t][j].chain = stack[u][k].chain
    => t = u /\ j = k

(* An order's function runs on the input its chain keeps for it.           *)
InputsLent ==
  \A t \in Threads : \A k \in DOMAIN stack[t] : stack[t][k].kind = "order" =>
    /\ stack[t][k - 1].kind = "chain" /\ stack[t][k - 1].at = "free"
    /\ stack[t][k - 1].order = stack[t][k].order
    /\ stack[t][k].input = InputOf(stack[t][k - 1])

(* The modules whose functions a chain runs.                               *)
CodeOf(c) ==
  UNION {{Orders[c][k].module} \cup {Processors(c, k)[i] : i \in DOMAIN Processors(c, k)} :
           k \in DOMAIN Orders[c]}

(* Groups that see to EnteredOnce themselves: each chain is one thread's,  *)
(* and the modules of a chain execute only chains of a higher level.       *)
Layered(owner, level) ==
  /\ owner \in [Chains -> Threads] /\ level \in [Chains -> Nat]
  /\ \A t \in Threads : \A c \in Starts[t] : owner[c] = t
  /\ \A c, d \in Chains : \A m \in CodeOf(c) : <<m, d>> \in Nested =>
       owner[d] = owner[c] /\ level[d] > level[c]

=============================================================================
