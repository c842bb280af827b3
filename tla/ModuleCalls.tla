---------------------------- MODULE ModuleCalls ----------------------------
(***************************************************************************)
(* Calls of module functions: call_module_func_core_on_runner in           *)
(* src/wahelib/wahe/wahe_core.c, with its callbacks and the process-wide   *)
(* failure protocol.                                                       *)
(*                                                                         *)
(* Guest code executes on runners, each behind a recursive mutex.  A       *)
(* module's code calls other modules, and its own allocator, through the   *)
(* host; each thread remembers the runner it is on so that such calls find *)
(* their way.  A call that traps ends the process: the first thread to     *)
(* claim the failure prints the diagnostics and exits, the others park.    *)
(***************************************************************************)
EXTENDS Naturals, Sequences, FiniteSets

CONSTANTS
  Threads,     \* the host's threads
  Modules,
  Builds,      \* per build of the host: the backend that runs each module
  Runners,     \* how many runners each module has
  CallGraph,   \* the pairs of modules of which the first calls the second
  MaxDepth,    \* how deep calls are nested
  MayTrap,     \* the modules whose code may trap
  NoRunner

(* "native" stands for modules translated to native code.                  *)
Backends == {"wasmtime", "wamr", "native"}

ASSUME CallsAssumption ==
  /\ Builds \subseteq [Modules -> Backends]
  /\ \A type \in Builds : \A m, n \in Modules :
       ~(type[m] = "wasmtime" /\ type[n] = "wamr")
  /\ Runners \in [Modules -> Nat \ {0}]
  /\ CallGraph \subseteq Modules \X Modules
  /\ MaxDepth \in Nat \ {0}
  /\ MayTrap \subseteq Modules

RunnerIds == UNION {{m} \X (0..(Runners[m] - 1)) : m \in Modules}

NoThread == "none"

ASSUME NamesAssumption ==
  /\ NoRunner \notin RunnerIds
  /\ NoThread \notin Threads

VARIABLES
  execution_failed,  \* a thread has claimed the process-wide failure
  ctx,               \* per module: its backend, and whether it may be called
  mutex,             \* per runner: the thread holding it, and how often
  stack,             \* per thread: the calls it is in, innermost last
  cur_runner,        \* per thread and backend: the runner it is executing on
  pc,                \* per thread: where it is in the innermost call
  target,            \* per thread: the runner that call is made on
  trapped,           \* the runners on which a call has trapped
  reported,          \* the threads that have printed failure diagnostics
  exited             \* the process has ended

vars == <<execution_failed, ctx, mutex, stack, cur_runner, pc, target,
          trapped, reported, exited>>

Init ==
  /\ execution_failed = FALSE
  /\ \E type \in Builds, valid \in [Modules -> BOOLEAN] :
       ctx = [m \in Modules |-> [type |-> type[m], valid |-> valid[m]]]
  /\ mutex = [r \in RunnerIds |-> [holder |-> NoThread, count |-> 0]]
  /\ stack = [t \in Threads |-> <<>>]
  /\ cur_runner = [t \in Threads |-> [k \in Backends |-> NoRunner]]
  /\ pc = [t \in Threads |-> "host"]
  /\ target = [t \in Threads |-> NoRunner]
  /\ trapped = {}
  /\ reported = {}
  /\ exited = FALSE

-----------------------------------------------------------------------------

ModuleOf(r)  == r[1]
BackendOf(r) == ctx[ModuleOf(r)].type
Top(t)       == stack[t][Len(stack[t])]

Lock(t, r) ==
  /\ mutex[r].holder \in {NoThread, t}
  /\ mutex' = [mutex EXCEPT ![r] = [holder |-> t, count |-> @.count + 1]]

(* Mutant: an unlock gives the mutex up however often it is held.          *)
ReleasedAtOnce(m) == [holder |-> NoThread, count |-> 0]

(* Mutant: an unlock within a nested call is forgotten.                    *)
ReleasedOutermost(m) == IF m.count = 1 THEN [holder |-> NoThread, count |-> 0]
                                       ELSE m

Released(m) == IF m.count = 1 THEN [holder |-> NoThread, count |-> 0]
                              ELSE [m EXCEPT !.count = @ - 1]

(* Mutant: the flag is set and not exchanged, or its holder parks as well. *)
ClaimBySetting(t, first, other) ==
  execution_failed' = TRUE /\ pc' = [pc EXCEPT ![t] = first]

ClaimAndPark(t, first, other) ==
  execution_failed' = TRUE /\ pc' = [pc EXCEPT ![t] = other]

(* The failure is claimed by exchanging a flag; the one thread that finds  *)
(* it clear reports, every other one parks.                                *)
Claim(t, first, other) ==
  /\ execution_failed' = TRUE
  /\ pc' = [pc EXCEPT ![t] = IF execution_failed THEN other ELSE first]

(* Mutant: the flag is not consulted after the mutex has been obtained.    *)
NotRechecked(r) == TRUE

(* Wasmtime calls look at the flag once more inside the runner's mutex.    *)
Rechecked(r) == BackendOf(r) = "wasmtime" => ~execution_failed

(* Mutant: host code runs on as if the nested call were still active.      *)
NotRestored(t) == Top(t).runner

Restored(t) == Top(t).previous

-----------------------------------------------------------------------------

(* The runner of module m that host code on behalf of this thread calls:   *)
(* the current one of m's backend if it is one of m's, else m's first.     *)
ActiveRunner(t, m) ==
  LET current == cur_runner[t][ctx[m].type]
  IN  IF current # NoRunner /\ ModuleOf(current) = m THEN current ELSE <<m, 0>>

(* An execution chain calls the runner it is configured with, a callback   *)
(* of guest code the active one.                                           *)
MayCall(t, r) ==
  \/ pc[t] = "host"
  \/ /\ pc[t] = "guest"
     /\ Len(stack[t]) < MaxDepth
     /\ <<ModuleOf(Top(t).runner), ModuleOf(r)>> \in CallGraph
     /\ r = ActiveRunner(t, ModuleOf(r))

BeginCall(t) ==
  /\ ~execution_failed
  /\ \E r \in RunnerIds :
       MayCall(t, r) /\ target' = [target EXCEPT ![t] = r]
  /\ pc' = [pc EXCEPT ![t] = "checked"]
  /\ UNCHANGED <<execution_failed, ctx, mutex, stack, cur_runner, trapped,
                 reported, exited>>

RefuseInvalid(t) ==
  /\ pc[t] = "checked"
  /\ ~ctx[ModuleOf(target[t])].valid
  /\ Claim(t, "report", "parked")
  /\ UNCHANGED <<ctx, mutex, stack, cur_runner, target, trapped, reported,
                 exited>>

(* WAMR calls look at the flag a second time, before the mutex.            *)
PassChecks(t) ==
  /\ pc[t] = "checked"
  /\ ctx[ModuleOf(target[t])].valid
  /\ BackendOf(target[t]) = "wamr" => ~execution_failed
  /\ pc' = [pc EXCEPT ![t] = "lock"]
  /\ UNCHANGED <<execution_failed, ctx, mutex, stack, cur_runner, target,
                 trapped, reported, exited>>

LockRunner(t) ==
  /\ pc[t] = "lock"
  /\ Lock(t, target[t])
  /\ pc' = [pc EXCEPT ![t] = "locked"]
  /\ UNCHANGED <<execution_failed, ctx, stack, cur_runner, target, trapped,
                 reported, exited>>

EnterGuest(t) ==
  /\ pc[t] = "locked"
  /\ Rechecked(target[t])
  /\ stack' = [stack EXCEPT ![t] = Append(@,
                 [runner |-> target[t],
                  previous |-> cur_runner[t][BackendOf(target[t])]])]
  /\ cur_runner' = [cur_runner EXCEPT ![t][BackendOf(target[t])] = target[t]]
  /\ pc' = [pc EXCEPT ![t] = "guest"]
  /\ UNCHANGED <<execution_failed, ctx, mutex, target, trapped, reported,
                 exited>>

(* Leaving a runner, by a return or a trap: restore, then unlock.          *)
LeaveRunner(t) ==
  /\ cur_runner' = [cur_runner EXCEPT ![t][BackendOf(Top(t).runner)] = Restored(t)]
  /\ mutex' = [mutex EXCEPT ![Top(t).runner] = Released(@)]
  /\ stack' = [stack EXCEPT ![t] = SubSeq(@, 1, Len(@) - 1)]

GuestReturns(t) ==
  /\ pc[t] = "guest"
  /\ LeaveRunner(t)
  /\ target' = [target EXCEPT ![t] = Top(t).runner]
  /\ pc' = [pc EXCEPT ![t] = "returned"]
  /\ UNCHANGED <<execution_failed, ctx, trapped, reported, exited>>

(* The result of a call is used unless the process has failed meanwhile.   *)
CallReturns(t) ==
  /\ pc[t] = "returned"
  /\ BackendOf(target[t]) # "native" => ~execution_failed
  /\ pc' = [pc EXCEPT ![t] = IF stack[t] = <<>> THEN "host" ELSE "guest"]
  /\ target' = [target EXCEPT ![t] = NoRunner]
  /\ UNCHANGED <<execution_failed, ctx, mutex, stack, cur_runner, trapped,
                 reported, exited>>

GuestTraps(t) ==
  /\ pc[t] = "guest"
  /\ ModuleOf(Top(t).runner) \in MayTrap
  /\ BackendOf(Top(t).runner) # "native"
  /\ trapped' = trapped \cup {Top(t).runner}
  /\ target' = [target EXCEPT ![t] = Top(t).runner]
  /\ pc' = [pc EXCEPT ![t] = "trapped"]
  /\ UNCHANGED <<execution_failed, ctx, mutex, stack, cur_runner, reported,
                 exited>>

(* Wasmtime: the failure is claimed before the runner is left...           *)
ClaimInside(t) ==
  /\ pc[t] = "trapped"
  /\ BackendOf(target[t]) = "wasmtime"
  /\ Claim(t, "leave_report", "leave_park")
  /\ UNCHANGED <<ctx, mutex, stack, cur_runner, target, trapped, reported,
                 exited>>

LeaveTrapped(t) ==
  /\ pc[t] \in {"leave_report", "leave_park"}
  /\ LeaveRunner(t)
  /\ pc' = [pc EXCEPT ![t] = IF @ = "leave_report" THEN "report" ELSE "parked"]
  /\ UNCHANGED <<execution_failed, ctx, target, trapped, reported, exited>>

(* ...WAMR: afterwards, the exception having been printed.                 *)
LeaveAndPrint(t) ==
  /\ pc[t] = "trapped"
  /\ BackendOf(target[t]) = "wamr"
  /\ LeaveRunner(t)
  /\ pc' = [pc EXCEPT ![t] = "print"]
  /\ UNCHANGED <<execution_failed, ctx, target, trapped, reported, exited>>

PrintException(t) ==
  /\ pc[t] = "print"
  /\ reported' = reported \cup {t}
  /\ pc' = [pc EXCEPT ![t] = "claim"]
  /\ UNCHANGED <<execution_failed, ctx, mutex, stack, cur_runner, target,
                 trapped, exited>>

ClaimOutside(t) ==
  /\ pc[t] = "claim"
  /\ Claim(t, "report", "parked")
  /\ UNCHANGED <<ctx, mutex, stack, cur_runner, target, trapped, reported,
                 exited>>

Report(t) ==
  /\ pc[t] = "report"
  /\ reported' = reported \cup {t}
  /\ ctx' = [ctx EXCEPT ![ModuleOf(target[t])].valid = FALSE]
  /\ pc' = [pc EXCEPT ![t] = "exit"]
  /\ UNCHANGED <<execution_failed, mutex, stack, cur_runner, target, trapped,
                 exited>>

ExitProcess(t) ==
  /\ pc[t] = "exit"
  /\ exited' = TRUE
  /\ UNCHANGED <<execution_failed, ctx, mutex, stack, cur_runner, pc,
                 target, trapped, reported>>

-----------------------------------------------------------------------------

(* What a thread does by itself once it has begun a call.                  *)
Advance(t) ==
  \/ RefuseInvalid(t) \/ PassChecks(t) \/ EnterGuest(t) \/ CallReturns(t)
  \/ ClaimInside(t) \/ LeaveTrapped(t)
  \/ LeaveAndPrint(t) \/ PrintException(t) \/ ClaimOutside(t)
  \/ Report(t) \/ ExitProcess(t)

ThreadStep(t) ==
  BeginCall(t) \/ LockRunner(t) \/ GuestReturns(t) \/ GuestTraps(t) \/ Advance(t)

Ended == exited /\ UNCHANGED vars

Next == (~exited /\ \E t \in Threads : ThreadStep(t)) \/ Ended

Spec == Init /\ [][Next]_vars

(* Threads keep running, a mutex released again and again is obtained, and *)
(* a guest function returns after finitely many callbacks, at any depth.   *)
Fairness ==
  \A t \in Threads :
    /\ WF_vars(~exited /\ Advance(t))
    /\ SF_vars(~exited /\ LockRunner(t))
    /\ \A d \in 1..MaxDepth :
         SF_vars(~exited /\ Len(stack[t]) = d /\ GuestReturns(t))

FairSpec == Spec /\ Fairness

-----------------------------------------------------------------------------

Frame == [runner : RunnerIds, previous : RunnerIds \cup {NoRunner}]

(* Every variable is of its type; calls are nested to MaxDepth at most.    *)
TypeOK ==
  /\ execution_failed \in BOOLEAN
  /\ ctx \in [Modules -> [type : Backends, valid : BOOLEAN]]
  /\ mutex \in [RunnerIds -> [holder : Threads \cup {NoThread}, count : 0..MaxDepth]]
  /\ stack \in [Threads -> Seq(Frame)]
  /\ \A t \in Threads : Len(stack[t]) <= MaxDepth
  /\ cur_runner \in [Threads -> [Backends -> RunnerIds \cup {NoRunner}]]
  /\ pc \in [Threads -> {"host", "checked", "lock", "locked", "guest",
                         "returned", "trapped", "leave_report", "leave_park",
                         "print", "claim", "report", "parked", "exit"}]
  /\ target \in [Threads -> RunnerIds \cup {NoRunner}]
  /\ trapped \subseteq RunnerIds
  /\ reported \subseteq Threads
  /\ exited \in BOOLEAN

IsOn(t, r) == \E k \in DOMAIN stack[t] : stack[t][k].runner = r

(* A runner's execution environment is used by one thread at a time, also  *)
(* while that thread is away in calls nested inside it.                    *)
RunnerExclusive ==
  \A t, u \in Threads : \A r \in RunnerIds : IsOn(t, r) /\ IsOn(u, r) => t = u

(* Whatever calls have been made and have returned in between, the host    *)
(* code of a callback believes to be on the runner that issued it, so that *)
(* allocations and nested calls go there.                                  *)
RoutedToCaller ==
  \A t \in Threads :
    /\ pc[t] = "guest" => ActiveRunner(t, ModuleOf(Top(t).runner)) = Top(t).runner
    /\ pc[t] = "host"  => \A k \in Backends : cur_runner[t][k] = NoRunner

(* One thread is elected to report a failure, and the others print         *)
(* nothing.  WAMR calls print their own exception first and are excepted.  *)
OneReporter ==
  (\A m \in Modules : ctx[m].type # "wamr") => Cardinality(reported) <= 1

(* No waiting call enters a runner on which a call has trapped.  WAMR      *)
(* calls look at the flag only before they wait, and are excepted.         *)
TrappedRunnerStaysOut ==
  [][\A t \in Threads : Len(stack'[t]) > Len(stack[t]) =>
       LET r == stack'[t][Len(stack'[t])].runner
       IN  BackendOf(r) # "wamr" => r \notin trapped]_vars

(* A claimed failure ends the process, whichever mutexes parked threads    *)
(* hold.                                                                   *)
FailureEndsProcess == execution_failed ~> exited

(* As long as modules do not call each other in circles, every call        *)
(* returns or the process ends.                                            *)
CallsReturn ==
  \A t \in Threads : pc[t] = "checked" ~> (pc[t] = "returned" \/ exited)

-----------------------------------------------------------------------------
(* The inductive invariant behind the safety properties.                   *)

(* What is known of a thread at each point of a call.                      *)
PhaseInv ==
  \A t \in Threads :
    /\ pc[t] = "host" => stack[t] = <<>>
    /\ pc[t] \notin {"host", "guest"} => target[t] \in RunnerIds
    /\ pc[t] \in {"guest", "trapped", "leave_report", "leave_park"} =>
         stack[t] # <<>>
    /\ pc[t] \in {"trapped", "leave_report", "leave_park"} =>
         target[t] = Top(t).runner
    /\ pc[t] \in {"checked", "lock", "locked"} => Len(stack[t]) < MaxDepth
    /\ pc[t] \in {"print", "claim"} => BackendOf(target[t]) = "wamr"

(* The calls of a thread on a runner, and how often it has locked it.      *)
Uses(s, r) == {k \in 1..Len(s) : s[k].runner = r}

Holds(t, r) ==
  Cardinality(Uses(stack[t], r)) +
    (IF pc[t] = "locked" /\ target[t] = r THEN 1 ELSE 0)

(* A mutex is held by the thread that uses its runner, once per call.      *)
MutexInv ==
  \A r \in RunnerIds :
    /\ mutex[r].holder = NoThread => mutex[r].count = 0
    /\ \A t \in Threads :
         IF mutex[r].holder = t THEN Holds(t, r) = mutex[r].count /\ Holds(t, r) > 0
                                ELSE Holds(t, r) = 0

(* Among the first n calls of s, r is the runner of the last one that the  *)
(* backend k executes.                                                     *)
Innermost(s, k, n, r) ==
  \/ r = NoRunner /\ \A i \in 1..n : BackendOf(s[i].runner) # k
  \/ \E j \in 1..n :
       /\ s[j].runner = r /\ BackendOf(r) = k
       /\ \A i \in (j + 1)..n : BackendOf(s[i].runner) # k

(* Each backend's current runner is that of its innermost call, and each   *)
(* call remembers the one it has replaced.                                 *)
RouteInv ==
  \A t \in Threads :
    /\ \A k \in Backends :
         Innermost(stack[t], k, Len(stack[t]), cur_runner[t][k])
    /\ \A j \in 1..Len(stack[t]) :
         Innermost(stack[t], BackendOf(stack[t][j].runner), j - 1,
                   stack[t][j].previous)

(* The thread that has claimed the failure is the only one to report it.   *)
Elected == {"leave_report", "report", "exit"}

ElectInv ==
  /\ ~execution_failed => \A t \in Threads : pc[t] \notin Elected
  /\ \A t, u \in Threads : pc[t] \in Elected /\ pc[u] \in Elected => t = u
  /\ (\A m \in Modules : ctx[m].type # "wamr") =>
       \A t \in reported : pc[t] = "exit"

(* A trapped runner is left after the failure has been claimed.            *)
TrapInv ==
  \A r \in trapped :
    /\ BackendOf(r) # "native"
    /\ \/ execution_failed
       \/ BackendOf(r) = "wamr"
       \/ \E t \in Threads : pc[t] = "trapped" /\ target[t] = r

CallsInv == TypeOK /\ PhaseInv /\ MutexInv /\ RouteInv /\ ElectInv /\ TrapInv

=============================================================================
