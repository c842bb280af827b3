-------------------------- MODULE CommandRegistry --------------------------
(***************************************************************************)
(* The commands of a group of modules: the registry and the interpretation *)
(* of a message's lines (wahe_core.c: wahe_register_commands,              *)
(* wahe_change_runtime_command, wahe_find_command_registration and the     *)
(* loop of wahe_run_command_core).                                         *)
(*                                                                         *)
(* A line goes to the newest registration whose command is a prefix of it  *)
(* and which the caller did not make itself.  A host command may decline   *)
(* the line, which then falls back to the next older registration.  Each   *)
(* lookup is one critical section of the registry's mutex; other threads   *)
(* change the registry between a lookup and the next.                      *)
(***************************************************************************)
EXTENDS Naturals, Sequences, FiniteSets, SequencesExt

CONSTANTS
  Threads,
  Modules,
  Issuers,        \* per thread, the modules whose code it executes
  Host,           \* the owner of the host's own commands
  Commands,       \* command prefixes
  Words,          \* how many words each has
  MaxWords,       \* the words of a line that are hashed for lookups
  HostCommands,   \* the host's commands, in the order they are registered
  StartupLists,   \* what modules register while they are initialised
  Messages,       \* what guest code passes to wahe_run_command: its lines
  MaxSequence     \* bound: how many registrations are ever made

(* A line: the commands it starts with, what the host's handler of each    *)
(* does with it, and the command it registers or unregisters.              *)
Line == [prefixes : SUBSET Commands,
         verdict  : [Commands -> {"not_handled", "handled", "reply", "return",
                                  "register", "unregister", "refuse"}],
         subject  : Commands]

ASSUME CommandsAssumption ==
  /\ Host \notin Modules
  /\ Issuers \in [Threads -> SUBSET Modules]
  /\ Words \in [Commands -> Nat]
  /\ MaxWords \in Nat
  /\ HostCommands \in Seq(Commands)
  /\ StartupLists \subseteq Seq(Commands)
  /\ MaxSequence \in Nat /\ Len(HostCommands) <= MaxSequence
  /\ Messages \subseteq Seq(Line) \ {<<>>}

VARIABLES
  cmd_reg,           \* the registrations, oldest first
  cmd_reg_sequence,  \* the number of the newest registration ever made
  pc,                \* per thread: where it is in wahe_run_command_core
  caller,            \* the module that issued the message
  rest,              \* the lines not interpreted yet, the current one first
  before,            \* registrations from this number on have had their turn
  match,             \* the registration found
  reply,             \* the reply to be returned, 0 if none
  previous,          \* the reply there was before the current command
  live,              \* the reply allocations that have not been freed
  tried,             \* the registrations the current line has been given to
  lasting            \* those registered ever since the line's first lookup

registryVars == <<cmd_reg, cmd_reg_sequence>>
replyVars    == <<reply, previous, live>>
vars == <<cmd_reg, cmd_reg_sequence, pc, caller, rest, before, match, reply,
          previous, live, tried, lasting>>

-----------------------------------------------------------------------------
(* The registry.                                                           *)

(* Mutant: the counter is incremented after its use.                       *)
NumberBeforeIncrement(last) == last

NextSequence(last) == last + 1

Registration(command, owner, runtime, sequence) ==
  [command |-> command, owner |-> owner, runtime |-> runtime,
   sequence |-> sequence]

(* Startup registrations of a list, in one critical section.               *)
AddList(regs, last, list, owner) ==
  regs \o [k \in DOMAIN list |->
             Registration(list[k], owner, FALSE, NextSequence(last + k - 1))]

Sequences(regs) == {regs[k].sequence : k \in DOMAIN regs}

(* Mutant: the registry is searched from its oldest entry.                 *)
Oldest(S) == CHOOSE k \in S : \A j \in S : j >= k

Newest(S) == CHOOSE k \in S : \A j \in S : j <= k

(* The newest runtime registration of this command by this module goes.    *)
Withdraw(regs, m, command) ==
  LET mine == {k \in DOMAIN regs : /\ regs[k].runtime
                                   /\ regs[k].owner = m
                                   /\ regs[k].command = command}
  IN  IF mine = {} THEN regs ELSE RemoveAt(regs, Newest(mine))

Init ==
  /\ cmd_reg = AddList(<<>>, 0, HostCommands, Host)
  /\ cmd_reg_sequence = Len(HostCommands)
  /\ pc = [t \in Threads |-> "idle"]
  /\ caller = [t \in Threads |-> Host]
  /\ rest = [t \in Threads |-> <<>>]
  /\ before = [t \in Threads |-> 0]
  /\ match = [t \in Threads |-> <<>>]
  /\ reply = [t \in Threads |-> 0]
  /\ previous = [t \in Threads |-> 0]
  /\ live = [t \in Threads |-> {}]
  /\ tried = [t \in Threads |-> {}]
  /\ lasting = [t \in Threads |-> {}]

(* A module is initialised and registers its list.                         *)
RegisterCommands(m, list) ==
  /\ cmd_reg_sequence + Len(list) <= MaxSequence
  /\ cmd_reg' = AddList(cmd_reg, cmd_reg_sequence, list, m)
  /\ cmd_reg_sequence' = cmd_reg_sequence + Len(list)
  /\ UNCHANGED <<pc, caller, rest, before, match, replyVars, tried, lasting>>

-----------------------------------------------------------------------------
(* Interpreting a message.                                                 *)

Infinity == MaxSequence + 1

StartLine(t, lines) ==
  /\ pc' = [pc EXCEPT ![t] = "find"]
  /\ rest' = [rest EXCEPT ![t] = lines]
  /\ before' = [before EXCEPT ![t] = Infinity]
  /\ tried' = [tried EXCEPT ![t] = {}]
  /\ lasting' = [lasting EXCEPT ![t] = Sequences(cmd_reg)]

RunCommand(t) ==
  /\ pc[t] = "idle"
  /\ \E m \in Issuers[t] : caller' = [caller EXCEPT ![t] = m]
  /\ \E msg \in Messages : StartLine(t, msg)
  /\ UNCHANGED <<registryVars, match, replyVars>>

(* Mutant: the registration that declined a line is found once more.       *)
NotYetTried(reg, t) == reg.sequence <= before[t]

Older(reg, t) == reg.sequence < before[t]

Matches(reg, t) ==
  /\ reg.command \in Head(rest[t]).prefixes
  /\ Words[reg.command] \in 1..MaxWords
  /\ reg.owner # caller[t]

Found(t) == {k \in DOMAIN cmd_reg : Older(cmd_reg[k], t) /\ Matches(cmd_reg[k], t)}

(* The registration found is copied: it may be gone by the time it is used. *)
FindRegistration(t) ==
  /\ pc[t] = "find"
  /\ Found(t) # {}
  /\ LET reg == cmd_reg[Newest(Found(t))]
     IN  /\ match' = [match EXCEPT ![t] = reg]
         /\ before' = [before EXCEPT ![t] = reg.sequence]
         /\ tried' = [tried EXCEPT ![t] = @ \cup {reg.sequence}]
         /\ pc' = [pc EXCEPT ![t] = IF reg.owner = Host THEN "host" ELSE "forward"]
  /\ previous' = [previous EXCEPT ![t] = reply[t]]
  /\ UNCHANGED <<registryVars, caller, rest, reply, live, lasting>>

(* Nobody interprets the line.                                             *)
FindNothing(t) ==
  /\ pc[t] = "find"
  /\ Found(t) = {}
  /\ pc' = [pc EXCEPT ![t] = "unknown"]
  /\ UNCHANGED <<registryVars, caller, rest, before, match, replyVars, tried,
                 lasting>>

NextLine(t) ==
  /\ pc[t] \in {"next", "unknown"}
  /\ IF Tail(rest[t]) # <<>>
     THEN StartLine(t, Tail(rest[t]))
     ELSE /\ pc' = [pc EXCEPT ![t] = "end"]
          /\ UNCHANGED <<rest, before, tried, lasting>>
  /\ UNCHANGED <<registryVars, caller, match, replyVars>>

(* The calling module gets the reply and frees it with its own allocator.  *)
ReturnReply(t) ==
  /\ pc[t] = "end"
  /\ live' = [live EXCEPT ![t] = @ \ {reply[t]}]
  /\ reply' = [reply EXCEPT ![t] = 0]
  /\ pc' = [pc EXCEPT ![t] = "idle"]
  /\ caller' = [caller EXCEPT ![t] = Host]
  /\ rest' = [rest EXCEPT ![t] = <<>>]
  /\ before' = [before EXCEPT ![t] = 0]
  /\ tried' = [tried EXCEPT ![t] = {}]
  /\ lasting' = [lasting EXCEPT ![t] = {}]
  /\ UNCHANGED <<registryVars, match, previous>>

-----------------------------------------------------------------------------
(* Replies.  An allocation may fail.                                       *)

Fresh(t) == CHOOSE n \in 1..2 : n \notin live[t]

AllocateReply(t) ==
  \/ /\ reply' = [reply EXCEPT ![t] = Fresh(t)]
     /\ live' = [live EXCEPT ![t] = @ \cup {Fresh(t)}]
  \/ /\ reply' = [reply EXCEPT ![t] = 0]
     /\ UNCHANGED live

(* Mutant: a reply a command has left alone is taken for superseded.       *)
SupersededAlways(t) == previous[t] # 0

Superseded(t) == previous[t] # 0 /\ previous[t] # reply[t]

(* The reply before this command is freed if the command has replaced it,  *)
(* in wahe_run_command_core once the handler has returned.                 *)
FreePrevious(t) ==
  live' = [live EXCEPT ![t] = IF Superseded(t) THEN @ \ {previous[t]} ELSE @]

-----------------------------------------------------------------------------
(* A host command.                                                         *)

Verdict(t) == Head(rest[t]).verdict[match[t].command]

(* Handlers that decline the line, do their work silently or reply; some   *)
(* end the message.  A refusal is the reply to a malformed prefix.         *)
HostCommand(t) ==
  /\ pc[t] = "host"
  /\ \/ /\ Verdict(t) \in {"not_handled", "handled", "return"}
        /\ pc' = [pc EXCEPT ![t] = Verdict(t)]
        /\ UNCHANGED <<reply, live>>
     \/ /\ Verdict(t) \in {"reply", "refuse"}
        /\ AllocateReply(t)
        /\ pc' = [pc EXCEPT ![t] = IF Verdict(t) = "reply" THEN "handled" ELSE "return"]
  /\ UNCHANGED <<registryVars, caller, rest, before, match, previous, tried,
                 lasting>>

RegisterCommand(t) ==
  /\ pc[t] = "host"
  /\ Verdict(t) = "register"
  /\ cmd_reg_sequence < MaxSequence
  /\ cmd_reg' = Append(cmd_reg, Registration(Head(rest[t]).subject, caller[t], TRUE,
                                  NextSequence(cmd_reg_sequence)))
  /\ cmd_reg_sequence' = cmd_reg_sequence + 1
  /\ pc' = [pc EXCEPT ![t] = "handled"]
  /\ UNCHANGED <<caller, rest, before, match, replyVars, tried, lasting>>

UnregisterCommand(t) ==
  /\ pc[t] = "host"
  /\ Verdict(t) = "unregister"
  /\ cmd_reg' = Withdraw(cmd_reg, caller[t], Head(rest[t]).subject)
  /\ lasting' = [u \in Threads |-> lasting[u] \cap Sequences(cmd_reg')]
  /\ pc' = [pc EXCEPT ![t] = "handled"]
  /\ UNCHANGED <<cmd_reg_sequence, caller, rest, before, match, replyVars, tried>>

(* The bound on registrations: a line that would exceed it is dropped.     *)
RegistryFull(t) ==
  /\ pc[t] = "host"
  /\ Verdict(t) = "register"
  /\ cmd_reg_sequence = MaxSequence
  /\ pc' = [pc EXCEPT ![t] = "handled"]
  /\ UNCHANGED <<registryVars, caller, rest, before, match, replyVars, tried,
                 lasting>>

AfterHostCommand(t) ==
  /\ pc[t] \in {"not_handled", "handled", "return"}
  /\ FreePrevious(t)
  /\ previous' = [previous EXCEPT ![t] = 0]
  /\ match' = [match EXCEPT ![t] = <<>>]
  /\ pc' = [pc EXCEPT ![t] = CASE @ = "not_handled" -> "find"
                               [] @ = "handled"     -> "next"
                               [] @ = "return"      -> "end"]
  /\ UNCHANGED <<registryVars, caller, rest, before, reply, tried, lasting>>

-----------------------------------------------------------------------------
(* A command of another module: the rest of the message is copied to it,   *)
(* its answer is copied back, and the message ends.                        *)

ForwardFails(t) ==
  /\ pc[t] = "forward"
  /\ reply' = [reply EXCEPT ![t] = 0]
  /\ pc' = [pc EXCEPT ![t] = "return"]
  /\ UNCHANGED <<registryVars, caller, rest, before, match, previous, live, tried,
                 lasting>>

ForwardUnanswered(t) ==
  /\ pc[t] = "forward"
  /\ pc' = [pc EXCEPT ![t] = "return"]
  /\ UNCHANGED <<registryVars, caller, rest, before, match, replyVars, tried,
                 lasting>>

ForwardAnswered(t) ==
  /\ pc[t] = "forward"
  /\ AllocateReply(t)
  /\ pc' = [pc EXCEPT ![t] = "return"]
  /\ UNCHANGED <<registryVars, caller, rest, before, match, previous, tried,
                 lasting>>

-----------------------------------------------------------------------------

Interpret(t) ==
  \/ FindRegistration(t) \/ FindNothing(t) \/ NextLine(t)
  \/ HostCommand(t) \/ RegisterCommand(t) \/ UnregisterCommand(t)
  \/ RegistryFull(t) \/ AfterHostCommand(t)
  \/ ForwardFails(t) \/ ForwardUnanswered(t) \/ ForwardAnswered(t)

Next ==
  \/ \E t \in Threads : RunCommand(t) \/ Interpret(t) \/ ReturnReply(t)
  \/ \E m \in Modules, list \in StartupLists : RegisterCommands(m, list)

Spec == Init /\ [][Next]_vars

(* The modules a line is forwarded to return from their handlers.          *)
Fairness == \A t \in Threads : WF_vars(Interpret(t))

FairSpec == Spec /\ Fairness

-----------------------------------------------------------------------------

Registrations == [command : Commands, owner : Modules \cup {Host},
                  runtime : BOOLEAN, sequence : 1..MaxSequence]

(* Every variable is of its type, and registrations stand in the order in  *)
(* which they were made, each under a number of its own.                   *)
TypeOK ==
  /\ cmd_reg \in Seq(Registrations)
  /\ \A j, k \in DOMAIN cmd_reg : j < k => cmd_reg[j].sequence < cmd_reg[k].sequence
  /\ cmd_reg_sequence \in 0..MaxSequence
  /\ pc \in [Threads -> {"idle", "find", "host", "forward", "not_handled",
                         "handled", "return", "next", "unknown", "end"}]
  /\ caller \in [Threads -> Modules \cup {Host}]
  /\ rest \in [Threads -> Seq(Line)]
  /\ before \in [Threads -> 0..Infinity]
  /\ match \in [Threads -> Registrations \cup {<<>>}]
  /\ reply \in [Threads -> 0..2]
  /\ previous \in [Threads -> 0..2]
  /\ live \in [Threads -> SUBSET (1..2)]
  /\ tried \in [Threads -> SUBSET (1..MaxSequence)]
  /\ lasting \in [Threads -> SUBSET (1..MaxSequence)]

(* However other threads change the registry between the lookups of a      *)
(* line, no registration that stays is overlooked: what has had its turn   *)
(* and would have matched has been tried, newest first.                    *)
NothingOverlooked ==
  \A t \in Threads : \A k \in DOMAIN cmd_reg :
    /\ pc[t] \notin {"idle", "end"}
    /\ cmd_reg[k].sequence \in lasting[t]
    /\ Matches(cmd_reg[k], t)
    /\ cmd_reg[k].sequence >= before[t] \/ pc[t] = "unknown"
    => cmd_reg[k].sequence \in tried[t]

(* Between two commands, the only reply allocated for the message is the   *)
(* one to be returned: those it has replaced have been freed, once, and it *)
(* has not, on success and on failure.                                     *)
RepliesOwnedOnce ==
  \A t \in Threads : pc[t] \in {"find", "forward", "next", "unknown", "end"} =>
    live[t] = {reply[t]} \ {0}

(* Every message is interpreted to its end, whatever other threads         *)
(* register meanwhile.                                                     *)
MessagesEnd == \A t \in Threads : pc[t] = "find" ~> pc[t] = "end"

-----------------------------------------------------------------------------
(* What makes these invariants inductive.                                  *)

(* No registration has a number that is still to be given.                 *)
NumbersGiven ==
  /\ \A k \in DOMAIN cmd_reg : cmd_reg[k].sequence <= cmd_reg_sequence
  /\ \A t \in Threads : lasting[t] \subseteq 1..cmd_reg_sequence

(* A thread that interprets a message has a line to interpret.             *)
LinesLeft == \A t \in Threads : pc[t] # "idle" => rest[t] # <<>>

(* Which replies are allocated, before, during and after a command.        *)
RepliesAccounted ==
  \A t \in Threads :
    /\ pc[t] = "idle" => reply[t] = 0 /\ previous[t] = 0 /\ live[t] = {}
    /\ pc[t] \in {"find", "next", "unknown", "end"} =>
         previous[t] = 0 /\ live[t] = {reply[t]} \ {0}
    /\ pc[t] \in {"host", "forward"} =>
         previous[t] = reply[t] /\ live[t] = {reply[t]} \ {0}
    /\ pc[t] \in {"not_handled", "handled", "return"} =>
         live[t] = {reply[t], previous[t]} \ {0}

IInv == TypeOK /\ NumbersGiven /\ LinesLeft /\ NothingOverlooked /\ RepliesAccounted

=============================================================================
