-------------------------- MODULE ModuleCallsProofs --------------------------
(***************************************************************************)
(* The safety properties of ModuleCalls, for any number of threads and     *)
(* modules, any build, any call graph and any depth of nested calls.       *)
(***************************************************************************)
EXTENDS ModuleCalls, SequenceTheorems, FiniteSetTheorems, TLAPS

(* A call added to a stack, and the last one taken away.                   *)
LEMMA StackPush ==
  ASSUME NEW s \in Seq(Frame), NEW f \in Frame
  PROVE  /\ Append(s, f) \in Seq(Frame) /\ Append(s, f) # <<>>
         /\ Len(Append(s, f)) = Len(s) + 1
         /\ Append(s, f)[Len(s) + 1] = f
         /\ \A i \in 1..Len(s) : Append(s, f)[i] = s[i]
  BY AppendProperties

LEMMA StackPop ==
  ASSUME NEW s \in Seq(Frame), s # <<>>
  PROVE  /\ Len(s) \in Nat \ {0} /\ s[Len(s)] \in Frame
         /\ SubSeq(s, 1, Len(s) - 1) \in Seq(Frame)
         /\ Len(SubSeq(s, 1, Len(s) - 1)) = Len(s) - 1
         /\ \A i \in 1..(Len(s) - 1) : SubSeq(s, 1, Len(s) - 1)[i] = s[i]
<1>1. Len(s) \in Nat \ {0}
  BY EmptySeq
<1>2. \A i \in 1..Len(s) : s[i] \in Frame
  BY ElementOfSeq
<1>3. PICK n \in Nat : n = Len(s) - 1
  BY <1>1
<1>4. \A i \in 1..n : s[i] \in Frame
  BY <1>1, <1>2, <1>3
<1>5. /\ SubSeq(s, 1, n) \in Seq(Frame)
      /\ Len(SubSeq(s, 1, n)) = IF 1 <= n THEN n - 1 + 1 ELSE 0
      /\ \A i \in 1..(n - 1 + 1) : SubSeq(s, 1, n)[i] = s[1 + i - 1]
  BY <1>4, SubSeqProperties
<1>6. /\ Len(SubSeq(s, 1, n)) = n
      /\ \A i \in 1..n : SubSeq(s, 1, n)[i] = s[i]
  BY <1>5
<1>7. s[Len(s)] \in Frame
  BY <1>1, <1>2
<1>8. SubSeq(s, 1, Len(s) - 1) = SubSeq(s, 1, n)
  BY <1>3
<1>9. QED
  BY <1>1, <1>3, <1>5, <1>6, <1>7, <1>8

(* How often a stack uses a runner.                                        *)
LEMMA UsesCounted ==
  ASSUME NEW s \in Seq(Frame), NEW r
  PROVE  /\ IsFiniteSet(Uses(s, r)) /\ Cardinality(Uses(s, r)) \in Nat
         /\ Cardinality(Uses(s, r)) <= Len(s)
         /\ Cardinality(Uses(s, r)) = 0 <=> \A k \in 1..Len(s) : s[k].runner # r
<1>1. Len(s) \in Nat
  BY LenProperties
<1>2. IsFiniteSet(1..Len(s)) /\ Cardinality(1..Len(s)) = Len(s)
  BY <1>1, FS_Interval
<1>3. Uses(s, r) \in SUBSET (1..Len(s))
  BY DEF Uses
<1>4. IsFiniteSet(Uses(s, r)) /\ Cardinality(Uses(s, r)) <= Len(s)
  BY <1>2, <1>3, FS_Subset
<1>5. Cardinality(Uses(s, r)) \in Nat
  BY <1>4, FS_CardinalityType
<1>6. Cardinality(Uses(s, r)) = 0 <=> Uses(s, r) = {}
  BY <1>4, FS_EmptySet
<1>7. QED
  BY <1>4, <1>5, <1>6 DEF Uses

(* Each call adds one use, and takes it away when it ends.                 *)
LEMMA UsesPushed ==
  ASSUME NEW s \in Seq(Frame), NEW f \in Frame, NEW r
  PROVE  Cardinality(Uses(Append(s, f), r)) =
           Cardinality(Uses(s, r)) + (IF f.runner = r THEN 1 ELSE 0)
<1>1. Len(s) \in Nat
  BY LenProperties
<1>2. IsFiniteSet(Uses(s, r))
  BY UsesCounted
<1>5. Len(s) + 1 \notin Uses(s, r)
  BY <1>1 DEF Uses
<1>3. CASE f.runner = r
  <2>1. Uses(Append(s, f), r) = Uses(s, r) \cup {Len(s) + 1}
    BY <1>1, <1>3, StackPush DEF Uses
  <2>2. QED
    BY <1>2, <1>3, <1>5, <2>1, FS_AddElement
<1>4. CASE f.runner # r
  <2>1. Uses(Append(s, f), r) = Uses(s, r)
    BY <1>1, <1>4, StackPush DEF Uses
  <2>2. QED
    BY <1>4, <2>1, UsesCounted
<1>6. QED
  BY <1>3, <1>4

LEMMA UsesPopped ==
  ASSUME NEW s \in Seq(Frame), s # <<>>, NEW r
  PROVE  Cardinality(Uses(s, r)) =
           Cardinality(Uses(SubSeq(s, 1, Len(s) - 1), r))
             + (IF s[Len(s)].runner = r THEN 1 ELSE 0)
<1> DEFINE rest == SubSeq(s, 1, Len(s) - 1)
<1>1. /\ Len(s) \in Nat \ {0} /\ rest \in Seq(Frame) /\ Len(rest) = Len(s) - 1
      /\ \A i \in 1..(Len(s) - 1) : rest[i] = s[i]
  BY StackPop
<1>2. IsFiniteSet(Uses(rest, r))
  BY <1>1, UsesCounted
<1>5. Len(s) \notin Uses(rest, r)
  BY <1>1 DEF Uses
<1> HIDE DEF rest
<1>3. CASE s[Len(s)].runner = r
  <2>1. Uses(s, r) = Uses(rest, r) \cup {Len(s)}
    BY <1>1, <1>3 DEF Uses
  <2>2. QED
    BY <1>2, <1>3, <1>5, <2>1, FS_AddElement DEF rest
<1>4. CASE s[Len(s)].runner # r
  <2>1. Uses(s, r) = Uses(rest, r)
    BY <1>1, <1>4 DEF Uses
  <2>2. QED
    BY <1>1, <1>4, <2>1, UsesCounted DEF rest
<1>6. QED
  BY <1>3, <1>4

-----------------------------------------------------------------------------
(* What every step has in common.                                          *)

PcValues == {"host", "checked", "lock", "locked", "guest", "returned",
             "trapped", "leave_report", "leave_park", "print", "claim",
             "report", "parked", "exit"}

(* A runner's identity names its module.                                   *)
LEMMA RunnerModules ==
  ASSUME NEW r \in RunnerIds
  PROVE  ModuleOf(r) \in Modules
  BY DEF RunnerIds, ModuleOf

(* A thread changes nothing of another one, and a module keeps its backend. *)
LEMMA StepOthers ==
  ASSUME TypeOK, NEW t \in Threads, ThreadStep(t)
  PROVE  /\ \A u \in Threads \ {t} :
              /\ pc'[u] = pc[u] /\ target'[u] = target[u]
              /\ stack'[u] = stack[u] /\ cur_runner'[u] = cur_runner[u]
         /\ \A m \in Modules : ctx'[m].type = ctx[m].type
         /\ \A r \in RunnerIds : BackendOf(r)' = BackendOf(r)
<1>1. \A u \in Threads \ {t} : pc'[u] = pc[u] /\ target'[u] = target[u]
  BY DEF TypeOK, ThreadStep, Advance, BeginCall, RefuseInvalid, PassChecks,
     LockRunner, EnterGuest, GuestReturns, CallReturns, GuestTraps,
     ClaimInside, LeaveTrapped, LeaveAndPrint, PrintException, ClaimOutside,
     Report, ExitProcess, Claim
<1>2. \A u \in Threads \ {t} :
        stack'[u] = stack[u] /\ cur_runner'[u] = cur_runner[u]
  BY DEF TypeOK, ThreadStep, Advance, BeginCall, RefuseInvalid, PassChecks,
     LockRunner, EnterGuest, GuestReturns, CallReturns, GuestTraps,
     ClaimInside, LeaveTrapped, LeaveAndPrint, PrintException, ClaimOutside,
     Report, ExitProcess, LeaveRunner
<1>3. \A m \in Modules : ctx'[m].type = ctx[m].type
  <2>1. CASE Report(t)
    BY <2>1 DEF TypeOK, Report
  <2>2. CASE ~Report(t)
    BY <2>2 DEF ThreadStep, Advance, BeginCall, RefuseInvalid, PassChecks,
       LockRunner, EnterGuest, GuestReturns, CallReturns, GuestTraps,
       ClaimInside, LeaveTrapped, LeaveAndPrint, PrintException, ClaimOutside,
       ExitProcess
  <2>3. QED
    BY <2>1, <2>2
<1>4. \A r \in RunnerIds : BackendOf(r)' = BackendOf(r)
  BY <1>3, RunnerModules DEF BackendOf
<1>5. QED
  BY <1>1, <1>2, <1>3, <1>4

(* Leaving a runner takes the last call away.                              *)
LEMMA LeaveEffect ==
  ASSUME TypeOK, NEW t \in Threads, stack[t] # <<>>, LeaveRunner(t)
  PROVE  /\ Len(stack[t]) \in Nat \ {0} /\ Top(t) \in Frame
         /\ Len(stack'[t]) = Len(stack[t]) - 1
         /\ stack'[t] = SubSeq(stack[t], 1, Len(stack[t]) - 1)
         /\ \A i \in 1..(Len(stack[t]) - 1) : stack'[t][i] = stack[t][i]
         /\ stack' \in [Threads -> Seq(Frame)]
         /\ \A u \in Threads : Len(stack'[u]) <= MaxDepth
         /\ cur_runner' \in [Threads -> [Backends -> RunnerIds \cup {NoRunner}]]
         /\ \A k \in Backends : cur_runner'[t][k] =
              IF k = BackendOf(Top(t).runner) THEN Top(t).previous ELSE cur_runner[t][k]
         /\ mutex'[Top(t).runner] = Released(mutex[Top(t).runner])
         /\ \A r \in RunnerIds \ {Top(t).runner} : mutex'[r] = mutex[r]
<1>1. stack[t] \in Seq(Frame)
  BY DEF TypeOK
<1>2. /\ Len(stack[t]) \in Nat \ {0} /\ Top(t) \in Frame
      /\ SubSeq(stack[t], 1, Len(stack[t]) - 1) \in Seq(Frame)
      /\ Len(SubSeq(stack[t], 1, Len(stack[t]) - 1)) = Len(stack[t]) - 1
      /\ \A i \in 1..(Len(stack[t]) - 1) :
           SubSeq(stack[t], 1, Len(stack[t]) - 1)[i] = stack[t][i]
  BY <1>1, StackPop DEF Top
<1>3. stack'[t] = SubSeq(stack[t], 1, Len(stack[t]) - 1)
  BY DEF LeaveRunner, TypeOK
<1>4. stack' \in [Threads -> Seq(Frame)]
  BY <1>2 DEF LeaveRunner, TypeOK
<1>5. \A u \in Threads : Len(stack'[u]) <= MaxDepth
  <2>1. \A u \in Threads \ {t} : stack'[u] = stack[u]
    BY DEF LeaveRunner, TypeOK
  <2>2. Len(stack'[t]) = Len(stack[t]) - 1 /\ Len(stack[t]) <= MaxDepth
    BY <1>2, <1>3 DEF TypeOK
  <2>3. Len(stack'[t]) <= MaxDepth
    BY <1>2, <2>2, CallsAssumption
  <2>4. QED
    BY <2>1, <2>3 DEF TypeOK
<1>6. Top(t).runner \in RunnerIds /\ Top(t).previous \in RunnerIds \cup {NoRunner}
  BY <1>2 DEF Frame
<1>7. cur_runner' \in [Threads -> [Backends -> RunnerIds \cup {NoRunner}]]
  BY <1>6 DEF LeaveRunner, TypeOK, Restored
<1>8. \A k \in Backends : cur_runner'[t][k] =
        IF k = BackendOf(Top(t).runner) THEN Top(t).previous ELSE cur_runner[t][k]
  BY DEF LeaveRunner, TypeOK, Restored
<1>9. /\ mutex'[Top(t).runner] = Released(mutex[Top(t).runner])
      /\ \A r \in RunnerIds \ {Top(t).runner} : mutex'[r] = mutex[r]
  BY <1>6 DEF LeaveRunner, TypeOK
<1>10. QED
  BY <1>2, <1>3, <1>4, <1>5, <1>7, <1>8, <1>9

-----------------------------------------------------------------------------
(* Who holds which mutex.                                                  *)

(* A thread's uses of a runner bound how often it holds the mutex.         *)
LEMMA HoldsBounded ==
  ASSUME TypeOK, PhaseInv, NEW t \in Threads, NEW r \in RunnerIds
  PROVE  /\ Holds(t, r) \in Nat /\ Holds(t, r) <= MaxDepth
         /\ IsOn(t, r) => Holds(t, r) > 0
         /\ pc[t] = "locked" /\ target[t] = r => Holds(t, r) > 0
<1>1. /\ stack[t] \in Seq(Frame) /\ Len(stack[t]) <= MaxDepth
      /\ pc[t] = "locked" => Len(stack[t]) < MaxDepth
  BY DEF TypeOK, PhaseInv
<1>2. Len(stack[t]) \in Nat /\ DOMAIN stack[t] = 1..Len(stack[t])
  BY <1>1, LenProperties
<1>3. /\ Cardinality(Uses(stack[t], r)) \in Nat
      /\ Cardinality(Uses(stack[t], r)) <= Len(stack[t])
      /\ Cardinality(Uses(stack[t], r)) = 0 =>
           \A k \in 1..Len(stack[t]) : stack[t][k].runner # r
  BY <1>1, UsesCounted
<1>4. QED
  BY <1>1, <1>2, <1>3, CallsAssumption DEF Holds, IsOn

(* A mutex that somebody holds is held as often as its holder uses it.     *)
LEMMA HolderCounted ==
  ASSUME MutexInv, NEW t \in Threads, NEW r \in RunnerIds, Holds(t, r) > 0
  PROVE  mutex[r].holder = t /\ mutex[r].count = Holds(t, r)
  BY DEF MutexInv

(* Steps that take and release nothing.                                    *)
LEMMA MutexKept ==
  ASSUME MutexInv, NEW t \in Threads, UNCHANGED <<mutex, stack>>,
         pc[t] # "locked", pc'[t] # "locked",
         \A u \in Threads \ {t} : pc'[u] = pc[u] /\ target'[u] = target[u]
  PROVE  MutexInv'
<1>1. \A u \in Threads, r \in RunnerIds : Holds(u, r)' = Holds(u, r)
  BY DEF Holds
<1>2. QED
  BY <1>1 DEF MutexInv

(* Locking adds one, entering turns the lock into a use, leaving undoes    *)
(* both.                                                                   *)
LEMMA MutexLocked ==
  ASSUME TypeOK, PhaseInv, MutexInv, NEW t \in Threads, LockRunner(t)
  PROVE  /\ MutexInv'
         /\ mutex' \in [RunnerIds -> [holder : Threads \cup {NoThread},
                                       count : 0..MaxDepth]]
<1>1. /\ target[t] \in RunnerIds /\ pc[t] = "lock" /\ pc'[t] = "locked"
      /\ UNCHANGED <<stack, target>>
      /\ \A u \in Threads \ {t} : pc'[u] = pc[u]
      /\ mutex[target[t]].holder \in {NoThread, t}
      /\ mutex' = [mutex EXCEPT ![target[t]] = [holder |-> t, count |-> @.count + 1]]
  BY DEF LockRunner, Lock, PhaseInv, TypeOK
<1>2. /\ stack[t] \in Seq(Frame) /\ Len(stack[t]) \in Nat
      /\ Len(stack[t]) < MaxDepth
  BY <1>1, LenProperties DEF TypeOK, PhaseInv
<1>3. /\ Cardinality(Uses(stack[t], target[t])) \in Nat
      /\ Cardinality(Uses(stack[t], target[t])) < MaxDepth
  BY <1>2, UsesCounted, CallsAssumption
<1>4. /\ Holds(t, target[t]) = Cardinality(Uses(stack[t], target[t]))
      /\ \A r \in RunnerIds : r = target[t] => Holds(t, r)' = Holds(t, r) + 1
      /\ \A r \in RunnerIds \ {target[t]} : Holds(t, r)' = Holds(t, r)
      /\ \A u \in Threads \ {t}, r \in RunnerIds : Holds(u, r)' = Holds(u, r)
  BY <1>1, <1>3 DEF Holds
<1>5. mutex[target[t]].count = Holds(t, target[t])
  BY <1>1, NamesAssumption DEF MutexInv
<1>6. /\ \A r \in RunnerIds \ {target[t]} : mutex'[r] = mutex[r]
      /\ mutex'[target[t]].holder = t
      /\ mutex'[target[t]].count = Holds(t, target[t]) + 1
  BY <1>1, <1>5 DEF TypeOK
<1>7. MutexInv'
  <2> SUFFICES ASSUME NEW r \in RunnerIds
               PROVE  /\ mutex'[r].holder = NoThread => mutex'[r].count = 0
                      /\ \A u \in Threads :
                           IF mutex'[r].holder = u
                           THEN Holds(u, r)' = mutex'[r].count /\ Holds(u, r)' > 0
                           ELSE Holds(u, r)' = 0
    BY DEF MutexInv
  <2>1. CASE r # target[t]
    BY <1>4, <1>6, <2>1 DEF MutexInv
  <2>2. CASE r = target[t]
    <3>1. \A u \in Threads \ {t} : Holds(u, r) = 0
      BY <1>1, <2>2, NamesAssumption DEF MutexInv
    <3>2. QED
      BY <1>3, <1>4, <1>6, <2>2, <3>1, NamesAssumption
  <2>3. QED
    BY <2>1, <2>2
<1>8. mutex[target[t]].count + 1 \in 0..MaxDepth
  BY <1>3, <1>4, <1>5, CallsAssumption
<1>9. QED
  BY <1>1, <1>7, <1>8 DEF TypeOK

LEMMA MutexEntered ==
  ASSUME TypeOK, PhaseInv, MutexInv, NEW t \in Threads, EnterGuest(t)
  PROVE  MutexInv'
<1>1. /\ target[t] \in RunnerIds /\ pc[t] = "locked" /\ pc'[t] = "guest"
      /\ UNCHANGED <<mutex, target>>
      /\ \A u \in Threads \ {t} : pc'[u] = pc[u] /\ stack'[u] = stack[u]
      /\ stack'[t] = Append(stack[t],
            [runner |-> target[t], previous |-> cur_runner[t][BackendOf(target[t])]])
  BY DEF EnterGuest, PhaseInv, TypeOK
<1>2. /\ stack[t] \in Seq(Frame)
      /\ [runner |-> target[t], previous |-> cur_runner[t][BackendOf(target[t])]] \in Frame
  <2>1. BackendOf(target[t]) \in Backends
    BY <1>1, RunnerModules DEF TypeOK, BackendOf
  <2>2. cur_runner[t][BackendOf(target[t])] \in RunnerIds \cup {NoRunner}
    BY <2>1 DEF TypeOK
  <2>3. QED
    BY <1>1, <2>2 DEF TypeOK, Frame
<1>3. \A r \in RunnerIds : Cardinality(Uses(stack'[t], r)) =
        Cardinality(Uses(stack[t], r)) + (IF target[t] = r THEN 1 ELSE 0)
  BY <1>1, <1>2, UsesPushed
<1>4. \A r \in RunnerIds : Cardinality(Uses(stack[t], r)) \in Nat
  BY <1>2, UsesCounted
<1>5. \A r \in RunnerIds : Holds(t, r)' = Holds(t, r)
  BY <1>1, <1>3, <1>4 DEF Holds
<1>6. \A u \in Threads \ {t}, r \in RunnerIds : Holds(u, r)' = Holds(u, r)
  BY <1>1 DEF Holds
<1>7. QED
  BY <1>1, <1>5, <1>6 DEF MutexInv

LEMMA MutexReleased ==
  ASSUME TypeOK, PhaseInv, MutexInv, NEW t \in Threads, stack[t] # <<>>,
         LeaveRunner(t), pc[t] # "locked", pc'[t] # "locked",
         \A u \in Threads \ {t} : /\ pc'[u] = pc[u] /\ target'[u] = target[u]
                                  /\ stack'[u] = stack[u]
  PROVE  /\ MutexInv'
         /\ mutex' \in [RunnerIds -> [holder : Threads \cup {NoThread},
                                       count : 0..MaxDepth]]
<1> DEFINE top == Top(t).runner
<1>1. /\ top \in RunnerIds /\ stack[t] \in Seq(Frame)
      /\ top = stack[t][Len(stack[t])].runner
      /\ stack'[t] = SubSeq(stack[t], 1, Len(stack[t]) - 1)
      /\ mutex'[top] = Released(mutex[top])
      /\ \A r \in RunnerIds \ {top} : mutex'[r] = mutex[r]
      /\ stack' \in [Threads -> Seq(Frame)]
  BY LeaveEffect DEF Frame, Top, TypeOK
<1> HIDE DEF top
<1>2. \A r \in RunnerIds : Cardinality(Uses(stack[t], r)) =
        Cardinality(Uses(stack'[t], r)) + (IF top = r THEN 1 ELSE 0)
  BY <1>1, UsesPopped
<1>3. \A r \in RunnerIds : Cardinality(Uses(stack'[t], r)) \in Nat
  BY <1>1, UsesCounted
<1>4. /\ \A r \in RunnerIds :
           Holds(t, r) = Holds(t, r)' + (IF top = r THEN 1 ELSE 0) /\ Holds(t, r)' \in Nat
      /\ \A u \in Threads \ {t}, r \in RunnerIds : Holds(u, r)' = Holds(u, r)
  BY <1>2, <1>3 DEF Holds
<1>5. /\ Holds(t, top) \in Nat \ {0}
      /\ mutex[top].holder = t /\ mutex[top].count = Holds(t, top)
  <2>1. Holds(t, top) \in Nat \ {0}
    BY <1>1, <1>4
  <2>2. QED
    BY <1>1, <2>1, HolderCounted
<1>6. mutex[top] \in [holder : Threads \cup {NoThread}, count : 0..MaxDepth]
  BY <1>1 DEF TypeOK
<1>12. Released(mutex[top]) =
         IF Holds(t, top) = 1 THEN [holder |-> NoThread, count |-> 0]
                              ELSE [holder |-> t, count |-> Holds(t, top) - 1]
  BY <1>5, <1>6 DEF Released
<1>7. \A r \in RunnerIds : r = top =>
        IF Holds(t, r)' = 0
        THEN mutex'[r] = [holder |-> NoThread, count |-> 0]
        ELSE mutex'[r].holder = t /\ mutex'[r].count = Holds(t, r)'
  <2> SUFFICES ASSUME NEW r \in RunnerIds, r = top
               PROVE  IF Holds(t, r)' = 0
                      THEN mutex'[r] = [holder |-> NoThread, count |-> 0]
                      ELSE mutex'[r].holder = t /\ mutex'[r].count = Holds(t, r)'
    OBVIOUS
  <2>1. Holds(t, r) = Holds(t, r)' + 1 /\ Holds(t, r)' \in Nat
    BY <1>4
  <2>2. mutex'[r] = IF Holds(t, r) = 1 THEN [holder |-> NoThread, count |-> 0]
                    ELSE [holder |-> t, count |-> Holds(t, r) - 1]
    BY <1>1, <1>12
  <2>3. CASE Holds(t, r)' = 0
    BY <2>1, <2>2, <2>3
  <2>4. CASE Holds(t, r)' # 0
    BY <2>1, <2>2, <2>4
  <2>5. QED
    BY <2>3, <2>4
<1>8. MutexInv'
  <2> SUFFICES ASSUME NEW r \in RunnerIds
               PROVE  /\ mutex'[r].holder = NoThread => mutex'[r].count = 0
                      /\ \A u \in Threads :
                           IF mutex'[r].holder = u
                           THEN Holds(u, r)' = mutex'[r].count /\ Holds(u, r)' > 0
                           ELSE Holds(u, r)' = 0
    BY DEF MutexInv
  <2>1. CASE r # top
    BY <1>1, <1>4, <2>1 DEF MutexInv
  <2>2. CASE r = top
    <3>1. \A u \in Threads \ {t} : Holds(u, r)' = 0
      BY <1>4, <1>5, <2>2 DEF MutexInv
    <3>2. CASE Holds(t, r)' = 0
      BY <1>7, <2>2, <3>1, <3>2, NamesAssumption
    <3>3. CASE Holds(t, r)' # 0
      BY <1>4, <1>7, <2>2, <3>1, <3>3, NamesAssumption
    <3>4. QED
      BY <3>2, <3>3
  <2>3. QED
    BY <2>1, <2>2
<1>9. Released(mutex[top]) \in [holder : Threads \cup {NoThread}, count : 0..MaxDepth]
  BY <1>5, <1>6, <1>12, CallsAssumption
<1>10. mutex' \in [RunnerIds -> [holder : Threads \cup {NoThread}, count : 0..MaxDepth]]
  BY <1>1, <1>9 DEF LeaveRunner, TypeOK, top
<1>11. QED
  BY <1>8, <1>10

-----------------------------------------------------------------------------
(* Which runner is the current one of each backend.                        *)

(* Steps that neither enter nor leave a runner, enter one, leave one.      *)
LEMMA RouteKept ==
  ASSUME TypeOK, RouteInv, UNCHANGED <<stack, cur_runner>>,
         \A r \in RunnerIds : BackendOf(r)' = BackendOf(r)
  PROVE  RouteInv'
<1>1. \A t \in Threads : \A i \in 1..Len(stack[t]) :
        BackendOf(stack[t][i].runner)' = BackendOf(stack[t][i].runner)
  <2> SUFFICES ASSUME NEW t \in Threads, NEW i \in 1..Len(stack[t])
               PROVE  BackendOf(stack[t][i].runner)' = BackendOf(stack[t][i].runner)
    OBVIOUS
  <2>1. stack[t][i] \in Frame
    BY ElementOfSeq DEF TypeOK
  <2>2. stack[t][i].runner \in RunnerIds /\ stack'[t][i] = stack[t][i]
    BY <2>1 DEF Frame
  <2>3. QED
    BY <2>2
<1> SUFFICES ASSUME NEW t \in Threads
             PROVE  /\ \A k \in Backends : Innermost(stack[t], k, Len(stack[t]), cur_runner[t][k])'
                    /\ \A j \in 1..Len(stack'[t]) :
                         Innermost(stack[t], BackendOf(stack[t][j].runner), j - 1,
                                   stack[t][j].previous)'
  BY DEF RouteInv
<1>2. Len(stack[t]) \in Nat
  BY LenProperties DEF TypeOK
<1>3. ASSUME NEW k \in Backends
      PROVE  Innermost(stack[t], k, Len(stack[t]), cur_runner[t][k])'
  <2>1. Innermost(stack[t], k, Len(stack[t]), cur_runner[t][k])
    BY DEF RouteInv
  <2>2. QED
    BY <1>1, <1>2, <2>1 DEF Innermost
<1>4. ASSUME NEW j \in 1..Len(stack'[t])
      PROVE  Innermost(stack[t], BackendOf(stack[t][j].runner), j - 1,
                       stack[t][j].previous)'
  <2>1. Innermost(stack[t], BackendOf(stack[t][j].runner), j - 1, stack[t][j].previous)
    BY DEF RouteInv
  <2>2. QED
    BY <1>1, <1>2, <2>1 DEF Innermost
<1>5. QED
  BY <1>3, <1>4

LEMMA RouteEntered ==
  ASSUME TypeOK, PhaseInv, RouteInv, NEW t \in Threads, EnterGuest(t)
  PROVE  RouteInv'
<1> DEFINE r == target[t]
           c == cur_runner[t][BackendOf(target[t])]
           n == Len(stack[t])
<1>1. /\ r \in RunnerIds /\ ctx' = ctx
      /\ \A u \in Threads \ {t} : stack'[u] = stack[u] /\ cur_runner'[u] = cur_runner[u]
      /\ stack'[t] = Append(stack[t], [runner |-> r, previous |-> c])
      /\ \A k \in Backends : cur_runner'[t][k] =
           IF k = BackendOf(r) THEN r ELSE cur_runner[t][k]
  BY DEF EnterGuest, PhaseInv, TypeOK
<1>2. BackendOf(r) \in Backends /\ stack[t] \in Seq(Frame) /\ n \in Nat
  BY <1>1, RunnerModules, LenProperties DEF TypeOK, BackendOf
<1>3. [runner |-> r, previous |-> c] \in Frame
  BY <1>1, <1>2 DEF TypeOK, Frame
<1>4. /\ Len(stack'[t]) = n + 1
      /\ stack'[t][n + 1] = [runner |-> r, previous |-> c]
      /\ \A i \in 1..n : stack'[t][i] = stack[t][i]
  BY <1>1, <1>2, <1>3, StackPush
<1>6. /\ \A k \in Backends : Innermost(stack[t], k, n, cur_runner[t][k])
      /\ \A j \in 1..n : Innermost(stack[t], BackendOf(stack[t][j].runner),
                                   j - 1, stack[t][j].previous)
  BY DEF RouteInv
<1> HIDE DEF r, c, n
<1>7. ASSUME NEW u \in Threads \ {t}
      PROVE  /\ \A k \in Backends : Innermost(stack[u], k, Len(stack[u]), cur_runner[u][k])'
             /\ \A j \in 1..Len(stack'[u]) :
                  Innermost(stack[u], BackendOf(stack[u][j].runner), j - 1,
                            stack[u][j].previous)'
  <2>1. /\ stack'[u] = stack[u] /\ cur_runner'[u] = cur_runner[u]
        /\ \A k \in Backends : Innermost(stack[u], k, Len(stack[u]), cur_runner[u][k])
        /\ \A j \in 1..Len(stack[u]) :
             Innermost(stack[u], BackendOf(stack[u][j].runner), j - 1,
                       stack[u][j].previous)
    BY <1>1 DEF RouteInv
  <2>2. \A k \in Backends : Innermost(stack[u], k, Len(stack[u]), cur_runner[u][k])'
    BY <1>1, <2>1 DEF Innermost, BackendOf
  <2>3. \A j \in 1..Len(stack'[u]) :
          Innermost(stack[u], BackendOf(stack[u][j].runner), j - 1,
                    stack[u][j].previous)'
    BY <1>1, <2>1 DEF Innermost, BackendOf
  <2>4. QED
    BY <2>2, <2>3
<1>8. ASSUME NEW k \in Backends
      PROVE  Innermost(stack[t], k, Len(stack[t]), cur_runner[t][k])'
  <2>1. CASE k = BackendOf(r)
    BY <1>1, <1>2, <1>4, <1>1, <2>1 DEF Innermost, BackendOf
  <2>2. CASE k # BackendOf(r)
    <3>1. Innermost(stack[t], k, n, cur_runner'[t][k])
      BY <1>1, <1>6, <2>2
    <3>2. \A i \in 1..(n + 1) : i \in 1..n \/ i = n + 1
      BY <1>2
    <3>3. CASE /\ cur_runner'[t][k] = NoRunner
               /\ \A i \in 1..n : BackendOf(stack[t][i].runner) # k
      BY <1>2, <1>4, <1>1, <2>2, <3>2, <3>3 DEF Innermost, BackendOf
    <3>4. CASE \E j \in 1..n :
                 /\ stack[t][j].runner = cur_runner'[t][k]
                 /\ BackendOf(cur_runner'[t][k]) = k
                 /\ \A i \in (j + 1)..n : BackendOf(stack[t][i].runner) # k
      <4>1. PICK j \in 1..n :
              /\ stack[t][j].runner = cur_runner'[t][k]
              /\ BackendOf(cur_runner'[t][k]) = k
              /\ \A i \in (j + 1)..n : BackendOf(stack[t][i].runner) # k
        BY <3>4
      <4>2. /\ j \in 1..(n + 1) /\ stack'[t][j].runner = cur_runner'[t][k]
            /\ \A i \in (j + 1)..(n + 1) : BackendOf(stack[t][i].runner)' # k
        BY <1>1, <1>2, <1>4, <2>2, <4>1 DEF BackendOf
      <4>3. QED
        BY <1>4, <1>1, <4>1, <4>2 DEF Innermost, BackendOf
    <3>5. QED
      BY <3>1, <3>3, <3>4 DEF Innermost, BackendOf
  <2>3. QED
    BY <2>1, <2>2
<1>9. ASSUME NEW j \in 1..Len(stack'[t])
      PROVE  Innermost(stack[t], BackendOf(stack[t][j].runner), j - 1,
                       stack[t][j].previous)'
  <2>1. CASE j = n + 1
    <3>1. Innermost(stack[t], BackendOf(r), n, c)
      BY <1>2, <1>6 DEF c, r
    <3>2. /\ stack'[t][j].runner = r /\ stack'[t][j].previous = c
          /\ j - 1 = n
      BY <1>2, <1>4, <2>1
    <3>3. QED
      BY <1>2, <1>4, <1>1, <3>1, <3>2 DEF Innermost, BackendOf
  <2>2. CASE j # n + 1
    <3>1. j \in 1..n /\ Innermost(stack[t], BackendOf(stack[t][j].runner),
                                  j - 1, stack[t][j].previous)
      BY <1>2, <1>4, <1>6, <2>2
    <3>2. /\ stack'[t][j] = stack[t][j]
          /\ \A i \in 1..(j - 1) : stack'[t][i] = stack[t][i]
      BY <1>2, <1>4, <3>1
    <3>3. /\ BackendOf(stack[t][j].runner)' = BackendOf(stack[t][j].runner)
          /\ \A i \in 1..(j - 1) :
               BackendOf(stack[t][i].runner)' = BackendOf(stack[t][i].runner)
          /\ BackendOf(stack[t][j].previous)' = BackendOf(stack[t][j].previous)
      BY <1>1, <3>2 DEF BackendOf
    <3>4. QED
      BY <3>1, <3>2, <3>3 DEF Innermost
  <2>3. QED
    BY <2>1, <2>2
<1>10. QED
  BY <1>7, <1>8, <1>9 DEF RouteInv

LEMMA RouteLeft ==
  ASSUME TypeOK, RouteInv, NEW t \in Threads, stack[t] # <<>>, LeaveRunner(t),
         \A u \in Threads \ {t} : stack'[u] = stack[u] /\ cur_runner'[u] = cur_runner[u],
         UNCHANGED ctx
  PROVE  RouteInv'
<1> DEFINE n == Len(stack[t])
           top == Top(t)
<1>1. /\ ctx' = ctx /\ n \in Nat \ {0} /\ Len(stack'[t]) = n - 1
      /\ \A i \in 1..(n - 1) : stack'[t][i] = stack[t][i]
      /\ top = stack[t][n]
      /\ \A k \in Backends : cur_runner'[t][k] =
           IF k = BackendOf(top.runner) THEN top.previous ELSE cur_runner[t][k]
  BY LeaveEffect DEF Top
<1>3. /\ \A k \in Backends : Innermost(stack[t], k, n, cur_runner[t][k])
      /\ \A j \in 1..n : Innermost(stack[t], BackendOf(stack[t][j].runner),
                                   j - 1, stack[t][j].previous)
  BY DEF RouteInv
<1> HIDE DEF n, top
<1>4. ASSUME NEW u \in Threads \ {t}
      PROVE  /\ \A k \in Backends : Innermost(stack[u], k, Len(stack[u]), cur_runner[u][k])'
             /\ \A j \in 1..Len(stack'[u]) :
                  Innermost(stack[u], BackendOf(stack[u][j].runner), j - 1,
                            stack[u][j].previous)'
  <2>1. /\ stack'[u] = stack[u] /\ cur_runner'[u] = cur_runner[u]
        /\ \A k \in Backends : Innermost(stack[u], k, Len(stack[u]), cur_runner[u][k])
        /\ \A j \in 1..Len(stack[u]) :
             Innermost(stack[u], BackendOf(stack[u][j].runner), j - 1,
                       stack[u][j].previous)
    BY <1>1 DEF RouteInv
  <2>2. \A k \in Backends : Innermost(stack[u], k, Len(stack[u]), cur_runner[u][k])'
    BY <1>1, <2>1 DEF Innermost, BackendOf
  <2>3. \A j \in 1..Len(stack'[u]) :
          Innermost(stack[u], BackendOf(stack[u][j].runner), j - 1,
                    stack[u][j].previous)'
    BY <1>1, <2>1 DEF Innermost, BackendOf
  <2>4. QED
    BY <2>2, <2>3
<1>5. ASSUME NEW k \in Backends
      PROVE  Innermost(stack[t], k, Len(stack[t]), cur_runner[t][k])'
  <2>1. CASE k = BackendOf(top.runner)
    <3>1. Innermost(stack[t], k, n - 1, top.previous)
      BY <1>1, <1>3, <2>1
    <3>2. cur_runner'[t][k] = top.previous /\ Len(stack'[t]) = n - 1
      BY <1>1, <2>1
    <3>3. \A i \in 1..(n - 1) :
            BackendOf(stack[t][i].runner)' = BackendOf(stack[t][i].runner)
      BY <1>1 DEF BackendOf
    <3>4. BackendOf(cur_runner[t][k])' = BackendOf(top.previous)
      BY <1>1, <3>2 DEF BackendOf
    <3>5. QED
      BY <1>1, <3>1, <3>2, <3>3, <3>4 DEF Innermost
  <2>2. CASE k # BackendOf(top.runner)
    <3>1. Innermost(stack[t], k, n, cur_runner[t][k])
      BY <1>3
    <3>2. Innermost(stack[t], k, n - 1, cur_runner[t][k])
      <4>1. BackendOf(stack[t][n].runner) # k
        BY <1>1, <2>2
      <4>2. ASSUME NEW j \in 1..n,
                   stack[t][j].runner = cur_runner[t][k],
                   BackendOf(cur_runner[t][k]) = k
            PROVE  j \in 1..(n - 1)
        BY <1>1, <4>1, <4>2
      <4>3. 1..(n - 1) \subseteq 1..n
        BY <1>1
      <4>4. \A j \in 1..n : (j + 1)..(n - 1) \subseteq (j + 1)..n
        BY <1>1
      <4>5. QED
        BY <3>1, <4>2, <4>3, <4>4 DEF Innermost
    <3>3. cur_runner'[t][k] = cur_runner[t][k] /\ Len(stack'[t]) = n - 1
      BY <1>1, <2>2
    <3>4. \A i \in 1..(n - 1) :
            BackendOf(stack[t][i].runner)' = BackendOf(stack[t][i].runner)
      BY <1>1 DEF BackendOf
    <3>5. BackendOf(cur_runner[t][k])' = BackendOf(cur_runner[t][k])
      BY <1>1, <3>3 DEF BackendOf
    <3>6. ASSUME cur_runner[t][k] = NoRunner,
                 \A i \in 1..(n - 1) : BackendOf(stack[t][i].runner) # k
          PROVE  Innermost(stack[t], k, Len(stack[t]), cur_runner[t][k])'
      BY <1>1, <3>3, <3>4, <3>6 DEF Innermost
    <3>7. ASSUME NEW j \in 1..(n - 1),
                 stack[t][j].runner = cur_runner[t][k],
                 BackendOf(cur_runner[t][k]) = k,
                 \A i \in (j + 1)..(n - 1) : BackendOf(stack[t][i].runner) # k
          PROVE  Innermost(stack[t], k, Len(stack[t]), cur_runner[t][k])'
      <4>1. /\ stack'[t][j].runner = cur_runner'[t][k]
            /\ BackendOf(cur_runner[t][k])' = k
        BY <1>1, <3>3, <3>5, <3>7
      <4>2. \A i \in (j + 1)..(n - 1) : BackendOf(stack[t][i].runner)' # k
        BY <1>1, <3>4, <3>7
      <4>3. QED
        BY <1>1, <3>3, <4>1, <4>2 DEF Innermost
    <3>8. QED
      BY <3>2, <3>6, <3>7 DEF Innermost
  <2>3. QED
    BY <2>1, <2>2
<1>6. ASSUME NEW j \in 1..Len(stack'[t])
      PROVE  Innermost(stack[t], BackendOf(stack[t][j].runner), j - 1,
                       stack[t][j].previous)'
  <2>1. j \in 1..n /\ j <= n - 1
    BY <1>1
  <2>2. Innermost(stack[t], BackendOf(stack[t][j].runner), j - 1, stack[t][j].previous)
    BY <1>3, <2>1
  <2>3. stack'[t][j] = stack[t][j]
    BY <1>1, <2>1
  <2>4. \A i \in 1..(j - 1) : stack'[t][i] = stack[t][i]
    BY <1>1, <2>1
  <2>5. /\ BackendOf(stack[t][j].runner)' = BackendOf(stack[t][j].runner)
        /\ BackendOf(stack[t][j].previous)' = BackendOf(stack[t][j].previous)
        /\ \A i \in 1..(j - 1) :
             BackendOf(stack[t][i].runner)' = BackendOf(stack[t][i].runner)
    BY <1>1, <2>3, <2>4 DEF BackendOf
  <2>6. ASSUME stack[t][j].previous = NoRunner,
               \A i \in 1..(j - 1) : BackendOf(stack[t][i].runner) #
                                       BackendOf(stack[t][j].runner)
        PROVE  Innermost(stack[t], BackendOf(stack[t][j].runner), j - 1,
                         stack[t][j].previous)'
    BY <2>3, <2>4, <2>5, <2>6 DEF Innermost
  <2>7. ASSUME NEW h \in 1..(j - 1),
               stack[t][h].runner = stack[t][j].previous,
               BackendOf(stack[t][j].previous) = BackendOf(stack[t][j].runner),
               \A i \in (h + 1)..(j - 1) : BackendOf(stack[t][i].runner) #
                                             BackendOf(stack[t][j].runner)
        PROVE  Innermost(stack[t], BackendOf(stack[t][j].runner), j - 1,
                         stack[t][j].previous)'
    <3>1. \A i \in (h + 1)..(j - 1) : i \in 1..(j - 1)
      BY <2>1, <2>7, <1>1
    <3>2. \A i \in (h + 1)..(j - 1) :
            BackendOf(stack[t][i].runner)' # BackendOf(stack[t][j].runner)'
      BY <2>5, <2>7, <3>1
    <3>3. /\ stack'[t][h].runner = stack'[t][j].previous
          /\ BackendOf(stack[t][j].previous)' = BackendOf(stack[t][j].runner)'
      BY <2>3, <2>4, <2>5, <2>7
    <3>4. QED
      BY <3>2, <3>3 DEF Innermost
  <2>8. QED
    BY <2>2, <2>6, <2>7 DEF Innermost
<1>7. QED
  BY <1>4, <1>5, <1>6 DEF RouteInv

-----------------------------------------------------------------------------
(* Types, and where a thread is in a call.                                 *)

(* What the other threads know stays true.                                 *)
LEMMA PhaseOfOthers ==
  ASSUME TypeOK, PhaseInv, NEW t \in Threads, ThreadStep(t), NEW u \in Threads \ {t}
  PROVE  /\ pc'[u] = "host" => stack'[u] = <<>>
         /\ pc'[u] \notin {"host", "guest"} => target'[u] \in RunnerIds
         /\ pc'[u] \in {"guest", "trapped", "leave_report", "leave_park"} =>
              stack'[u] # <<>>
         /\ pc'[u] \in {"trapped", "leave_report", "leave_park"} =>
              target'[u] = stack'[u][Len(stack'[u])].runner
         /\ pc'[u] \in {"checked", "lock", "locked"} => Len(stack'[u]) < MaxDepth
         /\ pc'[u] \in {"print", "claim"} => BackendOf(target[u])' = "wamr"
<1>1. /\ pc'[u] = pc[u] /\ target'[u] = target[u] /\ stack'[u] = stack[u]
      /\ target[u] \in RunnerIds => BackendOf(target[u])' = BackendOf(target[u])
  BY StepOthers
<1>2. /\ pc[u] = "host" => stack[u] = <<>>
      /\ pc[u] \notin {"host", "guest"} => target[u] \in RunnerIds
      /\ pc[u] \in {"guest", "trapped", "leave_report", "leave_park"} =>
           stack[u] # <<>>
      /\ pc[u] \in {"trapped", "leave_report", "leave_park"} =>
           target[u] = stack[u][Len(stack[u])].runner
      /\ pc[u] \in {"checked", "lock", "locked"} => Len(stack[u]) < MaxDepth
      /\ pc[u] \in {"print", "claim"} => BackendOf(target[u]) = "wamr"
  BY DEF PhaseInv, Top
<1>3. QED
  BY <1>1, <1>2

(* A step that neither enters nor leaves guest code.                       *)
LEMMA QuietPhase ==
  ASSUME TypeOK, PhaseInv, NEW t \in Threads,
         \/ BeginCall(t) \/ RefuseInvalid(t) \/ PassChecks(t) \/ LockRunner(t)
         \/ CallReturns(t) \/ GuestTraps(t) \/ ClaimInside(t)
         \/ PrintException(t) \/ ClaimOutside(t) \/ Report(t) \/ ExitProcess(t)
  PROVE  PhaseInv'
<1>1. ThreadStep(t) /\ UNCHANGED stack
  BY DEF ThreadStep, Advance, BeginCall, RefuseInvalid, PassChecks, LockRunner,
     CallReturns, GuestTraps, ClaimInside, PrintException, ClaimOutside,
     Report, ExitProcess
<1>2. /\ pc'[t] = "host" => stack[t] = <<>>
      /\ pc'[t] \notin {"host", "guest"} => target'[t] \in RunnerIds
      /\ pc'[t] \in {"guest", "trapped", "leave_report", "leave_park"} =>
           stack[t] # <<>>
      /\ pc'[t] \in {"trapped", "leave_report", "leave_park"} =>
           target'[t] = stack[t][Len(stack[t])].runner
      /\ pc'[t] \in {"checked", "lock", "locked"} => Len(stack[t]) < MaxDepth
      /\ pc'[t] \in {"print", "claim"} =>
           target'[t] = target[t] /\ BackendOf(target[t]) = "wamr"
  <2>1. CASE BeginCall(t)
    <3>1. PICK r \in RunnerIds : MayCall(t, r) /\ target' = [target EXCEPT ![t] = r]
      BY <2>1 DEF BeginCall
    <3>2. pc'[t] = "checked" /\ target'[t] = r
      BY <2>1, <3>1 DEF BeginCall, TypeOK
    <3>3. Len(stack[t]) < MaxDepth
      BY <3>1, CallsAssumption DEF MayCall, PhaseInv
    <3>4. QED
      BY <3>2, <3>3
  <2>2. CASE RefuseInvalid(t) \/ PassChecks(t) \/ LockRunner(t)
    BY <2>2 DEF RefuseInvalid, PassChecks, LockRunner, Claim, PhaseInv, TypeOK
  <2>3. CASE CallReturns(t)
    BY <2>3 DEF CallReturns, TypeOK
  <2>4. CASE GuestTraps(t)
    <3>1. stack[t] \in Seq(Frame) /\ stack[t] # <<>>
      BY <2>4 DEF GuestTraps, PhaseInv, TypeOK
    <3>2. Top(t).runner \in RunnerIds
      BY <3>1, StackPop DEF Top, Frame
    <3>3. QED
      BY <2>4, <3>1, <3>2 DEF GuestTraps, TypeOK, Top
  <2>5. CASE ClaimInside(t)
    BY <2>5 DEF ClaimInside, Claim, PhaseInv, TypeOK, Top
  <2>6. CASE PrintException(t) \/ ClaimOutside(t) \/ Report(t) \/ ExitProcess(t)
    BY <2>6 DEF PrintException, ClaimOutside, Report, ExitProcess, Claim,
       PhaseInv, TypeOK
  <2>7. QED
    BY <2>1, <2>2, <2>3, <2>4, <2>5, <2>6
<1>3. pc'[t] \in {"print", "claim"} => BackendOf(target[t])' = "wamr"
  <2> SUFFICES ASSUME pc'[t] \in {"print", "claim"}
               PROVE  BackendOf(target[t])' = "wamr"
    OBVIOUS
  <2>1. target'[t] \in RunnerIds /\ target'[t] = target[t]
        /\ BackendOf(target[t]) = "wamr"
    BY <1>2
  <2>2. BackendOf(target[t])' = BackendOf(target[t])
    BY <1>1, <2>1, StepOthers
  <2>3. QED
    BY <2>1, <2>2
<1>4. QED
  BY <1>1, <1>2, <1>3, PhaseOfOthers DEF PhaseInv, Top

(* A step that enters guest code, and one that leaves it.                  *)
LEMMA EnteredPhase ==
  ASSUME TypeOK, PhaseInv, NEW t \in Threads, EnterGuest(t)
  PROVE  /\ PhaseInv'
         /\ stack' \in [Threads -> Seq(Frame)]
         /\ \A u \in Threads : Len(stack'[u]) <= MaxDepth
         /\ cur_runner' \in [Threads -> [Backends -> RunnerIds \cup {NoRunner}]]
<1> DEFINE frame == [runner |-> target[t],
                    previous |-> cur_runner[t][BackendOf(target[t])]]
<1>1. /\ ThreadStep(t) /\ target[t] \in RunnerIds /\ pc'[t] = "guest"
      /\ Len(stack[t]) < MaxDepth
      /\ stack' = [stack EXCEPT ![t] = Append(stack[t], frame)]
  <2>1. ThreadStep(t)
    BY DEF ThreadStep, Advance
  <2>2. stack' = [stack EXCEPT ![t] = Append(stack[t], frame)]
    BY DEF EnterGuest
  <2>3. QED
    BY <2>1, <2>2 DEF EnterGuest, PhaseInv, TypeOK
<1>2. BackendOf(target[t]) \in Backends
  BY <1>1, RunnerModules DEF TypeOK, BackendOf
<1>3. stack[t] \in Seq(Frame) /\ frame \in Frame
  <2>1. cur_runner[t][BackendOf(target[t])] \in RunnerIds \cup {NoRunner}
    BY <1>2 DEF TypeOK
  <2>2. QED
    BY <1>1, <2>1 DEF TypeOK, Frame
<1> HIDE DEF frame
<1>4. /\ Append(stack[t], frame) \in Seq(Frame)
      /\ stack'[t] # <<>> /\ Len(stack'[t]) = Len(stack[t]) + 1
  BY <1>1, <1>3, StackPush DEF TypeOK
<1>5. stack' \in [Threads -> Seq(Frame)]
  BY <1>1, <1>4 DEF TypeOK
<1>6. Len(stack'[t]) <= MaxDepth
  BY <1>1, <1>3, <1>4, LenProperties, CallsAssumption
<1>7. \A u \in Threads : Len(stack'[u]) <= MaxDepth
  BY <1>1, <1>6, StepOthers DEF TypeOK
<1>8. cur_runner' \in [Threads -> [Backends -> RunnerIds \cup {NoRunner}]]
  BY <1>1, <1>2 DEF EnterGuest, TypeOK
<1>9. PhaseInv'
  BY <1>1, <1>4, PhaseOfOthers DEF PhaseInv, Top
<1>10. QED
  BY <1>5, <1>7, <1>8, <1>9

LEMMA LeftPhase ==
  ASSUME TypeOK, PhaseInv, NEW t \in Threads,
         GuestReturns(t) \/ LeaveTrapped(t) \/ LeaveAndPrint(t)
  PROVE  PhaseInv'
<1>1. ThreadStep(t) /\ stack[t] # <<>> /\ LeaveRunner(t)
  BY DEF ThreadStep, Advance, GuestReturns, LeaveTrapped, LeaveAndPrint, PhaseInv
<1>2. Top(t).runner \in RunnerIds
  BY <1>1, LeaveEffect DEF Frame
<1>3. /\ pc'[t] \in {"returned", "report", "parked", "print"}
      /\ target'[t] \in RunnerIds
      /\ pc'[t] = "print" => target'[t] = target[t] /\ BackendOf(target[t]) = "wamr"
  BY <1>2 DEF GuestReturns, LeaveTrapped, LeaveAndPrint, PhaseInv, TypeOK
<1>4. pc'[t] = "print" => BackendOf(target[t])' = "wamr"
  <2> SUFFICES ASSUME pc'[t] = "print"
               PROVE  BackendOf(target[t])' = "wamr"
    OBVIOUS
  <2>1. BackendOf(target[t])' = BackendOf(target[t])
    BY <1>1, <1>3, StepOthers
  <2>2. QED
    BY <1>3, <2>1
<1>5. QED
  BY <1>1, <1>3, <1>4, PhaseOfOthers DEF PhaseInv, Top

(* The types that the calls' own lemmas do not cover.                      *)
LEMMA PlainTypes ==
  ASSUME TypeOK, PhaseInv, NEW t \in Threads, ThreadStep(t)
  PROVE  /\ execution_failed' \in BOOLEAN /\ exited' \in BOOLEAN
         /\ ctx' \in [Modules -> [type : Backends, valid : BOOLEAN]]
         /\ pc' \in [Threads -> PcValues]
         /\ target' \in [Threads -> RunnerIds \cup {NoRunner}]
         /\ trapped' \subseteq RunnerIds
         /\ reported' \subseteq Threads
<1>1. execution_failed' \in BOOLEAN /\ exited' \in BOOLEAN
  BY DEF TypeOK, ThreadStep, Advance, BeginCall, RefuseInvalid, PassChecks,
     LockRunner, EnterGuest, GuestReturns, CallReturns, GuestTraps,
     ClaimInside, LeaveTrapped, LeaveAndPrint, PrintException, ClaimOutside,
     Report, ExitProcess, Claim
<1>2. ctx' \in [Modules -> [type : Backends, valid : BOOLEAN]]
  <2>1. CASE Report(t)
    BY <2>1 DEF TypeOK, Report
  <2>2. CASE ~Report(t)
    BY <2>2 DEF TypeOK, ThreadStep, Advance, BeginCall, RefuseInvalid,
       PassChecks, LockRunner, EnterGuest, GuestReturns, CallReturns,
       GuestTraps, ClaimInside, LeaveTrapped, LeaveAndPrint, PrintException,
       ClaimOutside, ExitProcess
  <2>3. QED
    BY <2>1, <2>2
<1>3. pc' \in [Threads -> PcValues]
  BY DEF TypeOK, PcValues, ThreadStep, Advance, BeginCall, RefuseInvalid,
     PassChecks, LockRunner, EnterGuest, GuestReturns, CallReturns, GuestTraps,
     ClaimInside, LeaveTrapped, LeaveAndPrint, PrintException, ClaimOutside,
     Report, ExitProcess, Claim
<1>4. stack[t] # <<>> => Top(t).runner \in RunnerIds
  BY StackPop DEF TypeOK, Top, Frame
<1>5. target' \in [Threads -> RunnerIds \cup {NoRunner}]
  BY <1>4 DEF TypeOK, PhaseInv, ThreadStep, Advance, BeginCall, RefuseInvalid,
     PassChecks, LockRunner, EnterGuest, GuestReturns, CallReturns, GuestTraps,
     ClaimInside, LeaveTrapped, LeaveAndPrint, PrintException, ClaimOutside,
     Report, ExitProcess
<1>6. trapped' \subseteq RunnerIds
  BY <1>4 DEF TypeOK, PhaseInv, ThreadStep, Advance, BeginCall, RefuseInvalid,
     PassChecks, LockRunner, EnterGuest, GuestReturns, CallReturns, GuestTraps,
     ClaimInside, LeaveTrapped, LeaveAndPrint, PrintException, ClaimOutside,
     Report, ExitProcess
<1>7. reported' \subseteq Threads
  BY DEF TypeOK, ThreadStep, Advance, BeginCall, RefuseInvalid,
     PassChecks, LockRunner, EnterGuest, GuestReturns, CallReturns, GuestTraps,
     ClaimInside, LeaveTrapped, LeaveAndPrint, PrintException, ClaimOutside,
     Report, ExitProcess
<1>8. QED
  BY <1>1, <1>2, <1>3, <1>5, <1>6, <1>7

-----------------------------------------------------------------------------
(* The failure: who claims it, and which runners it has struck.            *)

(* The failure is claimed once, and reported by its claimant.              *)
LEMMA ElectKept ==
  ASSUME TypeOK, PhaseInv, ElectInv, NEW t \in Threads, ThreadStep(t)
  PROVE  ElectInv'
<1>1. /\ \A u \in Threads \ {t} : pc'[u] = pc[u]
      /\ \A m \in Modules : ctx'[m].type = ctx[m].type
  BY StepOthers
<1>2. \/ pc'[t] \notin Elected /\ execution_failed' \in {execution_failed, TRUE}
      \/ pc'[t] \in Elected /\ ~execution_failed /\ execution_failed'
      \/ pc'[t] \in Elected /\ pc[t] \in Elected /\ execution_failed' = execution_failed
  BY DEF TypeOK, Elected, ThreadStep, Advance, BeginCall, RefuseInvalid,
     PassChecks, LockRunner, EnterGuest, GuestReturns, CallReturns, GuestTraps,
     ClaimInside, LeaveTrapped, LeaveAndPrint, PrintException, ClaimOutside,
     Report, ExitProcess, Claim
<1>3. /\ ~execution_failed => \A u \in Threads : pc[u] \notin Elected
      /\ \A u, v \in Threads : pc[u] \in Elected /\ pc[v] \in Elected => u = v
      /\ execution_failed \in BOOLEAN
  BY DEF ElectInv, TypeOK
<1>4. ~execution_failed' => \A u \in Threads : pc'[u] \notin Elected
  BY <1>1, <1>2, <1>3
<1>5. \A u, v \in Threads : pc'[u] \in Elected /\ pc'[v] \in Elected => u = v
  BY <1>1, <1>2, <1>3
<1>6. ASSUME \A m \in Modules : ctx'[m].type # "wamr"
      PROVE  \A u \in reported' : pc'[u] = "exit"
  <2>1. /\ \A m \in Modules : ctx[m].type # "wamr"
        /\ \A u \in reported : pc[u] = "exit"
    BY <1>1, <1>6 DEF ElectInv
  <2>2. /\ pc[t] = "exit" => pc'[t] = "exit"
        /\ \/ reported' = reported
           \/ reported' = reported \cup {t} /\ pc'[t] = "exit"
           \/ pc[t] = "print"
    BY DEF TypeOK, ThreadStep, Advance, BeginCall, RefuseInvalid,
     PassChecks, LockRunner, EnterGuest, GuestReturns, CallReturns, GuestTraps,
     ClaimInside, LeaveTrapped, LeaveAndPrint, PrintException, ClaimOutside,
     Report, ExitProcess, Claim, MayCall
  <2>3. pc[t] # "print"
    <3>1. pc[t] = "print" => target[t] \in RunnerIds /\ BackendOf(target[t]) = "wamr"
      BY DEF PhaseInv
    <3>2. QED
      BY <2>1, <3>1, RunnerModules DEF BackendOf
  <2>4. QED
    BY <1>1, <2>1, <2>2, <2>3 DEF TypeOK
<1>7. QED
  BY <1>4, <1>5, <1>6 DEF ElectInv

(* A trap is forgotten by its thread only after it has claimed the failure. *)
LEMMA TrapKept ==
  ASSUME TypeOK, PhaseInv, TrapInv, NEW t \in Threads, ThreadStep(t)
  PROVE  TrapInv'
<1>1. /\ \A u \in Threads \ {t} : pc'[u] = pc[u] /\ target'[u] = target[u]
      /\ \A r \in RunnerIds : BackendOf(r)' = BackendOf(r)
      /\ trapped' \subseteq RunnerIds
  BY StepOthers, PlainTypes
<1>2. execution_failed => execution_failed'
  BY DEF ThreadStep, Advance, BeginCall, RefuseInvalid, PassChecks,
     LockRunner, EnterGuest, GuestReturns, CallReturns, GuestTraps,
     ClaimInside, LeaveTrapped, LeaveAndPrint, PrintException, ClaimOutside,
     Report, ExitProcess, Claim
<1>3. SUFFICES ASSUME NEW r \in trapped'
               PROVE  /\ BackendOf(r)' # "native"
                      /\ \/ execution_failed'
                         \/ BackendOf(r)' = "wamr"
                         \/ \E u \in Threads : pc'[u] = "trapped" /\ target'[u] = r
  BY DEF TrapInv
<1>4. r \in RunnerIds /\ BackendOf(r)' = BackendOf(r)
  BY <1>1, <1>3
<1>5. CASE r \notin trapped
  <2>1. /\ GuestTraps(t) /\ trapped' = trapped \cup {Top(t).runner}
        /\ BackendOf(Top(t).runner) # "native"
        /\ target'[t] = Top(t).runner /\ pc'[t] = "trapped"
    BY <1>3, <1>5 DEF TypeOK, ThreadStep, Advance, BeginCall, RefuseInvalid,
     PassChecks, LockRunner, EnterGuest, GuestReturns, CallReturns, GuestTraps,
     ClaimInside, LeaveTrapped, LeaveAndPrint, PrintException, ClaimOutside,
     Report, ExitProcess
  <2>2. r = Top(t).runner
    BY <1>3, <1>5, <2>1
  <2>3. QED
    BY <1>4, <2>1, <2>2
<1>6. CASE r \in trapped
  <2>1. /\ BackendOf(r) # "native"
        /\ \/ execution_failed
           \/ BackendOf(r) = "wamr"
           \/ \E u \in Threads : pc[u] = "trapped" /\ target[u] = r
    BY <1>6 DEF TrapInv
  <2>2. ASSUME ~execution_failed, BackendOf(r) # "wamr",
               pc[t] = "trapped", target[t] = r
        PROVE  execution_failed'
    BY <1>4, <2>2 DEF ThreadStep, Advance, BeginCall, RefuseInvalid, PassChecks,
     LockRunner, EnterGuest, GuestReturns, CallReturns, GuestTraps,
     ClaimInside, LeaveTrapped, LeaveAndPrint, PrintException, ClaimOutside,
     Report, ExitProcess, Claim, MayCall
  <2>3. QED
    BY <1>1, <1>2, <1>4, <2>1, <2>2
<1>7. QED
  BY <1>5, <1>6

-----------------------------------------------------------------------------
(* The invariant.                                                          *)

(* Nobody is in a call yet.                                                *)
LEMMA InitCalls == Init => CallsInv
<1> SUFFICES ASSUME Init
             PROVE  CallsInv
  OBVIOUS
<1>1. TypeOK
  <2>1. \A t \in Threads : stack[t] = <<>> /\ <<>> \in Seq(Frame)
    BY EmptySeq DEF Init
  <2>2. ctx \in [Modules -> [type : Backends, valid : BOOLEAN]]
    BY CallsAssumption DEF Init
  <2>3. \A t \in Threads : Len(stack[t]) = 0
    BY <2>1
  <2>4. /\ stack \in [Threads -> Seq(Frame)]
        /\ \A t \in Threads : Len(stack[t]) <= MaxDepth
    BY <2>1, <2>3, CallsAssumption DEF Init
  <2>5. mutex \in [RunnerIds -> [holder : Threads \cup {NoThread}, count : 0..MaxDepth]]
    BY CallsAssumption DEF Init
  <2>6. QED
    BY <2>2, <2>4, <2>5 DEF Init, TypeOK
<1>2. PhaseInv
  BY DEF Init, PhaseInv
<1>3. MutexInv
  <2>1. \A t \in Threads, r \in RunnerIds : Holds(t, r) = 0
    <3> SUFFICES ASSUME NEW t \in Threads, NEW r \in RunnerIds
                 PROVE  Holds(t, r) = 0
      OBVIOUS
    <3>1. Uses(stack[t], r) = {} /\ pc[t] # "locked"
      BY DEF Init, Uses
    <3>2. QED
      BY <3>1, FS_EmptySet DEF Holds
  <2>2. QED
    BY <2>1, NamesAssumption DEF Init, MutexInv
<1>4. RouteInv
  BY DEF Init, RouteInv, Innermost
<1>5. ElectInv /\ TrapInv
  BY DEF Init, ElectInv, TrapInv, Elected
<1>6. QED
  BY <1>1, <1>2, <1>3, <1>4, <1>5 DEF CallsInv

(* A step of one thread keeps the types, the phases, the mutexes and the   *)
(* routes: by what it does to the stack of its calls.                      *)
LEMMA StepCalls ==
  ASSUME CallsInv, NEW t \in Threads, ThreadStep(t)
  PROVE  CallsInv'
<1>1. TypeOK /\ PhaseInv /\ MutexInv /\ RouteInv /\ ElectInv /\ TrapInv
  BY DEF CallsInv
<1>2. ElectInv' /\ TrapInv'
  BY <1>1, ElectKept, TrapKept
<1>3. /\ execution_failed' \in BOOLEAN /\ exited' \in BOOLEAN
      /\ ctx' \in [Modules -> [type : Backends, valid : BOOLEAN]]
      /\ pc' \in [Threads -> PcValues]
      /\ target' \in [Threads -> RunnerIds \cup {NoRunner}]
      /\ trapped' \subseteq RunnerIds
      /\ reported' \subseteq Threads
  BY <1>1, PlainTypes
<1>4. /\ \A u \in Threads \ {t} :
           /\ pc'[u] = pc[u] /\ target'[u] = target[u]
           /\ stack'[u] = stack[u] /\ cur_runner'[u] = cur_runner[u]
      /\ \A r \in RunnerIds : BackendOf(r)' = BackendOf(r)
  BY <1>1, StepOthers
<1>5. CASE EnterGuest(t)
  <2>1. /\ PhaseInv' /\ stack' \in [Threads -> Seq(Frame)]
        /\ \A u \in Threads : Len(stack'[u]) <= MaxDepth
        /\ cur_runner' \in [Threads -> [Backends -> RunnerIds \cup {NoRunner}]]
    BY <1>1, <1>5, EnteredPhase
  <2>2. mutex' = mutex
    BY <1>5 DEF EnterGuest
  <2>3. TypeOK'
    BY <1>1, <1>3, <2>1, <2>2 DEF TypeOK, PcValues
  <2>4. MutexInv' /\ RouteInv'
    BY <1>1, <1>5, MutexEntered, RouteEntered
  <2>5. QED
    BY <1>2, <2>1, <2>3, <2>4 DEF CallsInv
<1>6. CASE GuestReturns(t) \/ LeaveTrapped(t) \/ LeaveAndPrint(t)
  <2>1. /\ stack[t] # <<>> /\ LeaveRunner(t) /\ UNCHANGED ctx
        /\ pc[t] # "locked" /\ pc'[t] # "locked"
    BY <1>1, <1>6 DEF GuestReturns, LeaveTrapped, LeaveAndPrint, PhaseInv, TypeOK
  <2>2. /\ MutexInv'
        /\ mutex' \in [RunnerIds -> [holder : Threads \cup {NoThread},
                                      count : 0..MaxDepth]]
    BY <1>1, <1>4, <2>1, MutexReleased
  <2>3. /\ stack' \in [Threads -> Seq(Frame)]
        /\ \A u \in Threads : Len(stack'[u]) <= MaxDepth
        /\ cur_runner' \in [Threads -> [Backends -> RunnerIds \cup {NoRunner}]]
    BY <1>1, <2>1, LeaveEffect
  <2>4. TypeOK'
    BY <1>3, <2>2, <2>3 DEF TypeOK, PcValues
  <2>5. PhaseInv'
    BY <1>1, <1>6, LeftPhase
  <2>6. RouteInv'
    BY <1>1, <1>4, <2>1, RouteLeft
  <2>7. QED
    BY <1>2, <2>2, <2>4, <2>5, <2>6 DEF CallsInv
<1>7. CASE LockRunner(t)
  <2>1. /\ MutexInv'
        /\ mutex' \in [RunnerIds -> [holder : Threads \cup {NoThread},
                                      count : 0..MaxDepth]]
    BY <1>1, <1>7, MutexLocked
  <2>2. UNCHANGED <<stack, cur_runner>>
    BY <1>7 DEF LockRunner
  <2>3. TypeOK'
    BY <1>1, <1>3, <2>1, <2>2 DEF TypeOK, PcValues
  <2>4. PhaseInv' /\ RouteInv'
    BY <1>1, <1>4, <1>7, <2>2, QuietPhase, RouteKept
  <2>5. QED
    BY <1>2, <2>1, <2>3, <2>4 DEF CallsInv
<1>8. CASE \/ BeginCall(t) \/ RefuseInvalid(t) \/ PassChecks(t)
           \/ CallReturns(t) \/ GuestTraps(t) \/ ClaimInside(t)
           \/ PrintException(t) \/ ClaimOutside(t) \/ Report(t) \/ ExitProcess(t)
  <2>1. /\ UNCHANGED <<mutex, stack, cur_runner>>
        /\ pc[t] # "locked" /\ pc'[t] # "locked"
    BY <1>1, <1>8 DEF TypeOK, BeginCall, MayCall, RefuseInvalid, PassChecks,
       CallReturns, GuestTraps, ClaimInside, PrintException, ClaimOutside,
       Report, ExitProcess, Claim
  <2>2. TypeOK'
    BY <1>1, <1>3, <2>1 DEF TypeOK, PcValues
  <2>3. PhaseInv'
    BY <1>1, <1>8, QuietPhase
  <2>4. MutexInv' /\ RouteInv'
    BY <1>1, <1>4, <2>1, MutexKept, RouteKept
  <2>5. QED
    BY <1>2, <2>2, <2>3, <2>4 DEF CallsInv
<1>9. QED
  BY <1>5, <1>6, <1>7, <1>8 DEF ThreadStep, Advance

(* Nothing happens, or the process has ended.                              *)
LEMMA StutterCalls ==
  ASSUME CallsInv, UNCHANGED vars
  PROVE  CallsInv'
<1>1. TypeOK' /\ PhaseInv' /\ ElectInv' /\ TrapInv'
  BY DEF vars, CallsInv, TypeOK, PhaseInv, ElectInv, TrapInv, Top, BackendOf
<1>2. MutexInv'
  BY DEF vars, CallsInv, MutexInv, Holds
<1>3. RouteInv'
  BY DEF vars, CallsInv, RouteInv, Innermost, BackendOf
<1>4. QED
  BY <1>1, <1>2, <1>3 DEF CallsInv

(* Whatever the threads, the modules and the depth of their calls: each    *)
(* mutex is held once per call on its runner, and each backend's current   *)
(* runner is that of its innermost call.                                   *)
THEOREM CallsInvariant == Spec => []CallsInv
<1>1. CallsInv /\ [Next]_vars => CallsInv'
  BY StepCalls, StutterCalls DEF Next, Ended
<1>2. QED
  BY InitCalls, <1>1, PTL DEF Spec

-----------------------------------------------------------------------------
(* What follows.                                                           *)

(* Every variable keeps its type; calls are nested to MaxDepth at most.    *)
THEOREM CallsTyped == Spec => []TypeOK
<1>1. CallsInv => TypeOK
  BY DEF CallsInv
<1>2. QED
  BY CallsInvariant, <1>1, PTL

(* Two threads are never on one runner: both would hold its mutex          *)
(* (call_module_func_core_on_runner locks it around the call).             *)
THEOREM RunnersExclusive == Spec => []RunnerExclusive
<1>1. CallsInv => RunnerExclusive
  <2> SUFFICES ASSUME CallsInv, NEW t \in Threads, NEW u \in Threads,
                      NEW r \in RunnerIds, IsOn(t, r), IsOn(u, r)
               PROVE  t = u
    BY DEF RunnerExclusive
  <2>1. Holds(t, r) > 0 /\ Holds(u, r) > 0
    BY HoldsBounded DEF CallsInv
  <2>2. mutex[r].holder = t /\ mutex[r].holder = u
    BY <2>1, HolderCounted DEF CallsInv
  <2>3. QED
    BY <2>2
<1>2. QED
  BY CallsInvariant, <1>1, PTL

(* A callback always finds the runner it was issued on, however many       *)
(* nested calls, on runners of whichever backends, have come and gone.     *)
THEOREM CallbacksRouted == Spec => []RoutedToCaller
<1>1. CallsInv => RoutedToCaller
  <2> SUFFICES ASSUME CallsInv, NEW t \in Threads
               PROVE  /\ pc[t] = "guest" =>
                           ActiveRunner(t, ModuleOf(Top(t).runner)) = Top(t).runner
                      /\ pc[t] = "host" =>
                           \A k \in Backends : cur_runner[t][k] = NoRunner
    BY DEF RoutedToCaller
  <2>1. /\ TypeOK /\ PhaseInv
        /\ \A k \in Backends : Innermost(stack[t], k, Len(stack[t]), cur_runner[t][k])
    BY DEF CallsInv, RouteInv
  <2>2. ASSUME pc[t] = "guest"
        PROVE  ActiveRunner(t, ModuleOf(Top(t).runner)) = Top(t).runner
    <3> DEFINE n == Len(stack[t])
               top == Top(t).runner
    <3>1. /\ n \in Nat \ {0} /\ Top(t) \in Frame /\ top = stack[t][n].runner
      BY <2>1, <2>2, StackPop DEF PhaseInv, TypeOK, Top
    <3>2. top \in RunnerIds
      BY <3>1 DEF Frame
    <3>3. BackendOf(top) \in Backends
      BY <2>1, <3>2, RunnerModules DEF TypeOK, BackendOf
    <3> HIDE DEF n, top
    <3>4. Innermost(stack[t], BackendOf(top), n, cur_runner[t][BackendOf(top)])
      BY <2>1, <3>3 DEF n
    <3>5. cur_runner[t][BackendOf(top)] = top
      BY <3>1, <3>4 DEF Innermost
    <3>6. QED
      BY <3>2, <3>5, NamesAssumption DEF ActiveRunner, BackendOf, top
  <2>3. ASSUME pc[t] = "host"
        PROVE  \A k \in Backends : cur_runner[t][k] = NoRunner
    <3>1. Len(stack[t]) = 0
      BY <2>1, <2>3 DEF PhaseInv
    <3>2. QED
      BY <2>1, <3>1 DEF Innermost
  <2>4. QED
    BY <2>2, <2>3
<1>2. QED
  BY CallsInvariant, <1>1, PTL

(* Without WAMR modules at most one thread prints: all that have printed   *)
(* stand where only the elected one gets.                                  *)
THEOREM OneThreadReports == Spec => []OneReporter
<1>1. CallsInv => OneReporter
  <2> SUFFICES ASSUME CallsInv, \A m \in Modules : ctx[m].type # "wamr"
               PROVE  Cardinality(reported) <= 1
    BY DEF OneReporter
  <2>1. \A t, u \in reported : t = u
    BY DEF CallsInv, TypeOK, ElectInv, Elected
  <2>2. CASE reported = {}
    BY <2>2, FS_EmptySet
  <2>3. CASE reported # {}
    <3>1. PICK t \in reported : reported = {t}
      BY <2>1, <2>3
    <3>2. Cardinality({t}) = 1
      BY FS_Singleton
    <3>3. QED
      BY <3>1, <3>2
  <2>4. QED
    BY <2>2, <2>3
<1>2. QED
  BY CallsInvariant, <1>1, PTL

(* No call enters a runner on which a call has trapped: the trapped call   *)
(* still holds its mutex until the failure has been claimed, which the     *)
(* entering thread looks at inside the mutex.                              *)
THEOREM TrappedRunnersStayOut == Spec => TrappedRunnerStaysOut
<1>1. ASSUME CallsInv, Next, NEW t \in Threads, Len(stack'[t]) > Len(stack[t])
      PROVE  LET r == stack'[t][Len(stack'[t])].runner
             IN  BackendOf(r) # "wamr" => r \notin trapped
  <2>1. PICK u \in Threads : ThreadStep(u)
    BY <1>1 DEF Next, Ended, vars, CallsInv, TypeOK
  <2>2. TypeOK /\ PhaseInv /\ MutexInv /\ TrapInv
    BY <1>1 DEF CallsInv
  <2>3. Len(stack[t]) \in Nat
    BY <2>2, LenProperties DEF TypeOK
  <2>4. u = t
    BY <1>1, <2>1, <2>2, <2>3, StepOthers
  <2>5. ~(GuestReturns(t) \/ LeaveTrapped(t) \/ LeaveAndPrint(t))
    <3>1. (GuestReturns(t) \/ LeaveTrapped(t) \/ LeaveAndPrint(t)) =>
            stack[t] # <<>> /\ LeaveRunner(t)
      BY <2>2 DEF GuestReturns, LeaveTrapped, LeaveAndPrint, PhaseInv
    <3>2. QED
      BY <1>1, <2>2, <3>1, LeaveEffect
  <2>6. EnterGuest(t)
    BY <1>1, <2>1, <2>3, <2>4, <2>5 DEF ThreadStep, Advance, BeginCall,
       RefuseInvalid, PassChecks, LockRunner, CallReturns, GuestTraps,
       ClaimInside, PrintException, ClaimOutside, Report, ExitProcess
  <2> DEFINE r == target[t]
             frame == [runner |-> target[t],
                       previous |-> cur_runner[t][BackendOf(target[t])]]
  <2>7. /\ r \in RunnerIds /\ pc[t] = "locked" /\ Rechecked(r)
        /\ stack'[t] = Append(stack[t], frame)
    BY <2>2, <2>6 DEF EnterGuest, PhaseInv, TypeOK
  <2>8. stack'[t][Len(stack'[t])].runner = r
    BY <2>2, <2>3, <2>7 DEF TypeOK
  <2>9. ASSUME BackendOf(r) # "wamr", r \in trapped
        PROVE  FALSE
    <3>1. BackendOf(r) = "wasmtime"
      BY <2>2, <2>7, <2>9, RunnerModules DEF TrapInv, TypeOK, BackendOf, Backends
    <3>2. PICK w \in Threads : pc[w] = "trapped" /\ target[w] = r
      BY <2>2, <2>7, <2>9, <3>1 DEF TrapInv, Rechecked
    <3>3. /\ stack[w] \in Seq(Frame) /\ stack[w] # <<>>
          /\ r = stack[w][Len(stack[w])].runner
      BY <2>2, <3>2 DEF PhaseInv, TypeOK, Top
    <3>4. IsOn(w, r)
      BY <3>3, StackPop, LenProperties DEF IsOn
    <3>5. Holds(w, r) > 0 /\ Holds(t, r) > 0
      BY <2>2, <2>7, <3>4, HoldsBounded
    <3>6. w = t
      BY <2>2, <2>7, <3>5, HolderCounted
    <3>7. QED
      BY <2>7, <3>2, <3>6
  <2>10. QED
    BY <2>8, <2>9
<1>2. CallsInv /\ [Next]_vars =>
        [\A t \in Threads : Len(stack'[t]) > Len(stack[t]) =>
           LET r == stack'[t][Len(stack'[t])].runner
           IN  BackendOf(r) # "wamr" => r \notin trapped]_vars
  BY <1>1
<1>3. QED
  BY CallsInvariant, <1>2, PTL DEF Spec, TrappedRunnerStaysOut

=============================================================================
