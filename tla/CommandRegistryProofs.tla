------------------------ MODULE CommandRegistryProofs ------------------------
(***************************************************************************)
(* The safety properties of CommandRegistry, for any number of threads,    *)
(* modules and commands, any lists of registrations and any messages.      *)
(***************************************************************************)
EXTENDS CommandRegistry, SequenceTheorems, WellFoundedInduction, TLAPS

(* The least and the greatest of some natural numbers.                     *)
LEMMA LeastElement ==
  ASSUME NEW S, S \subseteq Nat, S # {}
  PROVE  \E k \in S : \A j \in S : j >= k
<1>1. IsWellFoundedOn(OpToRel(<, Nat), Nat)
  BY NatLessThanWellFounded
<1>2. PICK k \in S : \A j \in S : ~ (<<j, k>> \in OpToRel(<, Nat))
  BY <1>1, WFMin, Zenon
<1>3. \A j \in S : ~ (j < k)
  BY <1>2 DEF OpToRel
<1>4. \A j \in S : j \in Nat /\ k \in Nat
  OBVIOUS
<1>5. \A j \in S : j >= k
  BY <1>3, <1>4
<1>6. QED
  BY <1>5

LEMMA GreatestElement ==
  ASSUME NEW S, NEW n \in Nat, S \subseteq 1..n, S # {}
  PROVE  \E k \in S : \A j \in S : j <= k
<1> DEFINE Rest == {n - k : k \in S}
<1>1. \A k \in S : k \in Nat /\ n - k \in Nat
  OBVIOUS
<1>2. Rest \subseteq Nat
  BY <1>1
<1>3. Rest # {}
  OBVIOUS
<1>4. PICK m \in Rest : \A j \in Rest : j >= m
  <2> HIDE DEF Rest
  <2>1. QED
    BY <1>2, <1>3, LeastElement
<1>5. PICK k \in S : m = n - k
  OBVIOUS
<1>6. \A j \in S : n - j >= n - k
  BY <1>4, <1>5
<1>7. \A j \in S : j <= k
  BY <1>1, <1>6
<1>8. QED
  BY <1>7

(* The lookup returns the last of the registrations that qualify.          *)
LEMMA NewestChosen ==
  ASSUME NEW S, NEW n \in Nat, S \subseteq 1..n, S # {}
  PROVE  Newest(S) \in S /\ \A j \in S : j <= Newest(S)
<1>1. \E k \in S : \A j \in S : j <= k
  BY GreatestElement
<1>2. QED
  BY <1>1, Zenon DEF Newest

-----------------------------------------------------------------------------
(* The registry as a sequence.                                             *)

Ordered(regs) ==
  \A j, k \in DOMAIN regs : j < k => regs[j].sequence < regs[k].sequence

(* A registration that is taken away leaves the others in their order.     *)
LEMMA Removed ==
  ASSUME NEW s \in Seq(Registrations), NEW i \in 1..Len(s)
  PROVE  /\ RemoveAt(s, i) \in Seq(Registrations)
         /\ DOMAIN RemoveAt(s, i) = 1..(Len(s) - 1)
         /\ \A j \in 1..(Len(s) - 1) :
              RemoveAt(s, i)[j] = s[IF j < i THEN j ELSE j + 1]
<1> DEFINE lower == SubSeq(s, 1, i - 1)
           upper == SubSeq(s, i + 1, Len(s))
<1>1. Len(s) \in Nat /\ \A j \in 1..Len(s) : s[j] \in Registrations
  BY LenProperties, ElementOfSeq
<1>2. PICK n \in Nat : n = Len(s)
  BY <1>1
<1>3. i \in 1..n /\ i - 1 \in Int /\ i + 1 \in Int /\ n \in Int
  BY <1>2
<1>4. \A j \in 1..(i - 1) : s[j] \in Registrations
  BY <1>1, <1>2, <1>3
<1>5. \A j \in (i + 1)..n : s[j] \in Registrations
  BY <1>1, <1>2, <1>3
<1>6. /\ lower \in Seq(Registrations)
      /\ Len(lower) = IF 1 <= i - 1 THEN (i - 1) - 1 + 1 ELSE 0
      /\ \A j \in 1..((i - 1) - 1 + 1) : lower[j] = s[1 + j - 1]
  BY <1>3, <1>4, SubSeqProperties
<1>7. /\ SubSeq(s, i + 1, n) \in Seq(Registrations)
      /\ Len(SubSeq(s, i + 1, n)) = IF i + 1 <= n THEN n - (i + 1) + 1 ELSE 0
      /\ \A j \in 1..(n - (i + 1) + 1) : SubSeq(s, i + 1, n)[j] = s[(i + 1) + j - 1]
  BY <1>3, <1>5, SubSeqProperties
<1>8. /\ Len(lower) = i - 1
      /\ \A j \in 1..(i - 1) : lower[j] = s[j]
  <2> HIDE DEF lower
  <2>1. QED
    BY <1>3, <1>6
<1>9. /\ upper \in Seq(Registrations) /\ Len(upper) = n - i
      /\ \A j \in 1..(n - i) : upper[j] = s[j + i]
  <2>1. upper = SubSeq(s, i + 1, n)
    BY <1>2
  <2>2. \A j \in 1..(n - i) : (i + 1) + j - 1 = j + i /\ j \in 1..(n - (i + 1) + 1)
    BY <1>3
  <2> HIDE DEF upper
  <2>3. QED
    BY <1>3, <1>7, <2>1, <2>2
<1>10. RemoveAt(s, i) = lower \o upper
  BY DEF RemoveAt
<1> HIDE DEF lower, upper
<1>11. /\ lower \o upper \in Seq(Registrations)
       /\ Len(lower \o upper) = Len(lower) + Len(upper)
       /\ \A j \in 1..(Len(lower) + Len(upper)) : (lower \o upper)[j] =
            IF j <= Len(lower) THEN lower[j] ELSE upper[j - Len(lower)]
  BY <1>6, <1>9, ConcatProperties
<1>12. Len(lower \o upper) = n - 1
  BY <1>3, <1>8, <1>9, <1>11
<1>13. DOMAIN (lower \o upper) = 1..(n - 1)
  BY <1>11, <1>12, LenProperties
<1>14. ASSUME NEW j \in 1..(n - 1)
       PROVE  (lower \o upper)[j] = s[IF j < i THEN j ELSE j + 1]
  <2>1. (lower \o upper)[j] = IF j <= i - 1 THEN lower[j] ELSE upper[j - (i - 1)]
    BY <1>3, <1>8, <1>9, <1>11
  <2>2. CASE j < i
    BY <1>3, <1>8, <2>1, <2>2
  <2>3. CASE ~(j < i)
    <3>1. /\ j - (i - 1) \in 1..(n - i) /\ (j - (i - 1)) + i = j + 1
          /\ ~(j <= i - 1)
      BY <1>3, <2>3
    <3>2. upper[j - (i - 1)] = s[j + 1]
      BY <1>9, <3>1
    <3>3. QED
      BY <2>1, <2>3, <3>1, <3>2
  <2>4. QED
    BY <2>2, <2>3
<1>15. QED
  BY <1>2, <1>10, <1>11, <1>13, <1>14

LEMMA Withdrawn ==
  ASSUME NEW s \in Seq(Registrations), Ordered(s), NEW m, NEW command
  PROVE  /\ Withdraw(s, m, command) \in Seq(Registrations)
         /\ Ordered(Withdraw(s, m, command))
         /\ \A j \in DOMAIN Withdraw(s, m, command) :
              \E k \in DOMAIN s : Withdraw(s, m, command)[j] = s[k]
<1> DEFINE mine == {k \in DOMAIN s : /\ s[k].runtime
                                     /\ s[k].owner = m
                                     /\ s[k].command = command}
<1>1. Len(s) \in Nat /\ DOMAIN s = 1..Len(s)
  BY LenProperties
<1>2. CASE mine = {}
  <2>1. Withdraw(s, m, command) = s
    BY <1>2 DEF Withdraw
  <2>2. QED
    BY <2>1
<1>3. CASE mine # {}
  <2> DEFINE i == Newest(mine)
             r == RemoveAt(s, i)
  <2>1. i \in mine
    <3>1. mine \subseteq 1..Len(s)
      BY <1>1
    <3> HIDE DEF mine
    <3>2. QED
      BY <1>1, <1>3, <3>1, NewestChosen
  <2>2. i \in 1..Len(s)
    BY <1>1, <2>1
  <2>3. Withdraw(s, m, command) = r
    BY <1>3 DEF Withdraw
  <2> HIDE DEF i
  <2>4. /\ r \in Seq(Registrations) /\ DOMAIN r = 1..(Len(s) - 1)
        /\ \A j \in 1..(Len(s) - 1) : r[j] = s[IF j < i THEN j ELSE j + 1]
    BY <2>2, Removed
  <2> HIDE DEF r
  <2>5. ASSUME NEW j \in DOMAIN r
        PROVE  \E k \in DOMAIN s : r[j] = s[k]
    <3>1. (IF j < i THEN j ELSE j + 1) \in DOMAIN s
      BY <1>1, <2>2, <2>4
    <3>2. QED
      BY <2>4, <3>1
  <2>6. ASSUME NEW j \in DOMAIN r, NEW k \in DOMAIN r, j < k
        PROVE  r[j].sequence < r[k].sequence
    <3> DEFINE jj == IF j < i THEN j ELSE j + 1
               kk == IF k < i THEN k ELSE k + 1
    <3>1. jj \in DOMAIN s /\ kk \in DOMAIN s /\ jj < kk
      BY <1>1, <2>2, <2>4, <2>6
    <3>2. r[j] = s[jj] /\ r[k] = s[kk]
      BY <2>4
    <3> HIDE DEF jj, kk
    <3>3. QED
      BY <3>1, <3>2 DEF Ordered
  <2>7. QED
    BY <2>3, <2>4, <2>5, <2>6 DEF Ordered
<1>4. QED
  BY <1>2, <1>3

(* Registrations that are added have numbers of their own, above the others. *)
LEMMA ListAdded ==
  ASSUME NEW s \in Seq(Registrations), Ordered(s), NEW last \in Nat,
         NEW list \in Seq(Commands), NEW owner \in Modules \cup {Host},
         last + Len(list) <= MaxSequence,
         \A k \in DOMAIN s : s[k].sequence <= last
  PROVE  /\ AddList(s, last, list, owner) \in Seq(Registrations)
         /\ Ordered(AddList(s, last, list, owner))
         /\ \A k \in DOMAIN AddList(s, last, list, owner) :
              \/ k \in DOMAIN s /\ AddList(s, last, list, owner)[k] = s[k]
              \/ AddList(s, last, list, owner)[k].sequence \in
                   (last + 1)..(last + Len(list))
<1> DEFINE new == [k \in DOMAIN list |->
                     Registration(list[k], owner, FALSE, NextSequence(last + k - 1))]
           r == s \o new
<1>1. /\ Len(s) \in Nat /\ DOMAIN s = 1..Len(s)
      /\ Len(list) \in Nat /\ DOMAIN list = 1..Len(list)
      /\ MaxSequence \in Nat
  BY LenProperties, CommandsAssumption
<1>2. ASSUME NEW k \in 1..Len(list)
      PROVE  /\ new[k].sequence = last + k /\ last + k \in 1..MaxSequence
             /\ new[k] \in Registrations
  <2>1. last + k - 1 + 1 = last + k /\ last + k \in 1..MaxSequence
    BY <1>1
  <2>2. list[k] \in Commands
    BY <1>1, ElementOfSeq
  <2>3. new[k] = [command |-> list[k], owner |-> owner, runtime |-> FALSE,
                  sequence |-> last + k]
    BY <1>1, <2>1 DEF Registration, NextSequence
  <2> HIDE DEF new
  <2>4. QED
    BY <2>1, <2>2, <2>3 DEF Registrations
<1>3. new \in Seq(Registrations) /\ Len(new) = Len(list)
  <2>1. new \in [1..Len(list) -> Registrations]
    BY <1>1, <1>2
  <2>2. new \in Seq(Registrations)
    BY <1>1, <2>1, SeqDef
  <2>3. DOMAIN new = 1..Len(list)
    BY <1>1
  <2> HIDE DEF new
  <2>4. Len(new) \in Nat /\ DOMAIN new = 1..Len(new)
    BY <2>2, LenProperties
  <2>5. QED
    BY <1>1, <2>2, <2>3, <2>4
<1>4. AddList(s, last, list, owner) = r
  BY DEF AddList
<1> HIDE DEF new
<1>5. /\ r \in Seq(Registrations) /\ Len(r) = Len(s) + Len(list)
      /\ \A i \in 1..(Len(s) + Len(list)) : r[i] =
           IF i <= Len(s) THEN s[i] ELSE new[i - Len(s)]
  <2>1. /\ s \o new \in Seq(Registrations) /\ Len(s \o new) = Len(s) + Len(new)
        /\ \A i \in 1..(Len(s) + Len(new)) : (s \o new)[i] =
             IF i <= Len(s) THEN s[i] ELSE new[i - Len(s)]
    BY <1>3, ConcatProperties
  <2>2. QED
    BY <1>3, <2>1
<1> HIDE DEF r
<1>6. DOMAIN r = 1..(Len(s) + Len(list))
  BY <1>5, LenProperties
<1>7. ASSUME NEW k \in DOMAIN r, k > Len(s)
      PROVE  r[k].sequence = last + (k - Len(s)) /\ k - Len(s) \in 1..Len(list)
  <2>1. k - Len(s) \in 1..Len(list) /\ ~(k <= Len(s))
    BY <1>1, <1>6, <1>7
  <2>2. r[k] = new[k - Len(s)]
    BY <1>5, <1>6, <2>1
  <2>3. QED
    BY <1>2, <2>1, <2>2
<1>8. ASSUME NEW k \in DOMAIN r, ~(k > Len(s))
      PROVE  k \in DOMAIN s /\ r[k] = s[k]
  BY <1>1, <1>5, <1>6, <1>8
<1>9. ASSUME NEW k \in DOMAIN s
      PROVE  s[k].sequence \in Nat /\ s[k].sequence <= last
  <2>1. s[k] \in Registrations
    BY <1>1, ElementOfSeq
  <2>2. QED
    BY <2>1 DEF Registrations
<1>10. ASSUME NEW j \in DOMAIN r, NEW k \in DOMAIN r, j < k
       PROVE  r[j].sequence < r[k].sequence
  <2>1. j \in Nat /\ k \in Nat
    BY <1>6
  <2>2. CASE j > Len(s)
    <3>1. k > Len(s)
      BY <1>1, <1>10, <2>1, <2>2
    <3>2. QED
      BY <1>1, <1>7, <1>10, <2>1, <2>2, <3>1
  <2>3. CASE ~(j > Len(s)) /\ k > Len(s)
    BY <1>1, <1>7, <1>8, <1>9, <2>3
  <2>4. CASE ~(j > Len(s)) /\ ~(k > Len(s))
    BY <1>8, <1>10, <2>4 DEF Ordered
  <2>5. QED
    BY <2>2, <2>3, <2>4
<1>11. ASSUME NEW k \in DOMAIN r
       PROVE  \/ k \in DOMAIN s /\ r[k] = s[k]
              \/ r[k].sequence \in (last + 1)..(last + Len(list))
  <2>1. CASE k > Len(s)
    BY <1>1, <1>7, <2>1
  <2>2. CASE ~(k > Len(s))
    BY <1>8, <2>2
  <2>3. QED
    BY <2>1, <2>2
<1>12. QED
  BY <1>4, <1>5, <1>10, <1>11 DEF Ordered

LEMMA OneAdded ==
  ASSUME NEW s \in Seq(Registrations), Ordered(s), NEW last \in Nat,
         NEW reg \in Registrations, reg.sequence = last + 1,
         \A k \in DOMAIN s : s[k].sequence <= last
  PROVE  /\ Append(s, reg) \in Seq(Registrations)
         /\ Ordered(Append(s, reg))
         /\ \A k \in DOMAIN Append(s, reg) :
              \/ k \in DOMAIN s /\ Append(s, reg)[k] = s[k]
              \/ Append(s, reg)[k].sequence = last + 1
<1> DEFINE r == Append(s, reg)
<1>1. /\ Len(s) \in Nat /\ DOMAIN s = 1..Len(s)
      /\ r \in Seq(Registrations) /\ Len(r) = Len(s) + 1
      /\ \A i \in 1..Len(s) : r[i] = s[i]
      /\ r[Len(s) + 1] = reg
  BY LenProperties, AppendProperties
<1> HIDE DEF r
<1>2. DOMAIN r = 1..(Len(s) + 1)
  BY <1>1, LenProperties
<1>3. \A k \in DOMAIN s : s[k].sequence \in Nat
  <2>1. \A k \in DOMAIN s : s[k] \in Registrations
    BY <1>1, ElementOfSeq
  <2>2. QED
    BY <2>1 DEF Registrations
<1>4. ASSUME NEW j \in DOMAIN r, NEW k \in DOMAIN r, j < k
      PROVE  r[j].sequence < r[k].sequence
  <2>1. j \in DOMAIN s /\ r[j] = s[j]
    BY <1>1, <1>2, <1>4
  <2>2. CASE k = Len(s) + 1
    BY <1>1, <1>3, <2>1, <2>2
  <2>3. CASE k # Len(s) + 1
    <3>1. k \in DOMAIN s /\ r[k] = s[k]
      BY <1>1, <1>2, <2>3
    <3>2. QED
      BY <1>4, <2>1, <3>1 DEF Ordered
  <2>4. QED
    BY <2>2, <2>3
<1>5. ASSUME NEW k \in DOMAIN r
      PROVE  (k \in DOMAIN s /\ r[k] = s[k]) \/ r[k].sequence = last + 1
  BY <1>1, <1>2
<1>6. QED
  BY <1>1, <1>4, <1>5 DEF r, Ordered

-----------------------------------------------------------------------------
(* What every step has in common.                                          *)

ThreadStep(t) == RunCommand(t) \/ Interpret(t) \/ ReturnReply(t)

(* A thread leaves the interpretation of another thread's line alone,      *)
(* except that a registration it withdraws no longer lasts.                *)
LEMMA StepOthers ==
  ASSUME TypeOK, NEW t \in Threads, ThreadStep(t), NEW u \in Threads \ {t}
  PROVE  /\ pc'[u] = pc[u] /\ caller'[u] = caller[u] /\ rest'[u] = rest[u]
         /\ before'[u] = before[u] /\ tried'[u] = tried[u] /\ match'[u] = match[u]
         /\ reply'[u] = reply[u] /\ previous'[u] = previous[u] /\ live'[u] = live[u]
         /\ lasting'[u] \subseteq lasting[u]
<1>1. /\ pc'[u] = pc[u] /\ caller'[u] = caller[u] /\ rest'[u] = rest[u]
      /\ before'[u] = before[u] /\ tried'[u] = tried[u] /\ match'[u] = match[u]
  BY DEF TypeOK, ThreadStep, RunCommand, Interpret, ReturnReply, StartLine,
     FindRegistration, FindNothing, NextLine, HostCommand, RegisterCommand,
     UnregisterCommand, RegistryFull, AfterHostCommand, ForwardFails,
     ForwardUnanswered, ForwardAnswered, registryVars, replyVars
<1>2. reply'[u] = reply[u] /\ previous'[u] = previous[u] /\ live'[u] = live[u]
  BY DEF TypeOK, ThreadStep, RunCommand, Interpret, ReturnReply, StartLine,
     FindRegistration, FindNothing, NextLine, HostCommand, RegisterCommand,
     UnregisterCommand, RegistryFull, AfterHostCommand, ForwardFails,
     ForwardUnanswered, ForwardAnswered, AllocateReply, FreePrevious,
     registryVars, replyVars
<1>3. lasting'[u] \subseteq lasting[u]
  <2>1. CASE UnregisterCommand(t)
    <3>1. lasting'[u] = lasting[u] \cap Sequences(cmd_reg')
      BY <2>1 DEF UnregisterCommand
    <3>2. QED
      BY <3>1
  <2>2. CASE ~UnregisterCommand(t)
    <3>1. lasting'[u] = lasting[u]
      BY <2>2 DEF TypeOK, ThreadStep, RunCommand, Interpret, ReturnReply, StartLine,
         FindRegistration, FindNothing, NextLine, HostCommand, RegisterCommand,
         RegistryFull, AfterHostCommand, ForwardFails, ForwardUnanswered,
         ForwardAnswered
    <3>2. QED
      BY <3>1
  <2>3. QED
    BY <2>1, <2>2
<1>4. QED
  BY <1>1, <1>2, <1>3

(* The registry stays ordered; what is in it was there before or has a new *)
(* number.                                                                 *)
RegistryGrows ==
  /\ cmd_reg' \in Seq(Registrations) /\ Ordered(cmd_reg')
  /\ cmd_reg_sequence' \in cmd_reg_sequence..MaxSequence
  /\ \A k \in DOMAIN cmd_reg' :
       \/ \E j \in DOMAIN cmd_reg : cmd_reg'[k] = cmd_reg[j]
       \/ cmd_reg'[k].sequence \in (cmd_reg_sequence + 1)..cmd_reg_sequence'

LEMMA RegistryKept ==
  ASSUME TypeOK, UNCHANGED registryVars
  PROVE  RegistryGrows
<1>1. cmd_reg' = cmd_reg /\ cmd_reg_sequence' = cmd_reg_sequence
  BY DEF registryVars
<1>2. cmd_reg_sequence \in cmd_reg_sequence..MaxSequence
  BY CommandsAssumption DEF TypeOK
<1>3. cmd_reg \in Seq(Registrations) /\ Ordered(cmd_reg)
  BY DEF TypeOK, Ordered
<1>4. QED
  BY <1>1, <1>2, <1>3 DEF RegistryGrows

LEMMA RegistryStep ==
  ASSUME TypeOK, NumbersGiven, LinesLeft, [Next]_vars
  PROVE  RegistryGrows
<1>1. /\ cmd_reg \in Seq(Registrations) /\ Ordered(cmd_reg)
      /\ cmd_reg_sequence \in Nat /\ cmd_reg_sequence \in 0..MaxSequence
      /\ MaxSequence \in Nat
      /\ \A k \in DOMAIN cmd_reg : cmd_reg[k].sequence <= cmd_reg_sequence
  BY CommandsAssumption DEF TypeOK, NumbersGiven, Ordered
<1>2. ASSUME NEW m \in Modules, NEW list \in StartupLists, RegisterCommands(m, list)
      PROVE  RegistryGrows
  <2>1. /\ list \in Seq(Commands) /\ m \in Modules \cup {Host}
        /\ cmd_reg_sequence + Len(list) <= MaxSequence
        /\ cmd_reg' = AddList(cmd_reg, cmd_reg_sequence, list, m)
        /\ cmd_reg_sequence' = cmd_reg_sequence + Len(list)
    BY <1>2, CommandsAssumption DEF RegisterCommands
  <2>2. Len(list) \in Nat
    BY <2>1, LenProperties
  <2>3. /\ cmd_reg' \in Seq(Registrations) /\ Ordered(cmd_reg')
        /\ \A k \in DOMAIN cmd_reg' :
             \/ k \in DOMAIN cmd_reg /\ cmd_reg'[k] = cmd_reg[k]
             \/ cmd_reg'[k].sequence \in
                  (cmd_reg_sequence + 1)..(cmd_reg_sequence + Len(list))
    BY <1>1, <2>1, ListAdded
  <2>4. cmd_reg_sequence' \in cmd_reg_sequence..MaxSequence
    BY <1>1, <2>1, <2>2
  <2>5. QED
    BY <2>1, <2>3, <2>4 DEF RegistryGrows
<1>3. ASSUME NEW t \in Threads, RegisterCommand(t)
      PROVE  RegistryGrows
  <2> DEFINE reg == Registration(Head(rest[t]).subject, caller[t], TRUE,
                                 NextSequence(cmd_reg_sequence))
  <2>1. /\ pc[t] = "host" /\ cmd_reg_sequence < MaxSequence
        /\ cmd_reg' = Append(cmd_reg, reg)
        /\ cmd_reg_sequence' = cmd_reg_sequence + 1
    BY <1>3 DEF RegisterCommand
  <2>2. rest[t] \in Seq(Line) /\ rest[t] # <<>> /\ caller[t] \in Modules \cup {Host}
    BY <2>1 DEF TypeOK, LinesLeft
  <2>3. Head(rest[t]).subject \in Commands
    <3>1. Head(rest[t]) \in Line
      BY <2>2, HeadTailProperties
    <3>2. QED
      BY <3>1 DEF Line
  <2>4. cmd_reg_sequence + 1 \in 1..MaxSequence
    BY <1>1, <2>1
  <2>5. reg \in Registrations /\ reg.sequence = cmd_reg_sequence + 1
    BY <2>2, <2>3, <2>4 DEF Registration, Registrations, NextSequence
  <2> HIDE DEF reg
  <2>6. /\ cmd_reg' \in Seq(Registrations) /\ Ordered(cmd_reg')
        /\ \A k \in DOMAIN cmd_reg' :
             \/ k \in DOMAIN cmd_reg /\ cmd_reg'[k] = cmd_reg[k]
             \/ cmd_reg'[k].sequence = cmd_reg_sequence + 1
    BY <1>1, <2>1, <2>5, OneAdded
  <2>7. cmd_reg_sequence' \in cmd_reg_sequence..MaxSequence
    BY <1>1, <2>1
  <2>8. cmd_reg_sequence + 1 \in (cmd_reg_sequence + 1)..cmd_reg_sequence'
    BY <1>1, <2>1
  <2>9. QED
    BY <2>6, <2>7, <2>8 DEF RegistryGrows
<1>4. ASSUME NEW t \in Threads, UnregisterCommand(t)
      PROVE  RegistryGrows
  <2>1. /\ cmd_reg' = Withdraw(cmd_reg, caller[t], Head(rest[t]).subject)
        /\ cmd_reg_sequence' = cmd_reg_sequence
    BY <1>4 DEF UnregisterCommand
  <2>2. /\ cmd_reg' \in Seq(Registrations) /\ Ordered(cmd_reg')
        /\ \A j \in DOMAIN cmd_reg' : \E k \in DOMAIN cmd_reg : cmd_reg'[j] = cmd_reg[k]
    BY <1>1, <2>1, Withdrawn
  <2>3. cmd_reg_sequence' \in cmd_reg_sequence..MaxSequence
    BY <1>1, <2>1
  <2>4. QED
    BY <2>2, <2>3 DEF RegistryGrows
<1>5. ASSUME NEW t \in Threads, ThreadStep(t), ~RegisterCommand(t), ~UnregisterCommand(t)
      PROVE  UNCHANGED registryVars
  BY <1>5 DEF ThreadStep, RunCommand, Interpret, ReturnReply, FindRegistration,
     FindNothing, NextLine, HostCommand, RegistryFull, AfterHostCommand,
     ForwardFails, ForwardUnanswered, ForwardAnswered
<1>6. CASE UNCHANGED vars
  BY <1>6, RegistryKept DEF vars, registryVars
<1>7. QED
  BY <1>2, <1>3, <1>4, <1>5, <1>6, RegistryKept DEF Next, ThreadStep

-----------------------------------------------------------------------------
(* Types.                                                                  *)

LEMMA TypesKept ==
  ASSUME TypeOK, RegistryGrows,
         UNCHANGED <<pc, caller, rest, before, match, replyVars, tried, lasting>>
  PROVE  TypeOK'
<1>1. /\ cmd_reg' \in Seq(Registrations) /\ Ordered(cmd_reg')
      /\ cmd_reg_sequence' \in 0..MaxSequence
  BY CommandsAssumption DEF RegistryGrows, TypeOK
<1>2. QED
  BY <1>1 DEF TypeOK, Ordered, replyVars

(* What numbers the registry holds.                                        *)
LEMMA RegistryNumbers ==
  ASSUME TypeOK
  PROVE  /\ \A k \in DOMAIN cmd_reg : /\ cmd_reg[k] \in Registrations
                                      /\ cmd_reg[k].sequence \in 1..MaxSequence
         /\ Sequences(cmd_reg) \subseteq 1..MaxSequence
<1>1. \A k \in DOMAIN cmd_reg : cmd_reg[k] \in Registrations
  BY LenProperties, ElementOfSeq DEF TypeOK
<1>2. \A k \in DOMAIN cmd_reg : cmd_reg[k].sequence \in 1..MaxSequence
  BY <1>1 DEF Registrations
<1>3. QED
  BY <1>1, <1>2 DEF Sequences

(* The lookup finds a registration that qualifies, and none that qualifies *)
(* is newer.                                                               *)
LEMMA LookupFinds ==
  ASSUME TypeOK, NEW t \in Threads, Found(t) # {}
  PROVE  /\ Newest(Found(t)) \in DOMAIN cmd_reg
         /\ Newest(Found(t)) \in Found(t)
         /\ \A k \in Found(t) : cmd_reg[k].sequence <= cmd_reg[Newest(Found(t))].sequence
<1> DEFINE n == Newest(Found(t))
<1>1. Len(cmd_reg) \in Nat /\ DOMAIN cmd_reg = 1..Len(cmd_reg)
  BY LenProperties DEF TypeOK
<1>2. Found(t) \subseteq 1..Len(cmd_reg)
  BY <1>1 DEF Found
<1>3. n \in Found(t) /\ \A k \in Found(t) : k <= n
  BY <1>1, <1>2, NewestChosen
<1> HIDE DEF n
<1>4. ASSUME NEW k \in Found(t)
      PROVE  cmd_reg[k].sequence <= cmd_reg[n].sequence
  <2>1. k \in DOMAIN cmd_reg /\ n \in DOMAIN cmd_reg /\ k <= n
    BY <1>1, <1>2, <1>3
  <2>2. cmd_reg[k].sequence \in Nat /\ cmd_reg[n].sequence \in Nat
    BY <2>1, RegistryNumbers
  <2>3. CASE k = n
    BY <2>2, <2>3
  <2>4. CASE k # n
    <3>1. k < n
      BY <1>1, <2>1, <2>4
    <3>2. cmd_reg[k].sequence < cmd_reg[n].sequence
      BY <2>1, <3>1 DEF TypeOK
    <3>3. QED
      BY <2>2, <3>2
  <2>5. QED
    BY <2>3, <2>4
<1>5. QED
  BY <1>1, <1>2, <1>3, <1>4 DEF n

(* A thread has at most one reply when a command allocates another.        *)
LEMMA FreshReply ==
  ASSUME RepliesAccounted, NEW t \in Threads, pc[t] \in {"host", "forward"}
  PROVE  Fresh(t) \in 1..2 /\ Fresh(t) \notin live[t]
<1>1. live[t] = {reply[t]} \ {0}
  BY DEF RepliesAccounted
<1>2. \E n \in 1..2 : n \notin live[t]
  <2>1. 1 \in 1..2 /\ 2 \in 1..2 /\ 1 # 2
    OBVIOUS
  <2>2. QED
    BY <1>1, <2>1
<1>3. QED
  BY <1>2, Zenon DEF Fresh

LEMMA Allocation ==
  ASSUME TypeOK, RepliesAccounted, NEW t \in Threads,
         pc[t] \in {"host", "forward"}, AllocateReply(t)
  PROVE  /\ reply' \in [Threads -> 0..2] /\ live' \in [Threads -> SUBSET (1..2)]
         /\ live'[t] = live[t] \cup ({reply'[t]} \ {0})
<1>1. /\ Fresh(t) \in 0..2 /\ 0 \in 0..2 /\ Fresh(t) # 0
      /\ live[t] \cup {Fresh(t)} \in SUBSET (1..2)
  BY FreshReply DEF TypeOK
<1>2. reply \in [Threads -> 0..2] /\ live \in [Threads -> SUBSET (1..2)]
  BY DEF TypeOK
<1>3. CASE /\ reply' = [reply EXCEPT ![t] = Fresh(t)]
           /\ live' = [live EXCEPT ![t] = @ \cup {Fresh(t)}]
  BY <1>1, <1>2, <1>3
<1>4. CASE reply' = [reply EXCEPT ![t] = 0] /\ UNCHANGED live
  BY <1>1, <1>2, <1>4
<1>5. QED
  BY <1>3, <1>4 DEF AllocateReply

(* Every step keeps the types.                                             *)
LEMMA TypeStep ==
  ASSUME IInv, [Next]_vars
  PROVE  TypeOK'
<1> USE DEF IInv
<1>1. RegistryGrows
  BY RegistryStep
<1>2. CASE UNCHANGED vars
  BY <1>1, <1>2, TypesKept DEF vars, replyVars
<1>3. ASSUME NEW m \in Modules, NEW list \in StartupLists, RegisterCommands(m, list)
      PROVE  TypeOK'
  BY <1>1, <1>3, TypesKept DEF RegisterCommands
<1>4. ASSUME NEW t \in Threads, ThreadStep(t)
      PROVE  TypeOK'
  <2>1. /\ cmd_reg' \in Seq(Registrations) /\ Ordered(cmd_reg')
        /\ cmd_reg_sequence' \in 0..MaxSequence
    BY <1>1, CommandsAssumption DEF RegistryGrows, TypeOK
  <2>2. pc' \in [Threads -> {"idle", "find", "host", "forward", "not_handled",
                             "handled", "return", "next", "unknown", "end"}]
    <3>1. CASE HostCommand(t)
      BY <3>1 DEF HostCommand, TypeOK
    <3>2. CASE AfterHostCommand(t)
      BY <3>2 DEF AfterHostCommand, TypeOK
    <3>3. CASE ~HostCommand(t) /\ ~AfterHostCommand(t)
      BY <1>4, <3>3 DEF TypeOK, ThreadStep, RunCommand, Interpret, ReturnReply,
         StartLine, FindRegistration, FindNothing, NextLine, RegisterCommand,
         UnregisterCommand, RegistryFull, ForwardFails, ForwardUnanswered,
         ForwardAnswered
    <3>4. QED
      BY <3>1, <3>2, <3>3
  <2>3. caller' \in [Threads -> Modules \cup {Host}]
    BY <1>4, CommandsAssumption, ZenonT(30) DEF TypeOK, ThreadStep, RunCommand, Interpret,
       ReturnReply, FindRegistration, FindNothing, NextLine, HostCommand,
       RegisterCommand, UnregisterCommand, RegistryFull, AfterHostCommand,
       ForwardFails, ForwardUnanswered, ForwardAnswered
  <2>4. rest' \in [Threads -> Seq(Line)]
    <3>1. CASE RunCommand(t)
      BY <3>1, CommandsAssumption DEF TypeOK, RunCommand, StartLine
    <3>2. CASE NextLine(t)
      <4>1. rest[t] \in Seq(Line) /\ rest[t] # <<>>
        BY <3>2 DEF TypeOK, LinesLeft, NextLine
      <4>2. Tail(rest[t]) \in Seq(Line)
        BY <4>1, HeadTailProperties
      <4>3. QED
        BY <3>2, <4>2 DEF TypeOK, NextLine, StartLine
    <3>3. CASE ReturnReply(t)
      <4>1. <<>> \in Seq(Line)
        BY EmptySeq
      <4>2. QED
        BY <3>3, <4>1 DEF TypeOK, ReturnReply
    <3>4. CASE ~RunCommand(t) /\ ~NextLine(t) /\ ~ReturnReply(t)
      BY <1>4, <3>4 DEF TypeOK, ThreadStep, Interpret, FindRegistration,
         FindNothing, HostCommand, RegisterCommand, UnregisterCommand,
         RegistryFull, AfterHostCommand, ForwardFails, ForwardUnanswered,
         ForwardAnswered
    <3>5. QED
      BY <3>1, <3>2, <3>3, <3>4
  <2>5. /\ before' \in [Threads -> 0..Infinity]
        /\ match' \in [Threads -> Registrations \cup {<<>>}]
        /\ tried' \in [Threads -> SUBSET (1..MaxSequence)]
    <3>1. 0 \in 0..Infinity /\ Infinity \in 0..Infinity /\ 1..MaxSequence \subseteq 0..Infinity
      BY CommandsAssumption DEF Infinity
    <3>2. CASE FindRegistration(t)
      <4> DEFINE reg == cmd_reg[Newest(Found(t))]
      <4>1. reg \in Registrations /\ reg.sequence \in 1..MaxSequence
        BY <3>2, LookupFinds, RegistryNumbers DEF FindRegistration
      <4>2. /\ match' = [match EXCEPT ![t] = reg]
            /\ before' = [before EXCEPT ![t] = reg.sequence]
            /\ tried' = [tried EXCEPT ![t] = @ \cup {reg.sequence}]
        BY <3>2 DEF FindRegistration
      <4> HIDE DEF reg
      <4>3. QED
        BY <3>1, <4>1, <4>2 DEF TypeOK
    <3>3. CASE AfterHostCommand(t)
      BY <3>3 DEF TypeOK, AfterHostCommand
    <3>4. CASE RunCommand(t) \/ NextLine(t) \/ ReturnReply(t)
      <4>1. UNCHANGED match
        BY <3>4 DEF RunCommand, NextLine, ReturnReply
      <4>2. \/ \E b \in {0, Infinity} : /\ before' = [before EXCEPT ![t] = b]
                                         /\ tried' = [tried EXCEPT ![t] = {}]
            \/ UNCHANGED <<before, tried>>
        BY <3>4 DEF RunCommand, NextLine, ReturnReply, StartLine
      <4>3. ASSUME NEW b \in {0, Infinity}, before' = [before EXCEPT ![t] = b],
                   tried' = [tried EXCEPT ![t] = {}]
            PROVE  /\ before' \in [Threads -> 0..Infinity]
                   /\ tried' \in [Threads -> SUBSET (1..MaxSequence)]
        <5>1. b \in 0..Infinity
          BY <3>1
        <5>2. QED
          BY <4>3, <5>1 DEF TypeOK
      <4>4. QED
        BY <4>1, <4>2, <4>3 DEF TypeOK
    <3>5. CASE /\ ~FindRegistration(t) /\ ~AfterHostCommand(t) /\ ~RunCommand(t)
               /\ ~NextLine(t) /\ ~ReturnReply(t)
      <4>1. UNCHANGED <<before, match, tried>>
        BY <1>4, <3>5 DEF ThreadStep, Interpret, FindNothing, HostCommand,
           RegisterCommand, UnregisterCommand, RegistryFull, ForwardFails,
           ForwardUnanswered, ForwardAnswered
      <4>2. QED
        BY <4>1 DEF TypeOK
    <3>6. QED
      BY <3>2, <3>3, <3>4, <3>5
  <2>6. lasting' \in [Threads -> SUBSET (1..MaxSequence)]
    <3>1. CASE UnregisterCommand(t)
      BY <3>1 DEF TypeOK, UnregisterCommand
    <3>2. CASE RunCommand(t) \/ NextLine(t) \/ ReturnReply(t)
      BY <3>2, RegistryNumbers DEF TypeOK, RunCommand, NextLine, ReturnReply, StartLine
    <3>3. CASE ~UnregisterCommand(t) /\ ~RunCommand(t) /\ ~NextLine(t) /\ ~ReturnReply(t)
      BY <1>4, <3>3 DEF TypeOK, ThreadStep, Interpret, FindRegistration,
         FindNothing, HostCommand, RegisterCommand, RegistryFull,
         AfterHostCommand, ForwardFails, ForwardUnanswered, ForwardAnswered
    <3>4. QED
      BY <3>1, <3>2, <3>3
  <2>7. /\ reply' \in [Threads -> 0..2]
        /\ previous' \in [Threads -> 0..2]
        /\ live' \in [Threads -> SUBSET (1..2)]
    <3>1. CASE HostCommand(t)
      <4>1. previous' = previous /\ (AllocateReply(t) \/ UNCHANGED <<reply, live>>)
        BY <3>1 DEF HostCommand
      <4>2. pc[t] = "host"
        BY <3>1 DEF HostCommand
      <4>3. QED
        BY <4>1, <4>2, Allocation DEF TypeOK
    <3>2. CASE ForwardAnswered(t)
      <4>1. previous' = previous /\ AllocateReply(t) /\ pc[t] = "forward"
        BY <3>2 DEF ForwardAnswered
      <4>2. QED
        BY <4>1, Allocation DEF TypeOK
    <3>3. CASE AfterHostCommand(t)
      BY <3>3 DEF TypeOK, AfterHostCommand, FreePrevious
    <3>4. CASE FindRegistration(t) \/ ReturnReply(t) \/ ForwardFails(t)
      <4>1. 0 \in 0..2 /\ reply[t] \in 0..2 /\ live[t] \ {reply[t]} \in SUBSET (1..2)
        BY DEF TypeOK
      <4>2. CASE FindRegistration(t)
        BY <4>1, <4>2 DEF TypeOK, FindRegistration
      <4>3. CASE ReturnReply(t)
        BY <4>1, <4>3 DEF TypeOK, ReturnReply
      <4>4. CASE ForwardFails(t)
        BY <4>1, <4>4 DEF TypeOK, ForwardFails
      <4>5. QED
        BY <3>4, <4>2, <4>3, <4>4
    <3>5. CASE /\ ~HostCommand(t) /\ ~ForwardAnswered(t) /\ ~AfterHostCommand(t)
               /\ ~FindRegistration(t) /\ ~ReturnReply(t) /\ ~ForwardFails(t)
      <4>1. UNCHANGED replyVars
        BY <1>4, <3>5 DEF ThreadStep, RunCommand, Interpret, FindNothing, NextLine,
           RegisterCommand, UnregisterCommand, RegistryFull, ForwardUnanswered
      <4>2. QED
        BY <4>1 DEF TypeOK, replyVars
    <3>6. QED
      BY <3>1, <3>2, <3>3, <3>4, <3>5
  <2>8. QED
    BY <2>1, <2>2, <2>3, <2>4, <2>5, <2>6, <2>7 DEF TypeOK, Ordered
<1>5. QED
  BY <1>2, <1>3, <1>4 DEF Next, ThreadStep

-----------------------------------------------------------------------------
(* Numbers and lines.                                                      *)

LEMMA NumbersStep ==
  ASSUME IInv, [Next]_vars
  PROVE  NumbersGiven'
<1> USE DEF IInv
<1>1. RegistryGrows
  BY RegistryStep
<1>2. /\ cmd_reg_sequence \in Nat /\ cmd_reg_sequence' \in Nat
      /\ cmd_reg_sequence <= cmd_reg_sequence'
      /\ \A k \in DOMAIN cmd_reg : /\ cmd_reg[k].sequence \in 1..MaxSequence
                                   /\ cmd_reg[k].sequence <= cmd_reg_sequence
  BY <1>1, RegistryNumbers, CommandsAssumption DEF RegistryGrows, TypeOK, NumbersGiven
<1>3. \A k \in DOMAIN cmd_reg' : cmd_reg'[k].sequence <= cmd_reg_sequence'
  <2> SUFFICES ASSUME NEW k \in DOMAIN cmd_reg'
               PROVE  cmd_reg'[k].sequence <= cmd_reg_sequence'
    OBVIOUS
  <2>1. CASE \E j \in DOMAIN cmd_reg : cmd_reg'[k] = cmd_reg[j]
    <3>1. PICK j \in DOMAIN cmd_reg : cmd_reg'[k] = cmd_reg[j]
      BY <2>1
    <3>2. QED
      BY <1>2, <3>1
  <2>2. CASE cmd_reg'[k].sequence \in (cmd_reg_sequence + 1)..cmd_reg_sequence'
    BY <1>2, <2>2
  <2>3. QED
    BY <1>1, <2>1, <2>2 DEF RegistryGrows
<1>4. Sequences(cmd_reg) \subseteq 1..cmd_reg_sequence
  BY <1>2 DEF Sequences
<1>5. \A t \in Threads : lasting[t] \subseteq 1..cmd_reg_sequence
  BY DEF NumbersGiven
<1>6. \A t \in Threads : lasting'[t] \subseteq 1..cmd_reg_sequence
  <2>1. ASSUME NEW u \in Threads, ThreadStep(u), NEW t \in Threads \ {u}
        PROVE  lasting'[t] \subseteq 1..cmd_reg_sequence
    BY <1>5, <2>1, StepOthers
  <2>2. ASSUME NEW t \in Threads, ThreadStep(t)
        PROVE  lasting'[t] \subseteq 1..cmd_reg_sequence
    <3>1. CASE UnregisterCommand(t)
      BY <1>5, <3>1 DEF UnregisterCommand
    <3>2. CASE RunCommand(t) \/ NextLine(t) \/ ReturnReply(t)
      BY <1>4, <1>5, <3>2 DEF TypeOK, RunCommand, NextLine, ReturnReply, StartLine
    <3>3. CASE ~UnregisterCommand(t) /\ ~RunCommand(t) /\ ~NextLine(t) /\ ~ReturnReply(t)
      BY <1>5, <2>2, <3>3 DEF ThreadStep, Interpret, FindRegistration,
         FindNothing, HostCommand, RegisterCommand, RegistryFull,
         AfterHostCommand, ForwardFails, ForwardUnanswered, ForwardAnswered
    <3>4. QED
      BY <3>1, <3>2, <3>3
  <2>3. CASE UNCHANGED lasting
    BY <1>5, <2>3
  <2>4. QED
    BY <2>1, <2>2, <2>3 DEF Next, ThreadStep, RegisterCommands, vars
<1>7. 1..cmd_reg_sequence \subseteq 1..cmd_reg_sequence'
  BY <1>2
<1>8. QED
  BY <1>3, <1>6, <1>7 DEF NumbersGiven

LEMMA LinesStep ==
  ASSUME IInv, [Next]_vars
  PROVE  LinesLeft'
<1> USE DEF IInv
<1>1. ASSUME NEW u \in Threads, ThreadStep(u), NEW t \in Threads, pc'[t] # "idle"
      PROVE  rest'[t] # <<>>
  <2>1. CASE t # u
    BY <1>1, <2>1, StepOthers DEF LinesLeft
  <2>2. CASE t = u /\ RunCommand(t)
    BY <2>2, CommandsAssumption DEF TypeOK, RunCommand, StartLine
  <2>3. CASE t = u /\ NextLine(t)
    BY <2>3 DEF TypeOK, LinesLeft, NextLine, StartLine
  <2>4. CASE t = u /\ ReturnReply(t)
    BY <1>1, <2>4 DEF TypeOK, ReturnReply
  <2>5. CASE t = u /\ ~RunCommand(t) /\ ~NextLine(t) /\ ~ReturnReply(t)
    BY <1>1, <2>5 DEF TypeOK, LinesLeft, ThreadStep, Interpret, FindRegistration,
       FindNothing, HostCommand, RegisterCommand, UnregisterCommand,
       RegistryFull, AfterHostCommand, ForwardFails, ForwardUnanswered,
       ForwardAnswered
  <2>6. QED
    BY <2>1, <2>2, <2>3, <2>4, <2>5
<1>2. CASE UNCHANGED <<pc, rest>>
  BY <1>2 DEF LinesLeft
<1>3. QED
  BY <1>1, <1>2 DEF LinesLeft, Next, ThreadStep, RegisterCommands, vars

-----------------------------------------------------------------------------
(* No registration is overlooked.                                          *)

(* The property for one thread.                                            *)
NoneOverlooked(t) ==
  \A k \in DOMAIN cmd_reg :
    /\ pc[t] \notin {"idle", "end"}
    /\ cmd_reg[k].sequence \in lasting[t]
    /\ Matches(cmd_reg[k], t)
    /\ cmd_reg[k].sequence >= before[t] \/ pc[t] = "unknown"
    => cmd_reg[k].sequence \in tried[t]

(* While a line is interpreted, it keeps what is known of it: a            *)
(* registration that is new has a number that does not count for the line. *)
LEMMA LineContinues ==
  ASSUME TypeOK, NumbersGiven, RegistryGrows, NEW t \in Threads, NoneOverlooked(t),
         pc'[t] \in {"idle", "end"} \/ pc[t] \notin {"idle", "end"},
         pc'[t] = "unknown" => pc[t] = "unknown",
         caller'[t] = caller[t], rest'[t] = rest[t], before'[t] = before[t],
         tried'[t] = tried[t], lasting'[t] \subseteq lasting[t]
  PROVE  NoneOverlooked(t)'
<1> SUFFICES ASSUME NEW k \in DOMAIN cmd_reg',
                    pc'[t] \notin {"idle", "end"},
                    cmd_reg'[k].sequence \in lasting'[t],
                    Matches(cmd_reg[k], t)',
                    cmd_reg'[k].sequence >= before'[t] \/ pc'[t] = "unknown"
             PROVE  cmd_reg'[k].sequence \in tried'[t]
  BY DEF NoneOverlooked
<1>1. cmd_reg'[k].sequence \in 1..cmd_reg_sequence
  BY DEF NumbersGiven
<1>2. cmd_reg_sequence \in Nat
  BY CommandsAssumption DEF TypeOK
<1>3. cmd_reg'[k].sequence \notin (cmd_reg_sequence + 1)..cmd_reg_sequence'
  BY <1>1, <1>2
<1>4. PICK j \in DOMAIN cmd_reg : cmd_reg'[k] = cmd_reg[j]
  BY <1>3 DEF RegistryGrows
<1>5. Matches(cmd_reg[j], t)
  BY <1>4 DEF Matches
<1>6. QED
  BY <1>4, <1>5 DEF NoneOverlooked

(* A line that is begun has had no lookup yet.                             *)
LEMMA LineBegins ==
  ASSUME TypeOK, NEW t \in Threads, NEW lines, StartLine(t, lines),
         UNCHANGED registryVars
  PROVE  NoneOverlooked(t)'
<1>1. /\ pc'[t] = "find" /\ before'[t] = MaxSequence + 1 /\ cmd_reg' = cmd_reg
  BY DEF TypeOK, StartLine, Infinity, registryVars
<1>2. \A k \in DOMAIN cmd_reg' : ~(cmd_reg'[k].sequence >= before'[t])
  BY <1>1, RegistryNumbers, CommandsAssumption
<1>3. QED
  BY <1>1, <1>2 DEF NoneOverlooked

(* A lookup goes on to the newest that is older than the last one tried.   *)
LEMMA LineLooksUp ==
  ASSUME TypeOK, NEW t \in Threads, NoneOverlooked(t), FindRegistration(t)
  PROVE  NoneOverlooked(t)'
<1> DEFINE n == Newest(Found(t))
<1>1. /\ pc[t] = "find" /\ pc'[t] # "unknown" /\ Found(t) # {}
      /\ cmd_reg' = cmd_reg /\ caller' = caller /\ rest' = rest /\ lasting' = lasting
      /\ before'[t] = cmd_reg[n].sequence
      /\ tried'[t] = tried[t] \cup {cmd_reg[n].sequence}
  BY DEF TypeOK, FindRegistration, registryVars
<1>2. n \in DOMAIN cmd_reg /\ \A k \in Found(t) : cmd_reg[k].sequence <= cmd_reg[n].sequence
  BY <1>1, LookupFinds
<1> HIDE DEF n
<1> SUFFICES ASSUME NEW k \in DOMAIN cmd_reg, cmd_reg[k].sequence \in lasting[t],
                    Matches(cmd_reg[k], t)', cmd_reg[k].sequence >= cmd_reg[n].sequence
             PROVE  cmd_reg[k].sequence \in tried[t] \cup {cmd_reg[n].sequence}
  BY <1>1 DEF NoneOverlooked
<1>3. /\ cmd_reg[k].sequence \in Nat /\ cmd_reg[n].sequence \in Nat /\ before[t] \in Nat
  BY <1>2, RegistryNumbers DEF TypeOK
<1>4. Matches(cmd_reg[k], t)
  BY <1>1 DEF Matches
<1>5. CASE cmd_reg[k].sequence < before[t]
  <2>1. k \in Found(t)
    BY <1>4, <1>5 DEF Found, Older
  <2>2. cmd_reg[k].sequence = cmd_reg[n].sequence
    BY <1>2, <1>3, <2>1
  <2>3. QED
    BY <2>2
<1>6. CASE ~(cmd_reg[k].sequence < before[t])
  <2>1. cmd_reg[k].sequence >= before[t]
    BY <1>3, <1>6
  <2>2. QED
    BY <1>1, <1>4, <2>1 DEF NoneOverlooked
<1>7. QED
  BY <1>5, <1>6

(* A line that nobody interprets has had all its turns.                    *)
LEMMA LineUnknown ==
  ASSUME TypeOK, NEW t \in Threads, NoneOverlooked(t), FindNothing(t)
  PROVE  NoneOverlooked(t)'
<1>1. /\ pc[t] = "find" /\ Found(t) = {}
      /\ UNCHANGED <<cmd_reg, caller, rest, before, tried, lasting>>
  BY DEF FindNothing, registryVars
<1> SUFFICES ASSUME NEW k \in DOMAIN cmd_reg, cmd_reg[k].sequence \in lasting[t],
                    Matches(cmd_reg[k], t)'
             PROVE  cmd_reg[k].sequence \in tried[t]
  BY <1>1 DEF NoneOverlooked
<1>2. Matches(cmd_reg[k], t)
  BY <1>1 DEF Matches
<1>3. ~(cmd_reg[k].sequence < before[t])
  BY <1>1, <1>2 DEF Found, Older
<1>4. cmd_reg[k].sequence >= before[t]
  BY <1>3, RegistryNumbers DEF TypeOK
<1>5. QED
  BY <1>1, <1>2, <1>4 DEF NoneOverlooked

LEMMA OverlookedStep ==
  ASSUME IInv, [Next]_vars
  PROVE  NothingOverlooked'
<1> USE DEF IInv
<1>1. RegistryGrows
  BY RegistryStep
<1>2. \A t \in Threads : NoneOverlooked(t)
  BY DEF NothingOverlooked, NoneOverlooked
<1>3. ASSUME NEW t \in Threads, ThreadStep(t)
      PROVE  NoneOverlooked(t)'
  <2>1. CASE RunCommand(t)
    BY <2>1, LineBegins DEF RunCommand
  <2>2. CASE NextLine(t) /\ Tail(rest[t]) # <<>>
    BY <2>2, LineBegins DEF NextLine
  <2>3. CASE FindRegistration(t)
    BY <1>2, <2>3, LineLooksUp
  <2>4. CASE FindNothing(t)
    BY <1>2, <2>4, LineUnknown
  <2>5. CASE ReturnReply(t) \/ (NextLine(t) /\ Tail(rest[t]) = <<>>)
    <3>1. pc'[t] \in {"idle", "end"}
      BY <2>5 DEF TypeOK, ReturnReply, NextLine
    <3>2. QED
      BY <3>1 DEF NoneOverlooked
  <2>6. CASE \/ HostCommand(t) \/ RegisterCommand(t) \/ UnregisterCommand(t)
             \/ RegistryFull(t) \/ AfterHostCommand(t)
             \/ ForwardFails(t) \/ ForwardUnanswered(t) \/ ForwardAnswered(t)
    <3>1. pc[t] \notin {"idle", "end"} /\ pc'[t] # "unknown"
      BY <2>6 DEF TypeOK, HostCommand, RegisterCommand, UnregisterCommand,
         RegistryFull, AfterHostCommand, ForwardFails, ForwardUnanswered,
         ForwardAnswered
    <3>2. UNCHANGED <<caller, rest, before, tried>>
      BY <2>6 DEF HostCommand, RegisterCommand, UnregisterCommand,
         RegistryFull, AfterHostCommand, ForwardFails, ForwardUnanswered,
         ForwardAnswered
    <3>3. lasting'[t] \subseteq lasting[t]
      <4>1. CASE UnregisterCommand(t)
        <5>1. lasting'[t] = lasting[t] \cap Sequences(cmd_reg')
          BY <4>1 DEF UnregisterCommand
        <5>2. QED
          BY <5>1
      <4>2. CASE ~UnregisterCommand(t)
        BY <2>6, <4>2 DEF HostCommand, RegisterCommand, RegistryFull,
           AfterHostCommand, ForwardFails, ForwardUnanswered, ForwardAnswered
      <4>3. QED
        BY <4>1, <4>2
    <3>4. QED
      BY <1>1, <1>2, <3>1, <3>2, <3>3, LineContinues
  <2>7. QED
    BY <1>3, <2>1, <2>2, <2>3, <2>4, <2>5, <2>6 DEF ThreadStep, Interpret
<1>4. ASSUME NEW u \in Threads, ThreadStep(u), NEW t \in Threads \ {u}
      PROVE  NoneOverlooked(t)'
  <2>1. /\ pc'[t] = pc[t] /\ caller'[t] = caller[t] /\ rest'[t] = rest[t]
        /\ before'[t] = before[t] /\ tried'[t] = tried[t]
        /\ lasting'[t] \subseteq lasting[t]
    BY <1>4, StepOthers
  <2>2. QED
    BY <1>1, <1>2, <2>1, LineContinues
<1>5. ASSUME UNCHANGED <<pc, caller, rest, before, tried, lasting>>, NEW t \in Threads
      PROVE  NoneOverlooked(t)'
  <2>1. /\ pc'[t] = pc[t] /\ caller'[t] = caller[t] /\ rest'[t] = rest[t]
        /\ before'[t] = before[t] /\ tried'[t] = tried[t]
        /\ lasting'[t] \subseteq lasting[t]
    BY <1>5
  <2>2. QED
    BY <1>1, <1>2, <2>1, LineContinues
<1>6. \A t \in Threads : NoneOverlooked(t)'
  <2>1. CASE \E u \in Threads : ThreadStep(u)
    <3>1. PICK u \in Threads : ThreadStep(u)
      BY <2>1
    <3>2. ASSUME NEW t \in Threads
          PROVE  NoneOverlooked(t)'
      BY <1>3, <1>4, <3>1
    <3>3. QED
      BY <3>2
  <2>2. CASE UNCHANGED <<pc, caller, rest, before, tried, lasting>>
    BY <1>5, <2>2
  <2>3. QED
    BY <2>1, <2>2 DEF Next, ThreadStep, RegisterCommands, vars
<1>7. QED
  BY <1>6 DEF NothingOverlooked, NoneOverlooked

-----------------------------------------------------------------------------
(* Replies.                                                                *)

LEMMA RepliesStep ==
  ASSUME IInv, [Next]_vars
  PROVE  RepliesAccounted'
<1> USE DEF IInv
<1> DEFINE Accounted(p, r, b, l) ==
             /\ p = "idle" => r = 0 /\ b = 0 /\ l = {}
             /\ p \in {"find", "next", "unknown", "end"} => b = 0 /\ l = {r} \ {0}
             /\ p \in {"host", "forward"} => b = r /\ l = {r} \ {0}
             /\ p \in {"not_handled", "handled", "return"} => l = {r, b} \ {0}
<1>1. \A t \in Threads : Accounted(pc[t], reply[t], previous[t], live[t])
  BY DEF RepliesAccounted
<1>2. ASSUME NEW t \in Threads, ThreadStep(t)
      PROVE  Accounted(pc'[t], reply'[t], previous'[t], live'[t])
  <2>1. CASE RunCommand(t) \/ FindNothing(t) \/ NextLine(t) \/ FindRegistration(t)
    BY <1>1, <2>1 DEF TypeOK, RunCommand, FindNothing, NextLine, FindRegistration,
       StartLine, replyVars
  <2>2. CASE HostCommand(t)
    <3>1. pc[t] = "host" /\ pc'[t] \in {"not_handled", "handled", "return"}
      BY <2>2 DEF TypeOK, HostCommand
    <3>2. previous[t] = reply[t] /\ live[t] = {reply[t]} \ {0} /\ previous'[t] = previous[t]
      BY <1>1, <2>2, <3>1 DEF HostCommand
    <3>3. CASE AllocateReply(t)
      <4>1. live'[t] = live[t] \cup ({reply'[t]} \ {0})
        BY <3>1, <3>3, Allocation
      <4>2. QED
        BY <3>1, <3>2, <4>1
    <3>4. CASE UNCHANGED <<reply, live>>
      BY <3>1, <3>2, <3>4
    <3>5. QED
      BY <2>2, <3>3, <3>4 DEF HostCommand
  <2>3. CASE ForwardAnswered(t)
    <3>1. /\ pc[t] = "forward" /\ pc'[t] = "return" /\ AllocateReply(t)
          /\ previous'[t] = previous[t]
      BY <2>3 DEF TypeOK, ForwardAnswered
    <3>2. previous[t] = reply[t] /\ live[t] = {reply[t]} \ {0}
      BY <1>1, <3>1
    <3>3. live'[t] = live[t] \cup ({reply'[t]} \ {0})
      BY <3>1, Allocation
    <3>4. QED
      BY <3>1, <3>2, <3>3
  <2>4. CASE \/ RegisterCommand(t) \/ UnregisterCommand(t) \/ RegistryFull(t)
             \/ ForwardUnanswered(t)
    <3>1. /\ pc[t] \in {"host", "forward"} /\ pc'[t] \in {"handled", "return"}
          /\ UNCHANGED <<reply, previous, live>>
      BY <2>4 DEF TypeOK, RegisterCommand, UnregisterCommand, RegistryFull,
         ForwardUnanswered, replyVars
    <3>2. previous[t] = reply[t] /\ live[t] = {reply[t]} \ {0}
      BY <1>1, <3>1
    <3>3. QED
      BY <3>1, <3>2
  <2>5. CASE ForwardFails(t)
    <3>1. /\ pc[t] = "forward" /\ pc'[t] = "return" /\ reply'[t] = 0
          /\ UNCHANGED <<previous, live>>
      BY <2>5 DEF TypeOK, ForwardFails
    <3>2. previous[t] = reply[t] /\ live[t] = {reply[t]} \ {0}
      BY <1>1, <3>1
    <3>3. QED
      BY <3>1, <3>2
  <2>6. CASE AfterHostCommand(t)
    <3>1. /\ pc[t] \in {"not_handled", "handled", "return"}
          /\ pc'[t] \in {"find", "next", "end"}
          /\ reply'[t] = reply[t] /\ previous'[t] = 0
          /\ live'[t] = IF Superseded(t) THEN live[t] \ {previous[t]} ELSE live[t]
      BY <2>6 DEF TypeOK, AfterHostCommand, FreePrevious
    <3>2. live[t] = {reply[t], previous[t]} \ {0}
      BY <1>1, <3>1
    <3>3. live'[t] = {reply[t]} \ {0}
      BY <3>1, <3>2 DEF Superseded
    <3>4. QED
      BY <3>1, <3>3
  <2>7. CASE ReturnReply(t)
    <3>1. /\ pc[t] = "end" /\ pc'[t] = "idle" /\ reply'[t] = 0
          /\ previous'[t] = previous[t] /\ live'[t] = live[t] \ {reply[t]}
      BY <2>7 DEF TypeOK, ReturnReply
    <3>2. previous[t] = 0 /\ live[t] = {reply[t]} \ {0}
      BY <1>1, <3>1
    <3>3. QED
      BY <3>1, <3>2
  <2>8. QED
    BY <1>2, <2>1, <2>2, <2>3, <2>4, <2>5, <2>6, <2>7 DEF ThreadStep, Interpret
<1>3. ASSUME NEW u \in Threads, ThreadStep(u), NEW t \in Threads \ {u}
      PROVE  Accounted(pc'[t], reply'[t], previous'[t], live'[t])
  BY <1>1, <1>3, StepOthers
<1>4. CASE UNCHANGED <<pc, reply, previous, live>>
  BY <1>1, <1>4 DEF RepliesAccounted
<1>5. CASE \E u \in Threads : ThreadStep(u)
  <2>1. PICK u \in Threads : ThreadStep(u)
    BY <1>5
  <2>2. \A t \in Threads : Accounted(pc'[t], reply'[t], previous'[t], live'[t])
    BY <1>2, <1>3, <2>1
  <2>3. QED
    BY <2>2 DEF RepliesAccounted
<1>6. QED
  BY <1>4, <1>5 DEF Next, ThreadStep, RegisterCommands, vars, replyVars

-----------------------------------------------------------------------------
(* The theorems.                                                           *)

LEMMA InitHolds == Init => IInv
<1> SUFFICES ASSUME Init PROVE IInv
  OBVIOUS
<1> USE DEF Init
<1>1. /\ <<>> \in Seq(Registrations) /\ Ordered(<<>>) /\ 0 \in Nat
      /\ Host \in Modules \cup {Host} /\ HostCommands \in Seq(Commands)
      /\ 0 + Len(HostCommands) <= MaxSequence
      /\ \A k \in DOMAIN <<>> : <<>>[k].sequence <= 0
  <2>1. Len(HostCommands) \in Nat /\ Len(HostCommands) <= MaxSequence
    BY CommandsAssumption, LenProperties
  <2>2. <<>> \in Seq(Registrations) /\ DOMAIN <<>> = {}
    BY EmptySeq
  <2>3. QED
    BY <2>1, <2>2, CommandsAssumption DEF Ordered
<1>2. /\ cmd_reg \in Seq(Registrations) /\ Ordered(cmd_reg)
      /\ \A k \in DOMAIN cmd_reg :
           \/ k \in DOMAIN <<>> /\ cmd_reg[k] = <<>>[k]
           \/ cmd_reg[k].sequence \in (0 + 1)..(0 + Len(HostCommands))
  BY <1>1, ListAdded
<1>3. \A k \in DOMAIN cmd_reg : cmd_reg[k].sequence <= cmd_reg_sequence
  BY <1>1, <1>2, CommandsAssumption, LenProperties
<1>4. <<>> \in Seq(Line)
  BY EmptySeq
<1>5. /\ cmd_reg_sequence \in 0..MaxSequence
      /\ 0 \in 0..Infinity /\ 0 \in 0..2
  BY CommandsAssumption, LenProperties DEF Infinity
<1>6. TypeOK
  BY <1>2, <1>4, <1>5 DEF TypeOK, Ordered
<1>7. NumbersGiven /\ LinesLeft /\ NothingOverlooked /\ RepliesAccounted
  BY <1>3 DEF NumbersGiven, LinesLeft, NothingOverlooked, RepliesAccounted
<1>8. QED
  BY <1>6, <1>7 DEF IInv

LEMMA Inductive == Spec => []IInv
<1>1. IInv /\ [Next]_vars => IInv'
  <2> SUFFICES ASSUME IInv, [Next]_vars PROVE IInv'
    OBVIOUS
  <2>1. QED
    BY TypeStep, NumbersStep, LinesStep, OverlookedStep, RepliesStep DEF IInv
<1>2. QED
  BY InitHolds, <1>1, PTL DEF Spec

(* Every variable keeps its type and the registrations their order,        *)
(* whatever the threads register and withdraw.                             *)
THEOREM TypeCorrect == Spec => []TypeOK
<1>1. IInv => TypeOK
  BY DEF IInv
<1>2. QED
  BY Inductive, <1>1, PTL

(* However the lookups of a line interleave with other threads' changes to *)
(* the registry, no registration that stays is overlooked.                 *)
THEOREM LookupsComplete == Spec => []NothingOverlooked
<1>1. IInv => NothingOverlooked
  BY DEF IInv
<1>2. QED
  BY Inductive, <1>1, PTL

(* Between two commands a message owns at most one reply, the one it is to *)
(* return: the replies that commands have replaced are freed, once each.   *)
THEOREM RepliesOwned == Spec => []RepliesOwnedOnce
<1>1. IInv => RepliesOwnedOnce
  BY DEF IInv, RepliesAccounted, RepliesOwnedOnce
<1>2. QED
  BY Inductive, <1>1, PTL
=============================================================================
