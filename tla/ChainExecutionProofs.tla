------------------------ MODULE ChainExecutionProofs ------------------------
(***************************************************************************)
(* The safety properties of ChainExecution, for any number of threads, any *)
(* chains, orders and modules and any depth of nesting.                    *)
(***************************************************************************)
EXTENDS ChainExecution, SequenceTheorems, FiniteSetTheorems,
        WellFoundedInduction, TLAPS

Frame == ChainFrames \cup FunctionFrames

(* A set of natural numbers that is not empty has a least element.         *)
LEMMA LeastElement ==
  ASSUME NEW S, S \subseteq Nat, S # {}
  PROVE  \E k \in S : \A j \in S : j >= k
<1>1. IsWellFoundedOn(OpToRel(<, Nat), Nat)
  BY NatLessThanWellFounded
<1>2. PICK k \in S : \A j \in S : ~ (<<j, k>> \in OpToRel(<, Nat))
  BY <1>1, WFMin, Zenon
<1>3. \A j \in S : ~ (j < k)
  BY <1>2 DEF OpToRel
<1>4. \A j \in S : j \in Nat /\ k \in Nat
  OBVIOUS
<1>5. \A j \in S : j >= k
  BY <1>3, <1>4
<1>6. QED
  BY <1>5

-----------------------------------------------------------------------------
(* Stacks of activations.                                                  *)

LEMMA OrdersTyped ==
  ASSUME NEW c \in Chains
  PROVE  /\ Orders[c] \in Seq(Order) /\ Len(Orders[c]) \in Nat \ {0}
         /\ DOMAIN Orders[c] = 1..Len(Orders[c])
         /\ \A k \in 1..Len(Orders[c]) :
              /\ Orders[c][k] \in Order
              /\ Processors(c, k) \in Seq(Modules) /\ Len(Processors(c, k)) \in Nat
              /\ DOMAIN Processors(c, k) = 1..Len(Processors(c, k))
<1>1. Orders[c] \in Seq(Order) /\ Orders[c] # <<>>
  BY ChainsAssumption
<1>2. Len(Orders[c]) \in Nat \ {0} /\ DOMAIN Orders[c] = 1..Len(Orders[c])
  BY <1>1, EmptySeq, LenProperties
<1>3. ASSUME NEW k \in 1..Len(Orders[c])
      PROVE  /\ Orders[c][k] \in Order
             /\ Processors(c, k) \in Seq(Modules) /\ Len(Processors(c, k)) \in Nat
             /\ DOMAIN Processors(c, k) = 1..Len(Processors(c, k))
  <2>1. Orders[c][k] \in Order
    BY <1>1, ElementOfSeq
  <2>2. Processors(c, k) \in Seq(Modules)
    BY <2>1 DEF Processors, Order
  <2>3. QED
    BY <2>1, <2>2, LenProperties
<1>4. QED
  BY <1>1, <1>2, <1>3

(* What executes is an order of its chain, except for a finished chain.    *)
OrderNamed(f) ==
  f.order \in 1..Len(Orders[f.chain])
    \cup (IF f.kind = "chain" /\ f.at = "next" THEN {Len(Orders[f.chain]) + 1} ELSE {})

StacksTyped ==
  /\ stack \in [Threads -> Seq(Frame)]
  /\ \A t \in Threads :
       /\ Depth(t) <= MaxNesting
       /\ \A k \in DOMAIN stack[t] : OrderNamed(stack[t][k])

LEMMA StackFrames ==
  ASSUME StacksTyped, NEW t \in Threads
  PROVE  /\ stack[t] \in Seq(Frame) /\ Len(stack[t]) \in Nat
         /\ DOMAIN stack[t] = 1..Len(stack[t])
         /\ stack[t] # <<>> => Len(stack[t]) \in Nat \ {0}
         /\ \A k \in 1..Len(stack[t]) :
              /\ stack[t][k] \in Frame /\ OrderNamed(stack[t][k])
              /\ stack[t][k].chain \in Chains
              /\ stack[t][k].kind = "chain" => stack[t][k] \in ChainFrames
              /\ stack[t][k].kind # "chain" => stack[t][k] \in FunctionFrames
<1>1. stack[t] \in Seq(Frame)
  BY DEF StacksTyped
<1>2. Len(stack[t]) \in Nat /\ DOMAIN stack[t] = 1..Len(stack[t])
  BY <1>1, LenProperties
<1>3. stack[t] # <<>> => Len(stack[t]) \in Nat \ {0}
  BY <1>1, EmptySeq
<1>4. \A k \in 1..Len(stack[t]) : stack[t][k] \in Frame /\ OrderNamed(stack[t][k])
  BY <1>1, <1>2, ElementOfSeq DEF StacksTyped
<1>5. \A f \in Frame : /\ f.chain \in Chains
                       /\ f.kind = "chain" => f \in ChainFrames
                       /\ f.kind # "chain" => f \in FunctionFrames
  BY DEF Frame, ChainFrames, FunctionFrames
<1>6. QED
  BY <1>1, <1>2, <1>3, <1>4, <1>5

(* The activation on top and the ones below it.                            *)
LEMMA TopAndBelow ==
  ASSUME StacksTyped, NEW t \in Threads, stack[t] # <<>>
  PROVE  /\ Len(stack[t]) \in Nat \ {0}
         /\ Top(t) = stack[t][Len(stack[t])] /\ Top(t) \in Frame
         /\ OrderNamed(Top(t)) /\ Top(t).chain \in Chains
         /\ Top(t).kind = "chain" => Top(t) \in ChainFrames
         /\ Top(t).kind # "chain" => Top(t) \in FunctionFrames
         /\ Below(t) \in Seq(Frame) /\ Len(Below(t)) = Len(stack[t]) - 1
         /\ \A i \in 1..(Len(stack[t]) - 1) : Below(t)[i] = stack[t][i]
<1>1. PICK n \in Nat : n = Len(stack[t]) - 1
  BY StackFrames
<1>2. \A i \in 1..n : stack[t][i] \in Frame
  BY <1>1, StackFrames
<1>3. /\ SubSeq(stack[t], 1, n) \in Seq(Frame)
      /\ Len(SubSeq(stack[t], 1, n)) = IF 1 <= n THEN n - 1 + 1 ELSE 0
      /\ \A i \in 1..(n - 1 + 1) : SubSeq(stack[t], 1, n)[i] = stack[t][1 + i - 1]
  BY <1>2, SubSeqProperties
<1>4. /\ Len(SubSeq(stack[t], 1, n)) = n
      /\ \A i \in 1..n : SubSeq(stack[t], 1, n)[i] = stack[t][i]
  BY <1>3
<1>5. Below(t) = SubSeq(stack[t], 1, n)
  BY <1>1 DEF Below
<1>6. /\ Len(stack[t]) \in Nat \ {0} /\ Len(stack[t]) \in 1..Len(stack[t])
      /\ Top(t) = stack[t][Len(stack[t])]
  BY StackFrames DEF Top
<1>7. /\ Top(t) \in Frame /\ OrderNamed(Top(t)) /\ Top(t).chain \in Chains
      /\ Top(t).kind = "chain" => Top(t) \in ChainFrames
      /\ Top(t).kind # "chain" => Top(t) \in FunctionFrames
  BY <1>6, StackFrames
<1>8. QED
  BY <1>1, <1>3, <1>4, <1>5, <1>6, <1>7

(* The four ways in which a step changes its thread's stack.               *)
Begins(t, f) == stack[t] = <<>> /\ stack' = [stack EXCEPT ![t] = Append(@, f)]
Changes(t, f) == stack[t] # <<>> /\ stack' = [stack EXCEPT ![t] = Append(Below(t), f)]
Enters(t, f, g) == stack[t] # <<>> /\ stack' = [stack EXCEPT ![t] = Below(t) \o <<f, g>>]
Leaves(t) == stack[t] # <<>> /\ stack' = [stack EXCEPT ![t] = Below(t)]

LEMMA BeginsEffect ==
  ASSUME StacksTyped, NEW t \in Threads, NEW f \in Frame, Begins(t, f)
  PROVE  /\ stack' \in [Threads -> Seq(Frame)]
         /\ \A u \in Threads \ {t} : stack'[u] = stack[u]
         /\ Len(stack[t]) = 0 /\ Len(stack'[t]) = 1 /\ stack'[t] # <<>>
         /\ DOMAIN stack'[t] = 1..1 /\ stack'[t][1] = f
<1>1. stack' = [stack EXCEPT ![t] = Append(<<>>, f)] /\ <<>> \in Seq(Frame) /\ Len(<<>>) = 0
  BY EmptySeq DEF Begins
<1>2. /\ Append(<<>>, f) \in Seq(Frame) /\ Append(<<>>, f) # <<>>
      /\ Len(Append(<<>>, f)) = Len(<<>>) + 1
      /\ Append(<<>>, f)[Len(<<>>) + 1] = f
  BY <1>1, AppendProperties
<1>3. stack'[t] = Append(<<>>, f) /\ Len(stack[t]) = 0
  BY <1>1 DEF StacksTyped, Begins
<1>4. DOMAIN stack'[t] = 1..Len(stack'[t])
  BY <1>2, <1>3, LenProperties
<1>5. stack' \in [Threads -> Seq(Frame)] /\ \A u \in Threads \ {t} : stack'[u] = stack[u]
  BY <1>1, <1>2 DEF StacksTyped
<1>6. QED
  BY <1>1, <1>2, <1>3, <1>4, <1>5

LEMMA ChangesEffect ==
  ASSUME StacksTyped, NEW t \in Threads, NEW f \in Frame, Changes(t, f)
  PROVE  /\ stack' \in [Threads -> Seq(Frame)]
         /\ \A u \in Threads \ {t} : stack'[u] = stack[u]
         /\ Len(stack[t]) \in Nat \ {0} /\ Len(stack'[t]) = Len(stack[t])
         /\ stack'[t] # <<>> /\ DOMAIN stack'[t] = 1..Len(stack[t])
         /\ stack'[t][Len(stack[t])] = f
         /\ \A i \in 1..(Len(stack[t]) - 1) : stack'[t][i] = stack[t][i]
<1> DEFINE b == Below(t)
           s == Append(b, f)
<1>1. /\ Len(stack[t]) \in Nat \ {0} /\ b \in Seq(Frame) /\ Len(b) = Len(stack[t]) - 1
      /\ \A i \in 1..(Len(stack[t]) - 1) : b[i] = stack[t][i]
  BY TopAndBelow DEF Changes
<1>2. stack' = [stack EXCEPT ![t] = s]
  BY DEF Changes
<1> HIDE DEF b
<1>3. /\ s \in Seq(Frame) /\ s # <<>> /\ Len(s) = Len(b) + 1
      /\ \A i \in 1..Len(b) : s[i] = b[i]
      /\ s[Len(b) + 1] = f
  BY <1>1, AppendProperties
<1> HIDE DEF s
<1>4. stack'[t] = s /\ stack' \in [Threads -> Seq(Frame)]
  BY <1>2, <1>3 DEF StacksTyped
<1>5. \A u \in Threads \ {t} : stack'[u] = stack[u]
  BY <1>2 DEF StacksTyped
<1>6. DOMAIN s = 1..Len(s) /\ Len(s) = Len(stack[t])
  BY <1>1, <1>3, LenProperties
<1>7. QED
  BY <1>1, <1>3, <1>4, <1>5, <1>6

LEMMA EntersEffect ==
  ASSUME StacksTyped, NEW t \in Threads, NEW f \in Frame, NEW g \in Frame,
         Enters(t, f, g)
  PROVE  /\ stack' \in [Threads -> Seq(Frame)]
         /\ \A u \in Threads \ {t} : stack'[u] = stack[u]
         /\ Len(stack[t]) \in Nat \ {0} /\ Len(stack'[t]) = Len(stack[t]) + 1
         /\ stack'[t] # <<>> /\ DOMAIN stack'[t] = 1..(Len(stack[t]) + 1)
         /\ stack'[t][Len(stack[t])] = f /\ stack'[t][Len(stack[t]) + 1] = g
         /\ \A i \in 1..(Len(stack[t]) - 1) : stack'[t][i] = stack[t][i]
<1> DEFINE b == Below(t)
           s == b \o <<f, g>>
<1>1. /\ Len(stack[t]) \in Nat \ {0} /\ b \in Seq(Frame) /\ Len(b) = Len(stack[t]) - 1
      /\ \A i \in 1..(Len(stack[t]) - 1) : b[i] = stack[t][i]
  BY TopAndBelow DEF Enters
<1>2. stack' = [stack EXCEPT ![t] = s]
  BY DEF Enters
<1>3. <<f, g>> \in Seq(Frame) /\ Len(<<f, g>>) = 2
  OBVIOUS
<1> HIDE DEF b
<1>4. /\ s \in Seq(Frame) /\ Len(s) = Len(b) + Len(<<f, g>>)
      /\ \A i \in 1..(Len(b) + Len(<<f, g>>)) : s[i] =
           IF i <= Len(b) THEN b[i] ELSE <<f, g>>[i - Len(b)]
  BY <1>1, <1>3, ConcatProperties
<1>5. /\ Len(s) = Len(stack[t]) + 1
      /\ s[Len(stack[t])] = f /\ s[Len(stack[t]) + 1] = g
      /\ \A i \in 1..(Len(stack[t]) - 1) : s[i] = b[i]
  BY <1>1, <1>3, <1>4
<1> HIDE DEF s
<1>6. stack'[t] = s /\ stack' \in [Threads -> Seq(Frame)]
  BY <1>2, <1>4 DEF StacksTyped
<1>7. \A u \in Threads \ {t} : stack'[u] = stack[u]
  BY <1>2 DEF StacksTyped
<1>8. DOMAIN s = 1..Len(s) /\ s # <<>>
  BY <1>1, <1>4, <1>5, LenProperties, EmptySeq
<1>9. QED
  BY <1>1, <1>5, <1>6, <1>7, <1>8

LEMMA LeavesEffect ==
  ASSUME StacksTyped, NEW t \in Threads, Leaves(t)
  PROVE  /\ stack' \in [Threads -> Seq(Frame)]
         /\ \A u \in Threads \ {t} : stack'[u] = stack[u]
         /\ Len(stack[t]) \in Nat \ {0} /\ Len(stack'[t]) = Len(stack[t]) - 1
         /\ DOMAIN stack'[t] = 1..(Len(stack[t]) - 1)
         /\ stack'[t] = <<>> <=> Len(stack[t]) = 1
         /\ \A i \in 1..(Len(stack[t]) - 1) : stack'[t][i] = stack[t][i]
<1> DEFINE b == Below(t)
<1>1. /\ Len(stack[t]) \in Nat \ {0} /\ b \in Seq(Frame) /\ Len(b) = Len(stack[t]) - 1
      /\ \A i \in 1..(Len(stack[t]) - 1) : b[i] = stack[t][i]
  BY TopAndBelow DEF Leaves
<1>2. stack' = [stack EXCEPT ![t] = b]
  BY DEF Leaves
<1> HIDE DEF b
<1>3. stack'[t] = b /\ stack' \in [Threads -> Seq(Frame)]
  BY <1>1, <1>2 DEF StacksTyped
<1>4. \A u \in Threads \ {t} : stack'[u] = stack[u]
  BY <1>2 DEF StacksTyped
<1>5. /\ DOMAIN b = 1..Len(b) /\ (b # <<>> => Len(b) \in Nat \ {0})
      /\ Len(<<>>) = 0
  BY <1>1, LenProperties, EmptySeq
<1>6. b = <<>> <=> Len(stack[t]) = 1
  <2>1. CASE b = <<>>
    BY <1>1, <1>5, <2>1
  <2>2. CASE b # <<>>
    BY <1>1, <1>5, <2>2
  <2>3. QED
    BY <2>1, <2>2
<1>7. Len(b) = Len(stack[t]) - 1 /\ DOMAIN b = 1..(Len(stack[t]) - 1)
  BY <1>1, <1>5
<1>8. QED
  BY <1>1, <1>3, <1>4, <1>6, <1>7

-----------------------------------------------------------------------------
(* How deep chains are nested.                                             *)

ChainsIn(s) == {k \in DOMAIN s : s[k].kind = "chain"}

LEMMA ChainsFinite ==
  ASSUME NEW s \in Seq(Frame)
  PROVE  IsFiniteSet(ChainsIn(s)) /\ Cardinality(ChainsIn(s)) \in Nat
<1>1. Len(s) \in Nat /\ DOMAIN s = 1..Len(s)
  BY LenProperties
<1>2. IsFiniteSet(1..Len(s)) /\ ChainsIn(s) \in SUBSET (1..Len(s))
  BY <1>1, FS_Interval DEF ChainsIn
<1>3. IsFiniteSet(ChainsIn(s))
  BY <1>2, FS_Subset
<1>4. QED
  BY <1>3, FS_CardinalityType

(* A step adds at most one chain, and leaves the frames it does not touch. *)
LEMMA StacksKept ==
  ASSUME StacksTyped, NEW t \in Threads, stack' \in [Threads -> Seq(Frame)],
         \A u \in Threads \ {t} : stack'[u] = stack[u],
         \A k \in DOMAIN stack'[t] : OrderNamed(stack'[t][k]),
         \/ ChainsIn(stack'[t]) \subseteq ChainsIn(stack[t])
         \/ /\ Depth(t) < MaxNesting
            /\ \E x : ChainsIn(stack'[t]) = ChainsIn(stack[t]) \cup {x}
  PROVE  StacksTyped'
<1>1. Depth(t) = Cardinality(ChainsIn(stack[t])) /\ Depth(t)' = Cardinality(ChainsIn(stack'[t]))
  BY DEF Depth, ChainsIn
<1>2. /\ IsFiniteSet(ChainsIn(stack[t])) /\ Cardinality(ChainsIn(stack[t])) \in Nat
      /\ Cardinality(ChainsIn(stack'[t])) \in Nat
  BY ChainsFinite DEF StacksTyped
<1>3. Depth(t)' <= MaxNesting
  <2>1. CASE ChainsIn(stack'[t]) \subseteq ChainsIn(stack[t])
    <3>1. Cardinality(ChainsIn(stack'[t])) <= Cardinality(ChainsIn(stack[t]))
      BY <1>2, <2>1, FS_Subset
    <3>2. QED
      BY <1>1, <1>2, <3>1, ChainsAssumption DEF StacksTyped
  <2>2. CASE /\ Depth(t) < MaxNesting
             /\ \E x : ChainsIn(stack'[t]) = ChainsIn(stack[t]) \cup {x}
    <3>1. PICK x : ChainsIn(stack'[t]) = ChainsIn(stack[t]) \cup {x}
      BY <2>2
    <3>2. Cardinality(ChainsIn(stack[t]) \cup {x}) =
            IF x \in ChainsIn(stack[t]) THEN Cardinality(ChainsIn(stack[t]))
                                        ELSE Cardinality(ChainsIn(stack[t])) + 1
      BY <1>2, FS_AddElement
    <3>4. Cardinality(ChainsIn(stack'[t])) <= Cardinality(ChainsIn(stack[t])) + 1
      BY <1>2, <3>1, <3>2
    <3>3. QED
      BY <1>1, <1>2, <2>2, <3>4, ChainsAssumption
  <2>3. QED
    BY <2>1, <2>2
<1>4. ASSUME NEW u \in Threads \ {t}
      PROVE  Depth(u)' <= MaxNesting /\ \A k \in DOMAIN stack'[u] : OrderNamed(stack'[u][k])
  BY DEF StacksTyped, Depth
<1>5. QED
  BY <1>3, <1>4, ZenonT(30) DEF StacksTyped, OrderNamed

LEMMA TypedBegins ==
  ASSUME StacksTyped, NEW t \in Threads, NEW f \in Frame, Begins(t, f), OrderNamed(f)
  PROVE  StacksTyped'
<1>1. /\ stack' \in [Threads -> Seq(Frame)] /\ DOMAIN stack'[t] = 1..1
      /\ stack'[t][1] = f /\ \A u \in Threads \ {t} : stack'[u] = stack[u]
  BY BeginsEffect
<1>2. ChainsIn(stack[t]) = {} /\ Depth(t) = 0
  BY FS_EmptySet DEF Begins, ChainsIn, Depth
<1>3. \/ ChainsIn(stack'[t]) \subseteq ChainsIn(stack[t])
      \/ ChainsIn(stack'[t]) = ChainsIn(stack[t]) \cup {1}
  BY <1>1, <1>2 DEF ChainsIn
<1>4. Depth(t) < MaxNesting
  BY <1>2, ChainsAssumption
<1>5. \A k \in DOMAIN stack'[t] : OrderNamed(stack'[t][k])
  BY <1>1
<1>6. QED
  BY <1>1, <1>3, <1>4, <1>5, StacksKept

LEMMA TypedChanges ==
  ASSUME StacksTyped, NEW t \in Threads, NEW f \in Frame, Changes(t, f), OrderNamed(f),
         f.kind = Top(t).kind
  PROVE  StacksTyped'
<1>1. /\ stack' \in [Threads -> Seq(Frame)] /\ DOMAIN stack'[t] = 1..Len(stack[t])
      /\ stack'[t][Len(stack[t])] = f /\ Len(stack[t]) \in Nat \ {0}
      /\ \A i \in 1..(Len(stack[t]) - 1) : stack'[t][i] = stack[t][i]
      /\ \A u \in Threads \ {t} : stack'[u] = stack[u]
  BY ChangesEffect
<1>2. \A k \in 1..Len(stack[t]) : k = Len(stack[t]) \/ k \in 1..(Len(stack[t]) - 1)
  BY <1>1
<1>3. /\ DOMAIN stack[t] = 1..Len(stack[t])
      /\ \A k \in 1..Len(stack[t]) : OrderNamed(stack[t][k])
      /\ Top(t) = stack[t][Len(stack[t])]
  BY StackFrames DEF Top
<1>4. \A k \in DOMAIN stack'[t] : OrderNamed(stack'[t][k])
  BY <1>1, <1>2, <1>3
<1>5. ChainsIn(stack'[t]) \subseteq ChainsIn(stack[t])
  BY <1>1, <1>2, <1>3 DEF ChainsIn
<1>6. QED
  BY <1>1, <1>4, <1>5, StacksKept

LEMMA TypedEnters ==
  ASSUME StacksTyped, NEW t \in Threads, NEW f \in Frame, NEW g \in Frame,
         Enters(t, f, g), OrderNamed(f), OrderNamed(g), f.kind = Top(t).kind,
         g.kind # "chain" \/ Depth(t) < MaxNesting
  PROVE  StacksTyped'
<1> DEFINE n == Len(stack[t])
<1>1. /\ stack' \in [Threads -> Seq(Frame)] /\ DOMAIN stack'[t] = 1..(n + 1)
      /\ stack'[t][n] = f /\ stack'[t][n + 1] = g /\ n \in Nat \ {0}
      /\ \A i \in 1..(n - 1) : stack'[t][i] = stack[t][i]
      /\ \A u \in Threads \ {t} : stack'[u] = stack[u]
  BY EntersEffect
<1>3. /\ DOMAIN stack[t] = 1..n
      /\ \A k \in 1..n : OrderNamed(stack[t][k])
      /\ Top(t) = stack[t][n]
  BY StackFrames DEF Top
<1> HIDE DEF n
<1>2. \A k \in 1..(n + 1) : k = n + 1 \/ k = n \/ k \in 1..(n - 1)
  BY <1>1
<1>4. \A k \in DOMAIN stack'[t] : OrderNamed(stack'[t][k])
  <2> SUFFICES ASSUME NEW k \in DOMAIN stack'[t]
               PROVE  OrderNamed(stack'[t][k])
    OBVIOUS
  <2>1. CASE k = n + 1
    BY <1>1, <2>1
  <2>2. CASE k = n
    BY <1>1, <2>2
  <2>3. CASE k \in 1..(n - 1)
    BY <1>1, <1>3, <2>3
  <2>4. QED
    BY <1>1, <1>2, <2>1, <2>2, <2>3
<1>5. \A k \in ChainsIn(stack'[t]) :
        k \in ChainsIn(stack[t]) \/ (k = n + 1 /\ g.kind = "chain")
  <2> SUFFICES ASSUME NEW k \in 1..(n + 1), stack'[t][k].kind = "chain"
               PROVE  (k \in 1..n /\ stack[t][k].kind = "chain") \/ (k = n + 1 /\ g.kind = "chain")
    BY <1>1, <1>3 DEF ChainsIn
  <2>1. CASE k = n + 1
    BY <1>1, <2>1
  <2>2. CASE k = n
    BY <1>1, <1>3, <2>2
  <2>3. CASE k \in 1..(n - 1)
    BY <1>1, <2>3
  <2>4. QED
    BY <1>2, <2>1, <2>2, <2>3
<1>6. CASE g.kind # "chain"
  <2>1. ChainsIn(stack'[t]) \subseteq ChainsIn(stack[t])
    BY <1>5, <1>6
  <2>2. QED
    BY <1>1, <1>4, <2>1, StacksKept
<1>7. CASE g.kind = "chain"
  <2>1. ChainsIn(stack[t]) \cup {n + 1} \subseteq ChainsIn(stack'[t])
    <3>1. ASSUME NEW k \in 1..n, stack[t][k].kind = "chain"
          PROVE  k \in 1..(n + 1) /\ stack'[t][k].kind = "chain"
      <4>1. CASE k = n
        BY <1>1, <1>3, <3>1, <4>1
      <4>2. CASE k \in 1..(n - 1)
        BY <1>1, <3>1, <4>2
      <4>3. QED
        BY <1>1, <4>1, <4>2
    <3>2. n + 1 \in 1..(n + 1)
      BY <1>1
    <3>3. QED
      BY <1>1, <1>3, <1>7, <3>1, <3>2 DEF ChainsIn
  <2>2. ChainsIn(stack'[t]) = ChainsIn(stack[t]) \cup {n + 1}
    BY <1>5, <2>1
  <2>3. QED
    BY <1>1, <1>4, <1>7, <2>2, StacksKept
<1>8. QED
  BY <1>6, <1>7

LEMMA TypedLeaves ==
  ASSUME StacksTyped, NEW t \in Threads, Leaves(t)
  PROVE  StacksTyped'
<1>1. /\ stack' \in [Threads -> Seq(Frame)] /\ DOMAIN stack'[t] = 1..(Len(stack[t]) - 1)
      /\ Len(stack[t]) \in Nat \ {0}
      /\ \A i \in 1..(Len(stack[t]) - 1) : stack'[t][i] = stack[t][i]
      /\ \A u \in Threads \ {t} : stack'[u] = stack[u]
  BY LeavesEffect
<1>2. /\ DOMAIN stack[t] = 1..Len(stack[t])
      /\ \A k \in 1..Len(stack[t]) : OrderNamed(stack[t][k])
      /\ 1..(Len(stack[t]) - 1) \subseteq 1..Len(stack[t])
  BY <1>1, StackFrames
<1>3. ChainsIn(stack'[t]) \subseteq ChainsIn(stack[t])
  BY <1>1, <1>2 DEF ChainsIn
<1>4. \A k \in DOMAIN stack'[t] : OrderNamed(stack'[t][k])
  BY <1>1, <1>2
<1>5. QED
  BY <1>1, <1>3, <1>4, StacksKept

-----------------------------------------------------------------------------
(* What each step does to the stack.                                       *)

LEMMA TypesSplit ==
  TypeOK <=> /\ StacksTyped
             /\ current_eo \in [Chains -> Nat] /\ current_cmd_proc_id \in [Chains -> Nat]
             /\ DOMAIN dst_msg = Chains /\ DOMAIN ret_msg = Chains
             /\ \A c \in Chains :
                  /\ current_eo[c] \in 0..Len(Orders[c])
                  /\ current_eo[c] # 0 =>
                       current_cmd_proc_id[c] <= Len(Processors(c, current_eo[c]))
                  /\ dst_msg[c] \in [DOMAIN Orders[c] -> Nat]
                  /\ ret_msg[c] \in [DOMAIN Orders[c] -> BOOLEAN]
             /\ cur_chain \in [Threads -> Chains \cup {NoChain}]
             /\ live \in [Threads -> SUBSET (Nat \ {0})]
             /\ \A t \in Threads : IsFiniteSet(live[t])
             /\ interpreted \in
                  [Threads -> [order : {<<>>} \cup (Chains \X Nat), seen : SUBSET Nat]]
  BY DEF TypeOK, StacksTyped, OrderNamed, Frame

(* A number that is not in use can be had.                                 *)
LEMMA FreshInput ==
  ASSUME TypeOK, NEW t \in Threads
  PROVE  /\ Fresh(t) \in Nat \ {0} /\ Fresh(t) \notin live[t]
         /\ IsFiniteSet(live[t] \cup {Fresh(t)})
<1>1. IsFiniteSet(live[t]) /\ Cardinality(live[t]) \in Nat
  BY FS_CardinalityType DEF TypeOK
<1>2. PICK n \in Nat : n = Cardinality(live[t]) + 1
  BY <1>1
<1>3. IsFiniteSet(1..n) /\ Cardinality(1..n) = n
  BY <1>2, FS_Interval
<1>4. \E i \in 1..n : i \notin live[t]
  <2> SUFFICES ASSUME 1..n \subseteq live[t]
               PROVE  FALSE
    OBVIOUS
  <2>1. Cardinality(1..n) <= Cardinality(live[t])
    BY <1>1, FS_Subset
  <2>2. QED
    BY <1>1, <1>2, <1>3, <2>1
<1>5. Fresh(t) \in 1..n /\ Fresh(t) \notin live[t]
  BY <1>2, <1>4, Zenon DEF Fresh
<1>6. QED
  BY <1>1, <1>2, <1>5, FS_AddElement

LEMMA Updated ==
  ASSUME NEW f \in ChainFrames
  PROVE  /\ [f EXCEPT !.at = "call"] \in ChainFrames
         /\ [f EXCEPT !.at = "free"] \in ChainFrames
         /\ [f EXCEPT !.order = @ + 1] \in ChainFrames
         /\ [f EXCEPT !.order = @ + 1, !.at = "next"] \in ChainFrames
<1>1. [f EXCEPT !.at = "call"] \in ChainFrames /\ [f EXCEPT !.at = "free"] \in ChainFrames
  BY DEF ChainFrames
<1>2. PICK o \in Nat \ {0} : o = f.order + 1
  BY DEF ChainFrames
<1>3. [f EXCEPT !.order = o] \in ChainFrames
  BY DEF ChainFrames
<1>4. [f EXCEPT !.order = o, !.at = "next"] \in ChainFrames
  BY DEF ChainFrames
<1>5. [f EXCEPT !.order = @ + 1] = [f EXCEPT !.order = o]
  BY <1>2
<1>6. [f EXCEPT !.order = @ + 1, !.at = "next"] = [f EXCEPT !.order = o, !.at = "next"]
  BY <1>2
<1>7. QED
  BY <1>1, <1>3, <1>4, <1>5, <1>6

LEMMA IssuedTyped ==
  ASSUME NEW f \in FunctionFrames, f.left > 0
  PROVE  /\ Issued(f) \in FunctionFrames /\ Issued(f).kind = f.kind
         /\ Issued(f).module = f.module /\ Issued(f).chain = f.chain
         /\ Issued(f).order = f.order /\ Issued(f).input = f.input
         /\ Issued(f).seen = f.seen
<1> DEFINE l == IF f.kind = "order" THEN f.left - 1 ELSE 0
<1>1. l \in 0..MaxCommands
  BY ChainsAssumption DEF FunctionFrames
<1>2. Issued(f) = [f EXCEPT !.left = l]
  BY DEF Issued
<1> HIDE DEF l
<1>3. QED
  BY <1>1, <1>2 DEF FunctionFrames

LEMMA ChainPushed ==
  ASSUME NEW c \in Chains, NEW input \in BOOLEAN, NEW p \in Chains \cup {NoChain}
  PROVE  /\ ChainFrame(c, input, p) \in ChainFrames /\ OrderNamed(ChainFrame(c, input, p))
         /\ ChainFrame(c, input, p).kind = "chain" /\ ChainFrame(c, input, p).chain = c
         /\ ChainFrame(c, input, p).previous = p /\ ChainFrame(c, input, p).at = "next"
<1>1. 1 \in 1..Len(Orders[c])
  BY OrdersTyped
<1>2. QED
  BY <1>1 DEF ChainFrame, ChainFrames, OrderNamed

LEMMA FunctionPushed ==
  ASSUME NEW kind \in {"order", "processor"}, NEW m \in Modules, NEW c \in Chains,
         NEW k \in 1..Len(Orders[c]), NEW input \in Nat, NEW seen \in SUBSET Nat
  PROVE  /\ Function(kind, m, c, k, input, seen) \in FunctionFrames
         /\ OrderNamed(Function(kind, m, c, k, input, seen))
         /\ Function(kind, m, c, k, input, seen).kind = kind
         /\ Function(kind, m, c, k, input, seen).module = m
         /\ Function(kind, m, c, k, input, seen).chain = c
         /\ Function(kind, m, c, k, input, seen).order = k
         /\ Function(kind, m, c, k, input, seen).input = input
         /\ Function(kind, m, c, k, input, seen).seen = seen
<1>1. k \in Nat \ {0} /\ MaxCommands \in 0..MaxCommands
  BY OrdersTyped, ChainsAssumption
<1>2. QED
  BY <1>1 DEF Function, FunctionFrames, OrderNamed

LEMMA StartShape ==
  ASSUME TypeOK, NEW t \in Threads, StartChain(t)
  PROVE  \E c \in Starts[t] : \E f \in ChainFrames :
           /\ c \in Chains /\ Begins(t, f) /\ OrderNamed(f) /\ f.chain = c
           /\ f.previous = cur_chain[t] /\ f.at = "next"
           /\ cur_chain' = [cur_chain EXCEPT ![t] = c]
<1>1. PICK c \in Starts[t], input \in BOOLEAN : Execute(t, c, input)
  BY DEF StartChain
<1>2. c \in Chains /\ cur_chain[t] \in Chains \cup {NoChain}
  BY ChainsAssumption DEF TypeOK
<1>3. Begins(t, ChainFrame(c, input, cur_chain[t]))
  BY <1>1 DEF StartChain, Execute, Push, Begins
<1>4. QED
  BY <1>1, <1>2, <1>3, ChainPushed DEF Execute

(* The chain on top prepares, skips or frees, and stays on top.            *)
LEMMA ChainOnTop ==
  ASSUME StacksTyped, NEW t \in Threads, IsIn(t, {"chain"})
  PROVE  /\ stack[t] # <<>> /\ Top(t) \in ChainFrames /\ Top(t).kind = "chain"
         /\ Top(t).chain \in Chains /\ Top(t).order \in Nat \ {0}
         /\ (Top(t).at # "next" \/ ~Finished(Top(t))) =>
              Top(t).order \in 1..Len(Orders[Top(t).chain])
         /\ Top(t).at = "next" /\ Finished(Top(t)) =>
              Top(t).order = Len(Orders[Top(t).chain]) + 1
<1>1. /\ stack[t] # <<>> /\ Top(t).kind = "chain" /\ Top(t) \in ChainFrames
      /\ Top(t).chain \in Chains /\ OrderNamed(Top(t))
  BY TopAndBelow DEF IsIn
<1>2. Top(t).order \in Nat \ {0}
  BY <1>1 DEF ChainFrames
<1>3. Len(Orders[Top(t).chain]) \in Nat \ {0}
  BY <1>1, OrdersTyped
<1>4. QED
  BY <1>1, <1>2, <1>3 DEF OrderNamed, Finished

LEMMA PrepareShape ==
  ASSUME TypeOK, NEW t \in Threads, PrepareInput(t)
  PROVE  \E g \in ChainFrames :
           /\ Changes(t, g) /\ OrderNamed(g)
           /\ g = [Top(t) EXCEPT !.at = "call"]
<1>1. IsIn(t, {"chain"}) /\ ~Finished(Top(t)) /\ Changes(t, [Top(t) EXCEPT !.at = "call"])
  BY DEF PrepareInput, IsIn, Changes, Replace
<1>2. /\ Top(t) \in ChainFrames
      /\ Top(t).order \in 1..Len(Orders[Top(t).chain])
  BY <1>1, TypesSplit, ChainOnTop
<1>3. OrderNamed([Top(t) EXCEPT !.at = "call"])
  BY <1>2 DEF OrderNamed, ChainFrames
<1>4. QED
  BY <1>1, <1>2, <1>3, Updated

LEMMA SkipShape ==
  ASSUME TypeOK, NEW t \in Threads, SkipOrder(t)
  PROVE  \E g \in ChainFrames :
           /\ Changes(t, g) /\ OrderNamed(g)
           /\ g = [Top(t) EXCEPT !.order = @ + 1]
<1>1. /\ IsIn(t, {"chain"}) /\ Top(t).at = "next" /\ ~Finished(Top(t))
      /\ Changes(t, [Top(t) EXCEPT !.order = @ + 1])
  BY DEF SkipOrder, IsIn, Changes, Replace
<1>2. /\ Top(t) \in ChainFrames /\ Top(t).kind = "chain" /\ Top(t).chain \in Chains
      /\ Top(t).order \in 1..Len(Orders[Top(t).chain])
  BY <1>1, TypesSplit, ChainOnTop
<1>3. Top(t).order + 1 \in 1..Len(Orders[Top(t).chain]) \cup {Len(Orders[Top(t).chain]) + 1}
  BY <1>2, OrdersTyped
<1>4. OrderNamed([Top(t) EXCEPT !.order = @ + 1])
  BY <1>1, <1>2, <1>3 DEF OrderNamed, ChainFrames
<1>5. QED
  BY <1>1, <1>2, <1>4, Updated

LEMMA FreeShape ==
  ASSUME TypeOK, NEW t \in Threads, FreeInput(t)
  PROVE  \E g \in ChainFrames :
           /\ Changes(t, g) /\ OrderNamed(g)
           /\ g = [Top(t) EXCEPT !.order = @ + 1, !.at = "next"]
<1>1. /\ IsIn(t, {"chain"}) /\ Top(t).at = "free"
      /\ Changes(t, [Top(t) EXCEPT !.order = @ + 1, !.at = "next"])
  BY DEF FreeInput, IsIn, Changes, Replace
<1>2. /\ Top(t) \in ChainFrames /\ Top(t).kind = "chain" /\ Top(t).chain \in Chains
      /\ Top(t).order \in 1..Len(Orders[Top(t).chain])
  BY <1>1, TypesSplit, ChainOnTop
<1>3. Top(t).order + 1 \in 1..Len(Orders[Top(t).chain]) \cup {Len(Orders[Top(t).chain]) + 1}
  BY <1>2, OrdersTyped
<1>4. OrderNamed([Top(t) EXCEPT !.order = @ + 1, !.at = "next"])
  BY <1>1, <1>2, <1>3 DEF OrderNamed, ChainFrames
<1>5. QED
  BY <1>1, <1>2, <1>4, Updated

LEMMA CallShape ==
  ASSUME TypeOK, NEW t \in Threads, CallOrder(t)
  PROVE  \E g \in ChainFrames, h \in FunctionFrames :
           /\ Enters(t, g, h) /\ OrderNamed(g) /\ OrderNamed(h)
           /\ g = [Top(t) EXCEPT !.at = "free"]
           /\ h.kind = "order" /\ h.chain = Top(t).chain /\ h.order = Top(t).order
           /\ h.module = Orders[Top(t).chain][Top(t).order].module
           /\ h.input = dst_msg[Top(t).chain][Top(t).order] /\ h.seen = {}
<1> DEFINE f == Top(t)
           h == Function("order", Orders[f.chain][f.order].module, f.chain,
                         f.order, dst_msg[f.chain][f.order], {})
<1>1. /\ IsIn(t, {"chain"}) /\ f.at = "call"
      /\ Enters(t, [f EXCEPT !.at = "free"], h)
  BY DEF CallOrder, IsIn, Enters
<1>2. /\ f \in ChainFrames /\ f.kind = "chain" /\ f.chain \in Chains
      /\ f.order \in 1..Len(Orders[f.chain])
  BY <1>1, TypesSplit, ChainOnTop
<1>3. OrderNamed([f EXCEPT !.at = "free"]) /\ [f EXCEPT !.at = "free"] \in ChainFrames
  BY <1>2, Updated DEF OrderNamed, ChainFrames
<1>4. /\ Orders[f.chain][f.order].module \in Modules
      /\ dst_msg[f.chain][f.order] \in Nat
  BY <1>2, OrdersTyped DEF Order, TypeOK
<1>5. {} \in SUBSET Nat
  OBVIOUS
<1> HIDE DEF f
<1>6. /\ h \in FunctionFrames /\ OrderNamed(h) /\ h.kind = "order" /\ h.chain = f.chain
      /\ h.order = f.order /\ h.module = Orders[f.chain][f.order].module
      /\ h.input = dst_msg[f.chain][f.order] /\ h.seen = {}
  BY <1>2, <1>4, <1>5, FunctionPushed
<1> HIDE DEF h
<1>7. QED
  BY <1>1, <1>3, <1>6 DEF f

(* A function that issues a command.                                       *)
LEMMA IssuesShape ==
  ASSUME StacksTyped, NEW t \in Threads, Issues(t)
  PROVE  /\ stack[t] # <<>> /\ Top(t) \in FunctionFrames /\ Top(t).kind # "chain"
         /\ Issued(Top(t)) \in FunctionFrames /\ OrderNamed(Issued(Top(t)))
         /\ Issued(Top(t)).kind = Top(t).kind /\ Issued(Top(t)).module = Top(t).module
         /\ Issued(Top(t)).chain = Top(t).chain /\ Issued(Top(t)).order = Top(t).order
         /\ Issued(Top(t)).input = Top(t).input /\ Issued(Top(t)).seen = Top(t).seen
<1>1. stack[t] # <<>> /\ Top(t).kind \in {"order", "processor"} /\ Top(t).left > 0
  BY DEF Issues, IsIn
<1>2. Top(t) \in FunctionFrames /\ OrderNamed(Top(t)) /\ Top(t).kind # "chain"
  BY <1>1, TopAndBelow
<1>3. /\ Issued(Top(t)) \in FunctionFrames /\ Issued(Top(t)).kind = Top(t).kind
      /\ Issued(Top(t)).module = Top(t).module /\ Issued(Top(t)).chain = Top(t).chain
      /\ Issued(Top(t)).order = Top(t).order /\ Issued(Top(t)).input = Top(t).input
      /\ Issued(Top(t)).seen = Top(t).seen
  BY <1>1, <1>2, IssuedTyped
<1>4. OrderNamed(Issued(Top(t)))
  BY <1>2, <1>3 DEF OrderNamed
<1>5. QED
  BY <1>1, <1>2, <1>3, <1>4

LEMMA ProcessorShape ==
  ASSUME TypeOK, NEW t \in Threads, CallProcessor(t)
  PROVE  /\ cur_chain[t] \in Chains /\ Issues(t)
         /\ current_eo[cur_chain[t]] \in 1..Len(Orders[cur_chain[t]])
         /\ current_cmd_proc_id[cur_chain[t]] + 1 \in
              1..Len(Processors(cur_chain[t], current_eo[cur_chain[t]]))
         /\ \E h \in FunctionFrames :
              /\ Enters(t, Issued(Top(t)), h) /\ OrderNamed(h)
              /\ h.kind = "processor" /\ h.chain = cur_chain[t]
              /\ h.order = current_eo[cur_chain[t]]
              /\ h.module = Processors(cur_chain[t], current_eo[cur_chain[t]])
                                [current_cmd_proc_id[cur_chain[t]] + 1]
              /\ h.input = Fresh(t)
              /\ h.seen = Top(t).seen \cup {current_cmd_proc_id[cur_chain[t]] + 1}
<1> DEFINE c == cur_chain[t]
           k == current_eo[c]
           id == current_cmd_proc_id[c] + 1
           h == Function("processor", Processors(c, k)[id], c, k, Fresh(t),
                         Top(t).seen \cup {id})
<1>1. /\ Issues(t) /\ c # NoChain /\ k # 0
      /\ current_cmd_proc_id[c] < Len(Processors(c, k))
      /\ stack' = [stack EXCEPT ![t] = Below(t) \o <<Issued(Top(t)), h>>]
  BY DEF CallProcessor, ToProcessor
<1>2. c \in Chains
  BY <1>1 DEF TypeOK
<1>3. k \in 1..Len(Orders[c]) /\ current_cmd_proc_id[c] \in Nat
  BY <1>1, <1>2, OrdersTyped DEF TypeOK
<1>4. Processors(c, k) \in Seq(Modules) /\ Len(Processors(c, k)) \in Nat
  BY <1>2, <1>3, OrdersTyped
<1>5. id \in 1..Len(Processors(c, k)) /\ id \in Nat
  BY <1>1, <1>3, <1>4
<1>6. Processors(c, k)[id] \in Modules
  BY <1>4, <1>5, ElementOfSeq
<1>7. Top(t).seen \cup {id} \in SUBSET Nat
  BY <1>1, <1>5, TypesSplit, IssuesShape DEF FunctionFrames
<1>8. Fresh(t) \in Nat
  BY FreshInput
<1>9. Enters(t, Issued(Top(t)), h)
  BY <1>1 DEF Enters, Issues, IsIn
<1> DEFINE seen == Top(t).seen \cup {id}
<1> HIDE DEF c, k, id, seen
<1>10. /\ h \in FunctionFrames /\ OrderNamed(h) /\ h.kind = "processor" /\ h.chain = c
       /\ h.order = k /\ h.module = Processors(c, k)[id]
       /\ h.input = Fresh(t) /\ h.seen = seen
  <2>1. seen \in SUBSET Nat /\ "processor" \in {"order", "processor"}
    BY <1>7 DEF seen
  <2>2. h = Function("processor", Processors(c, k)[id], c, k, Fresh(t), seen)
    BY DEF seen
  <2> HIDE DEF h
  <2>3. QED
    BY <1>2, <1>3, <1>6, <1>8, <2>1, <2>2, FunctionPushed
<1> HIDE DEF h
<1>11. QED
  BY <1>1, <1>2, <1>3, <1>5, <1>9, <1>10 DEF c, k, id, seen

LEMMA RunShape ==
  ASSUME TypeOK, NEW t \in Threads, RunChain(t)
  PROVE  /\ Issues(t) /\ Depth(t) < MaxNesting
         /\ \E c \in Chains : \E g \in ChainFrames :
              /\ <<Top(t).module, c>> \in Nested
              /\ Enters(t, Issued(Top(t)), g) /\ OrderNamed(g) /\ g.chain = c
              /\ g.previous = cur_chain[t] /\ g.at = "next"
              /\ cur_chain' = [cur_chain EXCEPT ![t] = c]
<1>1. PICK c \in Chains, input \in BOOLEAN :
        /\ <<Top(t).module, c>> \in Nested
        /\ cur_chain' = [cur_chain EXCEPT ![t] = c]
        /\ stack' = [stack EXCEPT ![t] = Below(t) \o
             <<Issued(Top(t)), ChainFrame(c, input, cur_chain[t])>>]
  BY DEF RunChain
<1>2. Issues(t) /\ Depth(t) < MaxNesting /\ stack[t] # <<>>
  BY DEF RunChain, Issues, IsIn
<1>3. Enters(t, Issued(Top(t)), ChainFrame(c, input, cur_chain[t]))
  BY <1>1, <1>2 DEF Enters
<1>4. cur_chain[t] \in Chains \cup {NoChain}
  BY DEF TypeOK
<1>5. QED
  BY <1>1, <1>2, <1>3, <1>4, ChainPushed

LEMMA ReturnShape ==
  ASSUME TypeOK, NEW t \in Threads,
         OrderReturns(t) \/ ProcessorReturns(t) \/ FinishChain(t)
  PROVE  Leaves(t)
  BY DEF OrderReturns, ProcessorReturns, FinishChain, IsIn, Pop, Leaves

LEMMA IssueShape ==
  ASSUME TypeOK, NEW t \in Threads, ProcessorUnreachable(t) \/ InterpretCommand(t)
  PROVE  Issues(t) /\ Changes(t, Issued(Top(t)))
  BY DEF ProcessorUnreachable, InterpretCommand, Issues, IsIn, Replace, Changes

-----------------------------------------------------------------------------
(* Type correctness.                                                       *)

LEMMA StacksStep ==
  ASSUME TypeOK, [Next]_vars
  PROVE  StacksTyped'
<1> USE TypesSplit
<1>1. ASSUME NEW t \in Threads, StartChain(t)
      PROVE  StacksTyped'
  <2>1. PICK f \in ChainFrames : Begins(t, f) /\ OrderNamed(f)
    BY <1>1, StartShape
  <2>2. f \in Frame
    BY DEF Frame
  <2>3. QED
    BY <2>1, <2>2, TypedBegins
<1>2. ASSUME NEW t \in Threads, PrepareInput(t) \/ SkipOrder(t) \/ FreeInput(t)
      PROVE  StacksTyped'
  <2>1. PICK g \in ChainFrames : Changes(t, g) /\ OrderNamed(g)
    BY <1>2, PrepareShape, SkipShape, FreeShape
  <2>2. g \in Frame /\ g.kind = "chain"
    BY DEF Frame, ChainFrames
  <2>3. Top(t).kind = "chain"
    BY <1>2 DEF PrepareInput, SkipOrder, FreeInput, IsIn
  <2>4. QED
    BY <2>1, <2>2, <2>3, TypedChanges
<1>3. ASSUME NEW t \in Threads, CallOrder(t)
      PROVE  StacksTyped'
  <2>1. PICK g \in ChainFrames, h \in FunctionFrames :
          Enters(t, g, h) /\ OrderNamed(g) /\ OrderNamed(h) /\ h.kind = "order"
    BY <1>3, CallShape
  <2>2. g \in Frame /\ g.kind = "chain" /\ h \in Frame
    BY DEF Frame, ChainFrames
  <2>3. Top(t).kind = "chain"
    BY <1>3 DEF CallOrder, IsIn
  <2>4. QED
    BY <2>1, <2>2, <2>3, TypedEnters
<1>4. ASSUME NEW t \in Threads, OrderReturns(t) \/ ProcessorReturns(t) \/ FinishChain(t)
      PROVE  StacksTyped'
  BY <1>4, ReturnShape, TypedLeaves
<1>5. ASSUME NEW t \in Threads, ProcessorUnreachable(t) \/ InterpretCommand(t)
      PROVE  StacksTyped'
  <2>1. Issued(Top(t)) \in Frame
    BY <1>5, IssueShape, IssuesShape DEF Frame
  <2>2. QED
    BY <1>5, <2>1, IssueShape, IssuesShape, TypedChanges
<1>6. ASSUME NEW t \in Threads, CallProcessor(t)
      PROVE  StacksTyped'
  <2>1. PICK h \in FunctionFrames :
          Enters(t, Issued(Top(t)), h) /\ OrderNamed(h) /\ h.kind = "processor"
    BY <1>6, ProcessorShape
  <2>2. Issued(Top(t)) \in Frame /\ h \in Frame
    BY <1>6, ProcessorShape, IssuesShape DEF Frame
  <2>3. QED
    BY <1>6, <2>1, <2>2, ProcessorShape, IssuesShape, TypedEnters
<1>7. ASSUME NEW t \in Threads, RunChain(t)
      PROVE  StacksTyped'
  <2>1. PICK g \in ChainFrames : Enters(t, Issued(Top(t)), g) /\ OrderNamed(g)
    BY <1>7, RunShape
  <2>2. Issued(Top(t)) \in Frame /\ g \in Frame
    BY <1>7, RunShape, IssuesShape DEF Frame
  <2>3. QED
    BY <1>7, <2>1, <2>2, RunShape, IssuesShape, TypedEnters
<1>8. CASE UNCHANGED vars
  BY <1>8 DEF vars, StacksTyped, Depth, OrderNamed
<1>9. QED
  BY <1>1, <1>2, <1>3, <1>4, <1>5, <1>6, <1>7, <1>8 DEF Next

(* The order that is executed and the processors in use.                   *)
ProgressTyped ==
  /\ current_eo \in [Chains -> Nat] /\ current_cmd_proc_id \in [Chains -> Nat]
  /\ \A c \in Chains :
       /\ current_eo[c] \in 0..Len(Orders[c])
       /\ current_eo[c] # 0 =>
            current_cmd_proc_id[c] <= Len(Processors(c, current_eo[c]))

LEMMA ProgressStep ==
  ASSUME TypeOK, [Next]_vars
  PROVE  ProgressTyped'
<1>0. ProgressTyped
  BY TypesSplit DEF ProgressTyped
<1>1. ASSUME NEW t \in Threads, CallOrder(t)
      PROVE  ProgressTyped'
  <2> DEFINE c == Top(t).chain
             k == Top(t).order
  <2>1. c \in Chains /\ k \in 1..Len(Orders[c])
    BY <1>1, TypesSplit, ChainOnTop DEF CallOrder
  <2>2. k \in 0..Len(Orders[c]) /\ Len(Processors(c, k)) \in Nat
    BY <2>1, OrdersTyped
  <2>3. /\ current_eo' = [current_eo EXCEPT ![c] = k]
        /\ current_cmd_proc_id' = [current_cmd_proc_id EXCEPT ![c] = 0]
    BY <1>1 DEF CallOrder
  <2> HIDE DEF c, k
  <2>4. QED
    BY <1>0, <2>1, <2>2, <2>3 DEF ProgressTyped, Processors
<1>2. ASSUME NEW t \in Threads, FreeInput(t)
      PROVE  ProgressTyped'
  <2> DEFINE c == Top(t).chain
  <2>1. c \in Chains /\ 0 \in 0..Len(Orders[c])
    BY <1>2, TypesSplit, ChainOnTop, OrdersTyped DEF FreeInput
  <2>2. current_eo' = [current_eo EXCEPT ![c] = 0] /\ UNCHANGED current_cmd_proc_id
    BY <1>2 DEF FreeInput
  <2> HIDE DEF c
  <2>3. QED
    BY <1>0, <2>1, <2>2 DEF ProgressTyped, Processors
<1>3. ASSUME NEW t \in Threads, CallProcessor(t)
      PROVE  ProgressTyped'
  <2> DEFINE c == cur_chain[t]
             id == current_cmd_proc_id[c] + 1
  <2>1. c \in Chains /\ id \in 1..Len(Processors(c, current_eo[c]))
    BY <1>3, ProcessorShape
  <2>2. current_cmd_proc_id' = [current_cmd_proc_id EXCEPT ![c] = id] /\ UNCHANGED current_eo
    BY <1>3 DEF CallProcessor
  <2> HIDE DEF c, id
  <2>3. QED
    BY <1>0, <2>1, <2>2 DEF ProgressTyped, Processors
<1>4. ASSUME NEW t \in Threads, ProcessorReturns(t)
      PROVE  ProgressTyped'
  <2> DEFINE c == Top(t).chain
             id == InUseAfter(current_cmd_proc_id[c], Len(Processors(c, Top(t).order)))
  <2>1. c \in Chains
    BY <1>4, TypesSplit, TopAndBelow DEF ProcessorReturns, IsIn
  <2>2. current_cmd_proc_id' = [current_cmd_proc_id EXCEPT ![c] = id] /\ UNCHANGED current_eo
    BY <1>4 DEF ProcessorReturns
  <2>3. id = 0 \/ id = current_cmd_proc_id[c]
    BY DEF InUseAfter
  <2>4. \A k \in 1..Len(Orders[c]) : Len(Processors(c, k)) \in Nat
    BY <2>1, OrdersTyped
  <2> HIDE DEF c, id
  <2>5. QED
    BY <1>0, <2>1, <2>2, <2>3, <2>4 DEF ProgressTyped, Processors
<1>5. ASSUME UNCHANGED <<current_eo, current_cmd_proc_id>>
      PROVE  ProgressTyped'
  BY <1>0, <1>5 DEF ProgressTyped, Processors
<1>6. QED
  BY <1>1, <1>2, <1>3, <1>4, <1>5
  DEF Next, vars, chainVars, StartChain, Execute, PrepareInput, SkipOrder, OrderReturns,
      FinishChain, ProcessorUnreachable, InterpretCommand, RunChain

(* The orders' messages.                                                   *)
MessagesTyped ==
  /\ DOMAIN dst_msg = Chains /\ DOMAIN ret_msg = Chains
  /\ \A c \in Chains : /\ dst_msg[c] \in [DOMAIN Orders[c] -> Nat]
                       /\ ret_msg[c] \in [DOMAIN Orders[c] -> BOOLEAN]

LEMMA MessagesStep ==
  ASSUME TypeOK, [Next]_vars
  PROVE  MessagesTyped'
<1>0. MessagesTyped
  BY TypesSplit DEF MessagesTyped
<1>1. ASSUME NEW c \in Chains, NEW k, NEW n \in Nat,
             dst_msg' = [dst_msg EXCEPT ![c][k] = n]
      PROVE  DOMAIN dst_msg' = Chains /\ \A d \in Chains : dst_msg'[d] \in [DOMAIN Orders[d] -> Nat]
  BY <1>0, <1>1 DEF MessagesTyped
<1>2. ASSUME NEW c \in Chains, NEW k, NEW b \in BOOLEAN,
             ret_msg' = [ret_msg EXCEPT ![c][k] = b]
      PROVE  DOMAIN ret_msg' = Chains /\ \A d \in Chains : ret_msg'[d] \in [DOMAIN Orders[d] -> BOOLEAN]
  BY <1>0, <1>2 DEF MessagesTyped
<1>3. ASSUME UNCHANGED dst_msg
      PROVE  DOMAIN dst_msg' = Chains /\ \A d \in Chains : dst_msg'[d] \in [DOMAIN Orders[d] -> Nat]
  BY <1>0, <1>3 DEF MessagesTyped
<1>4. ASSUME UNCHANGED ret_msg
      PROVE  DOMAIN ret_msg' = Chains /\ \A d \in Chains : ret_msg'[d] \in [DOMAIN Orders[d] -> BOOLEAN]
  BY <1>0, <1>4 DEF MessagesTyped
<1>5. ASSUME NEW t \in Threads, PrepareInput(t) \/ FreeInput(t)
      PROVE  MessagesTyped'
  <2>1. Top(t).chain \in Chains /\ Fresh(t) \in Nat /\ 0 \in Nat
    BY <1>5, TypesSplit, ChainOnTop, FreshInput DEF PrepareInput, FreeInput
  <2>2. /\ UNCHANGED ret_msg
        /\ \/ dst_msg' = [dst_msg EXCEPT ![Top(t).chain][Top(t).order] = Fresh(t)]
           \/ dst_msg' = [dst_msg EXCEPT ![Top(t).chain][Top(t).order] = 0]
    BY <1>5 DEF PrepareInput, FreeInput
  <2>3. QED
    BY <1>1, <1>4, <2>1, <2>2 DEF MessagesTyped
<1>6. ASSUME NEW t \in Threads, SkipOrder(t)
      PROVE  MessagesTyped'
  <2>1. Top(t).chain \in Chains /\ 0 \in Nat /\ FALSE \in BOOLEAN
    BY <1>6, TypesSplit, ChainOnTop DEF SkipOrder
  <2>2. /\ dst_msg' = [dst_msg EXCEPT ![Top(t).chain][Top(t).order] = 0]
        /\ ret_msg' = [ret_msg EXCEPT ![Top(t).chain][Top(t).order] = FALSE]
    BY <1>6 DEF SkipOrder
  <2>3. QED
    BY <1>1, <1>2, <2>1, <2>2 DEF MessagesTyped
<1>7. ASSUME NEW t \in Threads, OrderReturns(t)
      PROVE  MessagesTyped'
  <2>1. Top(t).chain \in Chains
    BY <1>7, TypesSplit, TopAndBelow DEF OrderReturns, IsIn
  <2>2. PICK message \in BOOLEAN :
          /\ UNCHANGED dst_msg
          /\ ret_msg' = [ret_msg EXCEPT ![Top(t).chain][Top(t).order] = message]
    BY <1>7 DEF OrderReturns
  <2>3. QED
    BY <1>2, <1>3, <2>1, <2>2 DEF MessagesTyped
<1>8. ASSUME UNCHANGED <<dst_msg, ret_msg>>
      PROVE  MessagesTyped'
  BY <1>3, <1>4, <1>8 DEF MessagesTyped
<1>9. QED
  BY <1>5, <1>6, <1>7, <1>8
  DEF Next, vars, chainVars, StartChain, CallOrder, CallProcessor, ProcessorReturns,
      FinishChain, ProcessorUnreachable, InterpretCommand, RunChain

(* The threads' chains, input copies and interpreted commands.             *)
ThreadsTyped ==
  /\ cur_chain \in [Threads -> Chains \cup {NoChain}]
  /\ live \in [Threads -> SUBSET (Nat \ {0})]
  /\ \A t \in Threads : IsFiniteSet(live[t])
  /\ interpreted \in [Threads -> [order : {<<>>} \cup (Chains \X Nat), seen : SUBSET Nat]]

LEMMA CurChainStep ==
  ASSUME TypeOK, [Next]_vars
  PROVE  cur_chain' \in [Threads -> Chains \cup {NoChain}]
<1>0. cur_chain \in [Threads -> Chains \cup {NoChain}]
  BY DEF TypeOK
<1>1. ASSUME NEW t \in Threads, StartChain(t) \/ RunChain(t)
      PROVE  \E c \in Chains : cur_chain' = [cur_chain EXCEPT ![t] = c]
  BY <1>1, StartShape, RunShape
<1>2. ASSUME NEW t \in Threads, FinishChain(t)
      PROVE  \E c \in Chains \cup {NoChain} : cur_chain' = [cur_chain EXCEPT ![t] = c]
  <2>1. cur_chain' = [cur_chain EXCEPT ![t] = Top(t).previous]
    BY <1>2 DEF FinishChain, ChainAfter
  <2>2. Top(t) \in ChainFrames
    BY <1>2, TypesSplit, ChainOnTop DEF FinishChain
  <2>3. QED
    BY <2>1, <2>2 DEF ChainFrames
<1>3. ASSUME NEW t \in Threads, NEW c \in Chains \cup {NoChain},
             cur_chain' = [cur_chain EXCEPT ![t] = c]
      PROVE  cur_chain' \in [Threads -> Chains \cup {NoChain}]
  BY <1>0, <1>3
<1>4. ASSUME NEW t \in Threads, StartChain(t) \/ RunChain(t) \/ FinishChain(t)
      PROVE  cur_chain' \in [Threads -> Chains \cup {NoChain}]
  BY <1>1, <1>2, <1>3, <1>4
<1>5. QED
  BY <1>0, <1>4
  DEF Next, vars, PrepareInput, SkipOrder, CallOrder, OrderReturns, FreeInput,
      CallProcessor, ProcessorReturns, ProcessorUnreachable, InterpretCommand

LEMMA LiveStep ==
  ASSUME TypeOK, [Next]_vars
  PROVE  live' \in [Threads -> SUBSET (Nat \ {0})] /\ \A t \in Threads : IsFiniteSet(live'[t])
<1>0. live \in [Threads -> SUBSET (Nat \ {0})] /\ \A t \in Threads : IsFiniteSet(live[t])
  BY DEF TypeOK
<1>1. ASSUME NEW t \in Threads, Allocated(t)
      PROVE  live' \in [Threads -> SUBSET (Nat \ {0})] /\ \A u \in Threads : IsFiniteSet(live'[u])
  <2>1. live[t] \cup {Fresh(t)} \in SUBSET (Nat \ {0}) /\ IsFiniteSet(live[t] \cup {Fresh(t)})
    BY <1>0, FreshInput
  <2>2. QED
    BY <1>0, <1>1, <2>1 DEF Allocated
<1>2. ASSUME NEW t \in Threads, NEW n, Freed(t, n)
      PROVE  live' \in [Threads -> SUBSET (Nat \ {0})] /\ \A u \in Threads : IsFiniteSet(live'[u])
  <2>1. live[t] \ {n} \in SUBSET (Nat \ {0}) /\ IsFiniteSet(live[t] \ {n})
    BY <1>0, FS_Subset
  <2>2. QED
    BY <1>0, <1>2, <2>1 DEF Freed
<1>3. ASSUME UNCHANGED live
      PROVE  live' \in [Threads -> SUBSET (Nat \ {0})] /\ \A u \in Threads : IsFiniteSet(live'[u])
  BY <1>0, <1>3
<1>4. ASSUME NEW t \in Threads, PrepareInput(t) \/ FreeInput(t) \/ CallProcessor(t) \/ ProcessorReturns(t)
      PROVE  UNCHANGED live \/ Allocated(t) \/ \E n : Freed(t, n)
  BY <1>4 DEF PrepareInput, FreeInput, CallProcessor, ProcessorReturns
<1>5. QED
  BY <1>1, <1>2, <1>3, <1>4
  DEF Next, vars, StartChain, SkipOrder, CallOrder, OrderReturns, FinishChain,
      ProcessorUnreachable, InterpretCommand, RunChain

LEMMA InterpretedStep ==
  ASSUME TypeOK, [Next]_vars
  PROVE  interpreted' \in [Threads -> [order : {<<>>} \cup (Chains \X Nat), seen : SUBSET Nat]]
<1>0. interpreted \in [Threads -> [order : {<<>>} \cup (Chains \X Nat), seen : SUBSET Nat]]
  BY DEF TypeOK
<1>1. ASSUME NEW t \in Threads, InterpretCommand(t) \/ RunChain(t)
      PROVE  interpreted' \in [Threads -> [order : {<<>>} \cup (Chains \X Nat), seen : SUBSET Nat]]
  <2>1. Issues(t) /\ Interpreted(t)
    BY <1>1 DEF InterpretCommand, RunChain
  <2>2. Top(t) \in FunctionFrames
    BY <2>1, TypesSplit, IssuesShape
  <2>3. [order |-> <<Top(t).chain, Top(t).order>>, seen |-> Top(t).seen]
          \in [order : {<<>>} \cup (Chains \X Nat), seen : SUBSET Nat]
    BY <2>2 DEF FunctionFrames
  <2>4. QED
    BY <1>0, <2>1, <2>3 DEF Interpreted
<1>2. QED
  BY <1>0, <1>1
  DEF Next, vars, StartChain, PrepareInput, SkipOrder, CallOrder, OrderReturns, FreeInput,
      FinishChain, CallProcessor, ProcessorReturns, ProcessorUnreachable

LEMMA TypesStep ==
  ASSUME TypeOK, [Next]_vars
  PROVE  TypeOK'
<1>1. /\ StacksTyped' /\ ProgressTyped' /\ MessagesTyped'
  BY StacksStep, ProgressStep, MessagesStep
<1>2. ThreadsTyped'
  BY CurChainStep, LiveStep, InterpretedStep DEF ThreadsTyped
<1>3. QED
  BY <1>1, <1>2
  DEF TypeOK, StacksTyped, OrderNamed, Frame, ProgressTyped, MessagesTyped, ThreadsTyped

LEMMA TypesInit ==
  ASSUME Init
  PROVE  TypeOK
<1>1. \A t \in Threads : stack[t] = <<>> /\ live[t] = {} /\ DOMAIN stack[t] = {}
  BY DEF Init
<1>2. <<>> \in Seq(Frame) /\ IsFiniteSet({})
  BY EmptySeq, FS_EmptySet
<1>3. \A t \in Threads : Depth(t) = 0
  BY <1>1, FS_EmptySet DEF Depth
<1>4. StacksTyped
  BY <1>1, <1>2, <1>3, ChainsAssumption DEF StacksTyped, Init
<1>5. ProgressTyped
  BY OrdersTyped DEF Init, ProgressTyped
<1>6. MessagesTyped
  BY DEF Init, MessagesTyped
<1>7. ThreadsTyped
  BY <1>2 DEF Init, ThreadsTyped
<1>8. QED
  BY <1>4, <1>5, <1>6, <1>7, TypesSplit DEF ProgressTyped, MessagesTyped, ThreadsTyped

(* Every variable is of its type; what a chain executes is one of its      *)
(* orders, and no more processors are in use than the order has.           *)
THEOREM TypeCorrect == Spec => []TypeOK
<1>1. Init => TypeOK
  BY TypesInit
<1>2. TypeOK /\ [Next]_vars => TypeOK'
  BY TypesStep
<1>3. QED
  BY <1>1, <1>2, PTL DEF Spec

-----------------------------------------------------------------------------
(* Each activation knows the one below it.                                 *)

Links(s, c) ==
  /\ c = IF s = <<>> THEN NoChain ELSE s[Len(s)].chain
  /\ \A k \in DOMAIN s :
       IF s[k].kind = "chain" THEN s[k].previous = IF k = 1 THEN NoChain ELSE s[k - 1].chain
                              ELSE k > 1 /\ s[k].chain = s[k - 1].chain

LEMMA LinkedByThread == Linked <=> \A t \in Threads : Links(stack[t], cur_chain[t])
  BY DEF Linked, Links, Top

(* What an activation keeps for as long as it lasts.                       *)
Continues(f, g) ==
  /\ g.kind = f.kind /\ g.chain = f.chain
  /\ f.kind = "chain" => g.previous = f.previous

LEMMA LinksBegins ==
  ASSUME StacksTyped, NEW t \in Threads, NEW f \in Frame, Begins(t, f),
         Links(stack[t], cur_chain[t]), f.kind = "chain", f.previous = cur_chain[t],
         cur_chain'[t] = f.chain
  PROVE  Links(stack'[t], cur_chain'[t])
<1>1. /\ Len(stack'[t]) = 1 /\ stack'[t] # <<>> /\ DOMAIN stack'[t] = 1..1
      /\ stack'[t][1] = f
  BY BeginsEffect
<1>2. f.previous = NoChain
  BY DEF Links, Begins
<1>3. QED
  BY <1>1, <1>2 DEF Links

LEMMA LinksChanges ==
  ASSUME StacksTyped, NEW t \in Threads, NEW f \in Frame, Changes(t, f),
         Links(stack[t], cur_chain[t]), Continues(Top(t), f),
         cur_chain'[t] = cur_chain[t]
  PROVE  Links(stack'[t], cur_chain'[t])
<1> DEFINE n == Len(stack[t])
<1>1. /\ n \in Nat \ {0} /\ Len(stack'[t]) = n /\ stack'[t] # <<>>
      /\ DOMAIN stack'[t] = 1..n /\ stack'[t][n] = f
      /\ \A i \in 1..(n - 1) : stack'[t][i] = stack[t][i]
  BY ChangesEffect
<1>2. /\ stack[t] # <<>> /\ DOMAIN stack[t] = 1..n /\ Top(t) = stack[t][n]
  BY StackFrames DEF Changes, Top
<1> HIDE DEF n
<1>3. cur_chain'[t] = stack'[t][n].chain
  BY <1>1, <1>2 DEF Links, Continues, n
<1>4. ASSUME NEW k \in 1..n
      PROVE  IF stack'[t][k].kind = "chain"
             THEN stack'[t][k].previous = IF k = 1 THEN NoChain ELSE stack'[t][k - 1].chain
             ELSE k > 1 /\ stack'[t][k].chain = stack'[t][k - 1].chain
  <2>1. IF stack[t][k].kind = "chain"
        THEN stack[t][k].previous = IF k = 1 THEN NoChain ELSE stack[t][k - 1].chain
        ELSE k > 1 /\ stack[t][k].chain = stack[t][k - 1].chain
    BY <1>2 DEF Links
  <2>2. k # 1 => k - 1 \in 1..(n - 1)
    BY <1>1
  <2>3. k = n \/ k \in 1..(n - 1)
    BY <1>1
  <2>4. /\ stack'[t][k].kind = stack[t][k].kind /\ stack'[t][k].chain = stack[t][k].chain
        /\ stack[t][k].kind = "chain" => stack'[t][k].previous = stack[t][k].previous
    BY <1>1, <1>2, <2>3 DEF Continues
  <2>5. k # 1 => stack'[t][k - 1] = stack[t][k - 1]
    BY <1>1, <2>2
  <2>6. QED
    BY <2>1, <2>4, <2>5
<1>5. QED
  BY <1>1, <1>3, <1>4 DEF Links

LEMMA LinksEnters ==
  ASSUME StacksTyped, NEW t \in Threads, NEW f \in Frame, NEW g \in Frame,
         Enters(t, f, g), Links(stack[t], cur_chain[t]), Continues(Top(t), f),
         cur_chain'[t] = g.chain,
         IF g.kind = "chain" THEN g.previous = Top(t).chain ELSE g.chain = Top(t).chain
  PROVE  Links(stack'[t], cur_chain'[t])
<1> DEFINE n == Len(stack[t])
<1>1. /\ n \in Nat \ {0} /\ Len(stack'[t]) = n + 1 /\ stack'[t] # <<>>
      /\ DOMAIN stack'[t] = 1..(n + 1) /\ stack'[t][n] = f /\ stack'[t][n + 1] = g
      /\ \A i \in 1..(n - 1) : stack'[t][i] = stack[t][i]
  BY EntersEffect
<1>2. /\ stack[t] # <<>> /\ DOMAIN stack[t] = 1..n /\ Top(t) = stack[t][n]
  BY StackFrames DEF Enters, Top
<1> HIDE DEF n
<1>4. ASSUME NEW k \in 1..n
      PROVE  IF stack'[t][k].kind = "chain"
             THEN stack'[t][k].previous = IF k = 1 THEN NoChain ELSE stack'[t][k - 1].chain
             ELSE k > 1 /\ stack'[t][k].chain = stack'[t][k - 1].chain
  <2>1. IF stack[t][k].kind = "chain"
        THEN stack[t][k].previous = IF k = 1 THEN NoChain ELSE stack[t][k - 1].chain
        ELSE k > 1 /\ stack[t][k].chain = stack[t][k - 1].chain
    BY <1>2 DEF Links
  <2>2. k # 1 => k - 1 \in 1..(n - 1)
    BY <1>1
  <2>3. k = n \/ k \in 1..(n - 1)
    BY <1>1
  <2>4. /\ stack'[t][k].kind = stack[t][k].kind /\ stack'[t][k].chain = stack[t][k].chain
        /\ stack[t][k].kind = "chain" => stack'[t][k].previous = stack[t][k].previous
    BY <1>1, <1>2, <2>3 DEF Continues
  <2>5. k # 1 => stack'[t][k - 1] = stack[t][k - 1]
    BY <1>1, <2>2
  <2>6. QED
    BY <2>1, <2>4, <2>5
<1>5. IF stack'[t][n + 1].kind = "chain"
      THEN stack'[t][n + 1].previous = IF n + 1 = 1 THEN NoChain ELSE stack'[t][n].chain
      ELSE n + 1 > 1 /\ stack'[t][n + 1].chain = stack'[t][n].chain
  BY <1>1 DEF Continues
<1>6. \A k \in 1..(n + 1) : k \in 1..n \/ (k = n + 1 /\ k - 1 = n)
  BY <1>1
<1>7. QED
  BY <1>1, <1>4, <1>5, <1>6 DEF Links

LEMMA LinksLeaves ==
  ASSUME StacksTyped, NEW t \in Threads, Leaves(t), Links(stack[t], cur_chain[t]),
         cur_chain'[t] = IF Top(t).kind = "chain" THEN Top(t).previous ELSE cur_chain[t]
  PROVE  Links(stack'[t], cur_chain'[t])
<1> DEFINE n == Len(stack[t])
<1>1. /\ n \in Nat \ {0} /\ Len(stack'[t]) = n - 1 /\ (stack'[t] = <<>> <=> n = 1)
      /\ DOMAIN stack'[t] = 1..(n - 1)
      /\ \A i \in 1..(n - 1) : stack'[t][i] = stack[t][i]
  BY LeavesEffect
<1>2. /\ stack[t] # <<>> /\ DOMAIN stack[t] = 1..n /\ Top(t) = stack[t][n]
  BY StackFrames DEF Leaves, Top
<1>3. cur_chain[t] = Top(t).chain
  BY <1>2 DEF Links
<1> HIDE DEF n
<1>4. n \in 1..n /\ (n # 1 => n - 1 \in 1..(n - 1))
  BY <1>1
<1>5. IF Top(t).kind = "chain" THEN Top(t).previous = IF n = 1 THEN NoChain ELSE stack[t][n - 1].chain
                               ELSE n > 1 /\ Top(t).chain = stack[t][n - 1].chain
  BY <1>2, <1>4 DEF Links
<1>6. cur_chain'[t] = IF stack'[t] = <<>> THEN NoChain ELSE stack'[t][n - 1].chain
  BY <1>1, <1>3, <1>4, <1>5
<1>7. ASSUME NEW k \in 1..(n - 1)
      PROVE  IF stack'[t][k].kind = "chain"
             THEN stack'[t][k].previous = IF k = 1 THEN NoChain ELSE stack'[t][k - 1].chain
             ELSE k > 1 /\ stack'[t][k].chain = stack'[t][k - 1].chain
  <2>1. k \in 1..n /\ (k # 1 => k - 1 \in 1..(n - 1))
    BY <1>1
  <2>2. IF stack[t][k].kind = "chain"
        THEN stack[t][k].previous = IF k = 1 THEN NoChain ELSE stack[t][k - 1].chain
        ELSE k > 1 /\ stack[t][k].chain = stack[t][k - 1].chain
    BY <1>2, <2>1 DEF Links
  <2>3. stack'[t][k] = stack[t][k] /\ (k # 1 => stack'[t][k - 1] = stack[t][k - 1])
    BY <1>1, <2>1
  <2>4. QED
    BY <2>2, <2>3
<1>8. QED
  BY <1>1, <1>6, <1>7 DEF Links

LEMMA LinkedStep ==
  ASSUME TypeOK, Linked, [Next]_vars
  PROVE  Linked'
<1> USE TypesSplit
<1>0. /\ \A t \in Threads : Links(stack[t], cur_chain[t])
      /\ \A t \in Threads : cur_chain[t] = IF stack[t] = <<>> THEN NoChain ELSE Top(t).chain
  BY LinkedByThread DEF Linked
<1>1. ASSUME NEW t \in Threads, Links(stack'[t], cur_chain'[t]),
             \A u \in Threads \ {t} : stack'[u] = stack[u] /\ cur_chain'[u] = cur_chain[u]
      PROVE  Linked'
  <2>1. \A u \in Threads : Links(stack'[u], cur_chain'[u])
    BY <1>0, <1>1
  <2>2. Linked' <=> \A u \in Threads : Links(stack'[u], cur_chain'[u])
    BY DEF Linked, Links, Top
  <2>3. QED
    BY <2>1, <2>2
<1>2. cur_chain \in [Threads -> Chains \cup {NoChain}]
  BY DEF TypeOK
<1>3. ASSUME NEW t \in Threads, StartChain(t)
      PROVE  Linked'
  <2>1. PICK c \in Starts[t], f \in ChainFrames :
          /\ c \in Chains /\ Begins(t, f) /\ f.chain = c /\ f.previous = cur_chain[t]
          /\ cur_chain' = [cur_chain EXCEPT ![t] = c]
    BY <1>3, StartShape
  <2>2. f \in Frame /\ f.kind = "chain"
    BY DEF Frame, ChainFrames
  <2>3. cur_chain'[t] = c /\ \A u \in Threads \ {t} : cur_chain'[u] = cur_chain[u]
    BY <1>2, <2>1
  <2>4. \A u \in Threads \ {t} : stack'[u] = stack[u]
    BY <2>1, <2>2, BeginsEffect
  <2>5. Links(stack'[t], cur_chain'[t])
    BY <1>0, <2>1, <2>2, <2>3, LinksBegins
  <2>6. QED
    BY <1>1, <2>3, <2>4, <2>5
<1>4. ASSUME NEW t \in Threads, NEW g \in Frame, Changes(t, g), Continues(Top(t), g),
             UNCHANGED cur_chain
      PROVE  Linked'
  <2>1. \A u \in Threads \ {t} : stack'[u] = stack[u]
    BY <1>4, ChangesEffect
  <2>2. Links(stack'[t], cur_chain'[t])
    BY <1>0, <1>4, LinksChanges
  <2>3. QED
    BY <1>1, <1>4, <2>1, <2>2
<1>5. ASSUME NEW t \in Threads, PrepareInput(t) \/ SkipOrder(t) \/ FreeInput(t)
      PROVE  Linked'
  <2>1. PICK g \in ChainFrames :
          /\ Changes(t, g)
          /\ \/ g = [Top(t) EXCEPT !.at = "call"]
             \/ g = [Top(t) EXCEPT !.order = @ + 1]
             \/ g = [Top(t) EXCEPT !.order = @ + 1, !.at = "next"]
    BY <1>5, PrepareShape, SkipShape, FreeShape
  <2>2. Top(t) \in ChainFrames /\ UNCHANGED cur_chain
    BY <1>5, ChainOnTop DEF PrepareInput, SkipOrder, FreeInput
  <2>3. Continues(Top(t), g) /\ g \in Frame
    BY <2>1, <2>2 DEF Continues, Frame, ChainFrames
  <2>4. QED
    BY <1>4, <2>1, <2>2, <2>3
<1>6. ASSUME NEW t \in Threads, ProcessorUnreachable(t) \/ InterpretCommand(t)
      PROVE  Linked'
  <2>1. Changes(t, Issued(Top(t))) /\ Issues(t) /\ UNCHANGED cur_chain
    BY <1>6, IssueShape DEF ProcessorUnreachable, InterpretCommand
  <2>2. Issued(Top(t)) \in Frame /\ Continues(Top(t), Issued(Top(t)))
    BY <2>1, IssuesShape DEF Frame, Continues
  <2>3. QED
    BY <1>4, <2>1, <2>2
<1>7. ASSUME NEW t \in Threads, NEW f \in Frame, NEW g \in Frame, Enters(t, f, g),
             Continues(Top(t), f), cur_chain'[t] = g.chain,
             IF g.kind = "chain" THEN g.previous = Top(t).chain ELSE g.chain = Top(t).chain,
             \A u \in Threads \ {t} : cur_chain'[u] = cur_chain[u]
      PROVE  Linked'
  <2>1. \A u \in Threads \ {t} : stack'[u] = stack[u]
    BY <1>7, EntersEffect
  <2>2. Links(stack'[t], cur_chain'[t])
    BY <1>0, <1>7, LinksEnters
  <2>3. QED
    BY <1>1, <1>7, <2>1, <2>2
<1>8. ASSUME NEW t \in Threads, CallOrder(t)
      PROVE  Linked'
  <2>1. PICK g \in ChainFrames, h \in FunctionFrames :
          /\ Enters(t, g, h) /\ g = [Top(t) EXCEPT !.at = "free"]
          /\ h.kind = "order" /\ h.chain = Top(t).chain
    BY <1>8, CallShape
  <2>2. Top(t) \in ChainFrames /\ stack[t] # <<>> /\ UNCHANGED cur_chain
    BY <1>8, ChainOnTop DEF CallOrder
  <2>3. Continues(Top(t), g) /\ g \in Frame /\ h \in Frame
    BY <2>1, <2>2 DEF Continues, Frame, ChainFrames
  <2>4. cur_chain'[t] = h.chain
    BY <1>0, <2>1, <2>2
  <2>5. QED
    BY <1>7, <2>1, <2>2, <2>3, <2>4
<1>9. ASSUME NEW t \in Threads, CallProcessor(t)
      PROVE  Linked'
  <2>1. PICK h \in FunctionFrames :
          Enters(t, Issued(Top(t)), h) /\ h.kind = "processor" /\ h.chain = cur_chain[t]
    BY <1>9, ProcessorShape
  <2>2. /\ Issued(Top(t)) \in Frame /\ h \in Frame /\ Continues(Top(t), Issued(Top(t)))
        /\ stack[t] # <<>>
    BY <1>9, ProcessorShape, IssuesShape DEF Frame, Continues
  <2>3. UNCHANGED cur_chain /\ cur_chain[t] = Top(t).chain
    BY <1>0, <1>9, <2>2 DEF CallProcessor
  <2>4. QED
    BY <1>7, <2>1, <2>2, <2>3
<1>10. ASSUME NEW t \in Threads, RunChain(t)
       PROVE  Linked'
  <2>0. PICK c \in Chains : \E g \in ChainFrames :
          /\ <<Top(t).module, c>> \in Nested
          /\ Enters(t, Issued(Top(t)), g) /\ OrderNamed(g) /\ g.chain = c
          /\ g.previous = cur_chain[t] /\ g.at = "next"
          /\ cur_chain' = [cur_chain EXCEPT ![t] = c]
    BY <1>10, RunShape
  <2>1. PICK g \in ChainFrames :
          /\ Enters(t, Issued(Top(t)), g) /\ g.chain = c /\ g.previous = cur_chain[t]
          /\ cur_chain' = [cur_chain EXCEPT ![t] = c]
    BY <2>0
  <2>2. /\ Issued(Top(t)) \in Frame /\ g \in Frame /\ Continues(Top(t), Issued(Top(t)))
        /\ stack[t] # <<>> /\ g.kind = "chain"
    BY <1>10, RunShape, IssuesShape DEF Frame, Continues, ChainFrames
  <2>3. g.previous = Top(t).chain
    BY <1>0, <2>1, <2>2
  <2>4. cur_chain'[t] = g.chain /\ \A u \in Threads \ {t} : cur_chain'[u] = cur_chain[u]
    BY <1>2, <2>1
  <2>5. QED
    BY <1>7, <2>1, <2>2, <2>3, <2>4
<1>11. ASSUME NEW t \in Threads, OrderReturns(t) \/ ProcessorReturns(t) \/ FinishChain(t)
       PROVE  Linked'
  <2>1. Leaves(t)
    BY <1>11, ReturnShape
  <2>2. cur_chain' = [cur_chain EXCEPT ![t] =
          IF Top(t).kind = "chain" THEN Top(t).previous ELSE cur_chain[t]]
    <3>1. CASE FinishChain(t)
      BY <3>1 DEF FinishChain, IsIn, ChainAfter
    <3>2. CASE OrderReturns(t) \/ ProcessorReturns(t)
      BY <1>2, <3>2 DEF OrderReturns, ProcessorReturns, IsIn
    <3>3. QED
      BY <1>11, <3>1, <3>2
  <2>3. /\ cur_chain'[t] = IF Top(t).kind = "chain" THEN Top(t).previous ELSE cur_chain[t]
        /\ \A u \in Threads \ {t} : cur_chain'[u] = cur_chain[u]
    BY <1>2, <2>2
  <2>4. \A u \in Threads \ {t} : stack'[u] = stack[u]
    BY <2>1, LeavesEffect
  <2>5. Links(stack'[t], cur_chain'[t])
    BY <1>0, <2>1, <2>3, LinksLeaves
  <2>6. QED
    BY <1>1, <2>3, <2>4, <2>5
<1>12. CASE UNCHANGED vars
  BY <1>12 DEF vars, Linked, Top
<1>13. QED
  BY <1>3, <1>5, <1>6, <1>8, <1>9, <1>10, <1>11, <1>12 DEF Next

(* From a chain up to the top, as long as no other chain has been entered, *)
(* every activation is of that chain.                                      *)
LEMMA SameChainAbove ==
  ASSUME TypeOK, Linked, NEW t \in Threads, NEW k \in DOMAIN stack[t],
         NEW n \in DOMAIN stack[t], k <= n,
         \A j \in (k + 1)..n : stack[t][j].kind # "chain"
  PROVE  stack[t][n].chain = stack[t][k].chain
<1> DEFINE S == {j \in k..n : stack[t][j].chain # stack[t][k].chain}
<1>1. DOMAIN stack[t] = 1..Len(stack[t]) /\ Len(stack[t]) \in Nat
  BY TypesSplit, StackFrames
<1>2. SUFFICES ASSUME S # {}
               PROVE  FALSE
  BY <1>1
<1>3. S \subseteq Nat
  BY <1>1
<1>4. PICK m \in S : \A j \in S : j >= m
  BY <1>2, <1>3, LeastElement
<1>5. m \in (k + 1)..n /\ m \in DOMAIN stack[t] /\ m - 1 \in k..n
  BY <1>1, <1>4
<1>6. stack[t][m - 1].chain = stack[t][k].chain
  <2>1. m - 1 \notin S
    BY <1>4, <1>5
  <2>2. QED
    BY <1>5, <2>1
<1>7. stack[t][m].chain = stack[t][m - 1].chain
  BY <1>5 DEF Linked
<1>8. QED
  BY <1>4, <1>6, <1>7

LEMMA LinkedRestores ==
  ASSUME TypeOK, Linked
  PROVE  ChainRestored
<1> SUFFICES ASSUME NEW t \in Threads, NEW k \in DOMAIN stack[t],
                    \A j \in (k + 1)..Len(stack[t]) : stack[t][j].kind # "chain"
             PROVE  cur_chain[t] = stack[t][k].chain
  BY DEF ChainRestored
<1>1. /\ DOMAIN stack[t] = 1..Len(stack[t]) /\ Len(stack[t]) \in Nat
      /\ Len(stack[t]) \in DOMAIN stack[t] /\ k <= Len(stack[t]) /\ stack[t] # <<>>
  BY TypesSplit, StackFrames
<1>2. stack[t][Len(stack[t])].chain = stack[t][k].chain
  BY <1>1, SameChainAbove
<1>3. QED
  BY <1>1, <1>2 DEF Linked, Top

LEMMA LinkedInit ==
  ASSUME Init
  PROVE  Linked
  BY DEF Init, Linked

LEMMA AlwaysLinked == Spec => [](TypeOK /\ Linked)
<1>1. Init => TypeOK /\ Linked
  BY TypesInit, LinkedInit
<1>2. TypeOK /\ Linked /\ [Next]_vars => (TypeOK /\ Linked)'
  BY TypesStep, LinkedStep
<1>3. QED
  BY <1>1, <1>2, PTL DEF Spec

(* Whatever chains a module's function has executed, recursively or not,   *)
(* its thread is afterwards in the chain it was called from.               *)
THEOREM ContinuesInItsChain == Spec => []ChainRestored
<1>1. TypeOK /\ Linked => ChainRestored
  BY LinkedRestores
<1>2. QED
  BY <1>1, AlwaysLinked, PTL

-----------------------------------------------------------------------------
(* Who holds which input copy.                                             *)

InputIn(d, f) ==
  CASE f.kind = "chain" /\ f.at # "next" -> d[f.chain][f.order]
    [] f.kind = "processor"              -> f.input
    [] OTHER                             -> 0

Inputs(s, d) == [k \in DOMAIN s |-> InputIn(d, s[k])]

(* The copies l are those in v, each of them there once.                   *)
Owns(v, l) ==
  /\ l = {v[k] : k \in DOMAIN v} \ {0}
  /\ \A j, k \in DOMAIN v : j # k => v[j] # v[k] \/ v[j] = 0

LEMMA OwnsReplaced ==
  ASSUME NEW n \in Nat \ {0}, NEW v, NEW w, NEW l, NEW m,
         DOMAIN v = 1..n, DOMAIN w = 1..n, \A k \in 1..(n - 1) : w[k] = v[k], Owns(v, l),
         \/ w[n] = v[n] /\ m = l
         \/ w[n] = 0 /\ m = l \ {v[n]}
         \/ v[n] = 0 /\ w[n] \notin l \cup {0} /\ m = l \cup {w[n]}
  PROVE  Owns(w, m)
<1>1. \A k \in 1..n : k = n \/ k \in 1..(n - 1)
  OBVIOUS
<1>2. n \in 1..n /\ 1..(n - 1) \subseteq 1..n
  OBVIOUS
<1>3. \A k \in 1..(n - 1) : k # n
  OBVIOUS
<1>4. CASE w[n] = v[n] /\ m = l
  BY <1>1, <1>2, <1>4 DEF Owns
<1>5. CASE w[n] = 0 /\ m = l \ {v[n]}
  <2>1. m = {w[k] : k \in DOMAIN w} \ {0}
    BY <1>1, <1>2, <1>3, <1>5 DEF Owns
  <2>2. \A j, k \in DOMAIN w : j # k => w[j] # w[k] \/ w[j] = 0
    BY <1>1, <1>2, <1>5 DEF Owns
  <2>3. QED
    BY <2>1, <2>2 DEF Owns
<1>6. CASE v[n] = 0 /\ w[n] \notin l \cup {0} /\ m = l \cup {w[n]}
  <2>1. m = {w[k] : k \in DOMAIN w} \ {0}
    BY <1>1, <1>2, <1>3, <1>6 DEF Owns
  <2>2. \A k \in 1..(n - 1) : w[k] # w[n]
    BY <1>1, <1>2, <1>6 DEF Owns
  <2>3. \A j, k \in DOMAIN w : j # k => w[j] # w[k] \/ w[j] = 0
    BY <1>1, <1>2, <2>2 DEF Owns
  <2>4. QED
    BY <2>1, <2>3 DEF Owns
<1>7. QED
  BY <1>4, <1>5, <1>6

LEMMA OwnsAdded ==
  ASSUME NEW n \in Nat, NEW v, NEW w, NEW l, NEW m,
         DOMAIN v = 1..n, DOMAIN w = 1..(n + 1), \A k \in 1..n : w[k] = v[k], Owns(v, l),
         \/ w[n + 1] = 0 /\ m = l
         \/ w[n + 1] \notin l \cup {0} /\ m = l \cup {w[n + 1]}
  PROVE  Owns(w, m)
<1>1. \A k \in 1..(n + 1) : k = n + 1 \/ k \in 1..n
  OBVIOUS
<1>2. n + 1 \in 1..(n + 1) /\ 1..n \subseteq 1..(n + 1)
  OBVIOUS
<1>3. CASE w[n + 1] = 0 /\ m = l
  BY <1>1, <1>2, <1>3 DEF Owns
<1>4. CASE w[n + 1] \notin l \cup {0} /\ m = l \cup {w[n + 1]}
  <2>1. m = {w[k] : k \in DOMAIN w} \ {0}
    BY <1>1, <1>2, <1>4 DEF Owns
  <2>2. \A k \in 1..n : w[k] # w[n + 1]
    BY <1>4 DEF Owns
  <2>3. \A j, k \in DOMAIN w : j # k => w[j] # w[k] \/ w[j] = 0
    BY <1>1, <2>2 DEF Owns
  <2>4. QED
    BY <2>1, <2>3 DEF Owns
<1>5. QED
  BY <1>3, <1>4

LEMMA OwnsRemoved ==
  ASSUME NEW n \in Nat \ {0}, NEW v, NEW w, NEW l, DOMAIN v = 1..n, DOMAIN w = 1..(n - 1),
         \A k \in 1..(n - 1) : w[k] = v[k], Owns(v, l)
  PROVE  Owns(w, l \ {v[n]})
<1>1. \A k \in 1..n : k = n \/ k \in 1..(n - 1)
  OBVIOUS
<1>2. n \in 1..n /\ 1..(n - 1) \subseteq 1..n /\ \A k \in 1..(n - 1) : k # n
  OBVIOUS
<1>3. l \ {v[n]} = {w[k] : k \in DOMAIN w} \ {0}
  BY <1>1, <1>2 DEF Owns
<1>4. \A j, k \in DOMAIN w : j # k => w[j] # w[k] \/ w[j] = 0
  BY <1>2 DEF Owns
<1>5. QED
  BY <1>3, <1>4 DEF Owns

(* An order's function runs on the input of the activation below it.       *)
Lent(s, d) ==
  \A k \in DOMAIN s : s[k].kind = "order" =>
    /\ s[k - 1].kind = "chain" /\ s[k - 1].at = "free"
    /\ s[k - 1].order = s[k].order /\ s[k].input = InputIn(d, s[k - 1])

Accounts(s, d, l) == Owns(Inputs(s, d), l) /\ Lent(s, d)

(* What a function has been called with stays as it is.                    *)
CallKept(f, g) ==
  /\ g.kind = f.kind
  /\ f.kind = "order" => g.input = f.input /\ g.order = f.order

LEMMA AccountsChanges ==
  ASSUME StacksTyped, Linked, NEW t \in Threads, NEW f \in Frame, Changes(t, f),
         Accounts(stack[t], dst_msg, live[t]), CallKept(Top(t), f),
         \A k \in 1..(Len(stack[t]) - 1) :
           InputIn(dst_msg', stack[t][k]) = InputIn(dst_msg, stack[t][k]),
         LET x == InputIn(dst_msg, Top(t))
             y == InputIn(dst_msg', f)
         IN  \/ y = x /\ live'[t] = live[t]
             \/ y = 0 /\ live'[t] = live[t] \ {x}
             \/ x = 0 /\ y \notin live[t] \cup {0} /\ live'[t] = live[t] \cup {y}
  PROVE  Accounts(stack'[t], dst_msg', live'[t])
<1> DEFINE n == Len(stack[t])
           v == Inputs(stack[t], dst_msg)
           w == Inputs(stack'[t], dst_msg')
<1>1. /\ n \in Nat \ {0} /\ DOMAIN stack'[t] = 1..n /\ stack'[t][n] = f
      /\ \A i \in 1..(n - 1) : stack'[t][i] = stack[t][i]
  BY ChangesEffect
<1>2. DOMAIN stack[t] = 1..n /\ Top(t) = stack[t][n]
  BY StackFrames DEF Top
<1> HIDE DEF n
<1>3. n \in 1..n /\ 1..(n - 1) \subseteq 1..n
  BY <1>1
<1>4. /\ DOMAIN v = 1..n /\ DOMAIN w = 1..n
      /\ v[n] = InputIn(dst_msg, Top(t)) /\ w[n] = InputIn(dst_msg', f)
      /\ \A k \in 1..(n - 1) : w[k] = v[k]
  BY <1>1, <1>2, <1>3 DEF Inputs, n
<1>5. Owns(v, live[t])
  BY DEF Accounts
<1> HIDE DEF v, w
<1>6. Owns(w, live'[t])
  BY <1>1, <1>4, <1>5, OwnsReplaced
<1>7. Lent(stack'[t], dst_msg')
  <2> SUFFICES ASSUME NEW k \in 1..n, stack'[t][k].kind = "order"
               PROVE  /\ stack'[t][k - 1].kind = "chain" /\ stack'[t][k - 1].at = "free"
                      /\ stack'[t][k - 1].order = stack'[t][k].order
                      /\ stack'[t][k].input = InputIn(dst_msg', stack'[t][k - 1])
    BY <1>1 DEF Lent
  <2>1. /\ stack[t][k].kind = "order" /\ stack'[t][k].input = stack[t][k].input
        /\ stack'[t][k].order = stack[t][k].order
    <3>1. CASE k = n
      BY <1>1, <1>2, <3>1 DEF CallKept
    <3>2. CASE k \in 1..(n - 1)
      BY <1>1, <3>2
    <3>3. QED
      BY <1>1, <3>1, <3>2
  <2>2. k > 1
    BY <1>2, <2>1 DEF Linked
  <2>3. k - 1 \in 1..(n - 1)
    BY <1>1, <2>2
  <2>4. stack'[t][k - 1] = stack[t][k - 1]
    BY <1>1, <2>3
  <2>5. InputIn(dst_msg', stack[t][k - 1]) = InputIn(dst_msg, stack[t][k - 1])
    BY <2>3 DEF n
  <2>6. /\ stack[t][k - 1].kind = "chain" /\ stack[t][k - 1].at = "free"
        /\ stack[t][k - 1].order = stack[t][k].order
        /\ stack[t][k].input = InputIn(dst_msg, stack[t][k - 1])
    BY <1>2, <2>1 DEF Accounts, Lent
  <2>7. QED
    BY <2>1, <2>4, <2>5, <2>6
<1>8. QED
  BY <1>6, <1>7 DEF Accounts, w

LEMMA AccountsEnters ==
  ASSUME StacksTyped, Linked, NEW t \in Threads, NEW f \in Frame, NEW g \in Frame,
         Enters(t, f, g), UNCHANGED dst_msg,
         Accounts(stack[t], dst_msg, live[t]), CallKept(Top(t), f),
         InputIn(dst_msg, f) = InputIn(dst_msg, Top(t)),
         g.kind = "order" =>
           f.kind = "chain" /\ f.at = "free" /\ f.order = g.order /\ g.input = InputIn(dst_msg, f),
         LET y == InputIn(dst_msg, g)
         IN  \/ y = 0 /\ live'[t] = live[t]
             \/ y \notin live[t] \cup {0} /\ live'[t] = live[t] \cup {y}
  PROVE  Accounts(stack'[t], dst_msg', live'[t])
<1> DEFINE n == Len(stack[t])
           v == Inputs(stack[t], dst_msg)
           w == Inputs(stack'[t], dst_msg)
<1>1. /\ n \in Nat \ {0} /\ DOMAIN stack'[t] = 1..(n + 1)
      /\ stack'[t][n] = f /\ stack'[t][n + 1] = g
      /\ \A i \in 1..(n - 1) : stack'[t][i] = stack[t][i]
  BY EntersEffect
<1>2. DOMAIN stack[t] = 1..n /\ Top(t) = stack[t][n]
  BY StackFrames DEF Top
<1> HIDE DEF n
<1>3. /\ n \in 1..n /\ 1..n \subseteq 1..(n + 1) /\ n + 1 \in 1..(n + 1)
      /\ \A k \in 1..n : k = n \/ k \in 1..(n - 1)
  BY <1>1
<1>4. /\ DOMAIN v = 1..n /\ DOMAIN w = 1..(n + 1)
      /\ w[n + 1] = InputIn(dst_msg, g) /\ \A k \in 1..n : w[k] = v[k]
  BY <1>1, <1>2, <1>3 DEF Inputs
<1>5. Owns(v, live[t])
  BY DEF Accounts
<1> HIDE DEF v, w
<1>6. Owns(w, live'[t])
  BY <1>1, <1>4, <1>5, OwnsAdded
<1>7. Lent(stack'[t], dst_msg)
  <2> SUFFICES ASSUME NEW k \in 1..(n + 1), stack'[t][k].kind = "order"
               PROVE  /\ stack'[t][k - 1].kind = "chain" /\ stack'[t][k - 1].at = "free"
                      /\ stack'[t][k - 1].order = stack'[t][k].order
                      /\ stack'[t][k].input = InputIn(dst_msg, stack'[t][k - 1])
    BY <1>1 DEF Lent
  <2>1. CASE k = n + 1
    <3>1. k - 1 = n
      BY <1>1, <2>1
    <3>2. QED
      BY <1>1, <2>1, <3>1
  <2>2. CASE k \in 1..n
    <3>1. /\ stack[t][k].kind = "order" /\ stack'[t][k].input = stack[t][k].input
          /\ stack'[t][k].order = stack[t][k].order
      <4>1. CASE k = n
        BY <1>1, <1>2, <4>1 DEF CallKept
      <4>2. CASE k \in 1..(n - 1)
        BY <1>1, <4>2
      <4>3. QED
        BY <1>3, <2>2, <4>1, <4>2
    <3>2. k > 1
      BY <1>2, <2>2, <3>1 DEF Linked
    <3>3. k - 1 \in 1..(n - 1)
      BY <1>1, <2>2, <3>2
    <3>4. stack'[t][k - 1] = stack[t][k - 1]
      BY <1>1, <3>3
    <3>5. /\ stack[t][k - 1].kind = "chain" /\ stack[t][k - 1].at = "free"
          /\ stack[t][k - 1].order = stack[t][k].order
          /\ stack[t][k].input = InputIn(dst_msg, stack[t][k - 1])
      BY <1>2, <2>2, <3>1 DEF Accounts, Lent
    <3>6. QED
      BY <3>1, <3>4, <3>5
  <2>3. QED
    BY <1>1, <2>1, <2>2
<1>8. QED
  BY <1>6, <1>7 DEF Accounts, w

LEMMA AccountsLeaves ==
  ASSUME StacksTyped, Linked, NEW t \in Threads, Leaves(t), UNCHANGED dst_msg,
         Accounts(stack[t], dst_msg, live[t]),
         live'[t] = live[t] \ {InputIn(dst_msg, Top(t))}
  PROVE  Accounts(stack'[t], dst_msg', live'[t])
<1> DEFINE n == Len(stack[t])
           v == Inputs(stack[t], dst_msg)
           w == Inputs(stack'[t], dst_msg)
<1>1. /\ n \in Nat \ {0} /\ DOMAIN stack'[t] = 1..(n - 1)
      /\ \A i \in 1..(n - 1) : stack'[t][i] = stack[t][i]
  BY LeavesEffect
<1>2. DOMAIN stack[t] = 1..n /\ Top(t) = stack[t][n]
  BY StackFrames DEF Top
<1> HIDE DEF n
<1>3. n \in 1..n /\ 1..(n - 1) \subseteq 1..n
  BY <1>1
<1>4. /\ DOMAIN v = 1..n /\ DOMAIN w = 1..(n - 1) /\ v[n] = InputIn(dst_msg, Top(t))
      /\ \A k \in 1..(n - 1) : w[k] = v[k]
  BY <1>1, <1>2, <1>3 DEF Inputs
<1>5. Owns(v, live[t])
  BY DEF Accounts
<1> HIDE DEF v, w
<1>6. Owns(w, live'[t])
  BY <1>1, <1>4, <1>5, OwnsRemoved
<1>7. Lent(stack'[t], dst_msg)
  <2> SUFFICES ASSUME NEW k \in 1..(n - 1), stack'[t][k].kind = "order"
               PROVE  /\ stack'[t][k - 1].kind = "chain" /\ stack'[t][k - 1].at = "free"
                      /\ stack'[t][k - 1].order = stack'[t][k].order
                      /\ stack'[t][k].input = InputIn(dst_msg, stack'[t][k - 1])
    BY <1>1 DEF Lent
  <2>1. stack[t][k].kind = "order" /\ stack'[t][k] = stack[t][k] /\ k \in 1..n
    BY <1>1
  <2>2. k > 1
    BY <1>2, <2>1 DEF Linked
  <2>3. k - 1 \in 1..(n - 1)
    BY <1>1, <2>2
  <2>4. stack'[t][k - 1] = stack[t][k - 1]
    BY <1>1, <2>3
  <2>5. QED
    BY <1>2, <2>1, <2>4 DEF Accounts, Lent
<1>8. QED
  BY <1>6, <1>7 DEF Accounts, w

(* Only the input of an order of the chain on top has been replaced.       *)
InputReplaced(t) ==
  /\ IsIn(t, {"chain"})
  /\ \A c \in Chains \ {Top(t).chain} : dst_msg'[c] = dst_msg[c]

LEMMA OthersUnaffected ==
  ASSUME TypeOK, EnteredOnce, NEW t \in Threads, InputReplaced(t),
         NEW u \in Threads, NEW k \in DOMAIN stack[u], u # t \/ k # Len(stack[t])
  PROVE  InputIn(dst_msg', stack[u][k]) = InputIn(dst_msg, stack[u][k])
<1>1. /\ stack[t] # <<>> /\ Top(t) = stack[t][Len(stack[t])]
      /\ Len(stack[t]) \in DOMAIN stack[t] /\ Top(t).kind = "chain"
  BY TypesSplit, StackFrames DEF InputReplaced, IsIn, Top
<1>2. stack[u][k].chain \in Chains
  BY TypesSplit, StackFrames
<1>3. CASE stack[u][k].kind # "chain"
  BY <1>3 DEF InputIn
<1>4. CASE stack[u][k].kind = "chain"
  <2>1. stack[u][k].chain # Top(t).chain
    BY <1>1, <1>4 DEF EnteredOnce
  <2>2. dst_msg'[stack[u][k].chain] = dst_msg[stack[u][k].chain]
    BY <1>2, <2>1 DEF InputReplaced
  <2>3. QED
    BY <2>2 DEF InputIn
<1>5. QED
  BY <1>3, <1>4

AllAccounts == \A t \in Threads : Accounts(stack[t], dst_msg, live[t])

LEMMA AccountsOfOthers ==
  ASSUME TypeOK, Linked, EnteredOnce, AllAccounts, NEW t \in Threads,
         UNCHANGED dst_msg \/ InputReplaced(t), NEW u \in Threads, u # t
  PROVE  Accounts(stack[u], dst_msg', live[u])
<1>1. \A k \in DOMAIN stack[u] : InputIn(dst_msg', stack[u][k]) = InputIn(dst_msg, stack[u][k])
  BY OthersUnaffected
<1>2. Inputs(stack[u], dst_msg') = Inputs(stack[u], dst_msg)
  BY <1>1 DEF Inputs
<1>3. Lent(stack[u], dst_msg')
  <2> SUFFICES ASSUME NEW k \in DOMAIN stack[u], stack[u][k].kind = "order"
               PROVE  /\ stack[u][k - 1].kind = "chain" /\ stack[u][k - 1].at = "free"
                      /\ stack[u][k - 1].order = stack[u][k].order
                      /\ stack[u][k].input = InputIn(dst_msg', stack[u][k - 1])
    BY DEF Lent
  <2>1. DOMAIN stack[u] = 1..Len(stack[u]) /\ Len(stack[u]) \in Nat
    BY TypesSplit, StackFrames
  <2>2. k > 1
    BY DEF Linked
  <2>3. k - 1 \in DOMAIN stack[u]
    BY <2>1, <2>2
  <2>4. /\ stack[u][k - 1].kind = "chain" /\ stack[u][k - 1].at = "free"
        /\ stack[u][k - 1].order = stack[u][k].order
        /\ stack[u][k].input = InputIn(dst_msg, stack[u][k - 1])
    BY DEF AllAccounts, Accounts, Lent
  <2>5. QED
    BY <1>1, <2>3, <2>4
<1>4. QED
  BY <1>2, <1>3 DEF AllAccounts, Accounts

LEMMA AccountsStep ==
  ASSUME TypeOK, Linked, EnteredOnce, AllAccounts, [Next]_vars
  PROVE  AllAccounts'
<1> USE TypesSplit
<1>1. ASSUME NEW t \in Threads, UNCHANGED dst_msg \/ InputReplaced(t),
             \A u \in Threads \ {t} : stack'[u] = stack[u] /\ live'[u] = live[u],
             Accounts(stack'[t], dst_msg', live'[t])
      PROVE  AllAccounts'
  <2>1. ASSUME NEW u \in Threads
        PROVE  Accounts(stack'[u], dst_msg', live'[u])
    BY <1>1, AccountsOfOthers
  <2>2. QED
    BY <2>1 DEF AllAccounts, Accounts, Owns, Inputs, Lent, InputIn
<1>2. \A t \in Threads : Accounts(stack[t], dst_msg, live[t])
  BY DEF AllAccounts
<1>3. live \in [Threads -> SUBSET (Nat \ {0})]
  BY DEF TypeOK
<1>4. ASSUME NEW t \in Threads, IsIn(t, {"chain"})
      PROVE  /\ Top(t) \in ChainFrames /\ Top(t).kind = "chain" /\ Top(t).chain \in Chains
             /\ Top(t).order \in Nat \ {0}
  BY <1>4, ChainOnTop
<1>5. ASSUME NEW t \in Threads, InputReplaced(t), NEW g \in ChainFrames, Changes(t, g),
             \A u \in Threads \ {t} : live'[u] = live[u],
             LET x == InputIn(dst_msg, Top(t))
                 y == InputIn(dst_msg', g)
             IN  \/ y = x /\ live'[t] = live[t]
                 \/ y = 0 /\ live'[t] = live[t] \ {x}
                 \/ x = 0 /\ y \notin live[t] \cup {0} /\ live'[t] = live[t] \cup {y}
      PROVE  AllAccounts'
  <2>1. g \in Frame /\ g.kind = "chain"
    BY DEF Frame, ChainFrames
  <2>2. \A k \in 1..(Len(stack[t]) - 1) :
          InputIn(dst_msg', stack[t][k]) = InputIn(dst_msg, stack[t][k])
    <3> TAKE k \in 1..(Len(stack[t]) - 1)
    <3>1. k \in DOMAIN stack[t] /\ k # Len(stack[t])
      BY StackFrames
    <3>2. QED
      BY <1>5, <3>1, OthersUnaffected
  <2>3. CallKept(Top(t), g)
    BY <1>5, <2>1 DEF CallKept, InputReplaced, IsIn
  <2>4. Accounts(stack'[t], dst_msg', live'[t])
    BY <1>2, <1>5, <2>1, <2>2, <2>3, AccountsChanges
  <2>5. \A u \in Threads \ {t} : stack'[u] = stack[u]
    BY <1>5, <2>1, ChangesEffect
  <2>6. QED
    BY <1>1, <1>5, <2>4, <2>5
<1>6. ASSUME NEW t \in Threads, PrepareInput(t)
      PROVE  AllAccounts'
  <2> DEFINE f == Top(t)
             x == IF HasInput(f) THEN Fresh(t) ELSE 0
  <2>1. PICK g \in ChainFrames : Changes(t, g) /\ g = [f EXCEPT !.at = "call"]
    BY <1>6, PrepareShape
  <2>2. /\ IsIn(t, {"chain"}) /\ f.at = "next" /\ ~Finished(f)
        /\ dst_msg' = [dst_msg EXCEPT ![f.chain][f.order] = x]
        /\ IF HasInput(f) THEN Allocated(t) ELSE UNCHANGED live
    BY <1>6 DEF PrepareInput
  <2>3. f \in ChainFrames /\ f.chain \in Chains /\ f.order \in 1..Len(Orders[f.chain])
    BY <2>2, ChainOnTop
  <2>4. InputReplaced(t)
    BY <2>2 DEF InputReplaced, TypeOK
  <2>5. InputIn(dst_msg, f) = 0
    BY <2>2 DEF InputIn, IsIn
  <2>6. g.kind = "chain" /\ g.at = "call" /\ g.chain = f.chain /\ g.order = f.order
    BY <2>1, <2>3 DEF ChainFrames
  <2>7. dst_msg'[f.chain][f.order] = x
    BY <2>2, <2>3, OrdersTyped DEF TypeOK
  <2>8. InputIn(dst_msg', g) = x
    BY <2>6, <2>7 DEF InputIn
  <2>9. /\ \A u \in Threads \ {t} : live'[u] = live[u]
        /\ IF HasInput(f) THEN live'[t] = live[t] \cup {Fresh(t)} ELSE live'[t] = live[t]
    BY <1>3, <2>2 DEF Allocated
  <2>10. Fresh(t) \notin live[t] \cup {0}
    BY FreshInput
  <2>11. \/ InputIn(dst_msg', g) = 0 /\ live'[t] = live[t]
         \/ InputIn(dst_msg', g) \notin live[t] \cup {0}
            /\ live'[t] = live[t] \cup {InputIn(dst_msg', g)}
    BY <2>8, <2>9, <2>10
  <2> HIDE DEF f, x
  <2>12. QED
    BY <1>5, <2>1, <2>4, <2>5, <2>9, <2>11 DEF f
<1>7. ASSUME NEW t \in Threads, SkipOrder(t)
      PROVE  AllAccounts'
  <2> DEFINE f == Top(t)
  <2>1. PICK g \in ChainFrames : Changes(t, g) /\ g = [f EXCEPT !.order = @ + 1]
    BY <1>7, SkipShape
  <2>2. /\ IsIn(t, {"chain"}) /\ f.at = "next" /\ UNCHANGED live
        /\ dst_msg' = [dst_msg EXCEPT ![f.chain][f.order] = 0]
    BY <1>7 DEF SkipOrder
  <2>3. f \in ChainFrames /\ f.chain \in Chains /\ f.kind = "chain"
    BY <1>4, <2>2
  <2>4. InputReplaced(t)
    BY <2>2 DEF InputReplaced, TypeOK
  <2>5. g.kind = "chain" /\ g.at = "next"
    BY <2>1, <2>2, <2>3 DEF ChainFrames
  <2>6. InputIn(dst_msg, f) = 0 /\ InputIn(dst_msg', g) = 0
    BY <2>2, <2>3, <2>5 DEF InputIn
  <2>7. live'[t] = live[t] /\ \A u \in Threads \ {t} : live'[u] = live[u]
    BY <2>2
  <2> HIDE DEF f
  <2>8. QED
    BY <1>5, <2>1, <2>4, <2>6, <2>7 DEF f
<1>8. ASSUME NEW t \in Threads, FreeInput(t)
      PROVE  AllAccounts'
  <2> DEFINE f == Top(t)
  <2>1. PICK g \in ChainFrames : Changes(t, g) /\ g = [f EXCEPT !.order = @ + 1, !.at = "next"]
    BY <1>8, FreeShape
  <2>2. /\ IsIn(t, {"chain"}) /\ f.at = "free" /\ Freed(t, dst_msg[f.chain][f.order])
        /\ dst_msg' = [dst_msg EXCEPT ![f.chain][f.order] = 0]
    BY <1>8 DEF FreeInput
  <2>3. f \in ChainFrames /\ f.chain \in Chains /\ f.kind = "chain"
    BY <1>4, <2>2
  <2>4. InputReplaced(t)
    BY <2>2 DEF InputReplaced, TypeOK
  <2>5. g.kind = "chain" /\ g.at = "next"
    BY <2>1, <2>2, <2>3 DEF ChainFrames
  <2>6. InputIn(dst_msg, f) = dst_msg[f.chain][f.order] /\ InputIn(dst_msg', g) = 0
    BY <2>2, <2>3, <2>5 DEF InputIn
  <2>7. /\ live'[t] = live[t] \ {InputIn(dst_msg, f)}
        /\ \A u \in Threads \ {t} : live'[u] = live[u]
    BY <1>3, <2>2, <2>6 DEF Freed
  <2> HIDE DEF f
  <2>8. QED
    BY <1>5, <2>1, <2>4, <2>6, <2>7 DEF f
<1>9. ASSUME NEW t \in Threads, NEW f \in Frame, NEW g \in Frame, Enters(t, f, g),
             UNCHANGED dst_msg, CallKept(Top(t), f),
             InputIn(dst_msg, f) = InputIn(dst_msg, Top(t)),
             g.kind = "order" =>
               f.kind = "chain" /\ f.at = "free" /\ f.order = g.order /\ g.input = InputIn(dst_msg, f),
             \A u \in Threads \ {t} : live'[u] = live[u],
             LET y == InputIn(dst_msg, g)
             IN  \/ y = 0 /\ live'[t] = live[t]
                 \/ y \notin live[t] \cup {0} /\ live'[t] = live[t] \cup {y}
      PROVE  AllAccounts'
  <2>1. Accounts(stack'[t], dst_msg', live'[t])
    BY <1>2, <1>9, AccountsEnters
  <2>2. \A u \in Threads \ {t} : stack'[u] = stack[u]
    BY <1>9, EntersEffect
  <2>3. QED
    BY <1>1, <1>9, <2>1, <2>2
<1>10. ASSUME NEW t \in Threads, CallOrder(t)
       PROVE  AllAccounts'
  <2> DEFINE f == Top(t)
  <2>1. PICK g \in ChainFrames, h \in FunctionFrames :
          /\ Enters(t, g, h) /\ g = [f EXCEPT !.at = "free"] /\ h.kind = "order"
          /\ h.order = f.order /\ h.input = dst_msg[f.chain][f.order]
    BY <1>10, CallShape
  <2>2. IsIn(t, {"chain"}) /\ f.at = "call" /\ UNCHANGED <<dst_msg, live>>
    BY <1>10 DEF CallOrder
  <2>3. f \in ChainFrames /\ f.kind = "chain"
    BY <1>4, <2>2
  <2>4. g.kind = "chain" /\ g.at = "free" /\ g.chain = f.chain /\ g.order = f.order
    BY <2>1, <2>3 DEF ChainFrames
  <2>5. /\ InputIn(dst_msg, f) = dst_msg[f.chain][f.order]
        /\ InputIn(dst_msg, g) = dst_msg[f.chain][f.order] /\ InputIn(dst_msg, h) = 0
    BY <2>1, <2>2, <2>3, <2>4 DEF InputIn
  <2>6. g \in Frame /\ h \in Frame /\ CallKept(f, g)
    BY <2>3, <2>4 DEF Frame, CallKept
  <2>7. live'[t] = live[t] /\ \A u \in Threads \ {t} : live'[u] = live[u]
    BY <2>2
  <2> HIDE DEF f
  <2>8. QED
    BY <1>9, <2>1, <2>2, <2>4, <2>5, <2>6, <2>7 DEF f
<1>11. ASSUME NEW t \in Threads, Issues(t)
       PROVE  /\ Issued(Top(t)) \in Frame /\ CallKept(Top(t), Issued(Top(t)))
              /\ InputIn(dst_msg, Issued(Top(t))) = InputIn(dst_msg, Top(t))
              /\ Issued(Top(t)).kind # "chain"
  BY <1>11, IssuesShape DEF Frame, CallKept, InputIn
<1>12. ASSUME NEW t \in Threads, CallProcessor(t)
       PROVE  AllAccounts'
  <2>1. PICK h \in FunctionFrames :
          Enters(t, Issued(Top(t)), h) /\ h.kind = "processor" /\ h.input = Fresh(t)
    BY <1>12, ProcessorShape
  <2>2. Issues(t) /\ Allocated(t) /\ UNCHANGED dst_msg
    BY <1>12 DEF CallProcessor
  <2>3. h \in Frame /\ InputIn(dst_msg, h) = Fresh(t) /\ h.kind # "order"
    BY <2>1 DEF Frame, InputIn
  <2>4. /\ live'[t] = live[t] \cup {Fresh(t)}
        /\ \A u \in Threads \ {t} : live'[u] = live[u]
    BY <1>3, <2>2 DEF Allocated
  <2>5. Fresh(t) \notin live[t] \cup {0}
    BY FreshInput
  <2>6. QED
    BY <1>9, <1>11, <2>1, <2>2, <2>3, <2>4, <2>5
<1>13. ASSUME NEW t \in Threads, RunChain(t)
       PROVE  AllAccounts'
  <2>1. PICK g \in ChainFrames : Enters(t, Issued(Top(t)), g) /\ g.at = "next"
    BY <1>13, RunShape
  <2>2. Issues(t) /\ UNCHANGED <<dst_msg, live>>
    BY <1>13 DEF RunChain, chainVars
  <2>3. g \in Frame /\ InputIn(dst_msg, g) = 0 /\ g.kind # "order"
    BY <2>1 DEF Frame, InputIn, ChainFrames
  <2>4. live'[t] = live[t] /\ \A u \in Threads \ {t} : live'[u] = live[u]
    BY <2>2
  <2>5. QED
    BY <1>9, <1>11, <2>1, <2>2, <2>3, <2>4
<1>14. ASSUME NEW t \in Threads, ProcessorUnreachable(t) \/ InterpretCommand(t)
       PROVE  AllAccounts'
  <2>1. Issues(t) /\ Changes(t, Issued(Top(t))) /\ UNCHANGED <<dst_msg, live>>
    BY <1>14, IssueShape DEF ProcessorUnreachable, InterpretCommand, chainVars
  <2>2. Accounts(stack'[t], dst_msg', live'[t])
    BY <1>2, <1>11, <2>1, AccountsChanges
  <2>3. \A u \in Threads \ {t} : stack'[u] = stack[u]
    BY <1>11, <2>1, ChangesEffect
  <2>4. QED
    BY <1>1, <2>1, <2>2, <2>3
<1>15. ASSUME NEW t \in Threads, OrderReturns(t) \/ ProcessorReturns(t) \/ FinishChain(t)
       PROVE  AllAccounts'
  <2>1. Leaves(t) /\ UNCHANGED dst_msg
    BY <1>15, ReturnShape DEF OrderReturns, ProcessorReturns, FinishChain, chainVars
  <2>2. /\ live'[t] = live[t] \ {InputIn(dst_msg, Top(t))}
        /\ \A u \in Threads \ {t} : live'[u] = live[u]
    <3>1. CASE OrderReturns(t)
      <4>1. InputIn(dst_msg, Top(t)) = 0 /\ UNCHANGED live
        BY <3>1 DEF OrderReturns, IsIn, InputIn
      <4>2. QED
        BY <1>3, <4>1
    <3>2. CASE FinishChain(t)
      <4>1. InputIn(dst_msg, Top(t)) = 0 /\ UNCHANGED live
        BY <3>2 DEF FinishChain, IsIn, InputIn
      <4>2. QED
        BY <1>3, <4>1
    <3>3. CASE ProcessorReturns(t)
      <4>1. InputIn(dst_msg, Top(t)) = Top(t).input /\ Freed(t, Top(t).input)
        BY <3>3 DEF ProcessorReturns, IsIn, InputIn
      <4>2. QED
        BY <1>3, <4>1 DEF Freed
    <3>4. QED
      BY <1>15, <3>1, <3>2, <3>3
  <2>3. \A u \in Threads \ {t} : stack'[u] = stack[u]
    BY <2>1, LeavesEffect
  <2>4. Accounts(stack'[t], dst_msg', live'[t])
    BY <1>2, <2>1, <2>2, AccountsLeaves
  <2>5. QED
    BY <1>1, <2>1, <2>2, <2>3, <2>4
<1>16. ASSUME NEW t \in Threads, StartChain(t)
       PROVE  AllAccounts'
  <2>1. PICK f \in ChainFrames : Begins(t, f) /\ f.at = "next"
    BY <1>16, StartShape
  <2>2. f \in Frame /\ f.kind = "chain" /\ UNCHANGED <<dst_msg, live>>
    BY <1>16 DEF Frame, ChainFrames, StartChain, chainVars
  <2>3. /\ DOMAIN stack'[t] = 1..1 /\ stack'[t][1] = f /\ stack[t] = <<>>
        /\ \A u \in Threads \ {t} : stack'[u] = stack[u]
    BY <2>1, <2>2, BeginsEffect DEF Begins
  <2>4. live[t] = {}
    <3>1. Owns(Inputs(stack[t], dst_msg), live[t])
      BY <1>2 DEF Accounts
    <3>2. DOMAIN Inputs(stack[t], dst_msg) = {}
      BY <2>3 DEF Inputs
    <3>3. QED
      BY <3>1, <3>2 DEF Owns
  <2>5. DOMAIN Inputs(stack'[t], dst_msg) = 1..1 /\ Inputs(stack'[t], dst_msg)[1] = 0
    BY <2>1, <2>2, <2>3 DEF Inputs, InputIn
  <2>6. Owns(Inputs(stack'[t], dst_msg), {})
    BY <2>5 DEF Owns
  <2>7. Lent(stack'[t], dst_msg)
    BY <2>2, <2>3 DEF Lent
  <2>8. Accounts(stack'[t], dst_msg', live'[t])
    BY <2>2, <2>4, <2>6, <2>7 DEF Accounts
  <2>9. QED
    BY <1>1, <2>2, <2>3, <2>8
<1>17. CASE UNCHANGED vars
  <2>1. stack' = stack /\ dst_msg' = dst_msg /\ live' = live
    BY <1>17 DEF vars
  <2>2. \A u \in Threads : Accounts(stack'[u], dst_msg', live'[u])
    BY <1>2, <2>1
  <2>3. QED
    BY <2>2 DEF AllAccounts, Accounts, Owns, Inputs, Lent, InputIn
<1>18. QED
  BY <1>6, <1>7, <1>8, <1>10, <1>12, <1>13, <1>14, <1>15, <1>16, <1>17 DEF Next

LEMMA AccountsInit ==
  ASSUME Init
  PROVE  AllAccounts
BY DEF Init, AllAccounts, Accounts, Owns, Inputs, Lent

LEMMA AccountsMean ==
  ASSUME TypeOK, Linked, AllAccounts
  PROVE  InputsFreed /\ InputsLent
<1>1. \A f : InputOf(f) = InputIn(dst_msg, f)
  BY DEF InputOf, InputIn
<1>2. InputsLent
  BY <1>1 DEF InputsLent, AllAccounts, Accounts, Lent
<1>3. ASSUME NEW t \in Threads
      PROVE  /\ live[t] = {InputOf(stack[t][k]) : k \in DOMAIN stack[t]} \ {0}
             /\ \A j, k \in DOMAIN stack[t] :
                  j # k => \/ InputOf(stack[t][j]) # InputOf(stack[t][k])
                           \/ InputOf(stack[t][j]) = 0
  BY <1>1 DEF AllAccounts, Accounts, Owns, Inputs
<1>4. ASSUME NEW t \in Threads, NEW k \in DOMAIN stack[t], stack[t][k].kind # "chain"
      PROVE  stack[t][k].input \in live[t] \cup {0}
  <2>1. /\ DOMAIN stack[t] = 1..Len(stack[t]) /\ Len(stack[t]) \in Nat
        /\ stack[t][k] \in FunctionFrames
    BY <1>4, TypesSplit, StackFrames
  <2>2. CASE stack[t][k].kind = "processor"
    <3>1. InputOf(stack[t][k]) = stack[t][k].input
      BY <2>2 DEF InputOf
    <3>2. QED
      BY <1>3, <3>1
  <2>3. CASE stack[t][k].kind = "order"
    <3>1. k > 1 /\ stack[t][k].input = InputOf(stack[t][k - 1])
      BY <1>2, <2>3 DEF Linked, InputsLent
    <3>2. k - 1 \in DOMAIN stack[t]
      BY <2>1, <3>1
    <3>3. QED
      BY <1>3, <3>1, <3>2
  <2>4. QED
    BY <2>1, <2>2, <2>3 DEF FunctionFrames
<1>5. QED
  BY <1>2, <1>3, <1>4 DEF InputsFreed

(* As long as no chain is entered while it runs, every copy of a message   *)
(* is freed by the activation it was made for, once and after the function *)
(* that runs on it has returned.                                           *)
THEOREM InputsFreedOnce == Spec /\ []EnteredOnce => []InputsFreed
<1>1. Init => AllAccounts
  BY AccountsInit
<1>2. TypeOK /\ Linked /\ EnteredOnce /\ AllAccounts /\ [Next]_vars => AllAccounts'
  BY AccountsStep
<1>3. TypeOK /\ Linked /\ AllAccounts => InputsFreed
  BY AccountsMean
<1>4. QED
  BY <1>1, <1>2, <1>3, AlwaysLinked, PTL DEF Spec

-----------------------------------------------------------------------------
(* Groups of chains that call each other in layers.                        *)

InLayers(s, t, owner, level) ==
  \A k \in DOMAIN s :
    /\ owner[s[k].chain] = t
    /\ s[k].kind # "chain" => s[k].module \in CodeOf(s[k].chain)
    /\ \A j \in DOMAIN s : j < k =>
         /\ level[s[j].chain] <= level[s[k].chain]
         /\ s[k].kind = "chain" => level[s[j].chain] < level[s[k].chain]

AllInLayers(owner, level) == \A t \in Threads : InLayers(stack[t], t, owner, level)

(* What says in which layer an activation is.                              *)
LayerKept(f, g) ==
  /\ g.kind = f.kind /\ g.chain = f.chain
  /\ f.kind # "chain" => g.module = f.module

LEMMA LayersChanges ==
  ASSUME NEW owner, NEW level, StacksTyped, NEW t \in Threads, NEW f \in Frame,
         Changes(t, f), LayerKept(Top(t), f), InLayers(stack[t], t, owner, level)
  PROVE  InLayers(stack'[t], t, owner, level)
<1> DEFINE n == Len(stack[t])
<1>1. /\ n \in Nat \ {0} /\ DOMAIN stack'[t] = 1..n /\ stack'[t][n] = f
      /\ \A i \in 1..(n - 1) : stack'[t][i] = stack[t][i]
  BY ChangesEffect
<1>2. DOMAIN stack[t] = 1..n /\ Top(t) = stack[t][n]
  BY StackFrames DEF Top
<1> HIDE DEF n
<1>3. \A k \in 1..n : LayerKept(stack[t][k], stack'[t][k])
  <2> TAKE k \in 1..n
  <2>1. k = n \/ k \in 1..(n - 1)
    BY <1>1
  <2>2. QED
    BY <1>1, <1>2, <2>1 DEF LayerKept
<1>4. QED
  BY <1>1, <1>2, <1>3 DEF InLayers, LayerKept

LEMMA LayersLeaves ==
  ASSUME NEW owner, NEW level, StacksTyped, NEW t \in Threads, Leaves(t),
         InLayers(stack[t], t, owner, level)
  PROVE  InLayers(stack'[t], t, owner, level)
<1> DEFINE n == Len(stack[t])
<1>1. /\ n \in Nat \ {0} /\ DOMAIN stack'[t] = 1..(n - 1)
      /\ \A i \in 1..(n - 1) : stack'[t][i] = stack[t][i]
  BY LeavesEffect
<1>2. DOMAIN stack[t] = 1..n
  BY StackFrames
<1> HIDE DEF n
<1>3. 1..(n - 1) \subseteq 1..n
  BY <1>1
<1>4. QED
  BY <1>1, <1>2, <1>3 DEF InLayers

LEMMA LayersEnters ==
  ASSUME NEW owner, NEW level \in [Chains -> Nat], StacksTyped, NEW t \in Threads,
         NEW f \in Frame, NEW g \in Frame, Enters(t, f, g), LayerKept(Top(t), f),
         InLayers(stack[t], t, owner, level), owner[g.chain] = owner[Top(t).chain],
         IF g.kind = "chain" THEN level[g.chain] > level[Top(t).chain]
                             ELSE g.chain = Top(t).chain /\ g.module \in CodeOf(g.chain)
  PROVE  InLayers(stack'[t], t, owner, level)
<1> DEFINE n == Len(stack[t])
<1>1. /\ n \in Nat \ {0} /\ DOMAIN stack'[t] = 1..(n + 1)
      /\ stack'[t][n] = f /\ stack'[t][n + 1] = g
      /\ \A i \in 1..(n - 1) : stack'[t][i] = stack[t][i]
  BY EntersEffect
<1>2. /\ DOMAIN stack[t] = 1..n /\ Top(t) = stack[t][n]
      /\ \A k \in 1..n : stack[t][k].chain \in Chains
  BY StackFrames DEF Top
<1>3. g.chain \in Chains
  BY DEF Frame, ChainFrames, FunctionFrames
<1> HIDE DEF n
<1>4. \A k \in 1..n : LayerKept(stack[t][k], stack'[t][k])
  <2> TAKE k \in 1..n
  <2>1. k = n \/ k \in 1..(n - 1)
    BY <1>1
  <2>2. QED
    BY <1>1, <1>2, <2>1 DEF LayerKept
<1>5. n \in 1..n
  BY <1>1
<1>6. ASSUME NEW k \in 1..n
      PROVE  /\ owner[stack'[t][k].chain] = t
             /\ stack'[t][k].kind # "chain" => stack'[t][k].module \in CodeOf(stack'[t][k].chain)
             /\ \A j \in 1..n : j < k =>
                  /\ level[stack'[t][j].chain] <= level[stack'[t][k].chain]
                  /\ stack'[t][k].kind = "chain" =>
                       level[stack'[t][j].chain] < level[stack'[t][k].chain]
  BY <1>2, <1>4 DEF InLayers, LayerKept
<1>7. ASSUME NEW j \in 1..n
      PROVE  level[stack[t][j].chain] <= level[Top(t).chain]
  <2>1. j < n \/ j = n
    BY <1>1
  <2>2. j < n => level[stack[t][j].chain] <= level[stack[t][n].chain]
    BY <1>2, <1>5 DEF InLayers
  <2>3. level[stack[t][n].chain] \in Nat
    BY <1>2, <1>5
  <2>4. QED
    BY <1>2, <2>1, <2>2, <2>3
<1>8. ASSUME NEW j \in 1..n
      PROVE  /\ level[stack'[t][j].chain] <= level[g.chain]
             /\ g.kind = "chain" => level[stack'[t][j].chain] < level[g.chain]
  <2>1. stack'[t][j].chain = stack[t][j].chain
    BY <1>4 DEF LayerKept
  <2>2. /\ level[stack[t][j].chain] \in Nat /\ level[Top(t).chain] \in Nat
        /\ level[g.chain] \in Nat
    BY <1>2, <1>3, <1>5
  <2>3. level[stack[t][j].chain] <= level[Top(t).chain]
    BY <1>7
  <2>4. QED
    BY <2>1, <2>2, <2>3
<1>9. owner[g.chain] = t
  BY <1>2, <1>5 DEF InLayers
<1>10. /\ \A k \in 1..(n + 1) : k \in 1..n \/ k = n + 1
       /\ \A k \in 1..n : k # n + 1
  BY <1>1
<1>11. \A j \in 1..(n + 1) : \A k \in 1..n : j < k => j \in 1..n
  BY <1>1
<1>12. ASSUME NEW k \in 1..(n + 1)
       PROVE  /\ owner[stack'[t][k].chain] = t
              /\ stack'[t][k].kind # "chain" => stack'[t][k].module \in CodeOf(stack'[t][k].chain)
              /\ \A j \in 1..(n + 1) : j < k =>
                   /\ level[stack'[t][j].chain] <= level[stack'[t][k].chain]
                   /\ stack'[t][k].kind = "chain" =>
                        level[stack'[t][j].chain] < level[stack'[t][k].chain]
  <2>1. CASE k \in 1..n
    BY <1>6, <1>11, <2>1
  <2>2. CASE k = n + 1
    <3>1. \A j \in 1..(n + 1) : j < n + 1 => j \in 1..n
      BY <1>1
    <3>2. QED
      BY <1>1, <1>8, <1>9, <2>2, <3>1
  <2>3. QED
    BY <1>10, <2>1, <2>2
<1>13. QED
  BY <1>1, <1>12 DEF InLayers

LEMMA LayersStep ==
  ASSUME NEW owner, NEW level, Layered(owner, level),
         TypeOK, Linked, AllInLayers(owner, level), [Next]_vars
  PROVE  \A t \in Threads : InLayers(stack'[t], t, owner, level)
<1> USE TypesSplit
<1>0. /\ \A t \in Threads : InLayers(stack[t], t, owner, level)
      /\ level \in [Chains -> Nat]
  BY DEF AllInLayers, Layered
<1>1. ASSUME NEW t \in Threads, \A u \in Threads \ {t} : stack'[u] = stack[u],
             InLayers(stack'[t], t, owner, level)
      PROVE  \A u \in Threads : InLayers(stack'[u], u, owner, level)
  BY <1>0, <1>1
<1>2. ASSUME NEW t \in Threads, NEW f \in Frame, Changes(t, f), LayerKept(Top(t), f)
      PROVE  \A u \in Threads : InLayers(stack'[u], u, owner, level)
  BY <1>0, <1>1, <1>2, ChangesEffect, LayersChanges
<1>3. ASSUME NEW t \in Threads, PrepareInput(t) \/ SkipOrder(t) \/ FreeInput(t)
      PROVE  \A u \in Threads : InLayers(stack'[u], u, owner, level)
  <2>1. PICK g \in ChainFrames :
          /\ Changes(t, g)
          /\ \/ g = [Top(t) EXCEPT !.at = "call"]
             \/ g = [Top(t) EXCEPT !.order = @ + 1]
             \/ g = [Top(t) EXCEPT !.order = @ + 1, !.at = "next"]
    BY <1>3, PrepareShape, SkipShape, FreeShape
  <2>2. Top(t) \in ChainFrames
    BY <1>3, ChainOnTop DEF PrepareInput, SkipOrder, FreeInput
  <2>3. LayerKept(Top(t), g) /\ g \in Frame
    BY <2>1, <2>2 DEF LayerKept, Frame, ChainFrames
  <2>4. QED
    BY <1>2, <2>1, <2>3
<1>4. ASSUME NEW t \in Threads, Issues(t)
      PROVE  /\ Issued(Top(t)) \in Frame /\ LayerKept(Top(t), Issued(Top(t)))
             /\ Top(t).kind # "chain" /\ stack[t] # <<>>
  BY <1>4, IssuesShape DEF Frame, LayerKept
<1>5. ASSUME NEW t \in Threads, ProcessorUnreachable(t) \/ InterpretCommand(t)
      PROVE  \A u \in Threads : InLayers(stack'[u], u, owner, level)
  BY <1>2, <1>4, <1>5, IssueShape
<1>6. ASSUME NEW t \in Threads, OrderReturns(t) \/ ProcessorReturns(t) \/ FinishChain(t)
      PROVE  \A u \in Threads : InLayers(stack'[u], u, owner, level)
  BY <1>0, <1>1, <1>6, ReturnShape, LeavesEffect, LayersLeaves
<1>7. ASSUME NEW t \in Threads, NEW f \in Frame, NEW g \in Frame, Enters(t, f, g),
             LayerKept(Top(t), f), owner[g.chain] = owner[Top(t).chain],
             IF g.kind = "chain" THEN level[g.chain] > level[Top(t).chain]
                                 ELSE g.chain = Top(t).chain /\ g.module \in CodeOf(g.chain)
      PROVE  \A u \in Threads : InLayers(stack'[u], u, owner, level)
  <2>1. InLayers(stack'[t], t, owner, level)
    BY <1>0, <1>7, LayersEnters
  <2>2. QED
    BY <1>1, <1>7, <2>1, EntersEffect
<1>8. ASSUME NEW t \in Threads, CallOrder(t)
      PROVE  \A u \in Threads : InLayers(stack'[u], u, owner, level)
  <2>1. PICK g \in ChainFrames, h \in FunctionFrames :
          /\ Enters(t, g, h) /\ g = [Top(t) EXCEPT !.at = "free"]
          /\ h.kind = "order" /\ h.chain = Top(t).chain
          /\ h.module = Orders[Top(t).chain][Top(t).order].module
    BY <1>8, CallShape
  <2>2. /\ Top(t) \in ChainFrames /\ Top(t).chain \in Chains
        /\ Top(t).order \in DOMAIN Orders[Top(t).chain]
    BY <1>8, ChainOnTop, OrdersTyped DEF CallOrder
  <2>3. h.module \in CodeOf(h.chain)
    BY <2>1, <2>2 DEF CodeOf
  <2>4. LayerKept(Top(t), g) /\ g \in Frame /\ h \in Frame
    BY <2>1, <2>2 DEF LayerKept, Frame, ChainFrames
  <2>5. QED
    BY <1>7, <2>1, <2>3, <2>4
<1>9. ASSUME NEW t \in Threads, CallProcessor(t)
      PROVE  \A u \in Threads : InLayers(stack'[u], u, owner, level)
  <2> DEFINE c == cur_chain[t]
             k == current_eo[c]
             id == current_cmd_proc_id[c] + 1
  <2>1. /\ c \in Chains /\ Issues(t) /\ k \in 1..Len(Orders[c])
        /\ id \in 1..Len(Processors(c, k))
    BY <1>9, ProcessorShape
  <2>2. PICK h \in FunctionFrames :
          /\ Enters(t, Issued(Top(t)), h) /\ h.kind = "processor" /\ h.chain = c
          /\ h.module = Processors(c, k)[id]
    BY <1>9, ProcessorShape
  <2> HIDE DEF k, id
  <2>3. k \in DOMAIN Orders[c] /\ id \in DOMAIN Processors(c, k)
    BY <2>1, OrdersTyped
  <2>4. h.module \in CodeOf(h.chain)
    BY <2>2, <2>3 DEF CodeOf
  <2>5. c = Top(t).chain
    BY <1>4, <2>1 DEF Linked
  <2>6. h \in Frame
    BY DEF Frame
  <2>7. QED
    BY <1>4, <1>7, <2>1, <2>2, <2>4, <2>5, <2>6
<1>10. ASSUME NEW t \in Threads, RunChain(t)
       PROVE  \A u \in Threads : InLayers(stack'[u], u, owner, level)
  <2>1. PICK d \in Chains : \E g \in ChainFrames :
          /\ <<Top(t).module, d>> \in Nested
          /\ Enters(t, Issued(Top(t)), g) /\ OrderNamed(g) /\ g.chain = d
          /\ g.previous = cur_chain[t] /\ g.at = "next"
          /\ cur_chain' = [cur_chain EXCEPT ![t] = d]
    BY <1>10, RunShape
  <2>2. PICK g \in ChainFrames :
          <<Top(t).module, d>> \in Nested /\ Enters(t, Issued(Top(t)), g) /\ g.chain = d
    BY <2>1
  <2>3. Issues(t)
    BY <1>10 DEF RunChain
  <2>4. /\ Top(t) = stack[t][Len(stack[t])] /\ Len(stack[t]) \in DOMAIN stack[t]
        /\ Top(t).chain \in Chains
    BY <1>4, <2>3, StackFrames, TopAndBelow
  <2>5. Top(t).module \in CodeOf(Top(t).chain)
    <3>1. Top(t).kind # "chain" /\ InLayers(stack[t], t, owner, level)
      BY <1>0, <1>4, <2>3
    <3>2. QED
      BY <2>4, <3>1 DEF InLayers
  <2>6. owner[d] = owner[Top(t).chain] /\ level[d] > level[Top(t).chain]
    BY <2>2, <2>4, <2>5 DEF Layered
  <2>7. g \in Frame /\ g.kind = "chain"
    BY DEF Frame, ChainFrames
  <2>8. QED
    BY <1>4, <1>7, <2>2, <2>3, <2>6, <2>7
<1>11. ASSUME NEW t \in Threads, StartChain(t)
       PROVE  \A u \in Threads : InLayers(stack'[u], u, owner, level)
  <2>0. PICK c \in Starts[t] : \E f \in ChainFrames :
          /\ c \in Chains /\ Begins(t, f) /\ OrderNamed(f) /\ f.chain = c
          /\ f.previous = cur_chain[t] /\ f.at = "next"
          /\ cur_chain' = [cur_chain EXCEPT ![t] = c]
    BY <1>11, StartShape
  <2>1. PICK f \in ChainFrames : Begins(t, f) /\ f.chain = c
    BY <2>0
  <2>2. f \in Frame /\ f.kind = "chain" /\ owner[f.chain] = t
    BY <2>1 DEF Frame, ChainFrames, Layered
  <2>3. /\ DOMAIN stack'[t] = 1..1 /\ stack'[t][1] = f
        /\ \A u \in Threads \ {t} : stack'[u] = stack[u]
    BY <2>1, <2>2, BeginsEffect
  <2>4. InLayers(stack'[t], t, owner, level)
    BY <2>2, <2>3 DEF InLayers
  <2>5. QED
    BY <1>1, <2>3, <2>4
<1>12. CASE UNCHANGED vars
  BY <1>0, <1>12 DEF vars
<1>13. QED
  BY <1>3, <1>5, <1>6, <1>8, <1>9, <1>10, <1>11, <1>12 DEF Next

LEMMA LayersMean ==
  ASSUME NEW owner, NEW level, Layered(owner, level), TypeOK, AllInLayers(owner, level)
  PROVE  EnteredOnce
<1> SUFFICES ASSUME NEW t \in Threads, NEW u \in Threads,
                    NEW j \in DOMAIN stack[t], NEW k \in DOMAIN stack[u],
                    stack[t][j].kind = "chain", stack[u][k].kind = "chain",
                    stack[t][j].chain = stack[u][k].chain
             PROVE  t = u /\ j = k
  BY DEF EnteredOnce
<1>1. t = u
  BY DEF AllInLayers, InLayers
<1>2. /\ j \in Nat /\ k \in Nat /\ stack[t][j].chain \in Chains
  BY TypesSplit, StackFrames
<1>3. level[stack[t][j].chain] \in Nat
  BY <1>2 DEF Layered
<1>4. ~ (j < k) /\ ~ (k < j)
  BY <1>1, <1>3 DEF AllInLayers, InLayers
<1>5. QED
  BY <1>1, <1>2, <1>4

(* In a group whose chains belong to one thread each and whose modules     *)
(* execute only chains of a higher level, no chain is entered while it     *)
(* runs.                                                                   *)
THEOREM LayersEnterOnce ==
  ASSUME NEW owner, NEW level, Layered(owner, level)
  PROVE  Spec => []EnteredOnce
<1>1. Init => AllInLayers(owner, level)
  BY DEF Init, AllInLayers, InLayers
<1>2. TypeOK /\ Linked /\ AllInLayers(owner, level) /\ [Next]_vars => AllInLayers(owner, level)'
  BY LayersStep DEF AllInLayers
<1>3. TypeOK /\ AllInLayers(owner, level) => EnteredOnce
  BY LayersMean
<1>4. QED
  BY <1>1, <1>2, <1>3, AlwaysLinked, PTL DEF Spec

(* Such a group frees every copy of a message once.                        *)
THEOREM LayersFreeInputs ==
  ASSUME NEW owner, NEW level, Layered(owner, level)
  PROVE  Spec => []InputsFreed
BY LayersEnterOnce, InputsFreedOnce, PTL

-----------------------------------------------------------------------------
(* Commands pass the processor of their order.                             *)

OneProcessor == \A c \in Chains : \A k \in DOMAIN Orders[c] : Len(Processors(c, k)) <= 1

(* While an order's function runs, its chain says so, and which processors *)
(* are in use; the processor runs right above the function whose command   *)
(* it handles.                                                             *)
Cascades(s, eo, id) ==
  \A k \in DOMAIN s :
    /\ s[k].kind = "order" =>
         /\ eo[s[k].chain] = s[k].order /\ s[k].seen = {}
         /\ s[k].module = Orders[s[k].chain][s[k].order].module
         /\ id[s[k].chain] = IF k + 1 \in DOMAIN s /\ s[k + 1].kind = "processor" THEN 1 ELSE 0
    /\ s[k].kind = "processor" =>
         /\ s[k - 1].kind = "order" /\ s[k - 1].order = s[k].order /\ s[k].seen = {1}
         /\ Len(Processors(s[k].chain, s[k].order)) = 1

AllCascades == \A t \in Threads : Cascades(stack[t], current_eo, current_cmd_proc_id)

(* Every order's function runs right above its chain, so that no two of    *)
(* them are of the same chain.                                             *)
LEMMA OneOrder ==
  ASSUME TypeOK, Linked, EnteredOnce, AllAccounts, NEW t \in Threads, NEW u \in Threads,
         NEW j \in DOMAIN stack[t], NEW k \in DOMAIN stack[u], stack[u][k].kind = "order",
         stack[t][j].chain = stack[u][k].chain
  PROVE  /\ stack[t][j].kind = "order" => t = u /\ j = k
         /\ stack[t][j].kind = "chain" => t = u /\ k = j + 1 /\ stack[t][j].at = "free"
<1>1. /\ DOMAIN stack[t] = 1..Len(stack[t]) /\ Len(stack[t]) \in Nat
      /\ DOMAIN stack[u] = 1..Len(stack[u]) /\ Len(stack[u]) \in Nat
  BY TypesSplit, StackFrames
<1>2. /\ k > 1 /\ stack[u][k - 1].chain = stack[u][k].chain
      /\ stack[u][k - 1].kind = "chain" /\ stack[u][k - 1].at = "free"
  BY DEF Linked, AllAccounts, Accounts, Lent
<1>3. k - 1 \in DOMAIN stack[u]
  BY <1>1, <1>2
<1>4. CASE stack[t][j].kind = "chain"
  <2>1. t = u /\ j = k - 1
    BY <1>2, <1>3, <1>4 DEF EnteredOnce
  <2>2. QED
    BY <1>1, <1>2, <1>4, <2>1
<1>5. CASE stack[t][j].kind = "order"
  <2>1. j > 1 /\ stack[t][j - 1].chain = stack[t][j].chain /\ stack[t][j - 1].kind = "chain"
    BY <1>5 DEF Linked, AllAccounts, Accounts, Lent
  <2>2. j - 1 \in DOMAIN stack[t]
    BY <1>1, <2>1
  <2>3. t = u /\ j - 1 = k - 1
    BY <1>2, <1>3, <2>1, <2>2 DEF EnteredOnce
  <2>4. QED
    BY <1>1, <1>5, <2>3
<1>6. QED
  BY <1>4, <1>5

(* The running orders of s are as far as they were.                        *)
Steady(s) ==
  \A k \in DOMAIN s : s[k].kind = "order" =>
    /\ current_eo'[s[k].chain] = current_eo[s[k].chain]
    /\ current_cmd_proc_id'[s[k].chain] = current_cmd_proc_id[s[k].chain]

LEMMA CascadesSteady ==
  ASSUME NEW s, Steady(s), Cascades(s, current_eo, current_cmd_proc_id)
  PROVE  Cascades(s, current_eo', current_cmd_proc_id')
BY DEF Steady, Cascades

FunctionKept(f, g) ==
  /\ g.kind = f.kind /\ g.chain = f.chain
  /\ f.kind # "chain" => g.order = f.order /\ g.seen = f.seen /\ g.module = f.module

LEMMA CascadesChanges ==
  ASSUME StacksTyped, Linked, NEW t \in Threads, NEW f \in Frame, Changes(t, f),
         FunctionKept(Top(t), f), Steady(stack[t]),
         Cascades(stack[t], current_eo, current_cmd_proc_id)
  PROVE  Cascades(stack'[t], current_eo', current_cmd_proc_id')
<1> DEFINE n == Len(stack[t])
<1>1. /\ n \in Nat \ {0} /\ DOMAIN stack'[t] = 1..n /\ stack'[t][n] = f
      /\ \A i \in 1..(n - 1) : stack'[t][i] = stack[t][i]
  BY ChangesEffect
<1>2. DOMAIN stack[t] = 1..n /\ Top(t) = stack[t][n]
  BY StackFrames DEF Top
<1>3. Cascades(stack[t], current_eo', current_cmd_proc_id')
  BY CascadesSteady
<1> HIDE DEF n
<1>4. \A k \in 1..n : FunctionKept(stack[t][k], stack'[t][k])
  <2> TAKE k \in 1..n
  <2>1. k = n \/ k \in 1..(n - 1)
    BY <1>1
  <2>2. QED
    BY <1>1, <1>2, <2>1 DEF FunctionKept
<1>5. ASSUME NEW k \in 1..n, stack[t][k].kind = "processor"
      PROVE  k - 1 \in 1..(n - 1) /\ stack'[t][k - 1] = stack[t][k - 1]
  <2>1. k > 1
    BY <1>2, <1>5 DEF Linked
  <2>2. QED
    BY <1>1, <2>1
<1>6. ASSUME NEW k \in 1..n, k + 1 \in 1..n
      PROVE  stack'[t][k + 1].kind = stack[t][k + 1].kind
  BY <1>4, <1>6 DEF FunctionKept
<1>7. ASSUME NEW k \in 1..n, stack'[t][k].kind = "order"
      PROVE  /\ current_eo'[stack'[t][k].chain] = stack'[t][k].order /\ stack'[t][k].seen = {}
             /\ stack'[t][k].module = Orders[stack'[t][k].chain][stack'[t][k].order].module
             /\ current_cmd_proc_id'[stack'[t][k].chain] =
                  IF k + 1 \in 1..n /\ stack'[t][k + 1].kind = "processor" THEN 1 ELSE 0
  <2>1. /\ stack[t][k].kind = "order" /\ stack'[t][k].chain = stack[t][k].chain
        /\ stack'[t][k].order = stack[t][k].order /\ stack'[t][k].seen = stack[t][k].seen
        /\ stack'[t][k].module = stack[t][k].module
    BY <1>4, <1>7 DEF FunctionKept
  <2>2. /\ current_eo'[stack[t][k].chain] = stack[t][k].order /\ stack[t][k].seen = {}
        /\ stack[t][k].module = Orders[stack[t][k].chain][stack[t][k].order].module
        /\ current_cmd_proc_id'[stack[t][k].chain] =
             IF k + 1 \in 1..n /\ stack[t][k + 1].kind = "processor" THEN 1 ELSE 0
    BY <1>2, <1>3, <2>1 DEF Cascades
  <2>3. QED
    BY <1>6, <2>1, <2>2
<1>8. ASSUME NEW k \in 1..n, stack'[t][k].kind = "processor"
      PROVE  /\ stack'[t][k - 1].kind = "order" /\ stack'[t][k - 1].order = stack'[t][k].order
             /\ stack'[t][k].seen = {1}
             /\ Len(Processors(stack'[t][k].chain, stack'[t][k].order)) = 1
  <2>1. /\ stack[t][k].kind = "processor" /\ stack'[t][k].chain = stack[t][k].chain
        /\ stack'[t][k].order = stack[t][k].order /\ stack'[t][k].seen = stack[t][k].seen
    BY <1>4, <1>8 DEF FunctionKept
  <2>2. stack'[t][k - 1] = stack[t][k - 1]
    BY <1>5, <2>1
  <2>3. QED
    BY <1>2, <1>3, <2>1, <2>2 DEF Cascades
<1>9. QED
  BY <1>1, <1>7, <1>8 DEF Cascades

LEMMA CascadesEnters ==
  ASSUME StacksTyped, Linked, NEW t \in Threads, NEW f \in Frame, NEW g \in Frame,
         Enters(t, f, g), FunctionKept(Top(t), f),
         Cascades(stack[t], current_eo, current_cmd_proc_id),
         \A k \in 1..Len(stack[t]) : stack[t][k].kind = "order" =>
           /\ current_eo'[stack[t][k].chain] = current_eo[stack[t][k].chain]
           /\ current_cmd_proc_id'[stack[t][k].chain] =
                IF k = Len(stack[t]) THEN (IF g.kind = "processor" THEN 1 ELSE 0)
                                     ELSE current_cmd_proc_id[stack[t][k].chain],
         g.kind = "order" =>
           /\ current_eo'[g.chain] = g.order /\ g.seen = {}
           /\ g.module = Orders[g.chain][g.order].module
           /\ current_cmd_proc_id'[g.chain] = 0,
         g.kind = "processor" =>
           /\ Top(t).kind = "order" /\ Top(t).order = g.order /\ g.seen = {1}
           /\ Len(Processors(g.chain, g.order)) = 1
  PROVE  Cascades(stack'[t], current_eo', current_cmd_proc_id')
<1> DEFINE n == Len(stack[t])
<1>1. /\ n \in Nat \ {0} /\ DOMAIN stack'[t] = 1..(n + 1)
      /\ stack'[t][n] = f /\ stack'[t][n + 1] = g
      /\ \A i \in 1..(n - 1) : stack'[t][i] = stack[t][i]
  BY EntersEffect
<1>2. DOMAIN stack[t] = 1..n /\ Top(t) = stack[t][n]
  BY StackFrames DEF Top
<1>3. \A k \in 1..n : stack[t][k].kind = "order" =>
        /\ current_eo'[stack[t][k].chain] = current_eo[stack[t][k].chain]
        /\ current_cmd_proc_id'[stack[t][k].chain] =
             IF k = n THEN (IF g.kind = "processor" THEN 1 ELSE 0)
                      ELSE current_cmd_proc_id[stack[t][k].chain]
  OBVIOUS
<1> HIDE DEF n
<1>4. \A k \in 1..n : FunctionKept(stack[t][k], stack'[t][k])
  <2> TAKE k \in 1..n
  <2>1. k = n \/ k \in 1..(n - 1)
    BY <1>1
  <2>2. QED
    BY <1>1, <1>2, <2>1 DEF FunctionKept
<1>5. ASSUME NEW k \in 1..n, stack'[t][k].kind = "order"
      PROVE  /\ current_eo'[stack'[t][k].chain] = stack'[t][k].order /\ stack'[t][k].seen = {}
             /\ stack'[t][k].module = Orders[stack'[t][k].chain][stack'[t][k].order].module
             /\ current_cmd_proc_id'[stack'[t][k].chain] =
                  IF k + 1 \in 1..(n + 1) /\ stack'[t][k + 1].kind = "processor" THEN 1 ELSE 0
  <2>1. /\ stack[t][k].kind = "order" /\ stack'[t][k].chain = stack[t][k].chain
        /\ stack'[t][k].order = stack[t][k].order /\ stack'[t][k].seen = stack[t][k].seen
        /\ stack'[t][k].module = stack[t][k].module
    BY <1>4, <1>5 DEF FunctionKept
  <2>2. /\ current_eo[stack[t][k].chain] = stack[t][k].order /\ stack[t][k].seen = {}
        /\ stack[t][k].module = Orders[stack[t][k].chain][stack[t][k].order].module
        /\ current_cmd_proc_id[stack[t][k].chain] =
             IF k + 1 \in 1..n /\ stack[t][k + 1].kind = "processor" THEN 1 ELSE 0
    BY <1>2, <2>1 DEF Cascades
  <2>3. k + 1 \in 1..(n + 1)
    BY <1>1
  <2>4. CASE k = n
    BY <1>1, <1>3, <2>1, <2>2, <2>3, <2>4
  <2>5. CASE k # n
    <3>1. k + 1 \in 1..n
      BY <1>1, <2>5
    <3>2. stack'[t][k + 1].kind = stack[t][k + 1].kind
      BY <1>4, <3>1 DEF FunctionKept
    <3>3. QED
      BY <1>3, <2>1, <2>2, <2>3, <2>5, <3>1, <3>2
  <2>6. QED
    BY <2>4, <2>5
<1>6. ASSUME NEW k \in 1..n, stack'[t][k].kind = "processor"
      PROVE  /\ stack'[t][k - 1].kind = "order" /\ stack'[t][k - 1].order = stack'[t][k].order
             /\ stack'[t][k].seen = {1}
             /\ Len(Processors(stack'[t][k].chain, stack'[t][k].order)) = 1
  <2>1. /\ stack[t][k].kind = "processor" /\ stack'[t][k].chain = stack[t][k].chain
        /\ stack'[t][k].order = stack[t][k].order /\ stack'[t][k].seen = stack[t][k].seen
    BY <1>4, <1>6 DEF FunctionKept
  <2>2. k > 1
    BY <1>2, <2>1 DEF Linked
  <2>3. stack'[t][k - 1] = stack[t][k - 1]
    BY <1>1, <2>2
  <2>4. QED
    BY <1>2, <2>1, <2>3 DEF Cascades
<1>7. g.kind = "order" =>
        /\ current_eo'[g.chain] = g.order /\ g.seen = {}
        /\ g.module = Orders[g.chain][g.order].module
        /\ current_cmd_proc_id'[g.chain] = 0
  OBVIOUS
<1>8. g.kind = "processor" =>
        /\ stack'[t][n].kind = "order" /\ stack'[t][n].order = g.order /\ g.seen = {1}
        /\ Len(Processors(g.chain, g.order)) = 1
  BY <1>1, <1>2 DEF FunctionKept
<1>9. /\ \A k \in 1..(n + 1) : k \in 1..n \/ k = n + 1
      /\ (n + 1) - 1 = n /\ (n + 1) + 1 \notin 1..(n + 1)
  BY <1>1
<1>10. ASSUME NEW k \in 1..(n + 1), stack'[t][k].kind = "order"
       PROVE  /\ current_eo'[stack'[t][k].chain] = stack'[t][k].order /\ stack'[t][k].seen = {}
              /\ stack'[t][k].module = Orders[stack'[t][k].chain][stack'[t][k].order].module
              /\ current_cmd_proc_id'[stack'[t][k].chain] =
                   IF k + 1 \in 1..(n + 1) /\ stack'[t][k + 1].kind = "processor" THEN 1 ELSE 0
  <2>1. CASE k = n + 1
    BY <1>1, <1>7, <1>9, <1>10, <2>1
  <2>2. QED
    BY <1>5, <1>9, <1>10, <2>1
<1>11. ASSUME NEW k \in 1..(n + 1), stack'[t][k].kind = "processor"
       PROVE  /\ stack'[t][k - 1].kind = "order" /\ stack'[t][k - 1].order = stack'[t][k].order
              /\ stack'[t][k].seen = {1}
              /\ Len(Processors(stack'[t][k].chain, stack'[t][k].order)) = 1
  <2>1. CASE k = n + 1
    BY <1>1, <1>8, <1>9, <1>11, <2>1
  <2>2. QED
    BY <1>6, <1>9, <1>11, <2>1
<1>12. QED
  BY <1>1, <1>10, <1>11 DEF Cascades

LEMMA CascadesLeaves ==
  ASSUME StacksTyped, Linked, NEW t \in Threads, Leaves(t),
         Cascades(stack[t], current_eo, current_cmd_proc_id),
         \A k \in 1..(Len(stack[t]) - 1) : stack[t][k].kind = "order" =>
           /\ current_eo'[stack[t][k].chain] = current_eo[stack[t][k].chain]
           /\ current_cmd_proc_id'[stack[t][k].chain] =
                IF k = Len(stack[t]) - 1 THEN 0 ELSE current_cmd_proc_id[stack[t][k].chain]
  PROVE  Cascades(stack'[t], current_eo', current_cmd_proc_id')
<1> DEFINE n == Len(stack[t])
<1>1. /\ n \in Nat \ {0} /\ DOMAIN stack'[t] = 1..(n - 1)
      /\ \A i \in 1..(n - 1) : stack'[t][i] = stack[t][i]
  BY LeavesEffect
<1>2. DOMAIN stack[t] = 1..n
  BY StackFrames
<1>3. \A k \in 1..(n - 1) : stack[t][k].kind = "order" =>
        /\ current_eo'[stack[t][k].chain] = current_eo[stack[t][k].chain]
        /\ current_cmd_proc_id'[stack[t][k].chain] =
             IF k = n - 1 THEN 0 ELSE current_cmd_proc_id[stack[t][k].chain]
  OBVIOUS
<1> HIDE DEF n
<1>4. 1..(n - 1) \subseteq 1..n
  BY <1>1
<1>5. ASSUME NEW k \in 1..(n - 1), stack'[t][k].kind = "order"
      PROVE  /\ current_eo'[stack'[t][k].chain] = stack'[t][k].order /\ stack'[t][k].seen = {}
             /\ stack'[t][k].module = Orders[stack'[t][k].chain][stack'[t][k].order].module
             /\ current_cmd_proc_id'[stack'[t][k].chain] =
                  IF k + 1 \in 1..(n - 1) /\ stack'[t][k + 1].kind = "processor" THEN 1 ELSE 0
  <2>1. stack'[t][k] = stack[t][k] /\ k \in 1..n
    BY <1>1, <1>4
  <2>2. /\ current_eo[stack[t][k].chain] = stack[t][k].order /\ stack[t][k].seen = {}
        /\ stack[t][k].module = Orders[stack[t][k].chain][stack[t][k].order].module
        /\ current_cmd_proc_id[stack[t][k].chain] =
             IF k + 1 \in 1..n /\ stack[t][k + 1].kind = "processor" THEN 1 ELSE 0
    BY <1>2, <1>5, <2>1 DEF Cascades
  <2>3. CASE k = n - 1
    <3>1. k + 1 \notin 1..(n - 1)
      BY <1>1, <2>3
    <3>2. QED
      BY <1>3, <1>5, <2>1, <2>2, <2>3, <3>1
  <2>4. CASE k # n - 1
    <3>1. k + 1 \in 1..(n - 1) /\ k + 1 \in 1..n
      BY <1>1, <2>4
    <3>2. stack'[t][k + 1] = stack[t][k + 1]
      BY <1>1, <3>1
    <3>3. QED
      BY <1>3, <1>5, <2>1, <2>2, <2>4, <3>1, <3>2
  <2>5. QED
    BY <2>3, <2>4
<1>6. ASSUME NEW k \in 1..(n - 1), stack'[t][k].kind = "processor"
      PROVE  /\ stack'[t][k - 1].kind = "order" /\ stack'[t][k - 1].order = stack'[t][k].order
             /\ stack'[t][k].seen = {1}
             /\ Len(Processors(stack'[t][k].chain, stack'[t][k].order)) = 1
  <2>1. stack'[t][k] = stack[t][k] /\ k \in 1..n
    BY <1>1, <1>4
  <2>2. k > 1
    BY <1>2, <1>6, <2>1 DEF Linked
  <2>3. stack'[t][k - 1] = stack[t][k - 1]
    BY <1>1, <2>2
  <2>4. QED
    BY <1>2, <1>6, <2>1, <2>3 DEF Cascades
<1>7. QED
  BY <1>1, <1>5, <1>6 DEF Cascades

LEMMA CascadesStep ==
  ASSUME OneProcessor, TypeOK, Linked, EnteredOnce, AllAccounts, AllCascades, [Next]_vars
  PROVE  \A u \in Threads : Cascades(stack'[u], current_eo', current_cmd_proc_id')
<1> DEFINE Goal == \A u \in Threads : Cascades(stack'[u], current_eo', current_cmd_proc_id')
<1> USE TypesSplit
<1>0. /\ \A t \in Threads : Cascades(stack[t], current_eo, current_cmd_proc_id)
      /\ current_eo \in [Chains -> Nat] /\ current_cmd_proc_id \in [Chains -> Nat]
  BY DEF AllCascades, TypeOK
<1>1. ASSUME NEW t \in Threads, \A u \in Threads \ {t} : stack'[u] = stack[u] /\ Steady(stack[u]),
             Cascades(stack'[t], current_eo', current_cmd_proc_id')
      PROVE  Goal
  BY <1>0, <1>1, CascadesSteady
<1>2. ASSUME UNCHANGED <<current_eo, current_cmd_proc_id>>, NEW u \in Threads
      PROVE  Steady(stack[u])
  BY <1>2 DEF Steady
(* No function of the chain on top runs.                                   *)
<1>3. ASSUME NEW t \in Threads, IsIn(t, {"chain"}), NEW u \in Threads,
             NEW k \in DOMAIN stack[u], stack[u][k].kind = "order"
      PROVE  stack[u][k].chain # Top(t).chain
  <2>1. /\ Len(stack[t]) \in DOMAIN stack[t] /\ Top(t) = stack[t][Len(stack[t])]
        /\ DOMAIN stack[t] = 1..Len(stack[t]) /\ Top(t).kind = "chain" /\ Len(stack[t]) \in Nat
    BY <1>3, StackFrames DEF IsIn, Top
  <2>2. Len(stack[t]) + 1 \notin DOMAIN stack[t]
    BY <2>1
  <2>3. QED
    BY <1>3, <2>1, <2>2, OneOrder
<1>4. ASSUME NEW t \in Threads, IsIn(t, {"chain"}), NEW u \in Threads,
             \A c \in Chains \ {Top(t).chain} :
               current_eo'[c] = current_eo[c] /\ current_cmd_proc_id'[c] = current_cmd_proc_id[c]
      PROVE  Steady(stack[u])
  <2> SUFFICES ASSUME NEW k \in DOMAIN stack[u], stack[u][k].kind = "order"
               PROVE  /\ current_eo'[stack[u][k].chain] = current_eo[stack[u][k].chain]
                      /\ current_cmd_proc_id'[stack[u][k].chain] =
                           current_cmd_proc_id[stack[u][k].chain]
    BY DEF Steady
  <2>1. stack[u][k].chain # Top(t).chain
    BY <1>3, <1>4
  <2>2. stack[u][k].chain \in Chains
    BY StackFrames
  <2>3. QED
    BY <1>4, <2>1, <2>2
<1>5. ASSUME NEW t \in Threads, NEW f \in Frame, Changes(t, f), FunctionKept(Top(t), f),
             \A u \in Threads : Steady(stack[u])
      PROVE  Goal
  <2>1. Cascades(stack'[t], current_eo', current_cmd_proc_id')
    BY <1>0, <1>5, CascadesChanges
  <2>2. QED
    BY <1>1, <1>5, <2>1, ChangesEffect
<1>6. ASSUME NEW t \in Threads, PrepareInput(t) \/ SkipOrder(t) \/ FreeInput(t)
      PROVE  Goal
  <2>1. PICK g \in ChainFrames :
          /\ Changes(t, g)
          /\ \/ g = [Top(t) EXCEPT !.at = "call"]
             \/ g = [Top(t) EXCEPT !.order = @ + 1]
             \/ g = [Top(t) EXCEPT !.order = @ + 1, !.at = "next"]
    BY <1>6, PrepareShape, SkipShape, FreeShape
  <2>2. /\ IsIn(t, {"chain"}) /\ UNCHANGED current_cmd_proc_id
        /\ \/ UNCHANGED current_eo
           \/ current_eo' = [current_eo EXCEPT ![Top(t).chain] = 0]
    BY <1>6 DEF PrepareInput, SkipOrder, FreeInput
  <2>3. Top(t) \in ChainFrames
    BY <2>2, ChainOnTop
  <2>4. FunctionKept(Top(t), g) /\ g \in Frame
    BY <2>1, <2>3 DEF FunctionKept, Frame, ChainFrames
  <2>5. \A c \in Chains \ {Top(t).chain} :
          current_eo'[c] = current_eo[c] /\ current_cmd_proc_id'[c] = current_cmd_proc_id[c]
    BY <1>0, <2>2
  <2>6. \A u \in Threads : Steady(stack[u])
    BY <1>4, <2>2, <2>5
  <2>7. QED
    BY <1>5, <2>1, <2>4, <2>6
<1>7. ASSUME NEW t \in Threads, Issues(t)
      PROVE  /\ Issued(Top(t)) \in Frame /\ FunctionKept(Top(t), Issued(Top(t)))
             /\ Issued(Top(t)).kind = Top(t).kind /\ Top(t).kind \in {"order", "processor"}
             /\ stack[t] # <<>> /\ cur_chain[t] = Top(t).chain /\ Top(t).chain \in Chains
             /\ Len(stack[t]) \in DOMAIN stack[t] /\ Top(t) = stack[t][Len(stack[t])]
             /\ DOMAIN stack[t] = 1..Len(stack[t]) /\ Len(stack[t]) \in Nat \ {0}
  <2>1. Issued(Top(t)) \in Frame /\ FunctionKept(Top(t), Issued(Top(t))) /\ stack[t] # <<>>
    BY <1>7, IssuesShape DEF Frame, FunctionKept
  <2>2. /\ Len(stack[t]) \in DOMAIN stack[t] /\ Top(t) = stack[t][Len(stack[t])]
        /\ Top(t).chain \in Chains
        /\ DOMAIN stack[t] = 1..Len(stack[t]) /\ Len(stack[t]) \in Nat \ {0}
    BY <2>1, StackFrames, TopAndBelow
  <2>3. Issued(Top(t)).kind = Top(t).kind /\ Top(t).kind \in {"order", "processor"}
    BY <1>7, <2>1 DEF FunctionKept, Issues, IsIn
  <2>4. cur_chain[t] = Top(t).chain
    BY <2>1 DEF Linked
  <2>5. QED
    BY <2>1, <2>2, <2>3, <2>4
<1>8. ASSUME NEW t \in Threads, ProcessorUnreachable(t) \/ InterpretCommand(t)
      PROVE  Goal
  <2>1. /\ Issues(t) /\ Changes(t, Issued(Top(t)))
        /\ UNCHANGED <<current_eo, current_cmd_proc_id>>
    BY <1>8, IssueShape DEF ProcessorUnreachable, InterpretCommand, chainVars
  <2>2. QED
    BY <1>2, <1>5, <1>7, <2>1
<1>9. ASSUME NEW t \in Threads, StartChain(t)
      PROVE  Goal
  <2>1. PICK f \in ChainFrames : Begins(t, f)
    BY <1>9, StartShape
  <2>2. f \in Frame /\ f.kind = "chain" /\ UNCHANGED <<current_eo, current_cmd_proc_id>>
    BY <1>9 DEF Frame, ChainFrames, StartChain, chainVars
  <2>3. /\ DOMAIN stack'[t] = 1..1 /\ stack'[t][1] = f
        /\ \A u \in Threads \ {t} : stack'[u] = stack[u]
    BY <2>1, <2>2, BeginsEffect
  <2>4. Cascades(stack'[t], current_eo', current_cmd_proc_id')
    BY <2>2, <2>3 DEF Cascades
  <2>5. QED
    BY <1>1, <1>2, <2>2, <2>3, <2>4
<1>10. ASSUME NEW t \in Threads, RunChain(t)
       PROVE  Goal
  <2>1. PICK g \in ChainFrames : Enters(t, Issued(Top(t)), g)
    BY <1>10, RunShape
  <2>2. Issues(t) /\ UNCHANGED <<current_eo, current_cmd_proc_id>>
    BY <1>10 DEF RunChain, chainVars
  <2>3. g \in Frame /\ g.kind = "chain"
    BY DEF Frame, ChainFrames
  <2>4. Top(t).kind = "order" => current_cmd_proc_id[Top(t).chain] = 0
    <3>1. Len(stack[t]) + 1 \notin DOMAIN stack[t]
      BY <1>7, <2>2
    <3>2. QED
      BY <1>0, <1>7, <2>2, <3>1 DEF Cascades
  <2>5. \A k \in 1..Len(stack[t]) : stack[t][k].kind = "order" =>
          /\ current_eo'[stack[t][k].chain] = current_eo[stack[t][k].chain]
          /\ current_cmd_proc_id'[stack[t][k].chain] =
               IF k = Len(stack[t]) THEN (IF g.kind = "processor" THEN 1 ELSE 0)
                                    ELSE current_cmd_proc_id[stack[t][k].chain]
    BY <1>7, <2>2, <2>3, <2>4
  <2>6. Cascades(stack'[t], current_eo', current_cmd_proc_id')
    BY <1>0, <1>7, <2>1, <2>2, <2>3, <2>5, CascadesEnters
  <2>7. \A u \in Threads \ {t} : stack'[u] = stack[u]
    BY <1>7, <2>1, <2>2, <2>3, EntersEffect
  <2>8. \A u \in Threads : Steady(stack[u])
    BY <1>2, <2>2
  <2>9. QED
    BY <1>1, <2>6, <2>7, <2>8
<1>11. ASSUME NEW t \in Threads, CallOrder(t)
       PROVE  Goal
  <2> DEFINE f == Top(t)
  <2>1. PICK g \in ChainFrames, h \in FunctionFrames :
          /\ Enters(t, g, h) /\ g = [f EXCEPT !.at = "free"]
          /\ h.kind = "order" /\ h.chain = f.chain /\ h.order = f.order
          /\ h.module = Orders[f.chain][f.order].module /\ h.seen = {}
    BY <1>11, CallShape
  <2>2. /\ IsIn(t, {"chain"}) /\ f.at = "call"
        /\ current_eo' = [current_eo EXCEPT ![f.chain] = f.order]
        /\ current_cmd_proc_id' = [current_cmd_proc_id EXCEPT ![f.chain] = 0]
    BY <1>11 DEF CallOrder
  <2>3. f \in ChainFrames /\ f.chain \in Chains /\ f.kind = "chain" /\ stack[t] # <<>>
    BY <2>2, ChainOnTop
  <2>4. FunctionKept(f, g) /\ g \in Frame /\ h \in Frame
    BY <2>1, <2>3 DEF FunctionKept, Frame, ChainFrames
  <2>5. \A c \in Chains \ {f.chain} :
          current_eo'[c] = current_eo[c] /\ current_cmd_proc_id'[c] = current_cmd_proc_id[c]
    BY <1>0, <2>2
  <2>6. \A u \in Threads : Steady(stack[u])
    BY <1>4, <2>2, <2>5
  <2>7. current_eo'[f.chain] = f.order /\ current_cmd_proc_id'[f.chain] = 0
    BY <1>0, <2>2, <2>3
  <2>8. DOMAIN stack[t] = 1..Len(stack[t]) /\ stack[t][Len(stack[t])] = f
    BY <2>3, StackFrames, TopAndBelow
  <2>9. \A k \in 1..Len(stack[t]) : stack[t][k].kind = "order" =>
          /\ current_eo'[stack[t][k].chain] = current_eo[stack[t][k].chain]
          /\ current_cmd_proc_id'[stack[t][k].chain] =
               IF k = Len(stack[t]) THEN (IF h.kind = "processor" THEN 1 ELSE 0)
                                    ELSE current_cmd_proc_id[stack[t][k].chain]
    BY <2>3, <2>6, <2>8 DEF Steady
  <2>10. Cascades(stack[t], current_eo, current_cmd_proc_id)
    BY <1>0
  <2>11. h.kind = "order" =>
           /\ current_eo'[h.chain] = h.order /\ h.seen = {}
           /\ h.module = Orders[h.chain][h.order].module
           /\ current_cmd_proc_id'[h.chain] = 0
    BY <2>1, <2>7
  <2>12. Enters(t, g, h) /\ h.kind # "processor"
    BY <2>1
  <2>13. Cascades(stack'[t], current_eo', current_cmd_proc_id')
    BY <2>4, <2>9, <2>10, <2>11, <2>12, CascadesEnters
  <2>14. QED
    BY <1>1, <2>4, <2>6, <2>12, <2>13, EntersEffect
<1>12. ASSUME NEW t \in Threads, CallProcessor(t)
       PROVE  Goal
  <2> DEFINE c == Top(t).chain
             o == Top(t).order
             n == Len(stack[t])
  <2>1. /\ Issues(t) /\ cur_chain[t] = c /\ c \in Chains /\ Top(t) = stack[t][n]
        /\ DOMAIN stack[t] = 1..n /\ n \in Nat \ {0} /\ n \in DOMAIN stack[t]
        /\ Top(t).kind \in {"order", "processor"}
    BY <1>7, <1>12, ProcessorShape
  <2>2. /\ current_eo[c] \in 1..Len(Orders[c])
        /\ current_cmd_proc_id[c] + 1 \in 1..Len(Processors(c, current_eo[c]))
    BY <1>12, <2>1, ProcessorShape
  <2>3. PICK h \in FunctionFrames :
          /\ Enters(t, Issued(Top(t)), h) /\ h.kind = "processor" /\ h.chain = cur_chain[t]
          /\ h.order = current_eo[cur_chain[t]]
          /\ h.seen = Top(t).seen \cup {current_cmd_proc_id[cur_chain[t]] + 1}
    BY <1>12, ProcessorShape
  <2>4. /\ current_cmd_proc_id' =
             [current_cmd_proc_id EXCEPT ![c] = current_cmd_proc_id[c] + 1]
        /\ UNCHANGED current_eo
    BY <1>12, <2>1 DEF CallProcessor
  <2> HIDE DEF c, o, n
  <2>5. Len(Processors(c, current_eo[c])) = 1 /\ current_cmd_proc_id[c] = 0
    <3>1. current_eo[c] \in DOMAIN Orders[c] /\ Len(Processors(c, current_eo[c])) \in Nat
      BY <2>1, <2>2, OrdersTyped
    <3>2. Len(Processors(c, current_eo[c])) <= 1
      BY <2>1, <3>1 DEF OneProcessor
    <3>3. current_cmd_proc_id[c] \in Nat
      BY <1>0, <2>1
    <3>4. ASSUME NEW i \in Nat, NEW l \in Nat, i + 1 \in 1..l, l <= 1
          PROVE  l = 1 /\ i = 0
      BY <3>4
    <3>5. QED
      BY <2>2, <3>1, <3>2, <3>3, <3>4
  <2>6. Top(t).kind = "order"
    <3> SUFFICES ASSUME Top(t).kind = "processor"
                 PROVE  FALSE
      BY <2>1
    <3>0. stack[t][n].kind = "processor" /\ stack[t][n].chain = c
      BY <2>1 DEF c
    <3>1. stack[t][n - 1].kind = "order" /\ stack[t][n - 1].chain = c /\ n > 1
      <4>1. stack[t][n - 1].kind = "order"
        BY <1>0, <2>1, <3>0 DEF Cascades
      <4>2. n > 1 /\ stack[t][n].chain = stack[t][n - 1].chain
        BY <2>1, <3>0 DEF Linked
      <4>3. QED
        BY <3>0, <4>1, <4>2
    <3>2. n - 1 \in 1..n /\ (n - 1) + 1 = n
      BY <2>1, <3>1
    <3>3. current_cmd_proc_id[stack[t][n - 1].chain] =
            IF (n - 1) + 1 \in DOMAIN stack[t] /\ stack[t][(n - 1) + 1].kind = "processor"
            THEN 1 ELSE 0
      BY <1>0, <2>1, <3>1, <3>2 DEF Cascades
    <3>4. QED
      BY <2>1, <2>5, <3>1, <3>2, <3>3
  <2>7. current_eo[c] = o /\ Top(t).seen = {}
    BY <1>0, <2>1, <2>6 DEF Cascades, c, o
  <2>8. /\ h.order = o /\ h.chain = c /\ h.seen = {1} /\ h \in Frame
        /\ Len(Processors(h.chain, h.order)) = 1
    BY <2>1, <2>3, <2>5, <2>7 DEF Frame
  <2>9. /\ current_cmd_proc_id'[c] = 1
        /\ \A d \in Chains \ {c} : current_cmd_proc_id'[d] = current_cmd_proc_id[d]
    BY <1>0, <2>1, <2>4, <2>5
  <2>10. ASSUME NEW u \in Threads, NEW k \in DOMAIN stack[u], stack[u][k].kind = "order",
                u # t \/ k # n
         PROVE  stack[u][k].chain # c /\ stack[u][k].chain \in Chains
    <3>1. stack[u][k].chain \in Chains
      BY StackFrames
    <3>2. stack[t][n].kind = "order" /\ stack[t][n].chain = c
      BY <2>1, <2>6 DEF c
    <3>3. QED
      BY <2>1, <2>10, <3>1, <3>2, OneOrder
  <2>11. \A u \in Threads \ {t} : Steady(stack[u])
    BY <2>4, <2>9, <2>10 DEF Steady
  <2>12. \A k \in 1..n : stack[t][k].kind = "order" =>
           /\ current_eo'[stack[t][k].chain] = current_eo[stack[t][k].chain]
           /\ current_cmd_proc_id'[stack[t][k].chain] =
                IF k = n THEN (IF h.kind = "processor" THEN 1 ELSE 0)
                         ELSE current_cmd_proc_id[stack[t][k].chain]
    <3> SUFFICES ASSUME NEW k \in 1..n, stack[t][k].kind = "order"
                 PROVE  current_cmd_proc_id'[stack[t][k].chain] =
                          IF k = n THEN 1 ELSE current_cmd_proc_id[stack[t][k].chain]
      BY <2>3, <2>4
    <3>1. CASE k = n
      BY <2>1, <2>9, <3>1 DEF c
    <3>2. CASE k # n
      BY <2>1, <2>9, <2>10, <3>2
    <3>3. QED
      BY <3>1, <3>2
  <2>13. /\ Enters(t, Issued(Top(t)), h) /\ h.kind = "processor" /\ h.kind # "order"
         /\ Top(t).order = h.order
    BY <2>3, <2>8 DEF o
  <2>14. Issued(Top(t)) \in Frame /\ FunctionKept(Top(t), Issued(Top(t)))
    BY <1>7, <2>1
  <2>15. Cascades(stack'[t], current_eo', current_cmd_proc_id')
    BY <1>0, <2>6, <2>8, <2>12, <2>13, <2>14, CascadesEnters DEF n
  <2>16. QED
    BY <1>1, <2>8, <2>11, <2>13, <2>14, <2>15, EntersEffect, ZenonT(30)
<1>13. ASSUME NEW t \in Threads, Leaves(t), UNCHANGED <<current_eo, current_cmd_proc_id>>,
              \A k \in 1..(Len(stack[t]) - 1) : stack[t][k].kind = "order" /\ k = Len(stack[t]) - 1 =>
                current_cmd_proc_id[stack[t][k].chain] = 0
       PROVE  Goal
  <2>1. Cascades(stack'[t], current_eo', current_cmd_proc_id')
    BY <1>0, <1>13, CascadesLeaves
  <2>2. QED
    BY <1>1, <1>2, <1>13, <2>1, LeavesEffect
<1>14. ASSUME NEW t \in Threads, OrderReturns(t) \/ FinishChain(t)
       PROVE  Goal
  <2> DEFINE n == Len(stack[t])
  <2>1. /\ Leaves(t) /\ UNCHANGED <<current_eo, current_cmd_proc_id>>
        /\ stack[t] # <<>> /\ Top(t).kind \in {"order", "chain"}
    BY <1>14, ReturnShape DEF OrderReturns, FinishChain, IsIn, chainVars
  <2>2. DOMAIN stack[t] = 1..n /\ n \in Nat \ {0} /\ Top(t) = stack[t][n]
    BY <2>1, StackFrames, TopAndBelow
  <2>3. ASSUME NEW k \in 1..(n - 1), stack[t][k].kind = "order", k = n - 1
        PROVE  current_cmd_proc_id[stack[t][k].chain] = 0
    <3>1. k \in 1..n /\ k + 1 = n
      BY <2>2, <2>3
    <3>2. stack[t][k + 1].kind # "processor"
      BY <2>1, <2>2, <3>1
    <3>3. QED
      BY <1>0, <2>2, <2>3, <3>1, <3>2 DEF Cascades
  <2>4. QED
    BY <1>13, <2>1, <2>3
<1>15. ASSUME NEW t \in Threads, ProcessorReturns(t)
       PROVE  Goal
  <2> DEFINE n == Len(stack[t])
             c == Top(t).chain
             o == Top(t).order
  <2>1. /\ Leaves(t) /\ UNCHANGED current_eo /\ stack[t] # <<>> /\ Top(t).kind = "processor"
        /\ current_cmd_proc_id' = [current_cmd_proc_id EXCEPT ![c] =
             InUseAfter(current_cmd_proc_id[c], Len(Processors(c, o)))]
    BY <1>15, ReturnShape DEF ProcessorReturns, IsIn
  <2>2. /\ DOMAIN stack[t] = 1..n /\ n \in Nat \ {0} /\ n \in 1..n /\ Top(t) = stack[t][n]
        /\ c \in Chains
    BY <2>1, StackFrames, TopAndBelow
  <2>3. /\ n > 1 /\ stack[t][n - 1].kind = "order" /\ stack[t][n - 1].chain = c
        /\ Len(Processors(c, o)) = 1
    <3>1. /\ stack[t][n].kind = "processor" /\ stack[t][n].chain = c /\ stack[t][n].order = o
          /\ n \in DOMAIN stack[t] /\ Cascades(stack[t], current_eo, current_cmd_proc_id)
      BY <1>0, <2>1, <2>2
    <3> HIDE DEF c, o, n
    <3>2. stack[t][n - 1].kind = "order" /\ Len(Processors(c, o)) = 1
      BY <3>1 DEF Cascades
    <3>3. n > 1 /\ stack[t][n].chain = stack[t][n - 1].chain
      BY <3>1 DEF Linked
    <3>4. QED
      BY <3>1, <3>2, <3>3
  <2> HIDE DEF c, o, n
  <2>4. n - 1 \in 1..n /\ (n - 1) + 1 = n
    BY <2>2, <2>3
  <2>5. current_cmd_proc_id[c] = 1
    <3>1. current_cmd_proc_id[stack[t][n - 1].chain] =
            IF (n - 1) + 1 \in DOMAIN stack[t] /\ stack[t][(n - 1) + 1].kind = "processor"
            THEN 1 ELSE 0
      BY <1>0, <2>2, <2>3, <2>4 DEF Cascades
    <3>2. QED
      BY <2>1, <2>2, <2>3, <2>4, <3>1
  <2>6. /\ current_cmd_proc_id'[c] = 0
        /\ \A d \in Chains \ {c} : current_cmd_proc_id'[d] = current_cmd_proc_id[d]
    BY <1>0, <2>1, <2>2, <2>3, <2>5 DEF InUseAfter
  <2>7. ASSUME NEW u \in Threads, NEW k \in DOMAIN stack[u], stack[u][k].kind = "order",
               u # t \/ k # n - 1
        PROVE  stack[u][k].chain # c /\ stack[u][k].chain \in Chains
    <3>1. stack[u][k].chain \in Chains
      BY StackFrames
    <3>2. QED
      BY <2>2, <2>3, <2>4, <2>7, <3>1, OneOrder
  <2>8. \A u \in Threads \ {t} : Steady(stack[u])
    BY <2>1, <2>6, <2>7 DEF Steady
  <2>9. ASSUME NEW k \in 1..(n - 1), stack[t][k].kind = "order"
        PROVE  /\ current_eo'[stack[t][k].chain] = current_eo[stack[t][k].chain]
               /\ current_cmd_proc_id'[stack[t][k].chain] =
                    IF k = n - 1 THEN 0 ELSE current_cmd_proc_id[stack[t][k].chain]
    <3>1. k \in DOMAIN stack[t]
      BY <2>2
    <3>2. CASE k = n - 1
      BY <2>1, <2>3, <2>6, <3>2
    <3>3. CASE k # n - 1
      BY <2>1, <2>6, <2>7, <2>9, <3>1, <3>3
    <3>4. QED
      BY <3>2, <3>3
  <2>10. Cascades(stack'[t], current_eo', current_cmd_proc_id')
    BY <1>0, <2>1, <2>9, CascadesLeaves DEF n
  <2>11. QED
    BY <1>1, <2>1, <2>8, <2>10, LeavesEffect
<1>16. CASE UNCHANGED vars
  BY <1>0, <1>16 DEF vars
<1>17. QED
  BY <1>6, <1>8, <1>9, <1>10, <1>11, <1>12, <1>14, <1>15, <1>16 DEF Next

(* A command that is not sent to a processor has seen them all.            *)
LEMMA SeenAll ==
  ASSUME OneProcessor, TypeOK, Linked, AllCascades, NEW t \in Threads, Issues(t), ~ToProcessor(t)
  PROVE  Top(t).seen = DOMAIN Processors(Top(t).chain, Top(t).order)
<1> DEFINE n == Len(stack[t])
           c == Top(t).chain
           o == Top(t).order
<1>1. /\ stack[t] # <<>> /\ Top(t) \in FunctionFrames /\ Top(t).kind # "chain"
  BY TypesSplit, IssuesShape
<1>2. /\ Top(t) = stack[t][n] /\ DOMAIN stack[t] = 1..n /\ n \in Nat \ {0} /\ n \in 1..n
      /\ c \in Chains /\ OrderNamed(Top(t))
  BY <1>1, TypesSplit, StackFrames, TopAndBelow
<1>3. o \in 1..Len(Orders[c])
  BY <1>1, <1>2 DEF OrderNamed
<1>4. Cascades(stack[t], current_eo, current_cmd_proc_id) /\ cur_chain[t] = c
  BY <1>1 DEF AllCascades, Linked
<1> HIDE DEF c, o, n
<1>5. /\ DOMAIN Processors(c, o) = 1..Len(Processors(c, o)) /\ Len(Processors(c, o)) \in Nat
      /\ o \in Nat \ {0}
  BY <1>2, <1>3, OrdersTyped
<1>6. /\ stack[t][n].chain = c /\ stack[t][n].order = o /\ stack[t][n].kind = Top(t).kind
      /\ stack[t][n].seen = Top(t).seen /\ stack[t][n].module = Top(t).module
  BY <1>2 DEF c, o
<1>7. CASE Top(t).kind = "order"
  <2>1. n + 1 \notin DOMAIN stack[t]
    BY <1>2
  <2>2. /\ current_eo[c] = o /\ Top(t).seen = {} /\ Top(t).module = Orders[c][o].module
        /\ current_cmd_proc_id[c] = 0
    BY <1>2, <1>4, <1>6, <1>7, <2>1 DEF Cascades
  <2>3. c # NoChain
    BY <1>2, ChainsAssumption
  <2>4. ~ (current_cmd_proc_id[c] < Len(Processors(c, o)))
    BY <1>4, <1>5, <2>2, <2>3 DEF ToProcessor
  <2>5. Len(Processors(c, o)) = 0
    BY <1>5, <2>2, <2>4
  <2>6. QED
    BY <1>5, <2>2, <2>5 DEF c, o
<1>8. CASE Top(t).kind = "processor"
  <2>1. Top(t).seen = {1} /\ Len(Processors(c, o)) = 1
    BY <1>2, <1>4, <1>6, <1>8 DEF Cascades
  <2>2. QED
    BY <1>5, <2>1 DEF c, o
<1>9. QED
  BY <1>1, <1>7, <1>8 DEF FunctionFrames

LEMMA CompleteStep ==
  ASSUME OneProcessor, TypeOK, Linked, AllCascades, CascadeComplete, [Next]_vars
  PROVE  CascadeComplete'
<1>1. ASSUME NEW t \in Threads, InterpretCommand(t) \/ RunChain(t)
      PROVE  CascadeComplete'
  <2>1. Issues(t) /\ ~ToProcessor(t) /\ Interpreted(t)
    BY <1>1 DEF InterpretCommand, RunChain
  <2>2. Top(t).seen = DOMAIN Processors(Top(t).chain, Top(t).order)
    BY <2>1, SeenAll
  <2>3. /\ interpreted'[t] = [order |-> <<Top(t).chain, Top(t).order>>, seen |-> Top(t).seen]
        /\ \A u \in Threads \ {t} : interpreted'[u] = interpreted[u]
    BY <2>1 DEF Interpreted, TypeOK
  <2>4. ASSUME NEW u \in Threads, interpreted'[u].order # <<>>
        PROVE  interpreted'[u].seen = DOMAIN Processors(interpreted'[u].order[1],
                                                        interpreted'[u].order[2])
    <3>1. CASE u = t
      BY <2>2, <2>3, <3>1
    <3>2. CASE u # t
      BY <2>3, <2>4, <3>2 DEF CascadeComplete
    <3>3. QED
      BY <3>1, <3>2
  <2>5. QED
    BY <2>4 DEF CascadeComplete, Processors
<1>2. CASE UNCHANGED interpreted
  BY <1>2 DEF CascadeComplete, Processors
<1>3. QED
  BY <1>1, <1>2
  DEF Next, vars, StartChain, PrepareInput, SkipOrder, CallOrder, OrderReturns, FreeInput,
      FinishChain, CallProcessor, ProcessorUnreachable, ProcessorReturns

(* Where orders have one processor at most, and no chain is entered while  *)
(* it runs, every command an order's function issues passes the processor  *)
(* before it is interpreted.                                               *)
THEOREM ProcessorsPassed ==
  ASSUME OneProcessor
  PROVE  Spec /\ []EnteredOnce => []CascadeComplete
<1>1. Init => AllAccounts /\ AllCascades /\ CascadeComplete
  BY AccountsInit DEF Init, AllCascades, Cascades, CascadeComplete
<1>2. TypeOK /\ Linked /\ EnteredOnce /\ AllAccounts /\ [Next]_vars => AllAccounts'
  BY AccountsStep
<1>3. /\ TypeOK /\ Linked /\ EnteredOnce /\ AllAccounts /\ AllCascades /\ [Next]_vars
      => AllCascades'
  BY CascadesStep DEF AllCascades, Cascades, Processors
<1>4. TypeOK /\ Linked /\ AllCascades /\ CascadeComplete /\ [Next]_vars => CascadeComplete'
  BY CompleteStep
<1>5. QED
  BY <1>1, <1>2, <1>3, <1>4, AlwaysLinked, PTL DEF Spec

(* In a layered group, in particular.                                      *)
THEOREM LayersPassProcessors ==
  ASSUME OneProcessor, NEW owner, NEW level, Layered(owner, level)
  PROVE  Spec => []CascadeComplete
BY LayersEnterOnce, ProcessorsPassed, PTL
=============================================================================
