----------------------------- MODULE PlannerProofs -----------------------------
(***************************************************************************)
(* What holds of PlanValidator for every set of plans, whatever order its  *)
(* search takes, and of Planner around it for whatever a model may write,  *)
(* whichever tiers are configured.                                         *)
(***************************************************************************)
EXTENDS Planner, FiniteSetTheorems, WellFoundedInduction, TLAPS

(* Every step well formed, every dependency known, every input complete. *)
Checked(p) ==
  /\ \A s \in DOMAIN p : WellFormed(p[s]) /\ p[s].input = "complete"
  /\ KnownDependencies(p)

Sound(p) ==
  /\ \A s \in DOMAIN p : WellFormed(p[s]) /\ p[s].input = "complete"
  /\ Validated(p)

-------------------------------------------------------------------------------
(* The three loops *)

Looping == phase \in {"steps", "dependencies", "inputs"}

LoopInv ==
  /\ phase \in {"dependencies", "inputs"} => plan # <<>>
  /\ Looping /\ plan # <<>> => at \in DOMAIN plan
  /\ Looping => visited = {} /\ recursion_stack = {} /\ calls = <<>>

(* What the loops have established of the steps behind them. *)
ChecksInv ==
  /\ phase = "steps" =>
       /\ \A s \in DOMAIN plan : s < at => WellFormed(plan[s])
       /\ step_ids = {plan[s].step_id : s \in {t \in DOMAIN plan : t < at}}
  /\ phase \in {"dependencies", "inputs"} =>
       /\ \A s \in DOMAIN plan : WellFormed(plan[s])
       /\ step_ids = IdsOf(plan)
  /\ phase = "dependencies" =>
       \A s \in DOMAIN plan : s < at => plan[s].depends_on \subseteq IdsOf(plan)
  /\ phase = "inputs" =>
       /\ KnownDependencies(plan)
       /\ \A s \in DOMAIN plan : s < at => plan[s].input = "complete"
  /\ phase \in {"cycles", "accepted"} => Checked(plan)


VisitInv == TypeOK /\ LoopInv /\ ChecksInv

LEMMA PlanIsSequence ==
  ASSUME plan \in Seq(RawStep)
  PROVE  /\ Len(plan) \in Nat /\ DOMAIN plan = 1 .. Len(plan)
         /\ plan # <<>> => Len(plan) > 0
         /\ \A s \in DOMAIN plan : plan[s].depends_on \subseteq Ids /\ plan[s].step_id \in IdsOf(plan)
<1>1. \A s \in DOMAIN plan : plan[s] \in RawStep
  OBVIOUS
<1>2. QED
  BY <1>1 DEF RawStep, IdsOf

(* The neighbours of a node of a plan that passed the loops are nodes.      *)
LEMMA NeighboursAreNodes ==
  ASSUME plan \in Seq(RawStep), KnownDependencies(plan), NEW n
  PROVE  Neighbours(n) \subseteq IdsOf(plan) \cap Ids
BY PlanIsSequence DEF Neighbours, KnownDependencies

LEMMA VisitInit == Init => VisitInv
<1> SUFFICES ASSUME Init PROVE VisitInv
  OBVIOUS
<1>1. plan \in Seq(RawStep)
  BY RawPlansAssumption DEF Init
<1>2. calls \in Seq([node : Ids, rest : SUBSET Ids])
  <2> DEFINE Call_ == [node : Ids, rest : SUBSET Ids]
  <2> HIDE DEF Call_
  <2>1. calls \in Seq(Call_)
    BY DEF Init
  <2>2. QED
    BY <2>1 DEF Call_
<1>3. TypeOK
  BY <1>1, <1>2, PlanIsSequence DEF Init, TypeOK
<1>4. LoopInv /\ ChecksInv
  BY <1>1, PlanIsSequence DEF Init, LoopInv, ChecksInv, Looping
<1>5. QED
  BY <1>3, <1>4 DEF VisitInv

(* A visit of a loop goes on to the next step or, after the last, to the    *)
(* next loop.                                                               *)
LEMMA VisitMoves ==
  ASSUME plan \in Seq(RawStep), at \in DOMAIN plan, NEW loop, NEW next, Visit(loop, next)
  PROVE  \/ /\ at < Len(plan) /\ at' = at + 1 /\ phase' = loop /\ at' \in DOMAIN plan
            /\ \A s \in DOMAIN plan : s < at' <=> s < at \/ s = at
         \/ /\ at' = 1 /\ phase' = next /\ at' \in DOMAIN plan
            /\ \A s \in DOMAIN plan : s < at \/ s = at
            /\ \A s \in DOMAIN plan : ~(s < at')
BY PlanIsSequence DEF Visit

LEMMA LoopsNext ==
  ASSUME VisitInv, SkipEmpty \/ CheckStep \/ CheckDependencies \/ CheckInput
  PROVE  VisitInv'
<1>0. /\ plan' = plan /\ UNCHANGED searchVars /\ Looping
      /\ plan \in Seq(RawStep) /\ LoopInv /\ ChecksInv /\ step_ids \subseteq IdsOf(plan)
      /\ at \in 1 .. Len(plan) + 1
      /\ visited = {} /\ recursion_stack = {} /\ calls = <<>>
  BY DEF SkipEmpty, CheckStep, CheckDependencies, CheckInput, Reject, Visit, VisitInv, TypeOK,
         LoopInv, Looping
<1>a. /\ calls' \in Seq([node : Ids, rest : SUBSET Ids])
      /\ visited' = {} /\ recursion_stack' = {} /\ calls' = <<>>
  BY <1>0 DEF searchVars, VisitInv, TypeOK
<1>r. ASSUME Reject PROVE VisitInv'
  BY <1>0, <1>a, <1>r DEF Reject, VisitInv, TypeOK, LoopInv, ChecksInv, Looping
<1>1. CASE SkipEmpty
  <2>1. phase' = "cycles" /\ plan = <<>> /\ UNCHANGED <<step_ids, at>>
    BY <1>1 DEF SkipEmpty
  <2>2. Checked(plan)
    BY <2>1 DEF Checked, KnownDependencies
  <2>3. QED
    BY <1>0, <1>a, <2>1, <2>2 DEF VisitInv, TypeOK, LoopInv, ChecksInv, Looping
<1>2. CASE CheckStep /\ ~Reject
  <2>1. /\ phase = "steps" /\ plan # <<>> /\ WellFormed(plan[at])
        /\ step_ids' = step_ids \cup {plan[at].step_id} /\ Visit("steps", "dependencies")
    BY <1>2 DEF CheckStep
  <2>2. at \in DOMAIN plan
    BY <1>0, <2>1 DEF LoopInv, Looping
  <2>3. step_ids' = {plan[s].step_id : s \in {t \in DOMAIN plan : t < at \/ t = at}}
    BY <1>0, <2>1, <2>2 DEF ChecksInv
  <2>4. \A s \in DOMAIN plan : s < at \/ s = at => WellFormed(plan[s])
    BY <1>0, <2>1 DEF ChecksInv
  <2>5. at' \in DOMAIN plan /\ phase' \in {"steps", "dependencies"}
    BY <1>0, <2>1, <2>2, VisitMoves
  <2>6. ChecksInv'
    <3>1. CASE phase' = "steps" /\ \A s \in DOMAIN plan : s < at' <=> s < at \/ s = at
      <4>1. {t \in DOMAIN plan : t < at'} = {t \in DOMAIN plan : t < at \/ t = at}
        BY <3>1
      <4>2. QED
        BY <1>0, <2>3, <2>4, <3>1, <4>1 DEF ChecksInv
    <3>2. CASE phase' = "dependencies" /\ at' = 1 /\ \A s \in DOMAIN plan : s < at \/ s = at
      <4>1. step_ids' = IdsOf(plan)
        BY <2>3, <3>2 DEF IdsOf
      <4>2. \A s \in DOMAIN plan : ~(s < at')
        BY <1>0, <3>2, PlanIsSequence
      <4>3. QED
        BY <1>0, <2>4, <3>2, <4>1, <4>2 DEF ChecksInv
    <3>3. QED
      BY <1>0, <2>1, <2>2, <3>1, <3>2, VisitMoves
  <2>7. TypeOK'
    BY <1>0, <1>a, <2>1, <2>2, <2>5, PlanIsSequence DEF TypeOK
  <2>8. LoopInv'
    BY <1>0, <1>a, <2>1, <2>5 DEF LoopInv, Looping
  <2>9. QED
    BY <2>6, <2>7, <2>8 DEF VisitInv
<1>3. CASE CheckDependencies /\ ~Reject
  <2>1. /\ phase = "dependencies" /\ plan # <<>> /\ UNCHANGED step_ids
        /\ plan[at].depends_on \subseteq IdsOf(plan) /\ Visit("dependencies", "inputs")
    BY <1>0, <1>3 DEF CheckDependencies, LoopInv, ChecksInv
  <2>2. at \in DOMAIN plan
    BY <1>0, <2>1 DEF LoopInv, Looping
  <2>3. at' \in DOMAIN plan /\ phase' \in {"dependencies", "inputs"}
    BY <1>0, <2>1, <2>2, VisitMoves
  <2>4. \A s \in DOMAIN plan : s < at \/ s = at => plan[s].depends_on \subseteq IdsOf(plan)
    BY <1>0, <2>1 DEF ChecksInv
  <2>5. ChecksInv'
    <3>1. \/ /\ phase' = "dependencies" /\ \A s \in DOMAIN plan : s < at' <=> s < at \/ s = at
          \/ /\ phase' = "inputs" /\ \A s \in DOMAIN plan : s < at \/ s = at
             /\ \A s \in DOMAIN plan : ~(s < at')
      BY <1>0, <2>1, <2>2, VisitMoves
    <3>2. QED
      BY <1>0, <2>1, <2>4, <3>1 DEF ChecksInv, KnownDependencies
  <2>6. QED
    BY <1>0, <1>a, <2>1, <2>3, <2>5, PlanIsSequence DEF VisitInv, TypeOK, LoopInv, Looping
<1>4. CASE CheckInput /\ ~Reject
  <2>1. /\ phase = "inputs" /\ plan # <<>> /\ UNCHANGED step_ids
        /\ plan[at].input = "complete" /\ Visit("inputs", "cycles")
    BY <1>0, <1>4 DEF CheckInput, LoopInv
  <2>2. at \in DOMAIN plan
    BY <1>0, <2>1 DEF LoopInv, Looping
  <2>3. at' \in DOMAIN plan /\ phase' \in {"inputs", "cycles"}
    BY <1>0, <2>1, <2>2, VisitMoves
  <2>4. \A s \in DOMAIN plan : s < at \/ s = at => plan[s].input = "complete"
    BY <1>0, <2>1 DEF ChecksInv
  <2>5. ChecksInv'
    <3>1. \/ /\ phase' = "inputs" /\ \A s \in DOMAIN plan : s < at' <=> s < at \/ s = at
          \/ phase' = "cycles" /\ \A s \in DOMAIN plan : s < at \/ s = at
      BY <1>0, <2>1, <2>2, VisitMoves
    <3>2. QED
      BY <1>0, <2>1, <2>4, <3>1 DEF ChecksInv, Checked
  <2>6. QED
    BY <1>0, <1>a, <2>1, <2>3, <2>5, PlanIsSequence DEF VisitInv, TypeOK, LoopInv, Looping
<1>5. QED
  BY <1>r, <1>1, <1>2, <1>3, <1>4

-------------------------------------------------------------------------------
(* The search *)

Finished == visited \ recursion_stack

(* Each active call was made on a neighbour of the one that made it, and    *)
(* the neighbours it has met are finished, but the one it is calling.       *)
CallsInv ==
  /\ \A j, k \in DOMAIN calls : calls[j].node = calls[k].node => j = k
  /\ \A k \in DOMAIN calls :
       /\ calls[k].rest \subseteq Neighbours(calls[k].node)
       /\ k < Len(calls) => calls[k + 1].node \in Neighbours(calls[k].node)
       /\ \A d \in Neighbours(calls[k].node) \ calls[k].rest :
            d \in Finished \/ (k < Len(calls) /\ d = calls[k + 1].node)

(* A node finishes after its neighbours. *)
RankInv ==
  \E rank \in [Finished -> 1 .. Cardinality(Finished)] :
    \A n \in Finished : \A d \in Neighbours(n) : d \in Finished /\ rank[d] < rank[n]

ActiveCall == [node : Ids, rest : SUBSET Ids]

SearchInv == StackIsCallStack /\ CallsInv /\ RankInv

LEMMA IdsAreFinite ==
  ASSUME plan \in Seq(RawStep)
  PROVE  IsFiniteSet(IdsOf(plan)) /\ Cardinality(IdsOf(plan)) <= Len(plan)
<1>1. Len(plan) \in Nat /\ DOMAIN plan = 1 .. Len(plan)
  BY PlanIsSequence
<1> DEFINE f == [s \in 1 .. Len(plan) |-> plan[s].step_id]
<1>2. f \in Surjection(1 .. Len(plan), IdsOf(plan))
  BY <1>1 DEF Surjection, IdsOf
<1>3. IsFiniteSet(1 .. Len(plan)) /\ Cardinality(1 .. Len(plan)) = Len(plan)
  BY <1>1, FS_Interval
<1> HIDE DEF f
<1>4. IsFiniteSet(IdsOf(plan)) /\ Cardinality(IdsOf(plan)) <= Cardinality(1 .. Len(plan))
  BY <1>2, <1>3, FS_Surjection
<1>5. QED
  BY <1>3, <1>4

LEMMA SetsAreFinite ==
  ASSUME TypeOK
  PROVE  /\ IsFiniteSet(recursion_stack) /\ Cardinality(recursion_stack) \in Nat
         /\ IsFiniteSet(Finished) /\ Cardinality(Finished) \in Nat
         /\ Cardinality(Finished) <= Len(plan)
<1>1. /\ IsFiniteSet(IdsOf(plan)) /\ Cardinality(IdsOf(plan)) <= Len(plan)
      /\ Len(plan) \in Nat
  BY IdsAreFinite, PlanIsSequence DEF TypeOK
<1>2. recursion_stack \in SUBSET IdsOf(plan) /\ Finished \in SUBSET IdsOf(plan)
  BY DEF TypeOK, Finished
<1>3. /\ IsFiniteSet(recursion_stack) /\ IsFiniteSet(Finished)
      /\ Cardinality(Finished) <= Cardinality(IdsOf(plan))
  BY <1>1, <1>2, FS_Subset
<1>4. QED
  BY <1>1, <1>3, FS_CardinalityType

LEMMA SearchInit == Init => SearchInv
<1> SUFFICES ASSUME Init PROVE SearchInv
  OBVIOUS
<1>1. recursion_stack = {} /\ visited = {} /\ calls = <<>> /\ Finished = {} /\ DOMAIN calls = {}
  BY DEF Init, Finished
<1>2. StackIsCallStack
  BY <1>1, FS_EmptySet DEF StackIsCallStack
<1>3. CallsInv
  BY <1>1 DEF CallsInv
<1>4. RankInv
  <2> DEFINE none == [n \in {} |-> 0]
  <2>1. none \in [Finished -> 1 .. Cardinality(Finished)]
    BY <1>1
  <2>2. QED
    BY <1>1, <2>1 DEF RankInv
<1>5. QED
  BY <1>2, <1>3, <1>4 DEF SearchInv

LEMMA SameNeighbours == plan' = plan => \A n : Neighbours(n)' = Neighbours(n)
BY DEF Neighbours, LastCopy

(* Nodes finish only when their call returns. *)
LEMMA SameFinished ==
  ASSUME RankInv, plan' = plan, Finished' = Finished
  PROVE  RankInv'
BY SameNeighbours DEF RankInv

(* Where neither the search nor the plan moves. *)
LEMMA ElsewhereKeepsSearch ==
  ASSUME SearchInv, UNCHANGED <<plan, searchVars>>
  PROVE  SearchInv'
<1>1. UNCHANGED <<visited, recursion_stack, calls, plan>> /\ Finished' = Finished
  BY DEF searchVars, Finished
<1>2. StackIsCallStack'
  BY <1>1 DEF SearchInv, StackIsCallStack
<1>3. CallsInv'
  BY <1>1, SameNeighbours DEF SearchInv, CallsInv
<1>4. QED
  BY <1>1, <1>2, <1>3, SameFinished DEF SearchInv

LEMMA TopCall ==
  ASSUME TypeOK, calls # <<>>
  PROVE  /\ Len(calls) \in DOMAIN calls /\ Len(calls) \in Nat \ {0}
         /\ DOMAIN calls = 1 .. Len(calls)
         /\ Top = calls[Len(calls)] /\ Top.node \in Ids /\ Top.rest \subseteq Ids
         /\ \A k \in DOMAIN calls : calls[k].node \in Ids /\ calls[k].rest \subseteq Ids
<1>1. calls \in Seq(ActiveCall)
  BY DEF TypeOK, ActiveCall
<1>2. /\ Len(calls) \in DOMAIN calls /\ Len(calls) \in Nat \ {0}
      /\ DOMAIN calls = 1 .. Len(calls) /\ \A k \in DOMAIN calls : calls[k] \in ActiveCall
  BY <1>1
<1>3. QED
  BY <1>2 DEF ActiveCall, Top

(* The calls once the innermost has met a neighbour. *)
LEMMA WithoutIs ==
  ASSUME TypeOK, calls # <<>>, NEW n
  PROVE  /\ Without(n) \in Seq(ActiveCall) /\ Len(Without(n)) = Len(calls)
         /\ DOMAIN Without(n) = DOMAIN calls
         /\ \A k \in DOMAIN calls :
              /\ Without(n)[k].node = calls[k].node
              /\ k # Len(calls) => Without(n)[k].rest = calls[k].rest
         /\ Without(n)[Len(calls)].rest = calls[Len(calls)].rest \ {n}
<1>1. calls \in Seq(ActiveCall) /\ Len(calls) \in DOMAIN calls
  BY TopCall DEF TypeOK, ActiveCall
<1>2. calls[Len(calls)] \in ActiveCall
  BY <1>1
<1> DEFINE c == [calls[Len(calls)] EXCEPT !.rest = @ \ {n}]
<1>3. /\ c \in ActiveCall /\ c.node = calls[Len(calls)].node
      /\ c.rest = calls[Len(calls)].rest \ {n}
  BY <1>2 DEF ActiveCall
<1>4. Without(n) = [calls EXCEPT ![Len(calls)] = c]
  BY <1>1, <1>2 DEF Without, ActiveCall
<1> HIDE DEF c
<1>5. QED
  BY <1>1, <1>3, <1>4

-------------------------------------------------------------------------------
(* The steps of the search *)

Searching ==
  /\ phase = "cycles" /\ TypeOK /\ SearchInv
  /\ KnownDependencies(plan) /\ plan \in Seq(RawStep)

(* A call of dfs on a node that was not visited, from the calls given. *)
LEMMA CallKeepsSearch ==
  ASSUME Searching, NEW n \in Ids, n \in IdsOf(plan) \ visited, Call(n), plan' = plan,
         NEW cs \in Seq(ActiveCall),
         Len(cs) = Len(calls) /\ DOMAIN cs = DOMAIN calls,
         calls' = Append(cs, [node |-> n, rest |-> Neighbours(n)]),
         \A k \in DOMAIN calls :
           /\ cs[k].node = calls[k].node /\ cs[k].rest \subseteq calls[k].rest
           /\ k < Len(calls) => cs[k].rest = calls[k].rest
           /\ k = Len(calls) => n \in Neighbours(calls[k].node) /\ cs[k].rest = calls[k].rest \ {n}
  PROVE  /\ SearchInv' /\ calls' \in Seq(ActiveCall)
         /\ visited' \subseteq IdsOf(plan) /\ recursion_stack' \subseteq visited'
<1>0. /\ visited' = visited \cup {n} /\ recursion_stack' = recursion_stack \cup {n}
      /\ visited \subseteq IdsOf(plan) /\ recursion_stack \subseteq visited
      /\ Len(calls) \in Nat /\ DOMAIN calls = 1 .. Len(calls)
      /\ StackIsCallStack /\ CallsInv /\ RankInv
  BY DEF Searching, TypeOK, SearchInv, Call
<1>1. [node |-> n, rest |-> Neighbours(n)] \in ActiveCall
  BY NeighboursAreNodes DEF Searching, ActiveCall
<1> DEFINE c == [node |-> n, rest |-> Neighbours(n)]
<1>2. c.node = n /\ c.rest = Neighbours(n) /\ c \in ActiveCall
  BY <1>1
<1> HIDE DEF c
<1>3. /\ calls' \in Seq(ActiveCall) /\ Len(calls') = Len(calls) + 1
      /\ DOMAIN calls' = 1 .. Len(calls) + 1
      /\ \A k \in DOMAIN calls : calls'[k] = cs[k]
      /\ calls'[Len(calls) + 1] = c
  <2>1. calls' = Append(cs, c)
    BY DEF c
  <2>2. QED
    BY <1>0, <1>2, <2>1
<1>4. Finished' = Finished /\ n \notin recursion_stack
  BY <1>0 DEF Finished
<1>5. \A k \in DOMAIN calls : calls[k].node \in recursion_stack
  BY <1>0 DEF StackIsCallStack
<1>6. /\ \A k \in DOMAIN calls : calls'[k].node = calls[k].node
      /\ calls'[Len(calls) + 1].node = n
  BY <1>2, <1>3
<1>7. StackIsCallStack'
  <2>1. recursion_stack' = {calls'[k].node : k \in DOMAIN calls'}
    BY <1>0, <1>3, <1>6 DEF StackIsCallStack
  <2>2. Cardinality(recursion_stack') = Cardinality(recursion_stack) + 1
    BY <1>0, <1>4, SetsAreFinite, FS_AddElement DEF Searching
  <2>3. QED
    BY <1>0, <1>3, <2>1, <2>2 DEF StackIsCallStack
<1>8. CallsInv'
  <2>1. \A j, k \in DOMAIN calls' : calls'[j].node = calls'[k].node => j = k
    BY <1>0, <1>3, <1>4, <1>5, <1>6 DEF CallsInv
  <2>2. ASSUME NEW k \in DOMAIN calls'
        PROVE  /\ calls'[k].rest \subseteq Neighbours(calls'[k].node)
               /\ k < Len(calls') => calls'[k + 1].node \in Neighbours(calls'[k].node)
               /\ \A d \in Neighbours(calls'[k].node) \ calls'[k].rest :
                    d \in Finished \/ (k < Len(calls') /\ d = calls'[k + 1].node)
    <3>1. CASE k < Len(calls)
      <4>1. /\ k \in DOMAIN calls /\ k + 1 \in DOMAIN calls
            /\ calls'[k].node = calls[k].node /\ calls'[k].rest = calls[k].rest
            /\ calls'[k + 1].node = calls[k + 1].node
        BY <1>0, <1>3, <1>6, <3>1
      <4>2. QED
        BY <1>0, <1>3, <3>1, <4>1 DEF CallsInv
    <3>2. CASE k = Len(calls)
      <4>1. /\ k \in DOMAIN calls /\ calls'[k].node = calls[k].node
            /\ calls'[k].rest = calls[k].rest \ {n} /\ n \in Neighbours(calls[k].node)
            /\ calls'[k + 1].node = n
        <5>1. k \in DOMAIN calls /\ k + 1 = Len(calls) + 1
          BY <1>0, <1>3, <3>2
        <5>2. calls'[k] = cs[k]
          BY <1>3, <5>1
        <5>3. QED
          BY <1>6, <3>2, <5>1, <5>2
      <4>2. k \in DOMAIN calls /\ ~(k < Len(calls)) /\ k < Len(calls')
        <5>1. Len(calls) \in Nat /\ Len(calls') = Len(calls) + 1
          BY <1>0, <1>3
        <5>2. k \in DOMAIN calls
          BY <4>1
        <5>3. QED
          BY <3>2, <5>1, <5>2
      <4>3. /\ \A d \in Neighbours(calls[k].node) \ calls[k].rest : d \in Finished
            /\ calls[k].rest \subseteq Neighbours(calls[k].node)
        <5>1. CallsInv
          BY <1>0
        <5>2. QED
          BY <4>2, <5>1 DEF CallsInv
      <4>4. QED
        BY <4>1, <4>2, <4>3
    <3>3. CASE k = Len(calls) + 1
      BY <1>0, <1>2, <1>3, <3>3
    <3>4. QED
      BY <1>0, <1>3, <3>1, <3>2, <3>3
  <2>3. QED
    BY <1>4, <2>1, <2>2, SameNeighbours DEF CallsInv
<1>9. RankInv'
  BY <1>0, <1>4, SameFinished
<1>10. QED
  BY <1>0, <1>3, <1>7, <1>8, <1>9 DEF SearchInv

LEMMA StartKeepsSearch ==
  ASSUME Searching, NEW n \in Ids, StartSearch(n)
  PROVE  /\ SearchInv' /\ calls' \in Seq(ActiveCall)
         /\ visited' \subseteq IdsOf(plan) /\ recursion_stack' \subseteq visited'
<1>1. /\ calls = <<>> /\ n \in IdsOf(plan) \ visited /\ Call(n) /\ plan' = plan
      /\ calls' = <<[node |-> n, rest |-> Neighbours(n)]>>
  BY DEF StartSearch
<1>2. calls' = Append(calls, [node |-> n, rest |-> Neighbours(n)])
  BY <1>1
<1>3. calls \in Seq(ActiveCall) /\ DOMAIN calls = {}
  BY <1>1
<1>4. QED
  BY <1>1, <1>2, <1>3, CallKeepsSearch

LEMMA DescendKeepsSearch ==
  ASSUME Searching, NEW n \in Ids, Descend(n)
  PROVE  /\ SearchInv' /\ calls' \in Seq(ActiveCall)
         /\ visited' \subseteq IdsOf(plan) /\ recursion_stack' \subseteq visited'
<1>1. /\ calls # <<>> /\ n \in Top.rest /\ n \notin visited /\ Call(n) /\ plan' = plan
      /\ calls' = Append(Without(n), [node |-> n, rest |-> Neighbours(n)])
  BY DEF Descend
<1>2. n \in Neighbours(calls[Len(calls)].node)
  BY <1>1, TopCall DEF Searching, SearchInv, CallsInv
<1>3. n \in IdsOf(plan)
  BY <1>2, NeighboursAreNodes DEF Searching
<1>4. /\ Without(n) \in Seq(ActiveCall) /\ Len(Without(n)) = Len(calls)
      /\ DOMAIN Without(n) = DOMAIN calls
      /\ \A k \in DOMAIN calls :
           /\ Without(n)[k].node = calls[k].node /\ Without(n)[k].rest \subseteq calls[k].rest
           /\ k < Len(calls) => Without(n)[k].rest = calls[k].rest
           /\ k = Len(calls) => /\ n \in Neighbours(calls[k].node)
                                /\ Without(n)[k].rest = calls[k].rest \ {n}
  BY <1>1, <1>2, WithoutIs, TopCall DEF Searching
<1>5. QED
  BY <1>1, <1>3, <1>4, CallKeepsSearch

(* A neighbour met before whose call is not active. *)
LEMMA MeetKeepsSearch ==
  ASSUME Searching, NEW n \in Ids, MeetVisited(n), n \notin recursion_stack
  PROVE  SearchInv' /\ calls' \in Seq(ActiveCall)
<1>1. /\ calls # <<>> /\ n \in Top.rest \cap visited /\ calls' = Without(n)
      /\ UNCHANGED <<plan, visited, recursion_stack>>
  BY DEF MeetVisited
<1>2. /\ calls' \in Seq(ActiveCall) /\ Len(calls') = Len(calls) /\ DOMAIN calls' = DOMAIN calls
      /\ \A k \in DOMAIN calls :
           /\ calls'[k].node = calls[k].node
           /\ k # Len(calls) => calls'[k].rest = calls[k].rest
      /\ calls'[Len(calls)].rest = calls[Len(calls)].rest \ {n}
  BY <1>1, WithoutIs DEF Searching
<1>3. Finished' = Finished /\ n \in Finished
  BY <1>1 DEF Finished
<1>4. StackIsCallStack'
  BY <1>1, <1>2 DEF Searching, SearchInv, StackIsCallStack
<1>5. Len(calls) \in Nat \ {0} /\ DOMAIN calls = 1 .. Len(calls)
  BY <1>1, TopCall DEF Searching
<1>6. CallsInv'
  <2>1. CallsInv
    BY DEF Searching, SearchInv
  <2>2. \A j, k \in DOMAIN calls' : calls'[j].node = calls'[k].node => j = k
    BY <1>2, <2>1 DEF CallsInv
  <2>3. ASSUME NEW k \in DOMAIN calls
        PROVE  /\ calls'[k].rest \subseteq Neighbours(calls[k].node)
               /\ k < Len(calls) => calls'[k + 1].node \in Neighbours(calls[k].node)
               /\ \A d \in Neighbours(calls[k].node) \ calls'[k].rest :
                    d \in Finished \/ (k < Len(calls) /\ d = calls'[k + 1].node)
    <3>1. CASE k < Len(calls)
      <4>1. k + 1 \in DOMAIN calls /\ calls'[k].rest = calls[k].rest
        BY <1>2, <1>5, <3>1
      <4>2. QED
        BY <1>2, <2>1, <4>1 DEF CallsInv
    <3>2. CASE k = Len(calls)
      <4>1. \A d \in Neighbours(calls[k].node) \ calls[k].rest : d \in Finished
        BY <1>5, <2>1, <3>2 DEF CallsInv
      <4>2. calls'[k].rest = calls[k].rest \ {n} /\ ~(k < Len(calls))
        BY <1>2, <1>5, <3>2
      <4>3. QED
        BY <1>3, <2>1, <4>1, <4>2 DEF CallsInv
    <3>3. QED
      BY <1>5, <3>1, <3>2
  <2>4. QED
    BY <1>1, <1>2, <1>3, <2>2, <2>3, SameNeighbours DEF CallsInv
<1>7. QED
  BY <1>1, <1>2, <1>3, <1>4, <1>6, SameFinished DEF Searching, SearchInv

(* A call returns once all its neighbours are finished, and is finished     *)
(* after them.                                                              *)
LEMMA LeaveKeepsSearch ==
  ASSUME Searching, Leave
  PROVE  SearchInv' /\ calls' \in Seq(ActiveCall) /\ recursion_stack' \subseteq visited'
<1> DEFINE top == Top.node
           last == Len(calls)
<1>1. /\ calls # <<>> /\ Top.rest = {} /\ UNCHANGED <<plan, visited>>
      /\ recursion_stack' = recursion_stack \ {top} /\ calls' = SubSeq(calls, 1, last - 1)
  BY DEF Leave
<1>2. /\ last \in Nat \ {0} /\ last \in DOMAIN calls /\ DOMAIN calls = 1 .. last
      /\ top = calls[last].node /\ calls[last].rest = {}
      /\ calls \in Seq(ActiveCall)
      /\ StackIsCallStack /\ CallsInv /\ RankInv /\ recursion_stack \subseteq visited
  BY <1>1, TopCall DEF Searching, SearchInv, TypeOK, ActiveCall
<1> HIDE DEF top, last
<1>3. /\ calls' \in Seq(ActiveCall) /\ Len(calls') = last - 1 /\ DOMAIN calls' = 1 .. last - 1
      /\ \A k \in 1 .. last - 1 : calls'[k] = calls[k]
  BY <1>1, <1>2
<1>4. top \in recursion_stack
  BY <1>2 DEF StackIsCallStack
<1>5. Finished' = Finished \cup {top} /\ top \notin Finished
  BY <1>1, <1>2, <1>4 DEF Finished
<1>6. StackIsCallStack'
  <2>1. recursion_stack' = {calls'[k].node : k \in DOMAIN calls'}
    <3>1. \A k \in 1 .. last - 1 : calls[k].node # top
      BY <1>2 DEF CallsInv
    <3>2. 1 .. last = 1 .. last - 1 \cup {last}
      BY <1>2
    <3>3. recursion_stack = {calls[k].node : k \in 1 .. last - 1} \cup {top}
      BY <1>2, <3>2 DEF StackIsCallStack
    <3>4. QED
      BY <1>1, <1>3, <3>1, <3>3
  <2>2. Cardinality(recursion_stack') = Cardinality(recursion_stack) - 1
    BY <1>1, <1>4, SetsAreFinite, FS_RemoveElement DEF Searching
  <2>3. Cardinality(recursion_stack) = last
    BY <1>2 DEF StackIsCallStack, last
  <2>4. QED
    BY <1>3, <2>1, <2>2, <2>3 DEF StackIsCallStack
<1>7. CallsInv'
  <2>1. \A j, k \in DOMAIN calls' : calls'[j].node = calls'[k].node => j = k
    BY <1>2, <1>3 DEF CallsInv
  <2>2. ASSUME NEW k \in 1 .. last - 1
        PROVE  /\ calls'[k].rest \subseteq Neighbours(calls'[k].node)
               /\ k < last - 1 => calls'[k + 1].node \in Neighbours(calls'[k].node)
               /\ \A d \in Neighbours(calls'[k].node) \ calls'[k].rest :
                    d \in Finished' \/ (k < last - 1 /\ d = calls'[k + 1].node)
    <3>1. /\ k \in DOMAIN calls /\ k < last /\ calls'[k] = calls[k]
          /\ k < last - 1 => calls'[k + 1] = calls[k + 1]
          /\ ~(k < last - 1) => calls[k + 1].node = top
      BY <1>2, <1>3
    <3>2. /\ calls[k].rest \subseteq Neighbours(calls[k].node)
          /\ calls[k + 1].node \in Neighbours(calls[k].node)
          /\ \A d \in Neighbours(calls[k].node) \ calls[k].rest :
               d \in Finished \/ d = calls[k + 1].node
      BY <1>2, <3>1 DEF CallsInv, last
    <3>3. QED
      BY <1>5, <3>1, <3>2
  <2>3. QED
    BY <1>1, <1>3, <2>1, <2>2, SameNeighbours DEF CallsInv
<1>8. RankInv'
  <2>1. PICK rank \in [Finished -> 1 .. Cardinality(Finished)] :
          \A n \in Finished : \A d \in Neighbours(n) : d \in Finished /\ rank[d] < rank[n]
    BY <1>2 DEF RankInv
  <2>2. \A d \in Neighbours(top) : d \in Finished
    <3>1. \A d \in Neighbours(calls[last].node) \ calls[last].rest :
            d \in Finished \/ (last < last /\ d = calls[last + 1].node)
      BY <1>2 DEF CallsInv, last
    <3>2. QED
      BY <1>2, <3>1
  <2>3. Cardinality(Finished) \in Nat /\ Cardinality(Finished') = Cardinality(Finished) + 1
    BY <1>5, SetsAreFinite, FS_AddElement DEF Searching
  <2> DEFINE card == Cardinality(Finished)
             later == [n \in Finished \cup {top} |-> IF n = top THEN card + 1 ELSE rank[n]]
  <2>4. later \in [Finished' -> 1 .. Cardinality(Finished')]
    BY <1>5, <2>1, <2>3
  <2>5. \A n \in Finished' : \A d \in Neighbours(n) : d \in Finished' /\ later[d] < later[n]
    <3>1. ASSUME NEW n \in Finished, NEW d \in Neighbours(n)
          PROVE  d \in Finished' /\ later[d] < later[n]
      BY <1>5, <2>1
    <3>2. ASSUME NEW d \in Neighbours(top)
          PROVE  d \in Finished' /\ later[d] < later[top]
      <4>1. d \in Finished /\ rank[d] \in 1 .. card
        BY <2>1, <2>2
      <4>2. QED
        BY <1>5, <2>3, <4>1
    <3>3. QED
      BY <1>5, <3>1, <3>2
  <2> HIDE DEF later
  <2>6. QED
    BY <1>1, <2>4, <2>5, SameNeighbours DEF RankInv
<1>9. QED
  BY <1>1, <1>2, <1>3, <1>6, <1>7, <1>8 DEF SearchInv
-------------------------------------------------------------------------------
(* The verdict *)

(* A rank of an acyclic plan descends along the neighbours. *)
LEMMA NeighboursRankLower ==
  ASSUME plan \in Seq(RawStep), NEW rank,
         \A s \in DOMAIN plan :
           LastCopy(plan, s) => \A d \in plan[s].depends_on : rank[d] < rank[plan[s].step_id],
         NEW node, NEW d \in Neighbours(node)
  PROVE  rank[d] < rank[node]
<1>1. PICK s \in DOMAIN plan :
        plan[s].step_id = node /\ LastCopy(plan, s) /\ d \in plan[s].depends_on
  BY DEF Neighbours
<1>2. QED
  BY <1>1

LEMMA LeastNatural ==
  ASSUME NEW S \in SUBSET Nat, S # {}
  PROVE  \E n \in S : \A m \in S : n <= m
<1> DEFINE R == OpToRel(<, Nat)
<1>1. IsWellFoundedOn(R, Nat)
  BY NatLessThanWellFounded
<1>2. PICK n \in S : \A m \in S : ~ (<<m, n>> \in R)
  <2> HIDE DEF R
  <2>1. QED
    BY <1>1, WFMin
<1>3. \A m \in S : ~ (m < n)
  BY <1>2 DEF OpToRel
<1>4. QED
  BY <1>3

(* The active calls from n on are a cycle when the innermost meets n: the   *)
(* one of least rank would call or meet a node of lower rank.               *)
LEMMA StackedNeighbourIsACycle ==
  ASSUME Searching, calls # <<>>, NEW n \in Top.rest, n \in recursion_stack
  PROVE  ~Acyclic(plan)
<1> DEFINE last == Len(calls)
<1>1. /\ last \in Nat \ {0} /\ last \in DOMAIN calls /\ DOMAIN calls = 1 .. last
      /\ Top = calls[last]
  BY TopCall DEF Searching
<1>2. /\ CallsInv /\ StackIsCallStack /\ recursion_stack \subseteq IdsOf(plan)
      /\ plan \in Seq(RawStep)
  BY DEF Searching, SearchInv, TypeOK
<1>3. /\ n \in Neighbours(calls[last].node)
      /\ \A k \in DOMAIN calls : k < last => calls[k + 1].node \in Neighbours(calls[k].node)
  BY <1>1, <1>2 DEF CallsInv
<1>4. PICK p \in DOMAIN calls : calls[p].node = n
  BY <1>2 DEF StackIsCallStack
<1>5. \A k \in DOMAIN calls : calls[k].node \in IdsOf(plan)
  BY <1>2 DEF StackIsCallStack
<1> HIDE DEF last
<1>6. SUFFICES ASSUME Acyclic(plan) PROVE FALSE
  OBVIOUS
<1>7. PICK rank \in [IdsOf(plan) -> 1 .. Len(plan)] :
        \A s \in DOMAIN plan :
          LastCopy(plan, s) => \A d \in plan[s].depends_on : rank[d] < rank[plan[s].step_id]
  BY <1>6 DEF Acyclic
<1>8. \A node : \A d \in Neighbours(node) : rank[d] < rank[node]
  BY <1>2, <1>7, NeighboursRankLower
<1> DEFINE cycle == {k \in DOMAIN calls : p <= k}
           ranks == {rank[calls[k].node] : k \in cycle}
<1>9. \A k \in DOMAIN calls : rank[calls[k].node] \in Nat
  BY <1>2, <1>5, <1>7, PlanIsSequence
<1>10. ranks \subseteq Nat /\ ranks # {}
  <2>1. p \in cycle
    BY <1>1, <1>4
  <2>2. QED
    BY <1>9, <2>1
<1>11. PICK k \in cycle : \A j \in cycle : rank[calls[k].node] <= rank[calls[j].node]
  <2> HIDE DEF cycle
  <2>1. PICK r \in ranks : \A m \in ranks : r <= m
    BY <1>10, LeastNatural
  <2>2. QED
    BY <2>1
<1>12. CASE k < last
  <2>1. k \in DOMAIN calls /\ k + 1 \in cycle
    BY <1>1, <1>4, <1>12
  <2>2. rank[calls[k + 1].node] < rank[calls[k].node]
    BY <1>3, <1>8, <1>12, <2>1
  <2>3. rank[calls[k].node] <= rank[calls[k + 1].node]
    BY <1>11, <2>1
  <2>4. QED
    BY <1>9, <2>1, <2>2, <2>3
<1>13. CASE k = last
  <2>1. p \in cycle
    BY <1>1, <1>4
  <2>2. rank[calls[p].node] < rank[calls[k].node]
    BY <1>3, <1>4, <1>8, <1>13
  <2>3. rank[calls[k].node] <= rank[calls[p].node]
    BY <1>11, <2>1
  <2>4. QED
    BY <1>4, <1>9, <2>1, <2>2, <2>3
<1>14. QED
  BY <1>1, <1>12, <1>13

(* Once every node was searched, the order in which calls returned is the   *)
(* rank of acyclicity.                                                      *)
LEMMA SearchedPlanIsAcyclic ==
  ASSUME Searching, calls = <<>>, IdsOf(plan) \subseteq visited
  PROVE  Acyclic(plan)
<1>1. recursion_stack = {} /\ visited = IdsOf(plan) /\ plan \in Seq(RawStep)
  <2>1. DOMAIN calls = {}
    OBVIOUS
  <2>2. recursion_stack = {calls[k].node : k \in DOMAIN calls}
    BY DEF Searching, SearchInv, StackIsCallStack
  <2>3. recursion_stack = {}
    BY <2>1, <2>2
  <2>4. visited \subseteq IdsOf(plan) /\ plan \in Seq(RawStep)
    BY DEF Searching, TypeOK
  <2>5. QED
    BY <2>3, <2>4
<1>2. Finished = IdsOf(plan)
  BY <1>1 DEF Finished
<1>3. PICK rank \in [Finished -> 1 .. Cardinality(Finished)] :
        \A n \in Finished : \A d \in Neighbours(n) : d \in Finished /\ rank[d] < rank[n]
  BY DEF Searching, SearchInv, RankInv
<1>4. /\ Cardinality(Finished) \in Nat /\ Cardinality(Finished) <= Len(plan)
      /\ Len(plan) \in Nat
  BY <1>1, SetsAreFinite, PlanIsSequence DEF Searching
<1>5. rank \in [IdsOf(plan) -> 1 .. Len(plan)]
  BY <1>2, <1>3, <1>4
<1>6. ASSUME NEW s \in DOMAIN plan, LastCopy(plan, s), NEW d \in plan[s].depends_on
      PROVE  rank[d] < rank[plan[s].step_id]
  <2>1. d \in Neighbours(plan[s].step_id)
    BY <1>6 DEF Neighbours
  <2>2. QED
    BY <1>1, <1>2, <1>3, <2>1, PlanIsSequence
<1>7. QED
  BY <1>5, <1>6 DEF Acyclic

(* A loop rejects only a plan with a step that fails its check. *)
LEMMA LoopsVerdict ==
  ASSUME VisitInv, SkipEmpty \/ CheckStep \/ CheckDependencies \/ CheckInput
  PROVE  phase' # "accepted" /\ (phase' = "rejected" => ~Sound(plan)) /\ plan' = plan
<1>1. LoopInv /\ ChecksInv
  BY DEF VisitInv
<1>2. CASE SkipEmpty
  BY <1>2 DEF SkipEmpty
<1>3. CASE CheckStep
  <2>1. phase = "steps" /\ at \in DOMAIN plan
    BY <1>1, <1>3 DEF CheckStep, LoopInv, Looping
  <2>2. QED
    BY <1>3, <2>1 DEF CheckStep, Reject, Visit, Sound
<1>4. CASE CheckDependencies
  <2>1. phase = "dependencies" /\ at \in DOMAIN plan /\ step_ids = IdsOf(plan)
    BY <1>1, <1>4 DEF CheckDependencies, LoopInv, Looping, ChecksInv
  <2>2. QED
    BY <1>4, <2>1 DEF CheckDependencies, Reject, Visit, Sound, Validated, KnownDependencies
<1>5. CASE CheckInput
  <2>1. phase = "inputs" /\ at \in DOMAIN plan
    BY <1>1, <1>5 DEF CheckInput, LoopInv, Looping
  <2>2. QED
    BY <1>5, <2>1 DEF CheckInput, Reject, Visit, Sound
<1>6. QED
  BY <1>2, <1>3, <1>4, <1>5

-------------------------------------------------------------------------------
(* The inductive invariant *)

VerdictInv ==
  /\ phase = "accepted" => Sound(plan)
  /\ phase = "rejected" => ~Sound(plan)

IInv == VisitInv /\ SearchInv /\ VerdictInv

(* The conjuncts of VisitInv that a step of the search could disturb. *)
LEMMA SearchKeepsVisit ==
  ASSUME VisitInv, phase = "cycles", phase' \in {"cycles", "accepted", "rejected"},
         UNCHANGED <<plan, step_ids, at>>, calls' \in Seq(ActiveCall),
         visited' \subseteq IdsOf(plan), recursion_stack' \subseteq visited'
  PROVE  VisitInv'
<1>1. TypeOK'
  BY DEF VisitInv, TypeOK, ActiveCall
<1>2. LoopInv' /\ ChecksInv'
  BY DEF VisitInv, LoopInv, Looping, ChecksInv
<1>3. QED
  BY <1>1, <1>2 DEF VisitInv

LEMMA InvariantStep == IInv /\ [Next]_vars => IInv'
<1> SUFFICES ASSUME IInv, [Next]_vars PROVE IInv'
  OBVIOUS
<1>0. VisitInv /\ SearchInv /\ VerdictInv /\ TypeOK /\ LoopInv /\ ChecksInv
  BY DEF IInv, VisitInv
<1>a. ASSUME phase = "cycles" PROVE Searching /\ Checked(plan)
  <2>1. Checked(plan)
    BY <1>0, <1>a DEF ChecksInv
  <2>2. QED
    BY <1>0, <1>a, <2>1 DEF Searching, Checked, TypeOK
<1>b. calls \in Seq(ActiveCall) /\ visited \subseteq IdsOf(plan) /\ recursion_stack \subseteq visited
  BY <1>0 DEF TypeOK, ActiveCall
<1>1. CASE SkipEmpty \/ CheckStep \/ CheckDependencies \/ CheckInput
  <2>1. VisitInv'
    BY <1>0, <1>1, LoopsNext
  <2>2. UNCHANGED <<plan, searchVars>>
    BY <1>1 DEF SkipEmpty, CheckStep, CheckDependencies, CheckInput, Reject, searchVars
  <2>3. SearchInv'
    BY <1>0, <2>2, ElsewhereKeepsSearch
  <2>4. VerdictInv'
    BY <1>0, <1>1, LoopsVerdict DEF VerdictInv, Sound
  <2>5. QED
    BY <2>1, <2>3, <2>4 DEF IInv
<1>2. ASSUME NEW n \in Ids, StartSearch(n) PROVE IInv'
  <2>1. phase = "cycles" /\ phase' = phase /\ UNCHANGED <<plan, step_ids, at>>
    BY <1>2 DEF StartSearch
  <2>2. /\ SearchInv' /\ calls' \in Seq(ActiveCall)
        /\ visited' \subseteq IdsOf(plan) /\ recursion_stack' \subseteq visited'
    BY <1>a, <1>2, <2>1, StartKeepsSearch
  <2>3. QED
    BY <1>0, <2>1, <2>2, SearchKeepsVisit DEF IInv, VerdictInv
<1>3. ASSUME NEW n \in Ids, Descend(n) PROVE IInv'
  <2>1. phase = "cycles" /\ phase' = phase /\ UNCHANGED <<plan, step_ids, at>>
    BY <1>3 DEF Descend
  <2>2. /\ SearchInv' /\ calls' \in Seq(ActiveCall)
        /\ visited' \subseteq IdsOf(plan) /\ recursion_stack' \subseteq visited'
    BY <1>a, <1>3, <2>1, DescendKeepsSearch
  <2>3. QED
    BY <1>0, <2>1, <2>2, SearchKeepsVisit DEF IInv, VerdictInv
<1>4. ASSUME NEW n \in Ids, MeetVisited(n) PROVE IInv'
  <2>1. /\ phase = "cycles" /\ UNCHANGED <<plan, step_ids, at, visited, recursion_stack>>
        /\ calls # <<>> /\ n \in Top.rest
    BY <1>4 DEF MeetVisited
  <2>2. CASE n \in recursion_stack
    <3>1. phase' = "rejected" /\ UNCHANGED <<plan, searchVars>>
      BY <1>4, <2>1, <2>2 DEF MeetVisited, searchVars
    <3>2. ~Acyclic(plan)
      BY <1>a, <2>1, <2>2, StackedNeighbourIsACycle
    <3>3. VerdictInv'
      BY <2>1, <3>1, <3>2 DEF VerdictInv, Sound, Validated
    <3>4. SearchInv'
      BY <1>0, <3>1, ElsewhereKeepsSearch
    <3>5. VisitInv'
      BY <1>0, <1>b, <2>1, <3>1, SearchKeepsVisit DEF searchVars
    <3>6. QED
      BY <3>3, <3>4, <3>5 DEF IInv
  <2>3. CASE n \notin recursion_stack
    <3>1. phase' = phase
      BY <1>4, <2>3 DEF MeetVisited
    <3>2. SearchInv' /\ calls' \in Seq(ActiveCall)
      BY <1>a, <1>4, <2>1, <2>3, MeetKeepsSearch
    <3>3. QED
      BY <1>0, <1>b, <2>1, <3>1, <3>2, SearchKeepsVisit DEF IInv, VerdictInv
  <2>4. QED
    BY <2>2, <2>3
<1>5. CASE Leave
  <2>1. phase = "cycles" /\ phase' = phase /\ UNCHANGED <<plan, step_ids, at, visited>>
    BY <1>5 DEF Leave
  <2>2. SearchInv' /\ calls' \in Seq(ActiveCall) /\ recursion_stack' \subseteq visited'
    BY <1>a, <1>5, <2>1, LeaveKeepsSearch
  <2>3. QED
    BY <1>0, <1>b, <2>1, <2>2, SearchKeepsVisit DEF IInv, VerdictInv
<1>6. CASE Accept
  <2>1. /\ phase = "cycles" /\ calls = <<>> /\ IdsOf(plan) \subseteq visited
        /\ phase' = "accepted" /\ UNCHANGED <<plan, step_ids, at, searchVars>>
    BY <1>6 DEF Accept
  <2>2. Sound(plan)
    BY <1>a, <2>1, SearchedPlanIsAcyclic DEF Sound, Checked, Validated
  <2>3. SearchInv'
    BY <1>0, <2>1, ElsewhereKeepsSearch
  <2>4. VisitInv'
    BY <1>0, <1>b, <2>1, SearchKeepsVisit DEF searchVars
  <2>5. QED
    BY <2>1, <2>2, <2>3, <2>4 DEF IInv, VerdictInv
<1>7. CASE UNCHANGED vars
  <2>1. UNCHANGED <<plan, searchVars>> /\ UNCHANGED <<phase, step_ids, at>>
    BY <1>7 DEF vars
  <2>2. SearchInv'
    BY <1>0, <2>1, ElsewhereKeepsSearch
  <2>3. VisitInv'
    BY <1>0, <2>1 DEF searchVars, VisitInv, TypeOK, LoopInv, Looping, ChecksInv
  <2>4. QED
    BY <1>0, <2>1, <2>2, <2>3 DEF IInv, VerdictInv
<1>8. QED
  BY <1>1, <1>2, <1>3, <1>4, <1>5, <1>6, <1>7 DEF Next

LEMMA Invariant == Spec => []IInv
<1>1. Init => IInv
  BY VisitInit, SearchInit DEF IInv, VerdictInv, Init
<1>2. QED
  BY <1>1, InvariantStep, PTL DEF Spec

-------------------------------------------------------------------------------
(* The theorems *)

(* Every variable of validate keeps its type; in particular the nodes the   *)
(* search visits are identifiers of the plan.                               *)
THEOREM TypeCorrect == Spec => []TypeOK
<1>1. IInv => TypeOK
  BY DEF IInv, VisitInv
<1>2. QED
  BY <1>1, Invariant, PTL

(* validate raises exactly on the plans with a malformed step, an           *)
(* incomplete input, an unknown dependency or a cycle, for every set of     *)
(* plans and every order of the search.                                     *)
THEOREM VerdictHolds == Spec => []VerdictIsRight
<1>1. IInv => VerdictIsRight
  BY DEF IInv, VerdictInv, VerdictIsRight, Sound
<1>2. QED
  BY <1>1, Invariant, PTL

(* recursion_stack holds exactly the nodes of the active calls of dfs, no   *)
(* node has two active calls, and when a call has returned, so have those   *)
(* of all the dependencies of its node.                                     *)
THEOREM SearchIsDepthFirstHolds == Spec => []SearchIsDepthFirst
<1>1. IInv => SearchIsDepthFirst
  BY DEF IInv, SearchInv, RankInv, Finished, ReturnedNodesAreClosed, SearchIsDepthFirst
<1>2. QED
  BY <1>1, Invariant, PTL

-------------------------------------------------------------------------------
(* The planner around the validator *)

(* A text that goes on to be parsed comes from a model tier. *)
ModelText ==
  /\ stage = "sniff" /\ plan_text # NoText /\ ~plan_text.mentions =>
       mode \in {"openai", "ollama"}
  /\ stage \in {"parse", "goal", "validate", "planned"} => mode \in {"openai", "ollama"}

ReturnedInv == returned # NoPlan => Sound(returned)

PlannerInv == IInv /\ ModelText /\ ReturnedInv

(* The static plan would pass the validator it is never shown to. *)
LEMMA RepairPlanIsSound == Sound(RepairPlan)
<1>1. /\ DOMAIN RepairPlan = 1 .. 3 /\ Len(RepairPlan) = 3
      /\ RepairPlan[1] = StaticStep(1, "complete", {})
      /\ RepairPlan[2] = StaticStep(2, "complete", {})
      /\ RepairPlan[3] = StaticStep(3, "complete", {1, 2})
  BY DEF RepairPlan
<1>2. \A s \in DOMAIN RepairPlan :
        /\ RepairPlan[s].step_id = s /\ RepairPlan[s].tool = "registered"
        /\ RepairPlan[s].input = "complete"
        /\ RepairPlan[s].depends_on = IF s = 3 THEN {1, 2} ELSE {}
  BY <1>1 DEF StaticStep
<1>3. IdsOf(RepairPlan) = 1 .. 3
  BY <1>1, <1>2 DEF IdsOf
<1>4. KnownDependencies(RepairPlan)
  BY <1>1, <1>2, <1>3 DEF KnownDependencies
<1>5. Acyclic(RepairPlan)
  <2> DEFINE rank == [i \in 1 .. 3 |-> i]
  <2>1. rank \in [IdsOf(RepairPlan) -> 1 .. Len(RepairPlan)]
    BY <1>1, <1>3
  <2>2. \A s \in DOMAIN RepairPlan : \A d \in RepairPlan[s].depends_on :
          rank[d] < rank[RepairPlan[s].step_id]
    BY <1>1, <1>2
  <2> HIDE DEF rank
  <2>3. QED
    BY <2>1, <2>2 DEF Acyclic
<1>6. \A s \in DOMAIN RepairPlan : WellFormed(RepairPlan[s]) /\ RepairPlan[s].input = "complete"
  BY <1>1, <1>2, NoIdAssumption DEF WellFormed
<1>7. QED
  BY <1>4, <1>5, <1>6 DEF Sound, Validated

LEMMA PlannerInitially == PlannerInit => PlannerInv
<1> SUFFICES ASSUME PlannerInit PROVE PlannerInv
  OBVIOUS
<1>1. IInv
  BY VisitInit, SearchInit DEF PlannerInit, IInv, VerdictInv, Init
<1>2. QED
  BY <1>1 DEF PlannerInit, PlannerInv, ModelText, ReturnedInv

LEMMA RepairKeeps ==
  ASSUME PlannerInv, NEW here, Repair(here)
  PROVE  PlannerInv'
<1>1. UNCHANGED vars /\ stage' = "repaired" /\ returned' = RepairPlan
  BY DEF Repair
<1>2. IInv'
  BY <1>1, InvariantStep DEF PlannerInv
<1>3. ReturnedInv'
  <2>1. Sound(returned')
    BY <1>1, RepairPlanIsSound
  <2>2. QED
    BY <2>1 DEF ReturnedInv, Sound, Validated, KnownDependencies, Acyclic, IdsOf, LastCopy, WellFormed
<1>4. QED
  BY <1>1, <1>2, <1>3 DEF PlannerInv, ModelText

LEMMA PlannerStep == PlannerInv /\ [PlannerNext]_plannerVars => PlannerInv'
<1> SUFFICES ASSUME PlannerInv, [PlannerNext]_plannerVars PROVE PlannerInv'
  OBVIOUS
<1>0. IInv /\ ModelText /\ ReturnedInv
  BY DEF PlannerInv
<1>a. ASSUME [Next]_vars PROVE IInv'
  BY <1>0, <1>a, InvariantStep
<1>b. ASSUME UNCHANGED returned PROVE ReturnedInv'
  BY <1>0, <1>b DEF ReturnedInv, Sound
<1>1. CASE CallOpenAI
  <2>1. IInv' /\ ReturnedInv'
    BY <1>1, <1>a, <1>b DEF CallOpenAI, CallTier
  <2>2. ModelText'
    BY <1>1 DEF CallOpenAI, CallTier, ModelText
  <2>3. QED
    BY <2>1, <2>2 DEF PlannerInv
<1>2. CASE CallOllama
  <2>1. IInv' /\ ReturnedInv'
    BY <1>2, <1>a, <1>b DEF CallOllama, CallTier
  <2>2. ModelText'
    BY <1>2 DEF CallOllama, CallTier, ModelText
  <2>3. QED
    BY <2>1, <2>2 DEF PlannerInv
<1>3. CASE AnswerOffline
  <2>1. IInv' /\ ReturnedInv'
    BY <1>3, <1>a, <1>b DEF AnswerOffline
  <2>2. ModelText'
    BY <1>3 DEF AnswerOffline, OfflineText, ModelText
  <2>3. QED
    BY <2>1, <2>2 DEF PlannerInv
<1>4. CASE Sniff \/ Parse \/ RejectShape
  <2>1. CASE \E here \in {"sniff", "parse", "validate"} : Repair(here)
    BY <2>1, RepairKeeps
  <2>2. CASE ~\E here \in {"sniff", "parse", "validate"} : Repair(here)
    <3>1. /\ UNCHANGED <<vars, mode, plan_text, returned>>
          /\ \/ stage = "sniff" /\ plan_text # NoText /\ ~plan_text.mentions /\ stage' = "parse"
             \/ stage = "parse" /\ stage' = "goal"
      BY <1>4, <2>2 DEF Sniff, Parse, RejectShape
    <3>2. IInv' /\ ReturnedInv'
      BY <1>a, <1>b, <3>1
    <3>3. ModelText'
      BY <1>0, <3>1 DEF ModelText
    <3>4. QED
      BY <3>2, <3>3 DEF PlannerInv
  <2>3. QED
    BY <2>1, <2>2
<1>5. CASE EnsureGoal
  <2>1. IInv' /\ ReturnedInv'
    BY <1>5, <1>a, <1>b DEF EnsureGoal
  <2>2. ModelText'
    BY <1>0, <1>5 DEF EnsureGoal, ModelText
  <2>3. QED
    BY <2>1, <2>2 DEF PlannerInv
<1>6. CASE Validate
  <2>1. IInv' /\ ReturnedInv'
    BY <1>6, <1>a, <1>b DEF Validate
  <2>2. ModelText'
    BY <1>0, <1>6 DEF Validate, ModelText
  <2>3. QED
    BY <2>1, <2>2 DEF PlannerInv
<1>7. CASE ReturnPlan
  <2>1. CASE Repair("validate")
    BY <2>1, RepairKeeps
  <2>2. CASE ~Repair("validate")
    <3>1. /\ UNCHANGED <<vars, mode, plan_text>> /\ phase = "accepted"
          /\ stage = "validate" /\ stage' = "planned" /\ returned' = plan
      BY <1>7, <2>2 DEF ReturnPlan
    <3>2. Sound(plan)
      BY <1>0, <3>1 DEF IInv, VerdictInv
    <3>3. ReturnedInv'
      BY <3>1, <3>2 DEF ReturnedInv
    <3>4. IInv'
      BY <1>a, <3>1
    <3>5. ModelText'
      BY <1>0, <3>1 DEF ModelText
    <3>6. QED
      BY <3>3, <3>4, <3>5 DEF PlannerInv
  <2>3. QED
    BY <2>1, <2>2
<1>8. CASE UNCHANGED plannerVars
  <2>1. UNCHANGED <<vars, stage, mode, plan_text, returned>>
    BY <1>8 DEF plannerVars
  <2>2. IInv' /\ ReturnedInv'
    BY <1>a, <1>b, <2>1
  <2>3. ModelText'
    BY <1>0, <2>1 DEF ModelText
  <2>4. QED
    BY <2>2, <2>3 DEF PlannerInv
<1>9. QED
  BY <1>1, <1>2, <1>3, <1>4, <1>5, <1>6, <1>7, <1>8 DEF PlannerNext

(* Whatever the tiers answer, create_plan returns nothing or a plan that    *)
(* ToolExecutor can run, and the offline answer never passes for a plan.    *)
THEOREM PlanIsRunnableHolds == PlannerSpec => []PlanIsRunnable
<1>1. PlannerInv => PlanIsRunnable
  BY DEF PlannerInv, ModelText, ReturnedInv, Sound, PlanIsRunnable
<1>2. QED
  BY <1>1, PlannerInitially, PlannerStep, PTL DEF PlannerSpec

-------------------------------------------------------------------------------
(* The steps that are left *)

Unvisited == IdsOf(plan) \ visited

(* The measure of the search is a natural number. *)
SearchSizes ==
  /\ IsFiniteSet(EdgesLeft) /\ Cardinality(EdgesLeft) \in Nat
  /\ IsFiniteSet(Unvisited) /\ Cardinality(Unvisited) \in Nat
  /\ Len(calls) \in Nat /\ Len(plan) \in Nat
  /\ SearchLeft = 2 * Cardinality(Unvisited) + Len(calls) + Cardinality(EdgesLeft)
  /\ SearchLeft \in Nat

LEMMA SearchSizesAre == TypeOK => SearchSizes
<1> SUFFICES ASSUME TypeOK PROVE SearchSizes
  OBVIOUS
<1>1. IsFiniteSet(IdsOf(plan)) /\ Len(plan) \in Nat
  BY IdsAreFinite, PlanIsSequence DEF TypeOK
<1>2. IsFiniteSet(IdsOf(plan) \X IdsOf(plan))
  BY <1>1, FS_Product
<1>3. EdgesLeft \in SUBSET (IdsOf(plan) \X IdsOf(plan)) /\ Unvisited \in SUBSET IdsOf(plan)
  BY DEF EdgesLeft, Unvisited
<1>4. IsFiniteSet(EdgesLeft) /\ IsFiniteSet(Unvisited)
  BY <1>1, <1>2, <1>3, FS_Subset
<1>5. Cardinality(EdgesLeft) \in Nat /\ Cardinality(Unvisited) \in Nat
  BY <1>4, FS_CardinalityType
<1>6. Len(calls) \in Nat
  <2>1. calls \in Seq(ActiveCall)
    BY DEF TypeOK, ActiveCall
  <2>2. QED
    BY <2>1
<1>7. SearchLeft = 2 * Cardinality(Unvisited) + Len(calls) + Cardinality(EdgesLeft)
  BY DEF SearchLeft, Unvisited
<1>8. QED
  BY <1>1, <1>4, <1>5, <1>6, <1>7 DEF SearchSizes

(* A dependency that is left after a step was left before, and the one the  *)
(* step looked at is not left any more.                                     *)
LEMMA LookedAt ==
  ASSUME SearchSizes, NEW e \in EdgesLeft, EdgesLeft' \subseteq EdgesLeft \ {e}
  PROVE  Cardinality(EdgesLeft') < Cardinality(EdgesLeft) /\ Cardinality(EdgesLeft') \in Nat
<1>1. /\ IsFiniteSet(EdgesLeft \ {e})
      /\ Cardinality(EdgesLeft \ {e}) = Cardinality(EdgesLeft) - 1
  BY FS_RemoveElement DEF SearchSizes
<1>2. IsFiniteSet(EdgesLeft') /\ Cardinality(EdgesLeft') <= Cardinality(EdgesLeft \ {e})
  BY <1>1, FS_Subset
<1>3. Cardinality(EdgesLeft') \in Nat
  BY <1>2, FS_CardinalityType
<1>4. QED
  BY <1>1, <1>2, <1>3 DEF SearchSizes

LEMMA NoneAppears ==
  ASSUME SearchSizes, EdgesLeft' \subseteq EdgesLeft
  PROVE  Cardinality(EdgesLeft') <= Cardinality(EdgesLeft) /\ Cardinality(EdgesLeft') \in Nat
<1>1. IsFiniteSet(EdgesLeft') /\ Cardinality(EdgesLeft') <= Cardinality(EdgesLeft)
  BY FS_Subset DEF SearchSizes
<1>2. QED
  BY <1>1, FS_CardinalityType

(* The dependency the innermost call is at is left. *)
LEMMA TopEdge ==
  ASSUME Searching, calls # <<>>, NEW n \in Top.rest
  PROVE  /\ <<Top.node, n>> \in EdgesLeft /\ Top.node \in visited /\ n \in IdsOf(plan)
         /\ Top = calls[Len(calls)] /\ Len(calls) \in DOMAIN calls
<1>1. TypeOK /\ StackIsCallStack /\ CallsInv
  BY DEF Searching, SearchInv
<1>2. Len(calls) \in DOMAIN calls /\ Top = calls[Len(calls)]
  BY <1>1, TopCall
<1>3. Top.node \in visited /\ Top.node \in IdsOf(plan)
  BY <1>1, <1>2 DEF StackIsCallStack, TypeOK
<1>4. n \in IdsOf(plan)
  BY <1>1, <1>2, NeighboursAreNodes DEF CallsInv, Searching
<1>5. QED
  BY <1>2, <1>3, <1>4 DEF EdgesLeft

(* Visiting a node spends a unit of two, of which its active call takes one. *)
LEMMA VisitedNode ==
  ASSUME SearchSizes, NEW n \in Unvisited, visited' = visited \cup {n}, plan' = plan
  PROVE  Cardinality(Unvisited') = Cardinality(Unvisited) - 1
<1>1. Unvisited' = Unvisited \ {n}
  BY DEF Unvisited
<1>2. QED
  BY <1>1, FS_RemoveElement DEF SearchSizes

LEMMA StartSpends ==
  ASSUME Searching, SearchSizes, NEW n \in Ids, StartSearch(n)
  PROVE  SearchLeft' < SearchLeft
<1>1. /\ calls = <<>> /\ n \in IdsOf(plan) \ visited /\ visited' = visited \cup {n}
      /\ plan' = plan /\ calls' = <<[node |-> n, rest |-> Neighbours(n)]>>
  BY DEF StartSearch, Call
<1>2. /\ DOMAIN calls' = {1} /\ Len(calls') = 1 /\ Len(calls) = 0
      /\ calls'[1].node = n /\ calls'[1].rest = Neighbours(n)
  BY <1>1
<1>3. EdgesLeft' \subseteq EdgesLeft
  BY <1>1, <1>2, SameNeighbours DEF EdgesLeft
<1>4. Cardinality(Unvisited') = Cardinality(Unvisited) - 1
  BY <1>1, VisitedNode DEF Unvisited
<1>5. SearchLeft' = 2 * Cardinality(Unvisited') + Len(calls') + Cardinality(EdgesLeft')
  BY DEF SearchLeft, Unvisited
<1>6. QED
  BY <1>2, <1>3, <1>4, <1>5, NoneAppears DEF SearchSizes

LEMMA DescendSpends ==
  ASSUME Searching, SearchSizes, NEW n \in Ids, Descend(n)
  PROVE  SearchLeft' < SearchLeft
<1>1. /\ calls # <<>> /\ n \in Top.rest /\ n \notin visited /\ visited' = visited \cup {n}
      /\ plan' = plan /\ calls' = Append(Without(n), [node |-> n, rest |-> Neighbours(n)])
  BY DEF Descend, Call
<1> DEFINE e == <<Top.node, n>>
           c == [node |-> n, rest |-> Neighbours(n)]
<1>2. /\ e \in EdgesLeft /\ Top.node \in visited /\ n \in IdsOf(plan)
      /\ Top = calls[Len(calls)] /\ Len(calls) \in DOMAIN calls
  BY <1>1, TopEdge
<1>3. /\ Without(n) \in Seq(ActiveCall) /\ Len(Without(n)) = Len(calls)
      /\ DOMAIN Without(n) = DOMAIN calls
      /\ \A k \in DOMAIN calls :
           /\ Without(n)[k].node = calls[k].node /\ Without(n)[k].rest \subseteq calls[k].rest
      /\ Without(n)[Len(calls)].rest = calls[Len(calls)].rest \ {n}
      /\ Len(calls) \in Nat /\ DOMAIN calls = 1 .. Len(calls)
  BY <1>1, WithoutIs, TopCall DEF Searching
<1>4. c \in ActiveCall /\ c.node = n /\ c.rest = Neighbours(n)
  BY NeighboursAreNodes DEF Searching, ActiveCall
<1> HIDE DEF c
<1>5. /\ Len(calls') = Len(calls) + 1 /\ DOMAIN calls' = DOMAIN calls \cup {Len(calls) + 1}
      /\ \A k \in DOMAIN calls : calls'[k] = Without(n)[k]
      /\ calls'[Len(calls) + 1] = c
  <2>1. calls' = Append(Without(n), c)
    BY <1>1 DEF c
  <2>2. QED
    BY <1>3, <1>4, <2>1
<1>6. EdgesLeft' \subseteq EdgesLeft \ {e}
  <2>1. ASSUME NEW f \in EdgesLeft' PROVE f \in EdgesLeft /\ f # e
    <3>0. f \in IdsOf(plan) \X IdsOf(plan)
      BY <1>1, <2>1 DEF EdgesLeft
    <3>1. CASE f[1] \notin visited' /\ f[2] \in Neighbours(f[1])
      BY <1>1, <1>2, <3>0, <3>1 DEF EdgesLeft
    <3>2. ASSUME NEW k \in DOMAIN calls, calls'[k].node = f[1], f[2] \in calls'[k].rest
          PROVE  f \in EdgesLeft /\ f # e
      <4>1. /\ calls[k].node = f[1] /\ f[2] \in calls[k].rest
            /\ k = Len(calls) => f[2] # n
        BY <1>3, <1>5, <3>2
      <4>2. calls[k].node = Top.node => k = Len(calls)
        BY <1>2 DEF Searching, SearchInv, CallsInv
      <4>3. QED
        BY <3>0, <4>1, <4>2 DEF EdgesLeft
    <3>3. CASE f[1] = n /\ f[2] \in Neighbours(n)
      BY <1>1, <1>2, <3>0, <3>3 DEF EdgesLeft
    <3>4. \/ f[1] \notin visited' /\ f[2] \in Neighbours(f[1])
          \/ \E k \in DOMAIN calls' : calls'[k].node = f[1] /\ f[2] \in calls'[k].rest
      BY <1>1, <2>1, SameNeighbours DEF EdgesLeft
    <3>5. QED
      BY <1>4, <1>5, <3>1, <3>2, <3>3, <3>4
  <2>2. QED
    BY <2>1
<1>7. Cardinality(Unvisited') = Cardinality(Unvisited) - 1
  BY <1>1, <1>2, VisitedNode DEF Unvisited
<1>8. SearchLeft' = 2 * Cardinality(Unvisited') + Len(calls') + Cardinality(EdgesLeft')
  BY DEF SearchLeft, Unvisited
<1>9. Cardinality(EdgesLeft') < Cardinality(EdgesLeft) /\ Cardinality(EdgesLeft') \in Nat
  BY <1>2, <1>6, LookedAt
<1>10. QED
  BY <1>5, <1>7, <1>8, <1>9 DEF SearchSizes

LEMMA MeetSpends ==
  ASSUME Searching, SearchSizes, NEW n \in Ids, MeetVisited(n), n \notin recursion_stack
  PROVE  SearchLeft' < SearchLeft
<1>1. /\ calls # <<>> /\ n \in Top.rest /\ calls' = Without(n)
      /\ UNCHANGED <<plan, visited>>
  BY DEF MeetVisited
<1> DEFINE e == <<Top.node, n>>
<1>2. e \in EdgesLeft /\ Top = calls[Len(calls)] /\ Len(calls) \in DOMAIN calls
  BY <1>1, TopEdge
<1>3. /\ Len(calls') = Len(calls) /\ DOMAIN calls' = DOMAIN calls
      /\ \A k \in DOMAIN calls :
           calls'[k].node = calls[k].node /\ calls'[k].rest \subseteq calls[k].rest
      /\ calls'[Len(calls)].rest = calls[Len(calls)].rest \ {n}
  BY <1>1, WithoutIs DEF Searching
<1>4. EdgesLeft' \subseteq EdgesLeft \ {e}
  <2>1. ASSUME NEW f \in EdgesLeft' PROVE f \in EdgesLeft /\ f # e
    <3>0. f \in IdsOf(plan) \X IdsOf(plan)
      BY <1>1, <2>1 DEF EdgesLeft
    <3>1. CASE f[1] \notin visited /\ f[2] \in Neighbours(f[1])
      <4>1. Top.node \in visited
        BY <1>1, TopEdge
      <4>2. QED
        BY <3>0, <3>1, <4>1 DEF EdgesLeft
    <3>2. ASSUME NEW k \in DOMAIN calls, calls'[k].node = f[1], f[2] \in calls'[k].rest
          PROVE  f \in EdgesLeft /\ f # e
      <4>1. /\ calls[k].node = f[1] /\ f[2] \in calls[k].rest
            /\ k = Len(calls) => f[2] # n
        BY <1>3, <3>2
      <4>2. calls[k].node = Top.node => k = Len(calls)
        BY <1>2 DEF Searching, SearchInv, CallsInv
      <4>3. QED
        BY <3>0, <4>1, <4>2 DEF EdgesLeft
    <3>3. \/ f[1] \notin visited /\ f[2] \in Neighbours(f[1])
          \/ \E k \in DOMAIN calls : calls'[k].node = f[1] /\ f[2] \in calls'[k].rest
      BY <1>1, <1>3, <2>1, SameNeighbours DEF EdgesLeft
    <3>4. QED
      BY <3>1, <3>2, <3>3
  <2>2. QED
    BY <2>1
<1>5. Unvisited' = Unvisited
  BY <1>1 DEF Unvisited
<1>6. SearchLeft' = 2 * Cardinality(Unvisited') + Len(calls') + Cardinality(EdgesLeft')
  BY DEF SearchLeft, Unvisited
<1>7. Cardinality(EdgesLeft') < Cardinality(EdgesLeft) /\ Cardinality(EdgesLeft') \in Nat
  BY <1>2, <1>4, LookedAt
<1>8. QED
  BY <1>3, <1>5, <1>6, <1>7 DEF SearchSizes

LEMMA LeaveSpends ==
  ASSUME Searching, SearchSizes, Leave
  PROVE  SearchLeft' < SearchLeft
<1>1. calls # <<>> /\ calls' = SubSeq(calls, 1, Len(calls) - 1) /\ UNCHANGED <<plan, visited>>
  BY DEF Leave
<1>2. /\ Len(calls) \in Nat \ {0} /\ DOMAIN calls = 1 .. Len(calls)
      /\ calls \in Seq(ActiveCall)
  BY <1>1, TopCall DEF Searching, TypeOK, ActiveCall
<1>3. /\ Len(calls') = Len(calls) - 1 /\ DOMAIN calls' \subseteq DOMAIN calls
      /\ \A k \in DOMAIN calls' : calls'[k] = calls[k]
  BY <1>1, <1>2
<1>4. EdgesLeft' \subseteq EdgesLeft
  BY <1>1, <1>3, SameNeighbours DEF EdgesLeft
<1>5. Unvisited' = Unvisited
  BY <1>1 DEF Unvisited
<1>6. SearchLeft' = 2 * Cardinality(Unvisited') + Len(calls') + Cardinality(EdgesLeft')
  BY DEF SearchLeft, Unvisited
<1>7. QED
  BY <1>3, <1>4, <1>5, <1>6, NoneAppears DEF SearchSizes

LEMMA SearchStands ==
  ASSUME UNCHANGED <<plan, searchVars>>
  PROVE  SearchLeft' = SearchLeft /\ Len(plan') = Len(plan)
<1>1. plan' = plan /\ visited' = visited /\ calls' = calls
  BY DEF searchVars
<1>2. IdsOf(plan') = IdsOf(plan) /\ Unvisited' = Unvisited
  BY <1>1 DEF Unvisited
<1>3. \A n : Neighbours(n)' = Neighbours(n)
  BY <1>1, SameNeighbours
<1>4. EdgesLeft' = EdgesLeft
  BY <1>1, <1>2, <1>3 DEF EdgesLeft
<1>5. QED
  BY <1>1, <1>2, <1>4 DEF SearchLeft, Unvisited

LEMMA ValidationLeftIs == TypeOK => ValidationLeft \in Nat
<1> SUFFICES ASSUME TypeOK PROVE ValidationLeft \in Nat
  OBVIOUS
<1>1. SearchLeft \in Nat /\ Len(plan) \in Nat
  BY SearchSizesAre DEF SearchSizes
<1>2. at \in 1 .. Len(plan) + 1
  BY DEF TypeOK
<1>3. QED
  BY <1>1, <1>2 DEF ValidationLeft

LEMMA ValidationSpends ==
  ASSUME IInv, Next
  PROVE  ValidationLeft' < ValidationLeft
<1>1. /\ TypeOK /\ LoopInv /\ ChecksInv /\ SearchInv /\ SearchSizes
      /\ Len(plan) \in Nat /\ SearchLeft \in Nat /\ at \in 1 .. Len(plan) + 1
  BY SearchSizesAre DEF IInv, VisitInv, SearchSizes, TypeOK
<1>2. ASSUME phase \in {"steps", "dependencies", "inputs", "cycles"},
             phase' \in {"accepted", "rejected"}
      PROVE  ValidationLeft' < ValidationLeft
  BY <1>1, <1>2 DEF ValidationLeft
<1>3. ASSUME UNCHANGED <<plan, searchVars>>
      PROVE  SearchLeft' = SearchLeft /\ Len(plan') = Len(plan)
  BY <1>3, SearchStands
<1>4. CASE SkipEmpty
  <2>1. phase = "steps" /\ phase' = "cycles" /\ UNCHANGED <<plan, at, searchVars>> /\ Len(plan) = 0
    BY <1>4 DEF SkipEmpty
  <2>2. QED
    BY <1>1, <1>3, <2>1 DEF ValidationLeft
<1>5. CASE CheckStep \/ CheckDependencies \/ CheckInput
  <2>1. UNCHANGED <<plan, searchVars>> /\ phase \in {"steps", "dependencies", "inputs"}
    BY <1>5 DEF CheckStep, CheckDependencies, CheckInput, Reject, Visit
  <2>2. CASE Reject
    BY <1>2, <2>1, <2>2 DEF Reject
  <2>3. ASSUME NEW loop, NEW next, Visit(loop, next),
               <<loop, next>> \in {<<"steps", "dependencies">>, <<"dependencies", "inputs">>,
                                   <<"inputs", "cycles">>}
        PROVE  ValidationLeft' < ValidationLeft
    <3>1. at \in DOMAIN plan /\ phase = loop
      <4>1. phase = loop
        BY <2>3 DEF Visit
      <4>2. plan # <<>>
        BY <1>1, <1>5, <2>1 DEF LoopInv, CheckStep, CheckDependencies, CheckInput
      <4>3. QED
        BY <1>1, <2>1, <4>1, <4>2 DEF LoopInv, Looping
    <3>2. \/ at < Len(plan) /\ at' = at + 1 /\ phase' = loop
          \/ at = Len(plan) /\ at' = 1 /\ phase' = next
      BY <1>1, <2>3, <3>1, PlanIsSequence DEF Visit, TypeOK
    <3>3. SearchLeft' = SearchLeft /\ Len(plan') = Len(plan)
      BY <1>3, <2>1
    <3>4. QED
      BY <1>1, <2>3, <3>1, <3>2, <3>3 DEF ValidationLeft
  <2>4. QED
    BY <1>5, <2>2, <2>3 DEF CheckStep, CheckDependencies, CheckInput
<1>6. ASSUME phase = "cycles" PROVE Searching
  BY <1>1, <1>6 DEF Searching, ChecksInv, Checked, TypeOK
<1>7. ASSUME phase = "cycles", phase' = "cycles", SearchLeft' < SearchLeft, TypeOK'
      PROVE  ValidationLeft' < ValidationLeft
  <2>1. SearchSizes'
    BY <1>7, SearchSizesAre, PTL
  <2>2. QED
    BY <1>1, <1>7, <2>1 DEF ValidationLeft, SearchSizes
<1>8. TypeOK'
  BY InvariantStep DEF IInv, VisitInv
<1>9. ASSUME NEW n \in Ids, StartSearch(n) PROVE ValidationLeft' < ValidationLeft
  BY <1>1, <1>6, <1>7, <1>8, <1>9, StartSpends DEF StartSearch
<1>10. ASSUME NEW n \in Ids, Descend(n) PROVE ValidationLeft' < ValidationLeft
  BY <1>1, <1>6, <1>7, <1>8, <1>10, DescendSpends DEF Descend
<1>11. ASSUME NEW n \in Ids, MeetVisited(n) PROVE ValidationLeft' < ValidationLeft
  <2>1. CASE n \in recursion_stack
    BY <1>2, <1>11, <2>1 DEF MeetVisited
  <2>2. CASE n \notin recursion_stack
    BY <1>1, <1>6, <1>7, <1>8, <1>11, <2>2, MeetSpends DEF MeetVisited
  <2>3. QED
    BY <2>1, <2>2
<1>12. CASE Leave
  BY <1>1, <1>6, <1>7, <1>8, <1>12, LeaveSpends DEF Leave
<1>13. CASE Accept
  BY <1>2, <1>13 DEF Accept
<1>14. QED
  BY <1>4, <1>5, <1>9, <1>10, <1>11, <1>12, <1>13 DEF Next

LEMMA PlanningLeftIs == TypeOK => PlanningLeft \in Nat
BY ValidationLeftIs DEF PlanningLeft

LEMMA PlanningSpends ==
  ASSUME PlannerInv, PlannerNext
  PROVE  PlanningLeft' < PlanningLeft
<1>1. IInv /\ TypeOK
  BY DEF PlannerInv, IInv, VisitInv
<1>2. ValidationLeft \in Nat
  BY <1>1, ValidationLeftIs
<1>3. ASSUME UNCHANGED vars PROVE ValidationLeft' = ValidationLeft
  <2>1. UNCHANGED <<plan, searchVars>> /\ phase' = phase /\ at' = at
    BY <1>3 DEF vars
  <2>2. SearchLeft' = SearchLeft /\ Len(plan') = Len(plan)
    BY <2>1, SearchStands
  <2>3. QED
    BY <2>1, <2>2 DEF ValidationLeft
<1>4. CASE CallOpenAI \/ CallOllama \/ AnswerOffline
  <2>1. ValidationLeft' = ValidationLeft
    BY <1>3, <1>4 DEF CallOpenAI, CallOllama, CallTier, AnswerOffline
  <2>2. \/ stage = "openai" /\ stage' \in {"sniff", "ollama"}
        \/ stage = "ollama" /\ stage' \in {"sniff", "offline"}
        \/ stage = "offline" /\ stage' = "sniff"
    BY <1>4 DEF CallOpenAI, CallOllama, CallTier, AnswerOffline
  <2>3. QED
    BY <1>2, <2>1, <2>2 DEF PlanningLeft
<1>5. CASE Sniff \/ Parse \/ EnsureGoal \/ RejectShape \/ ReturnPlan
  <2>1. ValidationLeft' = ValidationLeft
    BY <1>3, <1>5 DEF Sniff, Parse, EnsureGoal, RejectShape, ReturnPlan, Repair
  <2>2. \/ stage = "sniff" /\ stage' \in {"parse", "repaired"}
        \/ stage = "parse" /\ stage' \in {"goal", "repaired"}
        \/ stage = "goal" /\ stage' \in {"validate", "raised"}
        \/ stage = "validate" /\ stage' \in {"repaired", "planned"}
    BY <1>5 DEF Sniff, Parse, EnsureGoal, RejectShape, ReturnPlan, Repair
  <2>3. QED
    BY <1>2, <2>1, <2>2 DEF PlanningLeft
<1>6. CASE Validate
  <2>1. ValidationLeft' < ValidationLeft /\ stage = "validate" /\ stage' = "validate"
    BY <1>1, <1>6, ValidationSpends DEF Validate
  <2>2. TypeOK'
    BY <1>1, <1>6, InvariantStep DEF Validate, IInv, VisitInv
  <2>3. (ValidationLeft \in Nat)'
    BY <2>2, ValidationLeftIs, PTL
  <2>4. QED
    BY <1>2, <2>1, <2>3 DEF PlanningLeft
<1>7. QED
  BY <1>4, <1>5, <1>6 DEF PlannerNext

(* create_plan ends after a number of steps that is linear in the nodes and *)
(* the dependencies of the plan, for whatever the models wrote and in       *)
(* whatever order the search meets nodes and neighbours.                    *)
THEOREM PlanningIsBoundedHolds == PlannerSpec => PlanningIsBounded
<1>1. PlannerInv /\ PlannerInv' /\ PlannerNext => PlanningLeft' \in 0 .. PlanningLeft - 1
  <2> SUFFICES ASSUME PlannerInv, PlannerInv', PlannerNext
               PROVE  PlanningLeft' \in 0 .. PlanningLeft - 1
    OBVIOUS
  <2>1. PlanningLeft \in Nat
    BY PlanningLeftIs DEF PlannerInv, IInv, VisitInv
  <2>2. TypeOK'
    BY DEF PlannerInv, IInv, VisitInv
  <2>3. (PlanningLeft \in Nat)'
    BY <2>2, PlanningLeftIs, PTL
  <2>4. PlanningLeft' < PlanningLeft
    BY PlanningSpends
  <2>5. QED
    BY <2>1, <2>3, <2>4
<1>2. QED
  BY <1>1, PlannerInitially, PlannerStep, PTL DEF PlannerSpec, PlanningIsBounded
================================================================================
