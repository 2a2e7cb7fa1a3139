-------------------------- MODULE ValidationProofs --------------------------
(***************************************************************************)
(* What the validator's verdict means, for every submission, and that the  *)
(* scores of job-trigger order its stages by weight, for every width of    *)
(* the bands.                                                              *)
(***************************************************************************)
EXTENDS WorkflowValidation, SequenceTheorems, FiniteSetTheorems, TLAPS

-----------------------------------------------------------------------------
(* The score.                                                              *)

\* A higher weight gives a lower score, whatever the times of queueing: the
\* band of a weight (PriorityScore) ends below the band of the next lighter.
LEMMA BandsDoNotOverlap ==
  ASSUME NEW v \in 1..5, NEW w \in 1..5, v > w, NEW t \in Clock, NEW u \in Clock
  PROVE  PriorityScore(v, t) < PriorityScore(w, u)
<1>1. Clamp(v) = v /\ Clamp(w) = w  BY DEF Clamp
<1>2. /\ t \in Int /\ u \in Int /\ PriorityScale \in Int
      /\ 0 <= u /\ t < PriorityScale
  BY PriorityScaleAssumption DEF Clock
<1>3. (6 - v) * PriorityScale + PriorityScale <= (6 - w) * PriorityScale
  <2>1. CASE v = 5 BY <1>2, <2>1, PriorityScaleAssumption
  <2>2. CASE v = 4 BY <1>2, <2>2, PriorityScaleAssumption
  <2>3. CASE v = 3 BY <1>2, <2>3, PriorityScaleAssumption
  <2>4. CASE v = 2 BY <1>2, <2>4, PriorityScaleAssumption
  <2>. QED  BY <2>1, <2>2, <2>3, <2>4
<1>. DEFINE V == (6 - v) * PriorityScale
            W == (6 - w) * PriorityScale
<1>4. V \in Int /\ W \in Int  BY <1>2
<1>. HIDE DEF V, W
<1>5. V + PriorityScale <= W  BY <1>3 DEF V, W
<1>6. V + t < W + u  BY <1>2, <1>4, <1>5
<1>. QED  BY <1>1, <1>6 DEF PriorityScore, V, W

\* Whatever the weight, a stage queued up to now is below the bound
\* (ReadyStagesMaxScore) that the poller passes to ZRANGEBYSCORE.
LEMMA BoundCoversReady ==
  ASSUME NEW w \in Int, NEW now \in Int, NEW t \in Int, t <= now
  PROVE  PriorityScore(w, t) <= ReadyStagesMaxScore(now)
<1>1. Clamp(w) \in 1..5  BY DEF Clamp
<1>2. (6 - Clamp(w)) * PriorityScale <= 5 * PriorityScale
  <2>1. CASE Clamp(w) = 1 BY <2>1, PriorityScaleAssumption
  <2>2. CASE Clamp(w) = 2 BY <2>2, PriorityScaleAssumption
  <2>3. CASE Clamp(w) = 3 BY <2>3, PriorityScaleAssumption
  <2>4. CASE Clamp(w) = 4 BY <2>4, PriorityScaleAssumption
  <2>5. CASE Clamp(w) = 5 BY <2>5, PriorityScaleAssumption
  <2>. QED  BY <1>1, <2>1, <2>2, <2>3, <2>4, <2>5
<1>. DEFINE C == (6 - Clamp(w)) * PriorityScale
            B == 5 * PriorityScale
<1>3. C \in Int /\ B \in Int  BY <1>1, PriorityScaleAssumption
<1>. HIDE DEF C, B
<1>4. C <= B  BY <1>2 DEF C, B
<1>5. C + t <= B + now  BY <1>3, <1>4
<1>. QED  BY <1>5 DEF PriorityScore, ReadyStagesMaxScore, C, B

-----------------------------------------------------------------------------
(* The invariant of the search.                                            *)

\* The nodes whose calls have returned.
Finished == visited \ recStack

\* The stages on recStack are the nodes of the calls under way, each once.
StackIsCalls ==
  /\ \A n \in recStack : \E i \in 1..Len(calls) : calls[i].node = n
  /\ \A i \in 1..Len(calls) : calls[i].node \in recStack
  /\ \A i, j \in 1..Len(calls) : calls[i].node = calls[j].node => i = j

TodoAreNeighbours ==
  \A i \in 1..Len(calls) : calls[i].todo \subseteq dependsOn[calls[i].node]

\* A call was made for a neighbour of the call around it.
CallsFollowEdges ==
  \A i \in 1..(Len(calls) - 1) : calls[i + 1].node \in dependsOn[calls[i].node]

\* What a call has put behind it is finished, or is the call it waits for.
PastIsFinished ==
  \A i \in 1..Len(calls) : \A d \in dependsOn[calls[i].node] \ calls[i].todo :
    d \in Finished \/ (i < Len(calls) /\ d = calls[i + 1].node)

\* Finished nodes depend on finished nodes, and no set of them on itself.
FinishedCanRun ==
  /\ \A n \in Finished : dependsOn[n] \subseteq Finished
  /\ \A S \in SUBSET Finished : ~Deadlocked(S)

SearchInv ==
  /\ TypeOK
  /\ IsFiniteSet(stages)
  /\ recStack \subseteq visited
  /\ pc \in {"search", "stages", "create", "loop"} => KnownDependencies
  /\ pc = "search" => stages \subseteq visited \cup keys
  /\ StackIsCalls
  /\ TodoAreNeighbours
  /\ CallsFollowEdges
  /\ PastIsFinished
  /\ FinishedCanRun
  /\ pc \in {"fields", "dependencies"} => visited = {}
  /\ pc \in {"stages", "create"} => calls = <<>> /\ stages \subseteq visited
  /\ pc = "loop" => calls # <<>> /\ \E m \in recStack : m \in Innermost.todo

\* The initial state has searched nothing.
LEMMA InitSearch == Init => SearchInv
<1>. SUFFICES ASSUME Init PROVE SearchInv
  OBVIOUS
<1>1. TypeOK
  <2>1. weight \in [StageId -> Int]
    <3>1. weight \in [StageId -> SubmittedWeight \cup {0}]
      BY DEF Init
    <3>2. SubmittedWeight \cup {0} \subseteq Int
      BY WeightAssumption
    <3>. QED  BY <3>1, <3>2
  <2>2. calls \in Seq(Call)
    BY DEF Init
  <2>. QED  BY <2>1, <2>2 DEF Init, TypeOK, Check
<1>2. calls = <<>> /\ visited = {} /\ recStack = {} /\ pc = "fields"
  BY DEF Init
<1>3. StackIsCalls /\ TodoAreNeighbours /\ CallsFollowEdges /\ PastIsFinished
  BY <1>2 DEF StackIsCalls, TodoAreNeighbours, CallsFollowEdges, PastIsFinished
<1>4. FinishedCanRun
  BY <1>2 DEF FinishedCanRun, Finished, Deadlocked
<1>5. IsFiniteSet(stages)
  BY DEF Init
<1>. QED  BY <1>1, <1>2, <1>3, <1>4, <1>5 DEF SearchInv

\* The checks before and after the search, and its verdict, leave its maps.
LEMMA SearchKept ==
  ASSUME SearchInv, UNCHANGED <<bodyVars, searchVars>>
  PROVE  /\ (recStack \subseteq visited)'
         /\ StackIsCalls' /\ TodoAreNeighbours' /\ CallsFollowEdges'
         /\ PastIsFinished' /\ FinishedCanRun'
         /\ KnownDependencies' = KnownDependencies
         /\ IsFiniteSet(stages)'
<1>1. StackIsCalls'
  BY DEF SearchInv, StackIsCalls, searchVars
<1>2. TodoAreNeighbours' /\ CallsFollowEdges'
  BY DEF SearchInv, TodoAreNeighbours, CallsFollowEdges, searchVars, bodyVars
<1>3. PastIsFinished'
  BY DEF SearchInv, PastIsFinished, Finished, searchVars, bodyVars
<1>4. FinishedCanRun'
  BY DEF SearchInv, FinishedCanRun, Finished, Deadlocked, searchVars, bodyVars
<1>. QED
  BY <1>1, <1>2, <1>3, <1>4 DEF SearchInv, KnownDependencies, searchVars, bodyVars

\* dfs enters n from the calls cs, which are the calls under way with n taken
\* off the neighbours of the innermost, or n off the keys.
LEMMA EnterKeeps ==
  ASSUME SearchInv, pc = "search", UNCHANGED <<bodyVars, weight, pc>>,
         NEW n \in stages \ visited, NEW cs \in Seq(Call),
         Len(cs) = Len(calls),
         \A i \in 1..Len(cs) : /\ cs[i].node = calls[i].node
                               /\ cs[i].todo \subseteq calls[i].todo,
         \A i \in 1..Len(cs) : \A d \in calls[i].todo \ cs[i].todo :
            i = Len(cs) /\ d = n,
         Len(cs) > 0 => n \in dependsOn[cs[Len(cs)].node],
         Enter(n, cs), keys' \in {keys, keys \ {n}}
  PROVE  SearchInv'
<1>. DEFINE L == Len(cs)
<1>1. L \in Nat  OBVIOUS
<1>2. dependsOn \in [StageId -> SUBSET StageId] /\ n \in StageId
  BY DEF SearchInv, TypeOK
<1>3. [node |-> n, todo |-> dependsOn[n]] \in Call
  BY <1>2 DEF Call
<1>4. /\ calls' \in Seq(Call)
      /\ Len(calls') = L + 1
      /\ \A i \in 1..L : calls'[i] = cs[i]
      /\ calls'[L + 1] = [node |-> n, todo |-> dependsOn[n]]
  BY <1>3 DEF Enter
<1>5. n \notin recStack
  BY DEF SearchInv
<1>6. TypeOK'
  BY <1>4 DEF SearchInv, TypeOK, Enter, bodyVars
<1>7. (recStack \subseteq visited)'
  BY DEF SearchInv, Enter
<1>8. KnownDependencies'
  BY DEF SearchInv, KnownDependencies, bodyVars
<1>9. Finished' = Finished
  BY <1>5 DEF Finished, Enter, SearchInv
<1>10. StackIsCalls'
  <2>1. \A i \in 1..L : calls'[i].node = calls[i].node /\ calls[i].node \in recStack
    BY <1>4 DEF SearchInv, StackIsCalls
  <2>2. calls'[L + 1].node = n
    BY <1>4
  <2>3. recStack' = recStack \cup {n}
    BY DEF Enter
  <2>4. ASSUME NEW r \in recStack' PROVE \E i \in 1..Len(calls') : calls'[i].node = r
    <3>1. CASE r = n BY <1>1, <1>4, <2>2, <3>1
    <3>2. CASE r \in recStack
      <4>1. PICK i \in 1..Len(calls) : calls[i].node = r
        BY <3>2 DEF SearchInv, StackIsCalls
      <4>. QED  BY <1>1, <1>4, <2>1, <4>1
    <3>. QED  BY <2>3, <3>1, <3>2
  <2>5. ASSUME NEW i \in 1..Len(calls') PROVE calls'[i].node \in recStack'
    BY <1>1, <1>4, <2>1, <2>2, <2>3
  <2>6. ASSUME NEW i \in 1..Len(calls'), NEW j \in 1..Len(calls'),
               calls'[i].node = calls'[j].node
        PROVE  i = j
    <3>1. CASE i \in 1..L /\ j \in 1..L
      BY <2>1, <2>6, <3>1 DEF SearchInv, StackIsCalls
    <3>2. CASE i = L + 1 /\ j \in 1..L
      BY <1>5, <2>1, <2>2, <2>6, <3>2
    <3>3. CASE i \in 1..L /\ j = L + 1
      BY <1>5, <2>1, <2>2, <2>6, <3>3
    <3>. QED  BY <1>1, <1>4, <3>1, <3>2, <3>3
  <2>. QED  BY <2>4, <2>5, <2>6 DEF StackIsCalls
<1>11. dependsOn' = dependsOn
  BY DEF bodyVars
<1>12. TodoAreNeighbours'
  <2>. SUFFICES ASSUME NEW i \in 1..Len(calls')
                PROVE  calls'[i].todo \subseteq dependsOn[calls'[i].node]
    BY <1>11 DEF TodoAreNeighbours
  <2>1. CASE i \in 1..L
    BY <1>4, <2>1 DEF SearchInv, TodoAreNeighbours
  <2>2. CASE i = L + 1
    BY <1>4, <2>2
  <2>. QED  BY <1>1, <1>4, <2>1, <2>2
<1>13. CallsFollowEdges'
  <2>. SUFFICES ASSUME NEW i \in 1..L
                PROVE  calls'[i + 1].node \in dependsOn[calls'[i].node]
    BY <1>1, <1>4, <1>11 DEF CallsFollowEdges
  <2>1. CASE i < L
    <3>1. i \in 1..(Len(calls) - 1) /\ i + 1 \in 1..L
      BY <1>1, <2>1
    <3>2. calls[i + 1].node \in dependsOn[calls[i].node]
      BY <3>1 DEF SearchInv, CallsFollowEdges
    <3>. QED  BY <1>4, <3>1, <3>2
  <2>2. CASE i = L
    BY <1>1, <1>4, <2>2
  <2>. QED  BY <1>1, <2>1, <2>2
<1>14. PastIsFinished'
  <2>. SUFFICES ASSUME NEW i \in 1..Len(calls'),
                       NEW d \in dependsOn[calls'[i].node] \ calls'[i].todo
                PROVE  \/ d \in Finished
                       \/ i < Len(calls') /\ d = calls'[i + 1].node
    BY <1>9, <1>11 DEF PastIsFinished
  <2>1. CASE i \in 1..L /\ d \in calls[i].todo
    <3>1. calls'[i] = cs[i]
      BY <1>4, <2>1
    <3>2. i = L /\ d = n
      BY <2>1, <3>1
    <3>. QED  BY <1>1, <1>4, <3>2
  <2>2. CASE i \in 1..L /\ d \notin calls[i].todo
    <3>1. calls'[i] = cs[i] /\ d \in dependsOn[calls[i].node] \ calls[i].todo
      BY <1>4, <2>2
    <3>2. d \in Finished \/ (i < Len(calls) /\ d = calls[i + 1].node)
      BY <2>2, <3>1 DEF SearchInv, PastIsFinished
    <3>3. ASSUME i < Len(calls), d = calls[i + 1].node
          PROVE  i < Len(calls') /\ d = calls'[i + 1].node
      <4>1. i + 1 \in 1..L
        BY <1>1, <2>2, <3>3
      <4>. QED  BY <1>1, <1>4, <3>3, <4>1
    <3>. QED  BY <3>2, <3>3
  <2>3. CASE i = L + 1
    BY <1>4, <2>3
  <2>. QED  BY <1>1, <1>4, <2>1, <2>2, <2>3
<1>15. FinishedCanRun'
  BY <1>9, <1>11 DEF SearchInv, FinishedCanRun, Deadlocked
<1>16. pc' = "search" /\ IsFiniteSet(stages)'
  BY DEF SearchInv, bodyVars
<1>17. (stages \subseteq visited \cup keys)'
  BY DEF SearchInv, Enter, bodyVars
<1>. QED
  BY <1>6, <1>7, <1>8, <1>10, <1>12, <1>13, <1>14, <1>15, <1>16, <1>17
     DEF SearchInv

\* A key of the graph: with no call under way nothing is on recStack.
LEMMA SearchFromKeeps == SearchInv /\ (\E n \in StageId : SearchFrom(n)) => SearchInv'
<1>. SUFFICES ASSUME SearchInv, NEW n \in StageId, SearchFrom(n)
              PROVE  SearchInv'
  OBVIOUS
<1>1. /\ calls = <<>> /\ n \in keys /\ pc = "search" /\ keys' = keys \ {n}
      /\ UNCHANGED <<bodyVars, weight>> /\ n \in stages
  BY DEF SearchFrom, SearchInv, TypeOK
<1>2. calls \in Seq(Call) /\ Len(calls) = 0
  BY <1>1 DEF SearchInv, TypeOK
<1>3. 1..Len(calls) = {} /\ ~(Len(calls) > 0)
  BY <1>2
<1>4. ~OnRecStack(n)
  BY <1>3 DEF SearchInv, StackIsCalls, OnRecStack
<1>5. CASE n \in visited /\ UNCHANGED <<pc, searchVars>>
  <2>1. UNCHANGED <<bodyVars, searchVars>>
    BY <1>1, <1>5
  <2>2. TypeOK'
    BY <1>1, <1>5 DEF SearchInv, TypeOK, bodyVars, searchVars
  <2>3. (stages \subseteq visited \cup keys)' /\ pc' = "search"
    BY <1>1, <1>5 DEF SearchInv, bodyVars, searchVars
  <2>4. KnownDependencies
    BY <1>1 DEF SearchInv
  <2>. QED  BY <2>1, <2>2, <2>3, <2>4, SearchKept DEF SearchInv
<1>6. CASE n \notin visited /\ Enter(n, calls) /\ UNCHANGED pc
  BY <1>1, <1>2, <1>3, <1>6, EnterKeeps
<1>. QED  BY <1>4, <1>5, <1>6 DEF SearchFrom, Dfs, searchVars

\* What taking a neighbour off the innermost call does to the calls.
LEMMA PastFacts ==
  ASSUME TypeOK, calls # <<>>, NEW m \in StageId
  PROVE  /\ Len(calls) \in Nat \ {0}
         /\ Innermost \in Call
         /\ Past(m) \in Seq(Call)
         /\ Len(Past(m)) = Len(calls)
         /\ \A i \in 1..Len(calls) :
              /\ Past(m)[i].node = calls[i].node
              /\ Past(m)[i].todo = IF i = Len(calls) THEN calls[i].todo \ {m}
                                                     ELSE calls[i].todo
<1>1. calls \in Seq(Call) /\ Len(calls) \in Nat \ {0}
  BY DEF TypeOK
<1>2. \A i \in 1..Len(calls) : calls[i] \in Call
  BY <1>1
<1>3. Innermost \in Call
  BY <1>1, <1>2 DEF Innermost
<1>4. [Innermost EXCEPT !.todo = @ \ {m}] \in Call
  BY <1>3 DEF Call
<1>5. Past(m) = [calls EXCEPT ![Len(calls)] = [Innermost EXCEPT !.todo = @ \ {m}]]
  BY DEF Past, Innermost
<1>6. Past(m) \in Seq(Call) /\ Len(Past(m)) = Len(calls)
  BY <1>1, <1>4, <1>5
<1>7. ASSUME NEW i \in 1..Len(calls)
      PROVE  /\ Past(m)[i].node = calls[i].node
             /\ Past(m)[i].todo = IF i = Len(calls) THEN calls[i].todo \ {m}
                                                    ELSE calls[i].todo
  <2>1. CASE i = Len(calls)
    <3>1. Past(m)[i] = [Innermost EXCEPT !.todo = @ \ {m}]
      BY <1>1, <1>5, <2>1
    <3>2. Innermost = calls[i]
      BY <2>1 DEF Innermost
    <3>. QED  BY <1>3, <2>1, <3>1, <3>2 DEF Call
  <2>2. CASE i # Len(calls)
    BY <1>1, <1>5, <2>2
  <2>. QED  BY <2>1, <2>2
<1>. QED  BY <1>1, <1>3, <1>6, <1>7

\* The three answers of dfs for a neighbour.
LEMMA VisitKeeps == SearchInv /\ (\E m \in StageId : Visit(m)) => SearchInv'
<1>. SUFFICES ASSUME SearchInv, NEW m \in StageId, Visit(m)
              PROVE  SearchInv'
  OBVIOUS
<1>. DEFINE L == Len(calls)
<1>1. /\ pc = "search" /\ calls # <<>> /\ m \in Innermost.todo
      /\ UNCHANGED <<bodyVars, weight, keys>>
  BY DEF Visit
<1>2. TypeOK /\ KnownDependencies
  BY <1>1 DEF SearchInv
<1>3. /\ L \in Nat \ {0} /\ Innermost \in Call
      /\ Past(m) \in Seq(Call) /\ Len(Past(m)) = L
      /\ \A i \in 1..L :
           /\ Past(m)[i].node = calls[i].node
           /\ Past(m)[i].todo = IF i = L THEN calls[i].todo \ {m}
                                         ELSE calls[i].todo
  BY <1>1, <1>2, PastFacts
<1>4. m \in dependsOn[Innermost.node] /\ Innermost.node \in recStack
  BY <1>1, <1>3 DEF SearchInv, TodoAreNeighbours, StackIsCalls, Innermost
<1>5. m \in stages
  BY <1>2, <1>4 DEF SearchInv, TypeOK, KnownDependencies
<1>6. CASE OnRecStack(m) /\ pc' = "loop" /\ UNCHANGED searchVars
  <2>1. UNCHANGED <<bodyVars, searchVars>>
    BY <1>1, <1>6
  <2>2. TypeOK'
    BY <1>1, <1>2, <1>6 DEF TypeOK, Verdict, bodyVars, searchVars
  <2>3. (calls # <<>> /\ \E r \in recStack : r \in Innermost.todo)'
    BY <1>1, <1>6 DEF OnRecStack, Innermost, searchVars
  <2>. QED  BY <1>2, <1>6, <2>1, <2>2, <2>3, SearchKept DEF SearchInv
<1>7. CASE m \in visited /\ ~OnRecStack(m) /\ calls' = Past(m)
           /\ UNCHANGED <<pc, visited, recStack>>
  <2>1. m \in Finished /\ Finished' = Finished
    BY <1>7 DEF OnRecStack, Finished
  <2>2. dependsOn' = dependsOn /\ Len(calls') = L
    BY <1>1, <1>3, <1>7 DEF bodyVars
  <2>3. TypeOK'
    BY <1>1, <1>2, <1>3, <1>7 DEF TypeOK, bodyVars
  <2>4. StackIsCalls'
    <3>1. StackIsCalls
      BY DEF SearchInv
    <3>2. /\ recStack' = recStack /\ 1..Len(calls') = 1..L
          /\ \A i \in 1..L : calls'[i].node = calls[i].node
      BY <1>3, <1>7
    <3>3. \A n \in recStack : \E i \in 1..L : calls'[i].node = n
      BY <3>1, <3>2 DEF StackIsCalls
    <3>4. \A i \in 1..L : calls'[i].node \in recStack
      BY <3>1, <3>2 DEF StackIsCalls
    <3>5. \A i, j \in 1..L : calls'[i].node = calls'[j].node => i = j
      BY <3>1, <3>2 DEF StackIsCalls
    <3>. QED  BY <3>2, <3>3, <3>4, <3>5 DEF StackIsCalls
  <2>5. TodoAreNeighbours'
    BY <1>3, <1>7, <2>2 DEF SearchInv, TodoAreNeighbours
  <2>6. CallsFollowEdges'
    <3>. SUFFICES ASSUME NEW i \in 1..(L - 1)
                  PROVE  calls'[i + 1].node \in dependsOn[calls'[i].node]
      BY <2>2 DEF CallsFollowEdges
    <3>1. i \in 1..L /\ i + 1 \in 1..L
      BY <1>3
    <3>. QED  BY <1>3, <1>7, <3>1 DEF SearchInv, CallsFollowEdges
  <2>7. PastIsFinished'
    <3>. SUFFICES ASSUME NEW i \in 1..L,
                         NEW d \in dependsOn[calls'[i].node] \ calls'[i].todo
                  PROVE  d \in Finished \/ (i < L /\ d = calls'[i + 1].node)
      BY <2>1, <2>2 DEF PastIsFinished
    <3>1. d = m \/ d \in dependsOn[calls[i].node] \ calls[i].todo
      BY <1>3, <1>7
    <3>2. CASE d = m BY <2>1, <3>2
    <3>3. CASE d \in dependsOn[calls[i].node] \ calls[i].todo
      <4>1. d \in Finished \/ (i < L /\ d = calls[i + 1].node)
        BY <3>3 DEF SearchInv, PastIsFinished
      <4>2. i < L => i + 1 \in 1..L
        BY <1>3
      <4>. QED  BY <1>3, <1>7, <4>1, <4>2
    <3>. QED  BY <3>1, <3>2, <3>3
  <2>8. FinishedCanRun'
    BY <2>1, <2>2 DEF SearchInv, FinishedCanRun, Deadlocked
  <2>9. /\ KnownDependencies' /\ (recStack \subseteq visited)' /\ pc' = "search"
        /\ IsFiniteSet(stages)' /\ (stages \subseteq visited \cup keys)'
    BY <1>1, <1>2, <1>7 DEF SearchInv, KnownDependencies, bodyVars
  <2>. QED
    BY <2>3, <2>4, <2>5, <2>6, <2>7, <2>8, <2>9 DEF SearchInv
<1>8. CASE m \notin visited /\ Enter(m, Past(m)) /\ UNCHANGED pc
  <2>1. \A i \in 1..L : \A d \in calls[i].todo \ Past(m)[i].todo : i = L /\ d = m
    BY <1>3
  <2>2. m \in dependsOn[Past(m)[L].node]
    <3>1. L \in 1..L
      BY <1>3
    <3>2. Past(m)[L].node = Innermost.node
      BY <1>3, <3>1 DEF Innermost
    <3>. QED  BY <1>4, <3>2
  <2>3. \A i \in 1..L : /\ Past(m)[i].node = calls[i].node
                        /\ Past(m)[i].todo \subseteq calls[i].todo
    BY <1>3
  <2>4. m \in stages \ visited
    BY <1>5, <1>8
  <2>5. UNCHANGED <<bodyVars, weight, pc>> /\ keys' = keys
    BY <1>1, <1>8
  <2>6. Past(m) \in Seq(Call) /\ Len(Past(m)) = L
    BY <1>3
  <2>. QED  BY <1>1, <1>8, <2>1, <2>2, <2>3, <2>4, <2>5, <2>6, EnterKeeps
<1>. QED  BY <1>6, <1>7, <1>8 DEF Visit, Dfs

\* dfs returns from a node all of whose neighbours are finished.
LEMMA ReturnKeeps == SearchInv /\ Return => SearchInv'
<1>. SUFFICES ASSUME SearchInv, Return PROVE SearchInv'
  OBVIOUS
<1>. DEFINE L == Len(calls)
            u == Innermost.node
<1>1. /\ pc = "search" /\ calls # <<>> /\ Innermost.todo = {}
      /\ recStack' = recStack \ {u}
      /\ calls' = SubSeq(calls, 1, L - 1)
      /\ UNCHANGED <<bodyVars, weight, pc, keys, visited>>
  BY DEF Return
<1>2. calls \in Seq(Call) /\ L \in Nat \ {0}
  BY <1>1 DEF SearchInv, TypeOK
<1>3. /\ calls' \in Seq(Call) /\ Len(calls') = L - 1
      /\ \A i \in 1..(L - 1) : calls'[i] = calls[i]
  <2>1. \A i \in 1..(L - 1) : calls[i] \in Call
    BY <1>2
  <2>2. 1 \in Int /\ L - 1 \in Int /\ (L - 1) - 1 + 1 = L - 1
    BY <1>2
  <2>3. /\ calls' \in Seq(Call)
        /\ Len(calls') = IF 1 <= L - 1 THEN (L - 1) - 1 + 1 ELSE 0
        /\ \A i \in 1..((L - 1) - 1 + 1) : calls'[i] = calls[1 + i - 1]
    BY <1>1, <2>1, <2>2, SubSeqProperties
  <2>4. ASSUME NEW i \in 1..(L - 1) PROVE calls'[i] = calls[i]
    <3>1. 1 + i - 1 = i /\ i \in 1..((L - 1) - 1 + 1)
      BY <1>2
    <3>2. calls'[i] = calls[1 + i - 1]
      BY <2>3, <3>1
    <3>. QED  BY <3>1, <3>2
  <2>5. Len(calls') = L - 1
    <3>1. CASE L = 1 BY <2>3, <3>1
    <3>2. CASE 1 <= L - 1 BY <2>2, <2>3, <3>2
    <3>. QED  BY <1>2, <3>1, <3>2
  <2>. QED  BY <2>3, <2>4, <2>5
<1>4. L \in 1..L /\ calls[L].node = u /\ calls[L].todo = {} /\ u \in recStack
  BY <1>1, <1>2 DEF SearchInv, StackIsCalls, Innermost
<1>5. Finished' = Finished \cup {u} /\ u \notin Finished
  BY <1>1, <1>4 DEF SearchInv, Finished
<1>6. dependsOn[u] \subseteq Finished
  BY <1>2, <1>4 DEF SearchInv, PastIsFinished
<1>7. dependsOn' = dependsOn
  BY <1>1 DEF bodyVars
<1>8. TypeOK'
  BY <1>1, <1>3 DEF SearchInv, TypeOK, bodyVars
<1>9. StackIsCalls'
  <2>1. ASSUME NEW n \in recStack' PROVE \E i \in 1..(L - 1) : calls'[i].node = n
    <3>1. PICK i \in 1..L : calls[i].node = n
      BY <1>1, <2>1 DEF SearchInv, StackIsCalls
    <3>2. i # L
      BY <1>1, <1>4, <2>1, <3>1
    <3>3. i \in 1..(L - 1)
      BY <1>2, <3>2
    <3>. QED  BY <1>3, <3>1, <3>3
  <2>2. ASSUME NEW i \in 1..(L - 1) PROVE calls'[i].node \in recStack'
    <3>1. i \in 1..L /\ i # L
      BY <1>2
    <3>2. calls[i].node \in recStack /\ calls[i].node # u
      BY <1>4, <3>1 DEF SearchInv, StackIsCalls
    <3>. QED  BY <1>1, <1>3, <3>2
  <2>3. \A i, j \in 1..(L - 1) : i \in 1..L /\ j \in 1..L
    BY <1>2
  <2>4. \A i, j \in 1..(L - 1) : calls'[i].node = calls'[j].node => i = j
    BY <1>3, <2>3 DEF SearchInv, StackIsCalls
  <2>. QED  BY <1>3, <2>1, <2>2, <2>4 DEF StackIsCalls
<1>10. \A i \in 1..(L - 1) : i \in 1..L
  BY <1>2
<1>11. TodoAreNeighbours'
  BY <1>3, <1>7, <1>10 DEF SearchInv, TodoAreNeighbours
<1>12. CallsFollowEdges'
  <2>. SUFFICES ASSUME NEW i \in 1..(L - 2)
                PROVE  calls'[i + 1].node \in dependsOn[calls'[i].node]
    BY <1>2, <1>3, <1>7 DEF CallsFollowEdges
  <2>1. i \in 1..(L - 1) /\ i + 1 \in 1..(L - 1)
    BY <1>2
  <2>. QED  BY <1>3, <2>1 DEF SearchInv, CallsFollowEdges
<1>13. PastIsFinished'
  <2>. SUFFICES ASSUME NEW i \in 1..(L - 1),
                       NEW d \in dependsOn[calls'[i].node] \ calls'[i].todo
                PROVE  d \in Finished' \/ (i < L - 1 /\ d = calls'[i + 1].node)
    BY <1>3, <1>7 DEF PastIsFinished
  <2>1. d \in Finished \/ d = calls[i + 1].node
    BY <1>3, <1>10 DEF SearchInv, PastIsFinished
  <2>2. CASE i = L - 1
    BY <1>2, <1>4, <1>5, <2>1, <2>2
  <2>3. CASE i < L - 1
    <3>1. i + 1 \in 1..(L - 1)
      BY <1>2, <2>3
    <3>. QED  BY <1>3, <1>5, <2>1, <2>3, <3>1
  <2>. QED  BY <1>2, <2>2, <2>3
<1>14. FinishedCanRun'
  <2>1. \A n \in Finished' : dependsOn[n] \subseteq Finished'
    BY <1>5, <1>6 DEF SearchInv, FinishedCanRun
  <2>2. ASSUME NEW S \in SUBSET Finished', S # {}
        PROVE  \E s \in S : dependsOn[s] \cap S = {}
    <3>1. CASE S \cap Finished = {}
      <4>1. u \in S
        BY <1>5, <2>2, <3>1
      <4>. QED  BY <1>6, <3>1, <4>1
    <3>2. CASE S \cap Finished # {}
      <4>1. S \cap Finished \in SUBSET Finished
        OBVIOUS
      <4>2. PICK s \in S \cap Finished : dependsOn[s] \cap (S \cap Finished) = {}
        BY <3>2, <4>1 DEF SearchInv, FinishedCanRun, Deadlocked
      <4>3. dependsOn[s] \subseteq Finished
        BY <4>2 DEF SearchInv, FinishedCanRun
      <4>. QED  BY <4>2, <4>3
    <3>. QED  BY <3>1, <3>2
  <2>. QED  BY <1>7, <2>1, <2>2 DEF FinishedCanRun, Deadlocked
<1>15. /\ KnownDependencies' /\ (recStack \subseteq visited)' /\ pc' = "search"
       /\ IsFiniteSet(stages)' /\ (stages \subseteq visited \cup keys)'
  BY <1>1 DEF SearchInv, KnownDependencies, bodyVars
<1>. QED
  BY <1>8, <1>9, <1>11, <1>12, <1>13, <1>14, <1>15 DEF SearchInv

\* The checks around the search.
LEMMA CheckKeeps ==
  ASSUME SearchInv,
         ValidateWorkflow \/ DependenciesExist \/ NoLoop \/ ValidateStages
  PROVE  SearchInv'
<1>1. UNCHANGED <<bodyVars, searchVars>>
  BY DEF ValidateWorkflow, DependenciesExist, NoLoop, ValidateStages
<1>2. /\ (recStack \subseteq visited)'
      /\ StackIsCalls' /\ TodoAreNeighbours' /\ CallsFollowEdges'
      /\ PastIsFinished' /\ FinishedCanRun'
      /\ KnownDependencies' = KnownDependencies /\ IsFiniteSet(stages)'
  BY <1>1, SearchKept
<1>3. UNCHANGED <<stages, visited, calls, recStack>>
  BY <1>1 DEF bodyVars, searchVars
<1>4. weight' \in [StageId -> Int]
  <2>1. CASE UNCHANGED weight BY <2>1 DEF SearchInv, TypeOK
  <2>2. CASE ValidateStages
    BY <2>2 DEF SearchInv, TypeOK, ValidateStages, DefaultWeight
  <2>. QED  BY <2>1, <2>2 DEF ValidateWorkflow, DependenciesExist, NoLoop
<1>5. TypeOK'
  <2>1. pc' \in Check \cup Verdict
    BY DEF ValidateWorkflow, DependenciesExist, NoLoop, ValidateStages,
           Check, Verdict
  <2>2. keys' \subseteq stages
    BY DEF ValidateWorkflow, DependenciesExist, NoLoop, ValidateStages,
           SearchInv, TypeOK
  <2>. QED
    BY <1>1, <1>4, <2>1, <2>2 DEF SearchInv, TypeOK, bodyVars, searchVars
<1>6. CASE ValidateWorkflow
  <2>1. pc' \in {"dependencies", "invalid"} /\ visited = {}
    BY <1>6 DEF ValidateWorkflow, SearchInv
  <2>. QED  BY <1>2, <1>3, <1>5, <2>1 DEF SearchInv
<1>7. CASE DependenciesExist
  <2>1. pc' = "invalid" \/ (pc' = "search" /\ KnownDependencies /\ keys' = stages)
    BY <1>7 DEF DependenciesExist
  <2>. QED  BY <1>2, <1>3, <1>5, <2>1 DEF SearchInv
<1>8. CASE NoLoop
  <2>1. pc = "search" /\ pc' = "stages" /\ calls = <<>> /\ stages \subseteq visited
    BY <1>8 DEF NoLoop, SearchInv
  <2>. QED  BY <1>2, <1>3, <1>5, <2>1 DEF SearchInv
<1>9. CASE ValidateStages
  <2>1. pc = "stages" /\ pc' \in {"create", "invalid"}
    BY <1>9 DEF ValidateStages
  <2>. QED  BY <1>2, <1>3, <1>5, <2>1 DEF SearchInv
<1>. QED  BY <1>6, <1>7, <1>8, <1>9

\* The invariant of the search holds throughout.
LEMMA SearchInvariant == Spec => []SearchInv
<1>1. Init => SearchInv
  BY InitSearch
<1>2. SearchInv /\ [Next]_vars => SearchInv'
  <2>. SUFFICES ASSUME SearchInv, [Next]_vars PROVE SearchInv'
    OBVIOUS
  <2>1. CASE ValidateWorkflow \/ DependenciesExist \/ NoLoop \/ ValidateStages
    BY <2>1, CheckKeeps
  <2>2. CASE \E n \in StageId : SearchFrom(n)
    BY <2>2, SearchFromKeeps
  <2>3. CASE \E n \in StageId : Visit(n)
    BY <2>3, VisitKeeps
  <2>4. CASE Return
    BY <2>4, ReturnKeeps
  <2>5. CASE UNCHANGED vars
    <3>1. UNCHANGED <<bodyVars, searchVars>> /\ UNCHANGED <<weight, pc, keys>>
      BY <2>5 DEF vars
    <3>2. TypeOK'
      BY <3>1 DEF SearchInv, TypeOK, bodyVars, searchVars
    <3>. QED
      BY <3>1, <3>2, SearchKept DEF SearchInv, Innermost, bodyVars, searchVars
  <2>. QED
    BY <2>1, <2>2, <2>3, <2>4, <2>5 DEF Next, Done
<1>. QED  BY <1>1, <1>2, PTL DEF Spec

-----------------------------------------------------------------------------
(* What the verdict means.                                                 *)

\* The types of the checks, for every set of ids and weights.
THEOREM ValidationTypes == Spec => []TypeOK
<1>1. SearchInv => TypeOK
  BY DEF SearchInv
<1>. QED  BY <1>1, SearchInvariant, PTL

\* checkDependencyLoop lets no workflow pass whose stages could wait for each
\* other, however many stages it has.
THEOREM AcceptedWorkflowsCanRun == Spec => []AcceptedCanRun
<1>1. SearchInv => AcceptedCanRun
  <2>. SUFFICES ASSUME SearchInv, pc \in {"stages", "create"}
                PROVE  KnownDependencies /\ \A S \in SUBSET stages : ~Deadlocked(S)
    BY DEF AcceptedCanRun
  <2>1. calls = <<>> /\ stages \subseteq visited
    BY DEF SearchInv
  <2>2. recStack = {}
    BY <2>1 DEF SearchInv, StackIsCalls
  <2>3. stages \subseteq Finished
    BY <2>1, <2>2 DEF Finished
  <2>. QED  BY <2>3 DEF SearchInv, FinishedCanRun
<1>. QED  BY <1>1, SearchInvariant, PTL

\* It turns down no workflow without a cycle: when it reports one, the stages
\* on recStack wait for each other.
THEOREM ReportedLoopsAreReal == Spec => []LoopIsReal
<1>1. SearchInv => LoopIsReal
  <2>. SUFFICES ASSUME SearchInv, pc = "loop"
                PROVE  \E S \in SUBSET stages : Deadlocked(S)
    BY DEF LoopIsReal
  <2>1. PICK m \in recStack : m \in Innermost.todo
    BY DEF SearchInv
  <2>2. calls # <<>> /\ calls \in Seq(Call)
    BY DEF SearchInv, TypeOK
  <2>3. Len(calls) \in Nat \ {0}
    BY <2>2
  <2>4. m \in dependsOn[Innermost.node]
    BY <2>1, <2>3 DEF SearchInv, TodoAreNeighbours, Innermost
  <2>5. ASSUME NEW s \in recStack PROVE dependsOn[s] \cap recStack # {}
    <3>1. PICK i \in 1..Len(calls) : calls[i].node = s
      BY DEF SearchInv, StackIsCalls
    <3>2. CASE i = Len(calls)
      BY <2>1, <2>4, <3>1, <3>2 DEF Innermost
    <3>3. CASE i # Len(calls)
      <4>1. i \in 1..(Len(calls) - 1) /\ i + 1 \in 1..Len(calls)
        BY <2>3, <3>3
      <4>. QED  BY <3>1, <4>1 DEF SearchInv, CallsFollowEdges, StackIsCalls
    <3>. QED  BY <3>2, <3>3
  <2>6. recStack \in SUBSET stages
    BY DEF SearchInv, TypeOK
  <2>. QED  BY <2>1, <2>5, <2>6 DEF Deadlocked
<1>. QED  BY <1>1, SearchInvariant, PTL

\* The recursion of dfs ends for every dependency graph: each call under way
\* holds a stage of its own on recStack.
THEOREM RecursionEnds == Spec => []RecursionBounded
<1>1. SearchInv => RecursionBounded
  <2>. SUFFICES ASSUME SearchInv PROVE Len(calls) <= Cardinality(stages)
    BY DEF RecursionBounded
  <2>. DEFINE Holds == [i \in 1..Len(calls) |-> calls[i].node]
  <2>1. Len(calls) \in Nat
    BY DEF SearchInv, TypeOK
  <2>2. \A i \in 1..Len(calls) : calls[i].node \in stages
    BY DEF SearchInv, TypeOK, StackIsCalls
  <2>3. Holds \in [1..Len(calls) -> stages]
    BY <2>2
  <2>4. \A i, j \in 1..Len(calls) : Holds[i] = Holds[j] => i = j
    BY DEF SearchInv, StackIsCalls
  <2>5. Holds \in Injection(1..Len(calls), stages)
    BY <2>3, <2>4 DEF Injection, IsInjective
  <2>6. IsFiniteSet(1..Len(calls)) /\ Cardinality(1..Len(calls)) = Len(calls)
    <3>. HIDE DEF Holds
    <3>1. ASSUME NEW n \in Nat
          PROVE  IsFiniteSet(1..n) /\ Cardinality(1..n) = n
      <4>1. 1 \in Int /\ n \in Int /\ (IF 1 > n THEN 0 ELSE n - 1 + 1) = n
        OBVIOUS
      <4>2. /\ IsFiniteSet(1..n)
            /\ Cardinality(1..n) = IF 1 > n THEN 0 ELSE n - 1 + 1
        BY <4>1, FS_Interval, Zenon
      <4>. QED  BY <4>1, <4>2
    <3>. QED  BY <2>1, <3>1, Zenon
  <2>. QED  BY <2>5, <2>6, FS_Injection DEF SearchInv
<1>. QED  BY <1>1, SearchInvariant, PTL

-----------------------------------------------------------------------------
(* The order of the queue.                                                 *)

\* ValidateStage lets only weights of a band through.
WeightsInRange == pc = "create" => \A s \in stages : weight[s] \in 1..5

LEMMA AcceptedWeights == Spec => []WeightsInRange
<1>1. Init => WeightsInRange
  BY DEF Init, WeightsInRange
<1>2. WeightsInRange /\ [Next]_vars => WeightsInRange'
  <2>. SUFFICES ASSUME WeightsInRange, [Next]_vars, pc' = "create"
                PROVE  \A s \in stages' : weight'[s] \in 1..5
    BY DEF WeightsInRange
  <2>1. CASE ValidateStages
    BY <2>1 DEF ValidateStages, ValidateStage, bodyVars
  <2>2. CASE ~ValidateStages
    <3>1. pc = "create" /\ UNCHANGED <<weight, stages>>
      BY <2>2 DEF Next, Done, vars, bodyVars, ValidateWorkflow, NoLoop,
                  DependenciesExist, SearchFrom, Visit, Dfs, Return
    <3>. QED  BY <3>1 DEF WeightsInRange
  <2>. QED  BY <2>1, <2>2
<1>. QED  BY <1>1, <1>2, PTL DEF Spec

\* For every width of the bands and every time that fits in one, an accepted
\* stage of higher weight is queued below (PriorityScore) one of lower weight.
THEOREM QueueOrderedByWeight == Spec => []HeavierFirst
<1>1. WeightsInRange => HeavierFirst
  <2>. SUFFICES ASSUME WeightsInRange, pc = "create",
                       NEW s \in stages, NEW r \in stages, weight[s] > weight[r],
                       NEW t \in Clock, NEW u \in Clock
                PROVE  PriorityScore(weight[s], t) < PriorityScore(weight[r], u)
    BY DEF HeavierFirst
  <2>1. weight[s] \in 1..5 /\ weight[r] \in 1..5
    BY DEF WeightsInRange
  <2>. QED  BY <2>1, BandsDoNotOverlap
<1>. QED  BY <1>1, AcceptedWeights, PTL

\* No stage that is due is hidden from the poller by ReadyStagesMaxScore.
THEOREM ReadyStagesAreSeen == Spec => []ReadyCovered
<1>1. TypeOK => ReadyCovered
  <2>. SUFFICES ASSUME TypeOK, NEW s \in stages, NEW now \in Clock,
                       NEW t \in 0..now
                PROVE  PriorityScore(weight[s], t) <= ReadyStagesMaxScore(now)
    BY DEF ReadyCovered
  <2>1. weight[s] \in Int /\ now \in Int /\ t \in Int /\ t <= now
    BY DEF TypeOK, Clock
  <2>. QED  BY <2>1, BoundCoversReady
<1>. QED  BY <1>1, ValidationTypes, PTL

=============================================================================
