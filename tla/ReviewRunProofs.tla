-------------------------- MODULE ReviewRunProofs --------------------------
(***************************************************************************)
(* What holds of a review for any number of units, any semaphore, any      *)
(* answers and every fault: of its agents, of the semaphore, of what it    *)
(* keeps and how that is numbered, and of the score.                       *)
(*                                                                         *)
(* RInv, towards the end, is the inductive invariant; the theorems on      *)
(* types, the score and the contract follow from it.  Two parts on the way *)
(* are about operators alone: the rank of a place in a sequence of         *)
(* sequences, and sums over finite sets.  Their inductions are over sets   *)
(* of natural numbers (CountUp).                                           *)
(***************************************************************************)
EXTENDS ReviewRun, Functions, FiniteSetTheorems, SequenceTheorems, WellFoundedInduction,
        TLAPS

-----------------------------------------------------------------------------
(* No agent outlives its review, but for one case                            *)

\* A task that has not ended: in a slot, or queued for one.
Open == {u \in Units : pc[u] \in Busy \cup {"queued"}}

\* Tasks belong to a review in progress, or to one that gather gave up because
\* a task raised; a task raises only when the session is broken.
AInv ==
  /\ pc = [u \in Units |-> pc[u]]
  /\ Open # {} => phase = "agents" \/ (phase = "failed" /\ session = "broken")
  /\ \A u \in Units : pc[u] = "raised" => session = "broken"

LEMMA AInvImplies == ASSUME AInv PROVE AgentsEndWithTheReview
BY DEF AInv, Open, AgentsEndWithTheReview, Running

LEMMA InitAgents == ASSUME Init PROVE AInv
BY DEF Init, AgentInit, AgentsIdle, AInv, Open, Busy

\* A step of one task which may end it, and does not mend the session.
LEMMA AgentMoves ==
  ASSUME AInv, NEW u \in Units, pc[u] \in Busy \cup {"queued"},
         pc' = [pc EXCEPT ![u] = pc'[u]], UNCHANGED phase,
         session = "broken" => session' = "broken",
         pc'[u] = "raised" => session' = "broken"
  PROVE  AInv'
BY DEF AInv, Open

LEMMA StepOfAgent == ASSUME AInv, NEW u \in Units, AgentMove(u) PROVE AInv'
<1>0. pc = [v \in Units |-> pc[v]] /\ UNCHANGED phase BY DEF AInv, AgentMove, runVars
<1>1. ASSUME AgentStep(u)
      PROVE  /\ pc[u] \in Busy \cup {"queued"}
             /\ pc' = [pc EXCEPT ![u] = pc'[u]]
             /\ session = "broken" => session' = "broken"
             /\ pc'[u] # "raised"
  <2> USE <1>0 DEF Goto, Busy, Calls
  <2>1. CASE Acquire(u) BY <2>1 DEF Acquire
  <2>2. CASE AskTool(u) \/ Reply(u) \/ ProviderFails(u) \/ GivesUp(u)
    BY <2>2 DEF AskTool, Reply, ProviderFails, GivesUp, Conclude
  <2>3. CASE UnknownTool(u) \/ PlainTool(u)
    BY <2>3 DEF UnknownTool, PlainTool, NextTurn
  <2>4. CASE DiffTool(u) BY <2>4 DEF DiffTool
  <2>5. CASE AutoflushEnd(u) \/ DiffEnd(u) \/ DiffTimeout(u)
    BY <2>5 DEF AutoflushEnd, DiffEnd, DiffTimeout
  <2>6. CASE NoteTool(u) \/ NoteStart(u) \/ NoteEnd(u)
    BY <2>6 DEF NoteTool, NoteStart, NoteEnd, AppendNow, FlushEnds, NextTurn
  <2>7. CASE CloseNow(u) \/ CloseStart(u) \/ CloseEnd(u)
    BY <2>7 DEF CloseNow, CloseStart, CloseEnd, FlushEnds, Return
  <2>8. QED BY <1>1, <2>1, <2>2, <2>3, <2>4, <2>5, <2>6, <2>7 DEF AgentStep
<1>2. ASSUME Escapes(u)
      PROVE  /\ pc[u] \in Busy \cup {"queued"}
             /\ pc' = [pc EXCEPT ![u] = pc'[u]]
             /\ session' = "broken"
  BY <1>0, <1>2 DEF Escapes, Goto, Busy
<1>3. QED BY <1>0, <1>1, <1>2, AgentMoves DEF AgentMove

\* The driver moves without its agents: it leaves them only when all are done,
\* or when one has raised.
LEMMA StepOfDriver ==
  ASSUME AInv, RunStep \/ Cancel
  PROVE  AInv'
<1>1. CASE UNCHANGED <<pc, session>> /\ phase # "agents" /\ phase # "failed"
  BY <1>1 DEF AInv, Open
<1>2. CASE Gather
  <2>1. Open = {} BY <1>2 DEF Gather, Pool, Open, Busy
  <2>2. QED BY <1>2, <2>1 DEF Gather, agentVars, AInv, Open
<1>3. CASE GatherRaises
  <2>1. session = "broken" /\ UNCHANGED <<pc, session>> /\ phase' = "failed"
    BY <1>3 DEF GatherRaises, Pool, AInv, agentVars, Proceed
  <2>2. QED BY <2>1 DEF AInv, Open
<1>4. CASE ReviewStart \/ DiffDone \/ NextSample \/ Cancel
  <2>1. PICK pool \in SUBSET Units : Launch(pool) /\ (pool # {} => phase' = "agents")
    BY <1>4 DEF ReviewStart, DiffDone, NextSample, Cancel, Cancelled, Reviewable, Proceed
  <2>2. QED BY <2>1 DEF Launch, AInv, Open, Busy
<1>5. CASE PersistFails
  BY <1>5 DEF PersistFails, AInv, Open
<1>6. ASSUME RunStep, ~ Gather, ~ GatherRaises, ~ ReviewStart, ~ DiffDone, ~ NextSample,
             ~ PersistFails
      PROVE  UNCHANGED <<pc, session>> /\ phase # "agents" /\ phase # "failed"
  BY <1>6 DEF RunStep, ServiceStep, ShadowStep, LoadProvider, NoProvider, ReviewNothing,
     Persist, PersistInvalid, ReviewDone, ReviewCommit, ReviewFails, FetchDone, FetchFails,
     DiffFails, SkipReview, Convert, ConvertFails, Collect, BenchDone, Score, agentVars
<1>7. QED BY <1>1, <1>2, <1>3, <1>4, <1>5, <1>6

(* A review that is over has no agents at work: those that gather leaves     *)
(* behind are in a session that is broken, and can store nothing.            *)
THEOREM AgentsDoNotOutlive == Spec => []AgentsEndWithTheReview
<1>1. Init => AInv BY InitAgents
<1>2. AInv /\ [Next]_vars => AInv'
  <2>1. ASSUME AInv, UNCHANGED vars PROVE AInv'
    BY <2>1 DEF vars, agentVars, runVars, AInv, Open
  <2>2. QED BY <2>1, StepOfAgent, StepOfDriver DEF Next
<1>3. QED BY <1>1, <1>2, AInvImplies, PTL DEF Spec

-----------------------------------------------------------------------------
(* The semaphore                                                             *)

SlotsOK ==
  /\ pc = [u \in Units |-> pc[u]]
  /\ slots \in Nat
  /\ slots + Cardinality(Running) = Concurrency

LEMMA RunningFinite == IsFiniteSet(Running) /\ Cardinality(Running) \in Nat
<1>1. IsFiniteSet(Units) BY ReviewAssumption, FS_Interval DEF Units, ReviewAssumption
<1>2. QED BY <1>1, FS_Subset, FS_CardinalityType DEF Running

\* A task keeps its slot, takes one or gives one back.
LEMMA SlotMoves ==
  ASSUME SlotsOK, NEW u \in Units, pc' = [pc EXCEPT ![u] = pc'[u]],
         \/ (pc[u] \in Busy <=> pc'[u] \in Busy) /\ slots' = slots
         \/ pc[u] \notin Busy /\ pc'[u] \in Busy /\ slots > 0 /\ slots' = slots - 1
         \/ pc[u] \in Busy /\ pc'[u] \notin Busy /\ slots' = slots + 1
  PROVE  SlotsOK'
<1>0. pc' = [v \in Units |-> pc'[v]] BY DEF SlotsOK
<1>1. CASE (pc[u] \in Busy <=> pc'[u] \in Busy) /\ slots' = slots
  <2>1. Running' = Running BY <1>1 DEF Running, SlotsOK
  <2>2. QED BY <1>0, <1>1, <2>1 DEF SlotsOK
<1>2. CASE pc[u] \notin Busy /\ pc'[u] \in Busy /\ slots > 0 /\ slots' = slots - 1
  <2>1. Running' = Running \cup {u} /\ u \notin Running BY <1>2 DEF Running, SlotsOK
  <2>2. Cardinality(Running') = Cardinality(Running) + 1
    BY <2>1, RunningFinite, FS_AddElement
  <2>3. QED BY <1>0, <1>2, <2>2, RunningFinite DEF SlotsOK
<1>3. CASE pc[u] \in Busy /\ pc'[u] \notin Busy /\ slots' = slots + 1
  <2>1. Running' = Running \ {u} /\ u \in Running BY <1>3 DEF Running, SlotsOK
  <2>2. Cardinality(Running') = Cardinality(Running) - 1
    BY <2>1, RunningFinite, FS_RemoveElement
  <2>3. QED BY <1>0, <1>3, <2>2, RunningFinite DEF SlotsOK
<1>4. QED BY <1>1, <1>2, <1>3

LEMMA SlotsOfAgent == ASSUME SlotsOK, NEW u \in Units, AgentMove(u) PROVE SlotsOK'
<1> DEFINE Keeps == (pc[u] \in Busy <=> pc'[u] \in Busy) /\ slots' = slots
           Takes == pc[u] \notin Busy /\ pc'[u] \in Busy /\ slots > 0 /\ slots' = slots - 1
           Gives == pc[u] \in Busy /\ pc'[u] \notin Busy /\ slots' = slots + 1
<1>0. pc = [v \in Units |-> pc[v]] BY DEF SlotsOK
<1>1. pc' = [pc EXCEPT ![u] = pc'[u]] /\ (Keeps \/ Takes \/ Gives)
  <2> USE <1>0 DEF Goto, Busy, Calls, Release
  <2>1. CASE Acquire(u) BY <2>1 DEF Acquire
  <2>2. CASE AskTool(u) \/ Reply(u) \/ ProviderFails(u) \/ GivesUp(u)
    BY <2>2 DEF AskTool, Reply, ProviderFails, GivesUp, Conclude
  <2>3. CASE UnknownTool(u) \/ PlainTool(u)
    BY <2>3 DEF UnknownTool, PlainTool, NextTurn
  <2>4. CASE DiffTool(u) BY <2>4 DEF DiffTool
  <2>5. CASE AutoflushEnd(u) \/ DiffEnd(u) \/ DiffTimeout(u)
    BY <2>5 DEF AutoflushEnd, DiffEnd, DiffTimeout
  <2>6. CASE NoteTool(u) \/ NoteStart(u) \/ NoteEnd(u)
    BY <2>6 DEF NoteTool, NoteStart, NoteEnd, NextTurn
  <2>7. CASE CloseNow(u) \/ CloseStart(u) \/ CloseEnd(u)
    BY <2>7 DEF CloseNow, CloseStart, CloseEnd, Return
  <2>8. CASE Escapes(u) BY <2>8 DEF Escapes
  <2>9. QED BY <2>1, <2>2, <2>3, <2>4, <2>5, <2>6, <2>7, <2>8 DEF AgentStep, AgentMove
<1>2. QED BY <1>1, SlotMoves

LEMMA SlotsOfDriver == ASSUME SlotsOK, RunStep \/ Cancel PROVE SlotsOK'
<1>1. CASE \E pool \in SUBSET Units : Launch(pool)
  <2>1. /\ pc' = [v \in Units |-> pc'[v]] /\ slots' = Concurrency
        /\ Running' = {}
    BY <1>1 DEF Launch, Running, Busy
  <2>2. QED BY <2>1, FS_EmptySet, ReviewAssumption DEF SlotsOK, ReviewAssumption
<1>2. CASE UNCHANGED <<pc, slots>> BY <1>2 DEF SlotsOK, Running
<1>3. CASE ReviewStart \/ DiffDone \/ NextSample \/ Cancel
  BY <1>1, <1>3 DEF ReviewStart, DiffDone, NextSample, Cancel, Cancelled, Reviewable
<1>4. CASE RunStep /\ ~ ReviewStart /\ ~ DiffDone /\ ~ NextSample
  BY <1>2, <1>4 DEF RunStep, ServiceStep, ShadowStep, LoadProvider, NoProvider, ReviewNothing,
     Persist, PersistInvalid, PersistFails, ReviewDone, ReviewCommit, ReviewFails, FetchDone,
     FetchFails, DiffFails, SkipReview, Convert, ConvertFails, Collect, BenchDone, Score, Gather,
     GatherRaises, agentVars
<1>5. QED BY <1>3, <1>4

(* No slot of the semaphore is lost or used twice, whichever way an agent    *)
(* ends: by its answer, a failure, an exception that escapes it or a         *)
(* cancellation of the review.                                               *)
THEOREM SlotsAreReturned == Spec => [](slots + Cardinality(Running) = Concurrency)
<1>1. Init => SlotsOK
  <2>0. SUFFICES ASSUME Init PROVE SlotsOK OBVIOUS
  <2>1. pc = [u \in Units |-> "idle"] /\ slots = Concurrency
    BY <2>0 DEF Init, AgentInit, AgentsIdle
  <2>2. Running = {} /\ pc = [u \in Units |-> pc[u]] BY <2>1 DEF Running, Busy
  <2>3. QED BY <2>1, <2>2, FS_EmptySet, ReviewAssumption DEF SlotsOK, ReviewAssumption
<1>2. SlotsOK /\ [Next]_vars => SlotsOK'
  <2>1. ASSUME SlotsOK, UNCHANGED vars PROVE SlotsOK'
    BY <2>1 DEF vars, agentVars, SlotsOK, Running
  <2>2. QED BY <2>1, SlotsOfAgent, SlotsOfDriver DEF Next
<1>3. SlotsOK => slots + Cardinality(Running) = Concurrency BY DEF SlotsOK
<1>4. QED BY <1>1, <1>2, <1>3, PTL DEF Spec

-----------------------------------------------------------------------------
(* Counting up, with sets for predicates                                     *)

\* A set of natural numbers has a least element.
LEMMA Least ==
  ASSUME NEW T, T \subseteq Nat, T # {}
  PROVE  \E x \in T : \A y \in T : x <= y
<1> DEFINE R == OpToRel(<, Nat)
<1>1. IsWellFoundedOn(R, Nat) BY NatLessThanWellFounded
<1>2. \A a, b \in Nat : a < b => <<a, b>> \in R BY DEF R, OpToRel
<1> HIDE DEF R
<1>3. PICK x \in T : \A y \in T : ~ (<<y, x>> \in R) BY <1>1, WFMin
<1>4. \A y \in T : ~ (y < x) BY <1>2, <1>3
<1>5. QED BY <1>4

\* Induction up to n, with a set in the place of the predicate.
LEMMA CountUp ==
  ASSUME NEW n \in Nat, NEW T, 0 \in T, \A m \in 0..n : m < n /\ m \in T => m + 1 \in T
  PROVE  \A m \in 0..n : m \in T
<1> DEFINE Bad == {m \in 0..n : m \notin T}
<1>1. SUFFICES ASSUME Bad # {} PROVE FALSE OBVIOUS
<1>2. Bad \subseteq Nat OBVIOUS
<1> HIDE DEF Bad
<1>3. PICK x \in Bad : \A y \in Bad : x <= y BY <1>1, <1>2, Least
<1>4. x \in 0..n /\ x \notin T /\ x # 0 BY DEF Bad
<1>5. x - 1 \in 0..n /\ x - 1 < n /\ (x - 1) + 1 = x BY <1>4
<1>6. x - 1 \in T
  <2>1. CASE x - 1 \in Bad BY <1>3, <1>5, <2>1
  <2>2. QED BY <1>5, <2>1 DEF Bad
<1>7. QED BY <1>4, <1>5, <1>6

-----------------------------------------------------------------------------
(* Flattened sequences                                                       *)

\* The function that FlattenSeq defines recursively: there is one, and what is
\* known of it is its equation.
Joined(seqs, f, i) == IF i = 1 THEN seqs[i] ELSE f[i-1] \o seqs[i]
Flattens(seqs, n, f) == f = [i \in 1..n |-> Joined(seqs, f, i)]

LEMMA PrefixesExist ==
  ASSUME NEW seqs, NEW n \in Nat
  PROVE  \E f : Flattens(seqs, n, f)
<1> DEFINE T == {m \in 0..n : \E f : Flattens(seqs, m, f)}
<1>1. 0 \in T
  <2> DEFINE g == [i \in 1..0 |-> 0]
  <2>1. 1..0 = {} OBVIOUS
  <2>2. Flattens(seqs, 0, g) BY <2>1 DEF Flattens
  <2>3. 0 \in 0..n OBVIOUS
  <2> HIDE DEF g
  <2>4. QED BY <2>2, <2>3
<1>2. ASSUME NEW m \in 0..n, m < n, m \in T PROVE m + 1 \in T
  <2>1. PICK f : Flattens(seqs, m, f) BY <1>2
  <2> DEFINE g == [i \in 1..(m+1) |-> IF i <= m THEN f[i] ELSE Joined(seqs, f, i)]
  <2>2. \A i \in 1..(m+1) : g[i] = Joined(seqs, f, i)
    <3>1. \A i \in 1..m : f[i] = Joined(seqs, f, i) BY <2>1 DEF Flattens
    <3>2. QED BY <3>1
  <2>3. \A i \in 1..(m+1) : Joined(seqs, f, i) = Joined(seqs, g, i)
    <3>1. \A i \in 1..(m+1) : i # 1 => i - 1 \in 1..m /\ g[i-1] = f[i-1] OBVIOUS
    <3> HIDE DEF g
    <3>2. QED BY <3>1 DEF Joined
  <2>4. g = [i \in 1..(m+1) |-> g[i]] OBVIOUS
  <2> HIDE DEF g
  <2>5. g = [i \in 1..(m+1) |-> Joined(seqs, g, i)] BY <2>2, <2>3, <2>4
  <2>6. Flattens(seqs, m + 1, g) BY <2>5 DEF Flattens
  <2>7. m + 1 \in 0..n BY <1>2
  <2>8. QED BY <2>6, <2>7
<1> HIDE DEF T
<1>3. n \in T
  <2>1. n \in 0..n OBVIOUS
  <2>2. QED BY <1>1, <1>2, <2>1, CountUp
<1>4. QED BY <1>3 DEF T

LEMMA FlattenDef ==
  ASSUME NEW seqs, Len(seqs) \in Nat, Len(seqs) # 0
  PROVE  \E f : Flattens(seqs, Len(seqs), f) /\ FlattenSeq(seqs) = f[Len(seqs)]
<1> DEFINE g == CHOOSE f : f = [i \in 1..Len(seqs) |->
                                 IF i = 1 THEN seqs[i] ELSE f[i-1] \o seqs[i]]
<1>1. FlattenSeq(seqs) = g[Len(seqs)] BY DEF FlattenSeq
<1>2. \E f : f = [i \in 1..Len(seqs) |-> IF i = 1 THEN seqs[i] ELSE f[i-1] \o seqs[i]]
  BY PrefixesExist DEF Flattens, Joined
<1>3. g = [i \in 1..Len(seqs) |-> IF i = 1 THEN seqs[i] ELSE g[i-1] \o seqs[i]] BY <1>2
<1> HIDE DEF g
<1>4. Flattens(seqs, Len(seqs), g) BY <1>3 DEF Flattens, Joined
<1>5. QED BY <1>1, <1>4

-----------------------------------------------------------------------------
(* Places in a sequence of sequences, and their rank                         *)

PlacesIn(seqs, m) == UNION {{u} \X DOMAIN seqs[u] : u \in 1..m}
Rank(seqs, n, p) ==
  Cardinality({q \in PlacesIn(seqs, n) : q[1] < p[1] \/ (q[1] = p[1] /\ q[2] <= p[2])})

LEMMA CardinalityOfRow ==
  ASSUME NEW u, NEW k \in Nat
  PROVE  IsFiniteSet({u} \X (1..k)) /\ Cardinality({u} \X (1..k)) = k
<1> DEFINE A == {u}  B == 1..k
<1>1. IsFiniteSet(A) /\ Cardinality(A) = 1 BY FS_Singleton
<1>2. IsFiniteSet(B) /\ Cardinality(B) = k
  <2>1. 1 \in Int /\ k \in Int OBVIOUS
  <2>2. IsFiniteSet(B) /\ Cardinality(B) = IF 1 > k THEN 0 ELSE k - 1 + 1 BY <2>1, FS_Interval
  <2>3. QED BY <2>2
<1> HIDE DEF A, B
<1>3. IsFiniteSet(A \X B) /\ Cardinality(A \X B) = Cardinality(A) * Cardinality(B)
  BY <1>1, <1>2, FS_Product
<1>4. IsFiniteSet(A \X B) /\ Cardinality(A \X B) = k BY <1>1, <1>2, <1>3
<1>5. QED BY <1>4 DEF A, B

LEMMA DisjointSum ==
  ASSUME NEW A, NEW B, IsFiniteSet(A), IsFiniteSet(B), A \cap B = {}
  PROVE  /\ IsFiniteSet(A \cup B)
         /\ Cardinality(A \cup B) = Cardinality(A) + Cardinality(B)
<1>1. Cardinality(A) \in Nat /\ Cardinality(B) \in Nat BY FS_CardinalityType
<1>2. Cardinality(A \cap B) = 0 BY FS_EmptySet
<1>3. /\ IsFiniteSet(A \cup B)
      /\ Cardinality(A \cup B) = Cardinality(A) + Cardinality(B) - Cardinality(A \cap B)
  BY FS_Union
<1>4. QED BY <1>1, <1>2, <1>3

LEMMA PlacesGrow ==
  ASSUME NEW seqs, NEW S, NEW m \in Nat, seqs[m+1] \in Seq(S), IsFiniteSet(PlacesIn(seqs, m))
  PROVE  /\ IsFiniteSet(PlacesIn(seqs, m+1))
         /\ Cardinality(PlacesIn(seqs, m+1)) = Cardinality(PlacesIn(seqs, m)) + Len(seqs[m+1])
<1> DEFINE Row == {m+1} \X (1..Len(seqs[m+1]))
<1>0. Len(seqs[m+1]) \in Nat /\ DOMAIN seqs[m+1] = 1..Len(seqs[m+1]) BY LenProperties
<1>1. IsFiniteSet(Row) /\ Cardinality(Row) = Len(seqs[m+1]) BY <1>0, CardinalityOfRow
<1>2. 1..(m+1) = 1..m \cup {m+1} OBVIOUS
<1>3. PlacesIn(seqs, m+1) = PlacesIn(seqs, m) \cup Row BY <1>0, <1>2 DEF PlacesIn
<1>4. PlacesIn(seqs, m) \cap Row = {} BY DEF PlacesIn
<1> HIDE DEF Row
<1>5. QED BY <1>1, <1>3, <1>4, DisjointSum

LEMMA PlacesFinite ==
  ASSUME NEW seqs, NEW S, NEW n \in Nat, \A u \in 1..n : seqs[u] \in Seq(S)
  PROVE  \A m \in 0..n : IsFiniteSet(PlacesIn(seqs, m))
<1> DEFINE T == {m \in 0..n : IsFiniteSet(PlacesIn(seqs, m))}
<1>1. 0 \in T
  <2>1. PlacesIn(seqs, 0) = {} BY DEF PlacesIn
  <2>2. QED BY <2>1, FS_EmptySet
<1>2. ASSUME NEW m \in 0..n, m < n, m \in T PROVE m + 1 \in T
  <2>1. m \in Nat /\ m + 1 \in 1..n /\ m + 1 \in 0..n BY <1>2
  <2>2. seqs[m+1] \in Seq(S) /\ IsFiniteSet(PlacesIn(seqs, m)) BY <1>2, <2>1
  <2>3. IsFiniteSet(PlacesIn(seqs, m+1)) BY <2>1, <2>2, PlacesGrow
  <2>4. QED BY <2>1, <2>3
<1> HIDE DEF T
<1>3. \A m \in 0..n : m \in T BY <1>1, <1>2, CountUp
<1>4. QED BY <1>3 DEF T

LEMMA RankOfPlace ==
  ASSUME NEW seqs, NEW S, NEW n \in Nat, \A u \in 1..n : seqs[u] \in Seq(S),
         NEW u \in 1..n, NEW i \in 1..Len(seqs[u])
  PROVE  Rank(seqs, n, <<u, i>>) = Cardinality(PlacesIn(seqs, u-1)) + i
<1> DEFINE Row == {u} \X (1..i)
           Upto == {q \in PlacesIn(seqs, n) : q[1] < u \/ (q[1] = u /\ q[2] <= i)}
<1>0. \A v \in 1..n : Len(seqs[v]) \in Nat /\ DOMAIN seqs[v] = 1..Len(seqs[v]) BY LenProperties
<1>1. IsFiniteSet(Row) /\ Cardinality(Row) = i
  <2>1. i \in Nat BY <1>0
  <2>2. QED BY <2>1, CardinalityOfRow
<1>2. Upto = PlacesIn(seqs, u-1) \cup Row
  <2>1. ASSUME NEW q \in Upto PROVE q \in PlacesIn(seqs, u-1) \cup Row
    <3>1. PICK v \in 1..n : q \in {v} \X DOMAIN seqs[v] BY DEF PlacesIn
    <3>2. q = <<q[1], q[2]>> /\ q[1] = v /\ q[2] \in 1..Len(seqs[v]) BY <1>0, <3>1
    <3>3. CASE v < u
      <4>1. v \in 1..(u-1) BY <3>3
      <4>2. QED BY <3>1, <4>1 DEF PlacesIn
    <3>4. CASE ~ (v < u)
      <4>1. v = u /\ q[2] <= i BY <3>2, <3>4
      <4>2. q[2] \in 1..i BY <1>0, <3>2, <4>1
      <4>3. QED BY <3>2, <4>1, <4>2
    <3>5. QED BY <3>3, <3>4
  <2>2. ASSUME NEW q \in PlacesIn(seqs, u-1) PROVE q \in Upto
    <3>1. PICK v \in 1..(u-1) : q \in {v} \X DOMAIN seqs[v] BY DEF PlacesIn
    <3>2. v \in 1..n /\ v < u /\ q[1] = v BY <3>1
    <3>3. q \in PlacesIn(seqs, n) BY <3>1, <3>2 DEF PlacesIn
    <3>4. QED BY <3>2, <3>3
  <2>3. ASSUME NEW q \in Row PROVE q \in Upto
    <3>1. q = <<u, q[2]>> /\ q[1] = u /\ q[2] \in 1..i OBVIOUS
    <3>2. q[2] \in DOMAIN seqs[u] /\ q[2] <= i BY <1>0, <3>1
    <3>3. q \in {u} \X DOMAIN seqs[u] BY <3>1, <3>2
    <3>4. q \in PlacesIn(seqs, n) BY <3>3 DEF PlacesIn
    <3>5. QED BY <3>1, <3>2, <3>4
  <2>4. QED BY <2>1, <2>2, <2>3
<1>3. PlacesIn(seqs, u-1) \cap Row = {} BY DEF PlacesIn
<1>4. IsFiniteSet(PlacesIn(seqs, u-1))
  <2>1. u - 1 \in 0..n OBVIOUS
  <2>2. QED BY <2>1, PlacesFinite
<1>5. Rank(seqs, n, <<u, i>>) = Cardinality(Upto) BY DEF Rank
<1> HIDE DEF Row, Upto
<1>6. QED BY <1>1, <1>2, <1>3, <1>4, <1>5, DisjointSum

\* The first m of the sequences, joined: where their elements stand.
JoinedAre(seqs, S, m, s) ==
  /\ s \in Seq(S)
  /\ Len(s) = Cardinality(PlacesIn(seqs, m))
  /\ \A u \in 1..m : \A i \in 1..Len(seqs[u]) :
       /\ Cardinality(PlacesIn(seqs, u-1)) + i \in 1..Len(s)
       /\ s[Cardinality(PlacesIn(seqs, u-1)) + i] = seqs[u][i]
  /\ \A j \in 1..Len(s) :
       \E u \in 1..m : \E i \in 1..Len(seqs[u]) : j = Cardinality(PlacesIn(seqs, u-1)) + i

LEMMA JoinOneMore ==
  ASSUME NEW seqs, NEW S, NEW m \in Nat, seqs[m+1] \in Seq(S), IsFiniteSet(PlacesIn(seqs, m)),
         NEW s, JoinedAre(seqs, S, m, s)
  PROVE  JoinedAre(seqs, S, m+1, s \o seqs[m+1])
<1> DEFINE t == seqs[m+1]
           c == Cardinality(PlacesIn(seqs, m))
<1>1. s \in Seq(S) /\ t \in Seq(S) /\ Len(s) = c /\ Len(t) \in Nat /\ c \in Nat
  <2>1. c \in Nat BY FS_CardinalityType
  <2>2. Len(t) \in Nat BY LenProperties
  <2>3. QED BY <2>1, <2>2 DEF JoinedAre
<1>2. /\ s \o t \in Seq(S) /\ Len(s \o t) = c + Len(t)
      /\ \A i \in 1..(c + Len(t)) : (s \o t)[i] = IF i <= c THEN s[i] ELSE t[i - c]
  <2> HIDE DEF t, c
  <2>1. QED BY <1>1, ConcatProperties
<1>3. Cardinality(PlacesIn(seqs, m+1)) = c + Len(t) BY PlacesGrow
<1>7. \A u \in 1..m : \A i \in 1..Len(seqs[u]) :
        /\ Cardinality(PlacesIn(seqs, u-1)) + i \in 1..Len(s)
        /\ s[Cardinality(PlacesIn(seqs, u-1)) + i] = seqs[u][i]
  BY DEF JoinedAre
<1>4. ASSUME NEW u \in 1..(m+1), NEW i \in 1..Len(seqs[u])
      PROVE  /\ Cardinality(PlacesIn(seqs, u-1)) + i \in 1..(c + Len(t))
             /\ (s \o t)[Cardinality(PlacesIn(seqs, u-1)) + i] = seqs[u][i]
  <2>1. CASE u = m + 1
    <3>1. u - 1 = m BY <2>1
    <3>2. i \in 1..Len(t) BY <2>1
    <3>3. Cardinality(PlacesIn(seqs, u-1)) = c BY <3>1
    <3>4. c + i \in 1..(c + Len(t)) /\ ~ (c + i <= c) /\ c + i - c = i BY <1>1, <3>2
    <3>5. (s \o t)[c + i] = t[i]
      <4>1. \A k \in 1..(c + Len(t)) : ~ (k <= c) => (s \o t)[k] = t[k - c] BY <1>2
      <4>2. PICK k \in 1..(c + Len(t)) : k = c + i BY <3>4
      <4>3. ~ (k <= c) /\ k - c = i BY <1>1, <3>2, <4>2
      <4>4. (s \o t)[k] = t[i] BY <4>1, <4>3
      <4>5. QED BY <4>2, <4>4
    <3>6. QED BY <2>1, <3>3, <3>4, <3>5
  <2>2. CASE u # m + 1
    <3>1. u \in 1..m BY <2>2
    <3> DEFINE k == Cardinality(PlacesIn(seqs, u-1)) + i
    <3>2. k \in 1..Len(s) /\ s[k] = seqs[u][i] BY <1>7, <3>1
    <3>3. k \in 1..c /\ s[k] = seqs[u][i] BY <1>1, <3>2
    <3> HIDE DEF k
    <3>4. k \in 1..(c + Len(t)) /\ k <= c BY <1>1, <3>3
    <3>5. (s \o t)[k] = seqs[u][i] BY <1>2, <3>3, <3>4
    <3>6. QED BY <3>4, <3>5 DEF k
  <2>3. QED BY <2>1, <2>2
<1>5. ASSUME NEW j \in 1..(c + Len(t))
      PROVE  \E u \in 1..(m+1) : \E i \in 1..Len(seqs[u]) : j = Cardinality(PlacesIn(seqs, u-1)) + i
  <2>1. CASE j <= c
    <3>1. j \in 1..Len(s) BY <1>1, <2>1
    <3>2. PICK u \in 1..m : \E i \in 1..Len(seqs[u]) : j = Cardinality(PlacesIn(seqs, u-1)) + i
      BY <3>1 DEF JoinedAre
    <3>3. u \in 1..(m+1) OBVIOUS
    <3>4. QED BY <3>2, <3>3
  <2>2. CASE ~ (j <= c)
    <3>1. j - c \in 1..Len(t) /\ j = c + (j - c) BY <1>1, <2>2
    <3>2. m + 1 \in 1..(m+1) /\ (m + 1) - 1 = m OBVIOUS
    <3>3. Cardinality(PlacesIn(seqs, (m+1)-1)) = c BY <3>2
    <3>4. QED BY <3>1, <3>2, <3>3
  <2>3. QED BY <2>1, <2>2
<1>6. QED BY <1>2, <1>3, <1>4, <1>5 DEF JoinedAre

LEMMA FlattenedPlaces ==
  ASSUME NEW n \in Nat \ {0}, NEW S, NEW seqs \in [1..n -> Seq(S)]
  PROVE  JoinedAre(seqs, S, n, FlattenSeq(seqs))
<1>1. Len(seqs) = n
  <2>1. DOMAIN seqs = 1..n OBVIOUS
  <2>2. seqs \in Seq(Seq(S)) BY IsASeq
  <2>3. Len(seqs) \in Nat /\ DOMAIN seqs = 1..Len(seqs) BY <2>2, LenProperties
  <2>4. QED BY <2>1, <2>3
<1>2. PICK f : Flattens(seqs, n, f) /\ FlattenSeq(seqs) = f[n] BY <1>1, FlattenDef
<1>3. \A i \in 1..n : f[i] = Joined(seqs, f, i) BY <1>2 DEF Flattens
<1>4. \A m \in 0..n : IsFiniteSet(PlacesIn(seqs, m)) BY PlacesFinite
<1> DEFINE T == {m \in 0..n : m # 0 => JoinedAre(seqs, S, m, f[m])}
<1>5. 0 \in T OBVIOUS
<1>6. JoinedAre(seqs, S, 0, <<>>)
  <2>1. PlacesIn(seqs, 0) = {} BY DEF PlacesIn
  <2>2. Cardinality(PlacesIn(seqs, 0)) = 0 BY <2>1, FS_EmptySet
  <2>3. QED BY <2>2 DEF JoinedAre
<1>7. ASSUME NEW m \in 0..n, m < n, m \in T PROVE m + 1 \in T
  <2>1. m \in Nat /\ m + 1 \in 1..n /\ m + 1 \in 0..n BY <1>7
  <2>2. seqs[m+1] \in Seq(S) /\ IsFiniteSet(PlacesIn(seqs, m)) BY <1>4, <2>1
  <2>3. CASE m = 0
    <3>0. JoinedAre(seqs, S, m, <<>>) BY <1>6, <2>3
    <3>1. JoinedAre(seqs, S, m+1, <<>> \o seqs[m+1]) BY <2>1, <2>2, <3>0, JoinOneMore
    <3>2. <<>> \o seqs[1] = seqs[1] BY <2>2, <2>3, ConcatEmptySeq
    <3>3. f[1] = seqs[1] BY <1>3, <2>1, <2>3 DEF Joined
    <3>4. JoinedAre(seqs, S, m+1, f[m+1]) BY <2>3, <3>1, <3>2, <3>3
    <3>5. QED BY <2>1, <3>4
  <2>4. CASE m # 0
    <3>1. JoinedAre(seqs, S, m, f[m]) BY <1>7, <2>4
    <3>2. JoinedAre(seqs, S, m+1, f[m] \o seqs[m+1]) BY <2>1, <2>2, <3>1, JoinOneMore
    <3>3. f[m+1] = f[m] \o seqs[m+1]
      <4>1. m + 1 # 1 /\ (m + 1) - 1 = m BY <2>1, <2>4
      <4>2. f[m+1] = Joined(seqs, f, m+1) BY <1>3, <2>1
      <4>3. QED BY <4>1, <4>2 DEF Joined
    <3>4. QED BY <2>1, <3>2, <3>3
  <2>5. QED BY <2>3, <2>4
<1> HIDE DEF T
<1>8. n \in T
  <2>1. n \in 0..n OBVIOUS
  <2>2. QED BY <1>5, <1>7, <2>1, CountUp
<1>9. QED BY <1>2, <1>8 DEF T

\* What FlattenSeq does: an element stands where its place ranks.
LEMMA FlattenRanks ==
  ASSUME NEW n \in Nat \ {0}, NEW S, NEW seqs \in [1..n -> Seq(S)]
  PROVE  LET s == FlattenSeq(seqs) IN
         /\ s \in Seq(S)
         /\ \A p \in PlacesIn(seqs, n) :
              Rank(seqs, n, p) \in 1..Len(s) /\ s[Rank(seqs, n, p)] = seqs[p[1]][p[2]]
         /\ \A j \in 1..Len(s) : \E p \in PlacesIn(seqs, n) : j = Rank(seqs, n, p)
<1> DEFINE s == FlattenSeq(seqs)
<1>1. JoinedAre(seqs, S, n, s) BY FlattenedPlaces
<1> HIDE DEF s
<1>2. \A u \in 1..n : DOMAIN seqs[u] = 1..Len(seqs[u]) BY LenProperties
<1>3. ASSUME NEW p \in PlacesIn(seqs, n)
      PROVE  Rank(seqs, n, p) \in 1..Len(s) /\ s[Rank(seqs, n, p)] = seqs[p[1]][p[2]]
  <2>1. PICK u \in 1..n : p \in {u} \X DOMAIN seqs[u] BY DEF PlacesIn
  <2>2. PICK i \in 1..Len(seqs[u]) : p = <<u, i>> BY <1>2, <2>1
  <2>3. Rank(seqs, n, <<u, i>>) = Cardinality(PlacesIn(seqs, u-1)) + i BY RankOfPlace
  <2>4. QED BY <1>1, <2>2, <2>3 DEF JoinedAre
<1>4. ASSUME NEW j \in 1..Len(s) PROVE \E p \in PlacesIn(seqs, n) : j = Rank(seqs, n, p)
  <2>1. PICK u \in 1..n : \E i \in 1..Len(seqs[u]) : j = Cardinality(PlacesIn(seqs, u-1)) + i
    BY <1>1 DEF JoinedAre
  <2>2. PICK i \in 1..Len(seqs[u]) : j = Cardinality(PlacesIn(seqs, u-1)) + i BY <2>1
  <2>3. Rank(seqs, n, <<u, i>>) = j BY <2>2, RankOfPlace
  <2>4. <<u, i>> \in PlacesIn(seqs, n) BY <1>2 DEF PlacesIn
  <2>5. QED BY <2>3, <2>4
<1>5. s \in Seq(S) BY <1>1 DEF JoinedAre
<1>6. QED BY <1>3, <1>4, <1>5 DEF s

-----------------------------------------------------------------------------
(* What an agent reports, and what a review finds: the invariant WInv        *)

NumberedFinding == [id : Nat, unit : Units, finding : RawFinding]

\* What an agent of this driver may report.
Reportable == IF Service THEN Enriched ELSE RawFindings

\* The findings of all units with their numbers.
AllFindings ==
  {[id |-> Rank(batch, NUnits, p), unit |-> p[1], finding |-> batch[p[1]][p[2]]] :
     p \in PlacesIn(batch, NUnits)}

AgentsOK ==
  /\ pc \in [Units -> Steps] /\ turn \in [Units -> 0..MaxIter]
  /\ batch \in [Units -> Seq(Reportable)]
  /\ \A u \in Units :
       /\ pc[u] \in {"tool", "autoflush", "query", "note", "noting"} => turn[u] < MaxIter
       /\ pc[u] = "idle" => batch[u] = <<>>

DriverOK ==
  /\ driver \in Drivers /\ kind \in [Units -> Kinds]
  /\ session \in {"ok", "broken"} /\ dirty \in BOOLEAN
  /\ phase \in Phases
  /\ phase \in {"load", "start", "nothing", "persist", "commit"} => Service
  /\ phase \in {"fetch", "diff"} => ~ Service
  /\ phase = "convert" => driver = "shadow"
  /\ phase \in {"collect", "counted", "next"} => driver = "bench"
  /\ sample \in 1..Samples /\ collected \in 0..sample
  /\ phase \in {"load", "start", "fetch", "diff", "agents", "collect"} => collected < sample
  /\ phase = "counted" => collected > 0

\* Once gather has returned, what was found is what the agents reported.
FoundOK ==
  /\ found \in Seq(NumberedFinding) /\ next \in 1..(Len(found) + 1)
  /\ phase = "nothing" => Pool = {}
  /\ phase \in {"persist", "commit", "convert", "collect"} =>
       (\A u \in Pool : pc[u] = "done") /\ ToSet(found) = AllFindings

\* While the session is not broken it holds all that is acceptable so far, and
\* what is committed is all that is acceptable.
StoredOK ==
  /\ stored \in Seq(NumberedFinding)
  /\ phase \notin {"persist", "commit", "counted", "score", "done", "failed"} => stored = <<>>
  /\ phase = "persist" /\ session = "ok" =>
       ToSet(stored) = {found[i] : i \in {j \in 1..(next-1) : Valid(found[j].finding)}}
  /\ phase = "commit" =>
       ToSet(stored) = {k \in AllFindings : k.finding \in {f \in Enriched : Valid(f)}}
  /\ phase \in {"persist", "commit", "score"} => \A i \in DOMAIN stored : stored[i].finding.conf # "text"

WInv == AgentsOK /\ DriverOK /\ FoundOK /\ StoredOK

-----------------------------------------------------------------------------
(* Sequences                                                                 *)

LEMMA ToSetOfAppend ==
  ASSUME NEW S, NEW s \in Seq(S), NEW e \in S
  PROVE  /\ Append(s, e) \in Seq(S)
         /\ ToSet(Append(s, e)) = ToSet(s) \cup {e}
         /\ Len(Append(s, e)) = Len(s) + 1
<1>1. /\ Append(s, e) \in Seq(S) /\ Len(Append(s, e)) = Len(s) + 1
      /\ \A i \in 1..Len(s) : Append(s, e)[i] = s[i]
      /\ Append(s, e)[Len(s) + 1] = e
  BY AppendProperties
<1>2. Len(s) \in Nat /\ DOMAIN s = 1..Len(s) BY LenProperties
<1> DEFINE t == Append(s, e)
<1>3. DOMAIN t = 1..(Len(s) + 1)
  <2>1. DOMAIN t = 1..Len(t) BY <1>1, LenProperties
  <2>2. QED BY <1>1, <2>1
<1>4. /\ Len(t) = Len(s) + 1 /\ \A i \in 1..Len(s) : t[i] = s[i]
      /\ t[Len(s) + 1] = e
  BY <1>1
<1> HIDE DEF t
<1>5. ToSet(t) = ToSet(s) \cup {e}
  <2>1. 1..(Len(s) + 1) = 1..Len(s) \cup {Len(s) + 1} BY <1>2
  <2>2. ToSet(t) = {t[i] : i \in 1..Len(s)} \cup {t[Len(s) + 1]} BY <1>3, <2>1 DEF ToSet
  <2>3. {t[i] : i \in 1..Len(s)} = {s[i] : i \in 1..Len(s)} BY <1>4
  <2>4. ToSet(s) = {s[i] : i \in 1..Len(s)} BY <1>2 DEF ToSet
  <2>5. QED BY <1>4, <2>2, <2>3, <2>4
<1>6. QED BY <1>1, <1>5 DEF t

\* A function on 1..n is a sequence.
LEMMA ListSeq ==
  ASSUME NEW n \in Nat, NEW S, NEW s, s = [i \in 1..n |-> s[i]], \A i \in 1..n : s[i] \in S
  PROVE  s \in Seq(S) /\ Len(s) = n
<1>1. s \in [1..n -> S] OBVIOUS
<1>2. s \in UNION {[1..m -> S] : m \in Nat} BY <1>1
<1>3. s \in Seq(S) BY <1>2, SeqDef
<1>4. Len(s) \in Nat /\ DOMAIN s = 1..Len(s) BY <1>3, LenProperties
<1>5. DOMAIN s = 1..n OBVIOUS
<1>6. QED BY <1>3, <1>4, <1>5

-----------------------------------------------------------------------------
(* Raw and enriched findings                                                 *)

LEMMA Raw == RawFindings \subseteq RawFinding
<1>1. ASSUME NEW f \in RawFindings PROVE f \in RawFinding
  <2>1. PICK a \in Answers : f \in ToSet(a) BY DEF RawFindings
  <2>2. a \in Seq(RawFinding) BY ReviewAssumption DEF ReviewAssumption
  <2>3. DOMAIN a = 1..Len(a) BY <2>2, LenProperties
  <2>4. PICK i \in 1..Len(a) : f = a[i] BY <2>1, <2>3 DEF ToSet
  <2>5. QED BY <2>2, <2>4, ElementOfSeq
<1>2. QED BY <1>1

LEMMA EnrichedIsRaw ==
  ASSUME NEW f \in RawFinding
  PROVE  Enrich(f) \in RawFinding /\ Enrich(f).conf # "text"
<1>1. \A g \in RawFinding : \A c \in {"none", "half", "usual", "full", "over", "absent", "text"} :
        [g EXCEPT !.conf = c] \in RawFinding /\ [g EXCEPT !.conf = c].conf = c
  BY DEF RawFinding
<1>2. DOMAIN Tenths = {"none", "half", "usual", "full", "over"} BY DEF Tenths
<1>3. f.conf \in {"none", "half", "usual", "full", "over", "absent", "text"} BY DEF RawFinding
<1>4. CASE f.conf \in DOMAIN Tenths
  BY <1>1, <1>2, <1>3, <1>4 DEF Enrich
<1>5. CASE f.conf \notin DOMAIN Tenths
  BY <1>1, <1>2, <1>3, <1>5 DEF Enrich
<1>6. QED BY <1>4, <1>5

LEMMA ReportableIsRaw ==
  /\ Reportable \subseteq RawFinding
  /\ Service => \A f \in Reportable : f.conf # "text"
BY Raw, EnrichedIsRaw DEF Reportable, Enriched

LEMMA ReportedIsReportable ==
  ASSUME NEW answer \in Answers \cup {<<>>}
  PROVE  Reported(answer) \in Seq(Reportable)
<1>1. CASE answer = <<>>
  <2>1. DOMAIN answer = {} BY <1>1
  <2>2. [i \in DOMAIN answer |-> Enrich(answer[i])] = <<>> BY <2>1
  <2>3. Reported(answer) = <<>> BY <1>1, <2>2 DEF Reported
  <2>4. QED BY <2>3
<1>2. CASE answer \in Answers
  <2>1. answer \in Seq(RawFinding) BY <1>2, ReviewAssumption DEF ReviewAssumption
  <2>2. Len(answer) \in Nat /\ DOMAIN answer = 1..Len(answer)
        /\ answer = [i \in 1..Len(answer) |-> answer[i]]
    BY <2>1, LenProperties
  <2>3. \A i \in 1..Len(answer) : answer[i] \in RawFindings
    BY <1>2, <2>2 DEF RawFindings, ToSet
  <2>4. CASE Service
    <3> DEFINE s == [i \in DOMAIN answer |-> Enrich(answer[i])]
    <3>1. s = [i \in 1..Len(answer) |-> s[i]] /\ \A i \in 1..Len(answer) : s[i] \in Enriched
      BY <2>2, <2>3 DEF Enriched
    <3>2. Reported(answer) = s /\ Reportable = Enriched BY <2>4 DEF Reported, Reportable
    <3> HIDE DEF s
    <3>3. s \in Seq(Enriched) BY <2>2, <3>1, ListSeq
    <3>4. QED BY <3>2, <3>3
  <2>5. CASE ~ Service
    <3>1. answer \in Seq(RawFindings) BY <2>2, <2>3, ListSeq
    <3>2. QED BY <2>5, <3>1 DEF Reported, Reportable
  <2>6. QED BY <2>4, <2>5
<1>3. QED BY <1>1, <1>2

-----------------------------------------------------------------------------
(* Gathering                                                                 *)

NumberedAll(all) ==
  [i \in DOMAIN all |-> [id |-> i, unit |-> all[i].unit, finding |-> all[i].finding]]

LEMMA PlacesOfUnits ==
  ASSUME AgentsOK
  PROVE  /\ [u \in Units |-> OfUnit(u)] \in [1..NUnits -> Seq([unit : Units, finding : Reportable])]
         /\ \A u \in Units : DOMAIN OfUnit(u) = DOMAIN batch[u]
         /\ \A u \in Units : \A i \in DOMAIN batch[u] :
              OfUnit(u)[i] = [unit |-> u, finding |-> batch[u][i]] /\ batch[u][i] \in Reportable
<1>1. ASSUME NEW u \in Units
      PROVE  /\ OfUnit(u) \in Seq([unit : Units, finding : Reportable])
             /\ DOMAIN OfUnit(u) = DOMAIN batch[u]
             /\ \A i \in DOMAIN batch[u] :
                  OfUnit(u)[i] = [unit |-> u, finding |-> batch[u][i]] /\ batch[u][i] \in Reportable
  <2> DEFINE b == batch[u]
  <2>1. b \in Seq(Reportable) BY DEF AgentsOK
  <2>2. Len(b) \in Nat /\ DOMAIN b = 1..Len(b) /\ \A i \in 1..Len(b) : b[i] \in Reportable
    BY <2>1, LenProperties, ElementOfSeq
  <2>3. OfUnit(u) = [i \in 1..Len(b) |-> [unit |-> u, finding |-> b[i]]] BY <2>2 DEF OfUnit
  <2> HIDE DEF b
  <2>4. /\ OfUnit(u) = [i \in 1..Len(b) |-> OfUnit(u)[i]]
        /\ \A i \in 1..Len(b) : OfUnit(u)[i] = [unit |-> u, finding |-> b[i]]
    BY <2>3
  <2>5. \A i \in 1..Len(b) : OfUnit(u)[i] \in [unit : Units, finding : Reportable] BY <2>2, <2>4
  <2>6. OfUnit(u) \in Seq([unit : Units, finding : Reportable]) BY <2>2, <2>4, <2>5, ListSeq
  <2>7. QED BY <2>2, <2>4, <2>6 DEF b
<1>2. QED BY <1>1 DEF Units

\* What gather returns, numbered: every reported finding, by its rank.
LEMMA Gathered ==
  ASSUME AgentsOK, NEW f, f = NumberedAll(InUnitOrder([u \in Units |-> OfUnit(u)]))
  PROVE  f \in Seq(NumberedFinding) /\ ToSet(f) = AllFindings
<1> DEFINE ofs == [u \in Units |-> OfUnit(u)]
           all == FlattenSeq(ofs)
           Elem == [unit : Units, finding : Reportable]
<1>0. f = NumberedAll(all) BY DEF InUnitOrder
<1>1. ofs \in [1..NUnits -> Seq(Elem)] BY PlacesOfUnits
<1>2. NUnits \in Nat BY ReviewAssumption DEF ReviewAssumption
<1>3. CASE NUnits = 0
  <2>1. Units = {} BY <1>3 DEF Units
  <2>2. ofs = <<>> BY <2>1
  <2>3. all = <<>> BY <2>2 DEF FlattenSeq
  <2>4. DOMAIN all = {} BY <2>3
  <2>5. f = <<>>
    <3> HIDE DEF all
    <3>1. f = [i \in {} |-> [id |-> i, unit |-> all[i].unit, finding |-> all[i].finding]]
      BY <1>0, <2>4 DEF NumberedAll
    <3>2. QED BY <3>1
  <2>6. PlacesIn(batch, NUnits) = {} BY <1>3 DEF PlacesIn
  <2>7. AllFindings = {} BY <2>6 DEF AllFindings
  <2>8. f \in Seq(NumberedFinding) BY <2>5
  <2>9. DOMAIN f = {} BY <2>5
  <2>10. QED BY <2>7, <2>8, <2>9 DEF ToSet
<1>4. CASE NUnits # 0
  <2>1. NUnits \in Nat \ {0} BY <1>2, <1>4
  <2>2. /\ all \in Seq(Elem)
        /\ \A p \in PlacesIn(ofs, NUnits) :
             Rank(ofs, NUnits, p) \in 1..Len(all) /\ all[Rank(ofs, NUnits, p)] = ofs[p[1]][p[2]]
        /\ \A j \in 1..Len(all) : \E p \in PlacesIn(ofs, NUnits) : j = Rank(ofs, NUnits, p)
    <3> HIDE DEF ofs, Elem
    <3>1. QED BY <1>1, <2>1, FlattenRanks
  <2>3. \A u \in 1..NUnits : ofs[u] = OfUnit(u) BY DEF Units
  <2>4. \A u \in 1..NUnits : DOMAIN ofs[u] = DOMAIN batch[u] BY <2>3, PlacesOfUnits DEF Units
  <2>5. PlacesIn(ofs, NUnits) = PlacesIn(batch, NUnits) BY <2>4 DEF PlacesIn
  <2>6. \A p : Rank(ofs, NUnits, p) = Rank(batch, NUnits, p) BY <2>5 DEF Rank
  <2>7. \A p \in PlacesIn(batch, NUnits) :
          /\ p[1] \in Units /\ p[2] \in DOMAIN batch[p[1]]
    BY DEF PlacesIn, Units
  <2>8. \A p \in PlacesIn(batch, NUnits) :
          /\ ofs[p[1]][p[2]] = [unit |-> p[1], finding |-> batch[p[1]][p[2]]]
    BY <2>3, <2>7, PlacesOfUnits DEF Units
  <2> HIDE DEF ofs, all
  <2>9. Len(all) \in Nat /\ DOMAIN all = 1..Len(all) /\ \A i \in 1..Len(all) : all[i] \in Elem
    BY <2>2, LenProperties, ElementOfSeq
  <2>10. f = [i \in 1..Len(all) |-> [id |-> i, unit |-> all[i].unit, finding |-> all[i].finding]]
    BY <1>0, <2>9 DEF NumberedAll
  <2>11. /\ f = [i \in 1..Len(all) |-> f[i]] /\ DOMAIN f = 1..Len(all)
         /\ \A i \in 1..Len(all) :
              f[i] = [id |-> i, unit |-> all[i].unit, finding |-> all[i].finding]
    BY <2>10
  <2>12. \A i \in 1..Len(all) : f[i] \in NumberedFinding
    <3>1. ASSUME NEW i \in 1..Len(all) PROVE f[i] \in NumberedFinding
      <4>1. all[i].unit \in Units /\ all[i].finding \in RawFinding
        BY <2>9, ReportableIsRaw DEF Elem
      <4>2. i \in Nat BY <2>9
      <4> DEFINE x == all[i].unit  y == all[i].finding
      <4>3. f[i] = [id |-> i, unit |-> x, finding |-> y] BY <2>11
      <4>4. x \in Units /\ y \in RawFinding BY <4>1
      <4> HIDE DEF x, y
      <4>5. QED BY <4>2, <4>3, <4>4 DEF NumberedFinding
    <3>2. QED BY <3>1
  <2>13. f \in Seq(NumberedFinding) BY <2>9, <2>11, <2>12, ListSeq
  <2>14. \A p \in PlacesIn(batch, NUnits) :
           /\ Rank(batch, NUnits, p) \in 1..Len(all)
           /\ f[Rank(batch, NUnits, p)] =
                [id |-> Rank(batch, NUnits, p), unit |-> p[1], finding |-> batch[p[1]][p[2]]]
    <3>1. ASSUME NEW p \in PlacesIn(batch, NUnits)
          PROVE  /\ Rank(batch, NUnits, p) \in 1..Len(all)
                 /\ f[Rank(batch, NUnits, p)] =
                      [id |-> Rank(batch, NUnits, p), unit |-> p[1], finding |-> batch[p[1]][p[2]]]
      <4>1. /\ Rank(batch, NUnits, p) \in 1..Len(all)
            /\ all[Rank(batch, NUnits, p)] = [unit |-> p[1], finding |-> batch[p[1]][p[2]]]
        BY <2>2, <2>5, <2>6, <2>8
      <4> DEFINE r == Rank(batch, NUnits, p)
                 x == all[r]
      <4>2. r \in 1..Len(all) /\ x = [unit |-> p[1], finding |-> batch[p[1]][p[2]]] BY <4>1
      <4>3. f[r] = [id |-> r, unit |-> x.unit, finding |-> x.finding] BY <2>11, <4>2
      <4> HIDE DEF r, x
      <4>4. f[r] = [id |-> r, unit |-> p[1], finding |-> batch[p[1]][p[2]]] BY <4>2, <4>3
      <4>5. QED BY <4>2, <4>4 DEF r
    <3>2. QED BY <3>1
  <2>15. ToSet(f) = AllFindings
    <3>1. ASSUME NEW k \in ToSet(f) PROVE k \in AllFindings
      <4>1. PICK j \in 1..Len(all) : k = f[j] BY <2>11 DEF ToSet
      <4>2. PICK p \in PlacesIn(batch, NUnits) : j = Rank(batch, NUnits, p) BY <2>2, <2>5, <2>6
      <4>3. QED BY <2>14, <4>1, <4>2 DEF AllFindings
    <3>2. ASSUME NEW k \in AllFindings PROVE k \in ToSet(f)
      <4>1. PICK p \in PlacesIn(batch, NUnits) :
              k = [id |-> Rank(batch, NUnits, p), unit |-> p[1], finding |-> batch[p[1]][p[2]]]
        BY DEF AllFindings
      <4>2. QED BY <2>11, <2>14, <4>1 DEF ToSet
    <3>3. QED BY <3>1, <3>2
  <2>16. QED BY <2>13, <2>15
<1>5. QED BY <1>3, <1>4

LEMMA AllReportable ==
  ASSUME AgentsOK, NEW k \in AllFindings
  PROVE  k.finding \in Reportable
<1>1. PICK p \in PlacesIn(batch, NUnits) :
        k = [id |-> Rank(batch, NUnits, p), unit |-> p[1], finding |-> batch[p[1]][p[2]]]
  BY DEF AllFindings
<1>2. p[1] \in Units /\ p[2] \in DOMAIN batch[p[1]] BY DEF PlacesIn, Units
<1>3. batch[p[1]][p[2]] \in Reportable BY <1>2, PlacesOfUnits
<1>4. QED BY <1>1, <1>2, <1>3

-----------------------------------------------------------------------------
(* Steps of the agents                                                       *)

MidTurn == {"tool", "autoflush", "query", "note", "noting"}

LEMMA AgentTypes ==
  ASSUME AgentsOK, NEW u \in Units, driver' = driver,
         pc' = [pc EXCEPT ![u] = pc'[u]], pc'[u] \in Steps \ {"idle"},
         pc'[u] \in MidTurn => turn'[u] < MaxIter,
         turn' = turn \/ (turn[u] < MaxIter /\ turn' = [turn EXCEPT ![u] = @ + 1]),
         \/ batch' = batch
         \/ \E answer \in Answers \cup {<<>>} : batch' = [batch EXCEPT ![u] = Reported(answer)]
  PROVE  AgentsOK'
<1>1. pc' \in [Units -> Steps] /\ \A v \in Units \ {u} : pc'[v] = pc[v] BY DEF AgentsOK
<1>2. MaxIter \in Nat BY ReviewAssumption DEF ReviewAssumption
<1>3. turn' \in [Units -> 0..MaxIter] /\ \A v \in Units \ {u} : turn'[v] = turn[v]
  <2>1. CASE turn' = turn BY <2>1 DEF AgentsOK
  <2>2. CASE turn[u] < MaxIter /\ turn' = [turn EXCEPT ![u] = @ + 1]
    <3>1. turn \in [Units -> 0..MaxIter] BY DEF AgentsOK
    <3>2. turn[u] + 1 \in 0..MaxIter BY <1>2, <2>2, <3>1
    <3>3. QED BY <2>2, <3>1, <3>2
  <2>3. QED BY <2>1, <2>2
<1>4. Reportable' = Reportable BY DEF Reportable, Service
<1>5. batch' \in [Units -> Seq(Reportable)] /\ \A v \in Units \ {u} : batch'[v] = batch[v]
  <2>1. CASE batch' = batch BY <2>1 DEF AgentsOK
  <2>2. CASE \E answer \in Answers \cup {<<>>} : batch' = [batch EXCEPT ![u] = Reported(answer)]
    <3>1. PICK answer \in Answers \cup {<<>>} : batch' = [batch EXCEPT ![u] = Reported(answer)]
      BY <2>2
    <3>2. Reported(answer) \in Seq(Reportable) BY ReportedIsReportable
    <3>3. batch \in [Units -> Seq(Reportable)] BY DEF AgentsOK
    <3>4. QED BY <3>1, <3>2, <3>3
  <2>3. QED BY <2>1, <2>2
<1>6. ASSUME NEW v \in Units
      PROVE  /\ pc'[v] \in MidTurn => turn'[v] < MaxIter
             /\ pc'[v] = "idle" => batch'[v] = <<>>
  <2>1. CASE v = u BY <2>1
  <2>2. CASE v # u BY <1>1, <1>3, <1>5, <2>2 DEF AgentsOK, MidTurn
  <2>3. QED BY <2>1, <2>2
<1>7. QED BY <1>1, <1>3, <1>4, <1>5, <1>6 DEF AgentsOK, MidTurn

LEMMA TypesOfAgent == ASSUME AgentsOK, NEW u \in Units, AgentMove(u) PROVE AgentsOK'
<1>0. /\ pc[u] \in MidTurn => turn[u] < MaxIter
      /\ pc \in [Units -> Steps] /\ turn \in [Units -> 0..MaxIter]
  BY DEF AgentsOK, MidTurn
<1>1. \A step : Goto(u, step) => pc' = [pc EXCEPT ![u] = pc'[u]] /\ pc'[u] = step
  BY <1>0 DEF Goto
<1> USE DEF MidTurn, Steps, Busy
<1>2. CASE \/ Acquire(u) \/ AskTool(u) \/ DiffTool(u) \/ AutoflushEnd(u) \/ DiffEnd(u)
           \/ DiffTimeout(u) \/ NoteStart(u) \/ CloseStart(u)
  <2>1. /\ driver' = driver /\ turn' = turn /\ batch' = batch
        /\ \E step \in Steps \ {"idle"} : Goto(u, step) /\ (step \in MidTurn => turn[u] < MaxIter)
    BY <1>0, <1>2 DEF Acquire, AskTool, DiffTool, AutoflushEnd, DiffEnd, DiffTimeout, NoteStart,
       CloseStart, Calls
  <2>2. QED BY <1>1, <2>1, AgentTypes
<1>3. CASE Reply(u) \/ ProviderFails(u) \/ GivesUp(u)
  <2>1. PICK answer \in Answers \cup {<<>>} : Conclude(u, answer)
    BY <1>3 DEF Reply, ProviderFails, GivesUp
  <2>2. driver' = driver /\ turn' = turn BY <1>3 DEF Reply, ProviderFails, GivesUp
  <2>3. /\ batch' = [batch EXCEPT ![u] = Reported(answer)]
        /\ Goto(u, "close") \/ Goto(u, "done")
    BY <2>1 DEF Conclude
  <2>4. /\ pc' = [pc EXCEPT ![u] = pc'[u]] /\ pc'[u] \in Steps \ {"idle"}
        /\ pc'[u] \in MidTurn => turn'[u] < MaxIter
    BY <1>1, <2>3
  <2>5. \E a \in Answers \cup {<<>>} : batch' = [batch EXCEPT ![u] = Reported(a)] BY <2>3
  <2>6. QED BY <2>2, <2>4, <2>5, AgentTypes
<1>4. CASE UnknownTool(u) \/ NoteTool(u) \/ NoteEnd(u) \/ (PlainTool(u) /\ ~ Service)
  <2>1. NextTurn(u) /\ pc[u] \in MidTurn /\ driver' = driver /\ batch' = batch
    BY <1>4 DEF UnknownTool, NoteTool, NoteEnd, PlainTool
  <2>2. turn' = [turn EXCEPT ![u] = @ + 1] /\ Goto(u, "ask") BY <2>1 DEF NextTurn
  <2>3. /\ pc' = [pc EXCEPT ![u] = pc'[u]] /\ pc'[u] \in Steps \ {"idle"}
        /\ pc'[u] \in MidTurn => turn'[u] < MaxIter
    BY <1>1, <2>2
  <2>4. turn[u] < MaxIter /\ turn' = [turn EXCEPT ![u] = @ + 1] BY <1>0, <2>1, <2>2
  <2>5. QED BY <2>1, <2>3, <2>4, AgentTypes
<1>5. CASE PlainTool(u) /\ Service
  <2>1. Goto(u, "note") /\ turn' = turn /\ pc[u] = "tool" /\ driver' = driver /\ batch' = batch
    BY <1>5 DEF PlainTool
  <2>2. QED BY <1>0, <1>1, <2>1, AgentTypes
<1>6. CASE CloseNow(u) \/ CloseEnd(u) \/ Escapes(u)
  <2>1. driver' = driver /\ turn' = turn /\ batch' = batch
    BY <1>6 DEF CloseNow, CloseEnd, Escapes
  <2>2. Goto(u, "done") \/ Goto(u, "raised") BY <1>6 DEF CloseNow, CloseEnd, Escapes, Return
  <2>3. QED BY <1>1, <2>1, <2>2, AgentTypes
<1>7. QED BY <1>2, <1>3, <1>4, <1>5, <1>6 DEF AgentMove, AgentStep

\* Agents move while the driver waits for them, or after it has given up.
LEMMA AgentsMoveWhen ==
  ASSUME AInv, AgentsOK, NEW u \in Units, AgentMove(u)
  PROVE  /\ phase \in {"agents", "failed"} /\ UNCHANGED runVars /\ driver' = driver
         /\ session' \in {"ok", "broken", session} /\ dirty' \in BOOLEAN \cup {dirty}
<1> USE DEF Busy, Calls
<1>1. pc[u] \in Busy \cup {"queued"}
  BY DEF AgentMove, AgentStep, Acquire, AskTool, Reply, ProviderFails, GivesUp, UnknownTool,
     PlainTool, DiffTool, AutoflushEnd, DiffEnd, DiffTimeout, NoteTool, NoteStart, NoteEnd,
     CloseNow, CloseStart, CloseEnd, Escapes
<1>2. phase \in {"agents", "failed"} BY <1>1 DEF AInv, Open
<1>3. UNCHANGED runVars BY DEF AgentMove
<1>4. driver' = driver /\ session' \in {"ok", "broken", session} /\ dirty' \in BOOLEAN \cup {dirty}
  <2>1. CASE Acquire(u) \/ AskTool(u) \/ Reply(u) \/ ProviderFails(u) \/ GivesUp(u)
    BY <2>1 DEF Acquire, AskTool, Reply, ProviderFails, GivesUp
  <2>2. CASE UnknownTool(u) \/ PlainTool(u) \/ DiffTool(u) \/ AutoflushEnd(u) \/ DiffEnd(u)
    BY <2>2 DEF UnknownTool, PlainTool, DiffTool, AutoflushEnd, DiffEnd
  <2>3. CASE DiffTimeout(u) \/ NoteTool(u) \/ NoteStart(u) \/ NoteEnd(u)
    BY <2>3 DEF DiffTimeout, NoteTool, NoteStart, NoteEnd, AppendNow, FlushStarts, FlushEnds
  <2>4. CASE CloseNow(u) \/ CloseStart(u) \/ CloseEnd(u) \/ Escapes(u)
    BY <2>4 DEF CloseNow, CloseStart, CloseEnd, Escapes, FlushStarts, FlushEnds
  <2>5. QED BY <2>1, <2>2, <2>3, <2>4 DEF AgentMove, AgentStep
<1>5. QED BY <1>2, <1>3, <1>4

LEMMA WInvOfAgent ==
  ASSUME AInv, WInv, NEW u \in Units, AgentMove(u)
  PROVE  WInv'
<1>1. AgentsOK' BY TypesOfAgent DEF WInv
<1>2. /\ phase \in {"agents", "failed"} /\ UNCHANGED runVars /\ driver' = driver
      /\ session' \in {"ok", "broken", session} /\ dirty' \in BOOLEAN \cup {dirty}
  BY AgentsMoveWhen DEF WInv
<1>3. DriverOK' BY <1>2 DEF WInv, DriverOK, runVars
<1>4. FoundOK' BY <1>2 DEF WInv, FoundOK, runVars
<1>5. StoredOK' BY <1>2 DEF WInv, StoredOK, runVars
<1>6. QED BY <1>1, <1>3, <1>4, <1>5 DEF WInv

-----------------------------------------------------------------------------
(* Steps of the driver                                                       *)

LEMMA Still ==
  ASSUME AgentsOK, UNCHANGED agentVars
  PROVE  AgentsOK' /\ AllFindings' = AllFindings /\ Pool' = Pool
BY DEF agentVars, AgentsOK, Reportable, Service, AllFindings, Pool

LEMMA Launched ==
  ASSUME NEW pool \in SUBSET Units, Launch(pool), driver' = driver
  PROVE  AgentsOK' /\ Pool' = pool
<1>1. pc' \in [Units -> Steps] BY DEF Launch, Steps
<1>2. MaxIter \in Nat BY ReviewAssumption DEF ReviewAssumption
<1>3. turn' \in [Units -> 0..MaxIter] BY <1>2 DEF Launch
<1>4. /\ \A u \in Units : batch'[u] = <<>>
      /\ batch' = [u \in Units |-> batch'[u]]
  BY DEF Launch
<1>5. batch' \in [Units -> Seq(Reportable')]
  <2>1. <<>> \in Seq(Reportable') BY EmptySeq
  <2>2. QED BY <1>4, <2>1
<1>6. \A u \in Units : pc'[u] = IF u \in pool THEN "queued" ELSE "idle" BY DEF Launch
<1>7. Pool' = pool BY <1>6 DEF Pool
<1>8. QED BY <1>1, <1>3, <1>4, <1>5, <1>6, <1>7 DEF AgentsOK

LEMMA SampleTypes ==
  ASSUME DriverOK
  PROVE  /\ Samples \in Nat \ {0} /\ sample \in Nat /\ collected \in Nat
         /\ sample <= Samples /\ collected <= sample
BY RunAssumption DEF DriverOK, RunAssumption

\* The acceptable ones among the first m - 1.
ValidBefore(m) == {found[i] : i \in {j \in 1..(m-1) : Valid(found[j].finding)}}

\* What a service has stored when every finding has been looked at.
LEMMA AllStored ==
  ASSUME WInv, phase = "persist", session = "ok", next > Len(found)
  PROVE  ToSet(stored) = {k \in AllFindings : k.finding \in {f \in Enriched : Valid(f)}}
<1>1. ToSet(stored) = ValidBefore(next) BY DEF WInv, StoredOK, ValidBefore
<1>2. found \in Seq(NumberedFinding) /\ next \in 1..(Len(found) + 1) /\ ToSet(found) = AllFindings
  BY DEF WInv, FoundOK
<1>3. Len(found) \in Nat /\ DOMAIN found = 1..Len(found) BY <1>2, LenProperties
<1>4. 1..(next-1) = DOMAIN found BY <1>2, <1>3
<1>5. ValidBefore(next) = {k \in ToSet(found) : Valid(k.finding)}
  BY <1>4 DEF ValidBefore, ToSet
<1>6. Service BY DEF WInv, DriverOK
<1>7. \A k \in AllFindings : k.finding \in Enriched
  BY <1>6, AllReportable DEF Reportable, WInv
<1>8. QED BY <1>1, <1>2, <1>5, <1>7

\* Steps of the driver that leave its agents and what it has found alone.
PhaseStep ==
  \/ LoadProvider \/ NoProvider \/ ReviewNothing \/ ReviewDone \/ ReviewCommit \/ ReviewFails
  \/ FetchDone \/ FetchFails \/ DiffFails \/ SkipReview \/ ConvertFails \/ GatherRaises
  \/ BenchDone

LEMMA WInvOfPhaseStep == ASSUME WInv, PhaseStep PROVE WInv'
<1>1. /\ UNCHANGED agentVars /\ UNCHANGED <<kind, found, next, collected, sample>>
      /\ stored' = stored \/ (stored' = <<>> /\ phase' = "failed")
      /\ \/ phase = "load" /\ phase' \in {"start", "score"}
         \/ phase \in {"nothing", "commit"} /\ phase' = "score"
         \/ phase = "persist" /\ phase' = "commit"
         \/ phase = "fetch" /\ phase' = "diff"
         \/ phase = "diff" /\ driver \in Drivers \ {"shadow"} /\ phase' = "next"
         \/ phase = "diff" /\ phase' = "score"
         \/ phase' = "failed"
         \/ phase \in {"counted", "next"} /\ phase' = "done"
  BY DEF WInv, DriverOK, PhaseStep, LoadProvider, NoProvider, ReviewNothing, ReviewDone,
     ReviewCommit, ReviewFails, Committed, FetchDone, FetchFails, DiffFails, SkipReview, ConvertFails, GatherRaises,
     BenchDone, Proceed
<1>2. AgentsOK' /\ AllFindings' = AllFindings /\ Pool' = Pool BY <1>1, Still DEF WInv
<1>3. UNCHANGED <<driver, session, dirty, pc>> /\ (Service' <=> Service)
  BY <1>1 DEF agentVars, Service
<1>4. DriverOK' BY <1>1, <1>3 DEF WInv, DriverOK, Phases, Service, Drivers
<1>5. FoundOK' BY <1>1, <1>2, <1>3 DEF WInv, FoundOK
<1>6. StoredOK'
  <2>1. CASE stored' = <<>> /\ phase' = "failed" BY <1>1, <2>1, EmptySeq DEF StoredOK
  <2>2. CASE stored' = stored /\ phase' # "commit" BY <1>1, <1>3, <2>2 DEF WInv, StoredOK
  <2>3. CASE phase' = "commit"
    <3>1. phase = "persist" /\ session = "ok" /\ next > Len(found) /\ stored' = stored
      BY <1>1, <2>3 DEF PhaseStep, LoadProvider, NoProvider, ReviewNothing, ReviewDone,
         ReviewCommit, ReviewFails, FetchDone, FetchFails, DiffFails, SkipReview, ConvertFails,
         GatherRaises, BenchDone, Proceed
    <3>2. ToSet(stored) = {k \in AllFindings : k.finding \in {f \in Enriched : Valid(f)}}
      BY <3>1, AllStored
    <3>3. QED BY <1>2, <2>3, <3>1, <3>2 DEF WInv, StoredOK
  <2>4. QED BY <1>1, <2>1, <2>2, <2>3
<1>7. QED BY <1>2, <1>4, <1>5, <1>6 DEF WInv

LEMMA WInvOfLaunch ==
  ASSUME WInv, ReviewStart \/ DiffDone \/ NextSample \/ Cancel
  PROVE  WInv'
<1>1. CASE ReviewStart \/ DiffDone
  <2>1. /\ Reviewable \in SUBSET Units /\ Launch(Reviewable)
        /\ UNCHANGED <<driver, session, dirty, kind, found, next, stored, score, collected, sample>>
        /\ \/ phase = "start" /\ phase' = "nothing" /\ Reviewable = {}
           \/ phase \in {"start", "diff"} /\ phase' = "agents"
    BY <1>1 DEF ReviewStart, DiffDone, Reviewable, Proceed
  <2>2. AgentsOK' /\ Pool' = Reviewable BY <2>1, Launched
  <2>3. DriverOK' BY <2>1 DEF WInv, DriverOK, Phases, Service
  <2>4. FoundOK' BY <2>1, <2>2 DEF WInv, FoundOK
  <2>5. StoredOK' BY <2>1 DEF WInv, StoredOK
  <2>6. QED BY <2>2, <2>3, <2>4, <2>5 DEF WInv
<1>2. CASE NextSample
  <2>1. /\ Launch({}) /\ UNCHANGED <<driver, session, dirty, score, collected>>
        /\ phase \in {"counted", "next"} /\ phase' = "diff" /\ kind' \in [Units -> Kinds]
        /\ sample < Samples /\ sample' = sample + 1
        /\ found' = <<>> /\ next' = 1 /\ stored' = <<>>
    BY <1>2 DEF NextSample, Proceed
  <2>2. AgentsOK' BY <2>1, Launched
  <2>3. DriverOK'
    <3>1. sample' \in 1..Samples /\ collected' \in 0..sample' /\ collected' < sample'
      BY <2>1, SampleTypes DEF WInv
    <3>2. QED BY <2>1, <3>1 DEF WInv, DriverOK, Phases, Service
  <2>4. FoundOK'
    <3>1. found' \in Seq(NumberedFinding') /\ Len(found') = 0 BY <2>1, EmptySeq
    <3>2. QED BY <2>1, <3>1 DEF FoundOK
  <2>5. StoredOK'
    <3>1. stored' \in Seq(NumberedFinding') BY <2>1, EmptySeq
    <3>2. QED BY <2>1, <3>1 DEF StoredOK
  <2>6. QED BY <2>2, <2>3, <2>4, <2>5 DEF WInv
<1>3. CASE Cancel
  <2>1. /\ Launch({}) /\ UNCHANGED <<driver, session, dirty, kind, found, next, collected, sample>>
        /\ phase' = "failed" /\ stored' \in {stored, <<>>}
    BY <1>3 DEF Cancel, Cancelled, Proceed, Committed
  <2>2. AgentsOK' BY <2>1, Launched
  <2>3. DriverOK' BY <2>1 DEF WInv, DriverOK, Phases, Service
  <2>4. FoundOK' BY <2>1 DEF WInv, FoundOK
  <2>5. StoredOK'
    <3>1. stored' \in Seq(NumberedFinding') BY <2>1, EmptySeq DEF WInv, StoredOK
    <3>2. QED BY <2>1, <3>1 DEF StoredOK
  <2>6. QED BY <2>2, <2>3, <2>4, <2>5 DEF WInv
<1>4. QED BY <1>1, <1>2, <1>3

LEMMA WInvOfGather == ASSUME WInv, Gather PROVE WInv'
<1>1. /\ UNCHANGED agentVars /\ UNCHANGED <<kind, stored, collected, sample>>
      /\ phase = "agents" /\ next' = 1
      /\ \A u \in Pool : pc[u] = "done"
      /\ \/ phase' = "persist" /\ Service
         \/ phase' = "convert" /\ driver = "shadow"
         \/ phase' = "collect" /\ driver \notin {"worker", "gateway", "shadow"}
  BY DEF Gather, Proceed, Service
<1>2. found' = NumberedAll(InUnitOrder([u \in Units |-> OfUnit(u)])) BY DEF Gather, NumberedAll
<1>3. AgentsOK' /\ AllFindings' = AllFindings /\ Pool' = Pool BY <1>1, Still DEF WInv
<1>4. UNCHANGED <<driver, session, dirty, pc>> BY <1>1 DEF agentVars
<1>5. found' \in Seq(NumberedFinding) /\ ToSet(found') = AllFindings BY <1>2, Gathered DEF WInv
<1>6. DriverOK' BY <1>1, <1>4 DEF WInv, DriverOK, Phases, Service, Drivers
<1>7. FoundOK'
  <2>1. Len(found') \in Nat BY <1>5, LenProperties
  <2>2. 1 \in 1..(Len(found') + 1) BY <2>1
  <2>3. QED BY <1>1, <1>3, <1>4, <1>5, <2>2 DEF FoundOK
<1>8. StoredOK'
  <2>1. stored = <<>> /\ stored' = <<>> BY <1>1 DEF WInv, StoredOK
  <2>2. 1..(next' - 1) = {} BY <1>1
  <2>4. stored' \in Seq(NumberedFinding) /\ DOMAIN stored' = {} /\ ToSet(stored') = {}
    BY <2>1, EmptySeq DEF ToSet
  <2>6. QED BY <1>1, <2>2, <2>4 DEF StoredOK
<1>9. QED BY <1>3, <1>6, <1>7, <1>8 DEF WInv

\* The finding to persist next.
LEMMA NextFinding ==
  ASSUME WInv, phase = "persist", next <= Len(found)
  PROVE  /\ Service /\ next \in DOMAIN found /\ next \in Nat
         /\ next + 1 \in 1..(Len(found) + 1)
         /\ found[next] \in NumberedFinding /\ found[next].finding \in Reportable
         /\ found[next].finding.conf # "text"
         /\ 1..((next + 1) - 1) = 1..(next - 1) \cup {next}
<1>1. found \in Seq(NumberedFinding) /\ next \in 1..(Len(found) + 1) /\ ToSet(found) = AllFindings
  BY DEF WInv, FoundOK
<1>2. Len(found) \in Nat /\ DOMAIN found = 1..Len(found) BY <1>1, LenProperties
<1>3. next \in DOMAIN found /\ next \in Nat /\ next + 1 \in 1..(Len(found) + 1) BY <1>1, <1>2
<1>4. found[next] \in NumberedFinding BY <1>1, <1>2, <1>3, ElementOfSeq
<1>5. found[next] \in AllFindings BY <1>1, <1>3 DEF ToSet
<1>6. found[next].finding \in Reportable BY <1>5, AllReportable DEF WInv
<1>7. Service BY DEF WInv, DriverOK
<1>8. found[next].finding.conf # "text" BY <1>6, <1>7, ReportableIsRaw
<1>9. 1..((next + 1) - 1) = 1..(next - 1) \cup {next} BY <1>3
<1>10. QED BY <1>3, <1>4, <1>6, <1>7, <1>8, <1>9

LEMMA OneMoreValid ==
  ASSUME WInv, phase = "persist", next <= Len(found)
  PROVE  ValidBefore(next + 1) =
           ValidBefore(next) \cup IF Valid(found[next].finding) THEN {found[next]} ELSE {}
<1>1. 1..((next + 1) - 1) = 1..(next - 1) \cup {next} BY NextFinding
<1>2. QED BY <1>1 DEF ValidBefore

LEMMA WInvOfPersist ==
  ASSUME WInv, Persist \/ PersistInvalid \/ PersistFails
  PROVE  WInv'
<1>1. /\ phase = "persist" /\ next <= Len(found) /\ next' = next + 1
      /\ UNCHANGED <<driver, pc, turn, batch, slots, dirty, kind, phase, found, collected, sample>>
      /\ session' \in {session, "broken"}
  BY DEF Persist, PersistInvalid, PersistFails, agentVars
<1>2. AgentsOK' /\ AllFindings' = AllFindings /\ Pool' = Pool
  BY <1>1 DEF WInv, AgentsOK, Reportable, Service, AllFindings, Pool
<1>3. DriverOK' BY <1>1 DEF WInv, DriverOK, Service
<1>4. next' \in 1..(Len(found') + 1) BY <1>1, NextFinding
<1>5. FoundOK' BY <1>1, <1>2, <1>4 DEF WInv, FoundOK
<1>6. StoredOK'
  <2>1. CASE PersistFails
    <3>1. stored' = stored /\ session' = "broken" BY <2>1 DEF PersistFails
    <3>2. QED BY <1>1, <3>1 DEF WInv, StoredOK
  <2>2. CASE PersistInvalid
    <3>1. stored' = stored /\ session' = session /\ ~ Valid(found[next].finding)
      BY <2>2 DEF PersistInvalid, agentVars
    <3>2. ValidBefore(next + 1) = ValidBefore(next) BY <1>1, <3>1, OneMoreValid
    <3>3. phase = "persist" /\ session = "ok" => ToSet(stored) = ValidBefore(next)
      BY DEF WInv, StoredOK, ValidBefore
    <3>4. phase' = "persist" /\ session' = "ok" =>
            ToSet(stored') = {found'[i] : i \in {j \in 1..(next'-1) : Valid(found'[j].finding)}}
      BY <1>1, <3>1, <3>2, <3>3 DEF ValidBefore
    <3>5. /\ stored \in Seq(NumberedFinding)
          /\ \A i \in DOMAIN stored : stored[i].finding.conf # "text"
      BY <1>1 DEF WInv, StoredOK
    <3>6. QED BY <1>1, <3>1, <3>4, <3>5 DEF StoredOK
  <2>3. CASE Persist
    <3> DEFINE k == found[next]
    <3>1. stored' = Append(stored, k) /\ session' = session /\ Valid(k.finding) /\ session = "ok"
      BY <2>3 DEF Persist, agentVars
    <3>2. k \in NumberedFinding /\ k.finding.conf # "text" BY <1>1, NextFinding
    <3>3. ValidBefore(next + 1) = ValidBefore(next) \cup {k} BY <1>1, <3>1, OneMoreValid
    <3> HIDE DEF k
    <3>4. ToSet(stored) = ValidBefore(next) BY <1>1, <3>1 DEF WInv, StoredOK, ValidBefore
    <3>5. /\ stored \in Seq(NumberedFinding)
          /\ \A i \in DOMAIN stored : stored[i].finding.conf # "text"
      BY <1>1 DEF WInv, StoredOK
    <3>6. stored' \in Seq(NumberedFinding) /\ ToSet(stored') = ToSet(stored) \cup {k}
      BY <3>1, <3>2, <3>5, ToSetOfAppend
    <3>7. phase' = "persist" /\ session' = "ok" =>
            ToSet(stored') = {found'[i] : i \in {j \in 1..(next'-1) : Valid(found'[j].finding)}}
      BY <1>1, <3>3, <3>4, <3>6 DEF ValidBefore
    <3>8. \A i \in DOMAIN stored' : stored'[i].finding.conf # "text"
      <4>1. \A x \in ToSet(stored) : x.finding.conf # "text" BY <3>5 DEF ToSet
      <4>2. \A x \in ToSet(stored') : x.finding.conf # "text" BY <3>2, <3>6, <4>1
      <4>3. \A i \in DOMAIN stored' : stored'[i] \in ToSet(stored') BY DEF ToSet
      <4>4. QED BY <4>2, <4>3
    <3>9. QED BY <1>1, <3>6, <3>7, <3>8 DEF StoredOK
  <2>4. QED BY <2>1, <2>2, <2>3
<1>7. QED BY <1>2, <1>3, <1>5, <1>6 DEF WInv

LEMMA WInvOfScript ==
  ASSUME WInv, Convert \/ Collect \/ Score
  PROVE  WInv'
<1>1. /\ UNCHANGED agentVars /\ UNCHANGED <<kind, found, next, sample>>
      /\ \/ /\ phase = "convert" /\ phase' = "score" /\ stored' = found /\ collected' = collected
            /\ Convertible
         \/ /\ phase = "collect" /\ phase' = "counted" /\ stored' = found
            /\ collected' = collected + 1
         \/ phase = "score" /\ phase' = "done" /\ stored' = stored /\ collected' = collected
  BY DEF Convert, Collect, Score, Proceed
<1>2. AgentsOK' /\ AllFindings' = AllFindings /\ Pool' = Pool BY <1>1, Still DEF WInv
<1>3. UNCHANGED <<driver, session, dirty, pc>> BY <1>1 DEF agentVars
<1>4. DriverOK'
  <2>1. phase = "collect" => collected < sample BY DEF WInv, DriverOK
  <2>2. collected' \in 0..sample /\ (phase' = "counted" => collected' > 0)
    BY <1>1, <2>1, SampleTypes DEF WInv
  <2>3. QED BY <1>1, <1>3, <2>2 DEF WInv, DriverOK, Phases, Service
<1>5. FoundOK' BY <1>1, <1>2 DEF WInv, FoundOK
<1>6. StoredOK' BY <1>1 DEF WInv, StoredOK, FoundOK, Convertible
<1>7. QED BY <1>2, <1>4, <1>5, <1>6 DEF WInv

LEMMA InitWork == ASSUME Init PROVE WInv
<1>1. /\ pc = [u \in Units |-> "idle"] /\ turn = [u \in Units |-> 0]
      /\ batch = [u \in Units |-> <<>>] /\ session = "ok" /\ dirty = FALSE
      /\ driver \in Drivers /\ kind \in [Units -> Kinds]
      /\ found = <<>> /\ next = 1 /\ stored = <<>> /\ collected = 0 /\ sample = 1
  BY DEF Init, AgentInit, AgentsIdle
<1>2. \/ driver = "worker" /\ phase = "load"
      \/ driver = "gateway" /\ phase = "start"
      \/ driver \in {"shadow", "bench"} /\ phase = "fetch"
  BY DEF Init, Drivers
<1>3. AgentsOK
  <2>1. MaxIter \in Nat BY ReviewAssumption DEF ReviewAssumption
  <2>2. pc \in [Units -> Steps] BY <1>1 DEF Steps
  <2>3. turn \in [Units -> 0..MaxIter] BY <1>1, <2>1
  <2>4. <<>> \in Seq(Reportable) BY EmptySeq
  <2>5. batch \in [Units -> Seq(Reportable)] /\ \A u \in Units : batch[u] = <<>>
    BY <1>1, <2>4
  <2>6. \A u \in Units : pc[u] = "idle" BY <1>1
  <2>7. QED BY <2>2, <2>3, <2>5, <2>6 DEF AgentsOK
<1>4. DriverOK
  <2>1. Samples \in Nat \ {0} BY RunAssumption DEF RunAssumption
  <2>2. sample \in 1..Samples /\ collected \in 0..sample /\ collected < sample BY <1>1, <2>1
  <2>3. QED BY <1>1, <1>2, <2>2 DEF DriverOK, Phases, Service
<1>5. found \in Seq(NumberedFinding) /\ stored \in Seq(NumberedFinding) /\ Len(found) = 0
  BY <1>1, EmptySeq
<1>6. FoundOK BY <1>1, <1>2, <1>5 DEF FoundOK
<1>7. StoredOK BY <1>1, <1>2, <1>5 DEF StoredOK
<1>8. QED BY <1>3, <1>4, <1>6, <1>7 DEF WInv

LEMMA WInvKept == ASSUME AInv, WInv, [Next]_vars PROVE WInv'
<1>1. CASE UNCHANGED vars
  <2>1. AgentsOK' /\ AllFindings' = AllFindings /\ Pool' = Pool BY <1>1, Still DEF WInv, vars
  <2>2. /\ UNCHANGED <<driver, session, dirty, pc, kind, phase, found, next>>
        /\ UNCHANGED <<stored, collected, sample>>
    BY <1>1 DEF vars, agentVars, runVars
  <2>3. DriverOK' BY <2>2 DEF WInv, DriverOK, Service
  <2>4. FoundOK' BY <2>1, <2>2 DEF WInv, FoundOK
  <2>5. StoredOK' BY <2>1, <2>2 DEF WInv, StoredOK
  <2>6. QED BY <2>1, <2>3, <2>4, <2>5 DEF WInv
<1>2. CASE \E u \in Units : AgentMove(u) BY <1>2, WInvOfAgent
<1>3. CASE RunStep \/ Cancel
  BY <1>3, WInvOfPhaseStep, WInvOfLaunch, WInvOfGather, WInvOfPersist, WInvOfScript
     DEF RunStep, ServiceStep, ShadowStep, PhaseStep
<1>4. QED BY <1>1, <1>2, <1>3 DEF Next

-----------------------------------------------------------------------------
(* The contract                                                              *)

Nobody == [u \in Units |-> NoAnswer]

ContractStep == [Review!Next]_(Review!vars)

LEMMA Closed ==
  /\ Outcome # "open" => UnderReview = {} /\ AnswersSoFar = Nobody
  /\ Outcome' # "open" => UnderReview' = {} /\ AnswersSoFar' = Nobody
  /\ Outcome = "open" => Kept = {}
  /\ Outcome' = "open" => Kept' = {}
BY DEF UnderReview, AnswersSoFar, Kept, Nobody

\* Where nothing is stored, nothing is kept.
LEMMA Empty ==
  /\ stored = <<>> => Kept = {}
  /\ stored' = <<>> => Kept' = {}
<1>1. ASSUME stored = <<>> PROVE Kept = {}
  <2>1. DOMAIN stored = {} BY <1>1
  <2>2. QED BY <2>1 DEF Kept, ToSet
<1>2. ASSUME stored' = <<>> PROVE Kept' = {}
  <2>1. DOMAIN stored' = {} BY <1>2
  <2>2. QED BY <2>1 DEF Kept, ToSet
<1>3. QED BY <1>1, <1>2

LEMMA SameService == ASSUME driver' = driver PROVE Service' = Service
BY DEF Service

LEMMA FailsOK ==
  ASSUME Outcome \in {"idle", "open"}, Outcome' = "failed", driver' = driver,
         Kept = {}, Kept' = {}
  PROVE  ContractStep
BY Closed, SameService
   DEF ContractStep, Review!Next, Review!Fail, Review!Forget, Nobody, Units, Review!Units

LEMMA SkipsOK ==
  ASSUME Outcome = "idle", Outcome' = "done", Kept = {}, Kept' = {}, driver' = driver
  PROVE  ContractStep
BY Closed, SameService DEF ContractStep, Review!Next, Review!Skip

LEMMA AgainOK ==
  ASSUME Outcome = "done", Outcome' = "idle", Kept' = {}, driver' = driver
  PROVE  ContractStep
BY Closed, SameService DEF ContractStep, Review!Next, Review!Again

LEMMA OpensOK ==
  ASSUME Outcome = "idle", Outcome' = "open", driver' = driver, Kept = {},
         NEW pool \in SUBSET Units,
         Pool' = pool, \A u \in Units : pc'[u] # "done"
  PROVE  ContractStep
<1>1. AnswersSoFar' = Nobody BY DEF AnswersSoFar, Nobody
<1>2. UnderReview' = pool BY DEF UnderReview
<1>3. Review!Open BY <1>1, <1>2, Closed, SameService DEF Review!Open, Units, Review!Units
<1>4. QED BY <1>3 DEF ContractStep, Review!Next

LEMMA StaysClosed ==
  ASSUME Outcome' = Outcome, Outcome # "open", Kept' = Kept, driver' = driver
  PROVE  ContractStep
BY Closed, SameService DEF ContractStep, Review!vars

LEMMA StaysOpen ==
  ASSUME Outcome' = Outcome, Outcome = "open", UNCHANGED <<driver, pc, batch>>
  PROVE  ContractStep
<1>1. AnswersSoFar' = AnswersSoFar BY DEF AnswersSoFar
<1>2. UnderReview' = UnderReview BY DEF UnderReview, Pool
<1>3. QED BY <1>1, <1>2, Closed, SameService DEF ContractStep, Review!vars

LEMMA SameCardinality == \A S : Review!Cardinality(S) = Cardinality(S)
BY DEF Review!Cardinality, Cardinality

\* When all agents have answered, the contract's findings are those that gather numbers.
LEMMA ContractFindings ==
  ASSUME AgentsOK, Outcome = "open", \A u \in Pool : pc[u] = "done"
  PROVE  /\ Review!Findings = AllFindings
         /\ \A u \in UnderReview : AnswersSoFar[u] # NoAnswer
<1>1. UnderReview = Pool /\ Pool \subseteq Units BY DEF UnderReview, Pool
<1>2. \A u \in Pool : AnswersSoFar[u] = batch[u] BY <1>1 DEF AnswersSoFar
<1>3. ASSUME NEW u \in Pool PROVE AnswersSoFar[u] # NoAnswer
  <2>1. batch[u] \in Seq(Reportable) BY <1>1 DEF AgentsOK
  <2>2. batch[u] \in Seq(RawFinding)
    <3> DEFINE b == batch[u]
    <3>1. b \in Seq(Reportable) BY <2>1
    <3> HIDE DEF b
    <3>2. /\ Len(b) \in Nat /\ b = [i \in 1..Len(b) |-> b[i]]
          /\ \A i \in 1..Len(b) : b[i] \in RawFinding
      BY <3>1, LenProperties, ElementOfSeq, ReportableIsRaw
    <3>3. b \in Seq(RawFinding) BY <3>2, ListSeq
    <3>4. QED BY <3>3 DEF b
  <2>3. QED BY <1>2, <2>2, RunAssumption DEF RunAssumption
<1>4. Review!Places = PlacesIn(batch, NUnits)
  <2>1. ASSUME NEW u \in Units \ Pool PROVE DOMAIN batch[u] = {}
    <3>1. batch[u] = <<>> BY DEF Pool, AgentsOK
    <3>2. QED BY <3>1
  <2>2. Review!Places = UNION {{u} \X DOMAIN batch[u] : u \in Pool}
    BY <1>1, <1>2 DEF Review!Places
  <2>3. QED BY <1>1, <2>1, <2>2 DEF PlacesIn, Units
<1>5. \A p : Review!Number(p[1], p[2]) = Rank(batch, NUnits, p)
  BY <1>4, SameCardinality DEF Review!Number, Rank
<1>6. \A p \in Review!Places : AnswersSoFar[p[1]] = batch[p[1]]
  BY <1>1, <1>2 DEF Review!Places
<1>7. Review!Findings = AllFindings
  BY <1>4, <1>5, <1>6 DEF Review!Findings, AllFindings
<1>8. QED BY <1>1, <1>3, <1>7

\* A review that has kept everything ends, done or failed.
LEMMA DoneOK ==
  ASSUME AgentsOK, Outcome = "open", Outcome' \in {"done", "failed"}, driver' = driver,
         \A u \in Pool : pc[u] = "done",
         Kept' = {k \in AllFindings : Service => k.finding \in {f \in Enriched : Valid(f)}}
  PROVE  ContractStep
<1>1. Review!Findings = AllFindings /\ \A u \in UnderReview : AnswersSoFar[u] # NoAnswer
  BY ContractFindings
<1>2. Review!KeepAll BY <1>1 DEF Review!KeepAll
<1>3. Review!Forget /\ Service' = Service
  BY Closed, SameService DEF Review!Forget, Nobody, Units, Review!Units
<1>4. Review!Done \/ Review!Fail BY <1>2, <1>3 DEF Review!Done, Review!Fail
<1>5. QED BY <1>4 DEF ContractStep, Review!Next

-----------------------------------------------------------------------------
(* Every step of a review is one of the contract's                           *)

\* A step of an agent is about its own unit.
LEMMA OwnUnit ==
  ASSUME AInv, AgentsOK, NEW u \in Units, AgentMove(u)
  PROVE  /\ pc' = [pc EXCEPT ![u] = pc'[u]] /\ pc[u] \in Busy \cup {"queued"}
         /\ pc'[u] # "idle"
         /\ batch' = [batch EXCEPT ![u] = batch'[u]]
<1>0. /\ pc = [v \in Units |-> pc[v]] /\ batch = [v \in Units |-> batch[v]]
  BY DEF AInv, AgentsOK
<1> USE <1>0 DEF Goto, Busy, Calls
<1>1. CASE Acquire(u) BY <1>1 DEF Acquire
<1>2. CASE AskTool(u) \/ Reply(u) \/ ProviderFails(u) \/ GivesUp(u)
  BY <1>2 DEF AskTool, Reply, ProviderFails, GivesUp, Conclude
<1>3. CASE UnknownTool(u) \/ PlainTool(u)
  BY <1>3 DEF UnknownTool, PlainTool, NextTurn
<1>4. CASE DiffTool(u) BY <1>4 DEF DiffTool
<1>5. CASE AutoflushEnd(u) \/ DiffEnd(u) \/ DiffTimeout(u)
  BY <1>5 DEF AutoflushEnd, DiffEnd, DiffTimeout
<1>6. CASE NoteTool(u) \/ NoteStart(u) \/ NoteEnd(u)
  BY <1>6 DEF NoteTool, NoteStart, NoteEnd, NextTurn
<1>7. CASE CloseNow(u) \/ CloseStart(u) \/ CloseEnd(u)
  BY <1>7 DEF CloseNow, CloseStart, CloseEnd, Return
<1>8. CASE Escapes(u) BY <1>8 DEF Escapes
<1>9. QED BY <1>1, <1>2, <1>3, <1>4, <1>5, <1>6, <1>7, <1>8 DEF AgentStep, AgentMove

LEMMA ReportableIsFound ==
  ASSUME NEW s \in Seq(Reportable)
  PROVE  s \in Seq(RawFindings \cup Enriched)
<1>1. Reportable \subseteq RawFindings \cup Enriched BY DEF Reportable
<1>2. /\ Len(s) \in Nat /\ s = [i \in 1..Len(s) |-> s[i]]
      /\ \A i \in 1..Len(s) : s[i] \in RawFindings \cup Enriched
  BY <1>1, LenProperties, ElementOfSeq
<1>3. QED BY <1>2, ListSeq

LEMMA AgentKeepsTheContract ==
  ASSUME AInv, WInv, NEW u \in Units, AgentMove(u)
  PROVE  ContractStep
<1>1. /\ phase \in {"agents", "failed"} /\ phase' = phase /\ stored' = stored
      /\ driver' = driver
  BY AgentsMoveWhen DEF WInv, runVars
<1>2. Outcome' = Outcome BY <1>1 DEF Outcome
<1>3. /\ pc' = [pc EXCEPT ![u] = pc'[u]] /\ pc[u] \in Busy \cup {"queued"}
      /\ pc'[u] # "idle" /\ batch' = [batch EXCEPT ![u] = batch'[u]]
      /\ pc = [v \in Units |-> pc[v]] /\ batch = [v \in Units |-> batch[v]]
  BY OwnUnit DEF WInv, AInv, AgentsOK
<1>4. CASE phase = "failed"
  <2>1. Outcome = "failed" BY <1>4 DEF Outcome
  <2>2. Kept' = Kept BY <1>1, <1>2, <2>1 DEF Kept
  <2>3. QED BY <1>1, <1>2, <2>1, <2>2, StaysClosed
<1>5. CASE phase = "agents"
  <2>1. Outcome = "open" BY <1>5 DEF Outcome
  <2>2. Pool' = Pool /\ u \in Pool BY <1>3 DEF Pool, Busy
  <2>3. UnderReview' = UnderReview /\ u \in UnderReview BY <1>2, <2>1, <2>2 DEF UnderReview
  <2>4. Kept' = Kept /\ Service' = Service BY <1>1, <1>2, <2>1, Closed, SameService
  <2>5. /\ AnswersSoFar[u] = NoAnswer
        /\ AnswersSoFar' = [AnswersSoFar EXCEPT ![u] = AnswersSoFar'[u]]
        /\ AnswersSoFar'[u] = IF pc'[u] = "done" THEN batch'[u] ELSE NoAnswer
    BY <1>2, <1>3, <2>1 DEF AnswersSoFar, Busy
  <2>6. CASE pc'[u] = "done"
    <3>1. batch'[u] \in Seq(Reportable)
      <4>1. AgentsOK' /\ Reportable' = Reportable
        BY <1>1, TypesOfAgent DEF WInv, Reportable, Service
      <4>2. QED BY <4>1 DEF AgentsOK
    <3>2. AnswersSoFar'[u] \in Seq(RawFindings \cup Enriched)
      BY <2>5, <2>6, <3>1, ReportableIsFound
    <3>3. Review!Answer(u)
      BY <1>2, <2>1, <2>3, <2>4, <2>5, <3>2 DEF Review!Answer
    <3>4. QED BY <3>3 DEF ContractStep, Review!Next, Review!Units, Units
  <2>7. CASE pc'[u] # "done"
    <3>1. AnswersSoFar' = AnswersSoFar
      <4>1. AnswersSoFar'[u] = AnswersSoFar[u] BY <2>5, <2>7
      <4>2. AnswersSoFar = [v \in Units |-> AnswersSoFar[v]] BY DEF AnswersSoFar
      <4>3. QED BY <2>5, <4>1, <4>2
    <3>2. UNCHANGED Review!vars BY <1>2, <2>3, <2>4, <3>1 DEF Review!vars
    <3>3. QED BY <3>2 DEF ContractStep
  <2>8. QED BY <2>6, <2>7
<1>6. QED BY <1>1, <1>4, <1>5

LEMMA DriverKeepsTheContract ==
  ASSUME WInv, RunStep \/ Cancel
  PROVE  ContractStep
<1>1. CASE NoProvider \/ SkipReview
  <2>1. /\ phase \in {"load", "diff"} /\ phase' = "score" /\ stored' = stored /\ driver' = driver
    BY <1>1 DEF NoProvider, SkipReview, Proceed, agentVars
  <2>2. stored = <<>> BY <2>1 DEF WInv, StoredOK
  <2>3. Outcome = "idle" /\ Outcome' = "done" BY <2>1 DEF Outcome
  <2>4. Kept = {} /\ Kept' = {} BY <2>1, <2>2, Empty
  <2>5. QED BY <2>1, <2>3, <2>4, SkipsOK
<1>2. CASE FetchFails \/ GatherRaises \/ ReviewFails \/ ConvertFails \/ Cancel
           \/ (DiffFails /\ driver = "shadow")
  <2>1. /\ phase \in {"fetch", "diff", "nothing", "agents", "persist", "commit", "convert"}
        /\ phase' = "failed" /\ driver' = driver
        /\ stored' = stored \/ stored' = <<>>
        /\ phase = "persist" => stored' = <<>>
    BY <1>2 DEF FetchFails, GatherRaises, ReviewFails, ConvertFails, Cancel, Committed, DiffFails,
       Proceed, agentVars
  <2>2. Outcome \in {"idle", "open"} /\ Outcome' = "failed" BY <2>1 DEF Outcome
  <2>3. CASE stored' = <<>>
    <3>1. Outcome = "idle" => stored = <<>> BY <2>1 DEF Outcome, WInv, StoredOK
    <3>2. Kept = {} /\ Kept' = {} BY <2>2, <2>3, <3>1, Closed, Empty
    <3>3. QED BY <2>1, <2>2, <3>2, FailsOK
  <2>4. CASE stored' = stored /\ phase = "commit"
    <3>1. Outcome = "open" BY <2>4 DEF Outcome
    <3>2. ToSet(stored) = {k \in AllFindings : k.finding \in {f \in Enriched : Valid(f)}}
      BY <2>4 DEF WInv, StoredOK
    <3>3. Service /\ AgentsOK /\ \A u \in Pool : pc[u] = "done"
      BY <2>4 DEF WInv, DriverOK, FoundOK
    <3>4. Kept' = ToSet(stored) BY <2>2, <2>4 DEF Kept
    <3>5. QED BY <2>1, <2>2, <3>1, <3>2, <3>3, <3>4, DoneOK
  <2>5. CASE stored' = stored /\ phase \notin {"commit", "persist"}
    <3>1. stored = <<>> BY <2>1, <2>5 DEF WInv, StoredOK
    <3>2. QED BY <2>3, <2>5, <3>1
  <2>6. QED BY <2>1, <2>3, <2>4, <2>5
<1>3. CASE ReviewStart \/ DiffDone
  <2>1. /\ phase \in {"start", "diff"} /\ phase' \in {"nothing", "agents"} /\ driver' = driver
        /\ Reviewable \in SUBSET Units /\ Launch(Reviewable)
    BY <1>3 DEF ReviewStart, DiffDone, Proceed, Reviewable
  <2>2. Outcome = "idle" /\ Outcome' = "open" BY <2>1 DEF Outcome
  <2>3. Pool' = Reviewable BY <2>1, Launched
  <2>4. \A u \in Units : pc'[u] # "done" BY <2>1 DEF Launch
  <2>5. Kept = {}
    <3>1. stored = <<>> BY <2>1 DEF WInv, StoredOK
    <3>2. QED BY <3>1, Empty
  <2>6. QED BY <2>1, <2>2, <2>3, <2>4, <2>5, OpensOK
<1>4. CASE Gather
  <2>1. phase = "agents" /\ phase' \in {"persist", "convert", "collect"} /\ UNCHANGED agentVars
    BY <1>4 DEF Gather, Proceed
  <2>2. Outcome = "open" /\ Outcome' = "open" BY <2>1 DEF Outcome
  <2>3. UNCHANGED <<driver, pc, batch>> BY <2>1 DEF agentVars
  <2>4. QED BY <2>2, <2>3, StaysOpen
<1>5. CASE Persist \/ PersistInvalid \/ PersistFails \/ ReviewDone
  <2>1. phase = "persist" /\ phase' \in {"persist", "commit"} /\ UNCHANGED <<driver, pc, batch>>
    BY <1>5 DEF Persist, PersistInvalid, PersistFails, ReviewDone, Proceed, agentVars
  <2>2. Outcome = "open" /\ Outcome' = "open" BY <2>1 DEF Outcome
  <2>3. QED BY <2>1, <2>2, StaysOpen
<1>6. CASE ReviewNothing \/ ReviewCommit \/ Convert \/ Collect
  <2>1. /\ phase \in {"nothing", "commit", "convert", "collect"} /\ phase' \in {"score", "counted"}
        /\ driver' = driver
    BY <1>6 DEF ReviewNothing, ReviewCommit, Convert, Collect, Proceed, agentVars
  <2>2. Outcome = "open" /\ Outcome' = "done" BY <2>1 DEF Outcome
  <2>3. \A u \in Pool : pc[u] = "done"
    <3>1. phase = "nothing" => Pool = {} BY DEF WInv, FoundOK
    <3>2. QED BY <2>1, <3>1 DEF WInv, FoundOK
  <2>4. Kept' = ToSet(stored') BY <2>2 DEF Kept
  <2>5. ToSet(stored') = {k \in AllFindings : Service => k.finding \in {f \in Enriched : Valid(f)}}
    <3>1. CASE ReviewNothing
      <4>1. stored' = stored /\ phase = "nothing" BY <3>1 DEF ReviewNothing
      <4>2. stored = <<>> /\ Pool = {} BY <4>1 DEF WInv, StoredOK, FoundOK
      <4>3. DOMAIN stored' = {} BY <4>1, <4>2
      <4>4. ToSet(stored') = {} BY <4>3 DEF ToSet
      <4>5. \A u \in Units : DOMAIN batch[u] = {}
        <5>1. \A u \in Units : batch[u] = <<>> BY <4>2 DEF Pool, WInv, AgentsOK
        <5>2. QED BY <5>1
      <4>6. PlacesIn(batch, NUnits) = {} BY <4>5 DEF PlacesIn, Units
      <4>7. QED BY <4>4, <4>6 DEF AllFindings
    <3>2. CASE ReviewCommit
      <4>1. phase = "commit" /\ stored' = stored BY <3>2 DEF ReviewCommit
      <4>2. Service BY <4>1 DEF WInv, DriverOK
      <4>3. ToSet(stored) = {k \in AllFindings : k.finding \in {f \in Enriched : Valid(f)}}
        BY <4>1 DEF WInv, StoredOK
      <4>4. QED BY <4>1, <4>2, <4>3
    <3>3. CASE Convert \/ Collect
      <4>1. stored' = found /\ phase \in {"convert", "collect"}
        BY <3>3 DEF Convert, Collect
      <4>2. ToSet(stored') = AllFindings BY <4>1 DEF WInv, FoundOK
      <4>3. ~ Service BY <4>1 DEF WInv, DriverOK, Service
      <4>4. QED BY <4>2, <4>3
    <3>4. QED BY <1>6, <3>1, <3>2, <3>3
  <2>6. AgentsOK BY DEF WInv
  <2>7. QED BY <2>1, <2>2, <2>3, <2>4, <2>5, <2>6, DoneOK
<1>7. CASE LoadProvider \/ FetchDone \/ (DiffFails /\ driver # "shadow")
  <2>1. /\ phase \in {"load", "fetch", "diff"} /\ phase' \in {"start", "diff", "next"}
        /\ driver' = driver /\ stored' = stored
    BY <1>7 DEF LoadProvider, FetchDone, DiffFails, Proceed, agentVars
  <2>2. Outcome = "idle" /\ Outcome' = "idle" BY <2>1 DEF Outcome
  <2>3. Kept' = Kept BY <2>1, <2>2 DEF Kept
  <2>4. QED BY <2>1, <2>2, <2>3, StaysClosed
<1>8. CASE NextSample
  <2>1. /\ phase \in {"counted", "next"} /\ phase' = "diff" /\ driver' = driver
        /\ stored' = <<>>
    BY <1>8 DEF NextSample, Proceed
  <2>2. CASE phase = "counted"
    <3>1. Outcome = "done" /\ Outcome' = "idle" BY <2>1, <2>2 DEF Outcome
    <3>2. QED BY <2>1, <3>1, Empty, AgainOK
  <2>3. CASE phase = "next"
    <3>1. Outcome = "idle" /\ Outcome' = "idle" BY <2>1, <2>3 DEF Outcome
    <3>2. stored = <<>> BY <2>3 DEF WInv, StoredOK
    <3>3. Kept = {} /\ Kept' = {} BY <2>1, <3>2, Empty
    <3>4. QED BY <2>1, <3>1, <3>3, StaysClosed
  <2>4. QED BY <2>1, <2>2, <2>3
<1>9. CASE BenchDone
  <2>1. /\ phase \in {"counted", "next"} /\ driver' = driver /\ stored' = stored
        /\ phase' = IF collected = 0 THEN "failed" ELSE "done"
    BY <1>9 DEF BenchDone, Proceed, agentVars
  <2>2. CASE phase = "counted"
    <3>1. phase' = "done"
      <4>1. collected > 0 BY <2>2 DEF WInv, DriverOK
      <4>2. collected # 0 BY <4>1
      <4>3. QED BY <2>1, <4>2
    <3>2. Outcome = "done" /\ Outcome' = "done" BY <2>2, <3>1 DEF Outcome
    <3>3. Kept' = Kept BY <2>1, <3>2 DEF Kept
    <3>4. UNCHANGED Review!vars
      BY <2>1, <3>2, <3>3, Closed, SameService DEF Review!vars
    <3>5. QED BY <3>4 DEF ContractStep
  <2>3. CASE phase = "next" /\ phase' = "failed"
    <3>1. Outcome = "idle" /\ Outcome' = "failed" BY <2>3 DEF Outcome
    <3>2. stored = <<>> BY <2>3 DEF WInv, StoredOK
    <3>3. Kept = {} /\ Kept' = {} BY <2>1, <3>2, Empty
    <3>4. QED BY <2>1, <3>1, <3>3, FailsOK
  <2>4. CASE phase = "next" /\ phase' = "done"
    <3>1. Outcome = "idle" /\ Outcome' = "done" BY <2>4 DEF Outcome
    <3>2. stored = <<>> BY <2>4 DEF WInv, StoredOK
    <3>3. Kept = {} /\ Kept' = {} BY <2>1, <3>2, Empty
    <3>4. QED BY <2>1, <3>1, <3>3, SkipsOK
  <2>5. QED BY <2>1, <2>2, <2>3, <2>4
<1>10. CASE Score
  <2>1. phase = "score" /\ phase' = "done" /\ stored' = stored /\ driver' = driver
    BY <1>10 DEF Score, Proceed, agentVars
  <2>2. Outcome = "done" /\ Outcome' = "done" BY <2>1 DEF Outcome
  <2>3. Kept' = Kept BY <2>1, <2>2 DEF Kept
  <2>4. UNCHANGED Review!vars
    BY <2>1, <2>2, <2>3, Closed, SameService DEF Review!vars
  <2>5. QED BY <2>4 DEF ContractStep
<1>11. QED
  BY <1>1, <1>2, <1>3, <1>4, <1>5, <1>6, <1>7, <1>8, <1>9, <1>10
     DEF RunStep, ServiceStep, ShadowStep

-----------------------------------------------------------------------------
(* Sums: what SumFunction adds up, in whatever order                         *)

Pick(s) == CHOOSE x \in s : TRUE

SumStep(f, g, s) == IF s = {} THEN 0 ELSE f[Pick(s)] + g[s \ {Pick(s)}]

\* g sums f over the sets of D, as the fold of the library does.
Folds(f, D, g) == g = [s \in D |-> SumStep(f, g, s)]

LEMMA SumDef ==
  ASSUME NEW f
  PROVE  SumFunction(f) = (CHOOSE g : Folds(f, SUBSET DOMAIN f, g))[DOMAIN f]
BY DEF SumFunction, SumFunctionOnSet, FoldFunctionOnSet, MapThenFoldSet, Folds, SumStep, Pick

SmallSets(D, m) == {s \in SUBSET D : IsFiniteSet(s) /\ Cardinality(s) <= m}

LEMMA Picked ==
  ASSUME NEW s, IsFiniteSet(s), s # {}
  PROVE  /\ Pick(s) \in s /\ IsFiniteSet(s \ {Pick(s)})
         /\ Cardinality(s \ {Pick(s)}) = Cardinality(s) - 1
         /\ Cardinality(s) \in Nat \ {0}
<1>1. Pick(s) \in s BY DEF Pick
<1>2. Cardinality(s) \in Nat /\ Cardinality(s) # 0 BY FS_CardinalityType, FS_EmptySet
<1>3. QED BY <1>1, <1>2, FS_RemoveElement

LEMMA FoldExists ==
  ASSUME NEW D, IsFiniteSet(D), NEW f
  PROVE  \E g : Folds(f, SUBSET D, g)
<1> DEFINE n == Cardinality(D)
           T == {m \in 0..n : \E g : Folds(f, SmallSets(D, m), g)}
<1>0. n \in Nat BY FS_CardinalityType
<1>1. 0 \in T
  <2> DEFINE g == [s \in SmallSets(D, 0) |-> 0]
  <2>1. ASSUME NEW s \in SmallSets(D, 0) PROVE s = {}
    <3>1. Cardinality(s) \in Nat /\ Cardinality(s) <= 0 BY FS_CardinalityType DEF SmallSets
    <3>2. QED BY <3>1, FS_EmptySet DEF SmallSets
  <2>2. Folds(f, SmallSets(D, 0), g) BY <2>1 DEF Folds, SumStep
  <2>3. 0 \in 0..n BY <1>0
  <2> HIDE DEF g
  <2>4. QED BY <2>2, <2>3
<1>2. ASSUME NEW m \in 0..n, m < n, m \in T PROVE m + 1 \in T
  <2>1. PICK g : Folds(f, SmallSets(D, m), g) BY <1>2
  <2>2. \A s \in SmallSets(D, m) : g[s] = SumStep(f, g, s) BY <2>1 DEF Folds
  <2> DEFINE h == [s \in SmallSets(D, m+1) |-> SumStep(f, g, s)]
  <2>3. m \in Nat /\ m + 1 \in 0..n BY <1>0, <1>2
  <2>4. ASSUME NEW s \in SmallSets(D, m+1) PROVE SumStep(f, g, s) = SumStep(f, h, s)
    <3>1. CASE s = {} BY <3>1 DEF SumStep
    <3>2. CASE s # {}
      <4> DEFINE r == s \ {Pick(s)}
      <4>1. /\ IsFiniteSet(r) /\ Cardinality(r) = Cardinality(s) - 1 /\ r \in SUBSET D
            /\ Cardinality(s) \in Nat /\ Cardinality(s) <= m + 1
        BY <3>2, Picked DEF SmallSets
      <4>2. r \in SmallSets(D, m) /\ r \in SmallSets(D, m+1) BY <2>3, <4>1 DEF SmallSets
      <4> HIDE DEF r
      <4>3. g[r] = h[r] BY <2>2, <4>2
      <4>4. QED BY <3>2, <4>3 DEF SumStep, r
    <3>3. QED BY <3>1, <3>2
  <2>5. h = [s \in SmallSets(D, m+1) |-> SumStep(f, h, s)] BY <2>4
  <2> HIDE DEF h
  <2>6. Folds(f, SmallSets(D, m+1), h) BY <2>5 DEF Folds
  <2>7. QED BY <2>3, <2>6
<1> HIDE DEF T
<1>3. n \in T
  <2>1. \A m \in 0..n : m \in T BY <1>0, <1>1, <1>2, CountUp
  <2>2. QED BY <1>0, <2>1
<1>4. SmallSets(D, n) = SUBSET D
  <2>1. ASSUME NEW s \in SUBSET D PROVE s \in SmallSets(D, n)
    <3>1. IsFiniteSet(s) /\ Cardinality(s) <= Cardinality(D) BY FS_Subset
    <3>2. QED BY <3>1 DEF SmallSets
  <2>2. QED BY <2>1 DEF SmallSets
<1>5. QED BY <1>3, <1>4 DEF T

\* What a sum is: nothing for no element, and one more summand for one more element.
Sums(f, D, g) ==
  /\ g \in [SUBSET D -> Nat]
  /\ g[{}] = 0
  /\ \A s \in SUBSET D : \A x \in D \ s : g[s \cup {x}] = f[x] + g[s]

LEMMA FoldIsNat ==
  ASSUME NEW D, IsFiniteSet(D), NEW f \in [D -> Nat], NEW g, Folds(f, SUBSET D, g)
  PROVE  g \in [SUBSET D -> Nat]
<1> DEFINE n == Cardinality(D)
           T == {m \in 0..n : \A s \in SmallSets(D, m) : g[s] \in Nat}
<1>0. n \in Nat BY FS_CardinalityType
<1>1. \A s \in SUBSET D : g[s] = SumStep(f, g, s) BY DEF Folds
<1>2. 0 \in T
  <2>1. ASSUME NEW s \in SmallSets(D, 0) PROVE g[s] \in Nat
    <3>1. Cardinality(s) \in Nat /\ Cardinality(s) <= 0 BY FS_CardinalityType DEF SmallSets
    <3>2. s = {} BY <3>1, FS_EmptySet DEF SmallSets
    <3>3. s \in SUBSET D BY DEF SmallSets
    <3>4. g[s] = 0 BY <1>1, <3>2, <3>3 DEF SumStep
    <3>5. QED BY <3>4
  <2>2. QED BY <1>0, <2>1
<1>3. ASSUME NEW m \in 0..n, m < n, m \in T PROVE m + 1 \in T
  <2>1. m \in Nat /\ m + 1 \in 0..n BY <1>0, <1>3
  <2>2. ASSUME NEW s \in SmallSets(D, m+1) PROVE g[s] \in Nat
    <3>0. s \in SUBSET D BY DEF SmallSets
    <3>1. CASE s = {}
      <4>1. g[s] = 0 BY <1>1, <3>0, <3>1 DEF SumStep
      <4>2. QED BY <4>1
    <3>2. CASE s # {}
      <4> DEFINE r == s \ {Pick(s)}
      <4>1. /\ IsFiniteSet(r) /\ Cardinality(r) = Cardinality(s) - 1 /\ r \in SUBSET D
            /\ Cardinality(s) \in Nat /\ Cardinality(s) <= m + 1 /\ Pick(s) \in D
        BY <3>2, Picked DEF SmallSets
      <4>2. r \in SmallSets(D, m) BY <2>1, <4>1 DEF SmallSets
      <4>3. g[s] = f[Pick(s)] + g[r] BY <1>1, <3>2 DEF SumStep, SmallSets
      <4>4. g[r] \in Nat BY <1>3, <4>2
      <4>5. f[Pick(s)] \in Nat BY <4>1
      <4>6. QED BY <4>3, <4>4, <4>5
    <3>3. QED BY <3>1, <3>2
  <2>3. QED BY <2>1, <2>2
<1> HIDE DEF T
<1>4. n \in T
  <2>1. \A m \in 0..n : m \in T BY <1>0, <1>2, <1>3, CountUp
  <2>2. QED BY <1>0, <2>1
<1>5. ASSUME NEW s \in SUBSET D PROVE g[s] \in Nat
  <2>1. IsFiniteSet(s) /\ Cardinality(s) <= Cardinality(D) BY FS_Subset
  <2>2. QED BY <1>4, <2>1 DEF SmallSets, T
<1>6. QED BY <1>5 DEF Folds

\* Whichever element is picked first, the sum is the same.
LEMMA FoldSums ==
  ASSUME NEW D, IsFiniteSet(D), NEW f \in [D -> Nat], NEW g, Folds(f, SUBSET D, g)
  PROVE  Sums(f, D, g)
<1> DEFINE n == Cardinality(D)
           AnyOrder(s) == \A x \in D \ s : g[s \cup {x}] = f[x] + g[s]
           T == {m \in 0..n : \A s \in SmallSets(D, m) : AnyOrder(s)}
<1>0. n \in Nat /\ g \in [SUBSET D -> Nat] BY FS_CardinalityType, FoldIsNat
<1>1. \A s \in SUBSET D : g[s] = SumStep(f, g, s) BY DEF Folds
<1>2. g[{}] = 0
  <2>1. {} \in SUBSET D OBVIOUS
  <2>2. QED BY <1>1, <2>1 DEF SumStep
<1>3. \A s \in SUBSET D : s # {} => g[s] = f[Pick(s)] + g[s \ {Pick(s)}] BY <1>1 DEF SumStep
<1>4. 0 \in T
  <2>1. ASSUME NEW s \in SmallSets(D, 0), NEW x \in D \ s PROVE g[s \cup {x}] = f[x] + g[s]
    <3>1. Cardinality(s) \in Nat /\ Cardinality(s) <= 0 BY FS_CardinalityType DEF SmallSets
    <3>2. s = {} BY <3>1, FS_EmptySet DEF SmallSets
    <3> DEFINE t == s \cup {x}
    <3>3. t = {x} /\ t \in SUBSET D BY <3>2
    <3>4. Pick(t) = x /\ t \ {Pick(t)} = {} BY <3>3 DEF Pick
    <3> HIDE DEF t
    <3>5. g[t] = f[x] + g[{}] BY <1>3, <3>3, <3>4
    <3>6. QED BY <3>2, <3>5 DEF t
  <2>2. \A s \in SmallSets(D, 0) : AnyOrder(s) BY <2>1
  <2>3. 0 \in 0..n BY <1>0
  <2> HIDE DEF AnyOrder
  <2>4. QED BY <2>2, <2>3
<1>5. ASSUME NEW m \in 0..n, m < n, m \in T PROVE m + 1 \in T
  <2>1. m \in Nat /\ m + 1 \in 0..n BY <1>0, <1>5
  <2>2. ASSUME NEW s \in SmallSets(D, m+1), NEW x \in D \ s PROVE g[s \cup {x}] = f[x] + g[s]
    <3> DEFINE t == s \cup {x}
               p == Pick(t)
               r == s \ {p}
    <3>0. s \in SUBSET D /\ IsFiniteSet(s) /\ Cardinality(s) <= m + 1 /\ t \in SUBSET D /\ t # {}
      BY DEF SmallSets
    <3>1. IsFiniteSet(t) BY <3>0, FS_AddElement
    <3>2. p \in t BY <3>0, <3>1, Picked
    <3>3. g[t] = f[p] + g[t \ {p}] BY <1>3, <3>0
    <3>4. CASE p = x
      <4>1. t \ {p} = s BY <3>4
      <4>2. QED BY <3>3, <3>4, <4>1
    <3>5. CASE p # x
      <4>1. p \in s BY <3>2, <3>5
      <4>2. /\ r \in SUBSET D /\ p \in D \ r /\ x \in D \ r
            /\ r \cup {p} = s /\ r \cup {x} = t \ {p}
        BY <3>0, <3>5, <4>1
      <4>3. IsFiniteSet(r) /\ Cardinality(r) = Cardinality(s) - 1 /\ Cardinality(s) \in Nat
        BY <3>0, <4>1, FS_RemoveElement, FS_CardinalityType
      <4>4. r \in SmallSets(D, m) BY <2>1, <3>0, <4>2, <4>3 DEF SmallSets
      <4>5. AnyOrder(r) BY <1>5, <4>4
      <4>6. g[s] = f[p] + g[r] /\ g[t \ {p}] = f[x] + g[r] BY <4>2, <4>5
      <4>7. f[p] \in Nat /\ f[x] \in Nat /\ g[r] \in Nat BY <1>0, <4>2
      <4> HIDE DEF t, p, r
      <4>8. g[t] = f[x] + g[s] BY <3>3, <4>6, <4>7
      <4>9. QED BY <4>8 DEF t
    <3>6. QED BY <3>4, <3>5
  <2>3. QED BY <2>1, <2>2
<1> HIDE DEF T
<1>6. n \in T
  <2>1. \A m \in 0..n : m \in T BY <1>0, <1>4, <1>5, CountUp
  <2>2. QED BY <1>0, <2>1
<1>7. ASSUME NEW s \in SUBSET D PROVE AnyOrder(s)
  <2>1. IsFiniteSet(s) /\ Cardinality(s) <= Cardinality(D) BY FS_Subset
  <2>2. QED BY <1>6, <2>1 DEF SmallSets, T
<1>8. QED BY <1>0, <1>2, <1>7 DEF Sums

LEMMA SumFunctionSums ==
  ASSUME NEW D, IsFiniteSet(D), NEW f \in [D -> Nat]
  PROVE  \E g : Sums(f, D, g) /\ SumFunction(f) = g[D] /\ g[D] \in Nat
<1> DEFINE g == CHOOSE h : Folds(f, SUBSET D, h)
<1>1. Folds(f, SUBSET D, g) BY FoldExists
<1>2. DOMAIN f = D OBVIOUS
<1>3. SumFunction(f) = g[D] BY <1>2, SumDef
<1> HIDE DEF g
<1>4. Sums(f, D, g) BY <1>1, FoldSums
<1>5. g[D] \in Nat BY <1>4 DEF Sums
<1>6. QED BY <1>3, <1>4, <1>5

\* The summands of two sums, paired off one by one.
Paired(A, B, f, h, b) ==
  /\ IsFiniteSet(A) /\ IsFiniteSet(B)
  /\ f \in [A -> Nat] /\ h \in [B -> Nat] /\ b \in [A -> B]
  /\ \A x, y \in A : b[x] = b[y] => x = y
  /\ \A z \in B : \E x \in A : b[x] = z

LEMMA SumLess ==
  ASSUME NEW A, NEW B, NEW f, NEW h, NEW b, Paired(A, B, f, h, b),
         \A x \in A : f[x] <= h[b[x]]
  PROVE  SumFunction(f) <= SumFunction(h)
<1>p. /\ IsFiniteSet(A) /\ IsFiniteSet(B)
      /\ f \in [A -> Nat] /\ h \in [B -> Nat] /\ b \in [A -> B]
      /\ \A x, y \in A : b[x] = b[y] => x = y
      /\ \A z \in B : \E x \in A : b[x] = z
  BY DEF Paired
<1>1. PICK g : Sums(f, A, g) /\ SumFunction(f) = g[A] BY <1>p, SumFunctionSums
<1>2. PICK k : Sums(h, B, k) /\ SumFunction(h) = k[B] BY <1>p, SumFunctionSums
<1> DEFINE n == Cardinality(A)
           Image(s) == {b[x] : x \in s}
           T == {m \in 0..n : \A s \in SUBSET A : Cardinality(s) = m => g[s] <= k[Image(s)]}
<1>0. n \in Nat BY <1>p, FS_CardinalityType
<1>3. \A s \in SUBSET A : IsFiniteSet(s) /\ Cardinality(s) \in Nat
  BY <1>p, FS_Subset, FS_CardinalityType
<1>a. /\ \A s \in SUBSET A : g[s] \in Nat
      /\ \A s \in SUBSET A : \A x \in A \ s : g[s \cup {x}] = f[x] + g[s]
  BY <1>1 DEF Sums
<1>b. /\ \A s \in SUBSET B : k[s] \in Nat
      /\ \A s \in SUBSET B : \A x \in B \ s : k[s \cup {x}] = h[x] + k[s]
  BY <1>2 DEF Sums
<1>4. 0 \in T
  <2>1. ASSUME NEW s \in SUBSET A, Cardinality(s) = 0 PROVE g[s] <= k[Image(s)]
    <3>1. s = {} BY <1>3, <2>1, FS_EmptySet
    <3>2. Image(s) = {} BY <3>1
    <3>3. g[s] = 0 /\ k[Image(s)] = 0 BY <1>1, <1>2, <3>1, <3>2 DEF Sums
    <3>4. QED BY <3>3
  <2>2. QED BY <1>0, <2>1
<1>5. ASSUME NEW m \in 0..n, m < n, m \in T PROVE m + 1 \in T
  <2>1. m \in Nat /\ m + 1 \in 0..n BY <1>0, <1>5
  <2>2. ASSUME NEW s \in SUBSET A, Cardinality(s) = m + 1 PROVE g[s] <= k[Image(s)]
    <3>1. IsFiniteSet(s) /\ s # {} BY <1>3, <2>1, <2>2, FS_EmptySet
    <3>2. PICK x \in s : TRUE BY <3>1
    <3> DEFINE r == s \ {x}
               j == Image(r)
    <3>3. r \in SUBSET A /\ x \in A \ r /\ r \cup {x} = s /\ Cardinality(r) = m
      <4>1. Cardinality(r) = Cardinality(s) - 1 BY <3>1, FS_RemoveElement
      <4>2. QED BY <2>1, <2>2, <4>1
    <3>4. j \in SUBSET B /\ b[x] \in B \ j /\ j \cup {b[x]} = Image(s) BY <1>p, <3>3
    <3>5. g[r] <= k[j] BY <1>5, <3>3
    <3>8. f[x] \in Nat /\ h[b[x]] \in Nat /\ f[x] <= h[b[x]] BY <1>p, <3>3, <3>4
    <3> HIDE DEF r, j, Image
    <3>6. g[s] = f[x] + g[r] /\ g[r] \in Nat
      <4>1. g[r \cup {x}] = f[x] + g[r] /\ g[r] \in Nat BY <1>a, <3>3
      <4>2. QED BY <3>3, <4>1
    <3>7. k[Image(s)] = h[b[x]] + k[j] /\ k[j] \in Nat
      <4>1. k[j \cup {b[x]}] = h[b[x]] + k[j] /\ k[j] \in Nat BY <1>b, <3>4
      <4>2. QED BY <3>4, <4>1
    <3>9. QED BY <3>5, <3>6, <3>7, <3>8
  <2>3. QED BY <2>1, <2>2
<1> HIDE DEF T
<1>6. n \in T
  <2>1. \A m \in 0..n : m \in T BY <1>0, <1>4, <1>5, CountUp
  <2>2. QED BY <1>0, <2>1
<1>7. Image(A) = B BY <1>p
<1>8. g[A] <= k[B] BY <1>6, <1>7 DEF T
<1>9. QED BY <1>1, <1>2, <1>8

\* The same, paired off the other way.
LEMMA SumMore ==
  ASSUME NEW A, NEW B, NEW f, NEW h, NEW b, Paired(A, B, f, h, b),
         \A x \in A : h[b[x]] <= f[x]
  PROVE  SumFunction(h) <= SumFunction(f)
<1> DEFINE c == [z \in B |-> CHOOSE x \in A : b[x] = z]
<1>p. /\ IsFiniteSet(A) /\ IsFiniteSet(B)
      /\ f \in [A -> Nat] /\ h \in [B -> Nat] /\ b \in [A -> B]
      /\ \A x, y \in A : b[x] = b[y] => x = y
      /\ \A z \in B : \E x \in A : b[x] = z
  BY DEF Paired
<1>1. \A z \in B : c[z] \in A /\ b[c[z]] = z BY <1>p
<1>2. c \in [B -> A] BY <1>1
<1>3. \A x \in A : c[b[x]] = x BY <1>p, <1>1
<1> HIDE DEF c
<1>4. \A y, z \in B : c[y] = c[z] => y = z BY <1>1
<1>5. \A x \in A : \E z \in B : c[z] = x BY <1>p, <1>3
<1>6. \A z \in B : h[z] <= f[c[z]] BY <1>1
<1>7. Paired(B, A, h, f, c) BY <1>p, <1>2, <1>4, <1>5 DEF Paired
<1>8. QED BY <1>6, <1>7, SumLess

-----------------------------------------------------------------------------
(* compute_score                                                             *)

LEMMA SameSum == \A f : Scoring!SumFunction(f) = SumFunction(f)
BY DEF SumFunction, SumFunctionOnSet, FoldFunctionOnSet, MapThenFoldSet, Scoring!SumFunction,
   Scoring!SumFunctionOnSet, Scoring!FoldFunctionOnSet, Scoring!MapThenFoldSet

Points(f) == Scoring!Deduction(f)

LEMMA PointsRange ==
  ASSUME NEW f, f.conf \in Nat
  PROVE  Points(f) \in 0..500
<1>1. Scoring!Lesser(f.conf, 10) \in 0..10 BY DEF Scoring!Lesser
<1>2. Scoring!BaseDeduction(f.sev) \in {50, 20, 10, 4, 1} BY DEF Scoring!BaseDeduction
<1> DEFINE c == Scoring!Lesser(f.conf, 10)
           d == Scoring!BaseDeduction(f.sev)
<1>3. c \in 0..10 /\ d \in {50, 20, 10, 4, 1} BY <1>1, <1>2
<1>4. Points(f) = d * c BY DEF Points, Scoring!Deduction
<1> HIDE DEF c, d
<1>5. d * c \in 0..500
  <2>1. CASE d = 50 BY <1>3, <2>1
  <2>2. CASE d = 20 BY <1>3, <2>2
  <2>3. CASE d = 10 BY <1>3, <2>3
  <2>4. CASE d = 4 BY <1>3, <2>4
  <2>5. CASE d = 1 BY <1>3, <2>5
  <2>6. QED BY <1>3, <2>1, <2>2, <2>3, <2>4, <2>5
<1>6. QED BY <1>4, <1>5

\* A list of n findings as compute_score sees them.
List(F, n) == n \in Nat /\ DOMAIN F = 1..n /\ \A i \in 1..n : F[i].conf \in Nat

CountedOf(F, cat) == {j \in Scoring!Counted(F) : F[j].cat = cat}

LEMMA LossIsSum ==
  ASSUME NEW F, NEW n, List(F, n), NEW cat
  PROVE  /\ IsFiniteSet(CountedOf(F, cat)) /\ CountedOf(F, cat) \subseteq 1..n
         /\ [i \in CountedOf(F, cat) |-> Points(F[i])] \in [CountedOf(F, cat) -> Nat]
         /\ Scoring!Loss(F, cat) = SumFunction([i \in CountedOf(F, cat) |-> Points(F[i])])
         /\ Scoring!Loss(F, cat) \in Nat
<1> DEFINE A == CountedOf(F, cat)
           f == [i \in A |-> Points(F[i])]
<1>1. A \subseteq 1..n BY DEF CountedOf, Scoring!Counted, List
<1>2. IsFiniteSet(1..n) BY FS_Interval DEF List
<1>3. IsFiniteSet(A) BY <1>1, <1>2, FS_Subset
<1>4. f \in [A -> Nat]
  <2>1. ASSUME NEW i \in A PROVE Points(F[i]) \in Nat
    <3>1. F[i].conf \in Nat BY <1>1 DEF List
    <3>2. Points(F[i]) \in 0..500 BY <3>1, PointsRange
    <3>3. QED BY <3>2
  <2>2. QED BY <2>1
<1>5. Scoring!Loss(F, cat) = SumFunction(f)
  BY SameSum DEF Scoring!Loss, CountedOf, Points
<1> HIDE DEF A, f
<1>6. SumFunction(f) \in Nat BY <1>3, <1>4, SumFunctionSums
<1>7. QED BY <1>1, <1>3, <1>4, <1>5, <1>6 DEF A, f

LEMMA TotalLossIsSum ==
  ASSUME NEW F, NEW n, List(F, n)
  PROVE  LET C == Scoring!Categories(F)
             f == [cat \in C |-> Scoring!CappedLoss(F, cat)]
         IN  /\ C = {F[i].cat : i \in 1..n} /\ IsFiniteSet(C)
             /\ f \in [C -> Nat]
             /\ Scoring!TotalLoss(F) = SumFunction(f)
             /\ Scoring!TotalLoss(F) \in Nat
<1> DEFINE C == Scoring!Categories(F)
           f == [cat \in C |-> Scoring!CappedLoss(F, cat)]
<1>1. C = {F[i].cat : i \in 1..n} BY DEF Scoring!Categories, List
<1>2. IsFiniteSet(C)
  <2> DEFINE h == [i \in 1..n |-> F[i].cat]
  <2>1. IsFiniteSet(1..n) BY FS_Interval DEF List
  <2>2. h \in Surjection(1..n, C)
    <3>1. h \in [1..n -> C] /\ \A c \in C : \E i \in 1..n : h[i] = c BY <1>1
    <3>2. QED BY <3>1 DEF Surjection
  <2> HIDE DEF h, C
  <2>3. QED BY <2>1, <2>2, FS_Surjection
<1>3. f \in [C -> Nat]
  <2>1. ASSUME NEW cat PROVE Scoring!CappedLoss(F, cat) \in Nat
    <3>1. Scoring!Loss(F, cat) \in Nat BY LossIsSum
    <3>2. QED BY <3>1 DEF Scoring!CappedLoss, Scoring!Lesser, Scoring!CategoryCap
  <2>2. QED BY <2>1
<1>4. Scoring!TotalLoss(F) = SumFunction(f) BY SameSum DEF Scoring!TotalLoss
<1> HIDE DEF C, f
<1>5. SumFunction(f) \in Nat BY <1>2, <1>3, SumFunctionSums
<1>6. QED BY <1>1, <1>2, <1>3, <1>4, <1>5 DEF C, f

LEMMA ScoreRange ==
  ASSUME NEW F, NEW n, List(F, n)
  PROVE  Scoring!compute_score(F) \in 0..Scoring!Perfect
<1>1. Scoring!TotalLoss(F) \in Nat BY TotalLossIsSum
<1>2. QED BY <1>1 DEF Scoring!compute_score, Scoring!Lesser, Scoring!Perfect

\* A dedupe key is of one category.
KeysAgree(F, n) == \A i, j \in 1..n : F[i].dedupe = F[j].dedupe => F[i].cat = F[j].cat

KeysOf(S, cat) == {f.dedupe : f \in {g \in S : g.cat = cat}}

\* The findings that count for a category and its dedupe keys go together one by one.
LEMMA OnePerKey ==
  ASSUME NEW F, NEW n, List(F, n), KeysAgree(F, n), NEW cat,
         NEW S, S = {F[i] : i \in 1..n},
         NEW b, b = [i \in CountedOf(F, cat) |-> F[i].dedupe]
  PROVE  /\ b \in [CountedOf(F, cat) -> KeysOf(S, cat)]
         /\ \A x, y \in CountedOf(F, cat) : b[x] = b[y] => x = y
         /\ \A z \in KeysOf(S, cat) : \E x \in CountedOf(F, cat) : b[x] = z
         /\ IsFiniteSet(KeysOf(S, cat))
<1> DEFINE A == CountedOf(F, cat)
           K == KeysOf(S, cat)
<1>1. /\ A \subseteq 1..n /\ n \in Nat /\ \A x \in A : F[x].cat = cat
      /\ \A x \in A : \A y \in 1..(x-1) : F[y].dedupe # F[x].dedupe
  BY DEF CountedOf, Scoring!Counted, List
<1>2. b \in [A -> K]
  <2>1. \A x \in A : F[x] \in S /\ F[x].cat = cat BY <1>1
  <2>2. \A x \in A : F[x].dedupe \in K BY <2>1 DEF KeysOf
  <2> HIDE DEF A, K
  <2>3. QED BY <2>2 DEF A
<1>3. ASSUME NEW x \in A, NEW y \in A, b[x] = b[y] PROVE x = y
  <2>1. x \in 1..n /\ y \in 1..n /\ F[x].dedupe = F[y].dedupe BY <1>1, <1>3
  <2>2. ~ (x < y)
    <3>1. SUFFICES ASSUME x < y PROVE FALSE OBVIOUS
    <3>2. x \in 1..(y-1) BY <1>1, <2>1, <3>1
    <3>3. QED BY <1>1, <2>1, <3>2
  <2>3. ~ (y < x)
    <3>1. SUFFICES ASSUME y < x PROVE FALSE OBVIOUS
    <3>2. y \in 1..(x-1) BY <1>1, <2>1, <3>1
    <3>3. QED BY <1>1, <2>1, <3>2
  <2>4. QED BY <1>1, <2>1, <2>2, <2>3
<1>4. ASSUME NEW z \in K PROVE \E x \in A : b[x] = z
  <2>1. PICK i \in 1..n : F[i].cat = cat /\ F[i].dedupe = z BY DEF KeysOf
  <2> DEFINE T == {j \in 1..n : F[j].dedupe = z}
  <2>2. T # {} /\ T \subseteq Nat BY <1>1, <2>1
  <2> HIDE DEF T
  <2>3. PICK j \in T : \A l \in T : j <= l BY <2>2, Least
  <2>4. j \in 1..n /\ F[j].dedupe = z BY DEF T
  <2>5. F[j].cat = cat BY <2>1, <2>4 DEF KeysAgree
  <2>6. ASSUME NEW l \in 1..(j-1) PROVE F[l].dedupe # F[j].dedupe
    <3>1. l \in 1..n /\ l < j BY <1>1, <2>4
    <3>2. l \notin T BY <1>1, <2>3, <2>4, <3>1
    <3>3. QED BY <2>4, <3>1, <3>2 DEF T
  <2>7. j \in A BY <2>4, <2>5, <2>6 DEF CountedOf, Scoring!Counted, List
  <2>8. b[j] = z BY <2>4, <2>7
  <2>9. QED BY <2>7, <2>8
<1>5. IsFiniteSet(K)
  <2>1. IsFiniteSet(A) BY LossIsSum
  <2>2. b \in Surjection(A, K) BY <1>2, <1>4 DEF Surjection
  <2> HIDE DEF A, K
  <2>3. QED BY <2>1, <2>2, FS_Surjection
<1>6. QED BY <1>2, <1>3, <1>4, <1>5

\* A bound H of the points of every key bounds the loss of the category.
LEMMA LossBounds ==
  ASSUME NEW F, NEW n, List(F, n), KeysAgree(F, n), NEW cat,
         NEW S, S = {F[i] : i \in 1..n},
         NEW H \in [KeysOf(S, cat) -> Nat]
  PROVE  /\ SumFunction(H) \in Nat
         /\ (\A f \in S : f.cat = cat => Points(f) <= H[f.dedupe]) =>
              Scoring!Loss(F, cat) <= SumFunction(H)
         /\ (\A f \in S : f.cat = cat => H[f.dedupe] <= Points(f)) =>
              SumFunction(H) <= Scoring!Loss(F, cat)
<1> DEFINE A == CountedOf(F, cat)
           K == KeysOf(S, cat)
           b == [i \in A |-> F[i].dedupe]
           f == [i \in A |-> Points(F[i])]
<1>1. /\ b \in [A -> K]
      /\ \A x, y \in A : b[x] = b[y] => x = y
      /\ \A z \in K : \E x \in A : b[x] = z
      /\ IsFiniteSet(K)
  <2>1. b = [i \in CountedOf(F, cat) |-> F[i].dedupe] OBVIOUS
  <2> HIDE DEF b
  <2>2. QED BY <2>1, OnePerKey
<1>2. /\ IsFiniteSet(A) /\ A \subseteq 1..n /\ f \in [A -> Nat]
      /\ Scoring!Loss(F, cat) = SumFunction(f)
  BY LossIsSum
<1>3. \A x \in A : F[x] \in S /\ F[x].cat = cat /\ b[x] = F[x].dedupe /\ f[x] = Points(F[x])
  BY <1>2 DEF CountedOf
<1>4. H \in [K -> Nat] OBVIOUS
<1> HIDE DEF A, K, b, f
<1>5. SumFunction(H) \in Nat BY <1>1, <1>4, SumFunctionSums
<1>p. Paired(A, K, f, H, b) BY <1>1, <1>2, <1>4 DEF Paired
<1>6. ASSUME \A g \in S : g.cat = cat => Points(g) <= H[g.dedupe]
      PROVE  SumFunction(f) <= SumFunction(H)
  <2>1. \A x \in A : f[x] <= H[b[x]] BY <1>3, <1>6
  <2>2. QED BY <1>p, <2>1, SumLess
<1>7. ASSUME \A g \in S : g.cat = cat => H[g.dedupe] <= Points(g)
      PROVE  SumFunction(H) <= SumFunction(f)
  <2>1. \A x \in A : H[b[x]] <= f[x] BY <1>3, <1>7
  <2>2. QED BY <1>p, <2>1, SumMore
<1>8. QED BY <1>2, <1>5, <1>6, <1>7

LEMMA MaxOf ==
  ASSUME NEW T, T \subseteq 0..500, T # {}
  PROVE  Max(T) \in T /\ \A y \in T : y <= Max(T)
<1> DEFINE U == {v \in 0..500 : 500 - v \in T}
<1>1. ASSUME NEW x \in T PROVE 500 - x \in U
  <2>1. x \in 0..500 OBVIOUS
  <2>2. 500 - x \in 0..500 /\ 500 - (500 - x) = x BY <2>1
  <2>3. QED BY <2>2
<1>2. U \subseteq Nat /\ U # {}
  <2>1. PICK x \in T : TRUE OBVIOUS
  <2>2. 500 - x \in U BY <1>1
  <2>3. \A v \in U : v \in 0..500 OBVIOUS
  <2> HIDE DEF U
  <2>4. QED BY <2>2, <2>3
<1> HIDE DEF U
<1>3. PICK u \in U : \A v \in U : u <= v BY <1>2, Least
<1>4. u \in 0..500 /\ 500 - u \in T BY DEF U
<1>7. ASSUME NEW y \in T PROVE 500 - u >= y
  <2>1. u <= 500 - y BY <1>1, <1>3
  <2>2. y \in 0..500 OBVIOUS
  <2>3. QED BY <1>4, <2>1, <2>2
<1>5. Max(T) \in T /\ \A y \in T : Max(T) >= y BY <1>4, <1>7 DEF Max
<1>6. ASSUME NEW y \in T PROVE y <= Max(T)
  <2>1. Max(T) \in 0..500 /\ y \in 0..500 /\ Max(T) >= y BY <1>5
  <2>2. QED BY <2>1
<1>8. QED BY <1>5, <1>6

LEMMA MinOf ==
  ASSUME NEW T, T \subseteq Nat, T # {}
  PROVE  Min(T) \in T /\ \A y \in T : Min(T) <= y
<1>1. \E x \in T : \A y \in T : x <= y BY Least
<1>2. QED BY <1>1 DEF Min

\* What the findings of a dedupe key may cost.
KeyPoints(S, key) == {Points(f) : f \in {g \in S : g.dedupe = key}}

Heaviest(S, cat) == [key \in KeysOf(S, cat) |-> Max(KeyPoints(S, key))]
Lightest(S, cat) == [key \in KeysOf(S, cat) |-> Min(KeyPoints(S, key))]

LEMMA KeyPointsRange ==
  ASSUME NEW S, \A f \in S : f.conf \in Nat, NEW cat, NEW key \in KeysOf(S, cat)
  PROVE  KeyPoints(S, key) # {} /\ KeyPoints(S, key) \subseteq 0..500
<1>1. ASSUME NEW f \in S PROVE Points(f) \in 0..500 BY PointsRange
<1>2. PICK f \in S : f.dedupe = key BY DEF KeysOf
<1>3. Points(f) \in KeyPoints(S, key) BY <1>2 DEF KeyPoints
<1>4. QED BY <1>1, <1>3 DEF KeyPoints

LEMMA HeaviestBounds ==
  ASSUME NEW S, \A f \in S : f.conf \in Nat, NEW cat
  PROVE  /\ Heaviest(S, cat) \in [KeysOf(S, cat) -> Nat]
         /\ Lightest(S, cat) \in [KeysOf(S, cat) -> Nat]
         /\ \A f \in S : f.cat = cat => Points(f) <= Heaviest(S, cat)[f.dedupe]
         /\ \A f \in S : f.cat = cat => Lightest(S, cat)[f.dedupe] <= Points(f)
<1>1. ASSUME NEW key \in KeysOf(S, cat)
      PROVE  /\ Max(KeyPoints(S, key)) \in Nat /\ Min(KeyPoints(S, key)) \in Nat
             /\ \A y \in KeyPoints(S, key) : y <= Max(KeyPoints(S, key))
             /\ \A y \in KeyPoints(S, key) : Min(KeyPoints(S, key)) <= y
  <2> DEFINE T == KeyPoints(S, key)
  <2>1. T # {} /\ T \subseteq 0..500 BY KeyPointsRange
  <2>2. T \subseteq Nat BY <2>1
  <2> HIDE DEF T
  <2>3. Max(T) \in T /\ \A y \in T : y <= Max(T) BY <2>1, MaxOf
  <2>4. Min(T) \in T /\ \A y \in T : Min(T) <= y BY <2>1, <2>2, MinOf
  <2>5. Max(T) \in Nat /\ Min(T) \in Nat BY <2>2, <2>3, <2>4
  <2>6. QED BY <2>3, <2>4, <2>5 DEF T
<1>2. /\ Heaviest(S, cat) \in [KeysOf(S, cat) -> Nat]
      /\ Lightest(S, cat) \in [KeysOf(S, cat) -> Nat]
  BY <1>1 DEF Heaviest, Lightest
<1>3. ASSUME NEW f \in S, f.cat = cat
      PROVE  Points(f) <= Heaviest(S, cat)[f.dedupe] /\ Lightest(S, cat)[f.dedupe] <= Points(f)
  <2>1. f.dedupe \in KeysOf(S, cat) /\ Points(f) \in KeyPoints(S, f.dedupe)
    BY <1>3 DEF KeysOf, KeyPoints
  <2>2. /\ Heaviest(S, cat)[f.dedupe] = Max(KeyPoints(S, f.dedupe))
        /\ Lightest(S, cat)[f.dedupe] = Min(KeyPoints(S, f.dedupe))
    BY <2>1 DEF Heaviest, Lightest
  <2>3. QED BY <1>1, <2>1, <2>2
<1>4. QED BY <1>2, <1>3

\* The most and the least that each category may cost.
Worst(S)  == [cat \in {f.cat : f \in S} |-> Min({700, SumFunction(Heaviest(S, cat))})]
Mildest(S) == [cat \in {f.cat : f \in S} |-> Min({700, SumFunction(Lightest(S, cat))})]

Left(B) == IF SumFunction(B) > 2000 THEN 0 ELSE 2000 - SumFunction(B)

LEMMA Capped ==
  ASSUME NEW x \in Nat
  PROVE  Min({700, x}) \in Nat /\ Min({700, x}) = Scoring!Lesser(Scoring!CategoryCap, x)
<1> DEFINE T == {700, x}
<1>1. T \subseteq Nat /\ T # {} OBVIOUS
<1>2. Min(T) \in T /\ \A y \in T : Min(T) <= y
  <2> HIDE DEF T
  <2>1. QED BY <1>1, MinOf
<1>3. Min(T) \in {700, x} /\ Min(T) <= 700 /\ Min(T) <= x BY <1>2
<1> HIDE DEF T
<1>4. Min(T) \in Nat /\ Min(T) = Scoring!Lesser(Scoring!CategoryCap, x)
  BY <1>3 DEF Scoring!Lesser, Scoring!CategoryCap
<1>5. QED BY <1>4 DEF T

LEMMA ScoreBounds ==
  ASSUME NEW F, NEW n, List(F, n), KeysAgree(F, n), NEW S, S = {F[i] : i \in 1..n}
  PROVE  /\ Left(Worst(S)) <= Scoring!compute_score(F)
         /\ Scoring!compute_score(F) <= Left(Mildest(S))
<1> DEFINE C == Scoring!Categories(F)
           loss == [cat \in C |-> Scoring!CappedLoss(F, cat)]
           id == [cat \in C |-> cat]
           worst == Worst(S)
           mild == Mildest(S)
<1>1. /\ C = {F[i].cat : i \in 1..n} /\ IsFiniteSet(C) /\ loss \in [C -> Nat]
      /\ Scoring!TotalLoss(F) = SumFunction(loss) /\ Scoring!TotalLoss(F) \in Nat
  BY TotalLossIsSum
<1>2. C = {f.cat : f \in S} BY <1>1
<1>3. \A f \in S : f.conf \in Nat BY DEF List
<1>4. ASSUME NEW cat \in C
      PROVE  /\ worst[cat] \in Nat /\ mild[cat] \in Nat
             /\ loss[cat] <= worst[cat] /\ mild[cat] <= loss[cat]
  <2> DEFINE l == Scoring!Loss(F, cat)
             w == SumFunction(Heaviest(S, cat))
             m == SumFunction(Lightest(S, cat))
  <2>1. l \in Nat BY LossIsSum
  <2>2. w \in Nat /\ l <= w
    <3> DEFINE H == Heaviest(S, cat)
    <3>1. H \in [KeysOf(S, cat) -> Nat] /\ \A f \in S : f.cat = cat => Points(f) <= H[f.dedupe]
      BY <1>3, HeaviestBounds
    <3> HIDE DEF H
    <3>2. SumFunction(H) \in Nat /\ l <= SumFunction(H) BY <3>1, LossBounds
    <3>3. QED BY <3>2 DEF H
  <2>3. m \in Nat /\ m <= l
    <3> DEFINE H == Lightest(S, cat)
    <3>1. H \in [KeysOf(S, cat) -> Nat] /\ \A f \in S : f.cat = cat => H[f.dedupe] <= Points(f)
      BY <1>3, HeaviestBounds
    <3> HIDE DEF H
    <3>2. SumFunction(H) \in Nat /\ SumFunction(H) <= l BY <3>1, LossBounds
    <3>3. QED BY <3>2 DEF H
  <2>4. /\ worst[cat] = Min({700, w}) /\ mild[cat] = Min({700, m})
        /\ loss[cat] = Scoring!Lesser(Scoring!CategoryCap, l)
    BY <1>2 DEF Worst, Mildest, Scoring!CappedLoss
  <2> HIDE DEF l, w, m
  <2>5. /\ worst[cat] = Scoring!Lesser(Scoring!CategoryCap, w)
        /\ mild[cat] = Scoring!Lesser(Scoring!CategoryCap, m)
    BY <2>2, <2>3, <2>4, Capped
  <2> HIDE DEF worst, mild, loss
  <2>6. QED BY <2>1, <2>2, <2>3, <2>4, <2>5 DEF Scoring!Lesser, Scoring!CategoryCap
<1>5. worst \in [C -> Nat] /\ mild \in [C -> Nat]
  <2>1. worst = [cat \in C |-> worst[cat]] /\ mild = [cat \in C |-> mild[cat]]
    BY <1>2 DEF Worst, Mildest
  <2> HIDE DEF worst, mild, C
  <2>2. QED BY <1>4, <2>1
<1>6. id \in [C -> C] /\ \A x \in C : id[x] = x OBVIOUS
<1> HIDE DEF C, loss, id, worst, mild
<1>7. Paired(C, C, loss, worst, id) /\ Paired(C, C, loss, mild, id)
  BY <1>1, <1>5, <1>6 DEF Paired
<1>8. SumFunction(loss) <= SumFunction(worst)
  <2>1. \A x \in C : loss[x] <= worst[id[x]] BY <1>4, <1>6
  <2>2. QED BY <1>7, <2>1, SumLess
<1>9. SumFunction(mild) <= SumFunction(loss)
  <2>1. \A x \in C : mild[id[x]] <= loss[x] BY <1>4, <1>6
  <2>2. QED BY <1>7, <2>1, SumMore
<1>10. SumFunction(worst) \in Nat /\ SumFunction(mild) \in Nat
  BY <1>1, <1>5, SumFunctionSums
<1> DEFINE t == Scoring!TotalLoss(F)
<1>11. t \in Nat /\ t = SumFunction(loss) BY <1>1
<1>12. Scoring!compute_score(F) = 2000 - IF 2000 <= t THEN 2000 ELSE t
  BY DEF Scoring!compute_score, Scoring!Lesser, Scoring!Perfect
<1> HIDE DEF t
<1>13. Left(worst) <= Scoring!compute_score(F) /\ Scoring!compute_score(F) <= Left(mild)
  BY <1>8, <1>9, <1>10, <1>11, <1>12 DEF Left
<1>14. QED BY <1>13 DEF worst, mild

-----------------------------------------------------------------------------
(* The score of a run                                                        *)

\* Numbers are positions, and the script scores its findings by them.
NumbersOK ==
  /\ \A i \in DOMAIN found : found[i].id = i
  /\ ~ Service => \A i \in DOMAIN stored : stored[i].id = i

ScoreOK ==
  /\ score \in 0..Scoring!Perfect \cup {NoScore}
  /\ score # NoScore => phase = "done" /\ ScoreFor(Max) <= score /\ score <= ScoreFor(Min)

LEMMA ScorableConf ==
  ASSUME NEW k \in NumberedFinding, k.finding.conf # "text"
  PROVE  Scorable(k).conf \in Nat
<1> DEFINE c == Default(k.finding.conf, "usual")
<1>1. k.finding.conf \in {"none", "half", "usual", "full", "over", "absent", "text"}
  BY DEF NumberedFinding, RawFinding
<1>2. c \in {"none", "half", "usual", "full", "over"} BY <1>1 DEF Default
<1>3. Scorable(k).conf = Tenths[c] BY DEF Scorable
<1> HIDE DEF c
<1>4. Tenths[c] \in Nat
  <2>1. CASE c = "none" BY <2>1 DEF Tenths
  <2>2. CASE c = "half" BY <2>2 DEF Tenths
  <2>3. CASE c = "usual" BY <2>3 DEF Tenths
  <2>4. CASE c = "full" BY <2>4 DEF Tenths
  <2>5. CASE c = "over" BY <2>5 DEF Tenths
  <2>6. QED BY <1>2, <2>1, <2>2, <2>3, <2>4, <2>5
<1>5. QED BY <1>3, <1>4

\* Findings that share a dedupe key share their category.
LEMMA KeyDecides ==
  ASSUME NumbersOK, NEW x \in ToSet(stored), NEW y \in ToSet(stored),
         Scorable(x).dedupe = Scorable(y).dedupe
  PROVE  Scorable(x).cat = Scorable(y).cat
<1>1. Scorable(x).dedupe = DedupeKey(x) /\ Scorable(y).dedupe = DedupeKey(y)
      /\ Scorable(x).cat = Default(x.finding.cat, "unknown")
      /\ Scorable(y).cat = Default(y.finding.cat, "unknown")
  BY DEF Scorable
<1>2. CASE Service
  <2> DEFINE a == x.finding.at  b == x.finding.cat  c == y.finding.at  d == y.finding.cat
  <2>0. DedupeKey(x) = <<a, b>> /\ DedupeKey(y) = <<c, d>> BY <1>2 DEF DedupeKey
  <2> HIDE DEF a, b, c, d
  <2>3. b = d
    <3>1. <<a, b>> = <<c, d>> BY <1>1, <2>0
    <3>2. QED BY <3>1
  <2>1. x.finding.cat = y.finding.cat BY <2>3 DEF b, d
  <2>2. QED BY <1>1, <2>1
<1>3. CASE ~ Service
  <2>1. x.id = y.id BY <1>1, <1>3 DEF DedupeKey
  <2>2. PICK i \in DOMAIN stored : x = stored[i] BY DEF ToSet
  <2>3. PICK j \in DOMAIN stored : y = stored[j] BY DEF ToSet
  <2>4. x = y BY <1>3, <2>1, <2>2, <2>3 DEF NumbersOK
  <2>5. QED BY <2>4
<1>4. QED BY <1>2, <1>3

\* Every order the findings are listed in has them all.
LEMMA OrdersAreComplete ==
  ASSUME stored \in Seq(NumberedFinding), NEW order \in Orders
  PROVE  \E n \in Nat : DOMAIN order = 1..n /\ {order[i] : i \in 1..n} = ToSet(stored)
<1>1. Len(stored) \in Nat /\ DOMAIN stored = 1..Len(stored) BY LenProperties
<1>2. CASE ~ Service
  <2>1. order = stored BY <1>2 DEF Orders
  <2>2. QED BY <1>1, <2>1 DEF ToSet
<1>3. CASE Service
  <2> DEFINE T == ToSet(stored)
             n == Cardinality(T)
             D == 1..n
  <2>1. IsFiniteSet(T)
    <3>1. stored \in Surjection(1..Len(stored), T)
      <4>1. stored = [i \in 1..Len(stored) |-> stored[i]] BY LenProperties
      <4>2. T = {stored[i] : i \in 1..Len(stored)} BY <1>1 DEF ToSet
      <4> HIDE DEF T
      <4>3. stored \in [1..Len(stored) -> T] BY <4>1, <4>2
      <4>4. QED BY <4>2, <4>3 DEF Surjection
    <3>2. IsFiniteSet(1..Len(stored)) BY <1>1, FS_Interval
    <3> HIDE DEF T
    <3>3. QED BY <3>1, <3>2, FS_Surjection
  <2>2. n \in Nat BY <2>1, FS_CardinalityType
  <2>3. order \in [D -> T] /\ \A i, j \in D : i # j => order[i] # order[j]
    BY <1>3 DEF Orders, SetToSeqs
  <2>4. IsFiniteSet(D) /\ Cardinality(D) = n
    <3>1. 1 \in Int /\ n \in Int BY <2>2
    <3> HIDE DEF n
    <3>2. IsFiniteSet(D) /\ Cardinality(D) = IF 1 > n THEN 0 ELSE n - 1 + 1
      BY <3>1, FS_Interval
    <3>3. QED BY <2>2, <3>2
  <2> HIDE DEF T, n, D
  <2>5. order \in Injection(D, T) BY <2>3 DEF Injection, IsInjective
  <2>6. order \in Surjection(D, T) BY <2>1, <2>4, <2>5, FS_Injection DEF n
  <2>7. \A t \in T : \E i \in D : order[i] = t BY <2>6 DEF Surjection
  <2>8. {order[i] : i \in D} = T BY <2>3, <2>7
  <2>9. DOMAIN order = D BY <2>3
  <2>10. QED BY <2>2, <2>8, <2>9 DEF D, T
<1>4. QED BY <1>2, <1>3

\* ScoreFor, as the lemmas on scoring put it.
LEMMA ScoreForIs ==
  /\ ScoreFor(Max) = Left(Worst(ToSet(Findings)))
  /\ ScoreFor(Min) = Left(Mildest(ToSet(Findings)))
BY DEF ScoreFor, LossOf, Left, Worst, Mildest, Heaviest, Lightest, KeyPoints, KeysOf, Points

LEMMA FindingsSet == ToSet(Findings) = {Scorable(k) : k \in ToSet(stored)}
BY DEF Findings, ToSet

LEMMA ScoreOfOrder ==
  ASSUME WInv, NumbersOK, phase = "score", NEW order \in Orders
  PROVE  LET v == Scoring!compute_score(Ordered(order)) IN
         /\ v \in 0..Scoring!Perfect
         /\ ScoreFor(Max) <= v /\ v <= ScoreFor(Min)
<1> DEFINE F == Ordered(order)
           S == ToSet(Findings)
<1>0. /\ stored \in Seq(NumberedFinding)
      /\ \A i \in DOMAIN stored : stored[i].finding.conf # "text"
  BY DEF WInv, StoredOK
<1>1. PICK n \in Nat : DOMAIN order = 1..n /\ {order[i] : i \in 1..n} = ToSet(stored)
  BY <1>0, OrdersAreComplete
<1>2. ASSUME NEW k \in ToSet(stored) PROVE k \in NumberedFinding /\ k.finding.conf # "text"
  <2>1. PICK i \in DOMAIN stored : k = stored[i] BY DEF ToSet
  <2>2. Len(stored) \in Nat /\ DOMAIN stored = 1..Len(stored) BY <1>0, LenProperties
  <2>3. stored[i] \in NumberedFinding BY <1>0, <2>2, ElementOfSeq
  <2>4. QED BY <1>0, <2>1, <2>3
<1>3. /\ DOMAIN F = 1..n /\ \A i \in 1..n : F[i] = Scorable(order[i])
  BY <1>1 DEF Ordered
<1>4. \A i \in 1..n : order[i] \in ToSet(stored) BY <1>1
<1>5. S = {F[i] : i \in 1..n}
  <2>1. S = {Scorable(k) : k \in ToSet(stored)} BY FindingsSet
  <2> HIDE DEF F, S
  <2>2. QED BY <1>1, <1>3, <2>1
<1> HIDE DEF F, S
<1>6. List(F, n)
  <2>1. ASSUME NEW i \in 1..n PROVE F[i].conf \in Nat
    <3>1. Scorable(order[i]).conf \in Nat BY <1>2, <1>4, ScorableConf
    <3>2. QED BY <1>3, <3>1
  <2>2. QED BY <1>3, <2>1 DEF List
<1>7. KeysAgree(F, n) BY <1>3, <1>4, KeyDecides DEF KeysAgree
<1>8. Scoring!compute_score(F) \in 0..Scoring!Perfect BY <1>6, ScoreRange
<1>9. /\ Left(Worst(S)) <= Scoring!compute_score(F)
      /\ Scoring!compute_score(F) <= Left(Mildest(S))
  BY <1>5, <1>6, <1>7, ScoreBounds
<1>10. ScoreFor(Max) = Left(Worst(S)) /\ ScoreFor(Min) = Left(Mildest(S))
  BY ScoreForIs DEF S
<1>11. QED BY <1>8, <1>9, <1>10 DEF F

LEMMA NumbersKept == ASSUME AInv, WInv, NumbersOK, [Next]_vars PROVE NumbersOK'
<1>1. CASE UNCHANGED <<driver, found, stored>>
  BY <1>1 DEF NumbersOK, Service
<1>2. CASE \E u \in Units : AgentMove(u)
  <2>1. UNCHANGED <<driver, found, stored>> BY <1>2, AgentsMoveWhen DEF WInv, runVars
  <2>2. QED BY <1>1, <2>1
<1>3. CASE Gather
  <2> DEFINE all == InUnitOrder([u \in Units |-> OfUnit(u)])
  <2>1. /\ found' = NumberedAll(all) /\ stored' = stored /\ driver' = driver
    BY <1>3 DEF Gather, NumberedAll, agentVars
  <2> HIDE DEF all
  <2>2. \A i \in DOMAIN found' : found'[i].id = i BY <2>1 DEF NumberedAll
  <2>3. QED BY <2>1, <2>2 DEF NumbersOK, Service
<1>4. CASE Persist
  <2>1. Service /\ driver' = driver /\ found' = found
    BY <1>4 DEF Persist, WInv, DriverOK, agentVars
  <2>2. QED BY <2>1 DEF NumbersOK, Service
<1>5. CASE ReviewFails \/ Cancel
  <2>1. stored' \in {stored, <<>>} /\ driver' = driver /\ found' = found
    BY <1>5 DEF ReviewFails, Cancel, Committed, agentVars
  <2>2. CASE stored' = stored BY <1>1, <2>1, <2>2
  <2>3. CASE stored' = <<>>
    <3>1. DOMAIN stored' = {} BY <2>3
    <3>2. QED BY <2>1, <3>1 DEF NumbersOK
  <2>4. QED BY <2>1, <2>2, <2>3
<1>6. CASE NextSample
  <2>1. stored' = <<>> /\ found' = <<>> BY <1>6 DEF NextSample
  <2>2. DOMAIN stored' = {} /\ DOMAIN found' = {} BY <2>1
  <2>3. QED BY <2>2 DEF NumbersOK
<1>7. CASE Convert \/ Collect
  <2>1. stored' = found /\ found' = found BY <1>7 DEF Convert, Collect
  <2>2. QED BY <2>1 DEF NumbersOK
<1>8. ASSUME RunStep, ~ Gather, ~ Persist, ~ ReviewFails, ~ NextSample, ~ Convert, ~ Collect
      PROVE  UNCHANGED <<driver, found, stored>>
  BY <1>8 DEF RunStep, ServiceStep, ShadowStep, LoadProvider, NoProvider, ReviewStart,
     ReviewNothing, PersistInvalid, PersistFails, ReviewDone, ReviewCommit, FetchDone, FetchFails, DiffDone,
     DiffFails, SkipReview, ConvertFails, BenchDone, Score, GatherRaises, agentVars
<1>9. CASE UNCHANGED vars BY <1>1, <1>9 DEF vars, agentVars, runVars
<1>10. QED BY <1>1, <1>2, <1>3, <1>4, <1>5, <1>6, <1>7, <1>8, <1>9 DEF Next

\* A run that is done stands still.
LEMMA NothingAfterDone ==
  ASSUME AInv, AgentsOK, phase = "done", [Next]_vars
  PROVE  UNCHANGED vars
<1>1. ~ (\E u \in Units : AgentMove(u)) BY AgentsMoveWhen
<1>2. ~ Cancel BY DEF Cancel
<1>3. ~ RunStep
  BY DEF RunStep, ServiceStep, ShadowStep, LoadProvider, NoProvider, ReviewStart, ReviewNothing,
     Persist, PersistInvalid, PersistFails, ReviewDone, ReviewCommit, ReviewFails, FetchDone,
     FetchFails, DiffDone, DiffFails, SkipReview, Convert, ConvertFails, Collect, NextSample, BenchDone,
     Gather, GatherRaises, Score
<1>4. QED BY <1>1, <1>2, <1>3 DEF Next

LEMMA SameFindings ==
  ASSUME UNCHANGED <<driver, stored>>
  PROVE  /\ ScoreFor(Max)' = ScoreFor(Max) /\ ScoreFor(Min)' = ScoreFor(Min)
<1>1. Findings' = Findings BY DEF Findings, Scorable, DedupeKey, Service
<1>2. /\ ScoreFor(Max)' = Left(Worst(ToSet(Findings)))'
      /\ ScoreFor(Min)' = Left(Mildest(ToSet(Findings)))'
  BY DEF ScoreFor, LossOf, Left, Worst, Mildest, Heaviest, Lightest, KeyPoints, KeysOf, Points
<1>3. /\ Left(Worst(ToSet(Findings)))' = Left(Worst(ToSet(Findings)))
      /\ Left(Mildest(ToSet(Findings)))' = Left(Mildest(ToSet(Findings)))
  BY <1>1
<1>4. QED BY <1>2, <1>3, ScoreForIs

LEMMA ScoreKept == ASSUME AInv, WInv, NumbersOK, ScoreOK, [Next]_vars PROVE ScoreOK'
<1>1. CASE phase = "done"
  <2>1. UNCHANGED vars BY <1>1, NothingAfterDone DEF WInv
  <2>2. UNCHANGED <<driver, stored, score, phase>> BY <2>1 DEF vars, agentVars, runVars
  <2>3. QED BY <2>2, SameFindings DEF ScoreOK
<1>2. CASE phase # "done" /\ score' = score
  BY <1>2 DEF ScoreOK
<1>3. CASE Score
  <2>1. phase = "score" /\ phase' = "done" /\ UNCHANGED <<driver, stored>>
    BY <1>3 DEF Score, Proceed, agentVars
  <2>2. PICK order \in Orders : score' = Scoring!compute_score(Ordered(order)) BY <1>3 DEF Score
  <2>3. /\ score' \in 0..Scoring!Perfect
        /\ ScoreFor(Max) <= score' /\ score' <= ScoreFor(Min)
    BY <2>1, <2>2, ScoreOfOrder
  <2>4. QED BY <2>1, <2>3, SameFindings DEF ScoreOK
<1>4. CASE \E u \in Units : AgentMove(u)
  <2>1. UNCHANGED score BY <1>4 DEF AgentMove, runVars
  <2>2. QED BY <1>1, <1>2, <2>1
<1>5. ASSUME UNCHANGED vars \/ Cancel \/ (RunStep /\ ~ Score)
      PROVE  score' = score
  BY <1>5 DEF vars, runVars, Cancel, RunStep, ServiceStep, ShadowStep, LoadProvider, NoProvider,
     ReviewStart, ReviewNothing, Persist, PersistInvalid, PersistFails, ReviewDone, ReviewCommit,
     ReviewFails,
     FetchDone, FetchFails, DiffDone, DiffFails, SkipReview, Convert, ConvertFails, Collect,
     NextSample, BenchDone, Gather, GatherRaises
<1>6. QED BY <1>1, <1>2, <1>3, <1>4, <1>5 DEF Next

-----------------------------------------------------------------------------
(* The inductive invariant, and what follows from it                         *)

\* All that is known of a review.
RInv == AInv /\ WInv /\ SlotsOK /\ NumbersOK /\ ScoreOK

LEMMA RunInit == ASSUME Init PROVE RInv
<1>1. AInv /\ WInv BY InitAgents, InitWork
<1>2. SlotsOK
  <2>1. pc = [u \in Units |-> "idle"] /\ slots = Concurrency
    BY DEF Init, AgentInit, AgentsIdle
  <2>2. Running = {} /\ pc = [u \in Units |-> pc[u]] BY <2>1 DEF Running, Busy
  <2>3. QED BY <2>1, <2>2, FS_EmptySet, ReviewAssumption DEF SlotsOK, ReviewAssumption
<1>3. found = <<>> /\ stored = <<>> /\ score = NoScore BY DEF Init
<1>4. DOMAIN found = {} /\ DOMAIN stored = {} BY <1>3
<1>5. QED BY <1>1, <1>2, <1>3, <1>4 DEF RInv, NumbersOK, ScoreOK

LEMMA RunKept == ASSUME RInv, [Next]_vars PROVE RInv'
<1>0. AInv /\ WInv /\ SlotsOK /\ NumbersOK /\ ScoreOK BY DEF RInv
<1>1. AInv'
  <2>1. ASSUME UNCHANGED vars PROVE AInv'
    BY <1>0, <2>1 DEF vars, agentVars, runVars, AInv, Open
  <2>2. QED BY <1>0, <2>1, StepOfAgent, StepOfDriver DEF Next
<1>2. WInv' BY <1>0, WInvKept
<1>3. SlotsOK'
  <2>1. ASSUME UNCHANGED vars PROVE SlotsOK'
    BY <1>0, <2>1 DEF vars, agentVars, SlotsOK, Running
  <2>2. QED BY <1>0, <2>1, SlotsOfAgent, SlotsOfDriver DEF Next
<1>4. NumbersOK' BY <1>0, NumbersKept
<1>5. ScoreOK' BY <1>0, ScoreKept
<1>6. QED BY <1>1, <1>2, <1>3, <1>4, <1>5 DEF RInv

(* Every field of a review keeps its type, and no slot of the semaphore is   *)
(* lost: in particular the score stays between 0 and 100 points, for which   *)
(* every finding that is scored must have a number for its confidence.       *)
THEOREM ReviewTypes == Spec => []TypeOK
<1>1. RInv => TypeOK
  BY DEF RInv, WInv, AgentsOK, DriverOK, FoundOK, SlotsOK, ScoreOK, TypeOK
<1>2. RInv /\ [Next]_vars => RInv' BY RunKept
<1>3. QED BY <1>1, <1>2, RunInit, PTL DEF Spec

(* Whatever order the database lists the findings in, compute_score gives no *)
(* less than if the heaviest finding of every dedupe key counted, and no     *)
(* more than if the lightest did.                                            *)
THEOREM ScoreWithinItsBounds == Spec => []ScoreWithinBounds
<1>1. RInv => ScoreWithinBounds BY DEF RInv, ScoreOK, ScoreWithinBounds
<1>2. RInv /\ [Next]_vars => RInv' BY RunKept
<1>3. QED BY <1>1, <1>2, RunInit, PTL DEF Spec

(* A review keeps its contract: a review that is done has kept all that is   *)
(* acceptable of what its agents reported, numbered in the order of the      *)
(* units, and one that fails has kept nothing, or all of that if its last    *)
(* commit had been sent.  Every step of review_run and of the script is a    *)
(* step of ReviewContract or leaves it as it is.                             *)
THEOREM ReviewKeepsTheContract == Spec => KeepsTheContract
<1>1. Init => Review!Init
  <2>1. SUFFICES ASSUME Init PROVE Review!Init OBVIOUS
  <2>2. Outcome = "idle" BY <2>1 DEF Init, Outcome
  <2>3. Service \in BOOLEAN BY DEF Service
  <2>4. Kept = {}
    <3>1. stored = <<>> BY <2>1 DEF Init
    <3>2. QED BY <3>1, Empty
  <2>5. QED BY <2>2, <2>3, <2>4, Closed DEF Review!Init, Nobody, Units, Review!Units
<1>2. RInv /\ [Next]_vars => [Review!Next]_(Review!vars)
  <2>1. ASSUME UNCHANGED vars PROVE UNCHANGED Review!vars
    BY <2>1 DEF vars, agentVars, runVars, Review!vars, UnderReview, AnswersSoFar, Kept, Outcome,
       Service, Pool
  <2>2. QED BY <2>1, AgentKeepsTheContract, DriverKeepsTheContract DEF Next, ContractStep, RInv
<1>3. RInv /\ [Next]_vars => RInv' BY RunKept
<1>4. QED BY <1>1, <1>2, <1>3, RunInit, PTL DEF Spec, KeepsTheContract, Review!Spec
=============================================================================
