------------------------ MODULE CodeMapFilesProofs ------------------------
(***************************************************************************)
(* What the files under docs/code-map hold.  The versions of a scope's     *)
(* graphs and its stale streaks count regenerators, whoever runs beside    *)
(* whom.  One regeneration at a time leaves whole files and a store that   *)
(* agrees with them, although writes fail and processes are killed; the    *)
(* run codemap_torn shows two at a time tear a file.                       *)
(***************************************************************************)
EXTENDS CodeMapRegenProofs, FiniteSetTheorems

-----------------------------------------------------------------------------
(* Who writes what                                                           *)

LEMMA StoreWriters ==
  ASSUME [Next]_vars
  PROVE  \/ UNCHANGED storeVars
         \/ \E a \in Regens : Leave(a) \/ Put(a) \/ Fallback(a)
         \/ \E c \in Pulls : StartPull(c)
         \/ GatewayRestarts
<1>1. ASSUME NEW a \in Regens, RegenStep(a)
      PROVE  UNCHANGED storeVars \/ Leave(a) \/ Put(a) \/ Fallback(a)
  BY <1>1 DEF RegenStep, TreeFails, NextScope, NoScopeLeft, LlmAnswers, LlmFails, Open, Write,
     Replace, WriteCards, ReadIndex, DiskFails, Fails, storeVars
<1>2. ASSUME NEW j \in Jobs, PostRegen(j) \/ JobStep(j)
      PROVE  UNCHANGED storeVars \/ Leave(j) \/ Put(j) \/ Fallback(j)
  BY <1>1, <1>2, RegensAre DEF PostRegen, JobStep, BeginPull, PullFails, PullSucceeds, BeginRegen, CloseJob
<1>3. ASSUME NEW c \in Pulls, _write_fallback_index(c) \/ PullKilled(c)
      PROVE  UNCHANGED storeVars \/ Leave(c)
  BY <1>3 DEF _write_fallback_index, PullKilled
<1>4. CASE UNCHANGED vars
  BY <1>4 DEF vars
<1>5. QED BY <1>1, <1>2, <1>3, <1>4, RegensAre DEF Next

LEMMA FileWriters ==
  ASSUME [Next]_vars
  PROVE  \/ UNCHANGED <<file, tmp>>
         \/ \E a \in Regens : Open(a) \/ Write(a)
         \/ \E a \in Regens : /\ Replace(a)
                              /\ file' = [file EXCEPT ![work[a].path] = tmp[work[a].path]]
                              /\ tmp' = [tmp EXCEPT ![work[a].path] = Absent]
<1>1. ASSUME NEW a \in Regens, RegenStep(a),
             ~Open(a), ~Write(a),
             ~(/\ Replace(a)
               /\ file' = [file EXCEPT ![work[a].path] = tmp[work[a].path]]
               /\ tmp' = [tmp EXCEPT ![work[a].path] = Absent])
      PROVE  UNCHANGED <<file, tmp>>
  BY <1>1 DEF RegenStep, TreeFails, NextScope, NoScopeLeft, LlmAnswers, LlmFails,
     Replace, WriteCards, ReadIndex, DiskFails, Fails, Put, Fallback, Processed, fsVars
<1>2. ASSUME NEW j \in Jobs, \/ PostRegen(j) \/ BeginPull(j) \/ PullFails(j) \/ PullSucceeds(j)
                             \/ BeginRegen(j) \/ CloseJob(j)
      PROVE  UNCHANGED <<file, tmp>>
  BY <1>2 DEF PostRegen, BeginPull, PullFails, PullSucceeds, BeginRegen, CloseJob, fsVars
<1>3. ASSUME NEW c \in Pulls, StartPull(c) \/ _write_fallback_index(c) \/ PullKilled(c)
      PROVE  UNCHANGED <<file, tmp>>
  BY <1>3 DEF StartPull, _write_fallback_index, PullKilled, fsVars
<1>4. CASE UNCHANGED vars \/ GatewayRestarts
  BY <1>4 DEF vars, fsVars, GatewayRestarts
<1>5. QED BY <1>1, <1>2, <1>3, <1>4, RegensAre DEF Next, JobStep

\* What a regenerator holds after a step.
LEMMA WorkWriters ==
  ASSUME TypeOK, [Next]_vars, NEW a \in Regens
  PROVE  \/ work'[a] = work[a]
         \/ work'[a] = NoWork
         \/ NextScope(a)
         \/ work[a].cur # NoScope /\ Retry(a)
         \/ LlmAnswers(a)
         \/ pc[a] = "index" /\ ReadIndex(a) /\ \E p, g : Save(a, p, g)
         \/ pc[a] = "idle" /\ Save(a, Index, NoGraphs)
<1> DEFINE Goal == \/ work'[a] = work[a]
                   \/ work'[a] = NoWork
                   \/ NextScope(a)
                   \/ work[a].cur # NoScope /\ Retry(a)
                   \/ LlmAnswers(a)
                   \/ pc[a] = "index" /\ ReadIndex(a) /\ \E p, g : Save(a, p, g)
                   \/ pc[a] = "idle" /\ Save(a, Index, NoGraphs)
<1>0. work = [b \in Regens |-> work[b]]
  BY DEF TypeOK
<1>1. CASE UNCHANGED work
  BY <1>1
<1>2. ASSUME NEW b \in Regens, Leave(b) \/ Processed(b)
      PROVE  Goal
  BY <1>0, <1>2 DEF Leave, Processed
<1>3. ASSUME NEW b \in Regens, work[b].cur # NoScope, Retry(b)
      PROVE  Goal
  BY <1>0, <1>3 DEF Retry, TryScope
<1>4. ASSUME NEW b \in Regens, Fails(b)
      PROVE  Goal
  BY <1>1, <1>2, <1>3, <1>4 DEF Fails
<1>5. ASSUME NEW b \in Regens, RegenStep(b)
      PROVE  Goal
  <2>1. CASE NextScope(b)
    BY <1>0, <2>1 DEF NextScope, TryScope
  <2>2. CASE LlmAnswers(b)
    BY <1>0, <2>2 DEF LlmAnswers, Save
  <2>3. CASE ReadIndex(b)
    <3>1. CASE Fails(b)
      BY <1>4, <3>1
    <3>2. CASE ~Fails(b)
      <4>1. PICK p, g : Save(b, p, g)
        BY <2>3, <3>2 DEF ReadIndex
      <4>2. CASE b = a
        BY <2>3, <4>1, <4>2 DEF ReadIndex
      <4>3. CASE b # a
        BY <1>0, <4>1, <4>3 DEF Save
      <4>4. QED BY <4>2, <4>3
    <3>3. QED BY <3>1, <3>2
  <2>4. CASE TreeFails(b) \/ NoScopeLeft(b) \/ Put(b) \/ Fallback(b)
    BY <1>1, <1>2, <2>4 DEF TreeFails, NoScopeLeft, Put, Fallback
  <2>5. CASE LlmFails(b) \/ Open(b) \/ Write(b) \/ Replace(b) \/ WriteCards(b) \/ DiskFails(b)
    BY <1>1, <1>2, <1>4, <2>5 DEF LlmFails, Open, Write, Replace, WriteCards, DiskFails
  <2>6. QED BY <1>5, <2>1, <2>2, <2>3, <2>4, <2>5 DEF RegenStep
<1>6. ASSUME NEW j \in Jobs, \/ PostRegen(j) \/ BeginPull(j) \/ PullFails(j) \/ PullSucceeds(j)
                             \/ BeginRegen(j) \/ CloseJob(j)
      PROVE  Goal
  BY <1>1, <1>2, <1>6, RegensAre
  DEF PostRegen, BeginPull, PullFails, PullSucceeds, BeginRegen, CloseJob
<1>7. ASSUME NEW c \in Pulls, StartPull(c) \/ _write_fallback_index(c) \/ PullKilled(c)
      PROVE  Goal
  BY <1>0, <1>1, <1>2, <1>7, RegensAre DEF StartPull, _write_fallback_index, PullKilled, Save
<1>8. CASE UNCHANGED vars
  BY <1>1, <1>8 DEF vars
<1>9. CASE GatewayRestarts
  BY <1>0, <1>9 DEF GatewayRestarts
<1>10. Goal
  BY <1>5, <1>6, <1>7, <1>8, <1>9, RegensAre DEF Next, JobStep
<1>11. QED BY <1>10

-----------------------------------------------------------------------------
(* Where the regenerators are                                                *)

\* A regenerator works on a scope only at the steps of a scope, and has struck
\* it off its list; only the fallback index is written for no scope.
PlaceOK(a) ==
  /\ work[a].cur \in Scopes => pc[a] \in ScopeSteps /\ work[a].cur \notin todo[a]
  /\ pc[a] \in ScopeSteps \ {"open", "write", "replace"} => work[a].cur \in Scopes

Places == \A a \in Regens : PlaceOK(a)

\* A step of one regenerator, which never goes back to a scope it has had.
Course(a) ==
  /\ pc' = [pc EXCEPT ![a] = pc'[a]] /\ pc'[a] \in Steps
  /\ todo' = [todo EXCEPT ![a] = todo'[a]] /\ todo'[a] \in SUBSET Scopes
  /\ work' = [work EXCEPT ![a] = work'[a]]
  /\ pc[a] \notin Early => pc'[a] \notin Early /\ todo'[a] \subseteq todo[a]
  /\ work'[a].cur \in {work[a].cur, NoScope} \cup todo[a]
  /\ PlaceOK(a)'

ControlOK ==
  /\ pc \in [Regens -> Steps]
  /\ todo \in [Regens -> SUBSET Scopes]
  /\ work = [a \in Regens |-> work[a]]
  /\ asked \in [Jobs -> SUBSET Scopes]
  /\ NoScope \notin Scopes

LEMMA LeaveCourse ==
  ASSUME ControlOK, NEW a \in Regens, Leave(a)
  PROVE  Course(a)
BY DEF ControlOK, Leave, Goto, Course, PlaceOK, NoWork, Early, Steps, ScopeSteps

LEMMA FailsCourse ==
  ASSUME ControlOK, NEW a \in Regens, PlaceOK(a), pc[a] \in ScopeSteps, Fails(a),
         work[a].cur \in Scopes \cup {NoScope}
  PROVE  Course(a)
<1>1. CASE Leave(a)
  BY <1>1, LeaveCourse
<1>2. CASE work[a].cur # NoScope /\ Retry(a) /\ UNCHANGED todo
  BY <1>2 DEF ControlOK, Retry, TryScope, Goto, Course, PlaceOK, Early, Steps, ScopeSteps
<1>3. CASE work[a].cur # NoScope /\ Goto(a, "fallback") /\ UNCHANGED <<todo, work>>
  BY <1>3 DEF ControlOK, Goto, Course, PlaceOK, Early, Steps, ScopeSteps
<1>4. QED BY <1>1, <1>2, <1>3 DEF Fails

LEMMA RegenCourse ==
  ASSUME ControlOK, NEW a \in Regens, PlaceOK(a), RegenStep(a),
         work[a].cur \in Scopes \cup {NoScope}
  PROVE  Course(a)
<1> USE DEF ControlOK, Course, PlaceOK, Early, Steps, ScopeSteps, Goto
<1>1. CASE TreeFails(a)
  <2>1. CASE Leave(a)
    BY <2>1, LeaveCourse
  <2>2. CASE ~Leave(a)
    BY <1>1, <2>2 DEF TreeFails
  <2>3. QED BY <2>1, <2>2
<1>2. CASE NextScope(a)
  BY <1>2 DEF NextScope, TryScope
<1>3. CASE NoScopeLeft(a)
  <2>1. CASE Leave(a)
    BY <2>1, LeaveCourse
  <2>2. CASE ~Leave(a)
    BY <1>3, <2>2 DEF NoScopeLeft
  <2>3. QED BY <2>1, <2>2
<1>4. CASE LlmAnswers(a)
  BY <1>4 DEF LlmAnswers, Save
<1>5. CASE Fails(a)
  <2>1. pc[a] \in ScopeSteps \/ ~RegenStep(a) \/ Leave(a) \/ TreeFails(a) \/ NextScope(a) \/ NoScopeLeft(a)
    BY DEF RegenStep, LlmAnswers, LlmFails, Open, Write, Replace, WriteCards, ReadIndex,
           DiskFails, Put, Fallback
  <2>2. QED BY <1>1, <1>2, <1>3, <1>5, <2>1, FailsCourse, LeaveCourse
<1>6. CASE Open(a) \/ Write(a) \/ WriteCards(a)
  BY <1>6 DEF Open, Write, WriteCards
<1>7. CASE Replace(a) /\ ~Fails(a)
  <2>1. CASE Leave(a)
    BY <2>1, LeaveCourse
  <2>2. CASE ~Leave(a)
    BY <1>7, <2>2 DEF Replace
  <2>3. QED BY <2>1, <2>2
<1>8. CASE ReadIndex(a) /\ ~Fails(a)
  BY <1>8 DEF ReadIndex, Save
<1>9. CASE Put(a) \/ Fallback(a)
  BY <1>9 DEF Put, Fallback, Processed, NoWork
<1>10. QED
  BY <1>1, <1>2, <1>3, <1>4, <1>5, <1>6, <1>7, <1>8, <1>9
  DEF RegenStep, LlmFails, DiskFails

LEMMA Courses ==
  ASSUME RegenAssumption, TypeOK, JInv, Places, [Next]_vars
  PROVE  UNCHANGED <<pc, todo, work>> \/ GatewayRestarts \/ \E a \in Regens : Course(a)
<1>0. /\ ControlOK
      /\ \A a \in Regens : PlaceOK(a) /\ work[a].cur \in Scopes \cup {NoScope}
  BY DEF TypeOK, ControlOK, Places, Work, RegenAssumption, Paths
<1> USE DEF ControlOK, Course, PlaceOK, Early, Steps, ScopeSteps, Goto
<1>1. ASSUME NEW a \in Regens, RegenStep(a)
      PROVE  Course(a)
  BY <1>0, <1>1, RegenCourse
<1>2. ASSUME NEW j \in Jobs, PostRegen(j) \/ BeginPull(j) \/ PullSucceeds(j) \/ BeginRegen(j)
      PROVE  Course(j)
  <2>1. j \in Regens /\ (status[j] = "none" => pc[j] = "idle")
    BY RegensAre DEF JInv, JobOK, StatusOK
  <2>2. CASE PostRegen(j)
    BY <1>0, <2>1, <2>2 DEF PostRegen
  <2>3. CASE BeginPull(j) \/ PullSucceeds(j)
    BY <1>0, <2>1, <2>3 DEF BeginPull, PullSucceeds
  <2>4. CASE BeginRegen(j)
    BY <1>0, <2>1, <2>4 DEF BeginRegen
  <2>5. QED BY <1>2, <2>2, <2>3, <2>4
<1>3. ASSUME NEW j \in Jobs, PullFails(j) \/ CloseJob(j)
      PROVE  Course(j)
  BY <1>0, <1>3, RegensAre, LeaveCourse DEF PullFails, CloseJob
<1>4. ASSUME NEW c \in Pulls, StartPull(c)
      PROVE  Course(c)
  BY <1>0, <1>4, RegensAre DEF StartPull
<1>5. ASSUME NEW c \in Pulls, _write_fallback_index(c)
      PROVE  Course(c)
  BY <1>0, <1>5, RegensAre DEF _write_fallback_index, Save
<1>6. ASSUME NEW c \in Pulls, PullKilled(c)
      PROVE  Course(c)
  BY <1>0, <1>6, RegensAre, LeaveCourse DEF PullKilled
<1>7. QED
  BY <1>1, <1>2, <1>3, <1>4, <1>5, <1>6, RegensAre DEF Next, JobStep, vars

-----------------------------------------------------------------------------
(* Versions and streaks count regenerators                                   *)

\* Those that have had the scope, and those that are through with it.
Spent(s)   == {a \in Regens : pc[a] \notin Early /\ s \notin todo[a]}
Through(s) == {a \in Spent(s) : work[a].cur # s}

Size     == [s \in Scopes |-> Cardinality(Spent(s))]
Finished == [s \in Scopes |-> Cardinality(Through(s))]

Fits(g, size) == \A s \in Scopes : g[s].version <= size[s]

WorkFits(w, size) ==
  /\ Fits(w.draft, size)
  /\ w.cur \in Scopes => w.old.version < size[w.cur]

\* No graph of a scope is newer than the number of regenerators that had it: each
\* adds one to the version it was given, however often it tries.
Versions ==
  /\ \A o \in Owners : Fits(store[o], Size)
  /\ \A p \in Paths : Fits(file[p].of, Size) /\ Fits(tmp[p].of, Size)
  /\ \A a \in Regens : WorkFits(work[a], Size)

\* Each regenerator marks a scope as stale at most once.
Streaks == \A o \in Owners, s \in Scopes : streak[o][s] <= Finished[s]

LEMMA SetsGrow ==
  ASSUME RegenAssumption, TypeOK, JInv, Places, [Next]_vars, NEW s \in Scopes
  PROVE  /\ Spent(s) \subseteq Spent(s)'
         /\ Through(s) \subseteq Through(s)'
         /\ \A a \in Regens : Course(a) /\ work[a].cur = s /\ work'[a].cur # s =>
              a \in Through(s)' /\ a \notin Through(s)
<1> USE DEF TypeOK
<1>1. ASSUME UNCHANGED <<pc, todo, work>>
      PROVE  Spent(s) \subseteq Spent(s)' /\ Through(s) \subseteq Through(s)'
  BY <1>1 DEF Spent, Through
<1>2. ASSUME GatewayRestarts
      PROVE  Spent(s) \subseteq Spent(s)' /\ Through(s) \subseteq Through(s)'
  <2>1. ASSUME NEW a \in Regens, a \in Spent(s)
        PROVE  a \in Spent(s)' /\ (work[a].cur # s => a \in Through(s)')
    <3>1. \/ pc'[a] = pc[a] /\ todo'[a] = todo[a] /\ work'[a] = work[a]
          \/ pc'[a] = "gone" /\ todo'[a] = {} /\ work'[a] = NoWork
      BY <1>2 DEF GatewayRestarts
    <3>2. NoScope # s
      BY DEF RegenAssumption, Paths
    <3>3. CASE pc'[a] = pc[a] /\ todo'[a] = todo[a] /\ work'[a] = work[a]
      BY <2>1, <3>3 DEF Spent, Through
    <3>4. CASE pc'[a] = "gone" /\ todo'[a] = {} /\ work'[a] = NoWork
      BY <2>1, <3>2, <3>4 DEF Spent, Through, Early, NoWork
    <3>5. QED BY <3>1, <3>3, <3>4
  <2>2. QED BY <2>1 DEF Spent, Through
<1>3. ASSUME NEW a \in Regens, Course(a)
      PROVE  Spent(s) \subseteq Spent(s)' /\ Through(s) \subseteq Through(s)'
  <2>1. \A b \in Regens : b # a => pc'[b] = pc[b] /\ todo'[b] = todo[b] /\ work'[b] = work[b]
    BY <1>3 DEF Course
  <2>2. a \in Spent(s) => a \in Spent(s)'
    BY <1>3 DEF Course, Spent
  <2>3. a \in Spent(s) /\ work'[a].cur = s => work[a].cur = s
    BY <1>3 DEF Course, Spent, RegenAssumption, Paths
  <2>4. QED BY <2>1, <2>2, <2>3 DEF Spent, Through
<1>4. ASSUME NEW a \in Regens, Course(a), work[a].cur = s, work'[a].cur # s
      PROVE  a \in Through(s)' /\ a \notin Through(s)
  <2>1. pc[a] \notin Early /\ s \notin todo[a]
    BY <1>4 DEF Places, PlaceOK, ScopeSteps, Early
  <2>2. QED BY <1>4, <2>1 DEF Course, Spent, Through
<1>5. QED BY <1>1, <1>2, <1>3, <1>4, Courses

LEMMA SizesBounded ==
  ASSUME RegenAssumption, NEW s \in Scopes
  PROVE  /\ Cardinality(Regens) \in Nat
         /\ Size[s] \in 0..Cardinality(Regens)
         /\ Finished[s] \in 0..Cardinality(Regens)
         /\ IsFiniteSet(Spent(s)) /\ IsFiniteSet(Through(s))
<1>1. Spent(s) \in SUBSET Regens /\ Through(s) \in SUBSET Regens
  BY DEF Spent, Through
<1>2. QED
  BY <1>1, FS_Subset, FS_CardinalityType DEF RegenAssumption, Size, Finished

LEMMA SizesGrow ==
  ASSUME RegenAssumption, TypeOK, JInv, Places, [Next]_vars, NEW s \in Scopes
  PROVE  /\ Size'[s] \in 0..Cardinality(Regens) /\ Size[s] <= Size'[s]
         /\ Finished'[s] \in 0..Cardinality(Regens) /\ Finished[s] <= Finished'[s]
         /\ \A a \in Regens : Course(a) /\ work[a].cur = s /\ work'[a].cur # s =>
              Finished[s] + 1 <= Finished'[s]
         /\ \A a \in Regens : a \notin Spent(s) /\ a \in Spent(s)' => Size[s] + 1 <= Size'[s]
<1> DEFINE S == Spent(s)  S1 == Spent(s)'  T == Through(s)  T1 == Through(s)'
<1>1. S1 \in SUBSET Regens /\ T1 \in SUBSET Regens /\ S \in SUBSET S1 /\ T \in SUBSET T1
  BY SetsGrow DEF Spent, Through
<1>2. /\ IsFiniteSet(S1) /\ IsFiniteSet(T1) /\ IsFiniteSet(S) /\ IsFiniteSet(T)
      /\ Cardinality(Regens) \in Nat
      /\ Cardinality(S1) \in 0..Cardinality(Regens) /\ Cardinality(T1) \in 0..Cardinality(Regens)
      /\ Cardinality(S) \in Nat /\ Cardinality(T) \in Nat
      /\ Cardinality(S) <= Cardinality(S1) /\ Cardinality(T) <= Cardinality(T1)
  BY <1>1, FS_Subset, FS_CardinalityType DEF RegenAssumption
<1>3. ASSUME NEW a, NEW U, NEW V, IsFiniteSet(V), U \in SUBSET V, a \in V, a \notin U
      PROVE  Cardinality(U) + 1 <= Cardinality(V)
  <2>1. /\ IsFiniteSet(U) /\ U \cup {a} \in SUBSET V
        /\ Cardinality(V) \in Nat /\ Cardinality(U) \in Nat
    BY <1>3, FS_Subset, FS_CardinalityType
  <2>2. Cardinality(U \cup {a}) = Cardinality(U) + 1
    BY <1>3, <2>1, FS_AddElement
  <2>3. Cardinality(U \cup {a}) <= Cardinality(V)
    BY <1>3, <2>1, FS_Subset
  <2>4. QED BY <2>2, <2>3
<1>4. ASSUME NEW a \in Regens, Course(a), work[a].cur = s, work'[a].cur # s
      PROVE  Cardinality(T) + 1 <= Cardinality(T1)
  BY <1>1, <1>2, <1>3, <1>4, SetsGrow
<1>5. ASSUME NEW a \in Regens, a \notin S, a \in S1
      PROVE  Cardinality(S) + 1 <= Cardinality(S1)
  BY <1>1, <1>2, <1>3, <1>5
<1>6. /\ Size[s] = Cardinality(S) /\ Size'[s] = Cardinality(S1)
      /\ Finished[s] = Cardinality(T) /\ Finished'[s] = Cardinality(T1)
  BY DEF Size, Finished
<1>7. QED BY <1>2, <1>4, <1>5, <1>6

-----------------------------------------------------------------------------
(* Every variable keeps its type and its bounds                              *)

CInv == TypeOK /\ Places /\ Versions /\ Streaks

LEMMA NoGraphType ==
  ASSUME RegenAssumption
  PROVE  /\ NoGraph \in Graph /\ NoGraphs \in [Scopes -> Graph]
         /\ \A s \in Scopes : NoGraphs[s].version = 0
         /\ \A g : Absent \in Content /\ Empty \in Content /\ Torn \in Content
         /\ \A g \in [Scopes -> Graph] : Whole(g) \in Content
         /\ NoWork \in Work
<1>1. NoGraph \in Graph
  BY FS_CardinalityType DEF NoGraph, Graph, RegenAssumption
<1>2. QED
  BY <1>1 DEF NoGraphs, NoGraph, Content, Absent, Empty, Torn, Whole, Work, NoWork, Paths,
     MAX_TRANSIENT_RETRIES

\* A graph that a regenerator draws fits the scope it works on.
LEMMA DraftFits ==
  ASSUME RegenAssumption, CInv, JInv, [Next]_vars, NEW a \in Regens, work[a].cur \in Scopes,
         NEW b \in Regens \cup {NoOne}
  PROVE  /\ [version |-> work[a].old.version + 1, by |-> b] \in Graph
         /\ work[a].old.version + 1 <= Size'[work[a].cur]
<1>1. work[a].old \in Graph /\ work[a].old.version < Size[work[a].cur]
  BY DEF CInv, TypeOK, Work, Versions, WorkFits
<1>2. /\ Size[work[a].cur] \in 0..Cardinality(Regens) /\ Cardinality(Regens) \in Nat
      /\ Size[work[a].cur] <= Size'[work[a].cur]
  BY SizesBounded, SizesGrow DEF CInv
<1>3. Size'[work[a].cur] \in 0..Cardinality(Regens)
  BY SizesGrow DEF CInv
<1>4. QED BY <1>1, <1>2, <1>3 DEF Graph

LEMMA StillFits ==
  ASSUME RegenAssumption, CInv, JInv, [Next]_vars,
         NEW g \in [Scopes -> Graph], Fits(g, Size) \/ g = NoGraphs
  PROVE  Fits(g, Size')
<1>1. \A s \in Scopes : /\ Size[s] \in 0..Cardinality(Regens) /\ Cardinality(Regens) \in Nat
                        /\ Size'[s] \in 0..Cardinality(Regens) /\ Size[s] <= Size'[s]
  BY SizesBounded, SizesGrow DEF CInv
<1>2. CASE g = NoGraphs
  BY <1>1, <1>2, NoGraphType DEF Fits
<1>3. CASE Fits(g, Size)
  BY <1>1, <1>3 DEF Fits, Graph
<1>4. QED BY <1>2, <1>3

LEMMA StoreStep ==
  ASSUME RegenAssumption, CInv, JInv, [Next]_vars
  PROVE  /\ store' \in [Owners -> [Scopes -> Graph]]
         /\ \A o \in Owners : Fits(store'[o], Size')
<1> USE DEF CInv, TypeOK
<1>1. ASSUME NEW o \in Owners
      PROVE  store[o] \in [Scopes -> Graph] /\ Fits(store[o], Size')
  BY <1>1, StillFits DEF Versions
<1>2. CASE UNCHANGED storeVars
  BY <1>1, <1>2 DEF storeVars
<1>3. ASSUME NEW a \in Regens, Leave(a)
      PROVE  /\ store' \in [Owners -> [Scopes -> Graph]]
             /\ \A o \in Owners : Fits(store'[o], Size')
  BY <1>1, <1>3, StillFits, NoGraphType DEF Leave
<1>4. CASE GatewayRestarts
  BY <1>1, <1>4, StillFits, NoGraphType DEF GatewayRestarts, Owners
<1>5. ASSUME NEW a \in Regens, NEW g \in Graph, work[a].cur \in Scopes,
             g.version <= Size'[work[a].cur],
             store' = [store EXCEPT ![Owner(a)][work[a].cur] = g]
      PROVE  /\ store' \in [Owners -> [Scopes -> Graph]]
             /\ \A o \in Owners : Fits(store'[o], Size')
  BY <1>1, <1>5 DEF Fits
<1>6. ASSUME NEW a \in Regens, Put(a) \/ Fallback(a)
      PROVE  \E g \in Graph : /\ work[a].cur \in Scopes /\ g.version <= Size'[work[a].cur]
                              /\ store' = [store EXCEPT ![Owner(a)][work[a].cur] = g]
  <2>1. work[a].cur \in Scopes
    BY <1>6 DEF Put, Fallback, Places, PlaceOK, ScopeSteps
  <2>2. CASE Put(a)
    BY <2>1, <2>2, DraftFits DEF Put
  <2>3. CASE Fallback(a)
    <3>1. /\ work[a].old \in Graph /\ work[a].old.version < Size[work[a].cur]
          /\ Size[work[a].cur] \in Nat /\ Size'[work[a].cur] \in Nat
          /\ Size[work[a].cur] <= Size'[work[a].cur]
      BY <2>1, SizesBounded, SizesGrow DEF Work, Versions, WorkFits
    <3>2. [version |-> 0, by |-> a] \in Graph
      BY FS_CardinalityType DEF Graph, RegenAssumption
    <3>3. /\ work[a].old.version \in Nat
          /\ work[a].old.version <= Size'[work[a].cur]
          /\ [version |-> 0, by |-> a].version <= Size'[work[a].cur]
      BY <3>1 DEF Graph
    <3>4. CASE work[a].old # NoGraph
      BY <2>1, <2>3, <3>1, <3>3, <3>4 DEF Fallback
    <3>5. CASE work[a].old = NoGraph
      BY <2>1, <2>3, <3>2, <3>3, <3>5 DEF Fallback
    <3>6. QED BY <3>4, <3>5
  <2>4. QED BY <1>6, <2>2, <2>3
<1>7. ASSUME NEW c \in Pulls, StartPull(c)
      PROVE  /\ store' \in [Owners -> [Scopes -> Graph]]
             /\ \A o \in Owners : Fits(store'[o], Size')
  <2> DEFINE g == [s \in Scopes |-> IF file[s].kind = "whole" THEN file[s].of[s] ELSE NoGraph]
  <2>1. store' = [store EXCEPT ![c] = g]
    BY <1>7 DEF StartPull
  <2>2. \A s \in Scopes : file[s].of \in [Scopes -> Graph] /\ Fits(file[s].of, Size')
    BY StillFits DEF Paths, Content, Versions
  <2>3. \A s \in Scopes : Size'[s] \in Nat
    BY SizesGrow
  <2>4. g \in [Scopes -> Graph] /\ Fits(g, Size')
    BY <2>2, <2>3, NoGraphType DEF Fits, NoGraph
  <2> HIDE DEF g
  <2>5. QED BY <1>1, <2>1, <2>4
<1>8. QED BY <1>2, <1>3, <1>4, <1>5, <1>6, <1>7, StoreWriters

\* What a writer leaves in a file is nothing, garbage, or its draft.
LEMMA BlendType ==
  ASSUME RegenAssumption, CInv, NEW p \in Paths, NEW a \in Regens,
         NEW c \in Blend(tmp[p], work[a].draft) \cup Blend(file[p], work[a].draft)
                   \cup {Absent, Empty, tmp[p]}
  PROVE  c \in Content /\ (Fits(c.of, Size) \/ c.of = NoGraphs)
<1>1. work[a].draft \in [Scopes -> Graph] /\ Fits(work[a].draft, Size)
  BY DEF CInv, TypeOK, Work, Versions, WorkFits
<1>2. tmp[p] \in Content /\ Fits(tmp[p].of, Size)
  BY DEF CInv, TypeOK, Versions
<1>3. c \in {Whole(work[a].draft), Torn, Absent, Empty, tmp[p]}
  BY DEF Blend
<1>4. Whole(work[a].draft) \in Content /\ Whole(work[a].draft).of = work[a].draft
  BY <1>1, NoGraphType DEF Whole
<1>5. QED
  BY <1>1, <1>2, <1>3, <1>4, NoGraphType DEF Absent, Empty, Torn

LEMMA FilesFitStep ==
  ASSUME RegenAssumption, CInv, JInv, [Next]_vars
  PROVE  /\ file' \in [Paths -> Content] /\ tmp' \in [Paths -> Content]
         /\ \A p \in Paths : Fits(file'[p].of, Size') /\ Fits(tmp'[p].of, Size')
<1> USE DEF CInv, TypeOK
<1>1. ASSUME NEW c \in Content, Fits(c.of, Size) \/ c.of = NoGraphs
      PROVE  Fits(c.of, Size')
  BY <1>1, StillFits DEF Content
<1>2. \A p \in Paths : Fits(file[p].of, Size') /\ Fits(tmp[p].of, Size')
  BY <1>1 DEF Versions
<1>3. CASE UNCHANGED <<file, tmp>>
  BY <1>2, <1>3
<1>4. ASSUME NEW a \in Regens, Open(a) \/ Write(a)
      PROVE  /\ file' \in [Paths -> Content] /\ tmp' \in [Paths -> Content]
             /\ \A p \in Paths : Fits(file'[p].of, Size') /\ Fits(tmp'[p].of, Size')
  <2> DEFINE P == work[a].path
  <2>1. P \in Paths
    BY DEF Work
  <2>2. CASE \E c \in Blend(tmp[P], work[a].draft) \cup {Empty} :
               tmp' = [tmp EXCEPT ![P] = c] /\ UNCHANGED file
    <3>1. PICK c \in Blend(tmp[P], work[a].draft) \cup {Empty} : tmp' = [tmp EXCEPT ![P] = c]
      BY <2>2
    <3>2. c \in Content /\ Fits(c.of, Size')
      BY <1>1, <2>1, BlendType
    <3>3. QED BY <1>2, <2>1, <2>2, <3>1, <3>2
  <2>3. CASE \E c \in Blend(file[P], work[a].draft) :
               file' = [file EXCEPT ![P] = c] /\ UNCHANGED tmp
    <3>1. PICK c \in Blend(file[P], work[a].draft) : file' = [file EXCEPT ![P] = c]
      BY <2>3
    <3>2. c \in Content /\ Fits(c.of, Size')
      BY <1>1, <2>1, BlendType
    <3>3. QED BY <1>2, <2>1, <2>3, <3>1, <3>2
  <2>4. QED BY <1>3, <1>4, <2>2, <2>3 DEF Open, Write
<1>5. ASSUME NEW a \in Regens,
             file' = [file EXCEPT ![work[a].path] = tmp[work[a].path]],
             tmp' = [tmp EXCEPT ![work[a].path] = Absent]
      PROVE  /\ file' \in [Paths -> Content] /\ tmp' \in [Paths -> Content]
             /\ \A p \in Paths : Fits(file'[p].of, Size') /\ Fits(tmp'[p].of, Size')
  <2>1. work[a].path \in Paths
    BY DEF Work
  <2>2. Absent \in Content /\ Fits(Absent.of, Size')
    BY <1>1, NoGraphType DEF Absent
  <2>3. QED BY <1>2, <1>5, <2>1, <2>2
<1>6. QED BY <1>3, <1>4, <1>5, FileWriters

\* A regenerator that takes a scope had not had it: the graph it is given is
\* older than it may make one.
LEMMA WorkStep ==
  ASSUME RegenAssumption, CInv, JInv, [Next]_vars, NEW a \in Regens
  PROVE  work'[a] \in Work /\ WorkFits(work'[a], Size')
<1> USE DEF CInv, TypeOK
<1>0. /\ work[a] \in Work /\ WorkFits(work[a], Size)
      /\ Index \in Paths /\ Scopes \subseteq Paths /\ NoScope \notin Scopes
      /\ \A s \in Scopes : Size[s] \in Nat /\ Size'[s] \in Nat /\ Size[s] <= Size'[s]
  BY SizesBounded, SizesGrow DEF Versions, Paths, RegenAssumption
<1>1. Fits(work[a].draft, Size')
  BY <1>0, StillFits DEF Work, WorkFits
<1>2. work[a].cur \in Scopes => work[a].old.version < Size'[work[a].cur]
  BY <1>0 DEF Work, Graph, WorkFits
<1>3. ASSUME NEW d \in [Scopes -> Graph], Fits(d, Size'), NEW p \in Paths, Save(a, p, d)
      PROVE  work'[a] \in Work /\ WorkFits(work'[a], Size')
  BY <1>0, <1>2, <1>3 DEF Save, Work, WorkFits
<1>4. CASE work'[a] = work[a]
  BY <1>0, <1>1, <1>2, <1>4 DEF WorkFits
<1>5. CASE work'[a] = NoWork
  BY <1>0, <1>5, NoGraphType, StillFits DEF WorkFits, NoWork
<1>6. CASE NextScope(a)
  <2>1. PICK s \in todo[a] : TryScope(a, s, store[Owner(a)][s], 0) /\ todo' = [todo EXCEPT ![a] = @ \ {s}]
    BY <1>6 DEF NextScope
  <2>2. s \in Scopes /\ Owner(a) \in Owners
    BY DEF Owner, Owners, Regens
  <2>3. store[Owner(a)][s] \in Graph /\ store[Owner(a)][s].version <= Size[s]
    BY <2>2 DEF Versions, Fits
  <2>4. a \notin Spent(s) /\ a \in Spent(s)'
    BY <1>6, <2>1 DEF NextScope, TryScope, Goto, Spent, Early
  <2>5. Size[s] + 1 <= Size'[s]
    BY <2>2, <2>4, SizesGrow
  <2>6. work'[a] = [cur |-> s, old |-> store[Owner(a)][s], attempt |-> 0,
                    path |-> Index, draft |-> NoGraphs]
    BY <2>1 DEF TryScope
  <2>7. store[Owner(a)][s].version < Size'[s]
    BY <1>0, <2>2, <2>3, <2>5 DEF Graph
  <2>8. QED
    BY <1>0, <2>2, <2>3, <2>6, <2>7, NoGraphType, StillFits
    DEF Work, WorkFits, MAX_TRANSIENT_RETRIES
<1>7. CASE work[a].cur # NoScope /\ Retry(a)
  <2>1. /\ work[a].attempt + 1 \in 0..MAX_TRANSIENT_RETRIES
        /\ work'[a] = [cur |-> work[a].cur, old |-> work[a].old,
                       attempt |-> work[a].attempt + 1, path |-> Index, draft |-> NoGraphs]
    BY <1>0, <1>7 DEF Retry, TryScope, Work, MAX_TRANSIENT_RETRIES
  <2>2. QED
    BY <1>0, <1>2, <2>1, NoGraphType, StillFits DEF Work, WorkFits
<1>8. CASE LlmAnswers(a)
  <2> DEFINE new == [version |-> work[a].old.version + 1, by |-> a]
             d   == [NoGraphs EXCEPT ![work[a].cur] = new]
  <2>1. work[a].cur \in Scopes
    BY <1>8 DEF LlmAnswers, Places, PlaceOK, ScopeSteps
  <2>2. new \in Graph /\ new.version <= Size'[work[a].cur]
    BY <2>1, DraftFits
  <2>3. d \in [Scopes -> Graph] /\ Fits(d, Size')
    BY <1>0, <2>1, <2>2, NoGraphType DEF Fits
  <2>4. Save(a, work[a].cur, d)
    BY <1>8 DEF LlmAnswers
  <2> HIDE DEF d
  <2>5. QED BY <1>0, <1>3, <2>1, <2>3, <2>4
<1>9. CASE pc[a] = "index" /\ ReadIndex(a) /\ \E p, g : Save(a, p, g)
  <2> DEFINE old == file[Index].of
             d   == [old EXCEPT ![work[a].cur].version = work[a].old.version + 1]
  <2>1. work[a].cur \in Scopes
    BY <1>9 DEF Places, PlaceOK, ScopeSteps
  <2>2. old \in [Scopes -> Graph] /\ Fits(old, Size')
    BY <1>0, StillFits DEF Content, Versions
  <2>3. /\ [version |-> work[a].old.version + 1, by |-> old[work[a].cur].by] \in Graph
        /\ work[a].old.version + 1 <= Size'[work[a].cur]
    <3>1. old[work[a].cur].by \in Regens \cup {NoOne}
      BY <2>1, <2>2 DEF Graph
    <3>2. QED BY <2>1, <3>1, DraftFits
  <2>4. [old[work[a].cur] EXCEPT !.version = work[a].old.version + 1] =
          [version |-> work[a].old.version + 1, by |-> old[work[a].cur].by]
    BY <2>1, <2>2 DEF Graph
  <2>5. d \in [Scopes -> Graph] /\ Fits(d, Size')
    BY <2>1, <2>2, <2>3, <2>4 DEF Fits
  <2>6. Save(a, Index, d)
    <3>1. CASE Fails(a)
      BY <1>9, <3>1 DEF Fails, Leave, Retry, TryScope, Save, Goto
    <3>2. CASE ~Fails(a)
      BY <1>9, <3>2 DEF ReadIndex
    <3>3. QED BY <3>1, <3>2
  <2> HIDE DEF d
  <2>7. QED BY <1>0, <1>3, <2>5, <2>6
<1>10. CASE pc[a] = "idle" /\ Save(a, Index, NoGraphs)
  BY <1>0, <1>3, <1>10, NoGraphType, StillFits
<1>11. QED BY <1>4, <1>5, <1>6, <1>7, <1>8, <1>9, <1>10, WorkWriters

LEMMA StreakStep ==
  ASSUME RegenAssumption, CInv, JInv, [Next]_vars
  PROVE  /\ streak' \in [Owners -> [Scopes -> 0..Cardinality(Regens)]]
         /\ \A o \in Owners, s \in Scopes : streak'[o][s] <= Finished'[s]
<1> USE DEF CInv, TypeOK
<1>0. \A s \in Scopes : /\ Finished'[s] \in 0..Cardinality(Regens)
                        /\ Finished[s] \in 0..Cardinality(Regens)
                        /\ Finished[s] <= Finished'[s]
  BY SizesBounded, SizesGrow
<1>1. ASSUME NEW o \in Owners, NEW s \in Scopes
      PROVE  streak[o][s] \in 0..Cardinality(Regens) /\ streak[o][s] <= Finished'[s]
  BY <1>0, <1>1 DEF Streaks
<1>2. Cardinality(Regens) \in Nat
  BY FS_CardinalityType DEF RegenAssumption
<1>3. NoStreaks \in [Scopes -> 0..Cardinality(Regens)] /\ \A s \in Scopes : NoStreaks[s] = 0
  BY <1>2 DEF NoStreaks
<1>4. CASE UNCHANGED streak
  BY <1>1, <1>4
<1>5. ASSUME NEW a \in Regens, Leave(a)
      PROVE  /\ streak' \in [Owners -> [Scopes -> 0..Cardinality(Regens)]]
             /\ \A o \in Owners, s \in Scopes : streak'[o][s] <= Finished'[s]
  BY <1>0, <1>1, <1>3, <1>5 DEF Leave
<1>6. CASE GatewayRestarts
  BY <1>0, <1>1, <1>3, <1>6 DEF GatewayRestarts, Owners
<1>7. ASSUME NEW o \in Owners, NEW s \in Scopes, NEW n \in Nat, n <= Finished'[s],
             streak' = [streak EXCEPT ![o][s] = n]
      PROVE  /\ streak' \in [Owners -> [Scopes -> 0..Cardinality(Regens)]]
             /\ \A q \in Owners, t \in Scopes : streak'[q][t] <= Finished'[t]
  <2>1. n \in 0..Cardinality(Regens)
    BY <1>0, <1>2, <1>7
  <2>2. QED BY <1>1, <1>7, <2>1
<1>8. ASSUME NEW a \in Regens, Put(a) \/ Fallback(a)
      PROVE  /\ streak' \in [Owners -> [Scopes -> 0..Cardinality(Regens)]]
             /\ \A o \in Owners, s \in Scopes : streak'[o][s] <= Finished'[s]
  <2>1. work[a].cur \in Scopes /\ Owner(a) \in Owners
    BY <1>8 DEF Put, Fallback, Places, PlaceOK, ScopeSteps, Owner, Owners, Regens
  <2>2. CASE Put(a)
    <3>1. 0 \in Nat /\ 0 <= Finished'[work[a].cur]
      BY <1>0, <1>2, <2>1
    <3>2. streak' = [streak EXCEPT ![Owner(a)][work[a].cur] = 0]
      BY <2>2 DEF Put
    <3>3. QED BY <1>7, <2>1, <3>1, <3>2
  <2>3. CASE Fallback(a)
    <3> DEFINE n == streak[Owner(a)][work[a].cur] + 1
    <3>0. ControlOK /\ PlaceOK(a) /\ RegenStep(a)
      BY <2>3 DEF RegenStep, Places, ControlOK, RegenAssumption, Paths
    <3>1. Course(a)
      BY <2>1, <3>0, RegenCourse
    <3>2. work'[a].cur # work[a].cur
      BY <2>1, <2>3 DEF Fallback, Processed, NoWork, RegenAssumption, Paths
    <3>3. Finished[work[a].cur] + 1 <= Finished'[work[a].cur]
      BY <2>1, <3>1, <3>2, SizesGrow
    <3>4. streak[Owner(a)][work[a].cur] \in 0..Cardinality(Regens)
          /\ streak[Owner(a)][work[a].cur] <= Finished[work[a].cur]
      BY <2>1 DEF Streaks
    <3>5. n \in Nat /\ n <= Finished'[work[a].cur]
      BY <1>0, <1>2, <2>1, <3>3, <3>4
    <3>6. streak' = [streak EXCEPT ![Owner(a)][work[a].cur] = n]
      BY <2>3 DEF Fallback
    <3> HIDE DEF n
    <3>7. QED BY <1>7, <2>1, <3>5, <3>6
  <2>4. QED BY <1>8, <2>2, <2>3
<1>9. ASSUME NEW c \in Pulls, StartPull(c)
      PROVE  UNCHANGED streak
  BY <1>9 DEF StartPull
<1>10. QED BY <1>4, <1>5, <1>6, <1>8, <1>9, StoreWriters DEF storeVars

JobTypeOK ==
  /\ status \in [Jobs -> {"none", "queued", "running", "succeeded", "failed", "lost"}]
  /\ phase \in [Jobs -> {"queued", "pulling", "regenerating", "done"}]
  /\ asked \in [Jobs -> SUBSET Scopes]
  /\ processed \in [Jobs -> SUBSET Scopes] /\ failed \in [Jobs -> SUBSET Scopes]

LEMMA JobTypeStep ==
  ASSUME RegenAssumption, CInv, JInv, [Next]_vars
  PROVE  JobTypeOK'
<1> USE DEF CInv, TypeOK, JobTypeOK
<1>1. CASE UNCHANGED jobVars
  BY <1>1 DEF jobVars
<1>2. ASSUME NEW j \in Jobs, PostRegen(j)
      PROVE  JobTypeOK'
  BY <1>2 DEF PostRegen
<1>3. ASSUME NEW j \in Jobs, BeginPull(j) \/ PullFails(j) \/ BeginRegen(j) \/ CloseJob(j)
      PROVE  JobTypeOK'
  BY <1>3 DEF BeginPull, PullFails, BeginRegen, CloseJob
<1>4. ASSUME NEW a \in Regens, TreeFails(a) \/ NoScopeLeft(a)
      PROVE  JobTypeOK'
  <2>1. todo[a] \subseteq Scopes
    OBVIOUS
  <2>2. CASE TreeFails(a)
    BY <2>1, <2>2 DEF TreeFails
  <2>3. CASE NoScopeLeft(a)
    BY <2>3 DEF NoScopeLeft
  <2>4. QED BY <1>4, <2>2, <2>3
<1>5. ASSUME NEW a \in Regens, Put(a) \/ Fallback(a)
      PROVE  JobTypeOK'
  <2>1. work[a].cur \in Scopes /\ Processed(a)
    BY <1>5 DEF Put, Fallback, Places, PlaceOK, ScopeSteps
  <2>2. UNCHANGED <<status, phase, asked, failed>>
        /\ (processed' = processed \/ processed' = [processed EXCEPT ![a] = @ \cup {work[a].cur}])
    BY <2>1 DEF Processed
  <2>3. QED BY <2>1, <2>2
<1>6. ASSUME NEW a \in Regens, RegenStep(a)
      PROVE  JobTypeOK'
  BY <1>1, <1>4, <1>5, <1>6 DEF RegenStep, NextScope, LlmAnswers, LlmFails, Open, Write, Replace,
     WriteCards, ReadIndex, DiskFails, Fails
<1>7. ASSUME NEW c \in Pulls, StartPull(c) \/ _write_fallback_index(c) \/ PullKilled(c)
      PROVE  UNCHANGED jobVars
  BY <1>7 DEF StartPull, _write_fallback_index, PullKilled
<1>8. CASE GatewayRestarts
  BY <1>8 DEF GatewayRestarts
<1>9. CASE UNCHANGED vars
  BY <1>1, <1>9 DEF vars
<1>10. ASSUME NEW j \in Jobs, PullSucceeds(j)
       PROVE  UNCHANGED jobVars
  BY <1>10 DEF PullSucceeds
<1>11. QED
  BY <1>1, <1>2, <1>3, <1>6, <1>7, <1>8, <1>9, <1>10, RegensAre DEF Next, JobStep

FdTypeOK == fd \in [Regens -> {"none", "tmp", "final", "lost"}]

LEMMA FdTypeStep ==
  ASSUME RegenAssumption, CInv, JInv, [Next]_vars
  PROVE  FdTypeOK'
<1> USE DEF CInv, TypeOK, FdTypeOK
<1>1. CASE UNCHANGED fd
  BY <1>1
<1>2. ASSUME NEW a \in Regens, Open(a) \/ Write(a) \/ DiskFails(a)
      PROVE  FdTypeOK'
  BY <1>2 DEF Open, Write, DiskFails
<1>3. ASSUME NEW a \in Regens, Replace(a)
      PROVE  FdTypeOK'
  BY <1>1, <1>3 DEF Replace, Moved
<1>4. ASSUME NEW a \in Regens, RegenStep(a)
      PROVE  FdTypeOK'
  BY <1>1, <1>2, <1>3, <1>4 DEF RegenStep, TreeFails, NextScope, NoScopeLeft, LlmAnswers, LlmFails,
     WriteCards, ReadIndex, Put, Fallback, Processed, fsVars
<1>5. ASSUME NEW j \in Jobs, \/ PostRegen(j) \/ BeginPull(j) \/ PullFails(j) \/ PullSucceeds(j)
                             \/ BeginRegen(j) \/ CloseJob(j)
      PROVE  UNCHANGED fd
  BY <1>5 DEF PostRegen, BeginPull, PullFails, PullSucceeds, BeginRegen, CloseJob, fsVars
<1>6. ASSUME NEW c \in Pulls, StartPull(c) \/ _write_fallback_index(c) \/ PullKilled(c)
      PROVE  FdTypeOK'
  BY <1>6 DEF StartPull, _write_fallback_index, PullKilled, fsVars
<1>7. CASE GatewayRestarts
  BY <1>7 DEF GatewayRestarts
<1>8. CASE UNCHANGED vars
  BY <1>8 DEF vars, fsVars
<1>9. QED BY <1>1, <1>4, <1>5, <1>6, <1>7, <1>8, RegensAre DEF Next, JobStep

LEMMA ControlStep ==
  ASSUME RegenAssumption, CInv, JInv, [Next]_vars
  PROVE  /\ pc' \in [Regens -> Steps] /\ todo' \in [Regens -> SUBSET Scopes]
         /\ work' = [a \in Regens |-> work'[a]]
         /\ Places'
<1> USE DEF CInv, TypeOK
<1>1. CASE UNCHANGED <<pc, todo, work>>
  BY <1>1 DEF Places, PlaceOK
<1>2. CASE GatewayRestarts
  <2>1. ASSUME NEW a \in Regens
        PROVE  \/ pc'[a] = pc[a] /\ todo'[a] = todo[a] /\ work'[a] = work[a]
               \/ pc'[a] = "gone" /\ todo'[a] = {} /\ work'[a] = NoWork
    BY <1>2 DEF GatewayRestarts
  <2>2. ASSUME NEW a \in Regens
        PROVE  PlaceOK(a)'
    BY <2>1 DEF Places, PlaceOK, NoWork, ScopeSteps, RegenAssumption, Paths
  <2>3. "gone" \in Steps
    BY DEF Steps
  <2>4. QED BY <1>2, <2>2, <2>3 DEF GatewayRestarts, Places
<1>3. ASSUME NEW a \in Regens, Course(a)
      PROVE  /\ pc' \in [Regens -> Steps] /\ todo' \in [Regens -> SUBSET Scopes]
             /\ work' = [b \in Regens |-> work'[b]]
             /\ Places'
  BY <1>3 DEF Course, Places, PlaceOK
<1>4. QED BY <1>1, <1>2, <1>3, Courses

LEMMA InitCounts == ASSUME RegenAssumption, Init PROVE CInv
<1>1. TypeOK
  BY NoGraphType, FS_CardinalityType
  DEF Init, TypeOK, NoStreaks, Steps, RegenAssumption
<1>2. Places
  BY DEF Init, Places, PlaceOK, NoWork, ScopeSteps, RegenAssumption, Paths
<1>3. Versions
  BY SizesBounded, NoGraphType
  DEF Init, Versions, Fits, WorkFits, NoWork, Absent, RegenAssumption, Paths
<1>4. Streaks
  BY SizesBounded DEF Init, Streaks, NoStreaks
<1>5. QED BY <1>1, <1>2, <1>3, <1>4 DEF CInv

LEMMA CountsStep == ASSUME RegenAssumption, JInv, CInv, [Next]_vars PROVE CInv'
<1>1. Versions'
  BY StoreStep, FilesFitStep, WorkStep DEF Versions
<1>2. TypeOK'
  <2>1. work' \in [Regens -> Work]
    BY WorkStep, ControlStep
  <2>2. QED
    BY <2>1, StoreStep, FilesFitStep, StreakStep, JobTypeStep, FdTypeStep, ControlStep
    DEF TypeOK, JobTypeOK, FdTypeOK
<1>3. QED BY <1>1, <1>2, StreakStep, ControlStep DEF CInv, Streaks

\* However many jobs and processes overlap, fail, restart or are killed, every
\* graph on disk and in memory and every streak stays within what the
\* regenerators can have counted, and everything else keeps to its values.
THEOREM RegenTypeCorrect == Spec => []TypeOK
<1>1. Init => CInv
  BY InitCounts, RegenAssumption
<1>2. JInv /\ CInv /\ [Next]_vars => CInv'
  BY CountsStep, RegenAssumption
<1>3. CInv => TypeOK
  BY DEF CInv
<1>4. QED BY <1>1, <1>2, <1>3, Inductive, PTL DEF Spec

-----------------------------------------------------------------------------
(* One regeneration at a time                                                *)

OneBusy == \A a, b \in Busy : a = b

Saving(a) == pc[a] \in {"open", "write", "replace"}

\* The graph a writes for its scope, and when the scope's file holds it.
Mine(a) == [version |-> work[a].old.version + 1, by |-> a]
Replaced(a) ==
  \/ pc[a] \in {"cards", "index", "put"}
  \/ Saving(a) /\ work[a].path = Index /\ work[a].cur # NoScope

\* A writer that is alone has the temporary file it opened, with what it wrote.
WriterOK(a) ==
  /\ fd[a] = IF pc[a] = "write" THEN "tmp" ELSE "none"
  /\ pc[a] = "idle" => todo[a] = {}
  /\ pc[a] = "write" => tmp[work[a].path] = Empty
  /\ pc[a] = "replace" => tmp[work[a].path] = Whole(work[a].draft)
  /\ Saving(a) => \/ work[a].path = Index
                  \/ /\ work[a].cur \in Scopes /\ work[a].path = work[a].cur
                     /\ work[a].draft[work[a].cur] = Mine(a)
  /\ Replaced(a) => file[work[a].cur].of[work[a].cur] = Mine(a)

WholeOK == \A p \in Paths : file[p] = Absent \/ file[p] = Whole(file[p].of)

\* The gateway's store and the disk agree on a scope but while a job works on it.
Shown(s) == store[Gateway][s] # NoGraph /\ streak[Gateway][s] = 0
DiskOK(s) ==
  Shown(s) => /\ file[s].of[s] # NoGraph
              /\ file[s].of[s].version >= store[Gateway][s].version
              /\ file[s].of[s].by \in Jobs => file[s].of[s] = store[Gateway][s]
Agree == \A s \in Scopes : DiskOK(s) \/ \E j \in Jobs : work[j].cur = s

\* What a command line process has read is as new as what the gateway shows.
ReadOK(c) ==
  c \in Busy =>
    \A s \in Scopes : Shown(s) =>
      /\ s \in todo[c] => store[Gateway][s].version <= store[c][s].version
      /\ s = work[c].cur => store[Gateway][s].version <= work[c].old.version

Serial ==
  /\ OneBusy /\ WholeOK /\ Agree
  /\ \A a \in Regens : WriterOK(a)
  /\ \A c \in Pulls : ReadOK(c)

\* A step of a, while no other regenerator is at work.
Alone(a) == \A b \in Regens \ {a} : pc[b] \in {"idle", "gone"}
Moves(a) ==
  \A b \in Regens \ {a} :
    pc'[b] = pc[b] /\ todo'[b] = todo[b] /\ work'[b] = work[b] /\ fd'[b] = fd[b]

LEMMA IsAlone ==
  ASSUME RegenAssumption, OneBusy, Concurrent = 1, NEW a \in Regens,
         pc[a] \notin {"idle", "gone"} \/ Cardinality(Busy) < Concurrent
  PROVE  Alone(a)
<1>1. CASE pc[a] \notin {"idle", "gone"}
  BY <1>1 DEF OneBusy, Busy, Alone
<1>2. CASE Cardinality(Busy) < Concurrent
  <2>1. IsFiniteSet(Busy) /\ Cardinality(Busy) \in Nat
    BY FS_Subset, FS_CardinalityType DEF Busy, RegenAssumption
  <2>2. Cardinality(Busy) = 0
    BY <1>2, <2>1
  <2>3. Busy = {}
    BY <2>1, <2>2, FS_EmptySet
  <2>4. QED BY <2>3 DEF Busy, Alone
<1>3. QED BY <1>1, <1>2

\* The others are not at work, so that only a's own part is left to show.
LEMMA SerialStep ==
  ASSUME Serial, NEW a \in Regens, Alone(a), Moves(a),
         WriterOK(a)', WholeOK', Agree', a \in Pulls => ReadOK(a)'
  PROVE  Serial'
<1>1. \A b \in Regens \ {a} : pc'[b] \in {"idle", "gone"} /\ b \notin Busy'
  BY DEF Alone, Moves, Busy
<1>2. OneBusy'
  BY <1>1 DEF OneBusy, Busy
<1>3. ASSUME NEW b \in Regens \ {a}
      PROVE  WriterOK(b)'
  <2>1. /\ pc'[b] \in {"idle", "gone"} /\ fd'[b] = "none"
        /\ pc'[b] = "idle" => todo'[b] = {}
    BY <1>1, <1>3 DEF Serial, WriterOK, Moves
  <2>2. QED BY <2>1 DEF WriterOK, Saving, Replaced
<1>4. \A c \in Pulls \ {a} : ReadOK(c)'
  BY <1>1, RegensAre DEF ReadOK
<1>5. QED BY <1>2, <1>3, <1>4 DEF Serial

\* A step that touches neither files nor stores, and that goes on with the
\* regenerator's scope or takes one off its list.
LEMMA QuietStep ==
  ASSUME RegenAssumption, CInv, Serial, NEW a \in Regens, Alone(a), Moves(a),
         UNCHANGED <<storeVars, file, tmp>>,
         todo'[a] \subseteq todo[a] \/ a \notin Pulls,
         \/ work'[a].cur = work[a].cur /\ work'[a].old = work[a].old
         \/ work[a].cur \notin Scopes /\ work'[a].cur \notin Scopes
         \/ /\ work[a].cur \notin Scopes /\ work'[a].cur \in todo[a]
            /\ work'[a].old = store[Owner(a)][work'[a].cur],
         a \in Busy
  PROVE  WholeOK' /\ Agree' /\ (a \in Pulls => ReadOK(a)')
<1> USE DEF storeVars
<1>1. WholeOK'
  BY DEF Serial, WholeOK
<1>2. ASSUME NEW s \in Scopes
      PROVE  (DiskOK(s) \/ \E j \in Jobs : work[j].cur = s)'
  <2>1. DiskOK(s)' = DiskOK(s) /\ (DiskOK(s) \/ \E j \in Jobs : work[j].cur = s)
    BY DEF DiskOK, Shown, Serial, Agree
  <2>2. ASSUME NEW j \in Jobs, work[j].cur = s
        PROVE  work'[j].cur = s
    BY <2>2, RegensAre DEF Moves
  <2>3. QED BY <2>1, <2>2
<1>3. ASSUME a \in Pulls, NEW s \in Scopes, Shown(s)'
      PROVE  (/\ s \in todo[a] => store[Gateway][s].version <= store[a][s].version
              /\ s = work[a].cur => store[Gateway][s].version <= work[a].old.version)'
  <2>1. /\ s \in todo[a] => store[Gateway][s].version <= store[a][s].version
        /\ s = work[a].cur => store[Gateway][s].version <= work[a].old.version
    BY <1>3 DEF Serial, ReadOK, Shown
  <2>2. Owner(a) = a
    BY <1>3 DEF Owner, RegenAssumption
  <2>3. QED BY <1>3, <2>1, <2>2
<1>4. QED BY <1>1, <1>2, <1>3 DEF Agree, ReadOK

\* Whoever leaves with no job's scope in work takes nothing of the gateway's with it.
LEMMA LeaveStep ==
  ASSUME RegenAssumption, CInv, Serial, NEW a \in Regens, Alone(a),
         Leave(a), UNCHANGED <<file, tmp>>, fd' = [fd EXCEPT ![a] = "none"],
         a \in Jobs => work[a].cur \notin Scopes
  PROVE  Serial'
<1> USE DEF CInv, TypeOK
<1>1. pc'[a] = "gone" /\ fd'[a] = "none" /\ Moves(a)
  BY DEF Leave, Goto, Moves
<1>2. WriterOK(a)' /\ ReadOK(a)'
  BY <1>1 DEF WriterOK, Saving, Replaced, ReadOK, Busy
<1>3. WholeOK'
  BY DEF Serial, WholeOK
<1>4. ASSUME NEW s \in Scopes
      PROVE  (DiskOK(s) \/ \E j \in Jobs : work[j].cur = s)'
  <2>1. /\ store'[Gateway] \in {NoGraphs, store[Gateway]}
        /\ streak'[Gateway] \in {NoStreaks, streak[Gateway]}
        /\ store'[Gateway] = NoGraphs \/ streak'[Gateway] = streak[Gateway]
    BY DEF Leave, Owners
  <2>2. Shown(s)' => Shown(s) /\ store'[Gateway] = store[Gateway]
    BY <2>1 DEF Shown, NoGraphs
  <2>3. ASSUME NEW j \in Jobs, work[j].cur = s
        PROVE  work'[j].cur = s
    BY <1>1, <2>3, RegensAre DEF Moves
  <2>4. DiskOK(s) => DiskOK(s)'
    BY <2>2 DEF DiskOK
  <2>5. QED BY <2>3, <2>4 DEF Serial, Agree
<1>5. Agree'
  BY <1>4 DEF Agree
<1>6. QED BY <1>1, <1>2, <1>3, <1>5, SerialStep

LEMMA FailsStep ==
  ASSUME RegenAssumption, CInv, JInv, Serial, NEW a \in Regens, Alone(a),
         pc[a] \in ScopeSteps, Fails(a), fd' = [fd EXCEPT ![a] = "none"]
  PROVE  Serial'
<1> USE DEF CInv, TypeOK
<1>1. UNCHANGED <<file, tmp>> /\ a \in Busy
  BY DEF Fails, Busy, ScopeSteps
<1>2. CASE Leave(a)
  <2>1. a \in Jobs => work[a].cur \notin Scopes
    BY <1>2 DEF Fails, Leave, Retry, TryScope, Goto, JInv, JobOK, ScopesOK, RegenAssumption, Paths
  <2>2. QED BY <1>1, <1>2, <2>1, LeaveStep
<1>3. CASE work[a].cur # NoScope /\ Retry(a) /\ UNCHANGED <<todo, storeVars>>
  <2>1. /\ pc'[a] = "llm" /\ fd'[a] = "none" /\ todo'[a] = todo[a]
        /\ work'[a].cur = work[a].cur /\ work'[a].old = work[a].old
        /\ Moves(a)
    BY <1>3 DEF Retry, TryScope, Goto, Moves
  <2>2. WriterOK(a)'
    BY <2>1 DEF WriterOK, Saving, Replaced
  <2>3. WholeOK' /\ Agree' /\ (a \in Pulls => ReadOK(a)')
    BY <1>1, <1>3, <2>1, QuietStep
  <2>4. QED BY <2>1, <2>2, <2>3, SerialStep
<1>4. CASE work[a].cur # NoScope /\ Goto(a, "fallback") /\ UNCHANGED <<todo, work, storeVars>>
  <2>1. /\ pc'[a] = "fallback" /\ fd'[a] = "none" /\ todo'[a] = todo[a]
        /\ work'[a].cur = work[a].cur /\ work'[a].old = work[a].old
        /\ Moves(a)
    BY <1>4 DEF Goto, Moves
  <2>2. WriterOK(a)'
    BY <2>1 DEF WriterOK, Saving, Replaced
  <2>3. WholeOK' /\ Agree' /\ (a \in Pulls => ReadOK(a)')
    BY <1>1, <1>4, <2>1, QuietStep
  <2>4. QED BY <2>1, <2>2, <2>3, SerialStep
<1>5. QED BY <1>2, <1>3, <1>4 DEF Fails

\* The steps of a job, and the start of a command line process.
LEMMA SerialJobSteps ==
  ASSUME RegenAssumption, CInv, JInv, Serial, Concurrent = 1, NEW j \in Jobs,
         \/ PostRegen(j) \/ BeginPull(j) \/ PullFails(j) \/ PullSucceeds(j)
         \/ BeginRegen(j) \/ CloseJob(j)
  PROVE  Serial'
<1> USE DEF CInv, TypeOK
<1>1. j \in Regens /\ j \notin Pulls /\ Alone(j)
  BY RegensAre, IsAlone
  DEF RegenAssumption, Serial, PostRegen, BeginPull, PullFails, PullSucceeds, BeginRegen, CloseJob
<1>2. CASE PullFails(j) \/ CloseJob(j)
  <2>1. /\ Leave(j) /\ UNCHANGED <<file, tmp, fd>>
        /\ work[j].cur \notin Scopes /\ fd[j] = "none"
    BY <1>1, <1>2 DEF PullFails, CloseJob, fsVars, Places, PlaceOK, ScopeSteps, Serial, WriterOK
  <2>2. fd' = [fd EXCEPT ![j] = "none"]
    BY <1>1, <2>1
  <2>3. QED BY <1>1, <2>1, <2>2, LeaveStep
<1>3. CASE PostRegen(j) \/ BeginPull(j) \/ PullSucceeds(j) \/ BeginRegen(j)
  <2>1. /\ UNCHANGED <<storeVars, file, tmp, fd, work>>
        /\ pc'[j] \in {"pull", "pulling", "begin", "next", "closing"}
        /\ Moves(j)
    BY <1>1, <1>3 DEF PostRegen, BeginPull, PullSucceeds, BeginRegen, fsVars, Goto, Moves
  <2>2. fd[j] = "none"
    BY <1>1, <1>3 DEF PostRegen, BeginPull, PullSucceeds, BeginRegen, Serial, WriterOK,
       JInv, JobOK, StatusOK
  <2>3. WriterOK(j)'
    BY <2>1, <2>2 DEF WriterOK, Saving, Replaced
  <2>4. WholeOK'
    BY <2>1 DEF Serial, WholeOK
  <2>5. Agree'
    BY <2>1 DEF Serial, Agree, DiskOK, Shown, storeVars
  <2>6. QED BY <1>1, <2>1, <2>3, <2>4, <2>5, SerialStep
<1>4. QED BY <1>2, <1>3

LEMMA SerialPullStarts ==
  ASSUME RegenAssumption, CInv, JInv, Serial, Concurrent = 1, NEW c \in Pulls,
         StartPull(c) \/ _write_fallback_index(c)
  PROVE  Serial'
<1> USE DEF CInv, TypeOK
<1>1. /\ c \in Regens /\ c \notin Jobs /\ Alone(c) /\ pc[c] = "idle" /\ fd[c] = "none"
      /\ todo[c] = {} /\ work[c].cur \notin Scopes
      /\ \A j \in Jobs, s \in Scopes : work[j].cur # s
  <2>1. c \in Regens /\ c \notin Jobs /\ Alone(c) /\ pc[c] = "idle"
    BY RegensAre, IsAlone DEF RegenAssumption, Serial, StartPull, _write_fallback_index
  <2>2. \A a \in Regens : work[a].cur \notin Scopes
    BY <2>1 DEF Places, PlaceOK, ScopeSteps, Alone
  <2>3. QED BY <2>1, <2>2, RegensAre DEF Serial, WriterOK
<1>2. \A s \in Scopes : DiskOK(s)
  BY <1>1 DEF Serial, Agree
<1>3. UNCHANGED <<file, tmp, fd>> /\ Moves(c)
  BY DEF StartPull, _write_fallback_index, fsVars, Goto, Moves, Save
<1>4. store'[Gateway] = store[Gateway] /\ streak'[Gateway] = streak[Gateway]
  BY DEF StartPull, _write_fallback_index, RegenAssumption, Owners, storeVars
<1>5. WholeOK' /\ Agree'
  BY <1>2, <1>3, <1>4 DEF Serial, WholeOK, Agree, DiskOK, Shown
<1>6. CASE StartPull(c)
  <2>1. WriterOK(c)'
    BY <1>1, <1>6 DEF StartPull, Goto, fsVars, WriterOK, Saving, Replaced
  <2>2. ASSUME NEW s \in Scopes, Shown(s)
        PROVE  store[Gateway][s].version <= store'[c][s].version
    <3>1. file[s].of[s] # NoGraph /\ store[Gateway][s].version <= file[s].of[s].version
      BY <1>2, <2>2 DEF DiskOK, Graph, Content, Paths, Owners
    <3>2. file[s].kind = "whole"
      <4>1. file[s] # Absent
        BY <3>1 DEF Absent, NoGraphs
      <4>2. file[s] = Whole(file[s].of)
        BY <4>1 DEF Serial, WholeOK, Paths
      <4>3. QED BY <4>2 DEF Whole
    <3>3. store'[c][s] = file[s].of[s]
      BY <1>6, <3>2 DEF StartPull, Owners
    <3>4. QED BY <3>1, <3>3
  <2>3. work' = work
    BY <1>6 DEF StartPull
  <2>4. ReadOK(c)'
    BY <1>1, <1>4, <2>2, <2>3 DEF ReadOK, Shown
  <2>5. QED BY <1>1, <1>3, <1>5, <2>1, <2>4, SerialStep
<1>7. CASE _write_fallback_index(c)
  <2>1. /\ pc'[c] = "open" /\ todo'[c] = {} /\ fd'[c] = "none"
        /\ work'[c].path = Index /\ work'[c].cur = NoScope
    BY <1>1, <1>7 DEF _write_fallback_index, Save, Goto, fsVars, Work
  <2>2. WriterOK(c)'
    BY <2>1 DEF WriterOK, Saving, Replaced
  <2>3. ReadOK(c)'
    BY <2>1 DEF ReadOK, RegenAssumption, Paths
  <2>4. QED BY <1>1, <1>3, <1>5, <2>2, <2>3, SerialStep
<1>8. QED BY <1>6, <1>7

\* From scope to scope.
LEMMA SerialScopeSteps ==
  ASSUME RegenAssumption, CInv, JInv, Serial, NEW a \in Regens, Alone(a),
         TreeFails(a) \/ NextScope(a) \/ NoScopeLeft(a)
  PROVE  Serial'
<1> USE DEF CInv, TypeOK
<1>1. /\ pc[a] = "next" /\ a \in Busy /\ fd[a] = "none" /\ work[a].cur \notin Scopes
      /\ UNCHANGED <<file, tmp, fd>> /\ todo[a] \subseteq Scopes
  BY DEF TreeFails, NextScope, NoScopeLeft, fsVars, Busy, Serial, WriterOK, Places, PlaceOK,
     ScopeSteps
<1>2. CASE Leave(a)
  <2>1. fd' = [fd EXCEPT ![a] = "none"]
    BY <1>1
  <2>2. QED BY <1>1, <1>2, <2>1, LeaveStep
<1>3. CASE ~Leave(a)
  <2>1. /\ UNCHANGED storeVars /\ Moves(a)
        /\ pc'[a] \in {"next", "closing", "llm"} /\ todo'[a] \subseteq todo[a]
        /\ \/ work'[a].cur = work[a].cur /\ work'[a].old = work[a].old
           \/ /\ work'[a].cur \in todo[a]
              /\ work'[a].old = store[Owner(a)][work'[a].cur]
    <3>1. CASE TreeFails(a)
      BY <1>1, <1>3, <3>1 DEF TreeFails, Moves
    <3>2. CASE NextScope(a)
      BY <1>1, <3>2 DEF NextScope, TryScope, Goto, Moves
    <3>3. CASE NoScopeLeft(a)
      BY <1>1, <1>3, <3>3 DEF NoScopeLeft, Goto, Moves
    <3>4. QED BY <3>1, <3>2, <3>3
  <2>2. WriterOK(a)'
    BY <1>1, <2>1 DEF WriterOK, Saving, Replaced
  <2>3. WholeOK' /\ Agree' /\ (a \in Pulls => ReadOK(a)')
    BY <1>1, <2>1, QuietStep
  <2>4. QED BY <2>1, <2>2, <2>3, SerialStep
<1>4. QED BY <1>2, <1>3

\* The steps of a scope that write neither a file nor a store.
LEMMA SerialDrawSteps ==
  ASSUME RegenAssumption, CInv, JInv, Serial, NEW a \in Regens, Alone(a),
         \/ LlmAnswers(a) \/ LlmFails(a) \/ WriteCards(a) \/ ReadIndex(a) \/ DiskFails(a)
  PROVE  Serial'
<1> USE DEF CInv, TypeOK
<1>1. pc[a] \in ScopeSteps /\ a \in Busy
  BY DEF LlmAnswers, LlmFails, WriteCards, ReadIndex, DiskFails, ScopeSteps, Busy
<1>2. CASE Fails(a) /\ pc[a] # "write"
  <2>1. fd' = [fd EXCEPT ![a] = "none"]
    <3>1. fd[a] = "none"
      BY <1>2 DEF Serial, WriterOK
    <3>2. fd' = [fd EXCEPT ![a] = "none"] \/ UNCHANGED fd
      BY DEF LlmAnswers, LlmFails, WriteCards, ReadIndex, DiskFails, fsVars
    <3>3. QED BY <3>1, <3>2
  <2>2. QED BY <1>1, <1>2, <2>1, FailsStep
<1>3. CASE DiskFails(a)
  BY <1>1, <1>3, FailsStep DEF DiskFails
<1>4. CASE LlmAnswers(a) \/ WriteCards(a) \/ (ReadIndex(a) /\ ~Fails(a))
  <2>1. /\ UNCHANGED <<storeVars, file, tmp, fd>> /\ Moves(a) /\ todo'[a] = todo[a]
        /\ work'[a].cur = work[a].cur /\ work'[a].old = work[a].old
        /\ pc'[a] \in {"open", "index"} /\ fd'[a] = "none"
    BY <1>1, <1>4 DEF LlmAnswers, WriteCards, ReadIndex, Save, Goto, Moves, fsVars, Serial, WriterOK
  <2>2. work[a].cur \in Scopes
    BY <1>4 DEF LlmAnswers, WriteCards, ReadIndex, Places, PlaceOK, ScopeSteps
  <2>3. WriterOK(a)'
    <3>1. CASE LlmAnswers(a)
      <4>1. /\ pc'[a] = "open" /\ work'[a].path = work[a].cur
            /\ work'[a].draft[work[a].cur] = Mine(a)
        BY <2>2, <3>1, NoGraphType DEF LlmAnswers, Save, Goto, Mine
      <4>2. work[a].cur # Index /\ Mine(a)' = Mine(a)
        BY <2>1, <2>2 DEF RegenAssumption, Mine
      <4>3. QED BY <2>1, <2>2, <4>1, <4>2 DEF WriterOK, Saving, Replaced
    <3>2. CASE WriteCards(a)
      <4>1. pc[a] = "cards" /\ pc'[a] = "index"
        BY <3>2 DEF WriteCards, Goto
      <4>2. file[work[a].cur].of[work[a].cur] = Mine(a) /\ Mine(a)' = Mine(a)
        BY <2>1, <4>1 DEF Serial, WriterOK, Replaced, Mine
      <4>3. QED BY <2>1, <4>1, <4>2 DEF WriterOK, Saving
    <3>3. CASE ReadIndex(a) /\ ~Fails(a)
      <4>1. pc[a] = "index" /\ pc'[a] = "open" /\ work'[a].path = Index
        BY <3>3 DEF ReadIndex, Save, Goto
      <4>2. file[work[a].cur].of[work[a].cur] = Mine(a) /\ Mine(a)' = Mine(a)
        BY <2>1, <4>1 DEF Serial, WriterOK, Replaced, Mine
      <4>3. QED BY <2>1, <4>1, <4>2 DEF WriterOK, Saving
    <3>4. QED BY <1>4, <3>1, <3>2, <3>3
  <2>4. WholeOK' /\ Agree' /\ (a \in Pulls => ReadOK(a)')
    BY <1>1, <2>1, QuietStep
  <2>5. QED BY <2>1, <2>3, <2>4, SerialStep
<1>5. QED BY <1>2, <1>3, <1>4 DEF LlmFails, ReadIndex

\* The steps of _atomic_write_json.
LEMMA SerialOpen ==
  ASSUME RegenAssumption, CInv, JInv, Serial, NEW a \in Regens, Alone(a), Open(a) \/ Write(a)
  PROVE  Serial'
<1> USE DEF CInv, TypeOK
<1> DEFINE P == work[a].path
<1>1. P \in Paths /\ a \in Busy /\ Moves(a) /\ UNCHANGED <<storeVars, todo, work>>
  BY DEF Open, Write, Goto, Moves, Busy, Work
<1>2. /\ UNCHANGED file
      /\ \/ pc'[a] = "write" /\ fd'[a] = "tmp" /\ tmp'[P] = Empty
         \/ pc'[a] = "replace" /\ fd'[a] = "none" /\ tmp'[P] = Whole(work[a].draft)
  <2>1. CASE Open(a)
    BY <1>1, <2>1 DEF Open, Goto
  <2>2. CASE Write(a)
    <3>1. fd[a] = "tmp" /\ tmp[P] = Empty
      BY <2>2 DEF Write, Serial, WriterOK
    <3>2. Blend(tmp[P], work[a].draft) = {Whole(work[a].draft)}
      BY <3>1 DEF Blend, Empty
    <3>3. QED BY <1>1, <2>2, <3>1, <3>2 DEF Write, Goto
  <2>3. QED BY <2>1, <2>2
<1>3. WriterOK(a)'
  <2>1. /\ Saving(a) /\ Mine(a)' = Mine(a)
        /\ Replaced(a)' = Replaced(a)
    BY <1>1, <1>2 DEF Open, Write, Saving, Mine, Replaced
  <2>2. QED BY <1>1, <1>2, <2>1 DEF Serial, WriterOK
<1>4. WholeOK' /\ Agree'
  BY <1>1, <1>2 DEF Serial, WholeOK, Agree, DiskOK, Shown, storeVars
<1>5. a \in Pulls => ReadOK(a)'
  BY <1>1 DEF Serial, ReadOK, Shown, storeVars
<1>6. QED BY <1>1, <1>3, <1>4, <1>5, SerialStep

LEMMA SerialReplace ==
  ASSUME RegenAssumption, CInv, JInv, Serial, NEW a \in Regens, Alone(a), Replace(a)
  PROVE  Serial'
<1> USE DEF CInv, TypeOK
<1> DEFINE P == work[a].path
<1>0. /\ P \in Paths /\ a \in Busy /\ pc[a] = "replace" /\ fd[a] = "none"
      /\ tmp[P] = Whole(work[a].draft)
  BY DEF Replace, Busy, Work, Serial, WriterOK
<1>1. /\ P \in Paths /\ a \in Busy /\ pc[a] = "replace" /\ fd[a] = "none"
      /\ tmp[P] = Whole(work[a].draft) /\ tmp[P].kind = "whole"
  BY <1>0 DEF Whole
<1>2. /\ file' = [file EXCEPT ![P] = Whole(work[a].draft)]
      /\ \/ work[a].cur = NoScope /\ Leave(a)
         \/ /\ work[a].cur # NoScope
            /\ Goto(a, IF work[a].path = Index THEN "put" ELSE "cards")
            /\ UNCHANGED <<storeVars, todo, work>>
      /\ fd' = [b \in Regens |-> Moved(b, P)]
  BY <1>1 DEF Replace
<1>3. Moves(a) /\ fd'[a] = "none"
  <2>1. \A b \in Regens : fd[b] = "none"
    BY <1>1 DEF Alone, Serial, WriterOK
  <2>2. \A b \in Regens : fd'[b] = "none"
    BY <1>2, <2>1 DEF Moved
  <2>3. QED BY <1>2, <2>1, <2>2 DEF Moves, Leave, Goto
<1>4. WholeOK'
  BY <1>1, <1>2 DEF Serial, WholeOK, Whole
<1>5. CASE work[a].cur = NoScope
  <2>1. P = Index /\ a \notin Jobs /\ \A s \in Scopes : file'[s] = file[s]
    <3>1. P = Index
      BY <1>1, <1>5 DEF Serial, WriterOK, Saving, RegenAssumption, Paths
    <3>2. a \notin Jobs
      BY <1>1, <1>5 DEF JInv, JobOK, ScopesOK, ScopeSteps, RegenAssumption, Paths
    <3>3. QED BY <1>2, <3>1, <3>2 DEF RegenAssumption, Paths
  <2>2. /\ pc'[a] = "gone"
        /\ store'[Gateway] = store[Gateway] /\ streak'[Gateway] = streak[Gateway]
    <3>1. a # Gateway
      BY <2>1 DEF Regens, RegenAssumption
    <3>2. QED BY <1>2, <1>5, <3>1 DEF Leave, Goto, Owners
  <2>3. WriterOK(a)' /\ ReadOK(a)'
    BY <1>3, <2>2 DEF WriterOK, Saving, Replaced, ReadOK, Busy
  <2>4. \A j \in Jobs : work'[j] = work[j]
    BY <1>3, <2>1, RegensAre DEF Moves
  <2>5. Agree'
    <3>1. \A s \in Scopes : DiskOK(s) => DiskOK(s)'
      BY <2>1, <2>2 DEF DiskOK, Shown
    <3>2. QED BY <2>4, <3>1 DEF Serial, Agree
  <2>6. QED BY <1>3, <1>4, <2>3, <2>5, SerialStep
<1>6. CASE work[a].cur # NoScope
  <2> DEFINE S == work[a].cur
  <2>1. S \in Scopes /\ UNCHANGED <<storeVars, todo, work>> /\ Mine(a)' = Mine(a)
    BY <1>2, <1>6 DEF Work, Mine
  <2>2. pc'[a] = IF P = Index THEN "put" ELSE "cards"
    BY <1>2, <1>6 DEF Goto
  <2>3. \/ /\ P = S /\ S # Index /\ work[a].draft[S] = Mine(a)
        \/ /\ P = Index /\ S # Index /\ file[S].of[S] = Mine(a)
    BY <1>1, <1>6, <2>1 DEF Serial, WriterOK, Saving, Replaced, RegenAssumption
  <2>4. file'[S].of[S] = Mine(a) /\ \A s \in Scopes \ {S} : file'[s] = file[s]
    BY <1>1, <1>2, <2>1, <2>3 DEF Whole, RegenAssumption, Paths
  <2>5. WriterOK(a)'
    BY <1>3, <2>1, <2>2, <2>4 DEF WriterOK, Saving
  <2>6. ASSUME NEW s \in Scopes
        PROVE  (DiskOK(s) \/ \E j \in Jobs : work[j].cur = s)'
    <3>1. CASE s # S \/ a \in Jobs
      BY <2>1, <2>4, <3>1 DEF Serial, Agree, DiskOK, Shown, storeVars
    <3>2. CASE s = S /\ a \in Pulls
      <4>1. Shown(s) => store[Gateway][s].version <= work[a].old.version
        BY <1>1, <2>1, <3>2 DEF Serial, ReadOK
      <4>2. Mine(a).by \notin Jobs /\ Mine(a) # NoGraph
        BY <3>2 DEF Mine, NoGraph, RegenAssumption
      <4>3. store[Gateway][s].version \in Int /\ work[a].old.version \in Int
        BY <2>1, <3>2 DEF Work, Graph, Owners
      <4>4. Shown(s) => Mine(a).version >= store[Gateway][s].version
        BY <4>1, <4>3 DEF Mine
      <4>5. DiskOK(s)'
        BY <2>1, <2>4, <3>2, <4>2, <4>4 DEF DiskOK, Shown, storeVars
      <4>6. QED BY <4>5
    <3>3. QED BY <3>1, <3>2 DEF Regens
  <2>7. Agree'
    BY <2>6 DEF Agree
  <2>8. a \in Pulls => ReadOK(a)'
    BY <1>1, <2>1 DEF Serial, ReadOK, Shown, storeVars
  <2>9. QED BY <1>3, <1>4, <2>5, <2>7, <2>8, SerialStep
<1>7. QED BY <1>5, <1>6

\* The store gets the graph the file has got, or the graph that was there, marked stale.
LEMMA SerialPut ==
  ASSUME RegenAssumption, CInv, JInv, Serial, NEW a \in Regens, Alone(a), Put(a) \/ Fallback(a)
  PROVE  Serial'
<1> USE DEF CInv, TypeOK
<1> DEFINE S == work[a].cur
<1>1. /\ S \in Scopes /\ S \notin todo[a] /\ a \in Busy /\ fd[a] = "none"
      /\ pc[a] \in {"put", "fallback"} /\ Owner(a) \in Owners
  BY DEF Put, Fallback, Places, PlaceOK, ScopeSteps, Busy, Serial, WriterOK, Owner, Owners, Regens
<1>2. /\ UNCHANGED <<file, tmp, fd, todo>> /\ Moves(a)
      /\ pc'[a] = "next" /\ work'[a].cur = NoScope /\ NoScope \notin Scopes
  BY DEF Put, Fallback, Processed, Goto, fsVars, Moves, NoWork, RegenAssumption, Paths
<1>3. WriterOK(a)' /\ WholeOK'
  BY <1>1, <1>2 DEF WriterOK, Saving, Replaced, Serial, WholeOK
<1>4. \A o \in Owners, s \in Scopes : o # Owner(a) \/ s # S =>
        store'[o][s] = store[o][s] /\ streak'[o][s] = streak[o][s]
  BY DEF Put, Fallback
<1>5. ASSUME a \in Pulls
      PROVE  ReadOK(a)'
  <2>1. Owner(a) = a /\ a # Gateway /\ Gateway \in Owners /\ a \in Owners
    BY <1>5 DEF Owner, RegenAssumption, Owners
  <2>2. \A s \in Scopes : /\ store'[Gateway][s] = store[Gateway][s]
                          /\ streak'[Gateway][s] = streak[Gateway][s]
                          /\ s \in todo'[a] => store'[a][s] = store[a][s] /\ s \in todo[a]
    BY <1>1, <1>2, <1>4, <2>1
  <2>3. \A s \in Scopes : Shown(s)' => Shown(s)
    BY <2>2 DEF Shown
  <2>4. ReadOK(a)
    BY <1>5 DEF Serial
  <2>5. QED BY <1>1, <1>2, <2>2, <2>3, <2>4 DEF ReadOK
<1>6. ASSUME NEW s \in Scopes
      PROVE  (DiskOK(s) \/ \E j \in Jobs : work[j].cur = s)'
  <2>0. Gateway \in Owners
    BY DEF Owners
  <2>1. CASE a \in Pulls
    <3>1. Owner(a) # Gateway /\ a \notin Jobs
      BY <2>1 DEF Owner, RegenAssumption
    <3>2. \A j \in Jobs : work'[j] = work[j]
      BY <1>2, <3>1, RegensAre DEF Moves
    <3>3. DiskOK(s)' = DiskOK(s)
      BY <1>2, <1>4, <2>0, <3>1 DEF DiskOK, Shown
    <3>4. QED BY <3>2, <3>3 DEF Serial, Agree
  <2>2. CASE a \in Jobs /\ s # S
    <3>1. DiskOK(s)
      <4>1. \A j \in Jobs : work[j].cur # s
        BY <2>2, RegensAre DEF Alone, Places, PlaceOK, ScopeSteps
      <4>2. QED BY <4>1 DEF Serial, Agree
    <3>2. QED BY <1>2, <1>4, <2>0, <2>2, <3>1 DEF DiskOK, Shown
  <2>3. CASE a \in Jobs /\ s = S
    <3>1. Owner(a) = Gateway
      BY <2>3 DEF Owner
    <3>2. CASE Put(a)
      <4>1. file[S].of[S] = Mine(a)
        BY <3>2 DEF Put, Serial, WriterOK, Replaced
      <4>2. store'[Gateway][S] = Mine(a)
        BY <1>1, <2>0, <3>1, <3>2 DEF Put, Mine
      <4>3. Mine(a).version >= Mine(a).version /\ Mine(a) # NoGraph
        BY DEF Mine, NoGraph, Work, Graph, RegenAssumption
      <4>4. QED BY <1>2, <2>3, <4>1, <4>2, <4>3 DEF DiskOK
    <3>3. CASE Fallback(a)
      <4>1. streak'[Gateway][S] = streak[Gateway][S] + 1 /\ streak[Gateway][S] \in Int
            /\ streak[Gateway][S] >= 0
        BY <1>1, <2>0, <3>1, <3>3 DEF Fallback
      <4>2. QED BY <2>3, <4>1 DEF DiskOK, Shown
    <3>4. QED BY <3>2, <3>3
  <2>4. QED BY <2>1, <2>2, <2>3 DEF Regens
<1>7. Agree'
  BY <1>6 DEF Agree
<1>8. QED BY <1>2, <1>3, <1>5, <1>7, SerialStep

LEMMA SerialRestart ==
  ASSUME RegenAssumption, CInv, JInv, Serial, GatewayRestarts
  PROVE  Serial'
<1> USE DEF CInv, TypeOK
<1>1. ASSUME NEW a \in Regens
      PROVE  \/ /\ pc'[a] = pc[a] /\ todo'[a] = todo[a] /\ work'[a] = work[a] /\ fd'[a] = fd[a]
             \/ pc'[a] = "gone" /\ fd'[a] = "none"
  BY DEF GatewayRestarts
<1>2. UNCHANGED <<file, tmp>> /\ store'[Gateway] = NoGraphs
  BY DEF GatewayRestarts, Owners
<1>3. \A s \in Scopes : ~Shown(s)'
  BY <1>2 DEF Shown, NoGraphs
<1>4. OneBusy'
  BY <1>1 DEF Serial, OneBusy, Busy
<1>5. ASSUME NEW a \in Regens
      PROVE  WriterOK(a)'
  <2>1. CASE pc'[a] = "gone" /\ fd'[a] = "none"
    BY <2>1 DEF WriterOK, Saving, Replaced
  <2>2. CASE pc'[a] = pc[a] /\ todo'[a] = todo[a] /\ work'[a] = work[a] /\ fd'[a] = fd[a]
    BY <1>2, <2>2 DEF Serial, WriterOK, Saving, Replaced, Mine
  <2>3. QED BY <1>1, <2>1, <2>2
<1>6. QED
  BY <1>2, <1>3, <1>4, <1>5 DEF Serial, WholeOK, Agree, DiskOK, ReadOK

LEMMA SerialNext ==
  ASSUME RegenAssumption, CInv, JInv, Serial, Concurrent = 1, [Next]_vars
  PROVE  Serial'
<1> USE DEF CInv, TypeOK
<1>1. ASSUME NEW a \in Regens, RegenStep(a)
      PROVE  Serial'
  <2>1. pc[a] \notin {"idle", "gone"}
    BY <1>1 DEF RegenStep, TreeFails, NextScope, NoScopeLeft, LlmAnswers, LlmFails, Open, Write,
       Replace, WriteCards, ReadIndex, DiskFails, Put, Fallback
  <2>2. Alone(a)
    BY <2>1, IsAlone DEF Serial
  <2>3. QED
    BY <1>1, <2>2, SerialScopeSteps, SerialDrawSteps, SerialOpen, SerialReplace, SerialPut
    DEF RegenStep
<1>2. ASSUME NEW j \in Jobs, PostRegen(j) \/ JobStep(j)
      PROVE  Serial'
  BY <1>1, <1>2, SerialJobSteps, RegensAre DEF JobStep
<1>3. ASSUME NEW c \in Pulls, StartPull(c) \/ _write_fallback_index(c)
      PROVE  Serial'
  BY <1>3, SerialPullStarts
<1>4. ASSUME NEW c \in Pulls, PullKilled(c)
      PROVE  Serial'
  <2>1. c \in Regens /\ c \notin Jobs /\ Alone(c)
    BY <1>4, RegensAre, IsAlone DEF PullKilled, Busy, Serial, RegenAssumption
  <2>2. QED BY <1>4, <2>1, LeaveStep DEF PullKilled
<1>5. CASE UNCHANGED vars
  BY <1>5 DEF vars, storeVars, fsVars, jobVars, Serial, OneBusy, Busy, WholeOK, Agree, DiskOK,
     Shown, WriterOK, Saving, Replaced, Mine, ReadOK
<1>6. QED BY <1>1, <1>2, <1>3, <1>4, <1>5, SerialRestart, RegensAre DEF Next

LEMMA InitSerial == ASSUME RegenAssumption, Init PROVE Serial
BY DEF Init, Serial, OneBusy, Busy, WholeOK, Agree, DiskOK, Shown, NoGraphs, WriterOK, Saving,
   Replaced, ReadOK, Owners

\* The invariant of regenerations that take turns.
LEMMA SerialInductive ==
  ASSUME Concurrent = 1
  PROVE  Spec => [](CInv /\ Serial)
<1>1. Init => CInv /\ Serial
  BY InitCounts, InitSerial, RegenAssumption
<1>2. JInv /\ (CInv /\ Serial) /\ [Next]_vars => (CInv /\ Serial)'
  BY CountsStep, SerialNext, RegenAssumption
<1>3. QED BY <1>1, <1>2, Inductive, PTL DEF Spec

\* One regeneration at a time never leaves a torn file, wherever its writer
\* fails, restarts or is killed.
THEOREM SerialFilesAreWhole ==
  ASSUME Concurrent = 1
  PROVE  Spec => []FilesAreWhole
<1>1. (\A g : Whole(g).kind = "whole") /\ Absent.kind = "absent"
  BY DEF Whole, Absent
<1>2. Serial => WholeOK
  BY DEF Serial
<1>3. WholeOK => FilesAreWhole
  <2> SUFFICES ASSUME WholeOK, NEW p \in Paths
               PROVE  file[p].kind \in {"absent", "whole"}
    BY DEF FilesAreWhole
  <2>1. PICK g : file[p] = Absent \/ file[p] = Whole(g)
    BY DEF WholeOK
  <2>2. QED BY <1>1, <2>1
<1>4. QED BY <1>2, <1>3, SerialInductive, PTL

\* What the gateway shows as fresh is on the disk once nobody is at work, through
\* failed writes, retries, restarts and command line runs in between.
THEOREM SerialFreshGraphIsOnDisk ==
  ASSUME Concurrent = 1
  PROVE  Spec => []FreshGraphIsOnDisk
<1>1. CInv /\ Serial => FreshGraphIsOnDisk
  <2> SUFFICES ASSUME CInv, Serial, Busy = {}, NEW s \in Scopes
               PROVE  DiskOK(s)
    BY DEF FreshGraphIsOnDisk, DiskOK, Shown
  <2>1. \A j \in Jobs : work[j].cur # s
    BY RegensAre DEF CInv, Places, PlaceOK, ScopeSteps, Busy
  <2>2. QED BY <2>1 DEF Serial, Agree
<1>2. QED BY <1>1, SerialInductive, PTL
=============================================================================
