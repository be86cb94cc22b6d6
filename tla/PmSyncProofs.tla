---------------------------- MODULE PmSyncProofs ----------------------------
(***************************************************************************)
(* References between the rows of the synchronisation resolve, for any     *)
(* number of overlapping runs of either kind, any page size and any        *)
(* failure: what a transaction has written refers to what it sees, and     *)
(* what is committed is never taken back.  So do the types.  The cursor of *)
(* a resource whose items carry a date is a watermark when runs do not     *)
(* overlap and a listing fits in one page; the three hypotheses are        *)
(* needed, and no assumption is made on failures.                          *)
(***************************************************************************)
EXTENDS PmSync, FiniteSetTheorems, WellFoundedInduction, TLAPS

-----------------------------------------------------------------------------
(* Two tables refer to each other's keys.                                    *)

LinksTo(table, keys) == \A k \in DOMAIN table : table[k].ref \in keys

Seen(w, t) == DOMAIN tx[w][t] \cup DOMAIN rows[t]

LEMMA VisibleSeen == ASSUME NEW w, NEW t PROVE DOMAIN Visible(w, t) = Seen(w, t)
BY DEF Visible, Over, Seen

LEMMA OverLinks ==
  ASSUME NEW new, NEW old, NEW keys, LinksTo(new, keys), LinksTo(old, keys)
  PROVE  LinksTo(Over(new, old), keys)
BY DEF LinksTo, Over

-----------------------------------------------------------------------------
(* The size of a page is set once.                                           *)

SizeOK == pageSize \in PageSizes

LEMMA SizeKept == ASSUME [Next]_vars PROVE pageSize' = pageSize
<1>1. ASSUME NEW w \in Workers, Step(w) \/ Fault(w) PROVE pageSize' = pageSize
  BY <1>1 DEF Step, Fault, NextResource, FetchPage, HttpFail, LookUp, Flush, UniqueViolation,
     LockVictim, ToCursors, Commit, Kill, Rollback, Reset
<1>2. QED BY <1>1 DEF Next, Platform, PmEdit, Start, vars

LEMMA SizeIsSet == Spec => []SizeOK
<1>1. Init => SizeOK BY DEF Init, SizeOK
<1>2. SizeOK /\ [Next]_vars => SizeOK' BY SizeKept DEF SizeOK
<1>3. QED BY <1>1, <1>2, PTL DEF Spec

-----------------------------------------------------------------------------
(* The invariant                                                             *)

\* An assignment of the platform has the id of its issue.
Assignment == [at : Nat, live : BOOLEAN, valid : BOOLEAN, ref : Issues]

PlatformOK ==
  /\ clock \in Nat /\ DOMAIN pm = Resources
  /\ DOMAIN pm.assignments \subseteq Issues
  /\ \A k \in DOMAIN pm.assignments :
       pm.assignments[k] \in Assignment /\ pm.assignments[k].ref = k

\* What is fetched of one: its key is what it refers to.
Paired ==
  {i \in [key : Issues, at : Nat, valid : BOOLEAN, dated : BOOLEAN, ref : Issues] : i.ref = i.key}

FetchedOK(w) == At(w) = "assignments" => items[w] \in Seq(Paired)

RunShape(w) ==
  /\ DOMAIN tx[w] = Tables
  /\ kind[w] \in {"full", "incremental", "none"}
  /\ phase[w] \in Nat
  /\ pc[w] = "idle" => items[w] = <<>>
  /\ pc[w] = "write" => items[w] # <<>>

\* What the transaction has written refers to what it sees.
WrittenOK(w) ==
  /\ LinksTo(tx[w].issues, Seen(w, "iterations") \cup {0})
  /\ LinksTo(tx[w].assignments, Seen(w, "issues"))

\* So will what it is about to write.
PlanOK(w) ==
  pc[w] = "write" =>
    /\ At(w) = "issues" => ~ plan[w].keep /\ plan[w].row.ref \in Seen(w, "iterations") \cup {0}
    /\ At(w) = "assignments" => ~ plan[w].keep /\ plan[w].row.ref \in Seen(w, "issues")

RowsOK ==
  /\ DOMAIN rows = Tables
  /\ LinksTo(rows.issues, DOMAIN rows.iterations \cup {0})
  /\ LinksTo(rows.assignments, DOMAIN rows.issues)

FunctionsOK ==
  /\ tx = [w \in Workers |-> tx[w]]
  /\ kind = [w \in Workers |-> kind[w]]
  /\ phase = [w \in Workers |-> phase[w]]
  /\ pc = [w \in Workers |-> pc[w]]
  /\ items = [w \in Workers |-> items[w]]
  /\ plan = [w \in Workers |-> plan[w]]

RunOK(w) == RunShape(w) /\ FetchedOK(w) /\ WrittenOK(w) /\ PlanOK(w)

LInv == PlatformOK /\ RowsOK /\ FunctionsOK /\ \A w \in Workers : RunOK(w)

LEMMA LInvImplies == ASSUME LInv PROVE LinksResolve
BY DEF LInv, RowsOK, LinksTo, LinksResolve

LEMMA InitLinks == ASSUME Init PROVE LInv
<1> USE DEF Init
<1>1. PlatformOK BY DEF PlatformOK, Resources, Nothing, NoRows
<1>2. RowsOK BY DEF RowsOK, NoWrites, Tables, Resources, Nothing, NoRows, LinksTo
<1>3. FunctionsOK BY DEF FunctionsOK
<1>4. ASSUME NEW w \in Workers PROVE RunOK(w)
  <2>1. RunShape(w) BY DEF RunShape, NoWrites
  <2>2. FetchedOK(w) BY DEF FetchedOK
  <2>3. WrittenOK(w)
    BY DEF WrittenOK, NoWrites, Tables, Resources, Nothing, NoRows, LinksTo
  <2>4. PlanOK(w) BY DEF PlanOK
  <2>5. QED BY <2>1, <2>2, <2>3, <2>4 DEF RunOK
<1>5. QED BY <1>1, <1>2, <1>3, <1>4 DEF LInv

-----------------------------------------------------------------------------
(* The runs that do not move see at least what they saw before.              *)

LEMMA OthersKept ==
  ASSUME LInv, NEW w \in Workers, NEW o \in Workers, o # w,
         \A t \in Tables : DOMAIN rows[t] \subseteq DOMAIN rows'[t],
         tx'[o] = tx[o], kind'[o] = kind[o], phase'[o] = phase[o],
         pc'[o] = pc[o], items'[o] = items[o], plan'[o] = plan[o]
  PROVE  RunOK(o)'
<1>1. \A t \in Tables : Seen(o, t) \subseteq Seen(o, t)' BY DEF Seen
<1>2. At(o)' = At(o) BY DEF At
<1>3. "iterations" \in Tables /\ "issues" \in Tables BY DEF Tables, Resources
<1>4. RunOK(o) BY DEF LInv
<1>5. QED BY <1>1, <1>2, <1>3, <1>4 DEF RunOK, RunShape, FetchedOK, WrittenOK, PlanOK, LinksTo

\* A step that writes no row and leaves the transaction as it is.
LEMMA ReadingStep ==
  ASSUME LInv, NEW w \in Workers, UNCHANGED <<clock, pm, rows, tx>>, FunctionsOK',
         \A o \in Workers \ {w} : UNCHANGED <<kind[o], phase[o], pc[o], items[o], plan[o]>>,
         RunShape(w)', FetchedOK(w)', PlanOK(w)'
  PROVE  LInv'
<1>1. \A o \in Workers \ {w} : RunOK(o)' BY OthersKept
<1>2. WrittenOK(w)' BY DEF LInv, RunOK, WrittenOK, LinksTo, Seen
<1>3. PlatformOK' /\ RowsOK' BY DEF LInv, PlatformOK, RowsOK
<1>4. QED BY <1>1, <1>2, <1>3 DEF LInv, RunOK

LEMMA StartLinks ==
  ASSUME LInv, NEW w \in Workers, NEW k \in {"full", "incremental"}, Start(w, k)
  PROVE  LInv'
<1>0. RunOK(w) /\ FunctionsOK BY DEF LInv
<1>1. items'[w] = <<>> BY <1>0 DEF Start, RunOK, RunShape
<1>2. RunShape(w)' BY <1>0, <1>1 DEF Start, RunOK, RunShape, FunctionsOK
<1>3. FetchedOK(w)' BY <1>1 DEF FetchedOK
<1>4. PlanOK(w)' BY <1>0 DEF Start, PlanOK, FunctionsOK
<1>5. FunctionsOK' BY <1>0 DEF Start, FunctionsOK
<1>6. \A o \in Workers \ {w} : UNCHANGED <<kind[o], phase[o], pc[o], items[o], plan[o]>>
  BY <1>0 DEF Start, FunctionsOK
<1>7. QED BY <1>2, <1>3, <1>4, <1>5, <1>6, ReadingStep DEF Start

LEMMA NextResourceLinks == ASSUME LInv, NEW w \in Workers, NextResource(w) PROVE LInv'
<1>0. RunOK(w) /\ FunctionsOK BY DEF LInv
<1>1. items'[w] = <<>> BY DEF NextResource
<1>2. RunShape(w)' BY <1>0, <1>1 DEF NextResource, RunOK, RunShape, FunctionsOK
<1>3. FetchedOK(w)' BY <1>1 DEF FetchedOK
<1>4. PlanOK(w)' BY <1>0 DEF NextResource, PlanOK, FunctionsOK
<1>5. FunctionsOK' BY <1>0 DEF NextResource, FunctionsOK
<1>6. \A o \in Workers \ {w} : UNCHANGED <<kind[o], phase[o], pc[o], items[o], plan[o]>>
  BY <1>0 DEF NextResource, FunctionsOK
<1>7. QED BY <1>2, <1>3, <1>4, <1>5, <1>6, ReadingStep DEF NextResource

\* The items FetchPage makes of a page, when those in silent come without a date.
ItemsOf(w, page, silent) == [i \in DOMAIN page |-> ItemOf(w, page[i], silent)]

LEMMA ItemFields ==
  ASSUME NEW w, NEW k, NEW silent
  PROVE  /\ ItemOf(w, k, silent).key = k /\ ItemOf(w, k, silent).at = pm[At(w)][k].at
         /\ ItemOf(w, k, silent).valid = pm[At(w)][k].valid
         /\ k \notin silent => ItemOf(w, k, silent).dated
BY DEF ItemOf

\* A page of assignments holds items whose key is what they refer to.
LEMMA PageOK ==
  ASSUME PmSyncAssumption, PlatformOK, NEW w, At(w) = "assignments",
         NEW listing \in Listings(w), NEW silent,
         NEW m \in Nat \ {0}, NEW n \in Nat, n <= Len(listing)
  PROVE  ItemsOf(w, SubSeq(listing, m, n), silent) \in Seq(Paired)
<1> DEFINE page == SubSeq(listing, m, n)
           Item(k) == ItemOf(w, k, silent)
<1>0. At(w) = "assignments" OBVIOUS
<1>1. PICK matching \in SUBSET DOMAIN pm.assignments :
        listing \in [1..Cardinality(matching) -> matching]
  BY DEF Listings
<1>2. IsFiniteSet(matching)
  BY <1>1, FS_Subset DEF PmSyncAssumption, PlatformOK
<1>3. Cardinality(matching) \in Nat BY <1>2, FS_CardinalityType
<1>4. listing \in Seq(matching) BY <1>1, <1>3
<1>5. page \in Seq(matching) BY <1>4
<1>6. \A i \in DOMAIN page : Item(page[i]) \in Paired
  <2>1. SUFFICES ASSUME NEW k \in matching PROVE Item(k) \in Paired BY <1>5
  <2>2. pm.assignments[k] \in Assignment /\ pm.assignments[k].ref = k /\ k \in Issues
    BY <1>1 DEF PlatformOK
  <2>3. QED BY <2>2, <1>0 DEF Paired, Assignment, ItemOf
<1>7. DOMAIN page = 1..Len(page) /\ Len(page) \in Nat BY <1>5
<1> HIDE DEF page, Item
<1>8. [i \in DOMAIN page |-> Item(page[i])] \in Seq(Paired) BY <1>6, <1>7
<1>9. QED BY <1>8 DEF page, Item, ItemsOf

LEMMA FetchPageLinks ==
  ASSUME PmSyncAssumption, SizeOK, LInv, NEW w \in Workers, FetchPage(w) PROVE LInv'
<1>0. RunOK(w) /\ FunctionsOK /\ PlatformOK BY DEF LInv
<1>1. /\ pc'[w] \in {"page", "upsert"}
      /\ UNCHANGED <<clock, pm, rows, tx, kind, phase, plan>>
      /\ items' = [items EXCEPT ![w] = items'[w]]
      /\ pc' = [pc EXCEPT ![w] = pc'[w]]
  BY <1>0 DEF FetchPage, FunctionsOK
<1>2. RunShape(w)' BY <1>0, <1>1 DEF RunOK, RunShape
<1>3. FetchedOK(w)'
  <2>1. SUFFICES ASSUME At(w) = "assignments" PROVE items'[w] \in Seq(Paired)
    BY <1>1 DEF FetchedOK, At
  <2>2. items[w] \in Seq(Paired) BY <1>0, <2>1 DEF RunOK, FetchedOK
  <2> DEFINE Page(listing) ==
               SubSeq(listing, Len(items[w]) + 1,
                      IF Len(items[w]) + pageSize < Len(listing)
                        THEN Len(items[w]) + pageSize ELSE Len(listing))
  <2>3. PICK listing \in Listings(w), silent \in SUBSET MayBeSilent(w) :
          items'[w] = items[w] \o ItemsOf(w, Page(listing), silent)
    BY <1>0 DEF FetchPage, FunctionsOK, ItemsOf
  <2>4. Len(listing) \in Nat
    <3>1. PICK S \in SUBSET Issues : listing \in [1..Cardinality(S) -> S]
      BY <1>0, <2>1 DEF Listings, PlatformOK
    <3>2. Cardinality(S) \in Nat BY <3>1, FS_Subset, FS_CardinalityType DEF PmSyncAssumption
    <3>3. QED BY <3>1, <3>2
  <2>5. ItemsOf(w, Page(listing), silent) \in Seq(Paired)
    <3>1. Len(items[w]) + 1 \in Nat \ {0} BY <2>2
    <3>2. pageSize \in Nat BY DEF SizeOK, PmSyncAssumption
    <3>3. CASE Len(items[w]) + pageSize < Len(listing)
      <4>1. Len(items[w]) + pageSize \in Nat BY <2>2, <3>2
      <4>2. Page(listing) = SubSeq(listing, Len(items[w]) + 1, Len(items[w]) + pageSize)
        BY <3>3
      <4>3. Len(items[w]) + pageSize <= Len(listing) BY <2>4, <3>3, <4>1
      <4> HIDE DEF Page
      <4>4. QED BY <1>0, <2>1, <3>1, <4>1, <4>2, <4>3, PmSyncAssumption, PageOK
    <3>4. CASE ~ (Len(items[w]) + pageSize < Len(listing))
      <4>1. Page(listing) = SubSeq(listing, Len(items[w]) + 1, Len(listing)) BY <3>4
      <4>2. Len(listing) <= Len(listing) BY <2>4
      <4> HIDE DEF Page
      <4>3. QED BY <1>0, <2>1, <2>4, <3>1, <4>1, <4>2, PmSyncAssumption, PageOK
    <3>5. QED BY <3>3, <3>4
  <2> HIDE DEF Page
  <2>6. QED BY <2>2, <2>3, <2>5
<1>4. PlanOK(w)' BY <1>1 DEF PlanOK
<1>5. FunctionsOK' BY <1>0, <1>1 DEF FunctionsOK
<1>6. \A o \in Workers \ {w} : UNCHANGED <<kind[o], phase[o], pc[o], items[o], plan[o]>>
  BY <1>0, <1>1 DEF FunctionsOK
<1>7. QED BY <1>1, <1>2, <1>3, <1>4, <1>5, <1>6, ReadingStep

LEMMA HttpFailLinks == ASSUME LInv, NEW w \in Workers, HttpFail(w) PROVE LInv'
<1>0. RunOK(w) /\ FunctionsOK BY DEF LInv
<1>1. items'[w] = <<>> BY <1>0 DEF HttpFail, FunctionsOK
<1>2. RunShape(w)' BY <1>0, <1>1 DEF HttpFail, RunOK, RunShape, FunctionsOK
<1>3. FetchedOK(w)' BY <1>1 DEF FetchedOK
<1>4. PlanOK(w)' BY <1>0 DEF HttpFail, PlanOK, FunctionsOK
<1>5. FunctionsOK' BY <1>0 DEF HttpFail, FunctionsOK
<1>6. \A o \in Workers \ {w} : UNCHANGED <<kind[o], phase[o], pc[o], items[o], plan[o]>>
  BY <1>0 DEF HttpFail, FunctionsOK
<1>7. QED BY <1>2, <1>3, <1>4, <1>5, <1>6, ReadingStep DEF HttpFail

\* After the last resource the cursors are written, which refer to nothing.
LEMMA ToCursorsLinks == ASSUME LInv, NEW w \in Workers, ToCursors(w) PROVE LInv'
<1>0. RunOK(w) /\ FunctionsOK BY DEF LInv
<1>1. /\ pc[w] = "upsert" /\ UNCHANGED <<clock, pm, rows, tx, kind, pc, plan>>
      /\ phase' = [phase EXCEPT ![w] = @ + 1]
      /\ items' = [items EXCEPT ![w] = items'[w]]
  BY <1>0 DEF ToCursors, FunctionsOK
<1>2. At(w)' = "cursors" BY <1>0, <1>1 DEF ToCursors, At, Phases, RunOK, RunShape, FunctionsOK
<1>3. RunShape(w)' BY <1>0, <1>1 DEF RunOK, RunShape, FunctionsOK
<1>4. FetchedOK(w)' BY <1>2 DEF FetchedOK
<1>5. PlanOK(w)' BY <1>1 DEF PlanOK
<1>6. FunctionsOK' BY <1>0, <1>1 DEF FunctionsOK
<1>7. \A o \in Workers \ {w} : UNCHANGED <<kind[o], phase[o], pc[o], items[o], plan[o]>>
  BY <1>0, <1>1 DEF FunctionsOK
<1>8. QED BY <1>1, <1>3, <1>4, <1>5, <1>6, <1>7, ReadingStep

\* The reads of an upsert find the row that the new one will refer to.
LEMMA LookUpLinks == ASSUME LInv, NEW w \in Workers, LookUp(w) PROVE LInv'
<1>0. RunOK(w) /\ FunctionsOK BY DEF LInv
<1>1. /\ UNCHANGED <<clock, pm, rows, tx, kind, phase>>
      /\ items' = [items EXCEPT ![w] = items'[w]]
      /\ pc' = [pc EXCEPT ![w] = pc'[w]]
      /\ plan' = [plan EXCEPT ![w] = plan'[w]]
      /\ items'[w] \in {items[w], Tail(items[w])} /\ items[w] # <<>>
      /\ pc'[w] \in {"upsert", "write"}
      /\ pc'[w] = "write" => items'[w] = items[w]
  BY <1>0 DEF LookUp, FunctionsOK
<1>2. RunShape(w)' BY <1>0, <1>1 DEF RunOK, RunShape
<1>3. FetchedOK(w)'
  <2>1. At(w)' = At(w) BY <1>1 DEF At
  <2>2. ASSUME items[w] \in Seq(Paired) PROVE items'[w] \in Seq(Paired)
    <3>1. items'[w] \in {items[w], Tail(items[w])} /\ items[w] # <<>> BY <1>1
    <3>2. Tail(items[w]) \in Seq(Paired) BY <2>2, <3>1
    <3>3. QED BY <2>2, <3>1, <3>2
  <2>3. QED BY <1>0, <2>1, <2>2 DEF RunOK, FetchedOK
<1>4. PlanOK(w)'
  <2>1. SUFFICES ASSUME pc'[w] = "write"
                 PROVE  /\ At(w) = "issues" => ~ plan'[w].keep
                             /\ plan'[w].row.ref \in Seen(w, "iterations") \cup {0}
                        /\ At(w) = "assignments" => ~ plan'[w].keep
                             /\ plan'[w].row.ref \in Seen(w, "issues")
    BY <1>1 DEF PlanOK, At, Seen
  <2> DEFINE item == Head(items[w])
  <2>2. /\ ~ Skipped(w, At(w), item)
        /\ plan'[w].row = RowFor(w, At(w), item)
        /\ plan'[w].keep => At(w) = "cursors"
    BY <1>0, <2>1 DEF LookUp, FunctionsOK
  <2>3. CASE At(w) = "issues" BY <2>2, <2>3, VisibleSeen DEF RowFor
  <2>4. CASE At(w) = "assignments"
    <3>1. item \in Paired BY <1>0, <1>1, <2>4 DEF RunOK, FetchedOK
    <3>2. item.key \in Seen(w, "issues") BY <2>2, <2>4, VisibleSeen DEF Skipped
    <3>3. QED BY <2>2, <2>4, <3>1, <3>2 DEF RowFor, Paired
  <2>5. QED BY <2>3, <2>4
<1>5. FunctionsOK' BY <1>0, <1>1 DEF FunctionsOK
<1>6. \A o \in Workers \ {w} : UNCHANGED <<kind[o], phase[o], pc[o], items[o], plan[o]>>
  BY <1>0, <1>1 DEF FunctionsOK
<1>7. QED BY <1>1, <1>2, <1>3, <1>4, <1>5, <1>6, ReadingStep

-----------------------------------------------------------------------------
(* The steps that write                                                      *)

LEMMA FlushLinks == ASSUME LInv, NEW w \in Workers, Flush(w) PROVE LInv'
<1>0. RunOK(w) /\ FunctionsOK BY DEF LInv
<1> DEFINE t == At(w)
           k == Head(items[w]).key
           row == IF plan[w].keep THEN Visible(w, t)[k] ELSE plan[w].row
<1>1. /\ pc[w] = "write" /\ pc' = [pc EXCEPT ![w] = "upsert"]
      /\ UNCHANGED <<clock, pm, rows, kind, phase>>
      /\ items' = [items EXCEPT ![w] = Tail(@)]
      /\ plan' = [plan EXCEPT ![w] = NoPlan]
      /\ tx' = [tx EXCEPT ![w][t] = With(@, k, row)]
  BY DEF Flush
<1>2. \A o \in Workers \ {w} : RunOK(o)'
  <2>1. ASSUME NEW o \in Workers \ {w} PROVE RunOK(o)'
    <3>1. /\ tx'[o] = tx[o] /\ kind'[o] = kind[o] /\ phase'[o] = phase[o]
          /\ pc'[o] = pc[o] /\ items'[o] = items[o] /\ plan'[o] = plan[o]
      BY <1>0, <1>1 DEF FunctionsOK
    <3>2. QED BY <1>1, <3>1, OthersKept
  <2>2. QED BY <2>1
<1>3. /\ DOMAIN tx'[w] = Tables
      /\ \A s \in Tables : tx'[w][s] = IF s = t THEN With(tx[w][s], k, row) ELSE tx[w][s]
  BY <1>0, <1>1 DEF RunOK, RunShape, FunctionsOK
<1> HIDE DEF k, row
<1>4. \A s \in Tables : Seen(w, s) \subseteq Seen(w, s)'
  BY <1>1, <1>3 DEF Seen, With, Over
<1>5. {"iterations", "issues", "assignments"} \subseteq Tables BY DEF Tables, Resources
<1>6. WrittenOK(w)'
  <2>1. LinksTo(tx'[w].issues, Seen(w, "iterations")' \cup {0})
    <3>1. LinksTo(tx[w].issues, Seen(w, "iterations")' \cup {0})
      BY <1>0, <1>4, <1>5 DEF RunOK, WrittenOK, LinksTo
    <3>2. CASE t # "issues" BY <1>3, <1>5, <3>1, <3>2
    <3>3. CASE t = "issues"
      <4>1. row.ref \in Seen(w, "iterations")' \cup {0}
        BY <1>0, <1>1, <1>4, <1>5, <3>3 DEF RunOK, PlanOK, row
      <4>2. tx'[w].issues = With(tx[w].issues, k, row) BY <1>3, <1>5, <3>3
      <4>3. QED BY <3>1, <4>1, <4>2 DEF LinksTo, With, Over
    <3>4. QED BY <3>2, <3>3
  <2>2. LinksTo(tx'[w].assignments, Seen(w, "issues")')
    <3>1. LinksTo(tx[w].assignments, Seen(w, "issues")')
      BY <1>0, <1>4, <1>5 DEF RunOK, WrittenOK, LinksTo
    <3>2. CASE t # "assignments" BY <1>3, <1>5, <3>1, <3>2
    <3>3. CASE t = "assignments"
      <4>1. row.ref \in Seen(w, "issues")'
        BY <1>0, <1>1, <1>4, <1>5, <3>3 DEF RunOK, PlanOK, row
      <4>2. tx'[w].assignments = With(tx[w].assignments, k, row) BY <1>3, <1>5, <3>3
      <4>3. QED BY <3>1, <4>1, <4>2 DEF LinksTo, With, Over
    <3>4. QED BY <3>2, <3>3
  <2>3. QED BY <2>1, <2>2 DEF WrittenOK
<1>7. RunShape(w)' BY <1>0, <1>1, <1>3 DEF RunOK, RunShape, FunctionsOK
<1>8. FetchedOK(w)'
  <2>1. items'[w] = Tail(items[w]) /\ items[w] # <<>> /\ At(w)' = At(w)
    BY <1>0, <1>1 DEF RunOK, RunShape, FunctionsOK, At
  <2>2. QED BY <1>0, <2>1 DEF RunOK, FetchedOK
<1>9. PlanOK(w)' BY <1>0, <1>1 DEF PlanOK, FunctionsOK
<1>10. FunctionsOK' BY <1>0, <1>1 DEF FunctionsOK
<1>11. PlatformOK' /\ RowsOK' BY <1>1 DEF LInv, PlatformOK, RowsOK
<1>12. QED BY <1>2, <1>6, <1>7, <1>8, <1>9, <1>10, <1>11 DEF LInv, RunOK

\* The run that is over holds nothing.
LEMMA ResetLinks ==
  ASSUME LInv, NEW w \in Workers, Reset(w), RowsOK',
         \A t \in Tables : DOMAIN rows[t] \subseteq DOMAIN rows'[t]
  PROVE  LInv'
<1>0. RunOK(w) /\ FunctionsOK BY DEF LInv
<1>1. \A o \in Workers \ {w} : RunOK(o)'
  <2>1. ASSUME NEW o \in Workers \ {w} PROVE RunOK(o)'
    <3>1. /\ tx'[o] = tx[o] /\ kind'[o] = kind[o] /\ phase'[o] = phase[o]
          /\ pc'[o] = pc[o] /\ items'[o] = items[o] /\ plan'[o] = plan[o]
      BY <1>0 DEF Reset, FunctionsOK
    <3>2. QED BY <3>1, OthersKept
  <2>2. QED BY <2>1
<1>2. /\ tx'[w] = NoWrites /\ kind'[w] = "none" /\ phase'[w] = 0
      /\ pc'[w] = "idle" /\ items'[w] = <<>>
  BY <1>0 DEF Reset, FunctionsOK
<1>3. RunShape(w)' BY <1>2 DEF RunShape, NoWrites
<1>4. FetchedOK(w)' BY <1>2 DEF FetchedOK
<1>5. WrittenOK(w)'
  BY <1>2 DEF WrittenOK, NoWrites, Tables, Resources, Nothing, NoRows, LinksTo
<1>6. PlanOK(w)' BY <1>2 DEF PlanOK
<1>7. FunctionsOK' BY <1>0 DEF Reset, FunctionsOK
<1>8. PlatformOK' BY DEF LInv, Reset, PlatformOK
<1>9. QED BY <1>1, <1>3, <1>4, <1>5, <1>6, <1>7, <1>8 DEF LInv, RunOK

\* What is committed is the old rows and those the transaction wrote over them.
LEMMA CommitLinks == ASSUME LInv, NEW w \in Workers, Commit(w) PROVE LInv'
<1>0. RunOK(w) /\ RowsOK BY DEF LInv
<1>1. rows' = [t \in Tables |-> Visible(w, t)] /\ Reset(w) BY DEF Commit
<1>2. \A t \in Tables : DOMAIN rows'[t] = Seen(w, t) BY <1>1, VisibleSeen
<1>3. \A t \in Tables : DOMAIN rows[t] \subseteq DOMAIN rows'[t] BY <1>2 DEF Seen
<1>4. {"iterations", "issues", "assignments"} \subseteq Tables BY DEF Tables, Resources
<1>5. LinksTo(Visible(w, "issues"), Seen(w, "iterations") \cup {0})
  <2>1. LinksTo(rows.issues, Seen(w, "iterations") \cup {0})
    BY <1>0 DEF RowsOK, LinksTo, Seen
  <2>2. QED BY <1>0, <2>1, OverLinks DEF RunOK, WrittenOK, Visible
<1>6. LinksTo(Visible(w, "assignments"), Seen(w, "issues"))
  <2>1. LinksTo(rows.assignments, Seen(w, "issues")) BY <1>0 DEF RowsOK, LinksTo, Seen
  <2>2. QED BY <1>0, <2>1, OverLinks DEF RunOK, WrittenOK, Visible
<1>7. RowsOK' BY <1>1, <1>2, <1>4, <1>5, <1>6 DEF RowsOK
<1>8. QED BY <1>1, <1>3, <1>7, ResetLinks

LEMMA RollbackLinks == ASSUME LInv, NEW w \in Workers, Rollback(w) PROVE LInv'
<1>1. RowsOK' BY DEF LInv, Rollback, RowsOK
<1>2. QED BY <1>1, ResetLinks DEF Rollback

\* The platform changes its own records only.
LEMMA PlatformLinks == ASSUME LInv, Platform PROVE LInv'
<1>1. PICK r \in Resources, live \in BOOLEAN, valid \in BOOLEAN :
        \E k \in Keys(r), ref \in Iterations \cup Issues \cup {0} : PmEdit(r, k, live, valid, ref)
  BY DEF Platform
<1>2. PICK k \in Keys(r), ref \in Iterations \cup Issues \cup {0} : PmEdit(r, k, live, valid, ref)
  BY <1>1
<1> DEFINE rec == [at |-> clock + 1, live |-> live, valid |-> valid, ref |-> ref]
<1>3. /\ clock' = clock + 1 /\ UNCHANGED <<rows, tx, kind, phase, pc, items, plan>>
      /\ pm' = [pm EXCEPT ![r] = With(@, k, rec)]
      /\ r = "assignments" => ref = k
  BY <1>2 DEF PmEdit, run
<1>4. PlatformOK'
  <2>0. PlatformOK BY DEF LInv
  <2>1. clock' \in Nat /\ DOMAIN pm' = Resources BY <1>3, <2>0 DEF PlatformOK
  <2>2. CASE r # "assignments"
    <3>1. pm'.assignments = pm.assignments BY <1>3, <2>0, <2>2 DEF PlatformOK, Resources
    <3>2. QED BY <2>0, <2>1, <3>1 DEF PlatformOK
  <2>3. CASE r = "assignments"
    <3>1. k \in Issues /\ ref = k BY <1>3, <2>3 DEF Keys
    <3>2. rec \in Assignment /\ rec.ref = k BY <2>0, <3>1 DEF PlatformOK, Assignment
    <3> HIDE DEF rec
    <3>3. pm'.assignments = With(pm.assignments, k, rec)
      BY <1>3, <2>0, <2>3 DEF PlatformOK, Resources
    <3>4. /\ DOMAIN pm'.assignments = DOMAIN pm.assignments \cup {k}
          /\ \A x \in DOMAIN pm'.assignments :
               pm'.assignments[x] = IF x = k THEN rec ELSE pm.assignments[x]
      BY <3>3 DEF With, Over
    <3>5. QED BY <2>0, <2>1, <3>1, <3>2, <3>4 DEF PlatformOK
  <2>4. QED BY <2>2, <2>3
<1>5. RowsOK' /\ FunctionsOK' BY <1>3 DEF LInv, RowsOK, FunctionsOK
<1>6. \A w \in Workers : RunOK(w)'
  BY <1>3 DEF LInv, RunOK, RunShape, FetchedOK, WrittenOK, PlanOK, At, Seen, LinksTo
<1>7. QED BY <1>4, <1>5, <1>6 DEF LInv

-----------------------------------------------------------------------------
(* A committed assignment is of a committed issue, and a committed issue     *)
(* names a committed iteration or none, whatever overlaps, fails or dies:    *)
(* the two-phase resolution of upsert.py is sound under read committed.      *)
THEOREM LinksAreKept == Spec => []LinksResolve
<1>1. Init => LInv BY InitLinks
<1>2. SizeOK /\ LInv /\ [Next]_vars => LInv'
  <2>1. ASSUME LInv, UNCHANGED vars PROVE LInv'
    BY <2>1 DEF vars, run, LInv, PlatformOK, RowsOK, FunctionsOK, RunOK, RunShape, FetchedOK,
       WrittenOK, PlanOK, At, Seen, LinksTo
  <2>2. ASSUME SizeOK, LInv, NEW w \in Workers, Step(w) PROVE LInv'
    BY <2>2, PmSyncAssumption, NextResourceLinks, FetchPageLinks, LookUpLinks, FlushLinks,
       ToCursorsLinks, CommitLinks, RollbackLinks
       DEF Step, UniqueViolation, LockVictim
  <2>3. ASSUME LInv, NEW w \in Workers, Fault(w) PROVE LInv'
    BY <2>3, HttpFailLinks, RollbackLinks DEF Fault, Kill
  <2>4. QED BY <2>1, <2>2, <2>3, PlatformLinks, StartLinks DEF Next
<1>3. QED BY <1>1, <1>2, LInvImplies, SizeIsSet, PTL DEF Spec

-----------------------------------------------------------------------------
(* The newest of a batch                                                     *)

\* A set of natural numbers has a least one: the least-number principle, for
\* sets rather than predicates.
LEMMA Least ==
  ASSUME NEW T, T \subseteq Nat, T # {}
  PROVE  \E x \in T : \A y \in T : x <= y
<1> DEFINE R == OpToRel(<, Nat)
<1>1. IsWellFoundedOn(R, Nat) BY NatLessThanWellFounded
<1>2. \A a, b \in Nat : a < b => <<a, b>> \in R BY DEF R, OpToRel
<1> HIDE DEF R
<1>3. PICK x \in T : \A y \in T : ~ (<<y, x>> \in R) BY <1>1, WFMin
<1>4. \A y \in T : ~ (y < x) BY <1>2, <1>3
<1>5. QED BY <1>4

LEMMA MaxOf ==
  ASSUME NEW n \in Nat, NEW S, S \subseteq 0..n, S # {}
  PROVE  Max(S) \in S /\ \A y \in S : Max(S) >= y
<1> DEFINE T == {n - y : y \in S}
<1>0. \A y \in S : n - y \in Nat OBVIOUS
<1>1. T \subseteq Nat /\ T # {} BY <1>0
<1>2. PICK t \in T : \A u \in T : t <= u
  <2> HIDE DEF T
  <2>1. QED BY <1>1, Least
<1>3. PICK x \in S : t = n - x BY <1>2
<1>4. \A y \in S : x >= y
  <2>1. ASSUME NEW y \in S PROVE x >= y
    <3>1. n - y \in T OBVIOUS
    <3>2. n - x <= n - y BY <1>2, <1>3, <3>1
    <3>3. x \in Nat /\ y \in Nat OBVIOUS
    <3>4. QED BY <3>2, <3>3
  <2>2. QED BY <2>1
<1>5. QED BY <1>4 DEF Max

-----------------------------------------------------------------------------
(* Types                                                                     *)

Refs     == Iterations \cup Issues \cup {0}
Items(t) == [key : Keys(t), at : 0..clock, valid : BOOLEAN, dated : BOOLEAN, ref : Refs]

PmTypes ==
  /\ clock \in 0..MaxClock
  /\ DOMAIN pm = Resources
  /\ \A r \in Resources :
       /\ DOMAIN pm[r] \subseteq Keys(r)
       /\ \A k \in DOMAIN pm[r] :
            /\ pm[r][k].at \in 1..clock /\ pm[r][k].ref \in Refs
            /\ pm[r][k].valid \in BOOLEAN

\* Where a run is: it fetches and writes at a phase it has entered.
PlaceTypes(w) ==
  /\ kind[w] \in {"full", "incremental", "none"}
  /\ pc[w] \in {"idle", "page", "upsert", "write", "commit"}
  /\ phase[w] \in 0..Len(Phases(kind[w]))
  /\ pc[w] = "page" => phase[w] \in 1..(Len(Phases(kind[w])) - 1)
  /\ pc[w] = "idle" <=> kind[w] = "none"
  /\ pc[w] = "idle" => tx[w] = NoWrites /\ items[w] = <<>> /\ phase[w] = 0

\* What it holds: rows it has written, items of the resource it is at, the row
\* it is about to write, and the cursors it will write.
HeldTypes(w) ==
  /\ TablesOK(tx[w])
  /\ since[w] \in 0..clock
  /\ items[w] \in Seq(Items(At(w)))
  /\ pc[w] = "write" =>
       /\ items[w] # <<>> /\ plan[w].row \in RowType
       /\ plan[w].keep => At(w) = "cursors" /\ Head(items[w]).key \in Seen(w, "cursors")
  /\ DOMAIN curs[w] \subseteq Resources
  /\ \A r \in DOMAIN curs[w] : curs[w][r] \in 0..clock
  /\ curs[w] # Nothing => kind[w] = "incremental"

Functions2OK ==
  /\ FunctionsOK
  /\ since = [w \in Workers |-> since[w]] /\ curs = [w \in Workers |-> curs[w]]

TInv ==
  /\ PmTypes /\ TablesOK(rows) /\ Functions2OK
  /\ \A w \in Workers : PlaceTypes(w) /\ HeldTypes(w)

LEMMA PhasesAre ==
  ASSUME NEW k
  PROVE  /\ Len(Phases(k)) \in {4, 5} /\ Phases(k)[Len(Phases(k))] = "cursors"
         /\ \A i \in 1..(Len(Phases(k)) - 1) : Phases(k)[i] \in Resources \cup {"users"}
         /\ k # "full" => \A i \in 1..(Len(Phases(k)) - 1) : Phases(k)[i] \in Resources
BY DEF Phases, Resources

LEMMA TInvImplies == ASSUME SizeOK, TInv PROVE TypeOK
<1>1. \A w \in Workers : phase[w] \in 0..5
  BY PhasesAre DEF TInv, PlaceTypes
<1>2. QED BY <1>1 DEF SizeOK, TInv, PmTypes, PlaceTypes, HeldTypes, TypeOK

LEMMA InitTypes == ASSUME PmSyncAssumption, Init PROVE TInv
<1> USE DEF Init
<1>1. PmTypes
  BY DEF PmTypes, Resources, Nothing, NoRows, PmSyncAssumption
<1>2. TablesOK(NoWrites)
  BY DEF TablesOK, NoWrites, Nothing, NoRows
<1>3. Functions2OK BY DEF Functions2OK, FunctionsOK
<1>4. ASSUME NEW w \in Workers PROVE PlaceTypes(w)
  BY <1>4, PhasesAre DEF PlaceTypes
<1>5. ASSUME NEW w \in Workers PROVE HeldTypes(w)
  BY <1>2, <1>5 DEF HeldTypes, Nothing, NoRows
<1>6. QED BY <1>1, <1>2, <1>3, <1>4, <1>5 DEF TInv

\* The runs that do not move keep their types.
LEMMA OthersTyped ==
  ASSUME TInv, NEW w \in Workers, NEW o \in Workers, o # w, UNCHANGED clock,
         \A t \in Tables : DOMAIN rows[t] \subseteq DOMAIN rows'[t],
         tx'[o] = tx[o], kind'[o] = kind[o], phase'[o] = phase[o], pc'[o] = pc[o],
         since'[o] = since[o], items'[o] = items[o], plan'[o] = plan[o], curs'[o] = curs[o]
  PROVE  (PlaceTypes(o) /\ HeldTypes(o))'
<1>1. PlaceTypes(o) /\ HeldTypes(o) BY DEF TInv
<1>2. PlaceTypes(o)' BY <1>1 DEF PlaceTypes
<1>3. At(o)' = At(o) BY DEF At
<1>4. TablesOK(tx[o])' /\ (since[o] \in 0..clock)' /\ (items[o] \in Seq(Items(At(o))))'
  BY <1>1, <1>3 DEF HeldTypes, TablesOK, RowType, Items
<1>5. Seen(o, "cursors") \subseteq Seen(o, "cursors")'
  BY DEF Seen, Tables
<1>6. RowType' = RowType BY DEF RowType
<1>7. QED BY <1>1, <1>2, <1>3, <1>4, <1>5, <1>6 DEF HeldTypes

\* A step of one run.
Only(w) ==
  /\ tx' = [tx EXCEPT ![w] = tx'[w]] /\ kind' = [kind EXCEPT ![w] = kind'[w]]
  /\ phase' = [phase EXCEPT ![w] = phase'[w]] /\ pc' = [pc EXCEPT ![w] = pc'[w]]
  /\ since' = [since EXCEPT ![w] = since'[w]] /\ items' = [items EXCEPT ![w] = items'[w]]
  /\ plan' = [plan EXCEPT ![w] = plan'[w]] /\ curs' = [curs EXCEPT ![w] = curs'[w]]

LEMMA TypedStep ==
  ASSUME TInv, NEW w \in Workers, UNCHANGED <<clock, pm>>, Only(w), TablesOK(rows)',
         \A t \in Tables : DOMAIN rows[t] \subseteq DOMAIN rows'[t],
         PlaceTypes(w)', HeldTypes(w)'
  PROVE  TInv'
<1>1. Functions2OK' BY DEF TInv, Functions2OK, FunctionsOK, Only
<1>2. ASSUME NEW o \in Workers, o # w
      PROVE  (PlaceTypes(o) /\ HeldTypes(o))'
  <2>1. /\ tx'[o] = tx[o] /\ kind'[o] = kind[o] /\ phase'[o] = phase[o] /\ pc'[o] = pc[o]
        /\ since'[o] = since[o] /\ items'[o] = items[o] /\ plan'[o] = plan[o]
        /\ curs'[o] = curs[o]
    BY <1>2 DEF TInv, Functions2OK, FunctionsOK, Only
  <2>2. QED BY <1>2, <2>1, OthersTyped
<1>3. PmTypes' BY DEF TInv, PmTypes
<1>4. QED BY <1>1, <1>2, <1>3 DEF TInv

LEMMA TablesKept == ASSUME TInv, UNCHANGED <<clock, rows>> PROVE TablesOK(rows)'
BY DEF TInv, TablesOK, RowType

LEMMA TxKept ==
  ASSUME TInv, NEW w \in Workers, UNCHANGED clock, tx'[w] = tx[w] PROVE TablesOK(tx[w])'
BY DEF TInv, HeldTypes, TablesOK, RowType

LEMMA StartTypes ==
  ASSUME TInv, NEW w \in Workers, NEW k \in {"full", "incremental"}, Start(w, k)
  PROVE  TInv'
<1>0. PlaceTypes(w) /\ HeldTypes(w) /\ Functions2OK BY DEF TInv
<1>1. Only(w) /\ UNCHANGED <<clock, pm, rows>>
  BY <1>0 DEF Start, Only, Functions2OK, FunctionsOK
<1>2. /\ pc[w] = "idle" /\ pc'[w] = "upsert" /\ kind'[w] = k /\ phase'[w] = 0
      /\ items'[w] = <<>> /\ curs'[w] = Nothing /\ since'[w] = since[w] /\ tx'[w] = tx[w]
  BY <1>0 DEF Start, Functions2OK, FunctionsOK, PlaceTypes, HeldTypes
<1>3. PlaceTypes(w)' BY <1>2, PhasesAre DEF PlaceTypes
<1>4. HeldTypes(w)'
  BY <1>0, <1>1, <1>2, TxKept DEF HeldTypes, Nothing, NoRows
<1>5. QED BY <1>1, <1>3, <1>4, TypedStep, TablesKept

\* Giving the undated cursors the time leaves them cursors of the same resources.
LEMMA SettledTypes ==
  ASSUME TInv, NEW w \in Workers
  PROVE  /\ DOMAIN Settled(w) = DOMAIN curs[w] /\ DOMAIN Settled(w) \subseteq Resources
         /\ \A r \in DOMAIN Settled(w) : Settled(w)[r] \in 0..clock
         /\ Settled(w) # Nothing => kind[w] = "incremental"
<1>1. HeldTypes(w) /\ clock \in 0..clock BY DEF TInv, PmTypes
<1>2. curs[w] = Nothing => Settled(w) = Nothing BY DEF Settled, Nothing, NoRows
<1>3. QED BY <1>1, <1>2 DEF HeldTypes, Settled

LEMMA NextResourceTypes == ASSUME TInv, NEW w \in Workers, NextResource(w) PROVE TInv'
<1>0. PlaceTypes(w) /\ HeldTypes(w) /\ Functions2OK BY DEF TInv
<1>1. Only(w) /\ UNCHANGED <<clock, pm, rows>>
  BY <1>0 DEF NextResource, Only, Functions2OK, FunctionsOK
<1>2. /\ pc[w] = "upsert" /\ pc'[w] = "page" /\ kind'[w] = kind[w]
      /\ phase'[w] = phase[w] + 1 /\ phase[w] < Len(Phases(kind[w])) - 1
      /\ items'[w] = <<>> /\ curs'[w] = Settled(w) /\ tx'[w] = tx[w]
      /\ \E r : since'[w] \in {0, Cursor(r)}
  BY <1>0 DEF NextResource, Functions2OK, FunctionsOK
<1>3. PlaceTypes(w)' BY <1>0, <1>2, PhasesAre DEF PlaceTypes
<1>4. \A r : Cursor(r) \in 0..clock
  BY DEF TInv, TablesOK, Tables, RowType, Cursor, PmTypes
<1>5. (since[w] \in 0..clock)'
  BY <1>1, <1>2, <1>4 DEF TInv, PmTypes
<1>6. HeldTypes(w)'
  BY <1>0, <1>1, <1>2, <1>5, TxKept, SettledTypes DEF HeldTypes
<1>7. QED BY <1>1, <1>3, <1>6, TypedStep, TablesKept

\* A page of any resource: the listing is finite, and its items are records.
LEMMA PageTypes ==
  ASSUME PmSyncAssumption, TInv, NEW w \in Workers, pc[w] = "page",
         NEW listing \in Listings(w), NEW silent,
         NEW m \in Nat \ {0}, NEW n \in Nat, n <= Len(listing)
  PROVE  ItemsOf(w, SubSeq(listing, m, n), silent) \in Seq(Items(At(w)))
<1> DEFINE page == SubSeq(listing, m, n)
           Item(k) == ItemOf(w, k, silent)
<1>1. PICK matching : /\ listing \in [1..Cardinality(matching) -> matching]
                      /\ matching = {} \/ (At(w) # "users" /\ matching \subseteq DOMAIN pm[At(w)])
  BY DEF Listings
<1>2. IsFiniteSet(matching) /\ \A k \in matching : Item(k) \in Items(At(w))
  <2>1. CASE matching = {}
    BY <2>1, FS_EmptySet
  <2>2. CASE At(w) # "users" /\ matching \subseteq DOMAIN pm[At(w)]
    <3>1. CASE At(w) \in Resources
      <4>1. matching \subseteq Keys(At(w)) BY <2>2, <3>1 DEF TInv, PmTypes
      <4>2. IsFiniteSet(Keys(At(w)))
        BY <3>1 DEF PmSyncAssumption, Keys, Resources
      <4>3. IsFiniteSet(matching) BY <4>1, <4>2, FS_Subset
      <4>4. \A k \in matching : Item(k) \in Items(At(w))
        BY <2>2, <3>1, <4>1 DEF TInv, PmTypes, Items, Refs, ItemOf
      <4>5. QED BY <4>3, <4>4
    <3>2. At(w) \in Resources
      BY <2>2, PhasesAre DEF TInv, PlaceTypes, At
    <3>3. QED BY <3>1, <3>2
  <2>3. QED BY <1>1, <2>1, <2>2
<1>3. Cardinality(matching) \in Nat BY <1>2, FS_CardinalityType
<1>4. listing \in Seq(matching) BY <1>1, <1>3
<1>5. page \in Seq(matching) BY <1>4
<1>6. \A i \in DOMAIN page : Item(page[i]) \in Items(At(w)) BY <1>2, <1>5
<1>7. DOMAIN page = 1..Len(page) /\ Len(page) \in Nat BY <1>5
<1> HIDE DEF page, Item
<1>8. [i \in DOMAIN page |-> Item(page[i])] \in Seq(Items(At(w))) BY <1>6, <1>7
<1>9. QED BY <1>8 DEF page, Item, ItemsOf

LEMMA ListingLength ==
  ASSUME PmSyncAssumption, TInv, NEW w \in Workers, pc[w] = "page", NEW listing \in Listings(w)
  PROVE  Len(listing) \in Nat
<1>1. PICK matching : /\ listing \in [1..Cardinality(matching) -> matching]
                      /\ matching = {} \/ (At(w) # "users" /\ matching \subseteq DOMAIN pm[At(w)])
  BY DEF Listings
<1>2. IsFiniteSet(matching)
  <2>1. CASE matching = {}
    BY <2>1, FS_EmptySet
  <2>2. CASE At(w) # "users" /\ matching \subseteq DOMAIN pm[At(w)]
    <3>1. At(w) \in Resources
      BY <2>2, PhasesAre DEF TInv, PlaceTypes, At
    <3>2. matching \subseteq Keys(At(w)) /\ IsFiniteSet(Keys(At(w)))
      BY <2>2, <3>1 DEF TInv, PmTypes, PmSyncAssumption, Keys, Resources
    <3>3. QED BY <3>2, FS_Subset
  <2>3. QED BY <1>1, <2>1, <2>2
<1>3. Cardinality(matching) \in Nat BY <1>2, FS_CardinalityType
<1>4. QED BY <1>1, <1>3

\* The newest date of a batch is a time, and there is one if every item is dated.
LEMMA NewestType ==
  ASSUME TInv, NEW t, NEW s \in Seq(Items(t)), s # <<>>
  PROVE  /\ Newest(s) \in 0..clock
         /\ (\A i \in DOMAIN s : s[i].dated /\ s[i].at # 0) => Newest(s) # NoDate
<1> DEFINE S == {s[i].at : i \in {j \in DOMAIN s : s[j].dated}}
<1>1. \A i \in DOMAIN s : s[i].at \in 0..clock
  <2>1. \A i \in DOMAIN s : s[i] \in Items(t)
    OBVIOUS
  <2>2. QED BY <2>1 DEF Items
<1>2. S \subseteq 0..clock /\ clock \in Nat
  BY <1>1 DEF TInv, PmTypes
<1> DEFINE Dated == \A i \in DOMAIN s : s[i].dated /\ s[i].at # 0
<1>3. Dated => S # {} /\ 0 \notin S
  <2>1. 1 \in DOMAIN s OBVIOUS
  <2>2. QED BY <2>1
<1>4. Newest(s) = IF S = {} THEN NoDate ELSE Max(S) BY DEF Newest
<1> HIDE DEF S, Dated
<1>5. S # {} => Max(S) \in S BY <1>2, MaxOf
<1>6. Newest(s) \in 0..clock
  <2>1. CASE S = {} BY <1>2, <1>4, <2>1 DEF NoDate
  <2>2. CASE S # {}
    <3>1. Newest(s) \in S BY <1>4, <1>5, <2>2
    <3>2. QED BY <1>2, <3>1
  <2>3. QED BY <2>1, <2>2
<1>7. Dated => Newest(s) # NoDate BY <1>3, <1>4, <1>5 DEF NoDate
<1>8. QED BY <1>6, <1>7 DEF Dated

LEMMA FetchPageTypes ==
  ASSUME PmSyncAssumption, SizeOK, TInv, NEW w \in Workers, FetchPage(w) PROVE TInv'
<1>0. PlaceTypes(w) /\ HeldTypes(w) /\ Functions2OK BY DEF TInv
<1>1. /\ Only(w) /\ UNCHANGED <<clock, pm, rows>>
      /\ pc[w] = "page" /\ pc'[w] \in {"page", "upsert"} /\ kind'[w] = kind[w]
      /\ phase'[w] = phase[w] /\ tx'[w] = tx[w] /\ since'[w] = since[w]
  BY <1>0 DEF FetchPage, Only, Functions2OK, FunctionsOK
<1>2. At(w)' = At(w) BY <1>1 DEF At
<1>3. PlaceTypes(w)' BY <1>0, <1>1 DEF PlaceTypes
<1> DEFINE Page(listing) ==
             SubSeq(listing, Len(items[w]) + 1,
                    IF Len(items[w]) + pageSize < Len(listing)
                      THEN Len(items[w]) + pageSize ELSE Len(listing))
<1>4. PICK listing \in Listings(w), silent \in SUBSET MayBeSilent(w) :
        LET all == items[w] \o ItemsOf(w, Page(listing), silent)
        IN  /\ items' = [items EXCEPT ![w] = all]
            /\ IF Len(all) < Len(listing)
                 THEN UNCHANGED curs
                 ELSE curs' = IF kind[w] = "full" \/ all = <<>> THEN curs
                                ELSE [curs EXCEPT ![w] = With(@, At(w), Newest(all))]
  BY DEF FetchPage, ItemsOf
<1> DEFINE all == items[w] \o ItemsOf(w, Page(listing), silent)
<1>5. ItemsOf(w, Page(listing), silent) \in Seq(Items(At(w)))
  <2>1. Len(items[w]) + 1 \in Nat \ {0} /\ pageSize \in Nat /\ Len(listing) \in Nat
    BY <1>0, <1>1, ListingLength DEF HeldTypes, SizeOK, PmSyncAssumption
  <2>2. CASE Len(items[w]) + pageSize < Len(listing)
    <3>1. /\ Len(items[w]) + pageSize \in Nat
          /\ Len(items[w]) + pageSize <= Len(listing)
      BY <2>1, <2>2
    <3>2. Page(listing) = SubSeq(listing, Len(items[w]) + 1, Len(items[w]) + pageSize)
      BY <2>2
    <3> HIDE DEF Page
    <3>3. QED BY <1>1, <2>1, <3>1, <3>2, PageTypes
  <2>3. CASE ~ (Len(items[w]) + pageSize < Len(listing))
    <3>1. Page(listing) = SubSeq(listing, Len(items[w]) + 1, Len(listing)) BY <2>3
    <3>2. Len(listing) <= Len(listing) BY <2>1
    <3> HIDE DEF Page
    <3>3. QED BY <1>1, <2>1, <3>1, <3>2, PageTypes
  <2>4. QED BY <2>2, <2>3
<1> HIDE DEF Page
<1>6. all \in Seq(Items(At(w))) BY <1>0, <1>5 DEF HeldTypes
<1>7. items'[w] = all BY <1>0, <1>4 DEF Functions2OK, FunctionsOK
<1>8. \/ curs'[w] = curs[w]
      \/ kind[w] # "full" /\ all # <<>> /\ curs'[w] = With(curs[w], At(w), Newest(all))
  BY <1>0, <1>4 DEF Functions2OK, FunctionsOK
<1> HIDE DEF all
<1>9. /\ DOMAIN curs'[w] \subseteq Resources
      /\ \A r \in DOMAIN curs'[w] : curs'[w][r] \in 0..clock
      /\ curs'[w] # Nothing => kind[w] = "incremental"
  <2>1. CASE curs'[w] = curs[w]
    BY <1>0, <2>1 DEF HeldTypes
  <2>2. CASE kind[w] # "full" /\ all # <<>> /\ curs'[w] = With(curs[w], At(w), Newest(all))
    <3>1. Newest(all) \in 0..clock BY <1>6, <2>2, NewestType
    <3>2. At(w) \in Resources /\ kind[w] = "incremental"
      BY <1>0, <1>1, <2>2, PhasesAre DEF PlaceTypes, At
    <3>3. QED BY <1>0, <2>2, <3>1, <3>2 DEF HeldTypes, With, Over
  <2>3. QED BY <1>8, <2>1, <2>2
<1>10. HeldTypes(w)'
  <2>1. (items[w] \in Seq(Items(At(w))))' BY <1>1, <1>2, <1>6, <1>7 DEF Items
  <2>2. QED BY <1>0, <1>1, <1>9, <2>1, TxKept DEF HeldTypes
<1>11. QED BY <1>1, <1>3, <1>10, TypedStep, TablesKept

LEMMA HttpFailTypes == ASSUME TInv, NEW w \in Workers, HttpFail(w) PROVE TInv'
<1>0. PlaceTypes(w) /\ HeldTypes(w) /\ Functions2OK BY DEF TInv
<1>1. Only(w) /\ UNCHANGED <<clock, pm, rows>>
  BY <1>0 DEF HttpFail, Only, Functions2OK, FunctionsOK
<1>2. /\ pc[w] = "page" /\ pc'[w] = "commit" /\ kind'[w] = kind[w] /\ phase'[w] = phase[w]
      /\ items'[w] = <<>> /\ curs'[w] = Nothing /\ tx'[w] = tx[w] /\ since'[w] = since[w]
  BY <1>0 DEF HttpFail, Functions2OK, FunctionsOK
<1>3. PlaceTypes(w)' BY <1>0, <1>2 DEF PlaceTypes
<1>4. HeldTypes(w)' BY <1>0, <1>1, <1>2, TxKept DEF HeldTypes, Nothing, NoRows
<1>5. QED BY <1>1, <1>3, <1>4, TypedStep, TablesKept

LEMMA LookUpTypes == ASSUME TInv, NEW w \in Workers, LookUp(w) PROVE TInv'
<1>0. PlaceTypes(w) /\ HeldTypes(w) /\ Functions2OK BY DEF TInv
<1> DEFINE t == At(w)  item == Head(items[w])
<1>1. /\ Only(w) /\ UNCHANGED <<clock, pm, rows>>
      /\ pc[w] = "upsert" /\ items[w] # <<>> /\ kind'[w] = kind[w] /\ phase'[w] = phase[w]
      /\ tx'[w] = tx[w] /\ since'[w] = since[w] /\ curs'[w] = curs[w]
  BY <1>0 DEF LookUp, Only, Functions2OK, FunctionsOK
<1>2. \/ pc'[w] = "upsert" /\ items'[w] = Tail(items[w])
      \/ /\ pc'[w] = "write" /\ items'[w] = items[w]
         /\ plan'[w].row = RowFor(w, t, item)
         /\ plan'[w].keep => t = "cursors" /\ item.key \in DOMAIN Visible(w, t)
  BY <1>0 DEF LookUp, Functions2OK, FunctionsOK
<1>3. PlaceTypes(w)' BY <1>0, <1>1, <1>2 DEF PlaceTypes
<1>4. At(w)' = At(w) BY <1>1 DEF At
<1>5. (items[w] \in Seq(Items(At(w))))'
  <2>1. items[w] \in Seq(Items(t)) BY <1>0 DEF HeldTypes
  <2>2. Tail(items[w]) \in Seq(Items(t)) BY <1>1, <2>1
  <2>3. items'[w] \in Seq(Items(t)) BY <1>2, <2>1, <2>2
  <2>4. QED BY <1>1, <1>4, <2>3 DEF Items
<1>6. RowFor(w, t, item) \in RowType
  <2>1. item \in Items(t)
    <3>1. items[w] \in Seq(Items(t)) BY <1>0 DEF HeldTypes
    <3>2. QED BY <1>1, <3>1
  <2>2. QED BY <2>1 DEF Items, RowFor, RowType, Refs
<1>7. RowType' = RowType /\ Seen(w, "cursors")' = Seen(w, "cursors")
  BY <1>1 DEF RowType, Seen
<1>8. (pc[w] = "write" =>
        /\ items[w] # <<>> /\ plan[w].row \in RowType
        /\ plan[w].keep => At(w) = "cursors" /\ Head(items[w]).key \in Seen(w, "cursors"))'
  BY <1>1, <1>2, <1>4, <1>6, <1>7, VisibleSeen
<1>9. HeldTypes(w)' BY <1>0, <1>1, <1>5, <1>8, TxKept DEF HeldTypes
<1>10. QED BY <1>1, <1>3, <1>9, TypedStep, TablesKept

LEMMA ToCursorsTypes == ASSUME TInv, NEW w \in Workers, ToCursors(w) PROVE TInv'
<1>0. PlaceTypes(w) /\ HeldTypes(w) /\ Functions2OK BY DEF TInv
<1>1. /\ Only(w) /\ UNCHANGED <<clock, pm, rows>>
      /\ pc[w] = "upsert" /\ pc'[w] = "upsert" /\ kind'[w] = kind[w]
      /\ phase[w] = Len(Phases(kind[w])) - 1 /\ phase'[w] = phase[w] + 1
      /\ tx'[w] = tx[w] /\ since'[w] = since[w] /\ curs'[w] = Settled(w)
      /\ items'[w] = CursorItems(w)
  BY <1>0 DEF ToCursors, Only, Functions2OK, FunctionsOK
<1>2. PlaceTypes(w)' BY <1>0, <1>1, PhasesAre DEF PlaceTypes
<1>3. At(w)' = "cursors" BY <1>0, <1>1, PhasesAre DEF At, PlaceTypes
<1>4. CursorItems(w) \in Seq(Items("cursors"))
  <2>1. \A i \in 1..4 : Sources[i] \in Keys("cursors")
    BY DEF Sources, Keys, Range
  <2>2. {"iterations", "issues", "assignments"} \subseteq Keys("cursors")
    BY <2>1 DEF Sources
  <2>3. clock \in Nat BY DEF TInv, PmTypes
  <2>4. \A r \in Keys("cursors"), v \in 0..clock : CursorItem(r, v) \in Items("cursors")
    BY DEF CursorItem, Items, Refs
  <2>5. CASE kind[w] = "full"
    <3>1. \A i \in 1..4 : CursorItem(Sources[i], 0) \in Items("cursors")
      BY <2>1, <2>3, <2>4
    <3>2. DOMAIN Sources = 1..4 BY DEF Sources
    <3>3. [i \in 1..4 |-> CursorItem(Sources[i], 0)] \in Seq(Items("cursors"))
      BY <3>1
    <3>4. QED BY <2>5, <3>2, <3>3 DEF CursorItems
  <2>6. CASE kind[w] # "full"
    <3> DEFINE Moved(r) == IF r \in DOMAIN curs[w] THEN <<CursorItem(r, Settled(w)[r])>> ELSE <<>>
    <3>1. ASSUME NEW r \in {"iterations", "issues", "assignments"}
          PROVE  Moved(r) \in Seq(Items("cursors"))
      <4>1. r \in DOMAIN curs[w] => CursorItem(r, Settled(w)[r]) \in Items("cursors")
        BY <2>2, <2>4, SettledTypes
      <4>2. QED BY <4>1
    <3>2. CursorItems(w) = Moved("iterations") \o Moved("issues") \o Moved("assignments")
      BY <2>6 DEF CursorItems, NewCursors
    <3> HIDE DEF Moved
    <3>3. QED BY <3>1, <3>2
  <2>7. QED BY <2>5, <2>6
<1>5. (items[w] \in Seq(Items(At(w))))' BY <1>1, <1>3, <1>4 DEF Items
<1>6. HeldTypes(w)' BY <1>0, <1>1, <1>5, TxKept, SettledTypes DEF HeldTypes
<1>7. QED BY <1>1, <1>2, <1>6, TypedStep, TablesKept

\* What a run sees is rows.
LEMMA VisibleTypes ==
  ASSUME TInv, NEW w \in Workers, NEW t \in Tables
  PROVE  /\ DOMAIN Visible(w, t) \subseteq Keys(t)
         /\ \A k \in DOMAIN Visible(w, t) : Visible(w, t)[k] \in RowType
BY DEF TInv, HeldTypes, TablesOK, Visible, Over

LEMMA FlushTypes == ASSUME TInv, NEW w \in Workers, Flush(w) PROVE TInv'
<1>0. PlaceTypes(w) /\ HeldTypes(w) /\ Functions2OK BY DEF TInv
<1> DEFINE t == At(w)
           k == Head(items[w]).key
           row == IF plan[w].keep THEN Visible(w, t)[k] ELSE plan[w].row
<1>1. /\ Only(w) /\ UNCHANGED <<clock, pm, rows>>
      /\ pc[w] = "write" /\ pc'[w] = "upsert" /\ kind'[w] = kind[w] /\ phase'[w] = phase[w]
      /\ since'[w] = since[w] /\ curs'[w] = curs[w] /\ items'[w] = Tail(items[w])
      /\ tx' = [tx EXCEPT ![w][t] = With(@, k, row)]
  BY <1>0 DEF Flush, Only, Functions2OK, FunctionsOK
<1>2. PlaceTypes(w)' BY <1>0, <1>1 DEF PlaceTypes
<1>3. items[w] \in Seq(Items(t)) /\ items[w] # <<>> /\ k \in Keys(t)
  <2>1. items[w] \in Seq(Items(t)) /\ items[w] # <<>> BY <1>0, <1>1 DEF HeldTypes
  <2>2. Head(items[w]) \in Items(t) BY <2>1
  <2>3. QED BY <2>1, <2>2 DEF Items
<1>4. row \in RowType
  <2>1. CASE plan[w].keep
    <3>1. t = "cursors" /\ k \in DOMAIN Visible(w, t)
      BY <1>0, <1>1, <2>1, VisibleSeen DEF HeldTypes
    <3>2. QED BY <2>1, <3>1, VisibleTypes DEF Tables
  <2>2. CASE ~ plan[w].keep
    BY <1>0, <1>1, <2>2 DEF HeldTypes
  <2>3. QED BY <2>1, <2>2
<1> HIDE DEF k, row
<1>5. /\ DOMAIN tx'[w] = Tables
      /\ \A s \in Tables : tx'[w][s] = IF s = t THEN With(tx[w][s], k, row) ELSE tx[w][s]
  BY <1>0, <1>1 DEF HeldTypes, TablesOK, Functions2OK, FunctionsOK
<1>6. ASSUME NEW s \in Tables
      PROVE  /\ DOMAIN tx'[w][s] \subseteq Keys(s)
             /\ \A x \in DOMAIN tx'[w][s] : tx'[w][s][x] \in RowType
  <2>1. DOMAIN tx[w][s] \subseteq Keys(s) /\ \A x \in DOMAIN tx[w][s] : tx[w][s][x] \in RowType
    BY <1>0 DEF HeldTypes, TablesOK
  <2>2. CASE s = t
    <3>1. tx'[w][s] = With(tx[w][s], k, row) BY <1>5, <2>2
    <3>2. k \in Keys(s) BY <1>3, <2>2
    <3> HIDE DEF t
    <3>3. QED BY <3>1, <3>2, <1>4, <2>1 DEF With, Over
  <2>3. CASE s # t BY <1>5, <2>1, <2>3
  <2>4. QED BY <2>2, <2>3
<1>7. TablesOK(tx[w])' BY <1>1, <1>5, <1>6 DEF TablesOK, RowType
<1>8. (items[w] \in Seq(Items(At(w))))'
  <2>1. Tail(items[w]) \in Seq(Items(t)) BY <1>3
  <2>2. At(w)' = At(w) BY <1>1 DEF At
  <2>3. QED BY <1>1, <2>1, <2>2 DEF Items
<1>9. HeldTypes(w)' BY <1>0, <1>1, <1>7, <1>8 DEF HeldTypes
<1>10. QED BY <1>1, <1>2, <1>9, TypedStep, TablesKept

LEMMA ResetTypes ==
  ASSUME TInv, NEW w \in Workers, Reset(w), TablesOK(rows)',
         \A t \in Tables : DOMAIN rows[t] \subseteq DOMAIN rows'[t]
  PROVE  TInv'
<1>0. PlaceTypes(w) /\ HeldTypes(w) /\ Functions2OK BY DEF TInv
<1>1. Only(w) /\ UNCHANGED <<clock, pm>>
  BY <1>0 DEF Reset, Only, Functions2OK, FunctionsOK
<1>2. /\ tx'[w] = NoWrites /\ kind'[w] = "none" /\ phase'[w] = 0 /\ since'[w] = 0
      /\ pc'[w] = "idle" /\ items'[w] = <<>> /\ curs'[w] = Nothing
  BY <1>0 DEF Reset, Functions2OK, FunctionsOK
<1>3. PlaceTypes(w)' BY <1>2, PhasesAre DEF PlaceTypes
<1>4. TablesOK(tx[w])' BY <1>2 DEF TablesOK, NoWrites, Nothing, NoRows
<1>5. HeldTypes(w)' BY <1>1, <1>2, <1>4 DEF HeldTypes, Nothing, NoRows, TInv, PmTypes
<1>6. QED BY <1>1, <1>3, <1>5, TypedStep

LEMMA CommitTypes == ASSUME TInv, NEW w \in Workers, Commit(w) PROVE TInv'
<1>1. rows' = [t \in Tables |-> Visible(w, t)] /\ Reset(w) /\ UNCHANGED clock
  BY DEF Commit, Reset
<1>2. TablesOK(rows)'
  BY <1>1, VisibleTypes DEF TablesOK, RowType
<1>3. \A t \in Tables : DOMAIN rows[t] \subseteq DOMAIN rows'[t]
  BY <1>1, VisibleSeen DEF Seen
<1>4. QED BY <1>1, <1>2, <1>3, ResetTypes

LEMMA RollbackTypes == ASSUME TInv, NEW w \in Workers, Rollback(w) PROVE TInv'
<1>1. TablesOK(rows)' BY TablesKept DEF Rollback, Reset
<1>2. QED BY <1>1, ResetTypes DEF Rollback

LEMMA PlatformTypes == ASSUME PmSyncAssumption, TInv, Platform PROVE TInv'
<1>1. PICK r \in Resources, live \in BOOLEAN, valid \in BOOLEAN :
        \E k \in Keys(r), ref \in Refs : PmEdit(r, k, live, valid, ref)
  BY DEF Platform, Refs
<1>2. PICK k \in Keys(r), ref \in Refs : PmEdit(r, k, live, valid, ref)
  BY <1>1
<1> DEFINE rec == [at |-> clock + 1, live |-> live, valid |-> valid, ref |-> ref]
<1>3. /\ clock' = clock + 1 /\ clock < MaxClock /\ UNCHANGED <<rows, run>>
      /\ pm' = [pm EXCEPT ![r] = With(@, k, rec)]
  BY <1>2 DEF PmEdit
<1>4. /\ clock \in Nat /\ clock' \in 0..MaxClock
      /\ 0..clock \subseteq 0..clock' /\ 1..clock \subseteq 1..clock'
  BY <1>3 DEF TInv, PmTypes, PmSyncAssumption
<1>5. PmTypes'
  <2>1. ASSUME NEW q \in Resources
        PROVE  /\ DOMAIN pm'[q] \subseteq Keys(q)
               /\ \A x \in DOMAIN pm'[q] : /\ pm'[q][x].at \in 1..clock' /\ pm'[q][x].ref \in Refs
                                           /\ pm'[q][x].valid \in BOOLEAN
    <3>1. /\ DOMAIN pm[q] \subseteq Keys(q)
          /\ \A x \in DOMAIN pm[q] : /\ pm[q][x].at \in 1..clock' /\ pm[q][x].ref \in Refs
                                     /\ pm[q][x].valid \in BOOLEAN
      BY <1>4 DEF TInv, PmTypes
    <3>2. CASE q # r BY <1>3, <3>1, <3>2 DEF TInv, PmTypes
    <3>3. CASE q = r
      <4>1. /\ rec.at \in 1..clock' /\ rec.ref \in Refs /\ rec.valid \in BOOLEAN
        BY <1>3, <1>4
      <4> HIDE DEF rec
      <4>2. pm'[q] = With(pm[q], k, rec) BY <1>3, <3>3 DEF TInv, PmTypes
      <4>3. QED BY <3>1, <3>3, <4>1, <4>2 DEF With, Over
    <3>4. QED BY <3>2, <3>3
  <2>2. QED BY <1>3, <1>4, <2>1 DEF PmTypes, TInv
<1>6. RowType \subseteq RowType' BY <1>4 DEF RowType
<1>7. ASSUME NEW db, TablesOK(db) PROVE
        DOMAIN db = Tables /\ \A t \in Tables : /\ DOMAIN db[t] \subseteq Keys(t)
                                                /\ \A x \in DOMAIN db[t] : db[t][x] \in RowType'
  BY <1>6, <1>7 DEF TablesOK
<1>8. TablesOK(rows)' BY <1>3, <1>7 DEF TInv, TablesOK
<1>9. ASSUME NEW w \in Workers PROVE (PlaceTypes(w) /\ HeldTypes(w))'
  <2>1. PlaceTypes(w) /\ HeldTypes(w) /\ At(w)' = At(w) BY <1>3 DEF TInv, At, run
  <2>2. PlaceTypes(w)' BY <1>3, <2>1 DEF PlaceTypes, run
  <2>3. TablesOK(tx[w])' BY <1>3, <1>7, <2>1 DEF HeldTypes, TablesOK, run
  <2>4. (items[w] \in Seq(Items(At(w))))'
    <3>1. Items(At(w)) \subseteq Items(At(w))' BY <1>4, <2>1 DEF Items
    <3>2. items[w] \in Seq(Items(At(w))) BY <2>1 DEF HeldTypes
    <3>3. items[w] \in Seq(Items(At(w))') BY <3>1, <3>2
    <3>4. QED BY <1>3, <3>3 DEF run
  <2>5. (since[w] \in 0..clock)' /\ \A q \in DOMAIN curs[w] : curs[w][q] \in 0..clock'
    BY <1>3, <1>4, <2>1 DEF HeldTypes, run
  <2>6. Seen(w, "cursors")' = Seen(w, "cursors") BY <1>3 DEF Seen, run
  <2>7. QED BY <1>3, <1>6, <2>1, <2>2, <2>3, <2>4, <2>5, <2>6 DEF HeldTypes, run
<1>10. QED BY <1>3, <1>5, <1>8, <1>9 DEF TInv, Functions2OK, FunctionsOK, run

LEMMA TypesInductive == Spec => []TInv
<1>1. Init => TInv BY InitTypes, PmSyncAssumption
<1>2. SizeOK /\ TInv /\ [Next]_vars => TInv'
  <2>1. ASSUME TInv, UNCHANGED vars PROVE TInv'
    <3>1. UNCHANGED <<clock, pm, rows, tx, kind, phase, pc, since, items, plan, curs>>
      BY <2>1 DEF vars, run
    <3> HIDE DEF vars, run
    <3>2. PmTypes' BY <2>1, <3>1 DEF TInv, PmTypes
    <3>3. Functions2OK' BY <2>1, <3>1 DEF TInv, Functions2OK, FunctionsOK
    <3>4. ASSUME NEW w \in Workers PROVE (PlaceTypes(w) /\ HeldTypes(w))'
      <4>1. PlaceTypes(w) /\ HeldTypes(w) BY <2>1 DEF TInv
      <4>2. PlaceTypes(w)' BY <3>1, <4>1 DEF PlaceTypes
      <4>3. TablesOK(tx[w])' BY <2>1, <3>1, TxKept
      <4>4. HeldTypes(w)' BY <3>1, <4>1, <4>3 DEF HeldTypes, Items, At, Seen, RowType
      <4>5. QED BY <4>2, <4>4
    <3>5. QED BY <2>1, <3>1, <3>2, <3>3, <3>4, TablesKept DEF TInv
  <2>2. ASSUME SizeOK, TInv, NEW w \in Workers, Step(w) PROVE TInv'
    BY <2>2, PmSyncAssumption, NextResourceTypes, FetchPageTypes, LookUpTypes, FlushTypes,
       ToCursorsTypes, CommitTypes, RollbackTypes
       DEF Step, UniqueViolation, LockVictim
  <2>3. ASSUME TInv, NEW w \in Workers, Fault(w) PROVE TInv'
    BY <2>3, HttpFailTypes, RollbackTypes DEF Fault, Kill
  <2>4. QED BY <2>1, <2>2, <2>3, PmSyncAssumption, PlatformTypes, StartTypes DEF Next
<1>3. QED BY <1>1, <1>2, SizeIsSet, PTL DEF Spec

\* Whichever runs overlap, fail or die, what a run holds at each point is of the
\* resource it is at, and tables, cursors and records keep to their values.
THEOREM SyncTypesAreKept == Spec => []TypeOK
<1>1. SizeOK /\ TInv => TypeOK BY TInvImplies
<1>2. QED BY <1>1, TypesInductive, SizeIsSet, PTL

-----------------------------------------------------------------------------
(* The watermark, for runs one at a time whose listings fit in one page      *)

Alone   == \A v, w \in Workers : v = w

\* The table holds the present version of what changed up to c.
Backed(table, r, c) ==
  \A k \in DOMAIN pm[r] :
    pm[r][k].valid /\ pm[r][k].at <= c =>
      k \in DOMAIN table /\ table[k].at = pm[r][k].at

\* The cursors of r that may stand after the run: the committed one and its own.
Bounds(w, r) == {Cursor(r)} \cup {curs[w][q] : q \in DOMAIN curs[w] \cap {r}}

\* The present version of k is still to be written.
Due(w, r, k) ==
  \E i \in DOMAIN items[w] :
    /\ At(w) = r
    /\ items[w][i].key = k /\ items[w][i].valid /\ items[w][i].at = pm[r][k].at

\* The value a run gives a cursor.
Promised(w, r, value) ==
  IF kind[w] = "full" THEN value = 0 ELSE r \in DOMAIN curs[w] /\ value = curs[w][r]

\* The new cursor of the run is a date, and what it claims is stored or due.
Covered(w) ==
  \A r \in Watched \cap DOMAIN curs[w] :
    /\ curs[w][r] # NoDate
    /\ \A k \in DOMAIN pm[r] :
      pm[r][k].valid /\ pm[r][k].at <= curs[w][r] =>
        \/ k \in DOMAIN Visible(w, r) /\ Visible(w, r)[k].at = pm[r][k].at
        \/ Due(w, r, k)

\* An item whose record has changed since is beyond every cursor.
Fresh(w) ==
  \A i \in DOMAIN items[w] :
    LET r == At(w)  k == items[w][i].key IN
      r \in Watched /\ k \in DOMAIN pm[r] =>
        \A c \in Bounds(w, r) :
          pm[r][k].valid /\ pm[r][k].at <= c => items[w][i].at = pm[r][k].at

\* A run that fetches has nothing left over and asks from the committed cursor.
Asks(w) ==
  pc[w] = "page" =>
    items[w] = <<>> /\ since[w] = IF kind[w] = "full" THEN 0 ELSE Cursor(At(w))

Plans(w) ==
  pc[w] = "write" =>
    /\ plan[w].row.at = Head(items[w]).at
    /\ plan[w].keep => Visible(w, At(w))[Head(items[w]).key].at = Head(items[w]).at

\* The cursors come last.
CursorsLast(w) ==
  /\ \A i \in DOMAIN items[w] :
       At(w) = "cursors" =>
         /\ phase[w] = Len(Phases(kind[w]))
         /\ Promised(w, items[w][i].key, items[w][i].at)
  /\ \A r \in DOMAIN tx[w].cursors :
       /\ pc[w] \in {"upsert", "write"} /\ phase[w] = Len(Phases(kind[w]))
       /\ Promised(w, r, tx[w].cursors[r].at)

Backing(w) ==
  /\ \A r \in Watched : Backed(Visible(w, r), r, Cursor(r))
  /\ Covered(w) /\ Fresh(w) /\ Asks(w) /\ Plans(w) /\ CursorsLast(w)

BInv ==
  /\ \A r \in Watched : Backed(rows[r], r, Cursor(r))
  /\ \A w \in Workers : Backing(w)

LEMMA BInvImplies == ASSUME BInv PROVE CursorIsBacked
BY DEF BInv, Backed, Watched, CursorIsBacked

LEMMA AloneStep ==
  ASSUME Alone, NEW w \in Workers, (\A r \in Watched : Backed(rows[r], r, Cursor(r)))',
         Backing(w)'
  PROVE  BInv'
BY DEF Alone, BInv

\* A step that neither commits nor writes sees what it saw.
LEMMA SeesTheSame ==
  ASSUME BInv, NEW w \in Workers, UNCHANGED <<pm, rows>>, tx'[w] = tx[w]
  PROVE  /\ \A r : Visible(w, r)' = Visible(w, r) /\ Cursor(r)' = Cursor(r)
         /\ (\A r \in Watched : Backed(rows[r], r, Cursor(r)))'
         /\ (\A r \in Watched : Backed(Visible(w, r), r, Cursor(r)))'
<1>1. \A r : Visible(w, r)' = Visible(w, r) /\ Cursor(r)' = Cursor(r)
  BY DEF Visible, Cursor
<1>2. ASSUME NEW table, NEW r, NEW c, Backed(table, r, c)
      PROVE  \A k \in DOMAIN pm'[r] :
               pm'[r][k].valid /\ pm'[r][k].at <= c =>
                 k \in DOMAIN table /\ table[k].at = pm'[r][k].at
  BY <1>2 DEF Backed
<1>3. (\A r \in Watched : Backed(rows[r], r, Cursor(r)))'
  BY <1>1, <1>2 DEF BInv, Backed
<1>4. (\A r \in Watched : Backed(Visible(w, r), r, Cursor(r)))'
  BY <1>1, <1>2 DEF BInv, Backing, Backed
<1>5. QED BY <1>1, <1>3, <1>4

LEMMA InitBacked == ASSUME Init PROVE BInv
<1> USE DEF Init
<1>1. \A r \in Watched : Backed(rows[r], r, Cursor(r))
  BY DEF Watched, Backed, Resources, Nothing, NoRows
<1>2. ASSUME NEW w \in Workers PROVE Backing(w)
  <2>1. \A r \in Watched : Backed(Visible(w, r), r, Cursor(r))
    BY DEF Watched, Backed, Resources, Nothing, NoRows
  <2>2. Covered(w) BY <1>2 DEF Covered, Nothing, NoRows
  <2>3. Fresh(w) /\ Asks(w) /\ Plans(w) BY <1>2 DEF Fresh, Asks, Plans
  <2>4. CursorsLast(w) BY <1>2 DEF CursorsLast, NoWrites, Tables, Nothing, NoRows
  <2>5. QED BY <2>1, <2>2, <2>3, <2>4 DEF Backing
<1>3. QED BY <1>1, <1>2 DEF BInv

\* A run with nothing fetched, nothing planned and no cursor written.
LEMMA EmptyHanded ==
  ASSUME Alone, TInv, BInv, NEW w \in Workers, UNCHANGED <<pm, rows>>, tx'[w] = tx[w],
         items'[w] = <<>>, pc'[w] # "write", DOMAIN tx[w].cursors = {}, Covered(w)', Asks(w)'
  PROVE  BInv'
<1>1. Fresh(w)' BY DEF Fresh
<1>2. Plans(w)' BY DEF Plans
<1>3. CursorsLast(w)' BY DEF CursorsLast
<1>4. Backing(w)' BY <1>1, <1>2, <1>3, SeesTheSame DEF Backing
<1>5. QED BY <1>4, SeesTheSame, AloneStep

\* What is neither stored nor due is behind no new cursor.
LEMMA StillCovered ==
  ASSUME BInv, NEW w \in Workers, UNCHANGED <<pm, rows>>, tx'[w] = tx[w],
         curs'[w] \in {curs[w], Settled(w)}, items[w] = <<>>
  PROVE  Covered(w)'
<1>1. Covered(w) BY DEF BInv, Backing
<1>2. \A r : Visible(w, r)' = Visible(w, r) BY SeesTheSame
<1>3. \A r, k : ~ Due(w, r, k) BY DEF Due
<1>4. /\ DOMAIN curs'[w] = DOMAIN curs[w]
      /\ \A r \in Watched \cap DOMAIN curs[w] : curs'[w][r] = curs[w][r]
  BY <1>1 DEF Covered, Settled
<1>5. QED BY <1>1, <1>2, <1>3, <1>4 DEF Covered

\* Until a run is at its last phase it has written no cursor.
LEMMA NoCursorYet ==
  ASSUME TInv, BInv, NEW w \in Workers,
         pc[w] \in {"idle", "page", "commit"} \/ phase[w] # Len(Phases(kind[w]))
  PROVE  DOMAIN tx[w].cursors = {}
BY DEF BInv, Backing, CursorsLast

LEMMA StartBacked ==
  ASSUME Alone, TInv, BInv, NEW w \in Workers, NEW k \in {"full", "incremental"}, Start(w, k)
  PROVE  BInv'
<1>0. PlaceTypes(w) /\ HeldTypes(w) /\ Functions2OK BY DEF TInv
<1>1. /\ UNCHANGED <<pm, rows>> /\ pc[w] = "idle" /\ pc'[w] = "upsert"
      /\ items'[w] = <<>> /\ items[w] = <<>> /\ curs'[w] = curs[w] /\ tx'[w] = tx[w]
  BY <1>0 DEF Start, Functions2OK, FunctionsOK, PlaceTypes
<1>2. DOMAIN tx[w].cursors = {} BY <1>1, NoCursorYet
<1>3. Covered(w)' BY <1>1, StillCovered
<1>4. Asks(w)' BY <1>1 DEF Asks
<1>5. QED BY <1>1, <1>2, <1>3, <1>4, EmptyHanded

LEMMA NextResourceBacked ==
  ASSUME Alone, TInv, BInv, NEW w \in Workers, NextResource(w) PROVE BInv'
<1>0. PlaceTypes(w) /\ HeldTypes(w) /\ Functions2OK BY DEF TInv
<1>1. /\ UNCHANGED <<pm, rows>> /\ pc'[w] = "page" /\ kind'[w] = kind[w]
      /\ phase'[w] = phase[w] + 1 /\ phase[w] < Len(Phases(kind[w])) - 1
      /\ items'[w] = <<>> /\ items[w] = <<>> /\ curs'[w] = Settled(w) /\ tx'[w] = tx[w]
      /\ since'[w] = IF kind[w] = "full" THEN 0 ELSE Cursor(Phases(kind[w])[phase[w] + 1])
  BY <1>0 DEF NextResource, Functions2OK, FunctionsOK
<1>2. DOMAIN tx[w].cursors = {}
  BY <1>0, <1>1, PhasesAre, NoCursorYet DEF PlaceTypes
<1>3. Covered(w)' BY <1>1, StillCovered
<1>4. Asks(w)'
  <2>1. Cursor(At(w))' = Cursor(Phases(kind[w])[phase[w] + 1])
    BY <1>1 DEF At, Cursor
  <2>2. QED BY <1>1, <2>1 DEF Asks
<1>5. QED BY <1>1, <1>2, <1>3, <1>4, EmptyHanded

LEMMA HttpFailBacked ==
  ASSUME Alone, TInv, BInv, NEW w \in Workers, HttpFail(w) PROVE BInv'
<1>0. PlaceTypes(w) /\ HeldTypes(w) /\ Functions2OK BY DEF TInv
<1>1. /\ UNCHANGED <<pm, rows>> /\ pc[w] = "page" /\ pc'[w] = "commit"
      /\ items'[w] = <<>> /\ curs'[w] = Nothing /\ tx'[w] = tx[w]
  BY <1>0 DEF HttpFail, Functions2OK, FunctionsOK
<1>2. DOMAIN tx[w].cursors = {} BY <1>1, NoCursorYet
<1>3. Covered(w)' BY <1>1 DEF Covered, Nothing, NoRows
<1>4. Asks(w)' BY <1>1 DEF Asks
<1>5. QED BY <1>1, <1>2, <1>3, <1>4, EmptyHanded

\* The cursors a run is to write are those it collected, or all of them reset.
LEMMA CursorItemsPromised ==
  ASSUME NEW w, NEW i \in DOMAIN CursorItems(w), DOMAIN curs[w] \subseteq Resources,
         NEW r, r = CursorItems(w)[i].key, NEW at, at = CursorItems(w)[i].at
  PROVE  IF kind[w] = "full" THEN at = 0 ELSE r \in DOMAIN Settled(w) /\ at = Settled(w)[r]
<1>1. CASE kind[w] = "full"
  BY <1>1 DEF CursorItems, CursorItem, Sources
<1>2. CASE kind[w] # "full"
  <2> DEFINE Moved(q) == IF q \in DOMAIN curs[w] THEN <<CursorItem(q, Settled(w)[q])>> ELSE <<>>
             Kept == {CursorItem(q, Settled(w)[q]) : q \in DOMAIN curs[w]}
  <2>1. ASSUME NEW q PROVE Moved(q) \in Seq(Kept)
    <3>1. q \in DOMAIN curs[w] => CursorItem(q, Settled(w)[q]) \in Kept OBVIOUS
    <3> HIDE DEF Kept
    <3>2. QED BY <3>1
  <2>2. CursorItems(w) = Moved("iterations") \o Moved("issues") \o Moved("assignments")
    BY <1>2 DEF CursorItems, NewCursors
  <2> HIDE DEF Moved, Kept
  <2>3. CursorItems(w) \in Seq(Kept) BY <2>1, <2>2
  <2>4. CursorItems(w)[i] \in Kept BY <2>3
  <2> USE DEF Kept
  <2>5. DOMAIN Settled(w) = DOMAIN curs[w] BY DEF Settled
  <2>6. PICK q \in DOMAIN curs[w] : CursorItems(w)[i] = CursorItem(q, Settled(w)[q])
    BY <2>4
  <2>7. r = q /\ at = Settled(w)[q]
    BY <2>6 DEF CursorItem
  <2>8. QED BY <1>2, <2>5, <2>7
<1>3. QED BY <1>1, <1>2

LEMMA ToCursorsBacked ==
  ASSUME Alone, TInv, BInv, NEW w \in Workers, ToCursors(w) PROVE BInv'
<1>0. PlaceTypes(w) /\ HeldTypes(w) /\ Functions2OK BY DEF TInv
<1>1. /\ UNCHANGED <<pm, rows>> /\ pc[w] = "upsert" /\ pc'[w] = "upsert"
      /\ kind'[w] = kind[w] /\ items[w] = <<>>
      /\ phase[w] = Len(Phases(kind[w])) - 1 /\ phase'[w] = phase[w] + 1
      /\ tx'[w] = tx[w] /\ curs'[w] = Settled(w) /\ items'[w] = CursorItems(w)
  BY <1>0 DEF ToCursors, Functions2OK, FunctionsOK
<1>2. At(w)' = "cursors" BY <1>0, <1>1, PhasesAre DEF At, PlaceTypes
<1>3. DOMAIN tx[w].cursors = {} BY <1>1, PhasesAre, NoCursorYet
<1>4. Covered(w)' BY <1>1, StillCovered
<1>5. Fresh(w)' BY <1>2 DEF Fresh, Watched
<1>6. Asks(w)' /\ Plans(w)' BY <1>1 DEF Asks, Plans
<1>7. CursorsLast(w)'
  <2>1. ASSUME NEW i \in DOMAIN items'[w] PROVE Promised(w, items[w][i].key, items[w][i].at)'
    <3> DEFINE r == items'[w][i].key  at == items'[w][i].at
    <3>1. IF kind[w] = "full" THEN at = 0 ELSE r \in DOMAIN Settled(w) /\ at = Settled(w)[r]
      BY <1>0, <1>1, CursorItemsPromised DEF HeldTypes
    <3>2. QED BY <1>1, <3>1 DEF Promised
  <2>2. QED BY <1>1, <1>3, <2>1 DEF CursorsLast
<1>8. Backing(w)' BY <1>1, <1>4, <1>5, <1>6, <1>7, SeesTheSame DEF Backing
<1>9. QED BY <1>1, <1>8, SeesTheSame, AloneStep

\* What is dropped from the head of the items leaves the others.
LEMMA TailItems ==
  ASSUME NEW S, NEW s \in Seq(S), s # <<>>
  PROVE  /\ Head(s) = s[1] /\ 1 \in DOMAIN s
         /\ \A i \in DOMAIN Tail(s) : i + 1 \in DOMAIN s /\ Tail(s)[i] = s[i + 1]
         /\ \A i \in DOMAIN s : i # 1 => \E j \in DOMAIN Tail(s) : Tail(s)[j] = s[i]
<1>1. \A i \in DOMAIN Tail(s) : i + 1 \in DOMAIN s /\ Tail(s)[i] = s[i + 1]
  OBVIOUS
<1>2. ASSUME NEW i \in DOMAIN s, i # 1 PROVE \E j \in DOMAIN Tail(s) : Tail(s)[j] = s[i]
  <2>1. i - 1 \in DOMAIN Tail(s) /\ Tail(s)[i - 1] = s[i] BY <1>2
  <2>2. QED BY <2>1
<1>3. QED BY <1>1, <1>2

\* What holds of the items one by one holds when the first is done.
LEMMA TailKeeps ==
  ASSUME TInv, BInv, NEW w \in Workers, UNCHANGED pm, items[w] # <<>>,
         \A r : Cursor(r)' = Cursor(r), kind'[w] = kind[w], phase'[w] = phase[w],
         curs'[w] = curs[w], items'[w] = Tail(items[w])
  PROVE  /\ Fresh(w)'
         /\ \A i \in DOMAIN items'[w] :
              At(w)' = "cursors" =>
                /\ phase[w] = Len(Phases(kind[w]))
                /\ Promised(w, items'[w][i].key, items'[w][i].at)
<1>1. \A i \in DOMAIN Tail(items[w]) :
        i + 1 \in DOMAIN items[w] /\ Tail(items[w])[i] = items[w][i + 1]
  BY TailItems DEF TInv, HeldTypes
<1>2. At(w)' = At(w) /\ \A r : Bounds(w, r)' = Bounds(w, r) BY DEF At, Bounds
<1>3. Fresh(w) /\ CursorsLast(w) BY DEF BInv, Backing
<1>4. ASSUME NEW i \in DOMAIN items'[w]
      PROVE  \E j \in DOMAIN items[w] : items'[w][i] = items[w][j]
  BY <1>1, <1>4
<1>5. Fresh(w)' BY <1>2, <1>3, <1>4 DEF Fresh
<1>6. QED BY <1>2, <1>3, <1>4, <1>5 DEF CursorsLast

LEMMA LookUpBacked ==
  ASSUME Alone, TInv, BInv, NEW w \in Workers, LookUp(w) PROVE BInv'
<1>0. PlaceTypes(w) /\ HeldTypes(w) /\ Functions2OK /\ Backing(w) BY DEF TInv, BInv
<1> DEFINE item == Head(items[w])
<1>1. /\ UNCHANGED <<pm, rows>> /\ pc[w] = "upsert" /\ items[w] # <<>>
      /\ kind'[w] = kind[w] /\ phase'[w] = phase[w]
      /\ tx'[w] = tx[w] /\ curs'[w] = curs[w]
  BY <1>0 DEF LookUp, Functions2OK, FunctionsOK
<1>2. /\ \A r : Visible(w, r)' = Visible(w, r) /\ Cursor(r)' = Cursor(r)
      /\ At(w)' = At(w) /\ \A r : Bounds(w, r)' = Bounds(w, r)
  BY <1>1, SeesTheSame DEF At, Bounds
<1>3. CASE Skipped(w, At(w), item)
  <2>1. items'[w] = Tail(items[w]) /\ pc'[w] = "upsert"
    BY <1>0, <1>1, <1>3 DEF LookUp, Functions2OK, FunctionsOK
  <2>2. ASSUME NEW r \in Watched, NEW k, Due(w, r, k) PROVE Due(w, r, k)'
    <3>1. PICK i \in DOMAIN items[w] :
            /\ At(w) = r /\ items[w][i].key = k /\ items[w][i].valid
            /\ items[w][i].at = pm[r][k].at
      BY <2>2 DEF Due
    <3>2. i # 1
      <4>1. ~ item.valid BY <1>3, <3>1 DEF Skipped, Watched
      <4>2. item = items[w][1] BY <1>0, <1>1, TailItems DEF HeldTypes
      <4>3. QED BY <3>1, <4>1, <4>2
    <3>3. PICK j \in DOMAIN Tail(items[w]) : Tail(items[w])[j] = items[w][i]
      BY <1>0, <1>1, <3>2, TailItems DEF HeldTypes
    <3>4. QED BY <1>1, <1>2, <2>1, <3>1, <3>3 DEF Due
  <2>3. Covered(w)' BY <1>0, <1>1, <1>2, <2>2 DEF Backing, Covered
  <2>4. Asks(w)' /\ Plans(w)' BY <2>1 DEF Asks, Plans
  <2>5. Fresh(w)' /\ \A i \in DOMAIN items'[w] :
          At(w)' = "cursors" =>
            /\ phase[w] = Len(Phases(kind[w]))
            /\ Promised(w, items'[w][i].key, items'[w][i].at)
    BY <1>1, <1>2, <2>1, TailKeeps
  <2>6. CursorsLast(w)'
    BY <1>0, <1>1, <2>1, <2>5 DEF Backing, CursorsLast, Promised
  <2>7. Backing(w)' BY <1>1, <2>3, <2>4, <2>5, <2>6, SeesTheSame DEF Backing
  <2>8. QED BY <1>1, <2>7, SeesTheSame, AloneStep
<1>4. CASE ~ Skipped(w, At(w), item)
  <2>1. /\ items'[w] = items[w] /\ pc'[w] = "write"
        /\ plan'[w].row = RowFor(w, At(w), item)
        /\ plan'[w].keep => Visible(w, At(w))[item.key] = RowFor(w, At(w), item)
    BY <1>0, <1>1, <1>4 DEF LookUp, Functions2OK, FunctionsOK
  <2>2. Covered(w)' BY <1>0, <1>1, <1>2, <2>1 DEF Backing, Covered, Due
  <2>3. Fresh(w)' BY <1>0, <1>1, <1>2, <2>1 DEF Backing, Fresh
  <2>4. Asks(w)' BY <2>1 DEF Asks
  <2>5. RowFor(w, At(w), item).at = item.at BY DEF RowFor
  <2>6. Plans(w)' BY <1>2, <2>1, <2>5 DEF Plans
  <2>7. CursorsLast(w)'
    BY <1>0, <1>1, <1>2, <2>1 DEF Backing, CursorsLast, Promised
  <2>8. Backing(w)' BY <1>1, <2>2, <2>3, <2>4, <2>6, <2>7, SeesTheSame DEF Backing
  <2>9. QED BY <1>1, <2>8, SeesTheSame, AloneStep
<1>5. QED BY <1>3, <1>4

LEMMA FlushBacked ==
  ASSUME Alone, TInv, BInv, NEW w \in Workers, Flush(w) PROVE BInv'
<1>0. PlaceTypes(w) /\ HeldTypes(w) /\ Functions2OK /\ Backing(w) BY DEF TInv, BInv
<1> DEFINE t == At(w)  item == Head(items[w])
           row == IF plan[w].keep THEN Visible(w, t)[item.key] ELSE plan[w].row
<1>1. /\ UNCHANGED <<pm, rows>> /\ pc[w] = "write" /\ items[w] # <<>> /\ pc'[w] = "upsert"
      /\ kind'[w] = kind[w] /\ phase'[w] = phase[w] /\ curs'[w] = curs[w]
      /\ items'[w] = Tail(items[w])
      /\ tx' = [tx EXCEPT ![w][t] = With(@, item.key, row)]
  BY <1>0 DEF Flush, Functions2OK, FunctionsOK, HeldTypes
<1>2. row.at = item.at BY <1>0, <1>1 DEF Backing, Plans
<1> HIDE DEF row
<1>3. item = items[w][1] /\ 1 \in DOMAIN items[w]
  BY <1>0, <1>1, TailItems DEF HeldTypes
<1>4. \A s \in Tables : tx'[w][s] = IF s = t THEN With(tx[w][s], item.key, row) ELSE tx[w][s]
  BY <1>0, <1>1 DEF HeldTypes, TablesOK, Functions2OK, FunctionsOK
<1>5. At(w)' = At(w) /\ (\A r : Cursor(r)' = Cursor(r)) /\ \A r : Bounds(w, r)' = Bounds(w, r)
  <2>1. At(w)' = At(w) /\ \A r : Cursor(r)' = Cursor(r) BY <1>1 DEF At, Cursor
  <2>2. QED BY <1>1, <2>1 DEF Bounds
<1>6. ASSUME NEW s \in Tables, s # t PROVE Visible(w, s)' = Visible(w, s)
  BY <1>1, <1>4, <1>6 DEF Visible
<1>7. ASSUME NEW s \in Tables, s = t
      PROVE  /\ DOMAIN Visible(w, s)' = DOMAIN Visible(w, s) \cup {item.key}
             /\ \A k \in DOMAIN Visible(w, s)' :
                  Visible(w, s)'[k] = IF k = item.key THEN row ELSE Visible(w, s)[k]
  <2>1. tx'[w][s] = With(tx[w][s], item.key, row) BY <1>4, <1>7
  <2> HIDE DEF item
  <2>2. Visible(w, s)' = Over(With(tx[w][s], item.key, row), rows[s])
    BY <1>1, <2>1 DEF Visible
  <2>3. QED BY <2>2 DEF Visible, With, Over
\* The version written is the present one if a cursor says so.
<1>8. ASSUME t \in Watched, item.key \in DOMAIN pm[t], NEW c \in Bounds(w, t),
             pm[t][item.key].valid, pm[t][item.key].at <= c
      PROVE  row.at = pm[t][item.key].at
  BY <1>0, <1>2, <1>3, <1>8 DEF Backing, Fresh
<1>9. (\A r \in Watched : Backed(Visible(w, r), r, Cursor(r)))'
  <2> SUFFICES ASSUME NEW r \in Watched, NEW k \in DOMAIN pm[r],
                      pm[r][k].valid, pm[r][k].at <= Cursor(r)
               PROVE  k \in DOMAIN Visible(w, r)' /\ Visible(w, r)'[k].at = pm[r][k].at
    BY <1>1, <1>5 DEF Backed
  <2>1. k \in DOMAIN Visible(w, r) /\ Visible(w, r)[k].at = pm[r][k].at
    BY <1>0 DEF Backing, Backed
  <2>2. r \in Tables BY DEF Watched, Tables, Resources
  <2>3. CASE r # t BY <1>6, <2>1, <2>2, <2>3
  <2>4. CASE r = t /\ k # item.key BY <1>7, <2>1, <2>2, <2>4
  <2>5. CASE r = t /\ k = item.key
    <3>1. Cursor(r) \in Bounds(w, t) BY <2>5 DEF Bounds
    <3>2. row.at = pm[r][k].at BY <1>8, <2>5, <3>1
    <3>3. QED BY <1>7, <2>2, <2>5, <3>2
  <2>6. QED BY <2>3, <2>4, <2>5
<1>10. Covered(w)'
  <2>0. \A r \in Watched \cap DOMAIN curs[w] : curs[w][r] # NoDate
    BY <1>0 DEF Backing, Covered
  <2> SUFFICES ASSUME NEW r \in Watched \cap DOMAIN curs[w], NEW k \in DOMAIN pm[r],
                      pm[r][k].valid, pm[r][k].at <= curs[w][r]
               PROVE  \/ k \in DOMAIN Visible(w, r)' /\ Visible(w, r)'[k].at = pm[r][k].at
                      \/ Due(w, r, k)'
    BY <1>1, <2>0 DEF Covered
  <2>1. \/ k \in DOMAIN Visible(w, r) /\ Visible(w, r)[k].at = pm[r][k].at
        \/ Due(w, r, k)
    BY <1>0 DEF Backing, Covered
  <2>2. r \in Tables BY DEF Watched, Tables, Resources
  <2>3. CASE r # t
    <3>1. ~ Due(w, r, k) BY <2>3 DEF Due
    <3>2. QED BY <1>6, <2>1, <2>2, <2>3, <3>1
  <2>4. CASE r = t /\ k = item.key
    <3>1. curs[w][r] \in Bounds(w, t) BY <2>4 DEF Bounds
    <3>2. row.at = pm[r][k].at BY <1>8, <2>4, <3>1
    <3>3. QED BY <1>7, <2>2, <2>4, <3>2
  <2>5. CASE r = t /\ k # item.key
    <3>1. CASE k \in DOMAIN Visible(w, r) /\ Visible(w, r)[k].at = pm[r][k].at
      BY <1>7, <2>2, <2>5, <3>1
    <3>2. CASE Due(w, r, k)
      <4>1. PICK i \in DOMAIN items[w] :
              /\ items[w][i].key = k /\ items[w][i].valid
              /\ items[w][i].at = pm[r][k].at
        BY <3>2 DEF Due
      <4>2. i # 1 BY <1>3, <2>5, <4>1
      <4>3. PICK j \in DOMAIN Tail(items[w]) : Tail(items[w])[j] = items[w][i]
        BY <1>0, <1>1, <4>2, TailItems DEF HeldTypes
      <4>4. QED BY <1>1, <1>5, <2>5, <4>1, <4>3 DEF Due
    <3>3. QED BY <2>1, <3>1, <3>2
  <2>6. QED BY <2>3, <2>4, <2>5
<1>11. Asks(w)' /\ Plans(w)' BY <1>1 DEF Asks, Plans
<1>12. Fresh(w)' /\ \A i \in DOMAIN items'[w] :
         At(w)' = "cursors" =>
           /\ phase[w] = Len(Phases(kind[w]))
           /\ Promised(w, items'[w][i].key, items'[w][i].at)
  BY <1>1, <1>5, TailKeeps
<1>13. CursorsLast(w)'
  <2> SUFFICES ASSUME NEW r \in DOMAIN tx'[w].cursors
               PROVE  /\ phase[w] = Len(Phases(kind[w]))
                      /\ Promised(w, r, tx'[w].cursors[r].at)
    BY <1>1, <1>12 DEF CursorsLast, Promised
  <2>1. "cursors" \in Tables BY DEF Tables
  <2>2. CASE r \in DOMAIN tx[w].cursors /\ tx'[w].cursors[r] = tx[w].cursors[r]
    BY <1>0, <2>2 DEF Backing, CursorsLast
  <2>3. CASE t = "cursors" /\ r = item.key /\ tx'[w].cursors[r] = row
    <3>1. phase[w] = Len(Phases(kind[w])) /\ Promised(w, r, item.at)
      BY <1>0, <1>3, <2>3 DEF Backing, CursorsLast
    <3>2. QED BY <1>2, <2>3, <3>1
  <2>4. QED BY <1>4, <2>1, <2>2, <2>3 DEF With, Over
<1>14. (\A r \in Watched : Backed(rows[r], r, Cursor(r)))'
  BY <1>1, <1>5 DEF BInv, Backed
<1>15. QED BY <1>9, <1>10, <1>11, <1>12, <1>13, <1>14, AloneStep DEF Backing

\* The run is over: what is committed is what counts.
LEMMA ResetBacked ==
  ASSUME Alone, TInv, NEW w \in Workers, Reset(w),
         (\A r \in Watched : Backed(rows[r], r, Cursor(r)))'
  PROVE  BInv'
<1>1. /\ tx'[w] = NoWrites /\ pc'[w] = "idle" /\ items'[w] = <<>> /\ curs'[w] = Nothing
  BY DEF Reset, TInv, Functions2OK, FunctionsOK
<1>2. ASSUME NEW r \in Watched PROVE Backed(Visible(w, r), r, Cursor(r))'
  <2>1. tx'[w][r] = NoRows BY <1>1 DEF Watched, NoWrites, Tables, Resources, Nothing
  <2>2. /\ DOMAIN Visible(w, r)' = DOMAIN rows'[r]
        /\ \A k \in DOMAIN rows'[r] : Visible(w, r)'[k] = rows'[r][k]
    BY <2>1 DEF Visible, Over, NoRows
  <2>3. QED BY <2>2 DEF Backed
<1>3. Covered(w)' /\ Fresh(w)' BY <1>1 DEF Covered, Fresh, Nothing, NoRows
<1>4. Asks(w)' /\ Plans(w)' BY <1>1 DEF Asks, Plans
<1>5. CursorsLast(w)' BY <1>1 DEF CursorsLast, NoWrites, Tables, Nothing, NoRows
<1>6. Backing(w)' BY <1>2, <1>3, <1>4, <1>5 DEF Backing
<1>7. QED BY <1>6, AloneStep

LEMMA RollbackBacked ==
  ASSUME Alone, TInv, BInv, NEW w \in Workers, Rollback(w) PROVE BInv'
<1>1. Reset(w) /\ UNCHANGED <<pm, rows>> BY DEF Rollback, Reset
<1>2. (\A r \in Watched : Backed(rows[r], r, Cursor(r)))'
  BY <1>1 DEF BInv, Backed, Cursor
<1>3. QED BY <1>1, <1>2, ResetBacked

\* The commit of a cursor comes with what it claims.
LEMMA CommitBacked ==
  ASSUME Alone, TInv, BInv, NEW w \in Workers, Commit(w) PROVE BInv'
<1>0. PlaceTypes(w) /\ HeldTypes(w) /\ Backing(w) BY DEF TInv, BInv
<1>1. Reset(w) /\ pm' = pm /\ \A t \in Tables : rows'[t] = Visible(w, t)
  BY DEF Commit, Reset
<1>2. "cursors" \in Tables /\ Watched \subseteq Tables BY DEF Tables, Watched, Resources
<1>3. ASSUME NEW r \in Watched, NEW k \in DOMAIN pm[r],
             pm[r][k].valid, pm[r][k].at <= Cursor(r)'
      PROVE  k \in DOMAIN Visible(w, r) /\ Visible(w, r)[k].at = pm[r][k].at
  <2>1. CASE r \in DOMAIN tx[w].cursors
    <3>1. Cursor(r)' = tx[w].cursors[r].at
      BY <1>1, <1>2, <2>1 DEF Cursor, Visible, Over
    <3>2. phase[w] = Len(Phases(kind[w])) /\ Promised(w, r, Cursor(r)')
      BY <1>0, <2>1, <3>1 DEF Backing, CursorsLast
    <3>3. pm[r][k].at \in 1..clock /\ clock \in Nat
      BY <1>3 DEF TInv, PmTypes, Watched, Resources
    <3>4. kind[w] # "full" /\ r \in DOMAIN curs[w] /\ Cursor(r)' = curs[w][r]
      BY <1>3, <3>2, <3>3 DEF Promised
    <3>5. ~ Due(w, r, k)
      BY <3>2, PhasesAre DEF Due, At, Watched
    <3>6. QED BY <1>0, <1>3, <3>4, <3>5 DEF Backing, Covered
  <2>2. CASE r \notin DOMAIN tx[w].cursors
    <3>1. Cursor(r)' = Cursor(r)
      BY <1>1, <1>2, <2>2 DEF Cursor, Visible, Over
    <3>2. QED BY <1>0, <1>3, <3>1 DEF Backing, Backed
  <2>3. QED BY <2>1, <2>2
<1>4. (\A r \in Watched : Backed(rows[r], r, Cursor(r)))'
  BY <1>1, <1>2, <1>3 DEF Backed
<1>5. QED BY <1>1, <1>4, ResetBacked

\* A change on the platform is beyond every cursor there is.
LEMMA PlatformBacked ==
  ASSUME PmSyncAssumption, Alone, TInv, BInv, Platform PROVE BInv'
<1>0. PICK r \in Resources, live \in BOOLEAN, valid \in BOOLEAN :
        \E k \in Keys(r), ref \in Iterations \cup Issues \cup {0} : PmEdit(r, k, live, valid, ref)
  BY DEF Platform
<1>1. PICK k \in Keys(r), ref \in Iterations \cup Issues \cup {0} : PmEdit(r, k, live, valid, ref)
  BY <1>0
<1>2. /\ UNCHANGED <<rows, tx, kind, phase, pc, since, items, plan, curs>>
      /\ pm' = [pm EXCEPT ![r] =
            With(@, k, [at |-> clock + 1, live |-> live, valid |-> valid, ref |-> ref])]
  BY <1>1 DEF PmEdit, run
<1>3. \A q : Cursor(q) \in 0..clock
  BY DEF TInv, TablesOK, Tables, RowType, Cursor, PmTypes
<1>4. ASSUME NEW q \in Watched, NEW j \in DOMAIN pm'[q], NEW c \in 0..clock, pm'[q][j].at <= c
      PROVE  j \in DOMAIN pm[q] /\ pm'[q][j] = pm[q][j]
  <2>1. q \in DOMAIN pm /\ clock \in Nat BY DEF TInv, PmTypes, Watched, Resources
  <2>2. CASE q # r BY <1>2, <2>1, <2>2
  <2>3. CASE q = r
    <3>1. pm'[q] = With(pm[q], k, [at |-> clock + 1, live |-> live, valid |-> valid, ref |-> ref])
      BY <1>2, <2>1, <2>3
    <3>2. j # k BY <1>4, <2>1, <3>1 DEF With, Over
    <3>3. QED BY <3>1, <3>2 DEF With, Over
  <2>4. QED BY <2>2, <2>3
<1>5. (\A q \in Watched : Backed(rows[q], q, Cursor(q)))'
  BY <1>2, <1>3, <1>4 DEF BInv, Backed, Cursor
<1>6. ASSUME NEW w \in Workers PROVE Backing(w)'
  <2>0. HeldTypes(w) /\ Backing(w) BY DEF TInv, BInv
  <2>1. /\ At(w)' = At(w)
        /\ \A q : Visible(w, q)' = Visible(w, q) /\ Cursor(q)' = Cursor(q)
                  /\ Bounds(w, q)' = Bounds(w, q)
    BY <1>2 DEF At, Visible, Cursor, Bounds
  <2>2. \A q : \A c \in Bounds(w, q) : c \in 0..clock
    BY <2>0, <1>3 DEF Bounds, HeldTypes
  <2>3. (\A q \in Watched : Backed(Visible(w, q), q, Cursor(q)))'
    BY <2>0, <2>1, <1>3, <1>4 DEF Backing, Backed
  <2>4. Covered(w)'
    <3> SUFFICES ASSUME NEW q \in Watched \cap DOMAIN curs[w], NEW j \in DOMAIN pm'[q],
                        pm'[q][j].valid, pm'[q][j].at <= curs[w][q]
                 PROVE  \/ j \in DOMAIN Visible(w, q) /\ Visible(w, q)[j].at = pm'[q][j].at
                        \/ Due(w, q, j)'
      BY <1>2, <2>0, <2>1 DEF Backing, Covered
    <3>1. curs[w][q] \in 0..clock BY <2>0 DEF HeldTypes
    <3>2. j \in DOMAIN pm[q] /\ pm'[q][j] = pm[q][j] BY <1>4, <3>1
    <3>3. \/ j \in DOMAIN Visible(w, q) /\ Visible(w, q)[j].at = pm[q][j].at
          \/ Due(w, q, j)
      BY <2>0, <3>2 DEF Backing, Covered
    <3>4. QED BY <1>2, <2>1, <3>2, <3>3 DEF Due
  <2>5. Fresh(w)'
    <3> SUFFICES ASSUME NEW i \in DOMAIN items[w], NEW c,
                        At(w) \in Watched, items[w][i].key \in DOMAIN pm'[At(w)],
                        c \in Bounds(w, At(w)), pm'[At(w)][items[w][i].key].valid,
                        pm'[At(w)][items[w][i].key].at <= c
                 PROVE  items[w][i].at = pm'[At(w)][items[w][i].key].at
      BY <1>2, <2>1 DEF Fresh
    <3> DEFINE q == At(w)  j == items[w][i].key
    <3>1. c \in 0..clock BY <2>2
    <3>2. j \in DOMAIN pm[q] /\ pm'[q][j] = pm[q][j] BY <1>4, <3>1
    <3>3. QED BY <2>0, <3>2 DEF Backing, Fresh
  <2>6. Asks(w)' BY <1>2, <2>0, <2>1 DEF Backing, Asks
  <2>7. Plans(w)' BY <1>2, <2>0, <2>1 DEF Backing, Plans
  <2>8. CursorsLast(w)' BY <1>2, <2>0, <2>1 DEF Backing, CursorsLast, Promised
  <2>9. QED BY <2>3, <2>4, <2>5, <2>6, <2>7, <2>8 DEF Backing
<1>7. QED BY <1>5, <1>6 DEF BInv

\* What a query of w is to answer.
Matching(w) ==
  {k \in DOMAIN pm[At(w)] :
     IF kind[w] = "full" THEN pm[At(w)][k].live ELSE pm[At(w)][k].at > since[w]}

\* A listing has no entry twice, hence has every one.
LEMMA ListingComplete ==
  ASSUME PmSyncAssumption, TInv, NEW w \in Workers, At(w) \in Resources,
         NEW listing \in Listings(w)
  PROVE  /\ Len(listing) = Cardinality(Matching(w)) /\ listing \in Seq(Matching(w))
         /\ Cardinality(Matching(w)) <= Cardinality(Keys(At(w)))
         /\ \A k \in Matching(w) : \E i \in DOMAIN listing : listing[i] = k
<1> DEFINE M == Matching(w)  n == Cardinality(M)
           Before(a, b) == IF kind[w] = "full" THEN a < b
                                               ELSE pm[At(w)][a].at < pm[At(w)][b].at
<1>1. /\ listing \in [1..n -> M]
      /\ \A i, j \in DOMAIN listing : i < j => Before(listing[i], listing[j])
  BY DEF Listings, Matching, Resources
<1>2. M \subseteq DOMAIN pm[At(w)] /\ DOMAIN pm[At(w)] \subseteq Keys(At(w))
  BY DEF TInv, PmTypes, Matching
<1>3. IsFiniteSet(Keys(At(w))) /\ Keys(At(w)) \subseteq Nat
  BY DEF PmSyncAssumption, Keys, Resources
<1>4. IsFiniteSet(M) /\ n <= Cardinality(Keys(At(w))) BY <1>2, <1>3, FS_Subset
<1>5. n \in Nat BY <1>4, FS_CardinalityType
<1>6. \A a \in M : a \in Nat /\ pm[At(w)][a].at \in Nat
  BY <1>2, <1>3 DEF TInv, PmTypes
<1> HIDE DEF M, n
<1>7. ASSUME NEW i \in 1..n, NEW j \in 1..n, listing[i] = listing[j] PROVE i = j
  <2>1. listing[i] \in M /\ ~ Before(listing[i], listing[j])
    BY <1>1, <1>6, <1>7
  <2>2. ~ Before(listing[j], listing[i]) BY <1>7, <2>1
  <2> HIDE DEF Before
  <2>3. ~ (i < j) /\ ~ (j < i) BY <1>1, <2>1, <2>2
  <2>4. QED BY <1>5, <2>3
<1>8. listing \in Injection(1..n, M)
  BY <1>1, <1>7 DEF Injection, IsInjective
<1>9. IsFiniteSet(1..n) /\ Cardinality(1..n) = n BY <1>5, FS_Interval
<1>10. listing \in Surjection(1..n, M)
  BY <1>4, <1>8, <1>9, FS_Injection DEF n
<1>11. \A k \in M : \E i \in DOMAIN listing : listing[i] = k
  BY <1>1, <1>10 DEF Surjection
<1>12. Len(listing) = n /\ listing \in Seq(M) BY <1>1, <1>5
<1>13. QED BY <1>4, <1>11, <1>12 DEF M, n

LEMMA FetchPageBacked ==
  ASSUME PmSyncAssumption, SizeOK, Alone, OnePage, TInv, BInv, NEW w \in Workers, FetchPage(w)
  PROVE  BInv'
<1>0. PlaceTypes(w) /\ HeldTypes(w) /\ Functions2OK /\ Backing(w) BY DEF TInv, BInv
<1>1. /\ UNCHANGED <<pm, rows>> /\ pc[w] = "page" /\ kind'[w] = kind[w]
      /\ phase'[w] = phase[w] /\ tx'[w] = tx[w] /\ since'[w] = since[w]
  BY <1>0 DEF FetchPage, Functions2OK, FunctionsOK
<1>2. /\ items[w] = <<>>
      /\ since[w] = IF kind[w] = "full" THEN 0 ELSE Cursor(At(w))
  BY <1>0, <1>1 DEF Backing, Asks
<1>3. /\ At(w)' = At(w)
      /\ \A r : Visible(w, r)' = Visible(w, r) /\ Cursor(r)' = Cursor(r)
  BY <1>1, SeesTheSame DEF At
<1>4. phase[w] \in 1..(Len(Phases(kind[w])) - 1) /\ At(w) \in Resources \cup {"users"}
  BY <1>0, <1>1, PhasesAre DEF PlaceTypes, At
<1>5. DOMAIN tx[w].cursors = {} BY <1>1, NoCursorYet
<1> DEFINE Page(listing) ==
             SubSeq(listing, Len(items[w]) + 1,
                    IF Len(items[w]) + pageSize < Len(listing)
                      THEN Len(items[w]) + pageSize ELSE Len(listing))
<1>6. PICK listing \in Listings(w), silent \in SUBSET MayBeSilent(w) :
        LET all == items[w] \o ItemsOf(w, Page(listing), silent)
        IN  /\ items' = [items EXCEPT ![w] = all]
            /\ IF Len(all) < Len(listing)
                 THEN UNCHANGED <<pc, curs>>
                 ELSE /\ pc' = [pc EXCEPT ![w] = "upsert"]
                      /\ curs' = IF kind[w] = "full" \/ all = <<>> THEN curs
                                   ELSE [curs EXCEPT ![w] = With(@, At(w), Newest(all))]
  BY DEF FetchPage, ItemsOf
\* The one page is the whole listing.
<1>7. Len(listing) \in Nat /\ Len(listing) <= pageSize /\ listing \in Seq(Range(listing))
  <2>1. CASE At(w) \in Resources
    <3>1. /\ Len(listing) <= Cardinality(Keys(At(w))) /\ listing \in Seq(Matching(w))
      BY <2>1, ListingComplete
    <3>2. Cardinality(Keys(At(w))) <= pageSize /\ pageSize \in Nat
      BY <2>1 DEF OnePage, SizeOK, PmSyncAssumption
    <3>3. IsFiniteSet(Keys(At(w))) BY <2>1 DEF PmSyncAssumption, Keys, Resources
    <3>4. Cardinality(Keys(At(w))) \in Nat BY <3>3, FS_CardinalityType
    <3>5. Len(listing) \in Nat BY <3>1
    <3>6. QED BY <3>1, <3>2, <3>4, <3>5 DEF Range
  <2>2. CASE At(w) = "users"
    <3>1. listing \in [1..0 -> {}]
      BY <2>2, FS_EmptySet DEF Listings
    <3>2. QED BY <3>1 DEF SizeOK, PmSyncAssumption, Range
  <2>3. QED BY <1>4, <2>1, <2>2
<1>8. Page(listing) = listing
  <2>1. pageSize \in Nat \ {0} BY DEF SizeOK, PmSyncAssumption
  <2>2. Page(listing) = SubSeq(listing, 1, Len(listing)) BY <1>2, <1>7, <2>1
  <2> HIDE DEF Page
  <2>3. QED BY <1>7, <2>2
<1> HIDE DEF Page
<1> DEFINE all == ItemsOf(w, listing, silent)
<1>9. /\ DOMAIN all = DOMAIN listing
      /\ \A i \in DOMAIN listing :
           /\ all[i].key = listing[i] /\ all[i].at = pm[At(w)][listing[i]].at
           /\ all[i].valid = pm[At(w)][listing[i]].valid
           /\ silent = {} => all[i].dated
  BY ItemFields DEF ItemsOf
<1>10. items[w] \o ItemsOf(w, Page(listing), silent) = all /\ Len(all) = Len(listing)
  <2>1. all \in Seq({all[i] : i \in DOMAIN all}) /\ Len(all) = Len(listing)
    BY <1>7 DEF ItemsOf
  <2> HIDE DEF all
  <2>2. ItemsOf(w, Page(listing), silent) = all BY <1>8 DEF all
  <2>3. QED BY <1>2, <2>1, <2>2
<1> HIDE DEF all
<1>11. /\ items'[w] = all /\ pc'[w] = "upsert"
       /\ curs'[w] = IF kind[w] = "full" \/ all = <<>> THEN curs[w]
                       ELSE With(curs[w], At(w), Newest(all))
  <2>1. /\ items' = [items EXCEPT ![w] = all]
        /\ IF Len(all) < Len(listing)
             THEN UNCHANGED <<pc, curs>>
             ELSE /\ pc' = [pc EXCEPT ![w] = "upsert"]
                  /\ curs' = IF kind[w] = "full" \/ all = <<>> THEN curs
                               ELSE [curs EXCEPT ![w] = With(@, At(w), Newest(all))]
    BY <1>6, <1>10
  <2>2. ~ (Len(all) < Len(listing)) BY <1>7, <1>10
  <2>3. items'[w] = all /\ pc'[w] = "upsert"
    BY <1>0, <2>1, <2>2 DEF Functions2OK, FunctionsOK
  <2>4. curs'[w] = IF kind[w] = "full" \/ all = <<>> THEN curs[w]
                     ELSE With(curs[w], At(w), Newest(all))
    BY <1>0, <2>1, <2>2 DEF Functions2OK
  <2>5. QED BY <2>3, <2>4
\* An item is its record as it is now.
<1>12. Fresh(w)'
  <2>1. ASSUME NEW i \in DOMAIN all
        PROVE  all[i].at = pm[At(w)][all[i].key].at
    BY <1>9, <2>1
  <2>2. QED BY <1>1, <1>3, <1>11, <2>1 DEF Fresh
\* What changed up to the newest item was stored before or is an item.
<1>13. Covered(w)'
  <2>0. ASSUME NEW r \in Watched, r \in DOMAIN curs'[w] PROVE curs'[w][r] # NoDate
    <3>1. CASE r \in DOMAIN curs[w] /\ curs'[w][r] = curs[w][r]
      BY <1>0, <3>1 DEF Backing, Covered
    <3>2. CASE r = At(w) /\ all # <<>> /\ curs'[w][r] = Newest(all)
      <4>1. At(w) \in Resources /\ silent = {}
        BY <3>2 DEF Watched, Resources, MayBeSilent
      <4>2. \A i \in DOMAIN listing : pm[At(w)][listing[i]].at \in 1..clock
        <5>1. \A i \in DOMAIN listing : listing[i] \in Matching(w)
          BY <4>1, ListingComplete
        <5>2. Matching(w) \subseteq DOMAIN pm[At(w)] BY DEF Matching
        <5>3. QED BY <4>1, <5>1, <5>2 DEF TInv, PmTypes
      <4>3. \A i \in DOMAIN all : all[i].dated /\ all[i].at # 0
        BY <1>9, <4>1, <4>2 DEF TInv, PmTypes
      <4>4. all \in Seq(Items(At(w)))
        <5>1. TInv' /\ clock' = clock BY PmSyncAssumption, FetchPageTypes DEF FetchPage
        <5>2. HeldTypes(w)' BY <5>1 DEF TInv
        <5>3. QED BY <1>3, <1>11, <5>1, <5>2 DEF HeldTypes, Items
      <4>5. QED BY <3>2, <4>3, <4>4, NewestType
    <3>3. QED BY <1>11, <2>0, <3>1, <3>2 DEF With, Over
  <2> SUFFICES ASSUME NEW r \in Watched, r \in DOMAIN curs'[w], NEW k \in DOMAIN pm[r],
                      pm[r][k].valid, pm[r][k].at <= curs'[w][r]
               PROVE  \/ k \in DOMAIN Visible(w, r) /\ Visible(w, r)[k].at = pm[r][k].at
                      \/ Due(w, r, k)'
    BY <1>1, <1>3, <2>0 DEF Covered
  <2>1. CASE r # At(w)
    <3>1. r \in DOMAIN curs[w] /\ curs'[w][r] = curs[w][r]
      BY <1>11, <2>1 DEF With, Over
    <3>2. ~ Due(w, r, k) BY <2>1 DEF Due
    <3>3. QED BY <1>0, <3>1, <3>2 DEF Backing, Covered
  <2>2. CASE r = At(w)
    <3>0. At(w) \in Resources BY <2>2 DEF Watched, Resources
    <3>1. kind[w] = "incremental"
      <4>1. kind[w] # "full"
        BY <1>0, <1>11 DEF HeldTypes, Nothing, NoRows
      <4>2. QED BY <1>0, <1>1, <4>1 DEF PlaceTypes
    <3>2. since[w] = Cursor(r) /\ Cursor(r) \in Int /\ pm[r][k].at \in Int
      <4>1. Cursor(r) \in 0..clock /\ clock \in Nat
        BY DEF TInv, TablesOK, Tables, RowType, Cursor, PmTypes
      <4>2. pm[r][k].at \in 1..clock BY <2>2, <3>0 DEF TInv, PmTypes
      <4>3. QED BY <1>2, <2>2, <3>1, <4>1, <4>2
    <3>3. CASE pm[r][k].at <= since[w]
      BY <1>0, <3>2, <3>3 DEF Backing, Backed
    <3>4. CASE pm[r][k].at > since[w]
      <4>1. k \in Matching(w) BY <2>2, <3>1, <3>4 DEF Matching
      <4>2. PICK i \in DOMAIN listing : listing[i] = k
        BY <3>0, <4>1, ListingComplete
      <4>3. i \in DOMAIN all /\ all[i].key = k /\ all[i].valid /\ all[i].at = pm[r][k].at
        BY <1>9, <2>2, <4>2
      <4>4. QED BY <1>1, <1>3, <1>11, <2>2, <4>3 DEF Due
    <3>5. QED BY <3>2, <3>3, <3>4
  <2>3. QED BY <2>1, <2>2
<1>14. Asks(w)' /\ Plans(w)' BY <1>11 DEF Asks, Plans
<1>15. CursorsLast(w)'
  <2>1. At(w)' # "cursors" BY <1>3, <1>4 DEF Resources
  <2>2. QED BY <1>1, <1>5, <2>1 DEF CursorsLast
<1>16. Backing(w)' BY <1>1, <1>12, <1>13, <1>14, <1>15, SeesTheSame DEF Backing
<1>17. QED BY <1>1, <1>16, SeesTheSame, AloneStep

LEMMA StutterBacked == ASSUME Alone, TInv, BInv, UNCHANGED vars PROVE BInv'
<1>1. UNCHANGED <<clock, pm, rows, tx, kind, phase, pc, since, items, plan, curs>>
  BY DEF vars, run
<1>2. \A r : Cursor(r)' = Cursor(r) BY <1>1 DEF Cursor
<1>3. (\A r \in Watched : Backed(rows[r], r, Cursor(r)))'
  BY <1>1, <1>2 DEF BInv, Backed
<1>4. ASSUME NEW w \in Workers PROVE Backing(w)'
  <2>1. Backing(w) /\ At(w)' = At(w) /\ \A r : Bounds(w, r)' = Bounds(w, r)
    BY <1>1, <1>2 DEF BInv, At, Bounds
  <2>2. (\A r \in Watched : Backed(Visible(w, r), r, Cursor(r)))'
    BY <1>1, SeesTheSame
  <2>3. Covered(w)' BY <1>1, <2>1, SeesTheSame DEF Backing, Covered, Due
  <2>4. Fresh(w)' /\ Asks(w)' BY <1>1, <1>2, <2>1 DEF Backing, Fresh, Asks
  <2>5. Plans(w)' BY <1>1, <2>1, SeesTheSame DEF Backing, Plans
  <2>6. CursorsLast(w)' BY <1>1, <2>1 DEF Backing, CursorsLast, Promised
  <2>7. QED BY <2>2, <2>3, <2>4, <2>5, <2>6 DEF Backing
<1>5. QED BY <1>3, <1>4 DEF BInv

\* When runs do not overlap and a listing fits in one page, the cursor of a
\* resource whose items carry an updated_at is a watermark, whatever the platform
\* changes meanwhile and wherever runs fail: what was changed up to the committed
\* cursor is committed in that version.
THEOREM CursorsAreBacked ==
  ASSUME Alone PROVE Spec => []CursorIsBacked
<1> DEFINE Inv == OnePage => BInv
<1>1. Init => Inv BY InitBacked
<1>2. SizeOK /\ TInv /\ Inv /\ [Next]_vars => Inv'
  <2> SUFFICES ASSUME SizeOK, TInv, Inv, [Next]_vars, OnePage' PROVE BInv'
    OBVIOUS
  <2>0. OnePage /\ BInv BY SizeKept DEF OnePage
  <2>1. ASSUME NEW w \in Workers, Step(w) PROVE BInv'
    BY <2>0, <2>1, PmSyncAssumption, NextResourceBacked, FetchPageBacked, LookUpBacked,
       FlushBacked, ToCursorsBacked, CommitBacked, RollbackBacked
       DEF Step, UniqueViolation, LockVictim
  <2>2. ASSUME NEW w \in Workers, Fault(w) PROVE BInv'
    BY <2>0, <2>2, HttpFailBacked, RollbackBacked DEF Fault, Kill
  <2>3. QED
    BY <2>0, <2>1, <2>2, PmSyncAssumption, PlatformBacked, StartBacked, StutterBacked DEF Next
<1>3. Inv => CursorIsBacked BY BInvImplies DEF CursorIsBacked
<1> HIDE DEF Inv
<1>4. QED BY <1>1, <1>2, <1>3, TypesInductive, SizeIsSet, PTL DEF Spec
=============================================================================
