------------------------------- MODULE PmSync -------------------------------
(***************************************************************************)
(* The synchronisation of the requirements platform ("PM") into the        *)
(* database: services/pm-integration, sync/full.py, sync/incremental.py,   *)
(* sync/upsert.py, client.py and the DAOs they write through.              *)
(*                                                                         *)
(* A run of either kind is one database transaction, committed once at its *)
(* end.  It goes through the resources in order: fetch the pages, upsert   *)
(* what came back one item at a time, and last write the cursors.  A full  *)
(* run fetches what is live and resets the cursors; an incremental run     *)
(* fetches what changed after the cursor and moves it to the newest change *)
(* it has seen.  Nothing keeps two runs from overlapping: the database     *)
(* (read committed, row locks, unique keys) is all that orders them.       *)
(***************************************************************************)
EXTENDS Integers, Sequences, FiniteSets, SequencesExt, Rows

CONSTANTS
  Workers,      \* the processes that run sync jobs
  Iterations,   \* ids of iterations, a set of positive integers
  Issues,       \* ids of issues; the assignment of an issue has the same id
  PageSizes,    \* the values config.page_size may have
  Undated,      \* resources whose items may come without an updated_at
  Faults,       \* which of "http", "malformed", "kill" may happen
  MaxClock      \* bound: number of changes made on the platform

ASSUME PmSyncAssumption ==
  /\ Iterations \subseteq Nat \ {0} /\ Issues \subseteq Nat \ {0}
  /\ IsFiniteSet(Iterations) /\ IsFiniteSet(Issues)
  /\ PageSizes \subseteq Nat \ {0} /\ MaxClock \in Nat
  /\ Undated \subseteq {"iterations", "issues", "assignments"}
  /\ Faults \subseteq {"http", "malformed", "kill"}

VARIABLES
  clock,   \* the time of the platform's last change
  pm,      \* the platform's records, by resource and id
  pageSize,\* config.page_size, the same for all
  rows,    \* the committed tables, by name and key
  tx,      \* tx[w]: what the transaction of w has written so far
  kind,    \* kind[w]: "full", "incremental", or "none" between runs
  phase,   \* phase[w]: index in the phases of the run, 0 before the first
  pc,      \* pc[w]: what the run does next
  since,   \* since[w]: the updated_after of the fetch in progress, 0 for none
  items,   \* items[w]: what is fetched and not yet written
  plan,    \* plan[w]: the row about to be written, whether by an INSERT, and
           \* whether the UPDATE leaves its value alone
  curs     \* curs[w]: the cursors to write (new_cursors)

run  == <<tx, kind, phase, pc, since, items, plan, curs>>
vars == <<clock, pm, pageSize, rows, run>>

Resources == {"iterations", "issues", "assignments"}
Tables    == Resources \cup {"cursors"}
Sources   == <<"iterations", "issues", "assignments", "users">>
Nothing   == NoRows
NoPlan    == [row |-> Nothing, insert |-> FALSE, keep |-> FALSE]

Keys(t) == CASE t = "iterations" -> Iterations
             [] t = "cursors"    -> Range(Sources)
             [] OTHER            -> Issues

Phases(k) == IF k = "full" THEN <<"iterations", "issues", "assignments", "users", "cursors">>
                           ELSE <<"iterations", "issues", "assignments", "cursors">>

(* The resource or table the run of w is at. *)
At(w) == Phases(kind[w])[phase[w]]

(* Read committed: what w sees is what is committed and what it wrote. *)
Visible(w, t) == Over(tx[w][t], rows[t])

(* Another transaction wrote this row and has not ended. *)
Locked(w, t, k) == \E o \in Workers \ {w} : k \in DOMAIN tx[o][t]

(* The cursor of a resource, 0 when there is no row or it holds None. *)
Cursor(r) == IF r \in DOMAIN rows.cursors THEN rows.cursors[r].at ELSE 0

NoWrites == [t \in Tables |-> Nothing]

Init ==
  /\ clock = 0 /\ pageSize \in PageSizes
  /\ pm = [r \in Resources |-> Nothing]
  /\ rows = NoWrites
  /\ tx = [w \in Workers |-> NoWrites]
  /\ kind = [w \in Workers |-> "none"]
  /\ phase = [w \in Workers |-> 0]
  /\ pc = [w \in Workers |-> "idle"]
  /\ since = [w \in Workers |-> 0]
  /\ items = [w \in Workers |-> <<>>]
  /\ plan = [w \in Workers |-> NoPlan]
  /\ curs = [w \in Workers |-> Nothing]

-----------------------------------------------------------------------------
(* The platform.  Each change has a time of its own; a record may lack a      *)
(* field its DTO requires (not valid).  An issue is created open, and closed  *)
(* by a later change; an iteration may be planned before it is active.       *)

PmEdit(r, k, live, valid, ref) ==
  /\ clock < MaxClock
  /\ valid \/ "malformed" \in Faults
  /\ CASE r = "iterations"  -> ref = 0
       [] r = "issues"      -> /\ ref \in DOMAIN pm.iterations \cup {0}
                               /\ live \/ k \in DOMAIN pm.issues
       [] r = "assignments" -> live /\ ref = k /\ k \in DOMAIN pm.issues
  /\ clock' = clock + 1
  /\ pm' = [pm EXCEPT ![r] =
              With(@, k, [at |-> clock + 1, live |-> live, valid |-> valid, ref |-> ref])]
  /\ UNCHANGED <<pageSize, rows, run>>

(* What a query answers and in which order: a full listing by id, a listing *)
(* of changes by their time.                                                *)
Listings(w) ==
  LET r == At(w)
      matching == IF r = "users" THEN {}
                  ELSE {k \in DOMAIN pm[r] :
                         IF kind[w] = "full" THEN pm[r][k].live
                                             ELSE pm[r][k].at > since[w]}
      Before(a, b) == IF kind[w] = "full" THEN a < b ELSE pm[r][a].at < pm[r][b].at
  IN {listing \in [1..Cardinality(matching) -> matching] :
        \A i, j \in DOMAIN listing : i < j => Before(listing[i], listing[j])}

-----------------------------------------------------------------------------
(* A run. *)

Start(w, k) ==
  /\ pc[w] = "idle"
  /\ pc' = [pc EXCEPT ![w] = "upsert"]
  /\ kind' = [kind EXCEPT ![w] = k]
  /\ UNCHANGED <<clock, pm, pageSize, rows, tx, phase, since, items, plan, curs>>

\* No item has an updated_at that can be parsed.
NoDate == 0

(* The newest updated_at of a batch; items without one are skipped. *)
Newest(s) ==
  LET dates == {s[i].at : i \in {j \in DOMAIN s : s[j].dated}}
  IN IF dates = {} THEN NoDate ELSE Max(dates)

(* Once its batch is upserted, a cursor that has no date is given the time. *)
Settled(w) == [r \in DOMAIN curs[w] |-> IF curs[w][r] = NoDate THEN clock ELSE curs[w][r]]

(* The next resource is begun by reading its cursor (_cursor_or_default); a  *)
(* full run asks without updated_after.                                      *)
NextResource(w) ==
  /\ pc[w] = "upsert" /\ items[w] = <<>>
  /\ phase[w] < Len(Phases(kind[w])) - 1
  /\ LET r == Phases(kind[w])[phase[w] + 1] IN
       since' = [since EXCEPT ![w] = IF kind[w] = "full" THEN 0 ELSE Cursor(r)]
  /\ phase' = [phase EXCEPT ![w] = @ + 1]
  /\ pc' = [pc EXCEPT ![w] = "page"]
  /\ curs' = [curs EXCEPT ![w] = Settled(w)]
  /\ UNCHANGED <<clock, pm, pageSize, rows, tx, kind, items, plan>>

(* Items that may come without an updated_at.  A full run does not look.      *)
MayBeSilent(w) == IF At(w) \in Undated /\ kind[w] = "incremental" THEN Keys(At(w)) ELSE {}

(* What is fetched of a record; whether it says when it was changed (dated)  *)
(* is up to the answer.                                                      *)
ItemOf(w, k, silent) ==
  [key |-> k, at |-> pm[At(w)][k].at, valid |-> pm[At(w)][k].valid,
   dated |-> k \notin silent, ref |-> pm[At(w)][k].ref]

(* One request of get_paginated: the next page of the listing as it is now. *)
(* The loop ends when as many items were collected as the answer counts.    *)
FetchPage(w) ==
  /\ pc[w] = "page"
  /\ \E listing \in Listings(w), silent \in SUBSET MayBeSilent(w) :
     LET page == SubSeq(listing, Len(items[w]) + 1,
                        IF Len(items[w]) + pageSize < Len(listing)
                          THEN Len(items[w]) + pageSize ELSE Len(listing))
         all == items[w] \o [i \in DOMAIN page |-> ItemOf(w, page[i], silent)]
     IN /\ items' = [items EXCEPT ![w] = all]
        /\ IF Len(all) < Len(listing)
             THEN UNCHANGED <<pc, curs>>
             ELSE /\ pc' = [pc EXCEPT ![w] = "upsert"]
                  /\ curs' = IF kind[w] = "full" \/ all = <<>> THEN curs
                             ELSE [curs EXCEPT ![w] = With(@, At(w), Newest(all))]
  /\ UNCHANGED <<clock, pm, pageSize, rows, tx, kind, phase, since, plan>>

(* The retries of a request are used up, or it was refused: the run ends    *)
(* early, records its failure, writes no cursor, and commits its rows.      *)
HttpFail(w) ==
  /\ "http" \in Faults
  /\ pc[w] = "page"
  /\ items' = [items EXCEPT ![w] = <<>>]
  /\ curs' = [curs EXCEPT ![w] = Nothing]
  /\ pc' = [pc EXCEPT ![w] = "commit"]
  /\ UNCHANGED <<clock, pm, pageSize, rows, tx, kind, phase, since, plan>>

(* The row an item becomes: an issue whose iteration is not stored is        *)
(* written without one.                                                      *)
RowFor(w, t, item) ==
  [at |-> item.at,
   ref |-> IF t = "issues" /\ item.ref \notin DOMAIN Visible(w, "iterations")
             THEN 0 ELSE item.ref]

\* Mutant: the check that the issue is stored is gone.
Skipped_NoIssueCheck(w, t, item) == ~ item.valid

(* What a batch leaves out: a payload that does not validate, and an          *)
(* assignment whose issue is not stored.                                     *)
Skipped(w, t, item) ==
  \/ ~ item.valid
  \/ t = "assignments" /\ item.key \notin DOMAIN Visible(w, "issues")

(* The reads of an upsert: the rows it refers to, and whether its own exists. *)
(* Setting a cursor to the value just read changes only its last_synced_at.  *)
LookUp(w) ==
  /\ pc[w] = "upsert" /\ items[w] # <<>>
  /\ LET t == At(w)  item == Head(items[w])  row == RowFor(w, t, item)
         found == item.key \in DOMAIN Visible(w, t)
     IN
       IF Skipped(w, t, item)
         THEN /\ items' = [items EXCEPT ![w] = Tail(@)]
              /\ UNCHANGED <<pc, plan>>
         ELSE /\ plan' = [plan EXCEPT ![w] =
                           [row |-> row, insert |-> ~ found,
                            keep |-> /\ t = "cursors" /\ found
                                     /\ Visible(w, t)[item.key] = row]]
              /\ pc' = [pc EXCEPT ![w] = "write"]
              /\ UNCHANGED items
  /\ UNCHANGED <<clock, pm, pageSize, rows, tx, kind, phase, since, curs>>

\* Mutant: the session outlives the run that wrote through it.
Reset_KeepsSession(w) ==
  /\ pc' = [pc EXCEPT ![w] = "idle"]
  /\ items' = [items EXCEPT ![w] = <<>>]
  /\ plan' = [plan EXCEPT ![w] = NoPlan]
  /\ curs' = [curs EXCEPT ![w] = Nothing]
  /\ kind' = [kind EXCEPT ![w] = "none"]
  /\ phase' = [phase EXCEPT ![w] = 0]
  /\ UNCHANGED <<clock, pm, pageSize, tx, since>>

(* The run is over and its transaction is gone. *)
Reset(w) ==
  /\ tx' = [tx EXCEPT ![w] = NoWrites]
  /\ pc' = [pc EXCEPT ![w] = "idle"]
  /\ since' = [since EXCEPT ![w] = 0]
  /\ items' = [items EXCEPT ![w] = <<>>]
  /\ plan' = [plan EXCEPT ![w] = NoPlan]
  /\ curs' = [curs EXCEPT ![w] = Nothing]
  /\ kind' = [kind EXCEPT ![w] = "none"]
  /\ phase' = [phase EXCEPT ![w] = 0]
  /\ UNCHANGED <<clock, pm, pageSize>>

Rollback(w) == Reset(w) /\ UNCHANGED rows

(* The UPDATE or INSERT, which waits for a transaction that holds the row. *)
Flush(w) ==
  /\ pc[w] = "write"
  /\ LET t == At(w)  k == Head(items[w]).key IN
       /\ ~ Locked(w, t, k)
       /\ ~ (plan[w].insert /\ k \in DOMAIN rows[t])
       /\ tx' = [tx EXCEPT ![w][t] =
                   With(@, k, IF plan[w].keep THEN Visible(w, t)[k] ELSE plan[w].row)]
  /\ items' = [items EXCEPT ![w] = Tail(@)]
  /\ plan' = [plan EXCEPT ![w] = NoPlan]
  /\ pc' = [pc EXCEPT ![w] = "upsert"]
  /\ UNCHANGED <<clock, pm, pageSize, rows, kind, phase, since, curs>>

(* The unique key of an INSERT was committed by another run meanwhile.  The  *)
(* batch swallows the error, but the session can only be rolled back: every  *)
(* later statement, the audit record included, raises.                       *)
UniqueViolation(w) ==
  /\ pc[w] = "write" /\ plan[w].insert
  /\ Head(items[w]).key \in DOMAIN rows[At(w)]
  /\ Rollback(w)

(* Two runs that wait for each other's rows: the database ends one of them. *)
WaitsFor(w, o) ==
  /\ pc[w] = "write" /\ o # w
  /\ Head(items[w]).key \in DOMAIN tx[o][At(w)]

LockVictim(w) ==
  /\ \E o \in Workers : WaitsFor(w, o) /\ WaitsFor(o, w)
  /\ Rollback(w)

CursorItem(r, value) == [key |-> r, at |-> value, valid |-> TRUE, dated |-> TRUE, ref |-> 0]

\* Mutant: the cursors move to the time of their commit.
NewCursors_Now(w) ==
  LET Moved(r) == IF r \in DOMAIN curs[w] THEN <<CursorItem(r, clock)>> ELSE <<>>
  IN Moved("iterations") \o Moved("issues") \o Moved("assignments")

(* The cursors of the resources that had changes, in the order of the run. *)
NewCursors(w) ==
  LET Moved(r) == IF r \in DOMAIN curs[w] THEN <<CursorItem(r, Settled(w)[r])>> ELSE <<>>
  IN Moved("iterations") \o Moved("issues") \o Moved("assignments")

\* Mutant: a full run does not reset the cursors.
CursorItems_NoReset(w) == NewCursors(w)

(* The cursor writes of a run: every one reset, or the new ones. *)
CursorItems(w) ==
  IF kind[w] = "full"
    THEN [i \in DOMAIN Sources |-> CursorItem(Sources[i], 0)]
    ELSE NewCursors(w)

ToCursors(w) ==
  /\ pc[w] = "upsert" /\ items[w] = <<>>
  /\ phase[w] = Len(Phases(kind[w])) - 1
  /\ phase' = [phase EXCEPT ![w] = @ + 1]
  /\ items' = [items EXCEPT ![w] = CursorItems(w)]
  /\ curs' = [curs EXCEPT ![w] = Settled(w)]
  /\ UNCHANGED <<clock, pm, pageSize, rows, tx, kind, pc, since, plan>>

(* record_sync, then the commit of everything the run wrote. *)
Commit(w) ==
  /\ \/ pc[w] = "commit"
     \/ pc[w] = "upsert" /\ items[w] = <<>> /\ phase[w] = Len(Phases(kind[w]))
  /\ rows' = [t \in Tables |-> Visible(w, t)]
  /\ Reset(w)

(* The worker dies; the database rolls its transaction back. *)
Kill(w) == "kill" \in Faults /\ pc[w] # "idle" /\ Rollback(w)

Step(w) ==
  \/ NextResource(w) \/ FetchPage(w) \/ LookUp(w) \/ Flush(w)
  \/ UniqueViolation(w) \/ LockVictim(w) \/ ToCursors(w) \/ Commit(w)

Fault(w) == HttpFail(w) \/ Kill(w)

Platform ==
  \E r \in Resources, live, valid \in BOOLEAN :
    \E k \in Keys(r), ref \in Iterations \cup Issues \cup {0} : PmEdit(r, k, live, valid, ref)

Next ==
  \/ Platform
  \/ \E w \in Workers :
       Step(w) \/ Fault(w) \/ \E k \in {"full", "incremental"} : Start(w, k)

Spec == Init /\ [][Next]_vars

(* The cron fires each kind of run again and again, and a run goes on. *)
Fairness ==
  \A w \in Workers :
    /\ WF_vars(Step(w))
    /\ \A k \in {"full", "incremental"} : SF_vars(Start(w, k))

FairSpec == Spec /\ Fairness

-----------------------------------------------------------------------------
(* Properties. *)

RowType == [at : 0..clock, ref : Iterations \cup Issues \cup {0}]

TablesOK(db) ==
  /\ DOMAIN db = Tables
  /\ \A t \in Tables : DOMAIN db[t] \subseteq Keys(t)
                      /\ \A k \in DOMAIN db[t] : db[t][k] \in RowType

(* The types of the variables, and what a run holds at each point of it:     *)
(* between runs nothing, and an item only while it is upserted.              *)
TypeOK ==
  /\ clock \in 0..MaxClock /\ pageSize \in PageSizes
  /\ DOMAIN pm = Resources
  /\ \A r \in Resources : DOMAIN pm[r] \subseteq Keys(r)
  /\ TablesOK(rows)
  /\ \A w \in Workers :
       /\ TablesOK(tx[w])
       /\ kind[w] \in {"full", "incremental", "none"}
       /\ phase[w] \in 0..5
       /\ pc[w] \in {"idle", "page", "upsert", "write", "commit"}
       /\ since[w] \in 0..clock
       /\ pc[w] = "idle" <=> kind[w] = "none"
       /\ pc[w] = "idle" => tx[w] = NoWrites /\ items[w] = <<>>
       /\ pc[w] = "write" => items[w] # <<>>
       /\ curs[w] # Nothing => kind[w] = "incremental"

(* References resolve: a committed assignment is of a committed issue, and   *)
(* an issue names only a committed iteration, whichever runs overlapped,     *)
(* failed or died on the way (the two-phase resolution of upsert.py).        *)
LinksResolve ==
  /\ \A k \in DOMAIN rows.assignments : rows.assignments[k].ref \in DOMAIN rows.issues
  /\ \A k \in DOMAIN rows.issues : rows.issues[k].ref \in DOMAIN rows.iterations \cup {0}

(* The cursor is a watermark: what the platform changed up to the committed  *)
(* cursor is committed in that version, unless it is malformed.  An item     *)
(* behind the cursor that is not stored is not asked for again.  A listing   *)
(* of several pages may shift between two of them, and is not covered; nor   *)
(* is a resource whose records need not carry an updated_at, for the cursor  *)
(* may then be the time at which the run had written what it fetched.        *)
OnePage == \A r \in Resources : Cardinality(Keys(r)) <= pageSize

Watched == {"iterations", "issues"} \ Undated

CursorIsBacked ==
  OnePage =>
    \A r \in Watched :
      \A k \in DOMAIN pm[r] :
        pm[r][k].valid /\ pm[r][k].at <= Cursor(r) =>
          /\ k \in DOMAIN rows[r]
          /\ rows[r][k].at = pm[r][k].at

(* A record that validates, and so does what it refers to. *)
Storable(r, k) ==
  /\ pm[r][k].valid
  /\ CASE r = "iterations"  -> TRUE
       [] r = "issues"      -> pm[r][k].ref = 0 \/ pm.iterations[pm[r][k].ref].valid
       [] r = "assignments" -> pm.issues[k].valid

(* The database shows the platform as it is. *)
Mirrored ==
  \A r \in Resources :
    \A k \in DOMAIN pm[r] :
      Storable(r, k) => /\ k \in DOMAIN rows[r]
                        /\ rows[r][k] = [at |-> pm[r][k].at, ref |-> pm[r][k].ref]

(* Once the platform is quiet and the faults are over the runs catch up for  *)
(* good, whatever earlier ones left out: a full run resets the cursors, and  *)
(* the incremental run after it asks for everything again.                   *)
FaultFree == [][\A w \in Workers : ~ Fault(w)]_vars
CatchesUp == <>FaultFree => <>[]Mirrored

(* What upsert.py says of an issue whose iteration is not stored yet: it is  *)
(* left without one and filled in after the next sync of iterations.  Then,  *)
(* between runs, a stored issue in its current version names its iteration   *)
(* whenever that is stored.                                                  *)
LinkFilledIn ==
  (\A w \in Workers : pc[w] = "idle") =>
    \A k \in DOMAIN rows.issues :
      /\ rows.issues[k].at = pm.issues[k].at
      /\ pm.issues[k].ref \in DOMAIN rows.iterations
      => rows.issues[k].ref = pm.issues[k].ref
=============================================================================
