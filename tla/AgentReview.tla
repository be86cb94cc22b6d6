---------------------------- MODULE AgentReview ----------------------------
(***************************************************************************)
(* The review agents: AgentReviewer's loop over provider and tools         *)
(* (packages/agents), several of them at a time under one semaphore.  The  *)
(* agents of a service review share one database session, for the audit    *)
(* trail and for GetDiff: an operation on it is begun and ended, and other *)
(* agents run in between.  The agents of the shadow pilot have none.       *)
(*                                                                         *)
(* An agent runs to its next await.  A reply asks for one tool or answers; *)
(* what the tools print is left out, and whether they use the session kept.*)
(***************************************************************************)
EXTENDS Naturals, Sequences, FiniteSetsExt

CONSTANTS NUnits,       \* change units, in the order they are handed out
          Concurrency,  \* slots of the semaphore
          MaxIter,      \* DEFAULT_MAX_ITER
          Answers,      \* findings a reply may contain: sequences of raw findings
          Faults        \* which of "provider", "db", "slow", "clash", "cancel" may happen

\* A finding as a reply has it: fields may be "absent", a confidence be a "text".
RawFinding ==
  [cat : STRING, sev : STRING, at : Nat,
   conf : {"none", "half", "usual", "full", "over", "absent", "text"}]

ASSUME ReviewAssumption ==
  /\ NUnits \in Nat /\ Concurrency \in Nat \ {0} /\ MaxIter \in Nat
  /\ Answers \subseteq Seq(RawFinding)
  /\ Faults \subseteq {"provider", "db", "slow", "clash", "cancel"}

VARIABLES
  driver,   \* who runs the agents
  pc,       \* what the agent of a unit does next
  turn,     \* iterations of its loop that are over
  batch,    \* what it reported
  slots,    \* free slots of the semaphore
  session,  \* "ok", or "broken" until it is rolled back
  dirty     \* whether audit events wait in the session for a later flush

agentVars == <<driver, pc, turn, batch, slots, session, dirty>>

Units   == 1..NUnits
Drivers == {"worker", "gateway", "shadow", "bench"}
Service == driver \in {"worker", "gateway"}

\* An agent in one of these holds a slot.
Busy == {"ask", "tool", "autoflush", "query", "note", "noting", "close", "closing"}
Running == {u \in Units : pc[u] \in Busy}

Flushing == {u \in Units : pc[u] \in {"autoflush", "noting", "closing"}}
Querying == {u \in Units : pc[u] = "query"}

AgentsIdle ==
  /\ pc = [u \in Units |-> "idle"]
  /\ turn = [u \in Units |-> 0]
  /\ batch = [u \in Units |-> <<>>]
  /\ slots = Concurrency

AgentInit == AgentsIdle /\ session = "ok" /\ dirty = FALSE

\* gather makes a task of every unit; they reach the semaphore in this order.
Launch(pool) ==
  /\ pc' = [u \in Units |-> IF u \in pool THEN "queued" ELSE "idle"]
  /\ turn' = [u \in Units |-> 0]
  /\ batch' = [u \in Units |-> <<>>]
  /\ slots' = Concurrency

Goto(u, step) == pc' = [pc EXCEPT ![u] = step]

\* Mutant: the loop goes on as long as tools are asked for.
NextTurn_Uncounted(u) == Goto(u, "ask") /\ UNCHANGED turn

NextTurn(u) == turn' = [turn EXCEPT ![u] = @ + 1] /\ Goto(u, "ask")

-----------------------------------------------------------------------------
(* What an agent reports *)

\* Confidences, in tenths; a raw one may also be "absent" or a "text".
Tenths == [none |-> 0, half |-> 5, usual |-> 7, full |-> 10, over |-> 13]

\* _enrich_finding clamps a number, and takes 0.7 for anything else.
Enrich(f) ==
  [f EXCEPT !.conf = IF @ = "over" THEN "full" ELSE IF @ \in DOMAIN Tenths THEN @ ELSE "usual"]

Reported(answer) ==
  IF Service THEN [i \in DOMAIN answer |-> Enrich(answer[i])] ELSE answer

\* Mutant: an agent that fails does not come back to the semaphore.
Release_NotOnFailure(u, answer) == slots' = IF answer = <<>> THEN slots ELSE slots + 1

Release(u, answer) == slots' = slots + 1

\* The task of the unit ends, and leaves the semaphore.
Return(u) ==
  /\ Goto(u, "done")
  /\ Release(u, batch[u])

\* review_all returned: a service agent has an audit event to write.
Conclude(u, answer) ==
  /\ batch' = [batch EXCEPT ![u] = Reported(answer)]
  /\ IF Service THEN Goto(u, "close") /\ UNCHANGED slots
                ELSE Goto(u, "done") /\ Release(u, answer)

-----------------------------------------------------------------------------
(* The loop *)

Acquire(u) ==
  /\ pc[u] = "queued" /\ slots > 0
  /\ \A v \in Units : pc[v] = "queued" => u <= v
  /\ ~ (Service /\ session = "broken")
  /\ slots' = slots - 1
  /\ Goto(u, "ask")
  /\ UNCHANGED <<driver, turn, batch, session, dirty>>

\* One iteration calls the provider with all messages so far.
Calls(u) == pc[u] = "ask" /\ turn[u] < MaxIter

\* A reply with tool uses, unless it says that its turn has ended.
AskTool(u) ==
  /\ Calls(u) /\ driver # "gateway"
  /\ Goto(u, "tool")
  /\ UNCHANGED <<driver, turn, batch, slots, session, dirty>>

\* A reply without: its JSON array, the object it is, or nothing.
Reply(u) ==
  /\ Calls(u) /\ driver # "gateway"
  /\ \E answer \in Answers : Conclude(u, answer)
  /\ UNCHANGED <<driver, turn, session, dirty>>

\* The provider raises: no findings.  The client that the gateway hands over
\* has no complete() and always does.
ProviderFails(u) ==
  /\ Calls(u)
  /\ driver = "gateway" \/ "provider" \in Faults
  /\ Conclude(u, <<>>)
  /\ UNCHANGED <<driver, turn, session, dirty>>

\* AgentLoopMaxIter: no findings either.
GivesUp(u) ==
  /\ pc[u] = "ask" /\ turn[u] = MaxIter
  /\ Conclude(u, <<>>)
  /\ UNCHANGED <<driver, turn, session, dirty>>

\* A tool that is not registered: an error for the model, no audit event.
UnknownTool(u) ==
  /\ pc[u] = "tool"
  /\ NextTurn(u)
  /\ UNCHANGED <<driver, batch, slots, session, dirty>>

\* A tool without a query.  A timeout and an exception are text as well.
PlainTool(u) ==
  /\ pc[u] = "tool"
  /\ IF Service THEN Goto(u, "note") /\ UNCHANGED turn ELSE NextTurn(u)
  /\ UNCHANGED <<driver, batch, slots, session, dirty>>

\* GetDiff of a file that is not the agent's own goes to the database; events
\* that wait are flushed first, unless a flush is under way.  A statement that
\* meets another on the connection fails, and a flush that fails breaks the session.
DiffTool(u) ==
  /\ pc[u] = "tool" /\ Service
  /\ IF session = "broken" \/ Flushing # {} THEN Goto(u, "note") /\ UNCHANGED session
     ELSE IF Querying # {}
       THEN Goto(u, "note") /\ session' = IF dirty THEN "broken" ELSE session
     ELSE Goto(u, IF dirty THEN "autoflush" ELSE "query") /\ UNCHANGED session
  /\ dirty' = (dirty /\ pc'[u] # "autoflush")
  /\ UNCHANGED <<driver, turn, batch, slots>>

AutoflushEnd(u) ==
  /\ pc[u] = "autoflush"
  /\ Goto(u, "query")
  /\ UNCHANGED <<driver, turn, batch, slots, session, dirty>>

DiffEnd(u) ==
  /\ pc[u] = "query"
  /\ Goto(u, "note")
  /\ UNCHANGED <<driver, turn, batch, slots, session, dirty>>

\* wait_for cancels a statement after 5 seconds, and its connection is lost.
DiffTimeout(u) ==
  /\ "slow" \in Faults
  /\ pc[u] \in {"autoflush", "query"}
  /\ session' = "broken"
  /\ Goto(u, "note")
  /\ UNCHANGED <<driver, turn, batch, slots, dirty>>

-----------------------------------------------------------------------------
(* The audit trail: an event is added to the session and flushed, and what   *)
(* goes wrong is logged only.                                                *)

\* The flush does not start: the session is broken; another flush will take
\* the event along; or a query is under way and the flush breaks the session.
AppendNow ==
  \/ /\ session = "broken"
     /\ UNCHANGED <<session, dirty>>
  \/ /\ session = "ok" /\ Flushing # {}
     /\ dirty' = TRUE /\ UNCHANGED session
  \/ /\ session = "ok" /\ Flushing = {} /\ Querying # {}
     /\ session' = "broken" /\ UNCHANGED dirty

\* What is added while a flush is under way is left for the next.
FlushStarts == session = "ok" /\ Flushing = {} /\ Querying = {} /\ dirty' = FALSE

FlushEnds ==
  /\ \/ session' = session
     \/ "db" \in Faults /\ session' = "broken"
  /\ UNCHANGED dirty

NoteTool(u) ==
  /\ pc[u] = "note"
  /\ AppendNow
  /\ NextTurn(u)
  /\ UNCHANGED <<driver, batch, slots>>

NoteStart(u) ==
  /\ pc[u] = "note" /\ FlushStarts
  /\ Goto(u, "noting")
  /\ UNCHANGED <<driver, turn, batch, slots, session>>

NoteEnd(u) ==
  /\ pc[u] = "noting"
  /\ FlushEnds
  /\ NextTurn(u)
  /\ UNCHANGED <<driver, batch, slots>>

\* The event of the review that has ended.  In a broken session the unit is
\* expired, and naming its file raises: see Escapes.
CloseNow(u) ==
  /\ pc[u] = "close" /\ session = "ok" /\ Flushing # {}
  /\ dirty' = TRUE
  /\ Return(u)
  /\ UNCHANGED <<driver, turn, batch, session>>

CloseStart(u) ==
  /\ pc[u] = "close" /\ FlushStarts
  /\ Goto(u, "closing")
  /\ UNCHANGED <<driver, turn, batch, slots, session>>

CloseEnd(u) ==
  /\ pc[u] = "closing"
  /\ FlushEnds /\ session' = "ok"
  /\ Return(u)
  /\ UNCHANGED <<driver, turn, batch>>

\* Naming the file of an expired unit raises, in the handlers too: the task of
\* the unit fails.  A queued one does so as soon as it has its slot.
Escapes(u) ==
  /\ Service
  /\ \/ /\ pc[u] = "close"
        /\ session = "broken" \/ (Flushing = {} /\ Querying # {})
     \/ pc[u] = "closing" /\ "db" \in Faults
     \/ pc[u] = "queued" /\ session = "broken" /\ slots > 0
  /\ session' = "broken"
  /\ Goto(u, "raised")
  /\ slots' = IF pc[u] = "queued" THEN slots ELSE slots + 1
  /\ UNCHANGED <<driver, turn, batch, dirty>>

AgentStep(u) ==
  \/ Acquire(u) \/ AskTool(u) \/ Reply(u) \/ ProviderFails(u) \/ GivesUp(u)
  \/ UnknownTool(u) \/ PlainTool(u) \/ DiffTool(u)
  \/ AutoflushEnd(u) \/ DiffEnd(u) \/ DiffTimeout(u)
  \/ NoteTool(u) \/ NoteStart(u) \/ NoteEnd(u)
  \/ CloseNow(u) \/ CloseStart(u) \/ CloseEnd(u)
=============================================================================
