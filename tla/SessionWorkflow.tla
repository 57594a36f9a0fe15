-------------------------- MODULE SessionWorkflow ---------------------------
(***************************************************************************)
(* The daily workflow of the SessionCoordinator: startup, the decision     *)
(* after the close, execution of the frozen decision on the next session,  *)
(* intraday processing and the end of the day.  Each step is claimed with  *)
(* a durable STARTED receipt, performed through an external service, and   *)
(* sealed with a COMPLETED receipt; the process may die between any two.   *)
(* One process owns the database (module WriterLease), so the              *)
(* compare-and-set on the runtime row always finds what this process wrote *)
(***************************************************************************)
EXTENDS Integers, Sequences, FiniteSets, SequencesExt

CONSTANTS
    Outcome,     \* digests of what a service returns
    Usual,       \* what is first sealed for a workflow other than a decision, by whatever name
    NoOutcome,
    LastSession, \* bound: trading sessions are 1..LastSession
    MaxSteps     \* bound: workflows other than STARTUP that are ever claimed

SessionAssumption == NoOutcome \notin Outcome /\ Usual \in Outcome /\ {LastSession, MaxSteps} \subseteq Nat \ {0}

WorkflowStep == <<"STARTUP", "POST_CLOSE_DECISION", "NEXT_DAY_EXECUTION", "INTRADAY", "EOD">>
Session == 1..LastSession
Key == Range(WorkflowStep) \X Session
STEP_ORDER == [s \in Range(WorkflowStep) |-> CHOOSE i \in DOMAIN WorkflowStep : WorkflowStep[i] = s]

VARIABLES
    receipts,   \* the receipts of each workflow: statuses in audit order, sealed outcome and
                \* the decision an execution is bound to
    row,        \* durable runtime state
    started,    \* this process has completed its startup
    pc, job,    \* where the process is, and the workflow it works on
    effects,    \* how often each side effect was performed
    frozen,     \* the decision the services hold for each session
    executed,   \* the decision each session's execution was given
    day, market \* the current session and the broker's market status

workflowVars == <<receipts, row, started, pc, job, effects, frozen, executed, day, market>>
world == <<day, market>>
services == <<effects, frozen, executed>>

NoReceipt == [statuses |-> <<>>, outcome |-> NoOutcome, decision |-> NoOutcome]
NoJob == [key |-> <<"STARTUP", 1>>, value |-> NoOutcome, decision |-> NoOutcome]

Claimed(k) == receipts[k].statuses # <<>>
Completed(k) == receipts[k].outcome # NoOutcome
RequiresRecovery(k) == Claimed(k) /\ Last(receipts[k].statuses) # "COMPLETED"

\* Mutant: a claim that was never completed is performed again.
Fresh_Incomplete(k) == ~Completed(k)

Fresh(k) == ~Claimed(k)

\* What startup has to recover; a STARTUP left behind is not a pending child.
Unresolved == {k \in Key : RequiresRecovery(k) /\ k[1] # "STARTUP"}

\* By session, then by step.
Before(j, k) == j[2] < k[2] \/ (j[2] = k[2] /\ STEP_ORDER[j[1]] < STEP_ORDER[k[1]])

Decision(s) == <<"POST_CLOSE_DECISION", s>>

\* Mutant: the frozen decision is not compared with its receipt.
Linked_Any(s) == s \in Session /\ Completed(Decision(s)) /\ frozen[s] # NoOutcome

\* The frozen decision of session s exists, is completed and is the one that was sealed.
Linked(s) == s \in Session /\ Completed(Decision(s)) /\ frozen[s] = receipts[Decision(s)].outcome

-----------------------------------------------------------------------------
WorkflowInit ==
    /\ receipts = [k \in Key |-> NoReceipt]
    /\ row = "DISARMED" /\ started = FALSE
    /\ pc = "down" /\ job = NoJob
    /\ effects = [k \in Key |-> 0]
    /\ frozen = [s \in Session |-> NoOutcome] /\ executed = [s \in Session |-> NoOutcome]
    /\ day = 1 /\ market = "OPEN"

Boot ==
    /\ pc = "down"
    /\ pc' = "idle" /\ started' = FALSE
    /\ UNCHANGED <<receipts, row, job, services, world>>

ProcessDies ==
    /\ pc # "down"
    /\ pc' = "down" /\ job' = NoJob
    /\ UNCHANGED <<receipts, row, started, services, world>>

MarketMoves ==
    /\ IF market = "OPEN" THEN market' = "CLOSED" /\ day' = day
       ELSE day < LastSession /\ market' = "OPEN" /\ day' = day + 1
    /\ UNCHANGED <<receipts, row, started, pc, job, services>>

\* Someone replaces the decision the services hold.
Edit(s, v) ==
    /\ frozen[s] # NoOutcome
    /\ frozen' = [frozen EXCEPT ![s] = v]
    /\ UNCHANGED <<receipts, row, started, pc, job, effects, executed, world>>

-----------------------------------------------------------------------------
(* Failing closed.  From DISARMED the row passes through STARTING.         *)

Halt ==
    /\ pc = "halting"
    /\ row' = "HALTED" /\ pc' = "idle"
    /\ UNCHANGED <<receipts, started, job, services, world>>

\* An exception outside run_new's try: a check, the clock, a service that recovers.
Raise ==
    /\ pc \in {"reconciling", "pending", "ready", "begun", "claim", "recover", "finish"}
    /\ pc' = "halting" /\ job' = NoJob
    /\ UNCHANGED <<receipts, row, started, services, world>>

\* FAILED is written unless the clock raises inside the handler too.
Failed ==
    /\ pc = "failing"
    /\ \/ UNCHANGED receipts
       \/ receipts' = [receipts EXCEPT ![job.key].statuses =
                          IF Contains(@, "FAILED") THEN @ ELSE Append(@, "FAILED")]
    /\ pc' = "halting" /\ job' = NoJob
    /\ UNCHANGED <<row, started, services, world>>

-----------------------------------------------------------------------------
(* Startup.                                                                *)

StartupBegins ==
    /\ pc = "idle" /\ ~started
    /\ IF row = "DISARMED" THEN row' = "STARTING" /\ pc' = "starting"
       ELSE row' = "RECONCILING" /\ pc' = "reconciling"
    /\ UNCHANGED <<receipts, started, job, services, world>>

StartupRaises ==
    /\ pc = "idle" /\ ~started
    /\ row' = "HALTED"
    /\ UNCHANGED <<receipts, started, pc, job, services, world>>

Reconciling ==
    /\ pc = "starting"
    /\ row' = "RECONCILING" /\ pc' = "reconciling"
    /\ UNCHANGED <<receipts, started, job, services, world>>

\* A startup of the same session is recovered, not repeated.
StartupWorkflow ==
    /\ pc = "reconciling"
    /\ LET k == <<"STARTUP", day>>
       IN  /\ job' = [NoJob EXCEPT !.key = k]
           /\ pc' = IF Fresh(k) THEN "claim" ELSE "recover"
    /\ UNCHANGED <<receipts, row, started, services, world>>

\* The first unresolved workflow; an execution only with the decision it is bound to.
RecoverPending ==
    /\ pc = "pending" /\ Unresolved # {}
    /\ LET k == CHOOSE k \in Unresolved : \A j \in Unresolved \ {k} : Before(k, j)
           linked == Linked(k[2] - 1) /\ receipts[k].decision = frozen[k[2] - 1]
           refused == k[1] = "NEXT_DAY_EXECUTION" /\ ~linked
       IN  /\ job' = IF refused THEN NoJob ELSE [NoJob EXCEPT !.key = k]
           /\ pc' = IF refused THEN "halting" ELSE "recover"
    /\ UNCHANGED <<receipts, row, started, services, world>>

NothingPending ==
    /\ pc = "pending" /\ Unresolved = {}
    /\ pc' = "ready"
    /\ UNCHANGED <<receipts, row, started, job, services, world>>

Ready ==
    /\ pc = "ready"
    /\ row' = "READY" /\ started' = TRUE /\ pc' = "idle"
    /\ UNCHANGED <<receipts, job, services, world>>

-----------------------------------------------------------------------------
(* The other steps, begun from a READY row.                                *)

Begin(k) ==
    /\ pc = "idle" /\ row = "READY"
    /\ Claimed(k) \/ Cardinality({j \in Key : j[1] # "STARTUP" /\ Claimed(j)}) < MaxSteps
    /\ row' = "EXECUTING" /\ pc' = "begun"
    /\ job' = [NoJob EXCEPT !.key = k]
    /\ UNCHANGED <<receipts, started, services, world>>

\* What a step that has no receipt needs before it claims one.
Admissible(k) ==
    CASE k[1] = "POST_CLOSE_DECISION" -> k[2] = day /\ market = "CLOSED"
      [] k[1] = "NEXT_DAY_EXECUTION" -> k[2] = day /\ market = "OPEN" /\ Linked(k[2] - 1)
      [] k[1] = "INTRADAY" -> TRUE
      [] k[1] = "EOD" -> k[2] = day /\ market = "CLOSED"

\* A step that has a receipt is recovered; intraday only if it is complete.
Recoverable(k) ==
    CASE k[1] = "INTRADAY" -> ~RequiresRecovery(k)
      [] k[1] = "NEXT_DAY_EXECUTION" -> Linked(k[2] - 1) /\ receipts[k].decision = frozen[k[2] - 1]
      [] OTHER -> TRUE

Check ==
    /\ pc = "begun"
    /\ LET k == job.key IN
       /\ pc' = IF Fresh(k) THEN (IF Admissible(k) THEN "claim" ELSE "halting")
                ELSE IF Recoverable(k) THEN "recover" ELSE "halting"
       /\ job' = [job EXCEPT !.decision = IF Fresh(k) /\ k[1] = "NEXT_DAY_EXECUTION" /\ Admissible(k)
                                         THEN frozen[k[2] - 1] ELSE NoOutcome]
    /\ UNCHANGED <<receipts, row, started, services, world>>

Claim ==
    /\ pc = "claim"
    /\ receipts' = [receipts EXCEPT ![job.key] =
                        [NoReceipt EXCEPT !.statuses = <<"STARTED">>, !.decision = job.decision]]
    /\ pc' = "act"
    /\ UNCHANGED <<row, started, job, services, world>>

\* The service works; it may raise before or after it has had its effect.
Effect(k, v) ==
    /\ effects' = [effects EXCEPT ![k] = @ + 1]
    /\ frozen' = IF k[1] = "POST_CLOSE_DECISION" THEN [frozen EXCEPT ![k[2]] = v] ELSE frozen
    /\ executed' = IF k[1] = "NEXT_DAY_EXECUTION" THEN [executed EXCEPT ![k[2]] = job.decision] ELSE executed

Act(v) ==
    /\ pc = "act"
    /\ job.key[1] # "POST_CLOSE_DECISION" => v = Usual
    /\ \/ Effect(job.key, v) /\ pc' = "seal" /\ job' = [job EXCEPT !.value = v]
       \/ Effect(job.key, v) /\ pc' = "failing" /\ job' = job
       \/ UNCHANGED services /\ pc' = "failing" /\ job' = job
    /\ UNCHANGED <<receipts, row, started, world>>

Return == IF row = "EXECUTING" THEN "finish" ELSE "pending"

Seal ==
    /\ pc = "seal"
    /\ \/ /\ receipts' = [receipts EXCEPT ![job.key].statuses = Append(@, "COMPLETED"),
                                          ![job.key].outcome = job.value]
          /\ pc' = Return /\ job' = NoJob
       \/ pc' = "failing" /\ UNCHANGED <<receipts, job>>
    /\ UNCHANGED <<row, started, services, world>>

\* A completed workflow keeps its receipt.
Recovered(k, v) ==
    IF Completed(k) THEN receipts
    ELSE [receipts EXCEPT ![k].statuses = Append(@, "COMPLETED"), ![k].outcome = v]

\* What the service finds must be what was sealed, if anything was; a decision is the frozen one.
Recover(v) ==
    /\ pc = "recover"
    /\ IF job.key[1] = "POST_CLOSE_DECISION" THEN v = frozen[job.key[2]]
       ELSE Completed(job.key) \/ v = Usual
    /\ IF Completed(job.key) /\ v # receipts[job.key].outcome
       THEN pc' = "halting" /\ UNCHANGED receipts
       ELSE pc' = Return /\ receipts' = Recovered(job.key, v)
    /\ job' = NoJob
    /\ UNCHANGED <<row, started, services, world>>

Finish ==
    /\ pc = "finish"
    /\ row' = "READY" /\ pc' = "idle"
    /\ UNCHANGED <<receipts, started, job, services, world>>

WorkflowNext ==
    \/ Boot \/ ProcessDies \/ MarketMoves \/ Halt \/ Raise \/ Failed
    \/ StartupBegins \/ StartupRaises \/ Reconciling \/ StartupWorkflow
    \/ RecoverPending \/ NothingPending \/ Ready
    \/ \E k \in Key : k[1] # "STARTUP" /\ Begin(k)
    \/ Check \/ Claim \/ Seal \/ Finish
    \/ \E v \in Outcome : Act(v) \/ Recover(v)
    \/ \E s \in Session, v \in Outcome : Edit(s, v)

WorkflowSpec == WorkflowInit /\ [][WorkflowNext]_workflowVars

-----------------------------------------------------------------------------
(* Properties.                                                             *)

OpenWorkflows == {k \in Key : Claimed(k) /\ ~Completed(k) /\ k[1] # "STARTUP"}

LegalSequences ==
    {<<>>, <<"STARTED">>, <<"STARTED", "FAILED">>, <<"STARTED", "COMPLETED">>,
     <<"STARTED", "FAILED", "COMPLETED">>}

\* Every variable keeps its type, and every workflow's receipts are one of the sequences
\* _read_states accepts: anything else makes every later claim and startup raise.
WorkflowTypeOK ==
    /\ \A k \in Key : /\ receipts[k].statuses \in LegalSequences
                      /\ Completed(k) <=> Contains(receipts[k].statuses, "COMPLETED")
    /\ row \in {"DISARMED", "STARTING", "RECONCILING", "READY", "EXECUTING", "HALTED"}
    /\ job.key \in Key /\ frozen \in [Session -> Outcome \cup {NoOutcome}]

\* No side effect is performed twice, whatever crashes, retries and recoveries follow
\* (scheduling/sessions.py claim, run_new, recover_existing).
SideEffectOnce == \A k \in Key : effects[k] <= 1

\* A READY row means nothing is left half done: not by this process and not by one that died
\* (application/sessions.py startup).
ReadyIsResolved == row = "READY" => OpenWorkflows = {}

\* At most one workflow is open at a time, so recovery has no order to get wrong.
OneOpenWorkflow == Cardinality(OpenWorkflows) <= 1

\* A workflow's side effect is performed at most once however often the process dies, at most
\* one workflow is open, and READY means that none is (scheduling/sessions.py,
\* application/sessions.py).
WorkflowsRunOnce == WorkflowTypeOK /\ SideEffectOnce /\ OneOpenWorkflow /\ ReadyIsResolved

\* If session s was executed, then with the decision sealed for the session before it.
ExecutedAsSealed(s) ==
    executed[s] # NoOutcome => s > 1 /\ executed[s] = receipts[Decision(s - 1)].outcome

\* What was sealed never changes.
SealIsFinal ==
    [][\A k \in Key : Completed(k) => receipts'[k] = receipts[k]]_workflowVars

\* Every execution was given the decision sealed for the session before it, although the frozen
\* decision may be replaced at any time, and what was sealed never changes
\* (application/sessions.py _linked_decision).
ExecutesSealedDecision == [](\A s \in Session : ExecutedAsSealed(s)) /\ SealIsFinal

\* Claimed of every process: it reconciles before it works.  The step's row check is met by the
\* READY a dead process left.
ReconcilesFirst == pc \in {"begun", "act", "seal", "finish"} /\ row = "EXECUTING" => started
=============================================================================
