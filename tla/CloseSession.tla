---------------------------- MODULE CloseSession ----------------------------
(***************************************************************************)
(* The daily cycle of the production daemon (application/                  *)
(* production_services.py) as far as the strategy account is concerned:    *)
(* startup recovery and reconciliation, the execution of yesterday's       *)
(* decision, and the close session with its chain of checkpoints           *)
(* (close_checkpoint.py), its frozen decision (strategy/adapter.py) and    *)
(* its account commits.  The process may crash or fail between any two     *)
(* durable steps.                                                          *)
(*                                                                         *)
(* Durable: file, ops, certified, cp, dsnap, executed, halted.  The broker *)
(* and the calendar (facts, day, phase) move on their own; the rest is     *)
(* memory.                                                                 *)
(***************************************************************************)
EXTENDS AccountCommit

CONSTANTS
    MaxDay,        \* bound on trading sessions
    MaxFacts,      \* bound on changes of the broker's facts
    Mode,          \* "SHADOW", "CANARY" or "LIVE"
    EditsAllowed   \* the account file may be replaced by someone else

ASSUME BoundsAssumption == MaxDay \in Nat \ {0} /\ MaxFacts \in Nat
ASSUME ModeAssumption == Mode \in {"SHADOW", "CANARY", "LIVE"} /\ EditsAllowed \in BOOLEAN

VARIABLES
    cp,         \* session -> number of close checkpoints appended
    dsnap,      \* session -> frozen DecisionSnapshot: account before and after
    executed,   \* sessions whose PRODUCTION_EXECUTION event is recorded
    halted,     \* the persisted runtime state is HALTED
    day,        \* the current trading session
    phase,      \* market status of the day
    facts,      \* version of the broker's facts
    pc,         \* where the daemon is
    op,         \* account operation in hand
    job,        \* what the account step in progress is for
    sess,       \* session being executed or closed
    fresh,      \* eod_created_now
    resume,     \* startup or cycle: who called _close_session
    snap,       \* broker snapshot in hand: facts and session date
    todo,       \* rows recovery still has to visit
    blocked     \* recovery has recorded a blocker

closeVars == <<cp, dsnap, executed>>
worldVars == <<day, phase, facts>>
callVars == <<op, job, sess, fresh, resume, snap, todo, blocked>>
vars == <<accountVars, closeVars, halted, worldVars, pc, callVars>>

Sessions == 1..MaxDay
Account == [facts : 0..MaxFacts, dec : 0..MaxDay]
NotDecided == [before |-> [facts |-> 0, dec |-> 0], after |-> [facts |-> 0, dec |-> 0]]

\* CloseStep: EOD_RECONCILED = 1, DATA_VALIDATED = 2, DECISION_COMMITTED = 3,
\* REPORT_PUBLISHED = 4, BACKUP_VERIFIED = 5, COMPLETED = 6.  append demands
\* every predecessor, so a chain is the number of its checkpoints.
COMPLETED == 6

\* latest_incomplete_session looks at these and takes the last.
Incomplete == {s \in Sessions : cp[s] > 0 /\ cp[s] < COMPLETED}

-----------------------------------------------------------------------------
(* The world.                                                              *)

\* Fills, cash and share movements, T+1 releases, company actions.
FactsChange ==
    /\ facts < MaxFacts
    /\ facts' = facts + 1
    /\ UNCHANGED <<accountVars, closeVars, halted, day, phase, pc, callVars>>

MarketCloses ==
    /\ phase = "open"
    /\ phase' = "closed"
    /\ UNCHANGED <<accountVars, closeVars, halted, day, facts, pc, callVars>>

NextDay ==
    /\ phase = "closed" /\ day < MaxDay
    /\ day' = day + 1 /\ phase' = "open"
    /\ UNCHANGED <<accountVars, closeVars, halted, facts, pc, callVars>>

\* Someone puts an old account file back.
ForeignEdit ==
    /\ EditsAllowed
    /\ file' = [facts |-> 0, dec |-> 0]
    /\ UNCHANGED <<ops, certified, closeVars, halted, worldVars, pc, callVars>>

-----------------------------------------------------------------------------
(* Process life.                                                           *)

Forget ==
    /\ op' = 1 /\ job' = "NONE" /\ sess' = 1 /\ fresh' = FALSE
    /\ resume' = "cycle" /\ snap' = [facts |-> 0, day |-> 1] /\ todo' = {} /\ blocked' = FALSE

\* ProductionServiceHooks.halt and the end of ProductionDaemon.run.
Halt == halted' = TRUE /\ pc' = "down" /\ Forget

Stay == UNCHANGED <<halted, worldVars, callVars>>

\* A killed process, or a lost writer lease: nothing more is written.
Crash ==
    /\ pc # "down"
    /\ pc' = "down" /\ Forget
    /\ UNCHANGED <<accountVars, closeVars, halted, worldVars>>

\* Any step may fail before its durable effect: broker or data unavailable,
\* reconciliation blocked, order recovery not clean, a report or backup error.
StepFails ==
    /\ pc # "down"
    /\ Halt
    /\ UNCHANGED <<accountVars, closeVars, worldVars>>

\* The operator's resume: a manual reconciliation of the file as it is.
Resume ==
    /\ pc = "down" /\ halted
    /\ file.facts = facts
    /\ halted' = FALSE /\ certified' = certified \cup {file}
    /\ UNCHANGED <<file, ops, closeVars, worldVars, pc, callVars>>

\* The operator's disarm: HALTED, STOPPING, DISARMED.
Disarm ==
    /\ pc = "down" /\ halted
    /\ halted' = FALSE
    /\ UNCHANGED <<accountVars, closeVars, worldVars, pc, callVars>>

\* ProductionServiceHooks.startup.
Start ==
    /\ pc = "down" /\ ~halted
    /\ pc' = "recover" /\ todo' = Open
    /\ UNCHANGED <<accountVars, closeVars, halted, worldVars,
                   op, job, sess, fresh, resume, snap, blocked>>

Visit(i, b) ==
    /\ todo' = todo \ {i} /\ blocked' = b
    /\ UNCHANGED <<closeVars, halted, worldVars, pc, op, job, sess, fresh, resume, snap>>

RecoverOperation ==
    /\ pc = "recover"
    /\ \E i \in todo : \/ RecoverSettled(i) /\ Visit(i, blocked)
                       \/ RecoverKept(i) /\ Visit(i, TRUE)

FinalizationFails ==
    /\ pc = "recover"
    /\ \E i \in todo : RecoverUnfinalized(i) /\ Visit(i, TRUE)

\* Mutant: startup ignores the blockers of account recovery.
RecoverDoneUnchecked ==
    /\ pc = "recover" /\ todo = {}
    /\ pc' = "startup" /\ Stay /\ UNCHANGED <<accountVars, closeVars>>

RecoverDone ==
    /\ pc = "recover" /\ todo = {}
    /\ IF blocked THEN Halt /\ UNCHANGED worldVars
       ELSE pc' = "startup" /\ Stay
    /\ UNCHANGED <<accountVars, closeVars>>

\* Mutant: startup does not look for an incomplete close session.
StartupSkipsClose ==
    /\ pc = "startup"
    /\ pc' = "capture" /\ job' = "STARTUP" /\ UNCHANGED <<sess, resume>>
    /\ UNCHANGED <<accountVars, closeVars, halted, worldVars, op, fresh, snap, todo, blocked>>

Startup ==
    /\ pc = "startup"
    /\ \/ /\ Incomplete = {}
          /\ pc' = "capture" /\ job' = "STARTUP" /\ UNCHANGED <<sess, resume>>
       \/ \E s \in Incomplete :
             /\ \A t \in Incomplete : t <= s
             /\ pc' = "close" /\ sess' = s /\ resume' = "startup" /\ UNCHANGED job
    /\ UNCHANGED <<accountVars, closeVars, halted, worldVars, op, fresh, snap, todo, blocked>>

-----------------------------------------------------------------------------
(* One account reconciliation (AccountReconciliationCoordinator.reconcile) *)
(* and the account operation it, or a decision, commits.                   *)

Capture ==
    /\ pc = "capture"
    /\ snap' = [facts |-> facts, day |-> day]
    /\ pc' = "reconcile"
    /\ UNCHANGED <<accountVars, closeVars, halted, worldVars,
                   op, job, sess, fresh, resume, todo, blocked>>

\* Where the caller goes on after its account step.
After(j) ==
    CASE j = "STARTUP"  -> "ready"
      [] j = "INTRADAY" -> "plan"
      [] j = "EOD"      -> "eod"
      [] OTHER          -> "decided"

\* The account already agrees: only the reconciliation receipt is written.
ReconcileNoChange ==
    /\ pc = "reconcile" /\ file.facts = snap.facts
    /\ certified' = certified \cup {file}
    /\ pc' = After(job)
    /\ UNCHANGED <<file, ops, closeVars>> /\ Stay

BeginCommit(kind, before, after) ==
    /\ \E i \in OpId : Begin(i, kind, before, after) /\ op' = i
    /\ pc' = "begun"
    /\ UNCHANGED <<closeVars, halted, worldVars, sess, fresh, resume, snap, todo, blocked>>

ReconcileBegin ==
    /\ pc = "reconcile" /\ file.facts # snap.facts
    /\ BeginCommit("BROKER_SYNC", file, [file EXCEPT !.facts = snap.facts])
    /\ UNCHANGED job

Contradiction ==
    /\ MarkContradiction(op) /\ Halt
    /\ UNCHANGED <<closeVars, worldVars>>

CommitSave ==
    /\ pc = "begun"
    /\ IF CanSave(op) THEN SaveFile(op) /\ pc' = "saved" /\ Stay /\ UNCHANGED closeVars
       ELSE Contradiction

CommitStage ==
    /\ pc = "saved"
    /\ IF IsApplied(op) THEN StageFile(op) /\ pc' = "staged" /\ Stay /\ UNCHANGED closeVars
       ELSE Contradiction

CommitReceipt ==
    /\ pc = "staged"
    /\ IF IsApplied(op) THEN Finalize(op) /\ pc' = After(job) /\ Stay /\ UNCHANGED closeVars
       ELSE Contradiction

-----------------------------------------------------------------------------
(* cycle: execution of the previous session's decision.                    *)

\* Mutant: a missing decision counts as a decision without orders.
MissingIsEmpty(s) == s > 0

HasDecision(s) == s > 0 /\ cp[s] = COMPLETED /\ dsnap[s] # NotDecided

ExecuteBegin ==
    /\ pc = "ready" /\ phase = "open" /\ day \notin executed
    /\ IF HasDecision(day - 1)
       THEN /\ pc' = "capture" /\ job' = "INTRADAY" /\ sess' = day
            /\ UNCHANGED <<halted, op, fresh, resume, snap, todo, blocked>>
       ELSE Halt
    /\ UNCHANGED <<accountVars, closeVars, worldVars>>

\* _execution_facts: the market must still be open on the same session.
ExecutePlan ==
    /\ pc = "plan"
    /\ IF day = sess /\ phase = "open" THEN pc' = "execute" /\ Stay
       ELSE Halt /\ UNCHANGED worldVars
    /\ UNCHANGED <<accountVars, closeVars>>

ExecuteDone ==
    /\ pc = "execute"
    /\ executed' = executed \cup {sess}
    /\ pc' = "ready"
    /\ UNCHANGED <<accountVars, cp, dsnap>> /\ Stay

-----------------------------------------------------------------------------
(* _close_session.                                                         *)

CloseBegin ==
    /\ pc = "ready" /\ phase = "closed" /\ cp[day] < COMPLETED
    /\ pc' = "close" /\ sess' = day /\ resume' = "cycle"
    /\ UNCHANGED <<accountVars, closeVars, halted, worldVars, op, job, fresh, snap, todo, blocked>>

CloseEod ==
    /\ pc = "close"
    /\ fresh' = FALSE
    /\ IF cp[sess] = 0 THEN pc' = "capture" /\ job' = "EOD"
       ELSE pc' = "canary" /\ UNCHANGED job
    /\ UNCHANGED <<accountVars, closeVars, halted, worldVars, op, sess, resume, snap, todo, blocked>>

\* Append the next checkpoint of the session being closed.
Checkpoint == cp' = [cp EXCEPT ![sess] = @ + 1] /\ UNCHANGED <<dsnap, executed>>

CloseEodDone ==
    /\ pc = "eod"
    /\ IF cp[sess] = 0 THEN Checkpoint /\ fresh' = TRUE /\ pc' = "canary"
       ELSE UNCHANGED closeVars /\ UNCHANGED fresh /\ pc' = "decide"
    /\ UNCHANGED <<accountVars, halted, worldVars, op, job, sess, resume, snap, todo, blocked>>

\* In CANARY mode the evidence needs a snapshot of the session itself.
CloseCanary ==
    /\ pc = "canary"
    /\ IF Mode = "CANARY" /\ sess # (IF fresh THEN snap.day ELSE day)
       THEN Halt /\ UNCHANGED worldVars
       ELSE pc' = "steps" /\ Stay
    /\ UNCHANGED <<accountVars, closeVars>>

CloseData ==
    /\ pc = "steps" /\ cp[sess] = 1
    /\ Checkpoint
    /\ UNCHANGED <<accountVars, pc>> /\ Stay

\* A resumed close reconciles again before it decides.
CloseReconcileAgain ==
    /\ pc = "steps" /\ cp[sess] = 2
    /\ IF fresh THEN pc' = "decide" /\ UNCHANGED job
       ELSE pc' = "capture" /\ job' = "EOD"
    /\ UNCHANGED <<accountVars, closeVars, halted, worldVars,
                   op, sess, fresh, resume, snap, todo, blocked>>

\* _post_close_decision without a frozen decision: decide_once freezes one.
Decide ==
    /\ pc = "decide" /\ dsnap[sess] = NotDecided
    /\ dsnap' = [dsnap EXCEPT
                   ![sess] = [before |-> file, after |-> [file EXCEPT !.dec = sess]]]
    /\ pc' = "frozen"
    /\ UNCHANGED <<accountVars, cp, executed>> /\ Stay

CommitDecision ==
    /\ pc = "frozen"
    /\ IF CanBegin(dsnap[sess].before)
       THEN /\ BeginCommit("DECISION_COMMIT", dsnap[sess].before, dsnap[sess].after)
            /\ job' = "DECISION"
       ELSE Halt /\ UNCHANGED <<accountVars, closeVars, worldVars>>

\* Mutant: a recovered decision is applied to whatever the account is now.
ReapplyDecision ==
    /\ pc = "decide" /\ dsnap[sess] # NotDecided
    /\ IF file = dsnap[sess].after
       THEN pc' = "decided" /\ Stay /\ UNCHANGED <<accountVars, closeVars>>
       ELSE /\ BeginCommit("DECISION_RECOVERY", file, [file EXCEPT !.dec = sess])
            /\ job' = "DECISION"

\* Mutant: a frozen decision counts as applied.
FrozenIsApplied ==
    /\ pc = "decide" /\ dsnap[sess] # NotDecided
    /\ pc' = "decided" /\ Stay /\ UNCHANGED <<accountVars, closeVars>>

\* _post_close_decision with a frozen decision: already applied, or applied
\* now to exactly its before-state, or a contradiction.
RecoverDecision ==
    /\ pc = "decide" /\ dsnap[sess] # NotDecided
    /\ IF file = dsnap[sess].after
       THEN pc' = "decided" /\ Stay /\ UNCHANGED <<accountVars, closeVars>>
       ELSE IF file = dsnap[sess].before
       THEN /\ BeginCommit("DECISION_RECOVERY", dsnap[sess].before, dsnap[sess].after)
            /\ job' = "DECISION"
       ELSE Halt /\ UNCHANGED <<accountVars, closeVars, worldVars>>

CloseDecided ==
    /\ pc = "decided"
    /\ Checkpoint
    /\ pc' = "steps"
    /\ UNCHANGED accountVars /\ Stay

\* Mutant: the close goes on after its last checkpoint.
CloseFinishAgain ==
    /\ pc = "steps" /\ cp[sess] > 2
    /\ Checkpoint
    /\ IF cp[sess] <= COMPLETED THEN UNCHANGED <<pc, job>>
       ELSE pc' = "ready" /\ UNCHANGED job
    /\ UNCHANGED <<accountVars, halted, worldVars, op, sess, fresh, resume, snap, todo, blocked>>

\* Report, backup, COMPLETED; then back to startup or to the cycle.
CloseFinish ==
    /\ pc = "steps" /\ cp[sess] > 2
    /\ Checkpoint
    /\ IF cp[sess] + 1 < COMPLETED THEN UNCHANGED <<pc, job>>
       ELSE IF resume = "startup" THEN pc' = "capture" /\ job' = "STARTUP"
       ELSE pc' = "ready" /\ UNCHANGED job
    /\ UNCHANGED <<accountVars, halted, worldVars, op, sess, fresh, resume, snap, todo, blocked>>

-----------------------------------------------------------------------------
Init ==
    /\ file = [facts |-> 0, dec |-> 0] /\ ops = [i \in OpId |-> NoRow] /\ certified = {}
    /\ cp = [s \in Sessions |-> 0] /\ dsnap = [s \in Sessions |-> NotDecided]
    /\ executed = {} /\ halted = FALSE
    /\ day = 1 /\ phase = "open" /\ facts = 0
    /\ pc = "down" /\ op = 1 /\ job = "NONE" /\ sess = 1 /\ fresh = FALSE
    /\ resume = "cycle" /\ snap = [facts |-> 0, day |-> 1] /\ todo = {} /\ blocked = FALSE

World == FactsChange \/ MarketCloses \/ NextDay \/ ForeignEdit

Daemon ==
    \/ Start \/ RecoverOperation \/ RecoverDone \/ Startup
    \/ Capture \/ ReconcileNoChange \/ ReconcileBegin
    \/ CommitSave \/ CommitStage \/ CommitReceipt
    \/ ExecuteBegin \/ ExecutePlan \/ ExecuteDone
    \/ CloseBegin \/ CloseEod \/ CloseEodDone \/ CloseCanary \/ CloseData
    \/ CloseReconcileAgain \/ Decide \/ CommitDecision \/ RecoverDecision
    \/ CloseDecided \/ CloseFinish

Failures == Crash \/ StepFails \/ FinalizationFails

Next == World \/ Daemon \/ Resume \/ Disarm \/ Failures

Spec == Init /\ [][Next]_vars

\* Fairness: the daemon keeps running, an operator clears a halt and starts
\* it again, and from some point on no step fails.
FairSpec ==
    /\ Spec
    /\ WF_vars(Daemon) /\ WF_vars(Disarm)
    /\ <>[][World \/ Daemon \/ Resume \/ Disarm]_vars

-----------------------------------------------------------------------------
(* Properties.                                                             *)

Row == [kind : {"NONE", "BROKER_SYNC", "DECISION_COMMIT", "DECISION_RECOVERY"},
        stage : {"NONE", "PREPARED", "FILE_COMMITTED", "CONTRADICTION"},
        before : Account, after : Account]

AccountType == file \in Account /\ ops \in [OpId -> Row] /\ certified \subseteq Account

CloseType ==
    /\ cp \in [Sessions -> 0..COMPLETED]
    /\ dsnap \in [Sessions -> [before : Account, after : Account]]
    /\ executed \subseteq Sessions

WorldType == day \in Sessions /\ phase \in {"open", "closed"} /\ facts \in 0..MaxFacts

CallType ==
    /\ pc \in {"down", "recover", "startup", "capture", "reconcile", "begun", "saved",
               "staged", "ready", "plan", "execute", "close", "eod", "canary", "steps",
               "decide", "frozen", "decided"}
    /\ op \in OpId /\ job \in {"NONE", "STARTUP", "INTRADAY", "EOD", "DECISION"}
    /\ sess \in Sessions /\ resume \in {"startup", "cycle"}
    /\ snap \in [facts : 0..MaxFacts, day : Sessions]
    /\ todo \subseteq OpId

FlagType == halted \in BOOLEAN /\ fresh \in BOOLEAN /\ blocked \in BOOLEAN

\* Types of the durable state, of the world and of the call in progress; a
\* chain never has more checkpoints than CloseStep has members.
TypeOK == AccountType /\ CloseType /\ WorldType /\ CallType /\ FlagType

\* An account operation is begun only when every earlier one is settled, and
\* no decision is made, executed or closed while one is open: a crash in the
\* middle of a commit, and an unexplained account file, keep the daemon out
\* of its cycle until recovery has settled the operation.
OperationsAreSettled ==
    /\ \A i, j \in Open : i = j
    /\ pc \notin {"down", "recover", "begun", "saved", "staged"} => Open = {}

\* At most one close session is incomplete, so startup, which resumes only
\* the latest one, never leaves an older one behind.
OneIncompleteClose == \A s, t \in Incomplete : s = t

\* From DECISION_COMMITTED on, the account file holds the decision: report
\* and backup see exactly the frozen after-state, and a completed session's
\* decision is never lost, whatever crashed in between.
CommittedDecisionInAccount ==
    \A s \in Sessions :
        /\ cp[s] \in 3..5 => file = dsnap[s].after
        /\ cp[s] = COMPLETED => dsnap[s] # NotDecided /\ file.dec >= s

\* Orders are executed only for the decision of the previous session, which
\* the account already contains (MISSING_DECISION).
ExecutesPreviousDecision == pc = "execute" => file.dec = sess - 1

\* The receipts the durable state already promises: a broker sync whose file
\* is in place will be certified by its sealed finalization payload.
Promised == certified \cup {ops[i].after : i \in {j \in OpId : SyncApplied(j)}}

Atomic == INSTANCE AuthoritativeAccount
              WITH account <- file, certified <- Promised, decided <- dsnap,
                   Facts <- 0..MaxFacts

\* Through files, transactions, crashes and recovery the account changes as if
\* every reconciliation and every decision were one atomic step, each decision
\* applied once and to the state it was frozen on.
AccountIsAtomic == Atomic!Spec

\* A broker sync whose file was replaced gets its reconciliation receipt in
\* the end, however often the process crashes between the two.
AppliedSyncIsCertified ==
    \A a \in Account :
        (\E i \in OpId : SyncApplied(i) /\ ops[i].after = a) ~> a \in certified

\* An incomplete close session is completed by a later start, unless a broker
\* sync is left unapplied or the account has moved away from both states of
\* the frozen decision.
CloseFinishesUnlessStuck ==
    \A s \in Sessions :
        cp[s] > 0 ~> \/ cp[s] = COMPLETED
                     \/ \E i \in OpId : SyncRetryRequired(i)
                     \/ dsnap[s] # NotDecided /\ file \notin {dsnap[s].before, dsnap[s].after}

\* docs/RECOVERY.md: a broker sync that was prepared and not applied is kept
\* for retry; so in the end it is retried and settled.
PreparedSyncIsRetried == (\E i \in OpId : SyncRetryRequired(i)) ~> Open = {}

\* docs/RECOVERY.md: a restart goes on with the first missing checkpoint, so a
\* session whose decision is frozen is completed (an unapplied broker sync,
\* which blocks every start, aside).
FrozenDecisionIsCompleted ==
    \A s \in Sessions :
        dsnap[s] # NotDecided ~> cp[s] = COMPLETED \/ \E i \in OpId : SyncRetryRequired(i)

\* docs/RECOVERY.md: the same for every session whose close has begun.
CloseIsResumed == \A s \in Sessions : cp[s] > 0 ~> cp[s] = COMPLETED

=============================================================================
