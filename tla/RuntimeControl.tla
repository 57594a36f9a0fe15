--------------------------- MODULE RuntimeControl ---------------------------
(***************************************************************************)
(* The runtime state machine and everyone who moves it: the production     *)
(* daemon, the control requests it consumes from the local inbox, and the  *)
(* operator commands (halt, disarm, stop, cancel, reconcile, resume,       *)
(* arm-live) that run when no daemon holds the writer lease.               *)
(*                                                                         *)
(* Whoever holds the lease works through todo, its remaining transactions  *)
(* in order; each is one commit to SQLite or one file operation, and a     *)
(* crash (or a lost lease, which persists nothing either) may come between *)
(* any two.  An operation that denies is no step.                          *)
(***************************************************************************)
EXTENDS Naturals, Sequences

CONSTANTS
    Req,          \* identities of control requests
    NoReq,        \* none of them
    Production    \* SHADOW, CANARY or LIVE; otherwise PAPER or REPLAY

ReqAssumption == NoReq \notin Req
ModeAssumption == Production \in BOOLEAN

States == {"DISARMED", "STARTING", "RECONCILING", "READY", "EXECUTING", "DEGRADED",
           "HALTED", "STOPPING"}
Commands == {"HALT", "DISARM", "CANCEL_SYSTEM_ORDERS", "STOP"}
\* KILL_SWITCH, a clock discontinuity, and every other blocker.
Blockers == {"KILL_SWITCH", "CLOCK", "OTHER"}

VARIABLES
    rt,            \* the runtime_state row
    armed,         \* an arm lease is not revoked
    event,         \* the latest kill switch event of risk_events
    evidence,      \* requests whose KILL_SWITCH_TRIPPED event exists
    startupPassed, \* the latest STARTUP reconciliation passed
    command,       \* request -> its command
    inbox,         \* request -> its file: "none", "fresh" or "expired"
    receipt,       \* request -> status of its receipt
    holder,        \* who holds the writer lease
    todo,          \* transactions the holder has still to do
    phase,         \* what it does when they are done
    entries,       \* files of the inbox still to be loaded
    pending,       \* requests loaded and not yet executed
    flags,         \* flags of the batch and of the process
    mem,           \* the daemon's own copy of the row
    stale,         \* ... and whether the row has changed behind it
    owed           \* history: HALTED since, and neither disarmed nor resumed

durable == <<rt, armed, event, evidence, startupPassed, owed>>
files == <<command, inbox, receipt>>
batchVars == <<entries, pending>>
vars == <<durable, files, holder, todo, phase, batchVars, flags, mem, stale>>

NoFlags == [halted |-> FALSE, stop |-> FALSE, blocked |-> FALSE, pendingStop |-> FALSE,
            started |-> FALSE, why |-> "none"]
Initial == [state |-> "DISARMED", blockers |-> {}]

-----------------------------------------------------------------------------
(* The runtime state machine.                                              *)

RUNTIME_TRANSITIONS ==
    [DISARMED    |-> {"STARTING"},
     STARTING    |-> {"RECONCILING", "HALTED", "STOPPING"},
     RECONCILING |-> {"READY", "DEGRADED", "HALTED", "STOPPING"},
     READY       |-> {"EXECUTING", "RECONCILING", "DEGRADED", "HALTED", "STOPPING"},
     EXECUTING   |-> {"READY", "RECONCILING", "DEGRADED", "HALTED", "STOPPING"},
     DEGRADED    |-> {"RECONCILING", "HALTED", "STOPPING"},
     HALTED      |-> {"RECONCILING", "STOPPING"},
     STOPPING    |-> {"DISARMED"}]

Legal(from, to) == from = to \/ to \in RUNTIME_TRANSITIONS[from]

-----------------------------------------------------------------------------
(* Transactions.  A save of the daemon's hooks compares the whole row with *)
(* the hooks' own copy; a save of a control handler or of a command        *)
(* follows a load in the same lease.                                       *)

Save(s, b) == [op |-> "save", state |-> s, blockers |-> b]
HookSave(s, b) == [op |-> "hook", state |-> s, blockers |-> b]
Revoke == [op |-> "revoke"]
Trip(r) == [op |-> "trip", req |-> r]
Reset == [op |-> "reset"]
Receipt(r, s) == [op |-> "receipt", req |-> r, status |-> s]
Unlink(r) == [op |-> "unlink", req |-> r]
Reconcile(k, ks, halted) == [op |-> "reconcile", kind |-> k, ks |-> ks, halted |-> halted]

KillSwitch(b) == b \cap {"KILL_SWITCH"}

\* The latest event decides; only without any does the row's blocker count.
Tripped == IF event = "none" THEN "KILL_SWITCH" \in rt.blockers ELSE event = "TRIPPED"

\* Mutant: STOPPING is not finished before the halt.
ToStarting_SkipsDisarm(s) ==
    IF s.state \in {"STOPPING", "DISARMED"} THEN <<Save("STARTING", {})>> ELSE <<>>

\* What _halt saves before HALTED, which neither STOPPING nor DISARMED reaches.
ToStarting(s) ==
    (IF s.state = "STOPPING" THEN <<Save("DISARMED", {})>> ELSE <<>>)
    \o (IF s.state \in {"STOPPING", "DISARMED"} THEN <<Save("STARTING", {})>> ELSE <<>>)

ToHalted(s, b) == ToStarting(s) \o <<Save("HALTED", b)>>

ToDisarmed(s, b) ==
    IF s.state = "DISARMED" THEN <<>>
    ELSE (IF s.state = "STOPPING" THEN <<>> ELSE <<Save("STOPPING", s.blockers)>>)
         \o <<Save("DISARMED", b)>>

HaltSteps(r) ==
    <<Revoke>>
    \o ToHalted(rt, {"KILL_SWITCH"} \cup
                    IF rt.state \in {"STOPPING", "DISARMED"} THEN {} ELSE rt.blockers)
    \o <<Trip(r)>>

DisarmSteps == <<Revoke>> \o ToDisarmed(rt, KillSwitch(rt.blockers))

StopSteps ==
    <<Revoke>>
    \o (IF rt.state = "DISARMED" THEN <<Save("STARTING", {})>> ELSE <<>>)
    \o (IF rt.state = "STOPPING" THEN <<>>
        ELSE <<Save("STOPPING", IF rt.state = "DISARMED" THEN {} ELSE rt.blockers)>>)

\* CANCEL_SYSTEM_ORDERS leaves the runtime state alone; its sweep is OrderLedger's.
HandlerSteps(r) ==
    CASE command[r] = "HALT" -> HaltSteps(r)
      [] command[r] = "DISARM" -> DisarmSteps
      [] command[r] = "STOP" -> StopSteps
      [] OTHER -> <<>>

FinalizeSteps == IF rt.state = "STOPPING" THEN <<Save("DISARMED", KillSwitch(rt.blockers))>> ELSE <<>>

\* hooks.halt moves its own copy: nothing to do when HALTED, an error when STOPPING.
HooksHaltSteps(b) ==
    CASE mem.state \in {"HALTED", "STOPPING"} -> <<>>
      [] mem.state = "DISARMED" -> <<HookSave("STARTING", {}), HookSave("HALTED", {b})>>
      [] OTHER -> <<HookSave("HALTED", {b})>>

\* How a reconciliation by an operator command or at startup continues.
Outcomes(t) ==
    CASE t.kind = "resume" ->
            {IF t.ks THEN <<Reset, Save("READY", {})>> ELSE <<Save("READY", {})>>,
             <<Save("HALTED", {"OTHER"} \cup IF t.ks THEN {"KILL_SWITCH"} ELSE {})>>}
      [] t.kind = "reconcile" ->
            {<<Save("HALTED", {"OTHER"})>>}
            \cup {IF t.ks \/ t.halted
                  THEN <<Save("HALTED", (IF t.ks THEN {"KILL_SWITCH"} ELSE {})
                                        \cup IF t.halted THEN {"OTHER"} ELSE {})>>
                  ELSE <<Save("READY", {})>>}
            \cup {<<Save("HALTED", {"OTHER"} \cup IF t.ks THEN {"KILL_SWITCH"} ELSE {})>>}

\* Commit of one save: HALTED revokes the arm lease in the same transaction.
Commit(s, b) ==
    /\ rt' = [state |-> s, blockers |-> b]
    /\ armed' = (armed /\ s # "HALTED")
    /\ owed' = CASE s = "HALTED" -> TRUE
                 [] s = "DISARMED" -> FALSE
                 [] OTHER -> owed

-----------------------------------------------------------------------------
Init ==
    /\ rt = Initial /\ armed = FALSE /\ event = "none" /\ evidence = {}
    /\ startupPassed = FALSE /\ owed = FALSE
    /\ command = [r \in Req |-> "none"] /\ inbox = [r \in Req |-> "none"]
    /\ receipt = [r \in Req |-> "none"]
    /\ holder = "none" /\ todo = <<>> /\ phase = "none"
    /\ entries = {} /\ pending = {} /\ flags = NoFlags
    /\ mem = Initial /\ stale = FALSE

\* The lease is released and everything the process had in memory is gone.
Released ==
    /\ holder' = "none" /\ todo' = <<>> /\ phase' = "none"
    /\ entries' = {} /\ pending' = {} /\ flags' = NoFlags
    /\ mem' = Initial /\ stale' = FALSE

-----------------------------------------------------------------------------
(* The holder's next transaction.                                          *)

Next1 == Head(todo)
Busy(op) == todo # <<>> /\ Next1.op = op
Done1 == todo' = Tail(todo)

DoSave ==
    /\ Busy("save")
    /\ Legal(rt.state, Next1.state)
    /\ Commit(Next1.state, Next1.blockers)
    /\ stale' = (holder = "daemon")
    /\ Done1
    /\ UNCHANGED <<event, evidence, startupPassed, files, holder, phase, batchVars, flags, mem>>

DoHookSave ==
    /\ Busy("hook")
    /\ IF stale
       THEN todo' = <<>> /\ UNCHANGED <<durable, mem>>
       ELSE /\ Legal(mem.state, Next1.state)
            /\ Commit(Next1.state, Next1.blockers)
            /\ mem' = [state |-> Next1.state, blockers |-> Next1.blockers]
            /\ Done1
            /\ UNCHANGED <<event, evidence, startupPassed>>
    /\ UNCHANGED <<files, holder, phase, batchVars, flags, stale>>

DoRevoke ==
    /\ Busy("revoke") /\ Done1
    /\ armed' = FALSE
    /\ UNCHANGED <<rt, event, evidence, startupPassed, owed, files, holder, phase, batchVars,
                   flags, mem, stale>>

\* The event of a request is inserted once: its identity is the request's.
DoTrip ==
    /\ Busy("trip") /\ Done1
    /\ event' = IF Next1.req \in evidence THEN event ELSE "TRIPPED"
    /\ evidence' = evidence \cup ({Next1.req} \cap Req)
    /\ UNCHANGED <<rt, armed, startupPassed, owed, files, holder, phase, batchVars, flags, mem, stale>>

DoReset ==
    /\ Busy("reset") /\ Done1
    /\ event' = "RESET"
    /\ UNCHANGED <<rt, armed, evidence, startupPassed, owed, files, holder, phase, batchVars,
                   flags, mem, stale>>

DoReceipt ==
    /\ Busy("receipt") /\ Done1
    /\ receipt' = [receipt EXCEPT ![Next1.req] = Next1.status]
    /\ UNCHANGED <<durable, command, inbox, holder, phase, batchVars, flags, mem, stale>>

DoUnlink ==
    /\ Busy("unlink") /\ Done1
    /\ inbox' = [inbox EXCEPT ![Next1.req] = "none"]
    /\ UNCHANGED <<durable, command, receipt, holder, phase, batchVars, flags, mem, stale>>

\* A passed resume no longer owes one.
DoReconcile ==
    /\ Busy("reconcile")
    /\ todo' \in Outcomes(Next1)
    /\ owed' = (owed /\ ~(Next1.kind = "resume" /\ todo'[Len(todo')].state = "READY"))
    /\ UNCHANGED <<rt, armed, event, evidence, startupPassed, files, holder, phase, batchVars,
                   flags, mem, stale>>

Transaction ==
    \/ DoSave \/ DoHookSave \/ DoRevoke \/ DoTrip \/ DoReset \/ DoReceipt \/ DoUnlink
    \/ DoReconcile

-----------------------------------------------------------------------------
(* The inbox.                                                              *)

\* A command that finds the lease taken queues a request.
Enqueue(r, c) ==
    /\ holder # "none"
    /\ command[r] = "none"
    /\ command' = [command EXCEPT ![r] = c]
    /\ inbox' = [inbox EXCEPT ![r] = "fresh"]
    /\ UNCHANGED <<durable, receipt, holder, todo, phase, batchVars, flags, mem, stale>>

Expire(r) ==
    /\ inbox[r] = "fresh"
    /\ inbox' = [inbox EXCEPT ![r] = "expired"]
    /\ UNCHANGED <<durable, command, receipt, holder, todo, phase, batchVars, flags, mem, stale>>

\* process_pending lists the directory and reads the clock once.
ListInbox ==
    /\ phase = "list" /\ todo = <<>>
    /\ phase' = "load"
    /\ entries' = {<<r, inbox[r]>> : r \in {q \in Req : inbox[q] # "none"}}
    /\ pending' = {}
    /\ flags' = [flags EXCEPT !.halted = FALSE, !.stop = FALSE]
    /\ UNCHANGED <<durable, files, holder, todo, mem, stale>>

\* What loading one file does: its status at the listing decides first.
LoadSteps(r, status) ==
    CASE status = "expired" -> <<Receipt(r, "REJECTED"), Unlink(r)>>
      [] receipt[r] # "none" -> <<Unlink(r)>>
      [] OTHER -> <<>>

\* A receipt that differs from the existing one is refused.
Collides(r, status) == status = "expired" /\ receipt[r] # "none"

LoadFile(r, status) ==
    /\ phase = "load" /\ todo = <<>>
    /\ <<r, status>> \in entries
    /\ entries' = entries \ {<<r, status>>}
    /\ IF Collides(r, status)
       THEN phase' = "failed" /\ UNCHANGED <<todo, pending>>
       ELSE /\ todo' = LoadSteps(r, status)
            /\ pending' = IF LoadSteps(r, status) = <<>> THEN pending \cup {r} ELSE pending
            /\ UNCHANGED phase
    /\ UNCHANGED <<durable, files, holder, flags, mem, stale>>

Priority == [HALT |-> 0, DISARM |-> 1, CANCEL_SYSTEM_ORDERS |-> 2, STOP |-> 3]

\* Mutant: the file is removed before the receipt is written.
ExecuteRequest_UnlinkFirst(r) ==
    /\ phase = "load" /\ todo = <<>> /\ entries = {}
    /\ r \in pending
    /\ \A q \in pending : Priority[command[r]] <= Priority[command[q]]
    /\ pending' = pending \ {r}
    /\ todo' = HandlerSteps(r) \o <<Unlink(r), Receipt(r, "COMPLETED")>>
    /\ flags' = [flags EXCEPT !.halted = @ \/ command[r] # "CANCEL_SYSTEM_ORDERS",
                              !.stop = @ \/ command[r] = "STOP",
                              !.pendingStop = @ \/ command[r] = "STOP"]
    /\ UNCHANGED <<durable, files, holder, phase, entries, mem, stale>>

\* Execute the pending request that sorts first.
ExecuteRequest(r) ==
    /\ phase = "load" /\ todo = <<>> /\ entries = {}
    /\ r \in pending
    /\ \A q \in pending : Priority[command[r]] <= Priority[command[q]]
    /\ pending' = pending \ {r}
    /\ todo' = HandlerSteps(r) \o <<Receipt(r, "COMPLETED"), Unlink(r)>>
    /\ flags' = [flags EXCEPT !.halted = @ \/ command[r] # "CANCEL_SYSTEM_ORDERS",
                              !.stop = @ \/ command[r] = "STOP",
                              !.pendingStop = @ \/ command[r] = "STOP"]
    /\ UNCHANGED <<durable, files, holder, phase, entries, mem, stale>>

BatchDone == phase = "load" /\ todo = <<>> /\ entries = {} /\ pending = {}

-----------------------------------------------------------------------------
(* The production daemon.                                                  *)

Run ==
    /\ Production
    /\ holder = "none"
    /\ holder' = "daemon" /\ phase' = "list"
    /\ mem' = rt /\ stale' = FALSE
    /\ UNCHANGED <<durable, files, todo, batchVars, flags>>

\* Controls come before startup, and before everything else of each iteration.
DaemonBatchDone ==
    /\ BatchDone /\ holder = "daemon"
    /\ flags' = [flags EXCEPT !.blocked = @ \/ flags.halted, !.started = TRUE]
    /\ phase' = IF flags.stop THEN "disconnect"
                ELSE IF ~flags.started /\ ~(flags.blocked \/ flags.halted) THEN "startup"
                ELSE IF ~flags.started THEN "top" ELSE "work"
    /\ UNCHANGED <<durable, files, holder, todo, batchVars, mem, stale>>

\* Startup refuses HALTED and STOPPING, otherwise goes through RECONCILING.
Startup ==
    /\ phase = "startup" /\ todo = <<>>
    /\ IF mem.state \in {"HALTED", "STOPPING"}
       THEN phase' = "failed" /\ UNCHANGED todo
       ELSE /\ phase' = "recover"
            /\ todo' = (IF mem.state = "DISARMED" THEN <<HookSave("STARTING", {})>> ELSE <<>>)
                       \o (IF mem.state = "RECONCILING" THEN <<>>
                           ELSE <<HookSave("RECONCILING", {})>>)
    /\ UNCHANGED <<durable, files, holder, batchVars, flags, mem, stale>>

\* Recovery, an unfinished close, smoke test, promotion and reconciliation pass.
StartupPasses ==
    /\ phase = "recover" /\ todo = <<>>
    /\ startupPassed' = TRUE
    /\ todo' = <<HookSave("READY", {})>>
    /\ phase' = "top"
    /\ UNCHANGED <<rt, armed, event, evidence, owed, files, holder, batchVars, flags, mem, stale>>

\* One of them fails; a failed reconciliation leaves its own record.
StartupFails ==
    /\ phase = "recover" /\ todo = <<>>
    /\ startupPassed' \in {startupPassed, FALSE}
    /\ todo' = <<HookSave("HALTED", {"OTHER"})>>
    /\ phase' = "failed"
    /\ UNCHANGED <<rt, armed, event, evidence, owed, files, holder, batchVars, flags, mem, stale>>

\* Mutant: controls are consumed at start only.
Iterate_NoControls ==
    /\ phase = "top" /\ todo = <<>>
    /\ phase' = "work"
    /\ UNCHANGED <<durable, files, holder, todo, batchVars, flags, mem, stale>>

\* Top of an iteration: the clock monitor and the lease guard are satisfied.
Iterate ==
    /\ phase = "top" /\ todo = <<>>
    /\ phase' = "list"
    /\ UNCHANGED <<durable, files, holder, todo, batchVars, flags, mem, stale>>

\* The clock monitor is not: internal STOP, then hooks.halt, both suppressed.
ClockDiscontinuity ==
    /\ phase = "top" /\ todo = <<>>
    /\ todo' = StopSteps \o HooksHaltSteps("CLOCK")
    /\ flags' = [flags EXCEPT !.blocked = TRUE, !.pendingStop = TRUE, !.why = "clock"]
    /\ phase' = "leave"
    /\ UNCHANGED <<durable, files, holder, batchVars, mem, stale>>

\* SIGINT or SIGTERM was noticed.
StopRequested ==
    /\ phase = "work" /\ todo = <<>>
    /\ todo' = StopSteps
    /\ flags' = [flags EXCEPT !.blocked = TRUE, !.pendingStop = TRUE]
    /\ phase' = "disconnect"
    /\ UNCHANGED <<durable, files, holder, batchVars, mem, stale>>

\* The event pump demands a halt, or an event's handler does.
PumpHalts ==
    /\ phase = "work" /\ todo = <<>>
    /\ todo' = HooksHaltSteps("OTHER")
    /\ phase' = "leave"
    /\ UNCHANGED <<durable, files, holder, batchVars, flags, mem, stale>>

\* Nothing to do in this cycle, or the cycle is risk-blocked.
IdleCycle ==
    /\ phase = "work" /\ todo = <<>>
    /\ phase' = "top"
    /\ UNCHANGED <<durable, files, holder, todo, batchVars, flags, mem, stale>>

\* An execution or a close session begins; cycle needs its own copy READY.
BeginCycle(s) ==
    /\ phase = "work" /\ todo = <<>> /\ ~flags.blocked
    /\ mem.state = "READY"
    /\ todo' = <<HookSave(s, {})>>
    /\ phase' = "cycle"
    /\ UNCHANGED <<durable, files, holder, batchVars, flags, mem, stale>>

EndCycle ==
    /\ phase = "cycle" /\ todo = <<>>
    /\ \/ todo' = <<HookSave("READY", {})>> /\ phase' = "top"
       \/ todo' = HooksHaltSteps("OTHER") /\ phase' = "leave"
    /\ UNCHANGED <<durable, files, holder, batchVars, flags, mem, stale>>

\* Any other exception: hooks.halt, then disconnect and raise.
Fail ==
    /\ phase = "failed" /\ todo = <<>>
    /\ IF holder = "daemon"
       THEN /\ todo' = HooksHaltSteps("OTHER") /\ phase' = "leave"
            /\ UNCHANGED <<holder, batchVars, flags, mem, stale>>
       ELSE Released
    /\ UNCHANGED <<durable, files>>

\* A clean end: DISARMED only once the broker is disconnected.
Disconnect ==
    /\ phase = "disconnect" /\ todo = <<>>
    /\ \/ todo' = IF flags.pendingStop THEN FinalizeSteps ELSE <<>>
       \/ todo' = HooksHaltSteps("OTHER")
    /\ phase' = "leave"
    /\ UNCHANGED <<durable, files, holder, batchVars, flags, mem, stale>>

Leave ==
    /\ phase = "leave" /\ todo = <<>>
    /\ Released
    /\ UNCHANGED <<durable, files>>

-----------------------------------------------------------------------------
(* Operator commands, possible while nobody holds the lease.               *)

Operate(steps) ==
    /\ holder = "none"
    /\ holder' = "operator" /\ phase' = "leave"
    /\ todo' = steps
    /\ UNCHANGED <<durable, files, batchVars, flags, mem, stale>>

OperatorHalt ==
    Operate(<<Revoke>> \o ToHalted(rt, rt.blockers \cup {"KILL_SWITCH"}) \o <<Trip(NoReq)>>)

OperatorDisarm ==
    Operate(<<Revoke>> \o ToDisarmed(rt, IF Tripped THEN {"KILL_SWITCH"} ELSE {}))

OperatorResume ==
    /\ rt.state = "HALTED"
    /\ Operate(<<Revoke, Save("RECONCILING", {}), Reconcile("resume", Tripped, TRUE)>>)

OperatorReconcile ==
    /\ rt.state # "STOPPING"
    /\ Operate((IF rt.state = "DISARMED" THEN <<Save("STARTING", {})>> ELSE <<>>)
               \o (IF rt.state = "RECONCILING" THEN <<>> ELSE <<Save("RECONCILING", {})>>)
               \o <<Reconcile("reconcile", Tripped, rt.state = "HALTED")>>)

\* The configured runtime of PAPER and REPLAY is one reconciliation.
RunConfigured ==
    /\ ~Production
    /\ rt.state \notin {"HALTED", "STOPPING", "EXECUTING"}
    /\ Operate((IF rt.state = "DISARMED" THEN <<Save("STARTING", {})>> ELSE <<>>)
               \o (IF rt.state = "RECONCILING" THEN <<>> ELSE <<Save("RECONCILING", {})>>)
               \o <<Reconcile("reconcile", FALSE, FALSE)>>)

\* Mutant: the kill switch is not consulted.
ArmLive_IgnoresSwitch ==
    /\ Production
    /\ holder = "none"
    /\ rt.state = "READY" /\ startupPassed
    /\ armed' = TRUE
    /\ UNCHANGED <<rt, event, evidence, startupPassed, owed, files, holder, todo, phase,
                   batchVars, flags, mem, stale>>

\* Every other precondition of arm-live is a choice of the environment.
ArmLive ==
    /\ Production
    /\ holder = "none"
    /\ rt.state = "READY" /\ ~Tripped /\ startupPassed
    /\ armed' = TRUE
    /\ UNCHANGED <<rt, event, evidence, startupPassed, owed, files, holder, todo, phase,
                   batchVars, flags, mem, stale>>

\* stop and cancel-system-orders enqueue and consume the inbox themselves.
Direct(r, c) ==
    /\ holder = "none"
    /\ command[r] = "none"
    /\ c \in {"STOP", "CANCEL_SYSTEM_ORDERS"}
    /\ command' = [command EXCEPT ![r] = c]
    /\ inbox' = [inbox EXCEPT ![r] = "fresh"]
    /\ holder' = "operator" /\ phase' = "list"
    /\ UNCHANGED <<durable, receipt, todo, batchVars, flags, mem, stale>>

DirectDone ==
    /\ BatchDone /\ holder = "operator"
    /\ todo' = IF flags.pendingStop THEN FinalizeSteps ELSE <<>>
    /\ phase' = "leave"
    /\ UNCHANGED <<durable, files, holder, batchVars, flags, mem, stale>>

\* The process dies or its lease is lost.
Crash ==
    /\ holder # "none"
    /\ Released
    /\ UNCHANGED <<durable, files>>

-----------------------------------------------------------------------------
Holder ==
    \/ Transaction \/ ListInbox
    \/ \E r \in Req : ExecuteRequest(r) \/ \E s \in {"fresh", "expired"} : LoadFile(r, s)
    \/ DaemonBatchDone \/ Startup \/ StartupPasses \/ StartupFails
    \/ Iterate \/ ClockDiscontinuity \/ StopRequested \/ PumpHalts \/ IdleCycle
    \/ BeginCycle("EXECUTING") \/ BeginCycle("RECONCILING") \/ EndCycle
    \/ Fail \/ Disconnect \/ Leave \/ DirectDone

Operator ==
    \/ OperatorHalt \/ OperatorDisarm \/ OperatorResume \/ OperatorReconcile
    \/ RunConfigured \/ ArmLive \/ Run
    \/ \E r \in Req, c \in Commands : Enqueue(r, c) \/ Direct(r, c)

Next == Holder \/ Operator \/ Crash \/ \E r \in Req : Expire(r)

Spec == Init /\ [][Next]_vars

-----------------------------------------------------------------------------
(* Properties.                                                             *)

\* Every variable keeps its type.
TypeOK ==
    /\ {rt, mem} \subseteq [state : States, blockers : SUBSET Blockers]
    /\ armed \in BOOLEAN /\ startupPassed \in BOOLEAN /\ stale \in BOOLEAN /\ owed \in BOOLEAN
    /\ event \in {"none", "TRIPPED", "RESET"} /\ evidence \subseteq Req
    /\ command \in [Req -> Commands \cup {"none"}]
    /\ inbox \in [Req -> {"none", "fresh", "expired"}]
    /\ receipt \in [Req -> {"none", "COMPLETED", "REJECTED"}]
    /\ holder \in {"none", "daemon", "operator"}
    /\ entries \subseteq Req \X {"fresh", "expired"} /\ pending \subseteq Req

\* No command, handler or hook ever attempts a transition the state machine refuses: it
\* would raise half-way, with the transactions before it already committed (runtime_control.py
\* handlers, scheduling/sessions.py save_runtime).
EveryTransitionIsLegal ==
    /\ Busy("save") => Legal(rt.state, Next1.state)
    /\ Busy("hook") /\ ~stale => Legal(mem.state, Next1.state)

\* An arm lease is only ever active while the runtime could come back to READY by
\* reconciling: every path to HALTED, STOPPING or DISARMED revokes it first, and
\* arm-live is refused elsewhere (operations.py _arm_live, scheduling/sessions.py save_runtime).
ArmedOnlyWhileRunning == armed => rt.state \in {"RECONCILING", "READY", "EXECUTING"}

\* Live authority and a tripped kill switch exclude each other, across crashes of halt,
\* of resume and of the daemon (operations.py _halt, _resume, _arm_live).
ArmedIsUntripped == armed => event # "TRIPPED"

\* An arm lease is active only while the runtime could come back to READY by reconciling, and
\* never with a tripped kill switch, wherever halt, resume or the daemon died (operations.py
\* _arm_live, _halt, _resume; scheduling/sessions.py save_runtime).
ArmedIsJustified == ArmedOnlyWhileRunning /\ ArmedIsUntripped

\* A COMPLETED receipt of a HALT proves that its kill switch event is durable
\* (runtime_control.py _append_halt_evidence comes before the receipt).
HaltReceiptIsEvidence ==
    \A r \in Req : command[r] = "HALT" /\ receipt[r] = "COMPLETED" => r \in evidence

\* A request leaves the inbox only once its receipt is durable: a crash never loses it
\* (control_channel.py process_pending writes the receipt, then unlinks).
NoRequestLost ==
    [][\A r \in Req : inbox[r] # "none" /\ inbox'[r] = "none" => receipt[r] # "none"]_vars

\* A COMPLETED receipt of a HALT proves that its kill switch event is durable, and a request
\* leaves the inbox only once its receipt is (runtime_control.py, control_channel.py
\* process_pending).
RequestsAreAnswered == [](TypeOK /\ HaltReceiptIsEvidence) /\ NoRequestLost

\* While the daemon lives and no clock jump ends it, a queued HALT is answered or expires
\* (production_daemon.py: every iteration consumes the inbox first).
HaltIsHandled ==
    \A r \in Req :
        (holder = "daemon" /\ command[r] = "HALT" /\ inbox[r] = "fresh")
            ~> (holder # "daemon" \/ receipt[r] # "none" \/ inbox[r] # "fresh")

\* Claimed of the kill switch: it stays until it is reset after a reconciliation, so the
\* runtime is never READY or EXECUTING while the latest event is KILL_SWITCH_TRIPPED.
ReadyIsUntripped == rt.state \in {"READY", "EXECUTING"} => event # "TRIPPED"

\* Claimed of halt: a completed HALT leaves the kill switch tripped.
HaltTrips ==
    [][\A r \in Req : command[r] = "HALT" /\ receipt[r] = "none" /\ receipt'[r] = "COMPLETED"
                      => event = "TRIPPED"]_vars

\* Claimed of HALTED: only an explicit resume, or a disarm, leads out of it.
ExplicitResume == rt.state \in {"READY", "EXECUTING"} => ~owed

\* Claimed of a clock discontinuity: it leaves its blocker in the runtime state.
ClockBlockerRecorded ==
    [][Leave /\ flags.why = "clock" => "CLOCK" \in rt.blockers]_vars

\* Claimed of the inbox: a file whose receipt exists is removed, it never fails the batch.
ReceiptedFileIsIgnored ==
    [][\A r \in Req, s \in {"fresh", "expired"} :
        LoadFile(r, s) /\ receipt[r] # "none" => phase' = phase]_vars
=============================================================================
