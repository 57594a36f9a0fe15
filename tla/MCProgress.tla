----------------------------- MODULE MCProgress -----------------------------
(***************************************************************************)
(* What comes of processes that go on: liveness of the components, each on *)
(* an instance small enough for it, and the lease of a holder whose guards *)
(* are asked between any two ticks.  A behaviour is one of a single        *)
(* component, and the fairness is the one of that component: a condition on*)
(* a disjunction of actions of different components is a condition on the  *)
(* one that runs.                                                          *)
(***************************************************************************)
EXTENDS WriterLease, Sequences

CONSTANTS Req, NoReq, Economic, Operational, Malformed, Unusable, Disconnected, None, Symbol,
          Required

VARIABLES
    component,  \* the one whose behaviour this is
    ledger, broker, mono, fence, pc, cur, start, wake, incomplete, unknown, prior, guarded,
    late,
    rt, armed, event, evidence, startupPassed, command, inbox, receipt, holder, todo, phase,
    entries, pending, flags, mem, stale, owed,
    clock, link, deliveries, connected, diagnostic, sink, cb, queue, halt, overflow, failed,
    journal, risk, pendingReason, halted, place, drained, lost,
    gens, pointer, cands, promotion, receipts, audited, step, work, crashes,
    lock, leaseRow, time, clockSteps, state, held, leaseGuard, issued, checked

liveVars == <<ledger, broker, mono, fence, pc, cur, start, wake, incomplete, unknown, prior,
              guarded, late>>
controlVars == <<rt, armed, event, evidence, startupPassed, command, inbox, receipt, holder,
                 todo, phase, entries, pending, flags, mem, stale, owed>>
pumpVars == <<clock, link, deliveries, connected, diagnostic, sink, cb, queue, halt, overflow,
              failed, journal, risk, pendingReason, halted, place, drained, lost>>
dataVars == <<gens, pointer, cands, promotion, receipts, audited, step, work, crashes>>
leaseVars == <<lock, leaseRow, time, clockSteps, state, held, leaseGuard, issued, checked>>
allVars == <<component, liveVars, controlVars, pumpVars, dataVars, leaseVars, vars>>

Live == INSTANCE LiveExecution WITH lease <- fence, Plan <- <<"SELL", "BUY">>,
                                    LatestSubmit <- 3, LatestCancel <- 4, Completion <- 5,
                                    Window <- 1, MinLife <- 1, Poll <- 1, MaxTime <- 5,
                                    Provider <- "any", ClockAdvances <- FALSE, Faults <- FALSE

Control == INSTANCE RuntimeControl WITH Production <- TRUE

Pump == INSTANCE BrokerEvents WITH now <- clock, Capacity <- 2, MaxDrain <- 1,
                                   MaxTime <- 0, MaxDeliveries <- 3

Data == INSTANCE DataGenerations WITH pc <- step, pending <- promotion, Version <- {1, 2},
                                      First <- 1, MaxRows <- 2, MaxCandidates <- 2,
                                      MaxCrashes <- 2

Lease == INSTANCE WriterLease WITH flock <- lock, row <- leaseRow, now <- time,
                                   steps <- clockSteps, st <- state, lease <- held,
                                   guard <- leaseGuard, epochs <- issued, passed <- checked,
                                   TTL <- 2, Interval <- 1, MaxTime <- 4, MaxAcquired <- 2,
                                   MaxSteps <- 0, LockReplaceable <- FALSE, Punctual <- FALSE

ASSUME ProgressAssumption ==
    /\ Live!DeadlineAssumption /\ Live!WindowAssumption /\ Live!PlanAssumption
    /\ Live!ProviderAssumption /\ Control!ReqAssumption /\ Control!ModeAssumption
    /\ Pump!EventAssumption /\ Pump!BoundAssumption /\ Data!DataAssumption
    /\ TimeAssumption /\ ProcAssumption /\ FlagAssumption
    /\ Lease!TimeAssumption /\ Lease!FlagAssumption

-----------------------------------------------------------------------------
\* The others rest in an initial state.
MCInit ==
    /\ component \in {"punctual", "live", "control", "pump", "data", "lease"}
    /\ Init /\ Live!Init /\ Control!Init /\ Pump!PumpInit /\ Data!Init /\ Lease!Init

PunctualStep ==
    /\ component = "punctual" /\ Next
    /\ UNCHANGED <<component, liveVars, controlVars, pumpVars, dataVars, leaseVars>>

LiveStep ==
    /\ component = "live" /\ Live!Next
    /\ UNCHANGED <<component, controlVars, pumpVars, dataVars, leaseVars, vars>>

ControlStep ==
    /\ component = "control" /\ Control!Next
    /\ UNCHANGED <<component, liveVars, pumpVars, dataVars, leaseVars, vars>>

PumpStep ==
    /\ component = "pump" /\ Pump!PumpNext
    /\ UNCHANGED <<component, liveVars, controlVars, dataVars, leaseVars, vars>>

DataStep ==
    /\ component = "data" /\ Data!Next
    /\ UNCHANGED <<component, liveVars, controlVars, pumpVars, leaseVars, vars>>

LeaseStep ==
    /\ component = "lease" /\ Lease!Next
    /\ UNCHANGED <<component, liveVars, controlVars, pumpVars, dataVars, vars>>

MCNext == PunctualStep \/ LiveStep \/ ControlStep \/ PumpStep \/ DataStep \/ LeaseStep

MCSpec == MCInit /\ [][MCNext]_allVars

\* The process that runs the component goes on.
Process ==
    \/ component = "live" /\ Live!Controller
       /\ UNCHANGED <<component, controlVars, pumpVars, dataVars, leaseVars, vars>>
    \/ component = "control" /\ Control!Holder
       /\ UNCHANGED <<component, liveVars, pumpVars, dataVars, leaseVars, vars>>
    \/ component = "pump" /\ Pump!Loop
       /\ UNCHANGED <<component, liveVars, controlVars, dataVars, leaseVars, vars>>
    \/ component = "data" /\ (Data!Daemon \/ Data!Operator \/ Data!Recovery)
       /\ UNCHANGED <<component, liveVars, controlVars, pumpVars, leaseVars, vars>>
    \/ component = "lease" /\ (\E p \in Proc : Lease!AcquireBusy(p) \/ Lease!Release(p))
       /\ UNCHANGED <<component, liveVars, controlVars, pumpVars, dataVars, vars>>

\* Time passes, and a callback that began ends.
World ==
    \/ component = "live" /\ Live!Tick
       /\ UNCHANGED <<component, controlVars, pumpVars, dataVars, leaseVars, vars>>
    \/ component = "pump" /\ Pump!CallbackEnds
       /\ UNCHANGED <<component, liveVars, controlVars, dataVars, leaseVars, vars>>
    \/ component = "lease" /\ Lease!Tick
       /\ UNCHANGED <<component, liveVars, controlVars, pumpVars, dataVars, vars>>

\* Daemons are stopped; the operator retries each candidate that was approved; whoever wants
\* to write tries again, and takes a row that can be taken.
Stops ==
    /\ component = "data" /\ Data!Stop
    /\ UNCHANGED <<component, liveVars, controlVars, pumpVars, leaseVars, vars>>

Retry(c) ==
    \/ component = "data" /\ Data!Approve(c) /\ cands[c].approved
       /\ UNCHANGED <<component, liveVars, controlVars, pumpVars, leaseVars, vars>>
    \/ component = "lease"
       /\ (\E p \in Proc : (c = 1 /\ Lease!AcquireLock(p)) \/ (c = 2 /\ Lease!AcquireRow(p)))
       /\ UNCHANGED <<component, liveVars, controlVars, pumpVars, dataVars, vars>>

FairSpec ==
    /\ MCSpec /\ WF_allVars(Process) /\ WF_allVars(World) /\ SF_allVars(Stops)
    /\ SF_allVars(Retry(1)) /\ SF_allVars(Retry(2))

-----------------------------------------------------------------------------
\* Whatever the broker does, execute comes to an end (live_controller.py).
ExecutionEnds == Live!ExecutionEnds

\* While the daemon lives a queued HALT is answered or expires and a queued event leaves the
\* queue, whatever the callback thread adds (production_daemon.py: every iteration consumes the
\* inbox and drains).
DaemonServesItsInputs == Control!HaltIsHandled /\ Pump!QueueDrains

\* What a dead process left half done is finished by the next: a pending promotion, before or
\* after its pointer moved, and the lease row, once it expired (generations.py
\* recover_pending_promotion, writer_lease.py acquire).
CrashesAreRepaired == Data!PendingFinishes /\ Lease!CrashedWriterIsReplaced
=============================================================================
