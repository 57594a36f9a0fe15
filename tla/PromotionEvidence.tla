--------------------------- MODULE PromotionEvidence ---------------------------
(***************************************************************************)
(* How a build earns the right to trade (application/execution_evidence,   *)
(* execution_evidence_runtime, promotion_store, readiness and              *)
(* live_readiness_runtime, broker/production_smoke, and the parts of       *)
(* application/production_services and operations that use them).  Every   *)
(* session leaves at most one immutable observation per stage and build:   *)
(* SHADOW at execution time from simulated fills, CANARY at the close from *)
(* the orders in the database.  CANARY needs qualified SHADOW evidence of  *)
(* the same build, LIVE needs both.                                        *)
(*                                                                         *)
(* The daemon may die between any two steps; while it is down the operator *)
(* edits the mode, deploys another build, runs the smoke test or arms.     *)
(* A build is the triple of firmquant commit, uquant commit and promotion  *)
(* configuration (which leaves the mode out); the account is fixed.        *)
(* Planning again gives another plan id: it hashes the capture time.       *)
(***************************************************************************)
EXTENDS Integers, Sequences, FiniteSets, FiniteSetsExt, SequencesExt, Functions

CONSTANTS
    Nothing,         \* no intent, nothing armed
    Builds,          \* deployable builds
    Sells, Buys,     \* uquant order ids of each day's decision
    LastDay,         \* trading sessions
    MinShadowSessions, MinShadowOrders, MaxShadowError,
    MinCanarySessions, MinCanaryOrders, MinCanaryFills, MaxCanaryError,
    Outcomes,        \* what an order may come to, a subset of FinalState
    MaxPlans,        \* executions begun in a session
    MaxCrashes,      \* deaths of the daemon
    MaxEdits,        \* mode changes and deployments
    MaxForeign       \* orders placed outside the system

PromotionAssumption ==
    /\ LastDay \in Nat \ {0} /\ {MaxPlans, MaxCrashes, MaxEdits, MaxForeign} \subseteq Nat
    /\ Builds # {}
    /\ {MinShadowSessions, MinShadowOrders, MinCanarySessions, MinCanaryOrders,
        MinCanaryFills} \subseteq Nat
    /\ {MaxShadowError, MaxCanaryError} \subseteq 0..2
    /\ Sells \cap Buys = {} /\ IsFiniteSet(Sells \cup Buys)
    /\ Outcomes \subseteq {"FILLED", "PARTIAL", "CANCELLED", "REJECTED", "REFUSED"}

Mode == {"SHADOW", "CANARY", "LIVE"}
DayOrders == Sells \cup Buys
Days == 1..LastDay
\* What an order comes to.  A PARTIAL order was cancelled after a fill; a REJECTED
\* order is one the exchange refused, so the broker lists it; a REFUSED one never
\* reached the broker's book.
FinalState == {"FILLED", "PARTIAL", "CANCELLED", "REJECTED", "REFUSED"}
ListedState == {"FILLED", "PARTIAL", "CANCELLED", "REJECTED"}
Filled == {"FILLED", "PARTIAL"}

VARIABLES
    session,   \* the trading session
    phase,     \* "open", "eod" (EOD_RECONCILED is checkpointed) or "closed"
    mode,      \* mode in the configuration file
    build,     \* deployed build
    pc,        \* "down", "recovering", "ready", "planned", "observed", "submitting"
    finalized, \* this process has finalized the CANARY observation
    plan,      \* plan of the execution in progress
    plans,     \* day -> CANARY_PLAN_EVIDENCE events, in order
    intents,   \* day -> order -> state of its execution intent, Nothing without one
    executed,  \* days with a PRODUCTION_EXECUTION event
    obs,       \* EXECUTION_OBSERVATION events
    smokes,    \* builds with a PRODUCTION_SMOKE event of the LIVE configuration
    armed,     \* <<build, mode>> the arm lease is bound to, or Nothing
    foreign,   \* the broker lists an order of today that is not ours
    closedAs,  \* history: day -> <<mode, build>> that closed it
    budget

daemon == <<pc, finalized, plan>>
records == <<plans, intents, executed, obs>>
deployment == <<mode, build, smokes, armed>>
promotionVars == <<session, phase, daemon, records, deployment, foreign, closedAs, budget>>

NoPlan == [id |-> 0, build |-> Nothing, orders |-> {}]
Spend(what, bound) == budget[what] < bound /\ budget' = [budget EXCEPT ![what] = @ + 1]

-----------------------------------------------------------------------------
\* Observations and what they add up to.

\* Mutant: the identity of an observation includes its plan.
Key_Plan(o) == <<o.stage, o.day, o.build, o.plan>>
\* EvidenceIdentity.stable_payload.
Key(o) == <<o.stage, o.day, o.build>>

\* Orders that ended without or with part of their fill are that far from target.
StateGap == [FILLED |-> 0, PARTIAL |-> 1, CANCELLED |-> 2, REJECTED |-> 2, REFUSED |-> 2, UNKNOWN |-> 2]
OrderGap(state) == IF state = Nothing THEN 2 ELSE StateGap[state]
\* _tracking_errors, the largest: over every target of the decision, planned or not.
TrackingError(outcome) == Max({0} \cup {OrderGap(outcome[o]) : o \in DayOrders})

With(outcome, os, states) == {o \in os : outcome[o] \in states}
Observation(stage, p, planned, outcome, rejected, unknown, external) ==
    [stage |-> stage, day |-> session, build |-> p.build, plan |-> p.id,
     orders |-> Cardinality(planned),
     fills |-> Cardinality(With(outcome, planned, Filled)),
     rejected |-> rejected, unknown |-> unknown, external |-> external,
     error |-> TrackingError(outcome)]

\* PromotionStore.observations.
Evidence(stage, b) == {o \in obs : o.stage = stage /\ o.build = b}

\* ExecutionEvidenceAggregate.qualified_cleanliness.
Clean(os) == \A o \in os : o.unknown = 0 /\ o.external = 0

\* aggregate_observations: what the planned orders and the fills add up to.
OrderCount(os) == MapThenSumSet(LAMBDA o : o.orders, os)
FillCount(os) == MapThenSumSet(LAMBDA o : o.fills, os)

\* PromotionStore.qualifies over aggregate_observations.
Qualifies(stage, b, sessions, orders, fills, error) ==
    LET os == Evidence(stage, b)
    IN  /\ os # {} /\ Clean(os)
        /\ stage = "CANARY" => \A o \in os : o.rejected = 0
        /\ Cardinality(os) >= sessions
        /\ OrderCount(os) >= orders
        /\ FillCount(os) >= fills
        /\ \A o \in os : o.error <= error

ShadowQualified(b) == Qualifies("SHADOW", b, MinShadowSessions, MinShadowOrders, 0, MaxShadowError)
CanaryQualified(b) ==
    Qualifies("CANARY", b, MinCanarySessions, MinCanaryOrders, MinCanaryFills, MaxCanaryError)

\* _require_promotion.
Promoted ==
    CASE mode = "SHADOW" -> TRUE
      [] mode = "CANARY" -> ShadowQualified(build)
      [] mode = "LIVE" -> ShadowQualified(build) /\ CanaryQualified(build)

\* ExecutionEvidenceStore.append: the same content again is no change, other
\* content of the same identity is a conflict and raises.
Conflicts(o) == \E other \in obs : Key(other) = Key(o) /\ other # o
AppendEvidence(o) == obs' = obs \cup {o}

-----------------------------------------------------------------------------
PromotionInit ==
    /\ session = 1 /\ phase = "open" /\ mode = "SHADOW" /\ build = CHOOSE b \in Builds : TRUE
    /\ pc = "down" /\ finalized = FALSE /\ plan = NoPlan
    /\ plans = [d \in Days |-> <<>>]
    /\ intents = [d \in Days |-> [o \in DayOrders |-> Nothing]]
    /\ executed = {} /\ obs = {} /\ smokes = {} /\ armed = Nothing /\ foreign = FALSE
    /\ closedAs = [d \in Days |-> Nothing]
    /\ budget = [crashes |-> 0, edits |-> 0, foreign |-> 0, plans |-> 0]

Down == pc' = "down" /\ finalized' = FALSE /\ plan' = NoPlan
Unresolved == \E d \in Days : \E o \in DayOrders : intents[d][o] = "UNKNOWN"
\* A reconciliation passes: no order is unresolved and none is foreign.
Reconciles == ~Unresolved /\ ~foreign

-----------------------------------------------------------------------------
\* While the daemon is down.

SetMode(m) ==
    /\ pc = "down" /\ m # mode /\ Spend("edits", MaxEdits)
    /\ mode' = m
    /\ UNCHANGED <<session, phase, daemon, records, build, smokes, armed, foreign, closedAs>>

Deploy(b) ==
    /\ pc = "down" /\ b # build /\ Spend("edits", MaxEdits)
    /\ build' = b
    /\ UNCHANGED <<session, phase, daemon, records, mode, smokes, armed, foreign, closedAs>>

\* A receipt names build and configuration; readiness asks only for one of the
\* LIVE configuration.
Smoked == IF mode = "LIVE" THEN smokes \cup {build} ELSE smokes

\* smoke-readonly.
RunSmoke ==
    /\ pc = "down" /\ mode = "LIVE" /\ build \notin smokes
    /\ smokes' = Smoked
    /\ UNCHANGED <<session, phase, daemon, records, mode, build, armed, foreign, closedAs, budget>>

\* evaluate_live_readiness, as far as evidence goes: the remaining gates
\* (backup, heartbeat, calendar, control channel) are taken as passed.
LiveReady ==
    /\ build \in smokes
    /\ ~Unresolved
    /\ ShadowQualified(build) /\ CanaryQualified(build)

\* arm-live.
Arm ==
    /\ pc = "down" /\ armed # <<build, mode>>
    /\ \/ mode = "CANARY" /\ ShadowQualified(build)
       \/ mode = "LIVE" /\ LiveReady
    /\ ~Unresolved
    /\ armed' = <<build, mode>>
    /\ UNCHANGED <<session, phase, daemon, records, mode, build, smokes, foreign, closedAs, budget>>

\* Startup recovery proves what became of an order.
Resolve(o, state) ==
    /\ pc = "down" /\ intents[session][o] = "UNKNOWN"
    /\ intents' = [intents EXCEPT ![session][o] = state]
    /\ UNCHANGED <<session, phase, daemon, plans, executed, obs, deployment, foreign, closedAs, budget>>

\* startup up to the close of a session that was left half done.
Start ==
    /\ pc = "down" /\ ~Unresolved
    /\ pc' = "recovering"
    /\ UNCHANGED <<session, phase, finalized, plan, records, deployment, foreign, closedAs, budget>>

\* startup, the rest: smoke test, promotion gate, STARTUP reconciliation.
Startup ==
    /\ pc = "recovering" /\ phase # "eod"
    /\ smokes' = Smoked
    /\ IF Promoted /\ Reconciles
       THEN pc' = "ready" /\ UNCHANGED <<finalized, plan>>
       ELSE Down
    /\ UNCHANGED <<session, phase, records, mode, build, armed, foreign, closedAs, budget>>

-----------------------------------------------------------------------------
\* _execute.

\* ExecutionPlanner.plan: an order whose id the broker lists is blocked
\* (EXISTING_BROKER_ORDER).
PlannedOrders == {o \in DayOrders : intents[session][o] \notin ListedState}

\* The capture of _execute: INTRADAY reconciliation, facts, plan.
Plan ==
    /\ pc = "ready" /\ phase = "open" /\ session \notin executed
    /\ Reconciles /\ Spend("plans", MaxPlans)
    /\ plan' = [id |-> budget'.plans, build |-> build, orders |-> PlannedOrders]
    /\ pc' = "planned"
    /\ UNCHANGED <<session, phase, finalized, records, deployment, foreign, closedAs>>

\* Paper fills: a BUY is not simulated after a SELL that did not fill.
Simulations ==
    {sim \in [DayOrders -> (Outcomes \cap Filled) \cup {"REFUSED"}] :
        (\E s \in Sells \cap plan.orders : sim[s] # "FILLED")
            => \A b \in Buys \cap plan.orders : sim[b] = "REFUSED"}

\* build_shadow_observation reads the broker's orders again.
Simulate(sim) ==
    /\ pc = "planned" /\ mode = "SHADOW"
    /\ LET o == Observation("SHADOW", plan, plan.orders, sim, 0, 0, IF foreign THEN 1 ELSE 0)
       IN  IF Conflicts(o)
           THEN Down /\ UNCHANGED obs
           ELSE AppendEvidence(o) /\ pc' = "observed" /\ UNCHANGED <<finalized, plan>>
    /\ UNCHANGED <<session, phase, plans, intents, executed, deployment, foreign, closedAs, budget>>

\* record_canary_plan, after the promotion gate was asked again.  Only then does
\* _capability look for the arm lease, and raises without one.
RecordPlan ==
    /\ pc = "planned" /\ mode # "SHADOW"
    /\ plans' = IF Promoted /\ mode = "CANARY"
                THEN [plans EXCEPT ![session] = Append(@, plan)] ELSE plans
    /\ IF Promoted /\ armed = <<build, mode>>
       THEN pc' = "submitting" /\ UNCHANGED <<finalized, plan>>
       ELSE Down
    /\ UNCHANGED <<session, phase, intents, executed, obs, deployment, foreign, closedAs, budget>>

\* The orders of the plan still to go, SELLs first.
Waiting == {o \in plan.orders : intents[session][o] = Nothing}
Turn == IF Waiting \cap Sells # {} THEN Waiting \cap Sells ELSE Waiting
SellsDone == \A s \in Sells \cap plan.orders : intents[session][s] = "FILLED"

Submit(o, state) ==
    /\ pc = "submitting" /\ o \in Turn
    /\ o \in Buys => SellsDone
    /\ intents' = [intents EXCEPT ![session][o] = state]
    /\ IF state = "UNKNOWN" THEN Down ELSE UNCHANGED daemon
    /\ UNCHANGED <<session, phase, plans, executed, obs, deployment, foreign, closedAs, budget>>

\* The loop ends; what is still waiting was skipped (a SELL is incomplete, the
\* size came out zero, the latest time to submit has passed).
Executed ==
    /\ pc = "observed" \/ pc = "submitting"
    /\ executed' = executed \cup {session}
    /\ pc' = "ready" /\ plan' = NoPlan
    /\ UNCHANGED <<session, phase, finalized, plans, intents, obs, deployment, foreign, closedAs, budget>>

-----------------------------------------------------------------------------
\* _close_session.

ReconcileEod ==
    /\ pc = "ready" /\ phase = "open" /\ Reconciles
    /\ phase' = "eod"
    /\ UNCHANGED <<session, daemon, records, deployment, foreign, closedAs, budget>>

\* finalize_canary_observation: over the orders of the session's latest plan; an
\* order without an intent counts as UNKNOWN.  Foreign orders have stopped the
\* EOD reconciliation, so none is in the database.
CanaryObservation(p) ==
    Observation("CANARY", p, p.orders, intents[session],
                Cardinality(With(intents[session], p.orders, {"REJECTED", "REFUSED"})),
                Cardinality(With(intents[session], p.orders, {"UNKNOWN", Nothing})), 0)

Finalize ==
    /\ pc \in {"recovering", "ready"} /\ phase = "eod" /\ mode = "CANARY" /\ ~finalized
    /\ IF plans[session] = <<>>
       THEN finalized' = TRUE /\ UNCHANGED <<obs, pc, plan>>
       ELSE LET o == CanaryObservation(Last(plans[session]))
            IN  IF Conflicts(o)
                THEN Down /\ UNCHANGED obs
                ELSE AppendEvidence(o) /\ finalized' = TRUE /\ UNCHANGED <<pc, plan>>
    /\ UNCHANGED <<session, phase, plans, intents, executed, deployment, foreign, closedAs, budget>>

\* The remaining checkpoints of the session (module CloseSession).
CloseDay ==
    /\ pc \in {"recovering", "ready"} /\ phase = "eod"
    /\ mode = "CANARY" => finalized
    /\ phase' = "closed" /\ finalized' = FALSE
    /\ closedAs' = [closedAs EXCEPT ![session] = <<mode, build>>]
    /\ UNCHANGED <<session, pc, plan, records, deployment, foreign, budget>>

-----------------------------------------------------------------------------
PromotionCrash ==
    /\ pc \notin {"down", "ready"} /\ Spend("crashes", MaxCrashes)
    /\ Down
    /\ UNCHANGED <<session, phase, records, deployment, foreign, closedAs>>

\* An orderly stop (module RuntimeControl), or a death while nothing is done.
Stop ==
    /\ pc = "ready" /\ Down
    /\ UNCHANGED <<session, phase, records, deployment, foreign, closedAs, budget>>

PlaceForeign ==
    /\ ~foreign /\ phase = "open" /\ Spend("foreign", MaxForeign)
    /\ foreign' = TRUE
    /\ UNCHANGED <<session, phase, daemon, records, deployment, closedAs>>

\* The next session; an arm lease lives for minutes.
NextDay ==
    /\ phase = "closed" /\ pc \in {"down", "ready"} /\ session < LastDay
    /\ session' = session + 1 /\ phase' = "open" /\ armed' = Nothing /\ foreign' = FALSE
    /\ budget' = [budget EXCEPT !.plans = 0]
    /\ UNCHANGED <<daemon, records, mode, build, smokes, closedAs>>

PromotionNext ==
    \/ \E m \in Mode : SetMode(m)
    \/ \E b \in Builds : Deploy(b)
    \/ RunSmoke \/ Arm \/ Start \/ Startup
    \/ \E o \in DayOrders, state \in Outcomes : Resolve(o, state)
    \/ Plan \/ RecordPlan \/ Executed
    \/ \E sim \in Simulations : Simulate(sim)
    \/ \E o \in DayOrders, state \in Outcomes \cup {"UNKNOWN"} : Submit(o, state)
    \/ ReconcileEod \/ Finalize \/ CloseDay
    \/ PromotionCrash \/ Stop \/ PlaceForeign \/ NextDay

PromotionSpec == PromotionInit /\ [][PromotionNext]_promotionVars

-----------------------------------------------------------------------------
Outcome == FinalState \cup {"UNKNOWN", Nothing}
PlanRecord == [id : 1..MaxPlans, build : Builds, orders : SUBSET DayOrders]
Budget == [crashes : Nat, edits : Nat, foreign : Nat, plans : 0..MaxPlans]

\* Types of the state of the promotion gate (application/production_services.py).
PromotionTypeOK ==
    /\ session \in Days /\ phase \in {"open", "eod", "closed"}
    /\ mode \in Mode /\ build \in Builds
    /\ pc \in {"down", "recovering", "ready", "planned", "observed", "submitting"}
    /\ finalized \in BOOLEAN /\ foreign \in BOOLEAN
    /\ plan \in PlanRecord \cup {NoPlan} /\ plans \in [Days -> Seq(PlanRecord)]
    /\ intents \in [Days -> [DayOrders -> Outcome]]
    /\ executed \subseteq Days
    /\ \A o \in obs : o.stage \in {"SHADOW", "CANARY"} /\ o.day \in Days /\ o.build \in Builds
    /\ smokes \subseteq Builds
    /\ armed \in {Nothing} \cup (Builds \X Mode)
    /\ closedAs \in [Days -> {Nothing} \cup (Mode \X Builds)]
    /\ budget \in Budget

\* A session counts once for a stage and a build however often the daemon died
\* and planned it again (ExecutionEvidenceStore.append): otherwise a crash would
\* be worth a session of evidence, and aggregate_observations would refuse all of it.
SessionsCountOnce ==
    \A stage \in {"SHADOW", "CANARY"}, b \in Builds :
        Cardinality({o.day : o \in Evidence(stage, b)}) = Cardinality(Evidence(stage, b))

\* Days build b has simulated in SHADOW without anything foreign at the broker.
Simulated(b) == {o.day : o \in {x \in obs : x.stage = "SHADOW" /\ x.build = b /\ x.external = 0}}

\* Days on which build b sent the latest plan in CANARY, and how they ended,
\* told from the orders themselves and not from the observations.
CanaryDays(b) == {d \in Days : plans[d] # <<>> /\ Last(plans[d]).build = b}
CleanDay(d) ==
    \A o \in Last(plans[d]).orders : intents[d][o] \in {"FILLED", "PARTIAL", "CANCELLED"}

\* Real orders go out in CANARY only for a build with SHADOW evidence of its own;
\* in LIVE only for one that has itself sent CANARY plans on enough days that ended
\* clean, and has no CANARY day, closed in that mode, that ended with an unsent,
\* unknown or rejected order of its plan (_require_promotion).
OrdersAreEarned ==
    pc = "submitting" =>
        /\ Cardinality(Simulated(build)) >= MinShadowSessions
        /\ mode = "LIVE" =>
               /\ Cardinality({d \in CanaryDays(build) : CleanDay(d)}) >= MinCanarySessions
               /\ \A d \in CanaryDays(build) :
                      (closedAs[d] # Nothing /\ closedAs[d][1] = "CANARY") => CleanDay(d)

\* A day with real CANARY orders is not closed in CANARY mode before its evidence
\* is in the store: a crash between the checkpoint EOD_RECONCILED and the
\* observation is made good when the session is resumed (_close_session).
CanaryDayIsObserved ==
    \A d \in Days :
        (closedAs[d] # Nothing /\ closedAs[d][1] = "CANARY" /\ plans[d] # <<>>) =>
            \E o \in obs : o.stage = "CANARY" /\ o.day = d /\ o.build = Last(plans[d]).build

\* All three: real orders go out in CANARY and LIVE only for a build whose own sessions earned it,
\* each counted once however often it was planned again, and no CANARY day with orders is closed
\* without its evidence, across crashes and deployments (execution_evidence.py,
\* production_services.py _require_promotion, _close_session).
EvidenceIsExact ==
    PromotionTypeOK /\ SessionsCountOnce /\ OrdersAreEarned /\ CanaryDayIsObserved

\* A rejected order of a CANARY session is in its observation (README: the CANARY
\* evidence is formed from the rejections that really happened).
RejectionIsCounted ==
    \A o \in obs : o.stage = "CANARY" =>
        o.rejected = Cardinality(With(intents[o.day], DayOrders, {"REJECTED", "REFUSED"}))

\* An order that was never sent, because a SELL was incomplete or cash was short,
\* is recorded apart from an UNKNOWN one (docs/EXECUTION.md).
SkippedIsNotUnknown ==
    \A o \in obs : o.stage = "CANARY" =>
        o.unknown = Cardinality(With(intents[o.day], DayOrders, {"UNKNOWN"}))
=============================================================================
