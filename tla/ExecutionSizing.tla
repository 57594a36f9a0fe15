---------------------------- MODULE ExecutionSizing ----------------------------
(***************************************************************************)
(* How many shares an order asks for: the planner's authorization          *)
(* (execution/planner.py), the controller's sizing from the facts of the   *)
(* moment (execution/controller.py), the risk gate's caps (risk/gate.py)   *)
(* over the context the service collects (application/production_services) *)
(* and the capability's check that the gate authorizes what is asked       *)
(* (risk/capability.py).                                                   *)
(*                                                                         *)
(* Each of the three looks at the account anew, and between any two of     *)
(* them the account changes under them: prices move, cash is withdrawn,    *)
(* shares are traded by hand.  Money and prices are small integers,        *)
(* weights and rates are percentages; the ask, the bid and the last price  *)
(* are one market price.  The facts on which the gate halts, blocks or     *)
(* delays whatever the quantity (connection, reconciliation, universe,     *)
(* market hours, rates) are one variable; that the gate also counts the    *)
(* order it decides on among them is the subject of LiveExecution.         *)
(***************************************************************************)
EXTENDS Integers, Sequences, FiniteSets, FiniteSetsExt, SequencesExt

CONSTANTS
    None,
    Symbols,
    Unit,             \* trading_unit
    Prices,           \* prices a symbol may have
    Cash,             \* cash the account may start with
    Holdings,         \* total_shares of a symbol it may start with
    Bought,           \* how many of them may be today's, not sellable yet
    Weights,          \* target weights of the decision, in percent
    MinimumCommission, CommissionRate, StampDutyRate, TransferFeeRate,
    MaxPriceDeviation, \* from the market price, in percent of it
    MaxOrderNotional, MaxDailySubmitted, MaxDailyFilled, MaxSymbolNotional, MaxGrossNotional,
    TargetGross,      \* min(target_gross, target_gross_cap), in percent
    VolumeCap,        \* share of the day's volume that may be taken, in shares
    MaxDisturbances   \* changes of the account from outside

SizingAssumption ==
    /\ Unit \in Nat \ {0} /\ Prices \subseteq Nat \ {0} /\ Cash \subseteq Nat
    /\ Holdings \subseteq Nat /\ Bought \subseteq Nat
    /\ Weights \subseteq 0..100 /\ TargetGross \in 0..100
    /\ {MinimumCommission, CommissionRate, StampDutyRate, TransferFeeRate, MaxPriceDeviation,
        VolumeCap, MaxDisturbances} \subseteq Nat
    /\ {MaxOrderNotional, MaxDailySubmitted, MaxDailyFilled, MaxSymbolNotional,
        MaxGrossNotional} \subseteq Nat \ {0}
    /\ IsFiniteSet(Symbols)
    /\ None \notin {"SENTINEL_FREEZE_NEW_RISK", "TARGET_ALREADY_SATISFIED",
                    "UQUANT_DIRECTION_CONTRADICTION"}

VARIABLES
    cash,      \* available_cash at the broker
    held,      \* symbol -> total_shares
    sellable,  \* symbol -> sellable_shares
    price,     \* symbol -> market price
    order,     \* symbol -> what the decision wants of it: side and weight
    plan,      \* orders of the plan still to do, SELLs first
    command,   \* the order in progress
    submitted, filled, \* notional of today's SYSTEM broker orders, at their limits
    outcome,   \* symbol -> why its order ended, None before
    freeze,    \* sentinel.freeze_new_risk of the decision
    facts,     \* what the gate's other facts come to: good, HALT, BLOCK or DELAY
    shortfall, \* incomplete_sell
    step       \* None before the plan, then the number of disturbances so far

market == <<held, sellable, price>>
book == <<submitted, filled>>
decision == <<order, freeze>>
sizingVars == <<cash, market, decision, plan, command, book, outcome, facts, shortfall, step>>

NoCommand == [at |-> "none", symbol |-> None, side |-> None, shares |-> 0, authorized |-> 0,
              target |-> 0, limit |-> 0, weight |-> 0, gate |-> 0]

Floor(n) == n - (n % Unit)
MarketValue(s) == held[s] * price[s]
Gross(h, p) == MapThenSumSet(LAMBDA s : h[s] * p[s], Symbols)
GrossNotional == Gross(held, price)
TotalAssets == cash + GrossNotional

\* FeeSchedule.calculate: three parts, each rounded half up to the fee quantum.
Rounded(hundredths) == (hundredths + 50) \div 100
Fees(side, p, n) ==
    LET gross == p * n
    IN  Rounded(Max({100 * MinimumCommission, gross * CommissionRate}))
        + (IF side = "SELL" THEN Rounded(gross * StampDutyRate) ELSE 0)
        + Rounded(gross * TransferFeeRate)

\* A sale, however small a part of its order it is, brings at least its fees: nothing
\* in the code sees to it.
FeeAssumption == \A p \in Prices, n \in 1..VolumeCap : Fees("SELL", p, n) <= p * n

-----------------------------------------------------------------------------
\* ExecutionPlanner.plan.

Desired(s) == ((order[s].weight * TotalAssets) \div (100 * price[s] * Unit)) * Unit

\* A SELL of the whole position is the one that may leave an odd lot out of account.
AuthorizedShares(s) ==
    LET reduction == IF order[s].weight = 0 THEN held[s] ELSE Max({0, held[s] - Desired(s)})
    IN  IF order[s].side = "BUY" THEN Max({0, Desired(s) - held[s]})
        ELSE IF reduction = held[s] THEN reduction ELSE Floor(reduction)

\* The side the target asks for.
ExpectedSide(s) ==
    IF (order[s].weight = 0 /\ held[s] > 0) \/ Desired(s) <= held[s] THEN "SELL" ELSE "BUY"

Blocker(s) ==
    IF freeze /\ order[s].side = "BUY" THEN "SENTINEL_FREEZE_NEW_RISK"
    ELSE IF AuthorizedShares(s) <= 0 THEN "TARGET_ALREADY_SATISFIED"
    ELSE IF order[s].side # ExpectedSide(s) THEN "UQUANT_DIRECTION_CONTRADICTION"
    ELSE None

Planned(s) ==
    [at |-> "planned", symbol |-> s, side |-> order[s].side, shares |-> 0,
     authorized |-> AuthorizedShares(s), target |-> Desired(s), limit |-> price[s],
     weight |-> order[s].weight, gate |-> 0]

PlannedOn(side) == {Planned(s) : s \in {x \in Symbols : Blocker(x) = None /\ order[x].side = side}}

\* Where decision, account and market may be when the session's plan is made.
SizingInit ==
    /\ cash \in Cash
    /\ held \in [Symbols -> Holdings]
    /\ \E b \in [Symbols -> Bought] : sellable = [s \in Symbols |-> Max({0, held[s] - b[s]})]
    /\ price \in [Symbols -> Prices]
    /\ order \in [Symbols -> [side : {"BUY", "SELL"}, weight : Weights]]
    /\ freeze \in BOOLEAN
    /\ plan = <<>> /\ command = NoCommand
    /\ submitted = 0 /\ filled = 0
    /\ outcome = [s \in Symbols |-> None]
    /\ facts = "good" /\ shortfall = FALSE /\ step = None

\* SELLs before BUYs.
MakePlan ==
    /\ step = None
    /\ plan' = SetToSeq(PlannedOn("SELL")) \o SetToSeq(PlannedOn("BUY"))
    /\ outcome' = [s \in Symbols |-> Blocker(s)]
    /\ step' = 0
    /\ UNCHANGED <<cash, market, decision, command, book, facts, shortfall>>

-----------------------------------------------------------------------------
\* ExecutionController._shares_for_current_facts.

SellShares(o) ==
    LET candidate == Min({o.authorized, held[o.symbol], sellable[o.symbol]})
    IN  IF candidate = held[o.symbol] /\ o.target = 0 THEN candidate ELSE Floor(candidate)

\* Whole units within target gap and cash, fees included: what the loop that
\* takes one unit off at a time ends with.
BuyShares(o) ==
    LET gap == Floor(Min({o.authorized, Max({0, o.target - held[o.symbol]})}))
        gross == Floor(Min({gap, Max({0, cash}) \div o.limit}))
    IN  Max({n \in 0..gross : n % Unit = 0 /\ (n > 0 => o.limit * n + Fees("BUY", o.limit, n) <= cash)})

SharesNow(o) == IF o.side = "SELL" THEN SellShares(o) ELSE BuyShares(o)

\* The next order of LiveExecutionController.execute.
SizeOrder ==
    /\ command.at = "none" /\ plan # <<>>
    /\ plan' = Tail(plan)
    /\ LET o == Head(plan)
           n == SharesNow(o)
       IN  \/ /\ o.side = "BUY" /\ shortfall
              /\ outcome' = [outcome EXCEPT ![o.symbol] = "BLOCKED_BY_INCOMPLETE_SELL_REDUCTION"]
              /\ UNCHANGED <<command, shortfall>>
           \/ /\ ~(o.side = "BUY" /\ shortfall) /\ n = 0
              /\ outcome' = [outcome EXCEPT ![o.symbol] = "NO_SIZE"]
              /\ shortfall' = (shortfall \/ o.side = "SELL")
              /\ UNCHANGED command
           \/ /\ ~(o.side = "BUY" /\ shortfall) /\ n > 0
              /\ command' = [o EXCEPT !.at = "sized", !.shares = n]
              /\ UNCHANGED <<outcome, shortfall>>
    /\ UNCHANGED <<cash, market, decision, book, facts, step>>

-----------------------------------------------------------------------------
\* ExecutionRiskGate.evaluate over _risk_context.

MaxSharesFor(notional, p) == IF notional <= 0 THEN 0 ELSE notional \div p

BuyCaps(c) ==
    {c.target - held[c.symbol],
     MaxSharesFor((c.weight * TotalAssets) \div 100 - MarketValue(c.symbol), c.limit),
     MaxSharesFor((TargetGross * TotalAssets) \div 100 - GrossNotional, c.limit),
     MaxSharesFor(MaxSymbolNotional - MarketValue(c.symbol), c.limit),
     MaxSharesFor(MaxGrossNotional - GrossNotional, c.limit),
     MaxSharesFor(cash - Fees("BUY", c.limit, c.shares), c.limit)}

SellCaps(c) == {held[c.symbol] - c.target, held[c.symbol], sellable[c.symbol]}

\* Mutant: the daily cap looks at what was filled, not at what was submitted.
DayCaps_Filled(c) ==
    {MaxSharesFor(MaxOrderNotional, c.limit),
     MaxSharesFor(MaxDailySubmitted - filled, c.limit),
     MaxSharesFor(MaxDailyFilled - filled, c.limit), VolumeCap}
DayCaps(c) ==
    {MaxSharesFor(MaxOrderNotional, c.limit),
     MaxSharesFor(MaxDailySubmitted - submitted, c.limit),
     MaxSharesFor(MaxDailyFilled - filled, c.limit), VolumeCap}

\* Facts on which the gate answers BLOCK for this order.
TargetSatisfied(c) ==
    IF c.side = "BUY" THEN c.target <= held[c.symbol] ELSE held[c.symbol] <= c.target
PriceDeviates(c) ==
    LET p == price[c.symbol]
    IN  100 * (Max({c.limit, p}) - Min({c.limit, p})) > MaxPriceDeviation * p
GateBlocks(c) ==
    \/ facts = "BLOCK" \/ TargetSatisfied(c) \/ PriceDeviates(c)
    \/ freeze /\ c.side = "BUY"

\* The least of the caps, in whole units unless the position is cleared.
Quantity(c) ==
    LET candidate == Max({0, Min({c.shares, c.authorized} \cup DayCaps(c)
                                 \cup (IF c.side = "BUY" THEN BuyCaps(c) ELSE SellCaps(c)))})
        clears == c.side = "SELL" /\ candidate = held[c.symbol] /\ c.target = 0
    IN  IF clears THEN candidate ELSE Floor(candidate)

\* evaluate: authorized_shares, 0 for HALT, BLOCK and DELAY.
GateShares(c) ==
    IF facts \in {"HALT", "DELAY"} \/ GateBlocks(c) THEN 0 ELSE Quantity(c)

\* _submit_gate_reasons: ALLOW or SHRINK, and exactly the requested shares.
QuantityMatches(c) == GateShares(c) > 0 /\ GateShares(c) = c.shares

\* submit_order of the capability: sent, or WriteCapabilityDenied.
Gate ==
    /\ command.at = "sized"
    /\ \/ /\ QuantityMatches(command)
          /\ command' = [command EXCEPT !.at = "sent"]
          /\ submitted' = submitted + command.shares * command.limit
          /\ UNCHANGED <<outcome, shortfall>>
       \/ /\ ~QuantityMatches(command)
          /\ command' = [command EXCEPT !.at = "denied", !.gate = GateShares(command)]
          /\ outcome' = [outcome EXCEPT ![command.symbol] = "SUBMIT_NOT_ACCEPTED"]
          /\ shortfall' = IF command.side = "SELL" THEN TRUE ELSE shortfall
          /\ UNCHANGED submitted
    /\ UNCHANGED <<cash, market, decision, plan, filled, facts, step>>

-----------------------------------------------------------------------------
\* The broker fills n shares of the order at a price no worse than its limit,
\* and what is left is cancelled.  Bought shares are not sellable today (T+1).
Trade(n, p) ==
    /\ command.at = "sent" /\ n \in 0..command.shares
    /\ LET s == command.symbol
           fees == IF n = 0 THEN 0 ELSE Fees(command.side, p, n)
           full == n = command.shares
       IN  /\ \/ /\ command.side = "BUY" /\ p <= command.limit
                 /\ cash' = cash - n * p - fees
                 /\ held' = [held EXCEPT ![s] = @ + n]
                 /\ UNCHANGED <<sellable, shortfall>>
              \/ /\ command.side = "SELL" /\ p >= command.limit
                 /\ cash' = cash + n * p - fees
                 /\ held' = [held EXCEPT ![s] = @ - n]
                 /\ sellable' = [sellable EXCEPT ![s] = @ - n]
                 /\ shortfall' = ~full
           /\ outcome' = [outcome EXCEPT ![s] = IF full THEN "FILLED" ELSE "CANCELLED"]
    /\ filled' = filled + n * command.limit
    /\ command' = NoCommand
    /\ UNCHANGED <<price, decision, plan, submitted, facts, step>>

\* The loop goes on after a denial.
Dismiss ==
    /\ command.at = "denied" /\ command' = NoCommand
    /\ UNCHANGED <<cash, market, decision, plan, book, outcome, facts, shortfall, step>>

\* Between the steps of the system, never between the last look and the send.
Disturb ==
    /\ step # None /\ step < MaxDisturbances /\ command.at \in {"none", "sized"}
    /\ step' = step + 1
    /\ UNCHANGED <<decision, plan, command, book, outcome, shortfall>>

PriceMoves(s, p) ==
    /\ Disturb /\ p # price[s] /\ price' = [price EXCEPT ![s] = p]
    /\ UNCHANGED <<cash, held, sellable, facts>>

Withdraw ==
    /\ Disturb /\ cash > 0 /\ cash' = cash - 1
    /\ UNCHANGED <<market, facts>>

\* A share bought by hand, not sellable today, or sold by hand.
TradeByHand(s, n) ==
    /\ Disturb /\ sellable[s] + n >= 0
    /\ held' = [held EXCEPT ![s] = @ + n]
    /\ sellable' = [sellable EXCEPT ![s] = IF n < 0 THEN @ + n ELSE @]
    /\ UNCHANGED <<cash, price, facts>>

FactsChange(f) ==
    /\ Disturb /\ f # facts /\ facts' = f
    /\ UNCHANGED <<cash, market>>

SizingNext ==
    \/ MakePlan \/ SizeOrder \/ Gate \/ Dismiss \/ Withdraw
    \/ \E n \in 0..command.shares, p \in Prices : Trade(n, p)
    \/ \E s \in Symbols, p \in Prices : PriceMoves(s, p)
    \/ \E s \in Symbols, n \in {-1, 1} : TradeByHand(s, n)
    \/ \E f \in {"good", "HALT", "BLOCK", "DELAY"} : FactsChange(f)

SizingSpec == SizingInit /\ [][SizingNext]_sizingVars

-----------------------------------------------------------------------------
\* Types of the facts an order is sized from (domain/broker_facts.py): shares
\* and what of them is sellable are never negative, so nothing is sold short.
SizingTypeOK ==
    /\ cash \in Int
    /\ \A s \in Symbols : held[s] \in Nat /\ sellable[s] \in 0..held[s]
    /\ price \in [Symbols -> Prices]
    /\ submitted \in Nat /\ filled \in 0..submitted
    /\ command.at \in {"none", "sized", "sent", "denied"}
    /\ facts \in {"good", "HALT", "BLOCK", "DELAY"} /\ shortfall \in BOOLEAN
    /\ step \in {None} \cup 0..MaxDisturbances

\* Bought shares are paid for, fees included, however cash and prices moved
\* since the order was sized (risk/gate.py: the account is a cash account).
NoOverdraft == cash >= 0

\* No order takes a symbol from one side of its target to the other, although
\* shares may have changed hands since plan and sizing (risk/gate.py).
NeverPastTarget ==
    command.at = "sent" =>
        IF command.side = "BUY"
        THEN held[command.symbol] + command.shares <= command.target
        ELSE held[command.symbol] - command.shares >= command.target

\* What is submitted and what is filled in a day stay within the deployment caps
\* over all orders of the plan, no single order is larger than its cap, and no BUY
\* takes the account over the gross cap at the prices it was sent on.
CapsHold ==
    /\ submitted <= MaxDailySubmitted /\ filled <= MaxDailyFilled
    /\ command.at = "sent" =>
           /\ command.shares * command.limit <= MaxOrderNotional
           /\ command.shares <= VolumeCap
           /\ command.side = "BUY" =>
                  GrossNotional + command.shares * command.limit <= MaxGrossNotional

\* An order is for whole trading units, unless it sells all of a position whose
\* target is zero (controller.py and gate.py, both round on their own).
WholeUnits ==
    command.at = "sent" =>
        \/ command.shares % Unit = 0
        \/ command.side = "SELL" /\ command.target = 0 /\ command.shares = held[command.symbol]

\* However cash, prices and holdings moved since an order was sized: bought shares are paid for,
\* the caps on order, day and account hold over all orders of the plan, orders are for whole
\* trading units unless they sell out, and none takes a symbol from one side of its target to the
\* other (execution/controller.py, risk/gate.py).
LimitsHold == SizingTypeOK /\ NoOverdraft /\ CapsHold /\ WholeUnits /\ NeverPastTarget

\* An order the gate would let through smaller is traded smaller, not dropped
\* (docs/ARCHITECTURE.md: orders are blocked, shrunk or delayed).
ShrunkIsTraded == command.at = "denied" => command.gate = 0
=============================================================================
