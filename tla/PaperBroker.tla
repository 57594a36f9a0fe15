---------------------------- MODULE PaperBroker -----------------------------
(***************************************************************************)
(* The simulated broker: an account, one symbol, orders that rest and are  *)
(* matched against quotes, and the callbacks it owes its sink.  Every      *)
(* operation runs in one thread, but a callback may raise inside it, after *)
(* the books have moved.                                                   *)
(***************************************************************************)
EXTENDS Integers, Sequences, FiniteSets, FiniteSetsExt, Functions

CONSTANTS
    Order,            \* identities of orders (idempotency keys)
    Unit,             \* the trading unit
    InitialShares, InitialSellable, InitialCash,
    MinCommission, TaxDivisor,   \* fees: a minimum, and gross \div TaxDivisor on a SELL
    Participation,    \* 1 / Participation of the volume may be taken
    Prices, Volumes,  \* of quotes; price 0: limit-locked, no liquidity or not marketable
    MaxShares,        \* bound: requested shares
    MaxQuotes         \* bound: quotes set

PaperAssumption ==
    /\ {Unit, TaxDivisor, Participation} \subseteq Nat \ {0}
    /\ {InitialShares, InitialSellable, InitialCash, MinCommission, MaxShares, MaxQuotes} \subseteq Nat
    /\ InitialSellable <= InitialShares
    /\ Prices \subseteq Nat /\ Volumes \subseteq Nat

VARIABLES
    book,        \* account, position, orders, fills and consumed volume
    quote,       \* price, volume, and whether the market takes orders
    quotes,      \* quotes set so far
    connected,
    sink,        \* a sink is subscribed
    callbacks,   \* kept for the next subscribe
    delivered,   \* sequence numbers the sink has taken
    degraded     \* a delivery failed

paperVars == <<book, quote, quotes, connected, sink, callbacks, delivered, degraded>>

Side == {"BUY", "SELL"}
CLOSED_STATUSES == {"FILLED", "CANCELLED", "REJECTED"}
NoOrder == [status |-> "none", side |-> "BUY", requested |-> 0, filled |-> 0, reason |-> "none"]

-----------------------------------------------------------------------------
(* Prices, quantities and fees.                                            *)

Larger(a, b) == IF a > b THEN a ELSE b
Smaller(a, b) == IF a < b THEN a ELSE b
RoundDown(n) == n - (n % Unit)

Fees(side, gross) ==
    Larger(MinCommission, gross \div TaxDivisor) + (IF side = "SELL" THEN gross \div TaxDivisor ELSE 0)

\* Mutant: every quote brings its whole volume anew.
Capacity_Fresh(b) == quote.volume \div Participation

\* What volume participation leaves.
Capacity(b) == Larger(0, (quote.volume \div Participation) - b.consumed)

\* A SELL of the whole position may be odd; anything else is rounded to the unit.
RoundFill(b, o, candidate) ==
    LET c == b.orders[o] IN
    IF candidate <= 0 THEN 0
    ELSE IF c.side = "SELL" /\ b.total > 0 /\ candidate >= b.total /\ c.requested = b.total
    THEN b.total
    ELSE RoundDown(candidate)

\* The largest multiple of the unit that cash pays for, fees included.
Affordable(b, candidate) ==
    Max({0} \cup {q \in 1..candidate : /\ q % Unit = 0
                                       /\ q * quote.price + Fees("BUY", q * quote.price) <= b.cash})

\* Missing or inconsistent market facts, a closed market and a price out of bounds are one case.
SubmissionReason(b, side, requested) ==
    CASE ~quote.open -> "MARKET"
      [] requested % Unit # 0 /\ ~(side = "SELL" /\ b.total > 0 /\ requested = b.total) ->
            "TRADING_UNIT_INVALID"
      [] side = "SELL" /\ requested > b.total -> "POSITION_INSUFFICIENT"
      [] side = "SELL" /\ requested > b.sellable -> "T1_SELLABLE_EXCEEDED"
      [] OTHER -> "none"

\* What one match fills.
Quantity(b, o) ==
    LET c == b.orders[o]
        taken == Smaller(c.requested - c.filled, Capacity(b))
        candidate == IF c.side = "SELL" THEN Smaller(taken, b.sellable) ELSE taken
        q == RoundFill(b, o, candidate)
    IN  IF c.side = "BUY" THEN Affordable(b, q) ELSE q

-----------------------------------------------------------------------------
(* The books.  Event n is the n-th callback ever emitted; lost are the     *)
(* shares of SELLs that ended in an error, which the code keeps no count of.*)

InitBook ==
    [cash |-> InitialCash, total |-> InitialShares, sellable |-> InitialSellable,
     orders |-> [o \in Order |-> NoOrder], fills |-> <<>>, consumed |-> 0, seq |-> 0,
     lost |-> 0]

\* One callback for an order record.
RecordOrder(b, o, status, filled) ==
    [b EXCEPT !.orders[o] = [@ EXCEPT !.status = status, !.filled = filled, !.reason = status],
              !.seq = @ + 1]

Accepted(b, o, side, requested) ==
    LET c == [status |-> "none", side |-> side, requested |-> requested, filled |-> 0, reason |-> "none"]
        b0 == [b EXCEPT !.orders[o] = c]
        r == SubmissionReason(b, side, requested)
    IN  RecordOrder(b0, o, IF r = "none" THEN "ACKNOWLEDGED" ELSE "REJECTED", 0)

\* The proceeds of a SELL and the cash do not cover its fees: an error, but the position is
\* already reduced.
Overdraws(b, o, q) ==
    b.orders[o].side = "SELL" /\ b.cash + q * quote.price < Fees("SELL", q * quote.price)

ReducePosition(b, q) == [b EXCEPT !.total = @ - q, !.sellable = @ - q]

\* A SELL that ends in that error.
Overdrawn(b, q) == [ReducePosition(b, q) EXCEPT !.lost = @ + q]

ApplyEconomics(b, o, q) ==
    LET gross == q * quote.price
        side == b.orders[o].side
    IN  IF side = "BUY"
        THEN [b EXCEPT !.cash = @ - gross - Fees(side, gross), !.total = @ + q]
        ELSE [ReducePosition(b, q) EXCEPT !.cash = @ + gross - Fees(side, gross)]

\* Why a match fills nothing; the whole request is checked again, not what remains of it.
MatchReason(b, o) ==
    LET c == b.orders[o]
        r == SubmissionReason(b, c.side, c.requested)
    IN  CASE c.status \in CLOSED_STATUSES -> c.reason
          [] c.status \notin CLOSED_STATUSES /\ r # "none" -> r
          [] c.status \notin CLOSED_STATUSES /\ r = "none" /\ quote.price = 0 -> "PRICE"
          [] OTHER -> IF Quantity(b, o) > 0 THEN "none" ELSE "CASH_OR_VOLUME"

\* A fill callback, then the order's.
Filled(b, o, q) ==
    LET b1 == ApplyEconomics(b, o, q)
        b2 == [b1 EXCEPT !.fills = Append(@, [order |-> o, shares |-> q]),
                         !.consumed = @ + q, !.seq = @ + 1]
        total == b.orders[o].filled + q
    IN  RecordOrder(b2, o, IF total = b.orders[o].requested THEN "FILLED" ELSE "PARTIALLY_FILLED", total)

\* A match that fills nothing only leaves its reason.
Matched(b, o) ==
    LET q == Quantity(b, o) IN
    IF MatchReason(b, o) # "none" THEN [b EXCEPT !.orders[o].reason = MatchReason(b, o)]
    ELSE IF Overdraws(b, o, q) THEN Overdrawn(b, q)
    ELSE Filled(b, o, q)

-----------------------------------------------------------------------------
(* Callbacks.                                                              *)

\* The members of a set of numbers, in ascending order.
InOrder(S) ==
    [i \in 1..Cardinality(S) |-> CHOOSE n \in S : Cardinality({m \in S : m < n}) = i - 1]

\* Emit what takes the books from book to b; fails are the callbacks that raise.
Emit(b, fails) ==
    LET new == (book.seq + 1)..b.seq
        kept == IF sink THEN fails ELSE new
    IN  /\ book' = b
        /\ delivered' = IF sink THEN delivered \cup (new \ fails) ELSE delivered
        /\ callbacks' = callbacks \o InOrder(kept)
        /\ degraded' = (degraded \/ (sink /\ fails # {}))

\* Which callbacks raise is the sink's choice; without a sink none is made.
Failures(b) == IF sink THEN SUBSET ((book.seq + 1)..b.seq) ELSE {{}}

MayWrite == connected /\ ~degraded

-----------------------------------------------------------------------------
PaperInit ==
    /\ book = InitBook
    /\ quote \in [price : Prices, volume : Volumes, open : BOOLEAN]
    /\ quotes = 0
    /\ connected = FALSE /\ sink = FALSE /\ callbacks = <<>> /\ delivered = {} /\ degraded = FALSE

Connect ==
    /\ ~connected /\ connected' = TRUE
    /\ UNCHANGED <<book, quote, quotes, sink, callbacks, delivered, degraded>>

Disconnect ==
    /\ connected /\ connected' = FALSE
    /\ UNCHANGED <<book, quote, quotes, sink, callbacks, delivered, degraded>>

\* The sink takes every callback kept for it, in order.
Subscribe ==
    /\ connected
    /\ delivered' = delivered \cup {callbacks[i] : i \in 1..Len(callbacks)}
    /\ callbacks' = <<>> /\ sink' = TRUE /\ degraded' = FALSE
    /\ UNCHANGED <<book, quote, quotes, connected>>

\* It raises at the i-th: all of them are kept.
SubscribeFails(i) ==
    /\ connected
    /\ i <= Len(callbacks)
    /\ delivered' = delivered \cup {callbacks[j] : j \in 1..(i - 1)}
    /\ degraded' = TRUE
    /\ UNCHANGED <<book, quote, quotes, connected, sink, callbacks>>

\* set_quote and set_market_status.
SetQuote(q) ==
    /\ quotes < MaxQuotes
    /\ quotes' = quotes + 1
    /\ quote' = q
    /\ UNCHANGED <<book, connected, sink, callbacks, delivered, degraded>>

\* The order is recorded; it is matched at once unless its callback failed.  An order whose
\* key is known is returned as it is.
SubmitOrder(o, side, requested) ==
    /\ MayWrite
    /\ book.orders[o].status = "none"
    /\ LET b1 == Accepted(book, o, side, requested)
           b2 == IF b1.orders[o].status = "REJECTED" THEN b1 ELSE Matched(b1, o)
       IN  \/ \E fails \in Failures(b1) : fails # {} /\ Emit(b1, fails)
           \/ \E fails \in Failures(b2) : b1.seq \notin fails /\ Emit(b2, fails)
    /\ UNCHANGED <<quote, quotes, connected, sink>>

Match(o) ==
    /\ MayWrite
    /\ book.orders[o].status # "none"
    /\ LET b == Matched(book, o) IN \E fails \in Failures(b) : Emit(b, fails)
    /\ UNCHANGED <<quote, quotes, connected, sink>>

CancelOrder(o) ==
    /\ MayWrite
    /\ book.orders[o].status \notin CLOSED_STATUSES \cup {"none"}
    /\ LET b == RecordOrder(book, o, "CANCELLED", book.orders[o].filled)
       IN  \E fails \in Failures(b) : Emit(b, fails)
    /\ UNCHANGED <<quote, quotes, connected, sink>>

PaperNext ==
    \/ Connect \/ Disconnect \/ Subscribe
    \/ \E i \in 1..Len(callbacks) : SubscribeFails(i)
    \/ \E q \in [price : Prices, volume : Volumes, open : BOOLEAN] : SetQuote(q)
    \/ \E o \in Order :
        \/ Match(o) \/ CancelOrder(o)
        \/ \E side \in Side, n \in 1..MaxShares : SubmitOrder(o, side, n)

PaperSpec == PaperInit /\ [][PaperNext]_paperVars

-----------------------------------------------------------------------------
(* Properties.                                                             *)

Traded(b, side) ==
    SumFunction([i \in DOMAIN b.fills |->
                    IF b.orders[b.fills[i].order].side = side THEN b.fills[i].shares ELSE 0])

FilledOf(b, o) ==
    SumFunction([i \in DOMAIN b.fills |-> IF b.fills[i].order = o THEN b.fills[i].shares ELSE 0])

\* Every variable keeps its type; cash and shares stay nonnegative.
PaperTypeOK ==
    /\ book.cash \in Nat /\ book.total \in Nat /\ book.sellable \in 0..book.total
    /\ book.consumed \in Nat /\ book.seq \in Nat /\ book.lost \in Nat
    /\ \A o \in Order : book.orders[o].status \in
            {"none", "ACKNOWLEDGED", "PARTIALLY_FILLED"} \cup CLOSED_STATUSES
    /\ {connected, sink, degraded} \subseteq BOOLEAN

\* An order's cumulative fill is the sum of its fills and never exceeds its request; it is
\* FILLED exactly when nothing remains (paper.py match, _record_order).
FillsAddUp ==
    \A o \in Order :
        LET c == book.orders[o] IN
        /\ c.filled = FilledOf(book, o) /\ c.filled <= c.requested
        /\ (c.status = "FILLED") <=> (c.requested > 0 /\ c.filled = c.requested)

\* Shares appear and vanish through recorded fills only, and through the error of a SELL that
\* cannot pay its fees (paper.py _apply_economics).
SharesConserved ==
    book.total = InitialShares + Traded(book, "BUY") - Traded(book, "SELL") - book.lost

\* What is bought today is not sold today, however BUYs and SELLs alternate.
SoldWasSellable == Traded(book, "SELL") + book.lost <= InitialSellable

\* All orders together take no more than their share of the largest volume quoted.
ParticipationKept ==
    \E v \in Volumes : Traded(book, "BUY") + Traded(book, "SELL") <= v \div Participation

\* Every callback ever emitted has reached the sink or waits for the next subscribe, whatever
\* raised meanwhile (paper.py _emit, subscribe).
NoCallbackLost ==
    \A n \in 1..book.seq : n \in delivered \/ \E i \in 1..Len(callbacks) : callbacks[i] = n

\* The paper broker's books balance over any sequence of orders, quotes and cancels: fills add up
\* to their orders, shares are conserved, only sellable shares were sold, all orders together take
\* no more than their share of the volume; and a callback the sink has not taken is kept for the
\* next subscribe, whichever delivery failed (paper.py).
BooksBalance ==
    /\ PaperTypeOK /\ FillsAddUp /\ SharesConserved /\ SoldWasSellable
    /\ ParticipationKept /\ NoCallbackLost

\* Claimed of a partial fill: the next match takes the next slice once there is volume, so a
\* SELL whose remainder is still held is never refused for want of a position.
NextSliceFills ==
    [][\A o \in Order :
        LET c == book.orders[o]
            rest == c.requested - c.filled
        IN  /\ c.status = "PARTIALLY_FILLED" /\ c.side = "SELL" /\ book.sellable >= rest
            => book'.orders[o].reason # "POSITION_INSUFFICIENT"]_paperVars
=============================================================================
