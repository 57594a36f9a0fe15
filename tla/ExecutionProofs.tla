--------------------------- MODULE ExecutionProofs ---------------------------
(***************************************************************************)
(* Proofs about LiveExecution for every plan, every deadline, window and   *)
(* poll interval, both context providers, and with crashes, lost leases    *)
(* and failing calls at any step; then about ExecutionSizing for every     *)
(* number of symbols, trading unit, fee schedule and cap, whatever moves   *)
(* between the sizing of an order and its submit.                          *)
(***************************************************************************)
EXTENDS LiveExecution, ExecutionSizing, Sums, SequenceTheorems

-----------------------------------------------------------------------------
(* The inductive invariant.                                                *)

\* The steps with a planned order in hand.
InHand == GuardSteps \cup {"loop", "create", "finish"}

\* The steps between the intent to call the broker and the record of its answer.
Calling == {"call", "denied", "failed", "record",
            "cancel", "cancel_denied", "cancel_failed", "cancel_record"}

\* What the step of the controller says of the order in hand.
HandInv ==
    /\ pc = "construct" => cur = 1
    /\ pc \in InHand => cur \in Orders
    /\ pc = "create" => ledger[cur] = "NONE"
    /\ pc \in {"begin", "call", "denied"} => broker[cur] = "none"
    /\ pc \in {"call", "denied", "failed", "record"} => ledger[cur] = "SUBMITTING"
    /\ pc \in {"wait", "refresh", "reconcile", "finish", "begin_cancel"}
          => ledger[cur] \in OPEN_STATES

\* Who may be unresolved: the order whose call is in flight, and, once the
\* outcome of a call is unknown, orders behind which the loop submits nothing.
UnresolvedInv ==
    pc # "down" =>
       \A i \in Orders : ledger[i] \in Unresolved =>
          (i = cur /\ pc \in Calling) \/ (unknown /\ pc \in {"loop", "done"})

\* The ledger knows every order that the broker works.
KnownInv == \A i \in Orders : broker[i] # "none" => ledger[i] \notin {"NONE", "ARMED"}

\* The submit that was past its guard when the lease was lost.
LateInv ==
    late \in {0, 1}
    /\ (late = 1 => ~lease /\ (pc = "down" \/ (pc \in {"record", "failed"} /\ ~guarded)))

IInv == TypeOK /\ HandInv /\ UnresolvedInv /\ KnownInv /\ LateInv

-----------------------------------------------------------------------------
(* The operators of the model.                                             *)

\* The planned orders are numbered from one.
LEMMA PlanOrders ==
    ASSUME PlanAssumption
    PROVE  Len(Plan) \in Nat /\ Orders = 1..Len(Plan)
  BY DEF PlanAssumption, Orders

\* The deadlines are ordered natural numbers.
LEMMA Deadlines ==
    ASSUME DeadlineAssumption
    PROVE  /\ LatestSubmit \in Nat /\ LatestCancel \in Nat /\ Completion \in Nat
           /\ MaxTime \in Nat /\ LatestCancel <= MaxTime
  BY DEF DeadlineAssumption

\* What the ledger makes of a fact of the broker is a proven state, and for an
\* order that the broker works it is not ARMED.
LEMMA ProjectedStates ==
    ASSUME NEW b \in {"none", "open", "partial", "filled", "cancelled", "rejected"}
    PROVE  /\ Projected(b) \in LedgerStates \ (Unresolved \cup {"NONE"})
           /\ b # "none" => Projected(b) # "ARMED"
  BY DEF Projected, LedgerStates, OPEN_STATES, Unresolved

-----------------------------------------------------------------------------
(* The invariant is inductive.                                             *)

\* Initially no order is known, to the ledger or to the broker.
LEMMA InitInv ==
    ASSUME DeadlineAssumption, PlanAssumption, Init
    PROVE  IInv
  <1>1. TypeOK
    <2>1. {lease, incomplete, unknown, guarded} \subseteq BOOLEAN
      BY DEF Init
    <2>2. ledger \in [Orders -> LedgerStates] /\ prior \in OPEN_STATES
      BY DEF Init, LedgerStates, OPEN_STATES
    <2>3. broker \in [Orders -> {"none", "open", "partial", "filled", "cancelled", "rejected"}]
      BY DEF Init
    <2>4. /\ mono \in 0..MaxTime /\ start \in 0..MaxTime /\ wake \in 0..MaxTime
          /\ cur \in 1..(Len(Plan) + 1) /\ late \in 0..Len(Plan) /\ pc = "construct"
      BY PlanOrders, Deadlines DEF Init
    <2>. QED  BY <2>1, <2>2, <2>3, <2>4 DEF TypeOK
  <1>2. HandInv
    BY DEF Init, HandInv, InHand, GuardSteps, SubmitSteps, OpenSteps
  <1>3. UnresolvedInv /\ KnownInv /\ LateInv
    BY DEF Init, UnresolvedInv, KnownInv, LateInv, Unresolved
  <1>. QED  BY <1>1, <1>2, <1>3 DEF IInv

\* An order that ends in state s, known or UNKNOWN, leaves the loop with an
\* unresolved order only when the flag says so.
LEMMA FinishKeeps ==
    ASSUME PlanAssumption, IInv, cur \in Orders, pc # "down", late = 0,
           \A i \in Orders \ {cur} : ledger[i] \notin Unresolved,
           NEW s \in LedgerStates, s \in Unresolved => s = "UNKNOWN",
           broker[cur] # "none" => s \notin {"NONE", "ARMED"},
           ledger' = [ledger EXCEPT ![cur] = s], Finish(s), guarded' \in BOOLEAN,
           UNCHANGED <<broker, mono, lease, late>>
    PROVE  IInv'
  <1>1. pc' \in {"loop", "done"} /\ (pc' = "loop" => cur' \in Orders)
        /\ cur' \in 1..(Len(Plan) + 1)
    BY PlanOrders DEF Finish, AtHead
  <1>2. ledger' \in [Orders -> LedgerStates] /\ ledger'[cur] = s
        /\ \A i \in Orders \ {cur} : ledger'[i] = ledger[i]
    BY DEF IInv, TypeOK
  <1>3. {incomplete', unknown'} \subseteq BOOLEAN /\ (s = "UNKNOWN" => unknown')
    BY DEF Finish, SellFlag, IInv, TypeOK
  <1>4. UNCHANGED <<start, wake, prior>>
    BY DEF Finish
  <1>5. TypeOK'
    BY <1>1, <1>2, <1>3, <1>4 DEF IInv, TypeOK
  <1>6. HandInv'
    BY <1>1 DEF HandInv, InHand, GuardSteps, SubmitSteps, OpenSteps
  <1>7. UnresolvedInv' /\ KnownInv'
    BY <1>1, <1>2, <1>3 DEF IInv, UnresolvedInv, KnownInv
  <1>8. LateInv'
    BY DEF IInv, LateInv
  <1>. QED  BY <1>5, <1>6, <1>7, <1>8 DEF IInv

\* What the steps that end an order start from.
LEMMA EndsAlone ==
    ASSUME IInv,
           \/ pc = "finish"
           \/ pc \in {"denied", "failed", "record", "reconcile",
                     "cancel_denied", "cancel_failed", "cancel_record"} /\ guarded
    PROVE  /\ cur \in Orders /\ late = 0
           /\ \A i \in Orders \ {cur} : ledger[i] \notin Unresolved
           /\ broker[cur] \in {"none", "open", "partial", "filled", "cancelled", "rejected"}
           /\ ledger[cur] \in LedgerStates
           /\ prior \in OPEN_STATES
  BY DEF IInv, TypeOK, HandInv, UnresolvedInv, LateInv, InHand, GuardSteps, SubmitSteps,
         OpenSteps, Calling

\* The ledger takes over what the broker says of the order, which ends or stays open.
LEMMA RecordKeeps ==
    ASSUME PlanAssumption, IInv, pc \in {"record", "reconcile"}, Effect,
           Set(Projected(broker[cur])),
           IF Projected(broker[cur]) \in OPEN_STATES THEN pc' = "wait" /\ UNCHANGED loopVars
           ELSE Finish(Projected(broker[cur])),
           UNCHANGED <<broker, mono, lease, late>>
    PROVE  IInv'
  <1>1. /\ cur \in Orders /\ late = 0
        /\ \A i \in Orders \ {cur} : ledger[i] \notin Unresolved
        /\ broker[cur] \in {"none", "open", "partial", "filled", "cancelled", "rejected"}
    BY EndsAlone DEF Effect
  <1>2. /\ Projected(broker[cur]) \in LedgerStates \ (Unresolved \cup {"NONE"})
        /\ broker[cur] # "none" => Projected(broker[cur]) # "ARMED"
    BY <1>1, ProjectedStates
  <1>3. CASE Projected(broker[cur]) \in OPEN_STATES
    <2>1. pc' = "wait" /\ UNCHANGED loopVars /\ guarded' = FALSE
      BY <1>3 DEF Effect
    <2>2. ledger' \in [Orders -> LedgerStates] /\ ledger'[cur] \in OPEN_STATES
          /\ \A i \in Orders \ {cur} : ledger'[i] = ledger[i]
      BY <1>1, <1>2, <1>3 DEF Set, IInv, TypeOK
    <2>3. TypeOK'
      BY <2>1, <2>2 DEF IInv, TypeOK, loopVars, GuardSteps, OpenSteps
    <2>4. HandInv' /\ LateInv'
      BY <1>1, <2>1, <2>2 DEF IInv, HandInv, LateInv, loopVars
    <2>5. UnresolvedInv' /\ KnownInv'
      BY <1>1, <2>1, <2>2
         DEF IInv, UnresolvedInv, KnownInv, loopVars, OPEN_STATES, Unresolved
    <2>. QED  BY <2>3, <2>4, <2>5 DEF IInv
  <1>4. CASE Projected(broker[cur]) \notin OPEN_STATES
    BY <1>1, <1>2, <1>4, FinishKeeps DEF Effect, Set
  <1>. QED  BY <1>3, <1>4

\* Every step of the controller and of the world keeps the invariant.
LEMMA StepInv ==
    ASSUME DeadlineAssumption, WindowAssumption, PlanAssumption, IInv, [Next]_vars
    PROVE  IInv'
  <1>. USE PlanOrders
       DEF IInv, TypeOK, HandInv, UnresolvedInv, KnownInv, LateInv, InHand, Calling,
           GuardSteps, SubmitSteps, OpenSteps, orderVars, loopVars, LedgerStates,
           OPEN_STATES, Unresolved
  <1>1. CASE Construct
    BY <1>1 DEF Construct, AtHead
  <1>2. CASE Guard
    BY <1>2 DEF Guard
  <1>3. CASE GuardFails
    BY <1>3 DEF GuardFails, Cancellable
  <1>4. CASE SkipBlocked
    BY <1>4 DEF SkipBlocked, NextOrder, AtHead, Blocked
  <1>5. CASE SkipExisting
    <2>1. \A i \in Orders : ledger[i] \notin Unresolved
      BY <1>5 DEF SkipExisting, Blocked
    <2>2. {incomplete', unknown'} \subseteq BOOLEAN
      BY <1>5 DEF SkipExisting, SellFlag
    <2>3. pc' \in {"loop", "done"} /\ (pc' = "loop" => cur' \in Orders)
          /\ cur' \in 1..(Len(Plan) + 1)
      BY <1>5 DEF SkipExisting, NextOrder, AtHead
    <2>. QED  BY <1>5, <2>1, <2>2, <2>3 DEF SkipExisting, NextOrder
  <1>6. CASE SkipUnsafe
    BY <1>6 DEF SkipUnsafe, NextOrder, AtHead, Blocked
  <1>7. CASE Size
    BY <1>7 DEF Size, Blocked
  <1>8. CASE Create
    BY <1>8 DEF Create, Set
  <1>9. CASE BeginSubmit
    BY <1>9 DEF BeginSubmit, Step, Effect, Set
  <1>10. CASE SubmitDenied
    BY <1>10 DEF SubmitDenied, Step, Effect
  <1>11. CASE SubmitSent
    <2>1. /\ pc = "call" /\ pc' \in {"record", "failed"} /\ guarded' = FALSE
          /\ UNCHANGED <<ledger, mono, lease, loopVars>>
      BY <1>11 DEF SubmitSent, Step, Effect
    <2>2. cur \in Orders /\ late = 0
      BY <2>1
    <2>3. late' \in {0, 1} /\ late' \in 0..Len(Plan) /\ (late' = 1 => ~lease)
      BY <1>11, <2>2 DEF SubmitSent
    <2>4. broker' = [broker EXCEPT ![cur] = "open"]
      BY <1>11 DEF SubmitSent
    <2>. QED  BY <2>1, <2>2, <2>3, <2>4
  <1>12. CASE SubmitLost
    BY <1>12 DEF SubmitLost, Step, Effect
  <1>13. CASE ResolveNotAccepted
    <2>1. /\ cur \in Orders /\ late = 0 /\ pc # "down"
          /\ \A i \in Orders \ {cur} : ledger[i] \notin Unresolved
      BY <1>13, EndsAlone DEF ResolveNotAccepted, Effect
    <2>2. "ARMED" \in LedgerStates /\ guarded' \in BOOLEAN
      BY <1>13 DEF ResolveNotAccepted, Effect, LedgerStates, Unresolved
    <2>3. broker[cur] = "none" /\ "ARMED" \notin Unresolved
      BY <1>13 DEF ResolveNotAccepted, Unresolved
    <2>. QED  BY <1>13, <2>1, <2>2, <2>3, FinishKeeps DEF ResolveNotAccepted, Set
  <1>14. CASE MarkUnknown
    <2>1. /\ cur \in Orders /\ late = 0 /\ pc # "down"
          /\ \A i \in Orders \ {cur} : ledger[i] \notin Unresolved
      BY <1>14, EndsAlone DEF MarkUnknown, Effect
    <2>2. "UNKNOWN" \in LedgerStates /\ guarded' \in BOOLEAN
      BY <1>14 DEF MarkUnknown, Effect, LedgerStates, Unresolved
    <2>3. "UNKNOWN" \notin {"NONE", "ARMED"}
      BY <1>14 DEF MarkUnknown, Unresolved
    <2>. QED  BY <1>14, <2>1, <2>2, <2>3, FinishKeeps DEF MarkUnknown, Set
  <1>15. CASE RecordSubmit
    BY <1>15, RecordKeeps DEF RecordSubmit
  <1>16. CASE PollOrder
    <2>1. wake' \in 0..MaxTime
      <3>1. Poll \in Nat /\ Window \in Nat
        BY DEF WindowAssumption
      <3>2. OrderDeadline \in 0..LatestCancel
        BY <3>1, Deadlines DEF OrderDeadline, Min2
      <3>3. Min2(mono + Poll, OrderDeadline) \in 0..OrderDeadline
        BY <3>1, <3>2, Deadlines DEF Min2
      <3>. QED  BY <1>16, <3>2, <3>3, Deadlines DEF PollOrder, Sleep
    <2>. QED  BY <1>16, <2>1 DEF PollOrder, Sleep, Waiting, Effect
  <1>17. CASE WindowEnds
    BY <1>17 DEF WindowEnds, Effect, Waiting
  <1>18. CASE Refresh
    BY <1>18 DEF Refresh, Effect, Waiting
  <1>19. CASE Reconcile
    BY <1>19, RecordKeeps DEF Reconcile
  <1>20. CASE DecideCancel
    <2>1. CASE MayCancel
      BY <1>20, <2>1 DEF DecideCancel, Idle
    <2>2. CASE ~MayCancel
      <3>1. /\ cur \in Orders /\ late = 0 /\ pc # "down" /\ ledger[cur] \in LedgerStates
            /\ \A i \in Orders \ {cur} : ledger[i] \notin Unresolved
        BY <1>20, EndsAlone DEF DecideCancel
      <3>2. ledger[cur] \in OPEN_STATES
        BY <1>20 DEF DecideCancel, IInv, HandInv
      <3>3. ledger[cur] \notin Unresolved \cup {"NONE", "ARMED"} /\ guarded' \in BOOLEAN
        BY <1>20, <3>2 DEF DecideCancel, Idle, OPEN_STATES, Unresolved, IInv, TypeOK
      <3>4. ledger' = [ledger EXCEPT ![cur] = ledger[cur]]
        BY <1>20 DEF DecideCancel, Idle, orderVars, IInv, TypeOK
      <3>. QED  BY <1>20, <2>2, <3>1, <3>3, <3>4, FinishKeeps DEF DecideCancel, Idle, orderVars
    <2>. QED  BY <2>1, <2>2
  <1>21. CASE BeginCancel
    BY <1>21 DEF BeginCancel, Effect, Set
  <1>22. CASE CancelDenied
    BY <1>22 DEF CancelDenied, Effect, Step
  <1>23. CASE CancelSent
    BY <1>23 DEF CancelSent, Effect, Step, Cancellable
  <1>24. CASE CancelLost
    BY <1>24 DEF CancelLost, Effect, Step
  <1>25. CASE CancelNotAccepted
    <2>1. /\ cur \in Orders /\ late = 0 /\ pc # "down" /\ prior \in OPEN_STATES
          /\ \A i \in Orders \ {cur} : ledger[i] \notin Unresolved
      BY <1>25, EndsAlone DEF CancelNotAccepted, Effect
    <2>2. /\ prior \in LedgerStates /\ prior \notin Unresolved \cup {"NONE", "ARMED"}
          /\ guarded' \in BOOLEAN
      BY <1>25, <2>1 DEF CancelNotAccepted, Effect, LedgerStates, OPEN_STATES, Unresolved
    <2>. QED  BY <1>25, <2>1, <2>2, FinishKeeps DEF CancelNotAccepted, Set
  <1>26. CASE CancelUnknown
    <2>1. /\ cur \in Orders /\ late = 0 /\ pc # "down"
          /\ \A i \in Orders \ {cur} : ledger[i] \notin Unresolved
      BY <1>26, EndsAlone DEF CancelUnknown, Effect
    <2>2. "UNKNOWN" \in LedgerStates /\ guarded' \in BOOLEAN
      BY <1>26 DEF CancelUnknown, Effect, LedgerStates, Unresolved
    <2>3. "UNKNOWN" \notin {"NONE", "ARMED"}
      BY <1>26 DEF CancelUnknown, Unresolved
    <2>. QED  BY <1>26, <2>1, <2>2, <2>3, FinishKeeps DEF CancelUnknown, Set
  <1>27. CASE RecordCancel
    <2>1. /\ cur \in Orders /\ late = 0 /\ pc # "down"
          /\ \A i \in Orders \ {cur} : ledger[i] \notin Unresolved
          /\ broker[cur] \in {"none", "open", "partial", "filled", "cancelled", "rejected"}
      BY <1>27, EndsAlone DEF RecordCancel, Effect
    <2>2. /\ Projected(broker[cur]) \in LedgerStates \ (Unresolved \cup {"NONE"})
          /\ broker[cur] # "none" => Projected(broker[cur]) # "ARMED"
          /\ guarded' \in BOOLEAN
      BY <1>27, <2>1, ProjectedStates DEF RecordCancel, Effect
    <2>. QED  BY <1>27, <2>1, <2>2, FinishKeeps DEF RecordCancel, Set
  <1>28. CASE Tick
    BY <1>28 DEF Tick, DeadlineAssumption
  <1>29. CASE BrokerMoves
    BY <1>29 DEF BrokerMoves
  <1>30. CASE LeaseLost
    BY <1>30 DEF LeaseLost
  <1>31. CASE Crash
    BY <1>31 DEF Crash
  <1>32. CASE Restart
    <2>1. /\ ledger' \in [Orders -> LedgerStates]
          /\ \A i \in Orders : ledger'[i] \notin Unresolved
          /\ \A i \in Orders : broker[i] # "none" => ledger'[i] \notin {"NONE", "ARMED"}
      BY <1>32, ProjectedStates DEF Restart
    <2>2. {lease', incomplete', unknown', guarded'} \subseteq BOOLEAN
      BY <1>32 DEF Restart
    <2>3. /\ mono' \in 0..MaxTime /\ start' \in 0..MaxTime /\ wake' \in 0..MaxTime
          /\ cur' = 1 /\ cur' \in 1..(Len(Plan) + 1) /\ late' \in 0..Len(Plan) /\ late' = 0
          /\ pc' = "construct" /\ prior' \in OPEN_STATES /\ broker' = broker
      BY <1>32, Deadlines DEF Restart
    <2>. QED  BY <2>1, <2>2, <2>3
  <1>33. CASE UNCHANGED vars
    BY <1>33 DEF vars
  <1>. QED
    BY <1>1, <1>2, <1>3, <1>4, <1>5, <1>6, <1>7, <1>8, <1>9, <1>10, <1>11, <1>12, <1>13,
       <1>14, <1>15, <1>16, <1>17, <1>18, <1>19, <1>20, <1>21, <1>22, <1>23, <1>24, <1>25,
       <1>26, <1>27, <1>28, <1>29, <1>30, <1>31, <1>32, <1>33
       DEF Next, Controller

-----------------------------------------------------------------------------
(* Theorems.                                                               *)

\* What the controller relies on at each of its steps: the ledger state of the
\* order in hand, who may be unresolved, that the ledger knows every order at
\* the broker, and the one submit that may be late
\* (live_controller.py execute, _submit_live, _cancel_live).
THEOREM ExecutionInvariant ==
    ASSUME DeadlineAssumption, WindowAssumption, PlanAssumption
    PROVE  Spec => []IInv
  <1>1. Init => IInv
    BY InitInv
  <1>2. IInv /\ [Next]_vars => IInv'
    BY StepInv
  <1>. QED  BY <1>1, <1>2, PTL DEF Spec

\* No new risk behind an unknown outcome: when a submit is about to be sent
\* every other order of the plan has a proven state, the ledger never forgets
\* an order that the broker works, and after the lease is lost at most the one
\* submit already past its guard reaches the broker; for every plan, every
\* deadline, and whatever crashes, fails or is restarted
\* (live_controller.py execute, _guard, _submit_live).
THEOREM SubmitsStaySafe ==
    ASSUME DeadlineAssumption, WindowAssumption, PlanAssumption
    PROVE  Spec => []SubmitsAreSafe
  <1>1. IInv => SubmitsAlone
    BY DEF IInv, UnresolvedInv, KnownInv, SubmitsAlone
  <1>2. IInv => LossStopsSubmits
    BY DEF IInv, LateInv, LossStopsSubmits
  <1>3. IInv => TypeOK
    BY DEF IInv
  <1>. QED  BY <1>1, <1>2, <1>3, ExecutionInvariant, PTL DEF SubmitsAreSafe

-----------------------------------------------------------------------------
(* What the positions are worth.                                           *)

\* What the positions are worth is a number.
LEMMA GrossIsInt ==
    ASSUME SizingAssumption, NEW h, NEW p, \A s \in Symbols : h[s] \in Int /\ p[s] \in Int
    PROVE  Gross(h, p) \in Int
  <1> DEFINE v == [s \in Symbols |-> h[s] * p[s]]
             f == CHOOSE iter : Adds(Symbols, v, iter)
  <1>1. \A s \in Symbols : v[s] \in Int
    OBVIOUS
  <1>2. IsFiniteSet(Symbols) /\ Adds(Symbols, v, f)
    <2>1. IsFiniteSet(Symbols)
      BY DEF SizingAssumption
    <2> HIDE DEF v
    <2> QED
      BY <2>1, FoldExists
  <1>3. f[Symbols] \in Int
    <2> HIDE DEF v, f
    <2> QED
      BY <1>1, <1>2, FoldIsInt
  <1>4. Gross(h, p) = f[Symbols]
    BY DEF Gross, MapThenSumSet, MapThenFoldSet, Adds
  <1> QED
    BY <1>3, <1>4

-----------------------------------------------------------------------------
(* Units, quotients and fees.                                              *)

LEMMA DivMod ==
    ASSUME NEW n \in Int, NEW u \in Nat \ {0}
    PROVE  n \div u \in Int /\ n % u \in 0..(u - 1) /\ n = u * (n \div u) + (n % u)
  OBVIOUS

LEMMA NoFactor ==
    ASSUME NEW u \in Nat \ {0}, NEW k \in Int, 0 <= u * k, u * k < u
    PROVE  k = 0
  <1>1. ASSUME k >= 1 PROVE FALSE
    BY <1>1
  <1>2. ASSUME k <= -1 PROVE FALSE
    BY <1>2
  <1> QED
    BY <1>1, <1>2

LEMMA Multiple ==
    ASSUME NEW q \in Int, NEW u \in Nat \ {0}
    PROVE  (u * q) % u = 0
  <1> DEFINE m == u * q
             d == m \div u
             r == m % u
  <1>1. m \in Int
    OBVIOUS
  <1>2. d \in Int /\ r \in 0..(u - 1) /\ m = u * d + r
    <2> HIDE DEF m
    <2> QED
      BY <1>1, DivMod
  <1>3. u * q = u * d + r
    BY <1>2
  <1> HIDE DEF d, r, m
  <1>4. u * (q - d) = r
    BY <1>2, <1>3
  <1>5. q - d = 0
    BY <1>2, <1>4, NoFactor
  <1>6. r = 0
    BY <1>2, <1>4, <1>5
  <1> QED
    BY <1>6 DEF r, m

\* Rounding down gives whole units and no more.
LEMMA FloorFacts ==
    ASSUME SizingAssumption, NEW n \in Int
    PROVE  /\ Floor(n) \in Int /\ Floor(n) <= n /\ Floor(n) % Unit = 0
           /\ n \in Nat => Floor(n) \in Nat
  <1>1. Unit \in Nat \ {0}
    BY DEF SizingAssumption
  <1>2. n \div Unit \in Int /\ Floor(n) = Unit * (n \div Unit)
    BY <1>1, DivMod DEF Floor
  <1>3. Floor(n) % Unit = 0
    BY <1>1, <1>2, Multiple
  <1>4. n % Unit \in Nat /\ (n \in Nat => n % Unit <= n)
    BY <1>1
  <1> QED
    BY <1>3, <1>4 DEF Floor

LEMMA TimesGrows ==
    ASSUME NEW a \in Nat, NEW b \in Nat, NEW x \in Nat, NEW y \in Nat, a <= b, x <= y
    PROVE  a * x <= b * y /\ a * x \in Nat /\ b * y \in Nat
  <1>1. a * x <= b * x
    OBVIOUS
  <1>2. b * x <= b * y
    OBVIOUS
  <1> QED
    BY <1>1, <1>2

\* As many shares as an amount pays for.
LEMMA AmountPays ==
    ASSUME NEW x \in Int, NEW p \in Nat \ {0}
    PROVE  /\ MaxSharesFor(x, p) \in Nat
           /\ \A n \in Nat \ {0} : n <= MaxSharesFor(x, p) => n * p <= x
  <1>1. CASE x <= 0
    BY <1>1 DEF MaxSharesFor
  <1>2. CASE x > 0
    <2>1. x \in Nat /\ MaxSharesFor(x, p) = x \div p
      BY <1>2 DEF MaxSharesFor
    <2>2. x \div p \in Nat
      BY <2>1
    <2>3. ASSUME NEW n \in Nat \ {0}, n <= x \div p PROVE n * p <= x
      BY <2>1, <2>3
    <2> QED
      BY <2>1, <2>2, <2>3
  <1> QED
    BY <1>1, <1>2

LEMMA RoundedGrows ==
    ASSUME NEW x \in Nat, NEW y \in Nat, x <= y
    PROVE  Rounded(x) \in Nat /\ Rounded(y) \in Nat /\ Rounded(x) <= Rounded(y)
  BY DEF Rounded

\* Fees grow with the amount.
LEMMA FeesGrow ==
    ASSUME SizingAssumption, NEW side, NEW p \in Nat, NEW q \in Nat, NEW m \in Nat, NEW n \in Nat,
           p <= q, m <= n
    PROVE  /\ Fees(side, p, m) \in Nat /\ Fees(side, q, n) \in Nat
           /\ Fees(side, p, m) <= Fees(side, q, n)
  <1> DEFINE x == p * m
             y == q * n
             cx == Max({100 * MinimumCommission, x * CommissionRate})
             cy == Max({100 * MinimumCommission, y * CommissionRate})
  <1>1. x \in Nat /\ y \in Nat /\ x <= y
    BY TimesGrows
  <1>2. /\ MinimumCommission \in Nat /\ CommissionRate \in Nat /\ StampDutyRate \in Nat
        /\ TransferFeeRate \in Nat
    BY DEF SizingAssumption
  <1> HIDE DEF x, y
  <1>3. /\ x * CommissionRate \in Nat /\ y * CommissionRate \in Nat
        /\ x * CommissionRate <= y * CommissionRate
    BY <1>1, <1>2, TimesGrows
  <1>4. /\ x * StampDutyRate \in Nat /\ y * StampDutyRate \in Nat
        /\ x * StampDutyRate <= y * StampDutyRate
    BY <1>1, <1>2, TimesGrows
  <1>5. /\ x * TransferFeeRate \in Nat /\ y * TransferFeeRate \in Nat
        /\ x * TransferFeeRate <= y * TransferFeeRate
    BY <1>1, <1>2, TimesGrows
  <1>6. cx \in Nat /\ cy \in Nat /\ cx <= cy
    <2> DEFINE a == 100 * MinimumCommission
               u == x * CommissionRate
               w == y * CommissionRate
    <2>1. a \in Nat /\ u \in Nat /\ w \in Nat /\ u <= w
      BY <1>2, <1>3
    <2> HIDE DEF a, u, w
    <2>2. a \in Int /\ u \in Int /\ w \in Int
      BY <2>1
    <2>3. Max({a, u}) \in {a, u} /\ Max({a, u}) >= a /\ Max({a, u}) >= u
      BY <2>2, MaxOfTwo
    <2>4. Max({a, w}) \in {a, w} /\ Max({a, w}) >= a /\ Max({a, w}) >= w
      BY <2>2, MaxOfTwo
    <2>5. Max({a, u}) \in Nat /\ Max({a, w}) \in Nat /\ Max({a, u}) <= Max({a, w})
      BY <2>1, <2>3, <2>4
    <2> QED
      BY <2>5 DEF a, u, w
  <1> HIDE DEF cx, cy
  <1>7. /\ Rounded(cx) \in Nat /\ Rounded(cy) \in Nat /\ Rounded(cx) <= Rounded(cy)
    BY <1>6, RoundedGrows
  <1>8. /\ Rounded(x * StampDutyRate) \in Nat /\ Rounded(y * StampDutyRate) \in Nat
        /\ Rounded(x * StampDutyRate) <= Rounded(y * StampDutyRate)
    BY <1>4, RoundedGrows
  <1>9. /\ Rounded(x * TransferFeeRate) \in Nat /\ Rounded(y * TransferFeeRate) \in Nat
        /\ Rounded(x * TransferFeeRate) <= Rounded(y * TransferFeeRate)
    BY <1>5, RoundedGrows
  <1>10. /\ Fees(side, p, m) = Rounded(cx)
                + (IF side = "SELL" THEN Rounded(x * StampDutyRate) ELSE 0)
                + Rounded(x * TransferFeeRate)
         /\ Fees(side, q, n) = Rounded(cy)
                + (IF side = "SELL" THEN Rounded(y * StampDutyRate) ELSE 0)
                + Rounded(y * TransferFeeRate)
    BY DEF Fees, cx, cy, x, y
  <1> QED
    BY <1>7, <1>8, <1>9, <1>10

-----------------------------------------------------------------------------
(* The inductive invariant of sizing.                                      *)

PlannedOrder ==
    [at : {"planned"}, symbol : Symbols, side : {"BUY", "SELL"}, shares : Int, authorized : Nat,
     target : Int, limit : Prices, weight : Weights, gate : Int]
HandOrder ==
    [at : {"sized", "sent", "denied"}, symbol : Symbols, side : {"BUY", "SELL"}, shares : Nat \ {0},
     authorized : Nat, target : Int, limit : Prices, weight : Weights, gate : Int]

AccountTypes ==
    /\ cash \in Nat
    /\ held \in [Symbols -> Nat] /\ sellable \in [Symbols -> Nat]
    /\ \A s \in Symbols : sellable[s] <= held[s]
    /\ price \in [Symbols -> Prices]
    /\ order \in [Symbols -> [side : {"BUY", "SELL"}, weight : Weights]]

LoopTypes ==
    /\ plan \in Seq(PlannedOrder)
    /\ command = NoCommand \/ command \in HandOrder
    /\ facts \in {"good", "HALT", "BLOCK", "DELAY"} /\ shortfall \in BOOLEAN
    /\ step \in {None} \cup 0..MaxDisturbances

\* Submitted and filled notional against each other and the caps of the day.
DayInv ==
    /\ submitted \in Nat /\ filled \in Nat
    /\ filled <= submitted /\ submitted <= MaxDailySubmitted /\ filled <= MaxDailyFilled

\* What the gate has seen to when it lets an order through.
Allowed(c) ==
    /\ c.shares <= VolumeCap /\ c.shares * c.limit <= MaxOrderNotional
    /\ filled + c.shares * c.limit <= MaxDailyFilled
    /\ c.side = "BUY" =>
           /\ c.shares * c.limit + Fees("BUY", c.limit, c.shares) <= cash
           /\ held[c.symbol] + c.shares <= c.target
           /\ GrossNotional + c.shares * c.limit <= MaxGrossNotional
    /\ c.side = "SELL" =>
           c.shares <= sellable[c.symbol] /\ held[c.symbol] - c.shares >= c.target
    /\ \/ c.shares % Unit = 0
       \/ c.side = "SELL" /\ c.target = 0 /\ c.shares = held[c.symbol]

\* The order at the broker is still what the gate allowed, and counted as submitted.
SentInv ==
    command.at = "sent" =>
        Allowed(command) /\ filled + command.shares * command.limit <= submitted

SizingInv == AccountTypes /\ LoopTypes /\ DayInv /\ SentInv

-----------------------------------------------------------------------------
(* The gate.                                                               *)

\* A handful of caps is a finite set.
LEMMA FewCaps ==
    ASSUME NEW a, NEW b, NEW c, NEW d, NEW e, NEW f
    PROVE  /\ IsFiniteSet({a, b}) /\ IsFiniteSet({a, b, c}) /\ IsFiniteSet({a, b, c, d})
           /\ IsFiniteSet({a, b, c, d, e, f})
  <1>1. IsFiniteSet({a}) /\ IsFiniteSet({b}) /\ IsFiniteSet({c}) /\ IsFiniteSet({d})
        /\ IsFiniteSet({e}) /\ IsFiniteSet({f})
    BY FS_Singleton
  <1>2. IsFiniteSet({a} \cup {b})
    BY <1>1, FS_Union
  <1>3. IsFiniteSet(({a} \cup {b}) \cup {c})
    BY <1>1, <1>2, FS_Union
  <1>4. IsFiniteSet((({a} \cup {b}) \cup {c}) \cup {d})
    BY <1>1, <1>3, FS_Union
  <1>5. IsFiniteSet(((({a} \cup {b}) \cup {c}) \cup {d}) \cup {e})
    BY <1>1, <1>4, FS_Union
  <1>6. IsFiniteSet((((({a} \cup {b}) \cup {c}) \cup {d}) \cup {e}) \cup {f})
    BY <1>1, <1>5, FS_Union
  <1>7. {a, b, c, d, e, f} = (((({a} \cup {b}) \cup {c}) \cup {d}) \cup {e}) \cup {f}
    OBVIOUS
  <1>8. /\ {a, b} = {a} \cup {b} /\ {a, b, c} = ({a} \cup {b}) \cup {c}
        /\ {a, b, c, d} = (({a} \cup {b}) \cup {c}) \cup {d}
    OBVIOUS
  <1> QED
    BY <1>2, <1>3, <1>4, <1>6, <1>7, <1>8

\* What account and market are worth.
LEMMA Worth ==
    ASSUME SizingAssumption, AccountTypes
    PROVE  /\ GrossNotional \in Int /\ TotalAssets \in Int
           /\ \A s \in Symbols : /\ price[s] \in Nat \ {0} /\ held[s] \in Nat
                                 /\ sellable[s] \in Nat /\ MarketValue(s) \in Int
  <1>1. \A s \in Symbols : price[s] \in Nat \ {0} /\ held[s] \in Nat /\ sellable[s] \in Nat
    BY DEF AccountTypes, SizingAssumption
  <1>2. GrossNotional \in Int
    BY <1>1, GrossIsInt DEF GrossNotional
  <1>3. TotalAssets \in Int
    BY <1>2 DEF TotalAssets, AccountTypes
  <1>4. \A s \in Symbols : MarketValue(s) \in Int
    BY <1>1 DEF MarketValue
  <1> QED
    BY <1>1, <1>2, <1>3, <1>4

LEMMA DayCapsFacts ==
    ASSUME SizingAssumption, AccountTypes, DayInv, NEW c \in HandOrder
    PROVE  DayCaps(c) \subseteq Int /\ IsFiniteSet(DayCaps(c))
  <1>1. c.limit \in Nat \ {0}
    BY DEF HandOrder, SizingAssumption
  <1>2. /\ MaxOrderNotional \in Int /\ MaxDailySubmitted - submitted \in Int
        /\ MaxDailyFilled - filled \in Int /\ VolumeCap \in Int
    BY DEF SizingAssumption, DayInv
  <1>3. DayCaps(c) \subseteq Int
    BY <1>1, <1>2, AmountPays DEF DayCaps
  <1>4. IsFiniteSet(DayCaps(c))
    BY FewCaps, Zenon DEF DayCaps
  <1> QED
    BY <1>3, <1>4

LEMMA SideCapsFacts ==
    ASSUME SizingAssumption, AccountTypes, NEW c \in HandOrder
    PROVE  /\ BuyCaps(c) \subseteq Int /\ IsFiniteSet(BuyCaps(c))
           /\ SellCaps(c) \subseteq Int /\ IsFiniteSet(SellCaps(c))
  <1>1. /\ c.limit \in Nat \ {0} /\ c.target \in Int /\ c.symbol \in Symbols /\ c.shares \in Nat
        /\ c.weight \in Weights
    BY DEF HandOrder, SizingAssumption
  <1>2. /\ GrossNotional \in Int /\ TotalAssets \in Int /\ MarketValue(c.symbol) \in Int
        /\ held[c.symbol] \in Int /\ sellable[c.symbol] \in Int /\ cash \in Int
    BY <1>1, Worth DEF AccountTypes
  <1>3. Fees("BUY", c.limit, c.shares) \in Int
    BY <1>1, FeesGrow
  <1>4. /\ (c.weight * TotalAssets) \div 100 \in Int /\ (TargetGross * TotalAssets) \div 100 \in Int
        /\ MaxSymbolNotional \in Int /\ MaxGrossNotional \in Int
    <2>1. c.weight \in Int /\ TargetGross \in Int
      <3>1. c.weight \in 0..100 /\ TargetGross \in 0..100
        BY <1>1, Zenon DEF SizingAssumption
      <3> QED
        BY <3>1
    <2>2. c.weight * TotalAssets \in Int /\ TargetGross * TotalAssets \in Int
      BY <1>2, <2>1
    <2>3. MaxSymbolNotional \in Int /\ MaxGrossNotional \in Int
      BY DEF SizingAssumption
    <2> QED
      BY <2>2, <2>3
  <1>5. BuyCaps(c) \subseteq Int
    <2>1. c.target - held[c.symbol] \in Int
      BY <1>1, <1>2
    <2>2. MaxSharesFor((c.weight * TotalAssets) \div 100 - MarketValue(c.symbol), c.limit) \in Int
      BY <1>1, <1>2, <1>4, AmountPays
    <2>3. MaxSharesFor((TargetGross * TotalAssets) \div 100 - GrossNotional, c.limit) \in Int
      BY <1>1, <1>2, <1>4, AmountPays
    <2>4. MaxSharesFor(MaxSymbolNotional - MarketValue(c.symbol), c.limit) \in Int
      BY <1>1, <1>2, <1>4, AmountPays
    <2>5. MaxSharesFor(MaxGrossNotional - GrossNotional, c.limit) \in Int
      BY <1>1, <1>2, <1>4, AmountPays
    <2>6. MaxSharesFor(cash - Fees("BUY", c.limit, c.shares), c.limit) \in Int
      BY <1>1, <1>2, <1>3, AmountPays
    <2> QED
      BY <2>1, <2>2, <2>3, <2>4, <2>5, <2>6 DEF BuyCaps
  <1>6. SellCaps(c) \subseteq Int
    BY <1>1, <1>2 DEF SellCaps
  <1>7. IsFiniteSet(BuyCaps(c))
    BY FewCaps, Zenon DEF BuyCaps
  <1>8. IsFiniteSet(SellCaps(c))
    BY FewCaps, Zenon DEF SellCaps
  <1> QED
    BY <1>5, <1>6, <1>7, <1>8

\* What the gate lets through is within every cap.
LEMMA QuantityFits ==
    ASSUME SizingAssumption, AccountTypes, DayInv, NEW c \in HandOrder
    PROVE  /\ Quantity(c) \in Int
           /\ Quantity(c) > 0 => \A m \in DayCaps(c) : Quantity(c) <= m
           /\ Quantity(c) > 0 /\ c.side = "BUY" => \A m \in BuyCaps(c) : Quantity(c) <= m
           /\ Quantity(c) > 0 /\ c.side = "SELL" => \A m \in SellCaps(c) : Quantity(c) <= m
           /\ \/ Quantity(c) % Unit = 0
              \/ c.side = "SELL" /\ c.target = 0 /\ Quantity(c) = held[c.symbol]
  <1> DEFINE Side == IF c.side = "BUY" THEN BuyCaps(c) ELSE SellCaps(c)
             Caps == {c.shares, c.authorized} \cup DayCaps(c) \cup Side
             least == Min(Caps)
             candidate == Max({0, least})
             clears == c.side = "SELL" /\ candidate = held[c.symbol] /\ c.target = 0
  <1>1. Side \subseteq Int /\ IsFiniteSet(Side)
    BY SideCapsFacts
  <1>2. DayCaps(c) \subseteq Int /\ IsFiniteSet(DayCaps(c))
    BY DayCapsFacts
  <1>3. c.shares \in Int /\ c.authorized \in Int
    BY DEF HandOrder
  <1>4. Caps \subseteq Int /\ Caps # {}
    <2> HIDE DEF Side
    <2> QED
      BY <1>1, <1>2, <1>3
  <1>5. IsFiniteSet(Caps)
    <2>1. IsFiniteSet({c.shares, c.authorized})
      BY FewCaps
    <2> HIDE DEF Side
    <2>2. IsFiniteSet({c.shares, c.authorized} \cup DayCaps(c))
      BY <1>2, <2>1, FS_Union
    <2> QED
      BY <1>1, <2>2, FS_Union
  <1>6. least \in Int /\ \A m \in Caps : least <= m
    <2> HIDE DEF Caps
    <2> QED
      BY <1>4, <1>5, FiniteMin
  <1>7. candidate \in {0, least}
    <2>1. 0 \in Int /\ least \in Int
      BY <1>6
    <2> HIDE DEF least
    <2>2. Max({0, least}) \in {0, least}
      BY <2>1, MaxOfTwo
    <2> QED
      BY <2>2
  <1>8. Quantity(c) = IF clears THEN candidate ELSE Floor(candidate)
    BY DEF Quantity
  <1> HIDE DEF candidate, least, Caps
  <1>9. candidate \in Int
    BY <1>6, <1>7
  <1>10. /\ Floor(candidate) \in Int /\ Floor(candidate) <= candidate
         /\ Floor(candidate) % Unit = 0
    BY <1>9, FloorFacts
  <1>11. Quantity(c) \in Int /\ Quantity(c) <= candidate
    BY <1>8, <1>9, <1>10
  <1>12. Quantity(c) > 0 => Quantity(c) <= least
    BY <1>6, <1>7, <1>11
  <1>13. Quantity(c) > 0 => \A m \in Caps : Quantity(c) <= m
    BY <1>4, <1>6, <1>11, <1>12
  <1>14. DayCaps(c) \subseteq Caps /\ Side \subseteq Caps
    BY DEF Caps
  <1>15. \/ Quantity(c) % Unit = 0
         \/ c.side = "SELL" /\ c.target = 0 /\ Quantity(c) = held[c.symbol]
    BY <1>8, <1>10
  <1> QED
    BY <1>11, <1>13, <1>14, <1>15

LEMMA GateIsInt ==
    ASSUME SizingAssumption, AccountTypes, DayInv, NEW c \in HandOrder
    PROVE  GateShares(c) \in Int
  BY QuantityFits DEF GateShares

\* An order that passes is within what cash, holdings and caps of that moment allow.
LEMMA GateAllows ==
    ASSUME SizingAssumption, AccountTypes, DayInv, NEW c \in HandOrder, QuantityMatches(c)
    PROVE  Allowed(c) /\ submitted + c.shares * c.limit <= MaxDailySubmitted
  <1> DEFINE n == c.shares
             p == c.limit
  <1>1. /\ p \in Nat \ {0} /\ n \in Nat \ {0} /\ c.target \in Int /\ c.symbol \in Symbols
        /\ c.side \in {"BUY", "SELL"}
    BY DEF HandOrder, SizingAssumption
  <1>2. Quantity(c) = n /\ Quantity(c) > 0
    BY DEF QuantityMatches, GateShares
  <1>3. /\ \A m \in DayCaps(c) : n <= m
        /\ c.side = "BUY" => \A m \in BuyCaps(c) : n <= m
        /\ c.side = "SELL" => \A m \in SellCaps(c) : n <= m
        /\ \/ n % Unit = 0
           \/ c.side = "SELL" /\ c.target = 0 /\ n = held[c.symbol]
    BY <1>2, QuantityFits
  <1>4. /\ GrossNotional \in Int /\ held[c.symbol] \in Nat /\ sellable[c.symbol] \in Nat
        /\ cash \in Int
    BY <1>1, Worth DEF AccountTypes
  <1>5. /\ MaxOrderNotional \in Int /\ MaxDailySubmitted \in Int /\ MaxDailyFilled \in Int
        /\ VolumeCap \in Int /\ MaxGrossNotional \in Int /\ submitted \in Int /\ filled \in Int
    BY DEF SizingAssumption, DayInv
  <1>6. /\ n <= MaxSharesFor(MaxOrderNotional, p)
        /\ n <= MaxSharesFor(MaxDailySubmitted - submitted, p)
        /\ n <= MaxSharesFor(MaxDailyFilled - filled, p) /\ n <= VolumeCap
    BY <1>3 DEF DayCaps
  <1>7. n * p \in Int
    BY <1>1
  <1>8. n * p <= MaxOrderNotional
    BY <1>1, <1>5, <1>6, AmountPays
  <1>9. n * p <= MaxDailySubmitted - submitted
    <2> DEFINE x == MaxDailySubmitted - submitted
    <2>1. x \in Int
      BY <1>5
    <2> HIDE DEF n, p
    <2> QED
      BY <1>1, <1>6, <2>1, AmountPays
  <1>10. n * p <= MaxDailyFilled - filled
    <2> DEFINE x == MaxDailyFilled - filled
    <2>1. x \in Int
      BY <1>5
    <2> HIDE DEF n, p
    <2> QED
      BY <1>1, <1>6, <2>1, AmountPays
  <1>11. /\ filled + n * p <= MaxDailyFilled /\ submitted + n * p <= MaxDailySubmitted
    BY <1>5, <1>7, <1>9, <1>10
  <1>12. ASSUME c.side = "BUY"
         PROVE  /\ n * p + Fees("BUY", p, n) <= cash
                /\ held[c.symbol] + n <= c.target
                /\ GrossNotional + n * p <= MaxGrossNotional
    <2> DEFINE x == cash - Fees("BUY", p, n)
               y == MaxGrossNotional - GrossNotional
    <2>1. n <= c.target - held[c.symbol] /\ n <= MaxSharesFor(y, p) /\ n <= MaxSharesFor(x, p)
      BY <1>3, <1>12 DEF BuyCaps
    <2>2. Fees("BUY", p, n) \in Int
      BY <1>1, FeesGrow
    <2>3. x \in Int /\ y \in Int
      BY <1>4, <1>5, <2>2
    <2>4. n * p <= x /\ n * p <= y
      <3> HIDE DEF n, p, x, y
      <3> QED
        BY <1>1, <2>1, <2>3, AmountPays
    <2>5. n * p + Fees("BUY", p, n) <= cash /\ GrossNotional + n * p <= MaxGrossNotional
      <3> DEFINE a == n * p
                 f == Fees("BUY", p, n)
      <3>1. a \in Int /\ a <= cash - f /\ a <= MaxGrossNotional - GrossNotional /\ f \in Int
        BY <1>7, <2>2, <2>4
      <3> HIDE DEF a, f
      <3>2. a + f <= cash /\ GrossNotional + a <= MaxGrossNotional
        BY <1>4, <1>5, <3>1
      <3> QED
        BY <3>2 DEF a, f
    <2>6. held[c.symbol] + n <= c.target
      BY <1>1, <1>4, <2>1
    <2> QED
      BY <2>5, <2>6
  <1>13. ASSUME c.side = "SELL"
         PROVE  n <= sellable[c.symbol] /\ held[c.symbol] - n >= c.target
    <2>1. n <= held[c.symbol] - c.target /\ n <= sellable[c.symbol]
      BY <1>3, <1>13 DEF SellCaps
    <2> QED
      BY <1>1, <1>4, <2>1
  <1> QED
    BY <1>3, <1>6, <1>8, <1>11, <1>12, <1>13 DEF Allowed

-----------------------------------------------------------------------------
(* The plan.                                                               *)

LEMMA DesiredIsInt ==
    ASSUME SizingAssumption, AccountTypes, NEW s \in Symbols
    PROVE  Desired(s) \in Int
  <1> DEFINE x == order[s].weight * TotalAssets
             d == 100 * price[s] * Unit
  <1>1. order[s].weight \in Weights /\ price[s] \in Nat \ {0} /\ TotalAssets \in Int
    BY Worth DEF AccountTypes
  <1>2. order[s].weight \in 0..100 /\ Unit \in Nat \ {0}
    BY <1>1, Zenon DEF SizingAssumption
  <1>3. x \in Int
    BY <1>1, <1>2
  <1>4. d \in Nat \ {0}
    <2>1. 100 * price[s] \in Nat \ {0}
      BY <1>1
    <2> DEFINE e == 100 * price[s]
    <2> HIDE DEF e
    <2>2. e * Unit \in Nat \ {0}
      BY <1>2, <2>1 DEF e
    <2> QED
      BY <2>2 DEF e
  <1>5. Desired(s) = (x \div d) * Unit
    BY DEF Desired
  <1> HIDE DEF x, d
  <1>6. x \div d \in Int
    BY <1>3, <1>4
  <1> QED
    BY <1>2, <1>5, <1>6

LEMMA AuthorizedIsInt ==
    ASSUME SizingAssumption, AccountTypes, NEW s \in Symbols
    PROVE  AuthorizedShares(s) \in Int
  <1> DEFINE more == Desired(s) - held[s]
             less == held[s] - Desired(s)
             reduction == IF order[s].weight = 0 THEN held[s] ELSE Max({0, less})
  <1>1. Desired(s) \in Int /\ held[s] \in Int
    BY DesiredIsInt, Worth
  <1>2. more \in Int /\ less \in Int /\ 0 \in Int
    BY <1>1
  <1>3. Max({0, more}) \in {0, more} /\ Max({0, less}) \in {0, less}
    <2> HIDE DEF more, less
    <2> QED
      BY <1>2, MaxOfTwo
  <1>4. Max({0, more}) \in Int /\ Max({0, less}) \in Int
    BY <1>2, <1>3
  <1>5. AuthorizedShares(s) = IF order[s].side = "BUY" THEN Max({0, more})
                              ELSE IF reduction = held[s] THEN reduction ELSE Floor(reduction)
    BY DEF AuthorizedShares
  <1>6. reduction \in Int
    BY <1>1, <1>4
  <1> HIDE DEF more, less, reduction
  <1>7. Floor(reduction) \in Int
    BY <1>6, FloorFacts
  <1> QED
    BY <1>4, <1>5, <1>6, <1>7

\* An order nothing blocks has something to trade.
LEMMA PlannedIsOrder ==
    ASSUME SizingAssumption, AccountTypes, NEW s \in Symbols, Blocker(s) = None
    PROVE  Planned(s) \in PlannedOrder
  <1>1. AuthorizedShares(s) \in Nat
    <2>1. AuthorizedShares(s) \in Int
      BY AuthorizedIsInt
    <2>2. ~(AuthorizedShares(s) <= 0)
      BY Zenon DEF Blocker, SizingAssumption
    <2> QED
      BY <2>1, <2>2
  <1>2. Desired(s) \in Int
    BY DesiredIsInt
  <1>3. order[s].side \in {"BUY", "SELL"} /\ order[s].weight \in Weights /\ price[s] \in Prices
    BY DEF AccountTypes
  <1> QED
    BY <1>1, <1>2, <1>3 DEF Planned, PlannedOrder

\* The members of a finite set in some order.
LEMMA SeqOfSet ==
    ASSUME NEW S, IsFiniteSet(S)
    PROVE  SetToSeq(S) \in Seq(S)
  <1> DEFINE n == Cardinality(S)
  <1>1. n \in Nat /\ ExistsBijection(1..n, S)
    BY FS_CardinalityType
  <1> HIDE DEF n
  <1>2. PICK f \in Bijection(1..n, S) : TRUE
    BY <1>1 DEF ExistsBijection
  <1>3. f \in [1..n -> S] /\ IsInjective(f)
    BY <1>2 DEF Bijection, Injection, IsInjective
  <1>4. SetToSeq(S) \in [1..n -> S]
    BY <1>3 DEF SetToSeq, n
  <1> QED
    BY <1>1, <1>4

LEMMA PlanIsTyped ==
    ASSUME SizingAssumption, AccountTypes, NEW side
    PROVE  SetToSeq(PlannedOn(side)) \in Seq(PlannedOrder)
  <1> DEFINE D == {x \in Symbols : Blocker(x) = None /\ order[x].side = side}
             g == [s \in D |-> Planned(s)]
             R == PlannedOn(side)
  <1>1. IsFiniteSet(D)
    BY FS_Subset DEF SizingAssumption
  <1>2. g \in Surjection(D, R)
    BY DEF PlannedOn, Surjection
  <1>3. IsFiniteSet(R)
    <2> HIDE DEF D, g, R
    <2> QED
      BY <1>1, <1>2, FS_Surjection
  <1>4. SetToSeq(R) \in Seq(R)
    BY <1>3, SeqOfSet
  <1>5. R \subseteq PlannedOrder
    BY PlannedIsOrder DEF PlannedOn
  <1> QED
    BY <1>4, <1>5

\* The shares an order is sized to.
LEMMA SharesAreNat ==
    ASSUME SizingAssumption, AccountTypes, NEW o \in PlannedOrder
    PROVE  SharesNow(o) \in Nat
  <1>1. /\ o.authorized \in Nat /\ o.symbol \in Symbols /\ o.target \in Int
        /\ o.limit \in Nat \ {0}
    BY DEF PlannedOrder, SizingAssumption
  <1>2. held[o.symbol] \in Nat /\ sellable[o.symbol] \in Nat /\ cash \in Nat
    BY <1>1, Worth DEF AccountTypes
  <1>3. SellShares(o) \in Nat
    <2> DEFINE S == {o.authorized, held[o.symbol], sellable[o.symbol]}
               candidate == Min(S)
    <2>1. S \subseteq Nat /\ S \subseteq Int /\ S # {}
      BY <1>1, <1>2
    <2>2. IsFiniteSet(S)
      BY FewCaps, Zenon
    <2>3. candidate \in S
      <3> HIDE DEF S
      <3> QED
        BY <2>1, <2>2, FiniteMin
    <2>4. candidate \in Nat
      <3> HIDE DEF S, candidate
      <3> QED
        BY <2>1, <2>3
    <2>5. SellShares(o) = IF candidate = held[o.symbol] /\ o.target = 0 THEN candidate
                          ELSE Floor(candidate)
      BY DEF SellShares
    <2> HIDE DEF candidate
    <2>6. Floor(candidate) \in Nat
      BY <2>4, FloorFacts
    <2> QED
      BY <2>4, <2>5, <2>6
  <1>4. BuyShares(o) \in Nat
    <2> DEFINE away == Max({0, o.target - held[o.symbol]})
               least == Min({o.authorized, away})
               gap == Floor(least)
               pays == Max({0, cash}) \div o.limit
               gross == Floor(Min({gap, pays}))
               Fit(n) == n % Unit = 0 /\ (n > 0 => o.limit * n + Fees("BUY", o.limit, n) <= cash)
               S == {n \in 0..gross : Fit(n)}
    <2>1. \A a, b \in Nat : Min({a, b}) \in Nat
      <3> TAKE a, b \in Nat
      <3>1. IsFiniteSet({a, b})
        BY FewCaps, Zenon
      <3>2. {a, b} \subseteq Int /\ {a, b} # {} /\ {a, b} \subseteq Nat
        OBVIOUS
      <3>3. Min({a, b}) \in {a, b}
        BY <3>1, <3>2, FiniteMin
      <3> QED
        BY <3>2, <3>3
    <2>2. \A a \in Int : Max({0, a}) \in Nat
      <3> TAKE a \in Int
      <3>1. 0 \in Int
        OBVIOUS
      <3>2. Max({0, a}) \in {0, a} /\ Max({0, a}) >= 0
        BY <3>1, MaxOfTwo
      <3> QED
        BY <3>2
    <2>3. away \in Nat
      <3>1. o.target - held[o.symbol] \in Int
        BY <1>1, <1>2
      <3> QED
        BY <2>2, <3>1
    <2> HIDE DEF away
    <2>4. least \in Nat
      BY <1>1, <2>1, <2>3
    <2> HIDE DEF least
    <2>5. gap \in Nat
      BY <2>4, FloorFacts
    <2> HIDE DEF gap
    <2>6. pays \in Nat
      <3>1. Max({0, cash}) \in Nat
        BY <1>2, <2>2
      <3> QED
        BY <1>1, <3>1
    <2> HIDE DEF pays
    <2>7. gross \in Nat
      <3>1. Min({gap, pays}) \in Nat
        BY <2>1, <2>5, <2>6
      <3> QED
        BY <3>1, FloorFacts
    <2> HIDE DEF gross
    <2>8. 0 \in S
      <3>1. Unit \in Nat \ {0}
        BY DEF SizingAssumption
      <3> QED
        BY <2>7, <3>1
    <2>9. S \subseteq 0..gross /\ S # {}
      BY <2>8
    <2>10. BuyShares(o) = Max(S)
      BY DEF BuyShares, gross, pays, gap, least, away
    <2> HIDE DEF S
    <2>11. Max(S) \in S
      BY <2>7, <2>9, BoundedMax
    <2>12. Max(S) \in 0..gross
      BY <2>9, <2>11
    <2> QED
      BY <2>7, <2>10, <2>12
  <1> QED
    BY <1>3, <1>4 DEF SharesNow

-----------------------------------------------------------------------------
(* Initial states and steps.                                               *)

LEMMA SizingStarts ==
    ASSUME SizingAssumption, SizingInit
    PROVE  SizingInv
  <1>1. AccountTypes
    <2>1. cash \in Nat /\ held \in [Symbols -> Nat] /\ price \in [Symbols -> Prices]
          /\ order \in [Symbols -> [side : {"BUY", "SELL"}, weight : Weights]]
      <3>1. Cash \subseteq Nat /\ Holdings \subseteq Nat
        BY DEF SizingAssumption
      <3> QED
        BY <3>1 DEF SizingInit
    <2>2. PICK b \in [Symbols -> Bought] : sellable = [s \in Symbols |-> Max({0, held[s] - b[s]})]
      BY DEF SizingInit
    <2>3. ASSUME NEW s \in Symbols
          PROVE  Max({0, held[s] - b[s]}) \in Nat /\ Max({0, held[s] - b[s]}) <= held[s]
      <3> DEFINE x == held[s] - b[s]
      <3>1. held[s] \in Nat /\ b[s] \in Nat
        BY <2>1, <2>2 DEF SizingAssumption
      <3>2. 0 \in Int /\ x \in Int /\ x <= held[s]
        BY <3>1
      <3> HIDE DEF x
      <3>3. Max({0, x}) \in {0, x} /\ Max({0, x}) >= 0
        BY <3>2, MaxOfTwo
      <3>4. Max({0, x}) \in Nat /\ Max({0, x}) <= held[s]
        BY <3>1, <3>2, <3>3
      <3> QED
        BY <3>4 DEF x
    <2>4. sellable \in [Symbols -> Nat]
      BY <2>2, <2>3
    <2>5. \A s \in Symbols : sellable[s] <= held[s]
      BY <2>2, <2>3
    <2> QED
      BY <2>1, <2>4, <2>5 DEF AccountTypes
  <1>2. LoopTypes
    <2>1. plan \in Seq(PlannedOrder)
      BY DEF SizingInit
    <2>2. /\ command = NoCommand /\ facts = "good" /\ shortfall = FALSE
          /\ step \in {None} \cup 0..MaxDisturbances
      BY DEF SizingInit
    <2> QED
      BY <2>1, <2>2 DEF LoopTypes
  <1>3. DayInv
    BY DEF SizingInit, DayInv, SizingAssumption
  <1>4. SentInv
    BY DEF SizingInit, SentInv, NoCommand
  <1> QED
    BY <1>1, <1>2, <1>3, <1>4 DEF SizingInv

LEMMA MakePlanKeeps ==
    ASSUME SizingAssumption, SizingInv, MakePlan
    PROVE  SizingInv'
  <1>1. AccountTypes
    BY DEF SizingInv
  <1>2. UNCHANGED <<cash, held, sellable, price, order, command, submitted, filled, facts,
                    shortfall>>
    BY DEF MakePlan, market, decision, book
  <1>3. plan' \in Seq(PlannedOrder)
    <2>1. SetToSeq(PlannedOn("SELL")) \in Seq(PlannedOrder)
      BY <1>1, PlanIsTyped
    <2>2. SetToSeq(PlannedOn("BUY")) \in Seq(PlannedOrder)
      BY <1>1, PlanIsTyped
    <2>3. plan' = SetToSeq(PlannedOn("SELL")) \o SetToSeq(PlannedOn("BUY"))
      BY DEF MakePlan
    <2> QED
      BY <2>1, <2>2, <2>3, ConcatProperties
  <1>4. AccountTypes'
    BY <1>1, <1>2 DEF AccountTypes
  <1>5. LoopTypes'
    <2>1. step' \in 0..MaxDisturbances
      BY DEF MakePlan, SizingAssumption
    <2>2. /\ command' = NoCommand \/ command' \in HandOrder
          /\ facts' \in {"good", "HALT", "BLOCK", "DELAY"} /\ shortfall' \in BOOLEAN
      BY <1>2 DEF SizingInv, LoopTypes
    <2> QED
      BY <1>3, <2>1, <2>2 DEF LoopTypes
  <1>6. DayInv'
    BY <1>2 DEF SizingInv, DayInv
  <1>7. SentInv'
    BY <1>2 DEF SizingInv, SentInv, Allowed, GrossNotional
  <1> QED
    BY <1>4, <1>5, <1>6, <1>7 DEF SizingInv

LEMMA OrderInHand ==
    ASSUME LoopTypes
    PROVE  /\ command.at = "none" => command = NoCommand
           /\ command.at # "none" => command \in HandOrder
           /\ command.at \in {"none", "sized", "sent", "denied"}
           /\ NoCommand.at = "none"
  BY DEF LoopTypes, NoCommand, HandOrder

LEMMA SizeOrderKeeps ==
    ASSUME SizingAssumption, SizingInv, SizeOrder
    PROVE  SizingInv'
  <1> DEFINE o == Head(plan)
             n == SharesNow(o)
  <1>1. AccountTypes /\ LoopTypes /\ DayInv
    BY DEF SizingInv
  <1>2. UNCHANGED <<cash, held, sellable, price, order, submitted, filled, facts, step>>
    BY DEF SizeOrder, market, decision, book
  <1>3. plan \in Seq(PlannedOrder) /\ plan # <<>> /\ plan' = Tail(plan)
    BY <1>1 DEF SizeOrder, LoopTypes
  <1>4. o \in PlannedOrder /\ plan' \in Seq(PlannedOrder)
    BY <1>3, HeadTailProperties
  <1> HIDE DEF o
  <1>5. n \in Nat
    BY <1>1, <1>4, SharesAreNat
  <1> HIDE DEF n
  <1>6. command = NoCommand
    BY <1>1, OrderInHand DEF SizeOrder
  <1>7. command' = NoCommand \/ (n > 0 /\ command' = [o EXCEPT !.at = "sized", !.shares = n])
    BY <1>6 DEF SizeOrder, o, n
  <1>8. command' = NoCommand \/ (command' \in HandOrder /\ command'.at = "sized")
    <2>1. ASSUME n > 0, command' = [o EXCEPT !.at = "sized", !.shares = n]
          PROVE  command' \in HandOrder /\ command'.at = "sized"
      <3>1. n \in Nat \ {0}
        BY <1>5, <2>1
      <3> QED
        BY <1>4, <2>1, <3>1 DEF PlannedOrder, HandOrder
    <2> QED
      BY <1>7, <2>1
  <1>9. shortfall' \in BOOLEAN
    <2>1. shortfall \in BOOLEAN
      BY <1>1 DEF LoopTypes
    <2>2. shortfall' = shortfall \/ shortfall' = (shortfall \/ o.side = "SELL")
      BY DEF SizeOrder, o
    <2> QED
      BY <2>1, <2>2
  <1>10. AccountTypes'
    BY <1>1, <1>2 DEF AccountTypes
  <1>11. LoopTypes'
    BY <1>1, <1>2, <1>4, <1>8, <1>9 DEF LoopTypes
  <1>12. DayInv'
    BY <1>1, <1>2 DEF DayInv
  <1>13. SentInv'
    BY <1>8 DEF SentInv, NoCommand
  <1> QED
    BY <1>10, <1>11, <1>12, <1>13 DEF SizingInv

\* The look at the account and the send are one step: nothing comes between them.
LEMMA GateKeeps ==
    ASSUME SizingAssumption, SizingInv, Gate
    PROVE  SizingInv'
  <1> DEFINE c == command
  <1>1. AccountTypes /\ LoopTypes /\ DayInv
    BY DEF SizingInv
  <1>2. UNCHANGED <<cash, held, sellable, price, order, plan, filled, facts, step>>
    BY DEF Gate, market, decision
  <1>3. c \in HandOrder
    BY <1>1, OrderInHand DEF Gate
  <1>4. AccountTypes'
    BY <1>1, <1>2 DEF AccountTypes
  <1>5. CASE QuantityMatches(c)
    <2>1. command' = [c EXCEPT !.at = "sent"] /\ submitted' = submitted + c.shares * c.limit
          /\ shortfall' = shortfall
      BY <1>5 DEF Gate
    <2>2. Allowed(c) /\ submitted + c.shares * c.limit <= MaxDailySubmitted
      BY <1>1, <1>3, <1>5, GateAllows
    <2>3. /\ command' \in HandOrder /\ command'.shares = c.shares /\ command'.limit = c.limit
          /\ command'.side = c.side /\ command'.symbol = c.symbol /\ command'.target = c.target
      BY <1>3, <2>1 DEF HandOrder
    <2>4. c.shares * c.limit \in Nat
      <3>1. c.shares \in Nat /\ c.limit \in Nat
        BY <1>3 DEF HandOrder, SizingAssumption
      <3> QED
        BY <3>1
    <2>5. LoopTypes'
      BY <1>1, <1>2, <2>1, <2>3 DEF LoopTypes
    <2> DEFINE a == c.shares * c.limit
    <2> HIDE DEF a
    <2>6. submitted' = submitted + a /\ submitted + a <= MaxDailySubmitted /\ a \in Nat
      BY <2>1, <2>2, <2>4 DEF a
    <2>7. DayInv'
      BY <1>1, <1>2, <2>6 DEF DayInv
    <2>8. filled' + a <= submitted'
      BY <1>1, <1>2, <2>6 DEF DayInv
    <2>9. Allowed(c)'
      <3> HIDE DEF c
      <3>1. GrossNotional' = GrossNotional
        BY <1>2 DEF GrossNotional
      <3> QED
        BY <1>2, <2>2, <2>3, <3>1 DEF Allowed, c
    <2>10. SentInv'
      BY <2>3, <2>8, <2>9 DEF SentInv, a
    <2> QED
      BY <1>4, <2>5, <2>7, <2>10 DEF SizingInv
  <1>6. CASE ~QuantityMatches(c)
    <2>1. command' = [c EXCEPT !.at = "denied", !.gate = GateShares(c)] /\ submitted' = submitted
          /\ shortfall' = IF c.side = "SELL" THEN TRUE ELSE shortfall
      BY <1>6 DEF Gate
    <2>2. GateShares(c) \in Int
      BY <1>1, <1>3, GateIsInt
    <2>3. command' \in HandOrder /\ command'.at = "denied"
      BY <1>3, <2>1, <2>2 DEF HandOrder
    <2>4. shortfall' \in BOOLEAN
      BY <1>1, <2>1 DEF LoopTypes
    <2>5. LoopTypes'
      BY <1>1, <1>2, <2>3, <2>4 DEF LoopTypes
    <2>6. DayInv'
      BY <1>1, <1>2, <2>1 DEF DayInv
    <2>7. SentInv'
      BY <2>3 DEF SentInv
    <2> QED
      BY <1>4, <2>5, <2>6, <2>7 DEF SizingInv
  <1> QED
    BY <1>5, <1>6

\* What a fill does to the account: it is paid for, and nothing is sold short.
LEMMA TradeKeepsAccount ==
    ASSUME SizingAssumption, FeeAssumption, SizingInv,
           NEW n \in 0..command.shares, NEW p \in Prices, Trade(n, p)
    PROVE  AccountTypes'
  <1> DEFINE s == command.symbol
             q == command.limit
             k == command.shares
             fees == IF n = 0 THEN 0 ELSE Fees(command.side, p, n)
  <1>1. AccountTypes /\ LoopTypes /\ command.at = "sent" /\ Allowed(command)
    BY DEF SizingInv, Trade, SentInv
  <1>2. command \in HandOrder
    BY <1>1, OrderInHand
  <1>3. /\ s \in Symbols /\ q \in Nat /\ k \in Nat /\ p \in Nat /\ n \in Nat /\ n <= k
        /\ VolumeCap \in Nat
    <2>1. s \in Symbols /\ command.limit \in Prices /\ k \in Nat
      BY <1>2 DEF HandOrder
    <2>2. q \in Nat /\ p \in Nat /\ VolumeCap \in Nat
      BY <2>1 DEF SizingAssumption
    <2> QED
      BY <2>1, <2>2
  <1>4. /\ cash \in Nat /\ held \in [Symbols -> Nat] /\ sellable \in [Symbols -> Nat]
        /\ \A x \in Symbols : sellable[x] <= held[x]
    BY <1>1 DEF AccountTypes
  <1>5. n * p \in Nat /\ fees \in Nat
    <2>1. n * p \in Nat
      BY <1>3
    <2>2. p <= p /\ n <= n
      BY <1>3
    <2>3. Fees(command.side, p, n) \in Nat
      BY <1>3, <2>2, FeesGrow
    <2> QED
      BY <2>1, <2>3
  <1>6. price' = price /\ order' = order
    BY DEF Trade, decision
  <1>7. CASE command.side = "BUY"
    <2>1. /\ p <= q /\ cash' = cash - n * p - fees
          /\ held' = [held EXCEPT ![s] = held[s] + n] /\ sellable' = sellable
      BY <1>7 DEF Trade
    <2>2. n * p <= k * q /\ k * q \in Nat
      BY <1>3, <2>1, TimesGrows
    <2>3. Fees("BUY", p, n) <= Fees("BUY", q, k) /\ Fees("BUY", q, k) \in Nat
      BY <1>3, <2>1, FeesGrow
    <2>4. fees <= Fees("BUY", q, k)
      BY <1>7, <2>3
    <2>5. k * q + Fees("BUY", q, k) <= cash
      BY <1>1, <1>7 DEF Allowed
    <2>6. cash' \in Nat
      <3> DEFINE a == n * p
                 b == k * q
                 f == Fees("BUY", q, k)
      <3> HIDE DEF a, b, f, fees
      <3>1. /\ a \in Nat /\ b \in Nat /\ f \in Nat /\ fees \in Nat /\ a <= b /\ fees <= f
            /\ b + f <= cash /\ cash' = cash - a - fees
        BY <1>5, <2>1, <2>2, <2>3, <2>4, <2>5 DEF a, b, f
      <3> QED
        BY <1>4, <3>1
    <2>7. held' \in [Symbols -> Nat] /\ \A x \in Symbols : sellable'[x] <= held'[x]
      <3> HIDE DEF s, k
      <3> QED
        BY <1>3, <1>4, <2>1
    <2> QED
      BY <1>1, <1>4, <1>6, <2>1, <2>6, <2>7 DEF AccountTypes
  <1>8. CASE command.side = "SELL"
    <2>1. /\ cash' = cash + n * p - fees
          /\ held' = [held EXCEPT ![s] = held[s] - n]
          /\ sellable' = [sellable EXCEPT ![s] = sellable[s] - n]
      BY <1>8 DEF Trade
    <2>2. k <= VolumeCap /\ k <= sellable[s]
      BY <1>1, <1>8 DEF Allowed
    <2>3. fees <= n * p
      <3>1. CASE n = 0
        BY <1>3, <1>5, <3>1
      <3>2. CASE n # 0
        <4>1. n \in 1..VolumeCap
          BY <1>3, <2>2, <3>2
        <4>2. Fees("SELL", p, n) <= p * n
          BY <4>1 DEF FeeAssumption
        <4>3. p * n = n * p
          BY <1>3
        <4> QED
          BY <1>8, <3>2, <4>2, <4>3
      <3> QED
        BY <3>1, <3>2
    <2>4. cash' \in Nat
      <3> DEFINE a == n * p
      <3> HIDE DEF a, fees
      <3>1. a \in Nat /\ fees \in Nat /\ fees <= a /\ cash' = cash + a - fees
        BY <1>5, <2>1, <2>3 DEF a
      <3> QED
        BY <1>4, <3>1
    <2>5. n <= sellable[s] /\ sellable[s] <= held[s]
      BY <1>3, <1>4, <2>2
    <2>6. /\ held' \in [Symbols -> Nat] /\ sellable' \in [Symbols -> Nat]
          /\ \A x \in Symbols : sellable'[x] <= held'[x]
      <3> HIDE DEF s, k
      <3> QED
        BY <1>3, <1>4, <2>1, <2>5
    <2> QED
      BY <1>1, <1>6, <2>4, <2>6 DEF AccountTypes
  <1> QED
    BY <1>2, <1>7, <1>8 DEF HandOrder

LEMMA TradeKeeps ==
    ASSUME SizingAssumption, FeeAssumption, SizingInv,
           NEW n \in 0..command.shares, NEW p \in Prices, Trade(n, p)
    PROVE  SizingInv'
  <1> DEFINE q == command.limit
             k == command.shares
             a == n * q
             b == k * q
  <1>1. /\ AccountTypes /\ LoopTypes /\ DayInv /\ command.at = "sent" /\ Allowed(command)
        /\ filled + b <= submitted
    BY DEF SizingInv, Trade, SentInv
  <1>2. command \in HandOrder
    BY <1>1, OrderInHand
  <1>3. q \in Nat /\ k \in Nat /\ n \in Nat /\ n <= k
    <2>1. command.limit \in Prices /\ k \in Nat
      BY <1>2 DEF HandOrder
    <2>2. q \in Nat
      BY <2>1 DEF SizingAssumption
    <2> QED
      BY <2>1, <2>2
  <1>4. a \in Nat /\ b \in Nat /\ a <= b
    BY <1>3, TimesGrows
  <1>5. filled + b <= MaxDailyFilled /\ MaxDailyFilled \in Nat /\ MaxDailySubmitted \in Nat
    BY <1>1 DEF Allowed, SizingAssumption
  <1>6. /\ filled' = filled + a /\ submitted' = submitted /\ command' = NoCommand
        /\ UNCHANGED <<plan, facts, step>>
    BY DEF Trade
  <1>7. DayInv'
    <2> HIDE DEF a, b
    <2> QED
      BY <1>1, <1>4, <1>5, <1>6 DEF DayInv
  <1>8. shortfall' \in BOOLEAN
    <2>1. shortfall \in BOOLEAN
      BY <1>1 DEF LoopTypes
    <2>2. shortfall' = shortfall \/ shortfall' = ~(n = command.shares)
      BY DEF Trade
    <2> QED
      BY <2>1, <2>2
  <1>9. LoopTypes'
    BY <1>1, <1>6, <1>8 DEF LoopTypes
  <1>10. SentInv'
    BY <1>6 DEF SentInv, NoCommand
  <1> QED
    BY <1>7, <1>9, <1>10, TradeKeepsAccount DEF SizingInv

LEMMA DismissKeeps ==
    ASSUME SizingInv, Dismiss
    PROVE  SizingInv'
  <1>1. /\ UNCHANGED <<cash, held, sellable, price, order, plan, submitted, filled, facts,
                       shortfall, step>>
        /\ command' = NoCommand
    BY DEF Dismiss, market, decision, book
  <1>2. AccountTypes'
    BY <1>1 DEF SizingInv, AccountTypes
  <1>3. LoopTypes'
    BY <1>1 DEF SizingInv, LoopTypes
  <1>4. DayInv'
    BY <1>1 DEF SizingInv, DayInv
  <1>5. SentInv'
    BY <1>1 DEF SentInv, NoCommand
  <1> QED
    BY <1>2, <1>3, <1>4, <1>5 DEF SizingInv

\* A disturbance never finds an order between the gate and the broker.
LEMMA DisturbKeeps ==
    ASSUME SizingAssumption, SizingInv, Disturb, AccountTypes',
           facts' \in {"good", "HALT", "BLOCK", "DELAY"}
    PROVE  SizingInv'
  <1>1. LoopTypes /\ DayInv
    BY DEF SizingInv
  <1>2. /\ UNCHANGED <<plan, command, submitted, filled, shortfall>>
        /\ command.at # "sent" /\ step' = step + 1 /\ step # None /\ step < MaxDisturbances
    BY DEF Disturb, decision, book
  <1>3. step' \in 0..MaxDisturbances
    <2>1. step \in 0..MaxDisturbances /\ MaxDisturbances \in Nat
      BY <1>1, <1>2 DEF LoopTypes, SizingAssumption
    <2> QED
      BY <1>2, <2>1
  <1>4. LoopTypes'
    BY <1>1, <1>2, <1>3 DEF LoopTypes
  <1>5. DayInv'
    BY <1>1, <1>2 DEF DayInv
  <1>6. SentInv'
    BY <1>2 DEF SentInv
  <1> QED
    BY <1>4, <1>5, <1>6 DEF SizingInv

LEMMA OutsideKeeps ==
    ASSUME SizingAssumption, SizingInv,
           \/ Withdraw
           \/ \E s \in Symbols, p \in Prices : PriceMoves(s, p)
           \/ \E s \in Symbols, n \in {-1, 1} : TradeByHand(s, n)
           \/ \E f \in {"good", "HALT", "BLOCK", "DELAY"} : FactsChange(f)
    PROVE  SizingInv'
  <1>1. AccountTypes /\ facts \in {"good", "HALT", "BLOCK", "DELAY"}
    BY DEF SizingInv, LoopTypes
  <1>2. CASE Withdraw
    <2>1. Disturb /\ cash > 0 /\ cash' = cash - 1 /\ UNCHANGED <<held, sellable, price, facts>>
      BY <1>2 DEF Withdraw, market
    <2>2. order' = order
      BY <2>1 DEF Disturb, decision
    <2>3. cash' \in Nat
      BY <1>1, <2>1 DEF AccountTypes
    <2>4. AccountTypes'
      BY <1>1, <2>1, <2>2, <2>3 DEF AccountTypes
    <2> QED
      BY <1>1, <2>1, <2>4, DisturbKeeps
  <1>3. CASE \E s \in Symbols, p \in Prices : PriceMoves(s, p)
    <2>1. PICK s \in Symbols, p \in Prices : PriceMoves(s, p)
      BY <1>3
    <2>2. Disturb /\ price' = [price EXCEPT ![s] = p] /\ UNCHANGED <<cash, held, sellable, facts>>
      BY <2>1 DEF PriceMoves
    <2>3. order' = order
      BY <2>2 DEF Disturb, decision
    <2>4. AccountTypes'
      BY <1>1, <2>2, <2>3 DEF AccountTypes
    <2> QED
      BY <1>1, <2>2, <2>4, DisturbKeeps
  <1>4. CASE \E s \in Symbols, n \in {-1, 1} : TradeByHand(s, n)
    <2>1. PICK s \in Symbols, n \in {-1, 1} : TradeByHand(s, n)
      BY <1>4
    <2>2. /\ Disturb /\ sellable[s] + n >= 0
          /\ held' = [held EXCEPT ![s] = held[s] + n]
          /\ sellable' = [sellable EXCEPT ![s] = IF n < 0 THEN sellable[s] + n ELSE sellable[s]]
          /\ UNCHANGED <<cash, price, facts>>
      BY <2>1 DEF TradeByHand
    <2>3. order' = order
      BY <2>2 DEF Disturb, decision
    <2>4. /\ held \in [Symbols -> Nat] /\ sellable \in [Symbols -> Nat]
          /\ \A x \in Symbols : sellable[x] <= held[x]
      BY <1>1 DEF AccountTypes
    <2>5. /\ held' \in [Symbols -> Nat] /\ sellable' \in [Symbols -> Nat]
          /\ \A x \in Symbols : sellable'[x] <= held'[x]
      <3>1. CASE n = 1
        BY <2>2, <2>4, <3>1
      <3>2. CASE n = -1
        <4>1. sellable[s] \in Nat /\ sellable[s] >= 1 /\ held[s] \in Nat /\ held[s] >= 1
          BY <2>2, <2>4, <3>2
        <4> QED
          BY <2>2, <2>4, <3>2, <4>1
      <3> QED
        BY <3>1, <3>2
    <2>6. AccountTypes'
      BY <1>1, <2>2, <2>3, <2>5 DEF AccountTypes
    <2> QED
      BY <1>1, <2>2, <2>6, DisturbKeeps
  <1>5. CASE \E f \in {"good", "HALT", "BLOCK", "DELAY"} : FactsChange(f)
    <2>1. Disturb /\ facts' \in {"good", "HALT", "BLOCK", "DELAY"}
          /\ UNCHANGED <<cash, held, sellable, price>>
      BY <1>5 DEF FactsChange, market
    <2>2. order' = order
      BY <2>1 DEF Disturb, decision
    <2>3. AccountTypes'
      BY <1>1, <2>1, <2>2 DEF AccountTypes
    <2> QED
      BY <2>1, <2>3, DisturbKeeps
  <1> QED
    BY <1>2, <1>3, <1>4, <1>5

LEMMA SizingStutters ==
    ASSUME SizingInv, UNCHANGED sizingVars
    PROVE  SizingInv'
  <1>1. UNCHANGED <<cash, held, sellable, price, order, plan, command, submitted, filled, facts,
                    shortfall, step>>
    BY DEF sizingVars, market, decision, book
  <1>2. AccountTypes'
    BY <1>1 DEF SizingInv, AccountTypes
  <1>3. LoopTypes'
    BY <1>1 DEF SizingInv, LoopTypes
  <1>4. DayInv'
    BY <1>1 DEF SizingInv, DayInv
  <1>5. SentInv'
    BY <1>1 DEF SizingInv, SentInv, Allowed, GrossNotional
  <1> QED
    BY <1>2, <1>3, <1>4, <1>5 DEF SizingInv

\* What the gate allowed when it let an order through still holds of that order at the broker,
\* in every reachable state (risk/gate.py, risk/capability.py).
THEOREM SizingInvariant ==
    ASSUME SizingAssumption, FeeAssumption
    PROVE  SizingSpec => []SizingInv
  <1>1. SizingInit => SizingInv
    BY SizingStarts
  <1>2. SizingInv /\ [SizingNext]_sizingVars => SizingInv'
    BY MakePlanKeeps, SizeOrderKeeps, GateKeeps, TradeKeeps, DismissKeeps, OutsideKeeps,
       SizingStutters DEF SizingNext
  <1> QED
    BY <1>1, <1>2, PTL DEF SizingSpec

LEMMA LimitsFollow ==
    ASSUME SizingAssumption, SizingInv
    PROVE  LimitsHold
  <1>1. AccountTypes /\ LoopTypes /\ DayInv /\ SentInv
    BY DEF SizingInv
  <1>2. SizingTypeOK
    <2>1. \A s \in Symbols : held[s] \in Nat /\ sellable[s] \in 0..held[s]
      BY <1>1 DEF AccountTypes
    <2>2. submitted \in Nat /\ filled \in 0..submitted
      BY <1>1 DEF DayInv
    <2>3. command.at \in {"none", "sized", "sent", "denied"}
      BY <1>1, OrderInHand
    <2> QED
      BY <1>1, <2>1, <2>2, <2>3 DEF AccountTypes, LoopTypes, SizingTypeOK
  <1>3. NoOverdraft
    BY <1>1 DEF AccountTypes, NoOverdraft
  <1>4. CapsHold
    BY <1>1 DEF DayInv, SentInv, Allowed, CapsHold
  <1>5. WholeUnits
    BY <1>1 DEF SentInv, Allowed, WholeUnits
  <1>6. NeverPastTarget
    <2>1. command.at = "sent" => command.side \in {"BUY", "SELL"}
      BY <1>1, OrderInHand DEF HandOrder
    <2> QED
      BY <1>1, <2>1 DEF SentInv, Allowed, NeverPastTarget
  <1> QED
    BY <1>2, <1>3, <1>4, <1>5, <1>6 DEF LimitsHold

\* However cash, prices and holdings moved since an order was sized, for every number of symbols,
\* every trading unit, every fee schedule under which a sale pays its own fees and every cap:
\* bought shares are paid for, the caps on order, day and account hold over all orders of the
\* plan, orders are for whole units unless they sell out, and none goes past its target
\* (execution/controller.py, risk/gate.py).
THEOREM LimitsStayKept ==
    ASSUME SizingAssumption, FeeAssumption
    PROVE  SizingSpec => []LimitsHold
  <1>1. SizingInv => LimitsHold
    BY LimitsFollow
  <1> QED
    BY <1>1, SizingInvariant, PTL

=============================================================================
