------------------------- MODULE CloseSessionProofs -------------------------
(***************************************************************************)
(* Proofs about CloseSession for every number of sessions, broker facts    *)
(* and operation rows, and in every mode.  The first theorems hold with    *)
(* foreign edits of the account file, the others assume there are none:    *)
(* an edit may take away a decision that the checkpoints record.           *)
(***************************************************************************)
EXTENDS CloseSession, TLAPS

-----------------------------------------------------------------------------
(* The inductive invariant.                                                *)

InHand == {"begun", "saved", "staged"}
AccountStep == {"capture", "reconcile"} \cup InHand
Outside == {"down", "recover", "startup"}

\* _close_session is on the stack.
Closing ==
    \/ pc \in {"close", "eod", "canary", "steps", "decide", "frozen", "decided"}
    \/ pc \in AccountStep /\ job \in {"EOD", "DECISION"}

\* Account operations: at most one is open, and who may leave it open.
SettledInv ==
    /\ \A i, j \in Open : i = j
    /\ pc \in InHand => op \in Open
    /\ pc = "recover" => todo \subseteq Open /\ (blocked = TRUE \/ Open \subseteq todo)
    /\ pc \notin {"down", "recover"} \cup InHand => Open = {}

\* Checkpoint chains: at most one is incomplete, and the close session in
\* progress is the one that extends it.
ChainInv ==
    /\ \A s, t \in Incomplete : s = t
    /\ Closing => \A s \in Incomplete : s = sess
    /\ ~Closing /\ pc \notin Outside => Incomplete = {}
    /\ pc \in AccountStep => job # "NONE"
    /\ pc \in {"capture", "reconcile"} => job # "DECISION"
    /\ pc = "close" => cp[sess] < COMPLETED
    /\ pc = "eod" \/ (pc \in AccountStep /\ job = "EOD") => cp[sess] \in {0, 2}
    /\ pc \in {"canary", "steps"} => cp[sess] \in 1..5
    /\ pc \in {"decide", "frozen", "decided"} \/ (pc \in InHand /\ job = "DECISION")
           => cp[sess] = 2

IInv == TypeOK /\ SettledInv /\ ChainInv

\* Without foreign edits, what an open row says of the file.
RowInv(i) ==
    /\ ops[i].stage \in {"PREPARED", "FILE_COMMITTED"}
    /\ file \in {ops[i].before, ops[i].after}
    /\ ops[i].stage = "FILE_COMMITTED" => file = ops[i].after
    /\ ops[i].before # ops[i].after
    /\ IF ops[i].kind = "BROKER_SYNC"
       THEN ops[i].after = [ops[i].before EXCEPT !.facts = ops[i].after.facts]
       ELSE \E s \in Sessions :
               /\ dsnap[s] # NotDecided
               /\ ops[i].before = dsnap[s].before /\ ops[i].after = dsnap[s].after

AccountInv ==
    /\ \A i \in Open : RowInv(i)
    /\ pc = "begun" => file = ops[op].before /\ ops[op].stage = "PREPARED"
    /\ pc \in {"saved", "staged"} => file = ops[op].after
    /\ pc = "staged" => ops[op].stage = "FILE_COMMITTED"
    /\ pc = "frozen" => dsnap[sess] # NotDecided
    /\ \A s \in Sessions : dsnap[s] # NotDecided => dsnap[s].before # dsnap[s].after

\* Without foreign edits, decisions against checkpoints, account and calendar.
Reached(s) == s < day \/ (s = day /\ phase = "closed")

Executing == pc \in {"plan", "execute"} \/ (pc \in AccountStep /\ job = "INTRADAY")

DecisionInv ==
    /\ \A s \in Sessions :
         /\ cp[s] > 0 => Reached(s)
         /\ dsnap[s] # NotDecided => cp[s] >= 2 /\ dsnap[s].after.dec = s
         /\ cp[s] >= 3 => dsnap[s] # NotDecided
         /\ cp[s] \in 3..5 => file = dsnap[s].after
         /\ cp[s] = COMPLETED => file.dec >= s
         /\ s \in Incomplete => \A t \in Sessions : t > s => cp[t] = 0
    /\ file.dec > 0 => dsnap[file.dec] # NotDecided
    /\ Closing => Reached(sess) /\ \A t \in Sessions : t > sess => cp[t] = 0
    /\ pc = "decided" => file = dsnap[sess].after /\ dsnap[sess] # NotDecided
    /\ pc \in InHand /\ job = "DECISION" =>
           dsnap[sess] # NotDecided /\ ops[op].after = dsnap[sess].after
    /\ pc \in InHand /\ job # "DECISION" => ops[op].kind = "BROKER_SYNC"
    /\ Executing => /\ file.dec >= sess - 1
                    /\ \A t \in Sessions : t >= sess => cp[t] = 0

ClosedInv == IInv /\ AccountInv /\ DecisionInv

-----------------------------------------------------------------------------
(* Constants, rows and account states.                                     *)

\* The bounds leave at least one operation row and one trading session.
LEMMA Constants ==
    /\ MaxOps \in Nat /\ MaxDay \in Nat /\ MaxFacts \in Nat
    /\ 1 \in OpId /\ 1 \in Sessions /\ 0 \in 0..MaxFacts /\ 0 \in 0..MaxDay
    /\ OpId \subseteq Nat /\ Sessions \subseteq Nat
  BY MaxOpsAssumption, BoundsAssumption DEF OpId, Sessions

\* The initial account, an absent row and an absent decision are well formed.
LEMMA Blank ==
    /\ [facts |-> 0, dec |-> 0] \in Account
    /\ NoRow \in Row
    /\ NotDecided \in [before : Account, after : Account]
  <1>1. [facts |-> 0, dec |-> 0] \in Account
    BY Constants DEF Account
  <1>. QED  BY <1>1 DEF NoRow, Row, NotDecided

\* An account state is the record of its broker facts and its last decision;
\* a broker sync replaces the first and a decision the second.
LEMMA AccountShape ==
    \A a \in Account :
        /\ a.facts \in 0..MaxFacts /\ a.dec \in 0..MaxDay /\ a.dec \in Nat
        /\ a = [facts |-> a.facts, dec |-> a.dec]
        /\ \A v \in 0..MaxFacts :
              /\ [a EXCEPT !.facts = v] = [facts |-> v, dec |-> a.dec]
              /\ [facts |-> v, dec |-> a.dec] \in Account
        /\ \A d \in Sessions :
              /\ [a EXCEPT !.dec = d] = [facts |-> a.facts, dec |-> d]
              /\ [facts |-> a.facts, dec |-> d] \in Account
  BY Constants DEF Account, Sessions

Stage == {"NONE", "PREPARED", "FILE_COMMITTED", "CONTRADICTION"}
Kind == {"NONE", "BROKER_SYNC", "DECISION_COMMIT", "DECISION_RECOVERY"}

\* A row of account_operations is the record of its four columns.
LEMMA RowShape ==
    \A r \in Row : /\ r.kind \in Kind /\ r.stage \in Stage
                   /\ r.before \in Account /\ r.after \in Account
                   /\ r = [kind |-> r.kind, stage |-> r.stage,
                           before |-> r.before, after |-> r.after]
  BY DEF Row, Kind, Stage

\* An UPDATE of the stage column changes one row and nothing else of it.
LEMMA SetStage ==
    ASSUME AccountType, NEW i \in OpId, NEW st \in Stage \ {"NONE"}
    PROVE  /\ [ops EXCEPT ![i].stage = st] \in [OpId -> Row]
           /\ [ops EXCEPT ![i].stage = st][i].stage = st
           /\ [ops EXCEPT ![i].stage = st][i] = [kind |-> ops[i].kind, stage |-> st,
                                                 before |-> ops[i].before,
                                                 after |-> ops[i].after]
           /\ \A j \in OpId : j # i => [ops EXCEPT ![i].stage = st][j] = ops[j]
  <1>1. ops[i] \in Row /\ ops \in [OpId -> Row]
    BY DEF AccountType
  <1>2. [ops[i] EXCEPT !.stage = st] = [kind |-> ops[i].kind, stage |-> st,
                                        before |-> ops[i].before, after |-> ops[i].after]
    BY <1>1, RowShape DEF Row
  <1>3. [kind |-> ops[i].kind, stage |-> st,
         before |-> ops[i].before, after |-> ops[i].after] \in Row
    BY <1>1, RowShape DEF Row, Stage, Kind
  <1>4. [ops EXCEPT ![i].stage = st] = [ops EXCEPT ![i] = [ops[i] EXCEPT !.stage = st]]
    BY <1>1
  <1>. QED  BY <1>1, <1>2, <1>3, <1>4

\* AccountOperation.begin adds one open row.
LEMMA OpenOfBegin ==
    ASSUME AccountType, NEW i \in OpId, NEW k \in Kind \ {"NONE"},
           NEW b \in Account, NEW a \in Account,
           Begin(i, k, b, a)
    PROVE  AccountType' /\ Open' = Open \cup {i}
  <1> DEFINE r == [kind |-> k, stage |-> "PREPARED", before |-> b, after |-> a]
  <1>1. r \in Row /\ r # NoRow
    BY DEF Row, NoRow, Kind
  <1>2. ops' = [ops EXCEPT ![i] = r] /\ UNCHANGED <<file, certified>>
    BY DEF Begin
  <1>. HIDE DEF r
  <1>3. AccountType'
    BY <1>1, <1>2 DEF AccountType
  <1>4. Open' = Open \cup {i}
    BY <1>1, <1>2 DEF Open, AccountType
  <1>. QED  BY <1>3, <1>4

\* A stage update (FILE_COMMITTED, CONTRADICTION) opens and settles no row.
LEMMA OpenOfStage ==
    ASSUME AccountType, NEW i \in OpId, NEW st \in Stage \ {"NONE"}, i \in Open,
           ops' = [ops EXCEPT ![i].stage = st], UNCHANGED <<file, certified>>
    PROVE  AccountType' /\ Open' = Open
  <1>1. AccountType'
    BY SetStage DEF AccountType
  <1>2. ops'[i].stage = st /\ \A j \in OpId : j # i => ops'[j] = ops[j]
    BY SetStage
  <1>3. ops'[i] # NoRow
    BY <1>2 DEF NoRow, Stage
  <1>4. \A j \in OpId : ops'[j] # NoRow <=> ops[j] # NoRow
    BY <1>2, <1>3 DEF Open
  <1>. QED  BY <1>1, <1>4 DEF Open

\* A row at RECEIPT_COMMITTED leaves the set of open rows.
LEMMA OpenOfClose ==
    ASSUME AccountType, NEW i \in OpId, ops' = [ops EXCEPT ![i] = NoRow]
    PROVE  ops' \in [OpId -> Row] /\ Open' = Open \ {i}
  BY Blank DEF Open, AccountType

\* commit_receipt settles exactly its own row.
LEMMA OpenOfFinalize ==
    ASSUME AccountType, NEW i \in OpId, Finalize(i)
    PROVE  AccountType' /\ Open' = Open \ {i}
  <1>1. ops' = [ops EXCEPT ![i] = NoRow] /\ file' = file
    BY DEF Finalize
  <1>2. certified' \subseteq Account
    <2>1. ops[i].after \in Account
      BY RowShape DEF AccountType
    <2>. QED  BY <2>1 DEF Finalize, AccountType
  <1>. QED  BY <1>1, <1>2, OpenOfClose DEF AccountType

\* _recover_accounts settles the row it visits or leaves every row open.
LEMMA OpenOfRecovery ==
    ASSUME AccountType, NEW i \in OpId, i \in Open
    PROVE  /\ RecoverSettled(i) => AccountType' /\ Open' = Open \ {i}
           /\ RecoverKept(i) => AccountType' /\ Open' = Open
           /\ RecoverUnfinalized(i) => AccountType' /\ Open' = Open
  <1>1. ASSUME RecoverSettled(i) PROVE AccountType' /\ Open' = Open \ {i}
    <2>1. CASE Finalize(i)
      BY <2>1, OpenOfFinalize
    <2>2. CASE ops' = [ops EXCEPT ![i] = NoRow] /\ UNCHANGED <<file, certified>>
      BY <2>2, OpenOfClose DEF AccountType
    <2>. QED  BY <1>1, <2>1, <2>2 DEF RecoverSettled
  <1>2. ASSUME MarkContradiction(i) \/ StageFile(i) PROVE AccountType' /\ Open' = Open
    BY <1>2, OpenOfStage DEF MarkContradiction, StageFile, Stage
  <1>3. ASSUME RecoverKept(i) PROVE AccountType' /\ Open' = Open
    <2>1. CASE UNCHANGED accountVars
      BY <2>1 DEF accountVars, AccountType, Open
    <2>. QED  BY <1>2, <1>3, <2>1 DEF RecoverKept
  <1>. QED  BY <1>1, <1>2, <1>3 DEF RecoverUnfinalized

\* AccountOperation.begin writes the row it was asked for and no other.
LEMMA RowOfBegin ==
    ASSUME AccountType, NEW i \in OpId, NEW k, NEW b, NEW a, Begin(i, k, b, a)
    PROVE  /\ ops'[i] = [kind |-> k, stage |-> "PREPARED", before |-> b, after |-> a]
           /\ \A j \in OpId : j # i => ops'[j] = ops[j]
           /\ file' = file /\ certified' = certified
  BY DEF Begin, AccountType

-----------------------------------------------------------------------------
(* Initial states.                                                         *)

\* The daemon's first start finds well-formed durable state.
LEMMA InitialType == Init => TypeOK
  <1>1. Init => AccountType
    BY Blank DEF Init, AccountType
  <1>2. Init => CloseType
    BY Blank DEF Init, CloseType, COMPLETED
  <1>3. Init => WorldType
    BY Constants DEF Init, WorldType
  <1>4. Init => CallType
    BY Constants DEF Init, CallType
  <1>5. Init => FlagType
    BY Zenon DEF Init, FlagType
  <1>. QED  BY <1>1, <1>2, <1>3, <1>4, <1>5 DEF TypeOK

\* On the first start nothing is open, incomplete or decided.
LEMMA Initial == Init => SettledInv /\ ChainInv /\ AccountInv /\ DecisionInv
  <1>. SUFFICES ASSUME Init PROVE SettledInv /\ ChainInv /\ AccountInv /\ DecisionInv
    OBVIOUS
  <1>1. Open = {} /\ Incomplete = {} /\ pc = "down"
    BY DEF Init, Open, Incomplete
  <1>2. \A s \in Sessions : cp[s] = 0 /\ dsnap[s] = NotDecided
    BY DEF Init
  <1>3. file.dec = 0
    BY DEF Init
  <1>4. SettledInv
    BY <1>1 DEF SettledInv, InHand
  <1>5. ChainInv
    BY <1>1 DEF ChainInv, Closing, AccountStep, InHand, Outside
  <1>6. AccountInv
    BY <1>1, <1>2 DEF AccountInv
  <1>7. DecisionInv
    BY <1>1, <1>2, <1>3 DEF DecisionInv, Closing, Executing, AccountStep, InHand, COMPLETED
  <1>. QED  BY <1>4, <1>5, <1>6, <1>7

-----------------------------------------------------------------------------
(* Type correctness.                                                       *)

\* Steps that touch neither the account, its operations nor the decisions.
Quiet ==
    \/ FactsChange \/ MarketCloses \/ NextDay \/ Start \/ RecoverDone \/ Startup \/ Capture
    \/ ExecuteBegin \/ ExecutePlan \/ ExecuteDone
    \/ CloseBegin \/ CloseEod \/ CloseEodDone \/ CloseCanary \/ CloseData \/ CloseReconcileAgain
    \/ CloseDecided \/ CloseFinish \/ Disarm \/ Crash \/ StepFails

\* All other steps leave the account, its operations and the decisions alone.
LEMMA QuietSteps == Quiet => UNCHANGED <<accountVars, dsnap>>
  <1>. USE DEF closeVars, Checkpoint
  <1>1. FactsChange \/ MarketCloses \/ NextDay => UNCHANGED <<accountVars, dsnap>>
    BY DEF FactsChange, MarketCloses, NextDay
  <1>2. Start \/ RecoverDone \/ Startup \/ Capture => UNCHANGED <<accountVars, dsnap>>
    BY DEF Start, RecoverDone, Startup, Capture
  <1>3. ExecuteBegin \/ ExecutePlan \/ ExecuteDone => UNCHANGED <<accountVars, dsnap>>
    BY DEF ExecuteBegin, ExecutePlan, ExecuteDone
  <1>4. CloseBegin \/ CloseEod \/ CloseEodDone \/ CloseCanary =>
            UNCHANGED <<accountVars, dsnap>>
    BY DEF CloseBegin, CloseEod, CloseEodDone, CloseCanary
  <1>5. CloseData \/ CloseReconcileAgain \/ CloseDecided \/ CloseFinish
           => UNCHANGED <<accountVars, dsnap>>
    BY DEF CloseData, CloseReconcileAgain, CloseDecided, CloseFinish
  <1>6. Disarm \/ Crash \/ StepFails => UNCHANGED <<accountVars, dsnap>>
    BY DEF Disarm, Crash, StepFails
  <1>. QED  BY <1>1, <1>2, <1>3, <1>4, <1>5, <1>6 DEF Quiet

\* Beginning an operation keeps the account tables well formed.
LEMMA AccountTypeOfBegin ==
    ASSUME TypeOK, NEW k \in Kind \ {"NONE"}, NEW b \in Account, NEW a \in Account,
           BeginCommit(k, b, a)
    PROVE  AccountType'
  BY OpenOfBegin DEF BeginCommit, TypeOK

\* So does each later stage of an operation.
LEMMA AccountTypeOfCommit ==
    ASSUME TypeOK, SettledInv, CommitSave \/ CommitStage \/ CommitReceipt
    PROVE  AccountType'
  <1>1. AccountType /\ op \in OpId /\ op \in Open /\ ops[op] \in Row
    BY DEF TypeOK, AccountType, CallType, SettledInv, InHand, CommitSave, CommitStage,
       CommitReceipt
  <1>2. CASE SaveFile(op)
    BY <1>1, <1>2, RowShape DEF SaveFile, AccountType
  <1>3. CASE StageFile(op) \/ MarkContradiction(op)
    BY <1>1, <1>3, OpenOfStage DEF StageFile, MarkContradiction, Stage
  <1>4. CASE Finalize(op)
    BY <1>1, <1>4, OpenOfFinalize
  <1>. QED  BY <1>2, <1>3, <1>4 DEF CommitSave, CommitStage, CommitReceipt, Contradiction

\* So does recovery.
LEMMA AccountTypeOfRecovery ==
    ASSUME TypeOK, SettledInv, RecoverOperation \/ FinalizationFails
    PROVE  AccountType'
  <1>1. PICK i \in todo : RecoverSettled(i) \/ RecoverKept(i) \/ RecoverUnfinalized(i)
    BY DEF RecoverOperation, FinalizationFails
  <1>2. AccountType /\ i \in OpId /\ i \in Open
    BY DEF TypeOK, CallType, SettledInv, RecoverOperation, FinalizationFails
  <1>. QED  BY <1>1, <1>2, OpenOfRecovery

\* Every step keeps the account file and its operations well formed.
LEMMA AccountTypePreserved ==
    ASSUME TypeOK, SettledInv, [Next]_vars
    PROVE  AccountType'
  <1>1. CASE RecoverOperation \/ FinalizationFails
    BY <1>1, AccountTypeOfRecovery
  <1>2. CASE CommitSave \/ CommitStage \/ CommitReceipt
    BY <1>2, AccountTypeOfCommit
  <1>3. CASE ReconcileBegin
    <2>1. file \in Account /\ [file EXCEPT !.facts = snap.facts] \in Account
      BY AccountShape DEF TypeOK, AccountType, CallType
    <2>. QED  BY <1>3, <2>1, AccountTypeOfBegin DEF ReconcileBegin, Kind
  <1>4. CASE CommitDecision \/ RecoverDecision
    <2>1. dsnap[sess].before \in Account /\ dsnap[sess].after \in Account
      BY DEF TypeOK, CloseType, CallType
    <2>2. CASE UNCHANGED accountVars
      BY <2>2 DEF accountVars, TypeOK, AccountType
    <2>. QED  BY <1>4, <2>1, <2>2, AccountTypeOfBegin DEF CommitDecision,
       RecoverDecision, Kind
  <1>5. CASE ReconcileNoChange \/ Resume
    BY <1>5 DEF ReconcileNoChange, Resume, TypeOK, AccountType
  <1>6. CASE ForeignEdit
    BY <1>6, Blank DEF ForeignEdit, TypeOK, AccountType
  <1>7. ASSUME UNCHANGED accountVars PROVE AccountType'
    BY <1>7 DEF accountVars, TypeOK, AccountType
  <1>8. CASE Quiet \/ Decide
    BY <1>7, <1>8, QuietSteps DEF Decide
  <1>9. CASE UNCHANGED vars
    BY <1>7, <1>9 DEF vars
  <1>. QED  BY <1>1, <1>2, <1>3, <1>4, <1>5, <1>6, <1>8, <1>9
             DEF Next, World, Daemon, Failures, Quiet

\* The calendar stays within the sessions.
LEMMA NextDayWorld ==
    ASSUME TypeOK, ChainInv, NextDay
    PROVE  WorldType'
  BY Constants DEF TypeOK, WorldType, NextDay, Sessions

\* startup resumes a session of the calendar.
LEMMA StartupCall ==
    ASSUME TypeOK, ChainInv, Startup
    PROVE  CallType'
  BY Constants DEF TypeOK, CallType, Startup, Incomplete, accountVars, closeVars, worldVars

\* The EOD_RECONCILED checkpoint leaves well-formed chains.
LEMMA EodCheckpoint ==
    ASSUME TypeOK, ChainInv, CloseEodDone
    PROVE  CloseType'
  <1>1. cp' \in [Sessions -> 0..COMPLETED]
    BY DEF TypeOK, CallType, CloseType, CloseEodDone, Checkpoint, closeVars, COMPLETED
  <1>. QED  BY <1>1 DEF TypeOK, CloseType, CloseEodDone, Checkpoint, closeVars

\* decide_once stores a well-formed DecisionSnapshot.
LEMMA DecideSnapshot ==
    ASSUME TypeOK, ChainInv, Decide
    PROVE  CloseType'
  <1>1. [before |-> file, after |-> [file EXCEPT !.dec = sess]] \in
            [before : Account, after : Account]
    BY AccountShape DEF TypeOK, AccountType, CallType
  <1>. QED  BY <1>1 DEF TypeOK, CloseType, CallType, Decide, COMPLETED

\* A process that ends leaves no call in progress.
LEMMA ForgetType ==
    Forget => /\ op' \in OpId /\ sess' \in Sessions /\ todo' \subseteq OpId
              /\ snap' \in [facts : 0..MaxFacts, day : Sessions]
  BY Constants DEF Forget

\* Every step keeps calendar and broker facts within their bounds.
LEMMA WorldTypePreserved ==
    ASSUME TypeOK, ChainInv, [Next]_vars
    PROVE  WorldType'
  <1>. USE Constants DEF accountVars, closeVars, worldVars, callVars, Stay, Halt,
     Forget, TypeOK, WorldType
  <1>1. CASE NextDay
    BY <1>1, NextDayWorld
  <1>2. CASE FactsChange \/ MarketCloses \/ ForeignEdit
    BY <1>2 DEF FactsChange, MarketCloses, ForeignEdit
  <1>3. CASE Start \/ RecoverDone \/ Startup
    BY <1>3 DEF Start, RecoverDone, Startup
  <1>4. CASE RecoverOperation \/ FinalizationFails
    BY <1>4 DEF RecoverOperation, RecoverSettled, Visit, RecoverKept, Finalize,
       MarkContradiction, FinalizationFails, RecoverUnfinalized, StageFile
  <1>5. CASE Capture \/ ReconcileNoChange
    BY <1>5 DEF Capture, ReconcileNoChange, After
  <1>6. CASE ReconcileBegin
    BY <1>6 DEF ReconcileBegin, BeginCommit, Begin
  <1>7. CASE CommitSave
    BY <1>7 DEF CommitSave, SaveFile, Contradiction, MarkContradiction
  <1>8. CASE CommitStage
    BY <1>8 DEF CommitStage, StageFile, Contradiction, MarkContradiction
  <1>9. CASE CommitReceipt
    BY <1>9 DEF CommitReceipt, Finalize, After, Contradiction, MarkContradiction
  <1>10. CASE ExecuteBegin \/ ExecutePlan \/ ExecuteDone
    BY <1>10 DEF ExecuteBegin, ExecutePlan, ExecuteDone
  <1>11. CASE CloseBegin \/ CloseEod
    BY <1>11 DEF CloseBegin, CloseEod
  <1>12. CASE CloseEodDone
    BY <1>12 DEF CloseEodDone, Checkpoint
  <1>13. CASE CloseCanary \/ CloseReconcileAgain
    BY <1>13 DEF CloseCanary, CloseReconcileAgain
  <1>14. CASE CloseData \/ CloseDecided
    BY <1>14 DEF CloseData, Checkpoint, CloseDecided
  <1>15. CASE Decide
    BY <1>15 DEF Decide
  <1>16. CASE CommitDecision
    BY <1>16 DEF CommitDecision, BeginCommit, Begin
  <1>17. CASE RecoverDecision
    BY <1>17 DEF RecoverDecision, BeginCommit, Begin
  <1>18. CASE CloseFinish
    BY <1>18 DEF CloseFinish, Checkpoint
  <1>19. CASE Resume \/ Disarm \/ Crash \/ StepFails
    BY <1>19 DEF Resume, Disarm, Crash, StepFails
  <1>20. CASE UNCHANGED vars
    BY <1>20 DEF vars
  <1>. QED  BY <1>1, <1>2, <1>3, <1>4, <1>5, <1>6, <1>7, <1>8, <1>9, <1>10, <1>11,
     <1>12, <1>13, <1>14, <1>15, <1>16, <1>17, <1>18, <1>19, <1>20 DEF Next, World,
     Daemon, Failures

\* Every step keeps the call in progress well formed.
LEMMA CallTypePreserved ==
    ASSUME TypeOK, ChainInv, [Next]_vars
    PROVE  CallType'
  <1>. USE Constants, ForgetType DEF accountVars, closeVars, worldVars, callVars,
     Stay, Halt, Forget, TypeOK, CallType, WorldType, Open
  <1>1. CASE FactsChange \/ MarketCloses \/ NextDay \/ ForeignEdit
    BY <1>1 DEF FactsChange, MarketCloses, NextDay, ForeignEdit
  <1>2. CASE Start \/ RecoverDone
    BY <1>2 DEF Start, RecoverDone
  <1>3. CASE Startup
    BY <1>3, StartupCall
  <1>4. CASE RecoverOperation \/ FinalizationFails
    BY <1>4 DEF RecoverOperation, RecoverSettled, Visit, RecoverKept, Finalize,
       MarkContradiction, FinalizationFails, RecoverUnfinalized, StageFile
  <1>5. CASE Capture \/ ReconcileNoChange
    BY <1>5 DEF Capture, ReconcileNoChange, After
  <1>6. CASE ReconcileBegin
    BY <1>6 DEF ReconcileBegin, BeginCommit, Begin
  <1>7. CASE CommitSave
    BY <1>7 DEF CommitSave, SaveFile, Contradiction, MarkContradiction
  <1>8. CASE CommitStage
    BY <1>8 DEF CommitStage, StageFile, Contradiction, MarkContradiction
  <1>9. CASE CommitReceipt
    BY <1>9 DEF CommitReceipt, Finalize, After, Contradiction, MarkContradiction
  <1>10. CASE ExecuteBegin \/ ExecutePlan \/ ExecuteDone
    BY <1>10 DEF ExecuteBegin, ExecutePlan, ExecuteDone
  <1>11. CASE CloseBegin \/ CloseEod
    BY <1>11 DEF CloseBegin, CloseEod
  <1>12. CASE CloseEodDone
    BY <1>12 DEF CloseEodDone, Checkpoint
  <1>13. CASE CloseCanary \/ CloseReconcileAgain
    BY <1>13 DEF CloseCanary, CloseReconcileAgain
  <1>14. CASE CloseData \/ CloseDecided
    BY <1>14 DEF CloseData, Checkpoint, CloseDecided
  <1>15. CASE Decide
    BY <1>15 DEF Decide
  <1>16. CASE CommitDecision
    BY <1>16 DEF CommitDecision, BeginCommit, Begin
  <1>17. CASE RecoverDecision
    BY <1>17 DEF RecoverDecision, BeginCommit, Begin
  <1>18. CASE CloseFinish
    BY <1>18 DEF CloseFinish, Checkpoint
  <1>19. CASE Resume \/ Disarm \/ Crash \/ StepFails
    BY <1>19 DEF Resume, Disarm, Crash, StepFails
  <1>20. CASE UNCHANGED vars
    BY <1>20 DEF vars
  <1>. QED  BY <1>1, <1>2, <1>3, <1>4, <1>5, <1>6, <1>7, <1>8, <1>9, <1>10, <1>11,
     <1>12, <1>13, <1>14, <1>15, <1>16, <1>17, <1>18, <1>19, <1>20 DEF Next, World,
     Daemon, Failures

\* Every step keeps chains and snapshots well formed: append never goes past
\* COMPLETED.
LEMMA CloseTypePreserved ==
    ASSUME TypeOK, ChainInv, [Next]_vars
    PROVE  CloseType'
  <1>. USE Constants DEF accountVars, closeVars, worldVars, callVars, Stay, Halt,
     Forget, TypeOK, CloseType, CallType, COMPLETED
  <1>1. CASE FactsChange \/ MarketCloses \/ NextDay \/ ForeignEdit
    BY <1>1 DEF FactsChange, MarketCloses, NextDay, ForeignEdit
  <1>2. CASE Start \/ RecoverDone \/ Startup
    BY <1>2 DEF Start, RecoverDone, Startup
  <1>3. CASE RecoverOperation \/ FinalizationFails
    BY <1>3 DEF RecoverOperation, RecoverSettled, Visit, RecoverKept, Finalize,
       MarkContradiction, FinalizationFails, RecoverUnfinalized, StageFile
  <1>4. CASE Capture \/ ReconcileNoChange
    BY <1>4 DEF Capture, ReconcileNoChange, After
  <1>5. CASE ReconcileBegin
    BY <1>5 DEF ReconcileBegin, BeginCommit, Begin
  <1>6. CASE CommitSave
    BY <1>6 DEF CommitSave, SaveFile, Contradiction, MarkContradiction
  <1>7. CASE CommitStage
    BY <1>7 DEF CommitStage, StageFile, Contradiction, MarkContradiction
  <1>8. CASE CommitReceipt
    BY <1>8 DEF CommitReceipt, Finalize, After, Contradiction, MarkContradiction
  <1>9. CASE ExecuteBegin \/ ExecutePlan \/ ExecuteDone
    BY <1>9 DEF ExecuteBegin, ExecutePlan, ExecuteDone
  <1>10. CASE CloseBegin \/ CloseEod
    BY <1>10 DEF CloseBegin, CloseEod
  <1>11. CASE CloseEodDone
    BY <1>11, EodCheckpoint
  <1>12. CASE CloseCanary \/ CloseReconcileAgain
    BY <1>12 DEF CloseCanary, CloseReconcileAgain
  <1>13. CASE CloseData
    BY <1>13 DEF CloseData, Checkpoint, ChainInv
  <1>14. CASE CloseDecided
    BY <1>14 DEF CloseDecided, Checkpoint, ChainInv
  <1>15. CASE Decide
    BY <1>15, DecideSnapshot
  <1>16. CASE CommitDecision
    BY <1>16 DEF CommitDecision, BeginCommit, Begin
  <1>17. CASE RecoverDecision
    BY <1>17 DEF RecoverDecision, BeginCommit, Begin
  <1>18. CASE CloseFinish
    BY <1>18 DEF CloseFinish, Checkpoint, ChainInv
  <1>19. CASE Resume \/ Disarm \/ Crash \/ StepFails
    BY <1>19 DEF Resume, Disarm, Crash, StepFails
  <1>20. CASE UNCHANGED vars
    BY <1>20 DEF vars
  <1>. QED  BY <1>1, <1>2, <1>3, <1>4, <1>5, <1>6, <1>7, <1>8, <1>9, <1>10, <1>11,
     <1>12, <1>13, <1>14, <1>15, <1>16, <1>17, <1>18, <1>19, <1>20 DEF Next, World,
     Daemon, Failures

\* Every step keeps the flags Boolean.
LEMMA FlagTypePreserved ==
    ASSUME TypeOK, ChainInv, [Next]_vars
    PROVE  FlagType'
  <1>. USE DEF accountVars, closeVars, worldVars, callVars, Stay, Halt, Forget,
     TypeOK, FlagType
  <1>1. CASE FactsChange \/ MarketCloses \/ NextDay \/ ForeignEdit
    BY Zenon, <1>1 DEF FactsChange, MarketCloses, NextDay, ForeignEdit
  <1>2. CASE Start \/ RecoverDone \/ Startup
    BY Zenon, <1>2 DEF Start, RecoverDone, Startup
  <1>3. CASE RecoverOperation \/ FinalizationFails
    BY Zenon, <1>3 DEF RecoverOperation, RecoverSettled, Visit, RecoverKept, Finalize,
       MarkContradiction, FinalizationFails, RecoverUnfinalized, StageFile
  <1>4. CASE Capture \/ ReconcileNoChange
    BY Zenon, <1>4 DEF Capture, ReconcileNoChange, After
  <1>5. CASE ReconcileBegin
    BY Zenon, <1>5 DEF ReconcileBegin, BeginCommit, Begin
  <1>6. CASE CommitSave
    BY Zenon, <1>6 DEF CommitSave, SaveFile, Contradiction, MarkContradiction
  <1>7. CASE CommitStage
    BY Zenon, <1>7 DEF CommitStage, StageFile, Contradiction, MarkContradiction
  <1>8. CASE CommitReceipt
    BY Zenon, <1>8 DEF CommitReceipt, Finalize, After, Contradiction, MarkContradiction
  <1>9. CASE ExecuteBegin \/ ExecutePlan \/ ExecuteDone
    BY Zenon, <1>9 DEF ExecuteBegin, ExecutePlan, ExecuteDone
  <1>10. CASE CloseBegin \/ CloseEod
    BY Zenon, <1>10 DEF CloseBegin, CloseEod
  <1>11. CASE CloseEodDone
    BY Zenon, <1>11 DEF CloseEodDone, Checkpoint
  <1>12. CASE CloseCanary \/ CloseReconcileAgain
    BY Zenon, <1>12 DEF CloseCanary, CloseReconcileAgain
  <1>13. CASE CloseData \/ CloseDecided
    BY Zenon, <1>13 DEF CloseData, Checkpoint, CloseDecided
  <1>14. CASE Decide
    BY Zenon, <1>14 DEF Decide
  <1>15. CASE CommitDecision
    BY Zenon, <1>15 DEF CommitDecision, BeginCommit, Begin
  <1>16. CASE RecoverDecision
    BY Zenon, <1>16 DEF RecoverDecision, BeginCommit, Begin
  <1>17. CASE CloseFinish
    BY Zenon, <1>17 DEF CloseFinish, Checkpoint
  <1>18. CASE Resume \/ Disarm \/ Crash \/ StepFails
    BY Zenon, <1>18 DEF Resume, Disarm, Crash, StepFails
  <1>19. CASE UNCHANGED vars
    BY Zenon, <1>19 DEF vars
  <1>. QED  BY Zenon, <1>1, <1>2, <1>3, <1>4, <1>5, <1>6, <1>7, <1>8, <1>9, <1>10,
     <1>11, <1>12, <1>13, <1>14, <1>15, <1>16, <1>17, <1>18, <1>19 DEF Next, World,
     Daemon, Failures

-----------------------------------------------------------------------------
(* Open operations and incomplete close sessions.                          *)

\* Every step keeps at most one account operation open, and only where the
\* commit in hand or recovery accounts for it.
LEMMA SettledPreserved ==
    ASSUME TypeOK, SettledInv, [Next]_vars
    PROVE  SettledInv'
  <1>. USE Constants DEF accountVars, closeVars, worldVars, callVars, Stay, Halt,
     Forget, SettledInv, TypeOK, AccountType, CallType, FlagType, InHand, Open,
     NoRow
  <1>1. CASE FactsChange \/ MarketCloses \/ NextDay \/ ForeignEdit
    BY <1>1 DEF FactsChange, MarketCloses, NextDay, ForeignEdit
  <1>2. CASE Start \/ RecoverDone \/ Startup
    BY <1>2 DEF Start, RecoverDone, Startup
  <1>3. CASE RecoverOperation \/ FinalizationFails
    BY <1>3 DEF RecoverOperation, RecoverSettled, Visit, RecoverKept, Finalize,
       MarkContradiction, FinalizationFails, RecoverUnfinalized, StageFile
  <1>4. CASE Capture \/ ReconcileNoChange
    BY <1>4 DEF Capture, ReconcileNoChange, After
  <1>5. CASE ReconcileBegin
    BY <1>5 DEF ReconcileBegin, BeginCommit, Begin
  <1>6. CASE CommitSave
    BY <1>6 DEF CommitSave, SaveFile, Contradiction, MarkContradiction
  <1>7. CASE CommitStage
    BY <1>7 DEF CommitStage, StageFile, Contradiction, MarkContradiction
  <1>8. CASE CommitReceipt
    BY <1>8 DEF CommitReceipt, Finalize, After, Contradiction, MarkContradiction
  <1>9. CASE ExecuteBegin \/ ExecutePlan \/ ExecuteDone
    BY <1>9 DEF ExecuteBegin, ExecutePlan, ExecuteDone
  <1>10. CASE CloseBegin \/ CloseEod
    BY <1>10 DEF CloseBegin, CloseEod
  <1>11. CASE CloseEodDone
    BY <1>11 DEF CloseEodDone, Checkpoint
  <1>12. CASE CloseCanary \/ CloseReconcileAgain
    BY <1>12 DEF CloseCanary, CloseReconcileAgain
  <1>13. CASE CloseData \/ CloseDecided
    BY <1>13 DEF CloseData, Checkpoint, CloseDecided
  <1>14. CASE Decide
    BY <1>14 DEF Decide
  <1>15. CASE CommitDecision
    BY <1>15 DEF CommitDecision, BeginCommit, Begin
  <1>16. CASE RecoverDecision
    BY <1>16 DEF RecoverDecision, BeginCommit, Begin
  <1>17. CASE CloseFinish
    BY <1>17 DEF CloseFinish, Checkpoint
  <1>18. CASE Resume \/ Disarm \/ Crash \/ StepFails
    BY <1>18 DEF Resume, Disarm, Crash, StepFails
  <1>19. CASE UNCHANGED vars
    BY <1>19 DEF vars
  <1>. QED  BY <1>1, <1>2, <1>3, <1>4, <1>5, <1>6, <1>7, <1>8, <1>9, <1>10, <1>11,
     <1>12, <1>13, <1>14, <1>15, <1>16, <1>17, <1>18, <1>19 DEF Next, World,
     Daemon, Failures

\* The last checkpoints of a close session complete the only incomplete chain.
LEMMA FinishChain ==
    ASSUME TypeOK, ChainInv, CloseFinish
    PROVE  ChainInv'
  <1>. USE DEF ChainInv, TypeOK, CloseType, WorldType, CallType, Closing, InHand,
     AccountStep, Outside, COMPLETED, CloseFinish, Checkpoint
  <1>1. cp[sess] \in 3..5 /\ \A s \in Sessions : cp'[s] = IF s = sess THEN cp[s] + 1 ELSE cp[s]
    BY Constants
  <1>2. \A s \in Incomplete : s = sess
    OBVIOUS
  <1>3. cp[sess] < 5 => Incomplete' = Incomplete
    BY <1>1 DEF Incomplete
  <1>4. cp[sess] = 5 => Incomplete' = {}
    BY <1>1, <1>2 DEF Incomplete
  <1>5. CASE cp[sess] = 5
    BY <1>1, <1>4, <1>5
  <1>6. CASE cp[sess] < 5
    <2>1. pc' = "steps" /\ job' = job /\ sess' = sess /\ cp'[sess] \in 4..5
      BY <1>1, <1>6
    <2>. QED  BY <1>1, <1>2, <1>3, <2>1
  <1>. QED  BY <1>1, <1>5, <1>6

\* Every step keeps at most one close session incomplete.
LEMMA ChainPreserved ==
    ASSUME TypeOK, ChainInv, [Next]_vars
    PROVE  ChainInv'
  <1>. USE Constants DEF accountVars, closeVars, worldVars, callVars, Stay, Halt,
     Forget, ChainInv, TypeOK, CloseType, WorldType, CallType, Closing, InHand,
     AccountStep, Outside, Incomplete, COMPLETED
  <1>1. CASE FactsChange \/ MarketCloses \/ NextDay \/ ForeignEdit
    BY <1>1 DEF FactsChange, MarketCloses, NextDay, ForeignEdit
  <1>2. CASE Start \/ RecoverDone \/ Startup
    BY <1>2 DEF Start, RecoverDone, Startup
  <1>3. CASE RecoverOperation \/ FinalizationFails
    BY <1>3 DEF RecoverOperation, RecoverSettled, Visit, RecoverKept, Finalize,
       MarkContradiction, FinalizationFails, RecoverUnfinalized, StageFile
  <1>4. CASE Capture \/ ReconcileNoChange
    BY <1>4 DEF Capture, ReconcileNoChange, After
  <1>5. CASE ReconcileBegin
    BY <1>5 DEF ReconcileBegin, BeginCommit, Begin
  <1>6. CASE CommitSave
    BY <1>6 DEF CommitSave, SaveFile, Contradiction, MarkContradiction
  <1>7. CASE CommitStage
    BY <1>7 DEF CommitStage, StageFile, Contradiction, MarkContradiction
  <1>8. CASE CommitReceipt
    BY <1>8 DEF CommitReceipt, Finalize, After, Contradiction, MarkContradiction
  <1>9. CASE ExecuteBegin \/ ExecutePlan \/ ExecuteDone
    BY <1>9 DEF ExecuteBegin, ExecutePlan, ExecuteDone
  <1>10. CASE CloseBegin \/ CloseEod
    BY <1>10 DEF CloseBegin, CloseEod
  <1>11. CASE CloseEodDone
    BY <1>11 DEF CloseEodDone, Checkpoint
  <1>12. CASE CloseCanary \/ CloseReconcileAgain
    BY <1>12 DEF CloseCanary, CloseReconcileAgain
  <1>13. CASE CloseData \/ CloseDecided
    BY <1>13 DEF CloseData, Checkpoint, CloseDecided
  <1>14. CASE Decide
    BY <1>14 DEF Decide
  <1>15. CASE CommitDecision
    BY <1>15 DEF CommitDecision, BeginCommit, Begin
  <1>16. CASE RecoverDecision
    BY <1>16 DEF RecoverDecision, BeginCommit, Begin
  <1>17. CASE CloseFinish
    BY <1>17, FinishChain
  <1>18. CASE Resume \/ Disarm \/ Crash \/ StepFails
    BY <1>18 DEF Resume, Disarm, Crash, StepFails
  <1>19. CASE UNCHANGED vars
    BY <1>19 DEF vars
  <1>. QED  BY <1>1, <1>2, <1>3, <1>4, <1>5, <1>6, <1>7, <1>8, <1>9, <1>10, <1>11,
     <1>12, <1>13, <1>14, <1>15, <1>16, <1>17, <1>18, <1>19 DEF Next, World,
     Daemon, Failures

\* Every step keeps the inductive invariant of account operations and
\* checkpoint chains.

LEMMA IInvPreserved ==
    ASSUME IInv, [Next]_vars
    PROVE  IInv'
  <1>1. TypeOK'
    BY AccountTypePreserved, CloseTypePreserved, WorldTypePreserved, CallTypePreserved,
       FlagTypePreserved DEF IInv, TypeOK
  <1>. QED  BY <1>1, SettledPreserved, ChainPreserved DEF IInv

\* The inductive invariant holds in every reachable state, crashes, halts,
\* failed steps and foreign edits of the account file included.
LEMMA InvariantHolds == Spec => []IInv
  <1>1. Init => IInv
    BY InitialType, Initial DEF IInv
  <1>2. IInv /\ [Next]_vars => IInv'
    BY IInvPreserved
  <1>. QED  BY <1>1, <1>2, PTL DEF Spec

\* Durable state, calendar and call in progress stay well formed; in
\* particular CloseCheckpointStore.append never goes past COMPLETED.
THEOREM TypeCorrect == Spec => []TypeOK
  <1>1. IInv => TypeOK
    BY DEF IInv
  <1>. QED  BY <1>1, InvariantHolds, PTL

\* AccountOperation.begin never finds an unsettled operation, and startup
\* lets the daemon into its cycle only when recovery has settled the last
\* one, whatever crashed and whoever replaced the account file.
THEOREM OperationsSettled == Spec => []OperationsAreSettled
  <1>1. IInv => OperationsAreSettled
    BY DEF IInv, SettledInv, OperationsAreSettled, InHand
  <1>. QED  BY <1>1, InvariantHolds, PTL

\* latest_incomplete_session has at most one candidate: startup, which
\* resumes only that one, leaves no older close session behind.
THEOREM OneCloseIncomplete == Spec => []OneIncompleteClose
  <1>1. IInv => OneIncompleteClose
    BY DEF IInv, ChainInv, OneIncompleteClose
  <1>. QED  BY <1>1, InvariantHolds, PTL

-----------------------------------------------------------------------------
(* The open row and the file, without foreign edits.                       *)

\* decide_once advances the account: the decision of a session differs from
\* the state it was made on, so applied and unapplied can be told apart.
LEMMA DecideAccount ==
    ASSUME TypeOK, SettledInv, AccountInv, DecisionInv, Decide
    PROVE  AccountInv'
  <1>1. dsnap' = [dsnap EXCEPT ![sess] = [
        before |-> file, after |-> [facts |-> file.facts, dec |-> sess]]]
    BY AccountShape DEF Decide, TypeOK, AccountType, CallType
  <1>2. Open = {} /\ Open' = {}
    BY DEF SettledInv, Decide, accountVars, Open, InHand
  <1>3. sess > 0 /\ file.dec # sess
    BY Constants DEF DecisionInv, Decide, TypeOK, CallType, Sessions
  <1>4. file # [facts |-> file.facts, dec |-> sess] 
    BY <1>3, AccountShape DEF TypeOK, AccountType
  <1>5. [facts |-> file.facts, dec |-> sess] # [facts |-> 0, dec |-> 0]
    BY <1>3
  <1>6. dsnap'[sess] # NotDecided /\ dsnap'[sess].before # dsnap'[sess].after
    BY <1>1, <1>4, <1>5 DEF NotDecided, TypeOK, CloseType, CallType
  <1>7. \A s \in Sessions : s # sess => dsnap'[s] = dsnap[s]
    BY <1>1 DEF TypeOK, CloseType
  <1>. QED  BY <1>2, <1>6, <1>7 DEF AccountInv, Decide, TypeOK, CallType, callVars, Stay

\* A broker sync is begun on the account as it is.
LEMMA SyncBeginAccount ==
    ASSUME TypeOK, SettledInv, AccountInv, ReconcileBegin
    PROVE  AccountInv'
  <1> DEFINE a == [facts |-> snap.facts, dec |-> file.dec]
  <1>1. /\ a = [file EXCEPT !.facts = snap.facts] /\ a \in Account /\ a # file
        /\ a = [file EXCEPT !.facts = a.facts]
    BY AccountShape DEF TypeOK, AccountType, CallType, ReconcileBegin
  <1>2. PICK i \in OpId : Begin(i, "BROKER_SYNC", file, a) /\ op' = i
    BY <1>1 DEF ReconcileBegin, BeginCommit
  <1>. HIDE DEF a
  <1>3. Open' = {i}
    BY <1>1, <1>2, OpenOfBegin DEF TypeOK, AccountType, SettledInv, ReconcileBegin,
       InHand, Kind
  <1>4. ops'[i] = [kind |-> "BROKER_SYNC", stage |-> "PREPARED",
                   before |-> file, after |-> a] /\ file' = file
    BY <1>2, RowOfBegin DEF TypeOK
  <1>5. RowInv(i)'
    BY <1>1, <1>4 DEF RowInv
  <1>6. pc' = "begun" /\ dsnap' = dsnap
    BY DEF ReconcileBegin, BeginCommit, closeVars
  <1>. QED  BY <1>2, <1>3, <1>4, <1>5, <1>6 DEF AccountInv

\* A decision commit is begun on exactly the frozen before-state.
LEMMA BeginDecision ==
    ASSUME TypeOK, AccountInv, Open = {}, NEW k \in {"DECISION_COMMIT", "DECISION_RECOVERY"},
           BeginCommit(k, dsnap[sess].before, dsnap[sess].after),
           file = dsnap[sess].before, dsnap[sess] # NotDecided
    PROVE  AccountInv'
  <1>1. dsnap[sess] \in [before : Account, after : Account] /\ sess \in Sessions
    BY DEF TypeOK, CloseType, CallType
  <1>2. PICK i \in OpId : Begin(i, k, dsnap[sess].before, dsnap[sess].after) /\ op' = i
    BY DEF BeginCommit
  <1>3. Open' = {i}
    BY <1>1, <1>2, OpenOfBegin DEF TypeOK, AccountType, Kind
  <1>4. /\ ops'[i] = [kind |-> k, stage |-> "PREPARED",
                      before |-> dsnap[sess].before, after |-> dsnap[sess].after]
        /\ file' = file
    BY <1>2, RowOfBegin DEF TypeOK
  <1>5. pc' = "begun" /\ dsnap' = dsnap
    BY DEF BeginCommit, closeVars
  <1>6. RowInv(i)'
    BY <1>1, <1>4, <1>5 DEF RowInv, AccountInv
  <1>. QED  BY <1>2, <1>3, <1>4, <1>5, <1>6 DEF AccountInv

\* _post_close_decision begins a commit only on the frozen before-state.
LEMMA DecisionBeginAccount ==
    ASSUME TypeOK, SettledInv, AccountInv, CommitDecision \/ RecoverDecision
    PROVE  AccountInv'
  <1>1. Open = {}
    BY DEF SettledInv, InHand, CommitDecision, RecoverDecision
  <1>2. CASE UNCHANGED <<accountVars, closeVars>> /\ pc' \in {"down", "decided"}
    BY <1>1, <1>2 DEF AccountInv, Open, accountVars, closeVars
  <1>3. CASE /\ BeginCommit("DECISION_COMMIT", dsnap[sess].before, dsnap[sess].after)
             /\ pc = "frozen" /\ CanBegin(dsnap[sess].before)
    BY <1>1, <1>3, BeginDecision DEF AccountInv, CanBegin
  <1>4. CASE /\ BeginCommit("DECISION_RECOVERY", dsnap[sess].before, dsnap[sess].after)
             /\ dsnap[sess] # NotDecided /\ file = dsnap[sess].before
    BY <1>1, <1>4, BeginDecision
  <1>. QED  BY <1>2, <1>3, <1>4 DEF CommitDecision, RecoverDecision, Halt

\* commit_file finds the file it has just written: no contradiction.
LEMMA StageAccount ==
    ASSUME TypeOK, SettledInv, AccountInv, CommitStage
    PROVE  AccountInv'
  <1>1. op \in Open /\ op \in OpId /\ file = ops[op].after /\ Open = {op}
    BY DEF SettledInv, CommitStage, AccountInv, InHand, TypeOK, CallType, Open
  <1>2. StageFile(op) /\ pc' = "staged" /\ Stay /\ UNCHANGED closeVars
    BY <1>1 DEF CommitStage, IsApplied
  <1>3. Open' = {op}
    BY <1>1, <1>2, OpenOfStage DEF StageFile, TypeOK, Stage
  <1>4. ops'[op] = [kind |-> ops[op].kind, stage |-> "FILE_COMMITTED",
                    before |-> ops[op].before, after |-> ops[op].after]
    BY <1>1, <1>2, SetStage DEF StageFile, TypeOK, Stage
  <1>5. op' = op /\ dsnap' = dsnap /\ file' = file
    BY <1>2 DEF Stay, callVars, closeVars, StageFile
  <1>6. RowInv(op)'
    BY <1>1, <1>4, <1>5 DEF AccountInv, RowInv
  <1>. QED  BY <1>1, <1>2, <1>3, <1>4, <1>5, <1>6 DEF AccountInv

\* _recover_accounts finds the file at one end of the row: no contradiction.
LEMMA RecoverAccount ==
    ASSUME TypeOK, SettledInv, AccountInv, RecoverOperation
    PROVE  AccountInv'
  <1>1. PICK i \in todo : \/ RecoverSettled(i) /\ Visit(i, blocked)
                          \/ RecoverKept(i) /\ Visit(i, TRUE)
    BY DEF RecoverOperation
  <1>2. i \in Open /\ i \in OpId /\ Open = {i} /\ RowInv(i)
    BY DEF SettledInv, RecoverOperation, AccountInv, Open
  <1>3. pc' = "recover" /\ dsnap' = dsnap
    BY <1>1 DEF Visit, closeVars, RecoverOperation
  <1>4. CASE RecoverSettled(i)
    <2>1. Open' = {}
      BY <1>2, <1>4, OpenOfRecovery DEF TypeOK
    <2>. QED  BY <1>3, <2>1 DEF AccountInv
  <1>5. CASE RecoverKept(i)
    <2>1. SyncRetryRequired(i)
      BY <1>2, <1>5 DEF RecoverKept, RowInv, SyncApplied, SettledRow, SyncRetryRequired,
         IsApplied, CanSave
    <2>2. UNCHANGED accountVars
      BY <1>5, <2>1 DEF RecoverKept
    <2>. QED  BY <1>2, <1>3, <2>2 DEF AccountInv, RowInv, accountVars, Open
  <1>. QED  BY <1>1, <1>4, <1>5

\* Without foreign edits every step keeps the open row and the file in step.
LEMMA AccountPreserved ==
    ASSUME EditsAllowed = FALSE, TypeOK, SettledInv, ChainInv, AccountInv, DecisionInv,
           [Next]_vars
    PROVE  AccountInv'
  <1>. USE Constants DEF accountVars, closeVars, worldVars, callVars, Stay, Halt,
     Forget, SettledInv, TypeOK, AccountType, CloseType, CallType, FlagType,
     InHand, Open, NoRow, AccountInv, RowInv, CanSave, CanBegin, IsApplied,
     SyncApplied, SyncRetryRequired, SettledRow, NotDecided
  <1>1. CASE FactsChange
    BY <1>1 DEF FactsChange
  <1>2. CASE MarketCloses
    BY <1>2 DEF MarketCloses
  <1>3. CASE NextDay
    BY <1>3 DEF NextDay
  <1>4. CASE ForeignEdit
    BY <1>4 DEF ForeignEdit
  <1>5. CASE Start \/ RecoverDone \/ Startup
    BY <1>5 DEF Start, RecoverDone, Startup
  <1>6. CASE FinalizationFails
    BY <1>6 DEF FinalizationFails, RecoverUnfinalized, Visit, StageFile
  <1>7. CASE RecoverOperation
    BY <1>7, RecoverAccount
  <1>8. CASE Capture \/ ReconcileNoChange
    BY <1>8 DEF Capture, ReconcileNoChange, After
  <1>9. CASE ReconcileBegin
    BY <1>9, SyncBeginAccount
  <1>10. CASE CommitSave
    BY <1>10 DEF CommitSave, SaveFile, Contradiction, MarkContradiction
  <1>11. CASE CommitStage
    BY <1>11, StageAccount
  <1>12. CASE CommitReceipt
    BY <1>12 DEF CommitReceipt, Finalize, After, Contradiction, MarkContradiction
  <1>13. CASE ExecuteBegin \/ ExecutePlan \/ ExecuteDone
    BY <1>13 DEF ExecuteBegin, ExecutePlan, ExecuteDone
  <1>14. CASE CloseBegin \/ CloseEod
    BY <1>14 DEF CloseBegin, CloseEod
  <1>15. CASE CloseEodDone
    BY <1>15 DEF CloseEodDone, Checkpoint
  <1>16. CASE CloseCanary \/ CloseReconcileAgain
    BY <1>16 DEF CloseCanary, CloseReconcileAgain
  <1>17. CASE CloseData \/ CloseDecided
    BY <1>17 DEF CloseData, Checkpoint, CloseDecided
  <1>18. CASE Decide
    BY <1>18, DecideAccount
  <1>19. CASE CommitDecision
    BY <1>19, DecisionBeginAccount
  <1>20. CASE RecoverDecision
    BY <1>20, DecisionBeginAccount
  <1>21. CASE CloseFinish
    BY <1>21 DEF CloseFinish, Checkpoint
  <1>22. CASE Disarm
    BY <1>22 DEF Disarm
  <1>23. CASE Resume
    BY <1>23 DEF Resume
  <1>24. CASE Crash
    BY <1>24 DEF Crash
  <1>25. CASE StepFails
    BY <1>25 DEF StepFails
  <1>26. CASE UNCHANGED vars
    BY <1>26 DEF vars
  <1>. QED  BY <1>1, <1>2, <1>3, <1>4, <1>5, <1>6, <1>7, <1>8, <1>9, <1>10, <1>11,
     <1>12, <1>13, <1>14, <1>15, <1>16, <1>17, <1>18, <1>19, <1>20, <1>21, <1>22,
     <1>23, <1>24, <1>25, <1>26 DEF Next, World, Daemon, Failures

-----------------------------------------------------------------------------
(* Decisions and checkpoints, without foreign edits.                       *)

\* A new trading day changes nothing of the closed ones.
LEMMA NextDayDecisions ==
    ASSUME TypeOK, SettledInv, ChainInv, AccountInv, DecisionInv, NextDay
    PROVE  DecisionInv'
  <1>1. \A s \in Sessions : Reached(s) => Reached(s)'
    BY Constants DEF NextDay, Reached, TypeOK, WorldType
  <1>2. sess \in Sessions /\ sess' = sess
    BY DEF TypeOK, CallType, NextDay, callVars
  <1>3. Incomplete' = Incomplete /\ Closing' = Closing /\ Executing' = Executing
    BY DEF NextDay, Incomplete, Closing, Executing, closeVars, callVars
  <1>. QED  BY <1>1, <1>2, <1>3 DEF DecisionInv, NextDay, accountVars, closeVars, callVars

\* The cycle closes a session that is over and has no successor under way.
LEMMA CloseBeginDecisions ==
    ASSUME TypeOK, SettledInv, ChainInv, AccountInv, DecisionInv, CloseBegin
    PROVE  DecisionInv'
  <1>1. Reached(day) /\ \A t \in Sessions : t > day => cp[t] = 0
    <2>1. \A t \in Sessions : t > day => cp[t] \in Nat /\ ~Reached(t)
      BY Constants DEF CloseBegin, Reached, TypeOK, WorldType, CloseType, COMPLETED
    <2>. QED  BY <2>1 DEF CloseBegin, Reached, DecisionInv
  <1>2. Reached(day)' <=> Reached(day)
    BY DEF CloseBegin, Reached, worldVars
  <1>. QED  BY <1>1, <1>2 DEF DecisionInv, CloseBegin, accountVars, closeVars, worldVars,
     Reached, Closing, Executing, Incomplete, AccountStep, InHand

\* Execution starts after the previous session is COMPLETED and before the
\* present one is closed, so the account holds that session's decision.
LEMMA ExecuteBeginDecisions ==
    ASSUME TypeOK, SettledInv, ChainInv, AccountInv, DecisionInv, ExecuteBegin
    PROVE  DecisionInv'
  <1>1. CASE Halt
    BY <1>1 DEF ExecuteBegin, Halt, Forget, DecisionInv, accountVars, closeVars,
       worldVars, Reached, Closing, Executing, Incomplete, AccountStep, InHand
  <1>2. CASE HasDecision(day - 1)
    <2>1. day - 1 \in Sessions /\ cp[day - 1] = COMPLETED
      BY <1>2, Constants DEF HasDecision, TypeOK, WorldType, Sessions
    <2>2. \A t \in Sessions : t >= day => cp[t] = 0
      <3>1. \A t \in Sessions : t >= day => cp[t] \in Nat /\ ~Reached(t)
        BY Constants DEF ExecuteBegin, Reached, TypeOK, WorldType, CloseType, COMPLETED
      <3>. QED  BY <3>1 DEF DecisionInv
    <2>3. file.dec >= day - 1
      BY <2>1 DEF DecisionInv
    <2>4. pc' = "capture" /\ job' = "INTRADAY" /\ sess' = day /\
              UNCHANGED <<accountVars, closeVars, worldVars>>
      BY <1>2 DEF ExecuteBegin
    <2>. QED  BY <2>2, <2>3, <2>4 DEF DecisionInv, accountVars, closeVars, worldVars,
       Reached, Closing, Executing, Incomplete, AccountStep, InHand
  <1>. QED  BY <1>1, <1>2 DEF ExecuteBegin

\* The FILE_COMMITTED update does not touch decisions or checkpoints.
LEMMA StageDecisions ==
    ASSUME TypeOK, SettledInv, ChainInv, AccountInv, DecisionInv, CommitStage
    PROVE  DecisionInv'
  <1>1. op \in Open /\ op \in OpId /\ file = ops[op].after
    BY DEF SettledInv, CommitStage, AccountInv, InHand, TypeOK, CallType
  <1>2. StageFile(op) /\ pc' = "staged" /\ pc = "saved" /\ Stay /\ UNCHANGED closeVars
    BY <1>1 DEF CommitStage, IsApplied
  <1>3. ops'[op] = [kind |-> ops[op].kind, stage |-> "FILE_COMMITTED",
                    before |-> ops[op].before, after |-> ops[op].after]
    BY <1>1, <1>2, SetStage DEF StageFile, TypeOK, Stage
  <1>. QED  BY <1>2, <1>3 DEF DecisionInv, StageFile, Stay, callVars, closeVars,
     worldVars, Reached, Closing, Executing, Incomplete, AccountStep, InHand

\* Replacing the account file applies the decision being committed or keeps
\* the last one, and never while a report or backup of another is under way.
LEMMA SaveDecisions ==
    ASSUME TypeOK, SettledInv, ChainInv, AccountInv, DecisionInv, CommitSave
    PROVE  DecisionInv'
  <1>1. op \in Open /\ op \in OpId /\ RowInv(op) /\ file = ops[op].before /\ ops[op] \in Row
    BY DEF SettledInv, CommitSave, AccountInv, InHand, TypeOK, CallType, AccountType
  <1>2. /\ pc' = "saved" /\ pc = "begun" /\ file' = ops[op].after /\ ops' = ops
        /\ Stay /\ UNCHANGED closeVars
    BY <1>1 DEF CommitSave, CanSave, SaveFile
  <1>3. CASE job = "DECISION"
    <2>1. /\ file' = dsnap[sess].after /\ dsnap[sess] # NotDecided /\ file'.dec = sess
          /\ sess \in Sessions /\ cp[sess] = 2
      BY <1>2, <1>3 DEF DecisionInv, ChainInv, TypeOK, CallType, InHand
    <2>2. \A s \in Sessions : cp[s] \notin 3..5 /\ (cp[s] = COMPLETED => s <= sess)
      <3>1. \A s \in Incomplete : s = sess
        BY <1>2, <1>3 DEF ChainInv, Closing, InHand, AccountStep
      <3>2. \A s \in Sessions : s > sess => cp[s] = 0
        BY <1>2, <1>3 DEF DecisionInv, Closing, InHand, AccountStep
      <3>3. \A s \in Sessions : cp[s] \notin 3..5
        BY <2>1, <3>1 DEF Incomplete, COMPLETED
      <3>4. \A s \in Sessions : cp[s] = COMPLETED => s <= sess
        BY <2>1, <3>2, Constants DEF COMPLETED
      <3>. QED  BY <3>3, <3>4
    <2>3. ~Executing'
      BY <1>2, <1>3 DEF Executing, Stay, callVars, AccountStep, InHand
    <2>. QED  BY <1>2, <1>3, <2>1, <2>2, <2>3, Constants DEF DecisionInv, Stay, callVars,
       closeVars, worldVars, Reached, Closing, Incomplete, AccountStep, InHand
  <1>4. CASE job # "DECISION"
    <2>1. ops[op].kind = "BROKER_SYNC"
      BY <1>2, <1>4 DEF DecisionInv, InHand
    <2>2. file'.dec = file.dec
      <3>1. ops[op].before \in Account /\ ops[op].after \in Account
        BY <1>1, RowShape
      <3>2. ops[op].after = [facts |-> ops[op].after.facts, dec |-> ops[op].before.dec]
        BY <1>1, <2>1, <3>1, AccountShape DEF RowInv
      <3>. QED  BY <1>1, <1>2, <3>2
    <2>3. \A s \in Sessions : cp[s] \notin 3..5
      <3>1. CASE job = "EOD"
        <4>1. cp[sess] \in {0, 2} /\ \A s \in Incomplete : s = sess
          BY <1>2, <3>1 DEF ChainInv, Closing, InHand, AccountStep
        <4>. QED  BY <4>1 DEF Incomplete, COMPLETED
      <3>2. CASE job # "EOD"
        <4>1. Incomplete = {}
          BY <1>2, <1>4, <3>2 DEF ChainInv, Closing, InHand, AccountStep, Outside
        <4>. QED  BY <4>1 DEF Incomplete, COMPLETED
      <3>. QED  BY <3>1, <3>2
    <2>. QED  BY <1>2, <1>4, <2>1, <2>2, <2>3 DEF DecisionInv, Stay, callVars, closeVars,
       worldVars, Reached, Closing, Executing, Incomplete, AccountStep, InHand
  <1>. QED  BY <1>3, <1>4

\* Without foreign edits every step keeps decisions, checkpoints, account and
\* calendar in step.
LEMMA DecisionPreserved ==
    ASSUME EditsAllowed = FALSE, TypeOK, SettledInv, ChainInv, AccountInv, DecisionInv,
           [Next]_vars
    PROVE  DecisionInv'
  <1>. USE Constants DEF accountVars, closeVars, worldVars, callVars, Stay, Halt,
     Forget, SettledInv, TypeOK, AccountType, CloseType, WorldType, CallType,
     Account, ChainInv, Closing, Executing, Reached, AccountStep, Outside,
     Incomplete, COMPLETED, InHand, Open, AccountInv, RowInv, CanSave, CanBegin,
     IsApplied, DecisionInv
  <1>1. CASE FactsChange \/ MarketCloses \/ ForeignEdit
    BY <1>1 DEF FactsChange, MarketCloses, ForeignEdit
  <1>2. CASE NextDay
    BY <1>2, NextDayDecisions
  <1>3. CASE Start \/ RecoverDone \/ Startup
    BY <1>3 DEF Start, RecoverDone, Startup
  <1>4. CASE RecoverOperation \/ FinalizationFails
    BY <1>4 DEF RecoverOperation, RecoverSettled, Visit, RecoverKept, Finalize,
       MarkContradiction, FinalizationFails, RecoverUnfinalized, StageFile
  <1>5. CASE Capture \/ ReconcileNoChange
    BY <1>5 DEF Capture, ReconcileNoChange, After
  <1>6. CASE ReconcileBegin
    BY <1>6 DEF ReconcileBegin, BeginCommit, Begin
  <1>7. CASE CommitSave
    BY <1>7, SaveDecisions
  <1>8. CASE CommitStage
    BY <1>8, StageDecisions
  <1>9. CASE CommitReceipt
    BY <1>9 DEF CommitReceipt, Finalize, After, Contradiction, MarkContradiction
  <1>10. CASE ExecutePlan \/ ExecuteDone
    BY <1>10 DEF ExecutePlan, ExecuteDone
  <1>11. CASE ExecuteBegin
    BY <1>11, ExecuteBeginDecisions
  <1>12. CASE CloseEod
    BY <1>12 DEF CloseEod
  <1>13. CASE CloseBegin
    BY <1>13, CloseBeginDecisions
  <1>14. CASE CloseEodDone
    BY <1>14 DEF CloseEodDone, Checkpoint
  <1>15. CASE CloseCanary \/ CloseReconcileAgain
    BY <1>15 DEF CloseCanary, CloseReconcileAgain
  <1>16. CASE CloseData \/ CloseDecided
    BY <1>16 DEF CloseData, Checkpoint, CloseDecided
  <1>17. CASE Decide
    BY <1>17 DEF Decide
  <1>18. CASE CommitDecision
    BY <1>18 DEF CommitDecision, BeginCommit, Begin
  <1>19. CASE RecoverDecision
    BY <1>19 DEF RecoverDecision, BeginCommit, Begin
  <1>20. CASE CloseFinish
    BY <1>20 DEF CloseFinish, Checkpoint
  <1>21. CASE Resume \/ Disarm \/ Crash \/ StepFails
    BY <1>21 DEF Resume, Disarm, Crash, StepFails
  <1>22. CASE UNCHANGED vars
    BY <1>22 DEF vars
  <1>. QED  BY <1>1, <1>2, <1>3, <1>4, <1>5, <1>6, <1>7, <1>8, <1>9, <1>10, <1>11,
     <1>12, <1>13, <1>14, <1>15, <1>16, <1>17, <1>18, <1>19, <1>20, <1>21, <1>22
     DEF Next, World, Daemon, Failures

\* As long as nobody else replaces the account file, the full invariant holds
\* in every reachable state.
LEMMA ClosedInvariantHolds ==
    ASSUME EditsAllowed = FALSE
    PROVE  Spec => []ClosedInv
  <1>1. Init => ClosedInv
    BY InitialType, Initial DEF ClosedInv, IInv
  <1>2. ClosedInv /\ [Next]_vars => ClosedInv'
    BY IInvPreserved, AccountPreserved, DecisionPreserved DEF ClosedInv, IInv
  <1>. QED  BY <1>1, <1>2, PTL DEF Spec

\* From DECISION_COMMITTED on, report and backup see the frozen after-state,
\* and the decision of a COMPLETED session is never lost from the account,
\* whatever crashed between the file, the row and the checkpoint.
THEOREM DecisionsAreCommitted ==
    ASSUME EditsAllowed = FALSE
    PROVE  Spec => []CommittedDecisionInAccount
  <1>1. ClosedInv => CommittedDecisionInAccount
    BY DEF ClosedInv, DecisionInv, CommittedDecisionInAccount, COMPLETED
  <1>. QED  BY <1>1, ClosedInvariantHolds, PTL

\* _execute places orders only for the decision of the previous session, and
\* only when that decision is the last one in the account.
THEOREM ExecutionFollowsDecision ==
    ASSUME EditsAllowed = FALSE
    PROVE  Spec => []ExecutesPreviousDecision
  <1>1. ASSUME ClosedInv, pc = "execute" PROVE file.dec = sess - 1
    <2>1. file.dec \in 0..MaxDay /\ sess \in Sessions /\ Sessions = 1..MaxDay /\ MaxDay \in Nat
      BY <1>1, AccountShape, Constants
         DEF ClosedInv, IInv, TypeOK, AccountType, CallType, Sessions
    <2>2. file.dec >= sess - 1 /\ \A t \in Sessions : t >= sess => cp[t] = 0
      BY <1>1 DEF ClosedInv, DecisionInv, Executing
    <2>3. file.dec > 0 => cp[file.dec] >= 2
      BY <1>1, <2>1 DEF ClosedInv, DecisionInv
    <2>. QED  BY <2>1, <2>2, <2>3
  <1>2. ClosedInv => ExecutesPreviousDecision
    BY <1>1 DEF ExecutesPreviousDecision
  <1>. QED  BY <1>2, ClosedInvariantHolds, PTL

-----------------------------------------------------------------------------
(* CloseSession implements AuthoritativeAccount, without foreign edits.    *)

\* With one open row, the promised receipts are the written ones and the one
\* the row seals.
LEMMA PromisedOfOne ==
    /\ AccountType => \A i \in OpId : Open \subseteq {i} =>
           Promised = IF SyncApplied(i) THEN certified \cup {ops[i].after} ELSE certified
    /\ AccountType' => \A i \in OpId : Open' \subseteq {i} =>
           Promised' = IF SyncApplied(i)' THEN certified' \cup {ops'[i].after} ELSE certified'
  <1>1. \A j \in OpId : /\ SyncApplied(j) => j \in Open
                        /\ SyncApplied(j)' => j \in Open'
    BY DEF SyncApplied, Open, NoRow
  <1>. QED  BY <1>1 DEF Promised

\* With no open row, the promised receipts are the written ones.
LEMMA PromisedOfNone ==
    /\ AccountType /\ Open = {} => Promised = certified
    /\ AccountType' /\ Open' = {} => Promised' = certified'
  <1>1. \A j \in OpId : /\ SyncApplied(j) => j \in Open
                        /\ SyncApplied(j)' => j \in Open'
    BY DEF SyncApplied, Open, NoRow
  <1>. QED  BY <1>1 DEF Promised

\* A reconciliation that finds the account in order is one atomic Reconcile.
LEMMA VouchStep ==
    ASSUME AccountType, file' = file, ops' = ops, dsnap' = dsnap,
           certified' = certified \cup {file}
    PROVE  Atomic!Next
  <1>1. Promised' = Promised \cup {file}
    BY DEF Promised, SyncApplied, IsApplied
  <1>2. file.facts \in 0..MaxFacts /\ [file EXCEPT !.facts = file.facts] = file
    BY AccountShape DEF AccountType
  <1>3. Atomic!Reconcile(file.facts)
    BY <1>1, <1>2 DEF Atomic!Reconcile
  <1>. QED  BY <1>2, <1>3 DEF Atomic!Next

\* Steps outside the account do not show in the abstract account.
LEMMA AtomicSame ==
    ASSUME UNCHANGED <<accountVars, dsnap>>
    PROVE  UNCHANGED <<file, Promised, dsnap>>
  BY DEF accountVars, Promised, SyncApplied, IsApplied

\* Preparing an operation does not show: its file is not in place yet.
LEMMA BeginStep ==
    ASSUME AccountType, NEW i \in OpId, NEW k \in Kind \ {"NONE"},
           NEW b \in Account, NEW a \in Account,
           Begin(i, k, b, a), Open = {}, file = b, a # b, dsnap' = dsnap
    PROVE  UNCHANGED <<file, Promised, dsnap>>
  <1>1. AccountType' /\ Open' = {i}
    BY OpenOfBegin
  <1>2. file' = file /\ certified' = certified
    BY RowOfBegin
  <1>3. ops'[i] = [kind |-> k, stage |-> "PREPARED", before |-> b, after |-> a]
    BY RowOfBegin
  <1>4. ~SyncApplied(i)'
    BY <1>2, <1>3 DEF SyncApplied, IsApplied
  <1>. QED  BY <1>1, <1>2, <1>4, PromisedOfOne, PromisedOfNone

\* Replacing the file is the atomic step: the Reconcile of a broker sync or
\* the Apply of a frozen decision.
LEMMA SaveStep ==
    ASSUME TypeOK, SettledInv, AccountInv, CommitSave
    PROVE  Atomic!Next
  <1>1. op \in Open /\ op \in OpId /\ Open = {op} /\ RowInv(op) /\ ops[op] \in Row
    BY DEF SettledInv, CommitSave, AccountInv, InHand, TypeOK, CallType, AccountType, Open
  <1>2. file = ops[op].before /\ ops[op].stage = "PREPARED"
    BY DEF AccountInv, CommitSave
  <1>3. /\ file' = ops[op].after /\ ops' = ops /\ certified' = certified /\ dsnap' = dsnap
    BY <1>2 DEF CommitSave, CanSave, SaveFile, closeVars
  <1>4. ops[op].before \in Account /\ ops[op].after \in Account
    BY <1>1, RowShape
  <1>5. AccountType' /\ Open' = {op}
    BY <1>1, <1>3, <1>4 DEF TypeOK, AccountType, Open
  <1>6. Promised = certified
    BY <1>1, <1>2, PromisedOfOne DEF TypeOK, SyncApplied, IsApplied, RowInv
  <1>7. CASE ops[op].kind = "BROKER_SYNC"
    <2>1. Promised' = certified \cup {ops[op].after}
      BY <1>2, <1>3, <1>5, <1>7, <1>1, PromisedOfOne DEF SyncApplied, IsApplied
    <2>2. /\ ops[op].after.facts \in 0..MaxFacts
          /\ file' = [file EXCEPT !.facts = ops[op].after.facts]
      BY <1>1, <1>2, <1>3, <1>4, <1>7, AccountShape DEF RowInv
    <2>3. Atomic!Reconcile(ops[op].after.facts)
      BY <1>3, <1>6, <2>1, <2>2 DEF Atomic!Reconcile
    <2>. QED  BY <2>2, <2>3 DEF Atomic!Next
  <1>8. CASE ops[op].kind # "BROKER_SYNC"
    <2>1. Promised' = certified
      BY <1>3, <1>5, <1>8, <1>1, PromisedOfOne DEF SyncApplied
    <2>2. PICK s \in Sessions : /\ dsnap[s] # NotDecided
                                /\ ops[op].before = dsnap[s].before
                                                            /\ ops[op].after = dsnap[s].after
      BY <1>1, <1>8 DEF RowInv
    <2>3. Atomic!Apply(s)
      BY <1>2, <1>3, <1>6, <2>1, <2>2 DEF Atomic!Apply, Atomic!NotDecided, NotDecided
    <2>. QED  BY <2>3 DEF Atomic!Next
  <1>. QED  BY <1>7, <1>8

\* The final transaction writes a receipt that was already promised.
LEMMA FinalizeStep ==
    ASSUME AccountType, NEW i \in OpId, Open = {i}, Finalize(i), dsnap' = dsnap,
           ops[i].kind = "BROKER_SYNC" => SyncApplied(i)
    PROVE  UNCHANGED <<file, Promised, dsnap>>
  <1>1. AccountType' /\ Open' = {}
    BY OpenOfFinalize
  <1>2. certified' = IF ops[i].kind = "BROKER_SYNC" THEN certified \cup {ops[i].after}
                     ELSE certified
    BY DEF Finalize
  <1>3. Promised' = certified'
    BY <1>1, PromisedOfNone
  <1>4. Promised = IF ops[i].kind = "BROKER_SYNC" THEN certified \cup {ops[i].after}
                     ELSE certified
    BY PromisedOfOne DEF SyncApplied
  <1>. QED  BY <1>2, <1>3, <1>4 DEF Finalize

\* The FILE_COMMITTED update does not show.
LEMMA StageStep ==
    ASSUME AccountType, NEW i \in OpId, Open = {i}, StageFile(i), dsnap' = dsnap,
           file = ops[i].after, ops[i].stage \in {"PREPARED", "FILE_COMMITTED"}
    PROVE  UNCHANGED <<file, Promised, dsnap>>
  <1>1. AccountType' /\ Open' = {i}
    BY OpenOfStage DEF StageFile, Stage
  <1>2. /\ ops'[i] = [kind |-> ops[i].kind, stage |-> "FILE_COMMITTED",
                      before |-> ops[i].before, after |-> ops[i].after]
        /\ file' = file /\ certified' = certified
    BY SetStage DEF StageFile, Stage
  <1>3. SyncApplied(i)' <=> SyncApplied(i)
    BY <1>2 DEF SyncApplied, IsApplied
  <1>. QED  BY <1>1, <1>2, <1>3, PromisedOfOne

\* Recovering a row does not show: an applied sync gets the receipt it was
\* promised, anything else is closed or kept as it is.
LEMMA RecoverStep ==
    ASSUME TypeOK, SettledInv, AccountInv, RecoverOperation
    PROVE  UNCHANGED <<file, Promised, dsnap>>
  <1>1. PICK i \in todo : \/ RecoverSettled(i) /\ Visit(i, blocked)
                          \/ RecoverKept(i) /\ Visit(i, TRUE)
    BY DEF RecoverOperation
  <1>2. i \in OpId /\ Open = {i} /\ RowInv(i) /\ AccountType
    BY DEF SettledInv, RecoverOperation, AccountInv, Open, TypeOK
  <1>3. dsnap' = dsnap
    BY <1>1 DEF Visit, closeVars
  <1>4. CASE SyncApplied(i) /\ Finalize(i)
    BY <1>2, <1>3, <1>4, FinalizeStep
  <1>5. CASE SettledRow(i) /\ ops' = [ops EXCEPT ![i] = NoRow] /\ UNCHANGED <<file, certified>>
    <2>1. Finalize(i)
      BY <1>5 DEF Finalize, SettledRow
    <2>. QED  BY <1>2, <1>3, <1>5, <2>1, FinalizeStep DEF SettledRow
  <1>6. CASE RecoverKept(i)
    <2>1. SyncRetryRequired(i)
      BY <1>2, <1>6 DEF RecoverKept, RowInv, SyncApplied, SettledRow, SyncRetryRequired,
         IsApplied, CanSave
    <2>. QED  BY <1>3, <1>6, <2>1, AtomicSame DEF RecoverKept
  <1>. QED  BY <1>1, <1>4, <1>5, <1>6 DEF RecoverSettled

\* decide_once is the atomic Freeze.
LEMMA DecideStep ==
    ASSUME TypeOK, SettledInv, Decide
    PROVE  Atomic!Next
  <1>1. sess \in Sessions /\ Atomic!Freeze(sess)
    BY DEF TypeOK, CallType, Decide, Atomic!Freeze, Atomic!NotDecided, NotDecided,
       accountVars, Promised, SyncApplied, IsApplied
  <1>. QED  BY <1>1 DEF Atomic!Next

\* The rest of commit_file, and commit_receipt, do not show.
LEMMA CommitStep ==
    ASSUME TypeOK, SettledInv, AccountInv, CommitStage \/ CommitReceipt
    PROVE  UNCHANGED <<file, Promised, dsnap>>
  <1>1. op \in OpId /\ Open = {op} /\ RowInv(op) /\ AccountType /\ file = ops[op].after
    BY DEF SettledInv, AccountInv, InHand, CommitStage, CommitReceipt, TypeOK, CallType,
       Open
  <1>2. CASE CommitStage
    <2>1. StageFile(op) /\ dsnap' = dsnap
      BY <1>1, <1>2 DEF CommitStage, IsApplied, closeVars
    <2>. QED  BY <1>1, <2>1, StageStep DEF RowInv
  <1>3. CASE CommitReceipt
    <2>1. Finalize(op) /\ dsnap' = dsnap
      BY <1>1, <1>3 DEF CommitReceipt, IsApplied, closeVars
    <2>2. ops[op].kind = "BROKER_SYNC" => SyncApplied(op)
      BY <1>1, <1>3 DEF SyncApplied, IsApplied, AccountInv, CommitReceipt
    <2>. QED  BY <1>1, <2>1, <2>2, FinalizeStep
  <1>. QED  BY <1>2, <1>3

\* A failed finalization transaction does not show.
LEMMA FailedFinalization ==
    ASSUME TypeOK, SettledInv, FinalizationFails
    PROVE  UNCHANGED <<file, Promised, dsnap>>
  <1>1. PICK i \in todo : RecoverUnfinalized(i) /\ Visit(i, TRUE)
    BY DEF FinalizationFails
  <1>2. i \in OpId /\ Open = {i} /\ AccountType /\ dsnap' = dsnap
    BY <1>1 DEF SettledInv, FinalizationFails, Open, TypeOK, Visit, closeVars
  <1>. QED  BY <1>1, <1>2, StageStep DEF RecoverUnfinalized, SyncApplied, IsApplied

\* No begun operation shows.
LEMMA BeginCommitStep ==
    ASSUME TypeOK, SettledInv, AccountInv, ReconcileBegin \/ CommitDecision \/ RecoverDecision
    PROVE  UNCHANGED <<file, Promised, dsnap>>
  <1>1. Open = {} /\ AccountType
    BY DEF SettledInv, InHand, ReconcileBegin, CommitDecision, RecoverDecision, TypeOK
  <1>2. CASE ReconcileBegin
    <2> DEFINE a == [facts |-> snap.facts, dec |-> file.dec]
    <2>1. /\ file \in Account /\ a \in Account /\ a # file
          /\ [file EXCEPT !.facts = snap.facts] = a
      BY <1>2, AccountShape DEF TypeOK, AccountType, CallType, ReconcileBegin
    <2>2. PICK i \in OpId : Begin(i, "BROKER_SYNC", file, a)
      BY <1>2, <2>1 DEF ReconcileBegin, BeginCommit
    <2>3. dsnap' = dsnap
      BY <1>2 DEF ReconcileBegin, BeginCommit, closeVars
    <2>. HIDE DEF a
    <2>. QED  BY <1>1, <2>1, <2>2, <2>3, BeginStep DEF Kind
  <1>3. CASE UNCHANGED <<accountVars, closeVars>>
    BY <1>3, AtomicSame DEF closeVars
  <1>4. ASSUME NEW k \in {"DECISION_COMMIT", "DECISION_RECOVERY"}, file = dsnap[sess].before,
               dsnap[sess] # NotDecided,
               BeginCommit(k, dsnap[sess].before, dsnap[sess].after)
        PROVE  UNCHANGED <<file, Promised, dsnap>>
    <2>1. /\ dsnap[sess].before \in Account /\ dsnap[sess].after \in Account
          /\ dsnap[sess].before # dsnap[sess].after
      BY <1>4 DEF TypeOK, CloseType, CallType, AccountInv
    <2>2. PICK i \in OpId : Begin(i, k, dsnap[sess].before, dsnap[sess].after)
      BY <1>4 DEF BeginCommit
    <2>3. dsnap' = dsnap
      BY <1>4 DEF BeginCommit, closeVars
    <2>. QED  BY <1>1, <1>4, <2>1, <2>2, <2>3, BeginStep DEF Kind
  <1>5. CASE CommitDecision
    BY <1>3, <1>4, <1>5 DEF CommitDecision, CanBegin, AccountInv
  <1>6. CASE RecoverDecision
    BY <1>3, <1>4, <1>6 DEF RecoverDecision
  <1>. QED  BY <1>2, <1>5, <1>6

\* Without foreign edits every step of the daemon, of its failures and of the
\* operator is a step of AuthoritativeAccount or invisible to it.
LEMMA StepIsAtomic ==
    ASSUME EditsAllowed = FALSE, ClosedInv, [Next]_vars
    PROVE  [Atomic!Next]_<<file, Promised, dsnap>>
  <1>. USE DEF ClosedInv, IInv
  <1>1. CASE ReconcileNoChange \/ Resume
    BY <1>1, VouchStep DEF ReconcileNoChange, Resume, TypeOK, closeVars
  <1>2. CASE ReconcileBegin \/ CommitDecision \/ RecoverDecision
    BY <1>2, BeginCommitStep
  <1>3. CASE CommitSave
    BY <1>3, SaveStep
  <1>4. CASE CommitStage \/ CommitReceipt
    BY <1>4, CommitStep
  <1>5. CASE RecoverOperation
    BY <1>5, RecoverStep
  <1>6. CASE FinalizationFails
    BY <1>6, FailedFinalization
  <1>7. CASE Decide
    BY <1>7, DecideStep
  <1>8. CASE ForeignEdit
    BY <1>8 DEF ForeignEdit
  <1>9. CASE Quiet
    BY <1>9, QuietSteps, AtomicSame
  <1>10. CASE UNCHANGED vars
    BY <1>10, AtomicSame DEF vars, closeVars
  <1>. QED  BY <1>1, <1>2, <1>3, <1>4, <1>5, <1>6, <1>7, <1>8, <1>9, <1>10
             DEF Next, World, Daemon, Failures, Quiet

\* As long as nobody else replaces the account file, the file, its operation
\* rows and its receipts behave, through every crash and recovery, like an
\* account that reconciliations and frozen decisions change atomically, each
\* decision once and on the state it was frozen on.
THEOREM AccountImplementsAtomic ==
    ASSUME EditsAllowed = FALSE
    PROVE  Spec => AccountIsAtomic
  <1>1. Init => Atomic!Init
    <2>1. Init => Promised = {}
      BY DEF Init, Promised, SyncApplied, NoRow
    <2>. QED  BY <2>1 DEF Init, Atomic!Init, Atomic!NotDecided, NotDecided
  <1>2. ClosedInv /\ [Next]_vars => [Atomic!Next]_<<file, Promised, dsnap>>
    BY StepIsAtomic
  <1>. QED  BY <1>1, <1>2, ClosedInvariantHolds, PTL DEF Spec, AccountIsAtomic, Atomic!Spec

=============================================================================
