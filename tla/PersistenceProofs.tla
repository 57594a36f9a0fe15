-------------------------- MODULE PersistenceProofs --------------------------
(***************************************************************************)
(* Proofs about what is kept on disk.                                      *)
(*                                                                         *)
(* WriterLease, for every set of processes, every ttl and renewal interval *)
(* and every bound.  Fencing is proved with stalls, clock steps and a lock *)
(* file that is replaced under its holder; that a punctual holder keeps its*)
(* lease, without a step of the wall clock.                                *)
(*                                                                         *)
(* StateBackup, for every clock and every number of sessions, commits of   *)
(* other processes, edits, deaths and damaged files.                       *)
(*                                                                         *)
(* AuditLedger, for every event and every number of storage faults.        *)
(***************************************************************************)
EXTENDS WriterLease, StateBackup, AuditLedger, Sums, SequenceTheorems, TLAPS

-----------------------------------------------------------------------------
(* The inductive invariants.                                               *)

\* The row is always one of the latest acquisition, and no acquisition is
\* shared: this is why a match of owner and generation identifies a lease
\* although a release lets the generation start at 1 again.
LatestRow ==
    /\ row.generation <= epochs
    /\ \A p \in Proc :
          st[p] = "held" =>
             /\ lease[p].epoch \in 1..epochs
             /\ Matches(p) => lease[p].epoch = epochs
    /\ \A p, q \in Proc :
          st[p] = "held" /\ st[q] = "held" /\ lease[p].epoch = lease[q].epoch => p = q

FencedInv == TypeOK /\ LatestRow

\* A holder owns the row, and the row outlasts the renewal interval that the
\* guards still have to wait.
Covered(p) ==
    /\ Matches(p) /\ ~lease[p].lost
    /\ row.expires + Interval >= now + TTL
    /\ \A k \in Guards :
          /\ ~guard[p][k].lost
          /\ guard[p][k].seen => guard[p][k].since < Interval
          /\ guard[p][k].since < Interval => row.expires + guard[p][k].since >= now + TTL

PunctualInv == TypeOK /\ \A p \in Proc : st[p] = "held" => Covered(p)

-----------------------------------------------------------------------------
(* Types.                                                                  *)

\* Initially no process runs and there is no row.
LEMMA FencedInit ==
    ASSUME TimeAssumption, ProcAssumption, Init
    PROVE  FencedInv
  <1>1. TypeOK
    BY DEF TypeOK, Init, TimeAssumption, NoRow, NoLease, NewGuard
  <1>2. LatestRow
    BY DEF LatestRow, Init, NoRow
  <1>. QED  BY <1>1, <1>2 DEF FencedInv

GuardRecord == [lost : BOOLEAN, since : 0..Interval, seen : BOOLEAN]

\* A guard after an update of two of its fields.
LEMMA GuardFields ==
    ASSUME TimeAssumption, NEW g \in GuardRecord
    PROVE  /\ LET h == [g EXCEPT !.seen = TRUE, !.since = 0]
              IN  h \in GuardRecord /\ h.lost = g.lost /\ h.seen = TRUE /\ h.since = 0
           /\ [g EXCEPT !.lost = TRUE, !.seen = TRUE] \in GuardRecord
  <1>1. PICK f \in GuardRecord : f = [g EXCEPT !.seen = TRUE]
    BY DEF GuardRecord
  <1>2. f.lost = g.lost /\ f.seen = TRUE
    BY <1>1 DEF GuardRecord
  <1>3. [g EXCEPT !.seen = TRUE, !.since = 0] = [f EXCEPT !.since = 0]
    BY <1>1
  <1>4. LET h == [f EXCEPT !.since = 0]
        IN  h \in GuardRecord /\ h.lost = f.lost /\ h.seen = f.seen /\ h.since = 0
    BY DEF GuardRecord, TimeAssumption
  <1>5. PICK e \in GuardRecord : e = [g EXCEPT !.lost = TRUE]
    BY DEF GuardRecord
  <1>6. [g EXCEPT !.lost = TRUE, !.seen = TRUE] = [e EXCEPT !.seen = TRUE]
    BY <1>5
  <1>7. [e EXCEPT !.seen = TRUE] \in GuardRecord
    BY DEF GuardRecord
  <1>. QED  BY <1>2, <1>3, <1>4, <1>6, <1>7

\* A tick ages every guard and keeps its type.
LEMMA LaterType ==
    ASSUME TimeAssumption, NEW g \in GuardRecord
    PROVE  /\ Later(g) \in GuardRecord
           /\ Later(g).lost = g.lost /\ Later(g).seen = FALSE
           /\ Later(g).since = IF g.since < Interval THEN g.since + 1 ELSE g.since
  <1>1. PICK n \in 0..Interval : n = IF g.since < Interval THEN g.since + 1 ELSE g.since
    BY DEF GuardRecord, TimeAssumption
  <1>2. PICK d \in GuardRecord : d = [g EXCEPT !.since = n]
    BY DEF GuardRecord
  <1>3. d.lost = g.lost /\ d.since = n
    BY <1>2 DEF GuardRecord
  <1>4. Later(g) = [d EXCEPT !.seen = FALSE]
    BY <1>1, <1>2 DEF Later
  <1>5. LET h == [d EXCEPT !.seen = FALSE]
        IN  h \in GuardRecord /\ h.lost = d.lost /\ h.seen = FALSE /\ h.since = d.since
    BY DEF GuardRecord
  <1>. QED  BY <1>1, <1>3, <1>4, <1>5

\* What the outcomes of a check leave in the guards.
LEMMA GuardUpdates ==
    ASSUME TimeAssumption, TypeOK, NEW p \in Proc, NEW k \in Guards
    PROVE  /\ RenewNoted(p, k) =>
                 /\ guard' \in [Proc -> [Guards -> GuardRecord]]
                 /\ \A q \in Proc : \A j \in Guards :
                       /\ guard'[q][j].lost = guard[q][j].lost
                       /\ IF q = p /\ j = k
                          THEN guard'[q][j].since = 0 /\ guard'[q][j].seen
                          ELSE guard'[q][j] = guard[q][j]
           /\ guard' = [guard EXCEPT ![p][k].seen = TRUE] =>
                 /\ guard' \in [Proc -> [Guards -> GuardRecord]]
                 /\ \A q \in Proc : \A j \in Guards :
                       /\ guard'[q][j].lost = guard[q][j].lost
                       /\ guard'[q][j].since = guard[q][j].since
                       /\ q # p \/ j # k => guard'[q][j] = guard[q][j]
           /\ guard' = [guard EXCEPT ![p][k].lost = TRUE, ![p][k].seen = TRUE] =>
                 guard' \in [Proc -> [Guards -> GuardRecord]]
  <1>1. guard \in [Proc -> [Guards -> GuardRecord]] /\ guard[p][k] \in GuardRecord
    BY DEF TypeOK, GuardRecord
  <1>2. ASSUME NEW g \in GuardRecord, guard' = [guard EXCEPT ![p][k] = g]
        PROVE  /\ guard' \in [Proc -> [Guards -> GuardRecord]]
               /\ guard'[p][k] = g
               /\ \A q \in Proc : \A j \in Guards :
                     q # p \/ j # k => guard'[q][j] = guard[q][j]
    BY <1>1, <1>2
  <1>4. ASSUME RenewNoted(p, k)
        PROVE  /\ guard' \in [Proc -> [Guards -> GuardRecord]]
               /\ \A q \in Proc : \A j \in Guards :
                     /\ guard'[q][j].lost = guard[q][j].lost
                     /\ IF q = p /\ j = k
                        THEN guard'[q][j].since = 0 /\ guard'[q][j].seen
                        ELSE guard'[q][j] = guard[q][j]
    <2>. DEFINE g == [guard[p][k] EXCEPT !.seen = TRUE, !.since = 0]
    <2>1. g \in GuardRecord /\ g.lost = guard[p][k].lost /\ g.seen = TRUE /\ g.since = 0
      BY <1>1, GuardFields, Zenon
    <2>2. guard' = [guard EXCEPT ![p][k] = g]
      BY <1>4 DEF RenewNoted
    <2>. HIDE DEF g
    <2>. QED  BY <1>2, <2>1, <2>2
  <1>5. ASSUME guard' = [guard EXCEPT ![p][k].seen = TRUE]
        PROVE  /\ guard' \in [Proc -> [Guards -> GuardRecord]]
               /\ \A q \in Proc : \A j \in Guards :
                     /\ guard'[q][j].lost = guard[q][j].lost
                     /\ guard'[q][j].since = guard[q][j].since
                     /\ q # p \/ j # k => guard'[q][j] = guard[q][j]
    <2>. DEFINE g == [guard[p][k] EXCEPT !.seen = TRUE]
    <2>1. g \in GuardRecord /\ g.lost = guard[p][k].lost /\ g.since = guard[p][k].since
      BY <1>1 DEF GuardRecord
    <2>2. guard' = [guard EXCEPT ![p][k] = g]
      BY <1>5
    <2>. HIDE DEF g
    <2>. QED  BY <1>2, <2>1, <2>2
  <1>6. ASSUME guard' = [guard EXCEPT ![p][k].lost = TRUE, ![p][k].seen = TRUE]
        PROVE  guard' \in [Proc -> [Guards -> GuardRecord]]
    <2>. DEFINE g == [guard[p][k] EXCEPT !.lost = TRUE, !.seen = TRUE]
    <2>1. g \in GuardRecord
      BY <1>1, GuardFields, Zenon
    <2>2. guard' = [guard EXCEPT ![p][k] = g]
      BY <1>6
    <2>. HIDE DEF g
    <2>. QED  BY <1>2, <2>1, <2>2
  <1>. QED  BY <1>4, <1>5, <1>6

\* Losing a lease keeps its generation and its epoch.
LEMMA LoseFields ==
    ASSUME TypeOK, NEW p \in Proc, Lose(p)
    PROVE  /\ lease' \in [Proc -> [generation : 0..MaxAcquired, lost : BOOLEAN,
                                   epoch : 0..MaxAcquired]]
           /\ \A q \in Proc : /\ lease'[q].epoch = lease[q].epoch
                              /\ lease'[q].generation = lease[q].generation
  <1>1. lease[p] \in [generation : 0..MaxAcquired, lost : BOOLEAN, epoch : 0..MaxAcquired]
    BY DEF TypeOK
  <1>2. LET l == [lease[p] EXCEPT !.lost = TRUE]
        IN  /\ l \in [generation : 0..MaxAcquired, lost : BOOLEAN, epoch : 0..MaxAcquired]
            /\ l.generation = lease[p].generation /\ l.epoch = lease[p].epoch
    BY <1>1
  <1>. QED  BY <1>2 DEF Lose, TypeOK

\* A process that leaves keeps every type.
LEMMA LeaveType ==
    ASSUME TimeAssumption, TypeOK, NEW p \in Proc, Leave(p),
           row' = row \/ row' = NoRow
    PROVE  TypeOK'
  BY DEF TypeOK, Leave, Unlock, TimeAssumption, NoRow, NoLease, NewGuard

\* Every step of a process keeps the invariant of the fencing proof.
LEMMA FencedProcess ==
    ASSUME TimeAssumption, ProcAssumption, FencedInv, NEW p \in Proc,
           Acquire(p) \/ AssertCurrent(p) \/ Release(p) \/ Crash(p)
    PROVE  FencedInv'
  <1>. USE DEF FencedInv
  <1>1. CASE AcquireLock(p)
    BY <1>1 DEF AcquireLock, TypeOK, LatestRow, Matches
  <1>2. CASE AcquireRow(p)
    <2>1. NextGeneration \in 1..(epochs + 1) /\ epochs + 1 \in 1..MaxAcquired
      BY <1>2 DEF AcquireRow, NextGeneration, TypeOK, LatestRow, TimeAssumption
    <2>2. TypeOK'
      BY <1>2, <2>1 DEF AcquireRow, TypeOK, TimeAssumption, NewGuard
    <2>3. LatestRow'
      BY <1>2, <2>1 DEF AcquireRow, TypeOK, LatestRow, Matches
    <2>. QED  BY <2>2, <2>3
  <1>3. CASE AcquireBusy(p)
    BY <1>3 DEF AcquireBusy, Unlock, TypeOK, LatestRow, Matches
  <1>4. CASE AssertCurrent(p)
    <2>1. CASE Current(p)
      BY <1>4, <2>1 DEF AssertCurrent, Pass, TypeOK, LatestRow, Matches
    <2>2. CASE ~Current(p)
      BY <1>4, <2>2, LoseFields DEF AssertCurrent, TypeOK, LatestRow, Matches
    <2>. QED  BY <2>1, <2>2
  <1>5. CASE Release(p)
    <2>1. TypeOK'
      BY <1>5, LeaveType DEF Release, DeleteOwnRow
    <2>2. LatestRow'
      BY <1>5 DEF Release, DeleteOwnRow, Leave, TypeOK, LatestRow, Matches, NoRow,
                  ProcAssumption
    <2>. QED  BY <2>1, <2>2
  <1>6. CASE Crash(p)
    <2>1. TypeOK'
      BY <1>6, LeaveType DEF Crash
    <2>2. LatestRow'
      BY <1>6 DEF Crash, Leave, TypeOK, LatestRow, Matches
    <2>. QED  BY <2>1, <2>2
  <1>. QED  BY <1>1, <1>2, <1>3, <1>4, <1>5, <1>6 DEF Acquire

\* Every check of a guard keeps the invariant of the fencing proof.
LEMMA FencedCheck ==
    ASSUME TimeAssumption, FencedInv, NEW p \in Proc, NEW k \in Guards, Check(p, k)
    PROVE  FencedInv'
  <1>. USE DEF FencedInv
  <1>1. CASE CheckRenews(p, k)
    <2>1. /\ row' \in [owner : Proc \cup {NoProc}, generation : 0..MaxAcquired,
                       expires : 0..(MaxTime + TTL)]
          /\ row'.owner = row.owner /\ row'.generation = row.generation
      <3>1. PICK x \in 0..(MaxTime + TTL) : x = now + TTL
        BY DEF TypeOK, TimeAssumption
      <3>2. row' = [row EXCEPT !.expires = x]
        BY <1>1, <3>1 DEF CheckRenews, RenewedExpiry
      <3>. QED  BY <3>2 DEF TypeOK
    <2>2. guard' \in [Proc -> [Guards -> GuardRecord]]
      BY <1>1, GuardUpdates DEF CheckRenews
    <2>3. passed' = lease[p].epoch /\ UNCHANGED <<flock, now, steps, st, lease, epochs>>
          /\ st[p] = "held"
      BY <1>1 DEF CheckRenews, Pass
    <2>4. TypeOK'
      BY <2>1, <2>2, <2>3 DEF TypeOK, LatestRow, GuardRecord
    <2>5. LatestRow'
      BY <2>1, <2>3 DEF LatestRow, Matches
    <2>. QED  BY <2>4, <2>5
  <1>2. CASE CheckAsserts(p, k)
    <2>1. guard' \in [Proc -> [Guards -> GuardRecord]]
      BY <1>2, GuardUpdates DEF CheckAsserts
    <2>. QED  BY <1>2, <2>1 DEF CheckAsserts, Pass, TypeOK, LatestRow, Matches, GuardRecord
  <1>3. CASE CheckLoses(p, k)
    <2>1. guard' \in [Proc -> [Guards -> GuardRecord]]
      BY <1>3, GuardUpdates DEF CheckLoses
    <2>2. /\ lease' \in [Proc -> [generation : 0..MaxAcquired, lost : BOOLEAN,
                                  epoch : 0..MaxAcquired]]
          /\ \A q \in Proc : /\ lease'[q].epoch = lease[q].epoch
                             /\ lease'[q].generation = lease[q].generation
      BY <1>3, LoseFields DEF CheckLoses
    <2>. QED  BY <1>3, <2>1, <2>2 DEF CheckLoses, TypeOK, LatestRow, Matches, GuardRecord
  <1>4. CASE CheckClockInvalid(p, k)
    <2>1. guard' \in [Proc -> [Guards -> GuardRecord]]
      BY <1>4, GuardUpdates DEF CheckClockInvalid
    <2>. QED  BY <1>4, <2>1 DEF CheckClockInvalid, TypeOK, LatestRow, Matches, GuardRecord
  <1>. QED  BY <1>1, <1>2, <1>3, <1>4 DEF Check

\* The invariant of the fencing proof is inductive.
LEMMA FencedStep ==
    ASSUME TimeAssumption, ProcAssumption, FencedInv, [Next]_vars
    PROVE  FencedInv'
  <1>. USE DEF FencedInv
  <1>1. CASE Tick
    <2>1. \A p \in Proc : \A k \in Guards : guard[p][k] \in GuardRecord
      BY DEF TypeOK, GuardRecord
    <2>2. guard' \in [Proc -> [Guards -> GuardRecord]]
      BY <1>1, <2>1, LaterType DEF Tick
    <2>. QED  BY <1>1, <2>2 DEF Tick, TypeOK, LatestRow, Matches, TimeAssumption, GuardRecord
  <1>2. CASE ClockStep
    BY <1>2 DEF ClockStep, procVars, TypeOK, LatestRow, Matches, TimeAssumption
  <1>3. CASE LockFileReplaced
    BY <1>3 DEF LockFileReplaced, procVars, TypeOK, LatestRow, Matches
  <1>4. CASE \E p \in Proc : Acquire(p) \/ AssertCurrent(p) \/ Release(p) \/ Crash(p)
    BY <1>4, FencedProcess
  <1>5. CASE \E p \in Proc : \E k \in Guards : Check(p, k)
    BY <1>5, FencedCheck
  <1>6. CASE UNCHANGED vars
    BY <1>6 DEF vars, procVars, TypeOK, LatestRow, Matches
  <1>. QED  BY <1>1, <1>2, <1>3, <1>4, <1>5, <1>6 DEF Next

\* Every variable of the lease keeps its type, and the row is one of the
\* latest acquisition, whatever the processes and the clock do
\* (writer_lease.py acquire, renew, release).
THEOREM LeaseInvariant ==
    ASSUME TimeAssumption, ProcAssumption
    PROVE  Spec => []FencedInv
  <1>1. Init => FencedInv
    BY FencedInit
  <1>2. FencedInv /\ [Next]_vars => FencedInv'
    BY FencedStep
  <1>. QED  BY <1>1, <1>2, PTL DEF Spec

-----------------------------------------------------------------------------
(* Fencing: what a step may never do.                                      *)

\* Whoever passes a check holds the lease that the row is of.
LEMMA PassIsCurrent ==
    ASSUME TimeAssumption, ProcAssumption, FencedInv, Next, passed' # passed
    PROVE  /\ UNCHANGED <<st, lease, now>>
           /\ passed' = epochs
           /\ \E q \in Proc : st[q] = "held" /\ Current(q) /\ passed' = lease[q].epoch
  <1>1. PICK q \in Proc : AssertCurrent(q) \/ \E k \in Guards : Check(q, k)
    BY DEF Next, Tick, ClockStep, LockFileReplaced, Acquire, AcquireLock, AcquireRow,
           AcquireBusy, Release, Crash, Leave
  <1>2. /\ UNCHANGED <<st, lease, now>>
        /\ st[q] = "held" /\ Current(q) /\ passed' = lease[q].epoch
    BY <1>1 DEF AssertCurrent, Check, CheckRenews, CheckAsserts, CheckLoses,
                CheckClockInvalid, Renewable, Pass
  <1>. QED  BY <1>2 DEF FencedInv, LatestRow, Current

\* No step moves the last successful check to an earlier acquisition.
LEMMA FencedAction ==
    ASSUME TimeAssumption, ProcAssumption, FencedInv, [Next]_vars
    PROVE  passed' >= passed
  <1>1. CASE passed' = passed
    BY <1>1 DEF FencedInv, TypeOK
  <1>2. CASE passed' # passed
    <2>1. Next
      BY <1>2 DEF vars
    <2>2. passed' = epochs
      BY <1>2, <2>1, PassIsCurrent
    <2>. QED  BY <2>2 DEF FencedInv, TypeOK, TimeAssumption
  <1>. QED  BY <1>1, <1>2

\* An expired lease stays expired, and no check passes for it.
LEMMA ExpiredAction ==
    ASSUME TimeAssumption, ProcAssumption, FencedInv, [Next]_vars,
           NEW p \in Proc, Expired(p), steps' = steps
    PROVE  \/ st'[p] = "down"
           \/ Expired(p)' /\ (passed' # passed => passed' # lease[p].epoch)
  <1>1. passed' # passed => passed' # lease[p].epoch
    <2>1. SUFFICES ASSUME passed' # passed PROVE passed' # lease[p].epoch
      OBVIOUS
    <2>2. Next
      BY <2>1 DEF vars
    <2>3. PICK q \in Proc : st[q] = "held" /\ Current(q) /\ passed' = lease[q].epoch
      BY <2>1, <2>2, PassIsCurrent
    <2>4. q # p
      BY <2>3 DEF Expired, Current, FencedInv, TypeOK, TimeAssumption
    <2>. QED  BY <2>3, <2>4 DEF Expired, FencedInv, LatestRow
  <1>2. st'[p] = "down" \/ Expired(p)'
    <2>. USE DEF Expired, FencedInv, TypeOK
    <2>1. CASE UNCHANGED vars
      BY <2>1 DEF vars, procVars, Matches
    <2>2. CASE Tick
      BY <2>2 DEF Tick, Matches, TimeAssumption
    <2>3. CASE ClockStep
      BY <2>3 DEF ClockStep
    <2>4. CASE LockFileReplaced
      BY <2>4 DEF LockFileReplaced, procVars, Matches
    <2>5. ASSUME NEW q \in Proc, Acquire(q) PROVE Expired(p)'
      BY <2>5 DEF Acquire, AcquireLock, AcquireRow, AcquireBusy, Matches
    <2>6. ASSUME NEW q \in Proc, AssertCurrent(q) PROVE Expired(p)'
      BY <2>6, LoseFields DEF AssertCurrent, Matches
    <2>7. ASSUME NEW q \in Proc, Release(q) PROVE st'[p] = "down" \/ Expired(p)'
      BY <2>7 DEF Release, DeleteOwnRow, Leave, Matches, NoRow, ProcAssumption
    <2>8. ASSUME NEW q \in Proc, Crash(q) PROVE st'[p] = "down" \/ Expired(p)'
      BY <2>8 DEF Crash, Leave, Matches
    <2>9. ASSUME NEW q \in Proc, NEW k \in Guards, Check(q, k) PROVE Expired(p)'
      <3>1. CASE CheckRenews(q, k)
        <4>1. q # p
          BY <3>1 DEF CheckRenews, Renewable, Current, TimeAssumption
        <4>. QED  BY <3>1, <4>1 DEF CheckRenews, Renewable, Current, Matches
      <3>2. CASE CheckAsserts(q, k)
        BY <3>2 DEF CheckAsserts, Matches
      <3>3. CASE CheckLoses(q, k)
        BY <3>3 DEF CheckLoses, Lose, Matches
      <3>4. CASE CheckClockInvalid(q, k)
        BY <3>4 DEF CheckClockInvalid, Matches
      <3>. QED  BY <2>9, <3>1, <3>2, <3>3, <3>4 DEF Check
    <2>. QED  BY <2>1, <2>2, <2>3, <2>4, <2>5, <2>6, <2>7, <2>8, <2>9 DEF Next
  <1>. QED  BY <1>1, <1>2

\* Only its owner changes or deletes an unexpired row.
LEMMA OwnerAction ==
    ASSUME TimeAssumption, ProcAssumption, FencedInv, [Next]_vars, NEW p \in Proc,
           st[p] = "held", Matches(p), now < row.expires, row' # row
    PROVE  row'.owner = p \/ st'[p] = "down"
  <1>. USE DEF FencedInv, TypeOK, Matches
  <1>1. PICK q \in Proc : \/ AcquireRow(q) \/ Release(q)
                          \/ \E k \in Guards : CheckRenews(q, k)
    BY DEF Next, vars, Tick, ClockStep, LockFileReplaced, Acquire, AcquireLock, AcquireBusy,
           AssertCurrent, Crash, Check, CheckAsserts, CheckLoses, CheckClockInvalid
  <1>2. ~AcquireRow(q)
    BY DEF AcquireRow, RowExpired, NoRow, ProcAssumption, TimeAssumption
  <1>3. CASE Release(q)
    BY <1>3 DEF Release, DeleteOwnRow, Leave
  <1>4. CASE \E k \in Guards : CheckRenews(q, k)
    BY <1>4 DEF CheckRenews
  <1>. QED  BY <1>1, <1>2, <1>3, <1>4

\* At most one process writes: once a later writer has passed a check no
\* earlier one passes again, an expired lease stays expired unless the wall
\* clock is set back, and no other process takes or deletes the row of a live
\* holder (writer_lease.py acquire, renew, assert_current, release).
THEOREM LeaseIsFenced ==
    ASSUME TimeAssumption, ProcAssumption
    PROVE  Spec => OneWriter
  <1>1. FencedInv /\ [Next]_vars => [passed' >= passed]_vars
    BY FencedAction
  <1>2. FencedInv /\ [Next]_vars
           => [\A p \in Proc :
                 Expired(p) /\ steps' = steps
                    => \/ st'[p] = "down"
                       \/ Expired(p)' /\ (passed' # passed => passed' # lease[p].epoch)]_vars
    BY ExpiredAction
  <1>3. FencedInv /\ [Next]_vars
           => [\A p \in Proc :
                 st[p] = "held" /\ Matches(p) /\ now < row.expires /\ row' # row
                    => row'.owner = p \/ st'[p] = "down"]_vars
    BY OwnerAction
  <1>4. Spec => []FencedInv
    BY LeaseInvariant
  <1>5. FencedInv => TypeOK
    BY DEF FencedInv
  <1>. QED
    BY <1>1, <1>2, <1>3, <1>4, <1>5, PTL
       DEF Spec, OneWriter, ChecksAreFenced, ExpiredNeverRevives, RowOutlivesOnlyItsOwner

-----------------------------------------------------------------------------
(* Punctual holders.                                                       *)

\* A covered holder's row is unexpired, so no other process acquires it.
LEMMA CoveredIsCurrent ==
    ASSUME TimeAssumption, TypeOK, NEW p \in Proc, Covered(p)
    PROVE  Current(p) /\ now < row.expires
  BY DEF Covered, Current, TypeOK, TimeAssumption

\* A tick comes only after some guard of every holder was asked.
LEMMA PunctualTick ==
    ASSUME TimeAssumption, ProcAssumption, Punctual = TRUE, TypeOK, Tick,
           NEW p \in Proc, st[p] = "held", Covered(p)
    PROVE  Covered(p)'
  <1>1. PICK k \in Guards : guard[p][k].seen
    BY DEF Tick
  <1>2. row.expires + guard[p][k].since >= now + TTL /\ guard[p][k].since < Interval
    BY <1>1 DEF Covered
  <1>3. row.expires + Interval >= now + 1 + TTL
    BY <1>2 DEF TypeOK, TimeAssumption
  <1>4. \A j \in Guards : guard'[p][j] = Later(guard[p][j])
    BY DEF Tick
  <1>5. ASSUME NEW j \in Guards
        PROVE  /\ ~guard'[p][j].lost /\ ~guard'[p][j].seen
               /\ guard'[p][j].since < Interval
                     => row.expires + guard'[p][j].since >= now + 1 + TTL
    <2>1. guard[p][j] \in GuardRecord
      BY DEF TypeOK, GuardRecord
    <2>2. /\ guard'[p][j].lost = guard[p][j].lost /\ guard'[p][j].seen = FALSE
          /\ guard'[p][j].since = IF guard[p][j].since < Interval
                                   THEN guard[p][j].since + 1 ELSE guard[p][j].since
      BY <1>4, <2>1, LaterType
    <2>3. guard[p][j].since \in 0..Interval
      BY <2>1 DEF GuardRecord
    <2>4. ~guard[p][j].lost
          /\ (guard[p][j].since < Interval => row.expires + guard[p][j].since >= now + TTL)
      BY DEF Covered
    <2>. QED  BY <2>2, <2>3, <2>4 DEF TypeOK, TimeAssumption
  <1>. QED  BY <1>3, <1>5 DEF Covered, Matches, Tick

\* Every step of a process leaves every holder covered.
LEMMA PunctualProcess ==
    ASSUME TimeAssumption, ProcAssumption, PunctualInv, NEW q \in Proc,
           Acquire(q) \/ AssertCurrent(q) \/ Release(q) \/ Crash(q),
           NEW p \in Proc, st'[p] = "held"
    PROVE  Covered(p)'
  <1>. USE DEF PunctualInv, TypeOK
  <1>1. CASE AcquireRow(q)
    <2>1. CASE p = q
      BY <1>1, <2>1 DEF AcquireRow, Covered, Matches, NewGuard, TimeAssumption
    <2>2. CASE p # q
      <3>1. st[p] = "held"
        BY <1>1, <2>2 DEF AcquireRow
      <3>2. now < row.expires /\ row.owner = p
        BY <3>1, CoveredIsCurrent DEF Covered, Matches
      <3>. QED  BY <1>1, <3>2 DEF AcquireRow, RowExpired, NoRow, ProcAssumption
    <2>. QED  BY <2>1, <2>2
  <1>2. CASE AcquireLock(q) \/ AcquireBusy(q)
    BY <1>2 DEF AcquireLock, AcquireBusy, Covered, Matches
  <1>3. CASE AssertCurrent(q)
    BY <1>3, CoveredIsCurrent DEF AssertCurrent, Covered, Matches
  <1>4. CASE Release(q) \/ Crash(q)
    <2>1. p # q /\ st[p] = "held" /\ lease'[p] = lease[p] /\ guard'[p] = guard[p] /\ now' = now
      BY <1>4 DEF Release, Crash, Leave
    <2>2. row' = row
      BY <1>4, <2>1 DEF Release, Crash, DeleteOwnRow, Covered, Matches
    <2>. QED  BY <2>1, <2>2 DEF Covered, Matches
  <1>. QED  BY <1>1, <1>2, <1>3, <1>4 DEF Acquire

\* Every check of a guard leaves every holder covered: a due guard renews the
\* row, and one that is not due has an interval to go.
LEMMA PunctualCheck ==
    ASSUME TimeAssumption, MaxSteps = 0, PunctualInv, NEW q \in Proc, NEW k \in Guards,
           Check(q, k), NEW p \in Proc, st'[p] = "held"
    PROVE  Covered(p)'
  <1>. USE DEF PunctualInv, TypeOK
  <1>1. st[q] = "held" /\ Covered(q) /\ Current(q)
    BY CoveredIsCurrent
       DEF Check, CheckRenews, CheckAsserts, CheckLoses, CheckClockInvalid
  <1>2. ~CheckLoses(q, k) /\ ~CheckClockInvalid(q, k)
    BY <1>1 DEF CheckLoses, CheckClockInvalid, Renewable
  <1>3. CASE CheckRenews(q, k)
    <2>1. st[p] = "held" /\ Covered(p) /\ p = q
      BY <1>1, <1>3 DEF CheckRenews, Covered, Matches
    <2>2. /\ row' = [row EXCEPT !.expires = now + TTL]
          /\ lease' = lease /\ now' = now
      BY <1>3 DEF CheckRenews, RenewedExpiry
    <2>3. \A j \in Guards :
             /\ ~guard'[p][j].lost /\ guard'[p][j].since \in Nat
             /\ guard'[p][j].seen => guard'[p][j].since < Interval
      BY <1>3, <2>1 DEF CheckRenews, RenewNoted, Covered, TimeAssumption
    <2>. QED  BY <2>1, <2>2, <2>3 DEF Covered, Matches, TimeAssumption
  <1>4. CASE CheckAsserts(q, k)
    <2>1. \A j \in Guards :
             /\ guard'[p][j].lost = guard[p][j].lost
             /\ guard'[p][j].since = guard[p][j].since
             /\ p # q \/ j # k => guard'[p][j] = guard[p][j]
      BY <1>4, GuardUpdates DEF CheckAsserts
    <2>2. st[p] = "held" /\ Covered(p) /\ (p = q => guard[p][k].since < Interval)
      BY <1>4 DEF CheckAsserts, Due, TimeAssumption
    <2>3. /\ row' = row /\ lease' = lease /\ now' = now
      BY <1>4 DEF CheckAsserts
    <2>. QED  BY <2>1, <2>2, <2>3 DEF Covered, Matches
  <1>. QED  BY <1>2, <1>3, <1>4 DEF Check

\* The invariant of the punctual holder is inductive.
LEMMA PunctualStep ==
    ASSUME TimeAssumption, ProcAssumption, Punctual = TRUE, MaxSteps = 0,
           FencedInv, FencedInv', PunctualInv, [Next]_vars
    PROVE  PunctualInv'
  <1>1. TypeOK'
    BY DEF FencedInv
  <1>2. SUFFICES ASSUME NEW p \in Proc, st'[p] = "held" PROVE Covered(p)'
    BY <1>1 DEF PunctualInv
  <1>3. CASE Tick
    BY <1>2, <1>3, PunctualTick DEF PunctualInv, Tick
  <1>4. CASE ClockStep
    BY <1>4 DEF ClockStep, PunctualInv, TypeOK
  <1>5. CASE LockFileReplaced \/ UNCHANGED vars
    BY <1>2, <1>5 DEF LockFileReplaced, vars, procVars, PunctualInv, Covered, Matches
  <1>6. CASE \E q \in Proc : Acquire(q) \/ AssertCurrent(q) \/ Release(q) \/ Crash(q)
    BY <1>2, <1>6, PunctualProcess
  <1>7. CASE \E q \in Proc : \E k \in Guards : Check(q, k)
    BY <1>2, <1>7, PunctualCheck
  <1>. QED  BY <1>3, <1>4, <1>5, <1>6, <1>7 DEF Next

\* A holder whose guards are asked between any two ticks never loses its
\* lease, for every renewal interval shorter than the ttl and whichever of the
\* two guards is asked, as long as the wall clock is not set
\* (writer_lease.py WriterLeaseGuard.check).
THEOREM PunctualHolderIsSafe ==
    ASSUME TimeAssumption, ProcAssumption, Punctual = TRUE, MaxSteps = 0
    PROVE  Spec => []PunctualHolderKeepsLease
  <1>1. Init => PunctualInv
    BY FencedInit DEF FencedInv, PunctualInv, Init
  <1>2. FencedInv /\ FencedInv' /\ PunctualInv /\ [Next]_vars => PunctualInv'
    BY PunctualStep
  <1>3. PunctualInv => PunctualHolderKeepsLease
    BY CoveredIsCurrent DEF PunctualInv, PunctualHolderKeepsLease
  <1>4. Spec => []FencedInv
    BY LeaseInvariant
  <1>. QED  BY <1>1, <1>2, <1>3, <1>4, PTL DEF Spec

-----------------------------------------------------------------------------
(* Backups.  What is true of the work of a process, at each of its steps.  *)

Steps == {"idle", "failed", "database", "account", "config", "calendar", "check", "verify",
          "publish", "receipt", "checkpoint"}
Job == [at : Steps, id : Times \cup {None}, files : Files, decision : Nat,
        account : Nat \cup {None}, config : Nat \cup {None}, manifest : Manifest \cup {None}]
BundleRecord == [files : Files, manifest : Manifest]

Started(w) == w.at \notin {"idle", "failed"}
Copied(w) == Started(w) /\ w.at # "database"
Sealed(w) == w.at \in {"verify", "publish", "receipt", "checkpoint"}
Placed(w) == w.at \in {"receipt", "checkpoint"}
BundleOf(w) == [files |-> w.files, manifest |-> w.manifest]

\* What close-session read belongs to the session it closes and is not newer than the account.
ReadInv(w) ==
    /\ w.decision = session /\ session \in decisions
    /\ w.account \in Nat /\ w.config \in Nat /\ w.account <= account

\* The database was copied at a moment between the reading of the account and its copy; if the
\* two accounts are equal it is a moment of that account.
MomentInv(w) ==
    IF w.at = "account"
    THEN \E a \in w.account..account : <<w.files["database"].chain, a>> \in moments
    ELSE w.files["account"] = w.account => <<w.files["database"].chain, w.account>> \in moments

DaemonInv(w) ==
    /\ Started(w) => ReadInv(w)
    /\ Copied(w) => MomentInv(w)
    /\ w.at = "check" => w.files["calendar"] \in Nat
    /\ w.at = "checkpoint" => w.manifest \in receipts

OperatorInv(w) ==
    /\ w.at \notin {"config", "calendar", "checkpoint"}
    /\ w.files["config"] = None /\ w.files["calendar"] = None

\* The manifest seals the copied files and names what they were copied for.
SealInv(p, w) ==
    /\ w.manifest \in Manifest /\ w.manifest.id = w.id /\ w.manifest.digests = w.files
    /\ IF p = "daemon"
       THEN /\ w.manifest.deployment \in DeploymentRecord
            /\ w.manifest.deployment.decision = w.decision
            /\ w.manifest.deployment.account = w.account
       ELSE w.manifest.deployment = None

JobInv(p, w) ==
    /\ Started(w) => w.id \in Times
    /\ Copied(w) => w.files["database"] \in DatabaseCopy
    /\ p = "daemon" => DaemonInv(w)
    /\ p = "operator" => OperatorInv(w)
    /\ Sealed(w) => SealInv(p, w)
    /\ Sealed(w) /\ w.at # "verify" => Verify(BundleOf(w))
    /\ Placed(w) => w.id \in DOMAIN sound /\ sound[w.id] = BundleOf(w)

StateTypes ==
    /\ chain \in Seq(AuditEvent) /\ decisions \subseteq 1..MaxSession /\ closed \subseteq decisions
    /\ account \in Nat /\ config \in Nat /\ calendar \in Nat /\ loaded \in Nat
    /\ session \in 1..MaxSession /\ holder \in Process \cup {None}
    /\ budget \in [{"syncs", "edits", "crashes", "rots"} -> Nat]
    /\ work \in [Process -> Job]

\* A bundle on disk is the published one but for damaged files.
ShelfInv ==
    /\ DOMAIN published = DOMAIN sound
    /\ published \in [DOMAIN sound -> BundleRecord] /\ sound \in [DOMAIN sound -> BundleRecord]
    /\ \A id \in DOMAIN sound : /\ sound[id].manifest.digests = sound[id].files
                                /\ published[id].manifest = sound[id].manifest

BackupInv ==
    /\ StateTypes /\ ShelfInv
    /\ <<chain, account>> \in moments
    /\ \A p \in Process : JobInv(p, work[p])
    /\ BundleIsOneMoment /\ ReceiptHasBundle

-----------------------------------------------------------------------------
(* Updates of the work of one process.                                     *)

\* One file is written and the work goes on.
LEMMA PutWork ==
    ASSUME NEW p \in Process, NEW m \in Member, NEW content \in {None} \cup Nat \cup DatabaseCopy,
           NEW next \in Steps, work \in [Process -> Job], Put(p, m, content, next)
    PROVE  /\ work' \in [Process -> Job]
           /\ \A q \in Process \ {p} : work'[q] = work[q]
           /\ work'[p].at = next /\ work'[p].files[m] = content
           /\ \A n \in Member \ {m} : work'[p].files[n] = work[p].files[n]
           /\ work'[p].id = work[p].id /\ work'[p].decision = work[p].decision
           /\ work'[p].account = work[p].account /\ work'[p].config = work[p].config
           /\ work'[p].manifest = work[p].manifest
  <1>. DEFINE g == [work[p].files EXCEPT ![m] = content]
  <1>. DEFINE w == [work[p] EXCEPT !.files = g, !.at = next]
  <1>1. g \in Files /\ g[m] = content /\ \A n \in Member \ {m} : g[n] = work[p].files[n]
    BY DEF Job, Files
  <1>2. work' = [work EXCEPT ![p] = w]
    BY DEF Put, Job
  <1>. HIDE DEF g
  <1>3. /\ w \in Job /\ w.at = next /\ w.files = g /\ w.id = work[p].id
        /\ w.decision = work[p].decision /\ w.account = work[p].account
        /\ w.config = work[p].config /\ w.manifest = work[p].manifest
    BY <1>1 DEF Job
  <1>. HIDE DEF w
  <1>. QED  BY <1>1, <1>2, <1>3

\* The work goes on.
LEMMA GoWork ==
    ASSUME NEW p \in Process, NEW next \in Steps, work \in [Process -> Job], Go(p, next)
    PROVE  /\ work' \in [Process -> Job]
           /\ \A q \in Process \ {p} : work'[q] = work[q]
           /\ work'[p].at = next /\ work'[p].files = work[p].files
           /\ work'[p].id = work[p].id /\ work'[p].decision = work[p].decision
           /\ work'[p].account = work[p].account /\ work'[p].config = work[p].config
           /\ work'[p].manifest = work[p].manifest
  BY DEF Go, Job

\* The work is over, or was given up.
LEMMA IdleWork ==
    ASSUME NEW p \in Process, work \in [Process -> Job], Done(p) \/ Raise(p)
    PROVE  /\ work' \in [Process -> Job]
           /\ \A q \in Process \ {p} : work'[q] = work[q]
           /\ ~Started(work'[p]) /\ JobInv(p, work[p])'
  <1>1. NoFiles \in Files /\ NoFiles["config"] = None /\ NoFiles["calendar"] = None
    BY DEF NoFiles, Files, Member
  <1>2. Idle \in Job /\ Idle.at = "idle" /\ Idle.files = NoFiles
    BY <1>1 DEF Idle, Job, Steps
  <1>3. PICK w \in Job : /\ work' = [work EXCEPT ![p] = w]
                         /\ w.at \in {"idle", "failed"} /\ w.files = NoFiles
    <2>1. /\ [Idle EXCEPT !.at = "failed"] \in Job /\ [Idle EXCEPT !.at = "failed"].at = "failed"
          /\ [Idle EXCEPT !.at = "failed"].files = NoFiles
      BY <1>2 DEF Job, Steps
    <2>. QED  BY <1>2, <2>1 DEF Done, Raise
  <1>4. work' \in [Process -> Job] /\ work'[p] = w /\ \A q \in Process \ {p} : work'[q] = work[q]
    BY <1>3
  <1>. QED  BY <1>1, <1>3, <1>4 DEF Started, JobInv, Copied, Sealed, Placed, DaemonInv, OperatorInv

-----------------------------------------------------------------------------
(* What no step undoes, and what it leaves of a job that it does not touch.*)

Grows ==
    /\ account <= account' /\ moments \subseteq moments' /\ receipts \subseteq receipts'
    /\ decisions \subseteq decisions'
    /\ \A id \in DOMAIN sound : id \in DOMAIN sound' /\ sound'[id] = sound[id]

\* A job keeps its invariant while accounts, moments, receipts and bundles only grow.
LEMMA JobStays ==
    ASSUME NEW p \in Process, StateTypes, StateTypes', Grows, work'[p] = work[p],
           p = "daemon" /\ Started(work[p]) => session' = session,
           JobInv(p, work[p])
    PROVE  JobInv(p, work[p])'
  <1>1. SealInv(p, work[p]) => SealInv(p, work[p])'
    BY DEF SealInv
  <1>2. p = "operator" => OperatorInv(work[p])'
    BY DEF JobInv, OperatorInv
  <1>3. ASSUME p = "daemon" PROVE DaemonInv(work[p])'
    <2>1. DaemonInv(work[p])
      BY <1>3 DEF JobInv
    <2>2. ASSUME Started(work[p]) PROVE ReadInv(work[p])'
      <3>1. ReadInv(work[p]) /\ session' = session
        BY <1>3, <2>1, <2>2 DEF DaemonInv
      <3>2. account \in Nat /\ account' \in Nat /\ account <= account' /\ decisions \subseteq decisions'
        BY DEF StateTypes, Grows
      <3>. QED  BY <3>1, <3>2 DEF ReadInv
    <2>3. ASSUME Copied(work[p]) PROVE MomentInv(work[p])'
      <3>1. MomentInv(work[p]) /\ ReadInv(work[p])
        BY <2>1, <2>3 DEF DaemonInv, Copied
      <3>2. CASE work[p].at = "account"
        <4>1. PICK a \in work[p].account..account : <<work[p].files["database"].chain, a>> \in moments
          BY <3>1, <3>2 DEF MomentInv
        <4>2. a \in work'[p].account..account'
          BY <3>1 DEF ReadInv, Grows, StateTypes
        <4>. QED  BY <3>2, <4>1, <4>2 DEF MomentInv, Grows
      <3>3. CASE work[p].at # "account"
        BY <3>1, <3>3 DEF MomentInv, Grows
      <3>. QED  BY <3>2, <3>3
    <2>. QED  BY <2>1, <2>2, <2>3 DEF DaemonInv, Grows, Started, Copied
  <1>. QED  BY <1>1, <1>2, <1>3 DEF JobInv, Grows, Started, Copied, Sealed, Placed, BundleOf

\* A step that leaves the database, the account and the shelf alone only has to answer for
\* the work it changes.
LEMMA WorkStep ==
    ASSUME BackupInv, StateTypes', NEW p \in Process,
           UNCHANGED <<chain, account, decisions, receipts, session, closed, published, sound, moments>>,
           \A q \in Process \ {p} : work'[q] = work[q],
           JobInv(p, work[p])'
    PROVE  BackupInv'
  <1>1. Grows
    BY DEF Grows, BackupInv, StateTypes
  <1>2. ASSUME NEW q \in Process PROVE JobInv(q, work[q])'
    <2>1. CASE q = p
      BY <2>1
    <2>2. CASE q # p
      BY <1>1, <2>2, JobStays DEF BackupInv
    <2>. QED  BY <2>1, <2>2
  <1>3. ShelfInv'
    BY DEF BackupInv, ShelfInv
  <1>4. BundleIsOneMoment'
    BY DEF BackupInv, BundleIsOneMoment, Complete
  <1>5. ReceiptHasBundle'
    BY DEF BackupInv, ReceiptHasBundle
  <1>. QED  BY <1>2, <1>3, <1>4, <1>5 DEF BackupInv

-----------------------------------------------------------------------------
(* One lemma per group of actions.                                         *)

\* What the backup leaves alone.
Elsewhere == UNCHANGED <<disk, database, daemon, holder, published, history, budget>>

\* So a step of the work that keeps its own job keeps everything.
LEMMA OwnStep ==
    ASSUME BackupInv, NEW p \in Process, Elsewhere, work' \in [Process -> Job],
           \A q \in Process \ {p} : work'[q] = work[q],
           JobInv(p, work[p])'
    PROVE  BackupInv'
  <1>1. /\ UNCHANGED <<chain, account, decisions, receipts, session, closed, published, sound, moments>>
        /\ UNCHANGED <<config, calendar, loaded, holder, budget>>
    BY DEF Elsewhere, disk, database, daemon, history
  <1>2. StateTypes'
    BY <1>1 DEF BackupInv, StateTypes
  <1>. QED  BY <1>1, <1>2, WorkStep

\* A backup begins.
LEMMA BackupBegins ==
    ASSUME BackupAssumption, BackupInv, NEW p \in Process, NEW id \in Times, Begin(p, id)
    PROVE  BackupInv'
  <1>. DEFINE w == [Idle EXCEPT !.at = "database", !.id = id, !.decision = Inputs(p).decision,
                      !.account = Inputs(p).account, !.config = Inputs(p).config]
  <1>1. /\ Inputs(p).decision \in Nat /\ Inputs(p).account \in Nat \cup {None}
        /\ Inputs(p).config \in Nat \cup {None}
    BY DEF Inputs, BackupInv, StateTypes, BackupAssumption
  <1>2. NoFiles \in Files /\ NoFiles["config"] = None /\ NoFiles["calendar"] = None
    BY DEF NoFiles, Files, Member
  <1>3. /\ w \in Job /\ w.at = "database" /\ w.id = id /\ w.decision = Inputs(p).decision
        /\ w.account = Inputs(p).account /\ w.config = Inputs(p).config /\ w.files = NoFiles
    BY <1>1, <1>2 DEF Job, Idle, Steps
  <1>4. work' = [work EXCEPT ![p] = w] /\ Elsewhere /\ MayBackUp(p)
    BY DEF Begin, Elsewhere
  <1>. HIDE DEF w
  <1>5. /\ work' \in [Process -> Job] /\ work'[p] = w
        /\ \A q \in Process \ {p} : work'[q] = work[q]
    BY <1>3, <1>4 DEF BackupInv, StateTypes
  <1>6. ASSUME p = "daemon" PROVE ReadInv(work[p])'
    BY <1>3, <1>4, <1>5, <1>6 DEF ReadInv, Inputs, MayBackUp, Elsewhere, disk, database, daemon,
                                 BackupInv, StateTypes
  <1>7. JobInv(p, work[p])'
    BY <1>2, <1>3, <1>5, <1>6 DEF JobInv, Started, Copied, Sealed, Placed, DaemonInv, OperatorInv
  <1>. QED  BY <1>4, <1>5, <1>7, OwnStep

\* The database is copied at the present moment.
LEMMA BackupCopiesDatabase ==
    ASSUME BackupInv, NEW p \in Process, CopyDatabase(p)
    PROVE  BackupInv'
  <1>. DEFINE copy == [chain |-> chain, decisions |-> decisions]
  <1>1. work \in [Process -> Job] /\ JobInv(p, work[p]) /\ account \in Nat
    BY DEF BackupInv, StateTypes
  <1>2. copy \in DatabaseCopy /\ copy.chain = chain
    <2>1. decisions \subseteq Nat
      BY DEF BackupInv, StateTypes
    <2>. QED  BY <2>1 DEF BackupInv, StateTypes, DatabaseCopy
  <1>3. Elsewhere /\ Put(p, "database", copy, "account") /\ work[p].at = "database"
    BY DEF CopyDatabase, Elsewhere, At
  <1>. HIDE DEF copy
  <1>4. /\ work' \in [Process -> Job] /\ \A q \in Process \ {p} : work'[q] = work[q]
        /\ work'[p].at = "account" /\ work'[p].files["database"] = copy
        /\ work'[p].files["config"] = work[p].files["config"]
        /\ work'[p].files["calendar"] = work[p].files["calendar"]
        /\ work'[p].id = work[p].id /\ work'[p].decision = work[p].decision
        /\ work'[p].account = work[p].account /\ work'[p].config = work[p].config
    BY <1>1, <1>2, <1>3, PutWork DEF Member, Steps
  <1>5. UNCHANGED <<account, session, decisions, moments>>
    BY <1>3 DEF Elsewhere, disk, database, daemon, history
  <1>6. ASSUME p = "daemon" PROVE DaemonInv(work[p])'
    <2>1. ReadInv(work[p])
      BY <1>1, <1>3, <1>6 DEF JobInv, DaemonInv, Started
    <2>2. ReadInv(work[p])'
      BY <1>4, <1>5, <2>1 DEF ReadInv
    <2>3. MomentInv(work[p])'
      <3>1. account' \in work'[p].account..account'
        BY <1>1, <1>5, <2>2 DEF ReadInv
      <3>2. <<work'[p].files["database"].chain, account'>> \in moments'
        BY <1>2, <1>4, <1>5 DEF BackupInv
      <3>. QED  BY <1>4, <3>1, <3>2 DEF MomentInv
    <2>. QED  BY <1>4, <2>2, <2>3 DEF DaemonInv
  <1>7. JobInv(p, work[p])'
    BY <1>1, <1>2, <1>3, <1>4, <1>6 DEF JobInv, Started, Copied, Sealed, Placed, OperatorInv
  <1>. QED  BY <1>3, <1>4, <1>7, OwnStep

\* The account file is copied: equal to what was read only if no commit came in between.
LEMMA BackupCopiesAccount ==
    ASSUME BackupInv, NEW p \in Process, CopyAccount(p)
    PROVE  BackupInv'
  <1>. DEFINE next == IF p = "daemon" THEN "config" ELSE "check"
  <1>1. work \in [Process -> Job] /\ JobInv(p, work[p]) /\ account \in Nat
    BY DEF BackupInv, StateTypes
  <1>2. Elsewhere /\ Put(p, "account", account, next) /\ work[p].at = "account" /\ next \in Steps
    BY DEF CopyAccount, Elsewhere, At, Steps
  <1>3. next = "config" \/ (p = "operator" /\ next = "check")
    BY DEF Process
  <1>4. p = "operator" => next = "check"
    OBVIOUS
  <1>. HIDE DEF next
  <1>5. /\ work' \in [Process -> Job] /\ \A q \in Process \ {p} : work'[q] = work[q]
        /\ work'[p].at = next /\ work'[p].files["account"] = account
        /\ work'[p].files["database"] = work[p].files["database"]
        /\ work'[p].files["config"] = work[p].files["config"]
        /\ work'[p].files["calendar"] = work[p].files["calendar"]
        /\ work'[p].id = work[p].id /\ work'[p].decision = work[p].decision
        /\ work'[p].account = work[p].account /\ work'[p].config = work[p].config
    BY <1>1, <1>2, PutWork DEF Member, Steps
  <1>6. UNCHANGED <<account, session, decisions, moments>>
    BY <1>2 DEF Elsewhere, disk, database, daemon, history
  <1>7. ASSUME p = "daemon" PROVE DaemonInv(work[p])'
    <2>1. ReadInv(work[p]) /\ MomentInv(work[p])
      BY <1>1, <1>2, <1>7 DEF JobInv, DaemonInv, Started, Copied
    <2>2. ReadInv(work[p])'
      BY <1>5, <1>6, <2>1 DEF ReadInv
    <2>3. MomentInv(work[p])'
      <3>1. PICK a \in work[p].account..account : <<work[p].files["database"].chain, a>> \in moments
        BY <1>2, <2>1 DEF MomentInv
      <3>2. account = work[p].account => a = work[p].account
        BY <1>1, <2>1, <3>1 DEF ReadInv
      <3>. QED  BY <1>3, <1>5, <1>6, <1>7, <3>1, <3>2 DEF MomentInv
    <2>. QED  BY <1>3, <1>5, <1>7, <2>2, <2>3 DEF DaemonInv
  <1>8. JobInv(p, work[p])'
    BY <1>1, <1>2, <1>3, <1>4, <1>5, <1>7 DEF JobInv, Started, Copied, Sealed, Placed, OperatorInv
  <1>. QED  BY <1>2, <1>5, <1>8, OwnStep

\* The configuration and the calendar are copied beside a database and an account that are there.
LEMMA BackupCopiesRest ==
    ASSUME BackupInv, CopyConfig \/ CopyCalendar
    PROVE  BackupInv'
  <1>1. work \in [Process -> Job] /\ JobInv("daemon", work["daemon"]) /\ "daemon" \in Process
    BY DEF BackupInv, StateTypes, Process
  <1>2. Elsewhere /\ work["daemon"].at \in {"config", "calendar"}
    BY DEF CopyConfig, CopyCalendar, Elsewhere, At
  <1>3. CASE Raise("daemon")
    BY <1>1, <1>2, <1>3, IdleWork, OwnStep
  <1>4. ASSUME NEW m \in {"config", "calendar"}, NEW content \in Nat,
               NEW next \in {"calendar", "check"}, m = "config" <=> next = "calendar",
               Put("daemon", m, content, next)
        PROVE  BackupInv'
    <2>1. /\ work' \in [Process -> Job] /\ \A q \in Process \ {"daemon"} : work'[q] = work[q]
          /\ work'["daemon"].at = next /\ work'["daemon"].files[m] = content
          /\ work'["daemon"].files["database"] = work["daemon"].files["database"]
          /\ work'["daemon"].files["account"] = work["daemon"].files["account"]
          /\ work'["daemon"].id = work["daemon"].id
          /\ work'["daemon"].decision = work["daemon"].decision
          /\ work'["daemon"].account = work["daemon"].account
          /\ work'["daemon"].config = work["daemon"].config
      BY <1>1, <1>4, PutWork DEF Member, Steps
    <2>2. UNCHANGED <<account, session, decisions, moments>>
      BY <1>2 DEF Elsewhere, disk, database, daemon, history
    <2>3. ReadInv(work["daemon"]) /\ MomentInv(work["daemon"])
      BY <1>1, <1>2 DEF JobInv, DaemonInv, Started, Copied
    <2>4. DaemonInv(work["daemon"])'
      BY <1>2, <1>4, <2>1, <2>2, <2>3 DEF DaemonInv, ReadInv, MomentInv
    <2>5. JobInv("daemon", work["daemon"])'
      BY <1>1, <1>2, <1>4, <2>1, <2>4 DEF JobInv, Started, Copied, Sealed, Placed
    <2>. QED  BY <1>1, <1>2, <2>1, <2>5, OwnStep
  <1>5. CASE CopyConfig
    BY <1>3, <1>4, <1>5 DEF CopyConfig, BackupInv, StateTypes
  <1>6. CASE CopyCalendar
    BY <1>4, <1>6 DEF CopyCalendar, BackupInv, StateTypes
  <1>. QED  BY <1>5, <1>6

\* The manifest is written.
LEMMA BackupSeals ==
    ASSUME BackupInv, NEW p \in Process, Seal(p)
    PROVE  BackupInv'
  <1>1. work \in [Process -> Job] /\ JobInv(p, work[p])
    BY DEF BackupInv, StateTypes
  <1>2. Elsewhere /\ work[p].at = "check"
    BY DEF Seal, Elsewhere, At
  <1>3. CASE Raise(p)
    BY <1>1, <1>2, <1>3, IdleWork, OwnStep
  <1>4. CASE ~Raise(p)
    <2>. DEFINE sealed == [digests |-> work[p].files, deployment |-> Deployment(p),
                           chain |-> work[p].files["database"].chain, id |-> work[p].id]
    <2>. DEFINE w == [work[p] EXCEPT !.at = "verify", !.manifest = sealed]
    <2>1. work' = [work EXCEPT ![p] = w]
      BY <1>1, <1>4 DEF Seal, Job
    <2>2. /\ work[p].id \in Times /\ work[p].files["database"] \in DatabaseCopy
          /\ work[p].files \in Files
      BY <1>1, <1>2 DEF JobInv, Started, Copied, Job
    <2>3. /\ p = "operator" => Deployment(p) = None
          /\ p = "daemon" => /\ Deployment(p) \in DeploymentRecord
                             /\ Deployment(p).decision = work[p].decision
                             /\ Deployment(p).account = work[p].account
      <3>1. p = "daemon" => DaemonInv(work[p]) /\ ReadInv(work[p])
        BY <1>1, <1>2 DEF JobInv, DaemonInv, Started
      <3>2. p = "daemon" => work[p].decision \in Nat /\ work[p].files["calendar"] \in Nat
        BY <1>1, <1>2, <3>1 DEF Job, DaemonInv
      <3>. QED  BY <3>1, <3>2 DEF Deployment, DeploymentRecord, ReadInv
    <2>4. /\ sealed \in Manifest /\ sealed.id = work[p].id /\ sealed.digests = work[p].files
          /\ sealed.deployment = Deployment(p)
      BY <2>2, <2>3 DEF Manifest, DatabaseCopy, Process
    <2>. HIDE DEF sealed
    <2>5. /\ w \in Job /\ w.at = "verify" /\ w.manifest = sealed /\ w.files = work[p].files
          /\ w.id = work[p].id /\ w.decision = work[p].decision /\ w.account = work[p].account
          /\ w.config = work[p].config
      BY <1>1, <2>4 DEF Job, Steps
    <2>. HIDE DEF w
    <2>6. /\ work' \in [Process -> Job] /\ work'[p] = w
          /\ \A q \in Process \ {p} : work'[q] = work[q]
      BY <1>1, <2>1, <2>5
    <2>7. SealInv(p, work[p])'
      BY <2>3, <2>4, <2>5, <2>6 DEF SealInv, Process
    <2>8. UNCHANGED <<account, session, decisions, moments>>
      BY <1>2 DEF Elsewhere, disk, database, daemon, history
    <2>9. p = "daemon" => DaemonInv(work[p])'
      BY <1>1, <1>2, <2>5, <2>6, <2>8 DEF JobInv, DaemonInv, Started, Copied, ReadInv, MomentInv
    <2>10. JobInv(p, work[p])'
      BY <1>1, <1>2, <2>2, <2>5, <2>6, <2>7, <2>9
         DEF JobInv, Started, Copied, Sealed, Placed, OperatorInv
    <2>. QED  BY <1>2, <2>6, <2>10, OwnStep
  <1>. QED  BY <1>3, <1>4

\* Nothing goes on that does not verify.
LEMMA BackupVerifies ==
    ASSUME BackupInv, NEW p \in Process, VerifyBundle(p)
    PROVE  BackupInv'
  <1>1. work \in [Process -> Job] /\ JobInv(p, work[p])
    BY DEF BackupInv, StateTypes
  <1>2. Elsewhere /\ work[p].at = "verify"
    BY DEF VerifyBundle, Elsewhere, At
  <1>3. CASE Raise(p)
    BY <1>1, <1>2, <1>3, IdleWork, OwnStep
  <1>4. CASE ~Raise(p)
    <2>1. Go(p, "publish") /\ Verify(BundleOf(work[p]))
      BY <1>4 DEF VerifyBundle, Bundle, BundleOf
    <2>2. /\ work' \in [Process -> Job] /\ \A q \in Process \ {p} : work'[q] = work[q]
          /\ work'[p].at = "publish" /\ work'[p].files = work[p].files
          /\ work'[p].id = work[p].id /\ work'[p].decision = work[p].decision
          /\ work'[p].account = work[p].account /\ work'[p].config = work[p].config
          /\ work'[p].manifest = work[p].manifest
      BY <1>1, <2>1, GoWork DEF Steps
    <2>3. UNCHANGED <<account, session, decisions, moments>>
      BY <1>2 DEF Elsewhere, disk, database, daemon, history
    <2>4. p = "daemon" => DaemonInv(work[p])'
      BY <1>1, <1>2, <2>2, <2>3 DEF JobInv, DaemonInv, Started, Copied, ReadInv, MomentInv
    <2>5. SealInv(p, work[p])'
      BY <1>1, <1>2, <2>2 DEF JobInv, Sealed, SealInv
    <2>6. Verify(BundleOf(work[p]))'
      BY <2>1, <2>2 DEF BundleOf
    <2>7. JobInv(p, work[p])'
      BY <1>1, <1>2, <2>2, <2>4, <2>5, <2>6 DEF JobInv, Started, Copied, Sealed, Placed, OperatorInv
    <2>. QED  BY <1>2, <2>2, <2>7, OwnStep
  <1>. QED  BY <1>3, <1>4

\* The bundle is renamed into place, under a name no bundle has.
LEMMA BackupPublishes ==
    ASSUME BackupAssumption, BackupInv, NEW p \in Process, Publish(p)
    PROVE  BackupInv'
  <1>1. work \in [Process -> Job] /\ JobInv(p, work[p]) /\ ShelfInv
    BY DEF BackupInv, StateTypes
  <1>2. UNCHANGED <<disk, database, daemon, holder, moments, budget>> /\ work[p].at = "publish"
    BY DEF Publish, At
  <1>3. CASE ~Unused(work[p].id)
    <2>1. Raise(p) /\ Elsewhere
      BY <1>2, <1>3 DEF Publish, Elsewhere, history
    <2>. QED  BY <1>1, <2>1, IdleWork, OwnStep
  <1>4. CASE Unused(work[p].id)
    <2>. DEFINE id == work[p].id
                b == BundleOf(work[p])
    <2>1. /\ Go(p, "receipt") /\ published' = Shelve(id, b, published) /\ sound' = Shelve(id, b, sound)
          /\ id \notin DOMAIN sound
      BY <1>1, <1>4 DEF Publish, Bundle, BundleOf, Unused, ShelfInv
    <2>2. /\ work' \in [Process -> Job] /\ \A q \in Process \ {p} : work'[q] = work[q]
          /\ work'[p].at = "receipt" /\ work'[p].files = work[p].files
          /\ work'[p].id = work[p].id /\ work'[p].decision = work[p].decision
          /\ work'[p].account = work[p].account /\ work'[p].config = work[p].config
          /\ work'[p].manifest = work[p].manifest
      BY <1>1, <2>1, GoWork DEF Steps
    <2>3. SealInv(p, work[p]) /\ Verify(b)
      BY <1>1, <1>2 DEF JobInv, Sealed
    <2>4. /\ b \in BundleRecord /\ b.files = work[p].files /\ b.manifest = work[p].manifest
      BY <1>1, <2>3 DEF BundleOf, BundleRecord, SealInv, Job
    <2>5. UNCHANGED <<chain, account, decisions, receipts, session, closed, moments, config, calendar,
                      loaded, holder, budget>>
      BY <1>2 DEF disk, database, daemon
    <2>6. /\ DOMAIN published' = DOMAIN sound \cup {id} /\ DOMAIN sound' = DOMAIN sound \cup {id}
          /\ published' \in [DOMAIN sound' -> BundleRecord] /\ sound' \in [DOMAIN sound' -> BundleRecord]
          /\ published'[id] = b /\ sound'[id] = b
          /\ \A i \in DOMAIN sound : published'[i] = published[i] /\ sound'[i] = sound[i]
      <3>. HIDE DEF id, b
      <3>. QED  BY <1>1, <2>1, <2>4 DEF ShelfInv, Shelve
    <2>7. ShelfInv'
      <3>1. b.manifest.digests = b.files
        BY <2>3, <2>4 DEF SealInv
      <3>. HIDE DEF id, b
      <3>. QED  BY <1>1, <2>6, <3>1 DEF ShelfInv
    <2>8. StateTypes' /\ Grows
      BY <2>2, <2>5, <2>6 DEF BackupInv, StateTypes, Grows
    <2>9. ASSUME NEW q \in Process PROVE JobInv(q, work[q])'
      <3>1. CASE q # p
        BY <2>2, <2>5, <2>8, <3>1, JobStays DEF BackupInv
      <3>2. CASE q = p
        <4>1. p = "daemon" => DaemonInv(work[p])'
          BY <1>1, <1>2, <2>2, <2>5 DEF JobInv, DaemonInv, Started, Copied, ReadInv, MomentInv
        <4>2. SealInv(p, work[p])'
          BY <2>2, <2>3 DEF SealInv
        <4>3. Verify(BundleOf(work[p]))'
          BY <2>2, <2>3 DEF BundleOf
        <4>4. work'[p].id \in DOMAIN sound' /\ sound'[work'[p].id] = BundleOf(work[p])'
          BY <2>2, <2>6 DEF BundleOf
        <4>. QED  BY <1>1, <1>2, <2>2, <3>2, <4>1, <4>2, <4>3, <4>4
                  DEF JobInv, Started, Copied, Sealed, Placed, OperatorInv
      <3>. QED  BY <3>1, <3>2
    <2>10. BundleIsOneMoment'
      <3>1. ASSUME ~Legacy(b.manifest)
            PROVE  <<b.files["database"].chain, b.files["account"]>> \in moments
        <4>1. p = "daemon"
          BY <2>3, <2>4, <3>1 DEF SealInv, Legacy, Process
        <4>2. MomentInv(work[p])
          BY <1>1, <1>2, <4>1 DEF JobInv, DaemonInv, Started, Copied
        <4>3. b.manifest.deployment.account = b.files["account"]
          BY <2>3, <3>1 DEF Verify, IdentitiesAgree
        <4>4. work[p].files["account"] = work[p].account
          BY <2>3, <2>4, <4>1, <4>3 DEF SealInv
        <4>. QED  BY <1>2, <2>4, <4>2, <4>4 DEF MomentInv
      <3>. HIDE DEF id, b
      <3>2. \A i \in Complete' : /\ Verify(sound'[i])
                                 /\ <<sound'[i].files["database"].chain, sound'[i].files["account"]>>
                                        \in moments
        BY <2>3, <2>6, <3>1 DEF Complete, BundleIsOneMoment, BackupInv
      <3>. QED  BY <2>5, <3>2 DEF BundleIsOneMoment
    <2>11. ReceiptHasBundle'
      <3>. HIDE DEF id, b
      <3>. QED  BY <2>5, <2>6 DEF ReceiptHasBundle, BackupInv
    <2>. QED  BY <2>5, <2>7, <2>8, <2>9, <2>10, <2>11 DEF BackupInv
  <1>. QED  BY <1>3, <1>4

\* A receipt names a bundle that is there.
LEMMA BackupReceipts ==
    ASSUME BackupInv, NEW p \in Process, Receipt(p)
    PROVE  BackupInv'
  <1>1. work \in [Process -> Job] /\ JobInv(p, work[p])
    BY DEF BackupInv, StateTypes
  <1>2. /\ UNCHANGED <<disk, chain, decisions, daemon, holder, published, history, budget>>
        /\ work[p].at = "receipt" /\ receipts' = receipts \cup {work[p].manifest}
    BY DEF Receipt, At
  <1>3. UNCHANGED <<chain, account, decisions, session, closed, published, sound, moments, config,
                    calendar, loaded, holder, budget>>
    BY <1>2 DEF disk, daemon, history
  <1>4. /\ work' \in [Process -> Job] /\ \A q \in Process \ {p} : work'[q] = work[q]
        /\ JobInv(p, work[p])'
    <2>1. CASE Done(p)
      BY <1>1, <2>1, IdleWork
    <2>2. CASE ~Done(p)
      <3>1. p = "daemon" /\ Go(p, "checkpoint")
        BY <2>2 DEF Receipt
      <3>2. /\ work' \in [Process -> Job] /\ \A q \in Process \ {p} : work'[q] = work[q]
            /\ work'[p].at = "checkpoint" /\ work'[p].files = work[p].files
            /\ work'[p].id = work[p].id /\ work'[p].decision = work[p].decision
            /\ work'[p].account = work[p].account /\ work'[p].config = work[p].config
            /\ work'[p].manifest = work[p].manifest
        BY <1>1, <3>1, GoWork DEF Steps
      <3>3. DaemonInv(work[p])'
        BY <1>1, <1>2, <1>3, <3>1, <3>2 DEF JobInv, DaemonInv, Started, Copied, ReadInv, MomentInv
      <3>4. SealInv(p, work[p])'
        BY <1>1, <1>2, <3>2 DEF JobInv, Sealed, SealInv
      <3>5. Verify(BundleOf(work[p]))' /\ sound'[work'[p].id] = BundleOf(work[p])'
        BY <1>1, <1>2, <1>3, <3>2 DEF JobInv, Sealed, Placed, BundleOf
      <3>. QED  BY <1>1, <1>2, <1>3, <3>1, <3>2, <3>3, <3>4, <3>5
                DEF JobInv, Started, Copied, Sealed, Placed
    <2>. QED  BY <2>1, <2>2
  <1>5. StateTypes' /\ Grows
    BY <1>2, <1>3, <1>4 DEF BackupInv, StateTypes, Grows
  <1>6. ASSUME NEW q \in Process PROVE JobInv(q, work[q])'
    <2>1. CASE q # p
      BY <1>3, <1>4, <1>5, <2>1, JobStays DEF BackupInv
    <2>. QED  BY <1>4, <2>1
  <1>7. ReceiptHasBundle'
    <2>1. /\ work[p].manifest.id \in DOMAIN sound
          /\ sound[work[p].manifest.id].manifest = work[p].manifest
      BY <1>1, <1>2 DEF JobInv, Sealed, Placed, SealInv, BundleOf
    <2>. QED  BY <1>2, <1>3, <2>1 DEF ReceiptHasBundle, BackupInv
  <1>8. ShelfInv' /\ BundleIsOneMoment'
    BY <1>3 DEF BackupInv, ShelfInv, BundleIsOneMoment, Complete
  <1>. QED  BY <1>3, <1>5, <1>6, <1>7, <1>8 DEF BackupInv

\* The session whose receipt is there is closed.
LEMMA BackupCloses ==
    ASSUME BackupAssumption, BackupInv, Checkpoint
    PROVE  BackupInv'
  <1>1. work \in [Process -> Job] /\ JobInv("daemon", work["daemon"]) /\ "daemon" \in Process
    BY DEF BackupInv, StateTypes, Process
  <1>2. /\ chain' = Append(chain, <<"closed", session>>) /\ account' = account
        /\ moments' = moments \cup {<<chain', account>>}
        /\ closed' = closed \cup {session} /\ Done("daemon") /\ work["daemon"].at = "checkpoint"
        /\ session' = IF session < MaxSession THEN session + 1 ELSE session
        /\ UNCHANGED <<decisions, receipts, config, calendar, loaded, holder, published, sound, budget>>
    BY DEF Checkpoint, Commit, At
  <1>3. /\ work' \in [Process -> Job] /\ \A q \in Process \ {"daemon"} : work'[q] = work[q]
        /\ JobInv("daemon", work["daemon"])'
    BY <1>1, <1>2, IdleWork
  <1>4. /\ work["daemon"].decision = session /\ session \in decisions
        /\ work["daemon"].manifest \in receipts
        /\ work["daemon"].manifest.deployment \in DeploymentRecord
        /\ work["daemon"].manifest.deployment.decision = session
    BY <1>1, <1>2 DEF JobInv, DaemonInv, Started, ReadInv, Sealed, SealInv
  <1>5. StateTypes'
    <2>1. <<"closed", session>> \in AuditEvent /\ session' \in 1..MaxSession
      BY <1>2 DEF AuditEvent, BackupInv, StateTypes, BackupAssumption
    <2>2. chain' \in Seq(AuditEvent)
      BY <1>2, <2>1 DEF BackupInv, StateTypes
    <2>. QED  BY <1>2, <1>3, <1>4, <2>1, <2>2 DEF BackupInv, StateTypes
  <1>6. Grows
    BY <1>2 DEF Grows, BackupInv, StateTypes
  <1>7. ASSUME NEW q \in Process PROVE JobInv(q, work[q])'
    <2>1. CASE q # "daemon"
      BY <1>3, <1>5, <1>6, <2>1, JobStays DEF BackupInv
    <2>. QED  BY <1>3, <2>1
  <1>8. ReceiptHasBundle'
    <2>1. ~Legacy(work["daemon"].manifest)
      BY <1>4 DEF Legacy, BackupAssumption
    <2>2. \A s \in closed' : \E r \in receipts' : ~Legacy(r) /\ r.deployment.decision = s
      BY <1>2, <1>4, <2>1 DEF BackupInv, ReceiptHasBundle
    <2>. QED  BY <1>2, <2>2 DEF BackupInv, ReceiptHasBundle
  <1>9. ShelfInv' /\ BundleIsOneMoment'
    BY <1>2 DEF BackupInv, ShelfInv, BundleIsOneMoment, Complete
  <1>. QED  BY <1>2, <1>5, <1>7, <1>8, <1>9 DEF BackupInv

Counted == {"syncs", "edits", "crashes", "rots"}

\* The budget stays a count.
LEMMA Spent ==
    ASSUME NEW what \in Counted, NEW bound, Spend(what, bound), budget \in [Counted -> Nat]
    PROVE  budget' \in [Counted -> Nat]
  BY DEF Spend

\* The account moves on: a decision is committed, or another process synchronises.
LEMMA BackupCommits ==
    ASSUME BackupAssumption, BackupInv, Decide \/ Sync
    PROVE  BackupInv'
  <1>1. PICK event \in AuditEvent : Commit(event, account + 1)
    <2>1. session \in Nat /\ budget.syncs \in Nat
      BY DEF BackupInv, StateTypes, BackupAssumption
    <2>. QED  BY <2>1 DEF Decide, Sync, AuditEvent
  <1>2. /\ chain' = Append(chain, event) /\ account' = account + 1
        /\ moments' = moments \cup {<<chain', account + 1>>}
    BY <1>1 DEF Commit
  <1>3. /\ UNCHANGED <<receipts, config, calendar, loaded, session, closed, holder, work, published,
                       sound>>
        /\ decisions \subseteq decisions' /\ decisions' \subseteq 1..MaxSession
        /\ budget' \in [{"syncs", "edits", "crashes", "rots"} -> Nat]
    BY Spent DEF Decide, Sync, daemon, BackupInv, StateTypes, Counted
  <1>4. StateTypes' /\ Grows
    <2>1. chain' \in Seq(AuditEvent) /\ account' \in Nat /\ account <= account'
      BY <1>2 DEF BackupInv, StateTypes
    <2>. QED  BY <1>2, <1>3, <2>1 DEF BackupInv, StateTypes, Grows
  <1>5. ASSUME NEW q \in Process PROVE JobInv(q, work[q])'
    BY <1>3, <1>4, JobStays DEF BackupInv
  <1>6. ReceiptHasBundle' /\ ShelfInv' /\ BundleIsOneMoment'
    BY <1>2, <1>3 DEF BackupInv, ReceiptHasBundle, ShelfInv, BundleIsOneMoment, Complete
  <1>. QED  BY <1>2, <1>4, <1>5, <1>6 DEF BackupInv

\* Processes come and go, and files are edited.
LEMMA BackupWorld ==
    ASSUME BackupInv,
           \/ BackupCrash \/ Stop \/ Restart \/ Expire \/ OperatorStarts \/ OperatorStops
           \/ UpdateCalendar \/ EditConfig
    PROVE  BackupInv'
  <1>1. UNCHANGED <<chain, account, decisions, receipts, session, closed, published, sound, moments>>
    BY DEF BackupCrash, Stop, Restart, Expire, OperatorStarts, OperatorStops, UpdateCalendar, EditConfig,
           disk, database, daemon, history
  <1>2. /\ config' \in Nat /\ calendar' \in Nat /\ loaded' \in Nat /\ holder' \in Process \cup {None}
        /\ UNCHANGED budget \/ Spend("crashes", MaxCrashes) \/ Spend("edits", MaxEdits)
    BY DEF BackupCrash, Stop, Restart, Expire, OperatorStarts, OperatorStops, UpdateCalendar, EditConfig,
           disk, daemon, BackupInv, StateTypes, Process
  <1>3. budget' \in [{"syncs", "edits", "crashes", "rots"} -> Nat]
    BY <1>2, Spent DEF BackupInv, StateTypes, Counted
  <1>4. PICK p \in Process : UNCHANGED work \/ Done(p)
    BY DEF BackupCrash, Stop, Restart, Expire, OperatorStarts, OperatorStops, UpdateCalendar, EditConfig,
           Process
  <1>5. CASE UNCHANGED work
    <2>1. StateTypes' /\ Grows
      BY <1>1, <1>2, <1>3, <1>5 DEF BackupInv, StateTypes, Grows
    <2>2. JobInv(p, work[p])'
      BY <1>1, <1>5, <2>1, JobStays DEF BackupInv
    <2>. QED  BY <1>1, <1>5, <2>1, <2>2, WorkStep
  <1>6. CASE Done(p)
    <2>1. /\ work' \in [Process -> Job] /\ \A q \in Process \ {p} : work'[q] = work[q]
          /\ JobInv(p, work[p])'
      BY <1>6, IdleWork DEF BackupInv, StateTypes
    <2>2. StateTypes'
      BY <1>1, <1>2, <1>3, <2>1 DEF BackupInv, StateTypes
    <2>. QED  BY <1>1, <2>1, <2>2, WorkStep
  <1>. QED  BY <1>4, <1>5, <1>6

\* A damaged file is missing, and its manifest is not.
LEMMA BackupRots ==
    ASSUME BackupInv, NEW id \in DOMAIN published, NEW m \in Member, Rot(id, m)
    PROVE  BackupInv'
  <1>. DEFINE g == [published[id].files EXCEPT ![m] = None]
              b == [published[id] EXCEPT !.files = g]
  <1>1. ShelfInv /\ published[id] \in BundleRecord
    BY DEF BackupInv, ShelfInv
  <1>2. g \in Files
    BY <1>1 DEF BundleRecord, Files
  <1>3. published' = [published EXCEPT ![id] = b]
    BY <1>1 DEF Rot, ShelfInv, BundleRecord
  <1>4. b \in BundleRecord /\ b.manifest = published[id].manifest
    BY <1>1, <1>2 DEF BundleRecord
  <1>. HIDE DEF g, b
  <1>5. UNCHANGED <<chain, account, decisions, receipts, session, closed, sound, moments, config,
                    calendar, loaded, holder, work>>
    BY DEF Rot, disk, database, daemon, history
  <1>6. ShelfInv'
    BY <1>1, <1>3, <1>4, <1>5 DEF ShelfInv
  <1>7. budget' \in [{"syncs", "edits", "crashes", "rots"} -> Nat]
    BY Spent DEF Rot, BackupInv, StateTypes, Counted
  <1>8. StateTypes' /\ Grows
    BY <1>5, <1>7 DEF BackupInv, StateTypes, Grows
  <1>9. ASSUME NEW q \in Process PROVE JobInv(q, work[q])'
    BY <1>5, <1>8, JobStays DEF BackupInv
  <1>10. ReceiptHasBundle' /\ BundleIsOneMoment'
    BY <1>5 DEF BackupInv, ReceiptHasBundle, BundleIsOneMoment, Complete
  <1>. QED  BY <1>5, <1>6, <1>8, <1>9, <1>10 DEF BackupInv

\* Before the first decision nothing is backed up.
LEMMA BackupInitial ==
    ASSUME BackupAssumption, BackupInit
    PROVE  BackupInv
  <1>1. NoFiles \in Files /\ NoFiles["config"] = None /\ NoFiles["calendar"] = None
    BY DEF NoFiles, Files, Member
  <1>2. Idle \in Job /\ Idle.at = "idle" /\ Idle.files = NoFiles
    BY <1>1 DEF Idle, Job, Steps
  <1>3. StateTypes
    BY <1>2 DEF BackupInit, StateTypes, BackupAssumption, Process
  <1>4. ShelfInv /\ BundleIsOneMoment /\ ReceiptHasBundle
    BY DEF BackupInit, ShelfInv, BundleIsOneMoment, Complete, ReceiptHasBundle
  <1>5. ASSUME NEW p \in Process PROVE JobInv(p, work[p])
    BY <1>1, <1>2 DEF BackupInit, JobInv, Started, Copied, Sealed, Placed, DaemonInv, OperatorInv
  <1>. QED  BY <1>3, <1>4, <1>5 DEF BackupInv, BackupInit

\* Every step keeps the invariant.
LEMMA BackupSteps ==
    ASSUME BackupAssumption, BackupInv, [BackupNext]_backupVars
    PROVE  BackupInv'
  <1>1. ASSUME NEW p \in Process, Work(p)
        PROVE  BackupInv'
    BY <1>1, BackupBegins, BackupCopiesDatabase, BackupCopiesAccount, BackupSeals, BackupVerifies,
       BackupPublishes, BackupReceipts DEF Work
  <1>2. CASE BackupNext
    BY <1>1, <1>2, BackupCopiesRest, BackupCloses, BackupCommits, BackupWorld, BackupRots
       DEF BackupNext, Process
  <1>3. CASE UNCHANGED backupVars
    <2>1. UNCHANGED <<chain, account, decisions, receipts, session, closed, published, sound, moments,
                      config, calendar, loaded, holder, budget, work>>
      BY <1>3 DEF backupVars, disk, database, daemon, history
    <2>2. StateTypes' /\ Grows
      BY <2>1 DEF BackupInv, StateTypes, Grows
    <2>3. PICK p \in Process : TRUE
      BY DEF Process
    <2>4. JobInv(p, work[p])'
      BY <2>1, <2>2, JobStays DEF BackupInv
    <2>. QED  BY <2>1, <2>2, <2>4, WorkStep
  <1>. QED  BY <1>2, <1>3

\* A file that verifies against its manifest is the one that was published.
LEMMA DamageShows == ASSUME ShelfInv PROVE DamageIsFound
  <1>. SUFFICES ASSUME NEW id \in DOMAIN published, Verify(published[id])
                PROVE  published[id] = sound[id]
    BY DEF DamageIsFound
  <1>1. published[id] \in BundleRecord /\ sound[id] \in BundleRecord
    BY DEF ShelfInv
  <1>2. /\ published[id].manifest = sound[id].manifest
        /\ \A m \in Member : published[id].files[m] = sound[id].files[m]
    BY DEF ShelfInv, Verify, DigestsAgree
  <1>3. published[id].files = sound[id].files
    BY <1>1, <1>2 DEF BundleRecord, Files
  <1>. QED  BY <1>1, <1>2, <1>3 DEF BundleRecord

\* What was published stays.
LEMMA ShelfGrows ==
    ASSUME BackupInv, [BackupNext]_backupVars
    PROVE  \A id \in DOMAIN sound : id \in DOMAIN sound' /\ sound'[id] = sound[id]
  <1>1. ASSUME NEW p \in Process, Publish(p)
        PROVE  \A id \in DOMAIN sound : id \in DOMAIN sound' /\ sound'[id] = sound[id]
    <2>1. CASE Unused(work[p].id)
      BY <1>1, <2>1 DEF Publish, Unused, Shelve, BackupInv, ShelfInv
    <2>2. CASE ~Unused(work[p].id)
      BY <1>1, <2>2 DEF Publish
    <2>. QED  BY <2>1, <2>2
  <1>2. CASE \E p \in Process : Publish(p)
    BY <1>1, <1>2
  <1>3. CASE ~\E p \in Process : Publish(p)
    <2>1. UNCHANGED sound
      BY <1>3 DEF BackupNext, backupVars, history, Process, Decide, Work, Begin, CopyDatabase, CopyAccount,
                  Seal, VerifyBundle, Receipt, CopyConfig, CopyCalendar, Checkpoint, BackupCrash, Stop,
                  Restart, Expire, OperatorStarts, OperatorStops, Sync, UpdateCalendar, EditConfig, Rot
    <2>. QED  BY <2>1
  <1>. QED  BY <1>2, <1>3

\* BackupInv is an inductive invariant of the backups, for any clock, any number of sessions,
\* commits by others, edits, deaths and damaged files (backup.py backup_state).
THEOREM BackupInvariant ==
    ASSUME BackupAssumption
    PROVE  BackupSpec => []BackupInv
  <1>1. BackupInit => BackupInv
    BY BackupInitial
  <1>2. BackupInv /\ [BackupNext]_backupVars => BackupInv'
    BY BackupSteps
  <1>. QED  BY <1>1, <1>2, PTL DEF BackupSpec

\* Wherever a process dies or loses its lease, whoever commits in between and whatever is damaged:
\* a complete bundle is the state of one moment, one that verifies is as it was published, every
\* receipt and closed session has its bundle, and none is ever replaced (backup.py backup_state,
\* verify_backup; production_services.py _close_session).
THEOREM BackupsRestore ==
    ASSUME BackupAssumption
    PROVE  BackupSpec => BackupsAreRestorePoints
  <1>1. BackupInv => BackupTypeOK
    <2>. SUFFICES ASSUME BackupInv
                  PROVE  BackupTypeOK
      OBVIOUS
    <2>1. ASSUME NEW p \in Process
          PROVE  /\ work[p].at \in Steps
                 /\ p = "operator" => work[p].files["config"] = None /\ work[p].files["calendar"] = None
                 /\ Sealed(work[p]) => work[p].manifest # None /\ work[p].manifest.id = work[p].id
      <3>1. work[p] \in Job /\ JobInv(p, work[p])
        BY DEF BackupInv, StateTypes
      <3>. QED  BY <3>1 DEF Job, JobInv, OperatorInv, SealInv, BackupAssumption
    <2>. QED  BY <2>1 DEF BackupTypeOK, Steps, Sealed, BackupInv, StateTypes
  <1>2. BackupInv => BundleIsOneMoment /\ DamageIsFound /\ ReceiptHasBundle
    BY DamageShows DEF BackupInv
  <1>3. BackupInv /\ [BackupNext]_backupVars
           => [\A id \in DOMAIN sound : id \in DOMAIN sound' /\ sound'[id] = sound[id]]_backupVars
    BY ShelfGrows
  <1>. QED  BY <1>1, <1>2, <1>3, BackupInvariant, PTL
            DEF BackupSpec, BackupsAreRestorePoints, BundlesAreKept

-----------------------------------------------------------------------------
(* The audit ledger.                                                       *)

Hashes == {w.hash : w \in written}
AuditRow(H) ==
    [sequence : Nat, id : Ids, body : Bodies, sha : Bodies,
     previous : {ZERO_HASH} \cup H, hash : H]

\* What append wrote is sealed by its own columns, and holds nothing sensitive.
WrittenInv ==
    \A w \in written :
        /\ w = Row(w.sequence, w.id, w.body, w.previous)
        /\ w.body \notin Sensitive

\* Whatever hit the table, its digests are of rows that were written, and an identity occurs once.
TableInv ==
    /\ rows \in Seq(AuditRow(Hashes)) /\ Len(rows) <= MaxRows
    /\ \A i, j \in DOMAIN rows : rows[i].id = rows[j].id => i = j
    /\ faults \in 0..MaxFaults

\* A receipt is of a table that verified.
KeptInv ==
    \A r \in receipt :
        /\ r.copy \in Seq(AuditRow(Hashes)) /\ Linked(r.copy)
        /\ r.count = Len(r.copy) /\ r.head = HeadOf(r.copy)

AuditInv == WrittenInv /\ TableInv /\ KeptInv

\* A row that verify accepts is the row that was written under its digest.
LEMMA AcceptedRow ==
    ASSUME WrittenInv, NEW r \in AuditRow(Hashes), NEW i, NEW p, LinkHolds(r, i, p)
    PROVE  r \in written
  <1>1. PICK w \in written : w.hash = r.hash
    BY DEF AuditRow, Hashes
  <1>2. w = Row(w.sequence, w.id, w.body, w.previous)
    BY DEF WrittenInv
  <1>3. w.hash = <<w.sequence, w.id, w.body, w.previous>>
    BY <1>2 DEF Row, ChainHash
  <1>4. r.hash = <<r.sequence, r.id, r.sha, p>> /\ r.body = r.sha /\ r.previous = p
    BY DEF LinkHolds, ChainHash
  <1>5. <<w.sequence, w.id, w.body, w.previous>> = <<r.sequence, r.id, r.sha, p>>
    BY <1>1, <1>3, <1>4
  <1>6. w.sequence = r.sequence /\ w.id = r.id /\ w.body = r.body /\ w.previous = r.previous
    BY <1>4, <1>5
  <1>7. r = Row(r.sequence, r.id, r.body, r.previous)
    <2>1. r = [sequence |-> r.sequence, id |-> r.id, body |-> r.body, sha |-> r.sha,
               previous |-> r.previous, hash |-> r.hash]
      BY DEF AuditRow
    <2> QED
      BY <1>4, <2>1 DEF Row, ChainHash
  <1>8. r = w
    BY <1>2, <1>6, <1>7
  <1> QED
    BY <1>8

\* Two rows with the same digest, accepted at any places, are one row.
LEMMA SameDigest ==
    ASSUME NEW H, NEW r \in AuditRow(H), NEW t \in AuditRow(H), NEW i, NEW j, NEW p, NEW q,
           LinkHolds(r, i, p), LinkHolds(t, j, q), r.hash = t.hash
    PROVE  r = t
  <1>1. r.hash = <<r.sequence, r.id, r.sha, p>> /\ r.body = r.sha /\ r.previous = p
    BY DEF LinkHolds, ChainHash
  <1>2. t.hash = <<t.sequence, t.id, t.sha, q>> /\ t.body = t.sha /\ t.previous = q
    BY DEF LinkHolds, ChainHash
  <1>3. <<r.sequence, r.id, r.sha, p>> = <<t.sequence, t.id, t.sha, q>>
    BY <1>1, <1>2
  <1>4. r.sequence = t.sequence /\ r.id = t.id /\ r.sha = t.sha /\ p = q
    BY <1>3
  <1>5. r = [sequence |-> r.sequence, id |-> r.id, body |-> r.body, sha |-> r.sha,
             previous |-> r.previous, hash |-> r.hash]
    BY DEF AuditRow
  <1>6. t = [sequence |-> t.sequence, id |-> t.id, body |-> t.body, sha |-> t.sha,
             previous |-> t.previous, hash |-> t.hash]
    BY DEF AuditRow
  <1> QED
    BY <1>1, <1>2, <1>4, <1>5, <1>6

\* Two chains of the same length and head are the same: the last place where they differ would
\* have the same digest in both.
LEMMA SameHead ==
    ASSUME NEW H, NEW s \in Seq(AuditRow(H)), NEW t \in Seq(AuditRow(H)), Linked(s), Linked(t),
           Len(s) = Len(t), HeadOf(s) = HeadOf(t)
    PROVE  s = t
  <1> DEFINE n == Len(s)
             Bad == {i \in 1..n : s[i] # t[i]}
  <1>1. n \in Nat /\ DOMAIN s = 1..n /\ DOMAIN t = 1..n /\ Len(s) = n /\ Len(t) = n
    OBVIOUS
  <1>2. \A i \in 1..n : s[i] \in AuditRow(H) /\ t[i] \in AuditRow(H)
    BY <1>1
  <1> HIDE DEF n
  <1>3. \A i \in 1..n : LinkHolds(s[i], i, PreviousOf(s, i)) /\ LinkHolds(t[i], i, PreviousOf(t, i))
    BY <1>1 DEF Linked
  <1>4. \A i \in 1..n : s[i].hash = t[i].hash => s[i] = t[i]
    BY <1>2, <1>3, SameDigest
  <1>5. Bad = {}
    <2> SUFFICES ASSUME Bad # {} PROVE FALSE
      OBVIOUS
    <2>1. Bad \subseteq 0..n
      BY <1>1
    <2> DEFINE k == Max(Bad)
    <2>2. k \in Bad /\ \A y \in Bad : y <= k
      <3> HIDE DEF Bad
      <3> QED
        BY <1>1, <2>1, BoundedMax
    <2> HIDE DEF k
    <2>3. k \in 1..n /\ s[k] # t[k]
      BY <2>2
    <2>4. CASE k = n
      <3>1. s # <<>> /\ t # <<>>
        BY <1>1, <2>3
      <3>2. s[n].hash = t[n].hash
        BY <1>1, <3>1 DEF HeadOf
      <3> QED
        BY <1>4, <2>3, <2>4, <3>2
    <2>5. CASE k # n
      <3> DEFINE j == k + 1
      <3>1. j \in 1..n /\ ~(j <= k) /\ j # 1 /\ j - 1 = k
        BY <1>1, <2>3, <2>5
      <3> HIDE DEF j
      <3>2. s[j] = t[j]
        BY <2>2, <3>1
      <3>3. s[j].previous = s[k].hash /\ t[j].previous = t[k].hash
        BY <1>3, <3>1 DEF LinkHolds, PreviousOf
      <3> QED
        BY <1>4, <2>3, <3>2, <3>3
    <2> QED
      BY <2>4, <2>5
  <1>6. \A i \in 1..n : s[i] = t[i]
    BY <1>5
  <1> QED
    BY <1>1, <1>6

\* Rows stay rows when more is written.
LEMMA MoreHashes ==
    ASSUME NEW H, NEW G, H \subseteq G
    PROVE  AuditRow(H) \subseteq AuditRow(G) /\ Seq(AuditRow(H)) \subseteq Seq(AuditRow(G))
  <1>1. AuditRow(H) \subseteq AuditRow(G)
    BY DEF AuditRow
  <1> HIDE DEF AuditRow
  <1> QED
    BY <1>1

\* A step that leaves what was written and kept alone, and the table one of rows.
LEMMA TableChanges ==
    ASSUME AuditInv, written' = written, receipt' = receipt, TableInv'
    PROVE  AuditInv'
  <1>1. Hashes' = Hashes
    BY DEF Hashes
  <1>2. WrittenInv'
    BY DEF AuditInv, WrittenInv
  <1>3. KeptInv'
    BY <1>1 DEF AuditInv, KeptInv
  <1> QED
    BY <1>2, <1>3 DEF AuditInv

\* The places of the table.
LEMMA Places ==
    ASSUME AuditInv
    PROVE  /\ Len(rows) \in Nat /\ DOMAIN rows = 1..Len(rows)
           /\ \A i \in DOMAIN rows : rows[i] \in AuditRow(Hashes)
           /\ (rows = <<>>) <=> (Len(rows) = 0)
  <1>1. rows \in Seq(AuditRow(Hashes))
    BY DEF AuditInv, TableInv
  <1> HIDE DEF AuditRow
  <1> QED
    BY <1>1

LEMMA AppendKeeps ==
    ASSUME AuditAssumption, AuditInv, NEW id \in Ids, NEW body \in Bodies, AppendEvent(id, body)
    PROVE  AuditInv' /\ (~Verified => ~Verified')
  <1> DEFINE n == Len(rows)
             last == IF rows = <<>> THEN 0 ELSE rows[Len(rows)].sequence
             seq == last + 1
             new == Row(seq, id, body, HeadHash)
  <1>1. /\ rows' = Append(rows, new) /\ written' = written \cup {new}
        /\ receipt' = receipt /\ faults' = faults
        /\ body \notin Sensitive /\ \A i \in DOMAIN rows : rows[i].id # id
        /\ n < MaxRows
    BY DEF AppendEvent, SafePayload, Fresh, Recorded
  <1>2. /\ n \in Nat /\ DOMAIN rows = 1..n /\ (rows = <<>> <=> n = 0)
        /\ \A i \in 1..n : rows[i] \in AuditRow(Hashes)
    BY Places
  <1>3. seq \in Nat /\ HeadHash \in {ZERO_HASH} \cup Hashes
    <2>1. CASE rows = <<>>
      BY <2>1 DEF HeadHash, HeadOf
    <2>2. CASE rows # <<>>
      <3>1. n \in 1..n
        BY <1>2, <2>2
      <3>2. rows[n].sequence \in Nat /\ rows[n].hash \in Hashes
        BY <1>2, <3>1 DEF AuditRow
      <3>3. HeadHash = rows[n].hash
        BY <2>2 DEF HeadHash, HeadOf
      <3>4. last = rows[n].sequence
        BY <2>2
      <3> HIDE DEF last, n
      <3> QED
        BY <3>2, <3>3, <3>4
    <2> QED
      BY <2>1, <2>2
  <1> HIDE DEF seq, last
  <1>4. /\ new = Row(new.sequence, new.id, new.body, new.previous) /\ new.body = body
        /\ new.id = id
    BY DEF Row
  <1>5. Hashes' = Hashes \cup {new.hash}
    BY <1>1 DEF Hashes
  <1>6. new \in AuditRow(Hashes')
    <2>1. /\ new.hash \in Hashes' /\ HeadHash \in {ZERO_HASH} \cup Hashes'
      BY <1>3, <1>5
    <2>2. new = [sequence |-> seq, id |-> id, body |-> body, sha |-> body,
                 previous |-> HeadHash, hash |-> new.hash]
      BY DEF Row
    <2> HIDE DEF new
    <2> QED
      BY <1>3, <2>1, <2>2 DEF AuditRow
  <1> HIDE DEF new
  <1>7. WrittenInv'
    BY <1>1, <1>4 DEF AuditInv, WrittenInv
  <1>8. Seq(AuditRow(Hashes)) \subseteq Seq(AuditRow(Hashes'))
    BY <1>5, MoreHashes
  <1>9. rows \in Seq(AuditRow(Hashes'))
    BY <1>8 DEF AuditInv, TableInv
  <1>10. /\ rows' \in Seq(AuditRow(Hashes')) /\ Len(rows') = n + 1 /\ DOMAIN rows' = 1..(n + 1)
         /\ rows'[n + 1] = new /\ \A i \in 1..n : rows'[i] = rows[i]
    BY <1>1, <1>6, <1>9, AppendProperties
  <1> HIDE DEF n
  <1>11. TableInv'
    <2>1. n + 1 <= MaxRows
      BY <1>1, <1>2 DEF AuditAssumption
    <2>2. \A i, j \in 1..n : rows[i].id = rows[j].id => i = j
      BY <1>2 DEF AuditInv, TableInv
    <2>3. \A i, j \in 1..(n + 1) : rows'[i].id = rows'[j].id => i = j
      <3> SUFFICES ASSUME NEW i \in 1..(n + 1), NEW j \in 1..(n + 1), rows'[i].id = rows'[j].id
                   PROVE  i = j
        OBVIOUS
      <3>1. (i \in 1..n \/ i = n + 1) /\ (j \in 1..n \/ j = n + 1)
        BY <1>2
      <3> QED
        BY <1>1, <1>2, <1>4, <1>10, <2>2, <3>1
    <2>4. faults' \in 0..MaxFaults
      BY <1>1 DEF AuditInv, TableInv
    <2> QED
      BY <1>10, <2>1, <2>3, <2>4 DEF TableInv
  <1>12. KeptInv'
    BY <1>1, <1>8 DEF AuditInv, KeptInv
  <1>13. ASSUME Verified' PROVE Verified
    <2> SUFFICES ASSUME NEW i \in 1..n PROVE LinkHolds(rows[i], i, PreviousOf(rows, i))
      BY <1>2 DEF Verified, Linked
    <2>1. i \in 1..(n + 1)
      BY <1>2
    <2>2. LinkHolds(rows'[i], i, PreviousOf(rows', i))
      BY <1>10, <1>13, <2>1 DEF Verified, Linked
    <2>3. PreviousOf(rows', i) = PreviousOf(rows, i)
      <3>1. CASE i = 1
        BY <3>1 DEF PreviousOf
      <3>2. CASE i # 1
        <4> DEFINE j == i - 1
        <4>1. j \in 1..n
          BY <1>2, <3>2
        <4> HIDE DEF j
        <4>2. rows'[j] = rows[j]
          BY <1>10, <4>1
        <4> QED
          BY <3>2, <4>2 DEF PreviousOf, j
      <3> QED
        BY <3>1, <3>2
    <2> QED
      BY <1>10, <2>2, <2>3
  <1> QED
    BY <1>7, <1>11, <1>12, <1>13 DEF AuditInv

LEMMA KeepKeeps ==
    ASSUME AuditInv, Keep
    PROVE  AuditInv' /\ (~Verified => ~Verified')
  <1>1. rows' = rows /\ written' = written /\ faults' = faults
        /\ receipt' = {[count |-> Len(rows), head |-> HeadHash, copy |-> rows]} /\ Verified
    BY DEF Keep
  <1>2. Hashes' = Hashes
    BY <1>1 DEF Hashes
  <1>3. WrittenInv'
    BY <1>1 DEF AuditInv, WrittenInv
  <1>4. TableInv'
    BY <1>1, <1>2 DEF AuditInv, TableInv
  <1>5. KeptInv'
    <2>1. rows \in Seq(AuditRow(Hashes)) /\ Linked(rows) /\ HeadHash = HeadOf(rows)
      BY <1>1 DEF AuditInv, TableInv, Verified, HeadHash
    <2> QED
      BY <1>1, <1>2, <2>1 DEF KeptInv
  <1> QED
    BY <1>1, <1>3, <1>4, <1>5 DEF AuditInv

LEMMA LoseKeeps ==
    ASSUME AuditAssumption, AuditInv, NEW i \in DOMAIN rows, LoseRow(i)
    PROVE  AuditInv' /\ faults' # faults
  <1> DEFINE n == Len(rows)
             m == n - 1
             R == AuditRow(Hashes)
  <1>1. /\ rows' = SubSeq(rows, 1, i - 1) \o SubSeq(rows, i + 1, Len(rows))
        /\ written' = written /\ receipt' = receipt /\ faults' = faults + 1 /\ faults < MaxFaults
    BY DEF LoseRow, RemoveAt
  <1>2. rows \in Seq(R) /\ n \in Nat /\ i \in 1..n /\ n <= MaxRows /\ faults \in 0..MaxFaults
    BY Places DEF AuditInv, TableInv
  <1> HIDE DEF R
  <1>3. /\ rows' \in Seq(R) /\ Len(rows') = m /\ DOMAIN rows' = 1..m
        /\ \A k \in 1..m : rows'[k] = IF k < i THEN rows[k] ELSE rows[k + 1]
    <2> DEFINE a == SubSeq(rows, 1, i - 1)
               b == SubSeq(rows, i + 1, n)
    <2>1. a \in Seq(R) /\ Len(a) = i - 1 /\ \A k \in 1..(i - 1) : a[k] = rows[k]
      BY <1>2
    <2>2. b \in Seq(R) /\ Len(b) = n - i /\ \A k \in 1..(n - i) : b[k] = rows[i + k]
      BY <1>2
    <2>3. rows' = a \o b
      BY <1>1
    <2> HIDE DEF a, b, n
    <2>4. /\ a \o b \in Seq(R) /\ Len(a \o b) = (i - 1) + (n - i)
          /\ \A k \in 1..((i - 1) + (n - i)) :
                (a \o b)[k] = IF k <= i - 1 THEN a[k] ELSE b[k - (i - 1)]
      BY <2>1, <2>2
    <2>5. (i - 1) + (n - i) = m
      BY <1>2
    <2>6. ASSUME NEW k \in 1..m PROVE rows'[k] = IF k < i THEN rows[k] ELSE rows[k + 1]
      <3>1. CASE k < i
        BY <1>2, <2>1, <2>3, <2>4, <2>5, <3>1
      <3>2. CASE ~(k < i)
        <4> DEFINE j == k - (i - 1)
        <4>1. j \in 1..(n - i) /\ i + j = k + 1 /\ ~(k <= i - 1)
          BY <1>2, <3>2
        <4>2. rows'[k] = b[j]
          BY <2>3, <2>4, <2>5, <4>1
        <4> HIDE DEF j
        <4> QED
          BY <2>2, <3>2, <4>1, <4>2
      <3> QED
        BY <3>1, <3>2
    <2>7. Len(rows') = m /\ rows' \in Seq(R)
      BY <2>3, <2>4, <2>5
    <2> HIDE DEF m
    <2> QED
      BY <2>6, <2>7
  <1> HIDE DEF n
  <1>4. \A k \in 1..m : \E x \in 1..n : rows'[k] = rows[x] /\ x = (IF k < i THEN k ELSE k + 1)
    BY <1>2, <1>3
  <1>5. \A x, y \in 1..n : rows[x].id = rows[y].id => x = y
    BY Places DEF AuditInv, TableInv, n
  <1>6. \A x, y \in 1..m : rows'[x].id = rows'[y].id => x = y
    <2> SUFFICES ASSUME NEW x \in 1..m, NEW y \in 1..m, rows'[x].id = rows'[y].id PROVE x = y
      OBVIOUS
    <2>1. PICK u \in 1..n : rows'[x] = rows[u] /\ u = (IF x < i THEN x ELSE x + 1)
      BY <1>4
    <2>2. PICK v \in 1..n : rows'[y] = rows[v] /\ v = (IF y < i THEN y ELSE y + 1)
      BY <1>4
    <2>3. u = v
      BY <1>5, <2>1, <2>2
    <2> QED
      BY <1>2, <2>1, <2>2, <2>3
  <1>7. faults' \in 0..MaxFaults /\ faults' # faults /\ m <= MaxRows
    BY <1>1, <1>2 DEF AuditAssumption
  <1>8. Hashes' = Hashes
    BY <1>1 DEF Hashes
  <1>9. TableInv'
    BY <1>3, <1>6, <1>7, <1>8 DEF TableInv, R
  <1> QED
    BY <1>1, <1>7, <1>9, TableChanges

\* One row becomes another row of the type whose identity no other row has.
LEMMA RowChanged ==
    ASSUME AuditInv, NEW i \in DOMAIN rows, NEW r \in AuditRow(Hashes), written' = written,
           \A j \in DOMAIN rows : j # i => rows[j].id # r.id,
           rows' = [rows EXCEPT ![i] = r], faults' \in 0..MaxFaults
    PROVE  TableInv'
  <1>1. Hashes' = Hashes
    BY DEF Hashes
  <1>2. rows \in Seq(AuditRow(Hashes)) /\ Len(rows) <= MaxRows
    BY DEF AuditInv, TableInv
  <1>3. rows' \in Seq(AuditRow(Hashes)) /\ Len(rows') = Len(rows) /\ DOMAIN rows' = DOMAIN rows
    <2> DEFINE R == AuditRow(Hashes)
    <2>1. rows \in Seq(R) /\ r \in R
      BY <1>2
    <2>2. rows' \in Seq(R) /\ Len(rows') = Len(rows) /\ DOMAIN rows' = DOMAIN rows
      <3> HIDE DEF R
      <3> QED
        BY <2>1
    <2> QED
      BY <2>2
  <1>4. \A j, k \in DOMAIN rows : rows'[j].id = rows'[k].id => j = k
    <2>1. \A j \in DOMAIN rows : rows'[j] = IF j = i THEN r ELSE rows[j]
      OBVIOUS
    <2>2. \A j, k \in DOMAIN rows : rows[j].id = rows[k].id => j = k
      BY DEF AuditInv, TableInv
    <2> QED
      BY <2>1, <2>2
  <1> QED
    BY <1>1, <1>2, <1>3, <1>4 DEF TableInv

\* A row seen at another place of the table.
LEMMA RowMoved ==
    ASSUME AuditInv, NEW i \in DOMAIN rows, NEW n \in Nat, written' = written, Resequence(i, n),
           faults' \in 0..MaxFaults
    PROVE  TableInv'
  <1> DEFINE D == DOMAIN rows
             new == [rows[i] EXCEPT !.sequence = n]
             R == AuditRow(Hashes)
  <1>1. PICK p \in Bijection(D, D) :
            rows' = [k \in D |-> IF p[k] = i THEN new ELSE rows[p[k]]]
    BY DEF Resequence
  <1>2. p \in [D -> D] /\ \A j, k \in D : p[j] = p[k] => j = k
    BY <1>1 DEF Bijection, Injection, IsInjective
  <1>3. D = 1..Len(rows) /\ Len(rows) \in Nat /\ \A k \in D : rows[k] \in R
    BY Places
  <1>4. new \in R /\ new.id = rows[i].id
    <2>1. rows[i] \in R
      BY <1>3
    <2> QED
      BY <2>1 DEF AuditRow
  <1> HIDE DEF new, R, D
  <1>5. \A k \in D : p[k] \in D /\ rows'[k] \in R /\ rows'[k].id = rows[p[k]].id
    BY <1>1, <1>2, <1>3, <1>4
  <1>6. rows' \in Seq(R) /\ Len(rows') = Len(rows) /\ DOMAIN rows' = D
    <2>1. rows' \in [1..Len(rows) -> R]
      BY <1>1, <1>3, <1>5
    <2> QED
      BY <1>3, <2>1
  <1>7. \A j, k \in D : rows[j].id = rows[k].id => j = k
    BY DEF AuditInv, TableInv, D
  <1>8. \A j, k \in D : rows'[j].id = rows'[k].id => j = k
    BY <1>2, <1>5, <1>7
  <1>9. Hashes' = Hashes
    BY DEF Hashes
  <1>10. Len(rows) <= MaxRows
    BY DEF AuditInv, TableInv
  <1> QED
    BY <1>6, <1>8, <1>9, <1>10 DEF TableInv, R

LEMMA DamageKeeps ==
    ASSUME AuditAssumption, AuditInv, NEW i \in DOMAIN rows, Damage(i)
    PROVE  AuditInv' /\ faults' # faults
  <1> DEFINE R == AuditRow(Hashes)
             old == rows[i]
  <1>1. written' = written /\ receipt' = receipt /\ faults' = faults + 1 /\ faults < MaxFaults
    BY DEF Damage
  <1>2. faults' \in 0..MaxFaults /\ faults' # faults
    BY <1>1 DEF AuditAssumption, AuditInv, TableInv
  <1>3. old \in R
    BY Places
  <1>4. \A j \in DOMAIN rows : j # i => rows[j].id # old.id
    BY DEF AuditInv, TableInv
  <1>5. \A w \in written : w.hash \in Hashes
    BY DEF Hashes
  <1>6. ASSUME NEW b \in Bodies, rows' = [rows EXCEPT ![i].body = b] PROVE TableInv'
    <2> DEFINE new == [old EXCEPT !.body = b]
    <2>1. new \in R /\ new.id = old.id
      BY <1>3 DEF AuditRow
    <2>2. rows' = [rows EXCEPT ![i] = new]
      BY <1>6
    <2>3. \A j \in DOMAIN rows : j # i => rows[j].id # new.id
      BY <1>4, <2>1
    <2> HIDE DEF new
    <2> QED
      BY <1>1, <1>2, <2>1, <2>2, <2>3, RowChanged
  <1>7. ASSUME NEW b \in Bodies, rows' = [rows EXCEPT ![i].sha = b] PROVE TableInv'
    <2> DEFINE new == [old EXCEPT !.sha = b]
    <2>1. new \in R /\ new.id = old.id
      BY <1>3 DEF AuditRow
    <2>2. rows' = [rows EXCEPT ![i] = new]
      BY <1>7
    <2>3. \A j \in DOMAIN rows : j # i => rows[j].id # new.id
      BY <1>4, <2>1
    <2> HIDE DEF new
    <2> QED
      BY <1>1, <1>2, <2>1, <2>2, <2>3, RowChanged
  <1>8. ASSUME NEW id \in Ids, Recorded(id) = {}, rows' = [rows EXCEPT ![i].id = id]
        PROVE  TableInv'
    <2> DEFINE new == [old EXCEPT !.id = id]
    <2>1. new \in R /\ new.id = id
      BY <1>3 DEF AuditRow
    <2>2. rows' = [rows EXCEPT ![i] = new]
      BY <1>8
    <2>3. \A j \in DOMAIN rows : rows[j].id # id
      BY <1>8 DEF Recorded
    <2> HIDE DEF new, old
    <2> QED
      BY <1>1, <1>2, <2>1, <2>2, <2>3, RowChanged
  <1>9. ASSUME NEW h \in Hashes, rows' = [rows EXCEPT ![i].previous = h] PROVE TableInv'
    <2> DEFINE new == [old EXCEPT !.previous = h]
    <2>1. new \in R /\ new.id = old.id
      BY <1>3 DEF AuditRow
    <2>2. rows' = [rows EXCEPT ![i] = new]
      BY <1>9
    <2>3. \A j \in DOMAIN rows : j # i => rows[j].id # new.id
      BY <1>4, <2>1
    <2> HIDE DEF new
    <2> QED
      BY <1>1, <1>2, <2>1, <2>2, <2>3, RowChanged
  <1>10. ASSUME NEW h \in Hashes, rows' = [rows EXCEPT ![i].hash = h] PROVE TableInv'
    <2> DEFINE new == [old EXCEPT !.hash = h]
    <2>1. new \in R /\ new.id = old.id
      BY <1>3 DEF AuditRow
    <2>2. rows' = [rows EXCEPT ![i] = new]
      BY <1>10
    <2>3. \A j \in DOMAIN rows : j # i => rows[j].id # new.id
      BY <1>4, <2>1
    <2> HIDE DEF new
    <2> QED
      BY <1>1, <1>2, <2>1, <2>2, <2>3, RowChanged
  <1>11. ASSUME NEW n \in 0..(MaxRows + 1), Resequence(i, n) PROVE TableInv'
    <2>1. n \in Nat
      BY DEF AuditAssumption
    <2> QED
      BY <1>1, <1>2, <1>11, <2>1, RowMoved
  <1>12. \/ \E b \in Bodies : rows' = [rows EXCEPT ![i].body = b] \/ rows' = [rows EXCEPT ![i].sha = b]
         \/ \E id \in Ids : Recorded(id) = {} /\ rows' = [rows EXCEPT ![i].id = id]
         \/ \E n \in 0..(MaxRows + 1) : Resequence(i, n)
         \/ \E w \in written : \/ rows' = [rows EXCEPT ![i].previous = w.hash]
                               \/ rows' = [rows EXCEPT ![i].hash = w.hash]
    BY Zenon DEF Damage
  <1>13. TableInv'
    BY <1>5, <1>6, <1>7, <1>8, <1>9, <1>10, <1>11, <1>12
  <1> QED
    BY <1>1, <1>2, <1>13, TableChanges

LEMMA AuditStutters ==
    ASSUME AuditInv, UNCHANGED auditVars
    PROVE  AuditInv' /\ (~Verified => ~Verified')
  <1>1. rows' = rows /\ written' = written /\ receipt' = receipt /\ faults' = faults
    BY DEF auditVars
  <1>2. Hashes' = Hashes
    BY <1>1 DEF Hashes
  <1>3. TableInv'
    BY <1>1, <1>2 DEF AuditInv, TableInv
  <1> QED
    BY <1>1, <1>3, TableChanges DEF Verified

LEMMA AuditInvInit ==
    ASSUME AuditAssumption, AuditInit
    PROVE  AuditInv
  <1>1. rows = <<>> /\ written = {} /\ receipt = {} /\ faults = 0
    BY DEF AuditInit
  <1>2. TableInv
    BY <1>1 DEF TableInv, AuditAssumption
  <1> QED
    BY <1>1, <1>2 DEF AuditInv, WrittenInv, KeptInv

\* Every step keeps the invariant, and only a storage fault makes a refused table acceptable.
LEMMA AuditInvNext ==
    ASSUME AuditAssumption, AuditInv, [AuditNext]_auditVars
    PROVE  AuditInv' /\ ((~Verified /\ faults' = faults) => ~Verified')
  <1>1. ASSUME NEW id \in Ids, NEW body \in Bodies, AppendEvent(id, body)
        PROVE  AuditInv' /\ (~Verified => ~Verified')
    BY <1>1, AppendKeeps
  <1>2. CASE Keep
    BY <1>2, KeepKeeps
  <1>3. ASSUME NEW i \in DOMAIN rows, LoseRow(i)
        PROVE  AuditInv' /\ faults' # faults
    BY <1>3, LoseKeeps
  <1>4. ASSUME NEW i \in DOMAIN rows, Damage(i)
        PROVE  AuditInv' /\ faults' # faults
    BY <1>4, DamageKeeps
  <1>5. CASE UNCHANGED auditVars
    BY <1>5, AuditStutters
  <1> QED
    BY <1>1, <1>2, <1>3, <1>4, <1>5 DEF AuditNext

LEMMA AuditInvImplies ==
    ASSUME AuditInv
    PROVE  AuditTypeOK /\ AcceptedIsAsWritten /\ ReceiptBindsTable
  <1>1. AuditTypeOK
    <2>1. \A i \in DOMAIN rows : rows[i].id \in Ids /\ rows[i].body \in Bodies
                                 /\ rows[i].sha \in Bodies /\ rows[i].sequence \in Nat
      BY Places DEF AuditRow
    <2> QED
      BY <2>1 DEF AuditTypeOK, AuditInv, TableInv, WrittenInv
  <1>2. AcceptedIsAsWritten
    <2> SUFFICES ASSUME Verified
                 PROVE  /\ ToSet(rows) \subseteq written
                        /\ \A i, j \in DOMAIN rows : rows[i].id = rows[j].id => i = j
      BY DEF AcceptedIsAsWritten
    <2>1. ASSUME NEW i \in DOMAIN rows PROVE rows[i] \in written
      <3>1. rows[i] \in AuditRow(Hashes)
        BY Places
      <3>2. LinkHolds(rows[i], i, PreviousOf(rows, i))
        BY DEF Verified, Linked
      <3> QED
        BY <3>1, <3>2, AcceptedRow DEF AuditInv
    <2>2. ToSet(rows) \subseteq written
      BY <2>1 DEF ToSet
    <2> QED
      BY <2>2 DEF AuditInv, TableInv
  <1>3. ReceiptBindsTable
    <2> SUFFICES ASSUME NEW r \in receipt, VerifiedAgainst(r.count, r.head) PROVE rows = r.copy
      BY DEF ReceiptBindsTable
    <2>1. Linked(rows) /\ Len(rows) = r.count /\ HeadOf(rows) = r.head
      BY DEF VerifiedAgainst, Verified, HeadHash
    <2>2. /\ r.copy \in Seq(AuditRow(Hashes)) /\ Linked(r.copy)
          /\ r.count = Len(r.copy) /\ r.head = HeadOf(r.copy)
      BY DEF AuditInv, KeptInv
    <2>3. rows \in Seq(AuditRow(Hashes))
      BY DEF AuditInv, TableInv
    <2> QED
      BY <2>1, <2>2, <2>3, SameHead
  <1> QED
    BY <1>1, <1>2, <1>3

\* In every state the digests of the table are digests of rows that append wrote, and a receipt
\* is of a table that verified (audit.py append, verify).
THEOREM AuditInvariant ==
    ASSUME AuditAssumption
    PROVE  AuditSpec => []AuditInv
  <1>1. AuditInit => AuditInv
    BY AuditInvInit
  <1>2. AuditInv /\ [AuditNext]_auditVars => AuditInv'
    BY AuditInvNext
  <1> QED
    BY <1>1, <1>2, PTL DEF AuditSpec

\* For any tables, events and number of storage faults: what verify accepts is what append
\* wrote, a kept count and head identify the table they were taken of, and a table that verify
\* refuses is refused after any number of appends (audit.py append, verify).
THEOREM DamageStaysNoticed ==
    ASSUME AuditAssumption
    PROVE  AuditSpec => DamageIsNoticed
  <1>1. AuditSpec => []AuditInv
    BY AuditInvariant
  <1>2. AuditInv => AuditTypeOK /\ AcceptedIsAsWritten /\ ReceiptBindsTable
    BY AuditInvImplies
  <1>3. AuditInv /\ [AuditNext]_auditVars
            => [(~Verified /\ faults' = faults) => ~Verified']_auditVars
    BY AuditInvNext
  <1> QED
    BY <1>1, <1>2, <1>3, PTL DEF AuditSpec, DamageIsNoticed, DamageIsPermanent

=============================================================================
