----------------------------- MODULE WriterLease -----------------------------
(***************************************************************************)
(* The single-writer protocol of persistence/writer_lease.py: an OS file   *)
(* lock beside the database, and a lease row in it with owner, generation  *)
(* and expiry that every write re-proves and that two WriterLeaseGuards    *)
(* (the daemon's and the execution controller's) keep renewing.            *)
(*                                                                         *)
(* Processes crash, stall for any time between two of their steps, and     *)
(* compete with operator commands.  The wall clock may be stepped and the  *)
(* lock file may be replaced under a holder: then the row alone decides.   *)
(***************************************************************************)
EXTENDS Integers

CONSTANTS
    Proc,             \* processes that want to write
    NoProc,           \* none of them
    TTL,              \* ttl of a lease
    Interval,         \* renew_interval of a guard
    MaxTime,          \* bound on the wall clock
    MaxAcquired,      \* bound on acquisitions
    MaxSteps,         \* bound on steps of the wall clock
    LockReplaceable,  \* the lock file may be removed while it is held
    Punctual          \* every holder is checked between two ticks

TimeAssumption ==
    /\ TTL \in Nat /\ Interval \in Nat \ {0} /\ Interval < TTL
    /\ MaxTime \in Nat /\ MaxAcquired \in Nat /\ MaxSteps \in Nat
ProcAssumption == NoProc \notin Proc
FlagAssumption == LockReplaceable \in BOOLEAN /\ Punctual \in BOOLEAN

Guards == {"daemon", "execution"}

VARIABLES
    flock,   \* process that holds the lock of the file at lock_path
    row,     \* the writer_leases row: process, generation, expires_at
    now,     \* wall clock
    steps,   \* wall clock steps so far
    st,      \* process -> "down", "locked" (file lock only) or "held"
    lease,   \* process -> its WriterLease object
    guard,   \* process -> guard -> its WriterLeaseGuard object
    epochs,  \* history: acquisitions so far
    passed   \* history: epoch of the last successful check

procVars == <<st, lease, guard>>
vars == <<flock, row, now, steps, procVars, epochs, passed>>

NoRow == [owner |-> NoProc, generation |-> 0, expires |-> 0]
NoLease == [generation |-> 0, lost |-> FALSE, epoch |-> 0]
NewGuard == [lost |-> FALSE, since |-> 0, seen |-> TRUE]

-----------------------------------------------------------------------------
(* Time.                                                                   *)

\* Ticks since the last renewal, as far as check can tell them apart.
Later(g) == [g EXCEPT !.since = IF @ < Interval THEN @ + 1 ELSE @, !.seen = FALSE]

Tick ==
    /\ now < MaxTime
    /\ Punctual => \A p \in Proc : st[p] = "held" => \E k \in Guards : guard[p][k].seen
    /\ now' = now + 1
    /\ guard' = [p \in Proc |-> [k \in Guards |-> Later(guard[p][k])]]
    /\ UNCHANGED <<flock, row, steps, st, lease, epochs, passed>>

\* The wall clock alone is set: the monotonic clock of the guards goes on.
ClockStep ==
    /\ steps < MaxSteps
    /\ now' \in 0..MaxTime /\ now' # now
    /\ steps' = steps + 1
    /\ UNCHANGED <<flock, row, procVars, epochs, passed>>

LockFileReplaced ==
    /\ LockReplaceable /\ flock # NoProc
    /\ flock' = NoProc
    /\ UNCHANGED <<row, now, steps, procVars, epochs, passed>>

-----------------------------------------------------------------------------
(* WriterLease.acquire: the file lock, then one EXCLUSIVE transaction.     *)

Unlock(p) == flock' = IF flock = p THEN NoProc ELSE flock

AcquireLock(p) ==
    /\ st[p] = "down" /\ flock = NoProc /\ epochs < MaxAcquired
    /\ flock' = p /\ st' = [st EXCEPT ![p] = "locked"]
    /\ UNCHANGED <<row, now, steps, lease, guard, epochs, passed>>

RowExpired == row = NoRow \/ row.expires <= now

NextGeneration == IF row = NoRow THEN 1 ELSE row.generation + 1

AcquireRow(p) ==
    /\ st[p] = "locked" /\ RowExpired
    /\ epochs < MaxAcquired
    /\ row' = [owner |-> p, generation |-> NextGeneration, expires |-> now + TTL]
    /\ epochs' = epochs + 1
    /\ st' = [st EXCEPT ![p] = "held"]
    /\ lease' = [lease EXCEPT ![p] = [generation |-> NextGeneration, lost |-> FALSE,
                                      epoch |-> epochs + 1]]
    /\ guard' = [guard EXCEPT ![p] = [k \in Guards |-> NewGuard]]
    /\ UNCHANGED <<flock, now, steps, passed>>

\* WriterLeaseBusy: the file lock is given back.
AcquireBusy(p) ==
    /\ st[p] = "locked" /\ ~RowExpired
    /\ st' = [st EXCEPT ![p] = "down"] /\ Unlock(p)
    /\ UNCHANGED <<row, now, steps, lease, guard, epochs, passed>>

-----------------------------------------------------------------------------
(* The proof of ownership: assert_current, renew and WriterLeaseGuard.check.*)

Matches(p) == row.owner = p /\ row.generation = lease[p].generation

\* Mutant: only the expiry of the row is compared.
UnexpiredOnly(p) == row # NoRow /\ ~lease[p].lost /\ now < row.expires

Current(p) == ~lease[p].lost /\ Matches(p) /\ now < row.expires

Renewable(p) == Current(p)

Lose(p) == lease' = [lease EXCEPT ![p].lost = TRUE]

Pass(p) == passed' = lease[p].epoch

\* Called directly by the repositories before a transaction.
AssertCurrent(p) ==
    /\ st[p] = "held"
    /\ IF Current(p) THEN Pass(p) /\ UNCHANGED lease ELSE Lose(p) /\ UNCHANGED passed
    /\ UNCHANGED <<flock, row, now, steps, st, guard, epochs>>

Due(p, k) == guard[p][k].since >= Interval

RenewNoted(p, k) == guard' = [guard EXCEPT ![p][k].seen = TRUE, ![p][k].since = 0]

RenewedExpiry == now + TTL

CheckRenews(p, k) ==
    /\ st[p] = "held" /\ ~guard[p][k].lost /\ Due(p, k) /\ Renewable(p)
    /\ row' = [row EXCEPT !.expires = RenewedExpiry]
    /\ RenewNoted(p, k)
    /\ Pass(p)
    /\ UNCHANGED <<flock, now, steps, st, lease, epochs>>

\* Mutant: a check without a renewal restarts the interval too.
AssertCountsAsRenewal(p, k) ==
    /\ st[p] = "held" /\ ~guard[p][k].lost /\ ~Due(p, k) /\ Current(p)
    /\ RenewNoted(p, k)
    /\ Pass(p)
    /\ UNCHANGED <<flock, row, now, steps, st, lease, epochs>>

CheckAsserts(p, k) ==
    /\ st[p] = "held" /\ ~guard[p][k].lost /\ ~Due(p, k) /\ Current(p)
    /\ guard' = [guard EXCEPT ![p][k].seen = TRUE]
    /\ Pass(p)
    /\ UNCHANGED <<flock, row, now, steps, st, lease, epochs>>

\* The lease is found expired, replaced or gone.
CheckLoses(p, k) ==
    /\ st[p] = "held" /\ ~guard[p][k].lost
    /\ IF Due(p, k) THEN ~Renewable(p) ELSE ~Current(p)
    /\ Lose(p)
    /\ guard' = [guard EXCEPT ![p][k].lost = TRUE, ![p][k].seen = TRUE]
    /\ UNCHANGED <<flock, row, now, steps, st, epochs, passed>>

\* The monotonic clock of the guard runs backwards or is no number.
CheckClockInvalid(p, k) ==
    /\ MaxSteps > 0
    /\ st[p] = "held" /\ ~guard[p][k].lost
    /\ guard' = [guard EXCEPT ![p][k].lost = TRUE, ![p][k].seen = TRUE]
    /\ UNCHANGED <<flock, row, now, steps, st, lease, epochs, passed>>

-----------------------------------------------------------------------------
(* release and crashes.                                                    *)

Leave(p) ==
    /\ st' = [st EXCEPT ![p] = "down"]
    /\ lease' = [lease EXCEPT ![p] = NoLease]
    /\ guard' = [guard EXCEPT ![p] = [k \in Guards |-> NewGuard]]
    /\ Unlock(p)
    /\ UNCHANGED <<now, steps, epochs, passed>>

\* DELETE ... WHERE owner, host, process and generation are still its own.
DeleteOwnRow(p) == row' = IF Matches(p) THEN NoRow ELSE row

Release(p) == st[p] = "held" /\ DeleteOwnRow(p) /\ Leave(p)

\* The OS frees the file lock; the row stays until it expires.
Crash(p) == st[p] # "down" /\ UNCHANGED row /\ Leave(p)

-----------------------------------------------------------------------------
Init ==
    /\ flock = NoProc /\ row = NoRow /\ now = 0 /\ steps = 0
    /\ st = [p \in Proc |-> "down"] /\ lease = [p \in Proc |-> NoLease]
    /\ guard = [p \in Proc |-> [k \in Guards |-> NewGuard]]
    /\ epochs = 0 /\ passed = 0

Acquire(p) == AcquireLock(p) \/ AcquireRow(p) \/ AcquireBusy(p)

Check(p, k) ==
    CheckRenews(p, k) \/ CheckAsserts(p, k) \/ CheckLoses(p, k) \/ CheckClockInvalid(p, k)

Next ==
    \/ Tick \/ ClockStep \/ LockFileReplaced
    \/ \E p \in Proc :
          \/ Acquire(p) \/ AssertCurrent(p) \/ Release(p) \/ Crash(p)
          \/ \E k \in Guards : Check(p, k)

Spec == Init /\ [][Next]_vars

-----------------------------------------------------------------------------
(* Properties.                                                             *)

TypeOK ==
    /\ flock \in Proc \cup {NoProc}
    /\ row \in [owner : Proc \cup {NoProc}, generation : 0..MaxAcquired,
                expires : 0..(MaxTime + TTL)]
    /\ now \in 0..MaxTime /\ steps \in 0..MaxSteps
    /\ st \in [Proc -> {"down", "locked", "held"}]
    /\ lease \in [Proc -> [generation : 0..MaxAcquired, lost : BOOLEAN,
                           epoch : 0..MaxAcquired]]
    /\ guard \in [Proc -> [Guards -> [lost : BOOLEAN, since : 0..Interval, seen : BOOLEAN]]]
    /\ epochs \in 0..MaxAcquired /\ passed \in 0..epochs

\* A later writer fences every earlier one: once a lease of some epoch has
\* passed a check, no lease acquired before it passes one again, through
\* stalls, clock steps, releases that restart the generation at 1, and a lock
\* file replaced under its holder.
ChecksAreFenced == [][passed' >= passed]_vars

Expired(p) == st[p] = "held" /\ (~Matches(p) \/ row.expires <= now)

\* An expired lease never proves itself again, unless the clock is set back: not by a late
\* renewal, not in another guard, not after a sleep.
ExpiredNeverRevives ==
    [][\A p \in Proc :
          Expired(p) /\ steps' = steps
             => \/ st'[p] = "down"
                \/ Expired(p)' /\ (passed' # passed => passed' # lease[p].epoch)]_vars

\* The row of a live holder is never taken over or deleted by another process
\* before it expires, even by one that got past the file lock.
RowOutlivesOnlyItsOwner ==
    [][\A p \in Proc :
          st[p] = "held" /\ Matches(p) /\ now < row.expires /\ row' # row
             => row'.owner = p \/ st'[p] = "down"]_vars

\* However long a process stalls: once a later writer has passed a check no earlier one
\* passes again, an expired lease stays expired unless the clock is set back, and no other
\* process takes or deletes the row of a live holder (writer_lease.py acquire, renew,
\* assert_current, release).
OneWriter == []TypeOK /\ ChecksAreFenced /\ ExpiredNeverRevives /\ RowOutlivesOnlyItsOwner

\* A holder whose guards are asked between any two ticks never loses its
\* lease: the renewal interval leaves no gap before the expiry, whichever of
\* the two guards is asked (writer_lease.py WriterLeaseGuard.check).
PunctualHolderKeepsLease ==
    \A p \in Proc : st[p] = "held" => Current(p)

\* The row of a crashed writer does not lock the database for ever: it
\* expires (within the bound on time) and the next command takes it over.
CrashedWriterIsReplaced ==
    (row # NoRow /\ row.expires <= MaxTime /\ st[row.owner] = "down" /\ epochs < MaxAcquired)
       ~> (row = NoRow \/ st[row.owner] = "held")

=============================================================================
