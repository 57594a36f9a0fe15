-------------------------- MODULE DataGenerations ---------------------------
(***************************************************************************)
(* Generations of strategy data on disk: the active pointer, the in-place  *)
(* append of a daily update, rewrite candidates, and the promotion of an   *)
(* approved candidate with its pending marker, receipt and audit event.    *)
(* The daemon and the operator's command exclude each other by the writer  *)
(* lease, so there is one process at a time, and it may die at any step.   *)
(* A digest is the content it is the digest of.                            *)
(***************************************************************************)
EXTENDS Integers, Sequences, FiniteSets, SequencesExt

CONSTANTS
    Symbol,
    Version,        \* what the source says a bar is
    Required,       \* symbols that must reach every session
    First,          \* the version of the seed's bars
    None,
    MaxRows,        \* bound: bars per symbol
    MaxCandidates,  \* bound: rewrite candidates
    MaxCrashes      \* bound: crashes

DataAssumption ==
    /\ First \in Version /\ Required \subseteq Symbol
    /\ MaxRows \in Nat \ {0} /\ {MaxCandidates, MaxCrashes} \subseteq Nat

Series == UNION {[1..n -> Version] : n \in 1..MaxRows}
Content == [Symbol -> Series]
Seed == [s \in Symbol |-> <<First>>]

\* A pointer or a marker that is there is told apart from none.
NoneAssumption ==
    \A x, y \in Content :
        /\ None # [id |-> x, data |-> y]
        /\ \A c \in 1..MaxCandidates : None # [candidate |-> c, prev |-> x, new |-> y]

VARIABLES
    gens,        \* generations: id (content when created), members, manifest, copied whole
    pointer,     \* active.json
    cands,       \* candidates: base generation, old and new content, approved by the operator
    pending,     \* pending-promotion.json
    receipts,    \* promotion receipts, by candidate
    audited,     \* operator audit events, by candidate
    pc, work,    \* the process: what it is at, and with which data or candidate
    crashes

vars == <<gens, pointer, cands, pending, receipts, audited, pc, work, crashes>>
disk == <<gens, pointer, cands, pending, receipts, audited>>

Gen(id) == CHOOSE g \in gens : g.id = id
Exists(id) == \E g \in gens : g.id = id
Loads(id) == Exists(id) /\ Gen(id).whole /\ Gen(id).members = Gen(id).manifest
ActiveLoads == pointer # None /\ Loads(pointer.id) /\ Gen(pointer.id).members = pointer.data
Active == Gen(pointer.id)

Init ==
    /\ gens = {} /\ pointer = None /\ cands = <<>> /\ pending = None
    /\ receipts = {} /\ audited = {}
    /\ pc = "down" /\ work = None /\ crashes = 0

Crash ==
    /\ pc # "down" /\ crashes < MaxCrashes
    /\ crashes' = crashes + 1 /\ pc' = "down" /\ work' = None
    /\ UNCHANGED disk

\* The process ends or the call raises; nothing on disk is undone.
Leave(there) == pc' = there /\ work' = None /\ UNCHANGED <<disk, crashes>>

-----------------------------------------------------------------------------
(* A generation is copied member by member into its final directory.       *)

Absent(id) == ~Exists(id)

BeginCopy(id) ==
    gens' = {g \in gens : g.id # id} \cup {[id |-> id, members |-> id, manifest |-> id, whole |-> FALSE]}

EndCopy(id) ==
    gens' = {g \in gens : g.id # id} \cup {[id |-> id, members |-> id, manifest |-> id, whole |-> TRUE]}

-----------------------------------------------------------------------------
(* ensure_active, when the daemon starts.                                  *)

Start ==
    /\ pc = "down"
    /\ pc' = IF pending # None /\ pointer # None THEN "recover-daemon"
             ELSE IF pointer # None THEN "load-active"
             ELSE IF Absent(Seed) THEN "seed" ELSE "load-seed"
    /\ UNCHANGED <<disk, work, crashes>>

SeedBegins ==
    /\ pc = "seed"
    /\ BeginCopy(Seed) /\ pc' = "seeding"
    /\ UNCHANGED <<pointer, cands, pending, receipts, audited, work, crashes>>

SeedEnds ==
    /\ pc = "seeding"
    /\ EndCopy(Seed) /\ pc' = "load-seed"
    /\ UNCHANGED <<pointer, cands, pending, receipts, audited, work, crashes>>

LoadSeed ==
    /\ pc = "load-seed" /\ Loads(Seed)
    /\ pointer' = [id |-> Seed, data |-> Gen(Seed).members] /\ pc' = "running"
    /\ UNCHANGED <<gens, cands, pending, receipts, audited, work, crashes>>

LoadActive == pc = "load-active" /\ ActiveLoads /\ Leave("running")

StartRefused ==
    /\ \/ pc = "load-seed" /\ ~Loads(Seed)
       \/ pc = "load-active" /\ ~ActiveLoads
    /\ Leave("down")

Stop == pc = "running" /\ Leave("down")

-----------------------------------------------------------------------------
(* The daily update.                                                       *)

\* Mutant: only the number of bars is compared.
Extends_Length(raw, old) == \A s \in Symbol : Len(raw[s]) >= Len(old[s])

\* Every bar there is occurs unchanged in what was fetched.
Extends(raw, old) == \A s \in Symbol : IsPrefix(old[s], raw[s])

\* What an attempt within the budget and the deadline may accept: every series ends at the
\* target session, or earlier with evidence that the security did not trade.
Fetched(raw) ==
    \E through \in 1..MaxRows : \A s \in Symbol :
        Len(raw[s]) = through \/ (Len(raw[s]) < through /\ s \notin Required)

Update(raw) ==
    /\ pc = "running" /\ ActiveLoads /\ Fetched(raw)
    /\ IF Extends(raw, Active.members)
       THEN pc' = "publish" /\ work' = [raw |-> raw, todo |-> Symbol] /\ UNCHANGED cands
       ELSE /\ Len(cands) < MaxCandidates
            /\ cands' = Append(cands, [base |-> pointer.id, old |-> Active.members, new |-> raw,
                                       approved |-> FALSE])
            /\ UNCHANGED <<pc, work>>
    /\ UNCHANGED <<gens, pointer, pending, receipts, audited, crashes>>

\* One file at a time replaces the active generation's.
Publish(s) ==
    /\ pc = "publish" /\ s \in work.todo
    /\ gens' = {IF g.id = pointer.id THEN [g EXCEPT !.members[s] = work.raw[s]] ELSE g : g \in gens}
    /\ work' = [work EXCEPT !.todo = @ \ {s}]
    /\ UNCHANGED <<pointer, cands, pending, receipts, audited, pc, crashes>>

\* The active generation is loaded, which compares its files with the old manifest, before
\* the new manifest and the pointer are written.
Refresh ==
    /\ pc = "publish" /\ work.todo = {} /\ ActiveLoads
    /\ Leave("running")

RefreshRefused ==
    /\ pc = "publish" /\ work.todo = {} /\ ~ActiveLoads
    /\ Leave("running")

-----------------------------------------------------------------------------
(* An operator approves candidate c, and it is promoted.                   *)

\* The candidate is verified and the confirmation phrase typed.
Approve(c) ==
    /\ pc = "down" /\ c \in DOMAIN cands
    /\ cands' = [cands EXCEPT ![c].approved = TRUE]
    /\ work' = [candidate |-> c] /\ pc' = "promote"
    /\ UNCHANGED <<gens, pointer, pending, receipts, audited, crashes>>

Promotable(c) == ActiveLoads /\ pointer.id = cands[c].base /\ Active.members = cands[c].old

Promote ==
    /\ pc = "promote"
    /\ LET c == work.candidate IN
       \/ /\ pending # None /\ pending.candidate = c
          /\ pc' = "recover-operator" /\ UNCHANGED <<disk, work, crashes>>
       \/ /\ pending = None /\ Promotable(c)
          /\ pc' = IF Absent(cands[c].new) THEN "copy" ELSE "mark"
          /\ UNCHANGED <<disk, work, crashes>>

PromoteRefused ==
    /\ pc = "promote"
    /\ IF pending # None THEN pending.candidate # work.candidate ELSE ~Promotable(work.candidate)
    /\ Leave("down")

CopyBegins ==
    /\ pc = "copy"
    /\ BeginCopy(cands[work.candidate].new) /\ pc' = "copying"
    /\ UNCHANGED <<pointer, cands, pending, receipts, audited, work, crashes>>

CopyEnds ==
    /\ pc = "copying"
    /\ EndCopy(cands[work.candidate].new) /\ pc' = "mark"
    /\ UNCHANGED <<pointer, cands, pending, receipts, audited, work, crashes>>

\* Mutant: the marker is written for a generation that was not verified.
Verified_Exists(c) == Exists(cands[c].new)

Verified(c) == Loads(cands[c].new) /\ Gen(cands[c].new).members = cands[c].new

MarkPending ==
    /\ pc = "mark" /\ Verified(work.candidate)
    /\ pending' = [candidate |-> work.candidate, prev |-> pointer.id, new |-> cands[work.candidate].new]
    /\ pc' = "recover-operator"
    /\ UNCHANGED <<gens, pointer, cands, receipts, audited, work, crashes>>

MarkRefused ==
    /\ pc = "mark" /\ ~Verified(work.candidate)
    /\ Leave("down")

-----------------------------------------------------------------------------
(* recover_pending_promotion, by the operator's command or at start.       *)

\* Mutant: a promotion whose pointer has moved is taken for a contradiction.
MayFinish_BeforeOnly ==
    /\ Loads(pending.prev) /\ Loads(pending.new) /\ ActiveLoads
    /\ pointer.id = pending.prev

\* Before and after the pointer has moved; a third generation is a contradiction.
MayFinish ==
    /\ Loads(pending.prev) /\ Gen(pending.prev).members = cands[pending.candidate].old
    /\ Loads(pending.new) /\ Gen(pending.new).members = cands[pending.candidate].new
    /\ ActiveLoads /\ pointer.id \in {pending.prev, pending.new}

Recovering(who) == IF who = "daemon" THEN "recover-daemon" ELSE "recover-operator"
Receipting(who) == IF who = "daemon" THEN "receipt-daemon" ELSE "receipt-operator"
Unlinking(who) == IF who = "daemon" THEN "unlink-daemon" ELSE "unlink-operator"

MovePointer(who) ==
    /\ pc = Recovering(who) /\ MayFinish
    /\ pointer' = [id |-> pending.new, data |-> Gen(pending.new).members]
    /\ pc' = Receipting(who)
    /\ UNCHANGED <<gens, cands, pending, receipts, audited, work, crashes>>

RecoverRefused(who) ==
    /\ pc = Recovering(who) /\ ~MayFinish
    /\ Leave("down")

Receipt(who) ==
    /\ pc = Receipting(who)
    /\ receipts' = receipts \cup {pending.candidate}
    /\ pc' = Unlinking(who)
    /\ UNCHANGED <<gens, pointer, cands, pending, audited, work, crashes>>

Unlink(who) ==
    /\ pc = Unlinking(who)
    /\ pending' = None
    /\ pc' = IF who = "daemon" THEN "load-active" ELSE "audit"
    /\ UNCHANGED <<gens, pointer, cands, receipts, audited, work, crashes>>

Audit ==
    /\ pc = "audit"
    /\ audited' = audited \cup {work.candidate}
    /\ pc' = "down" /\ work' = None
    /\ UNCHANGED <<gens, pointer, cands, pending, receipts, crashes>>

-----------------------------------------------------------------------------
Daemon ==
    \/ Start \/ SeedBegins \/ SeedEnds \/ LoadSeed \/ LoadActive \/ StartRefused
    \/ \E s \in Symbol : Publish(s)
    \/ Refresh \/ RefreshRefused

Operator == Promote \/ PromoteRefused \/ CopyBegins \/ CopyEnds \/ MarkPending \/ MarkRefused \/ Audit

Recovery ==
    \E who \in {"daemon", "operator"} :
        MovePointer(who) \/ RecoverRefused(who) \/ Receipt(who) \/ Unlink(who)

Next ==
    \/ Crash \/ Stop \/ Daemon \/ Operator \/ Recovery
    \/ \E raw \in Content : Update(raw)
    \/ \E c \in 1..MaxCandidates : Approve(c)

Spec == Init /\ [][Next]_vars

\* A process that was started goes on; one that is down is started again; and the operator
\* retries what was approved.
Live ==
    /\ Spec /\ WF_vars(Daemon \/ Operator \/ Recovery) /\ SF_vars(Stop)
    /\ \A c \in 1..MaxCandidates : SF_vars(Approve(c) /\ cands[c].approved)

-----------------------------------------------------------------------------
(* Properties.                                                             *)

\* Every variable keeps its type, and no two generations share an id.
TypeOK ==
    /\ \A g \in gens : g.id \in Content /\ g.members \in Content /\ g.whole \in BOOLEAN
    /\ \A g, h \in gens : g.id = h.id => g = h
    /\ pointer # None => Exists(pointer.id)
    /\ Len(cands) <= MaxCandidates /\ receipts \cup audited \subseteq DOMAIN cands

\* A generation that is no longer, or not yet, the active one is never touched again
\* (generations.py promote_candidate, xtquant_daily.py update).
OldGenerationsKept ==
    [][\A g \in gens : g.whole /\ pointer # None /\ g.id # pointer.id => g \in gens']_vars

\* Bars that were ever active change only by a promotion the operator approved: an update
\* appends, and the pointer moves only to a marked, approved candidate's content.
NoRewriteWithoutApproval ==
    [][pointer # None =>
         /\ pointer'.id = pointer.id =>
              \A s \in Symbol : IsPrefix(Active.members[s], Active'.members[s])
         /\ pointer'.id # pointer.id =>
              pending # None /\ cands[pending.candidate].approved
              /\ pointer'.data = cands[pending.candidate].new]_vars

\* What sessions have used never changes behind them: bars that were active change only by an
\* approved promotion, and generations that are not active are not touched (xtquant_daily.py,
\* generations.py).
HistoryIsKept == NoRewriteWithoutApproval /\ OldGenerationsKept

\* While a promotion is pending the pointer names one of its two generations and both are whole.
PendingIsSound ==
    pending # None => /\ pointer.id \in {pending.prev, pending.new}
                      /\ Loads(pending.prev) /\ Loads(pending.new)

\* An active generation other than the seed is there by a promotion that is pending or has
\* its receipt, wherever the process died.
PromotionLeavesReceipt ==
    pointer # None /\ pointer.id # Seed =>
        (pending # None \/ \E c \in receipts : cands[c].new = pointer.id)

\* Wherever a promotion dies, the pointer names one of its two generations, both load, and an
\* active generation other than the seed is pending or has its receipt (generations.py).
PromotionIsRecoverable == TypeOK /\ PendingIsSound /\ PromotionLeavesReceipt

\* A pending promotion is finished whenever the process died in it, before or after the pointer
\* moved.
PendingFinishes == (pending # None) ~> (pending = None)

\* Claimed of an append-only publish: it reseals the active generation, which loads afterwards.
AppendReseals == pc = "running" => ActiveLoads

\* Claimed of the operator's command: a promotion it started is in the audit chain in the end.
PromotionIsAudited ==
    \A c \in 1..MaxCandidates : (c \in receipts) ~> (c \in audited)

\* Claimed of a process that may die at any boundary: started again, it gets an active generation.
SeedIsRetried == <>(pointer # None)
=============================================================================
