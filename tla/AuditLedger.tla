------------------------------ MODULE AuditLedger ------------------------------
(***************************************************************************)
(* The append-only audit ledger (persistence/audit.py): rows of the table  *)
(* audit_events, each sealed by a digest over its own columns and the      *)
(* digest of the row before it.  append looks only at the row of the same  *)
(* identity and at the last row; verify rebuilds the whole chain.  A       *)
(* receipt outside the table (a backup manifest) keeps a count and a head. *)
(*                                                                         *)
(* The table may be damaged by storage faults: a row is lost, or one       *)
(* column of one row changes.  SHA-256 is modelled as an injective         *)
(* function: a digest is the value it was computed from.                   *)
(***************************************************************************)
EXTENDS Integers, Sequences, FiniteSets, SequencesExt

CONSTANTS
    Ids,        \* audit event ids
    Bodies,     \* category, actor, payload and created_at of an event
    Sensitive,  \* bodies whose payload has a sensitive key
    MaxRows,    \* bound on the rows of the table
    MaxFaults   \* bound on the storage faults

AuditAssumption ==
    /\ Sensitive \subseteq Bodies
    /\ MaxRows \in Nat /\ MaxFaults \in Nat

ZERO_HASH == <<>>

VARIABLES
    rows,     \* audit_events, in the order of the sequence column
    written,  \* history: every row as append inserted it
    receipt,  \* external count and head, with a copy of the table it was taken of
    faults    \* storage faults so far

auditVars == <<rows, written, receipt, faults>>

-----------------------------------------------------------------------------
\* _chain_hash: the envelope of the row.  payload_sha256 stands for the body.
ChainHash(sequence, id, sha, previous) == <<sequence, id, sha, previous>>

Row(sequence, id, body, previous) ==
    [sequence |-> sequence, id |-> id, body |-> body, sha |-> body,
     previous |-> previous, hash |-> ChainHash(sequence, id, body, previous)]

\* Mutant: the digest of the payload is taken from the row.
LinkHolds_Column(r, index, previous) ==
    /\ r.sequence = index
    /\ r.previous = previous
    /\ r.hash = ChainHash(r.sequence, r.id, r.sha, previous)

\* One turn of the loop of verify.
LinkHolds(r, index, previous) ==
    /\ r.sequence = index
    /\ r.body = r.sha
    /\ r.previous = previous
    /\ r.hash = ChainHash(r.sequence, r.id, r.sha, previous)

PreviousOf(table, i) == IF i = 1 THEN ZERO_HASH ELSE table[i - 1].hash
HeadOf(table) == IF table = <<>> THEN ZERO_HASH ELSE table[Len(table)].hash
HeadHash == HeadOf(rows)

\* verify(): the rows reproduce their chain.
Linked(table) == \A i \in DOMAIN table : LinkHolds(table[i], i, PreviousOf(table, i))
Verified == Linked(rows)

\* verify(expected_count, expected_head_hash).
VerifiedAgainst(count, head) == Verified /\ Len(rows) = count /\ HeadHash = head

-----------------------------------------------------------------------------
AuditInit == rows = <<>> /\ written = {} /\ receipt = {} /\ faults = 0

Recorded(id) == {i \in DOMAIN rows : rows[i].id = id}

\* The identity is new.  One that is recorded with the same content is
\* answered with its receipt, with other content refused: nothing changes.
Fresh(id) == Recorded(id) = {}

\* _assert_safe_payload.
SafePayload(body) == body \notin Sensitive

\* append: the next row follows whatever row is the last one now.
AppendEvent(id, body) ==
    /\ SafePayload(body)
    /\ Fresh(id)
    /\ Len(rows) < MaxRows
    /\ LET last == IF rows = <<>> THEN 0 ELSE rows[Len(rows)].sequence
           new == Row(last + 1, id, body, HeadHash)
       IN  rows' = Append(rows, new) /\ written' = written \cup {new}
    /\ UNCHANGED <<receipt, faults>>

\* A caller verifies the chain and keeps its count and head elsewhere.
Keep ==
    /\ Verified
    /\ receipt' = {[count |-> Len(rows), head |-> HeadHash, copy |-> rows]}
    /\ UNCHANGED <<rows, written, faults>>

-----------------------------------------------------------------------------
\* Storage faults; the sequence and the identity stay unique columns.
LoseRow(i) ==
    /\ faults < MaxFaults
    /\ rows' = RemoveAt(rows, i)
    /\ faults' = faults + 1
    /\ UNCHANGED <<written, receipt>>

\* In the order of the sequence column.
InSequence(table) == \A i, j \in DOMAIN table : i < j => table[i].sequence < table[j].sequence

\* A query sees a row whose sequence changed at another place of the table.
Resequence(i, n) ==
    \E p \in Bijection(DOMAIN rows, DOMAIN rows) :
        /\ rows' = [k \in DOMAIN rows |-> IF p[k] = i THEN [rows[i] EXCEPT !.sequence = n] ELSE rows[p[k]]]
        /\ InSequence(rows')

Damage(i) ==
    /\ faults < MaxFaults
    /\ \/ \E b \in Bodies \ {rows[i].body} :
            \/ rows' = [rows EXCEPT ![i].body = b]
            \/ rows' = [rows EXCEPT ![i].sha = b]
       \/ \E id \in {k \in Ids : Recorded(k) = {}} : rows' = [rows EXCEPT ![i].id = id]
       \/ \E n \in (0..(MaxRows + 1)) \ {rows[j].sequence : j \in DOMAIN rows} : Resequence(i, n)
       \/ \E r \in written :
            \/ r.hash # rows[i].previous /\ rows' = [rows EXCEPT ![i].previous = r.hash]
            \/ r.hash # rows[i].hash /\ rows' = [rows EXCEPT ![i].hash = r.hash]
    /\ faults' = faults + 1
    /\ UNCHANGED <<written, receipt>>

AuditNext ==
    \/ \E id \in Ids, body \in Bodies : AppendEvent(id, body)
    \/ Keep
    \/ \E i \in DOMAIN rows : LoseRow(i) \/ Damage(i)

AuditSpec == AuditInit /\ [][AuditNext]_auditVars

-----------------------------------------------------------------------------
\* Every variable keeps its type, and no row with a sensitive payload is ever written.
AuditTypeOK ==
    /\ Len(rows) <= MaxRows
    /\ \A i \in DOMAIN rows :
         /\ rows[i].id \in Ids /\ {rows[i].body, rows[i].sha} \subseteq Bodies
         /\ rows[i].sequence \in Nat
    /\ \A w \in written : w.body \notin Sensitive
    /\ faults \in 0..MaxFaults

\* What verify accepts is what append wrote: no column of an accepted row has
\* changed and no identity occurs twice, whatever fault hit the table.
AcceptedIsAsWritten ==
    Verified => /\ ToSet(rows) \subseteq written
                /\ \A i, j \in DOMAIN rows : rows[i].id = rows[j].id => i = j

\* A kept count and head identify the table they were taken of: a table that
\* lost its newest rows and grew again is not accepted in its place.
ReceiptBindsTable ==
    \A r \in receipt : VerifiedAgainst(r.count, r.head) => rows = r.copy

\* append never looks at the chain, and never repairs it: a table that verify
\* refuses is refused after any number of appends.
DamageIsPermanent == [][(~Verified /\ faults' = faults) => ~Verified']_auditVars

\* What verify accepts is what append wrote, and a kept count and head identify the table they
\* were taken of, whatever storage fault hit it; and a table that verify refuses is refused after
\* any number of appends (audit.py append, verify).
DamageIsNoticed ==
    [](AuditTypeOK /\ AcceptedIsAsWritten /\ ReceiptBindsTable) /\ DamageIsPermanent

=============================================================================
