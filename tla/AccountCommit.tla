--------------------------- MODULE AccountCommit ---------------------------
(***************************************************************************)
(* The account file and its commit protocol: persistence/recovery.py       *)
(* (AccountOperation and RecoveryService._recover_accounts).  The file is  *)
(* replaced between two SQLite transactions: the operation row is PREPARED,*)
(* the file is saved, the row becomes FILE_COMMITTED, and one transaction  *)
(* commits the receipt, for a broker sync together with the reconciliation *)
(* receipt.  CloseSession runs these steps.                                *)
(*                                                                         *)
(* Abstractions.  An account state stands for its hash: "facts" is the     *)
(* version of the broker's facts it contains and "dec" the session of the  *)
(* last decision applied to it.  A row at RECEIPT_COMMITTED is never read  *)
(* again (recovery selects the other stages, and every snapshot has a new  *)
(* preparation id), so it leaves the table.                                *)
(***************************************************************************)
EXTENDS Naturals

CONSTANTS
    MaxOps       \* bound on the unfinished rows of account_operations

ASSUME MaxOpsAssumption == MaxOps \in Nat \ {0}

VARIABLES
    file,        \* the account state file
    ops,         \* account_operations: the unfinished rows
    certified    \* account states vouched for by a passed reconciliation receipt

OpId == 1..MaxOps

accountVars == <<file, ops, certified>>

NoRow == [kind |-> "NONE", stage |-> "NONE",
          before |-> [facts |-> 0, dec |-> 0], after |-> [facts |-> 0, dec |-> 0]]

Open == {i \in OpId : ops[i] # NoRow}

\* AccountOperation.begin: the precondition on the file, then the row.
CanBegin(before) == file = before

Begin(i, kind, before, after) ==
    /\ ops[i] = NoRow /\ \A j \in OpId : j < i => ops[j] # NoRow
    /\ ops' = [ops EXCEPT ![i] = [kind |-> kind, stage |-> "PREPARED",
                                  before |-> before, after |-> after]]
    /\ UNCHANGED <<file, certified>>

\* _mark_contradiction
MarkContradiction(i) ==
    /\ ops' = [ops EXCEPT ![i].stage = "CONTRADICTION"]
    /\ UNCHANGED <<file, certified>>

\* commit_file, up to and including the atomic replacement of the file.
CanSave(i) == file \in {ops[i].before, ops[i].after}
SaveFile(i) == file' = ops[i].after /\ UNCHANGED <<ops, certified>>

\* The rest of commit_file, and the first check of commit_receipt.
IsApplied(i) == file = ops[i].after
StageFile(i) ==
    /\ ops' = [ops EXCEPT ![i].stage = "FILE_COMMITTED"]
    /\ UNCHANGED <<file, certified>>

\* The transaction that ends an operation: its receipt and, for a broker sync,
\* the sealed reconciliation receipt (commit_receipt with its finalizer, and
\* _recover_broker_sync_finalization).
Finalize(i) ==
    /\ ops' = [ops EXCEPT ![i] = NoRow]
    /\ certified' = IF ops[i].kind = "BROKER_SYNC" THEN certified \cup {ops[i].after}
                    ELSE certified
    /\ UNCHANGED file

-----------------------------------------------------------------------------
(* _recover_accounts, one row.  Outcome "settled" ends the row, "kept"      *)
(* leaves it and blocks startup.                                            *)

SyncApplied(i) ==
    /\ ops[i].kind = "BROKER_SYNC"
    /\ ops[i].stage \in {"PREPARED", "FILE_COMMITTED"}
    /\ IsApplied(i)

SyncRetryRequired(i) ==
    /\ ops[i].kind = "BROKER_SYNC" /\ ops[i].stage = "PREPARED"
    /\ file = ops[i].before

\* Mutant: every applied or unapplied row is simply closed.
SettlesWithoutKind(i) == ops[i].stage # "CONTRADICTION" /\ CanSave(i)

\* A row that is not a broker sync is closed, applied or not: the decision
\* it belongs to is durable and recovered by the close session.
SettledRow(i) ==
    /\ ops[i].stage # "CONTRADICTION" /\ ops[i].kind # "BROKER_SYNC"
    /\ CanSave(i)

RecoverSettled(i) ==
    \/ SyncApplied(i) /\ Finalize(i)
    \/ /\ SettledRow(i)
       /\ ops' = [ops EXCEPT ![i] = NoRow]
       /\ UNCHANGED <<file, certified>>

RecoverKept(i) ==
    /\ ~SyncApplied(i) /\ ~SettledRow(i)
    /\ IF SyncRetryRequired(i) THEN UNCHANGED accountVars ELSE MarkContradiction(i)

\* The finalization transaction fails: the row stays, at FILE_COMMITTED.
RecoverUnfinalized(i) == SyncApplied(i) /\ StageFile(i)

=============================================================================
