--------------------------- MODULE MCPersistence ---------------------------
(***************************************************************************)
(* The writer lease, under stalls, one step of the wall clock and a lock   *)
(* file that is replaced under its holder; the audit chain; and the backups*)
(* of the state.  They share no variable: a behaviour is one of a single   *)
(* component.                                                              *)
(***************************************************************************)
EXTENDS WriterLease, StateBackup, AuditLedger, TLC

VARIABLE component  \* the one whose behaviour this is

allVars == <<component, vars, auditVars, backupVars>>

ASSUME PersistenceAssumption ==
    /\ TimeAssumption /\ ProcAssumption /\ FlagAssumption
    /\ AuditAssumption /\ BackupAssumption

-----------------------------------------------------------------------------
\* The others rest in an initial state.
MCInit ==
    /\ component \in {"lease", "audit", "backup"}
    /\ Init /\ AuditInit /\ BackupInit

LeaseStep ==
    /\ component = "lease" /\ Next
    /\ UNCHANGED <<component, auditVars, backupVars>>

AuditStep ==
    /\ component = "audit" /\ AuditNext
    /\ UNCHANGED <<component, vars, backupVars>>

BackupStep ==
    /\ component = "backup" /\ BackupNext
    /\ UNCHANGED <<component, vars, auditVars>>

MCNext == LeaseStep \/ AuditStep \/ BackupStep

MCSpec == MCInit /\ [][MCNext]_allVars

\* The processes are alike.
Symmetry == Permutations(Proc)

=============================================================================
