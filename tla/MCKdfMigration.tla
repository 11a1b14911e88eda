--------------------------- MODULE MCKdfMigration ---------------------------
(***************************************************************************)
(* TLC instances of KdfMigration.                                          *)
(***************************************************************************)
EXTENDS KdfMigration

(***************************************************************************)
(* Liveness is asked of operators who, while a migration is unfinished,    *)
(* come back to upgrade-kdf again and again between other commands (strong *)
(* fairness); a command that has been started runs (weak fairness);        *)
(* crashes are finitely many (MaxStops).                                   *)
(***************************************************************************)
UpgradeSpec ==
    /\ Spec
    /\ \A p \in Procs :
         /\ WF_vars(Enter(p) \/ Hold(p) \/ NormalizeRefused(p))
         /\ SF_vars(journal # NoJournal /\ Upgrade(p))

NobodyRollsBack == \A p \in Procs : pc[p] # "rollback"

(***************************************************************************)
(* Unless somebody rolls back, repeating upgrade-kdf ends an interrupted   *)
(* migration, with every member on version 2 (upgrade_kdf resumes instead  *)
(* of refusing).                                                           *)
(***************************************************************************)
UpgradeCompletes ==
    []NobodyRollsBack =>
        (journal # NoJournal ~>
            /\ journal = NoJournal
            /\ \A m \in Present(file) : HasSuite(m, "v2"))
=============================================================================
