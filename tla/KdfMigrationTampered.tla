------------------------ MODULE KdfMigrationTampered ------------------------
(***************************************************************************)
(* The migration when something other than its own commands touches the    *)
(* files between two commands: a member restored from elsewhere, a staging *)
(* or backup file damaged or deleted (the hash checks of                   *)
(* agent_personal_vault/kdf_migration.py exist for this).                  *)
(***************************************************************************)
EXTENDS KdfMigration

CONSTANT MaxTampers   \* bound on outside changes

VARIABLE tampers

allVars == <<vars, tampers>>

\* Bytes that no command of this vault has written.
Foreign == [text |-> MaxWrites + 1, suite |-> "v1", seal |-> 0]

TamperedInit == Init /\ tampers = 0

Tamper(m) ==
    /\ guard = Nobody /\ journal # NoJournal
    /\ tampers < MaxTampers
    /\ tampers' = tampers + 1
    /\ \/ /\ \E found \in {Absent, Foreign} :
                file' = [file EXCEPT ![m] = found]
          /\ UNCHANGED <<backup, next>>
       \/ /\ \E found \in {Absent, [inside |-> Foreign, seal |-> 0]} :
                backup' = [backup EXCEPT ![m] = found]
          /\ UNCHANGED <<file, next>>
       \/ /\ \E found \in {Absent, Foreign} :
                next' = [next EXCEPT ![m] = found]
          /\ UNCHANGED <<file, backup>>
    /\ UNCHANGED <<journal, memory, pc, counters>>

TamperedNext ==
    \/ Next /\ UNCHANGED tampers
    \/ \E m \in MemberNames : Tamper(m)

TamperedSpec == TamperedInit /\ [][TamperedNext]_allVars

OwnStep == UNCHANGED tampers

(***************************************************************************)
(* Foreign bytes never reach a member through the migration: whatever      *)
(* resume or rollback writes in place is the original or the staged        *)
(* version-2 form that the journal's hashes name.                          *)
(***************************************************************************)
InstallsOnlyKnownBytes ==
    [][journal # NoJournal /\ OwnStep =>
          \A m \in MemberNames :
             file'[m] \in {file[m], journal.original[m], journal.target[m]}
      ]_allVars

(***************************************************************************)
(* A backup is removed only while all members carry their original bytes   *)
(* or all carry their version-2 bytes: a damaged member or a damaged       *)
(* staging file never costs the recovery copy.                             *)
(***************************************************************************)
BackupsOutliveDoubt ==
    [][OwnStep =>
          \A m \in MemberNames :
             backup[m] # Absent /\ backup'[m] = Absent =>
                AllTarget
                \/ \A n \in JournalMembers : file[n] = journal.original[n]
      ]_allVars
=============================================================================
