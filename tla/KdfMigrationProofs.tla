------------------------- MODULE KdfMigrationProofs -------------------------
(***************************************************************************)
(* Proofs about KdfMigration for every set of processes and every bound.   *)
(***************************************************************************)
EXTENDS KdfMigration, TLAPS

(***************************************************************************)
(* The inductive invariant, by the state of the journal.                   *)
(***************************************************************************)
StagedBackup(m) == backup[m] = BackupOf(m, journal.original[m], stages)
Staging == {"backup", "next", "ready"}
Cleaning == {"clean_next", "clean_backup", "clean_journal"}
BackupsValid == \A m \in JournalMembers : ValidBackup(m)

\* Nobody owns the guard exactly when no operation is pending.
GuardInv ==
    /\ guard = Nobody <=> phase = "idle"
    /\ journal = NoJournal => guard = Nobody

\* Before and after a migration.
SettledInv ==
    journal = NoJournal => backup = NoFiles /\ next = NoFiles

\* Files of members that take no part in the migration.
StrayInv ==
    journal # NoJournal =>
        /\ todo \subseteq JournalMembers
        /\ \A m \in MemberNames \ JournalMembers :
              backup[m] = Absent /\ next[m] = Absent

\* Nothing in place has changed while the journal is preparing.
PreparingInv ==
    journal # NoJournal /\ journal.state = "preparing" =>
        /\ file = journal.original
        /\ phase \in {"idle"} \cup Staging \cup Cleaning
        /\ phase \in Staging =>
             /\ bytes = Reencrypted(journal.original, stages)
             /\ \A m \in JournalMembers \ todo :
                    StagedBackup(m) /\ next[m] = bytes[m]
        /\ phase = "next" =>
             \A m \in MemberNames : IsFirst(m, todo) => StagedBackup(m)
        /\ phase = "ready" => todo = {}

\* A ready journal names both forms of every member, and one of three
\* things protects the user: all backups, all targets, or all originals.
ReadyInv ==
    journal # NoJournal /\ journal.state = "ready" =>
        /\ journal.target = Reencrypted(journal.original, journal.seal)
        /\ \A m \in MemberNames :
              /\ file[m] \in {journal.original[m], journal.target[m]}
              /\ next[m] \in {Absent, journal.target[m]}
              /\ backup[m] = Absent \/ ValidBackup(m)
        /\ phase \in {"idle", "inspect", "apply", "record", "restore"}
                        \cup Cleaning
        /\ BackupsValid \/ AllTarget \/ file = journal.original
        /\ phase \in {"apply", "record"} =>
             /\ bytes = journal.target
             /\ BackupsValid \/ AllTarget
             /\ \A m \in JournalMembers \ todo : file[m] = journal.target[m]
        /\ phase = "record" =>
             \A m \in MemberNames : IsFirst(m, todo) =>
                                        file[m] = journal.target[m]
        /\ phase = "restore" =>
             /\ bytes = journal.original
             /\ BackupsValid
             /\ \A m \in JournalMembers \ todo : file[m] = journal.original[m]
        /\ phase \in Cleaning => AllTarget \/ file = journal.original

\* What _cleanup has already removed.
CleaningInv ==
    /\ phase = "clean_next" => \A m \in MemberNames \ todo : next[m] = Absent
    /\ phase = "clean_backup" =>
         /\ next = NoFiles
         /\ \A m \in MemberNames \ todo : backup[m] = Absent
    /\ phase = "clean_journal" => next = NoFiles /\ backup = NoFiles

IInv ==
    /\ TypeOK
    /\ GuardInv
    /\ SettledInv
    /\ StrayInv
    /\ PreparingInv
    /\ ReadyInv
    /\ CleaningInv

-----------------------------------------------------------------------------
(* Operators. *)

(***************************************************************************)
(* The loops over MEMBER_NAMES visit one definite member at a time.        *)
(***************************************************************************)
LEMMA FirstIsUnique ==
    ASSUME NEW S \in SUBSET MemberNames, NEW m, NEW n,
           IsFirst(m, S), IsFirst(n, S)
    PROVE  m = n
<1>1. /\ Position["vault"] = 1 /\ Position["consent"] = 2
      /\ Position["audit"] = 3
  BY DEF Position, MemberNames
<1>2. QED
  BY <1>1 DEF IsFirst, MemberNames

\* Opening a backup gives back what was sealed in it.
LEMMA BackupInside ==
    ASSUME NEW m, NEW c, NEW s
    PROVE  BackupOf(m, c, s).inside = c
  BY DEF BackupOf

-----------------------------------------------------------------------------
(* What the three writes of the journal leave in it. *)

\* The preparing journal that prepare_kdf_migration writes.
LEMMA PreparedJournal ==
    ASSUME IInv, NEW p \in Procs, Prepare(p)
    PROVE  /\ journal' \in Journal /\ journal' # NoJournal
           /\ journal'.state = "preparing" /\ journal'.original = file
           /\ journal'.target = NoFiles
BY NoJournalAssumption DEF IInv, TypeOK, Prepare, Journal, Contents, NoFiles

\* The ready journal that _write_staging writes.
LEMMA ReadyJournal ==
    ASSUME IInv, NEW p \in Procs, WriteReady(p)
    PROVE  /\ journal \in Journal /\ journal # NoJournal
           /\ journal' \in Journal /\ journal' # NoJournal
           /\ journal'.state = "ready"
           /\ journal'.original = journal.original
           /\ journal'.target = bytes /\ journal'.seal = stages
<1>1. journal \in Journal /\ journal # NoJournal
  BY NoJournalAssumption, NobodyAssumption
  DEF IInv, TypeOK, GuardInv, WriteReady
<1>2. bytes \in Contents /\ stages \in Nat
  BY DEF IInv, TypeOK
<1> QED
  BY <1>1, <1>2, NoJournalAssumption DEF Journal, WriteReady

\* Recording an applied member changes nothing else in the journal.
LEMMA RecordedJournal ==
    ASSUME IInv, NEW p \in Procs, Record(p)
    PROVE  /\ journal \in Journal /\ journal # NoJournal
           /\ journal' \in Journal /\ journal' # NoJournal
           /\ journal'.state = journal.state
           /\ journal'.original = journal.original
           /\ journal'.target = journal.target /\ journal'.seal = journal.seal
<1>1. journal \in Journal /\ journal # NoJournal
  BY NoJournalAssumption, NobodyAssumption DEF IInv, TypeOK, GuardInv, Record
<1>2. todo \subseteq MemberNames
  BY DEF IInv, TypeOK
<1> QED
  BY <1>1, <1>2, NoJournalAssumption DEF Journal, Record, IsFirst

-----------------------------------------------------------------------------
(* Type correctness. *)

\* Every step keeps the variables in their types.
LEMMA TypeStep ==
    ASSUME IInv, [Next]_vars
    PROVE  TypeOK'
<1>0. TypeOK /\ GuardInv /\ StrayInv
  BY DEF IInv
<1> USE <1>0 DEF TypeOK, Contents, files, memory, counters, Phases, Commands,
                   Activities
<1>1. ASSUME NEW p \in Procs, Upgrade(p) PROVE TypeOK'
  BY <1>1 DEF Upgrade
<1>2. ASSUME NEW p \in Procs, Request(p) PROVE TypeOK'
  BY <1>2 DEF Request
<1>3. ASSUME NEW p \in Procs, Prepare(p) PROVE TypeOK'
  BY <1>3 DEF Prepare, Stage, Acquire, Reencrypted, Present, Content, Suites,
              Journal, NoFiles
<1>4. ASSUME NEW p \in Procs, PrepareRefused(p) PROVE TypeOK'
  BY <1>4 DEF PrepareRefused, Refuse
<1>5. ASSUME NEW p \in Procs, ResumePreparing(p) PROVE TypeOK'
  BY <1>5 DEF ResumePreparing, Stage, Acquire, Reencrypted, Present, Content,
              Suites
<1>6. ASSUME NEW p \in Procs, ResumeReady(p) PROVE TypeOK'
  BY <1>6 DEF ResumeReady, Acquire, NoFiles
<1>7. ASSUME NEW p \in Procs, ResumeRefused(p) PROVE TypeOK'
  BY <1>7 DEF ResumeRefused, Refuse
<1>8. ASSUME NEW p \in Procs, Rollback(p) PROVE TypeOK'
  BY <1>8 DEF Rollback, Acquire, NoFiles, JournalMembers, Present,
              RollbackAccepted, ValidBackup, BackupOf, Journal
<1>9. ASSUME NEW p \in Procs, RollbackRefused(p) PROVE TypeOK'
  BY <1>9 DEF RollbackRefused, Refuse
<1>10. ASSUME NEW p \in Procs, WriteBackup(p) PROVE TypeOK'
  BY <1>10, NoJournalAssumption
  DEF WriteBackup, Continue, IsFirst, BackupOf, Backup, Journal, StrayInv,
      GuardInv, JournalMembers, Present
<1>11. ASSUME NEW p \in Procs, WriteNext(p) PROVE TypeOK'
  BY <1>11 DEF WriteNext, Continue
<1>12. ASSUME NEW p \in Procs, WriteReady(p) PROVE TypeOK'
  BY <1>12 DEF WriteReady, Continue, Release, Journal, NoFiles, GuardInv
<1>13. ASSUME NEW p \in Procs, Inspect(p) PROVE TypeOK'
  BY <1>13 DEF Inspect, Release, NoFiles, JournalMembers, Present
<1>14. ASSUME NEW p \in Procs, Apply(p) PROVE TypeOK'
  BY <1>14 DEF Apply, Continue, Release, NoFiles
<1>15. ASSUME NEW p \in Procs, Record(p) PROVE TypeOK'
  BY <1>15 DEF Record, Continue, Journal, JournalMembers, Present, GuardInv
<1>16. ASSUME NEW p \in Procs, Restore(p) PROVE TypeOK'
  BY <1>16 DEF Restore, Continue, JournalMembers, Present
<1>17. ASSUME NEW p \in Procs, CleanNext(p) PROVE TypeOK'
  BY <1>17 DEF CleanNext, Continue, JournalMembers, Present
<1>18. ASSUME NEW p \in Procs, CleanBackup(p) PROVE TypeOK'
  BY <1>18 DEF CleanBackup, Continue, JournalMembers, Present
<1>19. ASSUME NEW p \in Procs, CleanJournal(p) PROVE TypeOK'
  BY <1>19 DEF CleanJournal, Release, NoFiles
<1>20. ASSUME NEW p \in Procs, Stop(p) PROVE TypeOK'
  BY <1>20 DEF Stop, Release, NoFiles, Forget, Suites
<1>21. ASSUME NEW m \in MemberNames, OrdinaryWrite(m) PROVE TypeOK'
  BY <1>21 DEF OrdinaryWrite, Content, Suites, MemberNames
<1>22. CASE Dispose
  BY <1>22 DEF Dispose
<1>23. ASSUME NEW p \in Procs, NormalizeRead(p) PROVE TypeOK'
  BY <1>23 DEF NormalizeRead, LegacyVault, Content, MemberNames
<1>24. ASSUME NEW p \in Procs, NormalizeWrite(p) PROVE TypeOK'
  BY <1>24 DEF NormalizeWrite, Forget, Content, Suites, MemberNames
<1>25. ASSUME NEW p \in Procs, NormalizeRefused(p) PROVE TypeOK'
  BY <1>25 DEF NormalizeRefused, Refuse, Forget, Suites
<1>26. CASE UNCHANGED vars
  BY <1>26 DEF vars
<1>27. QED
  BY <1>1, <1>2, <1>3, <1>4, <1>5, <1>6, <1>7, <1>8, <1>9, <1>10, <1>11,
     <1>12, <1>13, <1>14, <1>15, <1>16, <1>17, <1>18, <1>19, <1>20, <1>21,
     <1>22, <1>23, <1>24, <1>25, <1>26
  DEF Next, Step, Start, Enter, Hold, Normalize

-----------------------------------------------------------------------------
(* One lemma per action: the rest of the inductive invariant. *)

LEMMA PrepareStray ==
    ASSUME IInv, NEW p \in Procs, Prepare(p)
    PROVE  StrayInv'
<1>1. TypeOK /\ SettledInv /\ journal = NoJournal
  BY DEF IInv, Prepare
<1>2. QED
  BY <1>1, PreparedJournal
  DEF StrayInv, Prepare, Stage, Acquire, JournalMembers, Present, SettledInv,
      NoFiles

\* prepare_kdf_migration writes the preparing journal.
LEMMA PrepareStep ==
    ASSUME IInv, NEW p \in Procs, Prepare(p)
    PROVE  /\ GuardInv' /\ SettledInv' /\ StrayInv'
           /\ PreparingInv' /\ ReadyInv' /\ CleaningInv'
<1>0. /\ TypeOK /\ GuardInv /\ SettledInv /\ StrayInv
      /\ PreparingInv /\ ReadyInv /\ CleaningInv
  BY DEF IInv
<1> USE NobodyAssumption, NoJournalAssumption
    DEF files, memory, counters, Prepare, Stage, Acquire, Reencrypted
<1>1. GuardInv'
  BY <1>0, PreparedJournal
  DEF TypeOK, Contents, GuardInv
<1>2. SettledInv'
  BY <1>0, PreparedJournal
  DEF TypeOK, Contents, SettledInv, GuardInv
<1>3. StrayInv'
  BY PrepareStray
<1>4. PreparingInv'
  BY <1>0, PreparedJournal
  DEF TypeOK, Contents, PreparingInv, JournalMembers, Present, StrayInv,
      GuardInv,
         Staging, Cleaning, StagedBackup, BackupOf, IsFirst
<1>5. ReadyInv'
  BY <1>0, PreparedJournal
  DEF TypeOK, Contents, ReadyInv, JournalMembers, Present, StrayInv, GuardInv,
         Staging, Cleaning, AllTarget, BackupsValid, ValidBackup, IsFirst,
         CleaningInv
<1>6. CleaningInv'
  BY <1>0, PreparedJournal
  DEF TypeOK, Contents, CleaningInv, JournalMembers, Present, StrayInv,
      GuardInv, NoFiles
<1>7. QED
  BY <1>1, <1>2, <1>3, <1>4, <1>5, <1>6

LEMMA ResumePreparingStray ==
    ASSUME IInv, NEW p \in Procs, ResumePreparing(p)
    PROVE  StrayInv'
  BY DEF IInv, StrayInv, ResumePreparing, SourceUnchanged, Stage, Acquire,
         JournalMembers, Present, files

\* resume_kdf_migration starts staging again.
LEMMA ResumePreparingStep ==
    ASSUME IInv, NEW p \in Procs, ResumePreparing(p)
    PROVE  /\ GuardInv' /\ SettledInv' /\ StrayInv'
           /\ PreparingInv' /\ ReadyInv' /\ CleaningInv'
<1>0. /\ TypeOK /\ GuardInv /\ SettledInv /\ StrayInv
      /\ PreparingInv /\ ReadyInv /\ CleaningInv
  BY DEF IInv
<1> USE NobodyAssumption, NoJournalAssumption
    DEF files, memory, counters, ResumePreparing, Stage, Acquire, Reencrypted
<1>1. GuardInv'
  BY <1>0
  DEF TypeOK, Contents, GuardInv
<1>2. SettledInv'
  BY <1>0
  DEF TypeOK, Contents, SettledInv, GuardInv
<1>3. StrayInv'
  BY ResumePreparingStray
<1>4. PreparingInv'
  BY <1>0
  DEF TypeOK, Contents, PreparingInv, JournalMembers, Present, StrayInv,
      GuardInv,
         Staging, Cleaning, StagedBackup, BackupOf, IsFirst
<1>5. ReadyInv'
  BY <1>0
  DEF TypeOK, Contents, ReadyInv, JournalMembers, Present, StrayInv, GuardInv,
         Staging, Cleaning, AllTarget, BackupsValid, ValidBackup, IsFirst,
         CleaningInv
<1>6. CleaningInv'
  BY <1>0
  DEF TypeOK, Contents, CleaningInv, JournalMembers, Present, StrayInv,
      GuardInv, NoFiles
<1>7. QED
  BY <1>1, <1>2, <1>3, <1>4, <1>5, <1>6

\* resume_kdf_migration finds a ready journal.
LEMMA ResumeReadyStep ==
    ASSUME IInv, NEW p \in Procs, ResumeReady(p)
    PROVE  /\ GuardInv' /\ SettledInv' /\ StrayInv'
           /\ PreparingInv' /\ ReadyInv' /\ CleaningInv'
<1>0. /\ TypeOK /\ GuardInv /\ SettledInv /\ StrayInv
      /\ PreparingInv /\ ReadyInv /\ CleaningInv
  BY DEF IInv
<1> USE NobodyAssumption, NoJournalAssumption
    DEF files, memory, counters, ResumeReady, Acquire
<1>1. GuardInv'
  BY <1>0
  DEF TypeOK, Contents, GuardInv
<1>2. SettledInv'
  BY <1>0
  DEF TypeOK, Contents, SettledInv, GuardInv
<1>3. StrayInv'
  BY <1>0
  DEF TypeOK, Contents, StrayInv, JournalMembers, Present,
         GuardInv
<1>4. PreparingInv'
  BY <1>0
  DEF TypeOK, Contents, PreparingInv, JournalMembers, Present, StrayInv,
      GuardInv,
         Staging, Cleaning, StagedBackup, BackupOf, IsFirst
<1>5. ReadyInv'
  BY <1>0
  DEF TypeOK, Contents, ReadyInv, JournalMembers, Present, StrayInv, GuardInv,
         Staging, Cleaning, AllTarget, BackupsValid, ValidBackup, IsFirst,
         CleaningInv
<1>6. CleaningInv'
  BY <1>0
  DEF TypeOK, Contents, CleaningInv, JournalMembers, Present, StrayInv,
      GuardInv, NoFiles
<1>7. QED
  BY <1>1, <1>2, <1>3, <1>4, <1>5, <1>6

LEMMA RollbackReady ==
    ASSUME IInv, NEW p \in Procs, Rollback(p)
    PROVE  ReadyInv'
<1>0. TypeOK /\ StrayInv /\ ReadyInv /\ PreparingInv
  BY DEF IInv
<1>1. journal \in Journal /\ journal # NoJournal /\ UNCHANGED files
  BY <1>0, NoJournalAssumption DEF TypeOK, Rollback
<1>2. CASE journal.state = "preparing"
  BY <1>1, <1>2 DEF ReadyInv, files
<1>3. CASE journal.state = "ready"
  <2>1. /\ phase' = "restore" /\ todo' = JournalMembers
        /\ bytes' = [m \in MemberNames |->
                       IF m \in JournalMembers THEN backup[m].inside
                        ELSE Absent]
        /\ BackupsValid
    BY <1>3 DEF Rollback, Acquire, RollbackAccepted, BackupsValid
  <2>2. bytes' = journal.original
    <3>1. \A m \in JournalMembers : backup[m].inside = journal.original[m]
      BY <2>1, BackupInside DEF BackupsValid, ValidBackup
    <3>2. \A m \in MemberNames \ JournalMembers :
                journal.original[m] = Absent
      BY DEF JournalMembers, Present
    <3>3. QED
      BY <1>1, <2>1, <3>1, <3>2 DEF Journal, Contents
  <2>3. QED
    BY <1>0, <1>1, <1>3, <2>1, <2>2
    DEF ReadyInv, files, BackupsValid, ValidBackup, AllTarget, JournalMembers,
        Present, Cleaning
<1>4. QED
  BY <1>1, <1>2, <1>3 DEF Journal

\* rollback_kdf_migration is accepted.
LEMMA RollbackStep ==
    ASSUME IInv, NEW p \in Procs, Rollback(p)
    PROVE  /\ GuardInv' /\ SettledInv' /\ StrayInv'
           /\ PreparingInv' /\ ReadyInv' /\ CleaningInv'
<1>0. /\ TypeOK /\ GuardInv /\ SettledInv /\ StrayInv
      /\ PreparingInv /\ ReadyInv /\ CleaningInv
  BY DEF IInv
<1> USE NobodyAssumption, NoJournalAssumption
    DEF files, memory, counters, Rollback, Acquire
<1>1. GuardInv'
  BY <1>0
  DEF TypeOK, Contents, GuardInv
<1>2. SettledInv'
  BY <1>0
  DEF TypeOK, Contents, SettledInv, GuardInv
<1>3. StrayInv'
  BY <1>0
  DEF TypeOK, Contents, StrayInv, JournalMembers, Present,
         GuardInv
<1>4. PreparingInv'
  BY <1>0
  DEF TypeOK, Contents, PreparingInv, JournalMembers, Present, StrayInv,
      GuardInv,
         Staging, Cleaning, StagedBackup, BackupOf, IsFirst
<1>5. ReadyInv'
  BY RollbackReady
<1>6. CleaningInv'
  BY <1>0
  DEF TypeOK, Contents, CleaningInv, JournalMembers, Present, StrayInv,
      GuardInv, NoFiles
<1>7. QED
  BY <1>1, <1>2, <1>3, <1>4, <1>5, <1>6

LEMMA WriteBackupPreparing ==
    ASSUME IInv, NEW p \in Procs, WriteBackup(p)
    PROVE  PreparingInv'
<1>0. TypeOK /\ GuardInv /\ StrayInv /\ PreparingInv
  BY DEF IInv
<1>1. /\ phase = "backup" /\ phase' = "next" /\ todo' = todo
      /\ UNCHANGED <<file, next, journal, bytes, stages>>
  BY DEF WriteBackup, Continue, counters
<1>2. PICK m \in todo : /\ IsFirst(m, todo)
                        /\ backup' = [backup EXCEPT ![m] =
                                   BackupOf(m, journal.original[m], stages)]
  BY DEF WriteBackup
<1>3. \A n \in MemberNames : IsFirst(n, todo) => n = m
  BY <1>0, <1>2, FirstIsUnique DEF TypeOK
<1>4. \A n \in MemberNames :
         backup'[n] = IF n = m
                      THEN BackupOf(m, journal.original[m], stages)
                      ELSE backup[n]
  BY <1>0, <1>2 DEF TypeOK
<1>5. QED
  BY <1>0, <1>1, <1>2, <1>3, <1>4
  DEF PreparingInv, Staging, Cleaning, StagedBackup, JournalMembers, Present,
      TypeOK, IsFirst

\* _write_staging writes a backup.
LEMMA WriteBackupStep ==
    ASSUME IInv, NEW p \in Procs, WriteBackup(p)
    PROVE  /\ GuardInv' /\ SettledInv' /\ StrayInv'
           /\ PreparingInv' /\ ReadyInv' /\ CleaningInv'
<1>0. /\ TypeOK /\ GuardInv /\ SettledInv /\ StrayInv
      /\ PreparingInv /\ ReadyInv /\ CleaningInv
  BY DEF IInv
<1> USE NobodyAssumption, NoJournalAssumption
    DEF files, memory, counters, WriteBackup, Continue
<1>1. GuardInv'
  BY <1>0
  DEF TypeOK, Contents, GuardInv
<1>2. SettledInv'
  BY <1>0
  DEF TypeOK, Contents, SettledInv, GuardInv
<1>3. StrayInv'
  BY <1>0
  DEF TypeOK, Contents, StrayInv, JournalMembers, Present,
         GuardInv
<1>4. PreparingInv'
  BY WriteBackupPreparing
<1>5. ReadyInv'
  BY <1>0
  DEF TypeOK, Contents, ReadyInv, JournalMembers, Present, StrayInv, GuardInv,
         Staging, Cleaning, AllTarget, BackupsValid, ValidBackup, IsFirst,
         CleaningInv
<1>6. CleaningInv'
  BY <1>0
  DEF TypeOK, Contents, CleaningInv, JournalMembers, Present, StrayInv,
      GuardInv, NoFiles
<1>7. QED
  BY <1>1, <1>2, <1>3, <1>4, <1>5, <1>6

\* _write_staging writes a next file.
LEMMA WriteNextStep ==
    ASSUME IInv, NEW p \in Procs, WriteNext(p)
    PROVE  /\ GuardInv' /\ SettledInv' /\ StrayInv'
           /\ PreparingInv' /\ ReadyInv' /\ CleaningInv'
<1>0. /\ TypeOK /\ GuardInv /\ SettledInv /\ StrayInv
      /\ PreparingInv /\ ReadyInv /\ CleaningInv
  BY DEF IInv
<1> USE NobodyAssumption, NoJournalAssumption
    DEF files, memory, counters, WriteNext, Continue
<1>1. GuardInv'
  BY <1>0
  DEF TypeOK, Contents, GuardInv
<1>2. SettledInv'
  BY <1>0
  DEF TypeOK, Contents, SettledInv, GuardInv
<1>3. StrayInv'
  BY <1>0
  DEF TypeOK, Contents, StrayInv, JournalMembers, Present,
         GuardInv
<1>4. PreparingInv'
  BY <1>0
  DEF TypeOK, Contents, PreparingInv, JournalMembers, Present, StrayInv,
      GuardInv,
         Staging, Cleaning, StagedBackup, BackupOf, IsFirst
<1>5. ReadyInv'
  BY <1>0
  DEF TypeOK, Contents, ReadyInv, JournalMembers, Present, StrayInv, GuardInv,
         Staging, Cleaning, AllTarget, BackupsValid, ValidBackup, IsFirst,
         CleaningInv
<1>6. CleaningInv'
  BY <1>0
  DEF TypeOK, Contents, CleaningInv, JournalMembers, Present, StrayInv,
      GuardInv, NoFiles
<1>7. QED
  BY <1>1, <1>2, <1>3, <1>4, <1>5, <1>6

LEMMA WriteReadyReady ==
    ASSUME IInv, NEW p \in Procs, WriteReady(p)
    PROVE  ReadyInv'
<1>0. TypeOK /\ GuardInv /\ StrayInv /\ PreparingInv /\ ReadyInv
  BY DEF IInv
<1>1. /\ phase = "ready" /\ phase' \in {"idle", "inspect"}
      /\ UNCHANGED <<file, backup, next, stages>>
  BY DEF WriteReady, Continue, Release, counters
<1>2. journal.state = "preparing"
  BY <1>0, <1>1, ReadyJournal DEF ReadyInv, Journal, Cleaning
<1>3. /\ file = journal.original
      /\ bytes = Reencrypted(journal.original, stages)
      /\ \A m \in JournalMembers : StagedBackup(m) /\ next[m] = bytes[m]
  BY <1>0, <1>1, <1>2, ReadyJournal DEF PreparingInv, Staging
<1>4. \A m \in MemberNames \ JournalMembers :
        backup[m] = Absent /\ next[m] = Absent
  BY <1>0, ReadyJournal DEF StrayInv
<1>5. QED
  BY <1>1, <1>3, <1>4, ReadyJournal
  DEF ReadyInv, ValidBackup, StagedBackup, BackupsValid, JournalMembers,
      Present, AllTarget, Cleaning

\* _write_staging turns the journal ready.
LEMMA WriteReadyStep ==
    ASSUME IInv, NEW p \in Procs, WriteReady(p)
    PROVE  /\ GuardInv' /\ SettledInv' /\ StrayInv'
           /\ PreparingInv' /\ ReadyInv' /\ CleaningInv'
<1>0. /\ TypeOK /\ GuardInv /\ SettledInv /\ StrayInv
      /\ PreparingInv /\ ReadyInv /\ CleaningInv
  BY DEF IInv
<1> USE NobodyAssumption, NoJournalAssumption
    DEF files, memory, counters, WriteReady, Continue, Release
<1>1. GuardInv'
  BY <1>0, ReadyJournal
  DEF TypeOK, Contents, GuardInv
<1>2. SettledInv'
  BY <1>0, ReadyJournal
  DEF TypeOK, Contents, SettledInv, GuardInv
<1>3. StrayInv'
  BY <1>0, ReadyJournal
  DEF TypeOK, Contents, StrayInv, JournalMembers, Present,
         GuardInv
<1>4. PreparingInv'
  BY <1>0, ReadyJournal
  DEF TypeOK, Contents, PreparingInv, JournalMembers, Present, StrayInv,
      GuardInv,
         Staging, Cleaning, StagedBackup, BackupOf, IsFirst
<1>5. ReadyInv'
  BY WriteReadyReady
<1>6. CleaningInv'
  BY <1>0, ReadyJournal
  DEF TypeOK, Contents, CleaningInv, JournalMembers, Present, StrayInv,
      GuardInv, NoFiles
<1>7. QED
  BY <1>1, <1>2, <1>3, <1>4, <1>5, <1>6

LEMMA InspectReady ==
    ASSUME IInv, NEW p \in Procs, Inspect(p)
    PROVE  ReadyInv'
<1>0. TypeOK /\ GuardInv /\ StrayInv /\ ReadyInv
  BY DEF IInv
<1>1. phase = "inspect" /\ UNCHANGED files
  BY DEF Inspect
<1>2. SUFFICES ASSUME journal # NoJournal, journal.state = "ready"
              PROVE ReadyInv'
  BY <1>1 DEF ReadyInv, files
<1>3. journal \in Journal
  BY <1>0, <1>2 DEF TypeOK
<1>4. CASE ResumeAccepted /\ phase' = "apply"
  <2>1. todo' = JournalMembers /\ bytes' = [m \in MemberNames |->
                        IF m \in JournalMembers /\ next[m] = Absent
                        THEN file[m] ELSE next[m]]
    BY <1>4 DEF Inspect, Release
  <2>2. BackupsValid \/ AllTarget
    BY <1>4 DEF ResumeAccepted, BackupsValid
  <2>3. bytes' = journal.target
    <3>1. \A m \in MemberNames : bytes'[m] = journal.target[m]
      BY <1>0, <1>2, <1>4, <2>1
      DEF ResumeAccepted, StrayInv, ReadyInv, Reencrypted, JournalMembers,
          Present
    <3>2. QED
      BY <1>3, <2>1, <3>1 DEF Journal, Contents
  <2>4. QED
    BY <1>0, <1>1, <1>2, <1>4, <2>1, <2>2, <2>3
    DEF ReadyInv, files, BackupsValid, ValidBackup, AllTarget, JournalMembers,
        Present, Cleaning
<1>5. CASE phase' = "idle"
    BY <1>0, <1>1, <1>2, <1>5
    DEF ReadyInv, files, BackupsValid, ValidBackup, AllTarget, JournalMembers,
        Present, Cleaning
<1>6. QED
  BY <1>4, <1>5 DEF Inspect, Release

\* resume_kdf_migration checks every member before it applies any.
LEMMA InspectStep ==
    ASSUME IInv, NEW p \in Procs, Inspect(p)
    PROVE  /\ GuardInv' /\ SettledInv' /\ StrayInv'
           /\ PreparingInv' /\ ReadyInv' /\ CleaningInv'
<1>0. /\ TypeOK /\ GuardInv /\ SettledInv /\ StrayInv
      /\ PreparingInv /\ ReadyInv /\ CleaningInv
  BY DEF IInv
<1> USE NobodyAssumption, NoJournalAssumption
    DEF files, memory, counters, Inspect, Release
<1>1. GuardInv'
  BY <1>0
  DEF TypeOK, Contents, GuardInv
<1>2. SettledInv'
  BY <1>0
  DEF TypeOK, Contents, SettledInv, GuardInv
<1>3. StrayInv'
  BY <1>0
  DEF TypeOK, Contents, StrayInv, JournalMembers, Present,
         GuardInv
<1>4. PreparingInv'
  BY <1>0
  DEF TypeOK, Contents, PreparingInv, JournalMembers, Present, StrayInv,
      GuardInv,
         Staging, Cleaning, StagedBackup, BackupOf, IsFirst
<1>5. ReadyInv'
  BY InspectReady
<1>6. CleaningInv'
  BY <1>0
  DEF TypeOK, Contents, CleaningInv, JournalMembers, Present, StrayInv,
      GuardInv, NoFiles
<1>7. QED
  BY <1>1, <1>2, <1>3, <1>4, <1>5, <1>6

LEMMA ApplyReady ==
    ASSUME IInv, NEW p \in Procs, Apply(p)
    PROVE  ReadyInv'
<1>0. TypeOK /\ GuardInv /\ StrayInv /\ ReadyInv
  BY DEF IInv
<1>1. /\ phase = "apply" /\ UNCHANGED <<backup, next, journal>>
      /\ phase' \in {"idle", "record"}
      /\ phase' = "record" => todo' = todo /\ bytes' = bytes
  BY DEF Apply, Continue, Release
<1>2. SUFFICES ASSUME journal # NoJournal, journal.state = "ready"
               PROVE  ReadyInv'
  BY <1>1 DEF ReadyInv
<1>3. PICK m \in todo :
        /\ IsFirst(m, todo)
        /\ \/ file' = file /\ (phase' = "idle" \/ file[m] = journal.target[m])
           \/ file' = [file EXCEPT ![m] = bytes[m]]
  BY DEF Apply, Continue, Release
<1>4. /\ bytes = journal.target /\ (BackupsValid \/ AllTarget)
      /\ m \in JournalMembers /\ m \in MemberNames
  BY <1>0, <1>1, <1>2, <1>3 DEF ReadyInv, StrayInv, TypeOK
<1>5. /\ \A n \in MemberNames :
            file'[n] = file[n] \/ (n = m /\ file'[n] = journal.target[n])
      /\ phase' = "record" => file'[m] = journal.target[m]
  <2>1. CASE file' = file /\ (phase' = "idle" \/ file[m] = journal.target[m])
    BY <2>1
  <2>2. CASE file' = [file EXCEPT ![m] = bytes[m]]
    BY <1>0, <1>4, <2>2 DEF TypeOK, Contents
  <2>3. QED
    BY <1>3, <2>1, <2>2
<1>6. \A n \in MemberNames : IsFirst(n, todo) => n = m
  BY <1>0, <1>3, FirstIsUnique DEF TypeOK
<1>7. BackupsValid' \/ AllTarget'
  BY <1>0, <1>1, <1>2, <1>4, <1>5
  DEF ReadyInv, BackupsValid, ValidBackup, AllTarget, JournalMembers, Present
<1>8. \A n \in JournalMembers \ todo : file'[n] = journal.target[n]
  BY <1>0, <1>1, <1>2, <1>5 DEF ReadyInv, JournalMembers, Present
<1>9. QED
  BY <1>0, <1>1, <1>2, <1>4, <1>5, <1>6, <1>7, <1>8
  DEF ReadyInv, Cleaning, ValidBackup, JournalMembers, Present

\* resume_kdf_migration puts a target in place.
LEMMA ApplyStep ==
    ASSUME IInv, NEW p \in Procs, Apply(p)
    PROVE  /\ GuardInv' /\ SettledInv' /\ StrayInv'
           /\ PreparingInv' /\ ReadyInv' /\ CleaningInv'
<1>0. /\ TypeOK /\ GuardInv /\ SettledInv /\ StrayInv
      /\ PreparingInv /\ ReadyInv /\ CleaningInv
  BY DEF IInv
<1> USE NobodyAssumption, NoJournalAssumption
    DEF files, memory, counters, Apply, Continue, Release
<1>1. GuardInv'
  BY <1>0
  DEF TypeOK, Contents, GuardInv
<1>2. SettledInv'
  BY <1>0
  DEF TypeOK, Contents, SettledInv, GuardInv
<1>3. StrayInv'
  BY <1>0
  DEF TypeOK, Contents, StrayInv, JournalMembers, Present,
         GuardInv
<1>4. PreparingInv'
  BY <1>0
  DEF TypeOK, Contents, PreparingInv, JournalMembers, Present, StrayInv,
      GuardInv,
         Staging, Cleaning, StagedBackup, BackupOf, IsFirst
<1>5. ReadyInv'
  BY ApplyReady
<1>6. CleaningInv'
  BY <1>0
  DEF TypeOK, Contents, CleaningInv, JournalMembers, Present, StrayInv,
      GuardInv, NoFiles
<1>7. QED
  BY <1>1, <1>2, <1>3, <1>4, <1>5, <1>6

\* resume_kdf_migration records an applied member.
LEMMA RecordStep ==
    ASSUME IInv, NEW p \in Procs, Record(p)
    PROVE  /\ GuardInv' /\ SettledInv' /\ StrayInv'
           /\ PreparingInv' /\ ReadyInv' /\ CleaningInv'
<1>0. /\ TypeOK /\ GuardInv /\ SettledInv /\ StrayInv
      /\ PreparingInv /\ ReadyInv /\ CleaningInv
  BY DEF IInv
<1> USE NobodyAssumption, NoJournalAssumption
    DEF files, memory, counters, Record, Continue
<1>1. GuardInv'
  BY <1>0, RecordedJournal
  DEF TypeOK, Contents, GuardInv
<1>2. SettledInv'
  BY <1>0, RecordedJournal
  DEF TypeOK, Contents, SettledInv, GuardInv
<1>3. StrayInv'
  BY <1>0, RecordedJournal
  DEF TypeOK, Contents, StrayInv, JournalMembers, Present,
         GuardInv
<1>4. PreparingInv'
  BY <1>0, RecordedJournal
  DEF TypeOK, Contents, PreparingInv, JournalMembers, Present, StrayInv,
      GuardInv,
         Staging, Cleaning, StagedBackup, BackupOf, IsFirst
<1>5. ReadyInv'
  BY <1>0, RecordedJournal
  DEF TypeOK, Contents, ReadyInv, JournalMembers, Present, StrayInv, GuardInv,
         Staging, Cleaning, AllTarget, BackupsValid, ValidBackup, IsFirst,
         CleaningInv
<1>6. CleaningInv'
  BY <1>0, RecordedJournal
  DEF TypeOK, Contents, CleaningInv, JournalMembers, Present, StrayInv,
      GuardInv, NoFiles
<1>7. QED
  BY <1>1, <1>2, <1>3, <1>4, <1>5, <1>6

LEMMA RestoreReady ==
    ASSUME IInv, NEW p \in Procs, Restore(p)
    PROVE  ReadyInv'
<1>0. TypeOK /\ GuardInv /\ StrayInv /\ ReadyInv
  BY DEF IInv
<1>1. /\ phase = "restore" /\ UNCHANGED <<backup, next, journal, bytes>>
  BY DEF Restore, Continue
<1>2. SUFFICES ASSUME journal # NoJournal, journal.state = "ready"
               PROVE  ReadyInv'
  BY <1>1 DEF ReadyInv
<1>3. PICK m \in todo :
        /\ file' = [file EXCEPT ![m] = bytes[m]]
        /\ \/ todo = {m} /\ phase' = "clean_next"
           \/ todo' = todo \ {m} /\ phase' = "restore"
  BY DEF Restore, Continue
<1>4. bytes = journal.original /\ BackupsValid
      /\ m \in MemberNames /\ journal \in Journal
  BY <1>0, <1>1, <1>2, <1>3 DEF ReadyInv, TypeOK
<1>5. \A n \in MemberNames : file'[n] =
                      IF n = m THEN journal.original[n] ELSE file[n]
  BY <1>0, <1>3, <1>4 DEF TypeOK, Contents
<1>6. \A n \in JournalMembers \ (todo \ {m}) : file'[n] = journal.original[n]
  BY <1>0, <1>1, <1>2, <1>5 DEF ReadyInv, JournalMembers, Present
<1>7. BackupsValid'
  BY <1>1, <1>4 DEF BackupsValid, ValidBackup, JournalMembers, Present
<1>8. \A n \in MemberNames : file'[n] \in
                      {journal.original[n], journal.target[n]}
  BY <1>0, <1>2, <1>5 DEF ReadyInv
<1>9. CASE todo = {m} /\ phase' = "clean_next"
  <2>1. \A n \in MemberNames : file'[n] = journal.original[n]
    BY <1>0, <1>2, <1>6, <1>8, <1>9
    DEF ReadyInv, Reencrypted, JournalMembers, Present
  <2>2. file' = journal.original
    BY <1>0, <1>3, <1>4, <2>1 DEF TypeOK, Contents, Journal
  <2>3. QED
    BY <1>0, <1>1, <1>2, <1>7, <1>8, <1>9, <2>2
    DEF ReadyInv, Cleaning, ValidBackup
<1>10. CASE todo' = todo \ {m} /\ phase' = "restore"
  BY <1>0, <1>1, <1>2, <1>4, <1>6, <1>7, <1>8, <1>10
  DEF ReadyInv, Cleaning, ValidBackup, JournalMembers, Present
<1>11. QED
  BY <1>3, <1>9, <1>10

\* rollback_kdf_migration puts an original back.
LEMMA RestoreStep ==
    ASSUME IInv, NEW p \in Procs, Restore(p)
    PROVE  /\ GuardInv' /\ SettledInv' /\ StrayInv'
           /\ PreparingInv' /\ ReadyInv' /\ CleaningInv'
<1>0. /\ TypeOK /\ GuardInv /\ SettledInv /\ StrayInv
      /\ PreparingInv /\ ReadyInv /\ CleaningInv
  BY DEF IInv
<1> USE NobodyAssumption, NoJournalAssumption
    DEF files, memory, counters, Restore, Continue
<1>1. GuardInv'
  BY <1>0
  DEF TypeOK, Contents, GuardInv
<1>2. SettledInv'
  BY <1>0
  DEF TypeOK, Contents, SettledInv, GuardInv
<1>3. StrayInv'
  BY <1>0
  DEF TypeOK, Contents, StrayInv, JournalMembers, Present,
         GuardInv
<1>4. PreparingInv'
  BY <1>0
  DEF TypeOK, Contents, PreparingInv, JournalMembers, Present, StrayInv,
      GuardInv,
         Staging, Cleaning, StagedBackup, BackupOf, IsFirst
<1>5. ReadyInv'
  BY RestoreReady
<1>6. CleaningInv'
  BY <1>0
  DEF TypeOK, Contents, CleaningInv, JournalMembers, Present, StrayInv,
      GuardInv, NoFiles
<1>7. QED
  BY <1>1, <1>2, <1>3, <1>4, <1>5, <1>6

\* _cleanup removes a next file.
LEMMA CleanNextStep ==
    ASSUME IInv, NEW p \in Procs, CleanNext(p)
    PROVE  /\ GuardInv' /\ SettledInv' /\ StrayInv'
           /\ PreparingInv' /\ ReadyInv' /\ CleaningInv'
<1>0. /\ TypeOK /\ GuardInv /\ SettledInv /\ StrayInv
      /\ PreparingInv /\ ReadyInv /\ CleaningInv
  BY DEF IInv
<1> USE NobodyAssumption, NoJournalAssumption
    DEF files, memory, counters, CleanNext, Continue
<1>1. GuardInv'
  BY <1>0
  DEF TypeOK, Contents, GuardInv
<1>2. SettledInv'
  BY <1>0
  DEF TypeOK, Contents, SettledInv, GuardInv
<1>3. StrayInv'
  BY <1>0
  DEF TypeOK, Contents, StrayInv, JournalMembers, Present,
         GuardInv
<1>4. PreparingInv'
  BY <1>0
  DEF TypeOK, Contents, PreparingInv, JournalMembers, Present, StrayInv,
      GuardInv,
         Staging, Cleaning, StagedBackup, BackupOf, IsFirst
<1>5. ReadyInv'
  BY <1>0
  DEF TypeOK, Contents, ReadyInv, JournalMembers, Present, StrayInv, GuardInv,
         Staging, Cleaning, AllTarget, BackupsValid, ValidBackup, IsFirst,
         CleaningInv
<1>6. CleaningInv'
  BY <1>0
  DEF TypeOK, Contents, CleaningInv, JournalMembers, Present, StrayInv,
      GuardInv, NoFiles
<1>7. QED
  BY <1>1, <1>2, <1>3, <1>4, <1>5, <1>6

\* _cleanup removes a backup.
LEMMA CleanBackupStep ==
    ASSUME IInv, NEW p \in Procs, CleanBackup(p)
    PROVE  /\ GuardInv' /\ SettledInv' /\ StrayInv'
           /\ PreparingInv' /\ ReadyInv' /\ CleaningInv'
<1>0. /\ TypeOK /\ GuardInv /\ SettledInv /\ StrayInv
      /\ PreparingInv /\ ReadyInv /\ CleaningInv
  BY DEF IInv
<1> USE NobodyAssumption, NoJournalAssumption
    DEF files, memory, counters, CleanBackup, Continue
<1>1. GuardInv'
  BY <1>0
  DEF TypeOK, Contents, GuardInv
<1>2. SettledInv'
  BY <1>0
  DEF TypeOK, Contents, SettledInv, GuardInv
<1>3. StrayInv'
  BY <1>0
  DEF TypeOK, Contents, StrayInv, JournalMembers, Present,
         GuardInv
<1>4. PreparingInv'
  BY <1>0
  DEF TypeOK, Contents, PreparingInv, JournalMembers, Present, StrayInv,
      GuardInv,
         Staging, Cleaning, StagedBackup, BackupOf, IsFirst
<1>5. ReadyInv'
  BY <1>0
  DEF TypeOK, Contents, ReadyInv, JournalMembers, Present, StrayInv, GuardInv,
         Staging, Cleaning, AllTarget, BackupsValid, ValidBackup, IsFirst,
         CleaningInv
<1>6. CleaningInv'
  <2>1. PICK m \in todo :
          /\ backup' = [backup EXCEPT ![m] = Absent]
          /\ IF todo = {m} THEN phase' = "clean_journal" /\ todo' = {}
             ELSE phase' = "clean_backup" /\ todo' = todo \ {m}
    OBVIOUS
  <2>2. /\ next = NoFiles /\ next' = next
        /\ \A n \in MemberNames \ todo : backup[n] = Absent
    BY <1>0 DEF CleaningInv
  <2>3. /\ m \in MemberNames
        /\ backup = [n \in MemberNames |-> backup[n]]
    BY <1>0 DEF TypeOK
  <2>4. /\ backup' = [n \in MemberNames |->
                        IF n = m THEN Absent ELSE backup[n]]
        /\ \A n \in MemberNames \ (todo \ {m}) : backup'[n] = Absent
    BY <2>1, <2>2, <2>3
  <2>5. CASE todo = {m}
    <3>1. backup' = NoFiles
      BY <2>2, <2>4, <2>5 DEF NoFiles
    <3> QED
      BY <2>1, <2>2, <2>5, <3>1 DEF CleaningInv
  <2>6. CASE todo # {m}
    BY <2>1, <2>2, <2>4, <2>6 DEF CleaningInv
  <2> QED
    BY <2>5, <2>6
<1>7. QED
  BY <1>1, <1>2, <1>3, <1>4, <1>5, <1>6

\* _cleanup removes the journal.
LEMMA CleanJournalStep ==
    ASSUME IInv, NEW p \in Procs, CleanJournal(p)
    PROVE  /\ GuardInv' /\ SettledInv' /\ StrayInv'
           /\ PreparingInv' /\ ReadyInv' /\ CleaningInv'
<1>0. /\ TypeOK /\ GuardInv /\ SettledInv /\ StrayInv
      /\ PreparingInv /\ ReadyInv /\ CleaningInv
  BY DEF IInv
<1> USE NobodyAssumption, NoJournalAssumption
    DEF files, memory, counters, CleanJournal, Release
<1>1. GuardInv'
  BY <1>0
  DEF TypeOK, Contents, GuardInv
<1>2. SettledInv'
  BY <1>0 DEF SettledInv, CleaningInv
<1>3. StrayInv'
  BY <1>0
  DEF TypeOK, Contents, StrayInv, JournalMembers, Present,
         GuardInv
<1>4. PreparingInv'
  BY <1>0
  DEF TypeOK, Contents, PreparingInv, JournalMembers, Present, StrayInv,
      GuardInv,
         Staging, Cleaning, StagedBackup, BackupOf, IsFirst
<1>5. ReadyInv'
  BY <1>0
  DEF TypeOK, Contents, ReadyInv, JournalMembers, Present, StrayInv, GuardInv,
         Staging, Cleaning, AllTarget, BackupsValid, ValidBackup, IsFirst,
         CleaningInv
<1>6. CleaningInv'
  BY <1>0
  DEF TypeOK, Contents, CleaningInv, JournalMembers, Present, StrayInv,
      GuardInv, NoFiles
<1>7. QED
  BY <1>1, <1>2, <1>3, <1>4, <1>5, <1>6

\* A command that has not changed anything disturbs nothing.
LEMMA QuietStep ==
    ASSUME IInv, UNCHANGED <<files, memory, stages>>
    PROVE  /\ GuardInv' /\ SettledInv' /\ StrayInv'
           /\ PreparingInv' /\ ReadyInv' /\ CleaningInv'
<1>0. /\ GuardInv /\ SettledInv /\ StrayInv
      /\ PreparingInv /\ ReadyInv /\ CleaningInv
  BY DEF IInv
<1> USE <1>0 DEF files, memory
<1>1. GuardInv' /\ SettledInv' /\ StrayInv'
  BY DEF GuardInv, SettledInv, StrayInv, JournalMembers, Present
<1>2. PreparingInv'
  BY DEF PreparingInv, JournalMembers, Present, StagedBackup
<1>3. ReadyInv'
  BY DEF ReadyInv, JournalMembers, Present, ValidBackup, BackupsValid,
         AllTarget
<1>4. CleaningInv'
  BY DEF CleaningInv
<1>5. QED
  BY <1>1, <1>2, <1>3, <1>4

\* The holder of the guard dies: only its memory is lost.
LEMMA StopStep ==
    ASSUME IInv, NEW p \in Procs, Stop(p)
    PROVE  /\ GuardInv' /\ SettledInv' /\ StrayInv'
           /\ PreparingInv' /\ ReadyInv' /\ CleaningInv'
<1>0. /\ GuardInv /\ SettledInv /\ StrayInv
      /\ PreparingInv /\ ReadyInv /\ CleaningInv
  BY DEF IInv
<1>1. CASE guard = p
  <2>1. /\ guard' = Nobody /\ phase' = "idle" /\ todo' = {}
        /\ UNCHANGED <<file, backup, next, journal, stages>>
    BY <1>1 DEF Stop, Release, files
  <2> USE <1>0, <2>1
  <2>2. GuardInv' /\ SettledInv' /\ StrayInv' /\ CleaningInv'
    BY DEF GuardInv, SettledInv, StrayInv, JournalMembers, Present, CleaningInv
  <2>3. PreparingInv'
    BY DEF PreparingInv, JournalMembers, Present, Staging
  <2>4. ReadyInv'
    BY DEF ReadyInv, JournalMembers, Present, ValidBackup, BackupsValid,
           AllTarget, Cleaning
  <2>5. QED
    BY <2>2, <2>3, <2>4
<1>2. CASE guard # p
  BY <1>2, QuietStep DEF Stop
<1>3. QED
  BY <1>1, <1>2

\* An ordinary writer or a disposal runs only between migrations.
LEMMA WriterStep ==
    ASSUME IInv,
           \/ Dispose
           \/ \E m \in MemberNames : OrdinaryWrite(m)
           \/ \E p \in Procs : NormalizeWrite(p)
    PROVE  /\ GuardInv' /\ SettledInv' /\ StrayInv'
           /\ PreparingInv' /\ ReadyInv' /\ CleaningInv'
<1>1. /\ journal = NoJournal /\ guard = Nobody
      /\ UNCHANGED <<backup, next, journal, guard, phase, todo>>
  BY DEF Dispose, OrdinaryWrite, NormalizeWrite, GuardAdmitsWriter, memory
<1>2. QED
  BY <1>1
  DEF IInv, GuardInv, SettledInv, StrayInv, PreparingInv, ReadyInv,
      CleaningInv

-----------------------------------------------------------------------------
(* How a migration settles.                                                *)

\* Every member of the migration is in place in its version-2 form.
AllCurrent ==
    \A m \in JournalMembers : file[m] # Absent /\ file[m].suite = "v2"

\* Only the last step of _cleanup removes the journal.
LEMMA OnlyCleanJournalSettles ==
    ASSUME IInv, Next, journal # NoJournal, journal' = NoJournal
    PROVE  \E p \in Procs : CleanJournal(p)
<1>1. ASSUME NEW p \in Procs, Step(p) PROVE CleanJournal(p)
  <2>1. ~Start(p) /\ ~Stop(p) /\ ~Normalize(p)
    BY DEF Start, Upgrade, Request, Stop, Normalize, NormalizeRead,
           NormalizeWrite, NormalizeRefused, Refuse, files
  <2>2. ~Enter(p)
    BY PreparedJournal
    DEF Enter, PrepareRefused, ResumePreparing, ResumeReady, ResumeRefused,
        Rollback, RollbackRefused, Refuse, files
  <2>3. Hold(p) => CleanJournal(p)
    BY ReadyJournal, RecordedJournal
    DEF Hold, WriteBackup, WriteNext, Inspect, Apply, Restore, CleanNext,
        CleanBackup, files
  <2>4. QED
    BY <1>1, <2>1, <2>2, <2>3 DEF Step
<1>2. QED
  BY <1>1 DEF Next, OrdinaryWrite, Dispose

\* What is in place when it does.
LEMMA SettledForm ==
    ASSUME IInv, NEW p \in Procs, CleanJournal(p)
    PROVE  /\ file' = file /\ journal' = NoJournal
           /\ journal \in Journal /\ journal # NoJournal
           /\ file = journal.original \/ AllCurrent
           /\ \A m \in MemberNames \ JournalMembers : file[m] = Absent
<1>0. TypeOK /\ GuardInv /\ PreparingInv /\ ReadyInv
  BY DEF IInv
<1>1. /\ phase = "clean_journal" /\ journal' = NoJournal /\ file' = file
      /\ journal # NoJournal /\ journal \in Journal
  BY <1>0, NobodyAssumption DEF CleanJournal, TypeOK, GuardInv
<1>2. CASE file = journal.original
  BY <1>1, <1>2 DEF JournalMembers, Present
<1>3. CASE journal.state = "ready" /\ AllTarget
  <2>1. ASSUME NEW m \in JournalMembers
        PROVE  file[m] # Absent /\ file[m].suite = "v2"
    <3>1. journal.original[m] \in Content /\ journal.seal \in Nat
      BY <1>1 DEF Journal, Contents, JournalMembers, Present
    <3>2. journal.target[m] \in Content /\ journal.target[m].suite = "v2"
      BY <1>0, <1>1, <1>3, <3>1
      DEF ReadyInv, Reencrypted, Content, Suites, JournalMembers, Present
    <3>3. QED
      BY <1>3, <3>2, AbsentAssumption DEF AllTarget
  <2>2. \A m \in MemberNames \ JournalMembers : file[m] = Absent
    BY <1>0, <1>1, <1>3 DEF ReadyInv, Reencrypted, JournalMembers, Present
  <2>3. QED
    BY <1>1, <2>1, <2>2 DEF AllCurrent
<1>4. QED
  BY <1>0, <1>1, <1>2, <1>3 DEF PreparingInv, ReadyInv, Cleaning, Journal

-----------------------------------------------------------------------------
(* The theorems.                                                           *)

\* The inductive invariant holds initially.
LEMMA InitIInv == Init => IInv
<1> SUFFICES ASSUME Init PROVE IInv
  OBVIOUS
<1>1. file \in Contents
  BY DEF Init, Contents, Content, Suites
<1>2. TypeOK
  BY <1>1 DEF Init, TypeOK, Contents, NoFiles, Phases, Activities, Suites
<1>3. /\ GuardInv /\ SettledInv /\ StrayInv
      /\ PreparingInv /\ ReadyInv /\ CleaningInv
  BY DEF Init, GuardInv, SettledInv, StrayInv, PreparingInv, ReadyInv,
         CleaningInv
<1>4. QED
  BY <1>2, <1>3 DEF IInv

\* Every step preserves it.
LEMMA NextIInv == IInv /\ [Next]_vars => IInv'
<1> SUFFICES ASSUME IInv, [Next]_vars PROVE IInv'
  OBVIOUS
<1> DEFINE Rest == /\ GuardInv /\ SettledInv /\ StrayInv
                   /\ PreparingInv /\ ReadyInv /\ CleaningInv
<1>1. ASSUME NEW p \in Procs, Start(p) PROVE Rest'
  BY <1>1, QuietStep DEF Start, Upgrade, Request, counters
<1>2. ASSUME NEW p \in Procs, Enter(p) PROVE Rest'
  <2>1. CASE PrepareRefused(p) \/ ResumeRefused(p) \/ RollbackRefused(p)
    BY <2>1, QuietStep
    DEF PrepareRefused, ResumeRefused, RollbackRefused, Refuse, counters
  <2>2. QED
    BY <1>2, <2>1, PrepareStep, ResumePreparingStep, ResumeReadyStep,
       RollbackStep DEF Enter
<1>3. ASSUME NEW p \in Procs, Hold(p) PROVE Rest'
  BY <1>3, WriteBackupStep, WriteNextStep, WriteReadyStep, InspectStep,
     ApplyStep, RecordStep, RestoreStep, CleanNextStep, CleanBackupStep,
     CleanJournalStep DEF Hold
<1>4. ASSUME NEW p \in Procs, Stop(p) PROVE Rest'
  BY <1>4, StopStep
<1>5. ASSUME NEW p \in Procs, Normalize(p) PROVE Rest'
  <2>1. CASE NormalizeRead(p) \/ NormalizeRefused(p)
    BY <2>1, QuietStep DEF NormalizeRead, NormalizeRefused, Refuse
  <2>2. CASE NormalizeWrite(p)
    BY <2>2, WriterStep
  <2>3. QED
    BY <1>5, <2>1, <2>2 DEF Normalize
<1>6. ASSUME Dispose \/ \E m \in MemberNames : OrdinaryWrite(m) PROVE Rest'
  BY <1>6, WriterStep
<1>7. ASSUME UNCHANGED vars PROVE Rest'
  BY <1>7, QuietStep DEF vars, files, memory
<1>8. Rest'
  BY <1>1, <1>2, <1>3, <1>4, <1>5, <1>6, <1>7 DEF Next, Step
<1>9. QED
  BY <1>8, TypeStep DEF IInv

(***************************************************************************)
(* The inductive invariant is an invariant of the migration.               *)
(***************************************************************************)
THEOREM Invariance == Spec => []IInv
<1>1. QED
  BY InitIInv, NextIInv, PTL DEF Spec

(***************************************************************************)
(* Type correctness (all variables of KdfMigration).                       *)
(***************************************************************************)
THEOREM TypeCorrectness == Spec => []TypeOK
<1>1. IInv => TypeOK
  BY DEF IInv
<1>2. QED
  BY <1>1, Invariance, PTL

(***************************************************************************)
(* The journal goes away only over all originals or all version-2 targets  *)
(* (resume_kdf_migration, rollback_kdf_migration, _cleanup).               *)
(***************************************************************************)
THEOREM AllOrNothing == Spec => SettlesAllOrNothing
<1>1. IInv /\ [Next]_vars =>
        [journal # NoJournal /\ journal' = NoJournal =>
            \/ file' = journal.original
            \/ \A m \in JournalMembers : HasSuite(m, "v2")']_vars
  <2> SUFFICES ASSUME IInv, Next, journal # NoJournal, journal' = NoJournal
               PROVE  \/ file' = journal.original
                      \/ \A m \in JournalMembers : HasSuite(m, "v2")'
    BY DEF vars
  <2>1. PICK p \in Procs : CleanJournal(p)
    BY OnlyCleanJournalSettles
  <2>2. file' = journal.original \/ AllCurrent
    BY <2>1, SettledForm
  <2>3. QED
    BY <2>1, <2>2 DEF AllCurrent, HasSuite, CleanJournal
<1>2. QED
  BY <1>1, Invariance, PTL DEF Spec, SettlesAllOrNothing

(***************************************************************************)
(* No recovery file outlives the journal (_cleanup, _write_staging).       *)
(***************************************************************************)
THEOREM NoLeftovers == Spec => []NothingLeftBehind
<1>1. IInv => NothingLeftBehind
  BY DEF IInv, SettledInv, NothingLeftBehind
<1>2. QED
  BY <1>1, Invariance, PTL

(***************************************************************************)
(* Old bytes stay reachable until every member has its version-2 bytes     *)
(* (resume_kdf_migration, rollback_kdf_migration).                         *)
(***************************************************************************)
THEOREM OldBytes == Spec => []OldBytesReachable
<1>1. IInv => OldBytesReachable
  BY DEF IInv, ReadyInv, OldBytesReachable, BackupsValid, JournalMembers,
         Present
<1>2. QED
  BY <1>1, Invariance, PTL

(***************************************************************************)
(* An unfinished migration that neither resume nor rollback accepts has    *)
(* left every member as it was (the checks of both commands).              *)
(***************************************************************************)
THEOREM NoDataStranded == Spec => []StrandedOnlyWithOriginals
<1>1. IInv => StrandedOnlyWithOriginals
  <2> SUFFICES ASSUME IInv, Unfinished, ~CanResume, ~RollbackAccepted
               PROVE  file = journal.original
    BY DEF StrandedOnlyWithOriginals
  <2>1. /\ journal \in Journal /\ journal # NoJournal
        /\ journal.state \in {"preparing", "ready"}
    BY DEF IInv, TypeOK, Unfinished, Journal
  <2>2. CASE journal.state = "preparing"
    BY <2>1, <2>2 DEF IInv, PreparingInv
  <2>3. CASE journal.state = "ready"
    <3>1. ReadyInv
      BY DEF IInv
    <3>2. BackupsValid => RollbackAccepted
      BY <2>1, <2>3, <3>1
      DEF ReadyInv, RollbackAccepted, BackupsValid, JournalMembers, Present
    <3>3. ASSUME NEW m \in JournalMembers PROVE journal.target[m] # Absent
      <4>1. journal.original[m] \in Content /\ journal.seal \in Nat
        BY <2>1 DEF Journal, Contents, JournalMembers, Present
      <4>2. journal.target[m] \in Content
        BY <2>1, <2>3, <3>1, <4>1
        DEF ReadyInv, Reencrypted, Content, Suites, JournalMembers, Present
      <4>3. QED
        BY <4>2, AbsentAssumption
    <3>4. AllTarget => CanResume
      BY <2>1, <2>3, <3>1, <3>3
      DEF ReadyInv, CanResume, ResumeAccepted, AllTarget, Reencrypted,
          JournalMembers, Present
    <3>5. QED
      BY <2>1, <2>3, <3>1, <3>2, <3>4 DEF ReadyInv
  <2>4. QED
    BY <2>1, <2>2, <2>3
<1>2. QED
  BY <1>1, Invariance, PTL

-----------------------------------------------------------------------------
(* Refinement of AtomicMigration.                                          *)

AtomicText(m) == IF file[m] = Absent THEN Absent ELSE file[m].text
AtomicSuite(m) == IF Committed[m] = Absent THEN Absent ELSE Committed[m].suite

\* A step that leaves every text, every committed suite and the journal's
\* existence alone is invisible to the atomic migration.
LEMMA Stutters ==
    ASSUME \A m \in MemberNames : AtomicText(m)' = AtomicText(m),
           \A m \in MemberNames : AtomicSuite(m)' = AtomicSuite(m),
           (journal' # NoJournal) = (journal # NoJournal)
    PROVE  UNCHANGED Atomic!vars
  BY DEF Atomic!vars, AtomicText, AtomicSuite

\* The initial states are initial states of the atomic migration.
LEMMA AtomicInit == Init => Atomic!Init
<1> SUFFICES ASSUME Init PROVE Atomic!Init
  OBVIOUS
<1>1. /\ journal = NoJournal /\ "vault" \in MemberNames
      /\ file["vault"] # Absent /\ file["vault"].suite = "v1"
      /\ \A m \in MemberNames : file[m] # Absent =>
            file[m].text = 0 /\ file[m].suite \in {"plain", "v1"}
  BY DEF Init, HasSuite, MemberNames
<1>2. Absent # 0 /\ Absent \notin {"plain", "v1"}
  BY AbsentAssumption DEF Suites
<1>3. QED
  BY <1>1, <1>2 DEF Atomic!Init, Committed

\* Putting either form of a member in place keeps its plaintext.
LEMMA SameText ==
    ASSUME IInv, journal # NoJournal, NEW m \in MemberNames,
           UNCHANGED journal, journal.state = "ready",
           file'[m] \in {journal.original[m], journal.target[m]}
    PROVE  AtomicText(m)' = AtomicText(m)
<1>1. /\ file[m] \in {journal.original[m], journal.target[m]}
      /\ journal.target = Reencrypted(journal.original, journal.seal)
  BY DEF IInv, ReadyInv
<1>2. journal.original[m] \in Content \cup {Absent} /\ journal.seal \in Nat
  BY DEF IInv, TypeOK, Journal, Contents
<1>3. CASE journal.original[m] = Absent
  BY <1>1, <1>3 DEF Reencrypted, AtomicText
<1>4. CASE journal.original[m] # Absent
  <2>1. /\ journal.target[m].text = journal.original[m].text
        /\ journal.target[m] \in Content
    BY <1>1, <1>2, <1>4 DEF Reencrypted, Content, Suites
  <2>2. QED
    BY <1>1, <1>4, <2>1, AbsentAssumption DEF AtomicText
<1>5. QED
  BY <1>3, <1>4

\* The preparing journal opens the atomic migration.
LEMMA PrepareBegins ==
    ASSUME IInv, NEW p \in Procs, Prepare(p)
    PROVE  Atomic!Begin
<1>1. /\ journal = NoJournal /\ journal' # NoJournal
      /\ file' = file /\ journal'.original = file
      /\ file["vault"] # Absent /\ file["vault"].suite = "v1"
  BY PreparedJournal DEF Prepare, HasSuite
<1>2. "vault" \in MemberNames
  BY DEF MemberNames
<1>3. QED
  BY <1>1, <1>2 DEF Atomic!Begin, Committed

\* Removing the journal completes or abandons it, for all members at once.
LEMMA CleanJournalEnds ==
    ASSUME IInv, NEW p \in Procs, CleanJournal(p)
    PROVE  Atomic!Complete \/ Atomic!Abandon
<1>1. CASE file = journal.original
  BY <1>1, SettledForm DEF Atomic!Abandon, Committed
<1>2. CASE AllCurrent
  <2>1. \A m \in JournalMembers :
          journal.original[m] # Absent /\ journal.original[m].suite # Absent
    BY SettledForm, AbsentAssumption
    DEF Journal, Contents, Content, JournalMembers, Present
  <2>2. \A m \in MemberNames \ JournalMembers : journal.original[m] = Absent
    BY DEF JournalMembers, Present
  <2>3. \A m \in MemberNames :
          /\ journal.original[m] = Absent => file[m] = Absent
          /\ journal.original[m] # Absent =>
                /\ journal.original[m].suite # Absent
                /\ file[m] # Absent /\ file[m].suite = "v2"
    BY <1>2, <2>1, <2>2, SettledForm DEF AllCurrent
  <2>4. QED
    BY <2>3, SettledForm DEF Atomic!Complete, Committed
<1>3. QED
  BY <1>1, <1>2, SettledForm

\* An ordinary write is a write of the atomic specification.
LEMMA OrdinaryWriteWrites ==
    ASSUME IInv, NEW m \in MemberNames, OrdinaryWrite(m)
    PROVE  Atomic!Write(m)
<1>1. /\ journal = NoJournal /\ journal' = journal
      /\ writes + 1 \in 0 .. MaxWrites /\ file \in Contents
  BY BoundsAssumption
  DEF OrdinaryWrite, GuardAdmitsWriter, IInv, TypeOK
<1> DEFINE protection == IF file["vault"] = Absent THEN "plain"
                         ELSE file["vault"].suite
           written == [text |-> writes + 1, seal |-> 0, suite |-> protection]
<1>2. file' = [file EXCEPT ![m] = written]
  BY DEF OrdinaryWrite
<1>3. file["vault"] # Absent => protection \in Suites
  BY <1>1 DEF Contents, Content, MemberNames
<1>4. protection \in Suites /\ written \in Content
  BY <1>1, <1>3 DEF Content, Suites
<1> HIDE DEF written
<1>5. /\ written # Absent /\ written.text = writes + 1
      /\ written.suite = protection
  BY <1>4, AbsentAssumption DEF written
<1>6. \A n \in MemberNames : file'[n] = IF n = m THEN written ELSE file[n]
  BY <1>1, <1>2 DEF Contents
<1>7. "vault" \in MemberNames
      /\ (file["vault"] # Absent => protection # Absent)
  BY <1>3, AbsentAssumption DEF MemberNames
<1>8. QED
  BY <1>1, <1>5, <1>6, <1>7 DEF Atomic!Write, Committed

\* The rewrite of a legacy store may bring an old protection back.
LEMMA NormalizeWriteRewrites ==
    ASSUME IInv, NEW p \in Procs, NormalizeWrite(p)
    PROVE  Atomic!Rewrite
<1>1. /\ journal = NoJournal /\ journal' = journal
      /\ writes + 1 \in 0 .. MaxWrites
      /\ file \in Contents /\ seen[p] \in Suites
  BY BoundsAssumption DEF NormalizeWrite, GuardAdmitsWriter, IInv, TypeOK
<1> DEFINE written == [text |-> writes + 1, seal |-> 0, suite |-> seen[p]]
<1>2. file' = [file EXCEPT !["vault"] = written]
  BY DEF NormalizeWrite
<1>3. written \in Content
  BY <1>1 DEF Content
<1>4. /\ written # Absent /\ written.text = writes + 1
      /\ written.suite = seen[p]
  BY <1>3, AbsentAssumption
<1> HIDE DEF written
<1>5. \A n \in MemberNames :
          file'[n] = IF n = "vault" THEN written ELSE file[n]
  BY <1>1, <1>2 DEF Contents
<1>6. "vault" \in MemberNames /\ seen[p] # Absent
  BY <1>1, AbsentAssumption DEF MemberNames
<1>7. QED
  BY <1>1, <1>4, <1>5, <1>6 DEF Atomic!Rewrite, Committed, Suites

\* A disposal, complete or cut short, removes some members.
LEMMA DisposeRemoves ==
    ASSUME IInv, Dispose
    PROVE  \E members \in SUBSET MemberNames : Atomic!Remove(members)
<1>1. PICK last \in MemberNames :
        file' = [m \in MemberNames |->
                   IF Position[m] <= Position[last] THEN Absent ELSE file[m]]
  BY DEF Dispose
<1>2. journal = NoJournal /\ journal' = journal
  BY DEF Dispose, GuardAdmitsWriter
<1> DEFINE gone == {m \in MemberNames : Position[m] <= Position[last]}
<1>3. \A m \in MemberNames :
          file'[m] = IF m \in gone THEN Absent ELSE file[m]
  BY <1>1
<1> HIDE DEF gone
<1>4. Atomic!Remove(gone)
  BY <1>2, <1>3 DEF Atomic!Remove, Committed
<1>5. gone \in SUBSET MemberNames
  BY DEF gone
<1>6. QED
  BY <1>4, <1>5

\* Every step is a step of the atomic migration or stutters.
LEMMA AtomicNext ==
    ASSUME IInv, [Next]_vars
    PROVE  [Atomic!Next]_(Atomic!vars)
<1>0. TypeOK /\ GuardInv /\ ReadyInv /\ PreparingInv
  BY DEF IInv
<1>1. CASE UNCHANGED <<file, journal>>
  BY <1>1, Stutters DEF AtomicText, AtomicSuite, Committed
<1>2. ASSUME NEW p \in Procs, Prepare(p) PROVE Atomic!Next
  BY <1>2, PrepareBegins DEF Atomic!Next
<1>3. ASSUME NEW p \in Procs, WriteReady(p) PROVE UNCHANGED Atomic!vars
  <2>1. file' = file /\ Committed' = Committed
    BY <1>3, ReadyJournal DEF WriteReady, Committed
  <2>2. QED
    BY <1>3, <2>1, ReadyJournal, Stutters DEF AtomicText, AtomicSuite
<1>4. ASSUME NEW p \in Procs, Record(p) PROVE UNCHANGED Atomic!vars
  <2>1. file' = file /\ Committed' = Committed
    BY <1>4, RecordedJournal DEF Record, Committed
  <2>2. QED
    BY <1>4, <2>1, RecordedJournal, Stutters DEF AtomicText, AtomicSuite
<1>5. ASSUME NEW p \in Procs, Apply(p) \/ Restore(p)
      PROVE  UNCHANGED Atomic!vars
  <2>1. journal # NoJournal /\ journal' = journal
    BY <1>0, <1>5, NobodyAssumption DEF Apply, Restore, GuardInv
  <2>2. journal.state = "ready"
    BY <1>0, <1>5, <2>1
    DEF Apply, Restore, PreparingInv, Staging, Cleaning, TypeOK, Journal
  <2>3. ReadyInv'
    BY <1>5, ApplyReady, RestoreReady
  <2>4. \A m \in MemberNames : AtomicText(m)' = AtomicText(m)
    BY <2>1, <2>2, <2>3, SameText DEF ReadyInv
  <2>5. \A m \in MemberNames : AtomicSuite(m)' = AtomicSuite(m)
    BY <2>1 DEF AtomicSuite, Committed
  <2>6. QED
    BY <2>1, <2>4, <2>5, Stutters
<1>6. ASSUME NEW p \in Procs, CleanJournal(p) PROVE Atomic!Next
  BY <1>6, CleanJournalEnds DEF Atomic!Next
<1>7. ASSUME NEW m \in MemberNames, OrdinaryWrite(m) PROVE Atomic!Next
  BY <1>7, OrdinaryWriteWrites DEF Atomic!Next
<1>8. CASE Dispose
  BY <1>8, DisposeRemoves DEF Atomic!Next
<1>9. ASSUME NEW p \in Procs, Step(p)
      PROVE  \/ UNCHANGED <<file, journal>>
             \/ Prepare(p) \/ WriteReady(p) \/ Record(p) \/ Apply(p)
             \/ Restore(p) \/ CleanJournal(p) \/ NormalizeWrite(p)
  <2>1. ASSUME Start(p) \/ Stop(p) PROVE UNCHANGED <<file, journal>>
    BY <2>1 DEF Start, Upgrade, Request, Stop, files
  <2>2. ASSUME Enter(p) PROVE UNCHANGED <<file, journal>> \/ Prepare(p)
    BY <2>2 DEF Enter, PrepareRefused, ResumePreparing, ResumeReady,
                ResumeRefused, Rollback, RollbackRefused, Refuse, files
  <2>3. ASSUME Hold(p)
        PROVE  \/ UNCHANGED <<file, journal>>
               \/ WriteReady(p) \/ Record(p) \/ Apply(p)
               \/ Restore(p) \/ CleanJournal(p)
    BY <2>3 DEF Hold, WriteBackup, WriteNext, Inspect, CleanNext,
                CleanBackup, files
  <2>4. ASSUME Normalize(p)
        PROVE  UNCHANGED <<file, journal>> \/ NormalizeWrite(p)
    BY <2>4 DEF Normalize, NormalizeRead, NormalizeRefused, Refuse, files
  <2>5. QED
    BY <1>9, <2>1, <2>2, <2>3, <2>4 DEF Step
<1>10. CASE UNCHANGED vars
  BY <1>1, <1>10 DEF vars
<1>11. ASSUME NEW p \in Procs, NormalizeWrite(p) PROVE Atomic!Next
  BY <1>11, NormalizeWriteRewrites DEF Atomic!Next
<1>12. QED
  BY <1>1, <1>2, <1>3, <1>4, <1>5, <1>6, <1>7, <1>8, <1>9, <1>10, <1>11
  DEF Next

(***************************************************************************)
(* The migration, crash by crash and file by file, implements the atomic   *)
(* switch of every member: readers of settled files, ordinary writers and  *)
(* disposal cannot tell it from one indivisible step.                      *)
(***************************************************************************)
THEOREM Refinement == Spec => ImplementsAtomicMigration
<1>1. QED
  BY AtomicInit, AtomicNext, Invariance, PTL
  DEF Spec, Atomic!Spec, ImplementsAtomicMigration
=============================================================================
