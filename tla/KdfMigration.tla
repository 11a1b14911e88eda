---------------------------- MODULE KdfMigration ----------------------------
(***************************************************************************)
(* The explicit KDF migration of a vault and its sidecars, at the          *)
(* granularity of one private-file write or removal                        *)
(* (agent_personal_vault/kdf_migration.py under migration_guard.py).       *)
(*                                                                         *)
(* The processes are CLI invocations on one vault path.  A command that    *)
(* owns the migration guard walks through a list of file operations; a     *)
(* process may die, or one operation may raise, between any two of them.   *)
(* Ordinary writers of the vault, the consent state and the audit log run  *)
(* entirely inside the guard, so each of them is one step here; the one    *)
(* exception, load_store rewriting a legacy store, reads before it owns    *)
(* the guard and is two steps.                                             *)
(***************************************************************************)
EXTENDS Naturals, FiniteSets

CONSTANTS
    Procs,       \* processes running CLI commands on the vault
    Absent,      \* a file that does not exist
    Nobody,      \* the guard is free
    NoJournal,   \* the journal file does not exist
    MaxAttempts, \* bound on upgrades that decide to prepare a migration
    MaxWrites,   \* bound on ordinary writes
    MaxStops     \* bound on crashes and failed file operations

MemberNames == {"vault", "consent", "audit"}
Position == [m \in MemberNames |->
               CASE m = "vault" -> 1 [] m = "consent" -> 2 [] m = "audit" -> 3]
Suites == {"plain", "v1", "v2"}

(***************************************************************************)
(* The bytes of a member: the plaintext version they carry, how they are   *)
(* protected, and the encryption that produced them (every encryption      *)
(* draws a fresh salt and nonce, so two encryptions never have the same    *)
(* hash).  Equality of contents is equality of SHA-256.                    *)
(***************************************************************************)
Content == [text : Nat, suite : Suites, seal : Nat]
Contents == [MemberNames -> Content \cup {Absent}]
Backup == [inside : Content, seal : Nat]
Journal == [state : {"preparing", "ready"}, original : Contents,
            target : Contents, seal : Nat, applied : SUBSET MemberNames]

ASSUME AbsentAssumption ==
    /\ Absent \notin Content /\ Absent \notin Backup
    /\ Absent \notin Nat /\ Absent \notin Suites
ASSUME NoJournalAssumption == NoJournal \notin Journal
ASSUME NobodyAssumption == Nobody \notin Procs
ASSUME BoundsAssumption ==
    MaxAttempts \in Nat /\ MaxWrites \in Nat /\ MaxStops \in Nat

VARIABLES
    file,        \* the vault, consent and audit files in place
    backup,      \* the .bak recovery files
    next,        \* the .next staging files
    journal,     \* the migration journal file
    guard,       \* the process that holds the migration guard
    phase,       \* the next file operation of the guard's holder
    todo,        \* the members its current loop has still to visit
    bytes,       \* the member contents it holds in memory
    pc,          \* what each process is doing
    seen,        \* the vault protection a normalizing process has read
    stages,      \* the number of target encryptions so far, a fresh nonce
    attempts, writes, stops   \* counters of the bounds

files == <<file, backup, next, journal>>
memory == <<guard, phase, todo, bytes>>
vars == <<file, backup, next, journal, guard, phase, todo, bytes, pc, seen,
          stages, attempts, writes, stops>>

Phases == {"idle", "backup", "next", "ready", "inspect", "apply", "record",
           "restore", "clean_next", "clean_backup", "clean_journal"}
Commands == {"prepare", "resume", "rollback"}
Activities == {"idle", "normalize"} \cup Commands

NoFiles == [m \in MemberNames |-> Absent]
Present(contents) == {m \in MemberNames : contents[m] # Absent}
JournalMembers == Present(journal.original)

IsFirst(m, S) == m \in S /\ \A n \in S : Position[m] <= Position[n]

\* A fresh version-2 encryption of every present member's plaintext.
Reencrypted(contents, seal) ==
    [m \in MemberNames |->
        IF contents[m] = Absent THEN Absent
        ELSE [text |-> contents[m].text, suite |-> "v2", seal |-> seal]]

\* The vault is backed up as it stands; a sidecar is sealed once more.
BackupOf(m, content, seal) ==
    [inside |-> content, seal |-> IF m = "vault" THEN 0 ELSE seal]

ValidBackup(m) == backup[m] = BackupOf(m, journal.original[m], journal.seal)

HasSuite(m, suite) == file[m] # Absent /\ file[m].suite = suite

-----------------------------------------------------------------------------

TypeOK ==
    /\ file \in Contents
    /\ backup \in [MemberNames -> Backup \cup {Absent}]
    /\ next \in Contents
    /\ journal \in Journal \cup {NoJournal}
    /\ guard \in Procs \cup {Nobody}
    /\ phase \in Phases
    /\ todo \in SUBSET MemberNames
    /\ bytes \in Contents
    /\ pc \in [Procs -> Activities]
    /\ seen \in [Procs -> Suites]
    /\ stages \in Nat /\ attempts \in Nat /\ writes \in Nat /\ stops \in Nat

(***************************************************************************)
(* A version-1 vault whose sidecars are missing, encrypted with the same   *)
(* profile, or still plaintext from before sidecar protection existed.     *)
(***************************************************************************)
Init ==
    /\ file \in [MemberNames ->
            {Absent} \cup [text : {0}, suite : {"plain", "v1"}, seal : {0}]]
    /\ HasSuite("vault", "v1")
    /\ backup = NoFiles
    /\ next = NoFiles
    /\ journal = NoJournal
    /\ guard = Nobody
    /\ phase = "idle"
    /\ todo = {}
    /\ bytes = NoFiles
    /\ pc = [p \in Procs |-> "idle"]
    /\ seen = [p \in Procs |-> "plain"]
    /\ stages = 0 /\ attempts = 0 /\ writes = 0 /\ stops = 0

-----------------------------------------------------------------------------
(* Taking and leaving the guard.                                           *)

Release(p, then) ==
    /\ guard' = Nobody
    /\ phase' = "idle"
    /\ todo' = {}
    /\ bytes' = NoFiles
    /\ pc' = [pc EXCEPT ![p] = then]

Acquire(p, what, members, contents) ==
    /\ guard' = p
    /\ phase' = what
    /\ todo' = members
    /\ bytes' = contents
    /\ UNCHANGED pc

\* The command raises or returns before it has changed a file.
Refuse(p) == pc' = [pc EXCEPT ![p] = "idle"] /\ UNCHANGED <<files, memory>>

\* The holder moves on to another operation, its memory as it was.
Continue(what, members) ==
    phase' = what /\ todo' = members /\ UNCHANGED <<guard, bytes, pc>>

counters == <<seen, stages, attempts, writes, stops>>

-----------------------------------------------------------------------------
(* Commands before they own the guard.                                     *)

\* Mutant: upgrade-kdf refuses an unfinished migration instead of resuming.
UpgradeAlwaysPrepares(p) ==
    /\ pc[p] = "idle"
    /\ file["vault"] # Absent /\ attempts < MaxAttempts
    /\ attempts' = attempts + 1
    /\ pc' = [pc EXCEPT ![p] = "prepare"]
    /\ UNCHANGED <<files, memory, seen, stages, writes, stops>>

(***************************************************************************)
(* upgrade-kdf looks at the journal and the vault without the guard and    *)
(* picks a command; a version-2 or missing vault ends it at once.          *)
(***************************************************************************)
Upgrade(p) ==
    /\ pc[p] = "idle"
    /\ \/ /\ journal # NoJournal
          /\ pc' = [pc EXCEPT ![p] = "resume"]
          /\ UNCHANGED attempts
       \/ /\ journal = NoJournal
          /\ file["vault"] # Absent /\ ~HasSuite("vault", "v2")
          /\ attempts < MaxAttempts
          /\ attempts' = attempts + 1
          /\ pc' = [pc EXCEPT ![p] = "prepare"]
    /\ UNCHANGED <<files, memory, seen, stages, writes, stops>>

\* resume-kdf or rollback-kdf is invoked and waits for the guard.
Request(p) ==
    /\ pc[p] = "idle"
    /\ \E command \in {"resume", "rollback"} :
            pc' = [pc EXCEPT ![p] = command]
    /\ UNCHANGED <<files, memory, counters>>

\* Staging starts: the targets are encrypted in memory, the originals known.
Stage(p, originals) ==
    /\ stages' = stages + 1
    /\ Acquire(p, "backup", Present(originals),
               Reencrypted(originals, stages + 1))

(***************************************************************************)
(* prepare_kdf_migration up to its first write, the preparing journal.     *)
(***************************************************************************)
Prepare(p) ==
    /\ pc[p] = "prepare" /\ guard = Nobody
    /\ journal = NoJournal
    /\ HasSuite("vault", "v1")
    /\ Stage(p, file)
    /\ journal' = [state |-> "preparing", original |-> file,
                   target |-> NoFiles, seal |-> 0, applied |-> {}]
    /\ UNCHANGED <<file, backup, next, seen, attempts, writes, stops>>

PrepareRefused(p) ==
    /\ pc[p] = "prepare" /\ guard = Nobody
    /\ journal # NoJournal \/ ~HasSuite("vault", "v1")
    /\ Refuse(p)
    /\ UNCHANGED counters

(***************************************************************************)
(* resume_kdf_migration: nothing to do, staging to redo, or a ready        *)
(* journal to inspect.                                                     *)
(***************************************************************************)
SourceUnchanged == file = journal.original

ResumePreparing(p) ==
    /\ pc[p] = "resume" /\ guard = Nobody
    /\ journal # NoJournal /\ journal.state = "preparing"
    /\ SourceUnchanged
    /\ Stage(p, file)
    /\ UNCHANGED <<files, seen, attempts, writes, stops>>

ResumeReady(p) ==
    /\ pc[p] = "resume" /\ guard = Nobody
    /\ journal # NoJournal /\ journal.state = "ready"
    /\ Acquire(p, "inspect", {}, NoFiles)
    /\ UNCHANGED <<files, counters>>

ResumeRefused(p) ==
    /\ pc[p] = "resume" /\ guard = Nobody
    /\ journal # NoJournal =>
            journal.state = "preparing" /\ ~SourceUnchanged
    /\ Refuse(p)
    /\ UNCHANGED counters

\* Mutant: the hashes of the backups are not compared.
RollbackTrustsBackups ==
    IF journal.state = "preparing" THEN SourceUnchanged
    ELSE \A m \in JournalMembers :
            /\ backup[m] # Absent
            /\ file[m] \in {journal.original[m], journal.target[m]}

(***************************************************************************)
(* rollback_kdf_migration: a preparing migration is only cleaned up; a     *)
(* ready one needs every backup and every member in a known form.          *)
(***************************************************************************)
RollbackAccepted ==
    IF journal.state = "preparing" THEN SourceUnchanged
    ELSE \A m \in JournalMembers :
            /\ ValidBackup(m)
            /\ file[m] \in {journal.original[m], journal.target[m]}

Rollback(p) ==
    /\ pc[p] = "rollback" /\ guard = Nobody
    /\ journal # NoJournal
    /\ RollbackAccepted
    /\ \/ /\ journal.state = "preparing"
          /\ Acquire(p, "clean_next", JournalMembers, NoFiles)
       \/ /\ journal.state = "ready"
          /\ Acquire(p, "restore", JournalMembers,
                     [m \in MemberNames |->
                        IF m \in JournalMembers THEN backup[m].inside
                        ELSE Absent])
    /\ UNCHANGED <<files, counters>>

RollbackRefused(p) ==
    /\ pc[p] = "rollback" /\ guard = Nobody
    /\ journal # NoJournal => ~RollbackAccepted
    /\ Refuse(p)
    /\ UNCHANGED counters

-----------------------------------------------------------------------------
(* _write_staging: per member its backup, then its next file; then the     *)
(* journal turns ready.                                                    *)

WriteBackup(p) ==
    /\ guard = p /\ phase = "backup"
    /\ \E m \in todo :
         /\ IsFirst(m, todo)
         /\ backup' = [backup EXCEPT ![m] =
                            BackupOf(m, journal.original[m], stages)]
    /\ Continue("next", todo)
    /\ UNCHANGED <<file, next, journal, counters>>

WriteNext(p) ==
    /\ guard = p /\ phase = "next"
    /\ \E m \in todo :
         /\ IsFirst(m, todo)
         /\ next' = [next EXCEPT ![m] = bytes[m]]
         /\ Continue(IF todo = {m} THEN "ready" ELSE "backup", todo \ {m})
    /\ UNCHANGED <<file, backup, journal, counters>>

\* prepare returns and releases the guard; a resume goes on under it.
WriteReady(p) ==
    /\ guard = p /\ phase = "ready"
    /\ journal' = [journal EXCEPT !.state = "ready", !.target = bytes,
                                  !.seal = stages]
    /\ \/ pc[p] = "prepare" /\ Release(p, "resume")
       \/ pc[p] = "resume" /\ Continue("inspect", {})
    /\ UNCHANGED <<file, backup, next, counters>>

-----------------------------------------------------------------------------
(* The rest of resume: inspect everything, apply in order, clean up.       *)

AllTarget == \A m \in JournalMembers : file[m] = journal.target[m]

ResumeAccepted ==
    \A m \in JournalMembers :
        /\ file[m] # Absent
        /\ IF backup[m] # Absent THEN ValidBackup(m) ELSE AllTarget
        /\ (IF next[m] # Absent THEN next[m] ELSE file[m]) = journal.target[m]

Inspect(p) ==
    /\ guard = p /\ phase = "inspect"
    /\ \/ /\ ResumeAccepted
          /\ phase' = "apply" /\ todo' = JournalMembers
          /\ bytes' = [m \in MemberNames |->
                        IF m \in JournalMembers /\ next[m] = Absent
                        THEN file[m] ELSE next[m]]
          /\ UNCHANGED <<guard, pc>>
       \/ ~ResumeAccepted /\ Release(p, "idle")
    /\ UNCHANGED <<files, counters>>

\* Mutant: a member with unknown bytes is passed over.
ApplySkipsUnknown(p) ==
    /\ guard = p /\ phase = "apply"
    /\ \E m \in todo :
         /\ IsFirst(m, todo)
         /\ file' = IF file[m] = journal.original[m]
                    THEN [file EXCEPT ![m] = bytes[m]] ELSE file
    /\ Continue("record", todo)
    /\ UNCHANGED <<backup, next, journal, counters>>

Apply(p) ==
    /\ guard = p /\ phase = "apply"
    /\ \E m \in todo :
         /\ IsFirst(m, todo)
         /\ \/ /\ file[m] = journal.original[m]
               /\ file' = [file EXCEPT ![m] = bytes[m]]
               /\ Continue("record", todo)
            \/ /\ file[m] = journal.target[m]
               /\ UNCHANGED file
               /\ Continue("record", todo)
            \/ /\ file[m] \notin {journal.original[m], journal.target[m]}
               /\ UNCHANGED file
               /\ Release(p, "idle")
    /\ UNCHANGED <<backup, next, journal, counters>>

\* Mutant: cleanup starts after the first member.
RecordStopsEarly(p) ==
    /\ guard = p /\ phase = "record"
    /\ \E m \in todo :
         /\ IsFirst(m, todo)
         /\ journal' = [journal EXCEPT !.applied = @ \cup {m}]
    /\ Continue("clean_next", JournalMembers)
    /\ UNCHANGED <<file, backup, next, counters>>

\* The journal is rewritten only for a member it does not list yet.
Record(p) ==
    /\ guard = p /\ phase = "record"
    /\ \E m \in todo :
         /\ IsFirst(m, todo)
         /\ journal' = [journal EXCEPT !.applied = @ \cup {m}]
         /\ IF todo = {m} THEN Continue("clean_next", JournalMembers)
                          ELSE Continue("apply", todo \ {m})
    /\ UNCHANGED <<file, backup, next, counters>>

\* Mutant: the sealed backup is restored, not the bytes inside it.
RestoreSealed(p) ==
    /\ guard = p /\ phase = "restore"
    /\ \E m \in todo :
         /\ IsFirst(m, todo)
         /\ file' = [file EXCEPT ![m] = backup[m]]
         /\ IF todo = {m} THEN Continue("clean_next", JournalMembers)
                          ELSE Continue("restore", todo \ {m})
    /\ UNCHANGED <<backup, next, journal, counters>>

\* Mutant: only the vault is restored.
RestoreStopsEarly(p) ==
    /\ guard = p /\ phase = "restore"
    /\ file' = [file EXCEPT !["vault"] = bytes["vault"]]
    /\ Continue("clean_next", JournalMembers)
    /\ UNCHANGED <<backup, next, journal, counters>>

Restore(p) ==
    /\ guard = p /\ phase = "restore"
    /\ \E m \in todo :
         /\ IsFirst(m, todo)
         /\ file' = [file EXCEPT ![m] = bytes[m]]
         /\ IF todo = {m} THEN Continue("clean_next", JournalMembers)
                          ELSE Continue("restore", todo \ {m})
    /\ UNCHANGED <<backup, next, journal, counters>>

\* Mutant: the journal goes before the backups.
CleanNextThenJournal(p) ==
    /\ guard = p /\ phase = "clean_next"
    /\ \E m \in todo :
         /\ next' = [next EXCEPT ![m] = Absent]
         /\ IF todo = {m} THEN Continue("clean_journal", {})
                          ELSE Continue("clean_next", todo \ {m})
    /\ UNCHANGED <<file, backup, journal, counters>>

\* _cleanup iterates over sets, in no particular order.
CleanNext(p) ==
    /\ guard = p /\ phase = "clean_next"
    /\ \E m \in todo :
         /\ next' = [next EXCEPT ![m] = Absent]
         /\ IF todo = {m} THEN Continue("clean_backup", JournalMembers)
                          ELSE Continue("clean_next", todo \ {m})
    /\ UNCHANGED <<file, backup, journal, counters>>

CleanBackup(p) ==
    /\ guard = p /\ phase = "clean_backup"
    /\ \E m \in todo :
         /\ backup' = [backup EXCEPT ![m] = Absent]
         /\ IF todo = {m} THEN Continue("clean_journal", {})
                          ELSE Continue("clean_backup", todo \ {m})
    /\ UNCHANGED <<file, next, journal, counters>>

CleanJournal(p) ==
    /\ guard = p /\ phase = "clean_journal"
    /\ journal' = NoJournal
    /\ Release(p, "idle")
    /\ UNCHANGED <<file, backup, next, counters>>

-----------------------------------------------------------------------------
(* What else happens on the vault path.                                    *)

\* What process p has read for a rewrite is gone.
Forget(p) == seen' = [seen EXCEPT ![p] = "plain"]

\* A process dies, or a file operation raises: the guard is released and
\* what was in memory is gone; what was written stays.
Stop(p) ==
    /\ pc[p] # "idle" /\ stops < MaxStops
    /\ stops' = stops + 1
    /\ IF guard = p THEN Release(p, "idle")
                    ELSE pc' = [pc EXCEPT ![p] = "idle"] /\ UNCHANGED memory
    /\ Forget(p)
    /\ UNCHANGED <<files, stages, attempts, writes>>

\* Mutant: writers take the lock and do not look for a journal.
GuardIgnoresJournal == guard = Nobody

GuardAdmitsWriter == guard = Nobody /\ journal = NoJournal

(***************************************************************************)
(* An ordinary write keeps an encrypted vault's profile, creates a missing *)
(* vault as plaintext, and protects a sidecar the way the vault in place   *)
(* is protected.                                                           *)
(***************************************************************************)
OrdinaryWrite(m) ==
    /\ GuardAdmitsWriter
    /\ writes < MaxWrites
    /\ writes' = writes + 1
    /\ file' = [file EXCEPT ![m] =
                  [text |-> writes + 1, seal |-> 0,
                   suite |-> IF file["vault"] = Absent THEN "plain"
                             ELSE file["vault"].suite]]
    /\ UNCHANGED <<backup, next, journal, memory, pc, seen, stages, attempts,
                   stops>>

(***************************************************************************)
(* load_store on a legacy store (the initial text: no revision yet, or     *)
(* keys of an older schema) reads it without the guard ...                 *)
(***************************************************************************)
LegacyVault == file["vault"] # Absent /\ file["vault"].text = 0

NormalizeRead(p) ==
    /\ pc[p] = "idle"
    /\ LegacyVault
    /\ pc' = [pc EXCEPT ![p] = "normalize"]
    /\ seen' = [seen EXCEPT ![p] = file["vault"].suite]
    /\ UNCHANGED <<files, memory, stages, attempts, writes, stops>>

(***************************************************************************)
(* ... and write_store, under it, compares revisions and writes with the   *)
(* profile the reader saw.  A missing vault counts as revision 0, which is *)
(* the revision of a legacy store; so does a vault the migration has       *)
(* encrypted again, since it keeps the store as it is.                     *)
(***************************************************************************)
NormalizeWrite(p) ==
    /\ pc[p] = "normalize"
    /\ GuardAdmitsWriter
    /\ file["vault"] = Absent \/ LegacyVault
    /\ writes < MaxWrites
    /\ writes' = writes + 1
    /\ file' = [file EXCEPT !["vault"] =
                  [text |-> writes + 1, seal |-> 0, suite |-> seen[p]]]
    /\ pc' = [pc EXCEPT ![p] = "idle"]
    /\ Forget(p)
    /\ UNCHANGED <<backup, next, journal, memory, stages, attempts, stops>>

\* The journal exists or the revision has moved on.
NormalizeRefused(p) ==
    /\ pc[p] = "normalize" /\ guard = Nobody
    /\ \/ journal # NoJournal
       \/ file["vault"] # Absent /\ ~LegacyVault
    /\ Refuse(p)
    /\ Forget(p)
    /\ UNCHANGED <<stages, attempts, writes, stops>>

\* privacy dispose removes vault, consent, audit in this order, and may
\* die or fail after any of them.
Dispose ==
    /\ GuardAdmitsWriter
    /\ \E last \in MemberNames :
         file' = [m \in MemberNames |->
                    IF Position[m] <= Position[last] THEN Absent ELSE file[m]]
    /\ UNCHANGED <<backup, next, journal, memory, pc, counters>>

-----------------------------------------------------------------------------

Start(p) == Upgrade(p) \/ Request(p)

Normalize(p) == NormalizeRead(p) \/ NormalizeWrite(p) \/ NormalizeRefused(p)

Enter(p) ==
    \/ Prepare(p) \/ PrepareRefused(p)
    \/ ResumePreparing(p) \/ ResumeReady(p) \/ ResumeRefused(p)
    \/ Rollback(p) \/ RollbackRefused(p)

Hold(p) ==
    \/ WriteBackup(p) \/ WriteNext(p) \/ WriteReady(p)
    \/ Inspect(p) \/ Apply(p) \/ Record(p) \/ Restore(p)
    \/ CleanNext(p) \/ CleanBackup(p) \/ CleanJournal(p)

Step(p) == Start(p) \/ Enter(p) \/ Hold(p) \/ Normalize(p) \/ Stop(p)

Next ==
    \/ \E p \in Procs : Step(p)
    \/ \E m \in MemberNames : OrdinaryWrite(m)
    \/ Dispose

Spec == Init /\ [][Next]_vars

-----------------------------------------------------------------------------
(* Properties.                                                             *)

(***************************************************************************)
(* When the journal goes away, either every member is byte for byte what   *)
(* it was or every member is version 2: the file-by-file apply, restore    *)
(* and cleanup never settle half way (kdf_migration.py:353-369, 398-405).  *)
(***************************************************************************)
SettlesAllOrNothing ==
    [][journal # NoJournal /\ journal' = NoJournal =>
          \/ file' = journal.original
          \/ \A m \in JournalMembers : HasSuite(m, "v2")']_vars

(***************************************************************************)
(* No copy of the old vault survives the journal: once the journal is      *)
(* gone no backup and no staging file is left, whatever crashed in         *)
(* between (README.md:329, the order of _cleanup and _write_staging).  The *)
(* hidden temporary file that a death inside write_private_bytes leaves    *)
(* is not one of them and not modelled (private_io.py:256).                *)
(***************************************************************************)
NothingLeftBehind ==
    journal = NoJournal => backup = NoFiles /\ next = NoFiles

(***************************************************************************)
(* Whenever an unfinished migration has no owner and neither resume nor    *)
(* rollback would be accepted, every member is byte for byte what it was   *)
(* before the migration: the refusal can strand the journal, never data.   *)
(***************************************************************************)
Unfinished == journal # NoJournal /\ guard = Nobody

CanResume ==
    IF journal.state = "preparing" THEN SourceUnchanged ELSE ResumeAccepted

StrandedOnlyWithOriginals ==
    Unfinished /\ ~CanResume /\ ~RollbackAccepted => file = journal.original

(***************************************************************************)
(* A migration that was interrupted can always be resumed or rolled back   *)
(* (SECURITY.md:34).                                                       *)
(***************************************************************************)
AlwaysRecoverable == Unfinished => CanResume \/ RollbackAccepted

(***************************************************************************)
(* The old bytes of every member are still reachable, in place or in a     *)
(* valid backup, until the version-2 bytes of ALL members are in place:    *)
(* no crash point of staging, apply, restore or cleanup loses them.        *)
(***************************************************************************)
OldBytesReachable ==
    journal # NoJournal /\ journal.state = "ready" /\ ~AllTarget =>
        \A m \in JournalMembers :
            file[m] = journal.original[m] \/ ValidBackup(m)

(***************************************************************************)
(* The migration implements the atomic switch of AtomicMigration: until    *)
(* the journal is removed a member counts as what it was.                  *)
(***************************************************************************)
Committed == IF journal = NoJournal THEN file ELSE journal.original

Atomic == INSTANCE AtomicMigration WITH
    Texts <- 0 .. MaxWrites,
    text <- [m \in MemberNames |->
                IF file[m] = Absent THEN Absent ELSE file[m].text],
    suite <- [m \in MemberNames |->
                IF Committed[m] = Absent THEN Absent ELSE Committed[m].suite],
    open <- journal # NoJournal

ImplementsAtomicMigration == Atomic!Spec
=============================================================================
