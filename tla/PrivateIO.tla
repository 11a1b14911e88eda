------------------------------ MODULE PrivateIO ------------------------------
(***************************************************************************)
(* How the commands lock and replace the private files                     *)
(* (agent_personal_vault/private_io.py and migration_guard.py, and the     *)
(* locking of vault.py, consent.py, audit.py, sidecar_store.py,            *)
(* privacy.py and kdf_migration.py).                                       *)
(*                                                                         *)
(* A command is a sequence of instructions: enter and leave the guard,     *)
(* take and release a lock, read, write or remove a file.  A write creates *)
(* a temporary file, flushes it, renames it over the file and flushes the  *)
(* directory; each of these steps may fail, the process may die at each of *)
(* them, and the machine may lose power.  The temporary file that a death  *)
(* or a failing cleanup leaves is read and removed by nothing in the       *)
(* program, and is left out.                                               *)
(***************************************************************************)
EXTENDS Integers, Sequences

CONSTANTS
    Procs,        \* processes and server threads
    None,         \* a free lock, no command, nothing read
    MaxCommands,  \* bound on the commands started
    MaxFaults     \* bound on failures, deaths and power losses

VARIABLES
    owner,      \* who holds each lock
    depth,      \* how often each process has entered the guard
    command,    \* what each process runs, and the
    at,         \*   instruction it has come to
    stage,      \* how far the write or removal there is
    seen,       \* the state of each file a process has read
    visible,    \* the state of each file
    possible,   \* the states it may be in after a power loss
    latest, confirmed,  \* history, as in AtomicFiles
    started, faults     \* history: commands and faults so far

process == <<command, at, stage, seen>>
disk == <<visible, possible>>
history == <<latest, confirmed>>
counts == <<started, faults>>
vars == <<owner, depth, process, disk, history, counts>>

Files == {"vault", "consent", "audit"}
Guard == "guard"
Locks == Files \cup {Guard}

ASSUME NoneAssumption == None \notin Procs
ASSUME BoundsAssumption == MaxCommands \in Nat /\ MaxFaults \in Nat

-----------------------------------------------------------------------------
(* The commands.                                                           *)

kdf_write_guard(body) ==
    <<<<"enter", Guard>>>> \o body \o <<<<"leave", Guard>>>>

exclusive_private_lock(name, body) ==
    <<<<"lock", name>>>> \o body \o <<<<"unlock", name>>>>

Read(f) == <<<<"read", f>>>>
Write(f) == <<<<"write", f>>>>
Remove(f) == <<<<"remove", f>>>>

\* Written again only if there was a file when it was read.
Update(f) == <<<<"update", f>>>>

\* Bytes prepared when f was last read are written, if there was a file.  (If
\* there was none, the code does not even take the locks.)
Install(f) == <<<<"install", f>>>>

\* Mutant: the vault lock alone guards the vault.
SaveOutsideGuard ==
    exclusive_private_lock("vault", Read("vault") \o Write("vault"))

write_store ==
    kdf_write_guard(
        exclusive_private_lock("vault", Read("vault") \o Write("vault")))

\* Sidecars are protected like the vault that is there when they are written.
write_sidecar_bytes(f) == kdf_write_guard(Read("vault") \o Write(f))
update_sidecar_bytes(f) == kdf_write_guard(Read("vault") \o Update(f))
commit_prepared_sidecar(f) == kdf_write_guard(Read("vault") \o Install(f))

_state_lock(body) == kdf_write_guard(exclusive_private_lock("consent", body))

_audit_state_lock(body) ==
    kdf_write_guard(exclusive_private_lock("audit", body))

write_audit_event ==
    _audit_state_lock(Read("audit") \o write_sidecar_bytes("audit"))

\* Mutant: a consent operation announces itself when it is done.
AnnounceAfterwards ==
    _state_lock(Read("consent") \o write_sidecar_bytes("consent")
                \o write_audit_event)
    \o write_audit_event \o write_audit_event

\* A consent operation announces itself while it holds the state lock.
change_consent ==
    _state_lock(Read("consent") \o write_audit_event
                \o write_sidecar_bytes("consent"))
    \o write_audit_event \o write_audit_event

change_vault ==
    write_audit_event \o write_store \o write_audit_event \o write_audit_event

\* The sidecars are read and encoded first and written later.
prepare_sidecars ==
    _state_lock(Read("consent")) \o _audit_state_lock(Read("audit"))

commit_sidecars ==
    _state_lock(commit_prepared_sidecar("consent"))
    \o _audit_state_lock(commit_prepared_sidecar("audit"))

\* encrypt, and decrypt.
encrypt ==
    write_audit_event \o prepare_sidecars \o write_store \o commit_sidecars
    \o write_audit_event \o write_audit_event

protect_sidecars ==
    write_audit_event \o prepare_sidecars \o commit_sidecars
    \o write_audit_event \o write_audit_event

prune_private_metadata ==
    _state_lock(Read("consent") \o update_sidecar_bytes("consent"))
    \o _audit_state_lock(Read("audit") \o update_sidecar_bytes("audit"))

\* Mutant: dispose takes the file locks without the guard.
DisposeOutsideGuard ==
    exclusive_private_lock("vault", exclusive_private_lock("consent",
        exclusive_private_lock("audit",
            Remove("vault") \o Remove("consent") \o Remove("audit"))))

dispose_private_state ==
    kdf_write_guard(
        exclusive_private_lock("vault", exclusive_private_lock("consent",
            exclusive_private_lock("audit",
                Remove("vault") \o Remove("consent") \o Remove("audit")))))

\* The migration reads the sidecars under their locks, and later compares
\* and replaces all files under the guard alone.  Its journal and its copies
\* are the subject of KdfMigration.
prepare_kdf_migration ==
    kdf_write_guard(Read("vault") \o _state_lock(Read("consent"))
                    \o _audit_state_lock(Read("audit")))

resume_kdf_migration ==
    kdf_write_guard(Read("vault") \o Update("vault")
                    \o Read("consent") \o Update("consent")
                    \o Read("audit") \o Update("audit"))

upgrade_kdf ==
    prepare_kdf_migration \o resume_kdf_migration \o write_audit_event

\* The commands that write.  load is load_store where it creates or
\* normalizes the vault; record is a refusal, a denial, a rejection or a
\* release, each of which only writes audit events, and what a failed encrypt
\* still records; resume_kdf is rollback too.  Reads whose result is not
\* written back are left out, the first, discarded preparation of encrypt and
\* protect-sidecars among them.
Plans == [load |-> write_store, record |-> write_audit_event,
          change_vault |-> change_vault, change_consent |-> change_consent,
          encrypt |-> encrypt, protect_sidecars |-> protect_sidecars,
          prune |-> prune_private_metadata,
          dispose |-> dispose_private_state, upgrade_kdf |-> upgrade_kdf,
          resume_kdf |-> resume_kdf_migration \o write_audit_event]

Commands == DOMAIN Plans

Instruction(p) ==
    IF command[p] = None THEN <<"none", None>>
    ELSE Plans[command[p]][at[p]]

Doing(p, op) == Instruction(p)[1] = op
Operand(p) == Instruction(p)[2]

-----------------------------------------------------------------------------

\* A state of a file: its number, whether there is a file, and whether its
\* bytes have been flushed.  Number -1 is a torn file.
State == [number : Int, there : BOOLEAN, flushed : BOOLEAN]
Unread == [f \in Files |-> None]

TypeOK ==
    /\ owner \in [Locks -> Procs \cup {None}]
    /\ depth \in [Procs -> Nat]
    /\ \A p \in Procs : depth[p] > 0 <=> owner[Guard] = p
    /\ command \in [Procs -> Commands \cup {None}]
    /\ \A p \in Procs :
          command[p] # None => at[p] \in DOMAIN Plans[command[p]]
    /\ stage \in [Procs -> {"none", "temporary", "flushed", "renamed"}]
    /\ seen \in [Procs -> [Files -> State \cup {None}]]
    /\ visible \in [Files -> State]
    /\ possible \in [Files -> SUBSET State]
    /\ latest \in [Files -> Nat] /\ confirmed \in [Files -> Nat]
    /\ started \in 0 .. MaxCommands /\ faults \in 0 .. MaxFaults

First == [number |-> 0, there |-> TRUE, flushed |-> TRUE]

Init ==
    /\ owner = [l \in Locks |-> None]
    /\ depth = [p \in Procs |-> 0]
    /\ command = [p \in Procs |-> None]
    /\ at = [p \in Procs |-> 1]
    /\ stage = [p \in Procs |-> "none"]
    /\ seen = [p \in Procs |-> Unread]
    /\ visible = [f \in Files |-> First]
    /\ possible = [f \in Files |-> {First}]
    /\ latest = [f \in Files |-> 0] /\ confirmed = [f \in Files |-> 0]
    /\ started = 0 /\ faults = 0

-----------------------------------------------------------------------------

Start(p) ==
    /\ command[p] = None /\ started < MaxCommands
    /\ \E c \in Commands : command' = [command EXCEPT ![p] = c]
    /\ started' = started + 1
    /\ UNCHANGED <<owner, depth, at, stage, seen, disk, history, faults>>

\* The process is through with its command.
Idle(p) ==
    /\ command' = [command EXCEPT ![p] = None]
    /\ at' = [at EXCEPT ![p] = 1]
    /\ seen' = [seen EXCEPT ![p] = Unread]

Continue(p) ==
    IF at[p] = Len(Plans[command[p]])
    THEN Idle(p)
    ELSE at' = [at EXCEPT ![p] = @ + 1] /\ UNCHANGED <<command, seen>>

Take(l, p) == owner' = [owner EXCEPT ![l] = p]

\* Mutant: the guard is locked again where it is already held.
NeverInside(p) == FALSE

\* _ACTIVE_GUARDS, in the context of each thread.
Inside(p) == depth[p] > 0

EnterGuard(p) ==
    /\ Doing(p, "enter")
    /\ IF Inside(p) THEN UNCHANGED owner
       ELSE owner[Guard] = None /\ Take(Guard, p)
    /\ depth' = [depth EXCEPT ![p] = @ + 1]
    /\ Continue(p)
    /\ UNCHANGED <<stage, disk, history, counts>>

\* Mutant: leaving a nested guard forgets the outer one.
LeaveAllGuards(p) ==
    /\ Doing(p, "leave")
    /\ IF depth[p] = 1 THEN Take(Guard, None) ELSE UNCHANGED owner
    /\ depth' = [depth EXCEPT ![p] = 0]
    /\ Continue(p)
    /\ UNCHANGED <<stage, disk, history, counts>>

LeaveGuard(p) ==
    /\ Doing(p, "leave")
    /\ IF depth[p] = 1 THEN Take(Guard, None) ELSE UNCHANGED owner
    /\ depth' = [depth EXCEPT ![p] = @ - 1]
    /\ Continue(p)
    /\ UNCHANGED <<stage, disk, history, counts>>

LockFile(p) ==
    /\ Doing(p, "lock")
    /\ owner[Operand(p)] = None
    /\ Take(Operand(p), p)
    /\ Continue(p)
    /\ UNCHANGED <<depth, stage, disk, history, counts>>

UnlockFile(p) ==
    /\ Doing(p, "unlock")
    /\ Take(Operand(p), None)
    /\ Continue(p)
    /\ UNCHANGED <<depth, stage, disk, history, counts>>

ReadFile(p) ==
    /\ Doing(p, "read")
    /\ at' = [at EXCEPT ![p] = @ + 1]
    /\ seen' = [seen EXCEPT ![p][Operand(p)] = visible[Operand(p)]]
    /\ UNCHANGED <<owner, depth, command, stage, disk, history, counts>>

-----------------------------------------------------------------------------
(* write_private_bytes and remove_private_file.                            *)

GoTo(p, s) == stage' = [stage EXCEPT ![p] = s]

\* The directory entry of f changes; only a flush of the directory makes the
\* change last.
Enter(f, there, flushed) ==
    LET new == [number |-> latest[f] + 1, there |-> there,
                flushed |-> flushed]
    IN /\ visible' = [visible EXCEPT ![f] = new]
       /\ possible' = [possible EXCEPT ![f] = @ \cup {new}]
       /\ latest' = [latest EXCEPT ![f] = @ + 1]

\* The file is written, or it is one that was there when it was read.
Writing(p) ==
    \/ Doing(p, "write")
    \/ /\ Doing(p, "update") \/ Doing(p, "install")
       /\ seen[p][Operand(p)].there

CreateTemporary(p) ==
    /\ Writing(p) /\ stage[p] = "none"
    /\ GoTo(p, "temporary")
    /\ UNCHANGED <<owner, depth, command, at, seen, disk, history, counts>>

FlushTemporary(p) ==
    /\ Writing(p) /\ stage[p] = "temporary"
    /\ GoTo(p, "flushed")
    /\ UNCHANGED <<owner, depth, command, at, seen, disk, history, counts>>

\* Mutant: the bytes are not flushed before the rename.
ReplaceUnflushed(p) ==
    /\ Writing(p) /\ stage[p] = "temporary"
    /\ Enter(Operand(p), TRUE, FALSE)
    /\ GoTo(p, "renamed")
    /\ UNCHANGED <<owner, depth, command, at, seen, confirmed, counts>>

Replace(p) ==
    /\ Writing(p) /\ stage[p] = "flushed"
    /\ Enter(Operand(p), TRUE, TRUE)
    /\ GoTo(p, "renamed")
    /\ UNCHANGED <<owner, depth, command, at, seen, confirmed, counts>>

Unlink(p) ==
    /\ Doing(p, "remove") /\ stage[p] = "none"
    /\ visible[Operand(p)].there
    /\ Enter(Operand(p), FALSE, TRUE)
    /\ GoTo(p, "renamed")
    /\ UNCHANGED <<owner, depth, command, at, seen, confirmed, counts>>

\* There is no file to remove, or was none to write again.
NothingThere(p) ==
    /\ stage[p] = "none"
    /\ \/ Doing(p, "remove") /\ ~visible[Operand(p)].there
       \/ /\ Doing(p, "update") \/ Doing(p, "install")
          /\ ~seen[p][Operand(p)].there
    /\ Continue(p)
    /\ UNCHANGED <<owner, depth, stage, disk, history, counts>>

\* The call returns; what the process wrote it knows.
Return(p) ==
    LET f == Operand(p)
    IN /\ GoTo(p, "none")
       /\ confirmed' = [confirmed EXCEPT ![f] = visible[f].number]
       /\ at' = [at EXCEPT ![p] = @ + 1]
       /\ UNCHANGED <<command, seen>>
       /\ UNCHANGED <<owner, depth, visible, latest, counts>>

\* Mutant: the directory is not flushed.
ReturnUnflushed(p) ==
    /\ stage[p] = "renamed"
    /\ Return(p)
    /\ UNCHANGED possible

FlushDirectory(p) ==
    /\ stage[p] = "renamed"
    /\ Return(p)
    /\ possible' = [f \in Files |-> {visible[f]}]

-----------------------------------------------------------------------------
(* Faults.                                                                 *)

ReleaseAll(p) ==
    /\ owner' = [l \in Locks |-> IF owner[l] = p THEN None ELSE owner[l]]
    /\ depth' = [depth EXCEPT ![p] = 0]
    /\ Idle(p)
    /\ GoTo(p, "none")

\* A step fails and the exception unwinds, or the process dies.
Fail(p) ==
    /\ command[p] # None /\ faults < MaxFaults
    /\ ReleaseAll(p)
    /\ faults' = faults + 1
    /\ UNCHANGED <<disk, history, started>>

Torn == [number |-> -1, there |-> TRUE, flushed |-> FALSE]

Surviving(s) == IF s.flushed THEN s ELSE Torn

PowerLoss ==
    /\ faults < MaxFaults
    /\ owner' = [l \in Locks |-> None]
    /\ depth' = [p \in Procs |-> 0]
    /\ command' = [p \in Procs |-> None]
    /\ at' = [p \in Procs |-> 1]
    /\ stage' = [p \in Procs |-> "none"]
    /\ seen' = [p \in Procs |-> Unread]
    /\ \E vault \in possible["vault"], consent \in possible["consent"],
          audit \in possible["audit"] :
          visible' = [f \in Files |->
              Surviving(CASE f = "vault" -> vault [] f = "consent" -> consent
                          [] f = "audit" -> audit)]
    /\ possible' = [f \in Files |-> {visible'[f]}]
    /\ faults' = faults + 1
    /\ UNCHANGED <<history, started>>

-----------------------------------------------------------------------------

Step(p) ==
    \/ EnterGuard(p) \/ LeaveGuard(p) \/ LockFile(p) \/ UnlockFile(p)
    \/ ReadFile(p) \/ CreateTemporary(p) \/ FlushTemporary(p) \/ Replace(p)
    \/ Unlink(p) \/ NothingThere(p) \/ FlushDirectory(p)

\* Every command has ended and no other is started.
Rest ==
    /\ started = MaxCommands
    /\ \A p \in Procs : command[p] = None
    /\ UNCHANGED vars

Next ==
    \/ \E p \in Procs : Start(p) \/ Step(p) \/ Fail(p)
    \/ PowerLoss \/ Rest

\* A process that can take a step does so in the end.
Spec == Init /\ [][Next]_vars /\ \A p \in Procs : WF_vars(Step(p))

-----------------------------------------------------------------------------
(* Properties.                                                             *)

(***************************************************************************)
(* Locks are only waited for outside the guard, and the guard is the only  *)
(* one: whoever holds a lock can go on, whatever order the commands nest   *)
(* the others in.                                                          *)
(***************************************************************************)
OnlyTheGuardIsWaitedFor ==
    \A p \in Procs :
        /\ Doing(p, "lock") => owner[Operand(p)] = None
        /\ Doing(p, "enter") /\ (\E l \in Locks : owner[l] = p) =>
              owner[Guard] = p /\ Inside(p)

(***************************************************************************)
(* What is written again was read before and has not changed since,        *)
(* although the migration takes no file lock for its writes.  The one      *)
(* exception are the sidecars that encrypt, decrypt and protect-sidecars   *)
(* prepared: they overwrite what came in the meantime, but are only        *)
(* installed beside the vault they have just been compared with.           *)
(***************************************************************************)
WritesBuildOnReads ==
    [][\A p \in Procs : stage[p] # "renamed" /\ stage'[p] = "renamed" =>
          /\ Doing(p, "write") \/ Doing(p, "update") =>
                seen[p][Operand(p)] = visible[Operand(p)]
          /\ Doing(p, "install") => seen[p]["vault"] = visible["vault"]]_vars

(***************************************************************************)
(* When a consent operation writes the records (pruning and migrations     *)
(* update them, encryption installs them), the audit file is one it has    *)
(* written, and no power loss brings back the one before: the change never *)
(* outlives its announcement.                                              *)
(***************************************************************************)
Announced(p) ==
    /\ seen[p]["audit"] \in State
    /\ \A s \in possible["audit"] : s.number > seen[p]["audit"].number

AnnouncedBeforeChanged ==
    [][\A p \in Procs :
          /\ Doing(p, "write") /\ Operand(p) = "consent"
          /\ stage[p] # "renamed" /\ stage'[p] = "renamed"
          => Announced(p)]_vars

(***************************************************************************)
(* Every command ends: no order of the locks, and no guard entered twice,  *)
(* blocks it for good.                                                     *)
(***************************************************************************)
CommandsEnd == \A p \in Procs : command[p] # None ~> command[p] = None

(***************************************************************************)
(* Each file changes at once or not at all, is never torn, and a power     *)
(* loss undoes no change whose call has returned.                          *)
(***************************************************************************)
Atomic ==
    INSTANCE AtomicFiles WITH value <- [f \in Files |-> visible[f].number]

ImplementsAtomicFiles == Atomic!Spec
=============================================================================
