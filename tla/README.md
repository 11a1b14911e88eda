# Verification of agent-personal-vault

TLA+ models of the vault's storage protocols, the TLC configurations that check
them on small instances, and theorems that TLAPS proves for every value of the
constants. Source paths are relative to `agent_personal_vault/`.

The program keeps one user's profile in a private JSON file, optionally
encrypted, with two sidecar files beside it: the consent state and the audit
log. Short-lived CLI processes, the threads of a localhost GUI server and an MCP
server share the three files. There is no daemon and no database: correctness
rests on file locks, atomic file replacement, a revision number, a journal and
the order in which each command does things.

## 1. Inventory

| part | state it keeps | operations | how it meets the others |
|---|---|---|---|
| vault store (`vault.py`) | the vault file: fields, revision, protection | `read_store`, `load_store` (creates a missing vault, rewrites a legacy one), `write_store` (lock, compare revisions, write) | every CLI data command and the GUI; the sidecars take their protection from it |
| KDF migration (`kdf_migration.py`, `migration_guard.py`) | journal, `.bak` and `.next` files, the global guard | prepare, resume, rollback, upgrade | every writer of the three files runs inside its guard and is refused while a journal exists |
| consent state (`consent.py`) | requests and grants | request, grant, approve, deny, consume, prune | records its operations in the audit log; gates `get` and `env` |
| audit log (`audit.py`) | a list of events, several per operation | begin, committed, delivered, rejected, outcome unknown, prune, summary, tail | written by all commands |
| sidecar storage (`sidecar_store.py`) | prepared bytes in memory | read, write, prepare, commit | both sidecars; commit compares the vault's profile |
| CLI (`cli.py`) | a store in memory between read and write | data, consent, privacy and encryption commands | everything above |
| GUI (`gui.py`) | server: one-time token, session, one acknowledgement; page: fields, revision, storage context, acknowledgement, autosave timer | token exchange, view, acknowledge, save, approve, deny | vault store, consent, audit from concurrent threads |
| retention and disposal (`privacy.py`) | none | prune, dispose | all three files under all locks |
| private I/O (`private_io.py`) | none | atomic replace, removal, exclusive lock | everything |
| MCP server (`mcp_server.py`) | its place in the input | raw-free context, consent requests | reads the vault, creates consent requests; its client over a pipe |
| envelopes (`crypto_store.py`) | none | encrypt, decrypt, profile | vault store, sidecars, migration |
| limits, schemas (`resource_limits.py`, `schemas.py`) | constants | checks | everything |
| release scripts, workflows | none | build-time checks | none at run time |

What is hard here, and what correct means:

* **Migration.** Several files move to another key derivation one after the
  other. A process may die between any two writes. Correct: all members move or
  none does, the old bytes are never lost, no copy of them outlives the journal,
  the interrupted migration can be finished.
* **Vault store.** State is read without a lock and edited by a human before it
  is written. Correct: no save overwrites what its user has not seen, and no
  save changes how data is protected behind its user's back.
* **Consent and audit.** Concurrent holders of one token, two people answering
  one request, deaths between the state write and the audit record, a clock
  that moves. Correct: tokens are one-time, decisions final, the log neither
  misses nor invents a release of a raw value.
* **Rewriting the sidecars.** `encrypt`, `decrypt` and `protect-sidecars` read
  both sidecars, replace the vault, then install what they prepared, and take
  the guard for each part separately.
* **Audit log.** One file of rows with a size limit that every command rewrites,
  pruned by age and perhaps damaged from outside. Correct: what is lost is
  reported, and the summary never calls a release finished or rejected that may
  have happened otherwise.
* **Files and locks.** Four locks, one of them entered again inside itself;
  temporary files, renames, power losses. Correct: every command ends, what is
  written back is what was read and changed (the sidecars that encryption
  prepares are the known exception), a consent change never outlives its
  announcement, a file is old or new and stays new.
* **GUI.** A page whose script has several requests under way while its user
  types, server threads that read the vault several times per request, one
  acknowledgement shared by all windows. Correct: "saved" is true, "unsaved" is
  acted upon, plaintext is only stored with consent, the token works once.
* **MCP server.** Lines of any size and kind, read in bounded chunks; a tool that
  may fail after it has changed the consent file. Correct: one answer per line,
  in order, one consent request per request.

`PROJECT.json` lists the hazards with their source lines, and the properties
that are aimed at each.

## 2. Modules

| module | models | status |
|---|---|---|
| `KdfMigration` | the migration, one step per file operation | checked, proved |
| `AtomicMigration` | what the migration promises: a sealed, atomic switch | implemented by `KdfMigration`, proved |
| `KdfMigrationTampered` | the migration when its files are damaged between commands | checked |
| `VaultStore` | load, edit, compare-and-swap, browser page | checked, proved |
| `Consent` | consent state and audit phases | checked, proved |
| `SidecarRewrite` | `Consent` composed with the rewriting commands and the vault's profile | checked |
| `AuditLog` | `Consent` with the audit file as rows: limit, pruning, damage, summary | checked, proved |
| `PrivateIO` | the locks and file operations of the commands, one system call per step | checked, proved |
| `AtomicFiles` | what file writes and removals promise | implemented by `PrivateIO`, proved |
| `GuiSession` | windows, the script of the page, the server's threads | checked, proved |
| `McpServer` | the reading loop, answers and consent requests | checked, proved |
| `KdfMigrationProofs`, `VaultStoreProofs`, `ConsentProofs`, `ConsentRecordsProofs`, `AuditLogProofs`, `PrivateIOProofs`, `GuiSessionProofs`, `McpServerProofs` | theorems (section 4) | |
| `MC...` | TLC instances | |

Definitions named `...` after the comment "Mutant" are wrong on purpose: each is
a plausible slip in the definition that follows it, and shows that a property
notices it. No specification uses them.

### KdfMigration

`file`, `backup`, `next` and `journal` are what is on disk; `guard` is
`kdf_write_guard`; `phase`, `todo` and `bytes` are the program counter and the
local variables of the one process that owns the guard; `pc` is the command each
process wants. File contents are a record of the plaintext version, the profile
and the encryption that produced them (`seal`), since every encryption draws a
fresh nonce; equality stands for equality of SHA-256.

`Upgrade` is `upgrade_kdf`, which looks at the journal and the profile without
the guard. `Prepare` is `prepare_kdf_migration` up to the preparing journal;
`WriteBackup`, `WriteNext`, `WriteReady` are `_write_staging`;
`ResumePreparing`, `ResumeReady`, `Inspect`, `Apply`, `Record` are
`resume_kdf_migration`; `Rollback`, `Restore` are `rollback_kdf_migration`;
`CleanNext`, `CleanBackup`, `CleanJournal` are `_cleanup`, which iterates over a
set in no particular order. `Stop` is a death or a failed file operation between
any two of them. `OrdinaryWrite`, `NormalizeRead`/`NormalizeWrite` and `Dispose`
are the writers outside. An ordinary write runs wholly inside the guard and is
one step; `load_store` on a legacy vault reads before it owns the guard and is
two. A single file replacement is atomic (`write_private_bytes`).

`AtomicMigration` has no backups, no journal and no owner: a migration opens,
nothing can be written, and it closes with every member on version 2 or none
changed. Its `Rewrite` lets the vault change to any protection; it is there for
the normalizing reader, which writes the vault back under the profile it once
read.

### VaultStore

`store[p]` is the store a process holds in memory, `page` what the browser
shows, `request[p]` the save a server thread handles. `write_store` is one step:
it holds the vault's lock from the comparison to the write. Revision 0 is a
missing vault, as in `write_store`. `legacy` marks a store that `load_store`
rewrites. `life` counts disposals and lets properties say "the same vault";
nothing in the code corresponds to it.

### Consent

`requests` and `grants` are the consent file, `log` the audit file. Each
operation is `Announce` (lock, read, decide, record `prepared`), `write_state`,
`committed`, and then for a consumption `Output`, and `delivered`. A process may
`Stop` between any two. `lock` is the guard that both the state lock and the
audit lock are taken inside; a record made while the state lock is held is made
by its owner. `handed` are the tokens whose command has returned; only those can
be presented. `born`, `origin`, `spent`, `released` and `forgotten` are history.
A scope stands for action, key and purpose binding. Ids are random in the code:
a token is drawn once, a request id is drawn again only when nothing refers to
its former request. The closing event of a release carries the action `get` or
`env_bulk_export` in the code and that of its operation here.

### SidecarRewrite

Extends `Consent` by the vault's revision and profile, by the protection of both
sidecars (`form`), and by rewriters that run `encrypt`, `decrypt` or
`protect-sidecars` one guarded part at a time. Each consent or audit write of
`Consent` also sets `form` to the profile in place, as `write_sidecar_bytes`
does. Every process is assumed to know the passphrase. The first, discarded
preparation of both sidecars and the rejection of weak passphrases change no
file and are left out. A KDF migration is one step here.

### AuditLog

Extends `Consent`. Its `log` is the set of events that were recorded; `rows` is
the file: an event and whether its line can be parsed. `write_audit_event`
appends a row below the limit or fails, and then so does the step of the
operation that called it; the process that has failed can only `Stop`. `cut`
says that the last row has lost its newline, so that the next row is glued to
it. `Prune` drops parsed rows before the cutoff and keeps the others in order:
`Place(i)` is the row that comes i-th among those kept. A reader's records are
the numbers of the rows it can parse. `Damage` is outside the program. `OperationState`, `Incomplete` and `OutcomeUnknown` are
`audit_summary`: the last readable event of an operation decides.

### PrivateIO and AtomicFiles

`Plans` gives the commands that write as sequences of instructions, composed by
operators with the names of the functions that nest the locks: saving and
loading a vault, changing consent, a lone audit record, `encrypt` (and
`decrypt`, which locks and writes alike), `protect-sidecars`, pruning, disposal,
and the KDF migration. Reads whose result is not written back are left out.
`owner` are the locks, `depth` is `_ACTIVE_GUARDS` of each process. A file is
replaced by `write`, by `update` (only if it was there when it was read) or by
`install` (what was prepared when it was read, beside the vault as it is now:
`commit_prepared_sidecar`). Each goes through `CreateTemporary`,
`FlushTemporary`, `Replace` and `FlushDirectory`, a removal through `Unlink` and
`FlushDirectory`. `visible` is the directory as processes see it, `possible` what
a power loss may leave. `Fail` is an exception that unwinds, or a death: both
drop the locks of the process and forget its command. What then becomes of its
temporary file is left out: the cleanup may fail as well (`private_io.py:275-278`),
and nothing in the program ever looks at such a file. Every command enters the
guard before it takes a file lock, so it is only at the guard that it ever waits.

`AtomicFiles` numbers the states of each file: a change happens at once, a
returned call confirms it, a power loss may undo what is not confirmed. The
directory is taken to be there; its own creation is not flushed to its parent
(`private_io.py:112`) and is outside.

### GuiSession

`page[w]` holds the variables of the script in window `w`, `request[w][s]` a
request under way, which is `sent`, `handling` (between two reads of the vault on
its server thread) or `answered`. Each `Take...` is what the script does between
one `await` and the next, so user input and other requests come in between. A
refusal by the server, an exception there and a broken connection are all
`TakeFailure`, since the script treats them alike. `versions` is the vault at
each revision; only `WriteSave` and the CLI (`Elsewhere`) append to it.
`storage_context` is a keyed hash of path and protection, and the path is fixed.
The whole form is one text.

### McpServer

`sent` are the lines of the client, of which `done` are finished and `left`
counts what is unread of the next one. `Kinds` are the ways a line can be
answered; a tool may fail with any of `Failures`, among them the "unknown tool"
that a `KeyError` turns into, as when the vault has no `schema`
(`mcp_server.py:139`, `207`). `Request` is the part of `create_consent_request`
up to the consent file, `Requested` what follows it and may still fail. `Kill`
ends a server; `Start` is the next one, with the requests of the former still
there.

## 3. Runs

| run | bounds | asks |
|---|---|---|
| `KdfMigration` | 2 processes, 1 prepared migration, 1 ordinary write, 2 stops | the safety properties, the refinement, and that repeating `upgrade-kdf` completes |
| `KdfMigrationTampered` | 2 processes, 1 migration, 1 write, 1 stop, 1 outside change | damaged files |
| `VaultStore` | 2 processes and a page, bounded writes and disposals | lost updates, protection, loads |
| `Consent` | 2 processes, 1 request, 2 tokens, 2 records, 3 operations, clock 0..1, retentions 0 | one-time use, final decisions, limit, accounting |
| `AuditLog` | 2 processes, 1 request, 1 token, 2 records, 2 operations, 5 rows, 1 damage, clock 0..2, retentions 0 | the file against what was recorded and released; pruning against answers, use and delivery |
| `SidecarRewrite` | 1 process, 1 rewriter, 2 operations, revision up to 2 plus the rewriter's own, clock 0..1 | protection of sidecars |
| `PrivateIO` | 2 processes, 2 commands, 2 faults | lock order, what writes build on, announcements, atomic and lasting writes, termination |
| `GuiSession` | 2 windows, 2 requests under way, 2 acts of the user, 1 change by the CLI or tick of the clock | the token, what the page says, plaintext |
| `McpServer` | 2 servers, 2 lines each, every kind and the sizes around one and two chunks | answers, requests, termination |
| `KdfMigrationStranded`, `SidecarRewriteReuse`, `AuditLogDamaged` | as above, smaller | violated, see below |

What the properties say:

* `SettlesAllOrNothing`: when the journal goes, all members are as they were or
  all are version 2. `OldBytesReachable`: until all new bytes are in place, the
  old ones are in place or in a valid backup. `NothingLeftBehind`: without a
  journal no backup or staging file is left. `StrandedOnlyWithOriginals`: if
  neither resume nor rollback is possible, nothing has been changed.
  `ImplementsAtomicMigration`: the refinement.
* `UpgradeCompletes`: an unfinished migration leads to a finished one.
* `InstallsOnlyKnownBytes`, `BackupsOutliveDoubt`: damaged files are neither
  installed nor allowed to cost the recovery copies.
* `SavesBuildOnWhatWasShown`, `SavesKeepShownProtection`,
  `LoadsOverwriteNothing`: no lost update, no silent change of protection, no
  harm from the writes hidden in `load_store`.
* `SpentOnce`, `DecisionsAreFinal`, `RecordsWithinLimit`, `ReleasesAreAccounted`:
  tokens are one-time, a request has one answer, the file never holds more than
  it may, and a released value is on record. `UsedTokensAreTraceable`: the
  delivery and the use of a token that is marked used are on record.
  `LiveRecordsStay`: no step but a disposal takes a record that can still be
  answered or used.
* `SidecarsFollowVault`: bytes prepared for one profile are never written beside
  a vault of another. `PreparedSidecarsAreProtected`: what a rewriting command
  found ends up protected like the vault.
* `LossIsVisible`: with rows damaged, every recorded event is read back or the
  reader is warned. A file that lost whole rows looks like a shorter one, which
  no reader of it can notice.
  `SummaryCoversReleases`: a release counts as delivered or unknown.
  `FinishedStaysFinished`: pruning does not turn a finished operation into an
  incomplete one.
* `OnlyTheGuardIsWaitedFor`: there is no circular wait, because there is only one
  lock to wait for. `CommandsEnd`: every command ends. `WritesBuildOnReads`:
  a file is only written back if it has not changed since it was read, and
  prepared sidecars are only installed beside a vault that has not; what was
  written to a sidecar between its preparation and its installation is lost
  (`SidecarRewriteReuse`). `AnnouncedBeforeChanged`: no power loss keeps a consent
  change and loses the event that announces it.
  `ImplementsAtomicFiles`: the refinement.
* `OneTimeToken`, `PlaintextSavesWereConfirmed`; `SavedMeansStored`: a page that
  says "saved" shows the revision it will save over, and what was typed last is
  in the vault; `EditsAreNotForgotten`: a page that says "unsaved" or "saving" is
  about to do something.
* `AnswersFollowLines`, `RequestsFollowLines`, `LinesAreFinished`: see section 1.

**Bounds.** Two processes suffice for every race in the code: all writes are
serialized by one guard, so a race is one process acting between another's read
and its write. Two stops reach a crash in the recovery from a crash. One
migration is enough since a second can only follow a first that was rolled back
without trace (`NothingLeftBehind`); the proofs hold for any number. Two tokens
and one request reach a second answer to the request; three operations reach
issue, use and second use. A record limit of two is reached and met by an
approval. The clock of `AuditLog` goes past issue, expiry and retention; that
of `Consent` goes far enough to prune what has been used or answered, and what
was recorded of it. The five rows of the audit file hold one operation and most
of a second, so that the limit is met at every phase of the second. Retentions
are zero ticks, so that a record is pruned as soon as its end has passed; the
code demands at least one day, which is far more than an operation takes, so
this is the harder case. The composed run has one consent process and one
rewriter: its two actors are the race. Two commands in `PrivateIO` are any pair
of those in `Plans`, in sequence or at once; two faults reach a power loss
after a failure. In `GuiSession` two requests under way are two asynchronous
functions of one script, or one of each of two windows, which share the cookie;
two acts are an edit and a save, an edit while a save is under way, or an edit
in each window. In `McpServer` a line of two chunks and one byte needs draining
twice, and a second line shows whether the first was left clean.

**Deadlock** is checked in every run except `GuiSession` and `McpServer`, whose
users and clients may stop.

**Fairness.** In `KdfMigration`, a command that was started runs (weak fairness:
a scheduled process continues, and an `flock` is granted when free), and while a
migration is unfinished a user comes back to `upgrade-kdf` again and again
between other commands (strong fairness: the attempt need not be possible
continuously, since a command may be running). Liveness is claimed of behaviours
in which nobody rolls back; crashes are finitely many. In `PrivateIO`, a process
that can go on does (weak fairness of each process's step). In `McpServer`, the
loop runs while it has input (weak fairness of its steps). None is assumed of
users, clients or the clock, and nothing is claimed of the GUI.

**Runs that fail.** Three configurations check a sentence of the repository's
documentation that the code does not keep. `PROJECT.json` quotes each sentence.

* `KdfMigrationStranded`: a rollback that stops between removing a staging file
  or backup and removing the journal leaves a journal that rollback refuses
  (no backup) and resume refuses (no staging file). Writers stay blocked; the
  data is whole (`StrandedOnlyWithOriginals`).
* `SidecarRewriteReuse`: a token consumed between the preparation and the commit
  of a sidecar rewrite is unused again. `README.md` tells users to stop GUI and
  MCP processes first; nothing enforces it. Audit events recorded in that window
  are overwritten by the same step.
* `AuditLogDamaged`: an event recorded behind a row without a newline becomes
  part of the broken row. The warning covers it (`LossIsVisible`).

**Other deviations** that the models admit and that shape the properties:

* After `dispose` and `init` the revisions of the vault start over, and a save
  from before the disposal is accepted (`vault.py:445`); the properties of
  `VaultStore` are about one life of the vault.
* `encrypt` and `decrypt` record `rejected` when a sidecar commit is refused after
  the vault has been replaced (`cli.py:366`).
* A write that fails and whose cleanup fails too, or a death before the rename,
  leaves a hidden temporary file with the new bytes (`private_io.py:269-279`);
  `NothingLeftBehind` is about the backups and staging files that have a name.
* A tool whose vault lacks a `schema` is answered as if there were no such tool
  (`mcp_server.py:207-208`).
* A sidecar that comes into being after it was found missing stays plaintext
  beside an encrypted vault, and `encrypt` succeeds (`consent.py:297`);
  `PreparedSidecarsAreProtected` is about the sidecars that were found.
* What the user types while a request is under way is overwritten by the answer
  to it (`gui.py:278-287`); `SavedMeansStored` excepts it. Nothing is stored in
  its place: the page shows what the vault holds.
* An acknowledgement of plaintext outlives an encryption and decryption by the CLI
  that no request falls between, since the storage context is the same again
  (`gui.py:387-390`).
* A reader that normalizes a legacy vault may write it back under the version-1
  profile after a migration, since `write_store` prefers the profile the reader
  saw and the migration keeps the revision (`AtomicMigration.Rewrite`).

## 4. Proofs

All theorems hold for any finite or infinite sets and any bounds that satisfy
the named assumptions of the modules (the markers such as `Absent` are not
values of the types they are added to, the bounds are natural numbers).

* `KdfMigrationProofs`. The properties are not inductive by themselves: that
  rollback restores the right bytes depends on what was in memory, that on the
  phase, that on what the journal says. The inductive invariant therefore says,
  for each phase of the guard's owner, what is on disk and in memory, and for a
  guard without owner, what a journal of either state implies about files,
  backups and staging files. `Invariance` proves it, one step per action; the
  theorems for `TypeOK`, `SettlesAllOrNothing`, `NothingLeftBehind`,
  `OldBytesReachable`, `StrandedOnlyWithOriginals` and the refinement follow.
* `VaultStoreProofs`. The heart is that within one life two readers who hold the
  same revision hold the same fields and protection: the invariant relates
  every store, request and page to the vault by comparing revisions, up to the
  disposal count.
* `ConsentProofs`. The state lock makes what its owner holds in memory differ
  from the file in its own operation only (`WritersInv`); a token that was spent
  is marked used or gone and never comes back (`SpentInv`); a token's origin is
  approved and answers no other token (`OriginInv`); what is released is
  announced and committed (`AuditInv`).

* `ConsentRecordsProofs`. `RecordsWithinLimit`, `UsedTokensAreTraceable` and
  `LiveRecordsStay` are about the file after a write, but what makes them true is
  decided before `prepared` is recorded. `RInv` therefore says of a process that
  is about to write what its job does to the file in place (`Change`): it fits,
  it takes away no live record, and each grant in it is new or was there, unused
  unless this job uses it up. Three facts carry it from the decision to the
  write: the process holds the lock; time ends records and revives none; the log
  forgets operations only as a whole (`Remembers`). `RInv` is inductive together
  with the `IInv` of `ConsentProofs`.
* `AuditLogProofs`. Every step of the audit file's specification is a step or a
  stutter of `Consent` (`FileServesConsent`), so everything above holds with the
  file behind it. The invariant of the file (`FileInv`) says that rows and
  recorded events agree while nothing is damaged (`RowsInv`), that rows stand in
  the order of time (`TimeInv`), and that a process is never in an operation that
  has been recorded as ended (`OpsInv`). `LossIsVisible` needs the first;
  `SummaryCoversReleases` the first and the third: a release was announced, so
  its operation has a last row, and that row is no rejection.
  `FinishedStaysFinished` needs the third, since nothing is recorded of a finished
  operation, and the second for pruning: a cutoff that leaves any event of an
  operation leaves its last. Rows are kept in
  order by counting (`Ranks`: the numbers of a finite set of rows, each with how
  many precede it, are an order-preserving bijection).
* `PrivateIOProofs`. The commands are sequences put together by operators, so
  there is a rule for each operator: what a sequence may rely on where it begins
  (`Context`: the depth of the guard, the file locks held, the files that are as
  they were read, whether the operation is announced) and what it leaves. `CommandsAreBracketed` derives from the
  rules that every command closes its brackets, touches files in the guard only,
  writes back none that may have changed since it read it, installs a sidecar
  only beside a vault it has just read, and changes the consent file only after
  its announcement. The invariant then
  says that the state of each process is the one its place in its command calls
  for (`ControlInv`) and that a power loss finds a whole state of each file, no
  older than the last one confirmed (`DiskInv`). `OnlyTheGuardIsWaitedFor`,
  `WritesBuildOnReads`, `AnnouncedBeforeChanged` and the refinement of
  `AtomicFiles` follow; the announcement lasts because every flush of the
  directory leaves no older state of the audit file possible. That no two commands wait for each other thus holds for any number of
  processes.
* `GuiSessionProofs`. The token is safe because whoever is between the test and
  the mark holds the lock (`SessionInv`). Plaintext is safe because each
  acknowledgement, in the page, under way or noted with a save, goes back to the
  user of its own window (`RequestsOK`). `SavedMeansStored` rests on
  `ShownOK`: the form is clean, or what will make it so is already under way.
  `EditsAreNotForgotten` is inductive with it. What was typed last is stored, or
  it is in the form and every save under way carries it (`TypedOK`). Windows
  meet only in the vault, whose versions stay in place, and in users' consent,
  which is only ever given; so a step is proved for its own window, and one lemma
  serves the others.
* `McpServerProofs`. Answers and requests follow the lines because at each step
  the server knows how much of its line it has read (`LineInv`), and because a
  request in the file belongs to a line that is finished or to the one at hand,
  also when the server is killed between request and answer (`Belongs`). The
  lines that call for an answer are counted rather than filtered.

TLC finds the invariants of these five true on the instances of their components'
runs (that of `PrivateIO` with `Path` computed along each plan, since TLC cannot
choose it).

Model-checked only:

* `UpgradeCompletes`, `CommandsEnd`, `LinesAreFinished`: liveness, which is out of
  the prover's reach. Of `CommandsEnd`, `OnlyTheGuardIsWaitedFor` is the part
  that is proved.
* `InstallsOnlyKnownBytes`, `BackupsOutliveDoubt` of `KdfMigrationTampered`, and
  `SidecarsFollowVault`, `PreparedSidecarsAreProtected` of `SidecarRewrite`: not
  attempted yet. The first two need the migration's invariant restated for files
  that may change at any time, the last two an invariant over two sidecars and
  the vault at each part of a rewriting command.
* What a recursive definition or a fold computes: induction over data is out of
  reach. The models that are proved about use counting, sets and `\o` instead.

## 5. Not modelled

Ciphers, key derivation and envelope validation (library calls and format
checks: a wrong key or damaged envelope is a refusal); redaction of free text;
masking, schema tables, planning hints, derived fields and normalization of field
values (pure text functions of one call); the depth and node limits of JSON; HTML
and what the read-only listings contain; the warning before a window is closed;
permission and path checks, which hold against another user of the machine rather
than against an order of events; `append_private_line`, which only a test
calls; `validate_and_consume_consent`, which only tests call too; what becomes of
temporary files after a failure; argument parsing; legacy consent records; Windows locking; release
scripts, schemas and workflows, which keep no state while the program runs.

## 6. Plan

The order followed so far: the migration, the vault store, consent, the sidecar
rewrite, then the audit file, locks and file operations, the GUI and the MCP
server; then the proofs of these. What is left, by importance:

1. Proofs for `SidecarRewrite` and `KdfMigrationTampered`, whose invariants have
   to relate two files each.
2. Pure functions: idempotence of field normalization, planning hints, JSON
   resource limits, against reference definitions.
3. An abstract one-time-token register implemented by `Consent`.
