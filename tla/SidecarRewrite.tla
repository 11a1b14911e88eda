--------------------------- MODULE SidecarRewrite ---------------------------
(***************************************************************************)
(* encrypt, decrypt and protect-sidecars beside running consent traffic    *)
(* (agent_personal_vault/cli.py over sidecar_store.py, consent.py,         *)
(* audit.py and vault.py).                                                 *)
(*                                                                         *)
(* These commands prepare the new bytes of both sidecars from what they    *)
(* read, replace the vault, and then install the prepared bytes; each part *)
(* takes the guard by itself, and whatever the other processes of Consent  *)
(* do in between is not looked at again.                                   *)
(***************************************************************************)
EXTENDS Consent

CONSTANTS
    Rewriters,    \* CLI processes running one of the three commands
    MaxRevision   \* bound on the vault's revision

VARIABLES
    vault,     \* the revision and the encryption profile of the vault
    form,      \* how the consent and audit files in place are protected
    rewrite    \* the command of each rewriter

allVars == <<vars, vault, form, rewrite>>

Profiles == {"plain", "v1", "v2"}
Sidecars == {"consent", "audit"}
Steps == {"consent", "audit", "vault", "install_consent", "install_audit",
          "committed", "delivered"}
\* written and disposed are history: this command has replaced the vault, a
\* disposal has come in between.
Rewrite == [command : {"encrypt", "decrypt", "protect_sidecars"},
            step : Steps, revision : Nat, op : Nat, scope : Scopes,
            written : BOOLEAN, disposed : BOOLEAN,
            profile : [Sidecars -> Profiles \cup {Absent}],
            requests : Requests, grants : Grants, log : SUBSET Event]

RewriteTypeOK ==
    /\ TypeOK
    /\ vault \in [revision : Nat, profile : Profiles] \cup {Absent}
    /\ form \in [Sidecars -> Profiles \cup {Absent}]
    /\ rewrite \in [Rewriters -> Rewrite \cup {None}]

RewriteInit ==
    /\ Init
    /\ vault \in [revision : {1}, profile : {"plain", "v1"}]
    /\ form = [s \in Sidecars |-> Absent]
    /\ rewrite = [p \in Rewriters |-> None]

-----------------------------------------------------------------------------
(* What surrounds the rewrite.                                             *)

\* A missing vault leaves the sidecars in plaintext.
CurrentProfile == IF vault = Absent THEN "plain" ELSE vault.profile

current_revision == IF vault = Absent THEN 0 ELSE vault.revision

\* Steps of Consent: whoever writes a sidecar protects it like the vault.
Writes(sidecar) == form' = [form EXCEPT ![sidecar] = CurrentProfile]

ConsentStep(p) ==
    /\ \/ /\ write_state(p)
          /\ IF job[p].action = "prune" /\ form["consent"] = Absent
             THEN UNCHANGED form ELSE Writes("consent")
       \/ /\ \/ create_consent_request(p) \/ issue_consent(p) \/ approve(p)
             \/ deny(p) \/ prepare_consent_consumption(p)
             \/ ConsumptionRefused(p) \/ committed(p) \/ delivered(p)
             \/ (Output(p) /\ log' # log)
          /\ Writes("audit")
       \/ /\ prune_audit_events(p)
          /\ IF form["audit"] = Absent THEN UNCHANGED form ELSE Writes("audit")
       \/ /\ prune_consent_records(p) \/ Stop(p) \/ (Output(p) /\ log' = log)
          /\ UNCHANGED form
    /\ UNCHANGED <<vault, rewrite>>

\* set, unset, init and browser saves.
OrdinaryVaultWrite ==
    /\ StateLockFree
    /\ current_revision < MaxRevision
    /\ vault' = [revision |-> current_revision + 1, profile |-> CurrentProfile]
    /\ UNCHANGED <<vars, form, rewrite>>

\* A settled KDF migration keeps revision and contents.
UpgradeKdf ==
    /\ StateLockFree
    /\ CurrentProfile = "v1"
    /\ vault' = [vault EXCEPT !.profile = "v2"]
    /\ form' = [s \in Sidecars |-> IF form[s] = Absent THEN Absent ELSE "v2"]
    /\ UNCHANGED <<vars, rewrite>>

\* privacy dispose, which may die after the vault or the consent file.
Dispose ==
    /\ vault # Absent
    /\ vault' = Absent
    /\ \/ /\ StateLockFree
          /\ UNCHANGED <<vars, form>>
       \/ /\ dispose_private_state
          /\ form' = [consent |-> Absent,
                      audit |-> IF log' = {} THEN Absent ELSE form["audit"]]
    /\ rewrite' = [p \in Rewriters |->
                     IF rewrite[p] = None THEN None
                     ELSE [rewrite[p] EXCEPT !.disposed = TRUE]]

-----------------------------------------------------------------------------
(* The rewriting commands.                                                 *)

Rewriting(p, step) ==
    rewrite[p] # None /\ rewrite[p].step = step /\ StateLockFree

GoTo(p, step) == rewrite' = [rewrite EXCEPT ![p].step = step]

Record(p, phase) ==
    /\ log' = log \cup
         {[op |-> rewrite[p].op, action |-> rewrite[p].command,
           scope |-> rewrite[p].scope, phase |-> phase, at |-> now]}
    /\ Writes("audit")
    /\ UNCHANGED <<state, process, now, ops, handed, history>>

NoRequests == [r \in RequestIds |-> Absent]
NoGrants == [t \in TokenIds |-> Absent]

\* Load the vault and announce the command.
Begin(p) ==
    /\ rewrite[p] = None /\ StateLockFree
    /\ ops < MaxOps /\ ops' = ops + 1
    /\ vault # Absent
    /\ \E command \in {"encrypt", "decrypt", "protect_sidecars"},
          scope \in Scopes :
         /\ (command = "encrypt") <=> (CurrentProfile = "plain")
         /\ log' = log \cup {[op |-> ops + 1, action |-> command,
                              scope |-> scope, phase |-> "prepared",
                              at |-> now]}
         /\ rewrite' = [rewrite EXCEPT ![p] =
              [command |-> command, step |-> "consent", scope |-> scope,
               revision |-> vault.revision, op |-> ops + 1,
               written |-> FALSE, disposed |-> FALSE,
               profile |-> [s \in Sidecars |-> Absent],
               requests |-> NoRequests, grants |-> NoGrants, log |-> {}]]
    /\ Writes("audit")
    /\ UNCHANGED <<state, process, now, handed, history, vault>>

\* prepare_sidecar_write: an encrypted vault's profile, or the latest one.
TargetProfile(p) ==
    IF rewrite[p].command = "decrypt" THEN "plain"
    ELSE IF CurrentProfile = "plain" THEN "v2" ELSE CurrentProfile

\* A file that does not exist is not prepared, nor installed later.
PrepareSidecar(sidecar, p) ==
    IF form[sidecar] = Absent THEN Absent ELSE TargetProfile(p)

PrepareConsent(p) ==
    /\ Rewriting(p, "consent")
    /\ rewrite' = [rewrite EXCEPT ![p].step = "audit",
                     ![p].profile["consent"] = PrepareSidecar("consent", p),
                     ![p].requests = requests, ![p].grants = grants]
    /\ UNCHANGED <<vars, vault, form>>

PrepareAudit(p) ==
    /\ Rewriting(p, "audit")
    /\ rewrite' = [rewrite EXCEPT ![p].step = "vault",
                     ![p].profile["audit"] = PrepareSidecar("audit", p),
                     ![p].log = log]
    /\ UNCHANGED <<vars, vault, form>>

\* encrypt and decrypt record a ValueError as a rejection.
Fail(p) ==
    /\ rewrite' = [rewrite EXCEPT ![p] = None]
    /\ IF rewrite[p].command = "protect_sidecars"
       THEN UNCHANGED <<vars, form>>
       ELSE Record(p, "rejected")
    /\ UNCHANGED <<vault>>

\* protect-sidecars leaves the vault alone.
ReplaceVault(p) ==
    /\ Rewriting(p, "vault")
    /\ \/ /\ rewrite[p].command = "protect_sidecars"
          /\ GoTo(p, "install_consent")
          /\ UNCHANGED vault
       \/ /\ rewrite[p].command # "protect_sidecars"
          /\ rewrite[p].revision = current_revision
          /\ vault' = [revision |-> current_revision + 1,
                       profile |-> TargetProfile(p)]
          /\ rewrite' = [rewrite EXCEPT ![p].step = "install_consent",
                           ![p].revision = current_revision + 1,
                           ![p].written = TRUE]
    /\ UNCHANGED <<vars, form>>

ReplaceVaultConflict(p) ==
    /\ Rewriting(p, "vault")
    /\ rewrite[p].command # "protect_sidecars"
    /\ rewrite[p].revision # current_revision
    /\ Fail(p)

\* Mutant: the profile prepared for is not compared.
ProfileUnchecked(p, sidecar) == TRUE

\* commit_prepared_sidecar: the vault must have the profile prepared for.
ProfileHolds(p, sidecar) == rewrite[p].profile[sidecar] = CurrentProfile

Prepared(p, sidecar) == rewrite[p].profile[sidecar] # Absent

InstallConsent(p) ==
    /\ Rewriting(p, "install_consent")
    /\ Prepared(p, "consent") /\ ProfileHolds(p, "consent")
    /\ requests' = rewrite[p].requests
    /\ grants' = rewrite[p].grants
    /\ form' = [form EXCEPT !["consent"] = rewrite[p].profile["consent"]]
    /\ rewrite' = [rewrite EXCEPT ![p].step = "install_audit",
                     ![p].requests = NoRequests, ![p].grants = NoGrants]
    /\ UNCHANGED <<log, process, now, ops, handed, history, vault>>

InstallAudit(p) ==
    /\ Rewriting(p, "install_audit")
    /\ Prepared(p, "audit") /\ ProfileHolds(p, "audit")
    /\ log' = rewrite[p].log
    /\ form' = [form EXCEPT !["audit"] = rewrite[p].profile["audit"]]
    /\ rewrite' = [rewrite EXCEPT ![p].step = "committed", ![p].log = {}]
    /\ UNCHANGED <<state, process, now, ops, handed, history, vault>>

\* Mutant: without a consent file the audit file is left out, too.
InstallNothingAtAll(p) ==
    /\ Rewriting(p, "install_consent") /\ ~Prepared(p, "consent")
    /\ GoTo(p, "committed")
    /\ UNCHANGED <<vars, vault, form>>

InstallNothing(p) ==
    /\ \/ /\ Rewriting(p, "install_consent") /\ ~Prepared(p, "consent")
          /\ GoTo(p, "install_audit")
       \/ /\ Rewriting(p, "install_audit") /\ ~Prepared(p, "audit")
          /\ GoTo(p, "committed")
    /\ UNCHANGED <<vars, vault, form>>

InstallRefused(p) ==
    /\ \/ /\ Rewriting(p, "install_consent")
          /\ Prepared(p, "consent") /\ ~ProfileHolds(p, "consent")
       \/ /\ Rewriting(p, "install_audit")
          /\ Prepared(p, "audit") /\ ~ProfileHolds(p, "audit")
    /\ Fail(p)

Conclude(p) ==
    /\ \/ /\ Rewriting(p, "committed")
          /\ Record(p, "committed")
          /\ GoTo(p, "delivered")
       \/ /\ Rewriting(p, "delivered")
          /\ \E phase \in {"delivered", "outcome_unknown"} : Record(p, phase)
          /\ rewrite' = [rewrite EXCEPT ![p] = None]
    /\ UNCHANGED <<vault>>

Die(p) ==
    /\ rewrite[p] # None
    /\ rewrite' = [rewrite EXCEPT ![p] = None]
    /\ UNCHANGED <<vars, vault, form>>

-----------------------------------------------------------------------------

RewriteStep(p) ==
    \/ Begin(p) \/ PrepareConsent(p) \/ PrepareAudit(p)
    \/ ReplaceVault(p) \/ ReplaceVaultConflict(p)
    \/ InstallConsent(p) \/ InstallAudit(p) \/ InstallNothing(p)
    \/ InstallRefused(p) \/ Conclude(p) \/ Die(p)

RewriteNext ==
    \/ \E p \in Procs : ConsentStep(p)
    \/ \E p \in Rewriters : RewriteStep(p)
    \/ OrdinaryVaultWrite \/ UpgradeKdf \/ Dispose
    \/ Tick /\ UNCHANGED <<vault, form, rewrite>>

RewriteSpec == RewriteInit /\ [][RewriteNext]_allVars

-----------------------------------------------------------------------------
(* Properties.                                                             *)

(***************************************************************************)
(* A sidecar is only ever written under the profile of the vault in place: *)
(* bytes prepared for another protection are refused (README.md:21).       *)
(***************************************************************************)
SidecarsFollowVault ==
    [][\A s \in Sidecars :
          form'[s] # form[s] /\ form'[s] # Absent =>
             form'[s] = (IF vault' = Absent THEN "plain"
                                            ELSE vault'.profile)]_allVars

Reports(p) ==
    /\ rewrite[p] # None /\ rewrite[p].step = "committed"
    /\ rewrite'[p] # None /\ rewrite'[p].step = "delivered"
    /\ rewrite[p].revision = current_revision /\ ~rewrite[p].disposed

(***************************************************************************)
(* The sidecars that a command found when it prepared them end up          *)
(* protected like the vault in place, whatever was written to them since   *)
(* (SECURITY.md:35).  One that it did not find is not touched.             *)
(***************************************************************************)
PreparedSidecarsAreProtected ==
    [][\A p \in Rewriters : Reports(p) =>
          \A s \in Sidecars : Prepared(p, s) =>
             form[s] \in {Absent, CurrentProfile}]_allVars
=============================================================================
