----------------------------- MODULE VaultStore -----------------------------
(***************************************************************************)
(* The vault file under concurrent CLI commands and GUI requests           *)
(* (agent_personal_vault/vault.py and its callers in cli.py and gui.py).   *)
(*                                                                         *)
(* A command reads the vault without a lock, lets a human edit, and hands  *)
(* the result to write_store, which locks, compares revisions and writes;  *)
(* the locked part is one step.  The GUI adds a browser page that holds a  *)
(* revision for as long as its user likes.  privacy dispose removes the    *)
(* vault, and a missing vault counts as revision 0.  The guard of an       *)
(* unfinished KDF migration is the subject of KdfMigration and taken to be *)
(* open here; audit records are the subject of Consent.                    *)
(***************************************************************************)
EXTENDS Naturals

CONSTANTS
    Procs,     \* CLI processes and GUI server threads
    Keys,      \* field keys of the schema
    Values,    \* field values after normalization
    Empty,     \* the value of an unset field
    Absent,    \* the vault file does not exist
    None,      \* no page in the browser, no store or request in memory
    MaxWrites, \* bound on writes of the vault
    MaxLives   \* bound on disposals

VARIABLES
    vault,         \* the vault file
    life,          \* the number of disposals so far (a history variable)
    pc,            \* what each process is doing
    goal,          \* the command it is doing it for
    store,         \* the store it holds in memory
    request,       \* the GUI request it is handling
    page,          \* what the browser shows
    acknowledged,  \* the user has acknowledged plaintext storage
    writes         \* counter of the bound

memory == <<pc, goal, store, request>>
browser == <<page, acknowledged>>
vars == <<vault, life, memory, browser, writes>>

Fields == [Keys -> Values]
Protections == {"plain", "encrypted"}
Vault == [revision : Nat, fields : Fields, protection : Protections,
          legacy : BOOLEAN]
\* A version of the vault as someone has read it; found is FALSE for the
\* blank store that a missing vault is created from.
Version == [revision : Nat, fields : Fields, protection : Protections,
            life : Nat, found : BOOLEAN]
Request == [incoming : Fields, edited : SUBSET Keys, shown : Version]

ASSUME EmptyAssumption == Empty \in Values
ASSUME AbsentAssumption == Absent \notin Vault
ASSUME NoneAssumption == None \notin Version \cup Request
ASSUME BoundsAssumption == MaxWrites \in Nat /\ MaxLives \in Nat

Activities == {"idle", "loading", "creating", "normalizing", "editing",
               "viewing"}
Goals == {"none", "init", "set", "unset", "encrypt", "decrypt", "view", "save"}

\* Mutant: the blank store lacks the keys of the schema.
blank_store_without_fields ==
    [revision |-> 0, fields |-> <<>>, protection |-> "plain", life |-> life,
     found |-> FALSE]

blank_store == [revision |-> 0, fields |-> [k \in Keys |-> Empty],
                protection |-> "plain", life |-> life, found |-> FALSE]

InPlace == [revision |-> vault.revision, fields |-> vault.fields,
            protection |-> vault.protection, life |-> life, found |-> TRUE]

storage_protection == IF vault = Absent THEN "plain" ELSE vault.protection

current_revision == IF vault = Absent THEN 0 ELSE vault.revision

-----------------------------------------------------------------------------

TypeOK ==
    /\ vault \in Vault \cup {Absent}
    /\ life \in Nat
    /\ pc \in [Procs -> Activities]
    /\ goal \in [Procs -> Goals]
    /\ store \in [Procs -> Version \cup {None}]
    /\ request \in [Procs -> Request \cup {None}]
    /\ page \in Version \cup {None}
    /\ acknowledged \in BOOLEAN
    /\ writes \in Nat

(***************************************************************************)
(* No vault, a vault of this version, or a legacy one, which lacks the     *)
(* revision (it then reads as 0) or keys of the current schema.            *)
(***************************************************************************)
Init ==
    /\ vault \in {Absent} \cup
         [revision : {0, 1}, fields : Fields,
          protection : Protections, legacy : BOOLEAN]
    /\ vault # Absent => vault.legacy \/ vault.revision = 1
    /\ life = 0
    /\ pc = [p \in Procs |-> "idle"]
    /\ goal = [p \in Procs |-> "none"]
    /\ store = [p \in Procs |-> None]
    /\ request = [p \in Procs |-> None]
    /\ page = None
    /\ acknowledged = FALSE
    /\ writes = 0

-----------------------------------------------------------------------------
(* Reading.                                                                *)

Finish(p) ==
    /\ pc' = [pc EXCEPT ![p] = "idle"]
    /\ goal' = [goal EXCEPT ![p] = "none"]
    /\ store' = [store EXCEPT ![p] = None]
    /\ request' = [request EXCEPT ![p] = None]

Hold(p, activity, version) ==
    /\ pc' = [pc EXCEPT ![p] = activity]
    /\ store' = [store EXCEPT ![p] = version]
    /\ UNCHANGED <<goal, request>>

(***************************************************************************)
(* A CLI command on the vault; encrypt and decrypt look at the protection  *)
(* in place before anything else.                                          *)
(***************************************************************************)
Invoke(p) ==
    /\ pc[p] = "idle"
    /\ \E command \in {"init", "set", "unset", "encrypt", "decrypt"} :
         /\ command = "encrypt" => storage_protection = "plain"
         /\ command = "decrypt" => storage_protection = "encrypted"
         /\ goal' = [goal EXCEPT ![p] = command]
    /\ pc' = [pc EXCEPT ![p] = "loading"]
    /\ UNCHANGED <<vault, life, store, request, browser, writes>>

(***************************************************************************)
(* load_store has returned: init is done, a save compares revisions, the   *)
(* others go on to edit.                                                   *)
(***************************************************************************)
SaveConflict(p, version) ==
    goal[p] = "save" /\ version.revision # request[p].shown.revision

Loaded(p, version) ==
    IF goal[p] = "init" \/ SaveConflict(p, version)
    THEN Finish(p)
    ELSE Hold(p, "editing", version)

load_store(p) ==
    /\ pc[p] = "loading"
    /\ \/ /\ vault = Absent
          /\ IF goal[p] \in {"init", "set"}
             THEN Hold(p, "creating", blank_store) ELSE Finish(p)
       \/ /\ vault # Absent
          /\ IF vault.legacy THEN Hold(p, "normalizing", InPlace)
                             ELSE Loaded(p, InPlace)
    /\ UNCHANGED <<vault, life, browser, writes>>

-----------------------------------------------------------------------------
(* Writing.                                                                *)

\* Mutant: revisions are not compared.
NoRevisionCheck(p) == TRUE

RevisionHolds(p) == store[p].revision = current_revision

write_store(p, fields, protection) ==
    /\ RevisionHolds(p)
    /\ writes < MaxWrites
    /\ writes' = writes + 1
    /\ vault' = [revision |-> current_revision + 1, fields |-> fields,
                 protection |-> protection, legacy |-> FALSE]

\* VaultConflictError.
Conflict(p) ==
    ~RevisionHolds(p) /\ Finish(p) /\ UNCHANGED <<vault, writes>>

(***************************************************************************)
(* load_store creates a missing vault, protected like one that has come    *)
(* up meanwhile, and rewrites a legacy one under the protection it read.   *)
(***************************************************************************)
LoadWrites(p) ==
    /\ pc[p] \in {"creating", "normalizing"}
    /\ \/ /\ LET protection == IF pc[p] = "creating" THEN storage_protection
                               ELSE store[p].protection
             IN /\ write_store(p, store[p].fields, protection)
                /\ Loaded(p, [revision |-> current_revision + 1,
                              fields |-> store[p].fields,
                              protection |-> protection,
                              life |-> life, found |-> TRUE])
       \/ Conflict(p)
    /\ UNCHANGED <<life, browser>>

\* What the command makes of the fields it has loaded.
Edited(p) ==
    CASE goal[p] = "set" ->
           {[store[p].fields EXCEPT ![k] = v] : k \in Keys, v \in Values}
      [] goal[p] = "unset" ->
           {[store[p].fields EXCEPT ![k] = Empty] : k \in Keys}
      [] goal[p] = "save" ->
           {[k \in Keys |-> IF k \in request[p].edited
                            THEN request[p].incoming[k]
                            ELSE store[p].fields[k]]}
      [] OTHER -> {store[p].fields}

\* Mutant: encrypted=None is taken for "not encrypted".
ProtectionForgotten(p) ==
    IF goal[p] = "encrypt" THEN "encrypted" ELSE "plain"

EditedProtection(p) ==
    CASE goal[p] = "encrypt" -> "encrypted"
      [] goal[p] = "decrypt" -> "plain"
      [] OTHER -> storage_protection

Save(p) ==
    /\ pc[p] = "editing"
    /\ \E fields \in Edited(p) : write_store(p, fields, EditedProtection(p))
    /\ Finish(p)
    /\ UNCHANGED <<life, browser>>

SaveRefused(p) ==
    /\ pc[p] = "editing"
    /\ Conflict(p)
    /\ UNCHANGED <<life, browser>>

-----------------------------------------------------------------------------
(* The browser and its server.                                             *)

\* POST /api/profile/view reads the fields, which never rewrites ...
ViewFields(p) ==
    /\ pc[p] = "idle"
    /\ vault # Absent
    /\ pc' = [pc EXCEPT ![p] = "viewing"]
    /\ goal' = [goal EXCEPT ![p] = "view"]
    /\ store' = [store EXCEPT ![p] = InPlace]
    /\ UNCHANGED <<vault, life, request, browser, writes>>

\* ... and then, in another read, the protection.
ViewProtection(p) ==
    /\ pc[p] = "viewing"
    /\ page' = [store[p] EXCEPT !.protection = storage_protection]
    /\ Finish(p)
    /\ UNCHANGED <<vault, life, acknowledged, writes>>

\* The page asks for an acknowledgement only when it shows plaintext.
Acknowledge ==
    /\ page # None
    /\ page.protection = "plain" /\ storage_protection = "plain"
    /\ acknowledged' = TRUE
    /\ UNCHANGED <<vault, life, memory, page, writes>>

(***************************************************************************)
(* POST /api/profile: the storage must be the one the page showed, and     *)
(* plaintext must be acknowledged.  The page sends all its fields, other   *)
(* clients may send a part.                                                *)
(***************************************************************************)
PostProfile(p) ==
    /\ pc[p] = "idle"
    /\ page # None
    /\ page.protection = storage_protection
    /\ storage_protection = "plain" => acknowledged
    /\ \E k \in Keys, v \in Values, edited \in SUBSET Keys :
         /\ edited \in {{k}, Keys}
         /\ request' = [request EXCEPT ![p] =
                          [incoming |-> [page.fields EXCEPT ![k] = v],
                           edited |-> edited, shown |-> page]]
    /\ pc' = [pc EXCEPT ![p] = "loading"]
    /\ goal' = [goal EXCEPT ![p] = "save"]
    /\ UNCHANGED <<vault, life, store, browser, writes>>

-----------------------------------------------------------------------------

Dispose ==
    /\ vault # Absent
    /\ life < MaxLives
    /\ vault' = Absent
    /\ life' = life + 1
    /\ UNCHANGED <<memory, browser, writes>>

\* A process dies, or one of its reads, audit records or writes fails.
Stop(p) ==
    /\ pc[p] # "idle"
    /\ Finish(p)
    /\ UNCHANGED <<vault, life, browser, writes>>

Step(p) ==
    \/ Invoke(p) \/ load_store(p) \/ LoadWrites(p) \/ Save(p) \/ SaveRefused(p)
    \/ ViewFields(p) \/ ViewProtection(p) \/ PostProfile(p) \/ Stop(p)

Next == (\E p \in Procs : Step(p)) \/ Acknowledge \/ Dispose

Spec == Init /\ [][Next]_vars

-----------------------------------------------------------------------------
(* Properties.                                                             *)

\* The version the user of process p was looking at: the page for a save
\* from the browser, the loaded store for a command.
Shown(p) == IF goal[p] = "save" THEN request[p].shown ELSE store[p]

SameLife(p) == Shown(p).life = life

(***************************************************************************)
(* No lost update: a save replaces exactly the fields its user was looking *)
(* at, unless the vault has been disposed of since (CHANGELOG.md:102).     *)
(***************************************************************************)
SavesBuildOnWhatWasShown ==
    [][\A p \in Procs : Save(p) /\ SameLife(p) =>
          vault # Absent /\ vault.fields = Shown(p).fields]_vars

(***************************************************************************)
(* Data the user typed under one protection is never stored under another: *)
(* set, unset and browser saves leave the vault protected as their user    *)
(* saw it, and the browser writes plaintext only when acknowledged, though *)
(* both were looked at long before the write.                              *)
(***************************************************************************)
SavesKeepShownProtection ==
    [][\A p \in Procs :
          Save(p) /\ SameLife(p) /\ goal[p] \in {"set", "unset", "save"} =>
             /\ vault'.protection = Shown(p).protection
             /\ goal[p] = "save" /\ vault'.protection = "plain" =>
                    acknowledged]_vars

(***************************************************************************)
(* The writes inside load_store overwrite nothing: creating finds no       *)
(* vault, normalizing leaves fields and protection as they are.            *)
(***************************************************************************)
LoadsOverwriteNothing ==
    [][\A p \in Procs :
          LoadWrites(p) /\ vault' # vault /\ store[p].life = life =>
          IF store[p].found
          THEN /\ vault # Absent /\ vault.fields = vault'.fields
               /\ vault.protection = vault'.protection
          ELSE vault = Absent]_vars
=============================================================================
