--------------------------- MODULE AtomicMigration ---------------------------
(***************************************************************************)
(* What the KDF migration promises to a reader of the vault files: while   *)
(* it is unfinished the files are sealed against ordinary writers, no      *)
(* plaintext ever changes, and when the seal is lifted either every        *)
(* present member has moved to version 2 or none has changed at all.       *)
(***************************************************************************)
EXTENDS Naturals

CONSTANTS
    MemberNames, Absent,
    Texts    \* the plaintext versions an ordinary write may leave

VARIABLES
    text,    \* the plaintext version of each member, or Absent
    suite,   \* the protection each member has once no migration is open
    open     \* an unfinished migration blocks the writers

vars == <<text, suite, open>>

Init ==
    /\ text \in [MemberNames -> {0, Absent}]
    /\ text["vault"] = 0
    /\ suite \in [MemberNames -> {"plain", "v1", Absent}]
    /\ \A m \in MemberNames : text[m] = Absent <=> suite[m] = Absent
    /\ suite["vault"] = "v1"
    /\ open = FALSE

\* A migration opens only over an encrypted version-1 vault.
Begin ==
    /\ ~open
    /\ suite["vault"] = "v1"
    /\ open' = TRUE
    /\ UNCHANGED <<text, suite>>

\* Every member moves at once.
Complete ==
    /\ open
    /\ open' = FALSE
    /\ suite' = [m \in MemberNames |->
                    IF suite[m] = Absent THEN Absent ELSE "v2"]
    /\ UNCHANGED text

\* No member moves.
Abandon ==
    /\ open
    /\ open' = FALSE
    /\ UNCHANGED <<text, suite>>

Write(m) ==
    /\ ~open
    /\ \E version \in Texts : text' = [text EXCEPT ![m] = version]
    /\ suite' = [suite EXCEPT ![m] =
                    IF suite["vault"] = Absent THEN "plain"
                    ELSE suite["vault"]]
    /\ UNCHANGED open

\* A slow reader rewrites the vault under the protection it once read.
Rewrite ==
    /\ ~open
    /\ \E version \in Texts : text' = [text EXCEPT !["vault"] = version]
    /\ \E protection \in {"plain", "v1", "v2"} :
            suite' = [suite EXCEPT !["vault"] = protection]
    /\ UNCHANGED open

Remove(members) ==
    /\ ~open
    /\ text' = [m \in MemberNames |->
                    IF m \in members THEN Absent ELSE text[m]]
    /\ suite' = [m \in MemberNames |->
                    IF m \in members THEN Absent ELSE suite[m]]
    /\ UNCHANGED open

Next ==
    \/ Begin \/ Complete \/ Abandon \/ Rewrite
    \/ \E m \in MemberNames : Write(m)
    \/ \E members \in SUBSET MemberNames : Remove(members)

Spec == Init /\ [][Next]_vars
=============================================================================
