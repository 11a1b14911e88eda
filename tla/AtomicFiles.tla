----------------------------- MODULE AtomicFiles -----------------------------
(***************************************************************************)
(* What write_private_bytes and remove_private_file promise of the files   *)
(* of one directory (agent_personal_vault/private_io.py): a change happens *)
(* at once or not at all, and once the call has returned a power loss does *)
(* not undo it.                                                            *)
(*                                                                         *)
(* The states of a file are numbered in the order they were made.  The     *)
(* directory is there and lasts: its own creation, which flushes no        *)
(* parent (private_io.py:112), is outside.                                 *)
(***************************************************************************)
EXTENDS Naturals

CONSTANT Files

VARIABLES
    value,     \* the state each file is in
    latest,    \* the last number used
    confirmed  \* the last state that a completed call left

fileVars == <<value, latest, confirmed>>

Init ==
    /\ value = [f \in Files |-> 0]
    /\ latest = [f \in Files |-> 0]
    /\ confirmed = [f \in Files |-> 0]

\* A change replaces what is there, which no later number ever precedes.
Change(f) ==
    /\ latest' = [latest EXCEPT ![f] = @ + 1]
    /\ value' = [value EXCEPT ![f] = latest[f] + 1]
    /\ UNCHANGED confirmed

\* The call that made the change returns.
Confirm(f) ==
    /\ confirmed' = [confirmed EXCEPT ![f] = value[f]]
    /\ UNCHANGED <<value, latest>>

\* Power is lost: changes that no call has confirmed may be undone.
PowerLoss ==
    /\ value' \in [Files -> Nat]
    /\ \A f \in Files : value'[f] >= confirmed[f] /\ value'[f] <= value[f]
    /\ UNCHANGED <<latest, confirmed>>

Next == (\E f \in Files : Change(f) \/ Confirm(f)) \/ PowerLoss

Spec == Init /\ [][Next]_fileVars
=============================================================================
