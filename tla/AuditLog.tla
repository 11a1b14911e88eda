------------------------------ MODULE AuditLog ------------------------------
(***************************************************************************)
(* The audit file under the consent traffic of Consent                     *)
(* (agent_personal_vault/audit.py).                                        *)
(*                                                                         *)
(* Consent's log is the set of events that were recorded; here it is kept  *)
(* in a file of rows with a size limit.  Recording reads the whole file    *)
(* and writes it back with one row more, pruning writes it back with the   *)
(* old rows left out, and tail and summary skip rows they cannot parse.    *)
(* Something outside may cut or overwrite a row of a plaintext log.        *)
(***************************************************************************)
EXTENDS Consent, Sequences, FiniteSetsExt

CONSTANTS
    MaxRows,    \* MAX_AUDIT_BYTES, in rows
    MaxDamages  \* bound on outside damage

VARIABLES
    rows,     \* the audit file
    cut,      \* its last row has lost the newline
    damages   \* history: how often the file was damaged

auditVars == <<rows, cut, damages>>
fileVars == <<vars, auditVars>>

ASSUME AuditBoundsAssumption == MaxRows \in Nat /\ MaxDamages \in Nat

\* A row is readable when json.loads accepts its line.
Row == [event : Event, readable : BOOLEAN]

AuditTypeOK ==
    /\ TypeOK
    /\ rows \in Seq(Row) /\ Len(rows) <= MaxRows
    /\ cut \in BOOLEAN /\ damages \in 0 .. MaxDamages

AuditInit ==
    /\ Init
    /\ rows = <<>> /\ cut = FALSE /\ damages = 0

-----------------------------------------------------------------------------
(* Writing.                                                                *)

Unreadable(row) == [row EXCEPT !.readable = FALSE]

\* existing + line: behind a row without newline both become one line, which
\* is no JSON.
WithRow(event) ==
    IF cut
    THEN Append([rows EXCEPT ![Len(rows)] = Unreadable(@)],
                [event |-> event, readable |-> FALSE])
    ELSE Append(rows, [event |-> event, readable |-> TRUE])

\* Mutant: the limit is compared before the line is counted.
WriteEventPastLimit(event) ==
    /\ Len(rows) <= MaxRows
    /\ rows' = WithRow(event)
    /\ cut' = FALSE

write_audit_event(event) ==
    /\ Len(rows) + 1 <= MaxRows
    /\ rows' = WithRow(event)
    /\ cut' = FALSE

\* A step of an operation; one that cannot record its event fails there.
Operate(p) ==
    /\ \/ create_consent_request(p) \/ issue_consent(p) \/ approve(p)
       \/ deny(p) \/ prepare_consent_consumption(p) \/ ConsumptionRefused(p)
       \/ committed(p) \/ Output(p) \/ delivered(p)
    /\ IF log' = log THEN UNCHANGED <<rows, cut>>
       ELSE \E event \in log' \ log : write_audit_event(event)
    /\ UNCHANGED damages

\* write_state and Stop leave the audit file alone.
Elsewhere(p) ==
    /\ write_state(p) \/ prune_consent_records(p) \/ Stop(p)
    /\ UNCHANGED auditVars

-----------------------------------------------------------------------------
(* Retention, disposal, damage.                                            *)

\* Mutant: rows at the cutoff and after it go.
RetainedBackwards(row) ==
    ~row.readable \/ row.event.at + AuditRetention < now

\* Mutant: a row without a timestamp is not kept.
RetainedIfValid(row) ==
    row.readable /\ row.event.at + AuditRetention >= now

Retained(row) == ~row.readable \/ row.event.at + AuditRetention >= now

Kept == {i \in DOMAIN rows : Retained(rows[i])}

\* How many kept rows there are up to row i, which is its place after pruning.
Place(i) == Cardinality({j \in Kept : j <= i})

Prune(p) ==
    /\ prune_audit_events(p)
    /\ rows' = [k \in 1 .. Cardinality(Kept) |->
                   rows[CHOOSE i \in Kept : Place(i) = k]]
    /\ cut' = (cut /\ Retained(rows[Len(rows)]))
    /\ UNCHANGED damages

Dispose ==
    /\ dispose_private_state
    /\ \/ log' = {} /\ rows' = <<>> /\ cut' = FALSE
       \/ log' = log /\ UNCHANGED <<rows, cut>>
    /\ UNCHANGED damages

\* A row is overwritten, or the file ends within its last row or before its
\* newline.  A file that lost whole rows looks like a shorter one: nothing in
\* the program notices, and that damage is left out.
Damage ==
    /\ damages < MaxDamages /\ rows # <<>>
    /\ damages' = damages + 1
    /\ \/ \E i \in DOMAIN rows : rows' = [rows EXCEPT ![i] = Unreadable(@)]
          /\ UNCHANGED cut
       \/ /\ rows' \in {rows, [rows EXCEPT ![Len(rows)] = Unreadable(@)]}
          /\ cut' = TRUE
    /\ UNCHANGED vars

AuditNext ==
    \/ \E p \in Procs : Operate(p) \/ Elsewhere(p) \/ Prune(p)
    \/ Dispose \/ Damage
    \/ Tick /\ UNCHANGED auditVars

AuditSpec == AuditInit /\ [][AuditNext]_fileVars

-----------------------------------------------------------------------------
(* Reading.                                                                *)

\* By number: the rows that tail and summary read.
_read_audit_records == {i \in DOMAIN rows : rows[i].readable}

integrity_warning == \E i \in DOMAIN rows : ~rows[i].readable

\* The refusals of get and env carry no operation id.
EventsOf(op) ==
    {i \in _read_audit_records :
        rows[i].event.op = op /\ rows[i].event.phase # "denied"}

\* Each event of an operation overwrites the state the one before it left.
OperationState(op) ==
    LET events == EventsOf(op)
    IN IF events = {} THEN "absent" ELSE rows[Max(events)].event.phase

\* Mutant: only what was never committed counts as incomplete.
IncompleteIfPrepared(op) == OperationState(op) = "prepared"

Incomplete(op) == OperationState(op) \in {"prepared", "committed"}

OutcomeUnknown(op) == OperationState(op) = "outcome_unknown" \/ Incomplete(op)

-----------------------------------------------------------------------------
(* Properties.                                                             *)

(***************************************************************************)
(* Damaged rows, appends behind them and pruning lose no event silently:   *)
(* every event recorded and not pruned is read back, or the reader is      *)
(* warned; and nothing is read that was not recorded (README.md:267).      *)
(***************************************************************************)
LossIsVisible ==
    LET read == {rows[i].event : i \in _read_audit_records}
    IN read \subseteq log /\ (log \subseteq read \/ integrity_warning)

(***************************************************************************)
(* The summary covers every raw release: it counts the operation as        *)
(* delivered or as unknown, never as rejected or not at all, whatever      *)
(* crashed, was full or was pruned between (README.md:18).                 *)
(***************************************************************************)
SummaryCoversReleases ==
    \A op \in released \ forgotten :
        \/ OperationState(op) = "delivered" \/ OutcomeUnknown(op)
        \/ integrity_warning

(***************************************************************************)
(* An operation that the summary counts as finished is not counted as      *)
(* incomplete later: pruning takes its early events before its last one.   *)
(***************************************************************************)
FinishedStaysFinished ==
    [][\A op \in 1 .. MaxOps :
          /\ OperationState(op) \in {"delivered", "outcome_unknown"}
          /\ ~integrity_warning'
          => ~Incomplete(op)']_fileVars

(***************************************************************************)
(* A damaged row does not hide the events around it: what is recorded      *)
(* afterwards can be read (README.md:267).                                 *)
(***************************************************************************)
NewEventsAreReadable ==
    [][\A event \in log' \ log :
          \E i \in DOMAIN rows' : rows'[i].event = event /\ rows'[i].readable
      ]_fileVars
=============================================================================
