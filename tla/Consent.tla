------------------------------- MODULE Consent -------------------------------
(***************************************************************************)
(* Consent requests, one-time tokens and the audit phases around them      *)
(* (agent_personal_vault/consent.py, audit.py and the raw delivery of      *)
(* cli.py).                                                                *)
(*                                                                         *)
(* A change of the consent state takes the state lock, reads the file,     *)
(* decides, records "prepared" in the audit log, and only then writes the  *)
(* file and lets the lock go; "committed" and the terminal phase follow    *)
(* later, each under the lock anew: the state lock and the audit lock are  *)
(* both taken inside the same guard, so lock stands for that guard.  A     *)
(* process may die between any two of these steps, and the clock may move. *)
(***************************************************************************)
EXTENDS Naturals, FiniteSets

CONSTANTS
    Procs,       \* CLI processes and GUI server threads
    RequestIds, TokenIds,
    Scopes,      \* an action, a key and a purpose, which a consent binds
    Absent,      \* no such record
    None,        \* the lock is free, a process has no job
    MaxRecords,  \* MAX_CONSENT_RECORDS
    RequestTtl,  \* REQUEST_TTL_SECONDS
    MaxTtl,      \* MAX_TTL_SECONDS
    ConsentRetention, AuditRetention,  \* what privacy prune is given
    MaxTime,     \* bound on the clock
    MaxOps       \* bound on audited operations

VARIABLES
    requests, grants,  \* the consent file
    log,        \* the audit file, a set of events
    lock,       \* the owner of the state lock
    pc, job,    \* each process: its next step and the operation it is in
    now,        \* the clock
    ops,        \* the operation ids drawn so far
    handed,     \* the tokens that have been returned to their caller
    born,       \* history: the operation that made each token, and the
    origin,     \*          request it answers
    spent,      \* history: the consumptions written to the file
    released,   \* history: the operations that printed a raw value
    forgotten   \* history: operations with an event pruned or disposed of

state == <<requests, grants>>
process == <<lock, pc, job>>
history == <<born, origin, spent, released, forgotten>>
vars == <<state, log, process, now, ops, handed, history>>

Request == [scope : Scopes, expires : Nat, resolved : Nat,
            status : {"pending", "approved", "denied"}]
Grant == [scope : Scopes, expires : Nat, used : BOOLEAN, used_at : Nat]
Requests == [RequestIds -> Request \cup {Absent}]
Grants == [TokenIds -> Grant \cup {Absent}]
Actions == {"consent_request", "consent_grant", "consent_approve",
            "consent_deny", "consent_consume", "prune",
            "encrypt", "decrypt", "protect_sidecars"}
Phases == {"prepared", "committed", "delivered", "rejected",
           "outcome_unknown", "denied"}
Event == [op : Nat, action : Actions, scope : Scopes, phase : Phases,
          at : Nat]
\* What a process works on: requests and grants are the file's new content.
Job == [op : Nat, action : Actions, scope : Scopes, request : RequestIds,
        token : TokenIds, requests : Requests, grants : Grants]

ASSUME AbsentAssumption == Absent \notin Request \cup Grant
ASSUME NoneAssumption == None \notin Procs /\ None \notin Job
ASSUME IdsAssumption ==
    RequestIds # {} /\ TokenIds # {} /\ Scopes # {} /\ None \notin RequestIds
ASSUME BoundsAssumption ==
    /\ MaxRecords \in Nat /\ RequestTtl \in Nat
    /\ ConsentRetention \in Nat /\ AuditRetention \in Nat
    /\ MaxTtl \in Nat /\ MaxTime \in Nat /\ MaxOps \in Nat

Present(records) == {id \in DOMAIN records : records[id] # Absent}
Records(rs, gs) == Cardinality(Present(rs)) + Cardinality(Present(gs))

-----------------------------------------------------------------------------

TypeOK ==
    /\ requests \in Requests /\ grants \in Grants
    /\ log \subseteq Event
    /\ lock \in Procs \cup {None}
    /\ pc \in [Procs -> {"idle", "write", "commit", "output", "deliver",
                     "prune_audit"}]
    /\ job \in [Procs -> Job \cup {None}]
    /\ now \in Nat /\ ops \in Nat
    /\ handed \subseteq TokenIds
    /\ born \in [TokenIds -> Nat]
    /\ origin \in [TokenIds -> RequestIds \cup {None}]
    /\ spent \subseteq [op : Nat, token : TokenIds]
    /\ released \subseteq Nat /\ forgotten \subseteq Nat

Init ==
    /\ requests = [r \in RequestIds |-> Absent]
    /\ grants = [t \in TokenIds |-> Absent]
    /\ log = {}
    /\ lock = None
    /\ pc = [p \in Procs |-> "idle"]
    /\ job = [p \in Procs |-> None]
    /\ now = 0 /\ ops = 0
    /\ handed = {}
    /\ born = [t \in TokenIds |-> 0]
    /\ origin = [t \in TokenIds |-> None]
    /\ spent = {}
    /\ released = {} /\ forgotten = {}

-----------------------------------------------------------------------------
(* The audit log and the jobs.                                             *)

AuditEvent(j, phase) ==
    [op |-> j.op, action |-> j.action, scope |-> j.scope, phase |-> phase,
     at |-> now]

Finish(p) ==
    /\ pc' = [pc EXCEPT ![p] = "idle"]
    /\ job' = [job EXCEPT ![p] = None]

(***************************************************************************)
(* The lock is taken, the file read and decided upon, and the operation    *)
(* announced; what will be written is in memory.                           *)
(***************************************************************************)
\* Mutant: the state lock is not taken.
NoStateLock == TRUE

StateLockFree == lock = None

Enter(p) == pc[p] = "idle" /\ StateLockFree /\ ops < MaxOps

Announce(p, action, scope, request, token, newRequests, newGrants) ==
    LET j == [op |-> ops + 1, action |-> action, scope |-> scope,
              request |-> request, token |-> token,
              requests |-> newRequests, grants |-> newGrants]
    IN /\ ops' = ops + 1
       /\ log' = log \cup {AuditEvent(j, "prepared")}
       /\ lock' = p
       /\ pc' = [pc EXCEPT ![p] = "write"]
       /\ job' = [job EXCEPT ![p] = j]
       /\ UNCHANGED <<state, now, handed, history>>

\* Ids are random.  A token is never drawn twice; a request id stands for
\* another request once its record is gone and no token answers it.
SomeRequest == CHOOSE r \in RequestIds : TRUE
SomeToken == CHOOSE t \in TokenIds : TRUE
FreshToken(t) == born[t] = 0

\* Mutant: the limit is compared before the record is counted.
RecordCapacityOffByOne == Records(requests, grants) <= MaxRecords

RecordCapacity == Records(requests, grants) + 1 <= MaxRecords

\* Mutant: a new grant lacks its use mark.
NewGrantUnmarked(scope, ttl) == [scope |-> scope, expires |-> now + ttl]

NewGrant(scope, ttl) ==
    [scope |-> scope, expires |-> now + ttl, used |-> FALSE, used_at |-> 0]

-----------------------------------------------------------------------------
(* Requests and grants.                                                    *)

create_consent_request(p) ==
    /\ Enter(p)
    /\ RecordCapacity
    /\ \E r \in RequestIds, scope \in Scopes :
         /\ requests[r] = Absent
         /\ \A t \in TokenIds : origin[t] # r
         /\ Announce(p, "consent_request", scope, r, SomeToken,
              [requests EXCEPT ![r] =
                 [scope |-> scope, expires |-> now + RequestTtl,
                  resolved |-> 0, status |-> "pending"]],
              grants)

issue_consent(p) ==
    /\ Enter(p)
    /\ RecordCapacity
    /\ \E t \in TokenIds, scope \in Scopes, ttl \in 1 .. MaxTtl :
         /\ FreshToken(t)
         /\ Announce(p, "consent_grant", scope, SomeRequest, t, requests,
                     [grants EXCEPT ![t] = NewGrant(scope, ttl)])

\* Mutant: a decided request can be decided again.
ResolvableAgain(r) == requests[r] # Absent /\ now < requests[r].expires

Resolvable(r) ==
    /\ requests[r] # Absent
    /\ requests[r].status = "pending"
    /\ now < requests[r].expires

Resolved(r, status) ==
    [requests EXCEPT ![r].status = status, ![r].resolved = now]

approve(p) ==
    /\ Enter(p)
    /\ RecordCapacity
    /\ \E r \in RequestIds, t \in TokenIds, ttl \in 1 .. MaxTtl :
         /\ Resolvable(r)
         /\ FreshToken(t)
         /\ Announce(p, "consent_approve", requests[r].scope, r, t,
                     Resolved(r, "approved"),
                     [grants EXCEPT ![t] = NewGrant(requests[r].scope, ttl)])

deny(p) ==
    /\ Enter(p)
    /\ \E r \in RequestIds :
         /\ Resolvable(r)
         /\ Announce(p, "consent_deny", requests[r].scope, r, SomeToken,
                     Resolved(r, "denied"), grants)

-----------------------------------------------------------------------------
(* Consumption and delivery of a raw value.                                *)

Consumable(t, scope) ==
    /\ grants[t] # Absent
    /\ ~grants[t].used
    /\ grants[t].scope = scope
    /\ now < grants[t].expires

prepare_consent_consumption(p) ==
    /\ Enter(p)
    /\ \E t \in handed :
         /\ grants[t] # Absent /\ Consumable(t, grants[t].scope)
         /\ Announce(p, "consent_consume", grants[t].scope, SomeRequest, t,
                     requests,
                     [grants EXCEPT ![t].used = TRUE, ![t].used_at = now])

\* get and env leave an event of their own when the consent is refused; the
\* model numbers it like an operation.
ConsumptionRefused(p) ==
    /\ Enter(p) /\ ops' = ops + 1
    /\ \E t \in handed, scope \in Scopes :
         /\ ~Consumable(t, scope)
         /\ log' = log \cup {[op |-> ops + 1, action |-> "consent_consume",
                              scope |-> scope, phase |-> "denied",
                              at |-> now]}
    /\ UNCHANGED <<state, process, now, handed, history>>

-----------------------------------------------------------------------------
(* After the announcement.                                                 *)

Makes(j, t) ==
    j.token = t /\ j.action \in {"consent_grant", "consent_approve"}

write_state(p) ==
    /\ pc[p] = "write"
    /\ requests' = job[p].requests
    /\ grants' = job[p].grants
    /\ lock' = None
    /\ pc' = [pc EXCEPT ![p] = IF job[p].action = "prune"
                               THEN "prune_audit" ELSE "commit"]
    /\ born' = [t \in TokenIds |->
                  IF Makes(job[p], t) THEN job[p].op ELSE born[t]]
    /\ origin' = [t \in TokenIds |->
                    IF Makes(job[p], t) /\ job[p].action = "consent_approve"
                    THEN job[p].request ELSE origin[t]]
    /\ spent' = IF job[p].action = "consent_consume"
                THEN spent \cup {[op |-> job[p].op, token |-> job[p].token]}
                ELSE spent
    /\ UNCHANGED <<log, job, now, ops, handed, released, forgotten>>

\* Mutant: the commit is not recorded.
CommittedSilently(p) ==
    /\ pc[p] = "commit" /\ StateLockFree
    /\ pc' = [pc EXCEPT ![p] = IF job[p].action = "consent_consume"
                               THEN "output" ELSE "deliver"]
    /\ UNCHANGED <<state, log, lock, job, now, ops, handed, history>>

\* Mutant: the token is returned before the last record.
CommittedHandsOver(p) ==
    /\ pc[p] = "commit" /\ StateLockFree
    /\ log' = log \cup {AuditEvent(job[p], "committed")}
    /\ handed' = handed \cup {t \in TokenIds : Makes(job[p], t)}
    /\ pc' = [pc EXCEPT ![p] = IF job[p].action = "consent_consume"
                               THEN "output" ELSE "deliver"]
    /\ UNCHANGED <<state, lock, job, now, ops, history>>

committed(p) ==
    /\ pc[p] = "commit" /\ StateLockFree
    /\ log' = log \cup {AuditEvent(job[p], "committed")}
    /\ pc' = [pc EXCEPT ![p] = IF job[p].action = "consent_consume"
                               THEN "output" ELSE "deliver"]
    /\ UNCHANGED <<state, lock, job, now, ops, handed, history>>

(***************************************************************************)
(* get prints the value, or finds it empty, or loses its reader half way;  *)
(* recording an unknown outcome may itself fail.                           *)
(***************************************************************************)
Output(p) ==
    /\ pc[p] = "output"
    /\ \/ /\ released' = released \cup {job[p].op}
          /\ pc' = [pc EXCEPT ![p] = "deliver"]
          /\ UNCHANGED <<log, job>>
       \/ /\ released' \in {released, released \cup {job[p].op}}
          /\ log' \in {log, log \cup {AuditEvent(job[p], "outcome_unknown")}}
          /\ log' # log => StateLockFree
          /\ Finish(p)
    /\ UNCHANGED <<state, lock, now, ops, handed, born, origin, spent,
                   forgotten>>

\* A new token reaches its caller only after the last record.
delivered(p) ==
    /\ pc[p] = "deliver" /\ StateLockFree
    /\ log' = log \cup {AuditEvent(job[p], "delivered")}
    /\ handed' = handed \cup {t \in TokenIds : Makes(job[p], t)}
    /\ Finish(p)
    /\ UNCHANGED <<state, lock, now, ops, history>>

-----------------------------------------------------------------------------
(* Retention and disposal.                                                 *)

GrantEnded(g) ==
    IF g.used THEN g.used_at + ConsentRetention < now
    ELSE now >= g.expires /\ g.expires + ConsentRetention < now

\* Mutant: a request that waits for its answer ages like an answered one.
RequestEndedByAge(r) == r.resolved + ConsentRetention < now

RequestEnded(r) ==
    IF r.status = "pending"
    THEN now >= r.expires /\ r.expires + ConsentRetention < now
    ELSE r.resolved + ConsentRetention < now

prune_consent_records(p) ==
    /\ pc[p] = "idle" /\ StateLockFree
    /\ lock' = p
    /\ pc' = [pc EXCEPT ![p] = "write"]
    /\ \E scope \in Scopes :
       job' = [job EXCEPT ![p] =
                 [op |-> 0, action |-> "prune", scope |-> scope,
                  request |-> SomeRequest, token |-> SomeToken,
                  requests |->
                    [r \in RequestIds |->
                       IF requests[r] # Absent /\ RequestEnded(requests[r])
                       THEN Absent ELSE requests[r]],
                  grants |->
                    [t \in TokenIds |->
                       IF grants[t] # Absent /\ GrantEnded(grants[t])
                       THEN Absent ELSE grants[t]]]]
    /\ UNCHANGED <<state, log, now, ops, handed, history>>

\* privacy prune turns to the audit log afterwards.
prune_audit_events(p) ==
    /\ pc[p] = "prune_audit" /\ StateLockFree
    /\ LET removed == {e \in log : e.at + AuditRetention < now}
       IN /\ log' = log \ removed
          /\ forgotten' = forgotten \cup {e.op : e \in removed}
    /\ Finish(p)
    /\ UNCHANGED <<state, lock, now, ops, handed, born, origin, spent,
                   released>>

\* The consent file goes before the audit log, and may go alone.
dispose_private_state ==
    /\ StateLockFree
    /\ requests' = [r \in RequestIds |-> Absent]
    /\ grants' = [t \in TokenIds |-> Absent]
    /\ \/ log' = {} /\ forgotten' = forgotten \cup {e.op : e \in log}
       \/ UNCHANGED <<log, forgotten>>
    /\ UNCHANGED <<process, now, ops, handed, born, origin, spent, released>>

-----------------------------------------------------------------------------

\* A process dies, or a write of its fails: the lock falls back.
Stop(p) ==
    /\ pc[p] # "idle"
    /\ lock' = IF lock = p THEN None ELSE lock
    /\ Finish(p)
    /\ UNCHANGED <<state, log, now, ops, handed, history>>

Tick ==
    /\ now < MaxTime
    /\ now' = now + 1
    /\ UNCHANGED <<state, log, process, ops, handed, history>>

Decide(p) ==
    \/ create_consent_request(p) \/ issue_consent(p) \/ approve(p) \/ deny(p)
    \/ prepare_consent_consumption(p) \/ ConsumptionRefused(p)
    \/ prune_consent_records(p)

Proceed(p) ==
    \/ write_state(p) \/ committed(p) \/ Output(p) \/ delivered(p)
    \/ prune_audit_events(p) \/ Stop(p)

Next ==
    \/ \E p \in Procs : Decide(p) \/ Proceed(p)
    \/ dispose_private_state
    \/ Tick

Spec == Init /\ [][Next]_vars

-----------------------------------------------------------------------------
(* Properties.                                                             *)

(***************************************************************************)
(* One-time: no token is consumed twice, however many processes present it *)
(* and wherever they die (CHANGELOG.md:303, README.md:16).                 *)
(***************************************************************************)
SpentOnce == \A a, b \in spent : a.token = b.token => a = b

(***************************************************************************)
(* A decision is final: a request is answered by at most one token, and by *)
(* none once it is denied, though CLI and GUI may both answer it.          *)
(***************************************************************************)
DecisionsAreFinal ==
    \A t \in TokenIds : origin[t] # None =>
        /\ requests[origin[t]] # Absent =>
               requests[origin[t]].status = "approved"
        /\ \A u \in TokenIds : origin[u] = origin[t] => u = t

(***************************************************************************)
(* The file never outgrows the limit above which _load_state refuses to    *)
(* read it.                                                                *)
(***************************************************************************)
RecordsWithinLimit == Records(requests, grants) <= MaxRecords

(***************************************************************************)
(* What the audit log says of an operation: audit_summary counts anything  *)
(* begun and not delivered or rejected as outcome unknown.                 *)
(***************************************************************************)
PhasesOf(op) == {e.phase : e \in {x \in log : x.op = op}}

Logged(op, phase, t) ==
    \E e \in log :
       e.op = op /\ e.phase = phase /\ e.scope = grants[t].scope

(***************************************************************************)
(* A used token can be traced: its consumption and the delivery of its     *)
(* grant are in the log, under the same scope, whatever crashed, unless    *)
(* events of these operations have been pruned.                            *)
(***************************************************************************)
UsedTokensAreTraceable ==
    \A t \in TokenIds : grants[t] # Absent /\ grants[t].used =>
        /\ \E s \in spent :
              /\ s.token = t
              /\ s.op \in forgotten \/ Logged(s.op, "prepared", t)
        /\ born[t] \in forgotten \/ Logged(born[t], "delivered", t)

(***************************************************************************)
(* A request or a token that can still be answered or used leaves the file *)
(* only when everything is disposed of: pruning takes what has ended, also *)
(* when it decided before another process wrote (consent.py:710-766).      *)
(***************************************************************************)
LiveRecordsStay ==
    [][( \/ \E t \in Present(grants) :
                /\ Consumable(t, grants[t].scope)
                /\ grants'[t] = Absent
         \/ \E r \in RequestIds : Resolvable(r) /\ requests'[r] = Absent)
       => dispose_private_state]_vars

(***************************************************************************)
(* The audit trail neither misses nor invents a raw release: a released    *)
(* value was announced and committed, and a consumption called delivered   *)
(* did release (SECURITY.md:46).  validate_and_consume_consent, which only  *)
(* tests call, delivers without a release and is not modelled.             *)
(***************************************************************************)
ReleasesAreAccounted ==
    /\ \A op \in released \ forgotten :
          {"prepared", "committed"} \subseteq PhasesOf(op)
    /\ \A e \in log :
          e.action = "consent_consume" /\ e.phase = "delivered" =>
             e.op \in released
=============================================================================
