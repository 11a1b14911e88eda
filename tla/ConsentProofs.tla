---------------------------- MODULE ConsentProofs ----------------------------
(***************************************************************************)
(* What holds of the consent state for any number of processes, requests,  *)
(* tokens and records, and any clock.                                      *)
(*                                                                         *)
(* The argument: whoever is about to write holds the state lock, so what   *)
(* it has decided about the file in place (Edit) is still true of the file *)
(* it replaces.                                                            *)
(***************************************************************************)
EXTENDS Consent, TLAPS

UsedUp(gs, t) == gs[t] # Absent => gs[t].used

AnsweredIn(rs, r) == rs[r] # Absent => rs[r].status = "approved"

\* What a job that is about to be written does to the file in place.
Edit(j) ==
    /\ \A t \in TokenIds :
         /\ born[t] # 0 /\ UsedUp(grants, t) => UsedUp(j.grants, t)
         /\ j.grants[t] # Absent => born[t] # 0 \/ Makes(j, t)
         /\ Makes(j, t) => j.op # 0
         /\ origin[t] # None => AnsweredIn(j.requests, origin[t])
    /\ j.action = "consent_consume" =>
         /\ ~UsedUp(grants, j.token)
         /\ UsedUp(j.grants, j.token)
    /\ j.action = "consent_approve" =>
         /\ AnsweredIn(j.requests, j.request)
         /\ \A t \in TokenIds : origin[t] # j.request

WritersInv ==
    \A p \in Procs :
       /\ pc[p] # "idle" => job[p] # None
       /\ pc[p] = "write" => lock = p /\ Edit(job[p])

SpentInv ==
    /\ \A t \in TokenIds : grants[t] # Absent => born[t] # 0
    /\ \A s \in spent : born[s.token] # 0 /\ UsedUp(grants, s.token)
    /\ SpentOnce

OriginInv ==
    \A t \in TokenIds : origin[t] # None =>
        /\ AnsweredIn(requests, origin[t])
        /\ \A u \in TokenIds : origin[u] = origin[t] => u = t

\* The audit log has the event, or it has been pruned or disposed of.
Known(op, phase) ==
    op \in forgotten \/ \E e \in log : e.op = op /\ e.phase = phase

AuditInv ==
    /\ \A p \in Procs :
         /\ pc[p] \in {"commit", "output", "deliver"} =>
                job[p].action # "prune"
         /\ pc[p] \notin {"idle", "prune_audit"} /\ job[p].action # "prune" =>
                Known(job[p].op, "prepared")
         /\ pc[p] \in {"output", "deliver"} => Known(job[p].op, "committed")
         /\ pc[p] = "output" => job[p].action = "consent_consume"
         /\ pc[p] = "deliver" /\ job[p].action = "consent_consume" =>
                job[p].op \in released
    /\ \A op \in released : Known(op, "prepared") /\ Known(op, "committed")
    /\ \A e \in log : e.action = "consent_consume" /\ e.phase = "delivered" =>
          e.op \in released

IInv == TypeOK /\ WritersInv /\ SpentInv /\ OriginInv /\ AuditInv

-----------------------------------------------------------------------------

(***************************************************************************)
(* The initial states satisfy the invariant.                               *)
(***************************************************************************)
LEMMA Initially == Init => IInv
<1> SUFFICES ASSUME Init PROVE IInv
  OBVIOUS
<1>1. TypeOK
  BY DEF Init, TypeOK, Requests, Grants
<1>2. WritersInv /\ SpentInv /\ OriginInv /\ AuditInv
  BY DEF Init, WritersInv, SpentInv, SpentOnce, OriginInv, AuditInv
<1> QED
  BY <1>1, <1>2 DEF IInv

(***************************************************************************)
(* Making up the job of an operation keeps the types.                      *)
(***************************************************************************)
LEMMA JobType ==
  ASSUME NEW op \in Nat, NEW action \in Actions, NEW scope \in Scopes,
         NEW request \in RequestIds, NEW token \in TokenIds,
         NEW rs \in Requests, NEW gs \in Grants
  PROVE  [op |-> op, action |-> action, scope |-> scope,
          request |-> request, token |-> token,
          requests |-> rs, grants |-> gs] \in Job
BY DEF Job

LEMMA SomeIds == SomeRequest \in RequestIds /\ SomeToken \in TokenIds
BY IdsAssumption DEF SomeRequest, SomeToken

(***************************************************************************)
(* A job is not the mark of a process that has none.                       *)
(***************************************************************************)
LEMMA NoneIsNoJob == \A j \in Job : j # None
BY NoneAssumption

(***************************************************************************)
(* Announcing an operation whose job suits the file in place keeps the     *)
(* invariant: the lock was free, so no other process is about to write.    *)
(***************************************************************************)
LEMMA AnnounceKeepsIInv ==
  ASSUME IInv, NEW p \in Procs, NEW action \in Actions \ {"prune"},
         NEW scope \in Scopes, NEW request \in RequestIds,
         NEW token \in TokenIds, NEW rs \in Requests, NEW gs \in Grants,
         Enter(p),
         Announce(p, action, scope, request, token, rs, gs),
         Edit([op |-> ops + 1, action |-> action, scope |-> scope,
               request |-> request, token |-> token,
               requests |-> rs, grants |-> gs])
  PROVE  IInv'
<1> USE DEF IInv
<1>1. PICK j \in Job :
        j = [op |-> ops + 1, action |-> action, scope |-> scope,
             request |-> request, token |-> token,
             requests |-> rs, grants |-> gs]
  BY JobType DEF TypeOK
<1>2. /\ j.op = ops + 1 /\ j.action = action /\ j.scope = scope
  BY <1>1
<1>3. /\ ops' = ops + 1
      /\ log' = log \cup {AuditEvent(j, "prepared")}
      /\ lock' = p
      /\ pc' = [pc EXCEPT ![p] = "write"]
      /\ job' = [job EXCEPT ![p] = j]
      /\ UNCHANGED <<requests, grants, now, handed, born, origin, spent,
                     released, forgotten>>
  BY <1>1 DEF Announce, state, history
<1>4. Edit(j)
  BY <1>1
<1>5. /\ AuditEvent(j, "prepared") \in Event
      /\ AuditEvent(j, "prepared").op = j.op
      /\ AuditEvent(j, "prepared").phase = "prepared"
  BY <1>2 DEF AuditEvent, Event, Phases, TypeOK
<1>6. TypeOK'
  BY <1>1, <1>3, <1>5 DEF TypeOK
<1>7. /\ \A q \in Procs : pc[q] # "write"
      /\ \A q \in Procs \ {p} : pc'[q] = pc[q] /\ job'[q] = job[q]
      /\ pc'[p] = "write" /\ job'[p] = j
  BY <1>3, NoneAssumption
     DEF TypeOK, WritersInv, Enter, StateLockFree
<1>8. WritersInv'
  <2>1. Edit(j)'
    BY <1>3, <1>4 DEF Edit, UsedUp, AnsweredIn, Makes
  <2>2. ASSUME NEW q \in Procs
        PROVE  /\ pc'[q] # "idle" => job'[q] # None
               /\ pc'[q] = "write" => lock' = q /\ Edit(job[q])'
    <3>1. CASE q = p
      <4>1. job'[q] = j /\ Edit(job[q])'
        BY <1>7, <2>1, <3>1 DEF Edit, UsedUp, AnsweredIn, Makes
      <4> QED
        BY <1>3, <3>1, <4>1, NoneIsNoJob
    <3>2. CASE q # p
      BY <1>7, <3>2 DEF WritersInv
    <3> QED
      BY <3>1, <3>2
  <2> QED
    BY <2>2 DEF WritersInv
<1>9. SpentInv' /\ OriginInv'
  BY <1>3 DEF SpentInv, SpentOnce, OriginInv, UsedUp, AnsweredIn
<1>10. AuditInv'
  <2>1. \A op, phase : Known(op, phase) => Known(op, phase)'
    BY <1>3 DEF Known
  <2>2. Known(j.op, "prepared")'
    <3>1. AuditEvent(j, "prepared") \in log'
      BY <1>3
    <3> QED
      BY <1>5, <3>1 DEF Known
  <2>3. \A e \in log' : e \in log \/ e.phase = "prepared"
    BY <1>3, <1>5
  <2>4. ASSUME NEW q \in Procs
        PROVE  /\ pc'[q] \in {"commit", "output", "deliver"} =>
                      job'[q].action # "prune"
               /\ pc'[q] \notin {"idle", "prune_audit"}
                    /\ job'[q].action # "prune" =>
                      Known(job[q].op, "prepared")'
               /\ pc'[q] \in {"output", "deliver"} =>
                      Known(job[q].op, "committed")'
               /\ pc'[q] = "output" => job'[q].action = "consent_consume"
               /\ pc'[q] = "deliver" /\ job'[q].action = "consent_consume" =>
                      job'[q].op \in released'
    <3>1. CASE q = p
      BY <1>2, <1>7, <2>2, <3>1 DEF Known
    <3>2. CASE q # p
      BY <1>3, <1>7, <2>1, <3>2 DEF AuditInv, Known
    <3> QED
      BY <3>1, <3>2
  <2>5. /\ \A op \in released' :
             Known(op, "prepared")' /\ Known(op, "committed")'
        /\ \A e \in log' :
             e.action = "consent_consume" /\ e.phase = "delivered" =>
               e.op \in released'
    BY <1>3, <2>1, <2>3 DEF AuditInv
  <2> QED
    BY <2>4, <2>5 DEF AuditInv
<1> QED
  BY <1>6, <1>8, <1>9, <1>10

(***************************************************************************)
(* The five operations that announce a job.                                *)
(***************************************************************************)
LEMMA CreateKeepsIInv ==
  ASSUME IInv, NEW p \in Procs, create_consent_request(p)
  PROVE  IInv'
<1> USE DEF IInv
<1>1. PICK r \in RequestIds, scope \in Scopes :
        /\ requests[r] = Absent
        /\ \A t \in TokenIds : origin[t] # r
        /\ Announce(p, "consent_request", scope, r, SomeToken,
             [requests EXCEPT ![r] =
                [scope |-> scope, expires |-> now + RequestTtl,
                 resolved |-> 0, status |-> "pending"]],
             grants)
  BY DEF create_consent_request
<1>2. [scope |-> scope, expires |-> now + RequestTtl,
       resolved |-> 0, status |-> "pending"] \in Request
  BY BoundsAssumption DEF TypeOK, Request
<1>3. PICK rs \in Requests :
        rs = [requests EXCEPT ![r] =
                [scope |-> scope, expires |-> now + RequestTtl,
                 resolved |-> 0, status |-> "pending"]]
  BY <1>2 DEF TypeOK, Requests
<1>4. \A q \in RequestIds \ {r} : rs[q] = requests[q]
  BY <1>3 DEF TypeOK, Requests
<1>5. Edit([op |-> ops + 1, action |-> "consent_request", scope |-> scope,
            request |-> r, token |-> SomeToken,
            requests |-> rs, grants |-> grants])
  BY <1>1, <1>4 DEF Edit, Makes, SpentInv, OriginInv, AnsweredIn, TypeOK
<1>6. /\ Announce(p, "consent_request", scope, r, SomeToken, rs, grants)
      /\ Enter(p)
  BY <1>1, <1>3 DEF create_consent_request
<1>7. /\ "consent_request" \in Actions \ {"prune"}
      /\ grants \in Grants
  BY DEF Actions, TypeOK
<1> QED
  BY <1>5, <1>6, <1>7, SomeIds, AnnounceKeepsIInv

(***************************************************************************)
(* A fresh token can be added to the file in place.                        *)
(***************************************************************************)
LEMMA NewGrantEdit ==
  ASSUME IInv, NEW t \in TokenIds, FreshToken(t), NEW g \in Grant
  PROVE  \E gs \in Grants :
           /\ gs = [grants EXCEPT ![t] = g]
           /\ \A u \in TokenIds :
                /\ born[u] # 0 /\ UsedUp(grants, u) => UsedUp(gs, u)
                /\ gs[u] # Absent => born[u] # 0 \/ u = t
<1> USE DEF IInv
<1>1. PICK gs \in Grants : gs = [grants EXCEPT ![t] = g]
  BY DEF TypeOK, Grants
<1>2. \A u \in TokenIds \ {t} : gs[u] = grants[u]
  BY <1>1 DEF TypeOK, Grants
<1>3. \A u \in TokenIds :
        born[u] # 0 /\ UsedUp(grants, u) => UsedUp(gs, u)
  BY <1>2 DEF UsedUp, FreshToken
<1>4. \A u \in TokenIds : gs[u] # Absent => born[u] # 0 \/ u = t
  BY <1>2 DEF SpentInv
<1> HIDE DEF IInv
<1> QED
  BY <1>1, <1>3, <1>4

LEMMA NewGrantType ==
  ASSUME IInv, NEW scope \in Scopes, NEW ttl \in 1 .. MaxTtl
  PROVE  NewGrant(scope, ttl) \in Grant
BY BoundsAssumption DEF IInv, TypeOK, NewGrant, Grant

LEMMA IssueKeepsIInv ==
  ASSUME IInv, NEW p \in Procs, issue_consent(p)
  PROVE  IInv'
<1> USE DEF IInv
<1>1. PICK t \in TokenIds, scope \in Scopes, ttl \in 1 .. MaxTtl :
        /\ FreshToken(t)
        /\ Announce(p, "consent_grant", scope, SomeRequest, t, requests,
                    [grants EXCEPT ![t] = NewGrant(scope, ttl)])
  BY DEF issue_consent
<1>2. PICK gs \in Grants :
        /\ gs = [grants EXCEPT ![t] = NewGrant(scope, ttl)]
        /\ \A u \in TokenIds :
              /\ born[u] # 0 /\ UsedUp(grants, u) => UsedUp(gs, u)
              /\ gs[u] # Absent => born[u] # 0 \/ u = t
  BY <1>1, NewGrantEdit, NewGrantType
<1>3. PICK j : j = [op |-> ops + 1, action |-> "consent_grant",
                    scope |-> scope, request |-> SomeRequest, token |-> t,
                    requests |-> requests, grants |-> gs]
  OBVIOUS
<1>4. Edit(j)
  <2>1. /\ j.op # 0 /\ j.action = "consent_grant" /\ j.token = t
        /\ j.requests = requests /\ j.grants = gs
    BY <1>3 DEF TypeOK
  <2> QED
    BY <1>2, <2>1 DEF Edit, Makes, OriginInv
<1>5. /\ Announce(p, "consent_grant", scope, SomeRequest, t, requests, gs)
      /\ Enter(p)
  BY <1>1, <1>2 DEF issue_consent
<1>6. /\ "consent_grant" \in Actions \ {"prune"}
      /\ requests \in Requests
  BY DEF Actions, TypeOK
<1> QED
  BY <1>3, <1>4, <1>5, <1>6, SomeIds, AnnounceKeepsIInv

(***************************************************************************)
(* A pending request has no token yet, so answering it disturbs none.      *)
(***************************************************************************)
LEMMA ResolvedEdit ==
  ASSUME IInv, NEW r \in RequestIds, Resolvable(r),
         NEW status \in {"approved", "denied"},
         NEW rs, rs = Resolved(r, status)
  PROVE  /\ rs \in Requests
         /\ \A t \in TokenIds :
              /\ origin[t] # r
              /\ origin[t] # None => AnsweredIn(rs, origin[t])
         /\ status = "approved" => AnsweredIn(rs, r)
<1> USE DEF IInv
<1>1. requests[r] \in Request /\ requests[r].status = "pending"
  BY DEF Resolvable, TypeOK, Requests
<1>2. [requests[r] EXCEPT !.status = status, !.resolved = now] \in Request
  BY <1>1 DEF TypeOK, Request
<1>3. rs = [requests EXCEPT ![r] =
              [requests[r] EXCEPT !.status = status, !.resolved = now]]
  BY DEF Resolved, TypeOK, Requests
<1>4. rs \in Requests
  BY <1>2, <1>3 DEF TypeOK, Requests
<1>5. /\ rs[r].status = status
      /\ \A q \in RequestIds \ {r} : rs[q] = requests[q]
  BY <1>1, <1>3 DEF TypeOK, Requests, Request
<1>6. \A t \in TokenIds : origin[t] # r
  BY <1>1, NoneAssumption, IdsAssumption, AbsentAssumption
     DEF OriginInv, AnsweredIn
<1> QED
  BY <1>4, <1>5, <1>6 DEF OriginInv, AnsweredIn, TypeOK

LEMMA ApproveKeepsIInv ==
  ASSUME IInv, NEW p \in Procs, approve(p)
  PROVE  IInv'
<1> USE DEF IInv
<1>1. PICK r \in RequestIds, t \in TokenIds, ttl \in 1 .. MaxTtl :
        /\ Resolvable(r)
        /\ FreshToken(t)
        /\ Announce(p, "consent_approve", requests[r].scope, r, t,
             Resolved(r, "approved"),
             [grants EXCEPT ![t] = NewGrant(requests[r].scope, ttl)])
  BY DEF approve
<1>2. requests[r].scope \in Scopes
  BY <1>1 DEF Resolvable, TypeOK, Requests, Request
<1>3. PICK scope \in Scopes : scope = requests[r].scope
  BY <1>2
<1>4. PICK gs \in Grants :
        /\ gs = [grants EXCEPT ![t] = NewGrant(scope, ttl)]
        /\ \A u \in TokenIds :
              /\ born[u] # 0 /\ UsedUp(grants, u) => UsedUp(gs, u)
              /\ gs[u] # Absent => born[u] # 0 \/ u = t
  <2>1. FreshToken(t) /\ NewGrant(scope, ttl) \in Grant
    BY <1>1, <1>3, NewGrantType
  <2> QED
    BY <2>1, NewGrantEdit
<1>5. PICK rs \in Requests : rs = Resolved(r, "approved")
  BY <1>1, ResolvedEdit
<1>7. /\ \A u \in TokenIds :
           /\ origin[u] # r
           /\ origin[u] # None => AnsweredIn(rs, origin[u])
      /\ AnsweredIn(rs, r)
  BY <1>1, <1>5, ResolvedEdit
<1>6. PICK j : j = [op |-> ops + 1, action |-> "consent_approve",
                    scope |-> scope, request |-> r, token |-> t,
                    requests |-> rs, grants |-> gs]
  OBVIOUS
<1>8. Edit(j)
  <2>1. /\ j.op # 0 /\ j.action = "consent_approve" /\ j.token = t
        /\ j.request = r /\ j.requests = rs /\ j.grants = gs
    BY <1>6 DEF TypeOK
  <2> QED
    BY <1>4, <1>7, <2>1 DEF Edit, Makes
<1>9. /\ Announce(p, "consent_approve", scope, r, t, rs, gs)
      /\ Enter(p)
  BY <1>1, <1>3, <1>4, <1>5 DEF approve
<1>10. "consent_approve" \in Actions \ {"prune"}
  BY DEF Actions
<1> QED
  BY <1>6, <1>8, <1>9, <1>10, AnnounceKeepsIInv

LEMMA DenyKeepsIInv ==
  ASSUME IInv, NEW p \in Procs, deny(p)
  PROVE  IInv'
<1> USE DEF IInv
<1>1. PICK r \in RequestIds :
        /\ Resolvable(r)
        /\ Announce(p, "consent_deny", requests[r].scope, r, SomeToken,
                    Resolved(r, "denied"), grants)
  BY DEF deny
<1>2. requests[r].scope \in Scopes
  BY <1>1 DEF Resolvable, TypeOK, Requests, Request
<1>3. PICK scope \in Scopes : scope = requests[r].scope
  BY <1>2
<1>4. PICK rs \in Requests : rs = Resolved(r, "denied")
  BY <1>1, ResolvedEdit
<1>5. \A u \in TokenIds : origin[u] # None => AnsweredIn(rs, origin[u])
  BY <1>1, <1>4, ResolvedEdit
<1>6. Edit([op |-> ops + 1, action |-> "consent_deny", scope |-> scope,
            request |-> r, token |-> SomeToken,
            requests |-> rs, grants |-> grants])
  BY <1>5 DEF Edit, Makes, SpentInv, TypeOK
<1>7. /\ Announce(p, "consent_deny", scope, r, SomeToken, rs, grants)
      /\ Enter(p)
  BY <1>1, <1>3, <1>4 DEF deny
<1>8. /\ "consent_deny" \in Actions \ {"prune"}
      /\ grants \in Grants
  BY DEF Actions, TypeOK
<1> QED
  BY <1>6, <1>7, <1>8, SomeIds, AnnounceKeepsIInv

LEMMA ConsumeKeepsIInv ==
  ASSUME IInv, NEW p \in Procs, prepare_consent_consumption(p)
  PROVE  IInv'
<1> USE DEF IInv
<1>1. PICK t \in handed :
        /\ grants[t] # Absent /\ Consumable(t, grants[t].scope)
        /\ Announce(p, "consent_consume", grants[t].scope, SomeRequest, t,
             requests,
             [grants EXCEPT ![t].used = TRUE, ![t].used_at = now])
  BY DEF prepare_consent_consumption
<1>2. t \in TokenIds /\ grants[t] \in Grant /\ ~grants[t].used
  BY <1>1 DEF TypeOK, Grants, Consumable
<1>3. PICK scope \in Scopes : scope = grants[t].scope
  BY <1>2 DEF Grant
<1>4. [grants[t] EXCEPT !.used = TRUE, !.used_at = now] \in Grant
  BY <1>2 DEF TypeOK, Grant
<1>5. [grants EXCEPT ![t].used = TRUE, ![t].used_at = now]
        = [grants EXCEPT ![t] =
             [grants[t] EXCEPT !.used = TRUE, !.used_at = now]]
  BY <1>2 DEF TypeOK, Grants
<1>6. PICK gs \in Grants :
        gs = [grants EXCEPT ![t].used = TRUE, ![t].used_at = now]
  BY <1>4, <1>5 DEF TypeOK, Grants
<1>7. /\ gs[t].used
      /\ \A u \in TokenIds \ {t} : gs[u] = grants[u]
  BY <1>2, <1>5, <1>6 DEF TypeOK, Grants, Grant
<1>8. Edit([op |-> ops + 1, action |-> "consent_consume", scope |-> scope,
            request |-> SomeRequest, token |-> t,
            requests |-> requests, grants |-> gs])
  BY <1>1, <1>2, <1>7
     DEF Edit, Makes, SpentInv, OriginInv, UsedUp, TypeOK
<1>9. /\ Announce(p, "consent_consume", scope, SomeRequest, t, requests, gs)
      /\ Enter(p)
  BY <1>1, <1>3, <1>6 DEF prepare_consent_consumption
<1>10. /\ "consent_consume" \in Actions \ {"prune"}
       /\ requests \in Requests
  BY DEF Actions, TypeOK
<1> QED
  BY <1>2, <1>8, <1>9, <1>10, SomeIds, AnnounceKeepsIInv

(***************************************************************************)
(* The other operations.  Most leave the file and its history alone; the   *)
(* lemma says what they must not break.                                    *)
(***************************************************************************)
LEMMA FileUntouched ==
  ASSUME IInv, NEW p \in Procs,
         UNCHANGED <<requests, grants, born, origin, spent>>,
         UNCHANGED lock \/ (lock = p /\ lock' = None),
         pc'[p] # "write",
         pc'[p] # "idle" => job'[p] = job[p] /\ pc[p] # "idle",
         \A q \in Procs \ {p} : pc'[q] = pc[q] /\ job'[q] = job[q]
  PROVE  WritersInv' /\ SpentInv' /\ OriginInv'
<1> USE DEF IInv
<1>1. ASSUME NEW q \in Procs
      PROVE  /\ pc'[q] # "idle" => job'[q] # None
             /\ pc'[q] = "write" => lock' = q /\ Edit(job[q])'
  <2>1. CASE q = p
    BY <2>1 DEF WritersInv
  <2>2. CASE q # p
    BY <2>2 DEF WritersInv, Edit, UsedUp, AnsweredIn, Makes
  <2> QED
    BY <2>1, <2>2
<1>2. SpentInv' /\ OriginInv'
  BY DEF SpentInv, SpentOnce, OriginInv, UsedUp, AnsweredIn
<1> QED
  BY <1>1, <1>2 DEF WritersInv

LEMMA RefusalKeepsIInv ==
  ASSUME IInv, NEW p \in Procs, ConsumptionRefused(p)
  PROVE  IInv'
<1> USE DEF IInv
<1>1. /\ ops' = ops + 1
      /\ UNCHANGED <<requests, grants, lock, pc, job, now, handed, born,
                     origin, spent, released, forgotten>>
      /\ pc[p] = "idle"
  BY DEF ConsumptionRefused, Enter, state, process, history
<1>2. PICK scope \in Scopes :
        log' = log \cup {[op |-> ops + 1, action |-> "consent_consume",
                          scope |-> scope, phase |-> "denied", at |-> now]}
  BY DEF ConsumptionRefused
<1>3. PICK e \in Event : log' = log \cup {e} /\ e.phase = "denied"
  <2>1. [op |-> ops + 1, action |-> "consent_consume", scope |-> scope,
         phase |-> "denied", at |-> now] \in Event
    BY <1>2 DEF TypeOK, Event, Actions, Phases
  <2> QED
    BY <1>2, <2>1
<1>4. TypeOK'
  BY <1>1, <1>3 DEF TypeOK
<1>5. WritersInv' /\ SpentInv' /\ OriginInv'
  BY <1>1, FileUntouched
<1>6. AuditInv'
  <2>1. \A op, phase : Known(op, phase) => Known(op, phase)'
    BY <1>1, <1>3 DEF Known
  <2>2. \A q \in Procs : \A phase :
           Known(job[q].op, phase) => Known(job[q].op, phase)'
    BY <1>1, <2>1 DEF Known
  <2> QED
    BY <1>1, <1>3, <2>1, <2>2 DEF AuditInv
<1> QED
  BY <1>4, <1>5, <1>6

LEMMA PruneKeepsIInv ==
  ASSUME IInv, NEW p \in Procs, prune_consent_records(p)
  PROVE  IInv'
<1> USE DEF IInv
<1>1. /\ lock' = p /\ lock = None
      /\ pc' = [pc EXCEPT ![p] = "write"]
      /\ UNCHANGED <<requests, grants, log, now, ops, handed, born, origin,
                     spent, released, forgotten>>
  BY DEF prune_consent_records, StateLockFree, state, history
<1>2. PICK scope \in Scopes :
        job' = [job EXCEPT ![p] =
                 [op |-> 0, action |-> "prune", scope |-> scope,
                  request |-> SomeRequest, token |-> SomeToken,
                  requests |->
                    [r \in RequestIds |->
                       IF requests[r] # Absent /\ RequestEnded(requests[r])
                       THEN Absent ELSE requests[r]],
                  grants |->
                    [t \in TokenIds |->
                       IF grants[t] # Absent /\ GrantEnded(grants[t])
                       THEN Absent ELSE grants[t]]]]
  BY DEF prune_consent_records
<1>3. PICK rs \in Requests :
        rs = [r \in RequestIds |->
                IF requests[r] # Absent /\ RequestEnded(requests[r])
                THEN Absent ELSE requests[r]]
  BY DEF TypeOK, Requests
<1>4. PICK gs \in Grants :
        gs = [t \in TokenIds |->
                IF grants[t] # Absent /\ GrantEnded(grants[t])
                THEN Absent ELSE grants[t]]
  BY DEF TypeOK, Grants
<1>5. PICK j \in Job :
        j = [op |-> 0, action |-> "prune", scope |-> scope,
             request |-> SomeRequest, token |-> SomeToken,
             requests |-> rs, grants |-> gs]
  BY <1>2, <1>3, <1>4, SomeIds, JobType DEF Actions
<1>6. job' = [job EXCEPT ![p] = j]
  BY <1>2, <1>3, <1>4, <1>5
<1>7. TypeOK'
  BY <1>1, <1>5, <1>6 DEF TypeOK
<1>8. /\ \A r \in RequestIds : rs[r] \in {Absent, requests[r]}
      /\ \A t \in TokenIds : gs[t] \in {Absent, grants[t]}
  BY <1>3, <1>4
<1>9. j.action = "prune" /\ j.requests = rs /\ j.grants = gs
  BY <1>5
<1>10. Edit(j)
  BY <1>8, <1>9
     DEF Edit, Makes, SpentInv, OriginInv, UsedUp, AnsweredIn, TypeOK
<1>11. /\ \A q \in Procs : pc[q] # "write"
       /\ \A q \in Procs \ {p} : pc'[q] = pc[q] /\ job'[q] = job[q]
       /\ pc'[p] = "write" /\ job'[p] = j
  BY <1>1, <1>6, NoneAssumption DEF TypeOK, WritersInv
<1>12. WritersInv'
  <2>1. ASSUME NEW q \in Procs
        PROVE  /\ pc'[q] # "idle" => job'[q] # None
               /\ pc'[q] = "write" => lock' = q /\ Edit(job[q])'
    <3>1. CASE q = p
      <4>1. Edit(job[q])'
        BY <1>1, <1>10, <1>11, <3>1 DEF Edit, UsedUp, AnsweredIn, Makes
      <4> QED
        BY <1>1, <1>5, <1>11, <3>1, <4>1, NoneIsNoJob
    <3>2. CASE q # p
      BY <1>11, <3>2 DEF WritersInv
    <3> QED
      BY <3>1, <3>2
  <2> QED
    BY <2>1 DEF WritersInv
<1>13. SpentInv' /\ OriginInv'
  BY <1>1 DEF SpentInv, SpentOnce, OriginInv, UsedUp, AnsweredIn
<1>14. AuditInv'
  <2>1. ASSUME NEW q \in Procs
        PROVE  /\ pc'[q] \in {"commit", "output", "deliver"} =>
                      job'[q].action # "prune"
               /\ pc'[q] \notin {"idle", "prune_audit"}
                    /\ job'[q].action # "prune" =>
                      Known(job[q].op, "prepared")'
               /\ pc'[q] \in {"output", "deliver"} =>
                      Known(job[q].op, "committed")'
               /\ pc'[q] = "output" => job'[q].action = "consent_consume"
               /\ pc'[q] = "deliver" /\ job'[q].action = "consent_consume" =>
                      job'[q].op \in released'
    <3>1. CASE q = p
      BY <1>9, <1>11, <3>1
    <3>2. CASE q # p
      BY <1>1, <1>11, <3>2 DEF AuditInv, Known
    <3> QED
      BY <3>1, <3>2
  <2> QED
    BY <1>1, <2>1 DEF AuditInv, Known
<1> QED
  BY <1>7, <1>12, <1>13, <1>14

(***************************************************************************)
(* Writing the file: what was decided under the lock becomes the file, and *)
(* the history with it.                                                    *)
(***************************************************************************)
LEMMA WriteKeepsIInv ==
  ASSUME IInv, NEW p \in Procs, write_state(p)
  PROVE  IInv'
<1> USE DEF IInv
<1>1. PICK j \in Job : j = job[p]
  BY DEF write_state, WritersInv, TypeOK
<1>2. Edit(j) /\ pc[p] = "write" /\ lock = p
  BY <1>1 DEF write_state, WritersInv
<1>3. /\ requests' = j.requests /\ grants' = j.grants /\ lock' = None
      /\ pc' = [pc EXCEPT ![p] = IF j.action = "prune"
                                 THEN "prune_audit" ELSE "commit"]
      /\ born' = [t \in TokenIds |-> IF Makes(j, t) THEN j.op ELSE born[t]]
      /\ origin' = [t \in TokenIds |->
                      IF Makes(j, t) /\ j.action = "consent_approve"
                      THEN j.request ELSE origin[t]]
      /\ spent' = IF j.action = "consent_consume"
                  THEN spent \cup {[op |-> j.op, token |-> j.token]}
                  ELSE spent
      /\ UNCHANGED <<log, job, now, ops, handed, released, forgotten>>
  BY <1>1 DEF write_state
<1>4. /\ j.requests \in Requests /\ j.grants \in Grants
      /\ j.op \in Nat /\ j.token \in TokenIds /\ j.request \in RequestIds
  BY DEF Job
<1>5. TypeOK'
  <2>1. /\ requests' \in Requests /\ grants' \in Grants
        /\ pc' \in [Procs -> {"idle", "write", "commit", "output", "deliver",
                              "prune_audit"}]
        /\ born' \in [TokenIds -> Nat]
        /\ origin' \in [TokenIds -> RequestIds \cup {None}]
    BY <1>3, <1>4 DEF TypeOK
  <2>2. spent' \subseteq [op : Nat, token : TokenIds]
    BY <1>3, <1>4 DEF TypeOK
  <2> QED
    BY <1>3, <2>1, <2>2 DEF TypeOK
<1>6. /\ \A q \in Procs \ {p} : pc'[q] = pc[q] /\ pc[q] # "write"
      /\ pc'[p] = IF j.action = "prune" THEN "prune_audit" ELSE "commit"
      /\ \A q \in Procs : job'[q] = job[q]
  BY <1>2, <1>3 DEF TypeOK, WritersInv
<1>7. WritersInv'
  BY <1>2, <1>6 DEF WritersInv
<1>8. SpentInv'
  <2>1. ASSUME NEW t \in TokenIds, grants'[t] # Absent
        PROVE  born'[t] # 0
    BY <1>2, <1>3, <2>1 DEF Edit
  <2>2. \A t \in TokenIds : born[t] # 0 => born'[t] # 0
    BY <1>2, <1>3 DEF Edit
  <2>3. ASSUME NEW s \in spent
        PROVE  born'[s.token] # 0 /\ UsedUp(grants, s.token)'
    <3>1. s.token \in TokenIds
      BY DEF TypeOK
    <3>2. UsedUp(j.grants, s.token)
      BY <1>2, <3>1 DEF Edit, SpentInv
    <3> QED
      BY <1>3, <2>2, <3>1, <3>2 DEF SpentInv, UsedUp
  <2>4. CASE j.action = "consent_consume"
    <3>1. PICK n : n = [op |-> j.op, token |-> j.token]
      OBVIOUS
    <3>2. spent' = spent \cup {n} /\ n.token = j.token
      BY <1>3, <2>4, <3>1
    <3>3. ~UsedUp(grants, j.token) /\ UsedUp(j.grants, j.token)
      BY <1>2, <2>4 DEF Edit
    <3>4. born'[n.token] # 0 /\ UsedUp(grants, n.token)'
      BY <1>3, <1>4, <2>2, <3>2, <3>3 DEF SpentInv, UsedUp
    <3>5. \A s \in spent : s.token # n.token
      BY <3>2, <3>3 DEF SpentInv
    <3>6. SpentOnce'
      BY <3>2, <3>5 DEF SpentInv, SpentOnce
    <3> QED
      BY <2>1, <2>3, <3>2, <3>4, <3>6 DEF SpentInv
  <2>5. CASE j.action # "consent_consume"
    BY <1>3, <2>1, <2>3, <2>5 DEF SpentInv, SpentOnce
  <2> QED
    BY <2>4, <2>5
<1>9. OriginInv'
  <2>1. CASE j.action = "consent_approve"
    <3>1. /\ AnsweredIn(requests, j.request)'
          /\ \A t \in TokenIds : origin[t] # j.request
      BY <1>2, <1>3, <2>1 DEF Edit, AnsweredIn
    <3>2. \A t \in TokenIds :
             origin'[t] = IF t = j.token THEN j.request ELSE origin[t]
      BY <1>3, <2>1 DEF Makes
    <3>3. \A t \in TokenIds : origin[t] # None =>
             AnsweredIn(requests, origin[t])'
      BY <1>2, <1>3 DEF Edit, AnsweredIn
    <3> QED
      BY <3>1, <3>2, <3>3 DEF OriginInv, AnsweredIn
  <2>2. CASE j.action # "consent_approve"
    <3>1. \A t \in TokenIds : origin'[t] = origin[t]
      BY <1>3, <2>2
    <3> QED
      BY <1>2, <1>3, <3>1 DEF OriginInv, Edit, AnsweredIn
  <2> QED
    BY <2>1, <2>2
<1>10. AuditInv'
  <2>1. \A q \in Procs : \A phase :
           Known(job[q].op, phase) => Known(job[q].op, phase)'
    BY <1>3 DEF Known
  <2>2. ASSUME NEW q \in Procs
        PROVE  /\ pc'[q] \in {"commit", "output", "deliver"} =>
                      job'[q].action # "prune"
               /\ pc'[q] \notin {"idle", "prune_audit"}
                    /\ job'[q].action # "prune" =>
                      Known(job[q].op, "prepared")'
               /\ pc'[q] \in {"output", "deliver"} =>
                      Known(job[q].op, "committed")'
               /\ pc'[q] = "output" => job'[q].action = "consent_consume"
               /\ pc'[q] = "deliver" /\ job'[q].action = "consent_consume" =>
                      job'[q].op \in released'
    <3>1. CASE q = p
      BY <1>1, <1>2, <1>6, <2>1, <3>1 DEF AuditInv
    <3>2. CASE q # p
      BY <1>3, <1>6, <2>1, <3>2 DEF AuditInv
    <3> QED
      BY <3>1, <3>2
  <2> QED
    BY <1>3, <2>2 DEF AuditInv, Known
<1> QED
  BY <1>5, <1>7, <1>8, <1>9, <1>10

(***************************************************************************)
(* Recording a phase of the operation in hand, or finishing it, leaves the *)
(* rest of the audit log alone.                                            *)
(***************************************************************************)
LEMMA CommittedKeepsIInv ==
  ASSUME IInv, NEW p \in Procs, committed(p)
  PROVE  IInv'
<1> USE DEF IInv
<1>1. PICK j \in Job : j = job[p]
  BY DEF committed, WritersInv, TypeOK
<1>2. PICK e : e = AuditEvent(j, "committed")
  OBVIOUS
<1>3. /\ e \in Event /\ e.op = j.op /\ e.phase = "committed"
  BY <1>2 DEF AuditEvent, Event, Phases, Job, TypeOK
<1>4. /\ log' = log \cup {e} /\ pc[p] = "commit"
      /\ pc' = [pc EXCEPT ![p] = IF j.action = "consent_consume"
                                 THEN "output" ELSE "deliver"]
      /\ UNCHANGED <<requests, grants, lock, job, now, ops, handed, born,
                     origin, spent, released, forgotten>>
  BY <1>1, <1>2 DEF committed, state, history
<1>5. TypeOK'
  BY <1>3, <1>4 DEF TypeOK
<1>6. /\ \A q \in Procs \ {p} : pc'[q] = pc[q]
      /\ pc'[p] = IF j.action = "consent_consume" THEN "output" ELSE "deliver"
      /\ \A q \in Procs : job'[q] = job[q]
  BY <1>4 DEF TypeOK
<1>7. WritersInv' /\ SpentInv' /\ OriginInv'
  BY <1>4, <1>6, FileUntouched
<1>8. AuditInv'
  <2>1. \A op, phase : Known(op, phase) => Known(op, phase)'
    BY <1>4 DEF Known
  <2>2. Known(j.op, "committed")'
    BY <1>3, <1>4 DEF Known
  <2>3. ASSUME NEW q \in Procs
        PROVE  /\ pc'[q] \in {"commit", "output", "deliver"} =>
                      job'[q].action # "prune"
               /\ pc'[q] \notin {"idle", "prune_audit"}
                    /\ job'[q].action # "prune" =>
                      Known(job[q].op, "prepared")'
               /\ pc'[q] \in {"output", "deliver"} =>
                      Known(job[q].op, "committed")'
               /\ pc'[q] = "output" => job'[q].action = "consent_consume"
               /\ pc'[q] = "deliver" /\ job'[q].action = "consent_consume" =>
                      job'[q].op \in released'
    <3>1. CASE q = p
      BY <1>1, <1>4, <1>6, <2>1, <2>2, <3>1 DEF AuditInv, Known
    <3>2. CASE q # p
      BY <1>4, <1>6, <2>1, <3>2 DEF AuditInv, Known
    <3> QED
      BY <3>1, <3>2
  <2>4. /\ \A op \in released' :
             Known(op, "prepared")' /\ Known(op, "committed")'
        /\ \A x \in log' :
             x.action = "consent_consume" /\ x.phase = "delivered" =>
               x.op \in released'
    BY <1>3, <1>4, <2>1 DEF AuditInv
  <2> QED
    BY <2>3, <2>4 DEF AuditInv
<1> QED
  BY <1>5, <1>7, <1>8

LEMMA OutputKeepsIInv ==
  ASSUME IInv, NEW p \in Procs, Output(p)
  PROVE  IInv'
<1> USE DEF IInv
<1>1. PICK j \in Job : j = job[p]
  BY DEF Output, WritersInv, TypeOK
<1>2. PICK e : e = AuditEvent(j, "outcome_unknown")
  OBVIOUS
<1>3. e \in Event /\ e.phase = "outcome_unknown"
  BY <1>2 DEF AuditEvent, Event, Phases, Job, TypeOK
<1>4. /\ pc[p] = "output" /\ log' \in {log, log \cup {e}}
      /\ released' \in {released, released \cup {j.op}}
      /\ \/ /\ j.op \in released'
            /\ pc' = [pc EXCEPT ![p] = "deliver"] /\ job' = job
         \/ /\ pc' = [pc EXCEPT ![p] = "idle"]
            /\ job' = [job EXCEPT ![p] = None]
      /\ UNCHANGED <<requests, grants, lock, now, ops, handed, born, origin,
                     spent, forgotten>>
  BY <1>1, <1>2 DEF Output, Finish, state
<1>5. TypeOK'
  BY <1>3, <1>4 DEF TypeOK, Job
<1>6. /\ \A q \in Procs \ {p} : pc'[q] = pc[q] /\ job'[q] = job[q]
      /\ \/ pc'[p] = "idle"
         \/ pc'[p] = "deliver" /\ job'[p] = j /\ j.op \in released'
  BY <1>1, <1>4 DEF TypeOK
<1>7. WritersInv' /\ SpentInv' /\ OriginInv'
  BY <1>1, <1>4, <1>6, FileUntouched
<1>8. AuditInv'
  <2>1. \A op, phase : Known(op, phase) => Known(op, phase)'
    BY <1>4 DEF Known
  <2>2. /\ j.action = "consent_consume"
        /\ Known(j.op, "prepared") /\ Known(j.op, "committed")
    BY <1>1, <1>4 DEF AuditInv
  <2>3. /\ Known(j.op, "prepared")' /\ Known(j.op, "committed")'
    BY <1>4, <2>2 DEF Known
  <2>4. ASSUME NEW q \in Procs
        PROVE  /\ pc'[q] \in {"commit", "output", "deliver"} =>
                      job'[q].action # "prune"
               /\ pc'[q] \notin {"idle", "prune_audit"}
                    /\ job'[q].action # "prune" =>
                      Known(job[q].op, "prepared")'
               /\ pc'[q] \in {"output", "deliver"} =>
                      Known(job[q].op, "committed")'
               /\ pc'[q] = "output" => job'[q].action = "consent_consume"
               /\ pc'[q] = "deliver" /\ job'[q].action = "consent_consume" =>
                      job'[q].op \in released'
    <3>1. CASE q = p
      BY <1>6, <2>2, <2>3, <3>1 DEF Known
    <3>2. CASE q # p
      BY <1>4, <1>6, <2>1, <3>2 DEF AuditInv, Known
    <3> QED
      BY <3>1, <3>2
  <2>5. /\ \A op \in released' :
             Known(op, "prepared")' /\ Known(op, "committed")'
        /\ \A x \in log' :
             x.action = "consent_consume" /\ x.phase = "delivered" =>
               x.op \in released'
    BY <1>3, <1>4, <2>1, <2>3 DEF AuditInv
  <2> QED
    BY <2>4, <2>5 DEF AuditInv
<1> QED
  BY <1>5, <1>7, <1>8

LEMMA DeliveredKeepsIInv ==
  ASSUME IInv, NEW p \in Procs, delivered(p)
  PROVE  IInv'
<1> USE DEF IInv
<1>1. PICK j \in Job : j = job[p]
  BY DEF delivered, WritersInv, TypeOK
<1>2. PICK e : e = AuditEvent(j, "delivered")
  OBVIOUS
<1>3. e \in Event /\ e.op = j.op /\ e.action = j.action
  BY <1>2 DEF AuditEvent, Event, Phases, Job, TypeOK
<1>4. /\ pc[p] = "deliver" /\ log' = log \cup {e}
      /\ pc' = [pc EXCEPT ![p] = "idle"]
      /\ job' = [job EXCEPT ![p] = None]
      /\ handed' \subseteq TokenIds
      /\ UNCHANGED <<requests, grants, lock, now, ops, born, origin,
                     spent, released, forgotten>>
  BY <1>1, <1>2 DEF delivered, Finish, state, history, TypeOK
<1>5. TypeOK'
  BY <1>3, <1>4 DEF TypeOK
<1>6. /\ \A q \in Procs \ {p} : pc'[q] = pc[q] /\ job'[q] = job[q]
      /\ pc'[p] = "idle"
  BY <1>4 DEF TypeOK
<1>7. WritersInv' /\ SpentInv' /\ OriginInv'
  BY <1>4, <1>6, FileUntouched
<1>8. AuditInv'
  <2>1. \A op, phase : Known(op, phase) => Known(op, phase)'
    BY <1>4 DEF Known
  <2>2. j.action = "consent_consume" => j.op \in released
    BY <1>1, <1>4 DEF AuditInv
  <2>3. ASSUME NEW q \in Procs
        PROVE  /\ pc'[q] \in {"commit", "output", "deliver"} =>
                      job'[q].action # "prune"
               /\ pc'[q] \notin {"idle", "prune_audit"}
                    /\ job'[q].action # "prune" =>
                      Known(job[q].op, "prepared")'
               /\ pc'[q] \in {"output", "deliver"} =>
                      Known(job[q].op, "committed")'
               /\ pc'[q] = "output" => job'[q].action = "consent_consume"
               /\ pc'[q] = "deliver" /\ job'[q].action = "consent_consume" =>
                      job'[q].op \in released'
    <3>1. CASE q = p
      BY <1>6, <3>1
    <3>2. CASE q # p
      BY <1>4, <1>6, <2>1, <3>2 DEF AuditInv, Known
    <3> QED
      BY <3>1, <3>2
  <2>4. /\ \A op \in released' :
             Known(op, "prepared")' /\ Known(op, "committed")'
        /\ \A x \in log' :
             x.action = "consent_consume" /\ x.phase = "delivered" =>
               x.op \in released'
    BY <1>3, <1>4, <2>1, <2>2 DEF AuditInv
  <2> QED
    BY <2>3, <2>4 DEF AuditInv
<1> QED
  BY <1>5, <1>7, <1>8

(***************************************************************************)
(* Pruning the audit log forgets what it removes.                          *)
(***************************************************************************)
LEMMA PruneAuditKeepsIInv ==
  ASSUME IInv, NEW p \in Procs, prune_audit_events(p)
  PROVE  IInv'
<1> USE DEF IInv
<1>1. PICK removed :
        /\ removed = {e \in log : e.at + AuditRetention < now}
        /\ log' = log \ removed
        /\ forgotten' = forgotten \cup {e.op : e \in removed}
  BY DEF prune_audit_events
<1>2. /\ pc' = [pc EXCEPT ![p] = "idle"] /\ pc[p] = "prune_audit"
      /\ job' = [job EXCEPT ![p] = None]
      /\ UNCHANGED <<requests, grants, lock, now, ops, handed, born, origin,
                     spent, released>>
  BY DEF prune_audit_events, Finish, state
<1>3. TypeOK'
  <2>1. log' \subseteq Event /\ forgotten' \subseteq Nat
    BY <1>1 DEF TypeOK, Event
  <2> QED
    BY <1>2, <2>1 DEF TypeOK
<1>4. /\ \A q \in Procs \ {p} : pc'[q] = pc[q] /\ job'[q] = job[q]
      /\ pc'[p] = "idle"
  BY <1>2 DEF TypeOK
<1>5. WritersInv' /\ SpentInv' /\ OriginInv'
  BY <1>2, <1>4, FileUntouched
<1>6. AuditInv'
  <2>1. \A op, phase : Known(op, phase) => Known(op, phase)'
    BY <1>1 DEF Known
  <2>2. ASSUME NEW q \in Procs
        PROVE  /\ pc'[q] \in {"commit", "output", "deliver"} =>
                      job'[q].action # "prune"
               /\ pc'[q] \notin {"idle", "prune_audit"}
                    /\ job'[q].action # "prune" =>
                      Known(job[q].op, "prepared")'
               /\ pc'[q] \in {"output", "deliver"} =>
                      Known(job[q].op, "committed")'
               /\ pc'[q] = "output" => job'[q].action = "consent_consume"
               /\ pc'[q] = "deliver" /\ job'[q].action = "consent_consume" =>
                      job'[q].op \in released'
    <3>1. CASE q = p
      BY <1>4, <3>1
    <3>2. CASE q # p
      <4>1. \A phase : Known(job[q].op, phase) => Known(job[q].op, phase)'
        BY <1>1, <1>4, <3>2 DEF Known
      <4> QED
        BY <1>2, <1>4, <3>2, <4>1 DEF AuditInv
    <3> QED
      BY <3>1, <3>2
  <2> QED
    BY <1>1, <1>2, <2>1, <2>2 DEF AuditInv
<1> QED
  BY <1>3, <1>5, <1>6

(***************************************************************************)
(* A process that dies leaves only its lock behind, and that falls back.   *)
(***************************************************************************)
LEMMA StopKeepsIInv ==
  ASSUME IInv, NEW p \in Procs, Stop(p)
  PROVE  IInv'
<1> USE DEF IInv
<1>1. /\ pc' = [pc EXCEPT ![p] = "idle"]
      /\ job' = [job EXCEPT ![p] = None]
      /\ UNCHANGED lock \/ (lock = p /\ lock' = None)
      /\ UNCHANGED <<requests, grants, log, now, ops, handed, born, origin,
                     spent, released, forgotten>>
  BY DEF Stop, Finish, state, history
<1>2. TypeOK'
  BY <1>1 DEF TypeOK
<1>3. /\ \A q \in Procs \ {p} : pc'[q] = pc[q] /\ job'[q] = job[q]
      /\ pc'[p] = "idle"
  BY <1>1 DEF TypeOK
<1>4. WritersInv' /\ SpentInv' /\ OriginInv'
  BY <1>1, <1>3, FileUntouched
<1>5. AuditInv'
  <2>1. ASSUME NEW q \in Procs
        PROVE  /\ pc'[q] \in {"commit", "output", "deliver"} =>
                      job'[q].action # "prune"
               /\ pc'[q] \notin {"idle", "prune_audit"}
                    /\ job'[q].action # "prune" =>
                      Known(job[q].op, "prepared")'
               /\ pc'[q] \in {"output", "deliver"} =>
                      Known(job[q].op, "committed")'
               /\ pc'[q] = "output" => job'[q].action = "consent_consume"
               /\ pc'[q] = "deliver" /\ job'[q].action = "consent_consume" =>
                      job'[q].op \in released'
    <3>1. CASE q = p
      BY <1>3, <3>1
    <3>2. CASE q # p
      BY <1>1, <1>3, <3>2 DEF AuditInv, Known
    <3> QED
      BY <3>1, <3>2
  <2> QED
    BY <1>1, <2>1 DEF AuditInv, Known
<1> QED
  BY <1>2, <1>4, <1>5

(***************************************************************************)
(* Disposal empties the file while no process is about to write it.        *)
(***************************************************************************)
LEMMA DisposeKeepsIInv ==
  ASSUME IInv, dispose_private_state
  PROVE  IInv'
<1> USE DEF IInv
<1>1. /\ lock = None
      /\ requests' = [r \in RequestIds |-> Absent]
      /\ grants' = [t \in TokenIds |-> Absent]
      /\ \/ log' = {} /\ forgotten' = forgotten \cup {e.op : e \in log}
         \/ UNCHANGED <<log, forgotten>>
      /\ UNCHANGED <<lock, pc, job, now, ops, handed, born, origin, spent,
                     released>>
  BY DEF dispose_private_state, StateLockFree, process
<1>2. TypeOK'
  <2>1. log' \subseteq Event /\ forgotten' \subseteq Nat
    BY <1>1 DEF TypeOK, Event
  <2>2. requests' \in Requests /\ grants' \in Grants
    BY <1>1 DEF Requests, Grants
  <2> QED
    BY <1>1, <2>1, <2>2 DEF TypeOK
<1>3. WritersInv'
  BY <1>1, NoneAssumption DEF WritersInv
<1>4. SpentInv'
  <2>1. \A s \in spent : s.token \in TokenIds
    BY DEF TypeOK
  <2> QED
    BY <1>1, <2>1 DEF SpentInv, SpentOnce, UsedUp
<1>5. OriginInv'
  BY <1>1 DEF OriginInv, AnsweredIn, TypeOK
<1>6. AuditInv'
  <2>1. \A op, phase : Known(op, phase) => Known(op, phase)'
    BY <1>1 DEF Known
  <2>2. \A q \in Procs : \A phase :
           Known(job[q].op, phase) => Known(job[q].op, phase)'
    BY <1>1, <2>1 DEF Known
  <2> QED
    BY <1>1, <2>1, <2>2 DEF AuditInv
<1> QED
  BY <1>2, <1>3, <1>4, <1>5, <1>6

LEMMA TickKeepsIInv == IInv /\ Tick => IInv'
<1> SUFFICES ASSUME IInv, Tick PROVE IInv'
  OBVIOUS
<1> USE DEF IInv
<1>1. /\ now' = now + 1
      /\ UNCHANGED <<requests, grants, log, lock, pc, job, ops, handed, born,
                     origin, spent, released, forgotten>>
  BY DEF Tick, state, process, history
<1>2. TypeOK'
  BY <1>1 DEF TypeOK
<1>3. WritersInv'
  BY <1>1 DEF WritersInv, Edit, UsedUp, AnsweredIn, Makes
<1>4. SpentInv' /\ OriginInv' /\ AuditInv'
  BY <1>1 DEF SpentInv, SpentOnce, OriginInv, AuditInv, UsedUp, AnsweredIn,
              Known
<1> QED
  BY <1>2, <1>3, <1>4

-----------------------------------------------------------------------------

(***************************************************************************)
(* The invariant is inductive.                                             *)
(***************************************************************************)
LEMMA NextKeepsIInv == IInv /\ [Next]_vars => IInv'
<1> SUFFICES ASSUME IInv, [Next]_vars PROVE IInv'
  OBVIOUS
<1>1. ASSUME NEW p \in Procs, Decide(p) PROVE IInv'
  BY <1>1, CreateKeepsIInv, IssueKeepsIInv, ApproveKeepsIInv,
     DenyKeepsIInv, ConsumeKeepsIInv, RefusalKeepsIInv, PruneKeepsIInv
     DEF Decide
<1>2. ASSUME NEW p \in Procs, Proceed(p) PROVE IInv'
  BY <1>2, WriteKeepsIInv, CommittedKeepsIInv, OutputKeepsIInv,
     DeliveredKeepsIInv, PruneAuditKeepsIInv, StopKeepsIInv
     DEF Proceed
<1>3. CASE dispose_private_state
  BY <1>3, DisposeKeepsIInv
<1>4. CASE Tick
  BY <1>4, TickKeepsIInv
<1>5. CASE UNCHANGED vars
  <2>1. UNCHANGED <<requests, grants, log, lock, pc, job, now, ops, handed,
                    born, origin, spent, released, forgotten>>
    BY <1>5 DEF vars, state, process, history
  <2>2. TypeOK'
    BY <2>1 DEF IInv, TypeOK
  <2>3. WritersInv'
    BY <2>1 DEF IInv, WritersInv, Edit, UsedUp, AnsweredIn, Makes
  <2>4. SpentInv' /\ OriginInv' /\ AuditInv'
    BY <2>1 DEF IInv, SpentInv, SpentOnce, OriginInv, AuditInv, UsedUp,
                AnsweredIn, Known
  <2> QED
    BY <2>2, <2>3, <2>4 DEF IInv
<1> QED
  BY <1>1, <1>2, <1>3, <1>4, <1>5 DEF Next

(***************************************************************************)
(* The inductive invariant holds in every reachable state of the consent   *)
(* state, its locks and its audit phases.                                  *)
(***************************************************************************)
THEOREM Invariance == Spec => []IInv
<1>1. Init => IInv
  BY Initially
<1>2. IInv /\ [Next]_vars => IInv'
  BY NextKeepsIInv
<1> QED
  BY <1>1, <1>2, PTL DEF Spec

(***************************************************************************)
(* The consent file, the audit log and every job keep their types.         *)
(***************************************************************************)
THEOREM TypeCorrectness == Spec => []TypeOK
<1>1. IInv => TypeOK
  BY DEF IInv
<1> QED
  BY <1>1, Invariance, PTL

(***************************************************************************)
(* One-time tokens: whatever processes, crashes and disposals do, no token *)
(* is consumed twice (prepare_consent_consumption).                        *)
(***************************************************************************)
THEOREM OneTimeTokens == Spec => []SpentOnce
<1>1. IInv => SpentOnce
  BY DEF IInv, SpentInv
<1> QED
  BY <1>1, Invariance, PTL

(***************************************************************************)
(* A request is answered once: by one token and "approved", or by none     *)
(* (resolve_consent_request).                                              *)
(***************************************************************************)
THEOREM FinalDecisions == Spec => []DecisionsAreFinal
<1>1. IInv => DecisionsAreFinal
  BY DEF IInv, OriginInv, AnsweredIn, DecisionsAreFinal
<1> QED
  BY <1>1, Invariance, PTL

(***************************************************************************)
(* The audit log accounts for every raw value released, and calls none     *)
(* delivered that was not (AuditOperation around the output of get).       *)
(***************************************************************************)
THEOREM AccountedReleases == Spec => []ReleasesAreAccounted
<1>1. IInv => ReleasesAreAccounted
  <2> SUFFICES ASSUME IInv PROVE ReleasesAreAccounted
    OBVIOUS
  <2>1. ASSUME NEW op \in released \ forgotten
        PROVE  {"prepared", "committed"} \subseteq PhasesOf(op)
    <3>1. /\ \E e \in log : e.op = op /\ e.phase = "prepared"
          /\ \E e \in log : e.op = op /\ e.phase = "committed"
      BY <2>1 DEF IInv, AuditInv, Known
    <3> QED
      BY <3>1 DEF PhasesOf
  <2>2. \A e \in log :
           e.action = "consent_consume" /\ e.phase = "delivered" =>
             e.op \in released
    BY DEF IInv, AuditInv
  <2> QED
    BY <2>1, <2>2 DEF ReleasesAreAccounted
<1> QED
  BY <1>1, Invariance, PTL
=============================================================================
