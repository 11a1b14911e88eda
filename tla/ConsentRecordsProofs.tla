------------------------ MODULE ConsentRecordsProofs ------------------------
(***************************************************************************)
(* What the consent file keeps and for how long: its limit of records, the *)
(* trace that a used token leaves in the audit log, and the life of        *)
(* records that can still be answered or used.                             *)
(*                                                                         *)
(* All three rest on what a job about to be written does to the file in    *)
(* place (Change).  It was decided before "prepared" was recorded; it      *)
(* stays true because the job holds the lock, because the clock ends       *)
(* records but never revives one, and because the log only forgets.        *)
(***************************************************************************)
EXTENDS ConsentProofs, FiniteSetTheorems

\* The audit log has the event under a scope, or it has been forgotten.
KnownAs(op, phase, scope) ==
    op \in forgotten
    \/ \E e \in log : e.op = op /\ e.phase = phase /\ e.scope = scope

Small(rs, gs) ==
    /\ IsFiniteSet(Present(rs)) /\ IsFiniteSet(Present(gs))
    /\ Records(rs, gs) <= MaxRecords

\* A job takes no record away that could still be answered or used.
Takes(j) ==
    /\ \A t \in TokenIds : grants[t] # Absent /\ j.grants[t] = Absent =>
         ~Consumable(t, grants[t].scope)
    /\ \A r \in RequestIds : j.requests[r] = Absent => ~Resolvable(r)

\* The grant that a job makes for a token, and the one it uses up.
NewIn(j, t) ==
    /\ Makes(j, t) /\ j.grants[t].scope = j.scope /\ ~j.grants[t].used

UsedIn(j, t) ==
    /\ j.action = "consent_consume" /\ j.token = t /\ t \in handed
    /\ j.scope = grants[t].scope

\* Every grant that a job writes is new or was there under its scope, and
\* one that is used then was used before or is used up by the job.
Follows(j, t) ==
    \/ NewIn(j, t)
    \/ /\ grants[t] # Absent /\ j.grants[t].scope = grants[t].scope
       /\ j.grants[t].used => grants[t].used \/ UsedIn(j, t)

Change(j) ==
    /\ Small(j.requests, j.grants)
    /\ Takes(j)
    /\ \A t \in TokenIds :
         /\ Makes(j, t) => born[t] = 0
         /\ j.grants[t] # Absent => Follows(j, t)

WriteOK(p) ==
    /\ Change(job[p])
    /\ job[p].action # "prune" =>
         KnownAs(job[p].op, "prepared", job[p].scope)

\* The token that a process has written and is about to hand over.
MadeOK(p) ==
    \A t \in TokenIds : Makes(job[p], t) =>
        /\ born[t] = job[p].op /\ born[t] # 0
        /\ grants[t] # Absent => grants[t].scope = job[p].scope

TokenOK(t) ==
    /\ t \in handed =>
         /\ born[t] # 0
         /\ grants[t] # Absent =>
              KnownAs(born[t], "delivered", grants[t].scope)
    /\ grants[t] # Absent /\ grants[t].used =>
         /\ t \in handed
         /\ \E s \in spent : /\ s.token = t
                             /\ KnownAs(s.op, "prepared", grants[t].scope)

RInv ==
    /\ Small(requests, grants)
    /\ \A p \in Procs :
         /\ pc[p] = "write" => WriteOK(p)
         /\ pc[p] \in {"commit", "output", "deliver"} => MadeOK(p)
    /\ \A t \in TokenIds : TokenOK(t)

-----------------------------------------------------------------------------
(* Records and their number.                                               *)

LEMMA SmallTypes ==
    ASSUME NEW rs, NEW gs, IsFiniteSet(Present(rs)), IsFiniteSet(Present(gs))
    PROVE  /\ Cardinality(Present(rs)) \in Nat
           /\ Cardinality(Present(gs)) \in Nat
           /\ Records(rs, gs)
                = Cardinality(Present(rs)) + Cardinality(Present(gs))
  BY FS_CardinalityType DEF Records

\* A file that has no record that another lacks is as small.
LEMMA FewerRecords ==
    ASSUME NEW rs, NEW gs, NEW rs1, NEW gs1, Small(rs, gs),
           Present(rs1) \subseteq Present(rs), Present(gs1) \subseteq Present(gs)
    PROVE  Small(rs1, gs1)
<1>1. /\ IsFiniteSet(Present(rs)) /\ IsFiniteSet(Present(gs))
      /\ Records(rs, gs) <= MaxRecords
  BY DEF Small
<1>2. /\ IsFiniteSet(Present(rs1))
      /\ Cardinality(Present(rs1)) <= Cardinality(Present(rs))
  BY <1>1, FS_Subset
<1>3. /\ IsFiniteSet(Present(gs1))
      /\ Cardinality(Present(gs1)) <= Cardinality(Present(gs))
  BY <1>1, FS_Subset
<1>4. Records(rs1, gs1) <= Records(rs, gs)
  <2>1. Records(rs, gs) = Cardinality(Present(rs)) + Cardinality(Present(gs))
        /\ Cardinality(Present(rs)) \in Nat /\ Cardinality(Present(gs)) \in Nat
    BY <1>1, SmallTypes
  <2>2. Records(rs1, gs1)
          = Cardinality(Present(rs1)) + Cardinality(Present(gs1))
        /\ Cardinality(Present(rs1)) \in Nat
        /\ Cardinality(Present(gs1)) \in Nat
    BY <1>2, <1>3, SmallTypes
  <2> QED
    BY <2>1, <2>2, <1>2, <1>3
<1>5. Records(rs, gs) \in Nat /\ Records(rs1, gs1) \in Nat
  BY <1>1, <1>2, <1>3, SmallTypes
<1> QED
  BY <1>1, <1>2, <1>3, <1>4, <1>5, BoundsAssumption DEF Small

\* One record more fits where there is capacity for it (_record_capacity).
LEMMA OneMoreRecord ==
    ASSUME NEW rs, NEW gs, NEW rs1, NEW gs1, NEW x, Small(rs, gs),
           Records(rs, gs) + 1 <= MaxRecords,
           \/ Present(rs1) = Present(rs) \cup {x} /\ Present(gs1) = Present(gs)
           \/ Present(rs1) = Present(rs) /\ Present(gs1) = Present(gs) \cup {x}
    PROVE  Small(rs1, gs1)
<1>1. IsFiniteSet(Present(rs)) /\ IsFiniteSet(Present(gs))
  BY DEF Small
<1>2. /\ Cardinality(Present(rs)) \in Nat /\ Cardinality(Present(gs)) \in Nat
      /\ Records(rs, gs) = Cardinality(Present(rs)) + Cardinality(Present(gs))
  BY <1>1, SmallTypes
<1>3. /\ IsFiniteSet(Present(rs) \cup {x})
      /\ Cardinality(Present(rs) \cup {x})
           \in {Cardinality(Present(rs)), Cardinality(Present(rs)) + 1}
  BY <1>1, FS_AddElement
<1>4. /\ IsFiniteSet(Present(gs) \cup {x})
      /\ Cardinality(Present(gs) \cup {x})
           \in {Cardinality(Present(gs)), Cardinality(Present(gs)) + 1}
  BY <1>1, FS_AddElement
<1>5. CASE Present(rs1) = Present(rs) \cup {x} /\ Present(gs1) = Present(gs)
  BY <1>1, <1>2, <1>3, <1>5, BoundsAssumption DEF Small, Records
<1>6. CASE Present(rs1) = Present(rs) /\ Present(gs1) = Present(gs) \cup {x}
  BY <1>1, <1>2, <1>4, <1>6, BoundsAssumption DEF Small, Records
<1> QED
  BY <1>5, <1>6

LEMMA NoRecords ==
    ASSUME NEW rs, NEW gs, Present(rs) = {}, Present(gs) = {}
    PROVE  Small(rs, gs)
  BY FS_EmptySet, BoundsAssumption DEF Small, Records

-----------------------------------------------------------------------------
(* What stays true while other steps are taken.                            *)

\* What is known of an operation is forgotten only as a whole.
Remembers ==
    /\ forgotten \subseteq forgotten'
    /\ \A e \in log : e \in log' \/ e.op \in forgotten'

LEMMA KnownStays ==
    ASSUME Remembers, NEW op, NEW phase, NEW scope, KnownAs(op, phase, scope)
    PROVE  KnownAs(op, phase, scope)'
  BY DEF Remembers, KnownAs

\* A record that has ended does not come back to life with time.
LEMMA ChangeStays ==
    ASSUME TypeOK, NEW j, Change(j), now' \in Nat, now' >= now,
           UNCHANGED <<requests, grants, born>>, handed \subseteq handed'
    PROVE  Change(j)'
<1>1. Takes(j)'
  <2>1. ASSUME NEW t \in TokenIds, grants[t] # Absent, j.grants[t] = Absent
        PROVE  ~Consumable(t, grants[t].scope)'
    <3>1. ~Consumable(t, grants[t].scope) /\ grants[t] \in Grant
      BY <2>1 DEF Change, Takes, TypeOK, Grants
    <3> QED
      BY <3>1, <2>1 DEF Consumable, Grant, TypeOK
  <2>2. ASSUME NEW r \in RequestIds, j.requests[r] = Absent
        PROVE  ~Resolvable(r)'
    <3>1. ~Resolvable(r)
      BY <2>2 DEF Change, Takes
    <3>2. requests[r] # Absent => requests[r].expires \in Nat
      BY DEF TypeOK, Requests, Request
    <3> QED
      BY <3>1, <3>2 DEF Resolvable, TypeOK
  <2> QED
    BY <2>1, <2>2 DEF Takes
<1>2. \A t \in TokenIds :
        /\ Makes(j, t) => born'[t] = 0
        /\ j.grants[t] # Absent => Follows(j, t)'
  BY DEF Change, Follows, NewIn, UsedIn, Makes
<1> QED
  BY <1>1, <1>2 DEF Change, Makes

(***************************************************************************)
(* A step that leaves the file alone keeps RInv if a process that is then  *)
(* about to write has a job that suits the file, and if it hands over only *)
(* tokens whose delivery has been recorded.                                *)
(***************************************************************************)
LEMMA FileLeftAlone ==
    ASSUME IInv, RInv, UNCHANGED <<requests, grants, born, spent>>,
           handed \subseteq handed', now' \in Nat, now' >= now, Remembers,
           \A p \in Procs :
             /\ pc'[p] = "write" =>
                  \/ pc[p] = "write" /\ job'[p] = job[p]
                  \/ WriteOK(p)'
             /\ pc'[p] \in {"commit", "output", "deliver"} =>
                  /\ pc[p] \in {"commit", "output", "deliver"}
                  /\ job'[p] = job[p],
           \A t \in handed' \ handed :
             /\ born[t] # 0
             /\ grants[t] # Absent =>
                  KnownAs(born[t], "delivered", grants[t].scope)'
    PROVE  RInv'
<1>1. Small(requests, grants)'
  BY DEF RInv, Small, Present, Records
<1>2. ASSUME NEW p \in Procs, pc'[p] = "write" PROVE WriteOK(p)'
  <2>1. CASE pc[p] = "write" /\ job'[p] = job[p]
    <3>1. PICK j : j = job[p]
      OBVIOUS
    <3>2. Change(j)'
      BY <2>1, <3>1, ChangeStays DEF RInv, WriteOK, IInv
    <3>3. j.action # "prune" => KnownAs(j.op, "prepared", j.scope)'
      BY <2>1, <3>1, KnownStays DEF RInv, WriteOK
    <3>4. j = job'[p]
      BY <2>1, <3>1
    <3>5. Change(job[p])'
      BY <3>2, <3>4
         DEF Change, Small, Present, Records, Takes, Follows, NewIn, UsedIn, Makes
    <3> QED
      BY <3>3, <3>4, <3>5 DEF WriteOK, KnownAs
  <2> QED
    BY <1>2, <2>1
<1>3. ASSUME NEW p \in Procs, pc'[p] \in {"commit", "output", "deliver"}
      PROVE  MadeOK(p)'
  BY <1>3 DEF RInv, MadeOK, Makes
<1>4. ASSUME NEW t \in TokenIds PROVE TokenOK(t)'
  <2>1. TokenOK(t)
    BY DEF RInv
  <2>2. t \in handed' =>
          /\ born[t] # 0
          /\ grants[t] # Absent =>
               KnownAs(born[t], "delivered", grants[t].scope)'
    <3>1. CASE t \in handed
      <4>1. PICK op, scope : op = born[t] /\ scope = grants[t].scope
        OBVIOUS
      <4>2. grants[t] # Absent => KnownAs(op, "delivered", scope)'
        BY <2>1, <3>1, <4>1, KnownStays DEF TokenOK
      <4> QED
        BY <2>1, <3>1, <4>1, <4>2 DEF TokenOK, KnownAs
    <3>2. CASE t \in handed' \ handed
      BY <3>2
    <3> QED
      BY <3>1, <3>2
  <2>3. grants[t] # Absent /\ grants[t].used =>
          /\ t \in handed'
          /\ \E s \in spent : /\ s.token = t
                              /\ KnownAs(s.op, "prepared", grants[t].scope)'
    <3> SUFFICES ASSUME grants[t] # Absent, grants[t].used
                 PROVE  /\ t \in handed'
                        /\ \E s \in spent :
                             /\ s.token = t
                             /\ KnownAs(s.op, "prepared", grants[t].scope)'
      OBVIOUS
    <3>1. PICK s \in spent : /\ s.token = t
                             /\ KnownAs(s.op, "prepared", grants[t].scope)
      BY <2>1 DEF TokenOK
    <3>2. KnownAs(s.op, "prepared", grants[t].scope)'
      <4>1. PICK scope : scope = grants[t].scope
        OBVIOUS
      <4>2. KnownAs(s.op, "prepared", scope)'
        BY <3>1, <4>1, KnownStays
      <4> QED
        BY <4>1, <4>2 DEF KnownAs
    <3> QED
      BY <2>1, <3>1, <3>2 DEF TokenOK
  <2> QED
    BY <2>2, <2>3 DEF TokenOK, KnownAs
<1> QED
  BY <1>1, <1>2, <1>3, <1>4 DEF RInv

-----------------------------------------------------------------------------
(* The jobs.                                                               *)

(***************************************************************************)
(* Announcing a job whose change suits the file in place: the lock was     *)
(* free, so nobody else is about to write, and the announcement is what    *)
(* will be known of the operation.                                         *)
(***************************************************************************)
LEMMA AnnounceKeepsRInv ==
    ASSUME IInv, RInv, NEW p \in Procs, NEW action \in Actions,
           NEW scope \in Scopes, NEW request \in RequestIds,
           NEW token \in TokenIds, NEW rs \in Requests, NEW gs \in Grants,
           Announce(p, action, scope, request, token, rs, gs),
           Change([op |-> ops + 1, action |-> action, scope |-> scope,
                   request |-> request, token |-> token,
                   requests |-> rs, grants |-> gs])
    PROVE  RInv'
<1> DEFINE new == [op |-> ops + 1, action |-> action, scope |-> scope,
                   request |-> request, token |-> token,
                   requests |-> rs, grants |-> gs]
<1>1. PICK j : j = new
  OBVIOUS
<1>2. /\ log' = log \cup {AuditEvent(j, "prepared")}
      /\ pc' = [pc EXCEPT ![p] = "write"]
      /\ job' = [job EXCEPT ![p] = j]
      /\ UNCHANGED <<requests, grants, now, handed, born, origin, spent,
                     released, forgotten>>
  BY <1>1 DEF Announce, state, history
<1>3. Change(j)
  BY <1>1
<1> HIDE DEF new
<1>4. TypeOK /\ now \in Nat
  BY DEF IInv, TypeOK
<1>5. Change(j)'
  BY <1>2, <1>3, <1>4, ChangeStays
<1>6. KnownAs(j.op, "prepared", j.scope)'
  <2>1. AuditEvent(j, "prepared") \in log'
    BY <1>2
  <2>2. /\ AuditEvent(j, "prepared").op = j.op
        /\ AuditEvent(j, "prepared").phase = "prepared"
        /\ AuditEvent(j, "prepared").scope = j.scope
    BY DEF AuditEvent
  <2> QED
    BY <2>1, <2>2 DEF KnownAs
<1>7. job'[p] = j /\ pc'[p] = "write"
      /\ \A q \in Procs \ {p} : job'[q] = job[q] /\ pc'[q] = pc[q]
  BY <1>2, <1>4 DEF TypeOK
<1>8. WriteOK(p)'
  <2>1. Change(job[p])'
    BY <1>5, <1>7
       DEF Change, Small, Present, Records, Takes, Follows, NewIn, UsedIn, Makes
  <2> QED
    BY <2>1, <1>6, <1>7 DEF WriteOK, KnownAs
<1>9. Remembers
  BY <1>2 DEF Remembers
<1> QED
  BY <1>2, <1>4, <1>7, <1>8, <1>9, FileLeftAlone

\* A job that leaves the grants alone takes none away.
LEMMA SameGrants ==
    ASSUME NEW j, j.grants = grants, NEW t \in TokenIds, grants[t] # Absent
    PROVE  Follows(j, t)
  BY DEF Follows

LEMMA CreateKeepsRInv ==
    ASSUME IInv, RInv, NEW p \in Procs, create_consent_request(p)
    PROVE  RInv'
<1>1. PICK r \in RequestIds, scope \in Scopes :
        /\ requests[r] = Absent
        /\ Announce(p, "consent_request", scope, r, SomeToken,
             [requests EXCEPT ![r] =
                [scope |-> scope, expires |-> now + RequestTtl,
                 resolved |-> 0, status |-> "pending"]],
             grants)
  BY DEF create_consent_request
<1> DEFINE new == [scope |-> scope, expires |-> now + RequestTtl,
                   resolved |-> 0, status |-> "pending"]
<1>2. new \in Request /\ new # Absent
  BY BoundsAssumption, AbsentAssumption DEF IInv, TypeOK, Request
<1>3. PICK rs \in Requests : rs = [requests EXCEPT ![r] = new]
  BY <1>2 DEF IInv, TypeOK, Requests
<1>4. rs[r] # Absent /\ \A q \in RequestIds \ {r} : rs[q] = requests[q]
  BY <1>2, <1>3 DEF IInv, TypeOK, Requests
<1>5. Announce(p, "consent_request", scope, r, SomeToken, rs, grants)
  BY <1>1, <1>3
<1> HIDE DEF new
<1>6. PICK j : j = [op |-> ops + 1, action |-> "consent_request",
                    scope |-> scope, request |-> r, token |-> SomeToken,
                    requests |-> rs, grants |-> grants]
  OBVIOUS
<1>7. j.action = "consent_request" /\ j.requests = rs /\ j.grants = grants
  BY <1>6
<1>8. Small(rs, grants)
  <2>1. Present(rs) = Present(requests) \cup {r}
    BY <1>3, <1>4 DEF Present, IInv, TypeOK, Requests
  <2>2. Small(requests, grants) /\ Records(requests, grants) + 1 <= MaxRecords
    BY DEF RInv, create_consent_request, RecordCapacity
  <2> QED
    BY <2>1, <2>2, OneMoreRecord
<1>9. Change(j)
  <2>1. Takes(j)
    BY <1>1, <1>4, <1>7 DEF Takes, Resolvable
  <2>2. \A t \in TokenIds : ~Makes(j, t)
    BY <1>7 DEF Makes
  <2>3. \A t \in TokenIds : j.grants[t] # Absent => Follows(j, t)
    BY <1>7, SameGrants
  <2> QED
    BY <2>1, <2>2, <2>3, <1>7, <1>8 DEF Change
<1>10. grants \in Grants /\ "consent_request" \in Actions
  BY DEF IInv, TypeOK, Actions
<1> QED
  BY <1>5, <1>6, <1>9, <1>10, SomeIds, AnnounceKeepsRInv

\* A fresh token is added to the grants.
LEMMA FreshGrant ==
    ASSUME IInv, NEW t \in TokenIds, FreshToken(t), NEW scope \in Scopes,
           NEW ttl \in 1 .. MaxTtl
    PROVE  \E gs \in Grants :
             /\ gs = [grants EXCEPT ![t] = NewGrant(scope, ttl)]
             /\ gs[t] # Absent /\ gs[t].scope = scope /\ ~gs[t].used
             /\ \A u \in TokenIds \ {t} : gs[u] = grants[u]
             /\ grants[t] = Absent
             /\ Present(gs) = Present(grants) \cup {t}
<1>1. NewGrant(scope, ttl) \in Grant /\ NewGrant(scope, ttl) # Absent
  BY NewGrantType, AbsentAssumption
<1>2. NewGrant(scope, ttl).scope = scope /\ ~NewGrant(scope, ttl).used
  BY DEF NewGrant
<1>3. PICK gs \in Grants : gs = [grants EXCEPT ![t] = NewGrant(scope, ttl)]
  BY <1>1 DEF IInv, TypeOK, Grants
<1>4. /\ gs[t] = NewGrant(scope, ttl)
      /\ \A u \in TokenIds \ {t} : gs[u] = grants[u]
  BY <1>3 DEF IInv, TypeOK, Grants
<1>5. grants[t] = Absent
  BY DEF IInv, SpentInv, FreshToken
<1>6. Present(gs) = Present(grants) \cup {t}
  BY <1>1, <1>3, <1>4 DEF Present, IInv, TypeOK, Grants
<1> QED
  BY <1>1, <1>2, <1>3, <1>4, <1>5, <1>6

LEMMA IssueKeepsRInv ==
    ASSUME IInv, RInv, NEW p \in Procs, issue_consent(p)
    PROVE  RInv'
<1>1. PICK t \in TokenIds, scope \in Scopes, ttl \in 1 .. MaxTtl :
        /\ FreshToken(t)
        /\ Announce(p, "consent_grant", scope, SomeRequest, t, requests,
                    [grants EXCEPT ![t] = NewGrant(scope, ttl)])
  BY DEF issue_consent
<1>2. PICK gs \in Grants :
        /\ gs = [grants EXCEPT ![t] = NewGrant(scope, ttl)]
        /\ gs[t] # Absent /\ gs[t].scope = scope /\ ~gs[t].used
        /\ \A u \in TokenIds \ {t} : gs[u] = grants[u]
        /\ grants[t] = Absent
        /\ Present(gs) = Present(grants) \cup {t}
  BY <1>1, FreshGrant
<1>3. Announce(p, "consent_grant", scope, SomeRequest, t, requests, gs)
  BY <1>1, <1>2
<1>4. PICK j : j = [op |-> ops + 1, action |-> "consent_grant",
                    scope |-> scope, request |-> SomeRequest, token |-> t,
                    requests |-> requests, grants |-> gs]
  OBVIOUS
<1>5. /\ j.action = "consent_grant" /\ j.scope = scope /\ j.token = t
      /\ j.requests = requests /\ j.grants = gs
  BY <1>4
<1>6. Small(requests, gs)
  <2>1. Small(requests, grants) /\ Records(requests, grants) + 1 <= MaxRecords
    BY DEF RInv, issue_consent, RecordCapacity
  <2> QED
    BY <2>1, <1>2, OneMoreRecord
<1>7. Change(j)
  <2>1. Takes(j)
    BY <1>2, <1>5 DEF Takes, Resolvable
  <2>2. \A u \in TokenIds : Makes(j, u) => born[u] = 0
    BY <1>1, <1>5 DEF Makes, FreshToken
  <2>3. \A u \in TokenIds : j.grants[u] # Absent => Follows(j, u)
    BY <1>2, <1>5 DEF Follows, NewIn, Makes
  <2> QED
    BY <2>1, <2>2, <2>3, <1>5, <1>6 DEF Change
<1>8. requests \in Requests /\ "consent_grant" \in Actions
  BY DEF IInv, TypeOK, Actions
<1> QED
  BY <1>3, <1>4, <1>7, <1>8, SomeIds, AnnounceKeepsRInv

\* Answering a request changes it in place.
LEMMA ResolvedInPlace ==
    ASSUME IInv, NEW r \in RequestIds, Resolvable(r),
           NEW status \in {"approved", "denied"}
    PROVE  \E rs \in Requests :
             /\ rs = Resolved(r, status)
             /\ Present(rs) = Present(requests)
             /\ \A q \in RequestIds : rs[q] = Absent => requests[q] = Absent
<1>1. requests[r] \in Request /\ requests[r] # Absent
  BY DEF Resolvable, IInv, TypeOK, Requests
<1> DEFINE new == [requests[r] EXCEPT !.status = status, !.resolved = now]
<1>2. new \in Request /\ new # Absent
  BY <1>1, AbsentAssumption DEF IInv, TypeOK, Request
<1>3. Resolved(r, status) = [requests EXCEPT ![r] = new]
  BY <1>1 DEF Resolved, IInv, TypeOK, Requests
<1> HIDE DEF new
<1>4. PICK rs \in Requests : rs = [requests EXCEPT ![r] = new]
  BY <1>2 DEF IInv, TypeOK, Requests
<1>5. rs[r] # Absent /\ \A q \in RequestIds \ {r} : rs[q] = requests[q]
  BY <1>2, <1>4 DEF IInv, TypeOK, Requests
<1>6. Present(rs) = Present(requests)
  BY <1>1, <1>4, <1>5 DEF Present, IInv, TypeOK, Requests
<1> QED
  BY <1>3, <1>4, <1>5, <1>6

LEMMA ApproveKeepsRInv ==
    ASSUME IInv, RInv, NEW p \in Procs, approve(p)
    PROVE  RInv'
<1>1. PICK r \in RequestIds, t \in TokenIds, ttl \in 1 .. MaxTtl :
        /\ Resolvable(r)
        /\ FreshToken(t)
        /\ Announce(p, "consent_approve", requests[r].scope, r, t,
                    Resolved(r, "approved"),
                    [grants EXCEPT ![t] = NewGrant(requests[r].scope, ttl)])
  BY DEF approve
<1>2. PICK scope \in Scopes : scope = requests[r].scope
  BY <1>1 DEF Resolvable, IInv, TypeOK, Requests, Request
<1>3. PICK rs \in Requests :
        /\ rs = Resolved(r, "approved")
        /\ Present(rs) = Present(requests)
        /\ \A q \in RequestIds : rs[q] = Absent => requests[q] = Absent
  BY <1>1, ResolvedInPlace
<1>4. PICK gs \in Grants :
        /\ gs = [grants EXCEPT ![t] = NewGrant(scope, ttl)]
        /\ gs[t] # Absent /\ gs[t].scope = scope /\ ~gs[t].used
        /\ \A u \in TokenIds \ {t} : gs[u] = grants[u]
        /\ grants[t] = Absent
        /\ Present(gs) = Present(grants) \cup {t}
  BY <1>1, FreshGrant
<1>5. Announce(p, "consent_approve", scope, r, t, rs, gs)
  BY <1>1, <1>2, <1>3, <1>4
<1>6. PICK j : j = [op |-> ops + 1, action |-> "consent_approve",
                    scope |-> scope, request |-> r, token |-> t,
                    requests |-> rs, grants |-> gs]
  OBVIOUS
<1>7. /\ j.action = "consent_approve" /\ j.scope = scope /\ j.token = t
      /\ j.requests = rs /\ j.grants = gs
  BY <1>6
<1>8. Small(rs, gs)
  <2>1. Small(requests, grants) /\ Records(requests, grants) + 1 <= MaxRecords
    BY DEF RInv, approve, RecordCapacity
  <2>2. Present(rs) = Present(requests) /\ Present(gs) = Present(grants) \cup {t}
    BY <1>3, <1>4
  <2> QED
    BY <2>1, <2>2, OneMoreRecord
<1>9. Change(j)
  <2>1. Takes(j)
    BY <1>3, <1>4, <1>7 DEF Takes, Resolvable
  <2>2. \A u \in TokenIds : Makes(j, u) => born[u] = 0
    BY <1>1, <1>7 DEF Makes, FreshToken
  <2>3. \A u \in TokenIds : j.grants[u] # Absent => Follows(j, u)
    BY <1>4, <1>7 DEF Follows, NewIn, Makes
  <2> QED
    BY <2>1, <2>2, <2>3, <1>7, <1>8 DEF Change
<1>10. "consent_approve" \in Actions
  BY DEF Actions
<1> QED
  BY <1>5, <1>6, <1>9, <1>10, AnnounceKeepsRInv

LEMMA DenyKeepsRInv ==
    ASSUME IInv, RInv, NEW p \in Procs, deny(p)
    PROVE  RInv'
<1>1. PICK r \in RequestIds :
        /\ Resolvable(r)
        /\ Announce(p, "consent_deny", requests[r].scope, r, SomeToken,
                    Resolved(r, "denied"), grants)
  BY DEF deny
<1>2. PICK scope \in Scopes : scope = requests[r].scope
  BY <1>1 DEF Resolvable, IInv, TypeOK, Requests, Request
<1>3. PICK rs \in Requests :
        /\ rs = Resolved(r, "denied")
        /\ Present(rs) = Present(requests)
        /\ \A q \in RequestIds : rs[q] = Absent => requests[q] = Absent
  BY <1>1, ResolvedInPlace
<1>4. Announce(p, "consent_deny", scope, r, SomeToken, rs, grants)
  BY <1>1, <1>2, <1>3
<1>5. PICK j : j = [op |-> ops + 1, action |-> "consent_deny",
                    scope |-> scope, request |-> r, token |-> SomeToken,
                    requests |-> rs, grants |-> grants]
  OBVIOUS
<1>6. j.action = "consent_deny" /\ j.requests = rs /\ j.grants = grants
  BY <1>5
<1>7. Small(rs, grants)
  BY <1>3, FewerRecords DEF RInv
<1>8. Change(j)
  <2>1. Takes(j)
    BY <1>3, <1>6 DEF Takes, Resolvable
  <2>2. \A t \in TokenIds : ~Makes(j, t)
    BY <1>6 DEF Makes
  <2>3. \A t \in TokenIds : j.grants[t] # Absent => Follows(j, t)
    BY <1>6, SameGrants
  <2> QED
    BY <2>1, <2>2, <2>3, <1>6, <1>7 DEF Change
<1>9. grants \in Grants /\ "consent_deny" \in Actions
  BY DEF IInv, TypeOK, Actions
<1> QED
  BY <1>4, <1>5, <1>8, <1>9, SomeIds, AnnounceKeepsRInv

\* A token that has been handed over is used up, under its own scope.
LEMMA ConsumeKeepsRInv ==
    ASSUME IInv, RInv, NEW p \in Procs, prepare_consent_consumption(p)
    PROVE  RInv'
<1>1. PICK t \in handed :
        /\ grants[t] # Absent
        /\ Announce(p, "consent_consume", grants[t].scope, SomeRequest, t,
             requests,
             [grants EXCEPT ![t].used = TRUE, ![t].used_at = now])
  BY DEF prepare_consent_consumption
<1>2. t \in TokenIds /\ grants[t] \in Grant
  BY <1>1 DEF IInv, TypeOK, Grants
<1>3. PICK scope \in Scopes : scope = grants[t].scope
  BY <1>2 DEF Grant
<1> DEFINE new == [grants[t] EXCEPT !.used = TRUE, !.used_at = now]
<1>4. new \in Grant /\ new # Absent /\ new.scope = scope
  BY <1>2, <1>3, AbsentAssumption DEF IInv, TypeOK, Grant
<1>5. [grants EXCEPT ![t].used = TRUE, ![t].used_at = now]
        = [grants EXCEPT ![t] = new]
  BY <1>2 DEF IInv, TypeOK, Grants
<1> HIDE DEF new
<1>6. PICK gs \in Grants : gs = [grants EXCEPT ![t] = new]
  BY <1>4 DEF IInv, TypeOK, Grants
<1>7. gs[t] = new /\ \A u \in TokenIds \ {t} : gs[u] = grants[u]
  BY <1>2, <1>6 DEF IInv, TypeOK, Grants
<1>8. Announce(p, "consent_consume", scope, SomeRequest, t, requests, gs)
  BY <1>1, <1>3, <1>5, <1>6
<1>9. PICK j : j = [op |-> ops + 1, action |-> "consent_consume",
                    scope |-> scope, request |-> SomeRequest, token |-> t,
                    requests |-> requests, grants |-> gs]
  OBVIOUS
<1>10. /\ j.action = "consent_consume" /\ j.scope = scope /\ j.token = t
       /\ j.requests = requests /\ j.grants = gs
  BY <1>9
<1>11. Small(requests, gs)
  <2>1. Present(gs) \subseteq Present(grants)
    BY <1>1, <1>2, <1>6, <1>7 DEF Present, IInv, TypeOK, Grants
  <2> QED
    BY <2>1, FewerRecords DEF RInv
<1>12. Change(j)
  <2>1. Takes(j)
    BY <1>4, <1>7, <1>10 DEF Takes, Resolvable
  <2>2. \A u \in TokenIds : ~Makes(j, u)
    BY <1>10 DEF Makes
  <2>3. \A u \in TokenIds : j.grants[u] # Absent => Follows(j, u)
    BY <1>1, <1>3, <1>4, <1>7, <1>10 DEF Follows, UsedIn
  <2> QED
    BY <2>1, <2>2, <2>3, <1>10, <1>11 DEF Change
<1>13. requests \in Requests /\ "consent_consume" \in Actions
  BY DEF IInv, TypeOK, Actions
<1> QED
  BY <1>2, <1>8, <1>9, <1>12, <1>13, SomeIds, AnnounceKeepsRInv

\* Pruning takes what has ended and adds nothing.
LEMMA PruneKeepsRInv ==
    ASSUME IInv, RInv, NEW p \in Procs, prune_consent_records(p)
    PROVE  RInv'
<1> DEFINE rs == [r \in RequestIds |->
                    IF requests[r] # Absent /\ RequestEnded(requests[r])
                    THEN Absent ELSE requests[r]]
           gs == [t \in TokenIds |->
                    IF grants[t] # Absent /\ GrantEnded(grants[t])
                    THEN Absent ELSE grants[t]]
<1>0. PICK scope \in Scopes :
        job' = [job EXCEPT ![p] =
                  [op |-> 0, action |-> "prune", scope |-> scope,
                   request |-> SomeRequest, token |-> SomeToken,
                   requests |-> rs, grants |-> gs]]
  BY DEF prune_consent_records
<1>1. PICK j :
        /\ j = [op |-> 0, action |-> "prune", scope |-> scope,
                request |-> SomeRequest, token |-> SomeToken,
                requests |-> rs, grants |-> gs]
        /\ job' = [job EXCEPT ![p] = j]
  BY <1>0
<1>2. j.action = "prune" /\ j.requests = rs /\ j.grants = gs
  BY <1>1
<1>3. /\ pc' = [pc EXCEPT ![p] = "write"] /\ now \in Nat
      /\ UNCHANGED <<requests, grants, log, now, handed, born, origin, spent,
                     released, forgotten>>
  BY DEF prune_consent_records, state, history, IInv, TypeOK
<1>4. Takes(j)
  <2>1. ASSUME NEW t \in TokenIds, grants[t] # Absent, j.grants[t] = Absent
        PROVE  ~Consumable(t, grants[t].scope)
    <3>1. grants[t] \in Grant /\ GrantEnded(grants[t])
      BY <2>1, <1>2 DEF IInv, TypeOK, Grants
    <3>2. grants[t].used \/ now >= grants[t].expires
      BY <3>1 DEF GrantEnded
    <3> QED
      BY <3>1, <3>2, <1>3 DEF Consumable, Grant
  <2>2. ASSUME NEW r \in RequestIds, j.requests[r] = Absent
        PROVE  ~Resolvable(r)
    <3>1. CASE requests[r] = Absent
      BY <3>1 DEF Resolvable
    <3>2. CASE requests[r] # Absent
      <4>1. requests[r] \in Request /\ RequestEnded(requests[r])
        BY <2>2, <3>2, <1>2 DEF IInv, TypeOK, Requests
      <4>2. requests[r].status # "pending" \/ now >= requests[r].expires
        BY <4>1 DEF RequestEnded
      <4> QED
        BY <4>1, <4>2, <1>3 DEF Resolvable, Request
    <3> QED
      BY <3>1, <3>2
  <2> QED
    BY <2>1, <2>2 DEF Takes
<1>5. Small(rs, gs)
  <2>1. Present(rs) \subseteq Present(requests)
    BY DEF Present, IInv, TypeOK, Requests
  <2>2. Present(gs) \subseteq Present(grants)
    BY DEF Present, IInv, TypeOK, Grants
  <2> HIDE DEF rs, gs
  <2> QED
    BY <2>1, <2>2, FewerRecords DEF RInv
<1>6. Change(j)
  <2>1. \A t \in TokenIds : ~Makes(j, t)
    BY <1>2 DEF Makes
  <2>2. \A t \in TokenIds : j.grants[t] # Absent => Follows(j, t)
    BY <1>2 DEF Follows
  <2> QED
    BY <2>1, <2>2, <1>2, <1>4, <1>5 DEF Change
<1>7. Change(j)'
  BY <1>3, <1>6, ChangeStays DEF IInv
<1>8. job'[p] = j /\ pc'[p] = "write"
      /\ \A q \in Procs \ {p} : job'[q] = job[q] /\ pc'[q] = pc[q]
  BY <1>1, <1>3 DEF IInv, TypeOK
<1>9. WriteOK(p)'
  <2>1. Change(job[p])'
    BY <1>7, <1>8
       DEF Change, Small, Present, Records, Takes, Follows, NewIn, UsedIn, Makes
  <2> QED
    BY <2>1, <1>2, <1>8 DEF WriteOK
<1>10. Remembers
  BY <1>3 DEF Remembers
<1> QED
  BY <1>3, <1>8, <1>9, <1>10, FileLeftAlone

-----------------------------------------------------------------------------
(* After the announcement.                                                 *)

(***************************************************************************)
(* The write.  The file that it replaces is the one that the job was made  *)
(* for, and nobody else is about to write.                                 *)
(***************************************************************************)
LEMMA WriteKeepsRInv ==
    ASSUME IInv, RInv, NEW p \in Procs, write_state(p)
    PROVE  RInv'
<1>1. PICK j : j = job[p]
  OBVIOUS
<1>2. /\ pc[p] = "write" /\ lock = p /\ Edit(j) /\ Change(j)
      /\ j.action # "prune" => KnownAs(j.op, "prepared", j.scope)
  BY <1>1 DEF write_state, IInv, WritersInv, RInv, WriteOK
<1>3. /\ requests' = j.requests /\ grants' = j.grants
      /\ born' = [t \in TokenIds |-> IF Makes(j, t) THEN j.op ELSE born[t]]
      /\ spent' = IF j.action = "consent_consume"
                  THEN spent \cup {[op |-> j.op, token |-> j.token]}
                  ELSE spent
      /\ UNCHANGED <<log, job, now, ops, handed, released, forgotten>>
  BY <1>1 DEF write_state
<1>4. /\ pc'[p] \in {"prune_audit", "commit"}
      /\ \A q \in Procs \ {p} : pc'[q] = pc[q] /\ pc[q] # "write"
  BY <1>2 DEF write_state, IInv, TypeOK, WritersInv
<1>5. Small(requests, grants)'
  BY <1>2, <1>3 DEF Change, Small, Present, Records
<1>6. ASSUME NEW t \in TokenIds, born[t] # 0
      PROVE  /\ ~Makes(j, t) /\ born'[t] = born[t]
             /\ grants'[t] # Absent =>
                  /\ grants[t] # Absent /\ grants'[t].scope = grants[t].scope
                  /\ grants'[t].used => grants[t].used \/ UsedIn(j, t)
  BY <1>2, <1>3, <1>6 DEF Change, Follows, NewIn
<1>7. ASSUME NEW t \in TokenIds, Makes(j, t)
      PROVE  /\ born[t] = 0 /\ born'[t] = j.op /\ j.op # 0
             /\ grants'[t] # Absent =>
                  grants'[t].scope = j.scope /\ ~grants'[t].used
  <2>1. born[t] = 0 /\ grants[t] = Absent
    BY <1>2, <1>7 DEF Change, IInv, SpentInv
  <2> QED
    BY <2>1, <1>2, <1>3, <1>7 DEF Change, Follows, NewIn, Edit
<1>8. ASSUME NEW q \in Procs
      PROVE  /\ pc'[q] # "write"
             /\ pc'[q] \in {"commit", "output", "deliver"} => MadeOK(q)'
  <2>1. CASE q = p
    BY <2>1, <1>1, <1>3, <1>4, <1>7 DEF MadeOK, Makes
  <2>2. CASE q # p
    <3>1. pc'[q] = pc[q] /\ pc[q] # "write" /\ job'[q] = job[q]
      BY <2>2, <1>3, <1>4
    <3>2. ASSUME NEW t \in TokenIds, pc[q] \in {"commit", "output", "deliver"},
                 Makes(job[q], t)
          PROVE  /\ born'[t] = job[q].op /\ born'[t] # 0
                 /\ grants'[t] # Absent => grants'[t].scope = job[q].scope
      <4>1. /\ born[t] = job[q].op /\ born[t] # 0
            /\ grants[t] # Absent => grants[t].scope = job[q].scope
        BY <3>2 DEF RInv, MadeOK
      <4> QED
        BY <4>1, <1>6
    <3> QED
      BY <3>1, <3>2 DEF MadeOK, Makes
  <2> QED
    BY <2>1, <2>2
<1>9. ASSUME NEW t \in TokenIds PROVE TokenOK(t)'
  <2>1. TokenOK(t)
    BY DEF RInv
  <2>2. CASE Makes(j, t)
    BY <2>1, <2>2, <1>3, <1>7 DEF TokenOK
  <2>3. CASE ~Makes(j, t) /\ born[t] = 0
    <3>1. grants[t] = Absent /\ ~(t \in handed)
      BY <2>1, <2>3 DEF TokenOK, IInv, SpentInv
    <3>2. grants'[t] = Absent
      BY <1>2, <1>3, <2>3, <3>1 DEF Change, Follows, NewIn
    <3> QED
      BY <3>1, <3>2, <1>3 DEF TokenOK
  <2>4. CASE ~Makes(j, t) /\ born[t] # 0
    <3>1. t \in handed' =>
            /\ born'[t] # 0
            /\ grants'[t] # Absent =>
                 KnownAs(born[t], "delivered", grants[t].scope)'
      BY <2>1, <2>4, <1>3, <1>6 DEF TokenOK, KnownAs
    <3>2. ASSUME grants'[t] # Absent, grants'[t].used
          PROVE  /\ t \in handed'
                 /\ \E s \in spent' :
                      /\ s.token = t
                      /\ KnownAs(s.op, "prepared", grants[t].scope)'
      <4>1. /\ grants[t] # Absent /\ grants'[t].scope = grants[t].scope
            /\ grants[t].used \/ UsedIn(j, t)
        BY <3>2, <2>4, <1>6
      <4>2. CASE grants[t].used
        <5>1. PICK s \in spent : /\ s.token = t /\ t \in handed
                                 /\ KnownAs(s.op, "prepared", grants[t].scope)
          BY <2>1, <4>1, <4>2 DEF TokenOK
        <5>2. KnownAs(s.op, "prepared", grants[t].scope)'
          BY <5>1, <4>1, <1>3 DEF KnownAs
        <5>3. s \in spent'
          BY <5>1, <1>3
        <5> QED
          BY <5>1, <5>2, <5>3, <1>3
      <4>3. CASE UsedIn(j, t)
        <5>1. PICK s : s = [op |-> j.op, token |-> j.token]
          OBVIOUS
        <5>2. /\ s \in spent' /\ s.token = t /\ s.op = j.op /\ t \in handed
              /\ KnownAs(s.op, "prepared", grants[t].scope)
          BY <4>3, <5>1, <1>2, <1>3 DEF UsedIn
        <5>3. KnownAs(s.op, "prepared", grants[t].scope)'
          BY <5>2, <4>1, <1>3 DEF KnownAs
        <5> QED
          BY <5>2, <5>3, <1>3
      <4> QED
        BY <4>1, <4>2, <4>3
    <3> QED
      BY <3>1, <3>2 DEF TokenOK
  <2> QED
    BY <2>2, <2>3, <2>4
<1> QED
  BY <1>5, <1>8, <1>9 DEF RInv

\* Steps that leave the file alone and add events to the log.
LEMMA RefusalKeepsRInv ==
    ASSUME IInv, RInv, NEW p \in Procs, ConsumptionRefused(p)
    PROVE  RInv'
<1>1. /\ UNCHANGED <<requests, grants, born, spent, handed, now, pc, job,
                     forgotten>>
      /\ log \subseteq log' /\ now \in Nat
  BY DEF ConsumptionRefused, state, process, history, IInv, TypeOK
<1>2. Remembers
  BY <1>1 DEF Remembers
<1> QED
  BY <1>1, <1>2, FileLeftAlone

LEMMA CommittedKeepsRInv ==
    ASSUME IInv, RInv, NEW p \in Procs, committed(p)
    PROVE  RInv'
<1>1. /\ UNCHANGED <<requests, grants, born, spent, handed, now, job,
                     forgotten>>
      /\ log \subseteq log' /\ now \in Nat
  BY DEF committed, state, history, IInv, TypeOK
<1>2. /\ pc[p] = "commit" /\ pc'[p] \in {"output", "deliver"}
      /\ \A q \in Procs \ {p} : pc'[q] = pc[q]
  BY DEF committed, IInv, TypeOK
<1>3. Remembers
  BY <1>1 DEF Remembers
<1> QED
  BY <1>1, <1>2, <1>3, FileLeftAlone

LEMMA FinishEffect ==
    ASSUME TypeOK, NEW p \in Procs, Finish(p)
    PROVE  /\ pc'[p] = "idle"
           /\ \A q \in Procs \ {p} : pc'[q] = pc[q] /\ job'[q] = job[q]
  BY DEF Finish, TypeOK

LEMMA OutputKeepsRInv ==
    ASSUME IInv, RInv, NEW p \in Procs, Output(p)
    PROVE  RInv'
<1>1. /\ UNCHANGED <<requests, grants, born, spent, handed, now, forgotten>>
      /\ log \subseteq log' /\ now \in Nat
  BY DEF Output, state, IInv, TypeOK
<1>2. /\ pc[p] = "output"
      /\ \/ pc'[p] = "idle"
         \/ pc'[p] = "deliver" /\ job'[p] = job[p]
      /\ \A q \in Procs \ {p} : pc'[q] = pc[q] /\ job'[q] = job[q]
  BY FinishEffect DEF Output, IInv, TypeOK
<1>3. Remembers
  BY <1>1 DEF Remembers
<1> QED
  BY <1>1, <1>2, <1>3, FileLeftAlone

\* A token is handed over when its delivery is on record.
LEMMA DeliveredKeepsRInv ==
    ASSUME IInv, RInv, NEW p \in Procs, delivered(p)
    PROVE  RInv'
<1>1. PICK j : j = job[p]
  OBVIOUS
<1>2. /\ UNCHANGED <<requests, grants, born, spent, now, forgotten>>
      /\ log' = log \cup {AuditEvent(j, "delivered")} /\ now \in Nat
      /\ handed' = handed \cup {t \in TokenIds : Makes(j, t)}
      /\ pc[p] = "deliver"
  BY <1>1 DEF delivered, state, history, IInv, TypeOK
<1>3. /\ pc'[p] = "idle"
      /\ \A q \in Procs \ {p} : pc'[q] = pc[q] /\ job'[q] = job[q]
  BY FinishEffect DEF delivered, IInv
<1>4. Remembers
  BY <1>2 DEF Remembers
<1>5. KnownAs(j.op, "delivered", j.scope)'
  <2>1. AuditEvent(j, "delivered") \in log'
    BY <1>2
  <2>2. /\ AuditEvent(j, "delivered").op = j.op
        /\ AuditEvent(j, "delivered").phase = "delivered"
        /\ AuditEvent(j, "delivered").scope = j.scope
    BY DEF AuditEvent
  <2> QED
    BY <2>1, <2>2 DEF KnownAs
<1>6. ASSUME NEW t \in handed' \ handed
      PROVE  /\ born[t] # 0
             /\ grants[t] # Absent =>
                  KnownAs(born[t], "delivered", grants[t].scope)'
  <2>1. t \in TokenIds /\ Makes(j, t)
    BY <1>2, <1>6
  <2>2. /\ born[t] = j.op /\ born[t] # 0
        /\ grants[t] # Absent => grants[t].scope = j.scope
    BY <1>1, <1>2, <2>1 DEF RInv, MadeOK
  <2> QED
    BY <1>2, <1>5, <2>2 DEF KnownAs
<1> QED
  BY <1>2, <1>3, <1>4, <1>6, FileLeftAlone

\* Steps that end an operation, or forget it.
LEMMA PruneAuditKeepsRInv ==
    ASSUME IInv, RInv, NEW p \in Procs, prune_audit_events(p)
    PROVE  RInv'
<1>1. UNCHANGED <<requests, grants, born, spent, handed, now>> /\ now \in Nat
  BY DEF prune_audit_events, state, IInv, TypeOK
<1>2. /\ pc'[p] = "idle"
      /\ \A q \in Procs \ {p} : pc'[q] = pc[q] /\ job'[q] = job[q]
  BY FinishEffect DEF prune_audit_events, IInv
<1>3. Remembers
  BY DEF prune_audit_events, Remembers
<1> QED
  BY <1>1, <1>2, <1>3, FileLeftAlone

LEMMA StopKeepsRInv ==
    ASSUME IInv, RInv, NEW p \in Procs, Stop(p)
    PROVE  RInv'
<1>1. /\ UNCHANGED <<requests, grants, born, spent, handed, now, log, forgotten>>
      /\ now \in Nat
  BY DEF Stop, state, history, IInv, TypeOK
<1>2. /\ pc'[p] = "idle"
      /\ \A q \in Procs \ {p} : pc'[q] = pc[q] /\ job'[q] = job[q]
  BY FinishEffect DEF Stop, IInv
<1>3. Remembers
  BY <1>1 DEF Remembers
<1> QED
  BY <1>1, <1>2, <1>3, FileLeftAlone

LEMMA TickKeepsRInv ==
    ASSUME IInv, RInv, Tick
    PROVE  RInv'
<1>1. /\ UNCHANGED <<requests, grants, born, spent, handed, log, forgotten,
                     pc, job>>
      /\ now' \in Nat /\ now' >= now
  BY DEF Tick, state, process, history, IInv, TypeOK
<1>2. Remembers
  BY <1>1 DEF Remembers
<1> QED
  BY <1>1, <1>2, FileLeftAlone

LEMMA DisposeKeepsRInv ==
    ASSUME IInv, RInv, dispose_private_state
    PROVE  RInv'
<1>1. /\ requests' = [r \in RequestIds |-> Absent]
      /\ grants' = [t \in TokenIds |-> Absent]
      /\ UNCHANGED <<pc, job, handed, born, spent>>
  BY DEF dispose_private_state, process
<1>2. \A p \in Procs : pc[p] # "write"
  BY NoneAssumption DEF dispose_private_state, StateLockFree, IInv, WritersInv
<1>3. Small(requests, grants)'
  <2>1. Present(requests') = {} /\ Present(grants') = {}
    BY <1>1 DEF Present
  <2>2. Small(requests', grants')
    BY <2>1, NoRecords
  <2> QED
    BY <2>2 DEF Small, Present, Records
<1>4. ASSUME NEW p \in Procs, pc'[p] \in {"commit", "output", "deliver"}
      PROVE  MadeOK(p)'
  BY <1>1, <1>4 DEF RInv, MadeOK, Makes
<1>5. ASSUME NEW t \in TokenIds PROVE TokenOK(t)'
  BY <1>1 DEF RInv, TokenOK
<1> QED
  BY <1>1, <1>2, <1>3, <1>4, <1>5 DEF RInv

LEMMA RecordsInitially == Init => RInv
<1> SUFFICES ASSUME Init PROVE RInv
  OBVIOUS
<1>1. Small(requests, grants)
  <2>1. Present(requests) = {} /\ Present(grants) = {}
    BY DEF Init, Present
  <2> QED
    BY <2>1, NoRecords
<1>2. \A t \in TokenIds : TokenOK(t)
  BY DEF Init, TokenOK
<1>3. \A p \in Procs : pc[p] = "idle"
  BY DEF Init
<1> QED
  BY <1>1, <1>2, <1>3 DEF RInv

LEMMA NextKeepsRInv == IInv /\ RInv /\ [Next]_vars => RInv'
<1> SUFFICES ASSUME IInv, RInv, [Next]_vars PROVE RInv'
  OBVIOUS
<1>1. ASSUME NEW p \in Procs, Decide(p) PROVE RInv'
  BY <1>1, CreateKeepsRInv, IssueKeepsRInv, ApproveKeepsRInv, DenyKeepsRInv,
     ConsumeKeepsRInv, RefusalKeepsRInv, PruneKeepsRInv DEF Decide
<1>2. ASSUME NEW p \in Procs, Proceed(p) PROVE RInv'
  BY <1>2, WriteKeepsRInv, CommittedKeepsRInv, OutputKeepsRInv,
     DeliveredKeepsRInv, PruneAuditKeepsRInv, StopKeepsRInv DEF Proceed
<1>3. CASE dispose_private_state
  BY <1>3, DisposeKeepsRInv
<1>4. CASE Tick
  BY <1>4, TickKeepsRInv
<1>5. CASE UNCHANGED vars
  <2>1. /\ UNCHANGED <<requests, grants, born, spent, handed, log, forgotten,
                       pc, job, now>>
        /\ now \in Nat
    BY <1>5 DEF vars, state, process, history, IInv, TypeOK
  <2>2. Remembers
    BY <2>1 DEF Remembers
  <2> QED
    BY <2>1, <2>2, FileLeftAlone
<1> QED
  BY <1>1, <1>2, <1>3, <1>4, <1>5 DEF Next

(***************************************************************************)
(* What is said of the file, the jobs and the tokens holds in every        *)
(* reachable state.                                                        *)
(***************************************************************************)
THEOREM RecordsInvariance == Spec => [](IInv /\ RInv)
<1>1. Init => IInv /\ RInv
  BY Initially, RecordsInitially
<1>2. IInv /\ RInv /\ [Next]_vars => IInv' /\ RInv'
  BY NextKeepsIInv, NextKeepsRInv
<1> QED
  BY <1>1, <1>2, PTL DEF Spec

(***************************************************************************)
(* The file never outgrows the limit above which _load_state refuses it:   *)
(* the capacity that was there when a job was decided is there when it is  *)
(* written, for any limit, and any ids however many.                       *)
(***************************************************************************)
THEOREM FileStaysReadable == Spec => []RecordsWithinLimit
<1>1. RInv => RecordsWithinLimit
  BY DEF RInv, Small, RecordsWithinLimit
<1> QED
  BY <1>1, RecordsInvariance, PTL

(***************************************************************************)
(* Whatever crashed, a used token's consumption was announced and its      *)
(* grant's delivery recorded, under the token's scope                      *)
(* (prepare_consent_consumption, AuditOperation).                          *)
(***************************************************************************)
THEOREM TokensAreTraceable == Spec => []UsedTokensAreTraceable
<1>1. RInv => UsedTokensAreTraceable
  <2> SUFFICES ASSUME RInv, NEW t \in TokenIds, grants[t] # Absent, grants[t].used
               PROVE  /\ \E s \in spent :
                           /\ s.token = t
                           /\ s.op \in forgotten \/ Logged(s.op, "prepared", t)
                      /\ born[t] \in forgotten \/ Logged(born[t], "delivered", t)
    BY DEF UsedTokensAreTraceable
  <2>1. t \in handed /\ KnownAs(born[t], "delivered", grants[t].scope)
    BY DEF RInv, TokenOK
  <2>2. PICK s \in spent : /\ s.token = t
                           /\ KnownAs(s.op, "prepared", grants[t].scope)
    BY DEF RInv, TokenOK
  <2> QED
    BY <2>1, <2>2 DEF KnownAs, Logged
<1> QED
  BY <1>1, RecordsInvariance, PTL

(***************************************************************************)
(* A record that can still be answered or used leaves the file only by     *)
(* disposal: what prune_consent_records decided before it wrote is still   *)
(* so when it writes, and no other operation removes a record at all.      *)
(***************************************************************************)
THEOREM LiveRecordsRemain == Spec => LiveRecordsStay
<1>1. IInv /\ RInv /\ [Next]_vars =>
        [( \/ \E t \in Present(grants) :
                /\ Consumable(t, grants[t].scope)
                /\ grants'[t] = Absent
           \/ \E r \in RequestIds : Resolvable(r) /\ requests'[r] = Absent)
         => dispose_private_state]_vars
  <2> DEFINE Lost == \/ \E t \in Present(grants) :
                          /\ Consumable(t, grants[t].scope)
                          /\ grants'[t] = Absent
                     \/ \E r \in RequestIds :
                          Resolvable(r) /\ requests'[r] = Absent
  <2> SUFFICES ASSUME IInv, RInv, Next, Lost, ~dispose_private_state
               PROVE  FALSE
    OBVIOUS
  <2>1. CASE UNCHANGED <<requests, grants>>
    <3>1. \A t \in Present(grants) : grants[t] # Absent
      BY DEF Present
    <3> QED
      BY <2>1, <3>1 DEF Resolvable
  <2>2. ASSUME NEW p \in Procs, write_state(p) PROVE FALSE
    <3>1. Takes(job[p]) /\ grants' = job[p].grants /\ requests' = job[p].requests
      BY <2>2 DEF write_state, RInv, WriteOK, Change
    <3>2. \A t \in Present(grants) : t \in TokenIds /\ grants[t] # Absent
      BY DEF Present, IInv, TypeOK, Grants
    <3> QED
      BY <3>1, <3>2 DEF Takes
  <2>3. ASSUME NEW p \in Procs, Decide(p) PROVE UNCHANGED <<requests, grants>>
    BY <2>3 DEF Decide, create_consent_request, issue_consent, approve, deny,
                prepare_consent_consumption, ConsumptionRefused,
                prune_consent_records, Announce, state
  <2>4. ASSUME NEW p \in Procs, Proceed(p)
        PROVE  write_state(p) \/ UNCHANGED <<requests, grants>>
    BY <2>4 DEF Proceed, committed, Output, delivered, prune_audit_events,
                Stop, state
  <2>5. CASE Tick
    BY <2>1, <2>5 DEF Tick, state
  <2> QED
    BY <2>1, <2>2, <2>3, <2>4, <2>5 DEF Next
<1> QED
  BY <1>1, RecordsInvariance, PTL DEF Spec, LiveRecordsStay
=============================================================================
