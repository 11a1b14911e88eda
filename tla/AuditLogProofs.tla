--------------------------- MODULE AuditLogProofs ---------------------------
(***************************************************************************)
(* Proofs about AuditLog for any number of processes, rows and damages,    *)
(* any retention and any clock.                                            *)
(*                                                                         *)
(* Every step of AuditLog is a step or a stutter of Consent, so what is    *)
(* proved of Consent holds here.  The file is then compared with the set   *)
(* of events that Consent keeps: until a row is damaged the two agree, and *)
(* the rows stand in the order in which the clock stamped them.            *)
(***************************************************************************)
EXTENDS AuditLog, ConsentRecordsProofs, SequenceTheorems

Terminal == {"delivered", "outcome_unknown"}

\* In an audited operation.
Busy(p) == pc[p] # "idle" /\ job[p].action # "prune"

\* No event of the operation ends it.
Open(op) == \A e \in log : e.op = op => e.phase \notin Terminal

\* Operation ids are drawn once, and an operation that a process is in has
\* not been recorded as ended.
OpsInv ==
    /\ \A e \in log : e.op \in 1 .. ops /\ e.phase # "rejected"
    /\ \A p \in Procs : Busy(p) =>
         /\ job[p].op \in 1 .. ops
         /\ Open(job[p].op)
         /\ \A q \in Procs : Busy(q) /\ job[q].op = job[p].op => q = p

\* What the rows say of the log.
RowsInv ==
    /\ cut => rows # <<>>
    /\ \A i \in DOMAIN rows : rows[i].readable => rows[i].event \in log
    /\ \/ integrity_warning
       \/ \A e \in log : \E i \in DOMAIN rows : rows[i].event = e

\* Rows are appended in the order of time.
TimeInv ==
    /\ \A i \in DOMAIN rows : rows[i].event.at <= now
    /\ \A i, j \in DOMAIN rows :
         i < j => rows[i].event.at <= rows[j].event.at

FileInv == AuditTypeOK /\ OpsInv /\ RowsInv /\ TimeInv

AInv == IInv /\ RInv /\ FileInv

-----------------------------------------------------------------------------
(* Sets of row numbers.                                                    *)

Rank(S) == [i \in S |-> Cardinality({j \in S : j <= i})]

\* Counting the members of a set up to each of them numbers them in order.
LEMMA Ranks ==
    ASSUME NEW n \in Nat, NEW S \in SUBSET (1 .. n)
    PROVE  /\ IsFiniteSet(S) /\ Cardinality(S) \in Nat
           /\ \A i \in S : Rank(S)[i] \in 1 .. Cardinality(S)
           /\ \A i, k \in S : i < k => Rank(S)[i] < Rank(S)[k]
           /\ \A k \in 1 .. Cardinality(S) : \E i \in S : Rank(S)[i] = k
<1>0. PICK rank : rank = Rank(S)
  OBVIOUS
<1> \A i \in S : rank[i] = Cardinality({j \in S : j <= i})
  BY <1>0 DEF Rank
<1>1. IsFiniteSet(S) /\ Cardinality(S) \in Nat
  <2>1. IsFiniteSet(1 .. n)
    BY FS_Interval
  <2>2. IsFiniteSet(S)
    BY <2>1, FS_Subset
  <2>3. QED
    BY <2>2, FS_CardinalityType
<1>2. ASSUME NEW i \in S
      PROVE  /\ IsFiniteSet({j \in S : j <= i})
             /\ Cardinality({j \in S : j <= i}) \in 1 .. Cardinality(S)
  <2> DEFINE T == {j \in S : j <= i}
  <2>1. T \in SUBSET S /\ i \in T
    OBVIOUS
  <2> HIDE DEF T
  <2>2. /\ IsFiniteSet(T) /\ Cardinality(T) \in Nat
        /\ Cardinality(T) <= Cardinality(S)
    BY <1>1, <2>1, FS_Subset, FS_CardinalityType
  <2>3. Cardinality(T) # 0
    BY <2>1, <2>2, FS_EmptySet
  <2>4. Cardinality(T) \in 1 .. Cardinality(S)
    BY <1>1, <2>2, <2>3
  <2>5. QED
    BY <2>2, <2>4 DEF T
<1>3. \A i \in S : rank[i] \in 1 .. Cardinality(S)
  BY <1>2
<1>4. ASSUME NEW i \in S, NEW k \in S, i < k
      PROVE  rank[i] < rank[k]
  <2> DEFINE T == {j \in S : j <= i}
             U == {j \in S : j <= k}
  <2>1. T \in SUBSET U /\ k \in U /\ k \notin T
    <3>1. \A j \in S : j \in Nat
      OBVIOUS
    <3>2. \A j \in S : j <= i => j <= k
      BY <1>4, <3>1
    <3>3. k <= k /\ ~(k <= i)
      BY <1>4, <3>1
    <3>4. QED
      BY <3>2, <3>3
  <2>2. /\ IsFiniteSet(T) /\ IsFiniteSet(U)
        /\ rank[i] = Cardinality(T) /\ rank[k] = Cardinality(U)
    BY <1>2
  <2> HIDE DEF T, U
  <2>3. Cardinality(T) <= Cardinality(U) /\ Cardinality(T) # Cardinality(U)
    BY <2>1, <2>2, FS_Subset
  <2>4. Cardinality(T) \in Nat /\ Cardinality(U) \in Nat
    BY <2>2, FS_CardinalityType
  <2>5. QED
    BY <2>2, <2>3, <2>4
<1>5. \A k \in 1 .. Cardinality(S) : \E i \in S : rank[i] = k
  <2> DEFINE T == 1 .. Cardinality(S)
  <2>1. IsFiniteSet(T) /\ Cardinality(T) = Cardinality(S)
    BY <1>1, FS_Interval
  <2>2. \A i, k \in S : rank[i] = rank[k] => i = k
    <3>1. ASSUME NEW i \in S, NEW k \in S, rank[i] = rank[k]
          PROVE  i = k
      <4>1. rank[i] \in Nat /\ rank[k] \in Nat
        BY <1>1, <1>3
      <4>2. ~(i < k) /\ ~(k < i)
        BY <1>4, <3>1, <4>1
      <4>3. QED
        BY <4>2
    <3>2. QED
      BY <3>1
  <2>3. rank \in [S -> T]
    BY <1>0, <1>3 DEF Rank
  <2> HIDE DEF T
  <2>4. rank \in Injection(S, T)
    BY <2>2, <2>3 DEF Injection, IsInjective
  <2>5. rank \in Surjection(S, T)
    BY <2>1, <2>4, FS_Injection
  <2>6. QED
    BY <2>5 DEF Surjection, T
<1>6. QED
  BY <1>0, <1>1, <1>3, <1>4, <1>5

\* A set of row numbers that is not empty has a greatest one.
LEMMA LastRow ==
    ASSUME NEW n \in Nat, NEW S \in SUBSET (1 .. n), S # {}
    PROVE  /\ Max(S) \in S
           /\ \A i \in S : i <= Max(S)
<1>1. PICK rank : rank = Rank(S)
  OBVIOUS
<1>2. /\ IsFiniteSet(S) /\ Cardinality(S) \in Nat
      /\ \A i \in S : rank[i] \in 1 .. Cardinality(S)
      /\ \A i, k \in S : i < k => rank[i] < rank[k]
      /\ \A k \in 1 .. Cardinality(S) : \E i \in S : rank[i] = k
  BY <1>1, Ranks
<1>3. Cardinality(S) # 0
  BY <1>2, FS_EmptySet
<1>4. PICK m \in S : rank[m] = Cardinality(S)
  BY <1>2, <1>3
<1>5. ASSUME NEW i \in S PROVE m >= i
  <2>1. ~(rank[m] < rank[i])
    BY <1>2, <1>4
  <2>2. ~(m < i)
    BY <1>2, <2>1
  <2>3. QED
    BY <2>2
<1>6. \E x \in S : \A y \in S : x >= y
  BY <1>5
<1>7. Max(S) \in S /\ \A y \in S : Max(S) >= y
  BY <1>6 DEF Max
<1>8. QED
  BY <1>7

\* A member that no other exceeds is the greatest.
LEMMA GreatestRow ==
    ASSUME NEW n \in Nat, NEW S \in SUBSET (1 .. n), NEW m \in S,
           \A i \in S : i <= m
    PROVE  Max(S) = m
<1>1. Max(S) \in S /\ m <= Max(S)
  BY LastRow, Zenon
<1>2. PICK x \in S : x = Max(S)
  BY <1>1
<1>3. x = m
  BY <1>1, <1>2
<1>4. QED
  BY <1>2, <1>3

-----------------------------------------------------------------------------
(* The steps of Consent, as the log sees them.                             *)

Continues(q) == Busy(q)' => Busy(q) /\ job'[q].op = job[q].op

\* Nothing is recorded; events may go.
Quiet == ops' = ops /\ log' \subseteq log /\ \A q \in Procs : Continues(q)

\* An operation begins, or is refused: its id is new.
Begins(p) ==
    /\ ops' = ops + 1
    /\ \E e : /\ log' = log \cup {e}
              /\ e.op = ops + 1 /\ e.at = now
              /\ e.phase \in {"prepared", "denied"}
    /\ \A q \in Procs :
         Continues(q) \/ (q = p /\ job'[q].op = ops + 1)

\* An operation is carried on, or ended by its event.
Notes(p) ==
    /\ Busy(p) /\ ops' = ops
    /\ \E e : /\ log' = log \cup {e}
              /\ e.op = job[p].op /\ e.at = now
              /\ e.phase \in {"committed"} \cup Terminal
              /\ e.phase \in Terminal => ~Busy(p)'
    /\ \A q \in Procs : Continues(q)

LEMMA AnnounceBegins ==
    ASSUME TypeOK, NEW p \in Procs, NEW action, NEW scope, NEW request,
           NEW token, NEW rs, NEW gs,
           Announce(p, action, scope, request, token, rs, gs)
    PROVE  Begins(p) /\ now' = now
<1>1. PICK j : j = [op |-> ops + 1, action |-> action, scope |-> scope,
                    request |-> request, token |-> token,
                    requests |-> rs, grants |-> gs]
  OBVIOUS
<1>2. /\ ops' = ops + 1 /\ now' = now
      /\ log' = log \cup {AuditEvent(j, "prepared")}
      /\ pc' = [pc EXCEPT ![p] = "write"]
      /\ job' = [job EXCEPT ![p] = j]
  BY <1>1 DEF Announce
<1>3. j.op = ops + 1
  BY <1>1
<1>4. /\ AuditEvent(j, "prepared").op = ops + 1
      /\ AuditEvent(j, "prepared").at = now
      /\ AuditEvent(j, "prepared").phase = "prepared"
  BY <1>3 DEF AuditEvent
<1>5. job'[p] = j
  BY <1>2 DEF TypeOK
<1>6. ASSUME NEW q \in Procs, q # p PROVE Continues(q)
  BY <1>2, <1>6 DEF TypeOK, Continues, Busy
<1>7. QED
  BY <1>2, <1>3, <1>4, <1>5, <1>6 DEF Begins

LEMMA RefusalBegins ==
    ASSUME TypeOK, NEW p \in Procs, ConsumptionRefused(p)
    PROVE  Begins(p) /\ now' = now
<1>1. PICK scope \in Scopes :
          log' = log \cup {[op |-> ops + 1, action |-> "consent_consume",
                            scope |-> scope, phase |-> "denied", at |-> now]}
  BY DEF ConsumptionRefused
<1>2. PICK e : e = [op |-> ops + 1, action |-> "consent_consume",
                    scope |-> scope, phase |-> "denied", at |-> now]
  OBVIOUS
<1>3. e.op = ops + 1 /\ e.at = now /\ e.phase = "denied"
  BY <1>2
<1>4. ops' = ops + 1 /\ now' = now /\ pc' = pc /\ job' = job
  BY DEF ConsumptionRefused, process
<1>5. \A q \in Procs : Continues(q)
  BY <1>4 DEF Continues, Busy
<1>6. QED
  BY <1>1, <1>2, <1>3, <1>4, <1>5 DEF Begins

\* The job that records a phase, and those of the others.
LEMMA NotesIt ==
    ASSUME IInv, NEW p \in Procs, pc[p] \in {"commit", "output", "deliver"},
           NEW phase \in {"committed"} \cup Terminal,
           log' = log \cup {AuditEvent(job[p], phase)}, ops' = ops,
           \/ job' = job /\ phase = "committed"
           \/ Finish(p),
           \A q \in Procs \ {p} : pc'[q] = pc[q]
    PROVE  Notes(p)
<1>1. Busy(p) /\ pc \in [Procs -> {"idle", "write", "commit", "output",
                                   "deliver", "prune_audit"}]
  BY DEF IInv, AuditInv, Busy, TypeOK
<1>2. /\ AuditEvent(job[p], phase).op = job[p].op
      /\ AuditEvent(job[p], phase).at = now
      /\ AuditEvent(job[p], phase).phase = phase
  BY DEF AuditEvent
<1>3. Finish(p) => ~Busy(p)'
  BY <1>1 DEF Finish, Busy
<1>4. Continues(p)
  BY <1>1, <1>3 DEF Continues
<1>5. ASSUME NEW q \in Procs \ {p} PROVE Continues(q)
  BY FinishEffect DEF IInv, Continues, Busy
<1>6. phase \in Terminal => ~Busy(p)'
  BY <1>3 DEF Terminal
<1>7. QED
  BY <1>1, <1>2, <1>4, <1>5, <1>6 DEF Notes

\* A process that is done, or goes on with the operation it is in.
LEMMA GoesOn ==
    ASSUME TypeOK, NEW p \in Procs,
           \/ Finish(p)
           \/ job' = job /\ pc[p] # "idle" /\ \A q \in Procs \ {p} : pc'[q] = pc[q]
    PROVE  \A q \in Procs : Continues(q)
<1>1. ASSUME NEW q \in Procs \ {p} PROVE Continues(q)
  BY FinishEffect DEF Continues, Busy
<1>2. Continues(p)
  BY FinishEffect DEF Continues, Busy
<1>3. QED
  BY <1>1, <1>2

LEMMA OperateEffect ==
    ASSUME IInv, NEW p \in Procs, Operate(p)
    PROVE  /\ now' = now
           /\ \/ Quiet /\ log' = log
              \/ Begins(p)
              \/ Notes(p)
<1>0. TypeOK
  BY DEF IInv
<1>1. CASE create_consent_request(p)
  BY <1>0, <1>1, AnnounceBegins DEF create_consent_request
<1>2. CASE issue_consent(p)
  BY <1>0, <1>2, AnnounceBegins DEF issue_consent
<1>3. CASE approve(p)
  BY <1>0, <1>3, AnnounceBegins DEF approve
<1>4. CASE deny(p)
  BY <1>0, <1>4, AnnounceBegins DEF deny
<1>5. CASE prepare_consent_consumption(p)
  BY <1>0, <1>5, AnnounceBegins DEF prepare_consent_consumption
<1>6. CASE ConsumptionRefused(p)
  BY <1>0, <1>6, RefusalBegins
<1>7. CASE committed(p)
  <2>1. /\ pc[p] = "commit" /\ job' = job /\ ops' = ops /\ now' = now
        /\ log' = log \cup {AuditEvent(job[p], "committed")}
        /\ \A q \in Procs \ {p} : pc'[q] = pc[q]
    BY <1>0, <1>7 DEF committed, TypeOK
  <2>2. QED
    BY <2>1, NotesIt
<1>8. CASE Output(p)
  <2>1. pc[p] = "output" /\ ops' = ops /\ now' = now
    BY <1>8 DEF Output
  <2>2. CASE /\ pc' = [pc EXCEPT ![p] = "deliver"] /\ log' = log
             /\ job' = job
    <3>1. \A q \in Procs : Continues(q)
      BY <1>0, <2>1, <2>2, GoesOn DEF TypeOK
    <3>2. QED
      BY <2>1, <2>2, <3>1 DEF Quiet
  <2>3. CASE Finish(p) /\ log' = log
    <3>1. \A q \in Procs : Continues(q)
      BY <1>0, <2>3, GoesOn
    <3>2. QED
      BY <2>1, <2>3, <3>1 DEF Quiet
  <2>4. CASE /\ Finish(p)
             /\ log' = log \cup {AuditEvent(job[p], "outcome_unknown")}
    <3>1. \A q \in Procs \ {p} : pc'[q] = pc[q]
      BY <1>0, <2>4, FinishEffect
    <3>2. QED
      BY <2>1, <2>4, <3>1, NotesIt DEF Terminal
  <2>5. QED
    BY <1>8, <2>2, <2>3, <2>4 DEF Output
<1>9. CASE delivered(p)
  <2>1. /\ pc[p] = "deliver" /\ ops' = ops /\ now' = now
        /\ log' = log \cup {AuditEvent(job[p], "delivered")} /\ Finish(p)
    BY <1>9 DEF delivered
  <2>2. \A q \in Procs \ {p} : pc'[q] = pc[q]
    BY <1>0, <2>1, FinishEffect
  <2>3. QED
    BY <2>1, <2>2, NotesIt DEF Terminal
<1>10. QED
  BY <1>1, <1>2, <1>3, <1>4, <1>5, <1>6, <1>7, <1>8, <1>9 DEF Operate

LEMMA ElsewhereQuiet ==
    ASSUME IInv, NEW p \in Procs, Elsewhere(p)
    PROVE  Quiet /\ log' = log /\ now' = now
<1>0. TypeOK
  BY DEF IInv
<1>1. CASE write_state(p)
  <2>1. /\ pc[p] = "write" /\ job' = job /\ ops' = ops /\ log' = log
        /\ now' = now /\ \A q \in Procs \ {p} : pc'[q] = pc[q]
    BY <1>0, <1>1 DEF write_state, TypeOK
  <2>2. \A q \in Procs : Continues(q)
    BY <1>0, <2>1, GoesOn
  <2>3. QED
    BY <2>1, <2>2 DEF Quiet
<1>2. CASE prune_consent_records(p)
  <2>1. /\ log' = log /\ now' = now /\ ops' = ops
        /\ \A q \in Procs \ {p} : pc'[q] = pc[q] /\ job'[q] = job[q]
        /\ job'[p].action = "prune"
    BY <1>0, <1>2 DEF prune_consent_records, TypeOK
  <2>2. \A q \in Procs : Continues(q)
    BY <2>1 DEF Continues, Busy
  <2>3. QED
    BY <2>1, <2>2 DEF Quiet
<1>3. CASE Stop(p)
  <2>1. Finish(p) /\ log' = log /\ now' = now /\ ops' = ops
    BY <1>3 DEF Stop
  <2>2. \A q \in Procs : Continues(q)
    BY <1>0, <2>1, GoesOn
  <2>3. QED
    BY <2>1, <2>2 DEF Quiet
<1>4. QED
  BY <1>1, <1>2, <1>3 DEF Elsewhere

LEMMA RestQuiet ==
    ASSUME IInv, \/ dispose_private_state \/ Tick \/ UNCHANGED vars
                 \/ \E p \in Procs : prune_audit_events(p)
    PROVE  Quiet
<1>0. TypeOK
  BY DEF IInv
<1>1. CASE dispose_private_state \/ Tick \/ UNCHANGED vars
  <2>1. ops' = ops /\ pc' = pc /\ job' = job /\ log' \subseteq log
    BY <1>1 DEF dispose_private_state, Tick, vars, process
  <2>2. \A q \in Procs : Continues(q)
    BY <2>1 DEF Continues, Busy
  <2>3. QED
    BY <2>1, <2>2 DEF Quiet
<1>2. ASSUME NEW p \in Procs, prune_audit_events(p) PROVE Quiet
  <2>1. Finish(p) /\ ops' = ops /\ log' \subseteq log
    BY <1>2 DEF prune_audit_events
  <2>2. \A q \in Procs : Continues(q)
    BY <1>0, <2>1, GoesOn
  <2>3. QED
    BY <2>1, <2>2 DEF Quiet
<1>3. QED
  BY <1>1, <1>2

\* An operation that has not ended stays open unless its event is recorded.
LEMMA StaysOpen ==
    ASSUME NEW op, Open(op),
           \A e \in log' : e \in log \/ e.op # op \/ e.phase \notin Terminal
    PROVE  Open(op)'
  BY DEF Open

LEMMA OpsInvStep ==
    ASSUME TypeOK, OpsInv, \/ Quiet
                           \/ \E p \in Procs : Begins(p) \/ Notes(p)
    PROVE  OpsInv'
<1>0. ops \in Nat
  BY DEF TypeOK
<1>1. CASE Quiet
  <2>1. \A e \in log' : e.op \in 1 .. ops' /\ e.phase # "rejected"
    BY <1>1 DEF Quiet, OpsInv
  <2>2. ASSUME NEW p \in Procs, Busy(p)'
        PROVE  /\ job'[p].op \in 1 .. ops'
               /\ Open(job[p].op)'
               /\ \A q \in Procs :
                    Busy(q)' /\ job'[q].op = job'[p].op => q = p
    <3>1. Busy(p) /\ job'[p].op = job[p].op /\ ops' = ops
      BY <1>1, <2>2 DEF Quiet, Continues
    <3>2. \A q \in Procs : Busy(q)' => Busy(q) /\ job'[q].op = job[q].op
      BY <1>1 DEF Quiet, Continues
    <3>3. PICK op : op = job[p].op
      OBVIOUS
    <3>4. Open(op)'
      BY <1>1, <3>1, <3>3, StaysOpen DEF OpsInv, Quiet
    <3>5. job'[p].op = op
      BY <3>1, <3>3
    <3>6. QED
      BY <3>1, <3>2, <3>3, <3>4, <3>5 DEF OpsInv, Open
  <2>3. QED
    BY <2>1, <2>2 DEF OpsInv
<1>2. ASSUME NEW p \in Procs, Begins(p) PROVE OpsInv'
  <2>1. PICK e : /\ log' = log \cup {e} /\ e.op = ops + 1
                 /\ e.phase \in {"prepared", "denied"}
    BY <1>2 DEF Begins
  <2>2. ops' = ops + 1
    BY <1>2 DEF Begins
  <2>3. \A f \in log' : f.op \in 1 .. ops' /\ f.phase # "rejected"
    BY <1>0, <2>1, <2>2 DEF OpsInv
  <2>4. ASSUME NEW q \in Procs, Busy(q)'
        PROVE  \/ /\ Busy(q) /\ job'[q].op = job[q].op
                  /\ job'[q].op \in 1 .. ops
               \/ q = p /\ job'[q].op = ops + 1
    BY <1>2, <2>4 DEF Begins, Continues, OpsInv
  <2>5. ASSUME NEW q \in Procs, Busy(q)'
        PROVE  \A f \in log' :
                  f.op = job'[q].op => f.phase \notin Terminal
    <3>1. PICK op : op = job'[q].op
      OBVIOUS
    <3>2. Open(op)
      BY <1>0, <2>4, <2>5, <3>1 DEF OpsInv, Open
    <3>3. \A f \in log' : f \in log \/ f.phase \notin Terminal
      BY <2>1 DEF Terminal
    <3>4. Open(op)'
      BY <3>2, <3>3, StaysOpen
    <3>5. QED
      BY <3>1, <3>4 DEF Open
  <2>6. ASSUME NEW q \in Procs, Busy(q)', NEW r \in Procs, Busy(r)',
               job'[r].op = job'[q].op
        PROVE  r = q
    BY <1>0, <2>4, <2>6 DEF OpsInv
  <2>7. ASSUME NEW q \in Procs, Busy(q)'
        PROVE  job'[q].op \in 1 .. ops'
    BY <1>0, <2>2, <2>4, <2>7
  <2>8. QED
    BY <2>3, <2>5, <2>6, <2>7 DEF OpsInv, Open
<1>3. ASSUME NEW p \in Procs, Notes(p) PROVE OpsInv'
  <2>1. PICK e : /\ log' = log \cup {e} /\ e.op = job[p].op
                 /\ e.phase \in {"committed"} \cup Terminal
                 /\ e.phase \in Terminal => ~Busy(p)'
    BY <1>3 DEF Notes
  <2>2. /\ ops' = ops /\ Busy(p)
        /\ \A q \in Procs : Busy(q)' => Busy(q) /\ job'[q].op = job[q].op
    BY <1>3 DEF Notes, Continues
  <2>3. \A f \in log' : f.op \in 1 .. ops' /\ f.phase # "rejected"
    BY <2>1, <2>2 DEF OpsInv, Terminal
  <2>4. ASSUME NEW q \in Procs, Busy(q)'
        PROVE  \A f \in log' :
                  f.op = job'[q].op => f.phase \notin Terminal
    <3>1. PICK op : op = job[q].op
      OBVIOUS
    <3>2. Open(op) /\ job'[q].op = op
      BY <2>2, <2>4, <3>1 DEF OpsInv
    <3>3. e.phase \in Terminal => e.op # op
      <4>1. CASE q = p
        BY <2>1, <2>4, <4>1
      <4>2. CASE q # p
        BY <2>1, <2>2, <2>4, <3>1, <4>2 DEF OpsInv
      <4>3. QED
        BY <4>1, <4>2
    <3>4. Open(op)'
      BY <2>1, <3>2, <3>3, StaysOpen
    <3>5. QED
      BY <3>2, <3>4 DEF Open
  <2>5. ASSUME NEW q \in Procs, Busy(q)'
        PROVE  /\ job'[q].op \in 1 .. ops'
               /\ \A r \in Procs :
                    Busy(r)' /\ job'[r].op = job'[q].op => r = q
    BY <2>2, <2>5 DEF OpsInv
  <2>6. QED
    BY <2>3, <2>4, <2>5 DEF OpsInv, Open
<1>4. QED
  BY <1>1, <1>2, <1>3

-----------------------------------------------------------------------------
(* Consent under the file.                                                 *)

LEMMA StepsOfConsent == [AuditNext]_fileVars => [Next]_vars
<1> SUFFICES ASSUME [AuditNext]_fileVars PROVE [Next]_vars
  OBVIOUS
<1>1. ASSUME NEW p \in Procs, Operate(p) \/ Elsewhere(p) \/ Prune(p)
      PROVE  [Next]_vars
  <2>1. Decide(p) \/ Proceed(p)
    BY <1>1 DEF Operate, Elsewhere, Prune, Decide, Proceed
  <2>2. QED
    BY <2>1 DEF Next
<1>2. CASE Dispose
  BY <1>2 DEF Dispose, Next
<1>3. CASE Damage
  BY <1>3 DEF Damage
<1>4. CASE Tick
  BY <1>4 DEF Next
<1>5. CASE UNCHANGED fileVars
  BY <1>5 DEF fileVars
<1>6. QED
  BY <1>1, <1>2, <1>3, <1>4, <1>5 DEF AuditNext

LEMMA OpsInvKept ==
    ASSUME IInv, OpsInv, [AuditNext]_fileVars
    PROVE  OpsInv'
<1>1. Quiet \/ \E p \in Procs : Begins(p) \/ Notes(p)
  <2>1. ASSUME NEW p \in Procs, Operate(p) \/ Elsewhere(p) \/ Prune(p)
        PROVE  Quiet \/ \E q \in Procs : Begins(q) \/ Notes(q)
    BY <2>1, OperateEffect, ElsewhereQuiet, RestQuiet DEF Prune
  <2>2. CASE Dispose \/ Damage \/ Tick \/ UNCHANGED fileVars
    BY <2>2, RestQuiet DEF Dispose, Damage, fileVars
  <2>3. QED
    BY <2>1, <2>2 DEF AuditNext
<1>2. QED
  BY <1>1, OpsInvStep DEF IInv

-----------------------------------------------------------------------------
(* What the steps do to the rows.                                          *)

\* A row that cannot be read keeps its event out of reach.
LEMMA Spoilt ==
    ASSUME NEW row \in Row
    PROVE  /\ Unreadable(row) \in Row
           /\ Unreadable(row).event = row.event
           /\ Unreadable(row).readable = FALSE
  BY DEF Unreadable, Row

\* One row of the file is spoilt.
LEMMA OneSpoilt ==
    ASSUME rows \in Seq(Row), NEW k \in DOMAIN rows,
           NEW rs, rs = [rows EXCEPT ![k] = Unreadable(@)]
    PROVE  /\ rs \in Seq(Row) /\ Len(rs) = Len(rows)
           /\ ~rs[k].readable
           /\ \A i \in DOMAIN rows :
                /\ rs[i].event = rows[i].event
                /\ rs[i].readable => rows[i].readable
<1>1. rows[k] \in Row
  OBVIOUS
<1>2. PICK row \in Row : row = Unreadable(rows[k])
  BY <1>1, Spoilt
<1>3. rs = [rows EXCEPT ![k] = row]
  BY <1>2
<1>4. /\ rs \in Seq(Row) /\ Len(rs) = Len(rows) /\ rs[k] = row
      /\ \A i \in DOMAIN rows : i # k => rs[i] = rows[i]
  BY <1>3
<1>5. row.event = rows[k].event /\ ~row.readable
  BY <1>1, <1>2, Spoilt
<1>6. QED
  BY <1>4, <1>5

\* The file with a row more: behind a cut row it cannot be read, nor can the
\* cut row.
LEMMA Appended ==
    ASSUME rows \in Seq(Row), cut \in BOOLEAN, cut => rows # <<>>,
           NEW e \in Event, rows' = WithRow(e)
    PROVE  /\ rows' \in Seq(Row) /\ Len(rows') = Len(rows) + 1
           /\ rows'[Len(rows) + 1].event = e
           /\ rows'[Len(rows) + 1].readable <=> ~cut
           /\ \A i \in DOMAIN rows :
                /\ rows'[i].event = rows[i].event
                /\ rows'[i].readable => rows[i].readable
                /\ ~cut => rows'[i] = rows[i]
<1>1. PICK n \in Nat : n = Len(rows)
  OBVIOUS
<1>2. CASE cut
  <2>1. PICK rs : rs = [rows EXCEPT ![n] = Unreadable(@)]
    OBVIOUS
  <2>2. n \in DOMAIN rows /\ DOMAIN rows = 1 .. n
    BY <1>1, <1>2, EmptySeq
  <2>3. /\ rs \in Seq(Row) /\ Len(rs) = n
        /\ \A i \in DOMAIN rows :
             /\ rs[i].event = rows[i].event
             /\ rs[i].readable => rows[i].readable
    BY <1>1, <2>1, <2>2, OneSpoilt
  <2>4. PICK row : row = [event |-> e, readable |-> FALSE]
    OBVIOUS
  <2>5. row \in Row /\ row.event = e /\ ~row.readable
    BY <2>4 DEF Row
  <2>6. rows' = Append(rs, row)
    BY <1>1, <1>2, <2>1, <2>4 DEF WithRow
  <2>7. /\ rows' \in Seq(Row) /\ Len(rows') = n + 1
        /\ rows'[n + 1] = row
        /\ \A i \in 1 .. n : rows'[i] = rs[i]
    BY <2>3, <2>5, <2>6
  <2>8. QED
    BY <1>1, <1>2, <2>2, <2>3, <2>5, <2>7
<1>3. CASE ~cut
  <2>1. PICK row : row = [event |-> e, readable |-> TRUE]
    OBVIOUS
  <2>2. row \in Row /\ row.event = e /\ row.readable
    BY <2>1 DEF Row
  <2>3. rows' = Append(rows, row)
    BY <1>3, <2>1 DEF WithRow
  <2>4. /\ rows' \in Seq(Row) /\ Len(rows') = n + 1
        /\ rows'[n + 1] = row
        /\ DOMAIN rows = 1 .. n
        /\ \A i \in 1 .. n : rows'[i] = rows[i]
    BY <1>1, <2>2, <2>3
  <2>5. QED
    BY <1>1, <1>3, <2>2, <2>4
<1>4. QED
  BY <1>2, <1>3

\* Pruning keeps what it keeps, in order.
LEMMA Pruned ==
    ASSUME rows \in Seq(Row),
           rows' = [k \in 1 .. Cardinality(Kept) |->
                       rows[CHOOSE i \in Kept : Place(i) = k]]
    PROVE  \E n \in Nat : \E f \in [1 .. n -> Kept] :
             /\ rows' \in Seq(Row) /\ Len(rows') = n
             /\ DOMAIN rows' = 1 .. n /\ n <= Len(rows)
             /\ \A k \in 1 .. n : rows'[k] = rows[f[k]]
             /\ \A j, k \in 1 .. n : j < k => f[j] < f[k]
             /\ \A i \in Kept : \E k \in 1 .. n : f[k] = i
<1>1. PICK S : S = Kept
  OBVIOUS
<1>2. PICK m \in Nat : m = Len(rows) /\ DOMAIN rows = 1 .. m
  OBVIOUS
<1>3. S \in SUBSET (1 .. m)
  BY <1>1, <1>2 DEF Kept
<1>4. PICK rank : rank = Rank(S)
  OBVIOUS
<1>5. /\ IsFiniteSet(S) /\ Cardinality(S) \in Nat
      /\ \A i \in S : rank[i] \in 1 .. Cardinality(S)
      /\ \A i, k \in S : i < k => rank[i] < rank[k]
      /\ \A k \in 1 .. Cardinality(S) : \E i \in S : rank[i] = k
  BY <1>3, <1>4, Ranks
<1>6. \A i \in S : rank[i] = Place(i)
  BY <1>1, <1>4 DEF Rank, Place
<1>7. PICK n \in Nat : n = Cardinality(S)
  BY <1>5
<1>8. n <= m
  <2>1. IsFiniteSet(1 .. m) /\ Cardinality(1 .. m) = m
    BY FS_Interval
  <2>2. Cardinality(S) <= Cardinality(1 .. m)
    BY <1>3, <2>1, FS_Subset
  <2>3. QED
    BY <1>7, <2>1, <2>2
<1>9. PICK f : f = [k \in 1 .. n |-> CHOOSE i \in S : Place(i) = k]
  OBVIOUS
<1>10. ASSUME NEW k \in 1 .. n PROVE f[k] \in S /\ rank[f[k]] = k
  <2>1. \E i \in S : Place(i) = k
    BY <1>5, <1>6, <1>7
  <2>2. f[k] \in S /\ Place(f[k]) = k
    BY <1>9, <2>1
  <2>3. QED
    BY <1>6, <2>2
<1>11. ASSUME NEW j \in 1 .. n, NEW k \in 1 .. n, j < k
       PROVE  f[j] < f[k]
  <2>1. f[j] \in 1 .. m /\ f[k] \in 1 .. m
    BY <1>3, <1>10
  <2>2. f[j] # f[k]
    BY <1>10, <1>11
  <2>3. ~(f[k] < f[j])
    BY <1>5, <1>10, <1>11
  <2>4. QED
    BY <2>1, <2>2, <2>3
<1>12. ASSUME NEW i \in S PROVE \E k \in 1 .. n : f[k] = i
  <2>1. PICK k \in 1 .. n : k = rank[i]
    BY <1>5, <1>7
  <2>2. f[k] \in S /\ rank[f[k]] = rank[i]
    BY <1>10, <2>1
  <2>3. ~(f[k] < i) /\ ~(i < f[k])
    BY <1>5, <1>7, <2>2
  <2>4. f[k] = i
    <3>1. PICK x : x = f[k]
      OBVIOUS
    <3>2. x \in 1 .. m /\ i \in 1 .. m
      BY <1>3, <2>2, <3>1
    <3>3. x = i
      BY <2>3, <3>1, <3>2
    <3>4. QED
      BY <3>1, <3>3
  <2>5. QED
    BY <2>4
<1>13. f \in [1 .. n -> Kept]
  BY <1>1, <1>9, <1>10
<1>14. rows' = [k \in 1 .. n |-> rows[f[k]]]
  BY <1>1, <1>7, <1>9
<1>15. \A k \in 1 .. n : rows'[k] = rows[f[k]] /\ rows[f[k]] \in Row
  <2>1. \A i \in 1 .. m : rows[i] \in Row
    BY <1>2
  <2>2. \A k \in 1 .. n : f[k] \in 1 .. m
    BY <1>3, <1>10
  <2>3. QED
    BY <1>14, <2>1, <2>2
<1>16. /\ rows' \in Seq(Row) /\ Len(rows') = n /\ DOMAIN rows' = 1 .. n
  <2>1. rows' \in [1 .. n -> Row] /\ DOMAIN rows' = 1 .. n
    BY <1>14, <1>15
  <2>2. rows' \in Seq(Row)
    BY <2>1, SeqDef
  <2>3. PICK l \in Nat : l = Len(rows') /\ 1 .. l = 1 .. n
    BY <2>1, <2>2, LenProperties
  <2>4. ~(l < n) /\ ~(n < l)
    <3>1. n \in 1 .. n => n \in 1 .. l
      BY <2>3
    <3>2. l \in 1 .. l => l \in 1 .. n
      BY <2>3
    <3>3. QED
      BY <3>1, <3>2
  <2>5. l = n
    BY <2>4
  <2>6. QED
    BY <2>1, <2>2, <2>3, <2>5
<1>17. QED
  <2>1. \A k \in 1 .. n : rows'[k] = rows[f[k]]
    BY <1>15
  <2>2. \A j, k \in 1 .. n : j < k => f[j] < f[k]
    BY <1>11
  <2>3. \A i \in Kept : \E k \in 1 .. n : f[k] = i
    BY <1>1, <1>12
  <2>4. n <= Len(rows)
    BY <1>2, <1>8
  <2> USE <1>13
  <2> WITNESS n \in Nat
  <2> WITNESS f \in [1 .. n -> Kept]
  <2>5. QED
    BY <1>16, <2>1, <2>2, <2>3, <2>4

-----------------------------------------------------------------------------
(* The file stays what it is.                                              *)

RowsType ==
    /\ rows \in Seq(Row) /\ Len(rows) <= MaxRows
    /\ cut \in BOOLEAN /\ damages \in 0 .. MaxDamages

RowsOK == RowsType /\ RowsInv /\ TimeInv

LEMMA RecordKeeps ==
    ASSUME TypeOK, RowsOK, NEW e \in Event, e.at = now,
           write_audit_event(e), log' = log \cup {e}, now' = now,
           damages' = damages
    PROVE  RowsOK'
<1>1. PICK n \in Nat : n = Len(rows) /\ DOMAIN rows = 1 .. n
  BY DEF RowsOK, RowsType
<1>2. /\ n + 1 <= MaxRows /\ rows' = WithRow(e) /\ cut' = FALSE
  BY <1>1 DEF write_audit_event
<1>3. /\ rows' \in Seq(Row) /\ Len(rows') = n + 1
      /\ rows'[n + 1].event = e
      /\ \A i \in 1 .. n :
           /\ rows'[i].event = rows[i].event
           /\ rows'[i].readable => rows[i].readable
           /\ ~cut => rows'[i] = rows[i]
  BY <1>1, <1>2, Appended DEF RowsOK, RowsType, RowsInv
<1>4. DOMAIN rows' = 1 .. n + 1
  BY <1>3
<1>5. RowsType'
  BY <1>2, <1>3 DEF RowsOK, RowsType
<1>6. RowsInv'
  <2>1. ASSUME NEW i \in DOMAIN rows', rows'[i].readable
        PROVE  rows'[i].event \in log'
    <3>1. CASE i = n + 1
      BY <1>3, <3>1
    <3>2. CASE i \in 1 .. n
      BY <1>1, <1>3, <2>1, <3>2 DEF RowsOK, RowsInv
    <3>3. QED
      BY <1>4, <3>1, <3>2
  <2>2. CASE integrity_warning
    <3>1. PICK i \in 1 .. n : ~rows[i].readable
      BY <1>1, <2>2 DEF integrity_warning
    <3>2. i \in DOMAIN rows' /\ ~rows'[i].readable
      BY <1>3, <1>4, <3>1
    <3>3. integrity_warning'
      BY <3>2 DEF integrity_warning
    <3>4. QED
      BY <1>2, <2>1, <3>3 DEF RowsInv
  <2>3. CASE \A f \in log : \E i \in DOMAIN rows : rows[i].event = f
    <3>1. ASSUME NEW f \in log' PROVE \E i \in DOMAIN rows' : rows'[i].event = f
      <4>1. CASE f = e
        <5>1. n + 1 \in DOMAIN rows'
          BY <1>4
        <5>2. QED
          BY <1>3, <4>1, <5>1
      <4>2. CASE f \in log
        <5>1. PICK i \in 1 .. n : rows[i].event = f
          BY <1>1, <2>3, <4>2
        <5>2. i \in DOMAIN rows' /\ rows'[i].event = f
          BY <1>3, <1>4, <5>1
        <5>3. QED
          BY <5>2
      <4>3. QED
        BY <4>1, <4>2
    <3>2. QED
      BY <1>2, <2>1, <3>1 DEF RowsInv
  <2>4. QED
    BY <2>2, <2>3 DEF RowsOK, RowsInv
<1>7. TimeInv'
  <2>1. ASSUME NEW i \in DOMAIN rows'
        PROVE  /\ rows'[i].event.at <= now'
               /\ i = n + 1 => rows'[i].event.at = now
               /\ i # n + 1 => i \in 1 .. n /\ rows'[i].event = rows[i].event
    <3>1. CASE i = n + 1
      BY <1>3, <3>1 DEF TypeOK
    <3>2. CASE i \in 1 .. n
      BY <1>1, <1>3, <3>2 DEF RowsOK, TimeInv
    <3>3. QED
      BY <1>4, <3>1, <3>2
  <2>2. ASSUME NEW i \in DOMAIN rows', NEW j \in DOMAIN rows', i < j
        PROVE  rows'[i].event.at <= rows'[j].event.at
    <3>1. CASE j = n + 1
      BY <2>1, <3>1
    <3>2. CASE j # n + 1
      <4>1. i # n + 1
        BY <1>4, <2>2, <3>2
      <4>2. QED
        BY <1>1, <2>1, <2>2, <3>2, <4>1 DEF RowsOK, TimeInv
    <3>3. QED
      BY <3>1, <3>2
  <2>3. QED
    BY <2>1, <2>2 DEF TimeInv
<1>8. QED
  BY <1>5, <1>6, <1>7 DEF RowsOK

\* Steps that leave the file alone; the clock may move.
LEMMA RowsStay ==
    ASSUME TypeOK, RowsOK, UNCHANGED <<rows, cut, damages, log>>,
           now' \in Nat, now' >= now
    PROVE  RowsOK'
<1>1. RowsType' /\ RowsInv'
  BY DEF RowsOK, RowsType, RowsInv, integrity_warning
<1>2. TimeInv'
  <2>1. \A i \in DOMAIN rows : rows[i].event.at \in Nat
    <3>1. \A i \in DOMAIN rows : rows[i] \in Row
      BY DEF RowsOK, RowsType
    <3>2. \A i \in DOMAIN rows : rows[i].event \in Event
      BY <3>1 DEF Row
    <3>3. QED
      BY <3>2 DEF Event
  <2>2. now \in Nat
    BY DEF TypeOK
  <2>3. \A i \in DOMAIN rows : rows[i].event.at <= now'
    BY <2>1, <2>2 DEF RowsOK, TimeInv
  <2>4. QED
    BY <2>3 DEF RowsOK, TimeInv
<1>3. QED
  BY <1>1, <1>2 DEF RowsOK

\* Pruning forgets the same events in the log and in the file.
LEMMA PruneKeeps ==
    ASSUME TypeOK, RowsOK, NEW p \in Procs, Prune(p)
    PROVE  RowsOK'
<1>0. PICK n \in Nat : \E f \in [1 .. n -> Kept] :
             /\ rows' \in Seq(Row) /\ Len(rows') = n
             /\ DOMAIN rows' = 1 .. n /\ n <= Len(rows)
             /\ \A k \in 1 .. n : rows'[k] = rows[f[k]]
             /\ \A j, k \in 1 .. n : j < k => f[j] < f[k]
             /\ \A i \in Kept : \E k \in 1 .. n : f[k] = i
  BY Pruned DEF Prune, RowsOK, RowsType
<1>1. PICK f \in [1 .. n -> Kept] :
             /\ rows' \in Seq(Row) /\ Len(rows') = n
             /\ DOMAIN rows' = 1 .. n /\ n <= Len(rows)
             /\ \A k \in 1 .. n : rows'[k] = rows[f[k]]
             /\ \A j, k \in 1 .. n : j < k => f[j] < f[k]
             /\ \A i \in Kept : \E k \in 1 .. n : f[k] = i
  BY <1>0
<1>2. /\ log' = log \ {e \in log : e.at + AuditRetention < now}
      /\ now' = now /\ damages' = damages
      /\ cut' = (cut /\ Retained(rows[Len(rows)]))
  BY DEF Prune, prune_audit_events
<1>3. /\ \A e \in log : e.at \in Nat
      /\ now \in Nat /\ AuditRetention \in Nat
  BY BoundsAssumption DEF TypeOK, Event
<1>4. \A k \in 1 .. n : f[k] \in DOMAIN rows /\ Retained(rows[f[k]])
  BY DEF Kept
<1>5. RowsType'
  <2>1. Len(rows) \in Nat /\ MaxRows \in Nat
    BY AuditBoundsAssumption DEF RowsOK, RowsType
  <2>2. Len(rows') <= MaxRows
    BY <1>1, <2>1 DEF RowsOK, RowsType
  <2>3. QED
    BY <1>1, <1>2, <2>2 DEF RowsOK, RowsType
<1>6. cut' => rows' # <<>>
  <2>1. SUFFICES ASSUME cut' PROVE rows' # <<>>
    OBVIOUS
  <2>2. Len(rows) \in DOMAIN rows
    BY <1>2, <2>1, EmptySeq DEF RowsOK, RowsType, RowsInv
  <2>3. Len(rows) \in Kept
    BY <1>2, <2>1, <2>2 DEF Kept
  <2>4. PICK k \in 1 .. n : f[k] = Len(rows)
    BY <1>1, <2>3
  <2>5. QED
    BY <1>1, <2>4
<1>7. ASSUME NEW k \in DOMAIN rows', rows'[k].readable
      PROVE  rows'[k].event \in log'
  <2>1. /\ rows[f[k]].readable /\ f[k] \in DOMAIN rows
        /\ rows'[k].event = rows[f[k]].event
        /\ Retained(rows[f[k]])
    BY <1>1, <1>4, <1>7
  <2>2. PICK e : e = rows[f[k]].event
    OBVIOUS
  <2>3. e \in log
    BY <2>1, <2>2 DEF RowsOK, RowsInv
  <2>4. ~(e.at + AuditRetention < now)
    BY <1>3, <2>1, <2>2, <2>3 DEF Retained
  <2>5. QED
    BY <1>2, <2>1, <2>2, <2>3, <2>4
<1>8. \/ integrity_warning'
      \/ \A e \in log' : \E i \in DOMAIN rows' : rows'[i].event = e
  <2>1. CASE integrity_warning
    <3>1. PICK i \in DOMAIN rows : ~rows[i].readable
      BY <2>1 DEF integrity_warning
    <3>2. i \in Kept
      BY <3>1 DEF Kept, Retained
    <3>3. PICK k \in 1 .. n : f[k] = i
      BY <1>1, <3>2
    <3>4. k \in DOMAIN rows' /\ ~rows'[k].readable
      BY <1>1, <3>1, <3>3
    <3>5. QED
      BY <3>4 DEF integrity_warning
  <2>2. CASE \A e \in log : \E i \in DOMAIN rows : rows[i].event = e
    <3>1. ASSUME NEW e \in log'
          PROVE  \E k \in DOMAIN rows' : rows'[k].event = e
      <4>1. e \in log /\ ~(e.at + AuditRetention < now)
        BY <1>2, <3>1
      <4>2. PICK i \in DOMAIN rows : rows[i].event = e
        BY <2>2, <4>1
      <4>3. i \in Kept
        BY <1>3, <4>1, <4>2 DEF Kept, Retained
      <4>4. PICK k \in 1 .. n : f[k] = i
        BY <1>1, <4>3
      <4>5. k \in DOMAIN rows' /\ rows'[k].event = e
        BY <1>1, <4>2, <4>4
      <4>6. QED
        BY <4>5
    <3>2. QED
      BY <3>1
  <2>3. QED
    BY <2>1, <2>2 DEF RowsOK, RowsInv
<1>9. RowsInv'
  BY <1>6, <1>7, <1>8 DEF RowsInv
<1>10. TimeInv'
  <2>1. \A k \in DOMAIN rows' : rows'[k].event.at <= now'
    BY <1>1, <1>2, <1>4 DEF RowsOK, TimeInv
  <2>2. \A j, k \in DOMAIN rows' :
            j < k => rows'[j].event.at <= rows'[k].event.at
    BY <1>1, <1>4 DEF RowsOK, TimeInv
  <2>3. QED
    BY <2>1, <2>2 DEF TimeInv
<1>11. QED
  BY <1>5, <1>9, <1>10 DEF RowsOK

\* A spoilt row, or a lost newline, only warns.
LEMMA DamageKeeps ==
    ASSUME TypeOK, RowsOK, Damage
    PROVE  RowsOK'
<1>1. /\ damages < MaxDamages /\ rows # <<>> /\ damages' = damages + 1
      /\ log' = log /\ now' = now
  BY DEF Damage, vars
<1>2. damages' \in 0 .. MaxDamages
  BY <1>1, AuditBoundsAssumption DEF RowsOK, RowsType
<1>3. Len(rows) \in DOMAIN rows
  BY <1>1, EmptySeq DEF RowsOK, RowsType
<1>4. ASSUME NEW k \in DOMAIN rows,
             rows' = [rows EXCEPT ![k] = Unreadable(@)],
             cut' \in BOOLEAN
      PROVE  RowsOK'
  <2>1. /\ rows' \in Seq(Row) /\ Len(rows') = Len(rows)
        /\ ~rows'[k].readable
        /\ \A i \in DOMAIN rows :
             /\ rows'[i].event = rows[i].event
             /\ rows'[i].readable => rows[i].readable
    BY <1>4, OneSpoilt DEF RowsOK, RowsType
  <2>2. DOMAIN rows' = DOMAIN rows
    BY <1>4
  <2>3. RowsType'
    BY <1>2, <1>4, <2>1 DEF RowsOK, RowsType
  <2>4. integrity_warning'
    BY <2>1, <2>2 DEF integrity_warning
  <2>5. rows' # <<>>
    BY <1>4, <2>2
  <2>6. RowsInv'
    BY <1>1, <2>1, <2>2, <2>4, <2>5 DEF RowsOK, RowsInv
  <2>7. TimeInv'
    BY <1>1, <2>1, <2>2 DEF RowsOK, TimeInv
  <2>8. QED
    BY <2>3, <2>6, <2>7 DEF RowsOK
<1>5. ASSUME rows' = rows, cut' = TRUE
      PROVE  RowsOK'
  <2>1. RowsType'
    BY <1>2, <1>5 DEF RowsOK, RowsType
  <2>2. RowsInv'
    BY <1>1, <1>5 DEF RowsOK, RowsInv, integrity_warning
  <2>3. TimeInv'
    BY <1>1, <1>5 DEF RowsOK, TimeInv
  <2>4. QED
    BY <2>1, <2>2, <2>3 DEF RowsOK
<1>6. \/ \E k \in DOMAIN rows :
           rows' = [rows EXCEPT ![k] = Unreadable(@)] /\ cut' \in BOOLEAN
      \/ rows' = rows /\ cut' = TRUE
  <2>1. CASE \E i \in DOMAIN rows :
               rows' = [rows EXCEPT ![i] = Unreadable(@)] /\ cut' = cut
    BY <2>1 DEF RowsOK, RowsType
  <2>2. CASE /\ rows' \in {rows, [rows EXCEPT ![Len(rows)] = Unreadable(@)]}
             /\ cut' = TRUE
    <3>1. cut' \in BOOLEAN
      BY <2>2, Zenon
    <3>2. QED
      BY <1>3, <2>2, <3>1
  <2>3. QED
    BY <2>1, <2>2 DEF Damage
<1>7. QED
  BY <1>4, <1>5, <1>6

LEMMA DisposeKeeps ==
    ASSUME TypeOK, RowsOK, Dispose
    PROVE  RowsOK'
<1>1. now' = now /\ damages' = damages /\ now \in Nat
  BY DEF Dispose, dispose_private_state, TypeOK
<1>2. CASE log' = {} /\ rows' = <<>> /\ cut' = FALSE
  <2>1. /\ rows' \in Seq(Row) /\ Len(rows') = 0 /\ DOMAIN rows' = {}
    BY <1>2, EmptySeq
  <2>2. MaxRows \in Nat
    BY AuditBoundsAssumption
  <2>3. RowsType'
    <3>1. cut' \in BOOLEAN
      BY <1>2, Zenon
    <3>2. damages' \in 0 .. MaxDamages
      BY <1>1 DEF RowsOK, RowsType
    <3>3. Len(rows') <= MaxRows
      BY <2>1, <2>2
    <3>4. QED
      BY <2>1, <3>1, <3>2, <3>3 DEF RowsType
  <2>4. RowsInv' /\ TimeInv'
    BY <1>2, <2>1 DEF RowsInv, TimeInv
  <2>5. QED
    BY <2>3, <2>4 DEF RowsOK
<1>3. CASE log' = log /\ UNCHANGED <<rows, cut>>
  BY <1>1, <1>3, RowsStay
<1>4. QED
  BY <1>2, <1>3 DEF Dispose

-----------------------------------------------------------------------------

\* What is recorded belongs to no ended operation, or to a refused one.
LEMMA OperateRows ==
    ASSUME IInv, OpsInv, NEW p \in Procs, Operate(p), log' \subseteq Event
    PROVE  /\ now' = now /\ damages' = damages
           /\ \/ log' = log /\ UNCHANGED <<rows, cut>>
              \/ \E e \in Event :
                   /\ log' = log \cup {e} /\ e.at = now
                   /\ write_audit_event(e)
                   /\ e.phase = "denied" \/ Open(e.op)
<1>1. /\ now' = now
      /\ \/ Quiet /\ log' = log
         \/ Begins(p)
         \/ Notes(p)
  BY OperateEffect
<1>2. damages' = damages
  BY DEF Operate
<1>3. CASE log' = log
  BY <1>1, <1>2, <1>3 DEF Operate
<1>4. CASE log' # log
  <2>1. PICK e : /\ log' = log \cup {e} /\ e.at = now
                 /\ e.phase = "denied" \/ Open(e.op)
    <3>1. CASE Begins(p)
      <4>1. PICK e : /\ log' = log \cup {e}
                     /\ e.op = ops + 1 /\ e.at = now
                     /\ e.phase \in {"prepared", "denied"}
        BY <3>1 DEF Begins
      <4>2. ops \in Nat /\ \A f \in log : f.op \in 1 .. ops
        BY DEF IInv, TypeOK, OpsInv
      <4>3. \A f \in log : f.op # e.op
        BY <4>1, <4>2
      <4>4. QED
        BY <4>1, <4>3 DEF Open
    <3>2. CASE Notes(p)
      BY <3>2 DEF Notes, OpsInv
    <3>3. QED
      BY <1>1, <1>4, <3>1, <3>2
  <2>2. PICK event \in log' \ log : write_audit_event(event)
    BY <1>4 DEF Operate
  <2>3. event = e /\ e \in Event
    BY <2>1, <2>2
  <2>4. QED
    BY <1>1, <1>2, <2>1, <2>2, <2>3
<1>5. QED
  BY <1>3, <1>4

LEMMA RowsKept ==
    ASSUME IInv, OpsInv, RowsOK, [AuditNext]_fileVars, TypeOK'
    PROVE  RowsOK'
<1>0. TypeOK /\ now \in Nat
  BY DEF IInv, TypeOK
<1>1. ASSUME NEW p \in Procs, Operate(p) PROVE RowsOK'
  <2>1. log' \subseteq Event
    BY DEF TypeOK
  <2>2. /\ now' = now /\ damages' = damages
        /\ \/ log' = log /\ UNCHANGED <<rows, cut>>
           \/ \E e \in Event :
                /\ log' = log \cup {e} /\ e.at = now
                /\ write_audit_event(e)
    BY <1>1, <2>1, OperateRows
  <2>3. QED
    BY <1>0, <2>2, RowsStay, RecordKeeps
<1>2. ASSUME NEW p \in Procs, Elsewhere(p) PROVE RowsOK'
  BY <1>0, <1>2, ElsewhereQuiet, RowsStay DEF Elsewhere, auditVars
<1>3. ASSUME NEW p \in Procs, Prune(p) PROVE RowsOK'
  BY <1>0, <1>3, PruneKeeps
<1>4. CASE Dispose
  BY <1>0, <1>4, DisposeKeeps
<1>5. CASE Damage
  BY <1>0, <1>5, DamageKeeps
<1>6. CASE Tick /\ UNCHANGED auditVars
  BY <1>0, <1>6, RowsStay DEF Tick, auditVars
<1>7. CASE UNCHANGED fileVars
  BY <1>0, <1>7, RowsStay DEF fileVars, vars, auditVars
<1>8. QED
  BY <1>1, <1>2, <1>3, <1>4, <1>5, <1>6, <1>7 DEF AuditNext

LEMMA FileInitially == AuditInit => AInv
<1> SUFFICES ASSUME AuditInit PROVE AInv
  OBVIOUS
<1>1. IInv /\ RInv
  BY Initially, RecordsInitially DEF AuditInit
<1>2. OpsInv
  BY DEF AuditInit, Init, OpsInv, Busy
<1>3. /\ rows = <<>> /\ cut = FALSE /\ damages = 0 /\ log = {}
      /\ rows \in Seq(Row) /\ Len(rows) = 0 /\ DOMAIN rows = {}
  BY EmptySeq DEF AuditInit, Init
<1>4. AuditTypeOK
  <2>1. cut \in BOOLEAN
    BY <1>3, Zenon
  <2>2. damages \in 0 .. MaxDamages /\ Len(rows) <= MaxRows
    BY <1>3, AuditBoundsAssumption
  <2>3. QED
    BY <1>1, <1>3, <2>1, <2>2 DEF AuditTypeOK, IInv
<1>5. RowsInv /\ TimeInv
  BY <1>3 DEF RowsInv, TimeInv
<1>6. QED
  BY <1>1, <1>2, <1>4, <1>5 DEF AInv, FileInv

LEMMA FileKept == AInv /\ [AuditNext]_fileVars => AInv'
<1> SUFFICES ASSUME AInv, [AuditNext]_fileVars PROVE AInv'
  OBVIOUS
<1>1. IInv' /\ RInv'
  BY StepsOfConsent, NextKeepsIInv, NextKeepsRInv DEF AInv
<1>2. OpsInv'
  BY OpsInvKept DEF AInv, FileInv
<1>3. RowsOK
  BY DEF AInv, FileInv, AuditTypeOK, RowsOK, RowsType
<1>4. RowsOK' /\ TypeOK'
  BY <1>1, <1>3, RowsKept DEF AInv, FileInv, IInv
<1>5. QED
  BY <1>1, <1>2, <1>4 DEF AInv, FileInv, AuditTypeOK, RowsOK, RowsType

(***************************************************************************)
(* The audit file and the set of recorded events agree until a row is      *)
(* damaged, the rows stand in the order of time, and no operation that has *)
(* been recorded as ended goes on.                                         *)
(***************************************************************************)
THEOREM AuditInvariance == AuditSpec => []AInv
<1>1. AuditInit => AInv
  BY FileInitially
<1>2. AInv /\ [AuditNext]_fileVars => AInv'
  BY FileKept
<1>3. QED
  BY <1>1, <1>2, PTL DEF AuditSpec

(***************************************************************************)
(* The traffic on the audit file is the traffic of Consent: what is proved *)
(* of Consent holds with the file behind it.                               *)
(***************************************************************************)
THEOREM FileServesConsent == AuditSpec => Spec
<1>1. AuditInit => Init
  BY DEF AuditInit
<1>2. [AuditNext]_fileVars => [Next]_vars
  BY StepsOfConsent
<1>3. QED
  BY <1>1, <1>2, PTL DEF AuditSpec, Spec

(***************************************************************************)
(* The audit file holds rows within its limit (MAX_AUDIT_BYTES).           *)
(***************************************************************************)
THEOREM FileWithinLimit == AuditSpec => []AuditTypeOK
<1>1. AInv => AuditTypeOK
  BY DEF AInv, FileInv
<1>2. QED
  BY <1>1, AuditInvariance, PTL

-----------------------------------------------------------------------------
(* What readers are told.                                                  *)

LEMMA EventRows ==
    ASSUME RowsType, NEW op
    PROVE  /\ Len(rows) \in Nat
           /\ DOMAIN rows = 1 .. Len(rows)
           /\ EventsOf(op) \in SUBSET (1 .. Len(rows))
           /\ \A i \in EventsOf(op) :
                /\ rows[i] \in Row /\ rows[i].readable
                /\ rows[i].event.op = op /\ rows[i].event.phase # "denied"
  BY DEF RowsType, EventsOf, _read_audit_records

\* The state of an operation is the phase of its last event.
LEMMA StateIsLast ==
    ASSUME RowsType, NEW op, EventsOf(op) # {}
    PROVE  \E m \in EventsOf(op) :
             /\ m = Max(EventsOf(op))
             /\ OperationState(op) = rows[m].event.phase
             /\ \A i \in EventsOf(op) : i <= m
<1>1. /\ Max(EventsOf(op)) \in EventsOf(op)
      /\ \A i \in EventsOf(op) : i <= Max(EventsOf(op))
  BY EventRows, LastRow
<1>2. OperationState(op) = rows[Max(EventsOf(op))].event.phase
  BY DEF OperationState
<1>3. QED
  BY <1>1, <1>2

(***************************************************************************)
(* No event is lost silently, and none is read that was not recorded, for  *)
(* any number of damaged rows, limit and retention.                        *)
(***************************************************************************)
THEOREM LossShows == AuditSpec => []LossIsVisible
<1>1. AInv => LossIsVisible
  <2> SUFFICES ASSUME AInv PROVE LossIsVisible
    OBVIOUS
  <2>1. RowsInv
    BY DEF AInv, FileInv
  <2>2. {rows[i].event : i \in _read_audit_records} \subseteq log
    BY <2>1 DEF RowsInv, _read_audit_records
  <2>3. \/ integrity_warning
        \/ log \subseteq {rows[i].event : i \in _read_audit_records}
    <3>1. CASE ~integrity_warning
      <4>1. \A i \in DOMAIN rows : i \in _read_audit_records
        BY <3>1 DEF integrity_warning, _read_audit_records
      <4>2. QED
        BY <2>1, <3>1, <4>1 DEF RowsInv
    <3>2. QED
      BY <3>1
  <2>4. QED
    BY <2>2, <2>3 DEF LossIsVisible
<1>2. QED
  BY <1>1, AuditInvariance, PTL

(***************************************************************************)
(* The summary counts every raw release as delivered or as unknown, for    *)
(* any crash, full log, pruning and damage that no reader is warned of.    *)
(***************************************************************************)
THEOREM ReleasesAreCounted == AuditSpec => []SummaryCoversReleases
<1>1. AInv => SummaryCoversReleases
  <2> SUFFICES ASSUME AInv, NEW op \in released \ forgotten,
                      ~integrity_warning
               PROVE  OperationState(op) = "delivered" \/ OutcomeUnknown(op)
    BY DEF SummaryCoversReleases
  <2>1. RowsType /\ RowsInv /\ OpsInv /\ TypeOK
    BY DEF AInv, FileInv, AuditTypeOK, RowsType
  <2>2. PICK e \in log : e.op = op /\ e.phase = "prepared"
    BY DEF AInv, IInv, AuditInv, Known
  <2>3. PICK i \in DOMAIN rows : rows[i].event = e
    BY <2>1 DEF RowsInv
  <2>4. i \in EventsOf(op)
    BY <2>2, <2>3 DEF integrity_warning, EventsOf, _read_audit_records
  <2>5. PICK m \in EventsOf(op) : OperationState(op) = rows[m].event.phase
    BY <2>1, <2>4, StateIsLast
  <2>6. PICK f : f = rows[m].event
    OBVIOUS
  <2>7. f \in log /\ f.phase # "denied"
    BY <2>1, <2>6 DEF RowsInv, EventsOf, _read_audit_records
  <2>8. f.phase \in Phases /\ f.phase # "rejected"
    BY <2>1, <2>7 DEF TypeOK, Event, OpsInv
  <2>9. f.phase \in {"prepared", "committed", "delivered", "outcome_unknown"}
    BY <2>7, <2>8 DEF Phases
  <2>10. QED
    BY <2>5, <2>6, <2>9 DEF OutcomeUnknown, Incomplete
<1>2. QED
  BY <1>1, AuditInvariance, PTL

\* The rows that were kept hold the last event of an operation if they hold
\* any: the rows before it are older.
LEMMA PruningTakesEarlyEvents ==
    ASSUME TypeOK, RowsOK, NEW p \in Procs, Prune(p), NEW op,
           EventsOf(op)' # {}
    PROVE  OperationState(op)' = OperationState(op)
<1>0. PICK n \in Nat : \E f \in [1 .. n -> Kept] :
             /\ rows' \in Seq(Row) /\ Len(rows') = n
             /\ DOMAIN rows' = 1 .. n /\ n <= Len(rows)
             /\ \A k \in 1 .. n : rows'[k] = rows[f[k]]
             /\ \A j, k \in 1 .. n : j < k => f[j] < f[k]
             /\ \A i \in Kept : \E k \in 1 .. n : f[k] = i
  BY Pruned DEF Prune, RowsOK, RowsType
<1>1. PICK f \in [1 .. n -> Kept] :
             /\ rows' \in Seq(Row) /\ Len(rows') = n
             /\ DOMAIN rows' = 1 .. n /\ n <= Len(rows)
             /\ \A k \in 1 .. n : rows'[k] = rows[f[k]]
             /\ \A j, k \in 1 .. n : j < k => f[j] < f[k]
             /\ \A i \in Kept : \E k \in 1 .. n : f[k] = i
  BY <1>0
<1>2. RowsType /\ TimeInv /\ RowsOK'
  BY PruneKeeps DEF RowsOK
<1>3. \A k \in 1 .. n : f[k] \in DOMAIN rows /\ Retained(rows[f[k]])
  BY DEF Kept
<1>4. \A k \in 1 .. n : k \in EventsOf(op)' <=> f[k] \in EventsOf(op)
  BY <1>1, <1>3 DEF EventsOf, _read_audit_records
<1>5. EventsOf(op)' \in SUBSET (1 .. n)
  BY <1>1 DEF EventsOf, _read_audit_records
<1>6. PICK S : S = EventsOf(op)'
  OBVIOUS
<1>7. PICK k \in S : k = Max(S) /\ \A j \in S : j <= k
  BY <1>5, <1>6, LastRow
<1>8. k \in 1 .. n /\ f[k] \in EventsOf(op)
  BY <1>4, <1>5, <1>6, <1>7
<1>9. PICK m \in EventsOf(op) :
             /\ OperationState(op) = rows[m].event.phase
             /\ \A i \in EventsOf(op) : i <= m
  BY <1>2, <1>8, StateIsLast
<1>10. m \in Kept
  <2>1. PICK x \in EventsOf(op) : x = f[k]
    BY <1>8
  <2>2. /\ x <= m /\ x \in DOMAIN rows /\ m \in DOMAIN rows
        /\ x \in Nat /\ m \in Nat
        /\ rows[x].readable /\ Retained(rows[x])
    BY <1>2, <1>3, <1>8, <1>9, <2>1, EventRows
  <2>3. /\ rows[x].event.at \in Nat /\ rows[m].event.at \in Nat
    <3>1. rows[x] \in Row /\ rows[m] \in Row
      BY <1>2, <2>2, EventRows
    <3>2. rows[x].event \in Event /\ rows[m].event \in Event
      BY <3>1 DEF Row
    <3>3. QED
      BY <3>2 DEF Event
  <2>4. rows[x].event.at <= rows[m].event.at
    BY <1>2, <2>2, <2>3 DEF TimeInv
  <2>5. AuditRetention \in Nat /\ now \in Nat
    BY BoundsAssumption DEF TypeOK
  <2>6. Retained(rows[m])
    BY <2>2, <2>3, <2>4, <2>5 DEF Retained
  <2>7. QED
    BY <2>2, <2>6 DEF Kept
<1>11. PICK j \in 1 .. n : f[j] = m
  BY <1>1, <1>10
<1>12. j = k
  <2>1. j \in S
    BY <1>4, <1>6, <1>11
  <2>2. ~(j < k)
    <3>1. PICK x : x = f[k]
      OBVIOUS
    <3>2. x <= m /\ x \in Nat /\ m \in Nat
      BY <1>2, <1>8, <1>9, <3>1, EventRows
    <3>3. ~(m < x)
      BY <3>2
    <3>4. QED
      BY <1>1, <1>8, <1>11, <3>1, <3>3
  <2>3. QED
    BY <1>7, <1>8, <2>1, <2>2
<1>13. rows'[k].event.phase = OperationState(op)
  BY <1>1, <1>8, <1>9, <1>11, <1>12
<1>14. OperationState(op)' = rows'[Max(S)].event.phase
  BY <1>6 DEF OperationState
<1>15. QED
  BY <1>7, <1>13, <1>14

\* A new row, behind an intact one, changes only the state of its operation.
LEMMA OthersKeepTheirState ==
    ASSUME TypeOK, RowsOK, ~cut, NEW e \in Event, write_audit_event(e),
           NEW op, op # e.op \/ e.phase = "denied"
    PROVE  OperationState(op)' = OperationState(op)
<1>1. PICK n \in Nat : n = Len(rows) /\ DOMAIN rows = 1 .. n
  BY DEF RowsOK, RowsType
<1>2. /\ rows' \in Seq(Row) /\ Len(rows') = n + 1
      /\ rows'[n + 1].event = e
      /\ \A i \in 1 .. n : rows'[i] = rows[i]
  BY <1>1, Appended DEF RowsOK, RowsType, RowsInv, write_audit_event
<1>3. DOMAIN rows' = 1 .. n + 1
  BY <1>2
<1>4. EventsOf(op)' = EventsOf(op)
  <2>1. \A i \in 1 .. n : i \in EventsOf(op)' <=> i \in EventsOf(op)
    BY <1>1, <1>2, <1>3 DEF EventsOf, _read_audit_records
  <2>2. n + 1 \notin EventsOf(op)'
    BY <1>2 DEF EventsOf, _read_audit_records
  <2>3. EventsOf(op)' \subseteq 1 .. n + 1 /\ EventsOf(op) \subseteq 1 .. n
    BY <1>1, <1>3 DEF EventsOf, _read_audit_records
  <2>4. QED
    BY <2>1, <2>2, <2>3
<1>5. CASE EventsOf(op) = {}
  BY <1>4, <1>5 DEF OperationState
<1>6. CASE EventsOf(op) # {}
  <2>1. PICK m \in EventsOf(op) :
               /\ m = Max(EventsOf(op))
               /\ OperationState(op) = rows[m].event.phase
    BY <1>6, StateIsLast DEF RowsOK
  <2>2. rows'[m] = rows[m]
    BY <1>1, <1>2, <2>1 DEF EventsOf, _read_audit_records
  <2>3. OperationState(op)' = rows'[m].event.phase
    BY <1>4, <1>6, <2>1 DEF OperationState
  <2>4. QED
    BY <2>1, <2>2, <2>3
<1>7. QED
  BY <1>5, <1>6

\* What the log has of an operation that the summary calls finished.
LEMMA FinishedIsNotOpen ==
    ASSUME RowsOK, NEW op, OperationState(op) \in Terminal
    PROVE  ~Open(op)
<1>1. EventsOf(op) # {}
  BY DEF OperationState, Terminal
<1>2. PICK m \in EventsOf(op) : OperationState(op) = rows[m].event.phase
  BY <1>1, StateIsLast DEF RowsOK
<1>3. PICK e : e = rows[m].event
  OBVIOUS
<1>4. e \in log /\ e.op = op /\ e.phase \in Terminal
  BY <1>2, <1>3 DEF RowsOK, RowsInv, EventsOf, _read_audit_records
<1>5. QED
  BY <1>4 DEF Open

LEMMA SameRows ==
    ASSUME rows' = rows, NEW op
    PROVE  OperationState(op)' = OperationState(op)
  BY DEF OperationState, EventsOf, _read_audit_records

LEMMA NoEvents ==
    ASSUME NEW op, EventsOf(op)' = {}
    PROVE  OperationState(op)' = "absent"
  BY DEF OperationState

\* Unless the reader is warned, a step leaves the state of a finished
\* operation alone or takes the operation out of the file.
LEMMA FinishedStays ==
    ASSUME AInv, [AuditNext]_fileVars, NEW op,
           OperationState(op) \in Terminal, ~integrity_warning'
    PROVE  OperationState(op)' \in {OperationState(op), "absent"}
<1>0. RowsOK /\ TypeOK /\ IInv /\ OpsInv
  BY DEF AInv, FileInv, AuditTypeOK, RowsOK, RowsType
<1>1. ASSUME NEW p \in Procs, Operate(p)
      PROVE  OperationState(op)' = OperationState(op)
  <2>1. log' \subseteq Event
    BY FileKept DEF AInv, IInv, TypeOK
  <2>2. CASE UNCHANGED rows
    BY <2>2, SameRows
  <2>3. ASSUME NEW e \in Event, write_audit_event(e),
               e.phase = "denied" \/ Open(e.op)
        PROVE  OperationState(op)' = OperationState(op)
    <3>1. ~cut
      <4>1. SUFFICES ASSUME cut PROVE FALSE
        OBVIOUS
      <4>2. /\ Len(rows) \in Nat /\ Len(rows') = Len(rows) + 1
            /\ rows' \in Seq(Row)
            /\ ~rows'[Len(rows) + 1].readable
        BY <1>0, <2>3, <4>1, Appended
        DEF RowsOK, RowsType, RowsInv, write_audit_event
      <4>3. Len(rows) + 1 \in DOMAIN rows'
        BY <4>2
      <4>4. QED
        BY <4>2, <4>3 DEF integrity_warning
    <3>2. op # e.op \/ e.phase = "denied"
      BY <1>0, <2>3, FinishedIsNotOpen
    <3>3. QED
      BY <1>0, <2>3, <3>1, <3>2, OthersKeepTheirState
  <2>4. QED
    BY <1>0, <1>1, <2>1, <2>2, <2>3, OperateRows
<1>2. ASSUME NEW p \in Procs, Elsewhere(p)
      PROVE  OperationState(op)' = OperationState(op)
  BY <1>2, SameRows DEF Elsewhere, auditVars
<1>3. ASSUME NEW p \in Procs, Prune(p)
      PROVE  OperationState(op)' \in {OperationState(op), "absent"}
  BY <1>0, <1>3, PruningTakesEarlyEvents, NoEvents
<1>4. CASE Dispose
  <2>1. CASE rows' = <<>>
    <3>1. EventsOf(op)' = {}
      BY <2>1, EmptySeq DEF EventsOf, _read_audit_records
    <3>2. QED
      BY <3>1, NoEvents
  <2>2. CASE rows' = rows
    BY <2>2, SameRows
  <2>3. QED
    BY <1>4, <2>1, <2>2 DEF Dispose
<1>5. CASE Damage
  <2>1. ASSUME NEW k \in DOMAIN rows,
               rows' = [rows EXCEPT ![k] = Unreadable(@)]
        PROVE  FALSE
    <3>1. ~rows'[k].readable /\ k \in DOMAIN rows'
      BY <1>0, <2>1, OneSpoilt DEF RowsOK, RowsType
    <3>2. QED
      BY <3>1 DEF integrity_warning
  <2>2. Len(rows) \in DOMAIN rows
    BY <1>0, <1>5, EmptySeq DEF Damage, RowsOK, RowsType
  <2>3. rows' = rows
    BY <1>5, <2>1, <2>2 DEF Damage
  <2>4. QED
    BY <2>3, SameRows
<1>6. CASE Tick /\ UNCHANGED auditVars
  BY <1>6, SameRows DEF auditVars
<1>7. CASE UNCHANGED fileVars
  BY <1>7, SameRows DEF fileVars, auditVars
<1>8. QED
  BY <1>1, <1>2, <1>3, <1>4, <1>5, <1>6, <1>7 DEF AuditNext

(***************************************************************************)
(* An operation that the summary counts as finished never turns up as      *)
(* incomplete again: nothing is recorded of it after its last event, and   *)
(* pruning takes its early events first.                                   *)
(***************************************************************************)
THEOREM FinishedForGood == AuditSpec => FinishedStaysFinished
<1>1. AInv /\ [AuditNext]_fileVars =>
        [\A op \in 1 .. MaxOps :
           /\ OperationState(op) \in {"delivered", "outcome_unknown"}
           /\ ~integrity_warning'
           => ~Incomplete(op)']_fileVars
  <2> SUFFICES ASSUME AInv, [AuditNext]_fileVars, NEW op \in 1 .. MaxOps,
                      OperationState(op) \in Terminal,
                      ~integrity_warning'
               PROVE  ~Incomplete(op)'
    BY DEF Terminal
  <2>1. OperationState(op)' \in {OperationState(op), "absent"}
    BY FinishedStays
  <2>2. OperationState(op)' \notin {"prepared", "committed"}
    BY <2>1 DEF Terminal
  <2>3. QED
    BY <2>2 DEF Incomplete
<1>2. QED
  BY <1>1, AuditInvariance, PTL DEF AuditSpec, FinishedStaysFinished

(***************************************************************************)
(* With the file behind it, which may be full or damaged, a used token can *)
(* still be traced, and live records still stay.                           *)
(***************************************************************************)
THEOREM TracedInTheFile ==
    AuditSpec => []UsedTokensAreTraceable /\ LiveRecordsStay
  BY FileServesConsent, TokensAreTraceable, LiveRecordsRemain, PTL
=============================================================================
