--------------------------- MODULE PrivateIOProofs ---------------------------
(***************************************************************************)
(* Proofs about PrivateIO for every set of processes and every bound.      *)
(*                                                                         *)
(* First the commands are shown to be well bracketed, by rules that follow *)
(* the way they are composed; then the state of every process is shown to  *)
(* be the one its place in its command calls for.                          *)
(***************************************************************************)
EXTENDS PrivateIO, TLAPS

-----------------------------------------------------------------------------
(* What a command may rely on at an instruction: how deep in the guard it  *)
(* is, which file locks it holds, which files are still as it read them,   *)
(* and whether it has announced itself in the audit file.  A lock is held  *)
(* in the guard only.                                                      *)

Facts == Files \cup {"announced"}

Context ==
    {x \in [depth : Nat, held : SUBSET Files, fresh : SUBSET Facts] :
        x.held # {} => x.depth > 0}

At(d, h, r) == [depth |-> d, held |-> h, fresh |-> r]

Changes == {"write", "update", "install", "remove"}
OnFile == {"lock", "unlock", "read"} \cup Changes

Instr == ({"enter", "leave"} \X {Guard}) \cup (OnFile \X Files)

\* An announcement is one with respect to what was read of the audit file.
Learn(r, f) ==
    (r \cup {f}) \ (IF f = "audit" THEN {"announced"} ELSE {})

Spend(op, r, f) ==
    (r \ {f}) \cup (IF op = "write" /\ f = "audit" THEN {"announced"} ELSE {})

\* What must be known to change f.
MayChange(op, r, f) ==
    /\ op \in {"write", "update"} => f \in r
    /\ op = "install" => "vault" \in r
    /\ op = "write" /\ f = "consent" => "announced" \in r

\* Files are only touched in the guard, and nothing it protects is left
\* locked when it is left for good.
Allowed(i, x) ==
    /\ i[1] = "leave" => x.depth > 0 /\ (x.depth = 1 => x.held = {})
    /\ i[1] \in OnFile => x.depth > 0
    /\ i[1] = "lock" => i[2] \notin x.held
    /\ i[1] = "unlock" => i[2] \in x.held
    /\ i[1] \in Changes => MayChange(i[1], x.fresh, i[2])

\* The guard protects what was read: outside nothing is fresh.
After(i, x) ==
    CASE i[1] = "enter" -> At(x.depth + 1, x.held, x.fresh)
      [] i[1] = "leave" ->
            At(x.depth - 1, x.held, IF x.depth = 1 THEN {} ELSE x.fresh)
      [] i[1] = "lock" -> At(x.depth, x.held \cup {i[2]}, x.fresh)
      [] i[1] = "unlock" -> At(x.depth, x.held \ {i[2]}, x.fresh)
      [] i[1] = "read" -> At(x.depth, x.held, Learn(x.fresh, i[2]))
      [] i[1] \in Changes ->
            At(x.depth, x.held, Spend(i[1], x.fresh, i[2]))

\* path[k] is what holds after the first k instructions.
Follows(path, s) ==
    \A k \in 1 .. Len(s) :
        Allowed(s[k], path[k - 1]) /\ path[k] = After(s[k], path[k - 1])

Runs(s, x, y) ==
    /\ s \in Seq(Instr) /\ Len(s) > 0
    /\ \E path \in [0 .. Len(s) -> Context] :
          path[0] = x /\ path[Len(s)] = y /\ Follows(path, s)

\* Brackets are closed; only what is fresh may differ.
Balanced(s, d, h, r, new) == Runs(s, At(d, h, r), At(d, h, new))

\* How deep in the guard a set of locks may be held.
MayHold(d, h) == d \in Nat /\ h \in SUBSET Files /\ (h # {} => d > 0)

-----------------------------------------------------------------------------
(* The rules.                                                              *)

LEMMA ContextIs ==
    ASSUME NEW d, NEW h, NEW r \in SUBSET Facts, MayHold(d, h)
    PROVE  /\ At(d, h, r) \in Context
           /\ At(d, h, r).depth = d /\ At(d, h, r).held = h
           /\ At(d, h, r).fresh = r
  BY DEF MayHold, At, Context

LEMMA FactsStay ==
    ASSUME NEW r \in SUBSET Facts, NEW f \in Files, NEW op
    PROVE  Learn(r, f) \in SUBSET Facts /\ Spend(op, r, f) \in SUBSET Facts
  BY DEF Learn, Spend, Facts

LEMMA AfterIsContext ==
    ASSUME NEW x \in Context, NEW i \in Instr, Allowed(i, x)
    PROVE  After(i, x) \in Context
<1>1. /\ x.depth \in Nat /\ x.held \in SUBSET Files
      /\ x.fresh \in SUBSET Facts /\ (x.held # {} => x.depth > 0)
  BY DEF Context
<1>2. \/ i[1] \in {"enter", "leave"} /\ i[2] = Guard
      \/ i[1] \in OnFile /\ i[2] \in Files
  BY DEF Instr
<1>3. CASE i[1] = "enter"
  <2>1. After(i, x) = At(x.depth + 1, x.held, x.fresh)
    BY <1>3 DEF After, Changes
  <2>2. QED
    BY <1>1, <2>1, ContextIs DEF MayHold
<1>4. CASE i[1] = "leave"
  <2>1. After(i, x) =
            At(x.depth - 1, x.held, IF x.depth = 1 THEN {} ELSE x.fresh)
    BY <1>4 DEF After, Changes
  <2>2. MayHold(x.depth - 1, x.held)
    BY <1>1, <1>4 DEF Allowed, MayHold
  <2>3. QED
    BY <1>1, <2>1, <2>2, ContextIs
<1>5. CASE i[1] = "lock"
  <2>1. After(i, x) = At(x.depth, x.held \cup {i[2]}, x.fresh)
    BY <1>5 DEF After, Changes
  <2>2. MayHold(x.depth, x.held \cup {i[2]})
    BY <1>1, <1>2, <1>5 DEF Allowed, MayHold, OnFile
  <2>3. QED
    BY <1>1, <2>1, <2>2, ContextIs
<1>6. CASE i[1] = "unlock"
  <2>1. After(i, x) = At(x.depth, x.held \ {i[2]}, x.fresh)
    BY <1>6 DEF After, Changes
  <2>2. MayHold(x.depth, x.held \ {i[2]})
    BY <1>1 DEF MayHold
  <2>3. QED
    BY <1>1, <2>1, <2>2, ContextIs
<1>7. CASE i[1] = "read"
  <2>1. After(i, x) = At(x.depth, x.held, Learn(x.fresh, i[2]))
    BY <1>7 DEF After, Changes
  <2>2. Learn(x.fresh, i[2]) \in SUBSET Facts
    BY <1>1, <1>2, <1>7, FactsStay
  <2>3. QED
    BY <1>1, <2>1, <2>2, ContextIs DEF MayHold
<1>8. CASE i[1] \in Changes
  <2>1. After(i, x) = At(x.depth, x.held, Spend(i[1], x.fresh, i[2]))
    BY <1>8 DEF After, Changes
  <2>2. Spend(i[1], x.fresh, i[2]) \in SUBSET Facts
    BY <1>1, <1>2, <1>8, FactsStay DEF Changes
  <2>3. QED
    BY <1>1, <2>1, <2>2, ContextIs DEF MayHold
<1>9. QED
  BY <1>2, <1>3, <1>4, <1>5, <1>6, <1>7, <1>8 DEF OnFile

LEMMA OneInstruction ==
    ASSUME NEW x \in Context, NEW i \in Instr, Allowed(i, x)
    PROVE  Runs(<<i>>, x, After(i, x))
<1> DEFINE path == [k \in 0 .. 1 |-> IF k = 0 THEN x ELSE After(i, x)]
<1>1. <<i>> \in Seq(Instr) /\ Len(<<i>>) = 1 /\ <<i>>[1] = i
  OBVIOUS
<1>2. path \in [0 .. 1 -> Context] /\ path[0] = x /\ path[1] = After(i, x)
  BY AfterIsContext
<1> HIDE DEF path
<1>3. Follows(path, <<i>>)
  <2> SUFFICES ASSUME NEW k \in 1 .. Len(<<i>>)
               PROVE  /\ Allowed(<<i>>[k], path[k - 1])
                      /\ path[k] = After(<<i>>[k], path[k - 1])
    BY DEF Follows
  <2>1. k = 1 /\ k - 1 = 0
    BY <1>1
  <2>2. <<i>>[k] = i /\ path[k - 1] = x /\ path[k] = After(i, x)
    BY <2>1, <1>1, <1>2
  <2>3. QED
    BY <2>2
<1>4. QED
  BY <1>1, <1>2, <1>3 DEF Runs

\* One after the other.
LEMMA Sequenced ==
    ASSUME NEW s, NEW t, NEW x, NEW y, NEW z, Runs(s, x, y), Runs(t, y, z)
    PROVE  Runs(s \o t, x, z)
<1>1. /\ s \in Seq(Instr) /\ t \in Seq(Instr)
      /\ Len(s) \in Nat /\ Len(t) \in Nat /\ Len(s) > 0
  BY DEF Runs
<1>2. PICK first \in [0 .. Len(s) -> Context] :
          first[0] = x /\ first[Len(s)] = y /\ Follows(first, s)
  BY DEF Runs
<1>3. PICK second \in [0 .. Len(t) -> Context] :
          second[0] = y /\ second[Len(t)] = z /\ Follows(second, t)
  BY DEF Runs
<1> DEFINE path == [k \in 0 .. Len(s) + Len(t) |->
                      IF k <= Len(s) THEN first[k] ELSE second[k - Len(s)]]
<1>4. /\ s \o t \in Seq(Instr) /\ Len(s \o t) = Len(s) + Len(t)
      /\ \A k \in 1 .. Len(s) + Len(t) : (s \o t)[k] =
            IF k <= Len(s) THEN s[k] ELSE t[k - Len(s)]
  BY <1>1
<1>5. path \in [0 .. Len(s \o t) -> Context]
  BY <1>1, <1>2, <1>3, <1>4
<1>6. /\ path[0] = x /\ path[Len(s \o t)] = z
      /\ \A k \in 0 .. Len(s) : path[k] = first[k]
      /\ \A k \in Len(s) .. Len(s) + Len(t) : path[k] = second[k - Len(s)]
  <2>1. \A k \in 0 .. Len(s) : path[k] = first[k]
    BY <1>1
  <2>2. \A k \in Len(s) .. Len(s) + Len(t) : path[k] = second[k - Len(s)]
    BY <1>1, <1>2, <1>3
  <2>3. path[0] = x
    BY <2>1, <1>1, <1>2
  <2>4. path[Len(s) + Len(t)] = second[Len(t)]
    <3>1. /\ Len(s) + Len(t) \in Len(s) .. Len(s) + Len(t)
          /\ (Len(s) + Len(t)) - Len(s) = Len(t)
      BY <1>1
    <3>2. QED
      BY <2>2, <3>1
  <2>5. QED
    BY <2>1, <2>2, <2>3, <2>4, <1>3, <1>4
<1> HIDE DEF path
<1>7. Follows(path, s \o t)
  <2> SUFFICES ASSUME NEW k \in 1 .. Len(s \o t)
               PROVE  /\ Allowed((s \o t)[k], path[k - 1])
                      /\ path[k] = After((s \o t)[k], path[k - 1])
    BY DEF Follows
  <2>1. CASE k <= Len(s)
    <3>1. k \in 1 .. Len(s) /\ k \in 0 .. Len(s) /\ k - 1 \in 0 .. Len(s)
      BY <2>1, <1>1, <1>4
    <3>2. /\ (s \o t)[k] = s[k] /\ path[k] = first[k]
          /\ path[k - 1] = first[k - 1]
      BY <2>1, <3>1, <1>4, <1>6
    <3>3. QED
      BY <3>1, <3>2, <1>2 DEF Follows
  <2>2. CASE ~(k <= Len(s))
    <3>1. /\ k - Len(s) \in 1 .. Len(t)
          /\ k \in Len(s) .. Len(s) + Len(t)
          /\ k - 1 \in Len(s) .. Len(s) + Len(t)
          /\ (k - 1) - Len(s) = (k - Len(s)) - 1
      BY <2>2, <1>1, <1>4
    <3>2. /\ (s \o t)[k] = t[k - Len(s)] /\ path[k] = second[k - Len(s)]
          /\ path[k - 1] = second[(k - Len(s)) - 1]
      BY <2>2, <3>1, <1>4, <1>6
    <3>3. QED
      BY <3>1, <3>2, <1>3 DEF Follows
  <2>3. QED
    BY <2>1, <2>2
<1>8. Len(s \o t) > 0
  BY <1>1, <1>4
<1>9. QED
  BY <1>4, <1>5, <1>6, <1>7, <1>8 DEF Runs

LEMMA BothBalanced ==
    ASSUME NEW s, NEW t, NEW d, NEW h, NEW r, NEW new, NEW last,
           Balanced(s, d, h, r, new), Balanced(t, d, h, new, last)
    PROVE  Balanced(s \o t, d, h, r, last)
  BY Sequenced DEF Balanced

LEMMA Reading ==
    ASSUME NEW d, NEW h, MayHold(d, h), d > 0, NEW r \in SUBSET Facts,
           NEW f \in Files
    PROVE  Balanced(Read(f), d, h, r, Learn(r, f))
<1>1. <<"read", f>> \in Instr
  BY DEF Instr, OnFile
<1>2. At(d, h, r) \in Context /\ Allowed(<<"read", f>>, At(d, h, r))
  BY ContextIs DEF Allowed, Changes
<1>3. After(<<"read", f>>, At(d, h, r)) = At(d, h, Learn(r, f))
  BY ContextIs DEF After, Changes
<1>4. QED
  BY <1>1, <1>2, <1>3, OneInstruction DEF Balanced, Read

LEMMA Changing ==
    ASSUME NEW d, NEW h, MayHold(d, h), d > 0, NEW r \in SUBSET Facts,
           NEW f \in Files, NEW op \in Changes, MayChange(op, r, f)
    PROVE  Balanced(<<<<op, f>>>>, d, h, r, Spend(op, r, f))
<1>1. <<op, f>> \in Instr
  BY DEF Instr, OnFile
<1>2. At(d, h, r) \in Context /\ Allowed(<<op, f>>, At(d, h, r))
  BY ContextIs DEF Allowed, Changes
<1>3. After(<<op, f>>, At(d, h, r)) = At(d, h, Spend(op, r, f))
  <2>1. After(<<op, f>>, At(d, h, r)) =
            At(At(d, h, r).depth, At(d, h, r).held,
               Spend(op, At(d, h, r).fresh, f))
    BY DEF After, Changes
  <2>2. QED
    BY <2>1, ContextIs
<1>4. QED
  BY <1>1, <1>2, <1>3, OneInstruction DEF Balanced

\* The guard around a body that closes its brackets.
LEMMA Guarded ==
    ASSUME NEW d, NEW h, MayHold(d, h), NEW r \in SUBSET Facts,
           NEW new \in SUBSET Facts, NEW body,
           Balanced(body, d + 1, h, r, new)
    PROVE  Balanced(kdf_write_guard(body), d, h, r,
                    IF d = 0 THEN {} ELSE new)
<1> DEFINE enter == <<"enter", Guard>>
           leave == <<"leave", Guard>>
<1>1. enter \in Instr /\ leave \in Instr
  BY DEF Instr
<1>2. MayHold(d + 1, h)
  BY DEF MayHold
<1>3. Runs(<<enter>>, At(d, h, r), At(d + 1, h, r))
  <2>1. At(d, h, r) \in Context /\ Allowed(enter, At(d, h, r))
    BY ContextIs DEF Allowed, OnFile, Changes
  <2>2. After(enter, At(d, h, r)) = At(d + 1, h, r)
    BY ContextIs DEF After, Changes
  <2>3. QED
    BY <1>1, <2>1, <2>2, OneInstruction
<1>4. Runs(<<leave>>, At(d + 1, h, new),
           At(d, h, IF d = 0 THEN {} ELSE new))
  <2>1. At(d + 1, h, new) \in Context
    BY <1>2, ContextIs
  <2>2. Allowed(leave, At(d + 1, h, new))
    BY <1>2, ContextIs DEF Allowed, OnFile, Changes, MayHold
  <2>3. After(leave, At(d + 1, h, new)) =
            At(d, h, IF d = 0 THEN {} ELSE new)
    <3>1. d \in Nat /\ (d + 1) - 1 = d /\ (d + 1 = 1 <=> d = 0)
      BY DEF MayHold
    <3>2. After(leave, At(d + 1, h, new)) =
              At((d + 1) - 1, h, IF d + 1 = 1 THEN {} ELSE new)
      BY <1>2, ContextIs DEF After, Changes
    <3>3. QED
      BY <3>1, <3>2
  <2>4. QED
    BY <1>1, <2>1, <2>2, <2>3, OneInstruction
<1>5. Runs(<<enter>> \o body, At(d, h, r), At(d + 1, h, new))
  BY <1>3, Sequenced DEF Balanced
<1>6. QED
  BY <1>4, <1>5, Sequenced DEF Balanced, kdf_write_guard

LEMMA Locked ==
    ASSUME NEW d, NEW h, MayHold(d, h), d > 0, NEW r \in SUBSET Facts,
           NEW new \in SUBSET Facts, NEW body, NEW f \in Files, f \notin h,
           Balanced(body, d, h \cup {f}, r, new)
    PROVE  Balanced(exclusive_private_lock(f, body), d, h, r, new)
<1> DEFINE lock == <<"lock", f>>
           unlock == <<"unlock", f>>
<1>1. lock \in Instr /\ unlock \in Instr
  BY DEF Instr, OnFile
<1>2. MayHold(d, h \cup {f})
  BY DEF MayHold
<1>3. Runs(<<lock>>, At(d, h, r), At(d, h \cup {f}, r))
  <2>1. At(d, h, r) \in Context /\ Allowed(lock, At(d, h, r))
    BY ContextIs DEF Allowed, Changes
  <2>2. After(lock, At(d, h, r)) = At(d, h \cup {f}, r)
    <3>1. lock[1] = "lock" /\ lock[2] = f
      OBVIOUS
    <3>2. After(lock, At(d, h, r)) =
              At(At(d, h, r).depth, At(d, h, r).held \cup {lock[2]},
                 At(d, h, r).fresh)
      BY <3>1 DEF After, Changes
    <3>3. /\ At(d, h, r).depth = d /\ At(d, h, r).held = h
          /\ At(d, h, r).fresh = r
      BY DEF At
    <3>4. QED
      BY <3>1, <3>2, <3>3, Zenon
  <2>3. QED
    BY <1>1, <2>1, <2>2, OneInstruction
<1>4. Runs(<<unlock>>, At(d, h \cup {f}, new), At(d, h, new))
  <2>1. /\ At(d, h \cup {f}, new) \in Context
        /\ Allowed(unlock, At(d, h \cup {f}, new))
    BY <1>2, ContextIs DEF Allowed, Changes
  <2>2. After(unlock, At(d, h \cup {f}, new)) =
            At(d, (h \cup {f}) \ {f}, new)
    <3>1. unlock[1] = "unlock" /\ unlock[2] = f
      OBVIOUS
    <3>2. After(unlock, At(d, h \cup {f}, new)) =
              At(At(d, h \cup {f}, new).depth,
                 At(d, h \cup {f}, new).held \ {unlock[2]},
                 At(d, h \cup {f}, new).fresh)
      BY <3>1 DEF After, Changes
    <3>3. /\ At(d, h \cup {f}, new).depth = d
          /\ At(d, h \cup {f}, new).held = h \cup {f}
          /\ At(d, h \cup {f}, new).fresh = new
      BY DEF At
    <3>4. QED
      BY <3>1, <3>2, <3>3, Zenon
  <2>3. (h \cup {f}) \ {f} = h
    OBVIOUS
  <2>4. QED
    BY <1>1, <2>1, <2>2, <2>3, OneInstruction
<1>5. Runs(<<lock>> \o body, At(d, h, r), At(d, h \cup {f}, new))
  BY <1>3, Sequenced DEF Balanced
<1>6. QED
  BY <1>4, <1>5, Sequenced DEF Balanced, exclusive_private_lock

-----------------------------------------------------------------------------
(* The commands.                                                           *)

LEMMA Disjoint ==
    /\ Files = {"vault", "consent", "audit"}
    /\ Facts = {"vault", "consent", "audit", "announced"}
    /\ "vault" # "consent" /\ "vault" # "audit" /\ "consent" # "audit"
    /\ \A f \in Files : f # "announced"
  BY DEF Files, Facts

\* Depths of the guard and locks that occur.
LEMMA Depths ==
    /\ MayHold(0, {}) /\ MayHold(1, {}) /\ MayHold(2, {})
    /\ 0 + 1 = 1 /\ 1 + 1 = 2 /\ 1 > 0 /\ 2 > 0
    /\ 0 \in Nat /\ 1 \in Nat /\ 1 # 0
    /\ \A h \in SUBSET Files : MayHold(1, h) /\ MayHold(2, h)
  BY DEF MayHold

\* A sidecar is changed beside the vault that is there.
LEMMA SidecarChanged ==
    ASSUME NEW d, NEW h, MayHold(d, h), NEW r \in SUBSET Facts,
           NEW f \in {"consent", "audit"}, NEW op \in Changes,
           MayChange(op, r \cup {"vault"}, f)
    PROVE  Balanced(kdf_write_guard(Read("vault") \o <<<<op, f>>>>), d, h, r,
                    IF d = 0 THEN {} ELSE Spend(op, r \cup {"vault"}, f))
<1>1. "vault" \in Files /\ f \in Files /\ r \cup {"vault"} \in SUBSET Facts
  BY Disjoint
<1>2. d \in Nat /\ MayHold(d + 1, h) /\ d + 1 > 0
  BY DEF MayHold
<1>3. Learn(r, "vault") = r \cup {"vault"}
  BY Disjoint DEF Learn
<1>4. Balanced(Read("vault"), d + 1, h, r, r \cup {"vault"})
  BY <1>1, <1>2, <1>3, Reading
<1>5. Balanced(<<<<op, f>>>>, d + 1, h, r \cup {"vault"},
               Spend(op, r \cup {"vault"}, f))
  BY <1>1, <1>2, Changing
<1>6. Balanced(Read("vault") \o <<<<op, f>>>>, d + 1, h, r,
               Spend(op, r \cup {"vault"}, f))
  BY <1>4, <1>5, BothBalanced
<1>7. Spend(op, r \cup {"vault"}, f) \in SUBSET Facts
  BY <1>1, FactsStay
<1>8. QED
  BY <1>6, <1>7, Guarded

\* What is known after an announcement in the guard.
Told(r) == (r \ {"audit"}) \cup {"vault", "announced"}

LEMMA AuditEventWritten ==
    ASSUME NEW d, NEW h, MayHold(d, h), "audit" \notin h, h \in SUBSET Files,
           NEW r \in SUBSET Facts
    PROVE  Balanced(write_audit_event, d, h, r,
                    IF d = 0 THEN {} ELSE Told(r))
<1> DEFINE locked == h \cup {"audit"}
           known == Learn(r, "audit")
<1>1. "audit" \in Files /\ d \in Nat
  BY Disjoint DEF MayHold
<1>2. MayHold(d + 1, h) /\ MayHold(d + 1, locked) /\ d + 1 > 0 /\ d + 1 # 0
  BY <1>1 DEF MayHold
<1>3. known \in SUBSET Facts
  BY <1>1, FactsStay
<1>4. /\ MayChange("write", known \cup {"vault"}, "audit")
      /\ Spend("write", known \cup {"vault"}, "audit") = Told(r)
  BY Disjoint DEF MayChange, Spend, Told, Learn
<1>5. Balanced(Read("audit"), d + 1, locked, r, known)
  BY <1>1, <1>2, Reading
<1> HIDE DEF known
<1>6. Balanced(write_sidecar_bytes("audit"), d + 1, locked, known, Told(r))
  <2>1. Balanced(kdf_write_guard(Read("vault") \o <<<<"write", "audit">>>>),
                 d + 1, locked, known,
                 IF d + 1 = 0 THEN {}
                 ELSE Spend("write", known \cup {"vault"}, "audit"))
    BY <1>2, <1>3, <1>4, SidecarChanged DEF Changes
  <2>2. QED
    BY <1>2, <1>4, <2>1 DEF write_sidecar_bytes, Write
<1>7. Balanced(Read("audit") \o write_sidecar_bytes("audit"), d + 1,
               locked, r, Told(r))
  BY <1>5, <1>6, BothBalanced
<1>8. Told(r) \in SUBSET Facts
  BY Disjoint DEF Told
<1>9. Balanced(exclusive_private_lock("audit",
                   Read("audit") \o write_sidecar_bytes("audit")),
               d + 1, h, r, Told(r))
  BY <1>1, <1>2, <1>7, <1>8, Locked
<1>10. QED
  BY <1>8, <1>9, Guarded DEF write_audit_event, _audit_state_lock

\* Outside the guard an announcement leaves nothing fresh.
LEMMA Announcement == Balanced(write_audit_event, 0, {}, {}, {})
  BY Depths, AuditEventWritten

LEMMA VaultWritten == Balanced(write_store, 0, {}, {}, {})
<1> DEFINE body == Read("vault") \o Write("vault")
<1>1. /\ "vault" \in Files /\ "vault" \notin {} /\ {} \cup {"vault"} = {"vault"}
      /\ {"vault"} \in SUBSET Files /\ {} \in SUBSET Facts
      /\ {"vault"} \in SUBSET Facts
  BY Disjoint
<1>2. /\ Learn({}, "vault") = {"vault"}
      /\ MayChange("write", {"vault"}, "vault")
      /\ Spend("write", {"vault"}, "vault") = {}
  BY Disjoint DEF Learn, MayChange, Spend
<1>3. Balanced(Read("vault"), 1, {"vault"}, {}, {"vault"})
  BY <1>1, <1>2, Depths, Reading
<1>4. Balanced(Write("vault"), 1, {"vault"}, {"vault"}, {})
  <2>1. MayHold(1, {"vault"}) /\ 1 > 0 /\ "write" \in Changes
    BY <1>1, Depths DEF Changes
  <2>2. Balanced(<<<<"write", "vault">>>>, 1, {"vault"}, {"vault"},
                 Spend("write", {"vault"}, "vault"))
    BY <1>1, <1>2, <2>1, Changing
  <2>3. QED
    BY <1>2, <2>2 DEF Write
<1>5. Balanced(body, 1, {} \cup {"vault"}, {}, {})
  BY <1>1, <1>3, <1>4, BothBalanced
<1> HIDE DEF body
<1>6. Balanced(exclusive_private_lock("vault", body), 0 + 1, {}, {}, {})
  BY <1>1, <1>5, Depths, Locked
<1>7. QED
  BY <1>1, <1>6, Depths, Guarded DEF write_store, body

LEMMA VaultChanged == Balanced(change_vault, 0, {}, {}, {})
  BY Announcement, VaultWritten, BothBalanced DEF change_vault

\* A body that runs under the lock of the consent records, or of the audit
\* file.
LEMMA FileLocked ==
    ASSUME NEW d \in Nat, NEW r \in SUBSET Facts, NEW new \in SUBSET Facts,
           NEW body, NEW f \in Files, Balanced(body, d + 1, {f}, r, new)
    PROVE  Balanced(kdf_write_guard(exclusive_private_lock(f, body)),
                    d, {}, r, IF d = 0 THEN {} ELSE new)
<1>1. MayHold(d, {}) /\ MayHold(d + 1, {}) /\ d + 1 > 0
  BY DEF MayHold
<1>2. f \notin {} /\ {} \cup {f} = {f}
  OBVIOUS
<1>3. Balanced(body, d + 1, {} \cup {f}, r, new)
  BY <1>2
<1>4. Balanced(exclusive_private_lock(f, body), d + 1, {}, r, new)
  BY <1>1, <1>2, <1>3, Locked
<1>5. QED
  BY <1>1, <1>4, Guarded

LEMMA ConsentChanged == Balanced(change_consent, 0, {}, {}, {})
<1> DEFINE read == {"consent"}
           told == {"consent", "vault", "announced"}
           done == {"vault", "announced"}
<1>1. /\ "consent" \in Files /\ {"consent"} \in SUBSET Files
      /\ {} \in SUBSET Facts /\ read \in SUBSET Facts
      /\ told \in SUBSET Facts /\ done \in SUBSET Facts
      /\ "audit" \notin {"consent"} /\ told \cup {"vault"} = told
  BY Disjoint
<1>2. /\ Learn({}, "consent") = read /\ Told(read) = told
      /\ MayChange("write", told, "consent")
      /\ Spend("write", told, "consent") = done
  BY Disjoint DEF Learn, Told, MayChange, Spend
<1>3. Balanced(Read("consent"), 1, {"consent"}, {}, read)
  <2>1. MayHold(1, {"consent"}) /\ 1 > 0
    BY <1>1, Depths
  <2>2. Balanced(Read("consent"), 1, {"consent"}, {}, Learn({}, "consent"))
    BY <1>1, <2>1, Reading
  <2>3. QED
    BY <1>2, <2>2
<1>4. Balanced(write_audit_event, 1, {"consent"}, read, told)
  <2>1. MayHold(1, {"consent"}) /\ 1 # 0
    BY <1>1, Depths
  <2>2. Balanced(write_audit_event, 1, {"consent"}, read,
                 IF 1 = 0 THEN {} ELSE Told(read))
    BY <1>1, <2>1, AuditEventWritten
  <2>3. QED
    BY <1>2, <2>1, <2>2
<1>5. Balanced(write_sidecar_bytes("consent"), 1, {"consent"}, told, done)
  <2>1. Balanced(kdf_write_guard(Read("vault") \o <<<<"write", "consent">>>>),
                 1, {"consent"}, told,
                 IF 1 = 0 THEN {}
                 ELSE Spend("write", told \cup {"vault"}, "consent"))
    BY <1>1, <1>2, Depths, SidecarChanged DEF Changes
  <2>2. QED
    BY <1>1, <1>2, <2>1 DEF write_sidecar_bytes, Write
<1> HIDE DEF read, told, done
<1>6. Balanced(Read("consent") \o write_audit_event
                   \o write_sidecar_bytes("consent"),
               0 + 1, {"consent"}, {}, done)
  BY <1>3, <1>4, <1>5, Depths, BothBalanced
<1>7. Balanced(_state_lock(Read("consent") \o write_audit_event
                   \o write_sidecar_bytes("consent")), 0, {}, {}, {})
  BY <1>1, <1>6, Depths, FileLocked DEF _state_lock
<1>8. QED
  BY <1>7, Announcement, BothBalanced DEF change_consent

\* The sidecars are only read under their locks.
LEMMA SidecarRead ==
    ASSUME NEW d \in {0, 1}, NEW r \in SUBSET Facts,
           NEW f \in {"consent", "audit"}
    PROVE  Balanced(kdf_write_guard(exclusive_private_lock(f, Read(f))),
                    d, {}, r, IF d = 0 THEN {} ELSE Learn(r, f))
<1>1. /\ f \in Files /\ {f} \in SUBSET Files /\ d \in Nat
      /\ d + 1 > 0 /\ MayHold(d + 1, {f})
  BY Disjoint DEF MayHold
<1>2. Learn(r, f) \in SUBSET Facts
  BY <1>1, FactsStay
<1>3. Balanced(Read(f), d + 1, {f}, r, Learn(r, f))
  BY <1>1, Reading
<1>4. QED
  BY <1>1, <1>2, <1>3, FileLocked

\* A sidecar that was prepared is installed without being read again.
LEMMA SidecarInstalled ==
    ASSUME NEW f \in {"consent", "audit"}
    PROVE  Balanced(kdf_write_guard(exclusive_private_lock(f,
                        commit_prepared_sidecar(f))), 0, {}, {}, {})
<1>1. /\ f \in Files /\ {f} \in SUBSET Files /\ {} \in SUBSET Facts
      /\ {} \cup {"vault"} = {"vault"} /\ {"vault"} \in SUBSET Facts
  BY Disjoint
<1>2. /\ MayChange("install", {"vault"}, f)
      /\ Spend("install", {"vault"}, f) = {"vault"}
  BY Disjoint DEF MayChange, Spend
<1>3. Balanced(commit_prepared_sidecar(f), 0 + 1, {f}, {}, {"vault"})
  <2>1. Balanced(kdf_write_guard(Read("vault") \o <<<<"install", f>>>>),
                 1, {f}, {},
                 IF 1 = 0 THEN {} ELSE Spend("install", {} \cup {"vault"}, f))
    BY <1>1, <1>2, Depths, SidecarChanged DEF Changes
  <2>2. QED
    BY <1>1, <1>2, <2>1, Depths DEF commit_prepared_sidecar, Install
<1>4. QED
  BY <1>1, <1>3, Depths, FileLocked

LEMMA SidecarsProtected ==
    /\ Balanced(prepare_sidecars, 0, {}, {}, {})
    /\ Balanced(commit_sidecars, 0, {}, {}, {})
<1>1. /\ Balanced(_state_lock(Read("consent")), 0, {}, {}, {})
      /\ Balanced(_audit_state_lock(Read("audit")), 0, {}, {}, {})
  BY SidecarRead DEF _state_lock, _audit_state_lock
<1>2. /\ Balanced(_state_lock(commit_prepared_sidecar("consent")),
                  0, {}, {}, {})
      /\ Balanced(_audit_state_lock(commit_prepared_sidecar("audit")),
                  0, {}, {}, {})
  BY SidecarInstalled DEF _state_lock, _audit_state_lock
<1>3. QED
  BY <1>1, <1>2, BothBalanced DEF prepare_sidecars, commit_sidecars

LEMMA Encrypted ==
    /\ Balanced(encrypt, 0, {}, {}, {})
    /\ Balanced(protect_sidecars, 0, {}, {}, {})
<1>1. Balanced(write_audit_event \o prepare_sidecars, 0, {}, {}, {})
  BY Announcement, SidecarsProtected, BothBalanced
<1>2. /\ Balanced(write_audit_event \o prepare_sidecars \o write_store
                      \o commit_sidecars, 0, {}, {}, {})
      /\ Balanced(write_audit_event \o prepare_sidecars \o commit_sidecars,
                  0, {}, {}, {})
  BY <1>1, SidecarsProtected, VaultWritten, BothBalanced
<1>3. QED
  BY <1>2, Announcement, BothBalanced DEF encrypt, protect_sidecars

LEMMA SidecarPruned ==
    ASSUME NEW f \in {"consent", "audit"}
    PROVE  Balanced(kdf_write_guard(exclusive_private_lock(f,
                        Read(f) \o update_sidecar_bytes(f))), 0, {}, {}, {})
<1>1. /\ f \in Files /\ {f} \in SUBSET Files /\ {} \in SUBSET Facts
      /\ {f} \in SUBSET Facts /\ {"vault"} \in SUBSET Facts
  BY Disjoint
<1>2. /\ Learn({}, f) = {f} /\ MayChange("update", {f} \cup {"vault"}, f)
      /\ Spend("update", {f} \cup {"vault"}, f) = {"vault"}
  BY Disjoint DEF Learn, MayChange, Spend
<1>3. Balanced(Read(f), 1, {f}, {}, {f})
  BY <1>1, <1>2, Depths, Reading
<1>4. Balanced(update_sidecar_bytes(f), 1, {f}, {f}, {"vault"})
  <2>1. Balanced(kdf_write_guard(Read("vault") \o <<<<"update", f>>>>),
                 1, {f}, {f},
                 IF 1 = 0 THEN {} ELSE Spend("update", {f} \cup {"vault"}, f))
    BY <1>1, <1>2, Depths, SidecarChanged DEF Changes
  <2>2. QED
    BY <1>2, <2>1 DEF update_sidecar_bytes, Update
<1>5. Balanced(Read(f) \o update_sidecar_bytes(f), 0 + 1, {f}, {}, {"vault"})
  BY <1>3, <1>4, Depths, BothBalanced
<1>6. QED
  BY <1>1, <1>5, Depths, FileLocked

LEMMA MetadataPruned == Balanced(prune_private_metadata, 0, {}, {}, {})
  BY SidecarPruned, BothBalanced
  DEF prune_private_metadata, _state_lock, _audit_state_lock

LEMMA StateDisposed == Balanced(dispose_private_state, 0, {}, {}, {})
<1> DEFINE body == Remove("vault") \o Remove("consent") \o Remove("audit")
<1>1. /\ {} \in SUBSET Facts /\ Files \in SUBSET Files
      /\ "vault" \in Files /\ "vault" \notin {}
      /\ "consent" \in Files /\ "consent" \notin {"vault"}
      /\ "audit" \in Files /\ "audit" \notin {"vault", "consent"}
      /\ {"vault"} \in SUBSET Files /\ {"vault", "consent"} \in SUBSET Files
      /\ {} \cup {"vault"} = {"vault"}
      /\ {"vault"} \cup {"consent"} = {"vault", "consent"}
      /\ {"vault", "consent"} \cup {"audit"} = Files
  BY Disjoint
<1>2. ASSUME NEW f \in Files
      PROVE  Balanced(Remove(f), 1, Files, {}, {})
  <2>1. MayChange("remove", {}, f) /\ Spend("remove", {}, f) = {}
    BY DEF MayChange, Spend
  <2>2. MayHold(1, Files) /\ 1 > 0 /\ "remove" \in Changes
    BY <1>1, Depths DEF Changes
  <2>3. Balanced(<<<<"remove", f>>>>, 1, Files, {}, Spend("remove", {}, f))
    BY <1>1, <2>1, <2>2, Changing
  <2>4. QED
    BY <2>1, <2>3 DEF Remove
<1>3. Balanced(body, 1, {"vault", "consent"} \cup {"audit"}, {}, {})
  BY <1>1, <1>2, BothBalanced
<1> HIDE DEF body
<1>4. Balanced(exclusive_private_lock("audit", body), 1,
               {"vault"} \cup {"consent"}, {}, {})
  BY <1>1, <1>3, Depths, Locked
<1>5. Balanced(exclusive_private_lock("consent",
                   exclusive_private_lock("audit", body)),
               1, {} \cup {"vault"}, {}, {})
  BY <1>1, <1>4, Depths, Locked
<1>6. Balanced(exclusive_private_lock("vault",
                   exclusive_private_lock("consent",
                       exclusive_private_lock("audit", body))),
               0 + 1, {}, {}, {})
  BY <1>1, <1>5, Depths, Locked
<1>7. QED
  BY <1>1, <1>6, Depths, Guarded DEF dispose_private_state, body

LEMMA MigrationPrepared ==
    Balanced(prepare_kdf_migration, 0, {}, {}, {})
<1> DEFINE vault == {"vault"}
           consent == {"vault", "consent"}
<1>1. /\ vault \in SUBSET Facts /\ consent \in SUBSET Facts
      /\ {} \in SUBSET Facts /\ "vault" \in Files /\ Files \in SUBSET Facts
  BY Disjoint
<1>2. /\ Learn({}, "vault") = vault /\ Learn(vault, "consent") = consent
      /\ Learn(consent, "audit") = Files
  BY Disjoint DEF Learn
<1>3. Balanced(Read("vault"), 1, {}, {}, vault)
  BY <1>1, <1>2, Depths, Reading
<1>4. /\ Balanced(_state_lock(Read("consent")), 1, {}, vault, consent)
      /\ Balanced(_audit_state_lock(Read("audit")), 1, {}, consent, Files)
  BY <1>1, <1>2, Depths, SidecarRead DEF _state_lock, _audit_state_lock
<1> HIDE DEF vault, consent
<1>5. Balanced(Read("vault") \o _state_lock(Read("consent"))
                   \o _audit_state_lock(Read("audit")),
               0 + 1, {}, {}, Files)
  BY <1>3, <1>4, Depths, BothBalanced
<1>6. QED
  BY <1>1, <1>5, Depths, Guarded DEF prepare_kdf_migration

LEMMA MigrationResumed ==
    Balanced(resume_kdf_migration, 0, {}, {}, {})
<1>1. ASSUME NEW f \in Files
      PROVE  /\ Balanced(Read(f), 1, {}, {}, {f})
             /\ Balanced(Update(f), 1, {}, {f}, {})
  <2>1. {} \in SUBSET Facts /\ {f} \in SUBSET Facts
    BY Disjoint
  <2>2. /\ Learn({}, f) = {f} /\ MayChange("update", {f}, f)
        /\ Spend("update", {f}, f) = {}
    BY Disjoint DEF Learn, MayChange, Spend
  <2>3. Balanced(Read(f), 1, {}, {}, {f})
    BY <2>1, <2>2, Depths, Reading
  <2>4. MayHold(1, {}) /\ 1 > 0 /\ "update" \in Changes
    BY Depths DEF Changes
  <2>5. Balanced(<<<<"update", f>>>>, 1, {}, {f}, Spend("update", {f}, f))
    BY <2>1, <2>2, <2>4, Changing
  <2>6. QED
    BY <2>2, <2>3, <2>5 DEF Update
<1>2. /\ Balanced(Read("vault") \o Update("vault"), 1, {}, {}, {})
      /\ Balanced(Read("consent"), 1, {}, {}, {"consent"})
      /\ Balanced(Update("consent"), 1, {}, {"consent"}, {})
      /\ Balanced(Read("audit"), 1, {}, {}, {"audit"})
      /\ Balanced(Update("audit"), 1, {}, {"audit"}, {})
  BY <1>1, Disjoint, BothBalanced
<1>3. Balanced(Read("vault") \o Update("vault") \o Read("consent")
                   \o Update("consent"), 1, {}, {}, {})
  BY <1>2, BothBalanced
<1>4. Balanced(Read("vault") \o Update("vault") \o Read("consent")
                   \o Update("consent") \o Read("audit") \o Update("audit"),
               0 + 1, {}, {}, {})
  BY <1>2, <1>3, Depths, BothBalanced
<1>5. {} \in SUBSET Facts
  OBVIOUS
<1>6. QED
  BY <1>4, <1>5, Depths, Guarded DEF resume_kdf_migration

(***************************************************************************)
(* Every command closes its brackets, touches the files in the guard only, *)
(* writes again only what is as it was read (or, prepared earlier, beside  *)
(* a vault that is), and changes the consent records with an announcement  *)
(* only.                                                                   *)
(***************************************************************************)
THEOREM CommandsAreBracketed ==
    \A c \in Commands : Runs(Plans[c], At(0, {}, {}), At(0, {}, {}))
<1>1. /\ Balanced(upgrade_kdf, 0, {}, {}, {})
      /\ Balanced(resume_kdf_migration \o write_audit_event, 0, {}, {}, {})
  BY MigrationPrepared, MigrationResumed, Announcement, BothBalanced
  DEF upgrade_kdf
<1>2. /\ Commands = {"load", "record", "change_vault", "change_consent",
                     "encrypt", "protect_sidecars", "prune", "dispose",
                     "upgrade_kdf", "resume_kdf"}
      /\ Plans["load"] = write_store
      /\ Plans["record"] = write_audit_event
      /\ Plans["change_vault"] = change_vault
      /\ Plans["change_consent"] = change_consent
      /\ Plans["encrypt"] = encrypt
      /\ Plans["protect_sidecars"] = protect_sidecars
      /\ Plans["prune"] = prune_private_metadata
      /\ Plans["dispose"] = dispose_private_state
      /\ Plans["upgrade_kdf"] = upgrade_kdf
      /\ Plans["resume_kdf"] = resume_kdf_migration \o write_audit_event
  BY DEF Commands, Plans
<1>3. \A c \in Commands : Balanced(Plans[c], 0, {}, {}, {})
  BY <1>1, <1>2, VaultWritten, Announcement, VaultChanged, ConsentChanged,
     Encrypted, MetadataPruned, StateDisposed
<1>4. QED
  BY <1>3 DEF Balanced

-----------------------------------------------------------------------------
(* The inductive invariant.                                                *)

\* What each command may rely on, before its first instruction and after
\* each.
Path ==
    [c \in Commands |->
        CHOOSE path \in [0 .. Len(Plans[c]) -> Context] :
            /\ path[0] = At(0, {}, {})
            /\ path[Len(Plans[c])] = At(0, {}, {})
            /\ Follows(path, Plans[c])]

\* What process p may rely on where it is.
Here(p) ==
    IF command[p] = None THEN At(0, {}, {})
    ELSE Path[command[p]][at[p] - 1]

\* f is as p read it, and p is in the guard.
Current(p, f) == depth[p] > 0 /\ seen[p][f] = visible[f]

\* What each fact says.
Known(p, x) ==
    IF x = "announced" THEN depth[p] > 0 /\ Announced(p) ELSE Current(p, x)

\* What p writes is newer than what it read.
Newer(p) ==
    LET f == Operand(p)
    IN seen[p][f] \in State /\ visible[f].number > seen[p][f].number

\* The state p is in is the one its place in its command calls for.
ProcessOK(p) ==
    /\ depth[p] = Here(p).depth
    /\ \A f \in Files : owner[f] = p <=> f \in Here(p).held
    /\ \A x \in Here(p).fresh :
          Known(p, x) \/ (stage[p] = "renamed" /\ x = Operand(p))
    /\ \/ stage[p] = "none"
       \/ Doing(p, "write") \/ Doing(p, "update") \/ Doing(p, "install")
       \/ Doing(p, "remove") /\ stage[p] = "renamed"
    /\ stage[p] = "renamed" /\ Doing(p, "write") => Newer(p)
    /\ command[p] = None => at[p] = 1 /\ seen[p] = Unread

\* A power loss finds a whole state of f, no older than the confirmed one.
FileOK(f) ==
    /\ visible[f] \in possible[f]
    /\ visible[f].number <= latest[f]
    /\ \A s \in possible[f] :
          s.flushed /\ confirmed[f] <= s.number
                    /\ s.number <= visible[f].number

ControlInv == at \in [Procs -> Nat] /\ \A p \in Procs : ProcessOK(p)
DiskInv == \A f \in Files : FileOK(f)

IInv == TypeOK /\ ControlInv /\ DiskInv

-----------------------------------------------------------------------------
(* Where a process is.                                                     *)

LEMMA Paths ==
    ASSUME NEW c \in Commands
    PROVE  /\ Plans[c] \in Seq(Instr) /\ Len(Plans[c]) \in Nat
           /\ Path[c] \in [0 .. Len(Plans[c]) -> Context]
           /\ Len(Plans[c]) > 0
           /\ Path[c][0] = At(0, {}, {})
           /\ Path[c][Len(Plans[c])] = At(0, {}, {})
           /\ Follows(Path[c], Plans[c])
<1>1. Runs(Plans[c], At(0, {}, {}), At(0, {}, {}))
  BY CommandsAreBracketed
<1>2. /\ Plans[c] \in Seq(Instr) /\ Len(Plans[c]) \in Nat
      /\ Len(Plans[c]) > 0
  BY <1>1 DEF Runs
<1>3. \E path \in [0 .. Len(Plans[c]) -> Context] :
          /\ path[0] = At(0, {}, {})
          /\ path[Len(Plans[c])] = At(0, {}, {})
          /\ Follows(path, Plans[c])
  BY <1>1 DEF Runs
<1>4. Path[c] = CHOOSE path \in [0 .. Len(Plans[c]) -> Context] :
                    /\ path[0] = At(0, {}, {})
                    /\ path[Len(Plans[c])] = At(0, {}, {})
                    /\ Follows(path, Plans[c])
  BY DEF Path
<1>5. QED
  BY <1>2, <1>3, <1>4, Zenon

LEMMA Instructions ==
    ASSUME NEW i \in Instr
    PROVE  /\ i[1] \in {"enter", "leave"} \cup OnFile
           /\ i[1] \in {"enter", "leave"} => i[2] = Guard
           /\ i[1] \in OnFile => i[2] \in Files
  BY DEF Instr, OnFile, Changes

LEMMA WhereItIs ==
    ASSUME IInv, NEW p \in Procs
    PROVE  /\ Here(p) \in Context
           /\ command[p] # None =>
                /\ command[p] \in Commands
                /\ at[p] \in 1 .. Len(Plans[command[p]])
                /\ Instruction(p) = Plans[command[p]][at[p]]
                /\ Instruction(p) \in Instr
                /\ Allowed(Instruction(p), Here(p))
                /\ After(Instruction(p), Here(p)) =
                       Path[command[p]][at[p]]
                /\ After(Instruction(p), Here(p)) \in Context
<1>1. CASE command[p] = None
  <2>1. MayHold(0, {}) /\ Here(p) = At(0, {}, {})
    BY <1>1 DEF Here, MayHold
  <2>2. QED
    BY <1>1, <2>1, ContextIs
<1>2. CASE command[p] # None
  <2> DEFINE c == command[p]
             k == at[p]
  <2>1. c \in Commands /\ k \in DOMAIN Plans[c]
    BY <1>2 DEF IInv, TypeOK
  <2> HIDE DEF c
  <2>2. k \in 1 .. Len(Plans[c]) /\ Plans[c][k] \in Instr
    BY <2>1, Paths
  <2> HIDE DEF k
  <2>3. k - 1 \in 0 .. Len(Plans[c]) /\ k \in 0 .. Len(Plans[c])
    BY <2>1, <2>2, Paths
  <2>4. Path[c][k - 1] \in Context /\ Path[c][k] \in Context
    BY <2>1, <2>3, Paths
  <2>5. /\ Allowed(Plans[c][k], Path[c][k - 1])
        /\ Path[c][k] = After(Plans[c][k], Path[c][k - 1])
    BY <2>1, <2>2, Paths DEF Follows
  <2>6. Instruction(p) = Plans[c][k] /\ Here(p) = Path[c][k - 1]
    BY <1>2 DEF Instruction, Here, c, k
  <2>7. c = command[p] /\ k = at[p]
    BY DEF c, k
  <2>8. QED
    BY <2>1, <2>2, <2>4, <2>5, <2>6, <2>7
<1>3. QED
  BY <1>1, <1>2

LEMMA InContext ==
    ASSUME NEW x \in Context
    PROVE  /\ x.depth \in Nat /\ x.held \in SUBSET Files
           /\ x.fresh \in SUBSET Facts /\ (x.held # {} => x.depth > 0)
  BY DEF Context

\* What an instruction on a file finds.
LEMMA OnAFile ==
    ASSUME IInv, NEW p \in Procs, NEW op \in OnFile, Doing(p, op)
    PROVE  /\ command[p] # None
           /\ Operand(p) \in Files
           /\ Inside(p) /\ owner[Guard] = p /\ depth[p] = Here(p).depth
           /\ op = "lock" => Operand(p) \notin Here(p).held
           /\ op = "unlock" => Operand(p) \in Here(p).held
           /\ op \in Changes => MayChange(op, Here(p).fresh, Operand(p))
<1>1. command[p] # None /\ Instruction(p)[1] = op
  BY DEF Doing, Instruction, OnFile, Changes
<1>2. Operand(p) \in Files
  BY <1>1, WhereItIs, Instructions DEF Operand
<1>3. /\ Here(p).depth > 0
      /\ op = "lock" => Operand(p) \notin Here(p).held
      /\ op = "unlock" => Operand(p) \in Here(p).held
      /\ op \in Changes => MayChange(op, Here(p).fresh, Operand(p))
  BY <1>1, WhereItIs DEF Allowed, Operand
<1>4. depth[p] = Here(p).depth
  BY DEF IInv, ControlInv, ProcessOK
<1>5. QED
  BY <1>1, <1>2, <1>3, <1>4 DEF Inside, IInv, TypeOK

\* Only one process is in the guard, and outside no file lock is held.
LEMMA OneInside ==
    ASSUME IInv, NEW p \in Procs, NEW q \in Procs
    PROVE  /\ depth[p] > 0 /\ depth[q] > 0 => p = q
           /\ \A f \in Files : owner[f] = p => depth[p] > 0
<1>1. depth[p] = Here(p).depth /\ \A f \in Files :
          owner[f] = p <=> f \in Here(p).held
  BY DEF IInv, ControlInv, ProcessOK
<1>2. Here(p).held # {} => Here(p).depth > 0
  BY WhereItIs, InContext
<1>3. QED
  BY <1>1, <1>2 DEF IInv, TypeOK

-----------------------------------------------------------------------------
(* What a step does to the processes.                                      *)

\* The types of what Continue sets.
ProcessTypes ==
    /\ command \in [Procs -> Commands \cup {None}]
    /\ at \in [Procs -> Nat]
    /\ \A p \in Procs :
          command[p] # None => at[p] \in DOMAIN Plans[command[p]]
    /\ seen \in [Procs -> [Files -> State \cup {None}]]

SameProcess(q) ==
    /\ command'[q] = command[q] /\ at'[q] = at[q] /\ seen'[q] = seen[q]

\* p is through its instruction and goes on from what that left.
Through(p) ==
    \/ /\ command'[p] = None /\ at'[p] = 1 /\ seen'[p] = Unread
       /\ After(Instruction(p), Here(p)) = At(0, {}, {})
    \/ /\ command'[p] # None
       /\ Here(p)' = After(Instruction(p), Here(p))

LEMMA UnreadType == Unread \in [Files -> State \cup {None}]
  BY DEF Unread

LEMMA Idling ==
    ASSUME IInv, NEW p \in Procs, Idle(p)
    PROVE  /\ ProcessTypes'
           /\ \A q \in Procs \ {p} : SameProcess(q)
           /\ command'[p] = None /\ at'[p] = 1 /\ seen'[p] = Unread
<1>1. /\ command'[p] = None /\ at'[p] = 1 /\ seen'[p] = Unread
      /\ \A q \in Procs \ {p} : SameProcess(q)
  BY DEF IInv, TypeOK, ControlInv, Idle, SameProcess
<1>2. /\ command' \in [Procs -> Commands \cup {None}]
      /\ at' \in [Procs -> Nat]
      /\ seen' \in [Procs -> [Files -> State \cup {None}]]
  BY UnreadType DEF IInv, TypeOK, ControlInv, Idle
<1>3. \A q \in Procs :
          command'[q] # None => at'[q] \in DOMAIN Plans[command'[q]]
  BY <1>1 DEF IInv, TypeOK, SameProcess
<1>4. QED
  BY <1>1, <1>2, <1>3 DEF ProcessTypes

LEMMA Advancing ==
    ASSUME IInv, NEW p \in Procs, command[p] # None,
           at[p] # Len(Plans[command[p]]),
           at' = [at EXCEPT ![p] = @ + 1], UNCHANGED command,
           seen' \in [Procs -> [Files -> State \cup {None}]],
           \A q \in Procs \ {p} : seen'[q] = seen[q]
    PROVE  /\ ProcessTypes'
           /\ \A q \in Procs \ {p} : SameProcess(q)
           /\ command'[p] # None
           /\ Here(p)' = After(Instruction(p), Here(p))
<1>1. /\ command[p] \in Commands
      /\ at[p] \in 1 .. Len(Plans[command[p]])
      /\ After(Instruction(p), Here(p)) = Path[command[p]][at[p]]
  BY WhereItIs
<1>2. /\ at'[p] = at[p] + 1 /\ at' \in [Procs -> Nat]
      /\ \A q \in Procs \ {p} : at'[q] = at[q]
  BY DEF IInv, ControlInv
<1>3. at'[p] \in DOMAIN Plans[command[p]]
  <2>1. /\ Plans[command[p]] \in Seq(Instr)
        /\ Len(Plans[command[p]]) \in Nat
    BY <1>1, Paths
  <2>2. at[p] + 1 \in 1 .. Len(Plans[command[p]])
    BY <1>1, <2>1
  <2>3. QED
    BY <1>2, <2>1, <2>2
<1>4. \A q \in Procs :
          command'[q] # None => at'[q] \in DOMAIN Plans[command'[q]]
  <2> SUFFICES ASSUME NEW q \in Procs, command'[q] # None
               PROVE  at'[q] \in DOMAIN Plans[command'[q]]
    OBVIOUS
  <2>1. CASE q = p
    BY <1>3, <2>1
  <2>2. CASE q # p
    BY <1>2, <2>2 DEF IInv, TypeOK
  <2>3. QED
    BY <2>1, <2>2
<1>5. ProcessTypes'
  BY <1>2, <1>4 DEF IInv, TypeOK, ProcessTypes
<1>6. Here(p)' = Path[command[p]][at[p]]
  <2>1. Here(p)' = Path[command[p]][at'[p] - 1]
    BY DEF Here
  <2>2. at'[p] - 1 = at[p]
    BY <1>1, <1>2
  <2>3. QED
    BY <2>1, <2>2
<1>7. QED
  BY <1>1, <1>2, <1>5, <1>6 DEF SameProcess

LEMMA Continuing ==
    ASSUME IInv, NEW p \in Procs, command[p] # None, Continue(p)
    PROVE  /\ ProcessTypes'
           /\ \A q \in Procs \ {p} : SameProcess(q)
           /\ Through(p) /\ (command'[p] # None => seen'[p] = seen[p])
<1>1. CASE at[p] = Len(Plans[command[p]])
  <2>1. Idle(p)
    BY <1>1 DEF Continue
  <2>2. After(Instruction(p), Here(p)) = At(0, {}, {})
    BY <1>1, WhereItIs, Paths
  <2>3. QED
    BY <2>1, <2>2, Idling DEF Through
<1>2. CASE at[p] # Len(Plans[command[p]])
  <2>1. /\ at' = [at EXCEPT ![p] = @ + 1]
        /\ UNCHANGED command /\ UNCHANGED seen
    BY <1>2 DEF Continue
  <2>2. seen' \in [Procs -> [Files -> State \cup {None}]]
    BY <2>1 DEF IInv, TypeOK
  <2>3. QED
    BY <1>2, <2>1, <2>2, Advancing DEF Through
<1>3. QED
  BY <1>1, <1>2

\* Nothing is read or changed by the last instruction.
LEMMA NotTheLast ==
    ASSUME IInv, NEW p \in Procs,
           NEW op \in {"read"} \cup Changes, Doing(p, op)
    PROVE  at[p] # Len(Plans[command[p]])
<1>1. op \in OnFile /\ Instruction(p)[1] = op
  BY DEF OnFile, Doing
<1>2. command[p] # None /\ Here(p).depth = depth[p] /\ depth[p] > 0
  BY <1>1, OnAFile DEF Inside
<1>3. After(Instruction(p), Here(p)).depth = Here(p).depth
  BY <1>1 DEF After, At, Changes
<1>4. /\ command[p] \in Commands
      /\ After(Instruction(p), Here(p)) = Path[command[p]][at[p]]
  BY <1>2, WhereItIs
<1>5. Path[command[p]][Len(Plans[command[p]])].depth = 0
  BY <1>4, Paths DEF At
<1>6. depth[p] \in Nat
  BY DEF IInv, TypeOK
<1>7. QED
  BY <1>2, <1>3, <1>4, <1>5, <1>6

\* What a process knows lasts while it stays in the guard.
LEMMA KnownStays ==
    ASSUME NEW p \in Procs, NEW x, Known(p, x), depth'[p] > 0,
           seen'[p] = seen[p], UNCHANGED <<visible, possible>>
    PROVE  Known(p, x)'
  BY DEF Known, Current, Announced

\* A process that writes is in the guard.
LEMMA WriterInside ==
    ASSUME IInv, NEW p \in Procs, stage[p] # "none"
    PROVE  /\ depth[p] > 0 /\ command[p] # None /\ Operand(p) \in Files
           /\ Instruction(p)[1] \in Changes
           /\ at[p] # Len(Plans[command[p]])
<1>1. PICK op \in Changes : Doing(p, op)
  BY DEF IInv, ControlInv, ProcessOK, Changes
<1>2. op \in OnFile
  BY DEF OnFile
<1>3. QED
  BY <1>1, <1>2, OnAFile, NotTheLast DEF Doing, Inside

\* A process that takes no part in a step.
LEMMA OtherProcess ==
    ASSUME IInv, NEW q \in Procs, SameProcess(q),
           stage'[q] = stage[q], depth'[q] = depth[q],
           \A f \in Files : owner'[f] = q <=> owner[f] = q,
           UNCHANGED <<visible, possible>> \/ depth[q] = 0
    PROVE  ProcessOK(q)'
<1>1. /\ Here(q)' = Here(q)
      /\ \A op : Doing(q, op)' <=> Doing(q, op)
      /\ Operand(q)' = Operand(q)
  BY DEF SameProcess, Here, Doing, Operand, Instruction
<1>2. ASSUME NEW x, Known(q, x)
      PROVE  Known(q, x)'
  <2>1. depth[q] > 0 /\ depth'[q] > 0 /\ seen'[q] = seen[q]
    BY <1>2 DEF Known, Current, SameProcess
  <2>2. UNCHANGED <<visible, possible>>
    BY <2>1
  <2>3. QED
    BY <1>2, <2>1, <2>2, KnownStays
<1>3. stage[q] # "none" => UNCHANGED visible
  BY WriterInside
<1>4. ProcessOK(q)
  BY DEF IInv, ControlInv
<1>5. stage'[q] = "renamed" /\ Doing(q, "write")' => Newer(q)'
  BY <1>1, <1>3, <1>4 DEF ProcessOK, Newer, SameProcess
<1>6. QED
  BY <1>1, <1>2, <1>4, <1>5 DEF ProcessOK, SameProcess

\* A process between two instructions.
LEMMA BetweenInstructions ==
    ASSUME IInv, NEW p \in Procs, command[p] # None, Through(p),
           stage'[p] = "none",
           depth'[p] = After(Instruction(p), Here(p)).depth,
           \A f \in Files : owner'[f] = p <=>
               f \in After(Instruction(p), Here(p)).held,
           command'[p] # None =>
               \A x \in After(Instruction(p), Here(p)).fresh :
                   Known(p, x)'
    PROVE  ProcessOK(p)'
<1>1. CASE command'[p] # None
  <2>1. Here(p)' = After(Instruction(p), Here(p))
    BY <1>1 DEF Through
  <2>2. QED
    BY <1>1, <2>1 DEF ProcessOK
<1>2. CASE command'[p] = None
  <2>1. /\ at'[p] = 1 /\ seen'[p] = Unread
        /\ depth'[p] = 0 /\ \A f \in Files : owner'[f] # p
    <3>1. /\ at'[p] = 1 /\ seen'[p] = Unread
          /\ After(Instruction(p), Here(p)) = At(0, {}, {})
      BY <1>2 DEF Through
    <3>2. QED
      BY <3>1 DEF At
  <2>2. Here(p)' = At(0, {}, {})
    BY <1>2 DEF Here
  <2>3. Here(p)'.depth = 0 /\ Here(p)'.held = {} /\ Here(p)'.fresh = {}
    BY <2>2 DEF At
  <2>4. QED
    BY <1>2, <2>1, <2>3 DEF ProcessOK
<1>3. QED
  BY <1>1, <1>2

\* A process that has come to its end.
LEMMA AtRest ==
    ASSUME NEW p \in Procs, command'[p] = None, at'[p] = 1,
           seen'[p] = Unread, stage'[p] = "none", depth'[p] = 0,
           \A f \in Files : owner'[f] # p
    PROVE  ProcessOK(p)'
<1>1. Here(p)' = At(0, {}, {})
  BY DEF Here
<1>2. Here(p)'.depth = 0 /\ Here(p)'.held = {} /\ Here(p)'.fresh = {}
  BY <1>1 DEF At
<1>3. QED
  BY <1>2 DEF ProcessOK

-----------------------------------------------------------------------------
(* The steps.                                                              *)

LEMMA Effects ==
    ASSUME NEW i, NEW x
    PROVE  /\ i[1] = "enter" =>
                After(i, x) = At(x.depth + 1, x.held, x.fresh)
           /\ i[1] = "leave" =>
                After(i, x) = At(x.depth - 1, x.held,
                                 IF x.depth = 1 THEN {} ELSE x.fresh)
           /\ i[1] = "lock" =>
                After(i, x) = At(x.depth, x.held \cup {i[2]}, x.fresh)
           /\ i[1] = "unlock" =>
                After(i, x) = At(x.depth, x.held \ {i[2]}, x.fresh)
           /\ i[1] = "read" =>
                After(i, x) = At(x.depth, x.held, Learn(x.fresh, i[2]))
           /\ i[1] \in Changes =>
                After(i, x) = At(x.depth, x.held, Spend(i[1], x.fresh, i[2]))
  BY DEF After, Changes

LEMMA Fields ==
    ASSUME NEW d, NEW h, NEW r
    PROVE  /\ At(d, h, r).depth = d /\ At(d, h, r).held = h
           /\ At(d, h, r).fresh = r
  BY DEF At

LEMMA DiskAlone ==
    ASSUME DiskInv, UNCHANGED <<disk, history>>
    PROVE  DiskInv'
  BY DEF DiskInv, FileOK, disk, history

LEMMA NotWriting ==
    ASSUME IInv, NEW p \in Procs, NEW op \in {"enter", "leave"} \cup OnFile,
           Doing(p, op), op \notin Changes
    PROVE  command[p] # None /\ stage[p] = "none"
<1>1. command[p] # None
  BY DEF Doing, Instruction, OnFile, Changes
<1>2. QED
  BY <1>1, WriterInside DEF Doing

\* A step that may take or free locks and leaves the files alone.
LEMMA LockStep ==
    ASSUME IInv, NEW p \in Procs, command[p] # None, stage[p] = "none",
           Continue(p), UNCHANGED <<stage, disk, history, counts>>,
           owner' \in [Locks -> Procs \cup {None}],
           depth' \in [Procs -> Nat],
           \A q \in Procs : depth'[q] > 0 <=> owner'[Guard] = q,
           \A q \in Procs \ {p} :
               /\ depth'[q] = depth[q]
               /\ \A f \in Files : owner'[f] = q <=> owner[f] = q,
           depth'[p] = After(Instruction(p), Here(p)).depth,
           \A f \in Files : owner'[f] = p <=>
               f \in After(Instruction(p), Here(p)).held,
           After(Instruction(p), Here(p)).fresh # {} =>
               /\ After(Instruction(p), Here(p)).fresh \subseteq
                      Here(p).fresh
               /\ depth[p] > 0 => depth'[p] > 0
    PROVE  IInv'
<1>1. /\ ProcessTypes' /\ Through(p)
      /\ \A q \in Procs \ {p} : SameProcess(q)
      /\ command'[p] # None => seen'[p] = seen[p]
  BY Continuing
<1>2. TypeOK'
  BY <1>1 DEF IInv, TypeOK, ProcessTypes, disk, history, counts
<1>3. ProcessOK(p)'
  <2>1. ASSUME command'[p] # None,
               NEW x \in After(Instruction(p), Here(p)).fresh
        PROVE  Known(p, x)'
    <3>1. x \in Here(p).fresh /\ (depth[p] > 0 => depth'[p] > 0)
      OBVIOUS
    <3>2. Known(p, x)
      BY <3>1 DEF IInv, ControlInv, ProcessOK
    <3>3. depth'[p] > 0
      BY <3>1, <3>2 DEF Known, Current
    <3>4. seen'[p] = seen[p]
      BY <1>1, <2>1
    <3>5. QED
      BY <3>2, <3>3, <3>4, KnownStays DEF disk
  <2>2. stage'[p] = "none"
    OBVIOUS
  <2>3. QED
    BY <1>1, <2>1, <2>2, BetweenInstructions
<1>4. ASSUME NEW q \in Procs \ {p}
      PROVE  ProcessOK(q)'
  <2>1. UNCHANGED <<visible, possible>> /\ stage'[q] = stage[q]
    BY DEF disk
  <2>2. QED
    BY <1>1, <2>1, OtherProcess
<1>5. ControlInv'
  BY <1>1, <1>3, <1>4 DEF ControlInv, ProcessTypes
<1>6. DiskInv'
  BY DiskAlone DEF IInv
<1>7. QED
  BY <1>2, <1>5, <1>6 DEF IInv

\* What the locks of a process say of where it is.
LEMMA HoldsHere ==
    ASSUME IInv, NEW p \in Procs
    PROVE  /\ depth[p] = Here(p).depth /\ depth[p] \in Nat
           /\ \A f \in Files : owner[f] = p <=> f \in Here(p).held
           /\ owner \in [Locks -> Procs \cup {None}]
           /\ depth \in [Procs -> Nat]
           /\ \A q \in Procs : depth[q] > 0 <=> owner[Guard] = q
           /\ Guard \in Locks /\ Guard \notin Files
           /\ \A f \in Files : f \in Locks
  BY DEF IInv, TypeOK, ControlInv, ProcessOK, Locks, Files, Guard

LEMMA EnterKeeps ==
    ASSUME IInv, NEW p \in Procs, EnterGuard(p)
    PROVE  IInv'
<1>1. /\ Instruction(p)[1] = "enter" /\ Doing(p, "enter") /\ Continue(p)
      /\ UNCHANGED <<stage, disk, history, counts>>
  BY DEF EnterGuard, Doing
<1>2. command[p] # None /\ stage[p] = "none"
  BY <1>1, NotWriting DEF OnFile, Changes
<1>3. /\ depth' \in [Procs -> Nat] /\ depth'[p] = depth[p] + 1
      /\ \A q \in Procs \ {p} : depth'[q] = depth[q]
  BY HoldsHere DEF EnterGuard
<1>4. /\ owner' \in [Locks -> Procs \cup {None}]
      /\ \A f \in Files : owner'[f] = owner[f]
      /\ owner'[Guard] = p
      /\ \A q \in Procs \ {p} : depth[q] = 0
  <2>1. CASE Inside(p)
    <3>1. owner' = owner
      BY <2>1 DEF EnterGuard
    <3>2. QED
      BY <2>1, <3>1, HoldsHere DEF Inside
  <2>2. CASE ~Inside(p)
    <3>1. /\ owner[Guard] = None
          /\ owner' = [owner EXCEPT ![Guard] = p]
      BY <2>2 DEF EnterGuard, Take
    <3>2. QED
      BY <3>1, HoldsHere, NoneAssumption
  <2>3. QED
    BY <2>1, <2>2
<1>5. \A q \in Procs : depth'[q] > 0 <=> owner'[Guard] = q
  BY <1>3, <1>4, HoldsHere
<1>6. After(Instruction(p), Here(p)) =
          At(Here(p).depth + 1, Here(p).held, Here(p).fresh)
  BY <1>1, Effects
<1>7. /\ After(Instruction(p), Here(p)).depth = Here(p).depth + 1
      /\ After(Instruction(p), Here(p)).held = Here(p).held
      /\ After(Instruction(p), Here(p)).fresh = Here(p).fresh
  BY <1>6, Fields
<1>8. QED
  BY <1>1, <1>2, <1>3, <1>4, <1>5, <1>7, HoldsHere, LockStep

LEMMA LeaveKeeps ==
    ASSUME IInv, NEW p \in Procs, LeaveGuard(p)
    PROVE  IInv'
<1>1. /\ Instruction(p)[1] = "leave" /\ Doing(p, "leave") /\ Continue(p)
      /\ UNCHANGED <<stage, disk, history, counts>>
  BY DEF LeaveGuard, Doing
<1>2. command[p] # None /\ stage[p] = "none"
  BY <1>1, NotWriting DEF OnFile, Changes
<1>3. depth[p] > 0 /\ owner[Guard] = p
  BY <1>1, <1>2, WhereItIs, HoldsHere DEF Allowed
<1>4. /\ depth' \in [Procs -> Nat] /\ depth'[p] = depth[p] - 1
      /\ \A q \in Procs \ {p} : depth'[q] = depth[q] /\ depth[q] = 0
  BY <1>3, HoldsHere, OneInside DEF LeaveGuard
<1>5. /\ owner' \in [Locks -> Procs \cup {None}]
      /\ \A f \in Files : owner'[f] = owner[f]
      /\ \A q \in Procs : depth'[q] > 0 <=> owner'[Guard] = q
  <2>1. CASE depth[p] = 1
    <3>1. owner' = [owner EXCEPT ![Guard] = None]
      BY <2>1 DEF LeaveGuard, Take
    <3>2. /\ owner' \in [Locks -> Procs \cup {None}]
          /\ \A f \in Files : owner'[f] = owner[f]
          /\ owner'[Guard] = None
      BY <3>1, HoldsHere
    <3>3. \A q \in Procs : depth'[q] = 0
      BY <1>4, <2>1
    <3>4. QED
      BY <3>2, <3>3, NoneAssumption
  <2>2. CASE depth[p] # 1
    <3>1. owner' = owner
      BY <2>2 DEF LeaveGuard
    <3>2. depth'[p] > 0
      BY <1>3, <1>4, <2>2, HoldsHere
    <3>3. QED
      BY <1>3, <1>4, <3>1, <3>2, HoldsHere
  <2>3. QED
    BY <2>1, <2>2
<1>6. After(Instruction(p), Here(p)) =
          At(Here(p).depth - 1, Here(p).held,
             IF Here(p).depth = 1 THEN {} ELSE Here(p).fresh)
  BY <1>1, Effects
<1>7. /\ After(Instruction(p), Here(p)).depth = Here(p).depth - 1
      /\ After(Instruction(p), Here(p)).held = Here(p).held
      /\ After(Instruction(p), Here(p)).fresh =
             IF Here(p).depth = 1 THEN {} ELSE Here(p).fresh
  BY <1>6, Fields
<1>8. After(Instruction(p), Here(p)).fresh # {} =>
          /\ After(Instruction(p), Here(p)).fresh \subseteq Here(p).fresh
          /\ depth'[p] > 0
  BY <1>3, <1>4, <1>7, HoldsHere
<1>9. QED
  BY <1>1, <1>2, <1>4, <1>5, <1>7, <1>8, HoldsHere, LockStep

LEMMA LockKeeps ==
    ASSUME IInv, NEW p \in Procs, LockFile(p)
    PROVE  IInv'
<1>1. /\ Instruction(p)[1] = "lock" /\ Doing(p, "lock") /\ Continue(p)
      /\ UNCHANGED <<stage, disk, history, counts>>
      /\ owner[Operand(p)] = None /\ UNCHANGED depth
      /\ owner' = [owner EXCEPT ![Operand(p)] = p]
  BY DEF LockFile, Doing, Take
<1>2. command[p] # None /\ stage[p] = "none" /\ Operand(p) \in Files
  BY <1>1, NotWriting, OnAFile DEF OnFile, Changes
<1>3. /\ owner' \in [Locks -> Procs \cup {None}]
      /\ owner'[Guard] = owner[Guard] /\ owner'[Operand(p)] = p
      /\ \A f \in Files \ {Operand(p)} : owner'[f] = owner[f]
  BY <1>1, <1>2, HoldsHere
<1>4. After(Instruction(p), Here(p)) =
          At(Here(p).depth, Here(p).held \cup {Operand(p)}, Here(p).fresh)
  BY <1>1, Effects DEF Operand
<1>5. /\ After(Instruction(p), Here(p)).depth = Here(p).depth
      /\ After(Instruction(p), Here(p)).held =
             Here(p).held \cup {Operand(p)}
      /\ After(Instruction(p), Here(p)).fresh = Here(p).fresh
  BY <1>4, Fields
<1>6. \A f \in Files : owner'[f] = p <=> f \in Here(p).held \cup {Operand(p)}
  BY <1>3, HoldsHere
<1>7. \A q \in Procs \ {p} : \A f \in Files : owner'[f] = q <=> owner[f] = q
  BY <1>1, <1>3, NoneAssumption
<1>8. QED
  BY <1>1, <1>2, <1>3, <1>5, <1>6, <1>7, HoldsHere, LockStep

LEMMA UnlockKeeps ==
    ASSUME IInv, NEW p \in Procs, UnlockFile(p)
    PROVE  IInv'
<1>1. /\ Instruction(p)[1] = "unlock" /\ Doing(p, "unlock") /\ Continue(p)
      /\ UNCHANGED <<stage, disk, history, counts>>
      /\ UNCHANGED depth /\ owner' = [owner EXCEPT ![Operand(p)] = None]
  BY DEF UnlockFile, Doing, Take
<1>2. /\ command[p] # None /\ stage[p] = "none" /\ Operand(p) \in Files
      /\ Operand(p) \in Here(p).held
  BY <1>1, NotWriting, OnAFile DEF OnFile, Changes
<1>3. /\ owner' \in [Locks -> Procs \cup {None}]
      /\ owner'[Guard] = owner[Guard] /\ owner'[Operand(p)] = None
      /\ \A f \in Files \ {Operand(p)} : owner'[f] = owner[f]
      /\ owner[Operand(p)] = p
  BY <1>1, <1>2, HoldsHere
<1>4. After(Instruction(p), Here(p)) =
          At(Here(p).depth, Here(p).held \ {Operand(p)}, Here(p).fresh)
  BY <1>1, Effects DEF Operand
<1>5. /\ After(Instruction(p), Here(p)).depth = Here(p).depth
      /\ After(Instruction(p), Here(p)).held = Here(p).held \ {Operand(p)}
      /\ After(Instruction(p), Here(p)).fresh = Here(p).fresh
  BY <1>4, Fields
<1>6. \A f \in Files : owner'[f] = p <=> f \in Here(p).held \ {Operand(p)}
  BY <1>3, HoldsHere, NoneAssumption
<1>7. \A q \in Procs \ {p} : \A f \in Files : owner'[f] = q <=> owner[f] = q
  BY <1>3, NoneAssumption
<1>8. QED
  BY <1>1, <1>2, <1>3, <1>5, <1>6, <1>7, HoldsHere, LockStep

LEMMA NothingThereKeeps ==
    ASSUME IInv, NEW p \in Procs, NothingThere(p)
    PROVE  IInv'
<1>1. /\ Continue(p) /\ UNCHANGED <<stage, disk, history, counts>>
      /\ UNCHANGED <<owner, depth>> /\ stage[p] = "none"
  BY DEF NothingThere
<1>2. PICK op \in {"remove", "update", "install"} : Doing(p, op)
  BY DEF NothingThere
<1>3. command[p] # None /\ Instruction(p)[1] = op /\ op \in Changes
  BY <1>2, OnAFile DEF OnFile, Changes, Doing
<1>4. After(Instruction(p), Here(p)) =
          At(Here(p).depth, Here(p).held,
             Spend(op, Here(p).fresh, Operand(p)))
  BY <1>3, Effects DEF Operand
<1>5. Spend(op, Here(p).fresh, Operand(p)) \subseteq Here(p).fresh
  BY DEF Spend
<1>6. /\ After(Instruction(p), Here(p)).depth = Here(p).depth
      /\ After(Instruction(p), Here(p)).held = Here(p).held
      /\ After(Instruction(p), Here(p)).fresh \subseteq Here(p).fresh
  BY <1>4, <1>5, Fields
<1>7. QED
  BY <1>1, <1>3, <1>6, HoldsHere, LockStep

\* A process may start a command.
LEMMA StartKeeps ==
    ASSUME IInv, NEW p \in Procs, Start(p)
    PROVE  IInv'
<1>1. /\ command[p] = None /\ started < MaxCommands
      /\ started' = started + 1
      /\ UNCHANGED <<owner, depth, at, stage, seen, disk, history, faults>>
  BY DEF Start
<1>2. PICK c \in Commands : command' = [command EXCEPT ![p] = c]
  BY DEF Start
<1>3. /\ at[p] = 1 /\ seen[p] = Unread /\ stage[p] = "none"
      /\ Here(p) = At(0, {}, {})
  BY <1>1 DEF IInv, ControlInv, ProcessOK, Here, Doing, Instruction
<1>4. command'[p] = c /\ \A q \in Procs \ {p} : command'[q] = command[q]
  BY <1>2 DEF IInv, TypeOK
<1>5. /\ 1 \in DOMAIN Plans[c] /\ Path[c][0] = At(0, {}, {})
  BY Paths
<1>6. \A q \in Procs :
          command'[q] # None => at'[q] \in DOMAIN Plans[command'[q]]
  <2> SUFFICES ASSUME NEW q \in Procs, command'[q] # None
               PROVE  at'[q] \in DOMAIN Plans[command'[q]]
    OBVIOUS
  <2>1. CASE q = p
    BY <1>1, <1>3, <1>4, <1>5, <2>1
  <2>2. CASE q # p
    BY <1>1, <1>4, <2>2 DEF IInv, TypeOK
  <2>3. QED
    BY <2>1, <2>2
<1>7. command' \in [Procs -> Commands \cup {None}]
  BY <1>2 DEF IInv, TypeOK
<1>8. started' \in 0 .. MaxCommands
  BY <1>1, BoundsAssumption DEF IInv, TypeOK
<1>9. TypeOK'
  BY <1>1, <1>6, <1>7, <1>8 DEF IInv, TypeOK, disk, history
<1>10. ProcessOK(p)'
  <2>1. Here(p)' = At(0, {}, {})
    <3>1. CASE command'[p] = None
      BY <3>1 DEF Here
    <3>2. CASE command'[p] # None
      <4>1. Here(p)' = Path[c][at'[p] - 1]
        BY <3>2, <1>4 DEF Here
      <4>2. at'[p] - 1 = 0
        BY <1>1, <1>3
      <4>3. QED
        BY <4>1, <4>2, <1>5
    <3>3. QED
      BY <3>1, <3>2
  <2>2. /\ Here(p)'.depth = Here(p).depth /\ Here(p)'.held = Here(p).held
        /\ Here(p)'.fresh = {}
    BY <2>1, <1>3, Fields
  <2>3. ProcessOK(p)
    BY DEF IInv, ControlInv
  <2>4. QED
    BY <1>1, <1>3, <2>2, <2>3 DEF ProcessOK
<1>11. ASSUME NEW q \in Procs \ {p}
       PROVE  ProcessOK(q)'
  <2>1. /\ SameProcess(q) /\ UNCHANGED <<visible, possible>>
        /\ stage'[q] = stage[q] /\ depth'[q] = depth[q]
        /\ \A f \in Files : owner'[f] = q <=> owner[f] = q
    BY <1>1, <1>4 DEF SameProcess, disk
  <2>2. QED
    BY <2>1, OtherProcess
<1>12. ControlInv'
  BY <1>1, <1>10, <1>11 DEF IInv, ControlInv
<1>13. DiskInv'
  BY <1>1, DiskAlone DEF IInv
<1>14. QED
  BY <1>9, <1>12, <1>13 DEF IInv

LEMMA ReadKeeps ==
    ASSUME IInv, NEW p \in Procs, ReadFile(p)
    PROVE  IInv'
<1> DEFINE f == Operand(p)
<1>1. /\ Instruction(p)[1] = "read" /\ Doing(p, "read")
      /\ at' = [at EXCEPT ![p] = @ + 1]
      /\ UNCHANGED <<owner, depth, command, stage, disk, history, counts>>
  BY DEF ReadFile, Doing
<1>2. /\ command[p] # None /\ stage[p] = "none" /\ f \in Files
      /\ depth[p] > 0
  BY <1>1, NotWriting, OnAFile DEF OnFile, Changes, Inside
<1>3. /\ seen' \in [Procs -> [Files -> State \cup {None}]]
      /\ seen'[p][f] = visible[f]
      /\ \A g \in Files \ {f} : seen'[p][g] = seen[p][g]
      /\ \A q \in Procs \ {p} : seen'[q] = seen[q]
  <2>1. /\ seen \in [Procs -> [Files -> State \cup {None}]]
        /\ visible[f] \in State /\ f \in Files
        /\ seen' = [seen EXCEPT ![p][f] = visible[f]]
    BY <1>2 DEF IInv, TypeOK, ReadFile
  <2> HIDE DEF f
  <2>2. QED
    BY <2>1
<1>4. at[p] # Len(Plans[command[p]])
  BY <1>1, NotTheLast
<1>5. /\ ProcessTypes' /\ command'[p] # None
      /\ \A q \in Procs \ {p} : SameProcess(q)
      /\ Here(p)' = After(Instruction(p), Here(p))
  BY <1>1, <1>2, <1>3, <1>4, Advancing
<1>6. TypeOK'
  BY <1>1, <1>5 DEF IInv, TypeOK, ProcessTypes, disk, history, counts
<1>7. After(Instruction(p), Here(p)) =
          At(Here(p).depth, Here(p).held, Learn(Here(p).fresh, f))
  BY <1>1, Effects DEF Operand
<1>8. ProcessOK(p)'
  <2>1. ASSUME NEW x \in Learn(Here(p).fresh, f)
        PROVE  Known(p, x)'
    <3>1. depth'[p] > 0 /\ UNCHANGED <<visible, possible>>
      BY <1>1, <1>2 DEF disk
    <3>2. CASE x = f
      BY <1>2, <1>3, <3>1, <3>2, Disjoint DEF Known, Current
    <3>3. CASE x # f
      <4>1. x \in Here(p).fresh /\ (x = "announced" => f # "audit")
        BY <3>3 DEF Learn
      <4>2. Known(p, x) /\ (x = "announced" \/ x \in Files)
        BY <1>2, <4>1, WhereItIs, InContext
        DEF IInv, ControlInv, ProcessOK, Facts
      <4>3. CASE x = "announced"
        <5>1. Announced(p) /\ seen'[p]["audit"] = seen[p]["audit"]
          BY <1>3, <4>1, <4>2, <4>3, Disjoint DEF Known
        <5>2. Announced(p)'
          BY <3>1, <5>1 DEF Announced
        <5>3. QED
          BY <3>1, <4>3, <5>2 DEF Known
      <4>4. CASE x # "announced"
        BY <1>3, <3>1, <3>3, <4>2, <4>4 DEF Known, Current
      <4>5. QED
        BY <4>3, <4>4
    <3>4. QED
      BY <3>2, <3>3
  <2>2. Through(p)
    BY <1>5 DEF Through
  <2>3. /\ After(Instruction(p), Here(p)).depth = Here(p).depth
        /\ After(Instruction(p), Here(p)).held = Here(p).held
        /\ After(Instruction(p), Here(p)).fresh = Learn(Here(p).fresh, f)
    BY <1>7, Fields
  <2>4. /\ stage'[p] = "none"
        /\ depth'[p] = After(Instruction(p), Here(p)).depth
        /\ \A g \in Files : owner'[g] = p <=>
               g \in After(Instruction(p), Here(p)).held
    BY <1>1, <1>2, <2>3, HoldsHere
  <2>5. \A x \in After(Instruction(p), Here(p)).fresh : Known(p, x)'
    BY <2>1, <2>3
  <2> HIDE DEF f
  <2>6. QED
    BY <1>2, <2>2, <2>4, <2>5, BetweenInstructions
<1>9. ASSUME NEW q \in Procs \ {p}
      PROVE  ProcessOK(q)'
  BY <1>1, <1>5, OtherProcess DEF disk
<1>10. ControlInv'
  BY <1>5, <1>8, <1>9 DEF ControlInv, ProcessTypes
<1>11. DiskInv'
  BY <1>1, DiskAlone DEF IInv
<1>12. QED
  BY <1>6, <1>10, <1>11 DEF IInv

\* A step within a write or a removal, which changes at most that file.
LEMMA StageStep ==
    ASSUME IInv, NEW p \in Procs, NEW s, GoTo(p, s),
           s \in {"temporary", "flushed", "renamed"},
           Writing(p) \/ (Doing(p, "remove") /\ s = "renamed"),
           stage[p] # "renamed",
           UNCHANGED <<owner, depth, command, at, seen, counts>>,
           visible' \in [Files -> State],
           possible' \in [Files -> SUBSET State],
           latest' \in [Files -> Nat], confirmed' \in [Files -> Nat],
           \A g \in Files :
               g # Operand(p) \/ s # "renamed" => visible'[g] = visible[g],
           Announced(p) => Announced(p)',
           s = "renamed" /\ Doing(p, "write") => Newer(p)',
           DiskInv'
    PROVE  IInv'
<1>1. PICK op \in Changes : Doing(p, op)
  BY DEF Writing, Changes
<1>2. Operand(p) \in Files /\ depth[p] > 0 /\ command[p] # None
  BY <1>1, OnAFile DEF OnFile, Inside
<1>3. /\ stage' \in [Procs -> {"none", "temporary", "flushed", "renamed"}]
      /\ stage'[p] = s /\ \A q \in Procs \ {p} : stage'[q] = stage[q]
  BY DEF IInv, TypeOK, GoTo
<1>4. TypeOK'
  BY <1>3 DEF IInv, TypeOK, counts
<1>5. /\ Here(p)' = Here(p) /\ Operand(p)' = Operand(p)
      /\ \A o : Doing(p, o)' <=> Doing(p, o)
  BY DEF Here, Operand, Doing, Instruction
<1>6. ProcessOK(p)'
  <2>1. ASSUME NEW x \in Here(p).fresh
        PROVE  Known(p, x)' \/ (stage'[p] = "renamed" /\ x = Operand(p))
    <3>1. Known(p, x) /\ (x = "announced" \/ x \in Files)
      BY WhereItIs, InContext DEF IInv, ControlInv, ProcessOK, Facts
    <3>2. CASE s = "renamed" /\ x = Operand(p)
      BY <1>3, <3>2
    <3>3. CASE x = "announced"
      BY <3>1, <3>3 DEF Known
    <3>4. CASE ~(s = "renamed" /\ x = Operand(p)) /\ x # "announced"
      <4>1. visible'[x] = visible[x]
        BY <3>1, <3>4
      <4>2. QED
        BY <3>1, <3>4, <4>1 DEF Known, Current
    <3>5. QED
      BY <3>2, <3>3, <3>4
  <2>2. ProcessOK(p)
    BY DEF IInv, ControlInv
  <2>3. \/ Doing(p, "write") \/ Doing(p, "update") \/ Doing(p, "install")
        \/ Doing(p, "remove") /\ s = "renamed"
    BY DEF Writing
  <2>4. /\ depth'[p] = Here(p)'.depth
        /\ \A f \in Files : owner'[f] = p <=> f \in Here(p)'.held
    BY <1>5, <2>2 DEF ProcessOK
  <2>5. QED
    BY <1>2, <1>3, <1>5, <2>1, <2>3, <2>4 DEF ProcessOK
<1>7. ASSUME NEW q \in Procs \ {p}
      PROVE  ProcessOK(q)'
  <2>1. depth[q] = 0
    BY <1>2, OneInside, HoldsHere
  <2>2. SameProcess(q)
    BY DEF SameProcess
  <2>3. QED
    BY <1>3, <2>1, <2>2, OtherProcess
<1>8. ControlInv'
  BY <1>6, <1>7 DEF IInv, ControlInv
<1>9. QED
  BY <1>4, <1>8 DEF IInv

LEMMA TemporaryKeeps ==
    ASSUME IInv, NEW p \in Procs, CreateTemporary(p) \/ FlushTemporary(p)
    PROVE  IInv'
<1>1. /\ Writing(p) /\ stage[p] # "renamed"
      /\ UNCHANGED <<owner, depth, command, at, seen, counts>>
      /\ UNCHANGED <<disk, history>>
      /\ GoTo(p, "temporary") \/ GoTo(p, "flushed")
  BY DEF CreateTemporary, FlushTemporary
<1>2. DiskInv'
  BY <1>1, DiskAlone DEF IInv
<1>3. /\ visible' \in [Files -> State]
      /\ possible' \in [Files -> SUBSET State]
      /\ latest' \in [Files -> Nat] /\ confirmed' \in [Files -> Nat]
      /\ \A g \in Files : visible'[g] = visible[g]
  BY <1>1 DEF IInv, TypeOK, disk, history
<1>4. Announced(p) => Announced(p)'
  BY <1>1 DEF Announced, disk
<1>5. QED
  BY <1>1, <1>2, <1>3, <1>4, StageStep

\* The new state of a file comes after all it may have been in.
LEMMA EnterDisk ==
    ASSUME IInv, NEW f \in Files, NEW there \in BOOLEAN,
           Enter(f, there, TRUE), UNCHANGED confirmed
    PROVE  /\ visible' \in [Files -> State]
           /\ possible' \in [Files -> SUBSET State]
           /\ latest' \in [Files -> Nat] /\ confirmed' \in [Files -> Nat]
           /\ \A g \in Files \ {f} : visible'[g] = visible[g]
           /\ visible'[f].number = latest[f] + 1
           /\ latest'[f] = latest[f] + 1
           /\ \A g \in Files \ {f} : latest'[g] = latest[g]
           /\ DiskInv'
<1> DEFINE new == [number |-> latest[f] + 1, there |-> there,
                   flushed |-> TRUE]
<1>1. /\ visible' = [visible EXCEPT ![f] = new]
      /\ possible' = [possible EXCEPT ![f] = @ \cup {new}]
      /\ latest' = [latest EXCEPT ![f] = @ + 1]
  BY DEF Enter
<1>2. /\ visible \in [Files -> State]
      /\ possible \in [Files -> SUBSET State]
      /\ latest \in [Files -> Nat] /\ confirmed \in [Files -> Nat]
  BY DEF IInv, TypeOK
<1>3. /\ new \in State /\ new.number = latest[f] + 1 /\ new.flushed
      /\ latest[f] + 1 \in Nat
  BY <1>2 DEF State
<1> HIDE DEF new
<1>4. /\ visible' \in [Files -> State]
      /\ possible' \in [Files -> SUBSET State]
      /\ latest' \in [Files -> Nat] /\ confirmed' \in [Files -> Nat]
      /\ visible'[f] = new /\ latest'[f] = latest[f] + 1
      /\ possible'[f] = possible[f] \cup {new}
      /\ \A g \in Files \ {f} : /\ visible'[g] = visible[g]
                                /\ possible'[g] = possible[g]
                                /\ latest'[g] = latest[g]
  BY <1>1, <1>2, <1>3
<1>5. FileOK(f)'
  <2>1. /\ visible[f].number <= latest[f] /\ visible[f].number \in Int
        /\ visible[f] \in possible[f]
        /\ \A s \in possible[f] :
              /\ s.flushed /\ confirmed[f] <= s.number
              /\ s.number <= visible[f].number /\ s.number \in Int
    <3>1. FileOK(f) /\ possible[f] \in SUBSET State /\ visible[f] \in State
      BY <1>2 DEF IInv, DiskInv
    <3>2. QED
      BY <3>1 DEF FileOK, State
  <2>2. \A s \in possible'[f] :
            /\ s.flushed /\ confirmed[f] <= s.number
            /\ s.number <= new.number
    BY <1>2, <1>3, <1>4, <2>1
  <2>3. QED
    BY <1>3, <1>4, <2>2 DEF FileOK
<1>6. ASSUME NEW g \in Files \ {f}
      PROVE  FileOK(g)'
  <2>1. FileOK(g)
    BY DEF IInv, DiskInv
  <2>2. QED
    BY <1>4, <2>1 DEF FileOK
<1>7. QED
  BY <1>3, <1>4, <1>5, <1>6 DEF DiskInv

\* What a process relies on while it has not replaced the file.
LEMMA KnownHere ==
    ASSUME IInv, NEW p \in Procs, stage[p] # "renamed",
           NEW x \in Here(p).fresh
    PROVE  Known(p, x)
  BY DEF IInv, ControlInv, ProcessOK

LEMMA ChangeKeeps ==
    ASSUME IInv, NEW p \in Procs, Replace(p) \/ Unlink(p)
    PROVE  IInv'
<1> DEFINE f == Operand(p)
<1>1. PICK there \in BOOLEAN : Enter(Operand(p), there, TRUE)
  BY DEF Replace, Unlink
<1>2. /\ Writing(p) \/ Doing(p, "remove")
      /\ stage[p] # "renamed" /\ GoTo(p, "renamed")
      /\ UNCHANGED <<owner, depth, command, at, seen, counts>>
      /\ UNCHANGED confirmed
  BY DEF Replace, Unlink
<1>3. PICK op \in Changes : Doing(p, op)
  BY <1>2 DEF Writing, Changes
<1>4. /\ f \in Files
      /\ MayChange(op, Here(p).fresh, f)
  BY <1>3, OnAFile DEF OnFile
<1>5. /\ visible' \in [Files -> State]
      /\ possible' \in [Files -> SUBSET State]
      /\ latest' \in [Files -> Nat] /\ confirmed' \in [Files -> Nat]
      /\ \A g \in Files \ {f} : visible'[g] = visible[g]
      /\ visible'[f].number = latest[f] + 1
      /\ DiskInv'
  BY <1>1, <1>2, <1>4, EnterDisk
<1>6. /\ possible'[f] = possible[f] \cup {visible'[f]}
      /\ \A g \in Files \ {f} : possible'[g] = possible[g]
  <2>1. visible \in [Files -> State] /\ possible \in [Files -> SUBSET State]
    BY DEF IInv, TypeOK
  <2> HIDE DEF f
  <2>2. Enter(f, there, TRUE)
    BY <1>1 DEF f
  <2>3. QED
    BY <1>4, <2>1, <2>2 DEF Enter
<1>7. ASSUME NEW g \in Files
      PROVE  /\ visible[g] \in State /\ visible[g] \in possible[g]
             /\ visible[g].number \in Int /\ latest[g] \in Nat
             /\ visible[g].number <= latest[g]
  BY DEF IInv, TypeOK, State, DiskInv, FileOK
<1>8. ASSUME Announced(p)
      PROVE  Announced(p)'
  <2>1. /\ seen'[p]["audit"] = seen[p]["audit"] /\ "audit" \in Files
        /\ seen[p]["audit"] \in State
        /\ \A s \in possible["audit"] : s.number > seen[p]["audit"].number
    BY <1>2, <1>8, Disjoint DEF Announced
  <2>2. seen[p]["audit"].number \in Int
    BY <2>1 DEF State
  <2>3. CASE f = "audit"
    <3>1. visible'["audit"].number > seen[p]["audit"].number
      BY <1>5, <1>7, <2>1, <2>2, <2>3
    <3>2. \A s \in possible'["audit"] : s.number > seen[p]["audit"].number
      BY <1>6, <2>1, <2>3, <3>1
    <3>3. QED
      BY <2>1, <3>2 DEF Announced
  <2>4. CASE f # "audit"
    BY <1>6, <2>1, <2>4 DEF Announced
  <2>5. QED
    BY <2>3, <2>4
<1>9. ASSUME Doing(p, "write")
      PROVE  Newer(p)'
  <2>1. op = "write"
    BY <1>3, <1>9 DEF Doing
  <2>2. Known(p, f)
    BY <1>2, <1>4, <2>1, KnownHere DEF MayChange
  <2>3. seen[p][f] = visible[f]
    BY <1>4, <2>2, Disjoint DEF Known, Current
  <2>4. Operand(p)' = f
    BY <1>2 DEF Operand, Instruction
  <2>5. QED
    BY <1>2, <1>4, <1>5, <1>7, <2>3, <2>4 DEF Newer
<1>10. QED
  BY <1>2, <1>5, <1>8, <1>9, StageStep

\* Each file is now known to be what it is seen to be.
LEMMA FlushDisk ==
    ASSUME IInv, NEW f \in Files, UNCHANGED <<visible, latest>>,
           confirmed' = [confirmed EXCEPT ![f] = visible[f].number],
           possible' = [g \in Files |-> {visible[g]}]
    PROVE  /\ possible' \in [Files -> SUBSET State]
           /\ confirmed' \in [Files -> Nat]
           /\ DiskInv'
<1>1. ASSUME NEW g \in Files
      PROVE  /\ visible[g] \in State /\ visible[g].number \in Int
             /\ confirmed[g] \in Nat
             /\ confirmed[g] <= visible[g].number
             /\ visible[g].flushed /\ visible[g].number <= latest[g]
  BY DEF IInv, TypeOK, State, DiskInv, FileOK
<1>2. visible[f].number \in Nat
  BY <1>1
<1>3. /\ confirmed' \in [Files -> Nat]
      /\ confirmed'[f] = visible[f].number
      /\ \A g \in Files \ {f} : confirmed'[g] = confirmed[g]
  BY <1>2 DEF IInv, TypeOK
<1>4. possible' \in [Files -> SUBSET State]
  BY <1>1
<1>5. ASSUME NEW g \in Files
      PROVE  FileOK(g)'
  <2>1. possible'[g] = {visible[g]} /\ visible'[g] = visible[g]
    OBVIOUS
  <2>2. confirmed'[g] <= visible[g].number
    BY <1>1, <1>3
  <2>3. visible[g].number <= visible[g].number
    BY <1>1
  <2>4. QED
    BY <1>1, <2>1, <2>2, <2>3 DEF FileOK
<1>6. QED
  BY <1>3, <1>4, <1>5 DEF DiskInv

LEMMA FlushKeeps ==
    ASSUME IInv, NEW p \in Procs, FlushDirectory(p)
    PROVE  IInv'
<1> DEFINE op == Instruction(p)[1]
           f == Operand(p)
<1>1. /\ stage[p] = "renamed" /\ GoTo(p, "none")
      /\ confirmed' =
             [confirmed EXCEPT ![Operand(p)] = visible[Operand(p)].number]
      /\ at' = [at EXCEPT ![p] = @ + 1]
      /\ UNCHANGED <<command, seen>>
      /\ UNCHANGED <<owner, depth, visible, latest, counts>>
      /\ possible' = [g \in Files |-> {visible[g]}]
  BY DEF FlushDirectory, Return
<1>2. /\ op \in Changes /\ depth[p] > 0
      /\ command[p] # None /\ Operand(p) \in Files
      /\ at[p] # Len(Plans[command[p]])
  BY <1>1, WriterInside
<1>3. /\ possible' \in [Files -> SUBSET State]
      /\ confirmed' \in [Files -> Nat] /\ DiskInv'
  BY <1>1, <1>2, FlushDisk
<1>4. seen' \in [Procs -> [Files -> State \cup {None}]]
  BY <1>1 DEF IInv, TypeOK
<1>5. /\ ProcessTypes' /\ command'[p] # None
      /\ \A q \in Procs \ {p} : SameProcess(q)
      /\ Here(p)' = After(Instruction(p), Here(p))
  BY <1>1, <1>2, <1>4, Advancing
<1>6. /\ stage' \in [Procs -> {"none", "temporary", "flushed", "renamed"}]
      /\ stage'[p] = "none" /\ \A q \in Procs \ {p} : stage'[q] = stage[q]
  BY <1>1 DEF IInv, TypeOK, GoTo
<1>7. TypeOK'
  BY <1>1, <1>3, <1>5, <1>6 DEF IInv, TypeOK, ProcessTypes, counts
<1>8. ASSUME NEW x \in Spend(op, Here(p).fresh, f)
      PROVE  Known(p, x)'
  <2>1. "audit" \in Files /\ possible'["audit"] = {visible["audit"]}
    BY <1>1, Disjoint
  <2>2. CASE x \in Here(p).fresh \ {f}
    <3>1. Known(p, x)
      BY <1>1, <2>2 DEF IInv, ControlInv, ProcessOK
    <3>2. CASE x = "announced"
      <4>1. Announced(p) /\ visible["audit"] \in possible["audit"]
        BY <2>1, <3>1, <3>2 DEF Known, IInv, DiskInv, FileOK
      <4>2. Announced(p)'
        BY <1>1, <2>1, <4>1 DEF Announced
      <4>3. QED
        BY <1>1, <1>2, <3>2, <4>2 DEF Known
    <3>3. CASE x # "announced"
      BY <1>1, <3>1, <3>3 DEF Known, Current
    <3>4. QED
      BY <3>2, <3>3
  <2>3. CASE x \notin Here(p).fresh \ {f}
    <3>1. x = "announced" /\ op = "write" /\ f = "audit"
      BY <2>3 DEF Spend
    <3>2. Newer(p)
      BY <1>1, <3>1 DEF IInv, ControlInv, ProcessOK, Doing
    <3>3. Announced(p)'
      BY <1>1, <2>1, <3>1, <3>2 DEF Newer, Announced
    <3>4. QED
      BY <1>1, <1>2, <3>1, <3>3 DEF Known
  <2>4. QED
    BY <2>2, <2>3
<1>9. ProcessOK(p)'
  <2>1. After(Instruction(p), Here(p)) =
            At(Here(p).depth, Here(p).held, Spend(op, Here(p).fresh, f))
    BY <1>2, Effects DEF Operand
  <2>2. /\ After(Instruction(p), Here(p)).depth = Here(p).depth
        /\ After(Instruction(p), Here(p)).held = Here(p).held
        /\ After(Instruction(p), Here(p)).fresh =
               Spend(op, Here(p).fresh, f)
    BY <2>1, Fields
  <2>3. Through(p)
    BY <1>5 DEF Through
  <2>4. /\ depth'[p] = After(Instruction(p), Here(p)).depth
        /\ \A g \in Files : owner'[g] = p <=>
               g \in After(Instruction(p), Here(p)).held
    BY <1>1, <2>2, HoldsHere
  <2>5. \A x \in After(Instruction(p), Here(p)).fresh : Known(p, x)'
    BY <1>8, <2>2
  <2>6. QED
    BY <1>2, <1>6, <2>3, <2>4, <2>5, BetweenInstructions
<1>10. ASSUME NEW q \in Procs \ {p}
       PROVE  ProcessOK(q)'
  <2>1. depth[q] = 0
    BY <1>2, OneInside, HoldsHere
  <2>2. QED
    BY <1>1, <1>5, <1>6, <2>1, OtherProcess
<1>11. ControlInv'
  BY <1>5, <1>9, <1>10 DEF ControlInv, ProcessTypes
<1>12. QED
  BY <1>3, <1>7, <1>11 DEF IInv

\* A process fails or dies: its locks are free, the files are as they are.
LEMMA FailKeeps ==
    ASSUME IInv, NEW p \in Procs, Fail(p)
    PROVE  IInv'
<1>1. /\ Idle(p) /\ GoTo(p, "none") /\ faults < MaxFaults
      /\ owner' = [l \in Locks |-> IF owner[l] = p THEN None ELSE owner[l]]
      /\ depth' = [depth EXCEPT ![p] = 0]
      /\ faults' = faults + 1 /\ UNCHANGED <<disk, history, started>>
  BY DEF Fail, ReleaseAll
<1>2. /\ ProcessTypes' /\ \A q \in Procs \ {p} : SameProcess(q)
      /\ command'[p] = None /\ at'[p] = 1 /\ seen'[p] = Unread
  BY <1>1, Idling
<1>3. /\ stage' \in [Procs -> {"none", "temporary", "flushed", "renamed"}]
      /\ stage'[p] = "none" /\ \A q \in Procs \ {p} : stage'[q] = stage[q]
  BY <1>1 DEF IInv, TypeOK, GoTo
<1>4. /\ depth' \in [Procs -> Nat] /\ depth'[p] = 0
      /\ \A q \in Procs \ {p} : depth'[q] = depth[q]
  BY <1>1, HoldsHere
<1>5. /\ owner' \in [Locks -> Procs \cup {None}]
      /\ \A l \in Locks : owner'[l] # p
      /\ \A q \in Procs \ {p} : \A l \in Locks :
             owner'[l] = q <=> owner[l] = q
  <2>1. \A l \in Locks :
            owner'[l] = IF owner[l] = p THEN None ELSE owner[l]
    BY <1>1
  <2>2. QED
    BY <1>1, <2>1, HoldsHere, NoneAssumption
<1>6. \A q \in Procs : depth'[q] > 0 <=> owner'[Guard] = q
  BY <1>4, <1>5, HoldsHere
<1>7. faults' \in 0 .. MaxFaults
  BY <1>1, BoundsAssumption DEF IInv, TypeOK
<1>8. TypeOK'
  BY <1>1, <1>2, <1>3, <1>4, <1>5, <1>6, <1>7
  DEF IInv, TypeOK, ProcessTypes, disk, history
<1>9. ProcessOK(p)'
  BY <1>2, <1>3, <1>4, <1>5, HoldsHere, AtRest
<1>10. ASSUME NEW q \in Procs \ {p}
       PROVE  ProcessOK(q)'
  <2>1. /\ SameProcess(q) /\ stage'[q] = stage[q] /\ depth'[q] = depth[q]
        /\ \A f \in Files : owner'[f] = q <=> owner[f] = q
        /\ UNCHANGED <<visible, possible>>
    BY <1>1, <1>2, <1>3, <1>4, <1>5, HoldsHere DEF disk
  <2>2. QED
    BY <2>1, OtherProcess
<1>11. ControlInv'
  BY <1>2, <1>9, <1>10 DEF ControlInv, ProcessTypes
<1>12. DiskInv'
  BY <1>1, DiskAlone DEF IInv
<1>13. QED
  BY <1>8, <1>11, <1>12 DEF IInv

\* Every state a power loss may find is whole.
LEMMA PowerLossFinds ==
    ASSUME IInv, PowerLoss
    PROVE  /\ visible' = [f \in Files |-> visible'[f]]
           /\ \A f \in Files : visible'[f] \in possible[f]
           /\ possible' = [f \in Files |-> {visible'[f]}]
           /\ UNCHANGED history
<1>1. ASSUME NEW f \in Files, NEW s \in possible[f]
      PROVE  Surviving(s) = s
  BY DEF IInv, DiskInv, FileOK, Surviving
<1>2. PICK vault \in possible["vault"], consent \in possible["consent"],
           audit \in possible["audit"] :
          visible' = [f \in Files |->
              Surviving(CASE f = "vault" -> vault [] f = "consent" -> consent
                          [] f = "audit" -> audit)]
  BY DEF PowerLoss
<1>3. /\ visible'["vault"] = Surviving(vault)
      /\ visible'["consent"] = Surviving(consent)
      /\ visible'["audit"] = Surviving(audit)
      /\ visible' = [f \in Files |-> visible'[f]]
  BY <1>2, Disjoint
<1>4. \A f \in Files : visible'[f] \in possible[f]
  BY <1>1, <1>3, Disjoint
<1>5. QED
  BY <1>3, <1>4 DEF PowerLoss

LEMMA PowerLossKeeps ==
    ASSUME IInv, PowerLoss
    PROVE  IInv'
<1>1. /\ owner' = [l \in Locks |-> None]
      /\ depth' = [p \in Procs |-> 0]
      /\ command' = [p \in Procs |-> None]
      /\ at' = [p \in Procs |-> 1]
      /\ stage' = [p \in Procs |-> "none"]
      /\ seen' = [p \in Procs |-> Unread]
      /\ faults < MaxFaults /\ faults' = faults + 1
      /\ UNCHANGED <<history, started>>
  BY DEF PowerLoss
<1>2. /\ visible' = [f \in Files |-> visible'[f]]
      /\ \A f \in Files : visible'[f] \in possible[f]
      /\ possible' = [f \in Files |-> {visible'[f]}]
  BY PowerLossFinds
<1>3. ASSUME NEW f \in Files
      PROVE  /\ visible'[f] \in State /\ FileOK(f)'
  <2>1. /\ possible[f] \in SUBSET State /\ FileOK(f)
        /\ visible[f] \in State /\ latest[f] \in Nat
        /\ confirmed[f] \in Nat
    BY DEF IInv, TypeOK, DiskInv
  <2>2. /\ visible'[f] \in State /\ visible'[f].flushed
        /\ visible'[f].number \in Int
        /\ confirmed[f] <= visible'[f].number
        /\ visible'[f].number <= visible[f].number
        /\ visible[f].number \in Int /\ visible[f].number <= latest[f]
    BY <1>2, <2>1 DEF FileOK, State
  <2>3. /\ possible'[f] = {visible'[f]} /\ latest'[f] = latest[f]
        /\ confirmed'[f] = confirmed[f]
    BY <1>1, <1>2 DEF history
  <2>4. QED
    BY <2>1, <2>2, <2>3 DEF FileOK
<1>4. /\ visible' \in [Files -> State]
      /\ possible' \in [Files -> SUBSET State]
  BY <1>2, <1>3
<1>5. faults' \in 0 .. MaxFaults
  BY <1>1, BoundsAssumption DEF IInv, TypeOK
<1>6. /\ owner' \in [Locks -> Procs \cup {None}]
      /\ depth' \in [Procs -> Nat] /\ at' \in [Procs -> Nat]
      /\ command' \in [Procs -> Commands \cup {None}]
      /\ \A p \in Procs : command'[p] = None
      /\ stage' \in [Procs -> {"none", "temporary", "flushed", "renamed"}]
      /\ seen' \in [Procs -> [Files -> State \cup {None}]]
  BY <1>1, UnreadType
<1>7. \A p \in Procs : depth'[p] > 0 <=> owner'[Guard] = p
  BY <1>1, HoldsHere, NoneAssumption DEF Locks
<1>8. TypeOK'
  BY <1>1, <1>4, <1>5, <1>6, <1>7 DEF IInv, TypeOK, history
<1>9. ASSUME NEW p \in Procs
      PROVE  ProcessOK(p)'
  <2>1. \A f \in Files : owner'[f] # p
    BY <1>1, NoneAssumption DEF Locks
  <2>2. /\ command'[p] = None /\ at'[p] = 1 /\ seen'[p] = Unread
        /\ stage'[p] = "none" /\ depth'[p] = 0
    BY <1>1
  <2>3. QED
    BY <2>1, <2>2, AtRest
<1>10. ControlInv' /\ DiskInv'
  BY <1>3, <1>6, <1>9 DEF ControlInv, DiskInv
<1>11. QED
  BY <1>8, <1>10 DEF IInv

LEMMA StutterKeeps ==
    ASSUME IInv, UNCHANGED vars
    PROVE  IInv'
<1>1. /\ \A p \in Procs : ProcessOK(p)
      /\ \A f \in Files : FileOK(f)
  BY DEF IInv, ControlInv, DiskInv
<1>2. ASSUME NEW p \in Procs
      PROVE  ProcessOK(p)'
  <2>1. /\ SameProcess(p) /\ UNCHANGED <<visible, possible>>
        /\ stage'[p] = stage[p] /\ depth'[p] = depth[p]
        /\ \A f \in Files : owner'[f] = p <=> owner[f] = p
    BY DEF SameProcess, vars, process, disk
  <2>2. QED
    BY <2>1, OtherProcess
<1>3. DiskInv'
  BY DiskAlone DEF IInv, vars
<1>4. QED
  BY <1>2, <1>3 DEF IInv, TypeOK, ControlInv, vars, process, disk,
                    history, counts

LEMMA InitHolds == Init => IInv
<1> SUFFICES ASSUME Init PROVE IInv
  OBVIOUS
<1>1. First \in State /\ First.number = 0 /\ First.flushed
  BY DEF First, State
<1>2. TypeOK
  <2>1. \A p \in Procs : depth[p] > 0 <=> owner[Guard] = p
    <3>1. Guard \in Locks /\ owner[Guard] = None
      BY DEF Init, Locks
    <3>2. \A p \in Procs : depth[p] = 0
      BY DEF Init
    <3>3. ASSUME NEW p \in Procs
          PROVE  ~(depth[p] > 0) /\ owner[Guard] # p
      BY <3>1, <3>2, NoneAssumption
    <3>4. QED
      BY <3>3
  <2>2. QED
    BY <1>1, <2>1, UnreadType, BoundsAssumption DEF Init, TypeOK
<1>3. ASSUME NEW p \in Procs
      PROVE  ProcessOK(p)
  <2>1. /\ command[p] = None /\ at[p] = 1 /\ seen[p] = Unread
        /\ stage[p] = "none" /\ depth[p] = 0
    BY DEF Init
  <2>2. \A f \in Files : owner[f] # p
    BY NoneAssumption DEF Init, Locks
  <2>3. Here(p) = At(0, {}, {})
    BY <2>1 DEF Here
  <2>4. Here(p).depth = 0 /\ Here(p).held = {} /\ Here(p).fresh = {}
    BY <2>3, Fields
  <2>5. QED
    BY <2>1, <2>2, <2>4 DEF ProcessOK
<1>4. DiskInv
  BY <1>1 DEF Init, DiskInv, FileOK
<1>5. QED
  BY <1>2, <1>3, <1>4 DEF Init, IInv, ControlInv

LEMMA NextKeeps == IInv /\ [Next]_vars => IInv'
<1> SUFFICES ASSUME IInv, [Next]_vars PROVE IInv'
  OBVIOUS
<1>1. ASSUME NEW p \in Procs, Start(p) \/ Step(p) \/ Fail(p)
      PROVE  IInv'
  <2>1. CASE Start(p)
    BY <2>1, StartKeeps
  <2>2. CASE EnterGuard(p)
    BY <2>2, EnterKeeps
  <2>3. CASE LeaveGuard(p)
    BY <2>3, LeaveKeeps
  <2>4. CASE LockFile(p)
    BY <2>4, LockKeeps
  <2>5. CASE UnlockFile(p)
    BY <2>5, UnlockKeeps
  <2>6. CASE ReadFile(p)
    BY <2>6, ReadKeeps
  <2>7. CASE CreateTemporary(p) \/ FlushTemporary(p)
    BY <2>7, TemporaryKeeps
  <2>8. CASE Replace(p) \/ Unlink(p)
    BY <2>8, ChangeKeeps
  <2>9. CASE NothingThere(p)
    BY <2>9, NothingThereKeeps
  <2>10. CASE FlushDirectory(p)
    BY <2>10, FlushKeeps
  <2>11. CASE Fail(p)
    BY <2>11, FailKeeps
  <2>12. QED
    BY <1>1, <2>1, <2>2, <2>3, <2>4, <2>5, <2>6, <2>7, <2>8, <2>9, <2>10,
       <2>11 DEF Step
<1>2. CASE PowerLoss
  BY <1>2, PowerLossKeeps
<1>3. CASE UNCHANGED vars
  BY <1>3, StutterKeeps
<1>4. QED
  BY <1>1, <1>2, <1>3 DEF Next, Rest

(***************************************************************************)
(* The state of every process is the one its place in its command calls    *)
(* for, and every state a power loss may find is whole and not older than  *)
(* what a returned call has confirmed.                                     *)
(***************************************************************************)
THEOREM Invariance == Spec => []IInv
<1>1. Init => IInv
  BY InitHolds
<1>2. IInv /\ [Next]_vars => IInv'
  BY NextKeeps
<1>3. QED
  BY <1>1, <1>2, PTL DEF Spec

(***************************************************************************)
(* The type invariant: locks, depths of the guard, files and what a power  *)
(* loss may leave of them keep their types.                                *)
(***************************************************************************)
THEOREM TypeCorrectness == Spec => []TypeOK
<1>1. IInv => TypeOK
  BY DEF IInv
<1>2. QED
  BY <1>1, Invariance, PTL

-----------------------------------------------------------------------------
(* The locks.                                                              *)

LEMMA FileLocksAreFree ==
    ASSUME IInv, NEW p \in Procs, Doing(p, "lock")
    PROVE  owner[Operand(p)] = None
<1>1. /\ Operand(p) \in Files /\ depth[p] > 0
      /\ Operand(p) \notin Here(p).held
  BY OnAFile DEF OnFile, Inside
<1>2. owner[Operand(p)] # p /\ owner[Operand(p)] \in Procs \cup {None}
  BY <1>1, HoldsHere
<1>3. ASSUME NEW q \in Procs, owner[Operand(p)] = q
      PROVE  FALSE
  <2>1. depth[q] > 0
    BY <1>1, <1>3, OneInside
  <2>2. p = q
    BY <1>1, <2>1, OneInside
  <2>3. QED
    BY <1>2, <1>3, <2>2
<1>4. QED
  BY <1>2, <1>3

LEMMA HolderIsInside ==
    ASSUME IInv, NEW p \in Procs, NEW l \in Locks, owner[l] = p
    PROVE  owner[Guard] = p /\ Inside(p)
<1>1. depth[p] > 0
  <2>1. CASE l = Guard
    BY <2>1, HoldsHere
  <2>2. CASE l \in Files
    BY <2>2, OneInside
  <2>3. QED
    BY <2>1, <2>2 DEF Locks
<1>2. QED
  BY <1>1, HoldsHere DEF Inside

(***************************************************************************)
(* Whoever holds a lock of vault.py, consent.py or audit.py is in the      *)
(* guard of migration_guard.py and finds the locks it takes next free: no  *)
(* two commands, however many run, can wait for each other.                *)
(***************************************************************************)
THEOREM NoLockIsAwaited == Spec => []OnlyTheGuardIsWaitedFor
<1>1. IInv => OnlyTheGuardIsWaitedFor
  BY FileLocksAreFree, HolderIsInside DEF OnlyTheGuardIsWaitedFor
<1>2. QED
  BY <1>1, Invariance, PTL

-----------------------------------------------------------------------------
(* What a change relies on.                                                *)

LEMMA ChangeBuildsOnRead ==
    ASSUME IInv, NEW p \in Procs, stage[p] # "renamed"
    PROVE  /\ Doing(p, "write") \/ Doing(p, "update") =>
                seen[p][Operand(p)] = visible[Operand(p)]
           /\ Doing(p, "install") => seen[p]["vault"] = visible["vault"]
           /\ Doing(p, "write") /\ Operand(p) = "consent" => Announced(p)
<1>1. ASSUME NEW op \in {"write", "update"}, Doing(p, op)
      PROVE  seen[p][Operand(p)] = visible[Operand(p)]
  <2>1. Operand(p) \in Files /\ Operand(p) \in Here(p).fresh
    BY <1>1, OnAFile DEF OnFile, Changes, MayChange
  <2>2. Known(p, Operand(p)) /\ Operand(p) # "announced"
    BY <2>1, KnownHere, Disjoint
  <2>3. QED
    BY <2>2 DEF Known, Current
<1>2. ASSUME Doing(p, "install")
      PROVE  seen[p]["vault"] = visible["vault"]
  <2>1. "vault" \in Here(p).fresh
    BY <1>2, OnAFile DEF OnFile, Changes, MayChange
  <2>2. Known(p, "vault") /\ "vault" # "announced"
    BY <2>1, KnownHere, Disjoint
  <2>3. QED
    BY <2>2 DEF Known, Current
<1>3. ASSUME Doing(p, "write"), Operand(p) = "consent"
      PROVE  Announced(p)
  <2>1. "announced" \in Here(p).fresh
    BY <1>3, OnAFile DEF OnFile, Changes, MayChange
  <2>2. QED
    BY <2>1, KnownHere DEF Known
<1>4. QED
  BY <1>1, <1>2, <1>3

(***************************************************************************)
(* Whatever is written again is as it was read when it is replaced,        *)
(* whichever locks the command took (the migration takes none of the file  *)
(* locks for its writes), and a sidecar prepared earlier is only installed *)
(* beside a vault that is as it was just read.  The sidecar itself may     *)
(* have changed: encrypt, decrypt and protect-sidecars do not read it      *)
(* again, and nothing is claimed of it.                                    *)
(***************************************************************************)
THEOREM NoLostUpdate == Spec => WritesBuildOnReads
<1>1. IInv /\ [Next]_vars =>
        [\A p \in Procs : stage[p] # "renamed" /\ stage'[p] = "renamed" =>
            /\ Doing(p, "write") \/ Doing(p, "update") =>
                  seen[p][Operand(p)] = visible[Operand(p)]
            /\ Doing(p, "install") =>
                  seen[p]["vault"] = visible["vault"]]_vars
  BY ChangeBuildsOnRead
<1>2. QED
  BY <1>1, Invariance, PTL DEF Spec, WritesBuildOnReads

(***************************************************************************)
(* A consent operation that replaces the consent records has written the   *)
(* audit file since it read it, and every state a power loss may leave the *)
(* audit file in is a later one than it read.                              *)
(***************************************************************************)
THEOREM NoSilentConsentChange == Spec => AnnouncedBeforeChanged
<1>1. IInv /\ [Next]_vars =>
        [\A p \in Procs :
            /\ Doing(p, "write") /\ Operand(p) = "consent"
            /\ stage[p] # "renamed" /\ stage'[p] = "renamed"
            => Announced(p)]_vars
  BY ChangeBuildsOnRead
<1>2. QED
  BY <1>1, Invariance, PTL DEF Spec, AnnouncedBeforeChanged

-----------------------------------------------------------------------------
(* Refinement of AtomicFiles.                                              *)

LEMMA AtomicInit == Init => Atomic!Init
  BY DEF Init, Atomic!Init, First

LEMMA AtomicStutter ==
    ASSUME UNCHANGED <<visible, history>>
    PROVE  UNCHANGED Atomic!fileVars
  BY DEF Atomic!fileVars, history

LEMMA ChangeChanges ==
    ASSUME IInv, NEW p \in Procs, Replace(p) \/ Unlink(p)
    PROVE  \E f \in Files : Atomic!Change(f)
<1>1. PICK f \in Files : f = Operand(p)
  <2>1. PICK op \in Changes : Doing(p, op)
    BY DEF Replace, Unlink, Writing, Changes
  <2>2. QED
    BY <2>1, OnAFile DEF OnFile
<1>2. UNCHANGED confirmed /\ \E there \in BOOLEAN : Enter(f, there, TRUE)
  BY <1>1 DEF Replace, Unlink
<1>3. /\ visible' \in [Files -> State] /\ visible'[f].number = latest[f] + 1
      /\ \A g \in Files \ {f} : visible'[g] = visible[g]
      /\ latest' = [latest EXCEPT ![f] = @ + 1]
  BY <1>2, EnterDisk DEF Enter
<1>4. [g \in Files |-> visible'[g].number] =
          [[g \in Files |-> visible[g].number] EXCEPT ![f] = latest[f] + 1]
  BY <1>3
<1>5. Atomic!Change(f)
  BY <1>2, <1>3, <1>4 DEF Atomic!Change
<1>6. QED
  BY <1>5

LEMMA FlushConfirms ==
    ASSUME IInv, NEW p \in Procs, FlushDirectory(p)
    PROVE  \E f \in Files : Atomic!Confirm(f)
<1> DEFINE f == Operand(p)
<1>1. f \in Files
  BY WriterInside DEF FlushDirectory
<1>2. /\ confirmed' = [confirmed EXCEPT ![f] = visible[f].number]
      /\ UNCHANGED <<visible, latest>>
  BY DEF FlushDirectory, Return
<1> HIDE DEF f
<1>3. Atomic!Confirm(f)
  BY <1>1, <1>2 DEF Atomic!Confirm
<1>4. QED
  BY <1>1, <1>3

LEMMA PowerLossUndoes ==
    ASSUME IInv, PowerLoss
    PROVE  Atomic!PowerLoss
<1>1. ASSUME NEW f \in Files
      PROVE  /\ visible'[f].number \in Nat
             /\ confirmed[f] <= visible'[f].number
             /\ visible'[f].number <= visible[f].number
  <2>1. /\ visible'[f] \in possible[f] /\ possible[f] \in SUBSET State
        /\ FileOK(f) /\ confirmed[f] \in Nat
    BY PowerLossFinds DEF IInv, TypeOK, DiskInv
  <2>2. /\ visible'[f].number \in Int
        /\ confirmed[f] <= visible'[f].number
        /\ visible'[f].number <= visible[f].number
    BY <2>1 DEF FileOK, State
  <2>3. QED
    BY <2>1, <2>2
<1>2. UNCHANGED <<latest, confirmed>>
  BY DEF PowerLoss, history
<1>3. [f \in Files |-> visible'[f].number] \in [Files -> Nat]
  BY <1>1
<1>4. \A f \in Files :
          /\ [g \in Files |-> visible'[g].number][f] >= confirmed[f]
          /\ [g \in Files |-> visible'[g].number][f] <=
                 [g \in Files |-> visible[g].number][f]
  <2>1. \A f \in Files : confirmed[f] \in Nat
    BY DEF IInv, TypeOK
  <2>2. QED
    BY <1>1, <2>1
<1>5. QED
  BY <1>2, <1>3, <1>4 DEF Atomic!PowerLoss

LEMMA AtomicNext ==
    ASSUME IInv, [Next]_vars
    PROVE  [Atomic!Next]_(Atomic!fileVars)
<1>1. ASSUME NEW p \in Procs, Start(p) \/ Step(p) \/ Fail(p)
      PROVE  Atomic!Next \/ UNCHANGED Atomic!fileVars
  <2>1. CASE Replace(p) \/ Unlink(p)
    BY <2>1, ChangeChanges DEF Atomic!Next
  <2>2. CASE FlushDirectory(p)
    BY <2>2, FlushConfirms DEF Atomic!Next
  <2>3. CASE UNCHANGED <<visible, history>>
    BY <2>3, AtomicStutter
  <2>4. QED
    BY <1>1, <2>1, <2>2, <2>3
    DEF Start, Step, Fail, EnterGuard, LeaveGuard, LockFile,
        UnlockFile, ReadFile, CreateTemporary, FlushTemporary,
        NothingThere, disk
<1>2. CASE PowerLoss
  BY <1>2, PowerLossUndoes DEF Atomic!Next
<1>3. CASE UNCHANGED vars
  BY <1>3, AtomicStutter DEF vars, disk
<1>4. QED
  BY <1>1, <1>2, <1>3 DEF Next, Rest

(***************************************************************************)
(* The writes and removals of private_io.py, step by step, with failures,  *)
(* deaths and power losses at each of them, implement files that change at *)
(* once and keep every change whose call has returned.                     *)
(***************************************************************************)
THEOREM Refinement == Spec => ImplementsAtomicFiles
<1>1. QED
  BY AtomicInit, AtomicNext, Invariance, PTL
  DEF Spec, Atomic!Spec, ImplementsAtomicFiles
=============================================================================
