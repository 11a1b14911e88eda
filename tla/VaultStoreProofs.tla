-------------------------- MODULE VaultStoreProofs --------------------------
(***************************************************************************)
(* Proofs about VaultStore for every set of processes, keys and values.    *)
(***************************************************************************)
EXTENDS VaultStore, TLAPS

(***************************************************************************)
(* What a version somebody remembers says about the vault in place, as     *)
(* long as no disposal has happened since it was read: its revision is not *)
(* ahead, and an equal revision means an equal vault.                      *)
(***************************************************************************)
Agrees(version) ==
    /\ version.found =>
         /\ vault # Absent
         /\ version.revision <= vault.revision
         /\ version.revision = vault.revision =>
              /\ version.fields = vault.fields
              /\ version.protection = vault.protection
    /\ ~version.found =>
         /\ version.revision = 0
         /\ vault # Absent => vault.revision > 0

Faithful(version) ==
    /\ version.life <= life
    /\ version.life = life => Agrees(version)

MemoryInv ==
    /\ page # None => page.found /\ Faithful(page)
    /\ \A p \in Procs : store[p] # None => Faithful(store[p])
    /\ \A p \in Procs : request[p] # None =>
         /\ request[p].shown.found /\ Faithful(request[p].shown)
         /\ request[p].shown.protection = "plain" => acknowledged

ControlInv ==
    \A p \in Procs :
        /\ pc[p] = "creating" =>
             store[p] # None /\ ~store[p].found /\ goal[p] # "save"
        /\ pc[p] \in {"normalizing", "editing", "viewing"} =>
             store[p] # None /\ store[p].found
        /\ pc[p] # "idle" /\ goal[p] = "save" => request[p] # None
        /\ pc[p] = "editing" /\ goal[p] = "save" =>
             store[p].revision = request[p].shown.revision

IInv == TypeOK /\ MemoryInv /\ ControlInv

-----------------------------------------------------------------------------
(* What is remembered stays faithful.                                      *)

LEMMA ReadIsFaithful ==
    ASSUME TypeOK
    PROVE  /\ blank_store \in Version /\ ~blank_store.found
           /\ vault = Absent => Faithful(blank_store)
           /\ vault # Absent =>
                InPlace \in Version /\ InPlace.found /\ Faithful(InPlace)
  BY EmptyAssumption
  DEF TypeOK, blank_store, InPlace, Version, Vault, Fields, Protections,
      Faithful, Agrees

\* Steps that leave the vault alone.
LEMMA QuietKeepsFaithful ==
    ASSUME UNCHANGED <<vault, life>>, NEW version, Faithful(version)
    PROVE  Faithful(version)'
  BY DEF Faithful, Agrees

\* A write moves the revision past everything read in this life.
LEMMA WriteKeepsFaithful ==
    ASSUME TypeOK, UNCHANGED life, vault' # Absent,
           vault'.revision = current_revision + 1,
           NEW version \in Version, Faithful(version)
    PROVE  Faithful(version)'
  BY AbsentAssumption
  DEF TypeOK, Faithful, Agrees, current_revision, Version, Vault

LEMMA DisposeKeepsFaithful ==
    ASSUME TypeOK, life' = life + 1, NEW version \in Version, Faithful(version)
    PROVE  Faithful(version)'
  BY DEF TypeOK, Faithful, Version

LEMMA WrittenVault ==
    ASSUME TypeOK, NEW p \in Procs, NEW fields \in Fields,
           NEW protection \in Protections, write_store(p, fields, protection)
    PROVE  /\ vault' \in Vault /\ vault' # Absent
           /\ vault'.revision = current_revision + 1
           /\ vault'.fields = fields /\ vault'.protection = protection
           /\ current_revision \in Nat
           /\ writes' \in Nat
<1>1. current_revision \in Nat
  BY DEF TypeOK, current_revision, Vault
<1>2. vault' \in Vault
  BY <1>1 DEF write_store, Vault
<1>3. writes' \in Nat
  BY DEF write_store, TypeOK
<1>4. /\ vault'.revision = current_revision + 1
      /\ vault'.fields = fields /\ vault'.protection = protection
  BY DEF write_store
<1>5. QED
  BY <1>1, <1>2, <1>3, <1>4, AbsentAssumption

LEMMA ProtectionInPlace ==
    ASSUME TypeOK PROVE storage_protection \in Protections
  BY DEF TypeOK, storage_protection, Vault, Protections

-----------------------------------------------------------------------------
(* The inductive invariant.                                                *)

\* A process that forgets everything.
LEMMA FinishKeeps ==
    ASSUME IInv, NEW p \in Procs, Finish(p),
           \A version \in Version : Faithful(version) => Faithful(version)',
           UNCHANGED acknowledged,
           \/ page' = page
           \/ page' \in Version /\ page'.found /\ Faithful(page)',
           vault' \in Vault \cup {Absent}, life' \in Nat, writes' \in Nat
    PROVE  IInv'
<1>1. TypeOK'
  BY DEF IInv, TypeOK, Finish, Activities, Goals
<1>2. MemoryInv'
  BY NoneAssumption DEF IInv, TypeOK, MemoryInv, Finish, Request
<1>3. ControlInv'
  BY DEF IInv, TypeOK, ControlInv, Finish
<1>4. QED
  BY <1>1, <1>2, <1>3 DEF IInv

\* A process that remembers a version it has read or written.
LEMMA HoldKeeps ==
    ASSUME IInv, NEW p \in Procs, NEW activity, NEW version \in Version,
           Hold(p, activity, version), UNCHANGED browser,
           \A v \in Version : Faithful(v) => Faithful(v)',
           Faithful(version)',
           \/ activity = "creating" /\ ~version.found /\ goal[p] # "save"
           \/ activity \in {"normalizing", "editing"} /\ version.found,
           goal[p] = "save" =>
             /\ pc[p] # "idle"
             /\ activity = "editing" =>
                  version.revision = request[p].shown.revision,
           vault' \in Vault \cup {Absent}, life' \in Nat, writes' \in Nat
    PROVE  IInv'
<1>1. TypeOK'
  BY DEF IInv, TypeOK, Hold, Activities, browser
<1>2. MemoryInv'
  BY NoneAssumption DEF IInv, TypeOK, MemoryInv, Hold, browser, Request
<1>3. ControlInv'
  BY NoneAssumption DEF IInv, TypeOK, ControlInv, Hold
<1>4. QED
  BY <1>1, <1>2, <1>3 DEF IInv

LEMMA LoadedKeeps ==
    ASSUME IInv, NEW p \in Procs, NEW version \in Version,
           Loaded(p, version), UNCHANGED browser, pc[p] # "idle",
           \A v \in Version : Faithful(v) => Faithful(v)',
           version.found, Faithful(version)',
           vault' \in Vault \cup {Absent}, life' \in Nat, writes' \in Nat
    PROVE  IInv'
<1>1. CASE goal[p] = "init" \/ SaveConflict(p, version)
  BY <1>1, FinishKeeps DEF Loaded, browser
<1>2. CASE ~(goal[p] = "init" \/ SaveConflict(p, version))
  <2>1. /\ Hold(p, "editing", version)
        /\ goal[p] = "save" => version.revision = request[p].shown.revision
    BY <1>2 DEF Loaded, SaveConflict
  <2>2. QED
    BY <2>1, HoldKeeps
<1>3. QED
  BY <1>1, <1>2

LEMMA InitIInv == Init => IInv
<1> SUFFICES ASSUME Init PROVE IInv
  OBVIOUS
<1>1. TypeOK
  <2>1. vault \in Vault \cup {Absent}
    BY DEF Init, Vault
  <2>2. QED
    BY <2>1 DEF Init, TypeOK, Activities, Goals
<1>2. MemoryInv /\ ControlInv
  BY DEF Init, MemoryInv, ControlInv
<1>3. QED
  BY <1>1, <1>2 DEF IInv

LEMMA LoadStoreStep ==
    ASSUME IInv, NEW p \in Procs, load_store(p) PROVE IInv'
<1>1. /\ pc[p] = "loading" /\ UNCHANGED <<vault, life, browser, writes>>
      /\ vault' \in Vault \cup {Absent} /\ life' \in Nat /\ writes' \in Nat
  BY DEF load_store, IInv, TypeOK
<1>2. \A v : Faithful(v) => Faithful(v)'
  BY <1>1, QuietKeepsFaithful
<1>3. TypeOK
  BY DEF IInv
<1>4. CASE vault = Absent
  <2>1. CASE goal[p] \in {"init", "set"}
    <3>1. PICK read \in Version :
            read = blank_store /\ ~read.found /\ Faithful(read)
      BY <1>3, <1>4, ReadIsFaithful
    <3>2. Hold(p, "creating", read) /\ goal[p] # "save"
      BY <1>4, <2>1, <3>1 DEF load_store
    <3>3. QED
      BY <1>1, <1>2, <3>1, <3>2, HoldKeeps
  <2>2. CASE goal[p] \notin {"init", "set"}
    BY <1>1, <1>2, <1>4, <2>2, FinishKeeps DEF load_store, browser
  <2>3. QED
    BY <2>1, <2>2
<1>5. CASE vault # Absent
  <2>1. PICK read \in Version : read = InPlace /\ read.found /\ Faithful(read)
    BY <1>3, <1>5, ReadIsFaithful
  <2>2. CASE vault.legacy
    <3>1. Hold(p, "normalizing", read) /\ (goal[p] = "save" => pc[p] # "idle")
      BY <1>1, <1>5, <2>1, <2>2 DEF load_store
    <3>2. QED
      BY <1>1, <1>2, <2>1, <3>1, HoldKeeps
  <2>3. CASE ~vault.legacy
    <3>1. Loaded(p, read)
      BY <1>5, <2>1, <2>3 DEF load_store
    <3>2. QED
      BY <1>1, <1>2, <2>1, <3>1, LoadedKeeps
  <2>4. QED
    BY <2>2, <2>3
<1>6. QED
  BY <1>4, <1>5

\* Every write of the vault, whoever makes it.
LEMMA WriteStep ==
    ASSUME IInv, NEW p \in Procs, NEW fields \in Fields,
           NEW protection \in Protections,
           write_store(p, fields, protection), UNCHANGED life
    PROVE  \A v \in Version : Faithful(v) => Faithful(v)'
  BY WrittenVault, WriteKeepsFaithful DEF IInv

LEMMA LoadWritesStep ==
    ASSUME IInv, NEW p \in Procs, LoadWrites(p) PROVE IInv'
<1>1. /\ pc[p] \in {"creating", "normalizing"} /\ UNCHANGED <<life, browser>>
      /\ life \in Nat /\ writes \in Nat /\ vault \in Vault \cup {Absent}
      /\ TypeOK
  BY DEF LoadWrites, IInv, TypeOK
<1>2. store[p] \in Version
  BY <1>1 DEF IInv, TypeOK, ControlInv
<1> DEFINE protection == IF pc[p] = "creating" THEN storage_protection
                         ELSE store[p].protection
           written == [revision |-> current_revision + 1,
                       fields |-> store[p].fields, protection |-> protection,
                       life |-> life, found |-> TRUE]
<1>3. store[p].fields \in Fields /\ protection \in Protections
  BY <1>1, <1>2, ProtectionInPlace DEF Version
<1>4. CASE Conflict(p)
  <2>1. \A v : Faithful(v) => Faithful(v)'
    BY <1>1, <1>4, QuietKeepsFaithful DEF Conflict
  <2>2. QED
    BY <1>1, <1>4, <2>1, FinishKeeps DEF Conflict, browser
<1>5. CASE write_store(p, store[p].fields, protection) /\ Loaded(p, written)
  <2>1. /\ vault' \in Vault /\ vault' # Absent
        /\ vault'.revision = current_revision + 1
        /\ vault'.fields = store[p].fields /\ vault'.protection = protection
        /\ current_revision \in Nat /\ writes' \in Nat
    BY <1>1, <1>3, <1>5, WrittenVault
  <2>2. PICK read \in Version : read = written
    <3>1. current_revision + 1 \in Nat
      BY <2>1
    <3> HIDE DEF protection
    <3>2. written \in Version
      BY <1>1, <1>3, <3>1 DEF Version
    <3>3. QED
      BY <3>2
  <2>3. read.found /\ Faithful(read)'
    BY <1>1, <2>1, <2>2 DEF Faithful, Agrees
  <2>4. \A v \in Version : Faithful(v) => Faithful(v)'
    BY <1>1, <1>3, <1>5, WriteStep
  <2>5. Loaded(p, read) /\ pc[p] # "idle"
    BY <1>1, <1>5, <2>2
  <2>6. QED
    BY <1>1, <2>1, <2>3, <2>4, <2>5, LoadedKeeps
<1>6. QED
  BY <1>4, <1>5 DEF LoadWrites

LEMMA EditedTypes ==
    ASSUME IInv, NEW p \in Procs, pc[p] = "editing"
    PROVE  /\ Edited(p) \subseteq Fields
           /\ EditedProtection(p) \in Protections
<1>1. TypeOK /\ store[p] \in Version /\ store[p].fields \in Fields
  BY DEF IInv, TypeOK, ControlInv, Version
<1>2. EditedProtection(p) \in Protections
  BY <1>1, ProtectionInPlace DEF EditedProtection, Protections
<1>3. CASE goal[p] = "set"
  <2>1. Edited(p) = {[store[p].fields EXCEPT ![k] = v] :
                       k \in Keys, v \in Values}
    BY <1>3 DEF Edited
  <2>2. \A k \in Keys, v \in Values :
          [store[p].fields EXCEPT ![k] = v] \in Fields
    BY <1>1 DEF Fields
  <2>3. QED
    BY <1>2, <2>1, <2>2
<1>4. CASE goal[p] = "unset"
  <2>1. Edited(p) = {[store[p].fields EXCEPT ![k] = Empty] : k \in Keys}
    BY <1>4 DEF Edited
  <2>2. \A k \in Keys : [store[p].fields EXCEPT ![k] = Empty] \in Fields
    BY <1>1, EmptyAssumption DEF Fields
  <2>3. QED
    BY <1>2, <2>1, <2>2
<1>5. CASE goal[p] = "save"
  <2>1. request[p] \in Request
    BY <1>5 DEF IInv, TypeOK, ControlInv
  <2>2. request[p].incoming \in [Keys -> Values]
    BY <2>1 DEF Request, Fields
  <2>3. Edited(p) = {[k \in Keys |-> IF k \in request[p].edited
                                     THEN request[p].incoming[k]
                                     ELSE store[p].fields[k]]}
    BY <1>5 DEF Edited
  <2>4. QED
    BY <1>1, <1>2, <2>2, <2>3 DEF Fields
<1>6. CASE goal[p] \notin {"set", "unset", "save"}
  <2>1. Edited(p) = {store[p].fields}
    BY <1>6 DEF Edited
  <2>2. QED
    BY <1>1, <1>2, <2>1
<1>7. QED
  BY <1>2, <1>3, <1>4, <1>5, <1>6

LEMMA SaveStep ==
    ASSUME IInv, NEW p \in Procs, Save(p) PROVE IInv'
<1>1. PICK fields \in Edited(p) :
        write_store(p, fields, EditedProtection(p))
  BY DEF Save
<1>2. /\ fields \in Fields /\ EditedProtection(p) \in Protections
      /\ UNCHANGED <<life, browser>> /\ Finish(p)
  BY <1>1, EditedTypes DEF Save
<1>3. vault' \in Vault /\ writes' \in Nat /\ life' \in Nat
  BY <1>1, <1>2, WrittenVault DEF IInv, TypeOK
<1>4. \A v \in Version : Faithful(v) => Faithful(v)'
  BY <1>1, <1>2, WriteStep
<1>5. QED
  BY <1>2, <1>3, <1>4, FinishKeeps DEF browser

LEMMA BrowserStep ==
    ASSUME IInv, NEW p \in Procs,
           ViewFields(p) \/ ViewProtection(p) \/ PostProfile(p)
    PROVE  IInv'
<1>1. /\ UNCHANGED <<vault, life, acknowledged, writes>>
      /\ vault' \in Vault \cup {Absent} /\ life' \in Nat /\ writes' \in Nat
      /\ TypeOK
  BY DEF ViewFields, ViewProtection, PostProfile, browser, IInv, TypeOK
<1>2. \A v : Faithful(v) => Faithful(v)'
  BY <1>1, QuietKeepsFaithful
<1>3. CASE ViewFields(p)
  <2>1. PICK read \in Version :
          read = InPlace /\ read.found /\ Faithful(read)'
    BY <1>1, <1>2, <1>3, ReadIsFaithful DEF ViewFields
  <2>2. TypeOK'
    BY <1>1, <1>3, <2>1 DEF ViewFields, TypeOK, Activities, Goals, browser
  <2>3. MemoryInv'
    BY <1>1, <1>2, <1>3, <2>1 DEF ViewFields, TypeOK, MemoryInv, IInv, browser
  <2>4. ControlInv'
    BY <1>1, <1>3, <2>1, NoneAssumption
    DEF ViewFields, TypeOK, ControlInv, IInv
  <2>5. QED
    BY <2>2, <2>3, <2>4 DEF IInv
<1>4. CASE ViewProtection(p)
  <2>1. store[p] \in Version /\ store[p].found /\ Faithful(store[p])
    BY <1>1, <1>4 DEF ViewProtection, IInv, TypeOK, ControlInv, MemoryInv
  <2>2. page' = [store[p] EXCEPT !.protection = storage_protection]
    BY <1>4 DEF ViewProtection
  <2>3. /\ page' \in Version /\ page'.found /\ page'.life = store[p].life
        /\ page'.revision = store[p].revision
        /\ page'.fields = store[p].fields
        /\ page'.protection = storage_protection
    BY <1>1, <2>1, <2>2, ProtectionInPlace DEF Version
  <2>4. Faithful(page)'
    BY <1>1, <2>1, <2>3 DEF Faithful, Agrees, storage_protection
  <2>5. QED
    BY <1>1, <1>2, <1>4, <2>3, <2>4, FinishKeeps DEF ViewProtection
<1>5. CASE PostProfile(p)
  <2>1. PICK k \in Keys, v \in Values, edited \in SUBSET Keys :
          request' = [request EXCEPT ![p] =
                        [incoming |-> [page.fields EXCEPT ![k] = v],
                         edited |-> edited, shown |-> page]]
    BY <1>5 DEF PostProfile
  <2>2. /\ page \in Version /\ page.found /\ Faithful(page)
        /\ page.protection = "plain" => acknowledged
    BY <1>1, <1>5 DEF PostProfile, IInv, TypeOK, MemoryInv
  <2> DEFINE asked == [incoming |-> [page.fields EXCEPT ![k] = v],
                       edited |-> edited, shown |-> page]
  <2>3. asked \in Request /\ asked.shown = page
    BY <2>2 DEF Request, Version, Fields
  <2>4. request' = [request EXCEPT ![p] = asked]
    BY <2>1
  <2> HIDE DEF asked
  <2>5. TypeOK'
    BY <1>1, <1>5, <2>3, <2>4
       DEF PostProfile, TypeOK, Activities, Goals, browser
  <2>6. MemoryInv'
    BY <1>1, <1>2, <1>5, <2>2, <2>3, <2>4
    DEF PostProfile, TypeOK, MemoryInv, IInv, browser
  <2>7. ControlInv'
    BY <1>1, <1>5, <2>3, <2>4, NoneAssumption
    DEF PostProfile, TypeOK, ControlInv, IInv
  <2>8. QED
    BY <2>5, <2>6, <2>7 DEF IInv
<1>6. QED
  BY <1>3, <1>4, <1>5

LEMMA NextIInv == IInv /\ [Next]_vars => IInv'
<1> SUFFICES ASSUME IInv, [Next]_vars PROVE IInv'
  OBVIOUS
<1> USE DEF browser, memory
<1>1. ASSUME NEW p \in Procs, Invoke(p) PROVE IInv'
  <2>1. TypeOK'
    BY <1>1 DEF Invoke, IInv, TypeOK, Activities, Goals
  <2>2. MemoryInv'
    BY <1>1 DEF Invoke, IInv, MemoryInv, Faithful, Agrees
  <2>3. ControlInv'
    BY <1>1 DEF Invoke, IInv, TypeOK, ControlInv
  <2>4. QED
    BY <2>1, <2>2, <2>3 DEF IInv
<1>2. ASSUME NEW p \in Procs, SaveRefused(p) \/ Stop(p) PROVE IInv'
  <2>1. /\ Finish(p) /\ UNCHANGED <<vault, life, browser, writes>>
        /\ vault' \in Vault \cup {Absent} /\ life' \in Nat /\ writes' \in Nat
    BY <1>2 DEF SaveRefused, Stop, Conflict, IInv, TypeOK
  <2>2. QED
    BY <2>1, QuietKeepsFaithful, FinishKeeps
<1>3. ASSUME NEW p \in Procs, Step(p) PROVE IInv'
  BY <1>1, <1>2, <1>3, LoadStoreStep, LoadWritesStep, SaveStep, BrowserStep
  DEF Step
<1>4. ASSUME Acknowledge PROVE IInv'
  BY <1>4 DEF Acknowledge, IInv, TypeOK, MemoryInv, ControlInv, Faithful,
              Agrees
<1>5. ASSUME Dispose PROVE IInv'
  <2>1. TypeOK'
    BY <1>5 DEF Dispose, IInv, TypeOK
  <2>2. \A v \in Version : Faithful(v) => Faithful(v)'
    BY <1>5, DisposeKeepsFaithful DEF Dispose, IInv
  <2>3. MemoryInv'
    BY <1>5, <2>2, NoneAssumption
    DEF Dispose, IInv, TypeOK, MemoryInv, Request
  <2>4. ControlInv'
    BY <1>5 DEF Dispose, IInv, ControlInv
  <2>5. QED
    BY <2>1, <2>3, <2>4 DEF IInv
<1>6. ASSUME UNCHANGED vars PROVE IInv'
  BY <1>6 DEF vars, IInv, TypeOK, MemoryInv, ControlInv, Faithful, Agrees
<1>7. QED
  BY <1>3, <1>4, <1>5, <1>6 DEF Next

(***************************************************************************)
(* The inductive invariant is an invariant of the vault file.              *)
(***************************************************************************)
THEOREM Invariance == Spec => []IInv
  BY InitIInv, NextIInv, PTL DEF Spec

(***************************************************************************)
(* Type correctness (all variables of VaultStore).                         *)
(***************************************************************************)
THEOREM TypeCorrectness == Spec => []TypeOK
<1>1. IInv => TypeOK
  BY DEF IInv
<1>2. QED
  BY <1>1, Invariance, PTL

-----------------------------------------------------------------------------
(* The properties.                                                         *)

\* What a save was made from is what is in place.
LEMMA SaveFindsWhatWasShown ==
    ASSUME IInv, NEW p \in Procs, Save(p), SameLife(p)
    PROVE  /\ vault # Absent
           /\ vault.fields = Shown(p).fields
           /\ vault.protection = Shown(p).protection
<1>1. pc[p] = "editing" /\ RevisionHolds(p)
  BY DEF Save, write_store
<1>2. /\ Shown(p).found /\ Faithful(Shown(p))
      /\ Shown(p).revision = current_revision
  BY <1>1 DEF IInv, ControlInv, MemoryInv, Shown, RevisionHolds
<1>3. QED
  BY <1>2 DEF SameLife, Faithful, Agrees, current_revision

(***************************************************************************)
(* No lost update within a life of the vault (write_store's revision       *)
(* check, save_profile_fields' comparison with the page).                  *)
(***************************************************************************)
THEOREM NoLostUpdate == Spec => SavesBuildOnWhatWasShown
<1>1. IInv /\ [Next]_vars =>
        [\A p \in Procs : Save(p) /\ SameLife(p) =>
            vault # Absent /\ vault.fields = Shown(p).fields]_vars
  BY SaveFindsWhatWasShown
<1>2. QED
  BY <1>1, Invariance, PTL DEF Spec, SavesBuildOnWhatWasShown

(***************************************************************************)
(* Typed data is stored under the protection its user saw (write_store     *)
(* with encrypted=None, the storage checks of do_POST).                    *)
(***************************************************************************)
THEOREM ShownProtection == Spec => SavesKeepShownProtection
<1>1. IInv /\ [Next]_vars =>
        [\A p \in Procs :
            Save(p) /\ SameLife(p) /\ goal[p] \in {"set", "unset", "save"} =>
             /\ vault'.protection = Shown(p).protection
             /\ goal[p] = "save" /\ vault'.protection = "plain" =>
                    acknowledged]_vars
  <2> SUFFICES ASSUME IInv, NEW p \in Procs, Save(p), SameLife(p),
                      goal[p] \in {"set", "unset", "save"}
               PROVE  /\ vault'.protection = Shown(p).protection
                      /\ goal[p] = "save" /\ vault'.protection = "plain" =>
                            acknowledged
    OBVIOUS
  <2>1. pc[p] = "editing" /\ TypeOK
    BY DEF Save, IInv
  <2>2. PICK fields \in Fields :
          write_store(p, fields, EditedProtection(p))
    BY <2>1, EditedTypes DEF Save
  <2>3. vault'.protection = storage_protection
    BY <2>1, <2>2, EditedTypes, WrittenVault DEF EditedProtection
  <2>4. storage_protection = Shown(p).protection
    BY SaveFindsWhatWasShown DEF storage_protection
  <2>5. goal[p] = "save" => request[p] # None
    BY <2>1 DEF IInv, ControlInv
  <2>6. QED
    BY <2>3, <2>4, <2>5 DEF IInv, MemoryInv, Shown
<1>2. QED
  BY <1>1, Invariance, PTL DEF Spec, SavesKeepShownProtection

(***************************************************************************)
(* Creating and normalizing overwrite nothing (load_store).                *)
(***************************************************************************)
THEOREM QuietLoads == Spec => LoadsOverwriteNothing
<1>1. IInv /\ [Next]_vars =>
        [\A p \in Procs :
            LoadWrites(p) /\ vault' # vault /\ store[p].life = life =>
              IF store[p].found
              THEN /\ vault # Absent /\ vault.fields = vault'.fields
                   /\ vault.protection = vault'.protection
              ELSE vault = Absent]_vars
  <2> SUFFICES ASSUME IInv, NEW p \in Procs, LoadWrites(p), vault' # vault,
                      store[p].life = life
               PROVE  IF store[p].found
                      THEN /\ vault # Absent /\ vault.fields = vault'.fields
                           /\ vault.protection = vault'.protection
                      ELSE vault = Absent
    OBVIOUS
  <2> DEFINE protection == IF pc[p] = "creating" THEN storage_protection
                           ELSE store[p].protection
  <2>1. /\ pc[p] \in {"creating", "normalizing"}
        /\ write_store(p, store[p].fields, protection)
        /\ TypeOK
    BY DEF LoadWrites, Conflict, IInv
  <2>2. /\ store[p] \in Version /\ Agrees(store[p])
        /\ store[p].found <=> pc[p] = "normalizing"
    BY <2>1 DEF IInv, TypeOK, ControlInv, MemoryInv, Faithful
  <2>3. store[p].fields \in Fields /\ protection \in Protections
    BY <2>1, <2>2, ProtectionInPlace DEF Version
  <2>4. /\ vault'.fields = store[p].fields /\ vault'.protection = protection
        /\ store[p].revision = current_revision
    BY <2>1, <2>3, WrittenVault DEF write_store, RevisionHolds
  <2>5. CASE store[p].found
    BY <2>2, <2>4, <2>5 DEF Agrees, current_revision
  <2>6. CASE ~store[p].found
    BY <2>1, <2>2, <2>4, <2>6 DEF Agrees, current_revision, TypeOK, Vault
  <2>7. QED
    BY <2>5, <2>6
<1>2. QED
  BY <1>1, Invariance, PTL DEF Spec, LoadsOverwriteNothing
=============================================================================
