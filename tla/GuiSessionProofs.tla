-------------------------- MODULE GuiSessionProofs --------------------------
(***************************************************************************)
(* Proofs about the windows of the localhost GUI and their server: the     *)
(* one-time token, the confirmation of plaintext saves, and what the       *)
(* script's "saved", "unsaved" and "saving" promise.                       *)
(***************************************************************************)
EXTENDS GuiSession, FiniteSetTheorems, SequenceTheorems, TLAPS

\* A request of a kind is under way in a window.
Has(w, kind) ==
    \E s \in Slots : request[w][s] # None /\ request[w][s].kind = kind

\* The form shows the revision that its next save will name.
Clean(w) ==
    /\ page[w].revision \in 1..revision
    /\ page[w].fields = versions[page[w].revision].fields

\* What the user of a window typed last is in the vault.
Stored(w) ==
    \E i \in 2..revision : /\ versions[i].writer = w
                           /\ versions[i].fields = typed[w]

(***************************************************************************)
(* The lock makes the test and the use of the token one step: as long as   *)
(* a window is between the two, it holds the lock and nobody has a cookie. *)
(***************************************************************************)
SessionInv ==
    /\ \A w \in Windows :
         stage[w] = "exchanging" =>
           gui_session_lock = w /\ ~gui_bootstrap_used
    /\ ~gui_bootstrap_used => sessions = {}
    /\ sessions = {} \/ \E w \in Windows : sessions = {w}

(***************************************************************************)
(* A form and a request name revisions that have been in place, a view     *)
(* carries the fields of the revision it names, and a save has contents    *)
(* when it has a context.                                                  *)
(***************************************************************************)
FormOK(w) ==
    /\ page[w].context # None => page[w].fields # None
    /\ page[w].revision <= revision

RequestOK(r) ==
    /\ r.revision <= revision
    /\ r.kind = "save" => /\ r.context # None => r.fields # None
                          /\ r.status # "sent" => r.context # None
    /\ r.kind = "view" /\ r.status # "sent" =>
         r.revision >= 1 /\ r.fields = versions[r.revision].fields
    /\ r.kind = "view" /\ r.status = "answered" => r.context # None

(***************************************************************************)
(* Every acknowledgement goes back to the user of its window: one that the *)
(* page holds, one under way, and one that let a save of plaintext go out. *)
(* A save that has passed its check was checked against the vault that is  *)
(* in place, or its revision is no longer the one in place.                *)
(***************************************************************************)
AgreedTo(w, r) ==
    /\ r.kind = "acknowledge" => w \in confirmed
    /\ r.kind = "save" /\ r.context = "plain-json" => w \in confirmed
    /\ r.kind = "save" /\ r.status = "handling" /\ r.revision = revision =>
         r.context = vault.protection

RequestsOK(w) ==
    /\ page[w].acknowledged # None => w \in confirmed
    /\ \A s \in Slots : request[w][s] # None =>
         RequestOK(request[w][s]) /\ AgreedTo(w, request[w][s])

(***************************************************************************)
(* Why "saved" is true where nothing was typed during a request.  The form *)
(* is clean, or a view that makes it so is under way, or the confirmation  *)
(* that replaces the message; and before the panels are asked for the form *)
(* has been made clean.                                                    *)
(***************************************************************************)
ShownOK(w) ==
    w \notin hasty =>
      /\ Has(w, "panels") => Clean(w)
      /\ page[w].message = "saved" =>
           Clean(w) \/ Has(w, "view") \/ Has(w, "acknowledge")

(***************************************************************************)
(* What was typed last is stored, or it is in the form still, every save   *)
(* under way carries it, and nothing is that would replace the form.       *)
(***************************************************************************)
Kept(w) ==
    /\ page[w].fields = typed[w]
    /\ page[w].message # "saved"
    /\ \A s \in Slots : request[w][s] # None =>
         /\ request[w][s].kind \in {"save", "acknowledge"}
         /\ request[w][s].kind = "save" =>
              /\ request[w][s].fields = typed[w]
              /\ request[w][s].status # "answered"

TypedOK(w) ==
    typed[w] # None => /\ w \notin hasty /\ stage[w] = "open"
                       /\ Stored(w) \/ Kept(w)

\* EditsAreNotForgotten, of one window.
PromiseOK(w) ==
    /\ page[w].message = "unsaved" => page[w].timer \/ ~Quiet(w)
    /\ page[w].message = "saving" => ~Quiet(w)

WindowOK(w) ==
    /\ FormOK(w)
    /\ RequestsOK(w)
    /\ ShownOK(w)
    /\ TypedOK(w)
    /\ PromiseOK(w)

IInv ==
    /\ TypeOK
    /\ SessionInv
    /\ PlaintextSavesWereConfirmed
    /\ \A w \in Windows : WindowOK(w)

-----------------------------------------------------------------------------
(* What the operators of the model do.                                     *)

\* A new version leaves the others at their revisions.
LEMMA NewVersion ==
    ASSUME TypeOK, NEW v \in Version, versions' = Append(versions, v)
    PROVE  /\ versions' \in Seq(Version) /\ versions' # <<>>
           /\ revision \in Nat /\ revision >= 1
           /\ revision' = revision + 1
           /\ \A i \in 1..revision : versions'[i] = versions[i]
           /\ versions'[revision + 1] = v
           /\ vault' = v
<1>1. versions \in Seq(Version) /\ Len(versions) \in Nat /\ versions # <<>>
  BY DEF TypeOK
<1>2. Len(versions) >= 1
  BY <1>1, EmptySeq
<1>3. /\ Append(versions, v) \in Seq(Version)
      /\ Len(Append(versions, v)) = Len(versions) + 1
      /\ \A i \in 1..Len(versions) : Append(versions, v)[i] = versions[i]
      /\ Append(versions, v)[Len(versions) + 1] = v
  BY <1>1, AppendProperties
<1> QED
  BY <1>1, <1>2, <1>3 DEF revision, vault

\* The vault exists: there is a version in place.
LEMMA VaultThere ==
    ASSUME TypeOK
    PROVE  /\ revision \in Nat /\ revision >= 1
           /\ \A i \in 1..revision : versions[i] \in Version
           /\ vault \in Version
<1>1. versions \in Seq(Version) /\ Len(versions) \in Nat /\ versions # <<>>
  BY DEF TypeOK
<1>2. Len(versions) >= 1
  BY <1>1, EmptySeq
<1> QED
  BY <1>1, <1>2, ElementOfSeq DEF revision, vault

\* Sending a request fills one slot of one window.
LEMMA SendEffect ==
    ASSUME TypeOK, NEW w \in Windows, NEW s \in Slots,
           NEW r \in Request \cup {None}, Send(w, s, r)
    PROVE  /\ request' \in [Windows -> [Slots -> Request \cup {None}]]
           /\ request'[w][s] = r
           /\ \A t \in Slots \ {s} : request'[w][t] = request[w][t]
           /\ \A x \in Windows \ {w} : request'[x] = request[x]
  BY DEF TypeOK, Send

\* Showing a page leaves the other windows alone.
LEMMA ShowEffect ==
    ASSUME TypeOK, NEW w \in Windows, NEW pg \in Page, Show(w, pg)
    PROVE  /\ page' \in [Windows -> Page]
           /\ page'[w] = pg
           /\ \A x \in Windows \ {w} : page'[x] = page[x]
  BY DEF TypeOK, Show

LEMMA NewRequestType ==
    ASSUME NEW kind \in Kinds, NEW by_timer \in BOOLEAN, NEW pg \in Page
    PROVE  /\ NewRequest(kind, by_timer, pg) \in Request
           /\ NewRequest(kind, by_timer, pg) # None
           /\ NewRequest(kind, by_timer, pg).kind = kind
           /\ NewRequest(kind, by_timer, pg).status = "sent"
<1>1. NewRequest(kind, by_timer, pg) \in Request
  BY DEF NewRequest, Request, Page
<1> QED
  BY <1>1, NoneAssumption DEF NewRequest

-----------------------------------------------------------------------------
(* Steps that leave a window alone.                                        *)

\* The vault has gained a version or is as it was.
Grown == versions' = versions \/ \E v \in Version : versions' = Append(versions, v)

LEMMA GrownEffect ==
    ASSUME TypeOK, Grown
    PROVE  /\ revision \in Nat /\ revision >= 1
           /\ revision' \in Nat /\ revision' >= revision
           /\ \A i \in 1..revision : versions'[i] = versions[i]
           /\ revision' = revision => versions' = versions
<1>1. CASE versions' = versions
  BY <1>1, VaultThere DEF revision
<1>2. ASSUME NEW v \in Version, versions' = Append(versions, v)
      PROVE  /\ revision' = revision + 1
             /\ \A i \in 1..revision : versions'[i] = versions[i]
  BY <1>2, NewVersion
<1> QED
  BY <1>1, <1>2, VaultThere DEF Grown

\* A request that a step leaves alone keeps what holds of it.
LEMMA RequestStays ==
    ASSUME TypeOK, NEW w \in Windows, NEW s \in Slots, RequestsOK(w),
           Grown, confirmed \subseteq confirmed',
           request'[w][s] = request[w][s], request[w][s] # None
    PROVE  RequestOK(request[w][s])' /\ AgreedTo(w, request[w][s])'
<1>1. /\ revision \in Nat /\ revision >= 1
      /\ revision' \in Nat /\ revision' >= revision
      /\ \A i \in 1..revision : versions'[i] = versions[i]
      /\ revision' = revision => versions' = versions
  BY GrownEffect
<1>2. request[w][s] \in Request /\ request[w][s].revision \in Nat
  BY DEF TypeOK, Request
<1>3. RequestOK(request[w][s]) /\ AgreedTo(w, request[w][s])
  BY DEF RequestsOK
<1>4. RequestOK(request[w][s])'
  BY <1>1, <1>2, <1>3 DEF RequestOK
<1>5. request'[w][s].revision = revision' =>
        request[w][s].revision = revision /\ vault' = vault
  BY <1>1, <1>2, <1>3 DEF RequestOK, vault
<1>6. AgreedTo(w, request[w][s])'
  BY <1>3, <1>5 DEF AgreedTo
<1> QED
  BY <1>4, <1>6

(***************************************************************************)
(* A window whose page and requests a step leaves alone stays as good as   *)
(* it was: versions stay in place, and users only agree.                   *)
(***************************************************************************)
LEMMA OthersStayOK ==
    ASSUME TypeOK, NEW x \in Windows, WindowOK(x), Grown,
           confirmed \subseteq confirmed',
           page'[x] = page[x], request'[x] = request[x],
           typed'[x] = typed[x], x \in hasty' <=> x \in hasty,
           stage[x] = "open" => stage'[x] = "open"
    PROVE  WindowOK(x)'
<1>0. /\ revision \in Nat /\ revision >= 1
      /\ revision' \in Nat /\ revision' >= revision
      /\ \A i \in 1..revision : versions'[i] = versions[i]
      /\ revision' = revision => versions' = versions
  BY GrownEffect
<1>1. page[x] \in Page /\ page[x].revision \in Nat
  BY DEF TypeOK, Page
<1>3. FormOK(x)'
  BY <1>0, <1>1 DEF WindowOK, FormOK
<1>4. RequestsOK(x)'
  <2>1. ASSUME NEW s \in Slots, request'[x][s] # None
        PROVE  RequestOK(request[x][s])' /\ AgreedTo(x, request[x][s])'
    BY <2>1, RequestStays DEF WindowOK
  <2> QED
    BY <2>1 DEF WindowOK, RequestsOK
<1>5. Clean(x) => Clean(x)'
  BY <1>0, <1>1 DEF Clean
<1>6. Stored(x) => Stored(x)'
  BY <1>0 DEF Stored
<1>7. ShownOK(x)'
  BY <1>5 DEF WindowOK, ShownOK, Has
<1>8. TypedOK(x)'
  BY <1>6 DEF WindowOK, TypedOK, Kept
<1>9. PromiseOK(x)'
  BY DEF WindowOK, PromiseOK, Quiet
<1> QED
  BY <1>3, <1>4, <1>7, <1>8, <1>9 DEF WindowOK

(***************************************************************************)
(* A step of one window that adds no version keeps the invariant when it   *)
(* keeps what the invariant says of that window: users only ever agree.    *)
(***************************************************************************)
LEMMA OneWindow ==
    ASSUME IInv, NEW w \in Windows, TypeOK', WindowOK(w)',
           UNCHANGED <<versions, gui_session_lock, gui_bootstrap_used, sessions>>,
           confirmed \subseteq confirmed',
           \A x \in Windows :
               /\ stage'[x] = "exchanging" => stage[x] = "exchanging"
               /\ stage[x] = "open" => stage'[x] = "open",
           \A x \in Windows \ {w} :
               /\ page'[x] = page[x] /\ request'[x] = request[x]
               /\ typed'[x] = typed[x] /\ (x \in hasty' <=> x \in hasty)
    PROVE  IInv'
<1>1. SessionInv'
  BY DEF IInv, SessionInv
<1>2. PlaintextSavesWereConfirmed'
  BY DEF IInv, PlaintextSavesWereConfirmed, revision
<1>3. ASSUME NEW x \in Windows PROVE WindowOK(x)'
  <2>1. CASE x = w
    BY <2>1
  <2>2. CASE x # w
    BY <2>2, OthersStayOK DEF IInv, Grown
  <2> QED
    BY <2>1, <2>2
<1> QED
  BY <1>1, <1>2, <1>3 DEF IInv

-----------------------------------------------------------------------------
(* Starting requests.                                                      *)

LEMMA SendSaveEffect ==
    ASSUME TypeOK, NEW w \in Windows, NEW s \in Slots, NEW by_timer \in BOOLEAN,
           SendSave(w, s, by_timer)
    PROVE  /\ page' \in [Windows -> Page]
           /\ page'[w] = [page[w] EXCEPT !.timer = FALSE,
                            !.message = page'[w].message]
           /\ \A x \in Windows \ {w} : page'[x] = page[x]
           /\ request' \in [Windows -> [Slots -> Request \cup {None}]]
           /\ \A t \in Slots \ {s} : request'[w][t] = request[w][t]
           /\ \A x \in Windows \ {w} : request'[x] = request[x]
           /\ \/ /\ page'[w].message = "confirmation needed"
                 /\ request'[w][s] = None
              \/ /\ page'[w].message = "saving"
                 /\ ~requiresPlaintextAcknowledgement(page[w])
                 /\ request'[w][s] = NewRequest("save", by_timer, page[w])
<1> DEFINE waits == [page[w] EXCEPT !.timer = FALSE,
                                    !.message = "confirmation needed"]
           saves == [page[w] EXCEPT !.timer = FALSE, !.message = "saving"]
           new == NewRequest("save", by_timer, page[w])
<1>1. page[w] \in Page /\ waits \in Page /\ saves \in Page
  BY DEF TypeOK, Page, Messages
<1>2. new \in Request
  BY <1>1, NewRequestType DEF Kinds
<1>3. CASE requiresPlaintextAcknowledgement(page[w])
  <2>1. Show(w, waits) /\ Send(w, s, None)
    BY <1>3 DEF SendSave
  <2>2. page'[w] = waits /\ page' \in [Windows -> Page]
        /\ \A x \in Windows \ {w} : page'[x] = page[x]
    BY <2>1, <1>1, ShowEffect
  <2>3. waits.message = "confirmation needed"
    BY <1>1 DEF Page
  <2> QED
    BY <2>1, <2>2, <2>3, SendEffect
<1>4. CASE ~requiresPlaintextAcknowledgement(page[w])
  <2>1. Show(w, saves) /\ Send(w, s, new)
    BY <1>4 DEF SendSave
  <2>2. page'[w] = saves /\ page' \in [Windows -> Page]
        /\ \A x \in Windows \ {w} : page'[x] = page[x]
    BY <2>1, <1>1, ShowEffect
  <2>3. saves.message = "saving"
    BY <1>1 DEF Page
  <2> QED
    BY <2>1, <2>2, <2>3, <1>2, <1>4, SendEffect
<1> QED
  BY <1>3, <1>4

(***************************************************************************)
(* A save that goes out carries the form, and plaintext goes out only with *)
(* an acknowledgement; so the window stays as good as it was.              *)
(***************************************************************************)
LEMMA SendSaveKeepsWindow ==
    ASSUME TypeOK, NEW w \in Windows, WindowOK(w), NEW s \in Slots,
           request[w][s] = None, NEW by_timer \in BOOLEAN,
           SendSave(w, s, by_timer), Calm(w),
           UNCHANGED <<versions, stage, typed, confirmed>>
    PROVE  WindowOK(w)'
<1> DEFINE new == NewRequest("save", by_timer, page[w])
<1>0. page[w] \in Page /\ new \in Request /\ new # None
  BY NewRequestType DEF TypeOK, Kinds
<1>1. /\ page'[w].fields = page[w].fields
      /\ page'[w].revision = page[w].revision
      /\ page'[w].context = page[w].context
      /\ page'[w].acknowledged = page[w].acknowledged
      /\ page'[w].message # "saved" /\ page'[w].message # "unsaved"
      /\ page'[w].message = "saving" => request'[w][s] = new
      /\ \A t \in Slots : \/ request'[w][t] = request[w][t]
                          \/ t = s /\ request'[w][t] = new
      /\ request'[w][s] # None => ~requiresPlaintextAcknowledgement(page[w])
      /\ request'[w][s] # None => request'[w][s] = new
  <2>1. page'[w] = [page[w] EXCEPT !.timer = FALSE, !.message = page'[w].message]
    BY SendSaveEffect
  <2>2. /\ page'[w].fields = page[w].fields
        /\ page'[w].revision = page[w].revision
        /\ page'[w].context = page[w].context
        /\ page'[w].acknowledged = page[w].acknowledged
    BY <2>1, <1>0 DEF Page
  <2>3. /\ \A t \in Slots \ {s} : request'[w][t] = request[w][t]
        /\ \/ /\ page'[w].message = "confirmation needed"
              /\ request'[w][s] = None
           \/ /\ page'[w].message = "saving"
              /\ ~requiresPlaintextAcknowledgement(page[w])
              /\ request'[w][s] = new
    BY SendSaveEffect
  <2>4. page'[w].message \in {"confirmation needed", "saving"}
    BY <2>3
  <2>5. \A t \in Slots : \/ request'[w][t] = request[w][t]
                         \/ t = s /\ request'[w][t] = new
    BY <2>3
  <2> HIDE DEF new
  <2> QED
    BY <2>2, <2>3, <2>4, <2>5
<1>2. /\ new.kind = "save" /\ new.status = "sent"
      /\ new.fields = page[w].fields /\ new.revision = page[w].revision
      /\ new.context = page[w].context
  BY DEF NewRequest
<1>3. revision' = revision /\ vault' = vault
  BY DEF revision, vault
<1>4. FormOK(w)'
  BY <1>1, <1>3 DEF WindowOK, FormOK
<1>5. RequestsOK(w)'
  <2>1. page'[w].acknowledged # None => w \in confirmed'
    BY <1>1 DEF WindowOK, RequestsOK
  <2>2. ASSUME NEW t \in Slots, request'[w][t] # None
        PROVE  RequestOK(request[w][t])' /\ AgreedTo(w, request[w][t])'
    <3>1. CASE request'[w][t] = request[w][t]
      BY <3>1, <2>2, <1>3 DEF WindowOK, RequestsOK, RequestOK, AgreedTo
    <3>2. CASE t = s /\ request'[w][t] = new
      <4>1. RequestOK(request[w][t])'
        BY <3>2, <1>2, <1>3 DEF RequestOK, WindowOK, FormOK
      <4>2. new.context = "plain-json" => w \in confirmed
        BY <1>1, <1>2, <2>2, <3>2, NoneAssumption
           DEF requiresPlaintextAcknowledgement, WindowOK, RequestsOK, Contexts
      <4> QED
        BY <3>2, <4>1, <4>2, <1>2 DEF AgreedTo
    <3> QED
      BY <3>1, <3>2, <1>1
  <2> QED
    BY <2>1, <2>2 DEF RequestsOK
<1>6. ShownOK(w)'
  <2>1. ASSUME w \notin hasty', Has(w, "panels")' PROVE Clean(w)'
    <3>1. PICK t \in Slots : request'[w][t] # None /\ request'[w][t].kind = "panels"
      BY <2>1 DEF Has
    <3>2. request[w][t] = request'[w][t]
      BY <3>1, <1>1, <1>2
    <3>3. Has(w, "panels") /\ ~Quiet(w)
      BY <3>1, <3>2 DEF Has, Quiet
    <3> QED
      BY <3>3, <2>1, <1>1 DEF Calm, WindowOK, ShownOK, Clean, revision
  <2> QED
    BY <2>1, <1>1 DEF ShownOK
<1>7. TypedOK(w)'
  <2> SUFFICES ASSUME typed'[w] # None
               PROVE  w \notin hasty' /\ stage'[w] = "open"
                      /\ (Stored(w)' \/ Kept(w)')
    BY DEF TypedOK
  <2>1. w \notin hasty /\ stage[w] = "open" /\ (Stored(w) \/ Kept(w))
    BY DEF WindowOK, TypedOK
  <2>2. w \notin hasty'
    BY <2>1 DEF Calm
  <2>3. Stored(w) => Stored(w)'
    BY DEF Stored, revision
  <2>4. Kept(w) => Kept(w)'
    BY <1>1, <1>2 DEF Kept
  <2> QED
    BY <2>1, <2>2, <2>3, <2>4
<1>8. PromiseOK(w)'
  BY <1>0, <1>1 DEF PromiseOK, Quiet
<1> QED
  BY <1>4, <1>5, <1>6, <1>7, <1>8 DEF WindowOK

\* Nothing but time separates what a timer does from what a click does.
LEMMA TimerKeepsIInv ==
    ASSUME IInv, NEW w \in Windows, Timer(w)
    PROVE  IInv'
<1>1. PICK s \in Free(w) : SendSave(w, s, TRUE)
  BY DEF Timer
<1>2. s \in Slots /\ request[w][s] = None
  BY DEF Free
<1>3. TypeOK'
  BY <1>1, <1>2, SendSaveEffect DEF IInv, TypeOK, Timer, session, Calm
<1>4. WindowOK(w)'
  BY <1>1, <1>2, SendSaveKeepsWindow DEF IInv, Timer
<1> QED
  BY <1>1, <1>2, <1>3, <1>4, SendSaveEffect, OneWindow
     DEF IInv, Timer, session, Calm

(***************************************************************************)
(* Typing when nothing is under way leaves the text in the form with no    *)
(* request that could replace it; typing at any other time is hasty, and   *)
(* nothing is promised of that text.                                       *)
(***************************************************************************)
LEMMA InputKeepsIInv ==
    ASSUME IInv, NEW w \in Windows, Input(w)
    PROVE  IInv'
<1> DEFINE pg == Edited(w, acts')
<1>1. acts' \in Nat /\ page[w] \in Page /\ stage[w] = "open"
  BY DEF IInv, TypeOK, Input, Act
<1>2. pg \in Page /\ Show(w, pg)
  BY <1>1 DEF Edited, Page, Messages, Texts, Input
<1>3. /\ pg.fields = acts' /\ pg.revision = page[w].revision
      /\ pg.context = page[w].context
      /\ pg.acknowledged = page[w].acknowledged
      /\ pg.message \in {"confirmation needed", "unsaved"}
      /\ pg.message = "unsaved" => pg.timer
  BY <1>1 DEF Edited, Page
<1>4. page' \in [Windows -> Page] /\ page'[w] = pg
      /\ \A x \in Windows \ {w} : page'[x] = page[x]
  BY <1>2, ShowEffect DEF IInv
<1> HIDE DEF pg
<1>5. TypeOK'
  BY <1>1, <1>4 DEF IInv, TypeOK, Input, session, Texts
<1>6. revision' = revision /\ vault' = vault /\ request' = request
  BY DEF revision, vault, Input
<1>7. FormOK(w)'
  BY <1>1, <1>3, <1>4, <1>6, NoneAssumption DEF FormOK, IInv, WindowOK, Texts
<1>8. RequestsOK(w)'
  <2>1. RequestsOK(w) /\ versions' = versions /\ confirmed' = confirmed
    BY DEF IInv, WindowOK, Input
  <2>2. page'[w].acknowledged # None => w \in confirmed'
    BY <2>1, <1>3, <1>4 DEF RequestsOK
  <2>3. ASSUME NEW s \in Slots, request'[w][s] # None
        PROVE  RequestOK(request[w][s])' /\ AgreedTo(w, request[w][s])'
    BY <2>1, <2>3, <1>6, RequestStays DEF IInv, Grown
  <2> QED
    BY <2>2, <2>3 DEF RequestsOK
<1>9. ShownOK(w)'
  BY <1>3, <1>4, <1>6 DEF ShownOK, Has, Quiet, Input
<1>10. typed'[w] = IF Quiet(w) THEN acts' ELSE None
  BY DEF IInv, TypeOK, Input
<1>11. TypedOK(w)'
  <2>1. CASE Quiet(w)
    <3>1. Kept(w)'
      BY <2>1, <1>3, <1>4, <1>6, <1>10 DEF Kept, Quiet
    <3> QED
      BY <2>1, <3>1, <1>1 DEF TypedOK, Input
  <2>2. CASE ~Quiet(w)
    BY <2>2, <1>10 DEF TypedOK
  <2> QED
    BY <2>1, <2>2
<1>12. PromiseOK(w)'
  BY <1>3, <1>4 DEF PromiseOK
<1>13. WindowOK(w)'
  BY <1>7, <1>8, <1>9, <1>11, <1>12 DEF WindowOK
<1>14. \A x \in Windows \ {w} : typed'[x] = typed[x] /\ (x \in hasty' <=> x \in hasty)
  BY DEF IInv, TypeOK, Input
<1> QED
  BY <1>4, <1>5, <1>13, <1>14, OneWindow DEF Input, session, Quiet

(***************************************************************************)
(* Loading is asked for by the page load and the reload button, for a user *)
(* who has typed nothing yet or gives up what he typed.                    *)
(***************************************************************************)
LEMMA AskViewKeepsIInv ==
    ASSUME IInv, NEW w \in Windows, NEW s \in Free(w), TypeOK',
           Send(w, s, NewRequest("view", FALSE, page[w])),
           typed'[w] = None, hasty' \in {hasty, IF Quiet(w) THEN hasty \ {w} ELSE hasty},
           \A x \in Windows \ {w} : typed'[x] = typed[x],
           \A x \in Windows :
               /\ stage'[x] = "exchanging" => stage[x] = "exchanging"
               /\ stage[x] = "open" => stage'[x] = "open",
           UNCHANGED <<versions, session, page, confirmed>>
    PROVE  IInv'
<1> DEFINE new == NewRequest("view", FALSE, page[w])
<1>0. s \in Slots /\ request[w][s] = None /\ page[w] \in Page
  BY DEF Free, IInv, TypeOK
<1>1. /\ new \in Request /\ new # None /\ new.kind = "view"
      /\ new.status = "sent" /\ new.revision = 0
  BY <1>0, NewRequestType DEF Kinds, NewRequest
<1>2. /\ request'[w][s] = new
      /\ \A t \in Slots \ {s} : request'[w][t] = request[w][t]
      /\ \A x \in Windows \ {w} : request'[x] = request[x]
  <2> TypeOK /\ Send(w, s, new)
    BY DEF IInv
  <2> HIDE DEF new
  <2> QED
    BY <1>0, <1>1, SendEffect
<1>3. revision' = revision /\ vault' = vault /\ revision \in Nat
  BY VaultThere DEF revision, vault, IInv
<1> HIDE DEF new
<1>4. FormOK(w)'
  BY <1>3 DEF IInv, WindowOK, FormOK
<1>5. RequestsOK(w)'
  <2>1. RequestsOK(w) /\ versions' = versions /\ confirmed' = confirmed
    BY DEF IInv, WindowOK
  <2>2. RequestOK(request[w][s])' /\ AgreedTo(w, request[w][s])'
    BY <1>1, <1>2, <1>3 DEF RequestOK, AgreedTo
  <2>3. ASSUME NEW t \in Slots \ {s}, request'[w][t] # None
        PROVE  RequestOK(request[w][t])' /\ AgreedTo(w, request[w][t])'
    BY <2>1, <2>3, <1>2, RequestStays DEF IInv, Grown
  <2> QED
    BY <2>1, <2>2, <2>3 DEF RequestsOK
<1>6. ShownOK(w)'
  <2>1. Has(w, "view")'
    BY <1>0, <1>1, <1>2 DEF Has
  <2>2. Has(w, "panels")' => Has(w, "panels") /\ ~Quiet(w)
    BY <1>0, <1>1, <1>2 DEF Has, Quiet
  <2>3. Clean(w) => Clean(w)'
    BY DEF Clean, revision
  <2> QED
    BY <2>1, <2>2, <2>3 DEF IInv, WindowOK, ShownOK
<1>7. TypedOK(w)'
  BY DEF TypedOK
<1>8. PromiseOK(w)'
  BY <1>0, <1>1, <1>2 DEF PromiseOK, Quiet
<1>9. WindowOK(w)'
  BY <1>4, <1>5, <1>6, <1>7, <1>8 DEF WindowOK
<1> QED
  BY <1>2, <1>9, OneWindow DEF session

LEMMA OpenKeepsIInv ==
    ASSUME IInv, NEW w \in Windows, Open(w)
    PROVE  IInv'
<1>1. PICK s \in Free(w) : Send(w, s, NewRequest("view", FALSE, page[w]))
  BY DEF Open
<1>2. s \in Slots /\ page[w] \in Page
  BY DEF Free, IInv, TypeOK
<1>3. NewRequest("view", FALSE, page[w]) \in Request
  BY <1>2, NewRequestType DEF Kinds
<1>4. TypeOK'
  BY <1>1, <1>2, <1>3, SendEffect DEF IInv, TypeOK, Open, session, history
<1>5. typed[w] = None
  BY DEF IInv, WindowOK, TypedOK, Open
<1>6. /\ \A x \in Windows : stage'[x] = "exchanging" => stage[x] = "exchanging"
      /\ \A x \in Windows : stage[x] = "open" => stage'[x] = "open"
  BY DEF IInv, TypeOK, Open
<1> QED
  BY <1>1, <1>4, <1>5, <1>6, AskViewKeepsIInv DEF Open, history

LEMMA ReloadClickKeepsIInv ==
    ASSUME IInv, NEW w \in Windows, ReloadClick(w)
    PROVE  IInv'
<1>1. PICK s \in Free(w) : Send(w, s, NewRequest("view", FALSE, page[w]))
  BY DEF ReloadClick
<1>2. s \in Slots /\ page[w] \in Page
  BY DEF Free, IInv, TypeOK
<1>3. NewRequest("view", FALSE, page[w]) \in Request
  BY <1>2, NewRequestType DEF Kinds
<1>4. TypeOK'
  <2>1. request' \in [Windows -> [Slots -> Request \cup {None}]]
    BY <1>1, <1>2, <1>3, SendEffect DEF IInv
  <2>2. hasty' \subseteq Windows
    BY DEF IInv, TypeOK, ReloadClick, Calm
  <2>3. typed' \in [Windows -> Texts \cup {None}] /\ acts' \in Nat
    BY DEF IInv, TypeOK, ReloadClick, Act
  <2> QED
    BY <2>1, <2>2, <2>3 DEF IInv, TypeOK, ReloadClick, session
<1>5. typed'[w] = None /\ \A x \in Windows \ {w} : typed'[x] = typed[x]
  BY DEF IInv, TypeOK, ReloadClick
<1> QED
  BY <1>1, <1>4, <1>5, AskViewKeepsIInv DEF ReloadClick, Calm

LEMMA SaveClickKeepsIInv ==
    ASSUME IInv, NEW w \in Windows, SaveClick(w)
    PROVE  IInv'
<1> DEFINE new == NewRequest("acknowledge", FALSE, page[w])
           asked == [page[w] EXCEPT !.timer = FALSE]
           refused == [page[w] EXCEPT !.message = "aborted", !.timer = FALSE]
<1>1. PICK s \in Free(w) :
        \/ SendSave(w, s, FALSE) /\ UNCHANGED confirmed
        \/ Show(w, [Said(w, "aborted") EXCEPT !.timer = FALSE])
           /\ UNCHANGED <<request, confirmed>>
        \/ /\ Show(w, asked) /\ Send(w, s, new)
           /\ confirmed' = confirmed \cup {w}
  BY DEF SaveClick
<1>2. s \in Slots /\ request[w][s] = None /\ page[w] \in Page
  BY DEF Free, IInv, TypeOK
<1>3. /\ UNCHANGED <<versions, session, stage, now, typed>> /\ acts' \in Nat
      /\ hasty' = IF Quiet(w) THEN hasty \ {w} ELSE hasty
      /\ hasty' \subseteq Windows
      /\ \A x \in Windows \ {w} : x \in hasty' <=> x \in hasty
  BY DEF SaveClick, Calm, Act, IInv, TypeOK
<1>4. revision' = revision /\ vault' = vault
      /\ (Clean(w) /\ page'[w].fields = page[w].fields
                   /\ page'[w].revision = page[w].revision => Clean(w)')
      /\ (Stored(w) => Stored(w)')
  BY <1>3 DEF revision, vault, Clean, Stored
<1>5. CASE SendSave(w, s, FALSE) /\ UNCHANGED confirmed
  <2>1. TypeOK'
    BY <1>2, <1>3, <1>5, SendSaveEffect DEF IInv, TypeOK, session
  <2>2. WindowOK(w)'
    BY <1>2, <1>3, <1>5, SendSaveKeepsWindow DEF IInv, SaveClick
  <2> QED
    BY <1>2, <1>3, <1>5, <2>1, <2>2, SendSaveEffect, OneWindow DEF IInv, session
<1>6. CASE Show(w, [Said(w, "aborted") EXCEPT !.timer = FALSE])
           /\ UNCHANGED <<request, confirmed>>
  <2>1. [Said(w, "aborted") EXCEPT !.timer = FALSE] = refused /\ refused \in Page
    BY <1>2 DEF Said, Page, Messages
  <2>2. page' \in [Windows -> Page] /\ page'[w] = refused
        /\ \A x \in Windows \ {w} : page'[x] = page[x]
    BY <1>6, <2>1, ShowEffect DEF IInv
  <2>3. /\ page'[w].fields = page[w].fields
        /\ page'[w].revision = page[w].revision
        /\ page'[w].context = page[w].context
        /\ page'[w].acknowledged = page[w].acknowledged
        /\ page'[w].message = "aborted"
    BY <2>2, <1>2 DEF Page
  <2>4. TypeOK'
    BY <1>3, <1>6, <2>2 DEF IInv, TypeOK, session
  <2>5. FormOK(w)'
    BY <2>3, <1>4 DEF IInv, WindowOK, FormOK
  <2>6. RequestsOK(w)'
    <3>1. RequestsOK(w)
      BY DEF IInv, WindowOK
    <3> QED
      BY <3>1, <1>3, <1>6, <2>3, RequestStays DEF RequestsOK, IInv, Grown
  <2>7. ShownOK(w)'
    BY <1>3, <1>4, <1>6, <2>3 DEF IInv, WindowOK, ShownOK, Has, Quiet
  <2>8. TypedOK(w)'
    BY <1>3, <1>4, <1>6, <2>3 DEF IInv, WindowOK, TypedOK, Kept
  <2>9. PromiseOK(w)'
    BY <2>3 DEF PromiseOK
  <2>10. WindowOK(w)'
    BY <2>5, <2>6, <2>7, <2>8, <2>9 DEF WindowOK
  <2> QED
    BY <1>3, <1>6, <2>2, <2>4, <2>10, OneWindow DEF session
<1>7. CASE /\ Show(w, asked) /\ Send(w, s, new)
           /\ confirmed' = confirmed \cup {w}
  <2>1. /\ new \in Request /\ new # None /\ new.kind = "acknowledge"
        /\ new.status = "sent" /\ new.revision = 0
    BY <1>2, NewRequestType DEF Kinds, NewRequest
  <2>2. /\ asked \in Page /\ asked.fields = page[w].fields
        /\ asked.revision = page[w].revision
        /\ asked.context = page[w].context /\ asked.message = page[w].message
    BY <1>2 DEF Page
  <2> HIDE DEF new, asked
  <2>3. /\ request' \in [Windows -> [Slots -> Request \cup {None}]]
        /\ request'[w][s] = new
        /\ \A t \in Slots \ {s} : request'[w][t] = request[w][t]
        /\ \A x \in Windows \ {w} : request'[x] = request[x]
    BY <1>2, <1>7, <2>1, SendEffect DEF IInv
  <2>4. page' \in [Windows -> Page] /\ page'[w] = asked
        /\ \A x \in Windows \ {w} : page'[x] = page[x]
    BY <1>7, <2>2, ShowEffect DEF IInv
  <2>5. TypeOK'
    BY <1>3, <1>7, <2>3, <2>4 DEF IInv, TypeOK, session
  <2>6. FormOK(w)'
    BY <2>2, <2>4, <1>4 DEF IInv, WindowOK, FormOK
  <2>7. RequestsOK(w)'
    <3>1. RequestsOK(w) /\ versions' = versions /\ revision \in Nat
      BY <1>3, VaultThere DEF IInv, WindowOK
    <3>2. RequestOK(request[w][s])' /\ AgreedTo(w, request[w][s])'
      BY <1>4, <1>7, <2>1, <2>3, <3>1 DEF RequestOK, AgreedTo
    <3>3. ASSUME NEW t \in Slots \ {s}, request'[w][t] # None
          PROVE  RequestOK(request[w][t])' /\ AgreedTo(w, request[w][t])'
      BY <3>1, <3>3, <1>7, <2>3, RequestStays DEF IInv, Grown
    <3> QED
      BY <1>7, <3>2, <3>3 DEF RequestsOK
  <2>8. Has(w, "acknowledge")' /\ ~Quiet(w)'
    BY <1>2, <2>1, <2>3 DEF Has, Quiet
  <2>9. ShownOK(w)'
    <3>1. Has(w, "panels")' => Has(w, "panels") /\ ~Quiet(w)
      BY <1>2, <2>1, <2>3 DEF Has, Quiet
    <3> QED
      BY <3>1, <2>8, <1>3, <1>4, <2>2, <2>4 DEF IInv, WindowOK, ShownOK
  <2>10. TypedOK(w)'
    <3>1. Kept(w) => Kept(w)'
      BY <1>3, <2>1, <2>2, <2>3, <2>4 DEF Kept
    <3> QED
      BY <3>1, <1>3, <1>4 DEF IInv, WindowOK, TypedOK
  <2>11. PromiseOK(w)'
    BY <2>8 DEF PromiseOK
  <2>12. WindowOK(w)'
    BY <2>6, <2>7, <2>9, <2>10, <2>11 DEF WindowOK
  <2> QED
    BY <1>3, <1>7, <2>3, <2>4, <2>5, <2>12, OneWindow DEF session
<1> QED
  BY <1>1, <1>5, <1>6, <1>7

-----------------------------------------------------------------------------
(* The server's threads.                                                   *)

(***************************************************************************)
(* A handler's step that adds no version: it answers one request, as the   *)
(* kind of request it is, and no save is answered without being stored.    *)
(***************************************************************************)
LEMMA AnswerKeepsIInv ==
    ASSUME IInv, NEW w \in Windows, NEW s \in Slots, NEW r \in Request,
           request[w][s] # None, Answer(w, s, r),
           r.kind = request[w][s].kind,
           RequestOK(r), AgreedTo(w, r),
           r.kind = "save" =>
               r.status # "answered" /\ r.fields = request[w][s].fields,
           UNCHANGED <<versions, gui_session_lock, gui_bootstrap_used,
                       gui_session_expires_at, sessions>>,
           plaintext_acknowledged_context' \in Contexts \cup {None}
    PROVE  IInv'
<1>0. r # None /\ UNCHANGED <<stage, page, now, acts, confirmed, typed, hasty>>
  BY NoneAssumption DEF Answer, history
<1>1. /\ request' \in [Windows -> [Slots -> Request \cup {None}]]
      /\ request'[w][s] = r
      /\ \A t \in Slots \ {s} : request'[w][t] = request[w][t]
      /\ \A x \in Windows \ {w} : request'[x] = request[x]
  BY SendEffect DEF IInv, Answer
<1>2. revision' = revision /\ vault' = vault
      /\ (Clean(w) => Clean(w)') /\ (Stored(w) => Stored(w)')
  BY <1>0 DEF revision, vault, Clean, Stored
<1>3. TypeOK'
  BY <1>0, <1>1 DEF IInv, TypeOK
<1>4. FormOK(w)'
  BY <1>0, <1>2 DEF IInv, WindowOK, FormOK
<1>5. RequestsOK(w)'
  <2>1. RequestsOK(w)
    BY DEF IInv, WindowOK
  <2>2. RequestOK(request[w][s])' /\ AgreedTo(w, request[w][s])'
    BY <1>0, <1>1, <1>2 DEF RequestOK, AgreedTo
  <2>3. ASSUME NEW t \in Slots \ {s}, request'[w][t] # None
        PROVE  RequestOK(request[w][t])' /\ AgreedTo(w, request[w][t])'
    BY <2>1, <2>3, <1>0, <1>1, RequestStays DEF IInv, Grown
  <2> QED
    BY <2>1, <2>2, <2>3, <1>0 DEF RequestsOK
<1>6. \A kind : Has(w, kind)' <=> Has(w, kind)
  BY <1>0, <1>1 DEF Has
<1>7. Quiet(w)' <=> Quiet(w)
  BY <1>0, <1>1 DEF Quiet
<1>8. ShownOK(w)'
  BY <1>0, <1>2, <1>6 DEF IInv, WindowOK, ShownOK
<1>9. TypedOK(w)'
  <2>1. Kept(w) => Kept(w)'
    BY <1>0, <1>1 DEF Kept
  <2> QED
    BY <2>1, <1>0, <1>2 DEF IInv, WindowOK, TypedOK
<1>10. PromiseOK(w)'
  BY <1>0, <1>7 DEF IInv, WindowOK, PromiseOK
<1>11. WindowOK(w)'
  BY <1>4, <1>5, <1>8, <1>9, <1>10 DEF WindowOK
<1> QED
  BY <1>0, <1>1, <1>3, <1>11, OneWindow

\* What a pending request is, and what is known of it.
LEMMA PendingRequest ==
    ASSUME IInv, NEW w \in Windows, NEW s \in Slots, NEW kind, NEW status,
           Pending(w, s, kind, status)
    PROVE  /\ request[w][s] \in Request /\ request[w][s] # None
           /\ request[w][s].kind = kind /\ request[w][s].status = status
           /\ request[w][s].revision \in Nat
           /\ RequestOK(request[w][s]) /\ AgreedTo(w, request[w][s])
<1>1. request[w][s] \in Request /\ request[w][s] # None
  BY DEF IInv, TypeOK, Pending
<1>2. request[w][s].revision \in Nat
  BY <1>1 DEF Request
<1> QED
  BY <1>1, <1>2 DEF Pending, IInv, WindowOK, RequestsOK

LEMMA ViewFieldsKeepsIInv ==
    ASSUME IInv, NEW w \in Windows, NEW s \in Slots, ViewFields(w, s)
    PROVE  IInv'
<1> DEFINE r == [request[w][s] EXCEPT !.fields = vault.fields,
                   !.revision = revision, !.status = "handling"]
<1>1. request[w][s] \in Request /\ request[w][s] # None
      /\ request[w][s].kind = "view"
  BY PendingRequest DEF ViewFields
<1>2. revision \in Nat /\ revision >= 1 /\ vault.fields \in Texts
  BY VaultThere DEF IInv, Version
<1>3. /\ r \in Request /\ r.kind = "view" /\ r.status = "handling"
      /\ r.revision = revision /\ r.fields = vault.fields
  BY <1>1, <1>2 DEF Request
<1>4. Answer(w, s, r)
  BY DEF ViewFields
<1> HIDE DEF r
<1>5. RequestOK(r) /\ AgreedTo(w, r)
  BY <1>2, <1>3 DEF RequestOK, AgreedTo, vault
<1>6. plaintext_acknowledged_context \in Contexts \cup {None}
  BY DEF IInv, TypeOK
<1> QED
  BY <1>1, <1>3, <1>4, <1>5, <1>6, AnswerKeepsIInv DEF ViewFields, session

LEMMA ViewContextKeepsIInv ==
    ASSUME IInv, NEW w \in Windows, NEW s \in Slots, ViewContext(w, s)
    PROVE  IInv'
<1> DEFINE r == ContextRead(w, s)
<1>1. /\ request[w][s] \in Request /\ request[w][s] # None
      /\ request[w][s].kind = "view" /\ request[w][s].status = "handling"
      /\ RequestOK(request[w][s])
  BY PendingRequest DEF ViewContext
<1>2. vault.protection \in Contexts
  BY VaultThere DEF IInv, Version
<1>3. /\ r \in Request /\ r.kind = "view" /\ r.status = "answered"
      /\ r.revision = request[w][s].revision
      /\ r.fields = request[w][s].fields
      /\ r.context = vault.protection
  BY <1>1, <1>2 DEF Request, ContextRead
<1>4. Answer(w, s, r)
  BY DEF ViewContext
<1> HIDE DEF r
<1>5. RequestOK(r) /\ AgreedTo(w, r)
  BY <1>1, <1>2, <1>3, NoneAssumption DEF RequestOK, AgreedTo
<1>6. plaintext_acknowledged_context \in Contexts \cup {None}
  BY DEF IInv, TypeOK
<1> QED
  BY <1>1, <1>3, <1>4, <1>5, <1>6, AnswerKeepsIInv DEF ViewContext, session

LEMMA WithEffect ==
    ASSUME NEW r \in Request, NEW status \in {"sent", "handling", "answered"}
    PROVE  /\ With(r, status) \in Request
           /\ With(r, status).kind = r.kind
           /\ With(r, status).status = status
           /\ With(r, status).fields = r.fields
           /\ With(r, status).revision = r.revision
           /\ With(r, status).context = r.context
  BY DEF With, Request

LEMMA AcknowledgeStorageKeepsIInv ==
    ASSUME IInv, NEW w \in Windows, NEW s \in Slots, AcknowledgeStorage(w, s)
    PROVE  IInv'
<1> DEFINE r == With(request[w][s], "answered")
<1>1. /\ request[w][s] \in Request /\ request[w][s] # None
      /\ request[w][s].kind = "acknowledge"
      /\ RequestOK(request[w][s]) /\ AgreedTo(w, request[w][s])
  BY PendingRequest DEF AcknowledgeStorage
<1>2. /\ r \in Request /\ r.kind = "acknowledge"
      /\ r.revision = request[w][s].revision
  BY <1>1, WithEffect
<1>3. Answer(w, s, r)
  BY DEF AcknowledgeStorage
<1> HIDE DEF r
<1>4. RequestOK(r) /\ AgreedTo(w, r)
  BY <1>1, <1>2 DEF RequestOK, AgreedTo
<1>5. plaintext_acknowledged_context' \in Contexts \cup {None}
  BY VaultThere DEF IInv, AcknowledgeStorage, Version
<1> QED
  BY <1>1, <1>2, <1>3, <1>4, <1>5, AnswerKeepsIInv DEF AcknowledgeStorage

LEMMA CheckSaveKeepsIInv ==
    ASSUME IInv, NEW w \in Windows, NEW s \in Slots, CheckSave(w, s)
    PROVE  IInv'
<1> DEFINE r == With(request[w][s], "handling")
<1>1. /\ request[w][s] \in Request /\ request[w][s] # None
      /\ request[w][s].kind = "save"
      /\ request[w][s].context = vault.protection
      /\ RequestOK(request[w][s]) /\ AgreedTo(w, request[w][s])
  BY PendingRequest DEF CheckSave
<1>2. /\ r \in Request /\ r.kind = "save" /\ r.status = "handling"
      /\ r.revision = request[w][s].revision
      /\ r.fields = request[w][s].fields /\ r.context = vault.protection
  BY <1>1, WithEffect
<1>3. Answer(w, s, r)
  BY DEF CheckSave
<1>4. vault.protection # None
  BY VaultThere, NoneAssumption DEF IInv, Version
<1> HIDE DEF r
<1>5. RequestOK(r) /\ AgreedTo(w, r)
  BY <1>1, <1>2, <1>4 DEF RequestOK, AgreedTo
<1>6. plaintext_acknowledged_context \in Contexts \cup {None}
  BY DEF IInv, TypeOK
<1> QED
  BY <1>1, <1>2, <1>3, <1>5, <1>6, AnswerKeepsIInv DEF CheckSave, session

(***************************************************************************)
(* The one step that stores a profile: its revision is still the one in    *)
(* place, so it was checked against this vault, and plaintext goes in only *)
(* because the user of the window agreed.                                  *)
(***************************************************************************)
LEMMA WriteSaveKeepsIInv ==
    ASSUME IInv, NEW w \in Windows, NEW s \in Slots, WriteSave(w, s)
    PROVE  IInv'
<1> DEFINE r == With(request[w][s], "answered")
           v == [fields |-> request[w][s].fields,
                 protection |-> vault.protection, writer |-> w]
<1>1. /\ request[w][s] \in Request /\ request[w][s] # None
      /\ request[w][s].kind = "save" /\ request[w][s].status = "handling"
      /\ request[w][s].revision = revision
      /\ RequestOK(request[w][s]) /\ AgreedTo(w, request[w][s])
  BY PendingRequest DEF WriteSave
<1>2. /\ request[w][s].context = vault.protection
      /\ request[w][s].context # None /\ request[w][s].fields \in Texts
      /\ vault.protection = "plain-json" => w \in confirmed
  BY <1>1 DEF AgreedTo, RequestOK, Request
<1>3. /\ r \in Request /\ r.kind = "save" /\ r.status = "answered"
      /\ r.revision = revision /\ r.fields = request[w][s].fields
      /\ r.context = vault.protection
  BY <1>1, <1>2, WithEffect
<1>4. v \in Version /\ v.fields = request[w][s].fields /\ v.writer = w
      /\ v.protection = vault.protection
  BY <1>2, VaultThere DEF Version, IInv
<1>5. versions' = Append(versions, v) /\ Send(w, s, r)
  BY DEF WriteSave, Answer
<1>6. /\ UNCHANGED <<session, stage, page, now, acts, confirmed, typed, hasty>>
      /\ r # None
  BY <1>3, NoneAssumption DEF WriteSave, Answer, history
<1> HIDE DEF r, v
<1>7. Grown
  BY <1>4, <1>5 DEF Grown
<1>8. /\ versions' \in Seq(Version) /\ versions' # <<>>
      /\ revision \in Nat /\ revision >= 1 /\ revision' = revision + 1
      /\ \A i \in 1..revision : versions'[i] = versions[i]
      /\ versions'[revision + 1] = v
  BY <1>4, <1>5, NewVersion DEF IInv
<1>9. /\ request' \in [Windows -> [Slots -> Request \cup {None}]]
      /\ request'[w][s] = r
      /\ \A t \in Slots \ {s} : request'[w][t] = request[w][t]
      /\ \A x \in Windows \ {w} : request'[x] = request[x]
  BY <1>3, <1>5, SendEffect DEF IInv
<1>10. TypeOK'
  BY <1>6, <1>8, <1>9 DEF IInv, TypeOK, session
<1>11. SessionInv'
  BY <1>6 DEF IInv, SessionInv, session
<1>12. PlaintextSavesWereConfirmed'
  <2>1. ASSUME NEW i \in 2..revision', versions'[i].protection = "plain-json"
        PROVE  versions'[i].writer \in confirmed' \cup {None}
    <3>1. CASE i = revision + 1
      BY <3>1, <2>1, <1>2, <1>4, <1>6, <1>8
    <3>2. CASE i # revision + 1
      BY <3>2, <2>1, <1>6, <1>8 DEF IInv, PlaintextSavesWereConfirmed
    <3> QED
      BY <3>1, <3>2
  <2> QED
    BY <2>1 DEF PlaintextSavesWereConfirmed
<1>13. ASSUME NEW x \in Windows \ {w} PROVE WindowOK(x)'
  BY <1>6, <1>7, <1>9, OthersStayOK DEF IInv
<1>14. WindowOK(w)'
  <2>1. WindowOK(w) /\ page[w] \in Page /\ page[w].revision \in Nat
    BY DEF IInv, TypeOK, Page
  <2>2. FormOK(w)'
    BY <2>1, <1>6, <1>8 DEF WindowOK, FormOK
  <2>3. RequestsOK(w)'
    <3>1. RequestOK(request[w][s])' /\ AgreedTo(w, request[w][s])'
      BY <1>2, <1>3, <1>6, <1>8, <1>9, <1>1 DEF RequestOK, AgreedTo
    <3>2. ASSUME NEW t \in Slots \ {s}, request'[w][t] # None
          PROVE  RequestOK(request[w][t])' /\ AgreedTo(w, request[w][t])'
      BY <2>1, <3>2, <1>6, <1>7, <1>9, RequestStays DEF IInv, WindowOK
    <3> QED
      BY <2>1, <3>1, <3>2, <1>6 DEF WindowOK, RequestsOK
  <2>4. (Clean(w) => Clean(w)') /\ (Stored(w) => Stored(w)')
    BY <2>1, <1>6, <1>8 DEF Clean, Stored
  <2>5. \A kind : Has(w, kind)' <=> Has(w, kind)
    BY <1>1, <1>3, <1>6, <1>9 DEF Has
  <2>6. ShownOK(w)'
    BY <2>1, <2>4, <2>5, <1>6 DEF WindowOK, ShownOK
  <2>7. TypedOK(w)'
    <3>1. Kept(w) => Stored(w)'
      BY <1>1, <1>4, <1>6, <1>8 DEF Kept, Stored
    <3> QED
      BY <3>1, <2>1, <2>4, <1>6 DEF WindowOK, TypedOK
  <2>8. PromiseOK(w)'
    BY <2>1, <1>1, <1>6, <1>9 DEF WindowOK, PromiseOK, Quiet
  <2> QED
    BY <2>2, <2>3, <2>6, <2>7, <2>8 DEF WindowOK
<1> QED
  BY <1>10, <1>11, <1>12, <1>13, <1>14 DEF IInv

-----------------------------------------------------------------------------
(* The script goes on after an await.                                      *)

(***************************************************************************)
(* A window goes on: its page is pg, its slot s holds r.  What is left to  *)
(* show of each such step is what it makes of the window's promises.       *)
(***************************************************************************)
LEMMA ResumeKeepsIInv ==
    ASSUME IInv, NEW w \in Windows, NEW s \in Slots, NEW pg \in Page,
           NEW r \in Request \cup {None},
           Show(w, pg), Send(w, s, r), Resume(w),
           FormOK(w)', pg.acknowledged # None => w \in confirmed,
           r # None => RequestOK(r) /\ AgreedTo(w, r),
           ShownOK(w)', TypedOK(w)', PromiseOK(w)'
    PROVE  IInv'
<1>1. UNCHANGED <<versions, session, stage, now, acts, confirmed, typed, hasty>>
  BY DEF Resume, history
<1>2. /\ page' \in [Windows -> Page] /\ page'[w] = pg
      /\ \A x \in Windows \ {w} : page'[x] = page[x]
  BY ShowEffect DEF IInv
<1>3. /\ request' \in [Windows -> [Slots -> Request \cup {None}]]
      /\ request'[w][s] = r
      /\ \A t \in Slots \ {s} : request'[w][t] = request[w][t]
      /\ \A x \in Windows \ {w} : request'[x] = request[x]
  BY SendEffect DEF IInv
<1>4. revision' = revision /\ vault' = vault
  BY <1>1 DEF revision, vault
<1>5. TypeOK'
  BY <1>1, <1>2, <1>3 DEF IInv, TypeOK, session
<1>6. RequestsOK(w)'
  <2>1. RequestsOK(w)
    BY DEF IInv, WindowOK
  <2>2. request'[w][s] # None =>
          RequestOK(request[w][s])' /\ AgreedTo(w, request[w][s])'
    BY <1>1, <1>3, <1>4 DEF RequestOK, AgreedTo
  <2>3. ASSUME NEW t \in Slots \ {s}, request'[w][t] # None
        PROVE  RequestOK(request[w][t])' /\ AgreedTo(w, request[w][t])'
    BY <2>1, <2>3, <1>1, <1>3, RequestStays DEF IInv, Grown
  <2> QED
    BY <2>2, <2>3, <1>1, <1>2 DEF RequestsOK
<1>7. WindowOK(w)'
  BY <1>6 DEF WindowOK
<1> QED
  BY <1>1, <1>2, <1>3, <1>5, <1>7, OneWindow DEF session

\* What a step that goes on has to do with the window's promises.
LEMMA Resumed ==
    ASSUME IInv, NEW w \in Windows, NEW s \in Slots, NEW pg \in Page,
           NEW r \in Request \cup {None},
           Show(w, pg), Send(w, s, r), Resume(w), request[w][s] # None
    PROVE  /\ page'[w] = pg /\ request'[w][s] = r
           /\ \A t \in Slots \ {s} : request'[w][t] = request[w][t]
           /\ versions' = versions /\ revision' = revision /\ vault' = vault
           /\ UNCHANGED <<stage, confirmed, typed, hasty>>
           /\ pg.fields = page[w].fields /\ pg.revision = page[w].revision =>
                (Clean(w)' <=> Clean(w))
           /\ Stored(w)' <=> Stored(w)
           /\ \A kind : Has(w, kind)' =>
                Has(w, kind) \/ (r # None /\ r.kind = kind)
           /\ r # None => Has(w, r.kind)' /\ ~Quiet(w)'
           /\ \A kind : Has(w, kind) /\ kind # request[w][s].kind =>
                Has(w, kind)'
<1>1. UNCHANGED <<versions, stage, confirmed, typed, hasty>>
  BY DEF Resume, history
<1>2. page'[w] = pg
  BY ShowEffect DEF IInv
<1>3. /\ request'[w][s] = r
      /\ \A t \in Slots \ {s} : request'[w][t] = request[w][t]
  BY SendEffect DEF IInv
<1>4. revision' = revision /\ vault' = vault
  BY <1>1 DEF revision, vault
<1> QED
  BY <1>1, <1>2, <1>3, <1>4 DEF Clean, Stored, Has, Quiet

\* The message is all that changes.
LEMMA SaidEffect ==
    ASSUME IInv, NEW w \in Windows, NEW text \in Messages
    PROVE  /\ Said(w, text) \in Page
           /\ Said(w, text).message = text
           /\ Said(w, text).fields = page[w].fields
           /\ Said(w, text).revision = page[w].revision
           /\ Said(w, text).context = page[w].context
           /\ Said(w, text).acknowledged = page[w].acknowledged
<1>1. page[w] \in Page
  BY DEF IInv, TypeOK
<1> QED
  BY <1>1 DEF Said, Page

(***************************************************************************)
(* The answer of a view makes the form clean.  It can replace the form     *)
(* only when nothing was typed, or what was typed is stored.               *)
(***************************************************************************)
LEMMA TakeViewKeepsIInv ==
    ASSUME IInv, NEW w \in Windows, NEW s \in Slots, TakeView(w, s)
    PROVE  IInv'
<1> DEFINE r == request[w][s]
           pg == Viewed(w, s)
           new == NewRequest("panels", r.by_timer, page[w])
<1>1. /\ r \in Request /\ r # None /\ r.kind = "view" /\ r.revision \in Nat
      /\ r.status = "answered" /\ RequestOK(r) /\ AgreedTo(w, r)
  BY PendingRequest DEF TakeView
<1>2. page[w] \in Page /\ WindowOK(w)
  BY DEF IInv, TypeOK
<1>3. /\ revision \in Nat /\ r.revision \in 1..revision
      /\ r.fields = versions[r.revision].fields /\ r.fields \in Texts
  BY <1>1, VaultThere DEF RequestOK, Version, IInv
<1>4. /\ pg \in Page /\ pg.fields = r.fields /\ pg.revision = r.revision
      /\ pg.acknowledged \in {None, page[w].acknowledged}
  <2>1. /\ r.fields \in Texts \cup {None} /\ r.revision \in Nat
        /\ r.context \in Contexts \cup {None}
    BY <1>1 DEF Request
  <2> QED
    BY <1>2, <2>1 DEF Viewed, Page
<1>5. /\ new \in Request /\ new # None /\ new.kind = "panels"
      /\ new.status = "sent" /\ new.revision = 0
  <2>1. r.by_timer \in BOOLEAN
    BY <1>1 DEF Request
  <2> QED
    BY <1>2, <2>1, NewRequestType DEF Kinds, NewRequest
<1>6. Show(w, pg) /\ Send(w, s, new) /\ Resume(w)
  BY DEF TakeView
<1> HIDE DEF pg, new
<1>7. /\ page'[w] = pg /\ request'[w][s] = new
      /\ versions' = versions /\ revision' = revision
      /\ UNCHANGED <<stage, typed, hasty>>
      /\ Stored(w)' <=> Stored(w)
      /\ ~Quiet(w)'
  BY <1>1, <1>4, <1>5, <1>6, Resumed
<1>8. FormOK(w)'
  BY <1>3, <1>4, <1>7, NoneAssumption DEF FormOK
<1>9. RequestOK(new) /\ AgreedTo(w, new)
  BY <1>3, <1>5 DEF RequestOK, AgreedTo
<1>10. ShownOK(w)'
  BY <1>3, <1>4, <1>7 DEF ShownOK, Clean
<1>11. TypedOK(w)'
  BY <1>1, <1>2, <1>7 DEF WindowOK, TypedOK, Kept
<1>12. PromiseOK(w)'
  BY <1>7 DEF PromiseOK
<1>13. pg.acknowledged # None => w \in confirmed
  BY <1>2, <1>4 DEF WindowOK, RequestsOK
<1> QED
  BY <1>4, <1>5, <1>6, <1>8, <1>9, <1>10, <1>11, <1>12, <1>13, ResumeKeepsIInv

\* The panels come after a view: if nobody was hasty the form is clean.
LEMMA TakePanelsKeepsIInv ==
    ASSUME IInv, NEW w \in Windows, NEW s \in Slots, TakePanels(w, s)
    PROVE  IInv'
<1> DEFINE pg == Said(w, "saved")
<1>1. request[w][s] # None /\ request[w][s].kind = "panels" /\ WindowOK(w)
  BY PendingRequest DEF TakePanels, IInv
<1>2. /\ pg \in Page /\ pg.message = "saved" /\ pg.fields = page[w].fields
      /\ pg.revision = page[w].revision /\ pg.context = page[w].context
      /\ pg.acknowledged = page[w].acknowledged
  BY SaidEffect DEF Messages
<1>3. Show(w, pg) /\ Send(w, s, None) /\ Resume(w)
  BY DEF TakePanels
<1> HIDE DEF pg
<1>4. /\ page'[w] = pg /\ revision' = revision
      /\ UNCHANGED <<stage, typed, hasty>>
      /\ Clean(w)' <=> Clean(w)
      /\ Stored(w)' <=> Stored(w)
  BY <1>1, <1>2, <1>3, Resumed
<1>5. FormOK(w)'
  BY <1>1, <1>2, <1>4 DEF WindowOK, FormOK
<1>6. ShownOK(w)'
  BY <1>1, <1>4 DEF WindowOK, ShownOK, Has
<1>7. TypedOK(w)'
  BY <1>1, <1>4 DEF WindowOK, TypedOK, Kept
<1>8. PromiseOK(w)'
  BY <1>2, <1>4 DEF PromiseOK
<1>9. pg.acknowledged # None => w \in confirmed
  BY <1>1, <1>2 DEF WindowOK, RequestsOK
<1> QED
  BY <1>2, <1>3, <1>5, <1>6, <1>7, <1>8, <1>9, ResumeKeepsIInv

(***************************************************************************)
(* The acknowledgement is the user's of this window, so the save that      *)
(* follows it may carry plaintext; it carries the form as it is by now.    *)
(***************************************************************************)
LEMMA TakeAcknowledgementKeepsIInv ==
    ASSUME IInv, NEW w \in Windows, NEW s \in Slots, TakeAcknowledgement(w, s)
    PROVE  IInv'
<1> DEFINE pg == Acknowledged(w)
           new == NewRequest("save", FALSE, page[w])
<1>1. /\ request[w][s] # None /\ request[w][s].kind = "acknowledge"
      /\ w \in confirmed /\ WindowOK(w) /\ page[w] \in Page
  BY PendingRequest DEF TakeAcknowledgement, AgreedTo, IInv, TypeOK
<1>2. /\ pg \in Page /\ pg.message = "saving" /\ pg.fields = page[w].fields
      /\ pg.revision = page[w].revision /\ pg.context = page[w].context
  BY <1>1 DEF Acknowledged, Said, Page, Messages
<1>3. /\ new \in Request /\ new # None /\ new.kind = "save"
      /\ new.status = "sent" /\ new.fields = page[w].fields
      /\ new.revision = page[w].revision /\ new.context = page[w].context
  BY <1>1, NewRequestType DEF Kinds, NewRequest
<1>4. Show(w, pg) /\ Send(w, s, new) /\ Resume(w)
  BY DEF TakeAcknowledgement
<1> HIDE DEF pg, new
<1>5. /\ page'[w] = pg /\ request'[w][s] = new
      /\ \A t \in Slots \ {s} : request'[w][t] = request[w][t]
      /\ revision' = revision
      /\ UNCHANGED <<stage, typed, hasty>>
      /\ Clean(w)' <=> Clean(w)
      /\ Stored(w)' <=> Stored(w)
      /\ Has(w, "panels")' => Has(w, "panels")
      /\ ~Quiet(w)'
  BY <1>1, <1>2, <1>3, <1>4, Resumed
<1>6. FormOK(w)'
  BY <1>1, <1>2, <1>5 DEF WindowOK, FormOK
<1>7. RequestOK(new) /\ AgreedTo(w, new)
  BY <1>1, <1>3 DEF WindowOK, FormOK, RequestOK, AgreedTo
<1>8. ShownOK(w)'
  BY <1>1, <1>2, <1>5 DEF WindowOK, ShownOK
<1>9. TypedOK(w)'
  <2>1. Kept(w) => Kept(w)'
    BY <1>2, <1>3, <1>5 DEF Kept
  <2> QED
    BY <2>1, <1>1, <1>5 DEF WindowOK, TypedOK
<1>10. PromiseOK(w)'
  BY <1>5 DEF PromiseOK
<1> QED
  BY <1>1, <1>2, <1>3, <1>4, <1>6, <1>7, <1>8, <1>9, <1>10, ResumeKeepsIInv

\* "Saved" is said early, but a view is asked for at once.
LEMMA TakeSavedKeepsIInv ==
    ASSUME IInv, NEW w \in Windows, NEW s \in Slots, TakeSaved(w, s)
    PROVE  IInv'
<1> DEFINE pg == Said(w, "saved")
           new == NewRequest("view", request[w][s].by_timer, page[w])
<1>1. /\ request[w][s] \in Request /\ request[w][s] # None
      /\ request[w][s].kind = "save" /\ request[w][s].status = "answered"
      /\ WindowOK(w) /\ page[w] \in Page
  BY PendingRequest DEF TakeSaved, IInv, TypeOK
<1>2. /\ pg \in Page /\ pg.message = "saved" /\ pg.fields = page[w].fields
      /\ pg.revision = page[w].revision /\ pg.context = page[w].context
      /\ pg.acknowledged = page[w].acknowledged
  BY SaidEffect DEF Messages
<1>3. /\ new \in Request /\ new # None /\ new.kind = "view"
      /\ new.status = "sent" /\ new.revision = 0
  <2>1. request[w][s].by_timer \in BOOLEAN
    BY <1>1 DEF Request
  <2> QED
    BY <1>1, <2>1, NewRequestType DEF Kinds, NewRequest
<1>4. Show(w, pg) /\ Send(w, s, new) /\ Resume(w)
  BY DEF TakeSaved
<1> HIDE DEF pg, new
<1>5. /\ page'[w] = pg /\ revision' = revision
      /\ UNCHANGED <<stage, typed, hasty>>
      /\ Clean(w)' <=> Clean(w)
      /\ Stored(w)' <=> Stored(w)
      /\ Has(w, "panels")' => Has(w, "panels")
      /\ Has(w, "view")' /\ ~Quiet(w)'
  BY <1>1, <1>2, <1>3, <1>4, Resumed
<1>6. FormOK(w)'
  BY <1>1, <1>2, <1>5 DEF WindowOK, FormOK
<1>7. RequestOK(new) /\ AgreedTo(w, new)
  BY <1>3, VaultThere DEF RequestOK, AgreedTo, IInv
<1>8. ShownOK(w)'
  BY <1>1, <1>5 DEF WindowOK, ShownOK
<1>9. TypedOK(w)'
  BY <1>1, <1>5 DEF WindowOK, TypedOK, Kept
<1>10. PromiseOK(w)'
  BY <1>5 DEF PromiseOK
<1>11. pg.acknowledged # None => w \in confirmed
  BY <1>1, <1>2 DEF WindowOK, RequestsOK
<1> QED
  BY <1>2, <1>3, <1>4, <1>6, <1>7, <1>8, <1>9, <1>10, <1>11, ResumeKeepsIInv

\* A failure says so, and leaves what was typed in the form.
LEMMA TakeFailureKeepsIInv ==
    ASSUME IInv, NEW w \in Windows, NEW s \in Slots, TakeFailure(w, s)
    PROVE  IInv'
<1> DEFINE pg == Failed(w, s)
<1>1. request[w][s] # None /\ WindowOK(w)
  BY DEF TakeFailure, IInv
<1>2. /\ pg \in Page /\ pg.message = "error" /\ pg.fields = page[w].fields
      /\ pg.revision = page[w].revision /\ pg.context = page[w].context
      /\ pg.acknowledged \in {None, page[w].acknowledged}
  <2>1. page[w] \in Page
    BY DEF IInv, TypeOK
  <2> QED
    BY <2>1 DEF Failed, Said, Page, Messages
<1>3. Show(w, pg) /\ Send(w, s, None) /\ Resume(w)
  BY DEF TakeFailure
<1> HIDE DEF pg
<1>4. /\ page'[w] = pg /\ revision' = revision /\ request'[w][s] = None
      /\ \A t \in Slots \ {s} : request'[w][t] = request[w][t]
      /\ UNCHANGED <<stage, typed, hasty>>
      /\ Clean(w)' <=> Clean(w)
      /\ Stored(w)' <=> Stored(w)
      /\ Has(w, "panels")' => Has(w, "panels")
  BY <1>1, <1>2, <1>3, Resumed
<1>5. FormOK(w)'
  BY <1>1, <1>2, <1>4 DEF WindowOK, FormOK
<1>6. ShownOK(w)'
  BY <1>1, <1>2, <1>4 DEF WindowOK, ShownOK
<1>7. TypedOK(w)'
  <2>1. Kept(w) => Kept(w)'
    BY <1>2, <1>4 DEF Kept
  <2> QED
    BY <2>1, <1>1, <1>4 DEF WindowOK, TypedOK
<1>8. PromiseOK(w)'
  BY <1>2, <1>4 DEF PromiseOK
<1>9. pg.acknowledged # None => w \in confirmed
  BY <1>1, <1>2 DEF WindowOK, RequestsOK
<1> QED
  BY <1>2, <1>3, <1>5, <1>6, <1>7, <1>8, <1>9, ResumeKeepsIInv

-----------------------------------------------------------------------------
(* The token, the clock and the CLI.                                       *)

LEMMA ExchangeKeepsIInv ==
    ASSUME IInv, NEW w \in Windows, exchange_bootstrap_token(w)
    PROVE  IInv'
<1>1. UNCHANGED <<versions, sessions, page, request, confirmed, typed, hasty>>
  BY DEF exchange_bootstrap_token, history
<1>2. TypeOK'
  BY DEF IInv, TypeOK, exchange_bootstrap_token, history
<1>3. SessionInv'
  BY NoneAssumption
     DEF IInv, TypeOK, SessionInv, exchange_bootstrap_token, SessionLockFree
<1>4. PlaintextSavesWereConfirmed'
  BY <1>1 DEF IInv, PlaintextSavesWereConfirmed, revision
<1>5. \A x \in Windows : stage[x] = "open" => stage'[x] = "open"
  BY DEF IInv, TypeOK, exchange_bootstrap_token
<1>6. ASSUME NEW x \in Windows PROVE WindowOK(x)'
  BY <1>1, <1>5, OthersStayOK DEF IInv, Grown
<1> QED
  BY <1>2, <1>3, <1>4, <1>6 DEF IInv

\* Who finishes holds the lock, so nobody else does, and nobody has before.
LEMMA FinishExchangeKeepsIInv ==
    ASSUME IInv, NEW w \in Windows, FinishExchange(w)
    PROVE  IInv'
<1>1. UNCHANGED <<versions, page, request, confirmed, typed, hasty>>
  BY DEF FinishExchange, history
<1>2. TypeOK'
  BY BoundsAssumption DEF IInv, TypeOK, FinishExchange, history
<1>3. SessionInv'
  <2>1. gui_session_lock = w /\ sessions = {}
    BY DEF IInv, SessionInv, FinishExchange
  <2>2. sessions' = {w} /\ gui_bootstrap_used' = TRUE
    BY <2>1 DEF FinishExchange
  <2>3. \A x \in Windows : stage'[x] # "exchanging"
    BY <2>1 DEF IInv, TypeOK, SessionInv, FinishExchange
  <2> QED
    BY <2>2, <2>3 DEF SessionInv
<1>4. PlaintextSavesWereConfirmed'
  BY <1>1 DEF IInv, PlaintextSavesWereConfirmed, revision
<1>5. \A x \in Windows : stage[x] = "open" => stage'[x] = "open"
  BY DEF IInv, TypeOK, FinishExchange
<1>6. ASSUME NEW x \in Windows PROVE WindowOK(x)'
  BY <1>1, <1>5, OthersStayOK DEF IInv, Grown
<1> QED
  BY <1>2, <1>3, <1>4, <1>6 DEF IInv

\* The CLI may store plaintext; it asks its own user.
LEMMA ElsewhereKeepsIInv ==
    ASSUME IInv, Elsewhere
    PROVE  IInv'
<1>1. UNCHANGED <<session, stage, page, request, now, acts, confirmed,
                  typed, hasty>>
  BY DEF Elsewhere, history
<1>2. PICK c \in Contexts :
        versions' = Append(versions,
          [fields |-> IF c = vault.protection THEN MaxActs + revision
                                              ELSE vault.fields,
           protection |-> c, writer |-> None])
  BY DEF Elsewhere
<1> DEFINE v == [fields |-> IF c = vault.protection THEN MaxActs + revision
                                                    ELSE vault.fields,
                 protection |-> c, writer |-> None]
<1>3. v \in Version /\ v.writer = None
  BY VaultThere, BoundsAssumption DEF IInv, Version, Texts
<1>4. versions' = Append(versions, v)
  BY <1>2
<1> HIDE DEF v
<1>5. /\ versions' \in Seq(Version) /\ versions' # <<>>
      /\ revision \in Nat /\ revision' = revision + 1
      /\ \A i \in 1..revision : versions'[i] = versions[i]
      /\ versions'[revision + 1] = v
  BY <1>3, <1>4, NewVersion DEF IInv
<1>6. TypeOK'
  BY <1>1, <1>5 DEF IInv, TypeOK, session
<1>7. SessionInv'
  BY <1>1 DEF IInv, SessionInv, session
<1>8. PlaintextSavesWereConfirmed'
  <2>1. ASSUME NEW i \in 2..revision', versions'[i].protection = "plain-json"
        PROVE  versions'[i].writer \in confirmed' \cup {None}
    <3>1. CASE i = revision + 1
      BY <3>1, <1>3, <1>5
    <3>2. CASE i # revision + 1
      BY <3>2, <2>1, <1>1, <1>5 DEF IInv, PlaintextSavesWereConfirmed
    <3> QED
      BY <3>1, <3>2
  <2> QED
    BY <2>1 DEF PlaintextSavesWereConfirmed
<1>9. Grown
  BY <1>3, <1>4 DEF Grown
<1>10. ASSUME NEW x \in Windows PROVE WindowOK(x)'
  BY <1>1, <1>9, OthersStayOK DEF IInv
<1> QED
  BY <1>6, <1>7, <1>8, <1>10 DEF IInv

\* A step that changes nothing the invariant looks at, time apart.
LEMMA StillKeepsIInv ==
    ASSUME IInv, now' \in Nat,
           UNCHANGED <<versions, session, stage, page, request, acts, history>>
    PROVE  IInv'
<1>1. UNCHANGED <<confirmed, typed, hasty>>
  BY DEF history
<1>2. TypeOK'
  BY <1>1 DEF IInv, TypeOK, session
<1>3. SessionInv'
  BY DEF IInv, SessionInv, session
<1>4. PlaintextSavesWereConfirmed'
  BY <1>1 DEF IInv, PlaintextSavesWereConfirmed, revision
<1>5. ASSUME NEW x \in Windows PROVE WindowOK(x)'
  BY <1>1, OthersStayOK DEF IInv, Grown
<1> QED
  BY <1>2, <1>3, <1>4, <1>5 DEF IInv

LEMMA Initially == Init => IInv
<1> SUFFICES ASSUME Init PROVE IInv
  OBVIOUS
<1>1. PICK c \in Contexts :
        versions = <<[fields |-> 0, protection |-> c, writer |-> None]>>
  BY DEF Init
<1>2. versions \in Seq(Version) /\ versions # <<>> /\ revision = 1
  BY <1>1 DEF Version, Texts, revision
<1>3. /\ BlankPage \in Page /\ BlankPage.context = None
      /\ BlankPage.revision = 0 /\ BlankPage.acknowledged = None
      /\ BlankPage.message = ""
  BY DEF BlankPage, Page, Messages
<1>4. TypeOK
  BY <1>2, <1>3 DEF Init, TypeOK
<1>5. SessionInv
  BY DEF Init, SessionInv
<1>6. PlaintextSavesWereConfirmed
  BY <1>2 DEF PlaintextSavesWereConfirmed
<1>7. ASSUME NEW w \in Windows PROVE WindowOK(w)
  <2>1. /\ page[w] = BlankPage /\ typed[w] = None
        /\ \A s \in Slots : request[w][s] = None
    BY DEF Init
  <2>2. FormOK(w)
    <3>1. page[w].revision = 0 /\ page[w].context = None
      BY <2>1, <1>3
    <3> QED
      BY <3>1, <1>2 DEF FormOK
  <2>3. RequestsOK(w)
    BY <2>1, <1>3 DEF RequestsOK
  <2>4. ShownOK(w) /\ PromiseOK(w)
    BY <2>1, <1>3 DEF ShownOK, PromiseOK, Has
  <2>5. TypedOK(w)
    BY <2>1 DEF TypedOK
  <2> QED
    BY <2>2, <2>3, <2>4, <2>5 DEF WindowOK
<1> QED
  BY <1>4, <1>5, <1>6, <1>7 DEF IInv

LEMMA NextKeepsIInv == IInv /\ [Next]_vars => IInv'
<1> SUFFICES ASSUME IInv, [Next]_vars PROVE IInv'
  OBVIOUS
<1>1. ASSUME NEW w \in Windows,
             \/ exchange_bootstrap_token(w) \/ FinishExchange(w) \/ Open(w)
             \/ Input(w) \/ Timer(w) \/ SaveClick(w) \/ ReloadClick(w)
      PROVE  IInv'
  BY <1>1, ExchangeKeepsIInv, FinishExchangeKeepsIInv, OpenKeepsIInv,
     InputKeepsIInv, TimerKeepsIInv, SaveClickKeepsIInv, ReloadClickKeepsIInv
<1>2. ASSUME NEW w \in Windows, NEW s \in Slots, Serve(w, s) PROVE IInv'
  BY <1>2, ViewFieldsKeepsIInv, ViewContextKeepsIInv,
     AcknowledgeStorageKeepsIInv, CheckSaveKeepsIInv, WriteSaveKeepsIInv
     DEF Serve
<1>3. ASSUME NEW w \in Windows, NEW s \in Slots, Take(w, s) PROVE IInv'
  BY <1>3, TakeViewKeepsIInv, TakePanelsKeepsIInv, TakeAcknowledgementKeepsIInv,
     TakeSavedKeepsIInv, TakeFailureKeepsIInv DEF Take
<1>4. CASE Elsewhere
  BY <1>4, ElsewhereKeepsIInv
<1>5. CASE Tick
  BY <1>5, StillKeepsIInv DEF Tick, IInv, TypeOK
<1>6. CASE UNCHANGED vars
  BY <1>6, StillKeepsIInv DEF vars, IInv, TypeOK
<1> QED
  BY <1>1, <1>2, <1>3, <1>4, <1>5, <1>6 DEF Next

-----------------------------------------------------------------------------
(* Theorems.                                                               *)

(***************************************************************************)
(* The inductive invariant holds in every reachable state of the windows,  *)
(* whatever their number and that of the requests under way.               *)
(***************************************************************************)
THEOREM Invariance == Spec => []IInv
<1>1. Init => IInv
  BY Initially
<1>2. IInv /\ [Next]_vars => IInv'
  BY NextKeepsIInv
<1> QED
  BY <1>1, <1>2, PTL DEF Spec

(***************************************************************************)
(* The pages, the requests under way and the vault keep their types.       *)
(***************************************************************************)
THEOREM TypeCorrectness == Spec => []TypeOK
<1>1. IInv => TypeOK
  BY DEF IInv
<1> QED
  BY <1>1, Invariance, PTL

(***************************************************************************)
(* However many windows race for the one-time token, one at most is handed *)
(* the session cookie (exchange_bootstrap_token).                          *)
(***************************************************************************)
THEOREM TokenOnce == Spec => []OneTimeToken
<1>1. IInv => OneTimeToken
  BY FS_EmptySet, FS_Singleton DEF IInv, SessionInv, OneTimeToken
<1> QED
  BY <1>1, Invariance, PTL

(***************************************************************************)
(* Whatever the server has noted for another window, a window stores       *)
(* plaintext only when its own user agreed (do_POST, saveWithConfirmation).*)
(***************************************************************************)
THEOREM ConfirmedPlaintext == Spec => []PlaintextSavesWereConfirmed
<1>1. IInv => PlaintextSavesWereConfirmed
  BY DEF IInv
<1> QED
  BY <1>1, Invariance, PTL

(***************************************************************************)
(* A window at rest that says "saved", and whose user typed nothing during *)
(* a request, shows a revision of the vault and has stored what was typed. *)
(***************************************************************************)
THEOREM SavedIsTrue == Spec => []SavedMeansStored
<1>1. IInv => SavedMeansStored
  <2> SUFFICES ASSUME IInv, NEW w \in Windows,
                      page[w].message = "saved", Quiet(w), w \notin hasty
               PROVE  /\ page[w].fields = versions[page[w].revision].fields
                      /\ typed[w] # None => Stored(w)
    BY DEF SavedMeansStored, Stored
  <2>1. Clean(w)
    BY DEF IInv, WindowOK, ShownOK, Has, Quiet
  <2>2. typed[w] # None => Stored(w)
    BY DEF IInv, WindowOK, TypedOK, Kept
  <2> QED
    BY <2>1, <2>2 DEF Clean
<1> QED
  BY <1>1, Invariance, PTL

(***************************************************************************)
(* "Unsaved" and "saving" are promises kept: a timer or a request is there *)
(* to act on them (scheduleSave, save).                                    *)
(***************************************************************************)
THEOREM PromisesHeld == Spec => []EditsAreNotForgotten
<1>1. IInv => EditsAreNotForgotten
  BY DEF IInv, WindowOK, PromiseOK, EditsAreNotForgotten
<1> QED
  BY <1>1, Invariance, PTL
=============================================================================
