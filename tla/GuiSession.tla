----------------------------- MODULE GuiSession -----------------------------
(***************************************************************************)
(* The browser windows of the localhost GUI and their server               *)
(* (agent_personal_vault/gui.py, the script of its page included).         *)
(*                                                                         *)
(* A window exchanges the one-time token for the session cookie that all   *)
(* windows share, opens the page and edits the profile.  The script is     *)
(* event-driven: each await of a request lets the user type, click and     *)
(* start further requests, and the server handles each request on a        *)
(* thread of its own, in several reads of a vault that the CLI changes     *)
(* beside it.  VaultStore models the locking and the creation, removal     *)
(* and normalization of the vault, which here exists and is current.       *)
(***************************************************************************)
EXTENDS Naturals, Sequences, FiniteSets

CONSTANTS
    Windows,       \* windows of the user's browser
    Slots,         \* requests a window may have under way at once
    MaxRequests,   \* bound on requests under way in all windows
    None,          \* "" or unset: no contents, context, request or owner
    BootstrapTtl,  \* GUI_BOOTSTRAP_TTL_SECONDS
    SessionTtl,    \* GUI_SESSION_TTL_SECONDS
    MaxActs,       \* bound on what the user types and clicks
    MaxEvents      \* bound on changes of the vault by the CLI and ticks

VARIABLES
    versions,  \* the vault at each revision so far, the last one in place
    gui_session_lock, gui_bootstrap_used, gui_session_expires_at,
    plaintext_acknowledged_context,
    sessions,  \* the windows that have been handed the session cookie
    stage,     \* whether a window is closed, exchanging the token or open
    page,      \* the variables of the script in each window
    request,   \* the requests under way, by window and slot
    now, acts, \* the clock; the counter of MaxActs
    confirmed, \* history: windows whose user has agreed to plaintext
    typed,     \* history: what the user typed last and did not give up
    hasty      \* history: windows whose user typed during a request

session == <<gui_session_lock, gui_bootstrap_used, gui_session_expires_at,
             plaintext_acknowledged_context, sessions>>
history == <<confirmed, typed, hasty>>
vars == <<versions, session, stage, page, request, now, acts, history>>

\* What the form holds.  Texts are never compared, so each one is new.
Texts == Nat

\* storage_context is a keyed hash of the path, which is fixed, and this.
Contexts == {"plain-json", "encrypted"}
Version == [fields : Texts, protection : Contexts, writer : Windows \cup {None}]
Messages == {"", "unsaved", "confirmation needed", "aborted", "saving",
             "saved", "error"}
Page == [fields : Texts \cup {None}, revision : Nat,
         context : Contexts \cup {None}, acknowledged : Contexts \cup {None},
         timer : BOOLEAN, message : Messages]
Kinds == {"view", "panels", "acknowledge", "save"}
\* by_timer is FALSE for what the user clicked or the page load started.
Request == [kind : Kinds, by_timer : BOOLEAN,
            status : {"sent", "handling", "answered"},
            fields : Texts \cup {None}, revision : Nat,
            context : Contexts \cup {None}]

ASSUME NoneAssumption ==
    None \notin Windows \cup Texts \cup Contexts \cup Request
ASSUME SlotsAssumption == Slots # {}
ASSUME BoundsAssumption ==
    /\ BootstrapTtl \in Nat /\ SessionTtl \in Nat
    /\ MaxRequests \in Nat /\ MaxActs \in Nat /\ MaxEvents \in Nat

revision == Len(versions)
vault == versions[revision]
BlankPage == [fields |-> None, revision |-> 0, context |-> None,
              acknowledged |-> None, timer |-> FALSE, message |-> ""]

-----------------------------------------------------------------------------

TypeOK ==
    /\ versions \in Seq(Version) /\ versions # <<>>
    /\ gui_session_lock \in Windows \cup {None}
    /\ gui_bootstrap_used \in BOOLEAN
    /\ gui_session_expires_at \in Nat
    /\ plaintext_acknowledged_context \in Contexts \cup {None}
    /\ sessions \subseteq Windows
    /\ stage \in [Windows -> {"closed", "exchanging", "open"}]
    /\ page \in [Windows -> Page]
    /\ request \in [Windows -> [Slots -> Request \cup {None}]]
    /\ now \in Nat /\ acts \in Nat
    /\ confirmed \subseteq Windows /\ hasty \subseteq Windows
    /\ typed \in [Windows -> Texts \cup {None}]

\* configure_gui_server, and run_server, which makes sure of a vault.
Init ==
    /\ \E c \in Contexts :
         versions = <<[fields |-> 0, protection |-> c, writer |-> None]>>
    /\ gui_session_lock = None
    /\ gui_bootstrap_used = FALSE
    /\ gui_session_expires_at = 0
    /\ plaintext_acknowledged_context = None
    /\ sessions = {}
    /\ stage = [w \in Windows |-> "closed"]
    /\ page = [w \in Windows |-> BlankPage]
    /\ request = [w \in Windows |-> [s \in Slots |-> None]]
    /\ now = 0 /\ acts = 0
    /\ confirmed = {} /\ hasty = {}
    /\ typed = [w \in Windows |-> None]

-----------------------------------------------------------------------------
(* The session.                                                            *)

\* Mutant: the exchange is not serialized.
SessionLockIgnored == TRUE

SessionLockFree == gui_session_lock = None

(***************************************************************************)
(* GET /?token=... tests the token under gui_session_lock ...              *)
(***************************************************************************)
exchange_bootstrap_token(w) ==
    /\ stage[w] = "closed"
    /\ SessionLockFree
    /\ ~gui_bootstrap_used /\ now < BootstrapTtl
    /\ gui_session_lock' = w
    /\ stage' = [stage EXCEPT ![w] = "exchanging"]
    /\ UNCHANGED <<versions, gui_bootstrap_used, gui_session_expires_at,
                   plaintext_acknowledged_context, sessions, page, request,
                   now, acts, history>>

\* ... marks it used, and the redirect carries the cookie.
FinishExchange(w) ==
    /\ stage[w] = "exchanging"
    /\ gui_bootstrap_used' = TRUE
    /\ gui_session_expires_at' = now + SessionTtl
    /\ gui_session_lock' = None
    /\ sessions' = sessions \cup {w}
    /\ stage' = [stage EXCEPT ![w] = "closed"]
    /\ UNCHANGED <<versions, plaintext_acknowledged_context, page, request,
                   now, acts, history>>

session_ok == sessions # {} /\ now < gui_session_expires_at

-----------------------------------------------------------------------------
(* Starting requests.                                                      *)

UnderWay == {x \in Windows \X Slots : request[x[1]][x[2]] # None}
Free(w) == {s \in Slots : /\ request[w][s] = None
                          /\ Cardinality(UnderWay) < MaxRequests}
Quiet(w) == \A s \in Slots : request[w][s] = None

NewRequest(kind, by_timer, pg) ==
    [kind |-> kind, by_timer |-> by_timer, status |-> "sent",
     fields |-> IF kind = "save" THEN pg.fields ELSE None,
     revision |-> IF kind = "save" THEN pg.revision ELSE 0,
     context |-> IF kind \in {"save", "acknowledge"} THEN pg.context
                 ELSE None]

Send(w, s, r) == request' = [request EXCEPT ![w][s] = r]

Show(w, pg) == page' = [page EXCEPT ![w] = pg]

Said(w, text) == [page[w] EXCEPT !.message = text]

requiresPlaintextAcknowledgement(pg) ==
    pg.context # "encrypted" /\ pg.acknowledged # pg.context

(***************************************************************************)
(* save up to its first await: the timer stops, and plaintext that has not *)
(* been acknowledged is not sent.                                          *)
(***************************************************************************)
SendSave(w, s, by_timer) ==
    LET stopped == [page[w] EXCEPT !.timer = FALSE]
    IN IF requiresPlaintextAcknowledgement(page[w])
       THEN /\ Show(w, [stopped EXCEPT !.message = "confirmation needed"])
            /\ Send(w, s, None)
       ELSE /\ Show(w, [stopped EXCEPT !.message = "saving"])
            /\ Send(w, s, NewRequest("save", by_timer, page[w]))

Calm(w) == hasty' = IF Quiet(w) THEN hasty \ {w} ELSE hasty

\* GET / with the cookie; the script starts with load.
Open(w) ==
    /\ stage[w] = "closed" /\ session_ok
    /\ stage' = [stage EXCEPT ![w] = "open"]
    /\ \E s \in Free(w) : Send(w, s, NewRequest("view", FALSE, page[w]))
    /\ UNCHANGED <<versions, session, page, now, acts, history>>

Act(w) == stage[w] = "open" /\ acts < MaxActs /\ acts' = acts + 1

\* The input listener with scheduleSave.
Edited(w, v) ==
    IF requiresPlaintextAcknowledgement(page[w])
    THEN [page[w] EXCEPT !.fields = v, !.timer = FALSE,
                         !.message = "confirmation needed"]
    ELSE [page[w] EXCEPT !.fields = v, !.timer = TRUE, !.message = "unsaved"]

\* There is no form to type into before the first load.
Input(w) ==
    /\ Act(w)
    /\ page[w].context # None
    /\ Show(w, Edited(w, acts'))
    /\ typed' = [typed EXCEPT ![w] = IF Quiet(w) THEN acts' ELSE None]
    /\ hasty' = IF Quiet(w) THEN hasty \ {w} ELSE hasty \cup {w}
    /\ UNCHANGED <<versions, session, stage, request, now, confirmed>>

Timer(w) ==
    /\ page[w].timer
    /\ \E s \in Free(w) : SendSave(w, s, TRUE)
    /\ Calm(w)
    /\ UNCHANGED <<versions, session, stage, now, acts, confirmed, typed>>

(***************************************************************************)
(* The save button.  Plaintext asks first, in a dialog that blocks the     *)
(* window, and then has the server note the answer.                        *)
(***************************************************************************)
SaveClick(w) ==
    /\ Act(w)
    /\ \E s \in Free(w) :
         \/ /\ ~requiresPlaintextAcknowledgement(page[w])
            /\ SendSave(w, s, FALSE)
            /\ UNCHANGED confirmed
         \/ /\ requiresPlaintextAcknowledgement(page[w])
            /\ Show(w, [Said(w, "aborted") EXCEPT !.timer = FALSE])
            /\ UNCHANGED <<request, confirmed>>
         \/ /\ requiresPlaintextAcknowledgement(page[w])
            /\ Show(w, [page[w] EXCEPT !.timer = FALSE])
            /\ Send(w, s, NewRequest("acknowledge", FALSE, page[w]))
            /\ confirmed' = confirmed \cup {w}
    /\ Calm(w)
    /\ UNCHANGED <<versions, session, stage, now, typed>>

\* The user gives up what he has typed; a started timer keeps running.
ReloadClick(w) ==
    /\ Act(w)
    /\ \E s \in Free(w) : Send(w, s, NewRequest("view", FALSE, page[w]))
    /\ typed' = [typed EXCEPT ![w] = None]
    /\ Calm(w)
    /\ UNCHANGED <<versions, session, stage, page, now, confirmed>>

-----------------------------------------------------------------------------
(* The server's threads.                                                   *)

Answer(w, s, r) ==
    /\ Send(w, s, r)
    /\ UNCHANGED <<stage, page, now, acts, history>>

With(r, status) == [r EXCEPT !.status = status]

Pending(w, s, kind, status) ==
    /\ request[w][s] # None
    /\ request[w][s].kind = kind /\ request[w][s].status = status

\* Mutant: fields and revision come from two reads of the vault.
RevisionReadLater(w, s) ==
    [request[w][s] EXCEPT !.context = vault.protection, !.revision = revision,
                          !.status = "answered"]

\* POST /api/profile/view reads the profile ...
ViewFields(w, s) ==
    /\ Pending(w, s, "view", "sent") /\ session_ok
    /\ Answer(w, s, [request[w][s] EXCEPT !.fields = vault.fields,
                       !.revision = revision, !.status = "handling"])
    /\ UNCHANGED <<versions, session>>

ContextRead(w, s) ==
    [request[w][s] EXCEPT !.context = vault.protection, !.status = "answered"]

\* ... and then, in another read, the protection.
ViewContext(w, s) ==
    /\ Pending(w, s, "view", "handling")
    /\ Answer(w, s, ContextRead(w, s))
    /\ UNCHANGED <<versions, session>>

\* POST /api/storage/acknowledge.
AcknowledgeStorage(w, s) ==
    /\ Pending(w, s, "acknowledge", "sent") /\ session_ok
    /\ request[w][s].context = vault.protection
    /\ plaintext_acknowledged_context' = vault.protection
    /\ Answer(w, s, With(request[w][s], "answered"))
    /\ UNCHANGED <<versions, gui_session_lock, gui_bootstrap_used,
                   gui_session_expires_at, sessions>>

\* POST /api/profile compares contexts ...
CheckSave(w, s) ==
    /\ Pending(w, s, "save", "sent") /\ session_ok
    /\ request[w][s].context = vault.protection
    /\ vault.protection = "plain-json" =>
           plaintext_acknowledged_context = "plain-json"
    /\ Answer(w, s, With(request[w][s], "handling"))
    /\ UNCHANGED <<versions, session>>

\* ... and save_profile_fields revisions, under the lock of the vault.
WriteSave(w, s) ==
    /\ Pending(w, s, "save", "handling")
    /\ request[w][s].revision = revision
    /\ versions' = Append(versions,
           [fields |-> request[w][s].fields,
            protection |-> vault.protection, writer |-> w])
    /\ Answer(w, s, With(request[w][s], "answered"))
    /\ UNCHANGED session

-----------------------------------------------------------------------------
(* The script goes on after an await.                                      *)

Resume(w) ==
    UNCHANGED <<versions, session, stage, now, acts, history>>

\* Mutant: the window takes over the acknowledgement the server holds.
ViewedAcknowledged(w, s) ==
    LET r == request[w][s]
    IN [page[w] EXCEPT !.fields = r.fields, !.revision = r.revision,
                       !.context = r.context,
                       !.acknowledged = plaintext_acknowledged_context]

\* load: the answer replaces what the window shows.
Viewed(w, s) ==
    LET r == request[w][s]
        changed == page[w].context # None /\ page[w].context # r.context
    IN [page[w] EXCEPT !.fields = r.fields, !.revision = r.revision,
                       !.context = r.context,
                       !.acknowledged = IF changed THEN None ELSE @]

TakeView(w, s) ==
    /\ Pending(w, s, "view", "answered")
    /\ Show(w, Viewed(w, s))
    /\ Send(w, s, NewRequest("panels", request[w][s].by_timer, page[w]))
    /\ Resume(w)

\* GET /api/consent/requests and GET /api/audit, after which load is done.
TakePanels(w, s) ==
    /\ Pending(w, s, "panels", "sent") /\ session_ok
    /\ Show(w, Said(w, "saved"))
    /\ Send(w, s, None)
    /\ Resume(w)

\* Mutant: the acknowledgement is a flag and not bound to a context.
AcknowledgedAtLarge(w) == [Said(w, "saving") EXCEPT !.acknowledged = "yes"]

\* The acknowledgement counts for the context that is shown by now.
Acknowledged(w) ==
    [Said(w, "saving") EXCEPT !.acknowledged = page[w].context]

TakeAcknowledgement(w, s) ==
    /\ Pending(w, s, "acknowledge", "answered")
    /\ Show(w, Acknowledged(w))
    /\ Send(w, s, NewRequest("save", FALSE, page[w]))
    /\ Resume(w)

TakeSaved(w, s) ==
    /\ Pending(w, s, "save", "answered")
    /\ Show(w, Said(w, "saved"))
    /\ Send(w, s, NewRequest("view", request[w][s].by_timer, page[w]))
    /\ Resume(w)

\* Mutant: a failed save only clears the acknowledgement.
FailedQuietly(w, s) ==
    IF request[w][s].kind = "save" THEN [page[w] EXCEPT !.acknowledged = None]
    ELSE Said(w, "error")

\* A failed save, and any failure under the timer, voids the acknowledgement.
Failed(w, s) ==
    IF request[w][s].kind = "save" \/ request[w][s].by_timer
    THEN [Said(w, "error") EXCEPT !.acknowledged = None]
    ELSE Said(w, "error")

(***************************************************************************)
(* The request was refused (403 session, 409 context or revision, 428      *)
(* acknowledgement), the handler failed, or the connection broke, be it    *)
(* after the handler was done: the script cannot tell and does the same.   *)
(* Nothing hangs on when exactly the handler gave up.                      *)
(***************************************************************************)
TakeFailure(w, s) ==
    /\ request[w][s] # None
    /\ Show(w, Failed(w, s))
    /\ Send(w, s, None)
    /\ Resume(w)

-----------------------------------------------------------------------------
(* Around the server.                                                      *)

Events == now + Cardinality({i \in 2..revision : versions[i].writer = None})

\* The CLI sets a field, encrypts or decrypts.
Elsewhere ==
    /\ Events < MaxEvents
    /\ \E c \in Contexts :
         LET text == IF c = vault.protection THEN MaxActs + revision
                                             ELSE vault.fields
         IN versions' = Append(versions,
                [fields |-> text, protection |-> c, writer |-> None])
    /\ UNCHANGED <<session, stage, page, request, now, acts, history>>

Tick ==
    /\ Events < MaxEvents
    /\ now' = now + 1
    /\ UNCHANGED <<versions, session, stage, page, request, acts, history>>

Serve(w, s) ==
    \/ ViewFields(w, s) \/ ViewContext(w, s)
    \/ AcknowledgeStorage(w, s) \/ CheckSave(w, s) \/ WriteSave(w, s)

Take(w, s) ==
    \/ TakeView(w, s) \/ TakePanels(w, s) \/ TakeAcknowledgement(w, s)
    \/ TakeSaved(w, s) \/ TakeFailure(w, s)

Next ==
    \/ \E w \in Windows :
         \/ exchange_bootstrap_token(w) \/ FinishExchange(w) \/ Open(w)
         \/ Input(w) \/ Timer(w) \/ SaveClick(w) \/ ReloadClick(w)
         \/ \E s \in Slots : Serve(w, s) \/ Take(w, s)
    \/ Elsewhere
    \/ Tick

Spec == Init /\ [][Next]_vars

-----------------------------------------------------------------------------
(* Properties.                                                             *)

(***************************************************************************)
(* One window at most gets the session for the token, however many ask for *)
(* it at once (gui.py:459).                                                *)
(***************************************************************************)
OneTimeToken == Cardinality(sessions) <= 1

(***************************************************************************)
(* No window stores plaintext unless its own user has agreed to, though    *)
(* the server keeps one acknowledgement for all of them (gui.py:658).      *)
(***************************************************************************)
PlaintextSavesWereConfirmed ==
    \A i \in 2..revision :
        versions[i].protection = "plain-json" =>
            versions[i].writer \in confirmed \cup {None}

(***************************************************************************)
(* "Saved" can be relied on: the window then shows the profile of the      *)
(* revision its next save will name, and what its user typed last has been *)
(* stored.  Text typed while a request is under way is excepted: it may be *)
(* lost to the answer (gui.py:278-287).                                    *)
(***************************************************************************)
SavedMeansStored ==
    \A w \in Windows :
        page[w].message = "saved" /\ Quiet(w) /\ w \notin hasty =>
            /\ page[w].fields = versions[page[w].revision].fields
            /\ typed[w] # None =>
                 \E i \in 2..revision : /\ versions[i].writer = w
                                        /\ versions[i].fields = typed[w]

(***************************************************************************)
(* A window that says "unsaved" or "saving" is about to do something about *)
(* it: a timer runs or a request is under way.  Text that is not stored is *)
(* not left behind under such a promise (gui.py:273-277, 292-312).         *)
(***************************************************************************)
EditsAreNotForgotten ==
    \A w \in Windows :
        /\ page[w].message = "unsaved" => page[w].timer \/ ~Quiet(w)
        /\ page[w].message = "saving" => ~Quiet(w)
=============================================================================
