------------------------------ MODULE McpServer ------------------------------
(***************************************************************************)
(* The MCP stdio server (agent_personal_vault/mcp_server.py).              *)
(*                                                                         *)
(* A client writes lines; the server reads them in bounded chunks, skips   *)
(* or drains what it will not take, and answers the others one by one.     *)
(* Only apv.request_consent changes anything: it leaves a pending request  *)
(* in the consent file, which people resolve in the GUI or the CLI and     *)
(* which outlives the server.  How that file is written is the subject of  *)
(* Consent; here a request appears in one step, and what follows it can    *)
(* still fail.                                                             *)
(***************************************************************************)
EXTENDS Naturals, Sequences, FiniteSets

CONSTANTS
    MaxMessage,  \* MAX_MCP_MESSAGE_BYTES
    Lines,       \* what the client may write
    MaxLines,    \* bound on the lines written to one server
    MaxServers   \* bound on the servers started

VARIABLES
    sent,      \* the lines written to the server
    closed,    \* whether the client has closed the server's input
    done,      \* how many of the lines the server has finished
    left,      \* how much of the line after them is still unread
    pc,        \* what the server is doing
    answers,   \* what it has answered, in order
    requests,  \* the consent requests, oldest first
    server     \* the number of the server (servers follow one another)

input == <<sent, closed>>
vars == <<input, done, left, pc, answers, requests, server>>

\* What a line holds: nothing, what is not a message, the notification that
\* is not answered, what has a fixed answer, what has none, arguments that do
\* not fit the tool, a tool that reads the vault, and apv.request_consent.
Kinds == {"blank", "malformed", "initialized", "static", "unknown",
          "invalid", "read", "request"}
\* size counts the newline, which only the last line may lack.
Line == [kind : Kinds, size : Nat \ {0}, ended : BOOLEAN]
Codes == {"result", "too large", "parse error", "not found",
          "invalid params", "internal error"}
ConsentRequest == [server : Nat, line : Nat,
                   status : {"pending", "approved", "denied"}]

ASSUME LinesAssumption == Lines \subseteq [kind : Kinds, size : Nat \ {0}]
ASSUME BoundsAssumption ==
    /\ MaxMessage \in Nat \ {0}
    /\ MaxLines \in Nat /\ MaxServers \in Nat

Init ==
    /\ sent = <<>> /\ closed = FALSE
    /\ done = 0 /\ left = 0
    /\ pc = "next"
    /\ answers = <<>>
    /\ requests = <<>>
    /\ server = 1

line == sent[done + 1]

-----------------------------------------------------------------------------
(* The client.                                                             *)

Write ==
    /\ ~closed /\ pc # "ended" /\ Len(sent) < MaxLines
    /\ \E l \in Lines :
         sent' = Append(sent, [kind |-> l.kind, size |-> l.size, ended |-> TRUE])
    /\ UNCHANGED <<closed, done, left, pc, answers, requests, server>>

\* The client closes, perhaps in the middle of a line.
Close ==
    /\ ~closed /\ pc # "ended"
    /\ closed' = TRUE
    /\ \/ UNCHANGED sent
       \/ /\ Len(sent) < MaxLines
          /\ \E l \in Lines :
               sent' = Append(sent, [kind |-> l.kind, size |-> l.size,
                                     ended |-> FALSE])
    /\ UNCHANGED <<done, left, pc, answers, requests, server>>

\* The server is killed, or cannot write its answer.
Kill ==
    /\ pc # "ended"
    /\ pc' = "ended"
    /\ UNCHANGED <<input, done, left, answers, requests, server>>

\* A new server reads from a new pipe.
Start ==
    /\ pc = "ended" /\ server < MaxServers
    /\ server' = server + 1
    /\ sent' = <<>> /\ closed' = FALSE
    /\ done' = 0 /\ left' = 0
    /\ pc' = "next"
    /\ answers' = <<>>
    /\ UNCHANGED requests

-----------------------------------------------------------------------------
(* Reading.                                                                *)

\* readline(MAX_MCP_MESSAGE_BYTES + 1) of what is left of the line.
Chunk == IF left <= MaxMessage + 1 THEN left ELSE MaxMessage + 1

NextLine(code) ==
    /\ done' = done + 1
    /\ left' = 0
    /\ pc' = "next"
    /\ answers' = IF code = "none" THEN answers ELSE Append(answers, code)

\* A line arrives, or the input is at its end.
Arrive ==
    /\ pc = "next"
    /\ \/ /\ done < Len(sent)
          /\ pc' = "reading" /\ left' = line.size
       \/ /\ done = Len(sent) /\ closed
          /\ pc' = "ended" /\ left' = 0
    /\ UNCHANGED <<input, done, answers, requests, server>>

\* Mutant: the rest of a long line is left for the next reading.
AnswerAtOnce ==
    /\ left' = left - Chunk
    /\ pc' = "reading"
    /\ answers' = Append(answers, "too large")
    /\ UNCHANGED done

DrainFirst ==
    /\ left' = left - Chunk
    /\ pc' = "draining"
    /\ UNCHANGED <<done, answers>>

\* The first chunk.  A chunk that is not too long is the whole line.
Read ==
    /\ pc = "reading"
    /\ \/ /\ Chunk <= MaxMessage
          /\ pc' = "handling"
          /\ UNCHANGED <<done, left, answers>>
       \/ /\ Chunk > MaxMessage
          /\ Chunk = left /\ line.ended
          /\ NextLine("too large")
       \/ /\ Chunk > MaxMessage
          /\ ~(Chunk = left /\ line.ended)
          /\ DrainFirst
    /\ UNCHANGED <<input, requests, server>>

\* Mutant: draining looks for the newline alone.
NewlineFound == Chunk = left /\ line.ended

\* The chunk ends with the newline, or there is no more.
Drained == IF left = 0 THEN TRUE ELSE Chunk = left /\ line.ended

Drain ==
    /\ pc = "draining"
    /\ IF Drained THEN NextLine("too large")
       ELSE /\ left' = left - Chunk
            /\ UNCHANGED <<done, pc, answers>>
    /\ UNCHANGED <<input, requests, server>>

-----------------------------------------------------------------------------
(* Handling.                                                               *)

\* What the kinds without a tool that looks at the vault are answered.
Reply(kind) ==
    CASE kind \in {"blank", "initialized"} -> "none"
      [] kind = "malformed" -> "parse error"
      [] kind = "static" -> "result"
      [] kind = "unknown" -> "not found"
      [] kind = "invalid" -> "invalid params"

\* A tool fails because of the vault, the passphrase, the consent file, ...
\* A vault without a schema raises KeyError, and is answered like a tool that
\* does not exist.
Failures == {"not found", "invalid params", "internal error"}

Handle ==
    /\ pc = "handling"
    /\ \/ /\ line.kind \notin {"read", "request"}
          /\ NextLine(Reply(line.kind))
       \/ /\ line.kind = "read"
          /\ \E code \in Failures \cup {"result"} : NextLine(code)
       \/ /\ line.kind = "request"
          /\ \E code \in Failures : NextLine(code)
    /\ UNCHANGED <<input, requests, server>>

\* create_consent_request has written the consent file ...
Request ==
    /\ pc = "handling" /\ line.kind = "request"
    /\ requests' = Append(requests, [server |-> server, line |-> done + 1,
                                     status |-> "pending"])
    /\ pc' = "requested"
    /\ UNCHANGED <<input, done, left, answers, server>>

\* Mutant: a failure after the request has been written is retried.
TryAgain ==
    pc' = "handling" /\ UNCHANGED <<done, left, answers>>

\* What comes after the write looks up no schema.
FailLate == \E code \in Failures \ {"not found"} : NextLine(code)

\* ... and must still record "committed" and "delivered".
Requested ==
    /\ pc = "requested"
    /\ NextLine("result") \/ FailLate
    /\ UNCHANGED <<input, requests, server>>

-----------------------------------------------------------------------------

\* A person approves or denies a request, before or after it is answered.
Resolve ==
    /\ \E i \in DOMAIN requests :
         /\ requests[i].status = "pending"
         /\ \E s \in {"approved", "denied"} :
              requests' = [requests EXCEPT ![i].status = s]
    /\ UNCHANGED <<input, done, left, pc, answers, server>>

Serve == Arrive \/ Read \/ Drain \/ Handle \/ Request \/ Requested

Next == Write \/ Close \/ Kill \/ Start \/ Serve \/ Resolve

\* The server is one loop that runs as long as there is input.
Spec == Init /\ [][Next]_vars /\ WF_vars(Serve)

-----------------------------------------------------------------------------
(* Properties.                                                             *)

TypeOK ==
    /\ sent \in Seq(Line) /\ closed \in BOOLEAN
    /\ done \in 0..Len(sent) /\ left \in Nat
    /\ pc \in {"next", "reading", "draining", "handling", "requested", "ended"}
    /\ pc \in {"reading", "draining", "handling", "requested"} =>
           done < Len(sent)
    /\ answers \in Seq(Codes)
    /\ requests \in Seq(ConsentRequest)
    /\ server \in Nat

\* What a line may be answered, from the line alone.
Due(l) ==
    IF l.size > MaxMessage THEN {"too large"}
    ELSE CASE l.kind \in {"blank", "initialized"} -> {}
           [] l.kind \in {"read", "request"} -> Failures \cup {"result"}
           [] OTHER -> {Reply(l.kind)}

Answerable(l) == Due(l) # {}

\* How many of the lines up to line i call for an answer.
Answered(i) == Cardinality({j \in 1..i : Answerable(sent[j])})

\* The answer to line i: its position is the number of such lines.
AnswerTo(i) == answers[Answered(i)]

(***************************************************************************)
(* Every line that calls for an answer gets exactly one, in order, and     *)
(* nothing else is answered: no part of a line that is too long is taken   *)
(* for a message, and the line after it is (mcp_server.py:221-232).        *)
(***************************************************************************)
AnswersFollowLines ==
    /\ Len(answers) = Answered(done)
    /\ \A i \in 1..done : Answerable(sent[i]) => AnswerTo(i) \in Due(sent[i])

(***************************************************************************)
(* A request that people are asked to resolve comes from one request line, *)
(* and no line makes two, whatever it was answered; a line answered with   *)
(* a result has made its request (mcp_server.py:156-177).                  *)
(***************************************************************************)
RequestsFollowLines ==
    LET mine == {i \in DOMAIN requests : requests[i].server = server}
    IN /\ \A i \in mine :
            /\ sent[requests[i].line].kind = "request"
            /\ sent[requests[i].line].size <= MaxMessage
            /\ \A j \in mine : requests[i].line = requests[j].line => i = j
       /\ \A n \in 1..done :
            sent[n].kind = "request" /\ AnswerTo(n) = "result" =>
                \E i \in mine : requests[i].line = n

(***************************************************************************)
(* Unless it is killed, the server finishes every line it is sent and ends *)
(* when its input does, also in the middle of a line that is too long      *)
(* (mcp_server.py:226).                                                    *)
(***************************************************************************)
LinesAreFinished ==
    /\ done < Len(sent) ~> done = Len(sent) \/ pc = "ended"
    /\ closed ~> pc = "ended"
=============================================================================
