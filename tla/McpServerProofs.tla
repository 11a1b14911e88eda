--------------------------- MODULE McpServerProofs ---------------------------
(***************************************************************************)
(* Proofs about McpServer for every limit, every set of lines and every    *)
(* number of lines and servers.                                            *)
(***************************************************************************)
EXTENDS McpServer, FiniteSetTheorems, SequenceTheorems, TLAPS

(***************************************************************************)
(* What the server knows of the line it is at: a line that is handled has  *)
(* been read whole, a line that is drained is too long, and of a line that *)
(* is being answered with its request the request is in the file.          *)
(***************************************************************************)
LineInv ==
    /\ pc = "reading" => left = line.size
    /\ pc = "draining" => line.size > MaxMessage
    /\ pc \in {"handling", "requested"} => line.size <= MaxMessage
    /\ pc = "requested" =>
         /\ line.kind = "request"
         /\ \E i \in DOMAIN requests :
              requests[i].server = server /\ requests[i].line = done + 1

\* A request of this server belongs to a line it has finished, or to the one
\* it is answering or was answering when it was killed.
Belongs(i) ==
    /\ requests[i].server <= server
    /\ requests[i].server = server =>
         /\ requests[i].line \in 1 .. Len(sent)
         /\ \/ requests[i].line <= done
            \/ requests[i].line = done + 1 /\ pc \in {"requested", "ended"}

RequestInv == \A i \in DOMAIN requests : Belongs(i)

IInv ==
    /\ TypeOK /\ LineInv /\ RequestInv
    /\ AnswersFollowLines /\ RequestsFollowLines

-----------------------------------------------------------------------------
(* Counting the lines that call for an answer.                             *)

LEMMA Counted ==
    ASSUME NEW n \in Nat
    PROVE  /\ IsFiniteSet({j \in 1 .. n : Answerable(sent[j])})
           /\ Answered(n) \in Nat
<1>1. IsFiniteSet(1 .. n)
  BY FS_Interval
<1>2. {j \in 1 .. n : Answerable(sent[j])} \in SUBSET (1 .. n)
  OBVIOUS
<1>3. QED
  BY <1>1, <1>2, FS_Subset, FS_CardinalityType DEF Answered

LEMMA NothingCounted == Answered(0) = 0
<1>1. {j \in 1 .. 0 : Answerable(sent[j])} = {}
  OBVIOUS
<1>2. QED
  BY <1>1, FS_EmptySet DEF Answered

LEMMA OneMoreCounted ==
    ASSUME NEW n \in Nat
    PROVE  Answered(n + 1) =
               IF Answerable(sent[n + 1]) THEN Answered(n) + 1
               ELSE Answered(n)
<1> DEFINE S == {j \in 1 .. n : Answerable(sent[j])}
<1>1. IsFiniteSet(S)
  BY Counted
<1>2. CASE Answerable(sent[n + 1])
  <2>1. {j \in 1 .. n + 1 : Answerable(sent[j])} = S \cup {n + 1}
    BY <1>2
  <2>2. n + 1 \notin S
    OBVIOUS
  <2> HIDE DEF S
  <2>3. Cardinality(S \cup {n + 1}) = Cardinality(S) + 1
    BY <1>1, <2>2, FS_AddElement
  <2>4. QED
    BY <1>2, <2>1, <2>3 DEF Answered, S
<1>3. CASE ~Answerable(sent[n + 1])
  <2>1. {j \in 1 .. n + 1 : Answerable(sent[j])} = S
    BY <1>3
  <2>2. QED
    BY <1>3, <2>1 DEF Answered
<1>4. QED
  BY <1>2, <1>3

\* The answer to a line is among the answers to the lines up to a later one.
LEMMA CountedInOrder ==
    ASSUME NEW n \in Nat, NEW i \in 1 .. n, Answerable(sent[i])
    PROVE  Answered(i) \in 1 .. Answered(n)
<1> DEFINE upTo == {j \in 1 .. i : Answerable(sent[j])}
           all == {j \in 1 .. n : Answerable(sent[j])}
<1>1. /\ IsFiniteSet(upTo) /\ IsFiniteSet(all)
      /\ Answered(i) \in Nat /\ Answered(n) \in Nat
  BY Counted
<1>2. upTo \in SUBSET all /\ i \in upTo
  OBVIOUS
<1>3. Answered(i) = Cardinality(upTo) /\ Answered(n) = Cardinality(all)
  BY DEF Answered
<1> HIDE DEF upTo, all
<1>4. Cardinality(upTo) <= Cardinality(all)
  BY <1>1, <1>2, FS_Subset
<1>5. Cardinality(upTo) # 0
  BY <1>1, <1>2, FS_EmptySet
<1>6. QED
  BY <1>1, <1>3, <1>4, <1>5

\* Lines that arrive later do not count.
LEMMA SameCount ==
    ASSUME NEW n \in Nat, \A i \in 1 .. n : sent'[i] = sent[i]
    PROVE  Answered(n)' = Answered(n)
<1>1. {j \in 1 .. n : Answerable(sent[j])}' =
          {j \in 1 .. n : Answerable(sent[j])}
  BY DEF Answerable, Due, Reply
<1>2. QED
  BY <1>1 DEF Answered

-----------------------------------------------------------------------------
(* What a line is due.                                                     *)

LEMMA DueToLongLine ==
    ASSUME NEW l, l.size > MaxMessage
    PROVE  Due(l) = {"too large"} /\ Answerable(l)
  BY DEF Due, Answerable

LEMMA DueToRequest ==
    ASSUME NEW l, NEW n \in Nat, l.size = n, n <= MaxMessage,
           l.kind \in {"read", "request"}
    PROVE  Due(l) = Failures \cup {"result"} /\ Answerable(l)
<1>1. ~(l.size > MaxMessage)
  BY BoundsAssumption
<1>2. Due(l) = Failures \cup {"result"}
  BY <1>1 DEF Due
<1>3. QED
  BY <1>2 DEF Answerable

LEMMA DueToOther ==
    ASSUME NEW l, NEW n \in Nat, l.size = n, n <= MaxMessage,
           l.kind \in Kinds \ {"read", "request"}
    PROVE  /\ Reply(l.kind) \in Codes \cup {"none"}
           /\ Reply(l.kind) = "none" => ~Answerable(l)
           /\ Reply(l.kind) # "none" =>
                 Answerable(l) /\ Reply(l.kind) \in Due(l)
<1>1. ~(l.size > MaxMessage)
  BY BoundsAssumption
<1>2. CASE l.kind \in {"blank", "initialized"}
  <2>1. Due(l) = {} /\ Reply(l.kind) = "none"
    BY <1>1, <1>2 DEF Due, Reply
  <2>2. QED
    BY <2>1 DEF Answerable
<1>3. CASE l.kind \notin {"blank", "initialized"}
  <2>1. Due(l) = {Reply(l.kind)}
    BY <1>1, <1>3 DEF Due
  <2>2. Reply(l.kind) \in Codes /\ Reply(l.kind) # "none"
    BY <1>3 DEF Reply, Codes, Kinds
  <2>3. QED
    BY <2>1, <2>2 DEF Answerable
<1>4. QED
  BY <1>2, <1>3

-----------------------------------------------------------------------------
(* The steps.                                                              *)

LEMMA AtALine ==
    ASSUME TypeOK
    PROVE  /\ Len(sent) \in Nat /\ done \in Nat /\ done <= Len(sent)
           /\ \A i \in 1 .. Len(sent) :
                sent[i] \in Line /\ sent[i].size \in Nat \ {0}
                                 /\ sent[i].kind \in Kinds
           /\ done < Len(sent) =>
                /\ line \in Line /\ line.size \in Nat \ {0}
                /\ line.kind \in Kinds /\ done + 1 \in 1 .. Len(sent)
<1>1. /\ Len(sent) \in Nat /\ done \in Nat /\ done <= Len(sent)
      /\ \A i \in 1 .. Len(sent) : sent[i] \in Line
  BY DEF TypeOK
<1>2. \A l \in Line : l.size \in Nat \ {0} /\ l.kind \in Kinds
  BY DEF Line
<1>3. QED
  BY <1>1, <1>2 DEF line

LEMMA RequestsAreDue ==
    ASSUME TypeOK, NEW n \in 1 .. Len(sent), sent[n].kind = "request"
    PROVE  Answerable(sent[n])
<1>1. sent[n].size \in Nat
  BY AtALine
<1>2. CASE sent[n].size > MaxMessage
  BY <1>2, DueToLongLine
<1>3. CASE sent[n].size <= MaxMessage
  BY <1>1, <1>3, DueToRequest
<1>4. QED
  BY <1>1, <1>2, <1>3, BoundsAssumption

\* A line is finished with the answer it is due.
LEMMA AnswerGiven ==
    ASSUME IInv, NEW code \in Codes \cup {"none"}, done < Len(sent),
           NextLine(code), UNCHANGED input,
           code = "none" => ~Answerable(line),
           code # "none" => Answerable(line) /\ code \in Due(line)
    PROVE  /\ answers' \in Seq(Codes)
           /\ AnswersFollowLines'
           /\ \A n \in 1 .. done :
                Answerable(sent[n]) => AnswerTo(n)' = AnswerTo(n)
           /\ \A n \in Nat :
                n = done + 1 /\ code # "none" => AnswerTo(n)' = code
<1>0. PICK last \in Nat : last = done + 1
  BY AtALine DEF IInv
<1>1. /\ Len(sent) \in Nat /\ done \in Nat /\ sent' = sent
      /\ done' = last /\ last = done + 1
      /\ answers \in Seq(Codes) /\ Len(answers) = Answered(done)
      /\ Answered(done) \in Nat
      /\ answers' = IF code = "none" THEN answers ELSE Append(answers, code)
  BY <1>0, AtALine, Counted
  DEF IInv, TypeOK, input, NextLine, AnswersFollowLines
<1>2. \A n \in Nat : Answered(n)' = Answered(n)
  BY <1>1, SameCount
<1>3. /\ answers' \in Seq(Codes)
      /\ \A k \in 1 .. Answered(done) : answers'[k] = answers[k]
      /\ code # "none" => /\ Len(answers') = Answered(done) + 1
                          /\ answers'[Answered(done) + 1] = code
      /\ code = "none" => Len(answers') = Answered(done)
  BY <1>1
<1>4. /\ code # "none" => Answered(last) = Answered(done) + 1
      /\ code = "none" => Answered(last) = Answered(done)
  BY <1>1, OneMoreCounted DEF line
<1>5. ASSUME NEW n \in 1 .. done, Answerable(sent[n])
      PROVE  AnswerTo(n)' = AnswerTo(n)
  <2>1. Answered(n) \in 1 .. Answered(done) /\ n \in Nat
    BY <1>1, <1>5, CountedInOrder
  <2>2. AnswerTo(n)' = answers'[Answered(n)']
    BY DEF AnswerTo
  <2>3. QED
    BY <1>2, <1>3, <2>1, <2>2 DEF AnswerTo
<1>6. code # "none" => AnswerTo(last)' = code
  <2> SUFFICES ASSUME code # "none"
               PROVE  AnswerTo(last)' = code
    OBVIOUS
  <2>1. AnswerTo(last)' = answers'[Answered(last)']
    BY DEF AnswerTo
  <2>2. Answered(last)' = Answered(done) + 1
    BY <1>2, <1>4
  <2>3. QED
    BY <1>3, <2>1, <2>2
<1>7. AnswersFollowLines'
  <2>1. Len(answers') = Answered(last)'
    BY <1>2, <1>3, <1>4
  <2>2. ASSUME NEW n \in 1 .. last, Answerable(sent[n])
        PROVE  AnswerTo(n)' \in Due(sent[n])
    <3>1. CASE n \in 1 .. done
      <4>1. AnswerTo(n) \in Due(sent[n])
        BY <2>2, <3>1 DEF IInv, AnswersFollowLines
      <4>2. QED
        BY <1>5, <2>2, <3>1, <4>1
    <3>2. CASE n = last
      <4>1. code # "none" /\ code \in Due(sent[n])
        BY <1>1, <2>2, <3>2 DEF line
      <4>2. QED
        BY <1>6, <3>2, <4>1
    <3>3. QED
      BY <1>1, <3>1, <3>2
  <2>3. \A n : /\ Answerable(sent[n])' <=> Answerable(sent[n])
               /\ Due(sent[n])' = Due(sent[n])
    BY <1>1 DEF Answerable, Due, Reply
  <2>4. QED
    BY <1>1, <2>1, <2>2, <2>3 DEF AnswersFollowLines
<1>8. QED
  BY <1>1, <1>3, <1>5, <1>6, <1>7

\* The request file stays, and so does what it says of this server's lines.
LEMMA LineFinished ==
    ASSUME IInv, NEW code \in Codes \cup {"none"},
           done < Len(sent), NextLine(code),
           UNCHANGED <<input, requests, server>>,
           code = "none" => ~Answerable(line),
           code # "none" => Answerable(line) /\ code \in Due(line),
           line.kind = "request" /\ code = "result" => pc = "requested"
    PROVE  IInv'
<1>1. /\ AnswersFollowLines' /\ answers' \in Seq(Codes)
      /\ \A n \in 1 .. done :
           Answerable(sent[n]) => AnswerTo(n)' = AnswerTo(n)
      /\ \A n \in Nat :
           n = done + 1 /\ code # "none" => AnswerTo(n)' = code
  BY AnswerGiven
<1>2. /\ done' = done + 1 /\ left' = 0 /\ pc' = "next"
      /\ sent' = sent /\ closed' = closed
      /\ requests' = requests /\ server' = server
  BY DEF NextLine, input
<1>3. /\ Len(sent) \in Nat /\ done \in Nat /\ done + 1 \in 1 .. Len(sent)
  BY AtALine DEF IInv
<1>4. TypeOK'
  BY <1>1, <1>2, <1>3 DEF IInv, TypeOK
<1>5. LineInv'
  BY <1>2 DEF LineInv
<1>6. RequestInv'
  BY <1>2, <1>3 DEF IInv, RequestInv, Belongs
<1>7. RequestsFollowLines'
  <2> DEFINE mine == {i \in DOMAIN requests : requests[i].server = server}
  <2>1. /\ \A i \in mine :
             /\ sent[requests[i].line].kind = "request"
             /\ sent[requests[i].line].size <= MaxMessage
             /\ \A j \in mine : requests[i].line = requests[j].line => i = j
        /\ \A n \in 1..done :
             sent[n].kind = "request" /\ AnswerTo(n) = "result" =>
                 \E i \in mine : requests[i].line = n
    BY DEF IInv, RequestsFollowLines
  <2>2. ASSUME NEW n \in 1 .. done', sent[n].kind = "request",
               AnswerTo(n)' = "result"
        PROVE  \E i \in mine : requests[i].line = n
    <3>1. Answerable(sent[n])
      BY <1>2, <1>3, <2>2, RequestsAreDue DEF IInv
    <3>2. CASE n \in 1 .. done
      BY <1>1, <2>1, <2>2, <3>1, <3>2
    <3>3. CASE n = done + 1
      <4>1. /\ sent[n] = line /\ n \in Nat
        BY <1>3, <3>3 DEF line
      <4>2. code # "none" /\ line.kind = "request"
        BY <2>2, <3>1, <4>1
      <4>3. code = "result"
        BY <1>1, <2>2, <3>3, <4>1, <4>2
      <4>4. pc = "requested"
        BY <4>2, <4>3
      <4>5. QED
        BY <3>3, <4>4 DEF IInv, LineInv
    <3>4. QED
      BY <1>2, <1>3, <3>2, <3>3
  <2>3. mine' = mine
    BY <1>2
  <2> HIDE DEF mine
  <2>4. \A n \in 1 .. done' :
            sent'[n].kind = "request" /\ AnswerTo(n)' = "result" =>
                \E i \in mine' : requests'[i].line = n
    BY <1>2, <2>2, <2>3
  <2>5. \A i \in mine' :
            /\ sent'[requests'[i].line].kind = "request"
            /\ sent'[requests'[i].line].size <= MaxMessage
            /\ \A j \in mine' :
                  requests'[i].line = requests'[j].line => i = j
    BY <1>2, <2>1, <2>3
  <2> USE DEF mine
  <2>6. QED
    BY <2>4, <2>5 DEF RequestsFollowLines
<1>8. QED
  BY <1>1, <1>4, <1>5, <1>6, <1>7 DEF IInv

\* A step that leaves the answers and the requests alone, and the lines up
\* to the one being handled.
LEMMA QuietStep ==
    ASSUME IInv, TypeOK', LineInv',
           UNCHANGED <<done, answers, requests, server>>,
           \/ sent' = sent
           \/ \E l \in Line : sent' = Append(sent, l),
           pc = "requested" => pc' \in {"requested", "ended"},
           pc = "ended" => pc' = "ended"
    PROVE  IInv'
<1>1. /\ Len(sent) \in Nat /\ done \in Nat /\ done <= Len(sent)
      /\ sent \in Seq(Line)
  BY AtALine DEF IInv, TypeOK
<1>2. /\ Len(sent') \in Nat /\ Len(sent) <= Len(sent')
      /\ \A i \in 1 .. Len(sent) : sent'[i] = sent[i]
  BY <1>1
<1>3. ASSUME NEW n \in 1 .. done
      PROVE  /\ AnswerTo(n)' = AnswerTo(n) /\ sent'[n] = sent[n]
             /\ Answerable(sent[n])' <=> Answerable(sent[n])
             /\ Due(sent[n])' = Due(sent[n])
  <2>1. n \in Nat /\ \A i \in 1 .. n : sent'[i] = sent[i]
    BY <1>1, <1>2
  <2>2. Answered(n)' = Answered(n)
    BY <2>1, SameCount
  <2>3. sent'[n] = sent[n]
    BY <2>1
  <2>4. QED
    BY <2>2, <2>3 DEF AnswerTo, Answerable, Due, Reply
<1>4. Answered(done)' = Answered(done)
  <2>1. PICK n \in Nat : n = done
    BY <1>1
  <2>2. Answered(n)' = Answered(n)
    BY <1>1, <1>2, <2>1, SameCount
  <2>3. QED
    BY <2>1, <2>2
<1>5. AnswersFollowLines'
  BY <1>3, <1>4 DEF IInv, AnswersFollowLines
<1>6. RequestInv'
  BY <1>1, <1>2 DEF IInv, RequestInv, Belongs
<1>7. RequestsFollowLines'
  <2> DEFINE mine == {i \in DOMAIN requests : requests[i].server = server}
  <2>1. /\ \A i \in mine :
             /\ sent[requests[i].line].kind = "request"
             /\ sent[requests[i].line].size <= MaxMessage
             /\ \A j \in mine : requests[i].line = requests[j].line => i = j
        /\ \A n \in 1..done :
             sent[n].kind = "request" /\ AnswerTo(n) = "result" =>
                 \E i \in mine : requests[i].line = n
    BY DEF IInv, RequestsFollowLines
  <2>2. \A i \in mine : sent'[requests[i].line] = sent[requests[i].line]
    BY <1>2 DEF IInv, RequestInv, Belongs
  <2>3. mine' = mine
    OBVIOUS
  <2> HIDE DEF mine
  <2>4. \A n \in 1 .. done' :
            sent'[n].kind = "request" /\ AnswerTo(n)' = "result" =>
                \E i \in mine' : requests'[i].line = n
    BY <1>3, <2>1, <2>3
  <2>5. \A i \in mine' :
            /\ sent'[requests'[i].line].kind = "request"
            /\ sent'[requests'[i].line].size <= MaxMessage
            /\ \A j \in mine' :
                  requests'[i].line = requests'[j].line => i = j
    BY <2>1, <2>2, <2>3
  <2> USE DEF mine
  <2>6. QED
    BY <2>4, <2>5 DEF RequestsFollowLines
<1>8. QED
  BY <1>5, <1>6, <1>7 DEF IInv

LEMMA ClientKeeps ==
    ASSUME IInv, Write \/ Close
    PROVE  IInv'
<1>1. /\ closed' \in BOOLEAN /\ pc # "ended"
      /\ UNCHANGED <<done, left, pc, answers, requests, server>>
  BY DEF Write, Close, IInv, TypeOK
<1>2. sent' = sent \/ \E l \in Line : sent' = Append(sent, l)
  BY LinesAssumption DEF Write, Close, Line
<1>3. /\ Len(sent) \in Nat /\ done \in Nat /\ done <= Len(sent)
      /\ sent \in Seq(Line)
  BY AtALine DEF IInv, TypeOK
<1>4. /\ sent' \in Seq(Line) /\ Len(sent') \in Nat
      /\ Len(sent) <= Len(sent')
      /\ \A i \in 1 .. Len(sent) : sent'[i] = sent[i]
  BY <1>2, <1>3
<1>5. TypeOK'
  BY <1>1, <1>3, <1>4 DEF IInv, TypeOK
<1>6. done < Len(sent) => line' = line
  BY <1>1, <1>3, <1>4 DEF line
<1>7. LineInv'
  BY <1>1, <1>6 DEF IInv, TypeOK, LineInv
<1>8. QED
  BY <1>1, <1>2, <1>5, <1>7, QuietStep

LEMMA KillKeeps ==
    ASSUME IInv, Kill
    PROVE  IInv'
<1>1. /\ pc' = "ended" /\ sent' = sent /\ closed' = closed
      /\ UNCHANGED <<done, left, answers, requests, server>>
  BY DEF Kill, input
<1>2. TypeOK' /\ LineInv'
  BY <1>1 DEF IInv, TypeOK, LineInv
<1>3. QED
  BY <1>1, <1>2, QuietStep

LEMMA ArriveKeeps ==
    ASSUME IInv, Arrive
    PROVE  IInv'
<1>1. /\ pc = "next" /\ sent' = sent /\ closed' = closed
      /\ UNCHANGED <<done, answers, requests, server>>
      /\ \/ done < Len(sent) /\ pc' = "reading" /\ left' = line.size
         \/ pc' = "ended" /\ left' = 0
  BY DEF Arrive, input
<1>2. left' \in Nat /\ (pc' = "reading" => left' = line'.size)
  BY <1>1, AtALine DEF IInv, line
<1>3. TypeOK' /\ LineInv'
  BY <1>1, <1>2 DEF IInv, TypeOK, LineInv
<1>4. QED
  BY <1>1, <1>3, QuietStep

LEMMA ChunkIs ==
    ASSUME IInv
    PROVE  /\ left \in Nat /\ Chunk \in Nat /\ Chunk <= left
           /\ left - Chunk \in Nat
           /\ Chunk <= MaxMessage <=> left <= MaxMessage
  BY BoundsAssumption DEF IInv, TypeOK, Chunk

\* What is too long gets that answer, wherever it is found out.
LEMMA TooLargeKeeps ==
    ASSUME IInv, done < Len(sent), line.size > MaxMessage,
           NextLine("too large"), UNCHANGED <<input, requests, server>>
    PROVE  IInv'
<1>1. Due(line) = {"too large"} /\ Answerable(line)
  BY DueToLongLine
<1>2. "too large" \in Codes \cup {"none"} /\ "too large" # "none"
  BY DEF Codes
<1>3. QED
  BY <1>1, <1>2, LineFinished

LEMMA DrainingKeeps ==
    ASSUME IInv, done < Len(sent), line.size > MaxMessage,
           pc \in {"reading", "draining"}, pc' = "draining",
           left' = left - Chunk,
           UNCHANGED <<input, done, answers, requests, server>>
    PROVE  IInv'
<1>1. left' \in Nat /\ sent' = sent /\ closed' = closed
  BY ChunkIs DEF input
<1>2. TypeOK' /\ LineInv'
  BY <1>1 DEF IInv, TypeOK, LineInv, line
<1>3. QED
  BY <1>1, <1>2, QuietStep

LEMMA ReadKeeps ==
    ASSUME IInv, Read
    PROVE  IInv'
<1>1. /\ pc = "reading" /\ left = line.size /\ done < Len(sent)
      /\ line.size \in Nat /\ UNCHANGED <<input, requests, server>>
  BY AtALine DEF IInv, TypeOK, LineInv, Read
<1>2. CASE Chunk <= MaxMessage
  <2>1. /\ pc' = "handling" /\ UNCHANGED <<done, left, answers>>
    <3>1. ~(Chunk > MaxMessage)
      BY <1>2, ChunkIs, BoundsAssumption
    <3>2. QED
      BY <3>1 DEF Read
  <2>2. line.size <= MaxMessage
    BY <1>1, <1>2, ChunkIs
  <2>3. TypeOK' /\ LineInv' /\ sent' = sent
    BY <1>1, <2>1, <2>2 DEF IInv, TypeOK, LineInv, line, input
  <2>4. QED
    BY <1>1, <2>1, <2>3, QuietStep
<1>3. CASE ~(Chunk <= MaxMessage)
  <2>1. line.size > MaxMessage
    BY <1>1, <1>3, ChunkIs, BoundsAssumption
  <2>2. CASE NextLine("too large")
    BY <1>1, <2>1, <2>2, TooLargeKeeps
  <2>3. CASE DrainFirst
    BY <1>1, <2>1, <2>3, DrainingKeeps DEF DrainFirst
  <2>4. QED
    BY <1>3, <2>2, <2>3 DEF Read
<1>4. QED
  BY <1>2, <1>3

LEMMA DrainKeeps ==
    ASSUME IInv, Drain
    PROVE  IInv'
<1>1. /\ pc = "draining" /\ done < Len(sent) /\ line.size > MaxMessage
      /\ UNCHANGED <<input, requests, server>>
  BY DEF IInv, TypeOK, LineInv, Drain
<1>2. CASE Drained
  BY <1>1, <1>2, TooLargeKeeps DEF Drain
<1>3. CASE ~Drained
  BY <1>1, <1>3, DrainingKeeps DEF Drain
<1>4. QED
  BY <1>2, <1>3

LEMMA HandleKeeps ==
    ASSUME IInv, Handle
    PROVE  IInv'
<1>1. /\ pc = "handling" /\ done < Len(sent)
      /\ line.size \in Nat /\ line.size <= MaxMessage
      /\ line.kind \in Kinds /\ UNCHANGED <<input, requests, server>>
  BY AtALine DEF IInv, TypeOK, LineInv, Handle
<1>2. CASE line.kind \notin {"read", "request"}
  <2>1. NextLine(Reply(line.kind))
    BY <1>2 DEF Handle
  <2>2. /\ Reply(line.kind) \in Codes \cup {"none"}
        /\ Reply(line.kind) = "none" => ~Answerable(line)
        /\ Reply(line.kind) # "none" =>
              Answerable(line) /\ Reply(line.kind) \in Due(line)
    BY <1>1, <1>2, DueToOther
  <2>3. QED
    BY <1>1, <1>2, <2>1, <2>2, LineFinished
<1>3. CASE line.kind \in {"read", "request"}
  <2>1. PICK code \in Failures \cup {"result"} :
            /\ NextLine(code)
            /\ line.kind = "request" => code \in Failures
    BY <1>3 DEF Handle, Failures
  <2>2. code \in Codes /\ code # "none"
    BY DEF Failures, Codes
  <2>3. Answerable(line) /\ code \in Due(line)
    BY <1>1, <1>3, DueToRequest
  <2>4. ~(line.kind = "request" /\ code = "result")
    BY <2>1 DEF Failures
  <2>5. code \in Codes \cup {"none"}
    BY <2>2
  <2>6. QED
    BY <1>1, <2>1, <2>2, <2>3, <2>4, <2>5, LineFinished
<1>4. QED
  BY <1>2, <1>3

LEMMA RequestedKeeps ==
    ASSUME IInv, Requested
    PROVE  IInv'
<1>1. /\ pc = "requested" /\ done < Len(sent)
      /\ line.size \in Nat /\ line.size <= MaxMessage
      /\ line.kind = "request" /\ UNCHANGED <<input, requests, server>>
  BY AtALine DEF IInv, TypeOK, LineInv, Requested
<1>2. PICK code \in Failures \cup {"result"} : NextLine(code)
  BY DEF Requested, FailLate, Failures
<1>3. code \in Codes \cup {"none"} /\ code # "none"
  BY DEF Failures, Codes
<1>4. Answerable(line) /\ code \in Due(line)
  BY <1>1, DueToRequest
<1>5. QED
  BY <1>1, <1>2, <1>3, <1>4, LineFinished

LEMMA AnswersStay ==
    ASSUME TypeOK, AnswersFollowLines, UNCHANGED <<sent, done, answers>>
    PROVE  AnswersFollowLines'
<1>1. PICK n \in Nat : n = done
  BY AtALine
<1>2. Answered(n)' = Answered(n)
  BY SameCount
<1>3. Answered(done)' = Answered(done)
  BY <1>1, <1>2
<1>4. \A i : /\ AnswerTo(i)' = AnswerTo(i) /\ Due(sent[i])' = Due(sent[i])
             /\ Answerable(sent[i])' <=> Answerable(sent[i])
  BY DEF AnswerTo, Answered, Answerable, Due, Reply
<1>5. QED
  BY <1>3, <1>4 DEF AnswersFollowLines

\* The request of a line that had none: the last one in the file.
LEMMA RequestKeeps ==
    ASSUME IInv, Request
    PROVE  IInv'
<1> DEFINE new == [server |-> server, line |-> done + 1,
                   status |-> "pending"]
           n == Len(requests)
<1>1. /\ pc = "handling" /\ line.kind = "request" /\ pc' = "requested"
      /\ requests' = Append(requests, new)
      /\ sent' = sent /\ closed' = closed
      /\ UNCHANGED <<done, left, answers, server>>
  BY DEF Request, input
<1>2. /\ done < Len(sent) /\ done \in Nat /\ done + 1 \in 1 .. Len(sent)
      /\ line.size <= MaxMessage /\ line = sent[done + 1]
      /\ Len(sent) \in Nat
  BY <1>1, AtALine DEF IInv, TypeOK, LineInv, line
<1>3. /\ new \in ConsentRequest /\ new.server = server
      /\ new.line = done + 1
  BY <1>2 DEF IInv, TypeOK, ConsentRequest
<1> HIDE DEF new
<1>4. /\ n \in Nat /\ requests' \in Seq(ConsentRequest)
      /\ DOMAIN requests = 1 .. n /\ DOMAIN requests' = 1 .. n + 1
      /\ requests'[n + 1] = new
      /\ \A i \in 1 .. n : requests'[i] = requests[i]
  BY <1>1, <1>3 DEF IInv, TypeOK
<1> HIDE DEF n
<1>5. TypeOK'
  BY <1>1, <1>2, <1>4 DEF IInv, TypeOK
<1>6. LineInv'
  <2>1. line' = line
    BY <1>1 DEF line
  <2>2. n + 1 \in DOMAIN requests'
    BY <1>4
  <2>3. \E i \in DOMAIN requests' :
            requests'[i].server = server' /\ requests'[i].line = done' + 1
    BY <1>1, <1>3, <1>4, <2>2
  <2>4. QED
    BY <1>1, <1>2, <2>1, <2>3 DEF LineInv
<1>7. ASSUME NEW i \in 1 .. n
      PROVE  requests[i].server <= server /\
             (requests[i].server = server =>
                requests[i].line \in 1 .. Len(sent)
                /\ requests[i].line <= done)
  BY <1>1, <1>4 DEF IInv, RequestInv, Belongs
<1>8. RequestInv'
  <2>1. server <= server
    BY DEF IInv, TypeOK
  <2>2. ASSUME NEW i \in 1 .. n + 1
        PROVE  Belongs(i)'
    <3>1. CASE i = n + 1
      BY <1>1, <1>2, <1>3, <1>4, <2>1, <3>1 DEF Belongs
    <3>2. CASE i \in 1 .. n
      BY <1>1, <1>4, <1>7, <3>2 DEF Belongs
    <3>3. QED
      BY <1>4, <3>1, <3>2
  <2>3. QED
    BY <1>4, <2>2 DEF RequestInv
<1>9. RequestsFollowLines'
  <2> DEFINE mine == {i \in DOMAIN requests : requests[i].server = server}
  <2>1. /\ \A i \in mine :
             /\ sent[requests[i].line].kind = "request"
             /\ sent[requests[i].line].size <= MaxMessage
             /\ \A j \in mine : requests[i].line = requests[j].line => i = j
        /\ \A k \in 1..done :
             sent[k].kind = "request" /\ AnswerTo(k) = "result" =>
                 \E i \in mine : requests[i].line = k
    BY DEF IInv, RequestsFollowLines
  <2>2. /\ mine' = mine \cup {n + 1}
        /\ \A i \in mine : /\ requests'[i] = requests[i] /\ i # n + 1
                           /\ requests[i].line <= done
                           /\ requests[i].line \in Nat
    <3>1. \A i \in mine : i \in 1 .. n /\ requests[i].server = server
      BY <1>4
    <3>2. mine' = mine \cup {n + 1}
      BY <1>1, <1>3, <1>4
    <3>3. QED
      BY <1>2, <1>4, <1>7, <3>1, <3>2
  <2> HIDE DEF mine
  <2>3. ASSUME NEW i \in mine'
        PROVE  /\ sent'[requests'[i].line].kind = "request"
               /\ sent'[requests'[i].line].size <= MaxMessage
               /\ \A j \in mine' :
                     requests'[i].line = requests'[j].line => i = j
    <3>1. CASE i \in mine
      <4>1. requests'[i].line # new.line
        BY <1>2, <1>3, <2>2, <3>1
      <4>2. requests'[i] = requests[i] /\ sent' = sent
        BY <1>1, <2>2, <3>1
      <4>3. ASSUME NEW j \in mine', requests'[i].line = requests'[j].line
            PROVE  i = j
        <5>1. j # n + 1
          BY <1>4, <4>1, <4>3
        <5>2. j \in mine /\ requests'[j] = requests[j]
          BY <2>2, <5>1
        <5>3. QED
          BY <2>1, <3>1, <4>2, <4>3, <5>2
      <4>4. QED
        BY <2>1, <3>1, <4>2, <4>3
    <3>2. CASE i = n + 1
      <4>1. \A j \in mine : requests'[j].line # new.line
        BY <1>2, <1>3, <2>2
      <4>2. QED
        BY <1>1, <1>2, <1>3, <1>4, <2>2, <3>2, <4>1
    <3>3. QED
      BY <2>2, <3>1, <3>2
  <2>4. \A k : AnswerTo(k)' = AnswerTo(k)
    BY <1>1 DEF AnswerTo, Answered, Answerable, Due, Reply
  <2>5. ASSUME NEW k \in 1 .. done', sent'[k].kind = "request",
               AnswerTo(k)' = "result"
        PROVE  \E i \in mine' : requests'[i].line = k
    <3>1. PICK i \in mine : requests[i].line = k
      BY <1>1, <2>1, <2>4, <2>5
    <3>2. i \in mine' /\ requests'[i].line = k
      BY <2>2, <3>1
    <3>3. QED
      BY <3>2
  <2> USE DEF mine
  <2>6. QED
    BY <2>3, <2>5 DEF RequestsFollowLines
<1>10. AnswersFollowLines'
  BY <1>1, AnswersStay DEF IInv
<1>11. QED
  BY <1>5, <1>6, <1>8, <1>9, <1>10 DEF IInv

\* A decision changes nothing but the status.
LEMMA ResolveKeeps ==
    ASSUME IInv, Resolve
    PROVE  IInv'
<1>1. PICK k \in DOMAIN requests, s \in {"approved", "denied"} :
          requests' = [requests EXCEPT ![k].status = s]
  BY DEF Resolve
<1>2. /\ sent' = sent /\ closed' = closed
      /\ UNCHANGED <<done, left, pc, answers, server>>
  BY DEF Resolve, input
<1>3. /\ requests \in Seq(ConsentRequest)
      /\ requests[k] \in ConsentRequest
  BY DEF IInv, TypeOK
<1>4. /\ [requests[k] EXCEPT !.status = s] \in ConsentRequest
      /\ [requests[k] EXCEPT !.status = s].server = requests[k].server
      /\ [requests[k] EXCEPT !.status = s].line = requests[k].line
  BY <1>3 DEF ConsentRequest
<1>5. requests' = [requests EXCEPT ![k] = [requests[k] EXCEPT !.status = s]]
  BY <1>1
<1>6. /\ requests' \in Seq(ConsentRequest)
      /\ DOMAIN requests' = DOMAIN requests
      /\ \A i \in DOMAIN requests :
           /\ requests'[i].server = requests[i].server
           /\ requests'[i].line = requests[i].line
  BY <1>3, <1>4, <1>5
<1>7. TypeOK' /\ LineInv'
  BY <1>2, <1>6 DEF IInv, TypeOK, LineInv, line
<1>8. RequestInv'
  BY <1>2, <1>6 DEF IInv, RequestInv, Belongs
<1>9. \A n : AnswerTo(n)' = AnswerTo(n)
  BY <1>2 DEF AnswerTo, Answered, Answerable, Due, Reply
<1>10. RequestsFollowLines'
  <2> DEFINE mine == {i \in DOMAIN requests : requests[i].server = server}
  <2>1. mine' = mine
    BY <1>2, <1>6
  <2>2. /\ \A i \in mine :
             /\ sent[requests[i].line].kind = "request"
             /\ sent[requests[i].line].size <= MaxMessage
             /\ \A j \in mine : requests[i].line = requests[j].line => i = j
        /\ \A n \in 1..done :
             sent[n].kind = "request" /\ AnswerTo(n) = "result" =>
                 \E i \in mine : requests[i].line = n
    BY DEF IInv, RequestsFollowLines
  <2>3. \A i \in mine : requests'[i].line = requests[i].line
    BY <1>6
  <2> HIDE DEF mine
  <2>4. /\ \A i \in mine' :
             /\ sent'[requests'[i].line].kind = "request"
             /\ sent'[requests'[i].line].size <= MaxMessage
             /\ \A j \in mine' :
                  requests'[i].line = requests'[j].line => i = j
        /\ \A n \in 1 .. done' :
             sent'[n].kind = "request" /\ AnswerTo(n)' = "result" =>
                 \E i \in mine' : requests'[i].line = n
    BY <1>2, <1>9, <2>1, <2>2, <2>3
  <2> USE DEF mine
  <2>5. QED
    BY <2>4 DEF RequestsFollowLines
<1>11. AnswersFollowLines'
  BY <1>2, AnswersStay DEF IInv
<1>12. QED
  BY <1>7, <1>8, <1>10, <1>11 DEF IInv

\* The requests in the file are another server's now.
LEMMA StartKeeps ==
    ASSUME IInv, Start
    PROVE  IInv'
<1>1. /\ sent' = <<>> /\ closed' = FALSE /\ done' = 0 /\ left' = 0
      /\ pc' = "next" /\ answers' = <<>> /\ requests' = requests
      /\ server' = server + 1 /\ server \in Nat
  BY DEF Start, IInv, TypeOK
<1>2. \A i \in DOMAIN requests :
          requests[i].server <= server /\ requests[i].server \in Nat
  <2>1. \A i \in DOMAIN requests : requests[i] \in ConsentRequest
    BY DEF IInv, TypeOK
  <2>2. QED
    BY <2>1 DEF IInv, RequestInv, Belongs, ConsentRequest
<1>3. \A i \in DOMAIN requests' :
          /\ requests'[i].server <= server'
          /\ requests'[i].server # server'
  BY <1>1, <1>2
<1>4. TypeOK' /\ LineInv'
  <2>1. /\ <<>> \in Seq(Line) /\ <<>> \in Seq(Codes)
        /\ Len(<<>>) = 0 /\ 0 \in 0 .. 0
    BY EmptySeq
  <2>2. sent' \in Seq(Line) /\ answers' \in Seq(Codes) /\ Len(sent') = 0
    BY <1>1, <2>1
  <2>3. requests' \in Seq(ConsentRequest) /\ server' \in Nat
    BY <1>1 DEF IInv, TypeOK
  <2>4. /\ done' \in 0 .. Len(sent') /\ left' \in Nat
        /\ closed' \in BOOLEAN
    <3>1. done' \in 0 .. Len(sent') /\ left' \in Nat
      BY <1>1, <2>2
    <3>2. closed' \in BOOLEAN
      BY <1>1, Zenon
    <3>3. QED
      BY <3>1, <3>2
  <2>5. TypeOK'
    BY <1>1, <2>2, <2>3, <2>4 DEF TypeOK
  <2>6. LineInv'
    BY <1>1 DEF LineInv
  <2>7. QED
    BY <2>5, <2>6
<1>5. RequestInv'
  BY <1>3 DEF RequestInv, Belongs
<1>6. RequestsFollowLines'
  BY <1>1, <1>3 DEF RequestsFollowLines
<1>7. AnswersFollowLines'
  <2>1. {j \in 1 .. 0 : Answerable(sent[j])}' = {}
    OBVIOUS
  <2>2. Answered(0)' = 0
    BY <2>1, FS_EmptySet DEF Answered
  <2>3. Len(answers') = Answered(done)'
    BY <1>1, <2>2
  <2>4. QED
    BY <1>1, <2>3 DEF AnswersFollowLines
<1>8. QED
  BY <1>4, <1>5, <1>6, <1>7 DEF IInv

LEMMA StutterKeeps ==
    ASSUME IInv, UNCHANGED vars
    PROVE  IInv'
<1>1. /\ sent' = sent /\ closed' = closed
      /\ UNCHANGED <<done, left, pc, answers, requests, server>>
  BY DEF vars, input
<1>2. TypeOK' /\ LineInv'
  BY <1>1 DEF IInv, TypeOK, LineInv, line
<1>3. QED
  BY <1>1, <1>2, QuietStep

LEMMA InitHolds == Init => IInv
<1> SUFFICES ASSUME Init PROVE IInv
  OBVIOUS
<1>1. TypeOK /\ LineInv /\ RequestInv
  <2>1. /\ <<>> \in Seq(Line) /\ <<>> \in Seq(Codes)
        /\ <<>> \in Seq(ConsentRequest) /\ Len(<<>>) = 0
    BY EmptySeq
  <2>2. /\ sent \in Seq(Line) /\ answers \in Seq(Codes)
        /\ requests \in Seq(ConsentRequest) /\ Len(sent) = 0
        /\ DOMAIN requests = {}
    BY <2>1 DEF Init
  <2>3. done \in 0 .. Len(sent) /\ left \in Nat /\ server \in Nat
    BY <2>2 DEF Init
  <2>4. TypeOK
    BY <2>2, <2>3 DEF Init, TypeOK
  <2>5. LineInv /\ RequestInv
    BY <2>2 DEF Init, LineInv, RequestInv
  <2>6. QED
    BY <2>4, <2>5
<1>2. AnswersFollowLines
  BY NothingCounted DEF Init, AnswersFollowLines
<1>3. RequestsFollowLines
  BY DEF Init, RequestsFollowLines
<1>4. QED
  BY <1>1, <1>2, <1>3 DEF IInv

LEMMA NextKeeps == IInv /\ [Next]_vars => IInv'
  BY ClientKeeps, KillKeeps, StartKeeps, ArriveKeeps, ReadKeeps, DrainKeeps,
     HandleKeeps, RequestKeeps, RequestedKeeps, ResolveKeeps, StutterKeeps
  DEF Next, Serve

(***************************************************************************)
(* At every step the server knows how much of its line it has read, and    *)
(* the answers and the consent requests are those of the lines before.     *)
(***************************************************************************)
THEOREM Invariance == Spec => []IInv
<1>1. Init => IInv
  BY InitHolds
<1>2. IInv /\ [Next]_vars => IInv'
  BY NextKeeps
<1>3. QED
  BY <1>1, <1>2, PTL DEF Spec

(***************************************************************************)
(* The type invariant: the server stays within the lines it was sent.      *)
(***************************************************************************)
THEOREM TypeCorrectness == Spec => []TypeOK
<1>1. IInv => TypeOK
  BY DEF IInv
<1>2. QED
  BY <1>1, Invariance, PTL

(***************************************************************************)
(* One answer for each line that calls for one, in order, whatever the     *)
(* limit and however the lines lie in the chunks that are read.            *)
(***************************************************************************)
THEOREM OneAnswerEach == Spec => []AnswersFollowLines
<1>1. IInv => AnswersFollowLines
  BY DEF IInv
<1>2. QED
  BY <1>1, Invariance, PTL

(***************************************************************************)
(* One consent request for each line that was answered with one, and none  *)
(* without a line, although the request is written before the answer.      *)
(***************************************************************************)
THEOREM OneRequestEach == Spec => []RequestsFollowLines
<1>1. IInv => RequestsFollowLines
  BY DEF IInv
<1>2. QED
  BY <1>1, Invariance, PTL
=============================================================================
