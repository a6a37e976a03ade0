------------------------------- MODULE Provider -------------------------------
(***************************************************************************)
(* src/provider.rs and src/provider_process.rs: the Engine's side of a     *)
(* conversation with a provider, a child process that answers requests on  *)
(* one stream of reply lines and runs of content.                          *)
(*                                                                         *)
(* Nothing in a reply names the request it answers, and nothing but its    *)
(* length tells content from lines.  The provider is as the client sees    *)
(* it: it answers in order, may refuse, may die, and has some of the       *)
(* defects listed.  Content never happens to spell a reply.  How much a    *)
(* pipe holds is left out: a provider that waits for room is one that      *)
(* takes no step, so no property says that it exits or that finish()       *)
(* returns, which a provider with content nobody reads may prevent.        *)
(***************************************************************************)
EXTENDS Naturals, Sequences

CONSTANTS
  Defect,       \* what is wrong with the provider, see DefectKind
  Discipline,   \* which rules the caller keeps, see Rule
  MaxBytes,     \* bound on the length of a run of content
  MaxRequests   \* bound on the requests of a conversation

\* "kind": it answers another kind of request.  "form": its line is no reply of
\* this version, or lacks a field.  "digest": it claims another digest.
\* "long": it writes more content than it declares.
\* "short": less, and then waits.  "twice": it answers a request twice.
DefectKind == {"kind", "form", "digest", "long", "short", "twice"}

\* "close_after_error": no request follows a Transport, Protocol or
\* VersionMismatch error, the caller calls finish() instead.
Rule == {"close_after_error"}

ASSUME ProviderAssumption ==
  /\ Defect \subseteq DefectKind
  /\ Discipline \subseteq Rule
  /\ MaxBytes \in Nat
  /\ MaxRequests \in Nat

Request == {"handshake", "resolve", "enumerate", "read", "materialize"}

HasContent == {"read", "materialize"}

Form == {"reply", "not_json", "no_version", "other_version", "no_field"}

\* answers, of: the number of the request an item was written for (history).
Line == [type : {"line"}, of : 1 .. MaxRequests, kind : Request \union {"error"},
         form : Form, declared : 0 .. MaxBytes, digest : BOOLEAN]

\* A part of the content: with a line terminator at its end, or without any.
Part == [type : {"ended", "open"}, of : 1 .. MaxRequests]

VARIABLES
  requests,   \* what the provider has not read yet: the numbers of the requests
  stream,     \* what the client has not read yet
  alive,      \* the provider runs
  agreed,     \* ProviderClient.handshake is Some
  pc,         \* the client: "idle", "reply" and "content" while it waits,
              \* "closing" while finish() waits, "closed"
  sent,       \* how many requests were sent, the last one is the current one
  kind,       \* the kind of each request
  pending,    \* the reply whose content is read
  result      \* what the last call returned, and from which answers (history)

vars == <<requests, stream, alive, agreed, pc, sent, kind, pending, result>>

\* "NoHandshake" is the Protocol error of a call that sends nothing.
Error == {"Refused", "VersionMismatch", "Protocol", "Transport", "DigestMismatch",
          "NoHandshake"}

Result == [outcome : Error \union {"none", "Ok"}, from : SUBSET (1 .. MaxRequests)]

NoLine == [type |-> "none"]

Init ==
  /\ requests = <<>>
  /\ stream = <<>>
  /\ alive = TRUE
  /\ agreed = FALSE
  /\ pc = "idle"
  /\ sent = 0
  /\ kind = [n \in 1 .. MaxRequests |-> "handshake"]
  /\ pending = NoLine
  /\ result = [outcome |-> "none", from |-> {}]

-----------------------------------------------------------------------------
(* The provider *)

Parts(n, length) == [1 .. length -> {p \in Part : p.of = n}]

Reply(n, k, form, declared, digest) ==
  [type |-> "line", of |-> n, kind |-> k, form |-> form, declared |-> declared,
   digest |-> digest]

Lengths(k) == IF k \in HasContent THEN 0 .. MaxBytes ELSE {0}

Contents(n) == UNION {Parts(n, length) : length \in Lengths(kind[n])}

Answers(n, lines) ==
  UNION {{<<line>> \o content : content \in Contents(n)} : line \in lines}

\* An answer: a line of the kind asked for and the content it declares, ...
Proper(n) ==
  Answers(n, UNION {{Reply(n, kind[n], "reply", declared, digest) :
                       declared \in Lengths(kind[n])} :
                      digest \in IF "digest" \in Defect THEN BOOLEAN ELSE {TRUE}})

\* ... or a line the client refuses, and content it will not read.
Improper(n) ==
  Answers(n,
    (IF "kind" \in Defect THEN {Reply(n, k, "reply", 0, TRUE) : k \in Request \ {kind[n]}}
                          ELSE {})
    \union
    (IF "form" \in Defect THEN {Reply(n, kind[n], form, 0, TRUE) : form \in Form \ {"reply"}}
                          ELSE {}))

Supplied(answer) == Len(answer) - 1

Complete(n) ==
  {answer \in Proper(n) :
     /\ Supplied(answer) > answer[1].declared => "long" \in Defect
     /\ Supplied(answer) < answer[1].declared => "short" \in Defect}

Refusal(n) == <<Reply(n, "error", "reply", 0, TRUE)>>

Respond ==
  /\ alive /\ requests # <<>>
  /\ LET n == Head(requests) IN
     \E answer \in Complete(n) \union Improper(n) \union {Refusal(n)} :
       \/ stream' = stream \o answer
       \/ "twice" \in Defect /\ stream' = stream \o answer \o answer
  /\ requests' = Tail(requests)
  /\ UNCHANGED <<alive, agreed, pc, sent, kind, pending, result>>

\* The beginning of an answer: a part of its line, or too little of its content.
Unfinished(n) ==
  {<<[type |-> "open", of |-> n]>>}
    \union {answer \in Proper(n) : Supplied(answer) < answer[1].declared}

\* It dies, perhaps in the middle of an answer.
Die ==
  /\ alive
  /\ alive' = FALSE
  /\ \/ UNCHANGED <<requests, stream>>
     \/ /\ requests # <<>>
        /\ \E answer \in Unfinished(Head(requests)) : stream' = stream \o answer
        /\ requests' = Tail(requests)
  /\ UNCHANGED <<agreed, pc, sent, kind, pending, result>>

-----------------------------------------------------------------------------
(* The client: exchange(), expect(), content() *)

\* Mutant: the reply of the last call is kept.
ReturnKeepsReply(outcome, from) ==
  /\ result' = [outcome |-> outcome, from |-> from]
  /\ UNCHANGED pending
  /\ pc' = "idle"

Return(outcome, from) ==
  /\ result' = [outcome |-> outcome, from |-> from]
  /\ pending' = NoLine
  /\ pc' = "idle"

Broken == {"VersionMismatch", "Protocol", "Transport"}

MayContinue == "close_after_error" \in Discipline => result.outcome \notin Broken

\* A request goes out only once a version is agreed.
Send(k) ==
  /\ pc = "idle" /\ MayContinue /\ sent < MaxRequests
  /\ k = "handshake" \/ agreed
  /\ sent' = sent + 1
  /\ kind' = [kind EXCEPT ![sent + 1] = k]
  /\ requests' = Append(requests, sent + 1)
  /\ pc' = "reply"
  /\ result' = [outcome |-> "none", from |-> {}]
  /\ UNCHANGED <<stream, alive, agreed, pending>>

RequireHandshake ==
  /\ pc = "idle" /\ MayContinue
  /\ ~agreed
  /\ Return("NoHandshake", {})
  /\ UNCHANGED <<requests, stream, alive, agreed, sent, kind>>

\* A provider that has died may, or may not yet, make the write fail.
SendFails ==
  /\ pc = "idle" /\ MayContinue
  /\ ~alive
  /\ Return("Transport", {})
  /\ UNCHANGED <<requests, stream, alive, agreed, sent, kind>>

Ends(item) == item.type \in {"line", "ended"}

\* The lengths read_line() may take: up to the first line end, or to the end of
\* the stream when nothing more can come.  There is one, or none as yet.
FirstLine ==
  {n \in DOMAIN stream :
     /\ \A m \in 1 .. n - 1 : ~Ends(stream[m])
     /\ Ends(stream[n]) \/ (~alive /\ n = Len(stream))}

\* Mutant: the kind of the reply is not compared.
JudgeAnyKind(line) ==
  IF line.form \in {"not_json", "no_version"} THEN "Protocol"
  ELSE IF line.form = "other_version" THEN "VersionMismatch"
  ELSE IF line.kind = "error"
       THEN IF line.form = "no_field" THEN "Protocol" ELSE "Refused"
  ELSE IF line.form = "no_field" THEN "Protocol"
  ELSE "Ok"

\* What one reply line, alone on its line, makes exchange() and expect() return.
\* "Ok" stands for the reply that answers a request of the kind sent.
Judge(line) ==
  IF line.form \in {"not_json", "no_version"} THEN "Protocol"
  ELSE IF line.form = "other_version" THEN "VersionMismatch"
  ELSE IF line.kind = "error"
       THEN IF line.form = "no_field" THEN "Protocol" ELSE "Refused"
  ELSE IF line.kind # kind[sent] \/ line.form = "no_field" THEN "Protocol"
  ELSE "Ok"

ReceiveLine ==
  /\ pc = "reply"
  /\ \E length \in FirstLine :
     LET line == stream[1]
         alone == length = 1 /\ line.type = "line"
         verdict == IF alone THEN Judge(line) ELSE "Protocol"
     IN /\ stream' = SubSeq(stream, length + 1, Len(stream))
        /\ IF verdict = "Ok" /\ kind[sent] \in HasContent
           THEN /\ pending' = line
                /\ pc' = "content"
                /\ UNCHANGED result
           ELSE Return(verdict, IF alone THEN {line.of} ELSE {})
        /\ agreed' = (agreed \/ (verdict = "Ok" /\ kind[sent] = "handshake"))
  /\ UNCHANGED <<requests, alive, sent, kind>>

\* What is left of the stream once n parts were read as content.  A line is
\* longer than one part: what is left of it is no reply.
After(n) ==
  IF n = 0 \/ stream[n].type # "line" THEN SubSeq(stream, n + 1, Len(stream))
  ELSE <<[type |-> "ended", of |-> stream[n].of]>> \o SubSeq(stream, n + 1, Len(stream))

\* Every part is of this reply's own content, and none is missing.
Verified(n) ==
  /\ pending.digest
  /\ \A m \in 1 .. n : stream[m].type # "line" /\ stream[m].of = pending.of
  /\ \A m \in n + 1 .. Len(stream) : stream[m].of # pending.of

ReceiveContent ==
  /\ pc = "content"
  /\ Len(stream) >= pending.declared
  /\ LET n == pending.declared IN
     /\ stream' = After(n)
     /\ Return(IF kind[sent] = "materialize" /\ ~Verified(n) THEN "DigestMismatch" ELSE "Ok",
               {pending.of} \union {stream[m].of : m \in 1 .. n})
  /\ UNCHANGED <<requests, alive, agreed, sent, kind>>

\* Mutant: the end is noticed where a line is due only.
EndOfLinesOnly ==
  /\ ~alive
  /\ pc = "reply" /\ stream = <<>>
  /\ stream' = <<>>
  /\ Return("Transport", {})
  /\ UNCHANGED <<requests, alive, agreed, sent, kind>>

\* The stream has ended where a line or more content is due.
EndOfStream ==
  /\ ~alive
  /\ \/ pc = "reply" /\ stream = <<>>
     \/ pc = "content" /\ Len(stream) < pending.declared
  /\ stream' = <<>>
  /\ Return("Transport", {})
  /\ UNCHANGED <<requests, alive, agreed, sent, kind>>

\* finish() ends the provider's input.  What the provider has still to read and to
\* write it reads and writes, or waits for room to write, or exits (Die).
Close ==
  /\ pc = "idle"
  /\ pc' = "closing"
  /\ UNCHANGED <<requests, stream, alive, agreed, sent, kind, pending, result>>

\* finish() waits for the provider to exit, however long, and reads nothing more.
Wait ==
  /\ pc = "closing"
  /\ ~alive
  /\ pc' = "closed"
  /\ UNCHANGED <<requests, stream, alive, agreed, sent, kind, pending, result>>

Next ==
  \/ Respond \/ Die
  \/ \E k \in Request : Send(k)
  \/ RequireHandshake \/ SendFails
  \/ ReceiveLine \/ ReceiveContent \/ EndOfStream
  \/ Close \/ Wait

Waiting == pc \in {"reply", "content"}

\* The provider answers, or dies, when a request is in its pipe and the client reads
\* what it writes; the client goes on reading as long as there is something to read,
\* or an end.
Spec ==
  /\ Init /\ [][Next]_vars
  /\ WF_vars(Waiting /\ Respond)
  /\ WF_vars(ReceiveLine \/ ReceiveContent \/ EndOfStream)

-----------------------------------------------------------------------------
(* Properties *)

\* Every variable holds a value of its kind, and a reply is pending exactly
\* while its content is awaited.
TypeOK ==
  /\ requests \in Seq(1 .. sent)
  /\ stream \in Seq(Line \union Part)
  /\ alive \in BOOLEAN
  /\ agreed \in BOOLEAN
  /\ pc \in {"idle", "reply", "content", "closing", "closed"}
  /\ sent \in 0 .. MaxRequests
  /\ kind \in [1 .. MaxRequests -> Request]
  /\ pending \in Line \union {NoLine}
  /\ result \in Result
  /\ pc = "content" <=> pending # NoLine

\* "A reply that does not answer the request that was sent is a protocol
\* violation": what a call returns comes from what the provider wrote for it.
AnswersItsRequest ==
  /\ result.outcome \in {"Ok", "Refused"} => result.from = {sent}
  /\ pc = "content" => pending.of = sent /\ pending.kind = kind[sent]

\* A call that has not returned has something to go on with: a living provider has
\* its request to answer, or there is a line, or all of the content it declared, or
\* the end of the stream (the reads of exchange() and content(), which have no
\* timeout).
CallGoesOn ==
  /\ pc = "reply" => \/ alive /\ requests # <<>>
                     \/ FirstLine # {}
                     \/ ~alive /\ stream = <<>>
  /\ pc = "content" => ~alive \/ Len(stream) >= pending.declared

\* A call returns: whatever the provider writes, it does not leave the client
\* waiting for content that never comes or for a second reply.
CallReturns == Waiting ~> pc = "idle"

=============================================================================
