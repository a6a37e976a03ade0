----------------------------- MODULE RefreshProofs ----------------------------
(***************************************************************************)
(* A refresh of links talks with a provider (Provider) and writes what it  *)
(* answered into the settings (Links): the theorems about the two.         *)
(*                                                                         *)
(* The conversation, for every length of content and every number of       *)
(* requests: a caller that closes after an error never takes the answer to *)
(* one request for the answer to another, whatever else is wrong with the  *)
(* provider, as long as it does not answer a request twice.                *)
(*                                                                         *)
(* Nothing in a reply names its request, so the argument is about what can *)
(* be in the stream: after a call that did not fail there may be content   *)
(* left over, but no line (Conversation), and left over content in front   *)
(* of a line makes the next call fail.  A provider that writes all the     *)
(* content it declares never leaves a call with nothing to wait for        *)
(* (Awaited).                                                              *)
(*                                                                         *)
(* The settings, for every number of processes, links, commits and edits:  *)
(* database and settings move together, no command loses what the user     *)
(* wrote or makes settings open() refuses, and no commit goes back.  What  *)
(* a command has computed or staged belongs to the files there are as long *)
(* as one command at a time writes (LinksIInv), so each step leaves what   *)
(* the next open would find (Quiet), but for the journal of a link change  *)
(* and the rename of a refresh.                                            *)
(***************************************************************************)
EXTENDS Provider, Links, SequenceTheorems, FiniteSetTheorems, WellFoundedInduction, TLAPS

-----------------------------------------------------------------------------
(* The conversation with a provider *)

Disciplined == "close_after_error" \in Discipline /\ "twice" \notin Defect

NoLines == \A m \in DOMAIN stream : stream[m].type # "line"

OfThisRequest == \A m \in DOMAIN stream : stream[m].of = sent

\* A line at the head of the stream is the answer to the current request, and
\* only its content follows.
OneAnswer ==
  stream # <<>> /\ stream[1].type = "line" =>
    OfThisRequest /\ \A m \in DOMAIN stream : m # 1 => stream[m].type # "line"

\* What is in the two pipes at each step of a call.
Conversation ==
  /\ pc = "idle" /\ result.outcome \notin Broken => requests = <<>> /\ NoLines
  /\ pc = "reply" => \/ requests = <<sent>> /\ NoLines
                     \/ requests = <<>> /\ OneAnswer
  /\ pc = "content" => requests = <<>> /\ NoLines /\ OfThisRequest
  /\ pc \in {"reply", "content"} => result.outcome = "none" /\ sent \in 1 .. MaxRequests

IInv == TypeOK /\ AnswersItsRequest /\ Conversation

-----------------------------------------------------------------------------
(* What a provider may write *)

Item == Line \union Part

AnswerShape(answer, n) ==
  /\ answer \in Seq(Item) /\ Len(answer) >= 1 /\ DOMAIN answer = 1 .. Len(answer)
  /\ \A m \in DOMAIN answer : answer[m].of = n /\ (m # 1 => answer[m].type # "line")

LEMMA LineWithContent ==
  ASSUME NEW n \in 1 .. MaxRequests, NEW line \in Line, line.of = n,
         NEW length \in 0 .. MaxBytes, NEW content \in Parts(n, length)
  PROVE  AnswerShape(<<line>> \o content, n) /\ (<<line>> \o content)[1] = line
<1>1. length \in Nat
  BY ProviderAssumption
<1>2. content \in [1 .. length -> Part] /\ \A m \in 1 .. length : content[m].of = n
  BY DEF Parts
<1>3. content \in Seq(Item) /\ Len(content) = length
  BY <1>1, <1>2 DEF Item
<1>4. <<line>> \in Seq(Item) /\ Len(<<line>>) = 1 /\ <<line>>[1] = line
  BY DEF Item
<1>5. /\ <<line>> \o content \in Seq(Item)
      /\ Len(<<line>> \o content) = 1 + length
      /\ \A m \in 1 .. 1 + length :
           (<<line>> \o content)[m] = IF m <= 1 THEN <<line>>[m] ELSE content[m - 1]
  BY <1>3, <1>4, ConcatProperties
<1>6. \A m \in 1 .. length : content[m].type # "line"
  BY <1>2 DEF Part
<1> DEFINE answer == <<line>> \o content
<1> HIDE DEF answer
<1>7. ASSUME NEW m \in 1 .. 1 + length
      PROVE  answer[m].of = n /\ (m # 1 => answer[m].type # "line")
  <2>1. CASE m = 1
    BY <1>1, <1>4, <1>5, <2>1 DEF answer
  <2>2. CASE m # 1
    <3>1. m - 1 \in 1 .. length /\ ~(m <= 1)
      BY <1>1, <2>2
    <3>2. answer[m] = content[m - 1]
      BY <1>5, <3>1 DEF answer
    <3>3. QED BY <1>2, <1>6, <3>1, <3>2
  <2>3. QED BY <2>1, <2>2
<1>8. DOMAIN answer = 1 .. Len(answer) /\ Len(answer) = 1 + length /\ answer \in Seq(Item)
  BY <1>5, LenProperties DEF answer
<1>9. answer[1] = line
  <2>1. 1 \in 1 .. 1 + length
    BY <1>1
  <2>2. QED BY <1>4, <1>5, <2>1 DEF answer
<1>10. QED BY <1>1, <1>7, <1>8, <1>9 DEF AnswerShape, answer

LEMMA LoneItem ==
  ASSUME NEW n, NEW item \in Item, item.of = n
  PROVE  AnswerShape(<<item>>, n)
<1>1. <<item>> \in Seq(Item) /\ Len(<<item>>) = 1 /\ <<item>>[1] = item
  OBVIOUS
<1>2. DOMAIN <<item>> = 1 .. 1
  OBVIOUS
<1>3. QED BY <1>1, <1>2 DEF AnswerShape

LEMMA ReplyIsLine ==
  ASSUME NEW n \in 1 .. MaxRequests, NEW k \in Request \union {"error"}, NEW form \in Form,
         NEW declared \in 0 .. MaxBytes, NEW digest \in BOOLEAN
  PROVE  Reply(n, k, form, declared, digest) \in Line
         /\ Reply(n, k, form, declared, digest).of = n
BY DEF Reply, Line

LEMMA AnswersAreMade ==
  ASSUME TypeOK, NEW n \in 1 .. MaxRequests, NEW answer \in Proper(n) \union Improper(n)
  PROVE  /\ AnswerShape(answer, n) /\ answer[1] \in Line
         /\ answer \in Improper(n) => answer[1].declared = 0
<1>1. kind[n] \in Request
  BY DEF TypeOK
<1>2. Lengths(kind[n]) \subseteq 0 .. MaxBytes /\ 0 \in 0 .. MaxBytes
  BY ProviderAssumption DEF Lengths
<1>3. ASSUME NEW content \in Contents(n)
      PROVE  \E length \in 0 .. MaxBytes : content \in Parts(n, length)
  BY <1>2 DEF Contents
<1>4. ASSUME NEW lines, \A line \in lines : line \in Line /\ line.of = n,
             answer \in Answers(n, lines)
      PROVE  AnswerShape(answer, n) /\ answer[1] \in lines
  <2>1. PICK line \in lines : \E content \in Contents(n) : answer = <<line>> \o content
    BY <1>4 DEF Answers
  <2>2. PICK content \in Contents(n) : answer = <<line>> \o content
    BY <2>1
  <2>3. QED BY <1>3, <1>4, <2>2, LineWithContent
<1> DEFINE proper == UNION {{Reply(n, kind[n], "reply", declared, digest) :
                               declared \in Lengths(kind[n])} :
                              digest \in IF "digest" \in Defect THEN BOOLEAN ELSE {TRUE}}
           kinds == IF "kind" \in Defect
                    THEN {Reply(n, k, "reply", 0, TRUE) : k \in Request \ {kind[n]}} ELSE {}
           forms == IF "form" \in Defect
                    THEN {Reply(n, kind[n], form, 0, TRUE) : form \in Form \ {"reply"}}
                    ELSE {}
<1>5. /\ answer \in Answers(n, proper) \/ answer \in Answers(n, kinds \union forms)
      /\ answer \in Improper(n) => answer \in Answers(n, kinds \union forms)
  BY Zenon DEF Proper, Improper
<1>6. ASSUME NEW line \in proper PROVE line \in Line /\ line.of = n
  <2>1. PICK digest \in BOOLEAN : \E declared \in Lengths(kind[n]) :
          line = Reply(n, kind[n], "reply", declared, digest)
    OBVIOUS
  <2>2. PICK declared \in Lengths(kind[n]) :
          line = Reply(n, kind[n], "reply", declared, digest)
    BY <2>1
  <2>3. declared \in 0 .. MaxBytes /\ "reply" \in Form
    BY <1>2 DEF Form
  <2>4. QED BY <1>1, <2>2, <2>3, ReplyIsLine
<1>7. ASSUME NEW line \in kinds \union forms
      PROVE  line \in Line /\ line.of = n /\ line.declared = 0
  <2>1. PICK k \in Request : \E form \in Form : line = Reply(n, k, form, 0, TRUE)
    BY <1>1 DEF Form
  <2>2. PICK form \in Form : line = Reply(n, k, form, 0, TRUE)
    BY <2>1
  <2>3. k \in Request \union {"error"} /\ TRUE \in BOOLEAN
    OBVIOUS
  <2>4. QED BY <1>2, <2>2, <2>3, ReplyIsLine DEF Reply
<1> HIDE DEF proper, kinds, forms
<1>8. QED BY <1>4, <1>5, <1>6, <1>7

LEMMA AnswersHaveShape ==
  ASSUME TypeOK, NEW n \in 1 .. MaxRequests,
         NEW answer \in Complete(n) \union Improper(n) \union {Refusal(n)} \union Unfinished(n)
  PROVE  AnswerShape(answer, n)
<1>1. 0 \in 0 .. MaxBytes
  BY ProviderAssumption
<1>2. CASE answer = Refusal(n)
  <2>1. /\ Reply(n, "error", "reply", 0, TRUE) \in Line
        /\ Reply(n, "error", "reply", 0, TRUE).of = n
    BY <1>1, ReplyIsLine DEF Form
  <2>2. AnswerShape(<<Reply(n, "error", "reply", 0, TRUE)>>, n)
    BY <2>1, LoneItem DEF Item
  <2>3. QED BY <1>2, <2>2 DEF Refusal
<1>3. CASE answer = <<[type |-> "open", of |-> n]>>
  <2>1. [type |-> "open", of |-> n] \in Item /\ [type |-> "open", of |-> n].of = n
    BY DEF Item, Part
  <2>2. QED BY <1>3, <2>1, LoneItem
<1>4. QED BY <1>2, <1>3, AnswersAreMade DEF Complete, Unfinished

\* A provider that is not short writes a line and all the content it declares.
LEMMA AnswersAreWhole ==
  ASSUME TypeOK, "short" \notin Defect, NEW n \in 1 .. MaxRequests,
         NEW answer \in Complete(n) \union Improper(n) \union {Refusal(n)}
  PROVE  /\ AnswerShape(answer, n) /\ answer[1].type = "line"
         /\ answer[1].declared \in Nat /\ Len(answer) >= 1 + answer[1].declared
<1>1. AnswerShape(answer, n) /\ Len(answer) \in Nat
  BY AnswersHaveShape DEF AnswerShape
<1>2. CASE answer \in Complete(n) \union Improper(n)
  <2>1. answer \in Proper(n) \union Improper(n)
    BY <1>2 DEF Complete
  <2>2. answer[1] \in Line /\ (answer \in Improper(n) => answer[1].declared = 0)
    BY <2>1, AnswersAreMade
  <2>3. answer[1].type = "line" /\ answer[1].declared \in Nat
    BY <2>2, ProviderAssumption DEF Line
  <2>4. answer[1].declared = 0 \/ ~(Supplied(answer) < answer[1].declared)
    BY <1>2, <2>2 DEF Complete
  <2>5. QED BY <1>1, <2>3, <2>4 DEF AnswerShape, Supplied
<1>3. CASE answer = Refusal(n)
  <2>1. answer = <<Reply(n, "error", "reply", 0, TRUE)>>
    BY <1>3 DEF Refusal
  <2>2. answer[1] = Reply(n, "error", "reply", 0, TRUE) /\ Len(answer) = 1
    BY <2>1
  <2>3. answer[1].type = "line" /\ answer[1].declared = 0
    BY <2>2 DEF Reply
  <2>4. \A length, d : length = 1 /\ d = 0 => d \in Nat /\ length >= 1 + d
    OBVIOUS
  <2>5. answer[1].declared \in Nat /\ Len(answer) >= 1 + answer[1].declared
    BY ONLY <2>2, <2>3, <2>4
  <2>6. QED BY <1>1, <2>3, <2>5
<1>4. QED BY <1>2, <1>3

\* What is in the stream once an answer was written behind it.
LEMMA Written ==
  ASSUME TypeOK, NEW n, NEW answer, AnswerShape(answer, n)
  PROVE  /\ stream \o answer \in Seq(Item)
         /\ NoLines /\ n = sent =>
              LET s == stream \o answer
              IN s # <<>> /\ s[1].type = "line" =>
                   \A m \in DOMAIN s : s[m].of = sent /\ (m # 1 => s[m].type # "line")
<1> DEFINE s == stream \o answer
<1>1. stream \in Seq(Item) /\ answer \in Seq(Item)
  BY DEF TypeOK, AnswerShape, Item
<1>2. /\ s \in Seq(Item) /\ Len(s) = Len(stream) + Len(answer)
      /\ \A i \in 1 .. Len(stream) + Len(answer) :
           s[i] = IF i <= Len(stream) THEN stream[i] ELSE answer[i - Len(stream)]
  BY <1>1, ConcatProperties
<1>3. /\ Len(stream) \in Nat /\ Len(answer) \in Nat
      /\ DOMAIN s = 1 .. Len(s) /\ DOMAIN stream = 1 .. Len(stream)
  BY <1>1, <1>2, LenProperties
<1> HIDE DEF s
<1>4. ASSUME NoLines, n = sent, s # <<>>, s[1].type = "line", NEW m \in DOMAIN s
      PROVE  s[m].of = sent /\ (m # 1 => s[m].type # "line")
  <2>1. Len(answer) >= 1
    BY DEF AnswerShape
  <2>2. 1 \in 1 .. Len(stream) + Len(answer)
    BY <1>3, <2>1
  <2>3. Len(stream) = 0
    <3>1. SUFFICES ASSUME Len(stream) >= 1 PROVE FALSE
      BY <1>3
    <3>2. s[1] = stream[1] /\ 1 \in DOMAIN stream
      BY <1>2, <1>3, <2>2, <3>1
    <3>3. QED BY <1>4, <3>2 DEF NoLines
  <2>4. m \in DOMAIN answer /\ s[m] = answer[m]
    BY <1>2, <1>3, <1>4, <2>3 DEF AnswerShape
  <2>5. QED BY <1>4, <2>4 DEF AnswerShape
<1>5. QED BY <1>2, <1>4 DEF s

-----------------------------------------------------------------------------
(* Every caller and every provider *)

\* A suffix of the stream is made of its items.
LEMMA Rest ==
  ASSUME TypeOK, NEW n \in 0 .. Len(stream)
  PROVE  /\ SubSeq(stream, n + 1, Len(stream)) \in Seq(Item)
         /\ \A m \in DOMAIN SubSeq(stream, n + 1, Len(stream)) :
              /\ m + n \in DOMAIN stream
              /\ m + n # n
              /\ SubSeq(stream, n + 1, Len(stream))[m] = stream[m + n]
<1>1. stream \in Seq(Item) /\ Len(stream) \in Nat /\ DOMAIN stream = 1 .. Len(stream)
  BY LenProperties DEF TypeOK, Item
<1> DEFINE rest == SubSeq(stream, n + 1, Len(stream))
<1>2. n + 1 \in 1 .. Len(stream) + 1 /\ Len(stream) \in n .. Len(stream)
  BY <1>1
<1>3. /\ rest \in Seq(Item) /\ Len(rest) = Len(stream) - n
      /\ \A m \in 1 .. Len(stream) - n : rest[m] = stream[n + m]
  <2> DEFINE first == n + 1
  <2>1. first \in 1 .. Len(stream) + 1 /\ Len(stream) \in first - 1 .. Len(stream)
    BY <1>1
  <2> HIDE DEF first
  <2>2. /\ SubSeq(stream, first, Len(stream)) \in Seq(Item)
        /\ Len(SubSeq(stream, first, Len(stream))) =
             IF first <= Len(stream) THEN Len(stream) - first + 1 ELSE 0
        /\ \A m \in 1 .. Len(stream) - first + 1 :
             SubSeq(stream, first, Len(stream))[m] = stream[first + m - 1]
    BY <1>1, <2>1, SubSeqProperties
  <2>3. /\ Len(stream) - first + 1 = Len(stream) - n
        /\ \A m \in 1 .. Len(stream) - n : first + m - 1 = n + m
    BY <1>1 DEF first
  <2>4. \A size \in Nat : \A k \in 0 .. size : k + 1 <= size \/ size - k = 0
    OBVIOUS
  <2>5. n + 1 <= Len(stream) \/ Len(stream) - n = 0
    BY ONLY <1>1, <2>4, n \in 0 .. Len(stream)
  <2>6. rest = SubSeq(stream, first, Len(stream))
    BY DEF first
  <2>7. QED BY <2>2, <2>3, <2>6, <2>5 DEF first
<1>4. DOMAIN rest = 1 .. Len(stream) - n
  BY <1>3, LenProperties
<1> HIDE DEF rest
<1>5. \A m \in 1 .. Len(stream) - n : m + n \in DOMAIN stream /\ m + n # n /\ n + m = m + n
  BY <1>1
<1>6. QED BY <1>3, <1>4, <1>5 DEF rest

LEMMA RespondTyped ==
  ASSUME TypeOK, Respond
  PROVE  TypeOK'
<1>1. requests # <<>> /\ requests' = Tail(requests)
      /\ UNCHANGED <<alive, agreed, pc, sent, kind, pending, result>>
  BY DEF Respond
<1>2. requests \in Seq(1 .. sent) /\ sent \in 0 .. MaxRequests /\ sent \in Nat
  BY ProviderAssumption DEF TypeOK
<1>3. Head(requests) \in 1 .. sent /\ Tail(requests) \in Seq(1 .. sent)
  BY <1>1, <1>2, HeadTailProperties
<1>4. Head(requests) \in 1 .. MaxRequests
  BY <1>2, <1>3, ProviderAssumption
<1>5. PICK answer \in Complete(Head(requests)) \union Improper(Head(requests))
                        \union {Refusal(Head(requests))} :
        stream' = stream \o answer \/ stream' = stream \o answer \o answer
  BY DEF Respond
<1>6. answer \in Seq(Item) /\ stream \in Seq(Item)
  BY <1>4, AnswersHaveShape DEF AnswerShape, TypeOK, Item
<1>7. stream \o answer \in Seq(Item)
  BY <1>6, ConcatProperties
<1>8. stream \o answer \o answer \in Seq(Item)
  BY <1>6, <1>7, ConcatProperties
<1>9. stream' \in Seq(Item)
  BY <1>5, <1>7, <1>8
<1>10. QED BY <1>1, <1>3, <1>9 DEF TypeOK, Item

LEMMA DieTyped ==
  ASSUME TypeOK, Die
  PROVE  TypeOK'
<1>1. alive' = FALSE /\ UNCHANGED <<agreed, pc, sent, kind, pending, result>>
  BY DEF Die
<1>2. CASE UNCHANGED <<requests, stream>>
  BY <1>1, <1>2 DEF TypeOK
<1>3. CASE /\ requests # <<>>
           /\ \E answer \in Unfinished(Head(requests)) : stream' = stream \o answer
           /\ requests' = Tail(requests)
  <2>1. PICK answer \in Unfinished(Head(requests)) : stream' = stream \o answer
    BY <1>3
  <2>2. requests \in Seq(1 .. sent) /\ sent \in 0 .. MaxRequests /\ sent \in Nat
    BY ProviderAssumption DEF TypeOK
  <2>3. Head(requests) \in 1 .. sent /\ Tail(requests) \in Seq(1 .. sent)
    BY <1>3, <2>2, HeadTailProperties
  <2>4. Head(requests) \in 1 .. MaxRequests
    BY <2>2, <2>3, ProviderAssumption
  <2>5. stream' \in Seq(Item)
    BY <2>1, <2>4, AnswersHaveShape, Written
  <2>6. QED BY <1>1, <1>3, <2>3, <2>5 DEF TypeOK, Item
<1>4. QED BY <1>2, <1>3 DEF Die

LEMMA SendTyped ==
  ASSUME TypeOK, NEW k \in Request, Send(k)
  PROVE  TypeOK'
<1>1. /\ pc = "idle" /\ sent < MaxRequests
      /\ sent' = sent + 1 /\ kind' = [kind EXCEPT ![sent + 1] = k]
      /\ requests' = Append(requests, sent + 1) /\ pc' = "reply"
      /\ result' = [outcome |-> "none", from |-> {}]
      /\ UNCHANGED <<stream, alive, agreed, pending>>
  BY DEF Send
<1>2. sent \in Nat /\ sent + 1 \in 1 .. MaxRequests /\ sent + 1 \in 0 .. MaxRequests
  BY <1>1, ProviderAssumption DEF TypeOK
<1>3. Append(requests, sent + 1) \in Seq(1 .. sent + 1)
  <2>1. requests \in Seq(1 .. sent + 1)
    BY <1>2 DEF TypeOK
  <2>2. sent + 1 \in 1 .. sent + 1
    BY <1>2
  <2>3. QED BY <2>1, <2>2, AppendProperties
<1>4. pending = NoLine
  BY <1>1 DEF TypeOK
<1>5. result' \in Result
  BY <1>1 DEF Result
<1>6. QED BY <1>1, <1>2, <1>3, <1>4, <1>5 DEF TypeOK

LEMMA ReceiveLineTyped ==
  ASSUME TypeOK, ReceiveLine
  PROVE  TypeOK'
<1> DEFINE line == stream[1]
<1>1. PICK length \in FirstLine :
        LET alone == length = 1 /\ line.type = "line"
            verdict == IF alone THEN Judge(line) ELSE "Protocol"
        IN /\ stream' = SubSeq(stream, length + 1, Len(stream))
           /\ IF verdict = "Ok" /\ kind[sent] \in HasContent
              THEN /\ pending' = line
                   /\ pc' = "content"
                   /\ UNCHANGED result
              ELSE Return(verdict, IF alone THEN {line.of} ELSE {})
           /\ agreed' = (agreed \/ (verdict = "Ok" /\ kind[sent] = "handshake"))
  BY DEF ReceiveLine
<1> DEFINE alone == length = 1 /\ line.type = "line"
           verdict == IF alone THEN Judge(line) ELSE "Protocol"
<1>2. UNCHANGED <<requests, alive, sent, kind>>
  BY DEF ReceiveLine
<1>3. /\ stream \in Seq(Item) /\ Len(stream) \in Nat /\ DOMAIN stream = 1 .. Len(stream)
      /\ length \in 1 .. Len(stream)
  BY LenProperties DEF TypeOK, Item, FirstLine
<1>4. stream' \in Seq(Item)
  <2>1. length \in 0 .. Len(stream)
    BY <1>3
  <2>2. QED BY <1>1, <2>1, Rest
<1>5. verdict \in Error \union {"Ok"} /\ (verdict = "Ok" => alone)
  BY DEF Judge, Error
<1>6. line \in Item /\ (alone => line \in Line)
  BY <1>3 DEF Item, Line, Part
<1> HIDE DEF line, alone, verdict
<1>7. agreed' \in BOOLEAN
  BY <1>1 DEF TypeOK, verdict, alone
<1>8. CASE verdict = "Ok" /\ kind[sent] \in HasContent
  <2>1. pending' = line /\ pc' = "content" /\ UNCHANGED result
    BY <1>1, <1>8 DEF verdict, alone, line
  <2>2. pending' \in Line /\ pending' # NoLine
    BY <1>5, <1>6, <1>8, <2>1 DEF Line, NoLine
  <2>3. QED BY <1>2, <1>4, <1>7, <2>1, <2>2 DEF TypeOK, Item
<1>9. CASE ~(verdict = "Ok" /\ kind[sent] \in HasContent)
  <2>1. /\ result' = [outcome |-> verdict, from |-> IF alone THEN {line.of} ELSE {}]
        /\ pending' = NoLine /\ pc' = "idle"
    BY <1>1, <1>9 DEF verdict, alone, line, Return
  <2>2. line.of \in 1 .. MaxRequests
    BY <1>6 DEF Item, Line, Part
  <2>3. (IF alone THEN {line.of} ELSE {}) \in SUBSET (1 .. MaxRequests)
    BY <2>2
  <2>4. result' \in Result
    BY <1>5, <2>1, <2>3 DEF Result
  <2>5. QED BY <1>2, <1>4, <1>7, <2>1, <2>4 DEF TypeOK, Item
<1>10. QED BY <1>8, <1>9

LEMMA ReceiveContentTyped ==
  ASSUME TypeOK, ReceiveContent
  PROVE  TypeOK'
<1> DEFINE n == pending.declared
           read == {stream[m].of : m \in 1 .. n}
<1>1. /\ pc = "content" /\ Len(stream) >= n /\ stream' = After(n)
      /\ \E outcome \in {"DigestMismatch", "Ok"} : Return(outcome, {pending.of} \union read)
      /\ UNCHANGED <<requests, alive, agreed, sent, kind>>
  BY DEF ReceiveContent
<1>2. /\ stream \in Seq(Item) /\ Len(stream) \in Nat /\ DOMAIN stream = 1 .. Len(stream)
      /\ pending \in Line
  BY <1>1, LenProperties DEF TypeOK, Item
<1>3. n \in Nat /\ n \in 0 .. Len(stream)
  BY <1>1, <1>2, ProviderAssumption DEF Line
<1>4. \A m \in DOMAIN stream : stream[m].of \in 1 .. MaxRequests
  BY <1>2 DEF Item, Line, Part
<1>5. {pending.of} \union read \in SUBSET (1 .. MaxRequests)
  BY <1>2, <1>3, <1>4 DEF Line
<1> HIDE DEF n, read
<1>6. SubSeq(stream, n + 1, Len(stream)) \in Seq(Item)
  BY <1>3, Rest
<1>7. stream' \in Seq(Item)
  <2>1. CASE n = 0 \/ stream[n].type # "line"
    BY <1>1, <1>6, <2>1 DEF After
  <2>2. CASE ~(n = 0 \/ stream[n].type # "line")
    <3> DEFINE rest == SubSeq(stream, n + 1, Len(stream))
               part == [type |-> "ended", of |-> stream[n].of]
    <3>1. part \in Item
      BY <1>2, <1>3, <1>4, <2>2 DEF Part, Item
    <3>2. stream' = <<part>> \o rest
      BY <1>1, <2>2 DEF After
    <3> HIDE DEF part, rest
    <3>3. <<part>> \in Seq(Item) /\ rest \in Seq(Item)
      BY <1>6, <3>1 DEF rest
    <3>4. QED BY <3>2, <3>3, ConcatProperties
  <2>3. QED BY <2>1, <2>2
<1>8. PICK outcome \in {"DigestMismatch", "Ok"} : Return(outcome, {pending.of} \union read)
  BY <1>1
<1>9. pc' = "idle" /\ pending' = NoLine /\ result' \in Result
  BY <1>5, <1>8 DEF Return, Result, Error
<1>10. QED BY <1>1, <1>7, <1>9 DEF TypeOK, Item

LEMMA TypeStep == TypeOK /\ [Next]_vars => TypeOK'
<1> SUFFICES ASSUME TypeOK, [Next]_vars PROVE TypeOK'
  OBVIOUS
<1>1. CASE RequireHandshake \/ SendFails \/ EndOfStream
  <2>1. /\ pc' = "idle" /\ pending' = NoLine
        /\ result' \in {[outcome |-> o, from |-> {}] : o \in {"NoHandshake", "Transport"}}
        /\ stream' = stream \/ stream' = <<>>
        /\ UNCHANGED <<requests, alive, agreed, sent, kind>>
    BY <1>1 DEF RequireHandshake, SendFails, EndOfStream, Return
  <2>2. \A o \in {"NoHandshake", "Transport"} : [outcome |-> o, from |-> {}] \in Result
    BY DEF Result, Error
  <2>3. <<>> \in Seq(Line \union Part) /\ stream \in Seq(Line \union Part)
    BY DEF TypeOK
  <2>4. stream' \in Seq(Line \union Part)
    BY <2>1, <2>3
  <2>5. QED BY <2>1, <2>2, <2>4 DEF TypeOK
<1>2. CASE Close \/ Wait
  BY <1>2 DEF Close, Wait, TypeOK
<1>3. CASE UNCHANGED vars
  BY <1>3 DEF vars, TypeOK
<1>4. QED BY <1>1, <1>2, <1>3, RespondTyped, DieTyped, SendTyped, ReceiveLineTyped,
  ReceiveContentTyped DEF Next

-----------------------------------------------------------------------------
(* The steps of the provider *)

LEMMA RespondKept ==
  ASSUME Disciplined, IInv, Respond
  PROVE  IInv'
<1>1. PICK answer \in Complete(Head(requests)) \union Improper(Head(requests))
                        \union {Refusal(Head(requests))} : stream' = stream \o answer
  BY DEF Respond, Disciplined
<1>2. /\ requests # <<>> /\ requests' = Tail(requests)
      /\ UNCHANGED <<alive, agreed, pc, sent, kind, pending, result>>
  BY DEF Respond
<1>3. requests \in Seq(1 .. sent) /\ sent \in 0 .. MaxRequests /\ sent \in Nat
  BY ProviderAssumption DEF IInv, TypeOK
<1>4. Head(requests) \in 1 .. sent /\ Tail(requests) \in Seq(1 .. sent)
  BY <1>2, <1>3, HeadTailProperties
<1>5. Head(requests) \in 1 .. MaxRequests
  BY <1>3, <1>4, ProviderAssumption
<1>6. AnswerShape(answer, Head(requests))
  BY <1>1, <1>5, AnswersHaveShape DEF IInv
<1>7. TypeOK'
  BY RespondTyped DEF IInv
<1>8. AnswersItsRequest'
  BY <1>2 DEF IInv, AnswersItsRequest
<1>9. Conversation'
  <2>1. pc = "content" \/ (pc = "idle" /\ result.outcome \notin Broken) => FALSE
    BY <1>2 DEF IInv, Conversation
  <2>2. CASE pc = "reply"
    <3>1. requests = <<sent>> /\ NoLines
      BY <1>2, <2>2 DEF IInv, Conversation
    <3>2. Head(requests) = sent /\ Tail(requests) = <<>>
      BY <3>1, <1>3
    <3>3. OneAnswer'
      BY <1>1, <1>2, <1>6, <3>1, <3>2, Written DEF IInv, OneAnswer, OfThisRequest
    <3>4. QED BY <1>2, <2>2, <3>2, <3>3 DEF IInv, Conversation
  <2>3. CASE pc # "reply"
    BY <1>2, <2>1, <2>3 DEF IInv, Conversation
  <2>4. QED BY <2>2, <2>3
<1>10. QED BY <1>7, <1>8, <1>9 DEF IInv

LEMMA DieKept ==
  ASSUME Disciplined, IInv, Die
  PROVE  IInv'
<1>1. alive' = FALSE /\ UNCHANGED <<agreed, pc, sent, kind, pending, result>>
  BY DEF Die
<1>2. CASE UNCHANGED <<requests, stream>>
  BY <1>1, <1>2 DEF IInv, TypeOK, AnswersItsRequest, Conversation, NoLines, OneAnswer,
     OfThisRequest
<1>3. CASE /\ requests # <<>>
           /\ \E answer \in Unfinished(Head(requests)) : stream' = stream \o answer
           /\ requests' = Tail(requests)
  <2>1. PICK answer \in Unfinished(Head(requests)) : stream' = stream \o answer
    BY <1>3
  <2>2. requests \in Seq(1 .. sent) /\ sent \in 0 .. MaxRequests /\ sent \in Nat
    BY ProviderAssumption DEF IInv, TypeOK
  <2>3. Head(requests) \in 1 .. sent /\ Tail(requests) \in Seq(1 .. sent)
    BY <1>3, <2>2, HeadTailProperties
  <2>4. Head(requests) \in 1 .. MaxRequests
    BY <2>2, <2>3, ProviderAssumption
  <2>5. AnswerShape(answer, Head(requests))
    BY <2>1, <2>4, AnswersHaveShape DEF IInv
  <2>6. TypeOK'
    BY DieTyped DEF IInv
  <2>7. AnswersItsRequest'
    BY <1>1 DEF IInv, AnswersItsRequest
  <2>8. pc = "content" \/ (pc = "idle" /\ result.outcome \notin Broken) => FALSE
    BY <1>3 DEF IInv, Conversation
  <2>9. CASE pc = "reply"
    <3>1. requests = <<sent>> /\ NoLines
      BY <1>3, <2>9 DEF IInv, Conversation
    <3>2. Head(requests) = sent /\ Tail(requests) = <<>>
      BY <3>1, <2>2
    <3>3. OneAnswer'
      BY <2>1, <1>1, <2>5, <3>1, <3>2, Written DEF IInv, OneAnswer, OfThisRequest
    <3>4. QED BY <1>1, <1>3, <2>6, <2>7, <2>9, <3>2, <3>3 DEF IInv, Conversation
  <2>10. CASE pc # "reply"
    BY <1>1, <2>6, <2>7, <2>8, <2>10 DEF IInv, Conversation
  <2>11. QED BY <2>9, <2>10
<1>4. QED BY <1>2, <1>3 DEF Die

-----------------------------------------------------------------------------
(* The steps of the client *)

LEMMA SendKept ==
  ASSUME Disciplined, IInv, NEW k \in Request, Send(k)
  PROVE  IInv'
<1>1. /\ pc = "idle" /\ result.outcome \notin Broken /\ sent < MaxRequests
      /\ sent' = sent + 1 /\ kind' = [kind EXCEPT ![sent + 1] = k]
      /\ requests' = Append(requests, sent + 1) /\ pc' = "reply"
      /\ result' = [outcome |-> "none", from |-> {}]
      /\ UNCHANGED <<stream, alive, agreed, pending>>
  BY DEF Send, MayContinue, Disciplined
<1>2. requests = <<>> /\ NoLines
  BY <1>1 DEF IInv, Conversation
<1>3. sent \in Nat /\ sent + 1 \in 1 .. MaxRequests /\ sent + 1 \in 0 .. MaxRequests
  BY <1>1, ProviderAssumption DEF IInv, TypeOK
<1>4. requests' = <<sent'>>
  BY <1>1, <1>2, <1>3
<1>5. TypeOK'
  BY SendTyped DEF IInv
<1>6. AnswersItsRequest'
  BY <1>1 DEF AnswersItsRequest
<1>7. Conversation'
  BY <1>1, <1>2, <1>3, <1>4 DEF Conversation, NoLines
<1>8. QED BY <1>5, <1>6, <1>7 DEF IInv

LEMMA GivesUpKept ==
  ASSUME Disciplined, IInv, RequireHandshake \/ SendFails
  PROVE  IInv'
<1>1. /\ pc = "idle" /\ result.outcome \notin Broken
      /\ pc' = "idle" /\ pending' = NoLine
      /\ result' \in {[outcome |-> o, from |-> {}] : o \in {"NoHandshake", "Transport"}}
      /\ UNCHANGED <<requests, stream, alive, agreed, sent, kind>>
  BY DEF RequireHandshake, SendFails, MayContinue, Disciplined, Return
<1>2. result' \in Result /\ result'.outcome \in {"NoHandshake", "Transport"}
  BY <1>1 DEF Result, Error
<1>3. TypeOK'
  BY <1>1, <1>2 DEF IInv, TypeOK
<1>4. AnswersItsRequest'
  BY <1>1, <1>2 DEF AnswersItsRequest
<1>5. Conversation'
  BY <1>1, <1>2 DEF IInv, Conversation, NoLines
<1>6. QED BY <1>3, <1>4, <1>5 DEF IInv

LEMMA EndOfStreamKept ==
  ASSUME Disciplined, IInv, EndOfStream
  PROVE  IInv'
<1>1. /\ stream' = <<>> /\ pc' = "idle" /\ pending' = NoLine
      /\ result' = [outcome |-> "Transport", from |-> {}]
      /\ UNCHANGED <<requests, alive, agreed, sent, kind>>
  BY DEF EndOfStream, Return
<1>2. TypeOK'
  BY <1>1 DEF IInv, TypeOK, Result, Error
<1>3. AnswersItsRequest'
  BY <1>1 DEF AnswersItsRequest
<1>4. Conversation'
  BY <1>1 DEF Conversation, Broken
<1>5. QED BY <1>2, <1>3, <1>4 DEF IInv

LEMMA CloseKept ==
  ASSUME Disciplined, IInv, Close \/ Wait
  PROVE  IInv'
<1>1. /\ pc \in {"idle", "closing"} /\ pc' \in {"closing", "closed"}
      /\ UNCHANGED <<requests, stream, alive, agreed, sent, kind, pending, result>>
  BY DEF Close, Wait
<1>2. QED BY <1>1 DEF IInv, TypeOK, AnswersItsRequest, Conversation

LEMMA ReceiveLineKept ==
  ASSUME Disciplined, IInv, ReceiveLine
  PROVE  IInv'
<1> DEFINE line == stream[1]
<1>1. PICK length \in FirstLine :
        LET alone == length = 1 /\ line.type = "line"
            verdict == IF alone THEN Judge(line) ELSE "Protocol"
        IN /\ stream' = SubSeq(stream, length + 1, Len(stream))
           /\ IF verdict = "Ok" /\ kind[sent] \in HasContent
              THEN /\ pending' = line
                   /\ pc' = "content"
                   /\ UNCHANGED result
              ELSE Return(verdict, IF alone THEN {line.of} ELSE {})
           /\ agreed' = (agreed \/ (verdict = "Ok" /\ kind[sent] = "handshake"))
  BY DEF ReceiveLine
<1> DEFINE alone == length = 1 /\ line.type = "line"
           verdict == IF alone THEN Judge(line) ELSE "Protocol"
<1>2. pc = "reply" /\ UNCHANGED <<requests, alive, sent, kind>>
  BY DEF ReceiveLine
<1>3. /\ stream \in Seq(Item) /\ Len(stream) \in Nat /\ DOMAIN stream = 1 .. Len(stream)
      /\ sent \in 1 .. MaxRequests /\ result.outcome = "none" /\ sent \in Nat
  BY <1>2, LenProperties, ProviderAssumption DEF IInv, TypeOK, Conversation, Item
<1>4. length \in 1 .. Len(stream) /\ 1 \in DOMAIN stream
  BY <1>3 DEF FirstLine
<1>5. /\ stream' \in Seq(Item)
      /\ \A m \in DOMAIN stream' : /\ m + length \in DOMAIN stream
                                   /\ m + length # length
                                   /\ stream'[m] = stream[m + length]
  <2>1. length \in 0 .. Len(stream)
    BY <1>3, <1>4
  <2>2. QED BY <1>1, <2>1, Rest DEF IInv
<1>6. /\ verdict \in {"Protocol", "VersionMismatch", "Refused", "Ok"}
      /\ verdict = "Ok" => alone /\ line.kind = kind[sent]
      /\ verdict = "Refused" => alone
  BY DEF Judge
\* A line alone at the head of the stream is the answer to the last request.
<1>7. ASSUME alone
      PROVE  requests = <<>> /\ line.of = sent /\ NoLines' /\ OfThisRequest'
  <2>1. requests = <<>> /\ OneAnswer
    BY <1>2, <1>4, <1>7 DEF IInv, Conversation, NoLines
  <2>2. stream # <<>>
    BY <1>3, <1>4
  <2>3. OfThisRequest /\ \A m \in DOMAIN stream : m # 1 => stream[m].type # "line"
    BY <1>7, <2>1, <2>2 DEF OneAnswer
  <2>4. line.of = sent
    BY <1>4, <2>3 DEF OfThisRequest
  <2>5. NoLines' /\ OfThisRequest'
    BY <1>2, <1>5, <1>7, <2>3 DEF NoLines, OfThisRequest
  <2>6. QED BY <2>1, <2>4, <2>5
<1> HIDE DEF line, alone, verdict
<1>8. TypeOK'
  BY ReceiveLineTyped DEF IInv
<1>9. CASE verdict = "Ok" /\ kind[sent] \in HasContent
  <2>1. pending' = line /\ pc' = "content" /\ UNCHANGED result
    BY <1>1, <1>9 DEF verdict, alone, line
  <2>2. AnswersItsRequest'
    BY <1>2, <1>3, <1>6, <1>7, <1>9, <2>1 DEF AnswersItsRequest
  <2>3. Conversation'
    BY <1>2, <1>3, <1>6, <1>7, <1>9, <2>1 DEF Conversation
  <2>4. QED BY <1>8, <2>2, <2>3 DEF IInv
<1>10. CASE ~(verdict = "Ok" /\ kind[sent] \in HasContent)
  <2>1. /\ result' = [outcome |-> verdict, from |-> IF alone THEN {line.of} ELSE {}]
        /\ pending' = NoLine /\ pc' = "idle"
    BY <1>1, <1>10 DEF verdict, alone, line, Return
  <2>2. result'.outcome = verdict /\ (alone => result'.from = {line.of})
    BY <2>1
  <2>3. AnswersItsRequest'
    BY <1>2, <1>6, <1>7, <2>1, <2>2 DEF AnswersItsRequest
  <2>4. Conversation'
    BY <1>2, <1>6, <1>7, <2>1, <2>2 DEF Conversation, Broken
  <2>5. QED BY <1>8, <2>3, <2>4 DEF IInv
<1>11. QED BY <1>9, <1>10

LEMMA ReceiveContentKept ==
  ASSUME Disciplined, IInv, ReceiveContent
  PROVE  IInv'
<1> DEFINE n == pending.declared
           read == {stream[m].of : m \in 1 .. n}
<1> HIDE DEF read
<1>1. /\ pc = "content" /\ Len(stream) >= n /\ stream' = After(n)
      /\ \E outcome \in {"DigestMismatch", "Ok"} : Return(outcome, {pending.of} \union read)
      /\ UNCHANGED <<requests, alive, agreed, sent, kind>>
  BY DEF ReceiveContent, read
<1>2. /\ pc' = "idle" /\ pending' = NoLine /\ result'.outcome \in {"DigestMismatch", "Ok"}
      /\ \E outcome \in {"DigestMismatch", "Ok"} :
           result' = [outcome |-> outcome, from |-> {pending.of} \union read]
  <2>1. PICK outcome \in {"DigestMismatch", "Ok"} : Return(outcome, {pending.of} \union read)
    BY <1>1
  <2>2. /\ pc' = "idle" /\ pending' = NoLine
        /\ result' = [outcome |-> outcome, from |-> {pending.of} \union read]
    BY <2>1 DEF Return
  <2>3. result'.outcome = outcome
    BY <2>2
  <2>4. QED BY <2>2, <2>3, Zenon
<1>3. /\ stream \in Seq(Item) /\ Len(stream) \in Nat /\ DOMAIN stream = 1 .. Len(stream)
      /\ pending \in Line /\ pending.of = sent /\ sent \in 1 .. MaxRequests
      /\ requests = <<>> /\ NoLines /\ OfThisRequest
  BY <1>1, LenProperties DEF IInv, TypeOK, AnswersItsRequest, Conversation, Item
<1>4. n \in Nat /\ n \in 0 .. Len(stream)
  BY <1>1, <1>3, ProviderAssumption DEF Line
<1> HIDE DEF n
<1>5. stream' = SubSeq(stream, n + 1, Len(stream))
  <2>1. CASE n = 0
    BY <1>1, <2>1 DEF After
  <2>2. CASE n # 0
    <3>1. n \in DOMAIN stream
      BY <1>3, <1>4, <2>2
    <3>2. QED BY <1>1, <1>3, <3>1 DEF After, NoLines
  <2>3. QED BY <2>1, <2>2
<1>6. stream' \in Seq(Item) /\ NoLines'
  BY <1>3, <1>4, <1>5, Rest DEF IInv, NoLines
<1>7. {pending.of} \union read = {sent}
  BY <1>3, <1>4 DEF OfThisRequest, read
<1>8. result'.from = {sent}
  BY <1>2, <1>7
<1>9. TypeOK'
  BY ReceiveContentTyped DEF IInv
<1>10. AnswersItsRequest'
  BY <1>1, <1>2, <1>8 DEF AnswersItsRequest
<1>11. Conversation'
  BY <1>1, <1>2, <1>3, <1>6 DEF Conversation
<1>12. QED BY <1>9, <1>10, <1>11 DEF IInv

-----------------------------------------------------------------------------
(* The theorems *)

LEMMA InitTyped == Init => TypeOK
<1> SUFFICES ASSUME Init PROVE TypeOK
  OBVIOUS
<1>1. requests \in Seq(1 .. sent) /\ stream \in Seq(Line \union Part)
  BY DEF Init
<1>2. sent \in 0 .. MaxRequests /\ kind \in [1 .. MaxRequests -> Request]
  BY ProviderAssumption DEF Init, Request
<1>3. result \in Result
  BY DEF Init, Result
<1>4. QED BY <1>1, <1>2, <1>3 DEF Init, TypeOK

\* Whatever the provider writes, and whether or not its caller goes on after an
\* error, every variable keeps its kind, and a reply is pending exactly while its
\* content is awaited.
THEOREM ConversationTypeCorrect == Spec => []TypeOK
BY InitTyped, TypeStep, PTL DEF Spec

LEMMA InitKept == Init => IInv
BY InitTyped DEF Init, IInv, AnswersItsRequest, Conversation, NoLines

LEMMA StepKept ==
  ASSUME Disciplined, IInv, [Next]_vars
  PROVE  IInv'
<1>1. CASE Next
  BY <1>1, RespondKept, DieKept, SendKept, GivesUpKept, ReceiveLineKept, ReceiveContentKept,
     EndOfStreamKept, CloseKept DEF Next
<1>2. CASE UNCHANGED vars
  BY <1>2 DEF vars, IInv, TypeOK, AnswersItsRequest, Conversation, NoLines, OneAnswer,
     OfThisRequest
<1>3. QED BY <1>1, <1>2

\* What a call returns was written by the provider for the request of that
\* call: a caller that calls finish() after an error, and a provider that
\* answers a request once, never get out of step, although no reply names its
\* request and although there may be content left over.
THEOREM AnswersAlwaysItsRequest ==
  ASSUME Disciplined
  PROVE  Spec => []AnswersItsRequest
<1>1. Init => IInv
  BY InitKept
<1>2. IInv /\ [Next]_vars => IInv'
  BY StepKept
<1>3. IInv => AnswersItsRequest
  BY DEF IInv
<1>4. QED BY <1>1, <1>2, <1>3, PTL DEF Spec

-----------------------------------------------------------------------------
(* A call that has not returned can go on *)

LEMMA Least ==
  ASSUME NEW S \in SUBSET Nat, S # {}
  PROVE  \E m \in S : \A k \in S : m <= k
<1>1. PICK m \in S : \A y \in S : ~(<<y, m>> \in OpToRel(<, Nat))
  BY WFMin, NatLessThanWellFounded
<1>2. \A y \in S : ~(y < m)
  BY <1>1 DEF OpToRel
<1>3. QED BY <1>2

\* What a living provider leaves a waiting client to read, or has to answer.
Awaited ==
  alive =>
    /\ pc = "reply" =>
         \/ requests # <<>>
         \/ \E m \in DOMAIN stream : /\ stream[m].type = "line"
                                    /\ Len(stream) >= m + stream[m].declared
    /\ pc = "content" => Len(stream) >= pending.declared

LEMMA RespondAwaited ==
  ASSUME Disciplined, "short" \notin Defect, IInv, Awaited, Respond
  PROVE  Awaited'
<1>1. PICK answer \in Complete(Head(requests)) \union Improper(Head(requests))
                        \union {Refusal(Head(requests))} : stream' = stream \o answer
  BY DEF Respond, Disciplined
<1>2. requests # <<>> /\ UNCHANGED <<alive, pc, sent, pending>>
  BY DEF Respond
<1>3. pc # "content"
  BY <1>2 DEF IInv, Conversation
<1>4. Head(requests) \in 1 .. MaxRequests
  <2>1. requests \in Seq(1 .. sent) /\ sent \in 0 .. MaxRequests
    BY DEF IInv, TypeOK
  <2>2. Head(requests) \in 1 .. sent
    BY <1>2, <2>1, HeadTailProperties
  <2>3. QED BY <2>1, <2>2, ProviderAssumption
<1>5. /\ AnswerShape(answer, Head(requests)) /\ answer[1].type = "line"
      /\ answer[1].declared \in Nat /\ Len(answer) >= 1 + answer[1].declared
  BY <1>1, <1>4, AnswersAreWhole DEF IInv
<1>6. /\ stream \in Seq(Item) /\ answer \in Seq(Item) /\ Len(answer) >= 1
      /\ Len(stream) \in Nat /\ Len(answer) \in Nat
  BY <1>5, LenProperties DEF AnswerShape, IInv, TypeOK, Item
<1>7. /\ stream' \in Seq(Item) /\ Len(stream') = Len(stream) + Len(answer)
      /\ \A i \in 1 .. Len(stream) + Len(answer) :
           stream'[i] = IF i <= Len(stream) THEN stream[i] ELSE answer[i - Len(stream)]
  BY <1>1, <1>6, ConcatProperties
<1> DEFINE m == Len(stream) + 1
<1>8. m \in 1 .. Len(stream) + Len(answer) /\ ~(m <= Len(stream)) /\ m - Len(stream) = 1
  BY <1>6
<1>9. m \in DOMAIN stream' /\ stream'[m] = answer[1]
  BY <1>7, <1>8, LenProperties
<1>10. Len(stream') >= m + answer[1].declared
  <2>1. \A l, k, d \in Nat : k >= 1 + d => l + k >= l + 1 + d
    OBVIOUS
  <2>2. QED BY <1>5, <1>6, <1>7, <2>1
<1>11. QED BY <1>2, <1>3, <1>5, <1>9, <1>10 DEF Awaited

LEMMA ReceiveLineAwaited ==
  ASSUME Disciplined, IInv, Awaited, ReceiveLine
  PROVE  Awaited'
<1>1. SUFFICES ASSUME alive, pc' = "content" PROVE Len(stream') >= pending'.declared
  BY DEF Awaited, ReceiveLine, Return
<1>2. PICK length \in FirstLine :
        /\ length = 1 /\ stream[1].type = "line"
        /\ stream' = SubSeq(stream, length + 1, Len(stream)) /\ pending' = stream[1]
  BY <1>1 DEF ReceiveLine, Return
<1>3. pc = "reply"
  BY DEF ReceiveLine
<1>4. stream \in Seq(Item) /\ Len(stream) \in Nat /\ DOMAIN stream = 1 .. Len(stream)
  BY LenProperties DEF IInv, TypeOK, Item
<1>5. 1 \in DOMAIN stream /\ stream # <<>>
  BY <1>2, <1>4 DEF FirstLine
<1>6. requests = <<>> /\ \A m \in DOMAIN stream : m # 1 => stream[m].type # "line"
  BY <1>2, <1>3, <1>5 DEF IInv, Conversation, NoLines, OneAnswer
<1>7. Len(stream) >= 1 + stream[1].declared
  BY <1>1, <1>3, <1>6 DEF Awaited
<1>8. stream[1].declared \in Nat
  BY <1>2, <1>4, <1>5, ProviderAssumption DEF Item, Line, Part
<1>9. Len(stream') = Len(stream) - 1
  BY <1>2, <1>4, <1>5, SubSeqProperties
<1>10. QED BY <1>2, <1>4, <1>7, <1>8, <1>9

LEMMA StepAwaited ==
  ASSUME Disciplined, "short" \notin Defect, IInv, Awaited, [Next]_vars
  PROVE  Awaited'
<1>1. CASE \E k \in Request : Send(k)
  <2>1. PICK k \in Request : Send(k)
    BY <1>1
  <2>2. requests \in Seq(1 .. sent) /\ pc' = "reply" /\ requests' = Append(requests, sent + 1)
    BY <2>1 DEF Send, IInv, TypeOK
  <2>3. Append(requests, sent + 1) # <<>>
    BY <2>2
  <2>4. QED BY <2>2, <2>3 DEF Awaited
<1>2. CASE RequireHandshake \/ SendFails \/ ReceiveContent \/ EndOfStream
  BY <1>2 DEF Awaited, RequireHandshake, SendFails, ReceiveContent, EndOfStream, Return
<1>3. CASE Die \/ Close \/ Wait
  BY <1>3 DEF Awaited, Die, Close, Wait
<1>4. CASE UNCHANGED vars
  BY <1>4 DEF Awaited, vars
<1>5. QED BY <1>1, <1>2, <1>3, <1>4, RespondAwaited, ReceiveLineAwaited DEF Next

LEMMA AwaitedGoesOn ==
  ASSUME IInv, Awaited
  PROVE  CallGoesOn
<1>1. stream \in Seq(Item) /\ Len(stream) \in Nat /\ DOMAIN stream = 1 .. Len(stream)
  BY LenProperties DEF IInv, TypeOK, Item
<1>2. ASSUME NEW m \in DOMAIN stream, Ends(stream[m]) \/ (~alive /\ m = Len(stream))
      PROVE  FirstLine # {}
  <2> DEFINE E == {n \in DOMAIN stream : Ends(stream[n]) \/ (~alive /\ n = Len(stream))}
  <2>1. E \in SUBSET Nat /\ E # {}
    BY <1>1, <1>2
  <2>2. PICK n \in E : \A k \in E : n <= k
    BY <2>1, Least
  <2>3. ASSUME NEW k \in 1 .. n - 1 PROVE ~Ends(stream[k])
    <3>1. k \in DOMAIN stream /\ ~(n <= k)
      BY <1>1, <2>2
    <3>2. QED BY <2>2, <3>1
  <2>4. n \in FirstLine
    BY <2>2, <2>3 DEF FirstLine
  <2>5. QED BY <2>4
<1>3. CASE alive
  BY <1>2, <1>3 DEF Awaited, CallGoesOn, Ends
<1>4. CASE ~alive
  <2>1. stream = <<>> \/ Len(stream) \in DOMAIN stream
    BY <1>1, EmptySeq
  <2>2. QED BY <1>2, <1>4, <2>1 DEF CallGoesOn
<1>5. QED BY <1>3, <1>4

\* A provider that writes all the content it declares never leaves a call
\* waiting for ever: there is always a line to read, all of the content, the end
\* of the stream, or a request the provider has yet to answer.
THEOREM CallsAlwaysGoOn ==
  ASSUME Disciplined, "short" \notin Defect
  PROVE  Spec => []CallGoesOn
<1>1. Init => IInv /\ Awaited
  BY InitKept DEF Init, Awaited
<1>2. IInv /\ Awaited /\ [Next]_vars => IInv' /\ Awaited'
  BY StepKept, StepAwaited
<1>3. IInv /\ Awaited => CallGoesOn
  BY AwaitedGoesOn
<1>4. QED BY <1>1, <1>2, <1>3, PTL DEF Spec

-----------------------------------------------------------------------------
(* Links: the invariant *)

RulesKept == {"one_writer", "editor_waits", "open_first"} \subseteq Rules

\* No source is declared twice.
LinksDistinct(links) ==
  \A i, j \in DOMAIN links : links[i].source = links[j].source => i = j

\* One command at a time is past the point where it reads what it will write over.
OneWriter == \A p, q \in Process : Writing(p) /\ Writing(q) => p = q

Committing == {"promote_database", "promote_settings", "forget"}

\* The files a link change has promoted.
Promoted(p) ==
  CASE doing[p] = "promote_database" -> {}
    [] doing[p] = "promote_settings" -> {"database"}
    [] doing[p] = "forget" -> journal

\* A command that writes found no journal, and the one there is now is its own.
JournalOfWriter(p) ==
  /\ Writing(p) /\ doing[p] \notin Committing => journal = {}
  /\ doing[p] \in Committing =>
       /\ journal = IF local[p].document = Nothing THEN {"database"} ELSE File
       /\ \A f \in Promoted(p) : staged[f] = Nothing
  /\ doing[p] = "promote_settings" => local[p].document # Nothing

\* What a link change is about to write belongs to the settings there are.
LinkChange(p) ==
  /\ doing[p] \in {"stage_database", "stage_settings", "journal"} =>
       Readable(disk.settings) /\ local[p].document = mirror_to_write(p)
  /\ doing[p] = "stage_settings" => local[p].document # Nothing
  /\ doing[p] \in {"stage_settings", "journal"} => staged.database = local[p].links
  /\ doing[p] = "journal" /\ local[p].document # Nothing => staged.settings = local[p].document

\* So does what a refresh is about to write.
Refresh(p) ==
  /\ doing[p] \in {"write_staged", "rename"} =>
       /\ Readable(disk.settings)
       /\ local[p].document =
            [disk.settings EXCEPT !.links =
               [defined |-> TRUE, entries |-> Recorded(@.entries, local[p].resolved)]]
  /\ doing[p] = "rename" => staged.settings = local[p].document

LocalKnown(p) == LinksDistinct(local[p].links) /\ IsFiniteSet(local[p].resolved)

Own(p) == JournalOfWriter(p) /\ LinkChange(p) /\ Refresh(p) /\ LocalKnown(p)

DistinctDeclared == LinksDistinct(Recovered("database")) /\ LinksDistinct(disk.database)

LinksIInv == LinksTypeOK /\ DistinctDeclared /\ OneWriter /\ \A p \in Process : Own(p)

-----------------------------------------------------------------------------
(* Looking up, mirroring and recording entries *)

LEMMA FindIs ==
  ASSUME NEW entries \in Seq(LinkSettings), NEW s
  PROVE  /\ s \in Sources(entries) <=> Find(entries, s) # 0
         /\ Find(entries, s) # 0 =>
              /\ Find(entries, s) \in DOMAIN entries
              /\ entries[Find(entries, s)].source = s
              /\ \A j \in DOMAIN entries : entries[j].source = s => Find(entries, s) <= j
<1> DEFINE at == {i \in DOMAIN entries : entries[i].source = s}
<1>1. DOMAIN entries = 1 .. Len(entries) /\ Len(entries) \in Nat
  OBVIOUS
<1>2. CASE at = {}
  BY <1>2 DEF Find, Sources
<1>3. CASE at # {}
  <2>1. at \in SUBSET Nat
    BY <1>1
  <2>2. Min(at) \in at /\ \A k \in at : Min(at) <= k
    BY <1>3, <2>1, Least DEF Min
  <2>3. Find(entries, s) = Min(at)
    BY <1>3 DEF Find
  <2>4. s \in Sources(entries)
    BY <1>3 DEF Sources
  <2>5. Min(at) # 0
    BY <1>1, <2>2
  <2>6. QED BY <2>2, <2>3, <2>4, <2>5
<1>4. QED BY <1>2, <1>3

\* Without one element, a sequence is its front and what followed that element.
LEMMA RemovedIs ==
  ASSUME NEW S, NEW seq \in Seq(S), NEW i \in DOMAIN seq
  PROVE  /\ RemoveAt(seq, i) \in Seq(S)
         /\ Len(RemoveAt(seq, i)) = Len(seq) - 1
         /\ \A k \in DOMAIN RemoveAt(seq, i) :
              RemoveAt(seq, i)[k] = IF k < i THEN seq[k] ELSE seq[k + 1]
<1> DEFINE before == SubSeq(seq, 1, i - 1)
           after == SubSeq(seq, i + 1, Len(seq))
<1>1. Len(seq) \in Nat /\ DOMAIN seq = 1 .. Len(seq) /\ i \in 1 .. Len(seq)
  OBVIOUS
<1>2. /\ before \in Seq(S) /\ Len(before) = i - 1
      /\ \A k \in 1 .. i - 1 : before[k] = seq[k]
  BY <1>1, SubSeqProperties
<1>3. /\ after \in Seq(S) /\ Len(after) = Len(seq) - i
      /\ \A k \in 1 .. Len(seq) - i : after[k] = seq[i + k]
  BY <1>1, SubSeqProperties
<1> HIDE DEF before, after
<1>4. /\ before \o after \in Seq(S) /\ Len(before \o after) = Len(seq) - 1
      /\ \A k \in 1 .. Len(seq) - 1 :
           (before \o after)[k] = IF k <= i - 1 THEN before[k] ELSE after[k - (i - 1)]
  <2>1. /\ before \o after \in Seq(S)
        /\ Len(before \o after) = Len(before) + Len(after)
        /\ \A k \in 1 .. Len(before) + Len(after) :
             (before \o after)[k] =
               IF k <= Len(before) THEN before[k] ELSE after[k - Len(before)]
    BY <1>2, <1>3, ConcatProperties
  <2>2. Len(before) + Len(after) = Len(seq) - 1
    BY <1>1, <1>2, <1>3
  <2>3. QED BY <1>2, <2>1, <2>2
<1>5. RemoveAt(seq, i) = before \o after
  BY DEF RemoveAt, before, after
<1>6. ASSUME NEW k \in 1 .. Len(seq) - 1
      PROVE  (before \o after)[k] = IF k < i THEN seq[k] ELSE seq[k + 1]
  <2>1. CASE k < i
    BY <1>1, <1>2, <1>4, <2>1
  <2>2. CASE ~(k < i)
    <3>1. k - (i - 1) \in 1 .. Len(seq) - i /\ i + (k - (i - 1)) = k + 1
      BY <1>1, <2>2
    <3>2. QED BY <1>1, <1>3, <1>4, <2>2, <3>1
  <2>3. QED BY <2>1, <2>2
<1>7. DOMAIN (before \o after) = 1 .. Len(seq) - 1
  BY <1>4
<1>8. QED BY <1>4, <1>5, <1>6, <1>7

LEMMA RemovedDistinct ==
  ASSUME NEW links \in Seq(Link), NEW i \in DOMAIN links, LinksDistinct(links)
  PROVE  RemoveAt(links, i) \in Seq(Link) /\ LinksDistinct(RemoveAt(links, i))
<1> DEFINE rest == RemoveAt(links, i)
           Old(k) == IF k < i THEN k ELSE k + 1
<1>1. /\ rest \in Seq(Link) /\ Len(rest) = Len(links) - 1
      /\ \A k \in DOMAIN rest : rest[k] = IF k < i THEN links[k] ELSE links[k + 1]
  BY RemovedIs
<1> HIDE DEF rest
<1>2. DOMAIN rest = 1 .. Len(links) - 1 /\ DOMAIN links = 1 .. Len(links) /\ Len(links) \in Nat
  BY <1>1
<1>3. \A k \in DOMAIN rest : Old(k) \in DOMAIN links /\ rest[k] = links[Old(k)]
  BY <1>1, <1>2
<1>4. \A j, k \in DOMAIN rest : Old(j) = Old(k) => j = k
  BY <1>2
<1> HIDE DEF Old
<1>5. LinksDistinct(rest)
  BY <1>3, <1>4 DEF LinksDistinct
<1>6. QED BY <1>1, <1>5 DEF rest

LEMMA EntryFields ==
  ASSUME NEW s \in Source
  PROVE  Entry(s) \in LinkSettings /\ Entry(s).source = s /\ Entry(s).credential = "none"
BY LinksAssumption DEF Entry, LinkSettings, Commits

\* The mirror has the declared links in their order, each with the entry it had.
LEMMA MirroredIs ==
  ASSUME NEW document \in SettingsDocument, NEW links \in Seq(Link)
  PROVE  LET entries == document.links.entries
             mirror == Mirrored(document, links)
         IN /\ mirror \in Seq(LinkSettings)
            /\ DOMAIN mirror = DOMAIN links
            /\ \A i \in DOMAIN links :
                 /\ mirror[i].source = links[i].source
                 /\ mirror[i] = IF links[i].source \in Sources(entries)
                                THEN entries[Find(entries, links[i].source)]
                                ELSE Entry(links[i].source)
<1> DEFINE entries == document.links.entries
           mirror == Mirrored(document, links)
<1>1. entries \in Seq(LinkSettings)
  BY DEF SettingsDocument
<1>2. DOMAIN links = 1 .. Len(links) /\ Len(links) \in Nat
  OBVIOUS
<1>3. ASSUME NEW i \in DOMAIN links
      PROVE  LET at == Find(entries, links[i].source)
                 e == IF at = 0 THEN Entry(links[i].source) ELSE entries[at]
             IN /\ e \in LinkSettings /\ e.source = links[i].source
                /\ e = IF links[i].source \in Sources(entries) THEN entries[at]
                       ELSE Entry(links[i].source)
  <2> links[i] \in Link
    BY <1>2
  <2>1. links[i].source \in Source
    BY DEF Link
  <2>2. CASE Find(entries, links[i].source) = 0
    BY <1>1, <2>1, <2>2, EntryFields, FindIs
  <2>3. CASE Find(entries, links[i].source) # 0
    <3>1. Find(entries, links[i].source) \in DOMAIN entries
      BY <1>1, <2>3, FindIs
    <3>2. entries[Find(entries, links[i].source)].source = links[i].source
      BY <1>1, <2>3, FindIs
    <3>3. links[i].source \in Sources(entries)
      BY <1>1, <2>3, FindIs
    <3>4. QED BY <1>1, <2>3, <3>1, <3>2, <3>3
  <2>4. QED BY <2>2, <2>3
<1>4. mirror = [i \in DOMAIN links |->
                  IF Find(entries, links[i].source) = 0 THEN Entry(links[i].source)
                  ELSE entries[Find(entries, links[i].source)]]
  BY DEF Mirrored
<1>5. DOMAIN mirror = DOMAIN links
  BY <1>4
<1>6. mirror \in [1 .. Len(links) -> LinkSettings]
  BY <1>2, <1>3, <1>4
<1>7. mirror \in Seq(LinkSettings)
  BY <1>2, <1>6
<1>8. QED BY <1>3, <1>4, <1>5, <1>7

\* The sequence of a finite set holds elements of the set.
LEMMA SetToSeqIs ==
  ASSUME NEW S, IsFiniteSet(S)
  PROVE  SetToSeq(S) \in Seq(S) /\ IsInjective(SetToSeq(S))
<1>1. Cardinality(S) \in Nat /\ ExistsBijection(1 .. Cardinality(S), S)
  BY FS_CardinalityType
<1>2. PICK f \in Bijection(1 .. Cardinality(S), S) : TRUE
  BY <1>1 DEF ExistsBijection
<1>3. f \in [1 .. Cardinality(S) -> S] /\ IsInjective(f)
  BY <1>2 DEF Bijection, Injection, IsInjective
<1>4. SetToSeq(S) \in [1 .. Cardinality(S) -> S] /\ IsInjective(SetToSeq(S))
  BY <1>3 DEF SetToSeq
<1>5. QED BY <1>1, <1>4

\* A refresh keeps each entry but for its commit, which is the one the provider
\* answered, and adds one for each answer whose source has none.
LEMMA RecordedIs ==
  ASSUME NEW entries \in Seq(LinkSettings), NEW resolved \in SUBSET Answer,
         IsFiniteSet(resolved)
  PROVE  LET all == Recorded(entries, resolved)
         IN /\ all \in Seq(LinkSettings)
            /\ DOMAIN entries \subseteq DOMAIN all
            /\ \A i \in DOMAIN entries :
                 /\ all[i].source = entries[i].source
                 /\ all[i].credential = entries[i].credential
                 /\ all[i].alias = entries[i].alias
                 /\ \/ all[i].commit = entries[i].commit
                    \/ \E r \in resolved :
                         r.source = entries[i].source /\ all[i].commit = r.commit
            /\ \A i \in DOMAIN all \ DOMAIN entries : \E r \in resolved :
                 /\ r.source \notin Sources(entries)
                 /\ all[i] = [Entry(r.source) EXCEPT !.commit = r.commit]
            /\ \A i, j \in DOMAIN all \ DOMAIN entries : all[i] = all[j] => i = j
<1> DEFINE commit(s) == {r.commit : r \in {r \in resolved : r.source = s}}
           new == {r \in resolved : Find(entries, r.source) = 0}
           Updated(i) == IF commit(entries[i].source) = {} THEN entries[i]
                         ELSE [entries[i] EXCEPT
                                 !.commit = CHOOSE c \in commit(entries[i].source) : TRUE]
           kept == [i \in DOMAIN entries |-> Updated(i)]
           Added(r) == [Entry(r.source) EXCEPT !.commit = r.commit]
           set == {Added(r) : r \in new}
           added == SetToSeq(set)
<1>1. DOMAIN entries = 1 .. Len(entries) /\ Len(entries) \in Nat
  OBVIOUS
<1>2. ASSUME NEW i \in DOMAIN entries
      PROVE  /\ Updated(i) \in LinkSettings
             /\ Updated(i).source = entries[i].source
             /\ Updated(i).credential = entries[i].credential
             /\ Updated(i).alias = entries[i].alias
             /\ \/ Updated(i).commit = entries[i].commit
                \/ \E r \in resolved :
                     r.source = entries[i].source /\ Updated(i).commit = r.commit
  <2>1. entries[i] \in LinkSettings
    BY <1>1
  <2>2. CASE commit(entries[i].source) = {}
    BY <2>1, <2>2
  <2>3. CASE commit(entries[i].source) # {}
    <3>1. PICK c \in commit(entries[i].source) : c = CHOOSE x \in commit(entries[i].source) : TRUE
      BY <2>3
    <3>2. PICK r \in resolved : r.source = entries[i].source /\ c = r.commit
      OBVIOUS
    <3>3. c \in Commits
      BY <3>2 DEF Answer
    <3>4. Updated(i) = [entries[i] EXCEPT !.commit = c]
      BY <2>3, <3>1
    <3> HIDE DEF Updated
    <3>5. QED BY <2>1, <3>2, <3>3, <3>4 DEF LinkSettings
  <2>4. QED BY <2>2, <2>3
<1>3. ASSUME NEW e \in set
      PROVE  /\ e \in LinkSettings
             /\ \E r \in resolved : r.source \notin Sources(entries) /\ e = Added(r)
  <2>1. PICK r \in new : e = Added(r)
    OBVIOUS
  <2>2. r \in resolved /\ r.source \in Remote /\ r.commit \in Commits /\ r.commit > 0
    BY LinksAssumption DEF Answer, Commits
  <2>3. r.source \in Source /\ r.source \notin Sources(entries)
    BY <2>2, LinksAssumption, FindIs
  <2>4. QED BY <2>1, <2>2, <2>3 DEF Entry, LinkSettings
<1>4. IsFiniteSet(set)
  <2>1. IsFiniteSet(new)
    BY FS_Subset
  <2> DEFINE f == [r \in new |-> Added(r)]
  <2> HIDE DEF new, Added
  <2>2. f \in Surjection(new, set)
    BY DEF Surjection
  <2>3. QED BY <2>1, <2>2, FS_Surjection
<1>5. added \in Seq(set) /\ IsInjective(added)
  BY <1>4, SetToSeqIs
<1>6. Recorded(entries, resolved) = kept \o added
  BY DEF Recorded
<1> HIDE DEF Updated, added, set, Added
<1>7. kept \in [1 .. Len(entries) -> LinkSettings]
  BY <1>1, <1>2
<1>8. kept \in Seq(LinkSettings) /\ Len(kept) = Len(entries)
  BY <1>1, <1>7
<1>9. added \in Seq(LinkSettings) /\ \A k \in 1 .. Len(added) : added[k] \in set
  BY <1>3, <1>5
<1> DEFINE all == kept \o added
<1>10. /\ all \in Seq(LinkSettings) /\ Len(all) = Len(entries) + Len(added)
       /\ DOMAIN all = 1 .. Len(all) /\ Len(added) \in Nat
       /\ \A i \in 1 .. Len(all) :
            all[i] = IF i <= Len(entries) THEN kept[i] ELSE added[i - Len(entries)]
  BY <1>8, <1>9
<1> HIDE DEF all
<1>11. ASSUME NEW i \in DOMAIN entries PROVE i \in DOMAIN all /\ all[i] = Updated(i)
  BY <1>1, <1>10
<1>12. ASSUME NEW i \in DOMAIN all \ DOMAIN entries
       PROVE  /\ i - Len(entries) \in DOMAIN added
              /\ all[i] = added[i - Len(entries)] /\ all[i] \in set
  <2>1. i \in 1 .. Len(all) /\ i > Len(entries) /\ i - Len(entries) \in 1 .. Len(added)
    BY <1>1, <1>10
  <2>2. all[i] = added[i - Len(entries)]
    BY <1>1, <1>10, <2>1
  <2>3. DOMAIN added = 1 .. Len(added)
    BY <1>5
  <2>4. QED BY <1>9, <2>1, <2>2, <2>3
<1>13. ASSUME NEW i \in DOMAIN all \ DOMAIN entries, NEW j \in DOMAIN all \ DOMAIN entries,
              all[i] = all[j]
       PROVE  i = j
  <2>1. i - Len(entries) = j - Len(entries)
    BY <1>5, <1>12, <1>13 DEF IsInjective
  <2>2. QED BY <1>1, <1>10, <2>1
<1>14. Recorded(entries, resolved) = all
  BY <1>6 DEF all
<1>15. \A i \in DOMAIN all \ DOMAIN entries : \E r \in resolved :
         r.source \notin Sources(entries) /\ all[i] = Added(r)
  BY <1>3, <1>12
<1>16. QED BY <1>2, <1>10, <1>11, <1>13, <1>14, <1>15 DEF Added

-----------------------------------------------------------------------------
(* A step of one process *)

\* What the next open finds is what it would have found.
Quiet == \A f \in File : Recovered(f)' = Recovered(f)

\* A process that does not write owes nothing but what it knows.
LEMMA OthersKept ==
  ASSUME NEW q \in Process, Own(q), doing'[q] = doing[q], local'[q] = local[q],
         Writing(q) => UNCHANGED <<disk, staged, journal>>
  PROVE  Own(q)' /\ (Writing(q)' <=> Writing(q))
<1>1. CASE Writing(q)
  <2>1. UNCHANGED <<disk, staged, journal>>
    BY <1>1
  <2>2. mirror_to_write(q)' = mirror_to_write(q) /\ (Writing(q)' <=> Writing(q))
    BY <2>1 DEF mirror_to_write, Writing
  <2>3. JournalOfWriter(q)' /\ LinkChange(q)' /\ Refresh(q)' /\ LocalKnown(q)'
    BY <2>1, <2>2 DEF Own, JournalOfWriter, LinkChange, Refresh, LocalKnown, Promoted
  <2>4. QED BY <2>2, <2>3 DEF Own
<1>2. CASE ~Writing(q)
  <2>1. doing'[q] \in {"idle", "resolve"} /\ ~Writing(q)'
    BY <1>2 DEF Writing
  <2>2. LocalKnown(q)'
    BY DEF Own, LocalKnown
  <2>3. QED BY <1>2, <2>1, <2>2
    DEF Own, JournalOfWriter, LinkChange, Refresh, Writing, Committing
<1>3. QED BY <1>1, <1>2

LEMMA StepOf ==
  ASSUME LinksIInv, LinksTypeOK', DistinctDeclared', NEW p \in Process,
         \A q \in Process \ {p} : doing'[q] = doing[q] /\ local'[q] = local[q],
         Writing(p)' => \A q \in Process \ {p} : ~Writing(q),
         UNCHANGED <<disk, staged, journal>> \/ \A q \in Process \ {p} : ~Writing(q),
         Own(p)'
  PROVE  LinksIInv'
<1>1. ASSUME NEW q \in Process \ {p}
      PROVE  Own(q)' /\ (Writing(q)' <=> Writing(q))
  BY OthersKept DEF LinksIInv
<1>2. \A q \in Process : Own(q)'
  BY <1>1
<1>3. OneWriter'
  BY <1>1 DEF LinksIInv, OneWriter
<1>4. QED BY <1>2, <1>3 DEF LinksIInv

LEMMA OthersWait ==
  ASSUME RulesKept, LinksIInv, NEW p \in Process, Writing(p) \/ Alone(p)
  PROVE  \A q \in Process \ {p} : ~Writing(q)
BY DEF RulesKept, UserRule, LinksIInv, OneWriter, Alone

\* A step that touches no file.
LEMMA LocalStep ==
  ASSUME RulesKept, LinksIInv, NEW p \in Process,
         UNCHANGED <<disk, staged, journal, handle, head>>, Program,
         NEW step \in Step, Goto(p, step),
         NEW own \in Local, local' = [local EXCEPT ![p] = own],
         step \notin {"idle", "resolve"} => Writing(p) \/ Alone(p),
         Own(p)'
  PROVE  LinksIInv' /\ Quiet
<1>1. Quiet
  BY DEF Quiet, Recovered
<1>2. LinksTypeOK'
  BY DEF LinksIInv, LinksTypeOK, Goto, Program, Author
<1>3. DistinctDeclared'
  BY <1>1 DEF LinksIInv, DistinctDeclared, Quiet, File
<1>4. doing[p] \in Step /\ doing'[p] = step
  BY DEF LinksIInv, LinksTypeOK, Goto
<1>5. \A q \in Process \ {p} : doing'[q] = doing[q] /\ local'[q] = local[q]
  BY DEF LinksIInv, LinksTypeOK, Goto
<1>6. Writing(p)' => \A q \in Process \ {p} : ~Writing(q)
  BY <1>4, OthersWait DEF Writing
<1>7. QED BY <1>1, <1>2, <1>3, <1>5, <1>6, StepOf

LEMMA OwnAtRest ==
  ASSUME NEW p \in Process, doing'[p] \in {"idle", "resolve"}, LocalKnown(p)'
  PROVE  Own(p)'
BY DEF Own, JournalOfWriter, LinkChange, Refresh, Writing, Committing

LEMMA BlankKnown ==
  /\ Blank \in Local
  /\ LinksDistinct(Blank.links) /\ IsFiniteSet(Blank.resolved)
<1>1. Blank.links = <<>> /\ Blank.resolved = {}
  BY DEF Blank
<1>2. Blank \in Local
  BY LinksAssumption DEF Blank, Local
<1>3. QED BY <1>1, <1>2, FS_EmptySet DEF LinksDistinct

\* A process that gives up, or is done, forgets what it knew.
LEMMA GivesUp ==
  ASSUME RulesKept, LinksIInv, NEW p \in Process,
         UNCHANGED <<disk, staged, journal, handle, head>>, Program, Finish(p)
  PROVE  LinksIInv' /\ Quiet
<1>1. Goto(p, "idle") /\ local' = [local EXCEPT ![p] = Blank] /\ "idle" \in Step
  BY DEF Finish, Step
<1>2. doing'[p] = "idle" /\ local'[p] = Blank
  BY <1>1 DEF LinksIInv, LinksTypeOK, Goto
<1>3. Own(p)'
  BY <1>2, BlankKnown, OwnAtRest DEF LocalKnown
<1>4. QED BY <1>1, <1>3, BlankKnown, LocalStep

LEMMA LinksAdded ==
  ASSUME RulesKept, LinksIInv, NEW p \in Process, add_link(p)
  PROVE  LinksIInv' /\ Quiet
<1>1. MayStart(p) /\ Goto(p, "mirror") /\ Program
      /\ UNCHANGED <<disk, staged, journal, handle, head>>
  BY DEF add_link
<1>2. PICK link \in Link :
        /\ \A i \in DOMAIN disk.database : disk.database[i].source # link.source
        /\ local' = [local EXCEPT ![p].links = Append(disk.database, link)]
  BY DEF add_link
<1> DEFINE links == Append(disk.database, link)
           own == [local[p] EXCEPT !.links = links]
<1>3. disk.database \in Seq(Link) /\ local[p] \in Local /\ LinksDistinct(disk.database)
  BY DEF LinksIInv, LinksTypeOK, DistinctDeclared
<1>4. links \in Seq(Link)
  BY <1>3
<1>5. LinksDistinct(links)
  <2>1. Len(links) = Len(disk.database) + 1 /\ DOMAIN links = 1 .. Len(links)
        /\ Len(disk.database) \in Nat /\ DOMAIN disk.database = 1 .. Len(disk.database)
        /\ \A i \in DOMAIN links :
             links[i] = IF i \in DOMAIN disk.database THEN disk.database[i] ELSE link
    BY <1>3
  <2> HIDE DEF links
  <2>2. QED BY <1>2, <1>3, <2>1 DEF LinksDistinct
<1>6. own \in Local /\ own.links = links /\ own.resolved = local[p].resolved
  BY <1>3, <1>4 DEF Local
<1>7. local' = [local EXCEPT ![p] = own]
  BY <1>2, <1>3 DEF LinksIInv, LinksTypeOK
<1> HIDE DEF links, own
<1>8. doing'[p] = "mirror" /\ local'[p] = own
  BY <1>1, <1>7 DEF LinksIInv, LinksTypeOK, Goto
<1>9. journal' = {}
  BY <1>1 DEF MayStart, MayWrite, RulesKept, UserRule
<1>10. LocalKnown(p)'
  BY <1>5, <1>6, <1>8 DEF LocalKnown, LinksIInv, Own
<1>11. Own(p)'
  BY <1>8, <1>9, <1>10 DEF Own, JournalOfWriter, LinkChange, Refresh, Committing
<1>12. "mirror" \in Step /\ Alone(p)
  BY <1>1 DEF Step, MayStart, MayWrite
<1>13. QED BY <1>1, <1>6, <1>7, <1>11, <1>12, LocalStep

LEMMA LinksRemoved ==
  ASSUME RulesKept, LinksIInv, NEW p \in Process, remove_link(p)
  PROVE  LinksIInv' /\ Quiet
<1>1. MayStart(p) /\ Goto(p, "mirror") /\ Program
      /\ UNCHANGED <<disk, staged, journal, handle, head>>
  BY DEF remove_link
<1>2. PICK i \in DOMAIN disk.database :
        local' = [local EXCEPT ![p].links = RemoveAt(disk.database, i)]
  BY DEF remove_link
<1> DEFINE links == RemoveAt(disk.database, i)
           own == [local[p] EXCEPT !.links = links]
<1>3. disk.database \in Seq(Link) /\ local[p] \in Local /\ LinksDistinct(disk.database)
  BY DEF LinksIInv, LinksTypeOK, DistinctDeclared
<1>4. links \in Seq(Link) /\ LinksDistinct(links)
  BY <1>3, RemovedDistinct
<1>6. own \in Local /\ own.links = links /\ own.resolved = local[p].resolved
  BY <1>3, <1>4 DEF Local
<1>7. local' = [local EXCEPT ![p] = own]
  BY <1>2, <1>3 DEF LinksIInv, LinksTypeOK
<1> HIDE DEF links, own
<1>8. doing'[p] = "mirror" /\ local'[p] = own
  BY <1>1, <1>7 DEF LinksIInv, LinksTypeOK, Goto
<1>9. journal' = {}
  BY <1>1 DEF MayStart, MayWrite, RulesKept, UserRule
<1>10. LocalKnown(p)'
  BY <1>4, <1>6, <1>8 DEF LocalKnown, LinksIInv, Own
<1>11. Own(p)'
  BY <1>8, <1>9, <1>10 DEF Own, JournalOfWriter, LinkChange, Refresh, Committing
<1>12. "mirror" \in Step /\ Alone(p)
  BY <1>1 DEF Step, MayStart, MayWrite
<1>13. QED BY <1>1, <1>6, <1>7, <1>11, <1>12, LocalStep

\* The settings a link change writes are the settings with mirrored entries.
LEMMA MirrorDocument ==
  ASSUME NEW document \in SettingsDocument, NEW links \in Seq(Link)
  PROVE  [document EXCEPT !.links = [defined |-> TRUE, entries |-> Mirrored(document, links)]]
           \in SettingsDocument
<1>1. Mirrored(document, links) \in Seq(LinkSettings)
  BY MirroredIs
<1>2. QED BY <1>1 DEF SettingsDocument

LEMMA MirrorEntries ==
  ASSUME NEW p \in Process, disk.settings \in SettingsDocument, local[p].links \in Seq(Link)
  PROVE  LET document == IF mirror_to_write(p) = Nothing THEN disk.settings
                         ELSE mirror_to_write(p)
         IN /\ document.links.entries = Mirrored(disk.settings, local[p].links)
            /\ document.fields = disk.settings.fields
            /\ document.unknown = disk.settings.unknown
            /\ document.version = disk.settings.version
<1> DEFINE entries == Mirrored(disk.settings, local[p].links)
           mirror == [disk.settings EXCEPT !.links = [defined |-> TRUE, entries |-> entries]]
<1>1. mirror # Nothing
  BY MirrorDocument, LinksAssumption
<1>2. /\ mirror.links.entries = entries /\ mirror.fields = disk.settings.fields
      /\ mirror.unknown = disk.settings.unknown /\ mirror.version = disk.settings.version
  BY DEF SettingsDocument
<1>3. mirror_to_write(p) = IF entries = disk.settings.links.entries
                              /\ (entries # <<>> => disk.settings.links.defined)
                           THEN Nothing ELSE mirror
  BY DEF mirror_to_write
<1> HIDE DEF mirror
<1>4. QED BY <1>1, <1>2, <1>3

LEMMA MirrorKnown ==
  ASSUME LinksIInv, NEW p \in Process
  PROVE  mirror_to_write(p) \in SettingsDocument \union {Nothing}
BY MirrorDocument DEF mirror_to_write, LinksIInv, LinksTypeOK, Local

LEMMA MirrorStep ==
  ASSUME RulesKept, LinksIInv, NEW p \in Process, Mirror(p)
  PROVE  LinksIInv' /\ Quiet
<1>1. doing[p] = "mirror" /\ Program /\ UNCHANGED <<disk, staged, journal, handle, head>>
  BY DEF Mirror
<1>2. CASE Readable(disk.settings)
  <2>1. local' = [local EXCEPT ![p].document = mirror_to_write(p)] /\ Goto(p, "stage_database")
    BY <1>2 DEF Mirror
  <2> DEFINE own == [local[p] EXCEPT !.document = mirror_to_write(p)]
  <2>2. local[p] \in Local /\ local' = [local EXCEPT ![p] = own]
    BY <2>1 DEF LinksIInv, LinksTypeOK
  <2>3. /\ own \in Local /\ own.links = local[p].links /\ own.resolved = local[p].resolved
        /\ own.document = mirror_to_write(p)
    BY <2>2, MirrorKnown DEF Local
  <2> HIDE DEF own
  <2>4. doing'[p] = "stage_database" /\ local'[p] = own
    BY <2>1, <2>2 DEF LinksIInv, LinksTypeOK, Goto
  <2>5. Writing(p) /\ journal' = {}
    BY <1>1 DEF Writing, LinksIInv, Own, JournalOfWriter, Committing
  <2>6. mirror_to_write(p)' = mirror_to_write(p)
    BY <1>1, <2>3, <2>4 DEF mirror_to_write
  <2>7. LocalKnown(p)'
    BY <2>3, <2>4 DEF LocalKnown, LinksIInv, Own
  <2>8. Readable(disk.settings)'
    BY <1>1, <1>2
  <2>9. Own(p)'
    BY <2>3, <2>4, <2>5, <2>6, <2>7, <2>8
      DEF Own, JournalOfWriter, LinkChange, Refresh, Committing
  <2>10. "stage_database" \in Step
    BY DEF Step
  <2>11. QED BY <1>1, <2>1, <2>2, <2>3, <2>5, <2>9, <2>10, LocalStep
<1>3. CASE ~Readable(disk.settings)
  BY <1>1, <1>3, GivesUp DEF Mirror
<1>4. QED BY <1>2, <1>3

LEMMA RefreshStarts ==
  ASSUME RulesKept, LinksIInv, NEW p \in Process, refresh_links(p)
  PROVE  LinksIInv' /\ Quiet
<1> DEFINE own == [local[p] EXCEPT !.todo = disk.database]
<1>1. /\ Goto(p, "resolve") /\ Program /\ UNCHANGED <<disk, staged, journal, handle, head>>
      /\ local' = [local EXCEPT ![p].todo = disk.database]
  BY DEF refresh_links
<1>2. disk.database \in Seq(Link) /\ local[p] \in Local
  BY DEF LinksIInv, LinksTypeOK
<1>3. own \in Local /\ own.links = local[p].links /\ own.resolved = local[p].resolved
  BY <1>2 DEF Local
<1>4. local' = [local EXCEPT ![p] = own]
  BY <1>1, <1>2 DEF LinksIInv, LinksTypeOK
<1> HIDE DEF own
<1>5. doing'[p] = "resolve" /\ local'[p] = own
  BY <1>1, <1>4 DEF LinksIInv, LinksTypeOK, Goto
<1>6. LocalKnown(p)'
  BY <1>3, <1>5 DEF LocalKnown, LinksIInv, Own
<1>7. Own(p)' /\ "resolve" \in Step
  BY <1>5, <1>6, OwnAtRest DEF Step
<1>8. QED BY <1>1, <1>3, <1>4, <1>7, LocalStep

LEMMA ResolveStep ==
  ASSUME RulesKept, LinksIInv, NEW p \in Process, Resolve(p)
  PROVE  LinksIInv' /\ Quiet
<1> DEFINE asked == {Head(local[p].todo).source} \cap Remote
           possible == {[source |-> r, commit |-> head[r]] : r \in asked}
<1>1. /\ doing[p] = "resolve" /\ Program /\ UNCHANGED <<disk, staged, journal, handle, doing, head>>
      /\ local[p].todo # <<>>
  BY DEF Resolve
<1>2. PICK answer \in SUBSET possible :
        local' = [local EXCEPT ![p].todo = Tail(@), ![p].resolved = @ \union answer]
  BY DEF Resolve
<1> DEFINE own == [local[p] EXCEPT !.todo = Tail(@), !.resolved = @ \union answer]
<1>3. local[p] \in Local /\ local[p].todo \in Seq(Link) /\ head \in [Remote -> Commits \ {0}]
  BY DEF LinksIInv, LinksTypeOK, Local
<1>4. Tail(local[p].todo) \in Seq(Link)
  BY <1>1, <1>3
<1>5. answer \in SUBSET Answer
  BY <1>3, <1>4 DEF Answer
<1>6. IsFiniteSet(answer)
  <2>1. IsFiniteSet({Head(local[p].todo).source})
    BY FS_Singleton
  <2>2. IsFiniteSet(asked)
    BY <2>1, FS_Subset
  <2>3. IsFiniteSet(possible)
    <3> DEFINE f == [r \in asked |-> [source |-> r, commit |-> head[r]]]
    <3> HIDE DEF asked
    <3>1. f \in Surjection(asked, possible)
      BY DEF Surjection
    <3>2. QED BY <2>2, <3>1, FS_Surjection
  <2>4. QED BY <2>3, FS_Subset
<1> HIDE DEF possible
<1>7. own \in Local /\ own.links = local[p].links /\ own.resolved = local[p].resolved \union answer
  BY <1>3, <1>4, <1>5 DEF Local
<1>8. local' = [local EXCEPT ![p] = own]
  BY <1>2, <1>3 DEF LinksIInv, LinksTypeOK
<1> HIDE DEF own
<1>9. doing'[p] = "resolve" /\ local'[p] = own
  BY <1>1, <1>8 DEF LinksIInv, LinksTypeOK
<1>10. IsFiniteSet(own.resolved)
  <2>1. IsFiniteSet(local[p].resolved)
    BY DEF LinksIInv, Own, LocalKnown
  <2>2. IsFiniteSet(local[p].resolved \union answer)
    BY <1>6, <2>1, FS_Union
  <2>3. QED BY <1>7, <2>2
<1>11. LocalKnown(p)'
  BY <1>7, <1>9, <1>10 DEF LocalKnown, LinksIInv, Own
<1>12. Own(p)' /\ "resolve" \in Step
  BY <1>9, <1>11, OwnAtRest DEF Step
<1>13. Goto(p, "resolve")
  BY <1>1 DEF Goto, LinksIInv, LinksTypeOK
<1>14. QED BY <1>1, <1>7, <1>8, <1>12, <1>13, LocalStep

LEMMA ResolvedStep ==
  ASSUME RulesKept, LinksIInv, NEW p \in Process, Resolved(p)
  PROVE  LinksIInv' /\ Quiet
<1>1. doing[p] = "resolve" /\ Program /\ UNCHANGED <<disk, staged, journal, handle, head>>
  BY DEF Resolved
<1>2. CASE local[p].resolved = {}
  BY <1>1, <1>2, GivesUp DEF Resolved
<1>3. CASE local[p].resolved # {}
  <2>1. MayWrite(p) /\ Goto(p, "record") /\ local' = local
    BY <1>3 DEF Resolved
  <2>2. local[p] \in Local /\ local' = [local EXCEPT ![p] = local[p]]
    BY <2>1 DEF LinksIInv, LinksTypeOK
  <2>3. doing'[p] = "record" /\ local'[p] = local[p]
    BY <2>1 DEF LinksIInv, LinksTypeOK, Goto
  <2>4. Alone(p) /\ journal' = {}
    BY <1>1, <2>1 DEF MayWrite, RulesKept, UserRule
  <2>5. LocalKnown(p)'
    BY <2>3 DEF LocalKnown, LinksIInv, Own
  <2>6. Own(p)'
    BY <2>3, <2>4, <2>5 DEF Own, JournalOfWriter, LinkChange, Refresh, Committing
  <2>7. "record" \in Step
    BY DEF Step
  <2>8. QED BY <1>1, <2>1, <2>2, <2>4, <2>6, <2>7, LocalStep
<1>4. QED BY <1>2, <1>3

LEMMA RecordDocument ==
  ASSUME NEW document \in SettingsDocument, NEW resolved \in SUBSET Answer,
         IsFiniteSet(resolved)
  PROVE  [document EXCEPT !.links =
            [defined |-> TRUE, entries |-> Recorded(@.entries, resolved)]] \in SettingsDocument
<1>1. document.links.entries \in Seq(LinkSettings)
  BY DEF SettingsDocument
<1>2. Recorded(document.links.entries, resolved) \in Seq(LinkSettings)
  BY <1>1, RecordedIs
<1>3. QED BY <1>2 DEF SettingsDocument

LEMMA RecordStep ==
  ASSUME RulesKept, LinksIInv, NEW p \in Process, record_snapshots(p)
  PROVE  LinksIInv' /\ Quiet
<1>1. doing[p] = "record" /\ Program /\ UNCHANGED <<disk, staged, journal, handle, head>>
  BY DEF record_snapshots
<1>2. CASE Readable(disk.settings)
  <2> DEFINE document ==
               [disk.settings EXCEPT !.links =
                  [defined |-> TRUE, entries |-> Recorded(@.entries, local[p].resolved)]]
             own == [local[p] EXCEPT !.document = document]
  <2>1. local' = [local EXCEPT ![p].document = document] /\ Goto(p, "write_staged")
    BY <1>2 DEF record_snapshots
  <2>2. local[p] \in Local /\ disk.settings \in SettingsDocument
    BY DEF LinksIInv, LinksTypeOK
  <2>3. local[p].resolved \in SUBSET Answer /\ IsFiniteSet(local[p].resolved)
    BY <2>2 DEF Local, LinksIInv, Own, LocalKnown
  <2>4. document \in SettingsDocument
    BY <2>2, <2>3, RecordDocument
  <2>5. Writing(p) /\ journal' = {}
    BY <1>1 DEF Writing, LinksIInv, Own, JournalOfWriter, Committing
  <2>6. /\ own \in Local /\ own.links = local[p].links /\ own.resolved = local[p].resolved
        /\ own.document = document
    BY <2>2, <2>4 DEF Local
  <2> DEFINE recorded(d, r) == [d EXCEPT !.links =
                                  [defined |-> TRUE, entries |-> Recorded(@.entries, r)]]
  <2>8. document = recorded(disk.settings, local[p].resolved)
    OBVIOUS
  <2>9. local' = [local EXCEPT ![p] = own]
    BY <2>1, <2>2 DEF LinksIInv, LinksTypeOK
  <2> HIDE DEF own, document
  <2>10. doing'[p] = "write_staged" /\ local'[p] = own
    BY <2>1, <2>9 DEF LinksIInv, LinksTypeOK, Goto
  <2>11. LocalKnown(p)'
    BY <2>6, <2>10 DEF LocalKnown, LinksIInv, Own
  <2>12. Readable(disk.settings)'
    BY <1>1, <1>2
  <2>13. Refresh(p)'
    BY <1>1, <2>6, <2>8, <2>10, <2>12 DEF Refresh
  <2>14. Own(p)'
    BY <2>5, <2>10, <2>11, <2>13 DEF Own, JournalOfWriter, LinkChange, Committing
  <2>15. "write_staged" \in Step
    BY DEF Step
  <2>16. QED BY <1>1, <2>1, <2>5, <2>6, <2>9, <2>14, <2>15, LocalStep
<1>3. CASE ~Readable(disk.settings)
  BY <1>1, <1>3, GivesUp DEF record_snapshots
<1>4. QED BY <1>2, <1>3

LEMMA AdvanceStep ==
  ASSUME RulesKept, LinksIInv, NEW s \in Remote, Advance(s)
  PROVE  LinksIInv' /\ Quiet
<1>1. /\ head[s] < MaxCommit /\ head' = [head EXCEPT ![s] = @ + 1] /\ Program
      /\ UNCHANGED <<disk, staged, journal, handle, doing, local>>
  BY DEF Advance
<1>2. Quiet
  BY <1>1 DEF Quiet, Recovered
<1>3. LinksTypeOK'
  BY <1>1, LinksAssumption DEF LinksIInv, LinksTypeOK, Commits, Program, Author
<1>4. DistinctDeclared'
  BY <1>1, <1>2 DEF LinksIInv, DistinctDeclared, Quiet, File
<1>5. \A p \in Process : Own(p)' /\ (Writing(p)' <=> Writing(p))
  BY <1>1, OthersKept DEF LinksIInv
<1>6. OneWriter'
  BY <1>5 DEF LinksIInv, OneWriter
<1>7. QED BY <1>2, <1>3, <1>4, <1>5, <1>6 DEF LinksIInv

StagedFiles ==
  [database : Seq(Link) \union {Nothing, Torn}, settings : SettingsDocument \union {Nothing, Torn}]

\* What a writer does to its staged files before there is a journal.
LEMMA StagedStep ==
  ASSUME RulesKept, LinksIInv, NEW p \in Process, Writing(p), journal = {},
         UNCHANGED <<disk, journal, head>>, Program,
         staged' \in StagedFiles, handle' \in [Process -> BOOLEAN],
         NEW step \in Step, Goto(p, step),
         NEW own \in Local, local' = [local EXCEPT ![p] = own],
         Own(p)'
  PROVE  LinksIInv' /\ Quiet
<1>1. Quiet
  BY DEF Quiet, Recovered
<1>2. LinksTypeOK'
  BY DEF LinksIInv, LinksTypeOK, StagedFiles, Goto, Program, Author
<1>3. DistinctDeclared'
  BY <1>1 DEF LinksIInv, DistinctDeclared, Quiet, File
<1>4. \A q \in Process \ {p} : doing'[q] = doing[q] /\ local'[q] = local[q]
  BY DEF LinksIInv, LinksTypeOK, Goto
<1>5. \A q \in Process \ {p} : ~Writing(q)
  BY OthersWait
<1>6. QED BY <1>1, <1>2, <1>3, <1>4, <1>5, StepOf

LEMMA StagingFails ==
  ASSUME RulesKept, LinksIInv, NEW p \in Process, Writing(p), journal = {},
         UNCHANGED <<disk, journal, head>>, Program, Finish(p),
         staged' \in StagedFiles, handle' \in [Process -> BOOLEAN]
  PROVE  LinksIInv' /\ Quiet
<1>1. Goto(p, "idle") /\ local' = [local EXCEPT ![p] = Blank] /\ "idle" \in Step
  BY DEF Finish, Step
<1>2. doing'[p] = "idle" /\ local'[p] = Blank
  BY <1>1 DEF LinksIInv, LinksTypeOK, Goto
<1>3. Own(p)'
  BY <1>2, BlankKnown, OwnAtRest DEF LocalKnown
<1>4. QED BY <1>1, <1>3, BlankKnown, StagedStep

LEMMA StageDatabaseStep ==
  ASSUME RulesKept, LinksIInv, NEW p \in Process, StageDatabase(p)
  PROVE  LinksIInv' /\ Quiet
<1> DEFINE next == IF local[p].document = Nothing THEN "journal" ELSE "stage_settings"
<1>1. /\ doing[p] = "stage_database" /\ Program /\ UNCHANGED <<disk, journal, handle, head>>
      /\ Stage(p, "database", local[p].links, next)
  BY DEF StageDatabase, Stage
<1>2. Writing(p) /\ journal = {}
  BY <1>1 DEF Writing, LinksIInv, Own, JournalOfWriter, Committing
<1>3. local[p] \in Local /\ staged \in StagedFiles /\ handle' \in [Process -> BOOLEAN]
  BY <1>1 DEF LinksIInv, LinksTypeOK, StagedFiles
<1>4. CASE staged' = [staged EXCEPT !["database"] = local[p].links]
           /\ Goto(p, next) /\ UNCHANGED local
  <2>1. staged' \in StagedFiles /\ staged'.database = local[p].links
    BY <1>3, <1>4 DEF StagedFiles, Local
  <2>2. doing'[p] = next /\ next \in Step /\ local' = [local EXCEPT ![p] = local[p]]
    BY <1>4 DEF Goto, LinksIInv, LinksTypeOK, Step
  <2>3. LocalKnown(p)'
    BY <1>4 DEF LocalKnown, LinksIInv, Own
  <2>4. Readable(disk.settings) /\ local[p].document = mirror_to_write(p)
    BY <1>1 DEF LinksIInv, Own, LinkChange
  <2>5. mirror_to_write(p)' = mirror_to_write(p) /\ Readable(disk.settings)'
    BY <1>1, <1>4, <2>4 DEF mirror_to_write
  <2>6. LinkChange(p)'
    BY <1>4, <2>1, <2>2, <2>4, <2>5 DEF LinkChange
  <2>7. Own(p)'
    BY <1>1, <1>2, <2>2, <2>3, <2>6 DEF Own, JournalOfWriter, Refresh, Committing
  <2>8. QED BY <1>1, <1>2, <1>3, <1>4, <2>1, <2>2, <2>7, StagedStep
<1>5. CASE staged' = [f \in File |-> Nothing] /\ Finish(p)
  <2>1. staged' \in StagedFiles
    BY <1>5 DEF StagedFiles, File
  <2>2. QED BY <1>1, <1>2, <1>3, <1>5, <2>1, StagingFails
<1>6. QED BY <1>1, <1>4, <1>5 DEF Stage

LEMMA StageSettingsStep ==
  ASSUME RulesKept, LinksIInv, NEW p \in Process, StageSettings(p)
  PROVE  LinksIInv' /\ Quiet
<1>1. /\ doing[p] = "stage_settings" /\ Program /\ UNCHANGED <<disk, journal, handle, head>>
      /\ Stage(p, "settings", local[p].document, "journal")
  BY DEF StageSettings, Stage
<1>2. Writing(p) /\ journal = {}
  BY <1>1 DEF Writing, LinksIInv, Own, JournalOfWriter, Committing
<1>3. local[p] \in Local /\ staged \in StagedFiles /\ handle' \in [Process -> BOOLEAN]
  BY <1>1 DEF LinksIInv, LinksTypeOK, StagedFiles
<1>4. CASE staged' = [staged EXCEPT !["settings"] = local[p].document]
           /\ Goto(p, "journal") /\ UNCHANGED local
  <2>1. /\ staged' \in StagedFiles /\ staged'.settings = local[p].document
        /\ staged'.database = staged.database
    BY <1>3, <1>4 DEF StagedFiles, Local
  <2>2. doing'[p] = "journal" /\ "journal" \in Step /\ local' = [local EXCEPT ![p] = local[p]]
    BY <1>4 DEF Goto, LinksIInv, LinksTypeOK, Step
  <2>3. LocalKnown(p)'
    BY <1>4 DEF LocalKnown, LinksIInv, Own
  <2>4. /\ Readable(disk.settings) /\ local[p].document = mirror_to_write(p)
        /\ staged.database = local[p].links
    BY <1>1 DEF LinksIInv, Own, LinkChange
  <2>5. mirror_to_write(p)' = mirror_to_write(p) /\ Readable(disk.settings)'
    BY <1>1, <1>4, <2>4 DEF mirror_to_write
  <2>6. LinkChange(p)'
    BY <1>4, <2>1, <2>2, <2>4, <2>5 DEF LinkChange
  <2>7. Own(p)'
    BY <1>1, <1>2, <2>2, <2>3, <2>6 DEF Own, JournalOfWriter, Refresh, Committing
  <2>8. QED BY <1>1, <1>2, <1>3, <1>4, <2>1, <2>2, <2>7, StagedStep
<1>5. CASE staged' = [f \in File |-> Nothing] /\ Finish(p)
  <2>1. staged' \in StagedFiles
    BY <1>5 DEF StagedFiles, File
  <2>2. QED BY <1>1, <1>2, <1>3, <1>5, <2>1, StagingFails
<1>6. QED BY <1>1, <1>4, <1>5 DEF Stage

LEMMA WriteStagedStep ==
  ASSUME RulesKept, LinksIInv, NEW p \in Process, WriteStaged(p)
  PROVE  LinksIInv' /\ Quiet
<1>1. doing[p] = "write_staged" /\ Program /\ UNCHANGED <<disk, journal, handle, head>>
  BY DEF WriteStaged
<1>2. Writing(p) /\ journal = {}
  BY <1>1 DEF Writing, LinksIInv, Own, JournalOfWriter, Committing
<1>3. local[p] \in Local /\ staged \in StagedFiles /\ handle' \in [Process -> BOOLEAN]
  BY <1>1 DEF LinksIInv, LinksTypeOK, StagedFiles
<1>4. CASE staged' = [staged EXCEPT !["settings"] = local[p].document]
           /\ Goto(p, "rename") /\ UNCHANGED local
  <2>1. staged' \in StagedFiles /\ staged'.settings = local[p].document
    BY <1>3, <1>4 DEF StagedFiles, Local
  <2>2. doing'[p] = "rename" /\ "rename" \in Step /\ local' = [local EXCEPT ![p] = local[p]]
    BY <1>4 DEF Goto, LinksIInv, LinksTypeOK, Step
  <2>3. LocalKnown(p)'
    BY <1>4 DEF LocalKnown, LinksIInv, Own
  <2>4. Refresh(p)'
    BY <1>1, <1>4, <2>1, <2>2 DEF Refresh, LinksIInv, Own
  <2>5. Own(p)'
    BY <1>1, <1>2, <2>2, <2>3, <2>4 DEF Own, JournalOfWriter, LinkChange, Committing
  <2>6. QED BY <1>1, <1>2, <1>3, <1>4, <2>1, <2>2, <2>5, StagedStep
<1>5. CASE staged' = [staged EXCEPT !["settings"] = Torn] /\ Finish(p)
  <2>1. staged' \in StagedFiles
    BY <1>3, <1>5 DEF StagedFiles
  <2>2. QED BY <1>1, <1>2, <1>3, <1>5, <2>1, StagingFails
<1>6. QED BY <1>4, <1>5 DEF WriteStaged

LEMMA CrashStep ==
  ASSUME RulesKept, LinksIInv, NEW p \in Process, Crash(p)
  PROVE  LinksIInv' /\ Quiet
<1>1. /\ UNCHANGED <<disk, journal, head>> /\ Program /\ Finish(p)
      /\ handle' = [handle EXCEPT ![p] = FALSE]
  BY DEF Crash
<1>6. \/ staged' = staged
      \/ /\ doing[p] \in {"stage_database", "stage_settings", "write_staged"}
         /\ \E f \in File : staged' = [staged EXCEPT ![f] = Torn]
  <2>1. \/ staged' = staged
        \/ doing[p] = "stage_database" /\ staged' = [staged EXCEPT !["database"] = Torn]
        \/ /\ doing[p] \in {"stage_settings", "write_staged"}
           /\ staged' = [staged EXCEPT !["settings"] = Torn]
    BY DEF Crash
  <2>2. "database" \in File /\ "settings" \in File
    BY DEF File
  <2>3. QED BY <2>1, <2>2
<1>2. handle' \in [Process -> BOOLEAN] /\ staged \in StagedFiles
  BY <1>1 DEF LinksIInv, LinksTypeOK, StagedFiles
<1>3. CASE staged' = staged
  <2>1. Goto(p, "idle") /\ local' = [local EXCEPT ![p] = Blank]
    BY <1>1 DEF Finish
  <2>2. doing'[p] = "idle" /\ local'[p] = Blank
    BY <2>1 DEF LinksIInv, LinksTypeOK, Goto
  <2>3. Own(p)'
    BY <2>2, BlankKnown, OwnAtRest DEF LocalKnown
  <2>4. Quiet
    BY <1>1, <1>3 DEF Quiet, Recovered
  <2>5. LinksTypeOK'
    BY <1>1, <1>2, <1>3, <2>1, BlankKnown
      DEF LinksIInv, LinksTypeOK, Goto, Step, Program, Author
  <2>6. DistinctDeclared'
    BY <1>1, <1>3, <2>4 DEF LinksIInv, DistinctDeclared, Quiet, File
  <2>7. \A q \in Process \ {p} : doing'[q] = doing[q] /\ local'[q] = local[q]
    BY <2>1 DEF LinksIInv, LinksTypeOK, Goto
  <2>8. ~Writing(p)'
    BY <2>2 DEF Writing
  <2>9. QED BY <1>1, <1>3, <2>3, <2>4, <2>5, <2>6, <2>7, <2>8, StepOf
<1>4. CASE doing[p] \in {"stage_database", "stage_settings", "write_staged"}
           /\ \E f \in File : staged' = [staged EXCEPT ![f] = Torn]
  <2>1. Writing(p) /\ journal = {}
    BY <1>4 DEF Writing, LinksIInv, Own, JournalOfWriter, Committing
  <2>2. staged' \in StagedFiles
    BY <1>2, <1>4 DEF StagedFiles, File
  <2>3. QED BY <1>1, <1>2, <2>1, <2>2, StagingFails
<1>5. QED BY <1>3, <1>4, <1>6

\* From the moment the journal is written, the next open finds the changed links
\* and their mirror.
LEMMA JournalStep ==
  ASSUME RulesKept, LinksIInv, NEW p \in Process, Journal(p)
  PROVE  /\ LinksIInv'
         /\ Readable(disk.settings) /\ Document = disk.settings
         /\ Recovered("database")' = local[p].links
         /\ Document' = IF mirror_to_write(p) = Nothing THEN disk.settings
                        ELSE mirror_to_write(p)
<1>1. /\ doing[p] = "journal" /\ Goto(p, "promote_database") /\ Author("program")
      /\ journal' = IF local[p].document = Nothing THEN {"database"} ELSE File
      /\ settled' = TRUE /\ UNCHANGED <<disk, staged, handle, local, head>>
  BY DEF Journal
<1>2. Writing(p) /\ journal = {}
  BY <1>1 DEF Writing, LinksIInv, Own, JournalOfWriter, Committing
<1>3. /\ Readable(disk.settings) /\ local[p].document = mirror_to_write(p)
      /\ staged.database = local[p].links
      /\ local[p].document # Nothing => staged.settings = local[p].document
  BY <1>1 DEF LinksIInv, Own, LinkChange
<1>4. /\ local[p] \in Local /\ local[p].links \in Seq(Link) /\ LinksDistinct(local[p].links)
      /\ local[p].document \in SettingsDocument \union {Nothing}
      /\ disk.database \in Seq(Link) /\ LinksDistinct(disk.database)
  BY DEF LinksIInv, LinksTypeOK, Local, Own, LocalKnown, DistinctDeclared
<1>5. local[p].links # Nothing /\ local[p].links # Torn /\ local[p].document # Torn
  BY <1>4, LinksAssumption
<1>6. Document = disk.settings
  BY <1>2 DEF Document, Recovered
<1>7. Recovered("database")' = local[p].links
  BY <1>1, <1>3, <1>5 DEF Recovered, File
<1>8. Document' = IF local[p].document = Nothing THEN disk.settings ELSE local[p].document
  <2>1. CASE local[p].document = Nothing
    BY <1>1, <2>1 DEF Document, Recovered
  <2>2. CASE local[p].document # Nothing
    BY <1>1, <1>3, <2>2 DEF Document, Recovered, File
  <2>3. QED BY <2>1, <2>2
<1>9. LinksTypeOK'
  <2>1. \A f \in journal' : staged'[f] # Torn
    BY <1>1, <1>3, <1>5 DEF File
  <2>2. QED BY <1>1, <2>1 DEF LinksIInv, LinksTypeOK, Goto, Step, Author
<1>10. DistinctDeclared'
  BY <1>1, <1>4, <1>7 DEF DistinctDeclared
<1>11. /\ doing'[p] = "promote_database"
       /\ \A q \in Process \ {p} : doing'[q] = doing[q] /\ local'[q] = local[q]
  BY <1>1 DEF LinksIInv, LinksTypeOK, Goto
<1>12. LocalKnown(p)'
  BY <1>1 DEF LocalKnown, LinksIInv, Own
<1>13. Own(p)'
  BY <1>1, <1>11, <1>12 DEF Own, JournalOfWriter, LinkChange, Refresh, Promoted, Committing
<1>14. \A q \in Process \ {p} : ~Writing(q)
  BY <1>2, OthersWait
<1>15. LinksIInv'
  BY <1>9, <1>10, <1>11, <1>13, <1>14, StepOf
<1>16. QED BY <1>3, <1>6, <1>7, <1>8, <1>15

\* What a promotion writes is what the next open would have found.
LEMMA Promotes ==
  ASSUME LinksTypeOK, NEW f \in journal, Promote(f), UNCHANGED journal
  PROVE  /\ Quiet /\ staged'[f] = Nothing
         /\ disk' \in [database : Seq(Link), settings : SettingsDocument]
         /\ staged' \in StagedFiles /\ \A g \in journal : staged'[g] # Torn
<1>1. f \in File /\ staged[f] # Torn
  BY DEF LinksTypeOK, File
<1>2. /\ disk' = [disk EXCEPT ![f] = IF staged[f] = Nothing THEN @ ELSE staged[f]]
      /\ staged' = [staged EXCEPT ![f] = Nothing]
  BY DEF Promote
<1>3. /\ disk \in [database : Seq(Link), settings : SettingsDocument]
      /\ staged \in StagedFiles
  BY DEF LinksTypeOK, StagedFiles
<1>4. staged' \in StagedFiles /\ \A g \in File : staged'[g] = IF g = f THEN Nothing ELSE staged[g]
  BY <1>1, <1>2, <1>3 DEF StagedFiles, File
<1>5. /\ disk' \in [database : Seq(Link), settings : SettingsDocument]
      /\ \A g \in File : disk'[g] = IF g = f /\ staged[f] # Nothing THEN staged[f] ELSE disk[g]
  BY <1>1, <1>2, <1>3 DEF StagedFiles, File
<1>6. Quiet
  BY <1>1, <1>4, <1>5 DEF Quiet, Recovered
<1>7. \A g \in journal : g \in File /\ staged[g] # Torn
  BY DEF LinksTypeOK, File
<1>8. QED BY <1>1, <1>4, <1>5, <1>6, <1>7, LinksAssumption

LEMMA PromoteDatabaseStep ==
  ASSUME RulesKept, LinksIInv, NEW p \in Process, PromoteDatabase(p)
  PROVE  LinksIInv' /\ Quiet
<1> DEFINE next == IF local[p].document = Nothing THEN "forget" ELSE "promote_settings"
<1>1. /\ doing[p] = "promote_database" /\ Promote("database") /\ Goto(p, next) /\ Program
      /\ UNCHANGED <<journal, handle, local, head>>
  BY DEF PromoteDatabase
<1>2. Writing(p) /\ journal = IF local[p].document = Nothing THEN {"database"} ELSE File
  BY <1>1 DEF Writing, LinksIInv, Own, JournalOfWriter, Committing
<1>3. "database" \in journal
  BY <1>2 DEF File
<1>4. /\ Quiet /\ staged'["database"] = Nothing
      /\ disk' \in [database : Seq(Link), settings : SettingsDocument]
      /\ staged' \in StagedFiles /\ \A g \in journal : staged'[g] # Torn
  BY <1>1, <1>3, Promotes DEF LinksIInv
<1>5. doing'[p] = next /\ next \in Step
      /\ \A q \in Process \ {p} : doing'[q] = doing[q] /\ local'[q] = local[q]
  BY <1>1 DEF LinksIInv, LinksTypeOK, Goto, Step
<1>6. LinksTypeOK'
  BY <1>1, <1>4, <1>5 DEF LinksIInv, LinksTypeOK, StagedFiles, Goto, Program, Author
<1>7. disk'.database = Recovered("database")
  BY <1>1, <1>3 DEF Promote, Recovered, LinksIInv, LinksTypeOK
<1>8. DistinctDeclared'
  BY <1>4, <1>7 DEF LinksIInv, DistinctDeclared, Quiet, File
<1>9. LocalKnown(p)'
  BY <1>1 DEF LocalKnown, LinksIInv, Own
<1>10. Own(p)'
  BY <1>1, <1>2, <1>4, <1>5, <1>9
    DEF Own, JournalOfWriter, LinkChange, Refresh, Promoted, Committing
<1>11. \A q \in Process \ {p} : ~Writing(q)
  BY <1>2, OthersWait
<1>12. QED BY <1>4, <1>5, <1>6, <1>8, <1>10, <1>11, StepOf

LEMMA PromoteSettingsStep ==
  ASSUME RulesKept, LinksIInv, NEW p \in Process, PromoteSettings(p)
  PROVE  LinksIInv' /\ Quiet
<1>1. /\ doing[p] = "promote_settings" /\ Promote("settings") /\ Goto(p, "forget") /\ Program
      /\ UNCHANGED <<journal, handle, local, head>>
  BY DEF PromoteSettings
<1>2. Writing(p) /\ journal = File /\ staged["database"] = Nothing
      /\ local[p].document # Nothing
  BY <1>1 DEF Writing, LinksIInv, Own, JournalOfWriter, Committing, Promoted
<1>3. "settings" \in journal
  BY <1>2 DEF File
<1>4. /\ Quiet /\ staged'["settings"] = Nothing
      /\ disk' \in [database : Seq(Link), settings : SettingsDocument]
      /\ staged' \in StagedFiles /\ \A g \in journal : staged'[g] # Torn
  BY <1>1, <1>3, Promotes DEF LinksIInv
<1>5. doing'[p] = "forget" /\ "forget" \in Step
      /\ \A q \in Process \ {p} : doing'[q] = doing[q] /\ local'[q] = local[q]
  BY <1>1 DEF LinksIInv, LinksTypeOK, Goto, Step
<1>6. LinksTypeOK'
  BY <1>1, <1>4, <1>5 DEF LinksIInv, LinksTypeOK, StagedFiles, Goto, Program, Author
<1>7. disk'.database = disk.database /\ staged'["database"] = Nothing
  BY <1>1, <1>2 DEF Promote, LinksIInv, LinksTypeOK
<1>8. DistinctDeclared'
  BY <1>4, <1>7 DEF LinksIInv, DistinctDeclared, Quiet, File
<1>9. LocalKnown(p)'
  BY <1>1 DEF LocalKnown, LinksIInv, Own
<1>10. \A f \in journal : staged'[f] = Nothing
  BY <1>2, <1>4, <1>7 DEF File
<1>11. Own(p)'
  BY <1>1, <1>2, <1>5, <1>9, <1>10
    DEF Own, JournalOfWriter, LinkChange, Refresh, Promoted, Committing
<1>12. \A q \in Process \ {p} : ~Writing(q)
  BY <1>2, OthersWait
<1>13. QED BY <1>4, <1>5, <1>6, <1>8, <1>11, <1>12, StepOf

LEMMA ForgetStep ==
  ASSUME RulesKept, LinksIInv, NEW p \in Process, Forget(p)
  PROVE  LinksIInv' /\ Quiet
<1>1. /\ doing[p] = "forget" /\ journal' = {} /\ Finish(p) /\ Program
      /\ UNCHANGED <<disk, staged, handle, head>>
  BY DEF Forget
<1>2. Writing(p) /\ \A f \in journal : staged[f] = Nothing
  BY <1>1 DEF Writing, LinksIInv, Own, JournalOfWriter, Committing, Promoted
<1>3. Quiet
  BY <1>1, <1>2 DEF Quiet, Recovered
<1>4. Goto(p, "idle") /\ local' = [local EXCEPT ![p] = Blank]
  BY <1>1 DEF Finish
<1>5. /\ doing'[p] = "idle" /\ local'[p] = Blank
      /\ \A q \in Process \ {p} : doing'[q] = doing[q] /\ local'[q] = local[q]
  BY <1>4 DEF LinksIInv, LinksTypeOK, Goto
<1>6. LinksTypeOK'
  BY <1>1, <1>4, BlankKnown DEF LinksIInv, LinksTypeOK, Goto, Step, Program, Author
<1>7. DistinctDeclared'
  BY <1>1, <1>3 DEF LinksIInv, DistinctDeclared, Quiet, File
<1>8. Own(p)'
  BY <1>5, BlankKnown, OwnAtRest DEF LocalKnown
<1>9. \A q \in Process \ {p} : ~Writing(q)
  BY <1>2, OthersWait
<1>10. QED BY <1>3, <1>5, <1>6, <1>7, <1>8, <1>9, StepOf

\* A refresh replaces the settings with what it recorded in them, or leaves them.
LEMMA RenameStep ==
  ASSUME RulesKept, LinksIInv, NEW p \in Process, Rename(p)
  PROVE  /\ LinksIInv'
         /\ Readable(disk.settings) /\ Document = disk.settings
         /\ Recovered("database")' = Recovered("database")
         /\ Document' \in
              {disk.settings,
               [disk.settings EXCEPT !.links =
                  [defined |-> TRUE, entries |-> Recorded(@.entries, local[p].resolved)]]}
<1>1. /\ doing[p] = "rename" /\ Finish(p) /\ Program /\ UNCHANGED <<journal, handle, head>>
      /\ \/ Promote("settings")
         \/ staged' = [staged EXCEPT !["settings"] = Nothing] /\ UNCHANGED disk
  BY DEF Rename
<1>2. Writing(p) /\ journal = {}
  BY <1>1 DEF Writing, LinksIInv, Own, JournalOfWriter, Committing
<1> DEFINE recorded == [disk.settings EXCEPT !.links =
                          [defined |-> TRUE, entries |-> Recorded(@.entries, local[p].resolved)]]
<1>3. Readable(disk.settings) /\ staged.settings = recorded
  BY <1>1 DEF LinksIInv, Own, Refresh
<1> HIDE DEF recorded
<1>4. disk \in [database : Seq(Link), settings : SettingsDocument] /\ staged \in StagedFiles
  BY DEF LinksIInv, LinksTypeOK, StagedFiles
<1>5. /\ disk' \in [database : Seq(Link), settings : SettingsDocument]
      /\ disk'.database = disk.database /\ disk'.settings \in {disk.settings, recorded}
      /\ staged' \in StagedFiles
  <2>1. CASE Promote("settings")
    <3>1. /\ disk' = [disk EXCEPT !["settings"] = IF staged["settings"] = Nothing THEN @
                                                  ELSE staged["settings"]]
          /\ staged' = [staged EXCEPT !["settings"] = Nothing]
      BY <2>1 DEF Promote
    <3>2. staged["settings"] \in SettingsDocument \union {Nothing}
      <4>1. local[p].document \in SettingsDocument \union {Nothing}
        BY DEF LinksIInv, LinksTypeOK, Local
      <4>2. staged.settings = local[p].document
        BY <1>1 DEF LinksIInv, Own, Refresh
      <4>3. QED BY <4>1, <4>2
    <3>3. QED BY <1>3, <1>4, <3>1, <3>2 DEF StagedFiles
  <2>2. CASE staged' = [staged EXCEPT !["settings"] = Nothing] /\ UNCHANGED disk
    BY <1>4, <2>2 DEF StagedFiles
  <2>3. QED BY <1>1, <2>1, <2>2
<1>6. /\ Document = disk.settings /\ Document' = disk'.settings
      /\ Recovered("database")' = Recovered("database")
  BY <1>1, <1>2, <1>5 DEF Document, Recovered
<1>7. Goto(p, "idle") /\ local' = [local EXCEPT ![p] = Blank]
  BY <1>1 DEF Finish
<1>8. /\ doing'[p] = "idle" /\ local'[p] = Blank
      /\ \A q \in Process \ {p} : doing'[q] = doing[q] /\ local'[q] = local[q]
  BY <1>7 DEF LinksIInv, LinksTypeOK, Goto
<1>9. LinksTypeOK'
  BY <1>1, <1>2, <1>5, <1>7, BlankKnown
    DEF LinksIInv, LinksTypeOK, StagedFiles, Goto, Step, Program, Author
<1>10. DistinctDeclared'
  BY <1>5, <1>6 DEF LinksIInv, DistinctDeclared
<1>11. Own(p)'
  BY <1>8, BlankKnown, OwnAtRest DEF LocalKnown
<1>12. \A q \in Process \ {p} : ~Writing(q)
  BY <1>2, OthersWait
<1>13. LinksIInv'
  BY <1>8, <1>9, <1>10, <1>11, <1>12, StepOf
<1>14. QED BY <1>3, <1>5, <1>6, <1>13 DEF recorded

LEMMA OpenStep ==
  ASSUME RulesKept, LinksIInv, NEW p \in Process, Open(p)
  PROVE  LinksIInv' /\ Quiet /\ disk'.settings = Document
<1>1. /\ doing[p] = "idle" /\ Alone(p) /\ Program /\ UNCHANGED <<doing, local, head>>
      /\ disk' = [f \in File |-> Recovered(f)]
      /\ staged' = [f \in File |-> IF f \in journal THEN Nothing ELSE staged[f]]
      /\ journal' = {} /\ handle' = [handle EXCEPT ![p] = Readable(disk'.settings)]
  BY DEF Open
<1>2. /\ "database" \in File /\ "settings" \in File
      /\ disk'.database = Recovered("database") /\ disk'.settings = Document
  BY <1>1 DEF File, Document
<1>3. Quiet
  BY <1>1, <1>2 DEF Quiet, Recovered, File
<1>4. Recovered("database") \in Seq(Link) /\ Document \in SettingsDocument
  BY DEF LinksIInv, LinksTypeOK, Recovered, Document, File
<1>5. disk' \in [database : Seq(Link), settings : SettingsDocument]
  BY <1>1, <1>4 DEF File, Document
<1>6. staged' \in StagedFiles
  BY <1>1 DEF File, StagedFiles, LinksIInv, LinksTypeOK
<1>7. handle' \in [Process -> BOOLEAN]
  BY <1>1 DEF LinksIInv, LinksTypeOK, Readable, Accepted, read_links
<1>8. LinksTypeOK'
  BY <1>1, <1>5, <1>6, <1>7 DEF LinksIInv, LinksTypeOK, StagedFiles, Program, Author
<1>9. DistinctDeclared'
  BY <1>2, <1>3 DEF LinksIInv, DistinctDeclared, Quiet
<1>10. LocalKnown(p)' /\ ~Writing(p)'
  BY <1>1 DEF LocalKnown, LinksIInv, Own, Writing
<1>11. Own(p)'
  BY <1>1, <1>10, OwnAtRest
<1>12. \A q \in Process \ {p} : ~Writing(q)
  BY <1>1, OthersWait
<1>13. LinksIInv'
  BY <1>1, <1>8, <1>9, <1>10, <1>11, <1>12, StepOf
<1>14. QED BY <1>2, <1>3, <1>13

\* What nobody's writing and no journal leaves to be shown, when a file changes.
LEMMA AtRestStep ==
  ASSUME LinksIInv, UNCHANGED <<doing, local>>, \A p \in Process : ~Writing(p),
         LinksTypeOK', DistinctDeclared'
  PROVE  LinksIInv'
<1>1. ASSUME NEW p \in Process PROVE Own(p)' /\ ~Writing(p)'
  <2>1. doing'[p] \in {"idle", "resolve"} /\ ~Writing(p)'
    BY DEF Writing
  <2>2. LocalKnown(p)'
    BY DEF LinksIInv, Own, LocalKnown
  <2>3. QED BY <2>1, <2>2, OwnAtRest
<1>2. QED BY <1>1 DEF LinksIInv, OneWriter

LEMMA AdoptStep ==
  ASSUME RulesKept, LinksIInv, Adopt
  PROVE  LinksIInv'
<1>1. /\ \A p \in Process : ~Writing(p)
      /\ journal = {} /\ Author("program") /\ settled' = FALSE
      /\ UNCHANGED <<staged, journal, handle, doing, local, head>>
  BY DEF Adopt, RulesKept, UserRule
<1>2. PICK i \in DOMAIN disk.database : disk' = [disk EXCEPT !.database = RemoveAt(@, i)]
  BY DEF Adopt
<1>3. /\ disk \in [database : Seq(Link), settings : SettingsDocument]
      /\ disk.database \in Seq(Link) /\ LinksDistinct(disk.database)
  BY DEF LinksIInv, LinksTypeOK, DistinctDeclared
<1>4. RemoveAt(disk.database, i) \in Seq(Link) /\ LinksDistinct(RemoveAt(disk.database, i))
  BY <1>3, RemovedDistinct
<1>5. LinksTypeOK'
  <2>1. disk' \in [database : Seq(Link), settings : SettingsDocument]
    BY <1>2, <1>3, <1>4
  <2>2. edits' \in 0 .. MaxEdits /\ author' \in {"user", "program"}
    BY <1>1, LinksAssumption DEF LinksIInv, LinksTypeOK, Author
  <2>3. QED BY <1>1, <2>1, <2>2 DEF LinksIInv, LinksTypeOK
<1>6. DistinctDeclared'
  BY <1>1, <1>2, <1>3, <1>4 DEF DistinctDeclared, Recovered
<1>7. QED BY <1>1, <1>5, <1>6, AtRestStep

LEMMA EditedIs ==
  ASSUME NEW document \in SettingsDocument
  PROVE  Edited(document) \subseteq SettingsDocument
<1> DEFINE entries == document.links.entries
           with(e) == [document EXCEPT !.links = [defined |-> TRUE, entries |-> e]]
<1>1. entries \in Seq(LinkSettings)
  BY DEF SettingsDocument
<1>2. ASSUME NEW e \in Seq(LinkSettings) PROVE with(e) \in SettingsDocument
  BY DEF SettingsDocument
<1>3. ASSUME NEW i \in DOMAIN entries
      PROVE  [entries EXCEPT ![i].credential = IF @ = "none" THEN "named" ELSE "none"]
               \in Seq(LinkSettings)
  <2> DEFINE e == [entries[i] EXCEPT !.credential = IF @ = "none" THEN "named" ELSE "none"]
  <2>1. entries[i] \in LinkSettings
    BY <1>1
  <2>2. e \in LinkSettings
    BY <2>1 DEF LinkSettings
  <2>3. [entries EXCEPT ![i].credential = IF @ = "none" THEN "named" ELSE "none"]
          = [entries EXCEPT ![i] = e]
    OBVIOUS
  <2> HIDE DEF e
  <2>4. [entries EXCEPT ![i] = e] \in Seq(LinkSettings)
    BY <1>1, <2>2
  <2>5. QED BY <2>3, <2>4
<1>4. ASSUME NEW i \in DOMAIN entries PROVE RemoveAt(entries, i) \in Seq(LinkSettings)
  BY <1>1, RemovedIs
<1>5. ASSUME NEW s \in Source PROVE Append(entries, Entry(s)) \in Seq(LinkSettings)
  BY <1>1, EntryFields
<1>6. [document EXCEPT !.unknown = 1 - @] \in SettingsDocument
  BY DEF SettingsDocument
<1>7. ASSUME NEW f \in Field, NEW v \in {"null", "set"}
      PROVE  [document EXCEPT !.fields[f] = v] \in SettingsDocument
  <2> DEFINE fields == [document.fields EXCEPT ![f] = v]
  <2>1. fields \in [Field -> FieldValue]
    BY DEF SettingsDocument, FieldValue
  <2>2. [document EXCEPT !.fields[f] = v] = [document EXCEPT !.fields = fields]
    OBVIOUS
  <2> HIDE DEF fields
  <2>3. QED BY <2>1, <2>2 DEF SettingsDocument
<1>8. ASSUME NEW d \in Edited(document) PROVE d \in SettingsDocument
  <2> HIDE DEF entries, with
  <2>1. \/ \E i \in DOMAIN entries :
             d = with([entries EXCEPT ![i].credential = IF @ = "none" THEN "named" ELSE "none"])
        \/ \E i \in DOMAIN entries : d = with(RemoveAt(entries, i))
        \/ \E s \in Source : d = with(Append(entries, Entry(s)))
        \/ d = [document EXCEPT !.unknown = 1 - @]
        \/ \E f \in Field, v \in {"null", "set"} : d = [document EXCEPT !.fields[f] = v]
    BY <1>8 DEF Edited, entries, with
  <2>2. QED BY <1>2, <1>3, <1>4, <1>5, <1>6, <1>7, <2>1
<1>9. QED BY <1>8

LEMMA EditStep ==
  ASSUME RulesKept, LinksIInv, Edit
  PROVE  LinksIInv'
<1>1. /\ \A p \in Process : ~Writing(p)
      /\ journal = {} /\ Author("user") /\ settled' = FALSE /\ edits < MaxEdits
      /\ UNCHANGED <<staged, journal, handle, doing, local, head>>
  BY DEF Edit, RulesKept, UserRule
<1>2. PICK document \in Edited(disk.settings) : disk' = [disk EXCEPT !.settings = document]
  BY DEF Edit
<1>3. disk \in [database : Seq(Link), settings : SettingsDocument]
  BY DEF LinksIInv, LinksTypeOK
<1>4. document \in SettingsDocument
  BY <1>3, EditedIs
<1>5. disk' \in [database : Seq(Link), settings : SettingsDocument]
      /\ disk'.database = disk.database
  BY <1>2, <1>3, <1>4
<1>6. edits' \in 0 .. MaxEdits /\ author' \in {"user", "program"}
  BY <1>1, LinksAssumption DEF LinksIInv, LinksTypeOK, Author
<1>7. LinksTypeOK'
  BY <1>1, <1>5, <1>6 DEF LinksIInv, LinksTypeOK
<1>8. DistinctDeclared'
  BY <1>1, <1>5 DEF LinksIInv, DistinctDeclared, Recovered
<1>9. QED BY <1>1, <1>7, <1>8, AtRestStep

-----------------------------------------------------------------------------
(* The invariant holds *)

LEMMA LinksInvInit ==
  ASSUME LinksInit
  PROVE  LinksIInv
<1>1. /\ disk = [database |-> <<>>, settings |-> Fresh] /\ staged = [f \in File |-> Nothing]
      /\ journal = {} /\ handle = [p \in Process |-> FALSE]
      /\ doing = [p \in Process |-> "idle"] /\ local = [p \in Process |-> Blank]
      /\ head = [s \in Remote |-> 1] /\ author = "program" /\ settled = TRUE /\ edits = 0
  BY DEF LinksInit
<1>2. Fresh \in SettingsDocument
  BY DEF Fresh, SettingsDocument, FieldValue
<1>3. disk \in [database : Seq(Link), settings : SettingsDocument]
  BY <1>1, <1>2
<1>4. staged \in StagedFiles
  BY <1>1 DEF StagedFiles, File
<1>5. head \in [Remote -> Commits \ {0}] /\ edits \in 0 .. MaxEdits
  BY <1>1, LinksAssumption DEF Commits
<1>6. LinksTypeOK
  BY <1>1, <1>3, <1>4, <1>5, BlankKnown DEF LinksTypeOK, StagedFiles, Step
<1>7. DistinctDeclared
  BY <1>1 DEF DistinctDeclared, LinksDistinct, Recovered
<1>8. ASSUME NEW p \in Process PROVE Own(p) /\ ~Writing(p)
  <2>1. doing[p] = "idle" /\ local[p] = Blank
    BY <1>1
  <2>2. LocalKnown(p)
    BY <2>1, BlankKnown DEF LocalKnown
  <2>3. QED BY <2>1, <2>2
    DEF Own, JournalOfWriter, LinkChange, Refresh, Writing, Committing
<1>9. QED BY <1>6, <1>7, <1>8 DEF LinksIInv, OneWriter

\* Every step keeps the invariant, and few of them change what the next open finds.
LEMMA LinksInvStep ==
  ASSUME RulesKept, LinksIInv, [LinksNext]_linkVars
  PROVE  /\ LinksIInv'
         /\ \/ Quiet /\ UNCHANGED settled
            \/ \E p \in Process : Journal(p) \/ Rename(p)
            \/ Adopt
            \/ Edit
<1>1. ASSUME NEW p \in Process,
             \/ Open(p) \/ add_link(p) \/ remove_link(p) \/ Mirror(p)
             \/ StageDatabase(p) \/ StageSettings(p)
             \/ PromoteDatabase(p) \/ PromoteSettings(p) \/ Forget(p)
      PROVE  LinksIInv' /\ Quiet /\ UNCHANGED settled
  <2>1. Program
    BY <1>1 DEF Open, add_link, remove_link, Mirror, StageDatabase, StageSettings, Stage,
                PromoteDatabase, PromoteSettings, Forget
  <2>2. LinksIInv' /\ Quiet
    BY <1>1, OpenStep, LinksAdded, LinksRemoved, MirrorStep, StageDatabaseStep,
       StageSettingsStep, PromoteDatabaseStep, PromoteSettingsStep, ForgetStep
  <2>3. QED BY <2>1, <2>2 DEF Program
<1>2. ASSUME NEW p \in Process,
             \/ refresh_links(p) \/ Resolve(p) \/ Resolved(p) \/ record_snapshots(p)
             \/ WriteStaged(p) \/ Crash(p)
      PROVE  LinksIInv' /\ Quiet /\ UNCHANGED settled
  <2>1. Program
    BY <1>2 DEF refresh_links, Resolve, Resolved, record_snapshots, WriteStaged, Crash
  <2>2. LinksIInv' /\ Quiet
    BY <1>2, RefreshStarts, ResolveStep, ResolvedStep, RecordStep, WriteStagedStep, CrashStep
  <2>3. QED BY <2>1, <2>2 DEF Program
<1>3. ASSUME NEW s \in Remote, Advance(s)
      PROVE  LinksIInv' /\ Quiet /\ UNCHANGED settled
  BY <1>3, AdvanceStep DEF Advance, Program
<1>4. ASSUME NEW p \in Process, Journal(p) \/ Rename(p)
      PROVE  LinksIInv'
  BY <1>4, JournalStep, RenameStep
<1>5. CASE UNCHANGED linkVars
  <2>1. /\ UNCHANGED <<disk, staged, journal, doing, local, settled>>
        /\ UNCHANGED <<handle, head, author, edits>>
    BY <1>5 DEF linkVars
  <2>2. Quiet
    BY <2>1 DEF Quiet, Recovered
  <2>3. LinksTypeOK'
    BY <2>1 DEF LinksIInv, LinksTypeOK
  <2>4. DistinctDeclared'
    BY <2>1, <2>2 DEF LinksIInv, DistinctDeclared, Quiet, File
  <2>5. \A p \in Process : Own(p)' /\ (Writing(p)' <=> Writing(p))
    BY <2>1, OthersKept DEF LinksIInv
  <2>6. OneWriter'
    BY <2>5 DEF LinksIInv, OneWriter
  <2>7. QED BY <2>1, <2>2, <2>3, <2>4, <2>5, <2>6 DEF LinksIInv
<1>6. CASE Adopt
  BY <1>6, AdoptStep
<1>7. CASE Edit
  BY <1>7, EditStep
<1>8. CASE LinksNext
  BY <1>1, <1>2, <1>3, <1>4, <1>6, <1>7, <1>8 DEF LinksNext
<1>9. QED BY <1>5, <1>8

\* While the rules are kept, one command at a time writes, and what it has staged
\* belongs to the files there are.
LEMMA LinksInvariance ==
  ASSUME RulesKept
  PROVE  LinksSpec => []LinksIInv
<1>1. LinksIInv /\ [LinksNext]_linkVars => LinksIInv'
  BY LinksInvStep
<1>2. LinksInit => LinksIInv
  BY LinksInvInit
<1>3. QED BY <1>1, <1>2, PTL DEF LinksSpec

\* Under the rules a journal names whole files only, whoever crashes.
THEOREM LinksTypeCorrect ==
  ASSUME RulesKept
  PROVE  LinksSpec => []LinksTypeOK
BY LinksInvariance, PTL DEF LinksIInv

-----------------------------------------------------------------------------
(* Database and settings move together *)

LEMMA LinksOf ==
  ASSUME NEW document
  PROVE  resolve(<<document>>).links =
           IF document.links.defined THEN document.links.entries ELSE <<>>
<1> DEFINE documents == <<document>>
           defining == {i \in DOMAIN documents : documents[i].links.defined}
<1>1. DOMAIN documents = {1} /\ documents[1] = document
  OBVIOUS
<1>2. resolve(documents).links =
        IF defining = {} THEN <<>> ELSE documents[Min(defining)].links.entries
  BY DEF resolve
<1>3. CASE document.links.defined
  <2>1. defining = {1}
    BY <1>1, <1>3
  <2>2. Min(defining) = 1
    BY <2>1 DEF Min
  <2>3. QED BY <1>1, <1>2, <1>3, <2>1, <2>2
<1>4. CASE ~document.links.defined
  <2>1. defining = {}
    BY <1>1, <1>4
  <2>2. QED BY <1>2, <1>4, <2>1
<1>5. QED BY <1>3, <1>4

DeclaredBy(links) == {links[i].source : i \in DOMAIN links}

\* The entries mirror the links, but for commits of links that are gone.
Mirroring(entries, links) ==
  /\ DeclaredBy(links) \subseteq Sources(entries)
  /\ \A i \in DOMAIN entries :
       \/ entries[i].source \in DeclaredBy(links)
       \/ entries[i].source \in Remote /\ entries[i].commit > 0

Mirrors == settled => Mirroring(Document.links.entries, Recovered("database"))

LEMMA DeclaredIs == Declared = DeclaredBy(Recovered("database"))
BY DEF Declared, DeclaredBy, ToSet

LEMMA MirrorsSays ==
  ASSUME Mirrors
  PROVE  MirrorFollowsGraph
<1> DEFINE entries == Document.links.entries
<1>1. ASSUME NEW e \in ToSet(resolve(<<Document>>).links)
      PROVE  \E i \in DOMAIN entries : e = entries[i]
  <2>1. e \in ToSet(IF Document.links.defined THEN entries ELSE <<>>)
    BY <1>1, LinksOf
  <2>2. QED BY <2>1 DEF ToSet
<1>2. QED BY <1>1, DeclaredIs DEF Mirrors, Mirroring, MirrorFollowsGraph, orphan_link_settings

LEMMA MirroredMirrors ==
  ASSUME NEW document \in SettingsDocument, NEW links \in Seq(Link)
  PROVE  Mirroring(Mirrored(document, links), links)
<1> DEFINE mirror == Mirrored(document, links)
<1>1. DOMAIN mirror = DOMAIN links /\ \A i \in DOMAIN links : mirror[i].source = links[i].source
  BY MirroredIs
<1> HIDE DEF mirror
<1>2. Mirroring(mirror, links)
  BY <1>1 DEF Mirroring, DeclaredBy, Sources
<1>3. QED BY <1>2 DEF mirror

LEMMA RecordedMirrors ==
  ASSUME NEW entries \in Seq(LinkSettings), NEW resolved \in SUBSET Answer,
         IsFiniteSet(resolved), NEW links, Mirroring(entries, links)
  PROVE  Mirroring(Recorded(entries, resolved), links)
<1> DEFINE all == Recorded(entries, resolved)
<1>1. /\ DOMAIN entries \subseteq DOMAIN all
      /\ \A i \in DOMAIN entries :
           /\ all[i].source = entries[i].source
           /\ all[i].commit = entries[i].commit \/ all[i].commit > 0
      /\ \A i \in DOMAIN all \ DOMAIN entries :
           all[i].source \in Remote /\ all[i].commit > 0
  <2>1. \A r \in resolved : r.source \in Remote /\ r.commit > 0
    BY LinksAssumption DEF Answer, Commits
  <2>2. /\ DOMAIN entries \subseteq DOMAIN all
        /\ \A i \in DOMAIN entries :
             /\ all[i].source = entries[i].source
             /\ \/ all[i].commit = entries[i].commit
                \/ \E r \in resolved :
                     r.source = entries[i].source /\ all[i].commit = r.commit
        /\ \A i \in DOMAIN all \ DOMAIN entries : \E r \in resolved :
             all[i] = [Entry(r.source) EXCEPT !.commit = r.commit]
    BY RecordedIs
  <2> HIDE DEF all
  <2>3. QED BY <2>1, <2>2 DEF Entry
<1> HIDE DEF all
<1>2. Sources(entries) \subseteq Sources(all)
  BY <1>1 DEF Sources
<1>3. Mirroring(all, links)
  BY <1>1, <1>2 DEF Mirroring
<1>4. QED BY <1>3 DEF all

LEMMA MirrorsStep ==
  ASSUME RulesKept, LinksIInv, Mirrors, [LinksNext]_linkVars
  PROVE  Mirrors'
<1>1. \/ Quiet /\ UNCHANGED settled
      \/ \E p \in Process : Journal(p) \/ Rename(p)
      \/ Adopt
      \/ Edit
  BY LinksInvStep
<1>2. CASE Quiet /\ UNCHANGED settled
  BY <1>2 DEF Quiet, Mirrors, Document, File
<1>3. ASSUME NEW p \in Process, Journal(p) PROVE Mirrors'
  <2> DEFINE mirror == Mirrored(disk.settings, local[p].links)
  <2>1. /\ Recovered("database")' = local[p].links
        /\ Document' = IF mirror_to_write(p) = Nothing THEN disk.settings
                       ELSE mirror_to_write(p)
    BY <1>3, JournalStep
  <2>2. disk.settings \in SettingsDocument /\ local[p].links \in Seq(Link)
    BY DEF LinksIInv, LinksTypeOK, Local
  <2>3. Document'.links.entries = mirror
    BY <2>1, <2>2, MirrorEntries
  <2>4. Mirroring(mirror, local[p].links)
    BY <2>2, MirroredMirrors
  <2>5. QED BY <2>1, <2>3, <2>4 DEF Mirrors
<1>4. ASSUME NEW p \in Process, Rename(p) PROVE Mirrors'
  <2> DEFINE recorded == [disk.settings EXCEPT !.links =
                            [defined |-> TRUE, entries |-> Recorded(@.entries, local[p].resolved)]]
             entries == disk.settings.links.entries
  <2>1. /\ Document = disk.settings /\ Recovered("database")' = Recovered("database")
        /\ Document' \in {disk.settings, recorded}
    BY <1>4, RenameStep
  <2>2. UNCHANGED settled
    BY <1>4 DEF Rename, Program
  <2>3. /\ disk.settings \in SettingsDocument /\ entries \in Seq(LinkSettings)
        /\ local[p].resolved \in SUBSET Answer /\ IsFiniteSet(local[p].resolved)
    BY DEF LinksIInv, LinksTypeOK, Local, Own, LocalKnown, SettingsDocument
  <2>4. CASE Document' = disk.settings
    BY <2>1, <2>2, <2>4 DEF Mirrors
  <2>5. CASE Document' = recorded
    <3>1. recorded.links.entries = Recorded(entries, local[p].resolved)
      BY <2>3 DEF SettingsDocument
    <3>2. settled => Mirroring(entries, Recovered("database"))
      BY <2>1 DEF Mirrors
    <3>3. settled => Mirroring(Recorded(entries, local[p].resolved), Recovered("database"))
      BY <2>3, <3>2, RecordedMirrors
    <3> HIDE DEF recorded
    <3>4. QED BY <2>1, <2>2, <2>5, <3>1, <3>3 DEF Mirrors
  <2>6. QED BY <2>1, <2>4, <2>5
<1>5. CASE Adopt \/ Edit
  BY <1>5 DEF Adopt, Edit, Mirrors
<1>6. QED BY <1>1, <1>2, <1>3, <1>4, <1>5

\* MirrorFollowsGraph, for every number of processes, links and edits: add_link(),
\* remove_link() and refresh_links() leave an entry for each declared link, and a
\* commit of a removed one at most, wherever a crash stops them.
THEOREM MirrorAlwaysFollowsGraph ==
  ASSUME RulesKept
  PROVE  LinksSpec => []MirrorFollowsGraph
<1>1. LinksInit => Mirrors
  BY DEF LinksInit, Mirrors, Mirroring, DeclaredBy, Recovered, Document, Fresh
<1>2. LinksIInv /\ Mirrors /\ [LinksNext]_linkVars => Mirrors'
  BY MirrorsStep
<1>3. Mirrors => MirrorFollowsGraph
  BY MirrorsSays
<1>4. QED BY <1>1, <1>2, <1>3, LinksInvariance, PTL DEF LinksSpec

-----------------------------------------------------------------------------
(* What the user wrote *)

\* A declared link keeps its entry as it was.
LEMMA MirroredKeeps ==
  ASSUME NEW document \in SettingsDocument, NEW links \in Seq(Link), LinksDistinct(links),
         NEW s \in Sources(document.links.entries) \cap DeclaredBy(links)
  PROVE  LET entries == document.links.entries
             mirror == Mirrored(document, links)
         IN s \in Sources(mirror) /\ mirror[Find(mirror, s)] = entries[Find(entries, s)]
<1> DEFINE entries == document.links.entries
           mirror == Mirrored(document, links)
<1>1. /\ mirror \in Seq(LinkSettings) /\ DOMAIN mirror = DOMAIN links
      /\ \A i \in DOMAIN links :
           /\ mirror[i].source = links[i].source
           /\ links[i].source \in Sources(entries) =>
                mirror[i] = entries[Find(entries, links[i].source)]
  <2>1. /\ mirror \in Seq(LinkSettings) /\ DOMAIN mirror = DOMAIN links
        /\ \A i \in DOMAIN links :
             /\ mirror[i].source = links[i].source
             /\ mirror[i] = IF links[i].source \in Sources(entries)
                            THEN entries[Find(entries, links[i].source)]
                            ELSE Entry(links[i].source)
    BY MirroredIs
  <2>2. QED BY <2>1
<1> HIDE DEF mirror
<1>2. PICK i \in DOMAIN links : links[i].source = s
  BY DEF DeclaredBy
<1>3. s \in Sources(mirror)
  BY <1>1, <1>2 DEF Sources
<1>4. Find(mirror, s) \in DOMAIN mirror /\ mirror[Find(mirror, s)].source = s
  BY <1>1, <1>3, FindIs
<1>5. Find(mirror, s) = i
  BY <1>1, <1>2, <1>4 DEF LinksDistinct
<1>6. mirror[i] = entries[Find(entries, s)]
  BY <1>1, <1>2
<1>7. QED BY <1>3, <1>5, <1>6 DEF mirror

\* An entry stays where it is, with the same credential and, unless the provider
\* answered for its source, the same commit.
LEMMA RecordedKeeps ==
  ASSUME NEW entries \in Seq(LinkSettings), NEW resolved \in SUBSET Answer,
         IsFiniteSet(resolved), NEW s \in Sources(entries)
  PROVE  LET all == Recorded(entries, resolved)
         IN /\ s \in Sources(all) /\ Find(all, s) = Find(entries, s)
            /\ all[Find(all, s)].credential = entries[Find(entries, s)].credential
            /\ \/ all[Find(all, s)].commit = entries[Find(entries, s)].commit
               \/ \E r \in resolved : r.source = s /\ all[Find(all, s)].commit = r.commit
<1> DEFINE all == Recorded(entries, resolved)
<1>1. /\ all \in Seq(LinkSettings) /\ DOMAIN entries \subseteq DOMAIN all
      /\ \A i \in DOMAIN entries :
           /\ all[i].source = entries[i].source
           /\ all[i].credential = entries[i].credential
           /\ \/ all[i].commit = entries[i].commit
              \/ \E r \in resolved : r.source = entries[i].source /\ all[i].commit = r.commit
  BY RecordedIs
<1> HIDE DEF all
<1> DEFINE i == Find(entries, s)
           k == Find(all, s)
<1>2. /\ i \in DOMAIN entries /\ entries[i].source = s
      /\ \A j \in DOMAIN entries : entries[j].source = s => i <= j
  BY FindIs
<1>3. i \in DOMAIN all /\ all[i].source = s
  BY <1>1, <1>2
<1>4. s \in Sources(all)
  BY <1>3 DEF Sources
<1>5. /\ k \in DOMAIN all /\ all[k].source = s
      /\ \A j \in DOMAIN all : all[j].source = s => k <= j
  BY <1>1, <1>4, FindIs
<1> HIDE DEF i, k
<1>6. DOMAIN entries = 1 .. Len(entries) /\ DOMAIN all = 1 .. Len(all)
      /\ Len(entries) \in Nat /\ Len(all) \in Nat
  BY <1>1
<1>7. k <= i
  BY <1>3, <1>5
<1>8. k \in DOMAIN entries
  BY <1>2, <1>5, <1>6, <1>7
<1>9. entries[k].source = s
  BY <1>1, <1>5, <1>8
<1>10. i <= k
  BY <1>2, <1>8, <1>9
<1>11. i = k
  BY <1>2, <1>5, <1>6, <1>7, <1>10
<1>12. QED BY <1>1, <1>2, <1>4, <1>11 DEF i, k, all

\* What one document keeps of another.
Keeps(old, new, declared) ==
  /\ old.fields = new.fields /\ old.unknown = new.unknown
  /\ \A s \in Sources(old.links.entries) \cap declared :
       /\ s \in Sources(new.links.entries)
       /\ EntryOf(old, s).credential = EntryOf(new, s).credential

LEMMA DocumentsKeep ==
  ASSUME RulesKept, LinksIInv, [LinksNext]_linkVars, author' = "program"
  PROVE  Keeps(Document, Document', Declared')
<1>1. \/ Quiet /\ UNCHANGED settled
      \/ \E p \in Process : Journal(p) \/ Rename(p)
      \/ Adopt
      \/ Edit
  BY LinksInvStep
<1>2. CASE Document' = Document
  BY <1>2 DEF Keeps
<1>3. ASSUME NEW p \in Process, Journal(p) PROVE Keeps(Document, Document', Declared')
  <2> DEFINE mirror == Mirrored(disk.settings, local[p].links)
  <2>1. /\ Recovered("database")' = local[p].links /\ Document = disk.settings
        /\ Document' = IF mirror_to_write(p) = Nothing THEN disk.settings
                       ELSE mirror_to_write(p)
    BY <1>3, JournalStep
  <2>2. /\ disk.settings \in SettingsDocument /\ local[p].links \in Seq(Link)
        /\ LinksDistinct(local[p].links)
    BY DEF LinksIInv, LinksTypeOK, Local, Own, LocalKnown
  <2>3. /\ Document'.links.entries = mirror /\ Document'.fields = Document.fields
        /\ Document'.unknown = Document.unknown
    BY <2>1, <2>2, MirrorEntries
  <2>4. Declared' = DeclaredBy(local[p].links)
    BY <2>1 DEF Declared, DeclaredBy, ToSet
  <2>5. ASSUME NEW s \in Sources(Document.links.entries) \cap Declared'
        PROVE  /\ s \in Sources(mirror)
               /\ mirror[Find(mirror, s)] =
                    Document.links.entries[Find(Document.links.entries, s)]
    <3>1. s \in Sources(disk.settings.links.entries) \cap DeclaredBy(local[p].links)
      BY <2>1, <2>4
    <3>2. /\ s \in Sources(mirror)
          /\ mirror[Find(mirror, s)] =
               disk.settings.links.entries[Find(disk.settings.links.entries, s)]
      BY <2>2, <3>1, MirroredKeeps
    <3>3. QED BY <2>1, <3>2
  <2> HIDE DEF mirror
  <2>6. QED BY <2>3, <2>5 DEF Keeps, EntryOf
<1>4. ASSUME NEW p \in Process, Rename(p) PROVE Keeps(Document, Document', Declared')
  <2> DEFINE entries == disk.settings.links.entries
             all == Recorded(entries, local[p].resolved)
             recorded == [disk.settings EXCEPT !.links =
                            [defined |-> TRUE, entries |-> Recorded(@.entries, local[p].resolved)]]
  <2>1. Document = disk.settings /\ Document' \in {disk.settings, recorded}
    BY <1>4, RenameStep
  <2>2. /\ disk.settings \in SettingsDocument /\ entries \in Seq(LinkSettings)
        /\ local[p].resolved \in SUBSET Answer /\ IsFiniteSet(local[p].resolved)
    BY DEF LinksIInv, LinksTypeOK, Local, Own, LocalKnown, SettingsDocument
  <2>3. CASE Document' = disk.settings
    BY <1>2, <2>1, <2>3
  <2>4. CASE Document' = recorded
    <3>1. /\ recorded.links.entries = all /\ recorded.fields = disk.settings.fields
          /\ recorded.unknown = disk.settings.unknown
      BY <2>2 DEF SettingsDocument
    <3>2. ASSUME NEW s \in Sources(entries)
          PROVE  /\ s \in Sources(all)
                 /\ all[Find(all, s)].credential = entries[Find(entries, s)].credential
      BY <2>2, RecordedKeeps
    <3> HIDE DEF all, recorded
    <3>3. QED BY <2>1, <2>4, <3>1, <3>2 DEF Keeps, EntryOf
  <2>5. QED BY <2>1, <2>3, <2>4
<1>5. CASE Quiet
  BY <1>2, <1>5 DEF Quiet, Document, File
<1>6. CASE Adopt
  <2>1. /\ UNCHANGED <<staged, journal>>
        /\ \E i \in DOMAIN disk.database : disk' = [disk EXCEPT !.database = RemoveAt(@, i)]
    BY <1>6 DEF Adopt
  <2>2. disk'.settings = disk.settings
    BY <2>1 DEF LinksIInv, LinksTypeOK
  <2>3. QED BY <1>2, <2>1, <2>2 DEF Document, Recovered
<1>7. CASE Edit
  BY <1>7 DEF Edit, Author
<1>8. QED BY <1>1, <1>3, <1>4, <1>5, <1>6, <1>7

\* UserFieldsKept, for every number of processes, links and edits: no link change,
\* no refresh and no recovery loses what the user wrote.
THEOREM UserFieldsAlwaysKept ==
  ASSUME RulesKept
  PROVE  LinksSpec => UserFieldsKept
<1>1. LinksIInv /\ [LinksNext]_linkVars =>
        [ author' = "program"
          => /\ Document.fields = Document'.fields
             /\ Document.unknown = Document'.unknown
             /\ \A s \in Sources(Document.links.entries) \cap Declared' :
                  /\ s \in Sources(Document'.links.entries)
                  /\ EntryOf(Document, s).credential = EntryOf(Document, s)'.credential ]_linkVars
  BY DocumentsKeep DEF Keeps, EntryOf
<1>2. QED BY <1>1, LinksInvariance, PTL DEF LinksSpec, UserFieldsKept

-----------------------------------------------------------------------------
(* Settings that open() accepts *)

Refreshing == {"resolve", "record", "write_staged", "rename"}

\* A refresh asks for each declared link once.
AskedOnce(p) ==
  /\ doing[p] \notin Refreshing => local[p].resolved = {}
  /\ LinksDistinct(local[p].todo)
  /\ \A r \in local[p].resolved, i \in DOMAIN local[p].todo : local[p].todo[i].source # r.source
  /\ \A q, r \in local[p].resolved : q.source = r.source => q = r

\* What a journal promotes can be read.
JournalReadable == journal # {} => Readable(Document)

\* Entries stand in a list there is.
Listed(document) == document.links.entries # <<>> => document.links.defined

ReadInv ==
  /\ JournalReadable
  /\ Listed(Document) /\ Listed(disk.settings)
  /\ \A p \in Process : AskedOnce(p)

LEMMA AcceptedIs ==
  ASSUME NEW document \in SettingsDocument
  PROVE  Readable(document) <=>
           /\ \A f \in Field : document.fields[f] # "bad"
           /\ document.links.defined => read_links(document.links.entries)
BY LinksAssumption DEF Readable, Accepted, SettingsDocument

\* Entries nothing is declared twice of, and none with an alias, are accepted.
LEMMA MirroredReadable ==
  ASSUME NEW document \in SettingsDocument, Readable(document),
         Listed(document), NEW links \in Seq(Link), LinksDistinct(links)
  PROVE  read_links(Mirrored(document, links))
<1> DEFINE entries == document.links.entries
           mirror == Mirrored(document, links)
<1>1. /\ DOMAIN mirror = DOMAIN links
      /\ \A i \in DOMAIN links :
           /\ mirror[i].source = links[i].source
           /\ mirror[i] = IF links[i].source \in Sources(entries)
                          THEN entries[Find(entries, links[i].source)]
                          ELSE Entry(links[i].source)
  BY MirroredIs
<1> HIDE DEF mirror
<1>2. entries \in Seq(LinkSettings)
  BY DEF SettingsDocument
<1>3. \A i \in DOMAIN entries : ~entries[i].alias
  BY <1>2, AcceptedIs DEF read_links, Listed
<1>4. ASSUME NEW i \in DOMAIN links PROVE ~mirror[i].alias
  <2>1. CASE links[i].source \in Sources(entries)
    <3>1. Find(entries, links[i].source) \in DOMAIN entries
      BY <1>2, <2>1, FindIs
    <3>2. mirror[i] = entries[Find(entries, links[i].source)]
      BY <1>1, <2>1
    <3>3. QED BY <1>3, <3>1, <3>2
  <2>2. CASE links[i].source \notin Sources(entries)
    <3>1. mirror[i] = Entry(links[i].source)
      BY <1>1, <2>2
    <3>2. QED BY <3>1 DEF Entry
  <2>3. QED BY <2>1, <2>2
<1>5. read_links(mirror)
  BY <1>1, <1>4 DEF read_links, LinksDistinct
<1>6. QED BY <1>5 DEF mirror

LEMMA RecordedReadable ==
  ASSUME NEW entries \in Seq(LinkSettings), read_links(entries),
         NEW resolved \in SUBSET Answer, IsFiniteSet(resolved),
         \A q, r \in resolved : q.source = r.source => q = r
  PROVE  read_links(Recorded(entries, resolved))
<1> DEFINE all == Recorded(entries, resolved)
           Added(r) == [Entry(r.source) EXCEPT !.commit = r.commit]
<1>1. /\ \A i \in DOMAIN entries :
           all[i].source = entries[i].source /\ all[i].alias = entries[i].alias
      /\ \A i \in DOMAIN all \ DOMAIN entries : \E r \in resolved :
           r.source \notin Sources(entries) /\ all[i] = Added(r)
      /\ \A i, j \in DOMAIN all \ DOMAIN entries : all[i] = all[j] => i = j
  BY RecordedIs
<1> HIDE DEF all
<1>2. \A r \in resolved : Added(r).source = r.source /\ ~Added(r).alias
  BY DEF Entry
<1> HIDE DEF Added
<1>3. ASSUME NEW i \in DOMAIN all PROVE ~all[i].alias
  BY <1>1, <1>2 DEF read_links
<1>4. ASSUME NEW i \in DOMAIN all, NEW j \in DOMAIN all, all[i].source = all[j].source
      PROVE  i = j
  <2>1. CASE i \in DOMAIN entries /\ j \in DOMAIN entries
    BY <1>1, <1>4, <2>1 DEF read_links
  <2>2. ASSUME NEW k \in DOMAIN entries, NEW m \in DOMAIN all \ DOMAIN entries
        PROVE  all[k].source # all[m].source
    BY <1>1, <1>2 DEF Sources
  <2>3. CASE i \notin DOMAIN entries /\ j \notin DOMAIN entries
    <3>1. PICK q \in resolved : all[i] = Added(q)
      BY <1>1, <2>3
    <3>2. PICK r \in resolved : all[j] = Added(r)
      BY <1>1, <2>3
    <3>3. q = r
      BY <1>2, <1>4, <3>1, <3>2
    <3>4. QED BY <1>1, <2>3, <3>1, <3>2, <3>3
  <2>4. QED BY <1>4, <2>1, <2>2, <2>3
<1>5. read_links(all)
  BY <1>3, <1>4 DEF read_links
<1>6. QED BY <1>5 DEF all

LEMMA AskedKept ==
  ASSUME NEW p \in Process, AskedOnce(p),
         local'[p].todo = local[p].todo, local'[p].resolved = local[p].resolved,
         doing'[p] \in Refreshing \/ doing[p] \notin Refreshing
  PROVE  AskedOnce(p)'
BY DEF AskedOnce

LEMMA AskedNothing ==
  ASSUME NEW p \in Process, local'[p] = Blank
  PROVE  AskedOnce(p)'
<1>1. local'[p].todo = <<>> /\ local'[p].resolved = {}
  BY DEF Blank
<1>2. QED BY <1>1 DEF AskedOnce, LinksDistinct

\* A step of one process that asks nothing.
Moves(p) ==
  /\ AskedOnce(p)' /\ \A q \in Process \ {p} : UNCHANGED <<doing[q], local[q]>>
  /\ doing'[p] \in Refreshing => doing[p] \in Refreshing
  /\ local'[p].resolved \subseteq local[p].resolved

\* The step of a link change, or one of a refresh after its provider answered.
LEMMA AskedElsewhere ==
  ASSUME LinksIInv, NEW p \in Process, AskedOnce(p),
         \/ add_link(p) \/ remove_link(p) \/ Mirror(p) \/ StageDatabase(p) \/ StageSettings(p)
         \/ Journal(p) \/ PromoteDatabase(p) \/ PromoteSettings(p) \/ Forget(p)
         \/ Resolved(p) \/ record_snapshots(p) \/ WriteStaged(p) \/ Rename(p) \/ Crash(p)
  PROVE  Moves(p)
<1>1. local \in [Process -> Local] /\ doing \in [Process -> Step] /\ local[p] \in Local
  BY DEF LinksIInv, LinksTypeOK
<1>2. CASE Finish(p)
  <2>1. /\ local'[p] = Blank /\ \A q \in Process \ {p} : UNCHANGED <<doing[q], local[q]>>
        /\ doing'[p] = "idle"
    BY <1>1, <1>2 DEF Finish, Goto
  <2>2. Blank.resolved = {}
    BY DEF Blank
  <2>3. QED BY <2>1, <2>2, AskedNothing DEF Moves, Refreshing
<1>3. ASSUME NEW step \in Step, Goto(p, step), UNCHANGED local,
             step \in Refreshing <=> doing[p] \in Refreshing
      PROVE  Moves(p)
  <2>1. doing'[p] = step /\ \A q \in Process \ {p} : UNCHANGED <<doing[q], local[q]>>
    BY <1>1, <1>3 DEF Goto
  <2>2. QED BY <1>3, <2>1, AskedKept DEF Moves
<1>4. ASSUME NEW step \in Step, Goto(p, step), step \in Refreshing <=> doing[p] \in Refreshing,
             \/ \E links : local' = [local EXCEPT ![p].links = links]
             \/ \E document : local' = [local EXCEPT ![p].document = document]
      PROVE  Moves(p)
  <2>1. doing'[p] = step
    BY <1>1, <1>4 DEF Goto
  <2>2. local'[p].todo = local[p].todo /\ local'[p].resolved = local[p].resolved
        /\ \A q \in Process \ {p} : UNCHANGED <<doing[q], local[q]>>
    BY <1>1, <1>4 DEF Local, Goto
  <2>3. QED BY <1>4, <2>1, <2>2, AskedKept DEF Moves
<1>5. CASE add_link(p) \/ remove_link(p)
  <2>1. /\ Goto(p, "mirror") /\ doing[p] \notin Refreshing /\ "mirror" \in Step \ Refreshing
        /\ \E links : local' = [local EXCEPT ![p].links = links]
    BY <1>5 DEF add_link, remove_link, MayStart, Refreshing, Step
  <2>2. QED BY <1>4, <2>1
<1>6. CASE Mirror(p)
  <2>1. \/ Finish(p)
        \/ /\ Goto(p, "stage_database") /\ doing[p] \notin Refreshing
           /\ "stage_database" \in Step \ Refreshing
           /\ \E document : local' = [local EXCEPT ![p].document = document]
    BY <1>6 DEF Mirror, Refreshing, Step
  <2>2. QED BY <1>2, <1>4, <2>1
<1>7. CASE StageDatabase(p) \/ StageSettings(p)
  <2>1. \/ Finish(p)
        \/ \E step \in Step \ Refreshing :
             Goto(p, step) /\ UNCHANGED local /\ doing[p] \notin Refreshing
    BY <1>7 DEF StageDatabase, StageSettings, Stage, Refreshing, Step
  <2>2. QED BY <1>2, <1>3, <2>1
<1>8. CASE Journal(p) \/ PromoteDatabase(p) \/ PromoteSettings(p)
  <2>1. \E step \in Step \ Refreshing :
          Goto(p, step) /\ UNCHANGED local /\ doing[p] \notin Refreshing
    BY <1>8 DEF Journal, PromoteDatabase, PromoteSettings, Refreshing, Step
  <2>2. QED BY <1>3, <2>1
<1>9. CASE Resolved(p)
  <2>1. "record" \in Step /\ "record" \in Refreshing /\ doing[p] \in Refreshing
    BY <1>9 DEF Step, Refreshing, Resolved
  <2>2. CASE local[p].resolved = {}
    BY <1>2, <1>9, <2>2 DEF Resolved
  <2>3. CASE local[p].resolved # {}
    BY <1>3, <1>9, <2>1, <2>3 DEF Resolved
  <2>4. QED BY <2>2, <2>3
<1>10. CASE record_snapshots(p)
  <2>1. \/ Finish(p)
        \/ /\ Goto(p, "write_staged")
           /\ \E document : local' = [local EXCEPT ![p].document = document]
    BY <1>10 DEF record_snapshots
  <2>2. "write_staged" \in Step /\ "write_staged" \in Refreshing /\ doing[p] \in Refreshing
    BY <1>10 DEF Step, Refreshing, record_snapshots
  <2>3. QED BY <1>2, <1>4, <2>1, <2>2
<1>11. CASE WriteStaged(p)
  <2>1. "rename" \in Step /\ "rename" \in Refreshing /\ doing[p] \in Refreshing
    BY <1>11 DEF Step, Refreshing, WriteStaged
  <2>2. CASE Goto(p, "rename") /\ UNCHANGED local
    BY <1>3, <2>1, <2>2
  <2>3. QED BY <1>2, <1>11, <2>2 DEF WriteStaged
<1>12. CASE Forget(p) \/ Rename(p) \/ Crash(p)
  BY <1>2, <1>12 DEF Forget, Rename, Crash
<1>13. QED BY <1>5, <1>6, <1>7, <1>8, <1>9, <1>10, <1>11, <1>12

LEMMA AskedStarts ==
  ASSUME LinksIInv, NEW p \in Process, AskedOnce(p), refresh_links(p)
  PROVE  AskedOnce(p)' /\ \A q \in Process \ {p} : UNCHANGED <<doing[q], local[q]>>
<1>1. /\ Goto(p, "resolve") /\ local' = [local EXCEPT ![p].todo = disk.database]
      /\ doing[p] = "idle"
  BY DEF refresh_links, MayStart
<1>2. /\ local \in [Process -> Local] /\ doing \in [Process -> Step] /\ local[p] \in Local
      /\ LinksDistinct(disk.database)
  BY DEF LinksIInv, LinksTypeOK, DistinctDeclared
<1>3. /\ doing'[p] = "resolve" /\ local'[p].todo = disk.database
      /\ local'[p].resolved = local[p].resolved
      /\ \A q \in Process \ {p} : UNCHANGED <<doing[q], local[q]>>
  BY <1>1, <1>2 DEF Goto, Local
<1>4. local[p].resolved = {}
  BY <1>1 DEF AskedOnce, Refreshing
<1>5. QED BY <1>2, <1>3, <1>4 DEF AskedOnce, Refreshing

LEMMA AskedAnswered ==
  ASSUME LinksIInv, NEW p \in Process, AskedOnce(p), Resolve(p)
  PROVE  AskedOnce(p)' /\ \A q \in Process \ {p} : UNCHANGED <<doing[q], local[q]>>
<1> DEFINE todo == local[p].todo
           s == Head(todo).source
<1>1. doing[p] = "resolve" /\ UNCHANGED doing /\ todo # <<>>
  BY DEF Resolve
<1>2. PICK answer \in SUBSET {[source |-> r, commit |-> head[r]] : r \in {s} \cap Remote} :
        local' = [local EXCEPT ![p].todo = Tail(@), ![p].resolved = @ \union answer]
  BY DEF Resolve
<1>3. local \in [Process -> Local] /\ local[p] \in Local /\ todo \in Seq(Link)
  BY DEF LinksIInv, LinksTypeOK, Local
<1>4. /\ local'[p].todo = Tail(todo) /\ local'[p].resolved = local[p].resolved \union answer
      /\ \A q \in Process \ {p} : UNCHANGED <<doing[q], local[q]>>
  BY <1>1, <1>2, <1>3 DEF Local
<1>5. \A r \in answer : r = [source |-> s, commit |-> head[s]]
  BY <1>2
<1>6. /\ todo[1].source = s /\ 1 \in DOMAIN todo
      /\ \A i \in DOMAIN Tail(todo) : i + 1 \in DOMAIN todo /\ Tail(todo)[i] = todo[i + 1]
      /\ \A i \in DOMAIN Tail(todo) : i \in Nat /\ i # 0
  BY <1>1, <1>3
<1> HIDE DEF todo, s
<1>7. /\ LinksDistinct(todo)
      /\ \A r \in local[p].resolved, i \in DOMAIN todo : todo[i].source # r.source
      /\ \A q, r \in local[p].resolved : q.source = r.source => q = r
  BY DEF AskedOnce, todo
<1>8. \A i \in DOMAIN Tail(todo) : i + 1 # 1 /\ Tail(todo)[i].source # s
  BY <1>6, <1>7 DEF LinksDistinct
<1>9. LinksDistinct(Tail(todo))
  BY <1>6, <1>7 DEF LinksDistinct
<1>10. \A r \in answer : r.source = s
  BY <1>5
<1>11. \A r \in local[p].resolved : r.source # s
  BY <1>6, <1>7
<1>12. \A r \in local'[p].resolved, i \in DOMAIN Tail(todo) : Tail(todo)[i].source # r.source
  BY <1>4, <1>6, <1>7, <1>8, <1>10
<1>13. \A q, r \in local'[p].resolved : q.source = r.source => q = r
  <2> SUFFICES ASSUME NEW q \in local'[p].resolved, NEW r \in local'[p].resolved,
                      q.source = r.source
               PROVE  q = r
    OBVIOUS
  <2>1. CASE q \in answer /\ r \in answer
    BY <1>5, <2>1
  <2>2. CASE q \in local[p].resolved /\ r \in local[p].resolved
    BY <2>2 DEF AskedOnce
  <2>3. QED BY <1>4, <1>10, <1>11, <2>1, <2>2
<1>14. doing'[p] \in Refreshing
  BY <1>1 DEF Refreshing
<1>15. QED BY <1>4, <1>9, <1>12, <1>13, <1>14 DEF AskedOnce

LEMMA AskedStep ==
  ASSUME LinksIInv, \A p \in Process : AskedOnce(p), [LinksNext]_linkVars
  PROVE  \A p \in Process : AskedOnce(p)'
<1>1. ASSUME NEW q \in Process, UNCHANGED <<doing[q], local[q]>> PROVE AskedOnce(q)'
  BY <1>1, AskedKept
<1>2. CASE UNCHANGED <<doing, local>>
  BY <1>1, <1>2
<1>3. ASSUME NEW p \in Process,
             AskedOnce(p)' /\ \A q \in Process \ {p} : UNCHANGED <<doing[q], local[q]>>
      PROVE  \A q \in Process : AskedOnce(q)'
  BY <1>1, <1>3
<1>4. ASSUME NEW p \in Process, Open(p) PROVE UNCHANGED <<doing, local>>
  BY <1>4 DEF Open
<1>5. CASE Adopt \/ Edit \/ (\E s \in Remote : Advance(s)) \/ UNCHANGED linkVars
  BY <1>2, <1>5 DEF Adopt, Edit, Advance, linkVars
<1>6. CASE \E p \in Process : Open(p)
  BY <1>2, <1>4, <1>6
<1>7. ASSUME NEW p \in Process,
             \/ add_link(p) \/ remove_link(p) \/ Mirror(p) \/ StageDatabase(p)
             \/ StageSettings(p) \/ Journal(p) \/ PromoteDatabase(p) \/ PromoteSettings(p)
             \/ Forget(p) \/ Resolved(p) \/ record_snapshots(p) \/ WriteStaged(p) \/ Rename(p)
             \/ Crash(p) \/ refresh_links(p) \/ Resolve(p)
      PROVE  \A q \in Process : AskedOnce(q)'
  <2>1. AskedOnce(p)' /\ \A q \in Process \ {p} : UNCHANGED <<doing[q], local[q]>>
    BY <1>7, AskedElsewhere, AskedStarts, AskedAnswered DEF Moves
  <2>2. QED BY <1>3, <2>1
<1>8. QED BY <1>5, <1>6, <1>7 DEF LinksNext

\* The settings file holds what it held, or what the next open finds; only a link
\* change writes a journal.
LEMMA SettingsStep ==
  ASSUME RulesKept, LinksIInv, [LinksNext]_linkVars
  PROVE  /\ disk'.settings \in {disk.settings, Document'}
         /\ journal' \subseteq journal \/ \E p \in Process : Journal(p)
<1>1. CASE UNCHANGED <<disk, journal>>
  BY <1>1
<1>2. disk \in [database : Seq(Link), settings : SettingsDocument]
  BY DEF LinksIInv, LinksTypeOK
<1>3. ASSUME NEW p \in Process, Open(p)
      PROVE  disk'.settings = Document' /\ journal' = {}
  BY <1>3, OpenStep DEF Open, Quiet, Document, File
<1>4. ASSUME NEW p \in Process, PromoteDatabase(p)
      PROVE  disk'.settings = disk.settings /\ journal' = journal
  BY <1>2, <1>4 DEF PromoteDatabase, Promote
<1>5. ASSUME NEW p \in Process, PromoteSettings(p)
      PROVE  disk'.settings = Document' /\ journal' = journal
  <2>1. staged' = [staged EXCEPT !["settings"] = Nothing] /\ journal' = journal
    BY <1>5 DEF PromoteSettings, Promote
  <2>2. staged'["settings"] = Nothing
    BY <2>1 DEF LinksIInv, LinksTypeOK
  <2>3. QED BY <2>1, <2>2 DEF Document, Recovered
<1>6. ASSUME NEW p \in Process, Rename(p)
      PROVE  disk'.settings = Document' /\ journal' = journal
  <2>1. doing[p] = "rename" /\ journal' = journal
    BY <1>6 DEF Rename
  <2>2. journal = {}
    BY <2>1 DEF LinksIInv, Own, JournalOfWriter, Writing, Committing
  <2>3. QED BY <2>1, <2>2 DEF Document, Recovered
<1>7. ASSUME Adopt PROVE disk'.settings = disk.settings /\ journal' = journal
  BY <1>2, <1>7 DEF Adopt
<1>8. ASSUME Edit PROVE disk'.settings = Document' /\ journal' = journal
  <2>1. journal = {} /\ journal' = journal
    BY <1>8 DEF Edit, RulesKept
  <2>2. QED BY <2>1 DEF Document, Recovered
<1>9. ASSUME NEW p \in Process,
             add_link(p) \/ remove_link(p) \/ Mirror(p) \/ StageDatabase(p) \/ StageSettings(p)
             \/ refresh_links(p) \/ Resolve(p) \/ Resolved(p) \/ record_snapshots(p)
             \/ WriteStaged(p) \/ Crash(p)
      PROVE  UNCHANGED <<disk, journal>>
  BY <1>9 DEF add_link, remove_link, Mirror, StageDatabase, StageSettings, Stage, refresh_links,
              Resolve, Resolved, record_snapshots, WriteStaged, Crash
<1>10. ASSUME NEW p \in Process, Journal(p) \/ Forget(p)
       PROVE  disk' = disk /\ (journal' = {} \/ Journal(p))
  BY <1>10 DEF Journal, Forget
<1>11. ASSUME NEW s \in Remote, Advance(s) PROVE UNCHANGED <<disk, journal>>
  BY <1>11 DEF Advance
<1>12. CASE UNCHANGED linkVars
  BY <1>1, <1>12 DEF linkVars
<1>13. CASE LinksNext
  BY <1>3, <1>4, <1>5, <1>6, <1>7, <1>8, <1>9, <1>10, <1>11, <1>13 DEF LinksNext
<1>14. QED BY <1>12, <1>13

LEMMA DocumentTyped ==
  ASSUME LinksIInv
  PROVE  Document \in SettingsDocument /\ disk.settings \in SettingsDocument
BY DEF LinksIInv, LinksTypeOK, Document, Recovered, File

\* Without a journal, the settings file is what the next open finds.
LEMMA DocumentReadable ==
  ASSUME JournalReadable, Readable(disk.settings)
  PROVE  Readable(Document)
BY DEF JournalReadable, Document, Recovered

\* A step of the program keeps the settings readable, and their entries listed.
LEMMA DocumentStays ==
  ASSUME RulesKept, LinksIInv, ReadInv, [LinksNext]_linkVars, author' = "program" \/ ~Edit
  PROVE  /\ Readable(Document) => Readable(Document')
         /\ Listed(Document')
         /\ (\E p \in Process : Journal(p)) => Readable(Document')
<1>1. \/ Quiet /\ UNCHANGED settled
      \/ \E p \in Process : Journal(p) \/ Rename(p)
      \/ Adopt
      \/ Edit
  BY LinksInvStep
<1>2. ASSUME NEW p \in Process, Journal(p) PROVE Readable(Document') /\ Listed(Document')
  <2> DEFINE mirror == Mirrored(disk.settings, local[p].links)
  <2>1. /\ Readable(disk.settings)
        /\ Document' = IF mirror_to_write(p) = Nothing THEN disk.settings
                       ELSE mirror_to_write(p)
    BY <1>2, JournalStep
  <2>2. /\ disk.settings \in SettingsDocument /\ local[p].links \in Seq(Link)
        /\ LinksDistinct(local[p].links) /\ Listed(disk.settings)
    BY DEF LinksIInv, LinksTypeOK, Local, Own, LocalKnown, ReadInv
  <2>3. /\ Document'.links.entries = mirror /\ Document'.fields = disk.settings.fields
    BY <2>1, <2>2, MirrorEntries
  <2>4. read_links(mirror)
    BY <2>1, <2>2, MirroredReadable
  <2>5. Document' \in SettingsDocument
    <3>1. LinksIInv'
      BY LinksInvStep
    <3>2. QED BY <3>1 DEF LinksIInv, LinksTypeOK, Document, Recovered, File
  <2>6. \A f \in Field : disk.settings.fields[f] # "bad"
    BY <2>1, <2>2, AcceptedIs
  <2>7. Readable(Document')
    BY <2>3, <2>4, <2>5, <2>6, AcceptedIs
  <2>8. Listed(Document')
    <3>1. CASE mirror_to_write(p) = Nothing
      BY <2>1, <2>2, <3>1
    <3>2. CASE mirror_to_write(p) # Nothing
      <4>1. mirror_to_write(p).links = [defined |-> TRUE, entries |-> mirror]
        BY <2>2, <3>2 DEF mirror_to_write, SettingsDocument
      <4>2. QED BY <2>1, <3>2, <4>1 DEF Listed
    <3>3. QED BY <3>1, <3>2
  <2>9. QED BY <2>7, <2>8
<1>3. CASE Document' = Document
  BY <1>2, <1>3 DEF ReadInv
<1>4. ASSUME NEW p \in Process, Rename(p)
      PROVE  Readable(Document') /\ Listed(Document')
  <2> DEFINE entries == disk.settings.links.entries
             resolved == local[p].resolved
             recorded == [disk.settings EXCEPT !.links =
                            [defined |-> TRUE, entries |-> Recorded(@.entries, local[p].resolved)]]
  <2>1. Readable(disk.settings) /\ Document' \in {disk.settings, recorded}
    BY <1>4, RenameStep
  <2>2. /\ disk.settings \in SettingsDocument /\ entries \in Seq(LinkSettings)
        /\ resolved \in SUBSET Answer /\ IsFiniteSet(resolved) /\ Listed(disk.settings)
        /\ \A q, r \in resolved : q.source = r.source => q = r
    BY DEF LinksIInv, LinksTypeOK, Local, Own, LocalKnown, SettingsDocument, ReadInv, AskedOnce
  <2>3. recorded.links = [defined |-> TRUE, entries |-> Recorded(entries, resolved)]
        /\ recorded.fields = disk.settings.fields
    BY <2>2 DEF SettingsDocument
  <2>4. recorded \in SettingsDocument
    BY <2>2, RecordDocument
  <2>5. read_links(entries)
    <3>1. CASE disk.settings.links.defined
      BY <2>1, <2>2, <3>1, AcceptedIs
    <3>2. CASE ~disk.settings.links.defined
      BY <2>2, <3>2 DEF Listed, read_links
    <3>3. QED BY <3>1, <3>2
  <2>6. read_links(Recorded(entries, resolved))
    BY <2>2, <2>5, RecordedReadable
  <2>7. \A f \in Field : disk.settings.fields[f] # "bad"
    BY <2>1, <2>2, AcceptedIs
  <2> HIDE DEF recorded
  <2>8. Readable(recorded)
    BY <2>3, <2>4, <2>6, <2>7, AcceptedIs
  <2>9. Listed(recorded)
    BY <2>3 DEF Listed
  <2>10. QED BY <2>1, <2>2, <2>8, <2>9
<1>5. CASE Quiet
  BY <1>3, <1>5 DEF Quiet, Document, File
<1>6. CASE Adopt
  <2>1. /\ UNCHANGED <<staged, journal>>
        /\ \E i \in DOMAIN disk.database : disk' = [disk EXCEPT !.database = RemoveAt(@, i)]
    BY <1>6 DEF Adopt
  <2>2. disk'.settings = disk.settings
    BY <2>1 DEF LinksIInv, LinksTypeOK
  <2>3. QED BY <1>3, <2>1, <2>2 DEF Document, Recovered
<1>7. ~Edit
  BY DEF Edit, Author
<1>8. CASE \E p \in Process : Journal(p) \/ Rename(p)
  BY <1>2, <1>4, <1>8
<1>9. QED BY <1>1, <1>5, <1>6, <1>7, <1>8

LEMMA EditedListed ==
  ASSUME NEW document \in SettingsDocument, Listed(document), NEW d \in Edited(document)
  PROVE  Listed(d)
<1> DEFINE with(e) == [document EXCEPT !.links = [defined |-> TRUE, entries |-> e]]
<1>1. \/ \E e : d = with(e)
      \/ d = [document EXCEPT !.unknown = 1 - @]
      \/ \E f \in Field, v \in {"null", "set"} : d = [document EXCEPT !.fields[f] = v]
  BY DEF Edited
<1>2. \A e : with(e).links = [defined |-> TRUE, entries |-> e]
  BY DEF SettingsDocument
<1>3. CASE \E e : d = with(e)
  BY <1>2, <1>3 DEF Listed
<1>4. CASE d = [document EXCEPT !.unknown = 1 - @]
  BY <1>4 DEF Listed, SettingsDocument
<1>5. CASE \E f \in Field, v \in {"null", "set"} : d = [document EXCEPT !.fields[f] = v]
  BY <1>5 DEF Listed, SettingsDocument
<1>6. QED BY <1>1, <1>3, <1>4, <1>5

LEMMA ReadStep ==
  ASSUME RulesKept, LinksIInv, ReadInv, [LinksNext]_linkVars
  PROVE  /\ ReadInv'
         /\ author' = "program" =>
              /\ Readable(disk.settings) => Readable(disk.settings)'
              /\ Readable(Document) => Readable(Document)'
<1>1. \A p \in Process : AskedOnce(p)'
  BY AskedStep DEF ReadInv
<1>2. /\ disk'.settings \in {disk.settings, Document'}
      /\ journal' \subseteq journal \/ \E p \in Process : Journal(p)
  BY SettingsStep
<1>3. CASE ~Edit
  <2>1. /\ Readable(Document) => Readable(Document')
        /\ Listed(Document')
        /\ (\E p \in Process : Journal(p)) => Readable(Document')
    BY <1>3, DocumentStays
  <2>2. JournalReadable'
    BY <1>2, <2>1 DEF ReadInv, JournalReadable
  <2>3. Listed(disk.settings)'
    BY <1>2, <2>1 DEF ReadInv
  <2>4. Readable(disk.settings) => Readable(disk.settings)'
    BY <1>2, <2>1, DocumentReadable DEF ReadInv
  <2>5. QED BY <1>1, <2>1, <2>2, <2>3, <2>4 DEF ReadInv
<1>4. CASE Edit
  <2>1. journal = {} /\ journal' = {} /\ staged' = staged /\ author' = "user"
    BY <1>4 DEF Edit, RulesKept, Author
  <2>2. PICK document \in Edited(disk.settings) : disk' = [disk EXCEPT !.settings = document]
    BY <1>4 DEF Edit
  <2>3. disk'.settings = document /\ Document' = document
    BY <2>1, <2>2 DEF LinksIInv, LinksTypeOK, Document, Recovered
  <2>4. Listed(document)
    BY EditedListed, DocumentTyped DEF ReadInv
  <2>5. QED BY <1>1, <2>1, <2>3, <2>4 DEF ReadInv, JournalReadable
<1>5. QED BY <1>3, <1>4

LEMMA ReadInit ==
  ASSUME LinksInit
  PROVE  ReadInv
<1>1. journal = {} /\ Document = Fresh /\ disk.settings = Fresh
  BY DEF LinksInit, Document, Recovered
<1>2. Listed(Fresh)
  BY DEF Listed, Fresh
<1>3. ASSUME NEW p \in Process PROVE AskedOnce(p)
  <2>1. local[p].todo = <<>> /\ local[p].resolved = {}
    BY DEF LinksInit, Blank
  <2>2. QED BY <2>1 DEF AskedOnce, LinksDistinct
<1>4. QED BY <1>1, <1>2, <1>3 DEF ReadInv, JournalReadable

\* ReadInv holds throughout.
LEMMA ReadInvariance ==
  ASSUME RulesKept
  PROVE  LinksSpec => []ReadInv
<1>1. LinksIInv /\ ReadInv /\ [LinksNext]_linkVars => ReadInv'
  BY ReadStep
<1>2. LinksInit => ReadInv
  BY ReadInit
<1>3. QED BY <1>1, <1>2, LinksInvariance, PTL DEF LinksSpec

\* StaysReadable, for every number of processes, links and edits: settings that
\* Project::open() accepts stay so through every command of the program.
THEOREM SettingsStayReadable ==
  ASSUME RulesKept
  PROVE  LinksSpec => StaysReadable
<1>1. LinksIInv /\ ReadInv /\ [LinksNext]_linkVars =>
        [ author' = "program"
          => /\ Readable(disk.settings) => Readable(disk.settings)'
             /\ Readable(Document) => Readable(Document)' ]_linkVars
  BY ReadStep
<1>2. QED BY <1>1, ReadInvariance, LinksInvariance, PTL DEF LinksSpec, StaysReadable

-----------------------------------------------------------------------------
(* Commits only move on *)

OneRefreshAtATime == "one_refresh" \in Rules

OneRefresh ==
  \A p, q \in Process : doing[p] \in Refreshing /\ doing[q] \in Refreshing => p = q

\* No entry of a source is past a commit.
AtMost(entries, s, c) == \A i \in DOMAIN entries : entries[i].source = s => entries[i].commit <= c

\* What a provider answered is at least what any entry says, and what it would answer
\* now at least that.
CommitsInv ==
  /\ OneRefresh
  /\ \A s \in Remote : AtMost(Document.links.entries, s, head[s])
  /\ \A p \in Process : \A r \in local[p].resolved :
       /\ r.commit <= head[r.source]
       /\ AtMost(Document.links.entries, r.source, r.commit)

LEMMA MirroredAtMost ==
  ASSUME NEW document \in SettingsDocument, NEW links \in Seq(Link), NEW s, NEW c \in Nat,
         AtMost(document.links.entries, s, c)
  PROVE  AtMost(Mirrored(document, links), s, c)
<1> DEFINE entries == document.links.entries
           mirror == Mirrored(document, links)
<1>1. /\ DOMAIN mirror = DOMAIN links
      /\ \A i \in DOMAIN links :
           /\ mirror[i].source = links[i].source
           /\ mirror[i] = IF links[i].source \in Sources(entries)
                          THEN entries[Find(entries, links[i].source)]
                          ELSE Entry(links[i].source)
  BY MirroredIs
<1> HIDE DEF mirror
<1>2. entries \in Seq(LinkSettings)
  BY DEF SettingsDocument
<1>3. ASSUME NEW i \in DOMAIN mirror, mirror[i].source = s PROVE mirror[i].commit <= c
  <2>1. CASE s \in Sources(entries)
    <3>1. Find(entries, s) \in DOMAIN entries /\ entries[Find(entries, s)].source = s
      BY <1>2, <2>1, FindIs
    <3>2. mirror[i] = entries[Find(entries, s)]
      BY <1>1, <1>3, <2>1
    <3>3. QED BY <3>1, <3>2 DEF AtMost
  <2>2. CASE s \notin Sources(entries)
    <3>1. mirror[i] = Entry(s)
      BY <1>1, <1>3, <2>2
    <3>2. QED BY <3>1 DEF Entry
  <2>3. QED BY <2>1, <2>2
<1>4. QED BY <1>3 DEF AtMost, mirror

LEMMA RecordedAtMost ==
  ASSUME NEW entries \in Seq(LinkSettings), NEW resolved \in SUBSET Answer,
         IsFiniteSet(resolved), NEW s, NEW c \in Nat, AtMost(entries, s, c),
         \A r \in resolved : r.source = s => r.commit <= c
  PROVE  AtMost(Recorded(entries, resolved), s, c)
<1> DEFINE all == Recorded(entries, resolved)
<1>1. /\ DOMAIN entries \subseteq DOMAIN all
      /\ \A i \in DOMAIN entries :
           /\ all[i].source = entries[i].source
           /\ \/ all[i].commit = entries[i].commit
              \/ \E r \in resolved : r.source = entries[i].source /\ all[i].commit = r.commit
      /\ \A i \in DOMAIN all \ DOMAIN entries : \E r \in resolved :
           all[i] = [Entry(r.source) EXCEPT !.commit = r.commit]
  BY RecordedIs
<1> HIDE DEF all
<1>2. ASSUME NEW i \in DOMAIN all, all[i].source = s PROVE all[i].commit <= c
  <2>1. CASE i \in DOMAIN entries
    BY <1>1, <1>2, <2>1 DEF AtMost
  <2>2. CASE i \notin DOMAIN entries
    <3>1. PICK r \in resolved : all[i] = [Entry(r.source) EXCEPT !.commit = r.commit]
      BY <1>1, <2>2
    <3>2. all[i].source = r.source /\ all[i].commit = r.commit
      BY <3>1 DEF Entry
    <3>3. QED BY <1>2, <3>2
  <2>3. QED BY <2>1, <2>2
<1>3. QED BY <1>2 DEF AtMost, all

LEMMA EditedAtMost ==
  ASSUME NEW document \in SettingsDocument, NEW d \in Edited(document), NEW s, NEW c \in Nat,
         AtMost(document.links.entries, s, c)
  PROVE  AtMost(d.links.entries, s, c)
<1> DEFINE entries == document.links.entries
           with(e) == [document EXCEPT !.links = [defined |-> TRUE, entries |-> e]]
<1>1. entries \in Seq(LinkSettings) /\ DOMAIN entries = 1 .. Len(entries)
      /\ Len(entries) \in Nat
  BY DEF SettingsDocument
<1>2. \A e : with(e).links.entries = e
  BY DEF SettingsDocument
<1>3. ASSUME NEW i \in DOMAIN entries,
             d = with([entries EXCEPT ![i].credential = IF @ = "none" THEN "named" ELSE "none"])
      PROVE  AtMost(d.links.entries, s, c)
  <2> DEFINE e == [entries EXCEPT ![i].credential = IF @ = "none" THEN "named" ELSE "none"]
  <2>1. DOMAIN e = DOMAIN entries
    BY <1>1
  <2>2. ASSUME NEW k \in DOMAIN entries
        PROVE  e[k].source = entries[k].source /\ e[k].commit = entries[k].commit
    <3>1. entries[k] \in LinkSettings
      BY <1>1
    <3>2. QED BY <1>1, <3>1 DEF LinkSettings
  <2> HIDE DEF e
  <2>3. AtMost(e, s, c)
    BY <2>1, <2>2 DEF AtMost
  <2>4. d.links.entries = e
    BY <1>2, <1>3 DEF e
  <2>5. QED BY <2>3, <2>4
<1>4. ASSUME NEW i \in DOMAIN entries, d = with(RemoveAt(entries, i))
      PROVE  AtMost(d.links.entries, s, c)
  <2> DEFINE e == RemoveAt(entries, i)
  <2>1. /\ Len(e) = Len(entries) - 1 /\ e \in Seq(LinkSettings)
        /\ \A k \in DOMAIN e : e[k] = IF k < i THEN entries[k] ELSE entries[k + 1]
    BY <1>1, RemovedIs
  <2> HIDE DEF e
  <2>2. \A k \in DOMAIN e : k \in DOMAIN entries /\ k + 1 \in DOMAIN entries
    BY <1>1, <2>1
  <2>3. AtMost(e, s, c)
    BY <2>1, <2>2 DEF AtMost
  <2>4. d.links.entries = e
    BY <1>2, <1>4 DEF e
  <2>5. QED BY <2>3, <2>4
<1>5. ASSUME NEW t \in Source, d = with(Append(entries, Entry(t)))
      PROVE  AtMost(d.links.entries, s, c)
  <2> DEFINE e == Append(entries, Entry(t))
  <2>1. Entry(t).commit = 0
    BY DEF Entry
  <2>2. \A k \in DOMAIN e : (k \in DOMAIN entries /\ e[k] = entries[k]) \/ e[k] = Entry(t)
    BY <1>1
  <2> HIDE DEF e
  <2>3. AtMost(e, s, c)
    BY <2>1, <2>2 DEF AtMost
  <2>4. d.links.entries = e
    BY <1>2, <1>5 DEF e
  <2>5. QED BY <2>3, <2>4
<1>6. CASE d = [document EXCEPT !.unknown = 1 - @]
  BY <1>6 DEF SettingsDocument
<1>7. CASE \E f \in Field, v \in {"null", "set"} : d = [document EXCEPT !.fields[f] = v]
  BY <1>7 DEF SettingsDocument
<1>8. \/ \E i \in DOMAIN entries :
           d = with([entries EXCEPT ![i].credential = IF @ = "none" THEN "named" ELSE "none"])
      \/ \E i \in DOMAIN entries : d = with(RemoveAt(entries, i))
      \/ \E t \in Source : d = with(Append(entries, Entry(t)))
      \/ d = [document EXCEPT !.unknown = 1 - @]
      \/ \E f \in Field, v \in {"null", "set"} : d = [document EXCEPT !.fields[f] = v]
  BY DEF Edited
<1>9. QED BY <1>3, <1>4, <1>5, <1>6, <1>7, <1>8

LEMMA CommitOfIs ==
  ASSUME NEW document \in SettingsDocument, NEW s
  PROVE  /\ CommitOf(document, s) \in Nat
         /\ s \notin Sources(document.links.entries) => CommitOf(document, s) = 0
         /\ s \in Sources(document.links.entries) =>
              CommitOf(document, s) =
                document.links.entries[Find(document.links.entries, s)].commit
<1> DEFINE entries == document.links.entries
           i == Find(entries, s)
<1>1. entries \in Seq(LinkSettings)
  BY DEF SettingsDocument
<1>2. CASE s \in Sources(entries)
  <2>1. i \in DOMAIN entries
    BY <1>1, <1>2, FindIs
  <2>2. entries[i] \in LinkSettings
    BY <1>1, <2>1
  <2>3. entries[i].commit \in Nat
    BY <2>2, LinksAssumption DEF LinkSettings, Commits
  <2>4. QED BY <1>2, <2>3 DEF CommitOf, EntryOf
<1>3. CASE s \notin Sources(entries)
  BY <1>3 DEF CommitOf
<1>4. QED BY <1>2, <1>3

LEMMA HeadStep ==
  ASSUME LinksIInv, [LinksNext]_linkVars, NEW s \in Remote
  PROVE  head[s] \in Nat /\ head'[s] \in Nat /\ head[s] <= head'[s]
<1>1. head \in [Remote -> Nat]
  BY LinksAssumption DEF LinksIInv, LinksTypeOK, Commits
<1>2. CASE UNCHANGED head
  BY <1>1, <1>2
<1>3. ASSUME NEW r \in Remote, Advance(r) PROVE head' = [head EXCEPT ![r] = @ + 1]
  BY <1>3 DEF Advance
<1>4. ASSUME NEW p \in Process,
             Open(p) \/ add_link(p) \/ remove_link(p) \/ Mirror(p) \/ StageDatabase(p)
             \/ StageSettings(p) \/ Journal(p) \/ PromoteDatabase(p) \/ PromoteSettings(p)
             \/ Forget(p)
      PROVE  UNCHANGED head
  BY <1>4 DEF Open, add_link, remove_link, Mirror, StageDatabase, StageSettings, Stage, Journal,
              PromoteDatabase, PromoteSettings, Forget
<1>5. ASSUME NEW p \in Process,
             refresh_links(p) \/ Resolve(p) \/ Resolved(p) \/ record_snapshots(p)
             \/ WriteStaged(p) \/ Rename(p) \/ Crash(p)
      PROVE  UNCHANGED head
  BY <1>5 DEF refresh_links, Resolve, Resolved, record_snapshots, WriteStaged, Rename, Crash
<1>6. CASE Adopt \/ Edit \/ UNCHANGED linkVars
  BY <1>2, <1>6 DEF Adopt, Edit, linkVars
<1>7. CASE \E r \in Remote : Advance(r)
  BY <1>1, <1>3, <1>7
<1>8. QED BY <1>2, <1>4, <1>5, <1>6, <1>7 DEF LinksNext

\* No step but the rename of a refresh moves a commit on.
LEMMA EntriesStep ==
  ASSUME RulesKept, LinksIInv, [LinksNext]_linkVars, NEW s, NEW c \in Nat,
         AtMost(Document.links.entries, s, c),
         \A p \in Process : Rename(p) => \A r \in local[p].resolved : r.source = s => r.commit <= c
  PROVE  AtMost(Document'.links.entries, s, c)
<1>1. \/ Quiet /\ UNCHANGED settled
      \/ \E p \in Process : Journal(p) \/ Rename(p)
      \/ Adopt
      \/ Edit
  BY LinksInvStep
<1>2. CASE Document' = Document
  BY <1>2
<1>3. ASSUME NEW p \in Process, Journal(p) PROVE AtMost(Document'.links.entries, s, c)
  <2>1. /\ Document = disk.settings
        /\ Document' = IF mirror_to_write(p) = Nothing THEN disk.settings
                       ELSE mirror_to_write(p)
    BY <1>3, JournalStep
  <2>2. disk.settings \in SettingsDocument /\ local[p].links \in Seq(Link)
    BY DEF LinksIInv, LinksTypeOK, Local
  <2>3. Document'.links.entries = Mirrored(disk.settings, local[p].links)
    BY <2>1, <2>2, MirrorEntries
  <2>4. AtMost(Mirrored(disk.settings, local[p].links), s, c)
    BY <2>1, <2>2, MirroredAtMost
  <2>5. QED BY <2>3, <2>4
<1>4. ASSUME NEW p \in Process, Rename(p) PROVE AtMost(Document'.links.entries, s, c)
  <2> DEFINE entries == disk.settings.links.entries
             recorded == [disk.settings EXCEPT !.links =
                            [defined |-> TRUE, entries |-> Recorded(@.entries, local[p].resolved)]]
  <2>1. Document = disk.settings /\ Document' \in {disk.settings, recorded}
    BY <1>4, RenameStep
  <2>2. /\ disk.settings \in SettingsDocument /\ entries \in Seq(LinkSettings)
        /\ local[p].resolved \in SUBSET Answer /\ IsFiniteSet(local[p].resolved)
    BY DEF LinksIInv, LinksTypeOK, Local, Own, LocalKnown, SettingsDocument
  <2>3. recorded.links.entries = Recorded(entries, local[p].resolved)
    BY <2>2 DEF SettingsDocument
  <2>4. AtMost(Recorded(entries, local[p].resolved), s, c)
    BY <1>4, <2>1, <2>2, RecordedAtMost
  <2> HIDE DEF recorded
  <2>5. QED BY <1>2, <2>1, <2>3, <2>4
<1>5. CASE Quiet
  BY <1>2, <1>5 DEF Quiet, Document, File
<1>6. CASE Adopt
  <2>1. /\ UNCHANGED <<staged, journal>>
        /\ \E i \in DOMAIN disk.database : disk' = [disk EXCEPT !.database = RemoveAt(@, i)]
    BY <1>6 DEF Adopt
  <2>2. disk'.settings = disk.settings
    BY <2>1 DEF LinksIInv, LinksTypeOK
  <2>3. QED BY <1>2, <2>1, <2>2 DEF Document, Recovered
<1>7. CASE Edit
  <2>1. journal = {} /\ journal' = {} /\ staged' = staged
    BY <1>7 DEF Edit, RulesKept
  <2>2. PICK document \in Edited(disk.settings) : disk' = [disk EXCEPT !.settings = document]
    BY <1>7 DEF Edit
  <2>3. /\ Document' = document /\ Document = disk.settings
        /\ disk.settings \in SettingsDocument
    BY <2>1, <2>2 DEF LinksIInv, LinksTypeOK, Document, Recovered
  <2>4. AtMost(document.links.entries, s, c)
    BY <2>3, EditedAtMost
  <2>5. QED BY <2>3, <2>4
<1>8. QED BY <1>1, <1>3, <1>4, <1>5, <1>6, <1>7

\* Which steps begin a refresh, and which learn a commit.
LEMMA RefreshingStep ==
  ASSUME LinksIInv, \A p \in Process : AskedOnce(p), [LinksNext]_linkVars, NEW q \in Process
  PROVE  /\ doing'[q] \in Refreshing => doing[q] \in Refreshing \/ refresh_links(q)
         /\ local'[q].resolved \subseteq local[q].resolved \/ Resolve(q)
<1>1. CASE UNCHANGED <<doing[q], local[q]>>
  BY <1>1
<1>2. ASSUME NEW p \in Process, Open(p) PROVE UNCHANGED <<doing, local>>
  BY <1>2 DEF Open
<1>3. CASE Adopt \/ Edit \/ (\E s \in Remote : Advance(s)) \/ UNCHANGED linkVars
  BY <1>3 DEF Adopt, Edit, Advance, linkVars
<1>4. ASSUME NEW p \in Process,
             \/ add_link(p) \/ remove_link(p) \/ Mirror(p) \/ StageDatabase(p)
             \/ StageSettings(p) \/ Journal(p) \/ PromoteDatabase(p) \/ PromoteSettings(p)
             \/ Forget(p) \/ Resolved(p) \/ record_snapshots(p) \/ WriteStaged(p) \/ Rename(p)
             \/ Crash(p)
      PROVE  /\ doing'[q] \in Refreshing => doing[q] \in Refreshing
             /\ local'[q].resolved \subseteq local[q].resolved
  <2>1. Moves(p)
    BY <1>4, AskedElsewhere
  <2>2. QED BY <2>1 DEF Moves
<1>5. ASSUME NEW p \in Process, refresh_links(p)
      PROVE  /\ doing'[q] \in Refreshing => doing[q] \in Refreshing \/ refresh_links(q)
             /\ local'[q].resolved \subseteq local[q].resolved
  <2>1. /\ \A r \in Process \ {p} : UNCHANGED <<doing[r], local[r]>>
    BY <1>5, AskedStarts
  <2>2. local' = [local EXCEPT ![p].todo = disk.database] /\ local[p] \in Local
        /\ local \in [Process -> Local]
    BY <1>5 DEF refresh_links, LinksIInv, LinksTypeOK
  <2>3. local'[p].resolved = local[p].resolved
    BY <2>2 DEF Local
  <2>4. QED BY <1>5, <2>1, <2>3
<1>6. ASSUME NEW p \in Process, Resolve(p)
      PROVE  /\ doing'[q] \in Refreshing => doing[q] \in Refreshing
             /\ local'[q].resolved \subseteq local[q].resolved \/ Resolve(q)
  <2>1. /\ \A r \in Process \ {p} : UNCHANGED <<doing[r], local[r]>>
    BY <1>6, AskedAnswered
  <2>2. doing' = doing
    BY <1>6 DEF Resolve
  <2>3. QED BY <1>6, <2>1, <2>2
<1>7. QED BY <1>2, <1>3, <1>4, <1>5, <1>6 DEF LinksNext

LEMMA OneRefreshStep ==
  ASSUME RulesKept, OneRefreshAtATime, LinksIInv, \A p \in Process : AskedOnce(p), OneRefresh,
         [LinksNext]_linkVars
  PROVE  OneRefresh'
<1>1. ASSUME NEW p \in Process, refresh_links(p), NEW q \in Process \ {p}
      PROVE  doing'[q] \notin Refreshing
  <2>1. doing[q] # "resolve" /\ Alone(p)
    BY <1>1 DEF refresh_links, OneRefreshAtATime, MayStart, MayWrite
  <2>2. ~Writing(q)
    BY <2>1, OthersWait
  <2>3. doing[q] = "idle"
    BY <2>1, <2>2 DEF Writing
  <2>4. UNCHANGED doing[q]
    BY <1>1, AskedStarts
  <2>5. QED BY <2>3, <2>4 DEF Refreshing
<1>2. ASSUME NEW p \in Process, NEW q \in Process,
             doing'[p] \in Refreshing, doing'[q] \in Refreshing, p # q
      PROVE  FALSE
  <2>1. ~refresh_links(p) /\ ~refresh_links(q)
    BY <1>1, <1>2
  <2>2. doing[p] \in Refreshing /\ doing[q] \in Refreshing
    BY <1>2, <2>1, RefreshingStep
  <2>3. QED BY <1>2, <2>2 DEF OneRefresh
<1>3. QED BY <1>2 DEF OneRefresh

\* The refresh that records is the only one, and nobody else knows an answer.
LEMMA RenamesAlone ==
  ASSUME OneRefresh, NEW p \in Process, Rename(p), NEW q \in Process \ {p}, AskedOnce(q)
  PROVE  local[q].resolved = {}
<1>1. doing[p] \in Refreshing
  BY DEF Rename, Refreshing
<1>2. doing[q] \notin Refreshing
  BY <1>1 DEF OneRefresh
<1>3. QED BY <1>2 DEF AskedOnce

LEMMA CommitsStep ==
  ASSUME RulesKept, OneRefreshAtATime, LinksIInv, ReadInv, CommitsInv, [LinksNext]_linkVars
  PROVE  CommitsInv'
<1>1. \A p \in Process : AskedOnce(p)
  BY DEF ReadInv
<1>2. OneRefresh'
  BY <1>1, OneRefreshStep DEF CommitsInv
<1>3. \A s \in Remote : head[s] \in Nat /\ head'[s] \in Nat /\ head[s] <= head'[s]
  BY HeadStep
<1>4. ASSUME NEW p \in Process
      PROVE  local[p].resolved \in SUBSET Answer
             /\ \A r \in local[p].resolved : r.source \in Remote /\ r.commit \in Nat
  <2>1. local[p].resolved \in SUBSET Answer
    BY DEF LinksIInv, LinksTypeOK, Local
  <2>2. QED BY <2>1, LinksAssumption DEF Answer, Commits
<1>5. Document \in SettingsDocument /\ Document' \in SettingsDocument
  BY LinksInvStep DEF LinksIInv, LinksTypeOK, Document, Recovered, File
<1>6. \A i \in DOMAIN Document'.links.entries : Document'.links.entries[i].commit \in Nat
  <2>1. Document'.links.entries \in Seq(LinkSettings)
    BY <1>5 DEF SettingsDocument
  <2>2. \A i \in DOMAIN Document'.links.entries : Document'.links.entries[i] \in LinkSettings
    BY <2>1
  <2>3. QED BY <2>2, LinksAssumption DEF LinkSettings, Commits
<1>7. ASSUME NEW s \in Remote PROVE AtMost(Document'.links.entries, s, head[s])
  <2>1. AtMost(Document.links.entries, s, head[s])
    BY DEF CommitsInv
  <2>2. \A p \in Process : \A r \in local[p].resolved : r.source = s => r.commit <= head[s]
    BY DEF CommitsInv
  <2>3. QED BY <1>3, <2>1, <2>2, EntriesStep
<1>8. ASSUME NEW s \in Remote PROVE AtMost(Document'.links.entries, s, head'[s])
  BY <1>3, <1>6, <1>7 DEF AtMost
<1>9. ASSUME NEW q \in Process, NEW r \in local'[q].resolved
      PROVE  r.commit <= head'[r.source] /\ AtMost(Document'.links.entries, r.source, r.commit)
  <2>1. CASE r \in local[q].resolved
    <3>1. r.source \in Remote /\ r.commit \in Nat
      BY <1>4, <2>1
    <3>2. r.commit <= head[r.source] /\ AtMost(Document.links.entries, r.source, r.commit)
      BY <2>1 DEF CommitsInv
    <3>3. r.commit <= head'[r.source]
      BY <1>3, <3>1, <3>2
    <3>4. ASSUME NEW p \in Process, Rename(p) PROVE FALSE
      <4>1. CASE p = q
        <5>1. local'[q] = Blank
          BY <3>4, <4>1 DEF Rename, Finish, LinksIInv, LinksTypeOK
        <5>2. QED BY <5>1 DEF Blank
      <4>2. CASE p # q
        BY <1>1, <2>1, <3>4, <4>2, RenamesAlone DEF CommitsInv
      <4>3. QED BY <4>1, <4>2
    <3>5. AtMost(Document'.links.entries, r.source, r.commit)
      BY <3>1, <3>2, <3>4, EntriesStep
    <3>6. QED BY <3>3, <3>5
  <2>2. CASE r \notin local[q].resolved
    <3>1. Resolve(q)
      BY <1>1, <2>2, RefreshingStep
    <3> DEFINE s == Head(local[q].todo).source
    <3>2. PICK answer \in SUBSET {[source |-> t, commit |-> head[t]] : t \in {s} \cap Remote} :
            local' = [local EXCEPT ![q].todo = Tail(@), ![q].resolved = @ \union answer]
      BY <3>1 DEF Resolve
    <3>3. local \in [Process -> Local] /\ local[q] \in Local
      BY DEF LinksIInv, LinksTypeOK
    <3>4. local'[q].resolved = local[q].resolved \union answer
      BY <3>2, <3>3 DEF Local
    <3>5. r \in answer
      BY <2>2, <3>4
    <3>6. s \in Remote /\ r = [source |-> s, commit |-> head[s]]
      BY <3>2, <3>5
    <3> HIDE DEF s
    <3>7. r.source \in Remote /\ r.commit = head[r.source]
      BY <3>6
    <3>8. QED BY <1>3, <1>7, <3>7
  <2>3. QED BY <2>1, <2>2
<1>10. QED BY <1>2, <1>8, <1>9 DEF CommitsInv

LEMMA CommitsMoveOn ==
  ASSUME RulesKept, OneRefreshAtATime, LinksIInv, ReadInv, CommitsInv, [LinksNext]_linkVars,
         author' = "program", NEW s \in Declared'
  PROVE  CommitOf(Document, s) <= CommitOf(Document', s)
<1> USE DEF Document
<1>1. Document \in SettingsDocument /\ Document' \in SettingsDocument
  BY LinksInvStep DEF LinksIInv, LinksTypeOK, Recovered, File
<1> HIDE DEF Document
<1>2. CommitOf(Document, s) \in Nat /\ CommitOf(Document', s) \in Nat
  BY <1>1, CommitOfIs
<1>3. CASE s \notin Sources(Document.links.entries)
  BY <1>1, <1>2, <1>3, CommitOfIs
<1>4. CASE s \in Sources(Document.links.entries)
  <2>1. \/ Quiet /\ UNCHANGED settled
        \/ \E p \in Process : Journal(p) \/ Rename(p)
        \/ Adopt
        \/ Edit
    BY LinksInvStep
  <2>2. CASE Document' = Document
    BY <1>2, <2>2
  <2>3. ASSUME NEW p \in Process, Journal(p)
        PROVE  CommitOf(Document, s) <= CommitOf(Document', s)
    <3> DEFINE mirror == Mirrored(disk.settings, local[p].links)
    <3>1. /\ Recovered("database")' = local[p].links /\ Document = disk.settings
          /\ Document' = IF mirror_to_write(p) = Nothing THEN disk.settings
                         ELSE mirror_to_write(p)
      BY <2>3, JournalStep
    <3>2. /\ disk.settings \in SettingsDocument /\ local[p].links \in Seq(Link)
          /\ LinksDistinct(local[p].links)
      BY DEF LinksIInv, LinksTypeOK, Local, Own, LocalKnown
    <3>3. Document'.links.entries = mirror
      BY <3>1, <3>2, MirrorEntries
    <3>4. s \in DeclaredBy(local[p].links)
      BY <3>1 DEF Declared, DeclaredBy, ToSet
    <3>5. /\ s \in Sources(mirror)
          /\ mirror[Find(mirror, s)] =
               disk.settings.links.entries[Find(disk.settings.links.entries, s)]
      BY <1>4, <3>1, <3>2, <3>4, MirroredKeeps
    <3> HIDE DEF mirror
    <3>6. CommitOf(Document', s) = CommitOf(Document, s)
      BY <1>1, <1>4, <3>1, <3>3, <3>5, CommitOfIs
    <3>7. QED BY <1>2, <3>6
  <2>4. ASSUME NEW p \in Process, Rename(p)
        PROVE  CommitOf(Document, s) <= CommitOf(Document', s)
    <3> DEFINE entries == disk.settings.links.entries
               all == Recorded(entries, local[p].resolved)
               i == Find(entries, s)
               recorded == [disk.settings EXCEPT !.links =
                              [defined |-> TRUE, entries |-> Recorded(@.entries, local[p].resolved)]]
    <3>1. Document = disk.settings /\ Document' \in {disk.settings, recorded}
      BY <2>4, RenameStep
    <3>2. /\ disk.settings \in SettingsDocument /\ entries \in Seq(LinkSettings)
          /\ local[p].resolved \in SUBSET Answer /\ IsFiniteSet(local[p].resolved)
      BY DEF LinksIInv, LinksTypeOK, Local, Own, LocalKnown, SettingsDocument
    <3>3. recorded.links.entries = all
      BY <3>2 DEF SettingsDocument
    <3>4. s \in Sources(all) /\ Find(all, s) = i
      BY <1>4, <3>1, <3>2, RecordedKeeps
    <3>5. i \in DOMAIN entries /\ entries[i].source = s
      BY <1>4, <3>1, <3>2, FindIs
    <3>6. \/ all[i].commit = entries[i].commit
          \/ \E r \in local[p].resolved : r.source = entries[i].source /\ all[i].commit = r.commit
      BY <1>4, <3>1, <3>2, <3>5, RecordedKeeps
    <3> HIDE DEF i, all, recorded
    <3>7. \A r \in local[p].resolved : r.source = s => entries[i].commit <= r.commit
      BY <3>1, <3>5 DEF CommitsInv, AtMost
    <3>8. entries[i].commit = CommitOf(Document, s)
      BY <1>1, <1>4, <3>1, CommitOfIs DEF i
    <3>9. entries[i].commit <= all[i].commit
      BY <1>2, <3>5, <3>6, <3>7, <3>8
    <3>10. CASE Document' = recorded
      <4>1. CommitOf(Document', s) = all[i].commit
        BY <1>1, <3>3, <3>4, <3>10, CommitOfIs
      <4>2. QED BY <3>8, <3>9, <4>1
    <3>11. QED BY <2>2, <3>1, <3>10
  <2>5. CASE Quiet
    BY <2>2, <2>5 DEF Quiet, Document, File
  <2>6. CASE Adopt
    <3>1. /\ UNCHANGED <<staged, journal>>
          /\ \E i \in DOMAIN disk.database : disk' = [disk EXCEPT !.database = RemoveAt(@, i)]
      BY <2>6 DEF Adopt
    <3>2. disk'.settings = disk.settings
      BY <3>1 DEF LinksIInv, LinksTypeOK
    <3>3. QED BY <2>2, <3>1, <3>2 DEF Document, Recovered
  <2>7. ~Edit
    BY DEF Edit, Author
  <2>8. QED BY <2>1, <2>3, <2>4, <2>5, <2>6, <2>7
<1>5. QED BY <1>3, <1>4

\* SnapshotsAdvance, for every number of processes, links and commits: with one
\* refresh at a time, the commit of a link never goes back.
THEOREM SnapshotsAlwaysAdvance ==
  ASSUME RulesKept, OneRefreshAtATime
  PROVE  LinksSpec => SnapshotsAdvance
<1>1. LinksInit => CommitsInv
  <2> SUFFICES ASSUME LinksInit PROVE CommitsInv
    OBVIOUS
  <2>1. Document = Fresh
    BY DEF LinksInit, Document, Recovered
  <2>2. \A p \in Process : doing[p] = "idle" /\ local[p].resolved = {}
    BY DEF LinksInit, Blank
  <2>3. Document.links.entries = <<>>
    BY <2>1 DEF Fresh
  <2>4. QED BY <2>2, <2>3 DEF CommitsInv, OneRefresh, AtMost, Refreshing
<1>2. LinksIInv /\ ReadInv /\ CommitsInv /\ [LinksNext]_linkVars =>
        /\ CommitsInv'
        /\ [ author' = "program"
             => \A s \in Declared' : CommitOf(Document, s) <= CommitOf(Document, s)' ]_linkVars
  BY CommitsStep, CommitsMoveOn
<1>3. QED BY <1>1, <1>2, ReadInvariance, LinksInvariance, PTL DEF LinksSpec, SnapshotsAdvance

-----------------------------------------------------------------------------
(* What is effective, rendered *)

\* A default is a value of its own, and unlimited where null can say so; the
\* global document, when there is one, is one that open() accepts.
DefaultsAreValues ==
  /\ PlainField \intersect BudgetField = {}
  /\ \A f \in Field : Default[f] \notin {"absent", "null", "bad", Undefined}
  /\ \A f \in PlainField : Default[f] # "unlimited"

GlobalIsRead ==
  Global # Nothing =>
    /\ Accepted(Global)
    /\ \A f \in Field : Global.fields[f] \notin {"unlimited", Undefined}

\* The documents open() merges are one or two.
LEMMA DocumentsAre ==
  /\ DOMAIN Documents = IF Global = Nothing THEN {1} ELSE {1, 2}
  /\ Documents[1] = disk.settings
  /\ Global # Nothing => Documents[2] = Global
<1>1. CASE Global = Nothing
  <2>1. <<disk.settings>> \in Seq({disk.settings}) /\ <<>> \in Seq({disk.settings})
    OBVIOUS
  <2>2. /\ DOMAIN (<<disk.settings>> \o <<>>) = {1}
        /\ (<<disk.settings>> \o <<>>)[1] = disk.settings
    BY <2>1
  <2>3. QED BY <1>1, <2>2 DEF Documents
<1>2. CASE Global # Nothing
  <2>1. /\ DOMAIN (<<disk.settings>> \o <<Global>>) = {1, 2}
        /\ (<<disk.settings>> \o <<Global>>)[1] = disk.settings
        /\ (<<disk.settings>> \o <<Global>>)[2] = Global
    OBVIOUS
  <2>2. QED BY <1>2, <2>1 DEF Documents
<1>3. QED BY <1>1, <1>2

LEMMA LeastOfTwo ==
  ASSUME NEW set \in SUBSET {1, 2}, set # {}
  PROVE  Min(set) \in set /\ (1 \in set => Min(set) = 1)
<1>1. \A k \in set : k = 1 \/ k = 2
  OBVIOUS
<1>2. \E least \in set : \A k \in set : least <= k
  <2>1. CASE 1 \in set
    BY <1>1, <2>1
  <2>2. CASE 1 \notin set
    <3>1. PICK k \in set : TRUE
      OBVIOUS
    <3>2. k = 2 /\ \A j \in set : j = 2
      BY <1>1, <2>2
    <3>3. \A j \in set : k <= j
      BY <3>2
    <3>4. QED BY <3>3
  <2>3. QED BY <2>1, <2>2
<1>3. Min(set) \in set /\ \A k \in set : Min(set) <= k
  BY <1>2 DEF Min
<1>4. 1 \in set => Min(set) = 1
  <2>1. Min(set) = 1 \/ Min(set) = 2
    BY <1>1, <1>3
  <2>2. 1 \in set => Min(set) <= 1
    BY <1>3
  <2>3. ~(2 <= 1)
    OBVIOUS
  <2>4. QED BY <2>1, <2>2, <2>3
<1>5. QED BY <1>3, <1>4

\* to_json() writes every section, and null says unlimited where it may.
LEMMA RenderingKept ==
  ASSUME NEW documents,
         DOMAIN documents \in {{1}, {1, 2}},
         \A i \in DOMAIN documents :
           /\ Accepted(documents[i])
           /\ \A f \in Field : documents[i].fields[f] \notin {"unlimited", Undefined},
         DefaultsAreValues
  PROVE  LET effective == resolve(documents)
             rendered == to_json(effective)
         IN /\ Accepted(rendered)
            /\ resolve([documents EXCEPT ![1] = rendered]) = effective
<1> DEFINE effective == resolve(documents)
           rendered == to_json(effective)
           replaced == [documents EXCEPT ![1] = rendered]
<1>1. ASSUME NEW f \in Field
      PROVE  /\ effective.fields[f] \notin {"absent", "null", "bad", Undefined}
             /\ effective.fields[f] = "unlimited" => f \notin PlainField
  <2> DEFINE defining == {i \in DOMAIN documents : optional(documents[i], f) # Undefined}
  <2>1. effective.fields[f] = Picked(documents, f)
    BY DEF resolve
  <2>2. CASE defining = {}
    <3>1. Picked(documents, f) = Default[f]
      BY <2>2 DEF Picked
    <3>2. QED BY <2>1, <3>1 DEF DefaultsAreValues
  <2>3. CASE defining # {}
    <3>1. Min(defining) \in defining
      BY <2>3, LeastOfTwo
    <3>2. PICK i \in DOMAIN documents :
            i = Min(defining) /\ optional(documents[i], f) # Undefined
      BY <3>1
    <3>3. Picked(documents, f) = optional(documents[i], f)
      BY <2>3, <3>2 DEF Picked
    <3>4. documents[i].fields[f] \notin {"bad", "unlimited", Undefined}
      BY <3>2 DEF Accepted
    <3>5. /\ optional(documents[i], f) \notin {"absent", "null", "bad"}
          /\ optional(documents[i], f) = "unlimited" => f \notin PlainField
      BY <3>4 DEF optional, Undefined
    <3>6. QED BY <2>1, <3>2, <3>3, <3>5
  <2>4. QED BY <2>2, <2>3
<1>2. read_links(effective.links)
  <2> DEFINE defining == {i \in DOMAIN documents : documents[i].links.defined}
  <2>1. effective.links =
          IF defining = {} THEN <<>> ELSE documents[Min(defining)].links.entries
    BY DEF resolve
  <2>2. CASE defining = {}
    BY <2>1, <2>2 DEF read_links
  <2>3. CASE defining # {}
    <3>1. Min(defining) \in defining
      BY <2>3, LeastOfTwo
    <3>2. QED BY <2>1, <2>3, <3>1 DEF Accepted
  <2>4. QED BY <2>2, <2>3
<1>3. /\ rendered.version = SupportedVersion
      /\ \A f \in Field : rendered.fields[f] =
           IF effective.fields[f] = "unlimited" THEN "null" ELSE effective.fields[f]
      /\ rendered.links.defined /\ rendered.links.entries = effective.links
  BY DEF to_json
<1> HIDE DEF rendered
<1>4. Accepted(rendered)
  BY <1>1, <1>2, <1>3 DEF Accepted
<1>5. DOMAIN replaced = DOMAIN documents /\ replaced[1] = rendered /\ 1 \in DOMAIN replaced
  OBVIOUS
<1> HIDE DEF replaced
<1>6. ASSUME NEW f \in Field
      PROVE  Picked(replaced, f) = effective.fields[f]
  <2> DEFINE defining == {i \in DOMAIN replaced : optional(replaced[i], f) # Undefined}
  <2>1. optional(rendered, f) = effective.fields[f] /\ effective.fields[f] # Undefined
    BY <1>1, <1>3 DEF optional, Undefined
  <2>2. 1 \in defining /\ defining \subseteq {1, 2}
    BY <1>5, <2>1
  <2>3. Min(defining) = 1
    BY <2>2, LeastOfTwo
  <2>4. QED BY <1>5, <2>1, <2>2, <2>3 DEF Picked
<1>7. resolve(replaced).links = effective.links
  <2> DEFINE defining == {i \in DOMAIN replaced : replaced[i].links.defined}
  <2>1. 1 \in defining /\ defining \subseteq {1, 2}
    BY <1>3, <1>5
  <2>2. Min(defining) = 1
    BY <2>1, LeastOfTwo
  <2>3. QED BY <1>3, <1>5, <2>1, <2>2 DEF resolve
<1>8. resolve(replaced) = effective
  <2>1. resolve(replaced).fields = [f \in Field |-> Picked(replaced, f)]
    BY DEF resolve
  <2>2. effective.fields = [f \in Field |-> Picked(documents, f)]
    BY DEF resolve
  <2>3. \A f \in Field : Picked(replaced, f) = Picked(documents, f)
    BY <1>6, <2>2
  <2>4. resolve(replaced).fields = effective.fields
    BY <2>1, <2>2, <2>3
  <2>5. /\ resolve(replaced) =
             [fields |-> resolve(replaced).fields, links |-> resolve(replaced).links]
        /\ effective = [fields |-> effective.fields, links |-> effective.links]
    BY DEF resolve
  <2>6. QED BY <1>7, <2>4, <2>5
<1>9. QED BY <1>4, <1>8 DEF rendered, replaced

\* RenderingIsStable, for every set of fields, default and global document: the
\* effective settings written out as the project's own document are the effective
\* settings again.
THEOREM RenderingStaysStable ==
  ASSUME RulesKept, DefaultsAreValues, GlobalIsRead
  PROVE  LinksSpec => []RenderingIsStable
<1>1. ASSUME LinksIInv, Readable(disk.settings)
      PROVE  LET effective == resolve(Documents)
                 rendered == to_json(effective)
             IN /\ Accepted(rendered)
                /\ resolve([Documents EXCEPT ![1] = rendered]) = effective
  <2>1. disk.settings \in SettingsDocument
    BY <1>1 DEF LinksIInv, LinksTypeOK
  <2>2. \A f \in Field : disk.settings.fields[f] \notin {"unlimited", Undefined}
    BY <2>1 DEF SettingsDocument, FieldValue, Undefined
  <2>3. Accepted(disk.settings)
    BY <1>1 DEF Readable
  <2>4. \A i \in DOMAIN Documents :
          /\ Accepted(Documents[i])
          /\ \A f \in Field : Documents[i].fields[f] \notin {"unlimited", Undefined}
    BY <2>2, <2>3, DocumentsAre DEF GlobalIsRead
  <2>5. DOMAIN Documents \in {{1}, {1, 2}}
    BY DocumentsAre
  <2>6. QED BY <2>4, <2>5, RenderingKept
<1>2. LinksIInv => RenderingIsStable
  BY <1>1 DEF RenderingIsStable
<1>3. QED BY <1>2, LinksInvariance, PTL

=============================================================================
