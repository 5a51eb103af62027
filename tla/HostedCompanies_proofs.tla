----------------------- MODULE HostedCompanies_proofs ------------------------
(* Theorems about a company on a server: the requests that people here ask,     *)
(* answer and resolve (CloudQuestions), for any sessions, ids and questions,    *)
(* and any number of sign-ins, stops, lost answers and other people's replies;  *)
(* the commands and the shared file (RemoteBooks), for any sessions and         *)
(* commands, and any number of receipts, edits and writes of other machines;    *)
(* and the move of a company there (CompanyAdoption), for any settings,         *)
(* documents, keys and clients, and any number of writes, stops and repeats.    *)
EXTENDS CloudQuestions, RemoteBooks, CompanyAdoption, SequenceTheorems, TLAPS

-----------------------------------------------------------------------------
(* QUESTIONS *)

Words == Texts \cup {i.text : i \in Intents}
Question == [text: Words, open: BOOLEAN, replies: Seq(Words)]
Ids == Nat \X Requests
Receipt == [intent: Intents, baseline: Seq(Question), mark: Nat,
            status: {"pending", "received", "rejected", "uncertain"}, shown: Nat \cup {Nothing}]
Arrival == [by: Ids, question: Nat, over: Seq(Words)]

\* What a session may be doing.
Asking ==
  [at: {"locked"}, id: Ids, intent: Intents]
  \cup [at: {"read"}, id: Ids, intent: Intents, baseline: Seq(Question), mark: Nat]
  \cup [at: {"fenced", "refused"}, id: Ids]
  \cup [at: {"sent"}, id: Ids, question: Nat]

QuestionsTypeOK ==
  /\ threads \in Seq(Question) /\ effects \in Seq(Arrival)
  /\ DOMAIN notices \subseteq Ids /\ notices \in [DOMAIN notices -> Receipt]
  /\ asking \in [Sessions -> Asking \cup {Nothing}]
  /\ grant \in Nat /\ others \in Nat

\* Only the session that holds the lock is at work.
OneAtWork == \A p \in Sessions : asking[p] # Nothing => lock = p

\* Replies are only added.
Extends(old, now) == Len(old) <= Len(now) /\ \A k \in 1..Len(old) : now[k] = old[k]

\* What a request read before it is sent is still there.
Read(intent, baseline, mark, now) ==
  /\ intent.does # "ask" => intent.question \in DOMAIN baseline /\ intent.question \in DOMAIN now
  /\ intent.does = "resolve" =>
       /\ mark = Len(baseline[intent.question].replies)
       /\ Extends(baseline[intent.question].replies, now[intent.question].replies)

\* What each phase has done already.
Unsent(id) == id \in DOMAIN notices /\ notices[id].status = "pending" /\ By(id) = {}
AtWork ==
  \A p \in Sessions :
    /\ Is(p, "read") => /\ asking[p].id \notin DOMAIN notices
                        /\ Read(asking[p].intent, asking[p].baseline, asking[p].mark, threads)
    /\ Is(p, "fenced") \/ Is(p, "refused") => Unsent(asking[p].id)
    /\ Is(p, "sent") => \E k \in By(asking[p].id) : effects[k].question = asking[p].question

ReceiptsRead ==
  \A id \in DOMAIN notices : Read(notices[id].intent, notices[id].baseline, notices[id].mark, threads)

QuestionsInv == QuestionsTypeOK /\ OneAtWork /\ AtWork /\ ReceiptsRead /\ OutcomeAsSaid

-----------------------------------------------------------------------------
(* Questions on the server only grow *)

Grows(old, new) ==
  \A q \in DOMAIN old : q \in DOMAIN new /\ Extends(old[q].replies, new[q].replies)

\* The replies of a question.
LEMMA RepliesOf ==
  ASSUME NEW asked \in Seq(Question), NEW q \in DOMAIN asked
  PROVE  asked[q] \in Question /\ q \in 1..Len(asked) /\ asked[q].replies \in Seq(Words)
<1>1. q \in 1..Len(asked)
  BY LenProperties
<1>2. asked[q] \in Question
  BY <1>1, ElementOfSeq
<1> QED BY <1>1, <1>2 DEF Question

\* Replies that extend replies that extend others extend those.
LEMMA ExtendsFurther ==
  ASSUME NEW a \in Seq(Words), NEW b \in Seq(Words), NEW c \in Seq(Words), Extends(a, b), Extends(b, c)
  PROVE  Extends(a, c)
<1>1. Len(a) \in Nat /\ Len(b) \in Nat /\ Len(c) \in Nat
  BY LenProperties
<1>2. Len(a) <= Len(c)
  BY <1>1 DEF Extends
<1>3. ASSUME NEW k \in 1..Len(a) PROVE c[k] = a[k]
  <2>1. k \in 1..Len(b)
    BY <1>1 DEF Extends
  <2> QED BY <2>1 DEF Extends
<1> QED BY <1>2, <1>3 DEF Extends

\* What was read stays read when questions grow.
LEMMA ReadStays ==
  ASSUME NEW old \in Seq(Question), NEW new \in Seq(Question), Grows(old, new),
         NEW intent, NEW baseline \in Seq(Question), NEW mark, Read(intent, baseline, mark, old)
  PROVE  Read(intent, baseline, mark, new)
<1>1. CASE intent.does = "resolve"
  <2> DEFINE q == intent.question
  <2>1. q \in DOMAIN baseline /\ q \in DOMAIN old /\ q \in DOMAIN new
    BY <1>1 DEF Read, Grows
  <2>2. /\ baseline[q].replies \in Seq(Words) /\ old[q].replies \in Seq(Words) /\ new[q].replies \in Seq(Words)
    BY <2>1, RepliesOf
  <2>3. Extends(baseline[q].replies, old[q].replies) /\ Extends(old[q].replies, new[q].replies)
    BY <1>1, <2>1 DEF Read, Grows
  <2> HIDE DEF q
  <2>4. Extends(baseline[q].replies, new[q].replies)
    BY <2>2, <2>3, ExtendsFurther
  <2> QED BY <1>1, <2>1, <2>4 DEF Read, q
<1>2. CASE intent.does # "resolve"
  BY <1>2 DEF Read, Grows
<1> QED BY <1>1, <1>2

\* A new question.
LEMMA AskGrows ==
  ASSUME threads \in Seq(Question), NEW t \in Words
  PROVE  LET new == Append(threads, Thread(t)) IN new \in Seq(Question) /\ Grows(threads, new)
<1>1. Thread(t) \in Question
  BY DEF Thread, Question
<1>2. \A q \in DOMAIN threads : threads[q].replies \in Seq(Words)
  BY RepliesOf
<1> DEFINE new == Append(threads, Thread(t))
<1>3. new \in Seq(Question) /\ \A q \in DOMAIN threads : q \in DOMAIN new /\ new[q] = threads[q]
  BY <1>1
<1> HIDE DEF new
<1>4. Grows(threads, new)
  BY <1>2, <1>3 DEF Grows, Extends
<1> QED BY <1>3, <1>4 DEF new

\* A reply.
LEMMA ReplyGrows ==
  ASSUME threads \in Seq(Question), NEW q \in DOMAIN threads, NEW t \in Words
  PROVE  LET new == [threads EXCEPT ![q].replies = Append(@, t)]
         IN new \in Seq(Question) /\ Grows(threads, new)
<1> DEFINE more == Append(threads[q].replies, t)
           asked == [threads[q] EXCEPT !.replies = more]
           new == [threads EXCEPT ![q] = asked]
<1>1. threads[q] \in Question /\ q \in 1..Len(threads)
  BY RepliesOf
<1>2. \A i \in DOMAIN threads : threads[i].replies \in Seq(Words)
  BY RepliesOf
<1>3. more \in Seq(Words) /\ Extends(threads[q].replies, more)
  BY <1>1 DEF Question, Extends
<1> HIDE DEF more
<1>4. asked \in Question /\ asked.replies = more
  BY <1>1, <1>3 DEF Question
<1> HIDE DEF asked
<1>5. /\ new \in Seq(Question) /\ DOMAIN new = DOMAIN threads
      /\ \A i \in DOMAIN threads : new[i] = IF i = q THEN asked ELSE threads[i]
  BY <1>1, <1>4, ExceptSeq, LenProperties
<1> HIDE DEF new
<1>6. Grows(threads, new)
  <2>1. \A i \in DOMAIN threads : Extends(threads[i].replies, threads[i].replies)
    BY <1>2, LenProperties DEF Extends
  <2> QED BY <1>3, <1>4, <1>5, <2>1 DEF Grows
<1>7. new = [threads EXCEPT ![q].replies = Append(@, t)]
  BY DEF new, asked, more
<1> QED BY <1>5, <1>6, <1>7

\* A resolution.
LEMMA ResolveGrows ==
  ASSUME threads \in Seq(Question), NEW q \in DOMAIN threads
  PROVE  LET new == [threads EXCEPT ![q].open = FALSE]
         IN new \in Seq(Question) /\ Grows(threads, new)
<1> DEFINE closed == [threads[q] EXCEPT !.open = FALSE]
           new == [threads EXCEPT ![q] = closed]
<1>1. threads[q] \in Question /\ q \in 1..Len(threads)
  BY RepliesOf
<1>2. \A i \in DOMAIN threads : threads[i].replies \in Seq(Words)
  BY RepliesOf
<1>3. closed \in Question /\ closed.replies = threads[q].replies
  BY <1>1 DEF Question
<1> HIDE DEF closed
<1>4. /\ new \in Seq(Question) /\ DOMAIN new = DOMAIN threads
      /\ \A i \in DOMAIN threads : new[i] = IF i = q THEN closed ELSE threads[i]
  BY <1>1, <1>3, ExceptSeq, LenProperties
<1> HIDE DEF new
<1>5. Grows(threads, new)
  BY <1>2, <1>3, <1>4 DEF Grows, Extends
<1>6. new = [threads EXCEPT ![q].open = FALSE]
  BY DEF new, closed
<1> QED BY <1>4, <1>5, <1>6

-----------------------------------------------------------------------------
(* The parts of a step *)

\* What is read stays read in the step.
LEMMA ReadAfter ==
  ASSUME QuestionsInv, threads' \in Seq(Question), Grows(threads, threads')
  PROVE  /\ \A p \in Sessions : Is(p, "read") =>
              Read(asking[p].intent, asking[p].baseline, asking[p].mark, threads')
         /\ \A id \in DOMAIN notices :
              Read(notices[id].intent, notices[id].baseline, notices[id].mark, threads')
<1>1. threads \in Seq(Question)
  BY DEF QuestionsInv, QuestionsTypeOK
<1>2. ASSUME NEW p \in Sessions, Is(p, "read")
      PROVE  Read(asking[p].intent, asking[p].baseline, asking[p].mark, threads')
  <2>1. asking[p].baseline \in Seq(Question)
    BY <1>2 DEF QuestionsInv, QuestionsTypeOK, Is, Asking
  <2>2. Read(asking[p].intent, asking[p].baseline, asking[p].mark, threads)
    BY <1>2 DEF QuestionsInv, AtWork
  <2> QED BY <1>1, <2>1, <2>2, ReadStays
<1>3. ASSUME NEW id \in DOMAIN notices
      PROVE  Read(notices[id].intent, notices[id].baseline, notices[id].mark, threads')
  <2>1. notices[id].baseline \in Seq(Question)
    BY DEF QuestionsInv, QuestionsTypeOK, Receipt
  <2>2. Read(notices[id].intent, notices[id].baseline, notices[id].mark, threads)
    BY DEF QuestionsInv, ReceiptsRead
  <2> QED BY <1>1, <2>1, <2>2, ReadStays
<1> QED BY <1>2, <1>3

\* A session at work is the only one.
LEMMA Alone ==
  ASSUME QuestionsInv, NEW p \in Sessions, lock \in {p, Nothing}, NEW s, asking' = [asking EXCEPT ![p] = s]
  PROVE  asking'[p] = s /\ \A q \in Sessions \ {p} : asking[q] = Nothing /\ asking'[q] = Nothing
BY QuestionsAssumption DEF QuestionsInv, QuestionsTypeOK, OneAtWork

\* What its phase says of the request.
LEMMA PhaseFacts ==
  ASSUME QuestionsInv, NEW p \in Sessions, asking[p] # Nothing
  PROVE  /\ asking[p].id \in Ids /\ lock = p
         /\ Is(p, "fenced") \/ Is(p, "refused") =>
              /\ asking[p].id \in DOMAIN notices /\ By(asking[p].id) = {}
              /\ notices[asking[p].id].status = "pending"
         /\ Is(p, "sent") => /\ asking[p].question \in Nat /\ asking[p].id \in DOMAIN notices
                            /\ \E k \in By(asking[p].id) : effects[k].question = asking[p].question
<1>1. asking[p] \in Asking /\ lock = p
  BY DEF QuestionsInv, QuestionsTypeOK, OneAtWork
<1>2. asking[p].id \in Ids
  BY <1>1 DEF Asking
<1>3. Is(p, "sent") => asking[p].question \in Nat
  BY <1>1 DEF Asking, Is
<1>4. ASSUME Is(p, "sent")
      PROVE  /\ asking[p].id \in DOMAIN notices
             /\ \E k \in By(asking[p].id) : effects[k].question = asking[p].question
  BY <1>4 DEF QuestionsInv, AtWork, OutcomeAsSaid, By
<1> QED BY <1>1, <1>2, <1>3, <1>4 DEF QuestionsInv, AtWork, Unsent

\* A step that only moves a session on, or ends it.
LEMMA Moved ==
  ASSUME QuestionsInv, NEW p \in Sessions, lock \in {p, Nothing}, NEW s \in Asking \cup {Nothing},
         asking' = [asking EXCEPT ![p] = s], s # Nothing => lock' = p,
         UNCHANGED <<threads, effects, notices, grant, others>>,
         s # Nothing => /\ s.at \in {"locked", "read"}
                        /\ s.at = "read" => s.id \notin DOMAIN notices /\ Read(s.intent, s.baseline, s.mark, threads)
  PROVE  QuestionsInv'
<1>1. asking'[p] = s /\ \A q \in Sessions \ {p} : asking[q] = Nothing /\ asking'[q] = Nothing
  BY Alone
<1>2. QuestionsTypeOK'
  BY DEF QuestionsInv, QuestionsTypeOK
<1>3. OneAtWork'
  BY <1>1 DEF OneAtWork
<1>4. AtWork'
  BY <1>1 DEF AtWork, Is
<1>5. ReceiptsRead' /\ OutcomeAsSaid'
  BY DEF QuestionsInv, ReceiptsRead, OutcomeAsSaid, By
<1> QED BY <1>2, <1>3, <1>4, <1>5 DEF QuestionsInv

-----------------------------------------------------------------------------
(* The steps *)

\* Other people, and a new sign-in.
LEMMA OutsideSteps ==
  ASSUME QuestionsInv, SomebodyElse \/ SignIn
  PROVE  QuestionsInv'
<1>1. CASE SignIn
  <2>1. \A p \in Sessions : asking[p] = Nothing
    BY <1>1, QuestionsAssumption DEF SignIn, QuestionsInv, OneAtWork
  <2> QED BY <1>1, <2>1 DEF SignIn, QuestionsInv, QuestionsTypeOK, OneAtWork, AtWork, Is, ReceiptsRead, OutcomeAsSaid, By
<1>2. CASE SomebodyElse
  <2>1. others' \in Nat /\ UNCHANGED <<effects, notices, asking, lock, grant>>
    BY <1>2 DEF SomebodyElse, QuestionsInv, QuestionsTypeOK
  <2>2. threads \in Seq(Question) /\ Texts \subseteq Words
    BY DEF QuestionsInv, QuestionsTypeOK, Words
  <2>3. threads' \in Seq(Question) /\ Grows(threads, threads')
    <3>1. ASSUME NEW t \in Texts, threads' = Append(threads, Thread(t))
          PROVE  threads' \in Seq(Question) /\ Grows(threads, threads')
      BY <2>2, <3>1, AskGrows
    <3>2. ASSUME NEW q \in DOMAIN threads, NEW t \in Texts,
                 threads' = [threads EXCEPT ![q].replies = Append(@, t)]
          PROVE  threads' \in Seq(Question) /\ Grows(threads, threads')
      BY <2>2, <3>2, ReplyGrows
    <3>3. ASSUME NEW q \in DOMAIN threads, threads' = [threads EXCEPT ![q].open = FALSE]
          PROVE  threads' \in Seq(Question) /\ Grows(threads, threads')
      BY <2>2, <3>3, ResolveGrows
    <3> QED BY <1>2, <3>1, <3>2, <3>3 DEF SomebodyElse
  <2>4. ReceiptsRead'
    BY <2>1, <2>3, ReadAfter DEF ReceiptsRead
  <2>5. AtWork'
    BY <2>1, <2>3, ReadAfter DEF QuestionsInv, AtWork, Is, Unsent, By
  <2> QED BY <2>1, <2>3, <2>4, <2>5 DEF QuestionsInv, QuestionsTypeOK, OneAtWork, OutcomeAsSaid, By
<1> QED BY <1>1, <1>2

\* A session takes the lock, reads what is known, and looks at the questions.
LEMMA LookSteps ==
  ASSUME QuestionsInv, NEW p \in Sessions,
         \/ \E request \in Requests, intent \in Intents : Open(p, request, intent)
         \/ ReadBack(p) \/ Look(p) \/ Crash(p)
  PROVE  QuestionsInv'
<1>1. ASSUME NEW request \in Requests, NEW intent \in Intents, Open(p, request, intent)
      PROVE  QuestionsInv'
  <2> DEFINE s == [at |-> "locked", id |-> Id(request), intent |-> intent]
  <2>1. s \in Asking /\ s.at = "locked"
    BY DEF Asking, Id, QuestionsInv, QuestionsTypeOK, Ids
  <2>2. /\ lock = Nothing /\ lock' = p /\ asking' = [asking EXCEPT ![p] = s]
        /\ UNCHANGED <<threads, effects, notices, grant, others>>
    BY <1>1 DEF Open, Moves
  <2> HIDE DEF s
  <2> QED BY <2>1, <2>2, Moved
<1>2. ASSUME Stops(p), asking[p] # Nothing, UNCHANGED <<threads, effects, notices, grant, others>>
      PROVE  QuestionsInv'
  <2>1. lock = p /\ asking' = [asking EXCEPT ![p] = Nothing]
    BY <1>2, PhaseFacts DEF Stops, Moves
  <2> QED BY <1>2, <2>1, Moved
<1>3. CASE ReadBack(p) \/ Crash(p)
  BY <1>2, <1>3 DEF ReadBack, Crash, Is
<1>4. CASE Look(p)
  <2> DEFINE i == asking[p].intent
             s == [at |-> "read", id |-> asking[p].id, intent |-> i, baseline |-> threads, mark |-> Mark(i)]
  <2>1. Is(p, "locked") /\ asking[p] # Nothing /\ asking[p].id \notin DOMAIN notices
        /\ UNCHANGED <<threads, effects, notices, grant, others>>
    BY <1>4 DEF Look, Is, Known
  <2>2. lock = p /\ asking[p].id \in Ids /\ i \in Intents /\ threads \in Seq(Question)
    BY <2>1, PhaseFacts DEF QuestionsInv, QuestionsTypeOK, Is, Asking
  <2>3. CASE ~Visible(i)
    BY <1>2, <1>4, <2>1, <2>3 DEF Look
  <2>4. CASE Visible(i)
    <3>1. asking' = [asking EXCEPT ![p] = s] /\ lock' = lock
      BY <1>4, <2>4 DEF Look, Moves
    <3>2. i.does # "ask" => i.question \in DOMAIN threads
      BY <2>4 DEF Visible
    <3>3. i.does = "resolve" => /\ threads[i.question].replies \in Seq(Words)
                                /\ Mark(i) = Len(threads[i.question].replies)
      BY <2>2, <3>2, RepliesOf DEF Mark
    <3>4. Mark(i) \in Nat
      BY <3>3, LenProperties DEF Mark
    <3>5. Read(i, threads, Mark(i), threads)
      BY <3>2, <3>3, LenProperties DEF Read, Extends
    <3>6. s \in Asking /\ s.at = "read" /\ s.id = asking[p].id /\ s.intent = i /\ s.baseline = threads /\ s.mark = Mark(i)
      <4> HIDE DEF i
      <4> QED BY <2>2, <3>4 DEF Asking
    <3> HIDE DEF s, i
    <3> QED BY <2>1, <2>2, <3>1, <3>5, <3>6, Moved
  <2> QED BY <2>3, <2>4
<1> QED BY <1>1, <1>3, <1>4

\* The receipt is written before the request is sent.
LEMMA FenceStep ==
  ASSUME QuestionsInv, NEW p \in Sessions, Fence(p)
  PROVE  QuestionsInv'
<1> DEFINE s == asking[p]
           id == s.id
           r == [intent |-> s.intent, baseline |-> s.baseline, mark |-> s.mark, status |-> "pending", shown |-> Nothing]
<1>1. /\ Is(p, "read") /\ asking[p] # Nothing /\ notices' = [i \in DOMAIN notices \cup {id} |-> IF i = id THEN r ELSE notices[i]]
      /\ asking' = [asking EXCEPT ![p] = [at |-> "fenced", id |-> id]]
      /\ UNCHANGED <<threads, effects, lock, grant, others>>
  BY DEF Fence, Moves, Is
<1>2. /\ lock = p /\ s \in Asking /\ s.at = "read" /\ id \in Ids /\ s.intent \in Intents
      /\ s.baseline \in Seq(Question) /\ s.mark \in Nat
  BY <1>1, PhaseFacts DEF QuestionsInv, QuestionsTypeOK, Is, Asking
<1>3. r \in Receipt /\ r.intent = s.intent /\ r.baseline = s.baseline /\ r.mark = s.mark /\ r.status = "pending"
  <2> HIDE DEF s
  <2> QED BY <1>2 DEF Receipt
<1>4. id \notin DOMAIN notices /\ Read(r.intent, r.baseline, r.mark, threads)
  BY <1>1, <1>3 DEF QuestionsInv, AtWork
<1>5. asking'[p] = [at |-> "fenced", id |-> id] /\ \A q \in Sessions \ {p} : asking[q] = Nothing /\ asking'[q] = Nothing
  BY <1>1, <1>2, Alone
<1>6. PICK i : i = id
  OBVIOUS
<1> HIDE DEF r, id, s
<1>7. /\ DOMAIN notices' = DOMAIN notices \cup {i} /\ notices'[i] = r
      /\ \A j \in DOMAIN notices : notices'[j] = notices[j] /\ j # i
  BY <1>1, <1>4, <1>6
<1>8. QuestionsTypeOK'
  <2>1. notices' \in [DOMAIN notices' -> Receipt] /\ DOMAIN notices' \subseteq Ids
    BY <1>1, <1>2, <1>3, <1>6 DEF QuestionsInv, QuestionsTypeOK
  <2>2. asking' \in [Sessions -> Asking \cup {Nothing}]
    BY <1>1, <1>2 DEF QuestionsInv, QuestionsTypeOK, Asking
  <2> QED BY <1>1, <2>1, <2>2 DEF QuestionsInv, QuestionsTypeOK
<1>9. OneAtWork'
  BY <1>1, <1>2, <1>5 DEF OneAtWork
<1>10. By(i) = {} /\ \A j : By(j)' = By(j)
  BY <1>1, <1>4, <1>6 DEF By, QuestionsInv, OutcomeAsSaid
<1>11. AtWork'
  BY <1>3, <1>5, <1>6, <1>7, <1>10 DEF AtWork, Is, Unsent
<1>12. ReceiptsRead'
  <2>1. \A j \in DOMAIN notices : Read(notices'[j].intent, notices'[j].baseline, notices'[j].mark, threads)
    BY <1>7 DEF QuestionsInv, ReceiptsRead
  <2>2. Read(notices'[i].intent, notices'[i].baseline, notices'[i].mark, threads)
    <3>1. notices'[i] = r
      BY <1>7, Zenon
    <3> QED BY <1>4, <3>1
  <2> QED BY <1>1, <1>7, <2>1, <2>2 DEF ReceiptsRead
<1>13. OutcomeAsSaid'
  <2>1. ASSUME NEW k \in DOMAIN effects
        PROVE  /\ effects[k].by \in DOMAIN notices' /\ By(effects[k].by)' = {k}
               /\ notices'[effects[k].by].intent.does = "resolve" =>
                    effects[k].over = notices'[effects[k].by].baseline[notices'[effects[k].by].intent.question].replies
    <3> DEFINE by == effects[k].by
    <3>1. /\ by \in DOMAIN notices /\ By(by) = {k}
          /\ notices[by].intent.does = "resolve" =>
               effects[k].over = notices[by].baseline[notices[by].intent.question].replies
      BY DEF QuestionsInv, OutcomeAsSaid
    <3>2. notices'[by] = notices[by] /\ by \in DOMAIN notices' /\ By(by)' = By(by)
      <4>1. by \in DOMAIN notices' /\ notices'[by] = notices[by]
        BY <1>7, <3>1
      <4>2. effects' = effects
        BY <1>1
      <4> QED BY <1>10, <4>1, <4>2
    <3> HIDE DEF by
    <3>3. notices'[by].intent.does = "resolve" =>
            effects[k].over = notices'[by].baseline[notices'[by].intent.question].replies
      BY <3>1, <3>2
    <3>4. By(effects[k].by)' = {k}
      BY <3>1, <3>2 DEF by
    <3> QED BY <3>1, <3>2, <3>3, <3>4 DEF by
  <2>2. ASSUME NEW j \in DOMAIN notices'
        PROVE  /\ notices'[j].status = "received" => \E k \in By(j) : effects[k].question = notices'[j].shown
               /\ notices'[j].status = "rejected" => By(j) = {}
    <3>1. CASE j = i
      BY <1>3, <1>7, <3>1
    <3>2. CASE j # i
      BY <1>7, <3>2 DEF QuestionsInv, OutcomeAsSaid
    <3> QED BY <3>1, <3>2
  <2> QED BY <1>1, <1>10, <2>1, <2>2, ZenonT(30) DEF OutcomeAsSaid
<1> QED BY <1>8, <1>9, <1>11, <1>12, <1>13 DEF QuestionsInv

\* The one request: refused, or done on the server.
LEMMA PostStep ==
  ASSUME QuestionsInv, NEW p \in Sessions, PostQuestion(p)
  PROVE  QuestionsInv'
<1>0. PICK id : id = asking[p].id
  OBVIOUS
<1> DEFINE r == notices[id]
           q == Lands(r)
           over == IF r.intent.does = "resolve" THEN threads[q].replies ELSE <<>>
           e == [by |-> id, question |-> q, over |-> over]
<1>1. /\ Is(p, "fenced") /\ asking[p] # Nothing /\ UNCHANGED <<notices, lock, grant, others>>
  BY DEF PostQuestion, Is
<1>2. /\ lock = p /\ id \in Ids /\ id \in DOMAIN notices /\ By(id) = {} /\ r.status = "pending"
  BY <1>0, <1>1, PhaseFacts
<1>3. /\ r \in Receipt /\ r.intent \in Intents /\ Read(r.intent, r.baseline, r.mark, threads)
      /\ threads \in Seq(Question) /\ effects \in Seq(Arrival) /\ r.baseline \in Seq(Question)
  BY <1>2 DEF QuestionsInv, QuestionsTypeOK, Receipt, ReceiptsRead
<1>4. /\ r.intent.text \in Words /\ r.intent.does \in {"ask", "reply", "resolve"}
      /\ r.intent.does # "ask" => r.intent.question \in DOMAIN threads
  BY <1>3, QuestionsAssumption DEF Words, Read
<1>5. CASE Refused(r)
  <2> DEFINE s == [at |-> "refused", id |-> id]
  <2>1. asking' = [asking EXCEPT ![p] = s] /\ UNCHANGED <<threads, effects>>
    BY <1>0, <1>5 DEF PostQuestion, Moves
  <2>2. asking'[p] = s /\ \A o \in Sessions \ {p} : asking[o] = Nothing /\ asking'[o] = Nothing
    BY <1>2, <2>1, Alone
  <2>3. s \in Asking /\ s.at = "refused" /\ s.id = id
    BY <1>2 DEF Asking
  <2> HIDE DEF s
  <2>4. QuestionsTypeOK' /\ OneAtWork'
    BY <1>1, <1>2, <2>1, <2>2, <2>3 DEF QuestionsInv, QuestionsTypeOK, OneAtWork
  <2>5. AtWork'
    BY <1>1, <1>2, <2>1, <2>2, <2>3 DEF AtWork, Is, Unsent, By
  <2>6. ReceiptsRead' /\ OutcomeAsSaid'
    BY <1>1, <2>1 DEF QuestionsInv, ReceiptsRead, OutcomeAsSaid, By
  <2> QED BY <2>4, <2>5, <2>6 DEF QuestionsInv
<1>6. CASE ~Refused(r)
  <2> DEFINE s == [at |-> "sent", id |-> id, question |-> q]
  <2>1. /\ asking' = [asking EXCEPT ![p] = s] /\ threads' = Effect(r) /\ effects' = Append(effects, e)
    BY <1>0, <1>6 DEF PostQuestion, Moves
  <2>2. asking'[p] = s /\ \A o \in Sessions \ {p} : asking[o] = Nothing /\ asking'[o] = Nothing
    BY <1>2, <2>1, Alone
  <2>3. threads' \in Seq(Question) /\ Grows(threads, threads')
    <3>1. CASE r.intent.does = "ask"
      BY <1>3, <1>4, <2>1, <3>1, AskGrows DEF Effect
    <3>2. CASE r.intent.does = "reply"
      BY <1>3, <1>4, <2>1, <3>2, ReplyGrows DEF Effect
    <3>3. CASE r.intent.does = "resolve"
      BY <1>3, <1>4, <2>1, <3>3, ResolveGrows DEF Effect
    <3> QED BY <1>4, <3>1, <3>2, <3>3
  <2>4. q \in Nat
    BY <1>3, <1>4, LenProperties DEF Lands
  <2>5. over \in Seq(Words) /\ (r.intent.does = "resolve" => over = r.baseline[r.intent.question].replies)
    <3>1. CASE r.intent.does = "resolve"
      <4> DEFINE k == r.intent.question
                 old == r.baseline[k].replies
                 now == threads[k].replies
      <4>1. q = k /\ over = now /\ k \in DOMAIN r.baseline /\ k \in DOMAIN threads
        BY <1>3, <3>1 DEF Lands, Read
      <4>2. old \in Seq(Words) /\ now \in Seq(Words)
        <5>1. r.baseline \in Seq(Question) /\ threads \in Seq(Question)
          BY <1>3
        <5>2. k \in DOMAIN r.baseline /\ k \in DOMAIN threads
          BY <4>1
        <5>3. old \in Seq(Words)
          BY <5>1, <5>2, RepliesOf, SMTT(30)
        <5>4. now \in Seq(Words)
          BY <5>1, <5>2, RepliesOf, Zenon
        <5> QED BY <5>3, <5>4
      <4>3. Len(now) = Len(old) /\ \A i \in 1..Len(old) : now[i] = old[i]
        BY <1>3, <1>6, <3>1 DEF Read, Refused, Extends
      <4> HIDE DEF old, now
      <4>4. now = old
        BY <4>2, <4>3, SeqEqual
      <4> QED BY <4>1, <4>2, <4>4 DEF old
    <3>2. CASE r.intent.does # "resolve"
      BY <3>2, EmptySeq
    <3> QED BY <3>1, <3>2
  <2>6. s \in Asking /\ s.at = "sent" /\ s.id = id /\ s.question = q
    <3> HIDE DEF q
    <3> QED BY <1>2, <2>4 DEF Asking
  <2>7. e \in Arrival /\ e.by = id /\ e.question = q /\ e.over = over
    <3> HIDE DEF q, over
    <3> QED BY <1>2, <2>4, <2>5 DEF Arrival
  <2>8. PICK last : last = Len(effects) + 1 /\ last \in Nat
    BY <1>3, LenProperties
  <2>9. PICK f : f = e
    OBVIOUS
  <2>10. PICK now : now = effects
    OBVIOUS
  <2>11. PICK w : w = q
    OBVIOUS
  <2> HIDE DEF s, e, q, over
  <2>12. /\ effects' \in Seq(Arrival) /\ DOMAIN effects' = DOMAIN now \cup {last} /\ last \notin DOMAIN now
         /\ effects'[last] = f /\ \A k \in DOMAIN now : effects'[k] = now[k]
    BY <1>3, <2>1, <2>7, <2>8, <2>9, <2>10
  <2>13. By(id)' = {last} /\ \A i : i # id => By(i)' = By(i)
    BY <1>2, <2>7, <2>9, <2>10, <2>12 DEF By
  <2>14. QuestionsTypeOK' /\ OneAtWork'
    BY <1>1, <1>2, <2>1, <2>2, <2>3, <2>6, <2>12 DEF QuestionsInv, QuestionsTypeOK, OneAtWork
  <2>15. AtWork'
    <3>1. last \in By(id)' /\ effects'[last].question = w
      BY <2>7, <2>9, <2>11, <2>12, <2>13
    <3>2. asking'[p].id = id /\ asking'[p].question = w /\ asking'[p].at = "sent"
      BY <2>2, <2>6, <2>11
    <3> QED BY <2>2, <3>1, <3>2 DEF AtWork, Is
  <2>16. ReceiptsRead'
    BY <1>1, <2>3, ReadAfter DEF ReceiptsRead
  <2>17. OutcomeAsSaid'
    <3>1. ASSUME NEW k \in DOMAIN effects'
          PROVE  /\ effects'[k].by \in DOMAIN notices' /\ By(effects[k].by)' = {k}
                 /\ LET n == notices'[effects'[k].by]
                    IN n.intent.does = "resolve" => effects'[k].over = n.baseline[n.intent.question].replies
      <4>1. CASE k = last
        BY <1>1, <1>2, <2>5, <2>7, <2>9, <2>12, <2>13, <4>1
      <4>2. CASE k \in DOMAIN now
        <5>1. effects'[k] = effects[k] /\ k \in DOMAIN effects /\ effects[k].by # id
          BY <1>2, <2>10, <2>12, <4>2 DEF By
        <5> QED BY <1>1, <2>13, <5>1 DEF QuestionsInv, OutcomeAsSaid
      <4> QED BY <2>12, <4>1, <4>2
    <3>2. ASSUME NEW i \in DOMAIN notices', i # id
          PROVE  /\ notices'[i].status = "received" => \E k \in By(i)' : effects'[k].question = notices'[i].shown
                 /\ notices'[i].status = "rejected" => By(i)' = {}
      BY <1>1, <2>10, <2>12, <2>13, <3>2 DEF QuestionsInv, OutcomeAsSaid, By
    <3>3. notices'[id].status = "pending"
      BY <1>1, <1>2
    <3> QED BY <3>1, <3>2, <3>3, SMTT(30) DEF OutcomeAsSaid
  <2> QED BY <2>14, <2>15, <2>16, <2>17 DEF QuestionsInv
<1> QED BY <1>5, <1>6

\* The outcome is saved.
LEMMA SavedStep ==
  ASSUME QuestionsInv, NEW p \in Sessions, asking[p] # Nothing, asking[p].id \in DOMAIN notices,
         NEW status \in {"received", "rejected", "uncertain"}, NEW q \in Nat \cup {Nothing}, Saves(p, status, q),
         status = "received" => \E k \in By(asking[p].id) : effects[k].question = q,
         status = "rejected" => By(asking[p].id) = {}
  PROVE  QuestionsInv'
<1>0. PICK id : id = asking[p].id
  OBVIOUS
<1> DEFINE r == [notices[id] EXCEPT !.status = status, !.shown = q]
<1>1. /\ notices' = [notices EXCEPT ![id] = r] /\ asking' = [asking EXCEPT ![p] = Nothing] /\ lock' = Nothing
      /\ UNCHANGED <<threads, effects, grant, others>>
  BY <1>0 DEF Saves, Stops, Moves
<1>2. notices[id] \in Receipt
  BY <1>0 DEF QuestionsInv, QuestionsTypeOK
<1>3. /\ r \in Receipt /\ r.intent = notices[id].intent /\ r.baseline = notices[id].baseline
      /\ r.mark = notices[id].mark /\ r.status = status /\ r.shown = q
  BY <1>2 DEF Receipt
<1> HIDE DEF r
<1>4. /\ DOMAIN notices' = DOMAIN notices /\ notices'[id] = r
      /\ \A i \in DOMAIN notices : i # id => notices'[i] = notices[i]
      /\ notices' \in [DOMAIN notices' -> Receipt]
  BY <1>0, <1>1, <1>3 DEF QuestionsInv, QuestionsTypeOK
<1>5. \A o \in Sessions : asking'[o] = Nothing
  BY <1>1, PhaseFacts, Alone
<1>6. QuestionsTypeOK' /\ OneAtWork' /\ AtWork'
  BY <1>1, <1>4, <1>5 DEF QuestionsInv, QuestionsTypeOK, OneAtWork, AtWork, Is
<1>7. ReceiptsRead'
  BY <1>0, <1>1, <1>3, <1>4 DEF QuestionsInv, ReceiptsRead
<1>8. OutcomeAsSaid'
  <2>1. \A i : By(i)' = By(i)
    BY <1>1 DEF By
  <2>2. ASSUME NEW k \in DOMAIN effects
        PROVE  /\ effects[k].by \in DOMAIN notices' /\ By(effects[k].by) = {k}
               /\ LET n == notices'[effects[k].by]
                  IN n.intent.does = "resolve" => effects[k].over = n.baseline[n.intent.question].replies
    <3>1. PICK i : i = effects[k].by
      OBVIOUS
    <3>2. /\ i \in DOMAIN notices /\ By(i) = {k}
          /\ notices[i].intent.does = "resolve" =>
               effects[k].over = notices[i].baseline[notices[i].intent.question].replies
      BY <2>2, <3>1 DEF QuestionsInv, OutcomeAsSaid
    <3>3. notices'[i].intent = notices[i].intent /\ notices'[i].baseline = notices[i].baseline
      BY <1>0, <1>3, <1>4, <3>2
    <3> QED BY <1>4, <3>1, <3>2, <3>3
  <2>3. ASSUME NEW i \in DOMAIN notices'
        PROVE  /\ notices'[i].status = "received" => \E k \in By(i) : effects[k].question = notices'[i].shown
               /\ notices'[i].status = "rejected" => By(i) = {}
    BY <1>0, <1>3, <1>4 DEF QuestionsInv, OutcomeAsSaid
  <2> QED BY <1>1, <2>1, <2>2, <2>3 DEF OutcomeAsSaid
<1> QED BY <1>6, <1>7, <1>8 DEF QuestionsInv

\* What became of the request is said as it is known.
LEMMA OutcomeSteps ==
  ASSUME QuestionsInv, NEW p \in Sessions, Answered(p) \/ Rejected(p) \/ Unanswered(p)
  PROVE  QuestionsInv'
<1>1. asking[p] # Nothing
  BY DEF Answered, Rejected, Unanswered, Is
<1>2. CASE Answered(p)
  <2> DEFINE q == asking[p].question
             status == IF Confirmed(notices[asking[p].id], q) THEN "received" ELSE "uncertain"
  <2>1. Is(p, "sent") /\ Saves(p, status, q) /\ status \in {"received", "uncertain"}
    BY <1>2 DEF Answered
  <2> HIDE DEF status
  <2> QED BY <1>1, <2>1, PhaseFacts, SavedStep
<1>3. CASE Rejected(p)
  BY <1>1, <1>3, PhaseFacts, SavedStep DEF Rejected
<1>4. CASE Unanswered(p)
  BY <1>1, <1>4, PhaseFacts, SavedStep DEF Unanswered
<1> QED BY <1>2, <1>3, <1>4

-----------------------------------------------------------------------------
(* The theorems *)

\* The invariant holds at first.
LEMMA InitInv == QInit => QuestionsInv
<1> SUFFICES ASSUME QInit PROVE QuestionsInv
  OBVIOUS
<1>1. /\ threads = <<>> /\ effects = <<>> /\ notices = <<>> /\ DOMAIN effects = {} /\ DOMAIN notices = {}
      /\ asking = [p \in Sessions |-> Nothing] /\ lock = Nothing /\ grant = 0 /\ others = 0
  BY DEF QInit
<1>2. QuestionsTypeOK
  BY <1>1, EmptySeq DEF QuestionsTypeOK
<1> QED BY <1>1, <1>2 DEF QuestionsInv, OneAtWork, AtWork, Is, ReceiptsRead, OutcomeAsSaid

\* Every step keeps it.
LEMMA NextInv == QuestionsInv /\ [QNext]_qvars => QuestionsInv'
<1> SUFFICES ASSUME QuestionsInv, [QNext]_qvars PROVE QuestionsInv'
  OBVIOUS
<1>1. CASE UNCHANGED qvars
  BY <1>1 DEF qvars, QuestionsInv, QuestionsTypeOK, OneAtWork, AtWork, Is, Unsent, ReceiptsRead, OutcomeAsSaid, By
<1>2. CASE QNext
  BY <1>2, OutsideSteps, LookSteps, FenceStep, PostStep, OutcomeSteps DEF QNext
<1> QED BY <1>1, <1>2

\* The invariant of receipts, sessions and questions.
THEOREM QuestionsInvariance == QSpec => []QuestionsInv
BY InitInv, NextInv, PTL DEF QSpec

\* A request id of one sign-in reaches the company at most once, whatever stops, is lost
\* or repeated; what its receipt says became of it is so; and no resolution closed over a
\* reply that the request had not seen (hosted_questions.run).
THEOREM OutcomesAreTrue == QSpec => []OutcomeAsSaid
<1>1. QuestionsInv => OutcomeAsSaid
  BY DEF QuestionsInv
<1> QED BY <1>1, QuestionsInvariance, PTL

-----------------------------------------------------------------------------
(* COMMANDS AND THE SHARED FILE *)

FileTexts == [from: Nat, edit: Nat]
Credentials == 0..MaxTokens
HostOrder == [kind: Commands, body: FileTexts \cup {Unset}, existing: Nat \cup {Unset}, begun: Nat,
          expected: Nat, held: Nat, born: Nat, token: Credentials, status: {"pending", "received"}]

\* What a session may be doing.
Desk ==
  [at: {"preparing"}, kind: Commands, token: Credentials, body: FileTexts \cup {Unset},
   existing: Nat \cup {Unset}, begun: Nat]
  \cup [at: {"asked"}, kind: Commands, token: Credentials, body: FileTexts \cup {Unset},
        existing: Nat \cup {Unset}, begun: Nat, expected: Nat, held: Nat]
  \cup [at: {"ready", "waiting", "saved", "remembered"}, key: Nat]
  \cup [at: {"publishing"}, key: Nat, current: Nat \cup {Unset}]
  \cup [at: {"getting"}, token: Credentials, existing: FileTexts]
  \cup [at: {"got", "replacing", "tracking"}, token: Credentials, existing: FileTexts, rev: Nat, text: FileTexts]
  \cup [at: {"tracked"}, rev: Nat]

BooksTypeOK ==
  /\ books \in [rev: Nat, file: [write: Nat, own: BOOLEAN, text: FileTexts]]
  /\ done \in Seq(Nat \cup {Unset}) /\ orders \in Seq(HostOrder) /\ Len(done) = Len(orders)
  /\ seen \in Nat \cup {Unset} /\ base \in [Credentials -> Nat \cup {Unset}] /\ output \in Nat \cup {Unset}
  /\ local \in FileTexts
  /\ sessions \in [Desks -> Desk \cup {Unset}]
  /\ token \in Credentials /\ edits \in Nat

\* Whoever saw revision e has text h or a later one, if another machine wrote the file by then.
Newer(e, h) == ~books.file.own /\ books.file.write <= e => books.file.write <= h

FileOK ==
  /\ books.file.write <= books.rev /\ books.file.text.from <= books.rev /\ local.from <= books.rev
  /\ ~books.file.own => books.file.text.from = books.file.write
  /\ \A t \in Credentials : base[t] # Unset => base[t] <= books.rev /\ Newer(base[t], local.from)

\* A download that holds the lock.
HoldsLock(c) == c.at \in {"replacing", "tracking"}

\* What a session has read is not newer than the server.
Reading(p, c) ==
  /\ c.at \in {"preparing", "asked"} =>
       /\ Puts(c) => c.body \in FileTexts /\ c.body.from <= books.rev
       /\ ~Puts(c) /\ c.existing # Unset => c.existing <= c.begun
  /\ c.at = "asked" /\ c.kind = "put" => c.expected <= books.rev /\ Newer(c.expected, c.held)
  /\ c.at \in {"ready", "waiting", "saved", "remembered"} => c.key \in Orders
  /\ c.at \in {"saved", "remembered"} => done[c.key] # Unset
  /\ c.at = "getting" => c.existing.from <= books.rev
  /\ c.at = "publishing" =>
       c.key \in Orders /\ (c.current # Unset => c.current <= orders[c.key].begun)
  /\ c.at \in {"got", "replacing"} => /\ c.existing.from <= c.rev /\ c.rev <= books.rev
                                     /\ c.text.from <= books.rev /\ Newer(c.rev, c.text.from)
  /\ c.at = "replacing" => local.from \in {c.existing.from, c.text.from}
  /\ c.at = "tracking" => c.rev <= books.rev /\ Newer(c.rev, local.from)
  /\ HoldsLock(c) => holder = p

\* What a receipt expects, and what its answer says, was so.
Receipted(k, r) ==
  /\ Puts(r) => r.body \in FileTexts /\ r.body.from <= books.rev
  /\ ~Puts(r) /\ r.existing # Unset => r.existing <= r.begun
  /\ r.kind = "put" => r.expected <= books.rev /\ Newer(r.expected, r.held)
  /\ r.status = "received" => done[k] # Unset
  /\ done[k] # Unset => done[k] <= books.rev /\ (Puts(r) => books.file.own \/ books.file.write > done[k])

\* The clock tells receipts and outputs apart.
ClockOK ==
  /\ output # Unset => output <= Clock
  /\ \A k \in Orders : orders[k].born <= Clock
  /\ \A j, k \in Orders : orders[j].born = orders[k].born => j = k

BooksInv ==
  /\ BooksTypeOK /\ FileOK /\ ClockOK
  /\ \A p \in Desks : sessions[p] # Unset => Reading(p, sessions[p])
  /\ \A k \in Orders : Receipted(k, orders[k])

-----------------------------------------------------------------------------
(* What time does to what is known *)

\* The server only moves on, and answers stay.
MovesOn ==
  /\ books.rev <= books'.rev
  /\ \A e, h \in Nat : e <= books.rev /\ Newer(e, h) => Newer(e, h)'
  /\ \A k \in Orders : k \in Orders' /\ (done[k] # Unset => done'[k] # Unset) /\ orders'[k].begun = orders[k].begun

LEMMA ReadingStays ==
  ASSUME BooksTypeOK, BooksTypeOK', MovesOn, NEW p \in Desks, NEW c \in Desk, Reading(p, c),
         HoldsLock(c) => local'.from = local.from /\ holder' = holder
  PROVE  Reading(p, c)'
<1>1. /\ books.rev \in Nat /\ books'.rev \in Nat /\ books.rev <= books'.rev
      /\ local.from \in Nat /\ local'.from \in Nat
  BY DEF BooksTypeOK, FileTexts, MovesOn
<1>2. CASE c.at \in {"preparing", "asked"}
  <2>0. ~HoldsLock(c)
    BY <1>2 DEF HoldsLock
  <2>1. c.at = "asked" => c.expected \in Nat /\ c.held \in Nat
    BY DEF Desk
  <2>2. Puts(c) => c.body \in FileTexts /\ c.body.from \in Nat /\ c.body.from <= books'.rev
    BY <1>1, <1>2 DEF Reading, FileTexts
  <2>3. c.at = "asked" /\ c.kind = "put" => c.expected <= books'.rev /\ Newer(c.expected, c.held)'
    BY <1>1, <2>1 DEF Reading, MovesOn
  <2> QED BY <1>2, <2>0, <2>2, <2>3 DEF Reading, Puts, HoldsLock
<1>3. CASE c.at \in {"ready", "waiting", "saved", "remembered"}
  BY <1>3 DEF Reading, MovesOn, HoldsLock
<1>8. CASE c.at = "publishing"
  BY <1>8 DEF Reading, MovesOn, HoldsLock
<1>4. CASE c.at = "getting"
  <2>1. c.existing.from \in Nat
    BY <1>4 DEF Desk, FileTexts
  <2> QED BY <1>1, <1>4, <2>1 DEF Reading, HoldsLock
<1>5. CASE c.at \in {"got", "replacing"}
  <2>1. c.existing.from \in Nat /\ c.rev \in Nat /\ c.text.from \in Nat
    BY <1>5 DEF Desk, FileTexts
  <2>2. /\ c.existing.from <= c.rev /\ c.rev <= books'.rev
        /\ c.text.from <= books'.rev /\ Newer(c.rev, c.text.from)'
    BY <1>1, <1>5, <2>1 DEF Reading, MovesOn
  <2>3. c.at = "replacing" => local'.from \in {c.existing.from, c.text.from} /\ holder' = p
    BY DEF Reading, HoldsLock
  <2> QED BY <1>5, <2>2, <2>3 DEF Reading, HoldsLock
<1>6. CASE c.at = "tracking"
  <2>1. c.rev \in Nat
    BY <1>6 DEF Desk
  <2>2. c.rev <= books'.rev /\ Newer(c.rev, local.from)'
    <3>1. c.rev <= books.rev /\ Newer(c.rev, local.from) /\ local'.from = local.from
      BY <1>6 DEF Reading, HoldsLock
    <3>2. \A e, h \in Nat : e <= books.rev /\ Newer(e, h) => Newer(e, h)'
      BY DEF MovesOn
    <3>3. Newer(c.rev, local.from)'
      BY <1>1, <2>1, <3>1, <3>2 DEF Newer
    <3> QED BY <1>1, <2>1, <3>1, <3>3
  <2>3. holder' = p
    BY <1>6 DEF Reading, HoldsLock
  <2> QED BY <1>6, <2>2, <2>3 DEF Reading, Newer, HoldsLock
<1>7. CASE c.at = "tracked"
  BY <1>7 DEF Reading, HoldsLock
<1> QED BY <1>2, <1>3, <1>4, <1>5, <1>6, <1>7, <1>8 DEF Desk

LEMMA ReceiptedStays ==
  ASSUME BooksTypeOK, BooksTypeOK', MovesOn, NEW k \in Orders, NEW r \in HostOrder, Receipted(k, r), done'[k] = done[k],
         done[k] # Unset /\ Puts(r) => books'.file.own \/ books'.file.write > done[k]
  PROVE  Receipted(k, r)'
<1>1. /\ books.rev \in Nat /\ books'.rev \in Nat /\ books.rev <= books'.rev
      /\ r.expected \in Nat /\ r.held \in Nat /\ (done[k] # Unset => done[k] \in Nat)
  <2>1. k \in 1..Len(done) /\ done[k] \in Nat \cup {Unset}
    BY LenProperties, ElementOfSeq DEF BooksTypeOK, Orders
  <2> QED BY <2>1 DEF BooksTypeOK, MovesOn, HostOrder
<1>2. Puts(r) => r.body \in FileTexts /\ r.body.from <= books'.rev
  BY <1>1 DEF Receipted, FileTexts
<1>3. r.kind = "put" => r.expected <= books'.rev /\ Newer(r.expected, r.held)'
  BY <1>1 DEF Receipted, MovesOn
<1>4. done'[k] # Unset => done'[k] <= books'.rev /\ (Puts(r) => books'.file.own \/ books'.file.write > done'[k])
  BY <1>1 DEF Receipted
<1> QED BY <1>2, <1>3, <1>4 DEF Receipted, Puts

-----------------------------------------------------------------------------
(* The server *)

LEMMA OrderOf ==
  ASSUME BooksTypeOK, NEW k \in Orders
  PROVE  orders[k] \in HostOrder /\ done[k] \in Nat \cup {Unset} /\ k \in DOMAIN done /\ k \in 1..Len(orders)
BY LenProperties, ElementOfSeq DEF BooksTypeOK, Orders

\* A step of the server that leaves sessions, receipts and copies alone.
LEMMA ServerMoved ==
  ASSUME BooksInv, books' \in [rev: Nat, file: [write: Nat, own: BOOLEAN, text: FileTexts]], MovesOn,
         done' \in Seq(Nat \cup {Unset}), Len(done') = Len(done),
         UNCHANGED <<seen, base, local, output, orders, sessions, holder, token, edits>>,
         books'.file.write <= books'.rev, books'.file.text.from <= books'.rev,
         ~books'.file.own => books'.file.text.from = books'.file.write,
         \A k \in Orders : Receipted(k, orders[k])'
  PROVE  BooksInv'
<1>1. BooksTypeOK'
  BY DEF BooksInv, BooksTypeOK
<1>2. FileOK'
  <2>1. local.from \in Nat /\ books.rev \in Nat /\ books'.rev \in Nat /\ local.from <= books'.rev
    BY DEF BooksInv, BooksTypeOK, FileOK, MovesOn, FileTexts
  <2>2. ASSUME NEW t \in Credentials, base[t] # Unset
        PROVE  base[t] <= books'.rev /\ Newer(base[t], local.from)'
    <3>1. base[t] \in Nat /\ base[t] <= books.rev /\ Newer(base[t], local.from)
      BY <2>2 DEF BooksInv, BooksTypeOK, FileOK
    <3>2. \A e, h \in Nat : e <= books.rev /\ Newer(e, h) => Newer(e, h)'
      BY DEF MovesOn
    <3>3. Newer(base[t], local.from)'
      BY <2>1, <3>1, <3>2 DEF Newer
    <3>4. base[t] <= books'.rev
      BY <2>1, <3>1 DEF BooksInv, BooksTypeOK, MovesOn
    <3> QED BY <3>3, <3>4 DEF Newer
  <2>3. (\A t \in Credentials : base[t] # Unset => base[t] <= books.rev /\ Newer(base[t], local.from))'
    BY <2>2 DEF Newer
  <2> QED BY <2>1, <2>3 DEF FileOK
<1>3. ClockOK'
  BY DEF BooksInv, ClockOK, Clock, Orders
<1>4. ASSUME NEW p \in Desks, sessions[p] # Unset
      PROVE  Reading(p, sessions[p])'
  <2>1. PICK c : c = sessions[p]
    OBVIOUS
  <2>2. c \in Desk /\ Reading(p, c)
    BY <1>4, <2>1 DEF BooksInv, BooksTypeOK
  <2>3. Reading(p, c)'
    BY <1>1, <2>2, ReadingStays DEF BooksInv
  <2> QED BY <2>1, <2>3
<1> QED BY <1>1, <1>2, <1>3, <1>4 DEF BooksInv, Orders

LEMMA ElsewhereStep ==
  ASSUME BooksInv, NEW file \in BOOLEAN, Elsewhere(file)
  PROVE  BooksInv'
<1> DEFINE rev == books.rev + 1
           new == [write |-> rev, own |-> FALSE, text |-> Text(rev)]
<1>1. books \in [rev: Nat, file: [write: Nat, own: BOOLEAN, text: FileTexts]] /\ rev \in Nat /\ Text(rev) \in FileTexts
  BY DEF BooksInv, BooksTypeOK, Text, FileTexts
<1>2. new \in [write: Nat, own: BOOLEAN, text: FileTexts] /\ new.write = rev /\ ~new.own /\ new.text.from = rev
  BY <1>1 DEF Text
<1>3. books' = [rev |-> rev, file |-> IF file THEN new ELSE books.file]
      /\ UNCHANGED <<done, seen, base, local, output, orders, sessions, holder, token, edits>>
  BY DEF Elsewhere, copies
<1> HIDE DEF new
<1>4. /\ books' \in [rev: Nat, file: [write: Nat, own: BOOLEAN, text: FileTexts]]
      /\ books'.rev = rev /\ books'.file = IF file THEN new ELSE books.file
  BY <1>1, <1>2, <1>3
<1>5. MovesOn
  BY <1>1, <1>2, <1>3, <1>4 DEF MovesOn, Newer, Orders
<1>6. /\ books'.file.write <= books'.rev /\ books'.file.text.from <= books'.rev
      /\ ~books'.file.own => books'.file.text.from = books'.file.write
  BY <1>1, <1>2, <1>4 DEF BooksInv, FileOK, FileTexts
<1>7. BooksTypeOK'
  BY <1>3, <1>4 DEF BooksInv, BooksTypeOK
<1>8. ASSUME NEW k \in Orders
      PROVE  Receipted(k, orders[k])'
  <2>1. PICK r : r = orders[k]
    OBVIOUS
  <2>2. r \in HostOrder /\ Receipted(k, r) /\ (done[k] # Unset => done[k] \in Nat)
    BY <2>1, OrderOf DEF BooksInv
  <2>3. done[k] # Unset /\ Puts(r) => books'.file.own \/ books'.file.write > done[k]
    BY <1>1, <1>2, <1>4, <2>2 DEF Receipted
  <2>4. Receipted(k, r)'
    BY <1>3, <1>5, <1>7, <2>2, <2>3, ReceiptedStays DEF BooksInv
  <2> QED BY <1>3, <2>1, <2>4
<1> QED BY <1>3, <1>4, <1>5, <1>6, <1>8, ServerMoved DEF BooksInv, BooksTypeOK

LEMMA AcceptsStep ==
  ASSUME BooksInv, NEW k \in Orders, Accepts(k)
  PROVE  BooksInv'
<1> DEFINE r == orders[k]
           rev == IF r.kind = "read" THEN books.rev ELSE books.rev + 1
           new == [write |-> rev, own |-> TRUE, text |-> r.body]
<1>1. /\ books \in [rev: Nat, file: [write: Nat, own: BOOLEAN, text: FileTexts]] /\ rev \in Nat
      /\ r \in HostOrder /\ Receipted(k, r) /\ done[k] = Unset /\ k \in DOMAIN done /\ done \in Seq(Nat \cup {Unset})
      /\ books.rev <= rev
  BY OrderOf DEF BooksInv, BooksTypeOK, Accepts
<1>2. /\ books' = [rev |-> rev, file |-> IF Puts(r) THEN new ELSE books.file]
      /\ done' = [done EXCEPT ![k] = rev]
      /\ UNCHANGED <<seen, base, local, output, orders, sessions, holder, token, edits>>
  BY DEF Accepts, copies, Else
<1>3. Puts(r) => /\ new \in [write: Nat, own: BOOLEAN, text: FileTexts] /\ new.write = rev /\ new.own
                 /\ new.text.from <= rev
  BY <1>1 DEF Receipted, FileTexts
<1>4. Puts(r) => r.kind # "read"
  BY DEF Puts
<1> HIDE DEF r, new, rev
<1>5. /\ books' \in [rev: Nat, file: [write: Nat, own: BOOLEAN, text: FileTexts]]
      /\ books'.rev = rev /\ books'.file = IF Puts(r) THEN new ELSE books.file
  BY <1>1, <1>2, <1>3
<1>6. /\ done' \in Seq(Nat \cup {Unset}) /\ Len(done') = Len(done) /\ done'[k] = rev
      /\ \A j \in Orders : j # k => done'[j] = done[j]
  BY <1>1, <1>2, ExceptSeq DEF BooksInv, BooksTypeOK, Orders
<1>7. MovesOn
  <2>1. \A e, h \in Nat : e <= books.rev /\ Newer(e, h) => Newer(e, h)'
    BY <1>1, <1>3, <1>5 DEF Newer
  <2>2. \A j \in Orders : j \in Orders' /\ (done[j] # Unset => done'[j] # Unset) /\ orders'[j].begun = orders[j].begun
    BY <1>1, <1>2, <1>6 DEF Orders
  <2> QED BY <1>1, <1>5, <2>1, <2>2 DEF MovesOn
<1>8. /\ books'.file.write <= books'.rev /\ books'.file.text.from <= books'.rev
      /\ ~books'.file.own => books'.file.text.from = books'.file.write
  BY <1>1, <1>3, <1>5 DEF BooksInv, FileOK, FileTexts
<1>9. BooksTypeOK'
  BY <1>2, <1>5, <1>6 DEF BooksInv, BooksTypeOK
<1>10. ASSUME NEW j \in Orders
      PROVE  Receipted(j, orders[j])'
  <2>1. PICK x : x = orders[j]
    OBVIOUS
  <2>2. x \in HostOrder /\ Receipted(j, x) /\ (done[j] # Unset => done[j] \in Nat)
    BY <2>1, OrderOf DEF BooksInv
  <2>3. CASE j # k
    <3>1. done[j] # Unset /\ Puts(x) => books'.file.own \/ books'.file.write > done[j]
      BY <1>1, <1>3, <1>5, <2>2 DEF Receipted
    <3>2. Receipted(j, x)'
      BY <1>6, <1>7, <1>9, <2>2, <2>3, <3>1, ReceiptedStays DEF BooksInv
    <3> QED BY <1>2, <2>1, <3>2
  <2>4. CASE j = k
    <3>1. x = r
      BY <2>1, <2>4 DEF r
    <3>2. x.expected \in Nat /\ x.held \in Nat
      BY <2>2 DEF HostOrder
    <3>3. Puts(x) => x.body \in FileTexts /\ x.body.from <= books'.rev
      BY <1>1, <1>5, <2>2 DEF Receipted, FileTexts
    <3>4. x.kind = "put" => x.expected <= books'.rev /\ Newer(x.expected, x.held)'
      BY <1>1, <1>5, <1>7, <2>2, <3>2 DEF Receipted, MovesOn
    <3>5. x.status # "received"
      BY <1>1, <2>2, <2>4 DEF Receipted
    <3>6. done'[j] <= books'.rev /\ (Puts(x) => books'.file.own)
      BY <1>1, <1>3, <1>5, <1>6, <2>4, <3>1
    <3>7. ~Puts(x) /\ x.existing # Unset => x.existing <= x.begun
      BY <2>2 DEF Receipted
    <3>8. Receipted(j, x)'
      BY <3>3, <3>4, <3>5, <3>6, <3>7 DEF Receipted, Puts
    <3> QED BY <1>2, <2>1, <3>8
  <2> QED BY <2>3, <2>4
<1> QED BY <1>2, <1>5, <1>6, <1>7, <1>8, <1>10, ServerMoved

-----------------------------------------------------------------------------
(* The sessions *)

\* A step that moves one session on.
LEMMA SessionMoved ==
  ASSUME BooksInv, NEW p \in Desks, NEW c \in Desk \cup {Unset}, sessions' = [sessions EXCEPT ![p] = c],
         BooksTypeOK', FileOK', ClockOK', MovesOn, c # Unset => Reading(p, c)',
         \A o \in Desks \ {p} : sessions[o] # Unset /\ HoldsLock(sessions[o]) => local'.from = local.from /\ holder' = holder,
         \A k \in Orders' : Receipted(k, orders[k])'
  PROVE  BooksInv'
<1>1. sessions'[p] = c /\ \A o \in Desks \ {p} : sessions'[o] = sessions[o]
  BY DEF BooksInv, BooksTypeOK
<1>2. ASSUME NEW o \in Desks \ {p}, sessions[o] # Unset
      PROVE  Reading(o, sessions[o])'
  <2>1. PICK x : x = sessions[o]
    OBVIOUS
  <2>2. x \in Desk /\ Reading(o, x) /\ (HoldsLock(x) => local'.from = local.from /\ holder' = holder)
    BY <1>2, <2>1 DEF BooksInv, BooksTypeOK
  <2>3. Reading(o, x)'
    BY <2>2, ReadingStays DEF BooksInv
  <2> QED BY <1>1, <2>1, <2>3
<1>3. c # Unset => Reading(p, sessions[p])'
  BY <1>1
<1>4. \A o \in Desks : sessions'[o] # Unset => Reading(o, sessions[o])'
  BY <1>1, <1>2, <1>3
<1> QED BY <1>4 DEF BooksInv

\* Nothing is known otherwise when the server and its answers stay.
LEMMA ServerSame ==
  ASSUME UNCHANGED <<books, done>>, \A k \in Orders : k \in Orders' /\ orders'[k].begun = orders[k].begun, books.rev \in Int
  PROVE  MovesOn
BY DEF MovesOn, Newer

\* A step that moves one session on, and nothing else that the invariant speaks of.
LEMMA OnlyMoves ==
  ASSUME BooksInv, NEW p \in Desks, NEW c \in Desk \cup {Unset}, sessions' = [sessions EXCEPT ![p] = c],
         UNCHANGED <<books, done, base, local, output, orders, token, edits>>, seen' \in Nat \cup {Unset},
         c # Unset => Reading(p, c)', \A o \in Desks \ {p} : holder = o => holder' = o
  PROVE  BooksInv'
<1>1. BooksTypeOK' /\ FileOK' /\ ClockOK'
  BY DEF BooksInv, BooksTypeOK, FileOK, Newer, ClockOK, Clock, Orders
<1>2. MovesOn
  BY ServerSame DEF BooksInv, BooksTypeOK, Orders
<1>3. \A k \in Orders' : Receipted(k, orders[k])'
  BY DEF BooksInv, Receipted, Newer, Orders
<1>4. \A o \in Desks \ {p} : sessions[o] # Unset /\ HoldsLock(sessions[o]) => holder = o
  BY DEF BooksInv, Reading
<1> QED BY <1>1, <1>2, <1>3, <1>4, SessionMoved

\* A command is prepared and its expectation asked for.
LEMMA PrepareSteps ==
  ASSUME BooksInv, NEW p \in Desks, (\E kind \in Commands : Begin(p, kind)) \/ Expects(p)
  PROVE  BooksInv'
<1>1. ASSUME NEW kind \in Commands, Begin(p, kind)
      PROVE  BooksInv'
  <2> DEFINE puts == kind \in {"put", "replace"}
  <2>c. PICK c : c = Prepared(kind)
    OBVIOUS
  <2>0. output \in Nat \cup {Unset} /\ local \in FileTexts /\ Clock \in Nat /\ local.from <= books.rev
        /\ (output # Unset => output <= Clock) /\ token \in Credentials
    BY LenProperties DEF BooksInv, BooksTypeOK, FileOK, ClockOK, Clock
  <2>1. /\ c \in Desk /\ c.at = "preparing" /\ c.kind = kind
        /\ puts => c.body = local
        /\ ~puts => c.existing = output /\ c.begun = Clock
    BY <2>0, <2>c DEF Prepared, Puts, Desk
  <2>2. sessions' = [sessions EXCEPT ![p] = c] /\ UNCHANGED <<books, done, seen, base, local, output, orders, holder, token, edits>>
    BY <1>1, <2>c DEF Begin, Turns, server, copies, Else
  <2>3. Puts(c) <=> puts
    BY <2>1 DEF Puts
  <2>4. Reading(p, c)'
    BY <2>0, <2>1, <2>2, <2>3 DEF Reading, Puts, HoldsLock
  <2> QED BY <2>1, <2>2, <2>4, OnlyMoves DEF BooksInv, BooksTypeOK
<1>2. CASE Expects(p)
  <2>1. At(p, "preparing") /\ UNCHANGED <<books, done, seen, base, local, output, orders, holder, token, edits>>
    BY <1>2 DEF Expects, server, copies, Else
  <2> DEFINE s == sessions[p]
  <2>2. s \in Desk /\ s.at = "preparing" /\ Reading(p, s)
    BY <2>1 DEF At, BooksInv, BooksTypeOK
  <2>3. /\ s.kind \in Commands /\ s.body \in FileTexts \cup {Unset} /\ s.existing \in Nat \cup {Unset} /\ s.begun \in Nat
        /\ s.token \in Credentials
    BY <2>2 DEF Desk
  <2>4. CASE Quits(p)
    BY <2>1, <2>4, OnlyMoves DEF Quits, Turns, BooksInv, BooksTypeOK
  <2>5. ASSUME NEW rev \in Nat, Turns(p, Asked(s, rev)), s.kind = "put" => rev <= books.rev /\ Newer(rev, local.from)
        PROVE  BooksInv'
    <3>c. PICK c : c = Asked(s, rev)
      OBVIOUS
    <3>1. local.from \in Nat
      BY DEF BooksInv, BooksTypeOK, FileTexts
    <3>2. /\ c \in Desk /\ c.at = "asked" /\ c.kind = s.kind /\ c.body = s.body /\ c.existing = s.existing
          /\ c.begun = s.begun /\ c.expected = rev /\ (Puts(s) => c.held = local.from)
      BY <2>3, <3>1, <3>c DEF Asked, Desk
    <3>3. sessions' = [sessions EXCEPT ![p] = c]
      BY <2>5, <3>c DEF Turns
    <3> HIDE DEF s
    <3>4. (Puts(c) <=> Puts(s)) /\ (s.kind = "put" => Puts(s))
      BY <3>2 DEF Puts
    <3>5. PICK x : x = s
      OBVIOUS
    <3>6. Puts(x) => x.body \in FileTexts /\ x.body.from <= books.rev
      BY <2>2, <3>5 DEF Reading
    <3>7. ~Puts(x) /\ x.existing # Unset => x.existing <= x.begun
      BY <2>2, <3>5 DEF Reading
    <3>8. c.kind = "put" => c.expected <= books.rev /\ Newer(c.expected, c.held)
      BY <2>5, <3>2, <3>4
    <3>9. Reading(p, c)
      BY <3>2, <3>4, <3>5, <3>6, <3>7, <3>8 DEF Reading, HoldsLock
    <3>10. Reading(p, c)'
      BY <2>1, <3>2, <3>9 DEF Reading, Newer, Puts, HoldsLock
    <3> QED BY <2>1, <3>2, <3>3, <3>10, OnlyMoves DEF BooksInv, BooksTypeOK
  <2>6. CASE AskFirst(s) # Unset /\ Turns(p, Asked(s, AskFirst(s)))
    <3> DEFINE rev == AskFirst(s)
    <3>1. rev \in Nat
      BY <2>3, <2>6 DEF AskFirst, BooksInv, BooksTypeOK
    <3>2. s.kind = "put" => rev <= books.rev /\ Newer(rev, local.from)
      BY <2>3, <2>6 DEF AskFirst, Mutates, Puts, BooksInv, FileOK
    <3> HIDE DEF rev
    <3>3. Turns(p, Asked(s, rev))
      BY <2>6 DEF rev
    <3> QED BY <2>5, <3>1, <3>2, <3>3
  <2>7. CASE MayCreate(s) /\ Turns(p, Asked(s, books.rev))
    <3>1. books.rev \in Nat /\ local.from \in Nat /\ books.file.write \in Nat
      BY DEF BooksInv, BooksTypeOK, FileTexts
    <3>2. s.kind = "put" => books.rev <= books.rev /\ Newer(books.rev, local.from)
      BY <2>7, <3>1 DEF MayCreate, Puts, Newer
    <3> QED BY <2>5, <2>7, <3>1, <3>2
  <2> QED BY <1>2, <2>4, <2>6, <2>7 DEF Expects
<1> QED BY <1>1, <1>2

\* A session that waits, retries, sends, remembers, compares an output or stops.
LEMMA WaitSteps ==
  ASSUME BooksInv, NEW p \in Desks,
         \/ Refuses(p) \/ SendOrder(p) \/ Remember(p) \/ PublishOutput(p) \/ RememberGet(p) \/ Breaks(p)
         \/ \E k \in Orders : RetryOrder(p, k)
  PROVE  BooksInv'
<1>0. UNCHANGED <<books, done, base, local, output, orders, token, edits>>
  BY DEF Refuses, SendOrder, Remember, PublishOutput, RememberGet, Breaks, RetryOrder, server, copies, Else
<1>1. CASE Refuses(p) \/ Breaks(p)
  <2>1. sessions' = [sessions EXCEPT ![p] = Unset] /\ UNCHANGED seen /\ holder' \in {holder, IF holder = p THEN Unset ELSE holder}
    BY <1>1 DEF Refuses, Breaks, Quits, Turns, copies
  <2>2. \A o \in Desks \ {p} : holder = o => holder' = o
    BY <2>1
  <2> QED BY <1>0, <2>1, <2>2, OnlyMoves DEF BooksInv, BooksTypeOK
<1>2. CASE SendOrder(p)
  <2>c. PICK c : c = [sessions[p] EXCEPT !.at = "waiting"]
    OBVIOUS
  <2>1. sessions[p] \in Desk /\ sessions[p].at = "ready" /\ Reading(p, sessions[p])
    BY <1>2 DEF SendOrder, At, BooksInv, BooksTypeOK
  <2>2. c \in Desk /\ c.at = "waiting" /\ c.key = sessions[p].key /\ c.key \in Orders
    BY <2>1, <2>c DEF Desk, Reading
  <2>3. sessions' = [sessions EXCEPT ![p] = c] /\ UNCHANGED <<seen, holder>>
    BY <1>2, <2>c DEF SendOrder, Turns, copies
  <2>4. Reading(p, c)'
    BY <1>0, <2>2 DEF Reading, Orders, HoldsLock
  <2> QED BY <1>0, <2>2, <2>3, <2>4, OnlyMoves DEF BooksInv, BooksTypeOK
<1>3. CASE Remember(p)
  <2>c. PICK c : c = [sessions[p] EXCEPT !.at = "remembered"]
    OBVIOUS
  <2>1. sessions[p] \in Desk /\ sessions[p].at = "saved" /\ Reading(p, sessions[p])
    BY <1>3 DEF Remember, At, BooksInv, BooksTypeOK
  <2>2. c \in Desk /\ c.at = "remembered" /\ c.key = sessions[p].key /\ c.key \in Orders /\ done[c.key] # Unset
    BY <2>1, <2>c DEF Desk, Reading
  <2>3. sessions' = [sessions EXCEPT ![p] = c] /\ UNCHANGED holder
    BY <1>3, <2>c DEF Remember, Turns
  <2>4. seen' \in Nat \cup {Unset}
    BY <1>3, <2>2, <2>c, OrderOf DEF Remember, Seen, Later, BooksInv, BooksTypeOK
  <2>5. Reading(p, c)'
    BY <1>0, <2>2 DEF Reading, Orders, HoldsLock
  <2> QED BY <1>0, <2>2, <2>3, <2>4, <2>5, OnlyMoves
<1>4. CASE RememberGet(p)
  <2>1. sessions[p] \in Desk /\ sessions[p].at = "tracked"
    BY <1>4 DEF RememberGet, At, BooksInv, BooksTypeOK
  <2>2. sessions[p].rev \in Nat
    BY <2>1 DEF Desk
  <2>3. seen' \in Nat \cup {Unset} /\ sessions' = [sessions EXCEPT ![p] = Unset] /\ UNCHANGED holder
    BY <1>4, <2>2 DEF RememberGet, Seen, Later, BooksInv, BooksTypeOK, Quits, Turns
  <2> QED BY <1>0, <2>3, OnlyMoves
<1>5. ASSUME NEW k \in Orders, RetryOrder(p, k)
      PROVE  BooksInv'
  <2>c. PICK c : c = [at |-> IF orders[k].status = "received" THEN "saved" ELSE "ready", key |-> k]
    OBVIOUS
  <2>1. orders[k] \in HostOrder /\ k \in Nat /\ Receipted(k, orders[k])
    BY OrderOf, LenProperties DEF BooksInv, BooksTypeOK
  <2>2. /\ c \in Desk /\ c.key = k /\ c.at \in {"saved", "ready"}
        /\ c.at = "saved" => done[k] # Unset
    BY <2>1, <2>c DEF Desk, Receipted
  <2>3. sessions' = [sessions EXCEPT ![p] = c] /\ UNCHANGED <<seen, holder>>
    BY <1>5, <2>c DEF RetryOrder, Turns, copies
  <2>4. Reading(p, c)'
    BY <1>0, <2>2 DEF Reading, Orders, HoldsLock
  <2> QED BY <1>0, <2>2, <2>3, <2>4, OnlyMoves DEF BooksInv, BooksTypeOK
<1>6. CASE PublishOutput(p)
  <2>k. PICK k : k = sessions[p].key
    OBVIOUS
  <2>1. sessions[p] \in Desk /\ sessions[p].at = "remembered" /\ Reading(p, sessions[p])
    BY <1>6 DEF PublishOutput, At, BooksInv, BooksTypeOK
  <2>2. k \in Orders /\ k \in Nat /\ Receipted(k, orders[k])
    BY <2>1, <2>k DEF Reading, Desk, BooksInv
  <2>3. UNCHANGED <<seen, holder>>
    BY <1>6 DEF PublishOutput, copies
  <2>c. PICK c : c = [at |-> "publishing", key |-> k, current |-> output]
    OBVIOUS
  <2>4. CASE OutputUntouched(k) /\ sessions' = [sessions EXCEPT ![p] = c]
    <3>1. c \in Desk /\ c.at = "publishing" /\ c.key = k /\ c.current = output
      BY <2>2, <2>c DEF Desk, BooksInv, BooksTypeOK
    <3>2. ~Puts(orders[k]) /\ output = orders[k].existing
      BY <1>6, <2>k, <2>4 DEF PublishOutput, OutputUntouched
    <3>3. output # Unset => output <= orders[k].begun
      BY <2>2, <3>2 DEF Receipted
    <3>4. Reading(p, c)'
      BY <1>0, <2>2, <3>1, <3>3 DEF Reading, Orders, HoldsLock
    <3> QED BY <1>0, <2>3, <2>4, <3>1, <3>4, OnlyMoves DEF BooksInv, BooksTypeOK
  <2>5. CASE sessions' = [sessions EXCEPT ![p] = Unset]
    BY <1>0, <2>3, <2>5, OnlyMoves DEF BooksInv, BooksTypeOK
  <2> QED BY <1>6, <2>k, <2>c, <2>4, <2>5 DEF PublishOutput, Turns, Quits
<1> QED BY <1>1, <1>2, <1>3, <1>4, <1>5, <1>6

-----------------------------------------------------------------------------
(* People, receipts and files *)

\* What people and the sign-in do leaves the server, the receipts and the sessions alone.
LEMMA PeopleSteps ==
  ASSUME BooksInv, EditLocal \/ EditOutput \/ Rotate
  PROVE  BooksInv'
<1>0. /\ edits \in Nat /\ token \in Credentials /\ Len(orders) \in Nat /\ local \in FileTexts /\ output \in Nat \cup {Unset}
      /\ books.rev \in Int
  BY LenProperties DEF BooksInv, BooksTypeOK
<1>1. UNCHANGED <<books, done, seen, base, orders, sessions, holder>>
  BY DEF EditLocal, EditOutput, Rotate, server, copies
<1>2. /\ local' \in FileTexts /\ local'.from = local.from /\ edits' \in Nat /\ edits <= edits' /\ token' \in Credentials
      /\ output' \in Nat \cup {Unset} /\ (output' = output \/ output' = Clock')
  BY <1>0, <1>1, BooksAssumption, SMTT(30) DEF EditLocal, EditOutput, Rotate, copies, FileTexts, Clock, Credentials
<1>3. BooksTypeOK'
  BY <1>1, <1>2 DEF BooksInv, BooksTypeOK
<1>4. FileOK'
  BY <1>1, <1>2 DEF BooksInv, FileOK, Newer
<1>5. ClockOK'
  <2>1. Clock \in Nat /\ Clock' \in Nat /\ Clock <= Clock' /\ Orders' = Orders
    BY <1>0, <1>1, <1>2 DEF Clock, Orders
  <2>2. \A k \in Orders : orders[k].born \in Nat
    BY OrderOf DEF BooksInv, HostOrder
  <2>3. output' # Unset => output' <= Clock'
    BY <1>0, <1>2, <2>1 DEF BooksInv, ClockOK
  <2> QED BY <1>1, <2>1, <2>2, <2>3 DEF BooksInv, ClockOK
<1>6. MovesOn
  BY <1>0, <1>1, ServerSame DEF Orders
<1>7. ASSUME NEW o \in Desks, sessions[o] # Unset
      PROVE  Reading(o, sessions[o])'
  <2>1. PICK x : x = sessions[o]
    OBVIOUS
  <2>2. x \in Desk /\ Reading(o, x)
    BY <1>7, <2>1 DEF BooksInv, BooksTypeOK
  <2>3. Reading(o, x)'
    BY <1>1, <1>2, <1>3, <1>6, <2>2, ReadingStays DEF BooksInv
  <2> QED BY <1>1, <2>1, <2>3
<1>8. \A k \in Orders' : Receipted(k, orders[k])'
  BY <1>1 DEF BooksInv, Receipted, Newer, Orders
<1>9. \A o \in Desks : sessions'[o] # Unset => Reading(o, sessions[o])'
  BY <1>1, <1>7
<1> QED BY <1>3, <1>4, <1>5, <1>8, <1>9 DEF BooksInv

\* A new receipt has a time of its own.
LEMMA PlaceStep ==
  ASSUME BooksInv, NEW p \in Desks, PlaceOrder(p)
  PROVE  BooksInv'
<1>s. PICK s : s = sessions[p]
  OBVIOUS
<1>r. PICK r : r = Placed(s)
  OBVIOUS
<1>n. PICK n : n = Len(orders)
  OBVIOUS
<1>1. s \in Desk /\ s.at = "asked" /\ Reading(p, s) /\ n \in Nat /\ Clock \in Nat
      /\ orders \in Seq(HostOrder) /\ done \in Seq(Nat \cup {Unset}) /\ Len(done) = n /\ edits \in Nat
  BY <1>s, <1>n, LenProperties DEF PlaceOrder, At, BooksInv, BooksTypeOK, Clock
<1>2. /\ s.kind \in Commands /\ s.body \in FileTexts \cup {Unset} /\ s.existing \in Nat \cup {Unset} /\ s.begun \in Nat
      /\ s.expected \in Nat /\ s.held \in Nat /\ s.token \in Credentials
  BY <1>1 DEF Desk
<1>3. /\ r \in HostOrder /\ r.kind = s.kind /\ r.body = s.body /\ r.existing = s.existing /\ r.begun = s.begun
      /\ r.expected = s.expected /\ r.held = s.held /\ r.born = Clock + 1 /\ r.status = "pending"
  BY <1>1, <1>2, <1>r DEF Placed, HostOrder
<1>4. /\ orders' = Append(orders, r) /\ done' = Append(done, Unset)
      /\ sessions' = [sessions EXCEPT ![p] = [at |-> "ready", key |-> n + 1]]
      /\ UNCHANGED <<books, base, local, output, holder, token, edits>>
  BY <1>s, <1>r, <1>n DEF PlaceOrder, Turns, Else
<1>5. /\ orders' \in Seq(HostOrder) /\ done' \in Seq(Nat \cup {Unset}) /\ Len(orders') = n + 1 /\ Len(done') = n + 1
      /\ orders'[n + 1] = r /\ done'[n + 1] = Unset
      /\ \A k \in 1..n : orders'[k] = orders[k] /\ done'[k] = done[k]
  BY <1>1, <1>3, <1>4, <1>n, AppendProperties
<1>6. Orders = 1..n /\ Orders' = 1..(n + 1) /\ Clock' = Clock + 1
  BY <1>1, <1>4, <1>5, <1>n, LenProperties DEF Orders, Clock
<1>7. seen' \in Nat \cup {Unset}
  BY <1>2, <1>s DEF PlaceOrder, Seen, Later, BooksInv, BooksTypeOK
<1>c. PICK c : c = [at |-> "ready", key |-> n + 1]
  OBVIOUS
<1>8. c \in Desk /\ c.at = "ready" /\ c.key = n + 1 /\ n + 1 \in Orders'
  BY <1>1, <1>6, <1>c DEF Desk
<1>9. BooksTypeOK'
  BY <1>4, <1>5, <1>7, <1>8, <1>c DEF BooksInv, BooksTypeOK
<1>10. FileOK'
  BY <1>4 DEF BooksInv, FileOK, Newer
<1>11. MovesOn
  <2>1. \A k \in Orders : k \in Orders' /\ done'[k] = done[k] /\ orders'[k].begun = orders[k].begun
    BY <1>1, <1>5, <1>6
  <2>2. books.rev \in Nat /\ books' = books
    BY <1>4 DEF BooksInv, BooksTypeOK
  <2>3. \A k \in Orders : k \in Orders' /\ (done[k] # Unset => done'[k] # Unset) /\ orders'[k].begun = orders[k].begun
    BY <2>1
  <2> QED BY <2>2, <2>3 DEF MovesOn, Newer
<1>12. ClockOK'
  <2>1. \A k \in 1..n : orders[k].born \in Nat /\ orders[k].born <= Clock
    BY <1>6, OrderOf DEF BooksInv, ClockOK, HostOrder
  <2>2. \A k \in 1..(n + 1) : k = n + 1 \/ k \in 1..n
    BY <1>1
  <2>3. \A k \in Orders' : orders'[k].born <= Clock'
    <3>1. \A k \in 1..n : orders'[k].born <= Clock'
      BY <1>1, <1>5, <1>6, <2>1, SMTT(30)
    <3>2. orders'[n + 1].born <= Clock'
      BY <1>1, <1>3, <1>5, <1>6
    <3> QED BY <1>6, <2>2, <3>1, <3>2
  <2>4. ASSUME NEW j \in Orders', NEW k \in Orders', orders'[j].born = orders'[k].born
        PROVE  j = k
    <3>1. \A i \in 1..n : orders'[i].born = orders[i].born /\ orders'[i].born < orders'[n + 1].born
      BY <1>1, <1>3, <1>5, <2>1
    <3>2. CASE j \in 1..n /\ k \in 1..n
      BY <1>6, <2>4, <3>1, <3>2 DEF BooksInv, ClockOK
    <3>3. orders'[n + 1].born \in Nat
      BY <1>1, <1>3, <1>5
    <3>4. CASE j = n + 1 \/ k = n + 1
      BY <1>6, <2>1, <2>2, <2>4, <3>1, <3>3, <3>4
    <3> QED BY <1>6, <2>2, <3>2, <3>4
  <2>5. output' # Unset => output' <= Clock'
    BY <1>1, <1>4, <1>6 DEF BooksInv, ClockOK, BooksTypeOK
  <2> QED BY <2>3, <2>4, <2>5 DEF ClockOK
<1>13. Reading(p, c)'
  BY <1>8 DEF Reading, HoldsLock
<1>14. ASSUME NEW k \in Orders'
       PROVE  Receipted(k, orders[k])'
  <2>1. CASE k \in 1..n
    <3>1. PICK x : x = orders[k]
      OBVIOUS
    <3>2. x \in HostOrder /\ Receipted(k, x) /\ k \in Orders
      BY <1>6, <2>1, <3>1, OrderOf DEF BooksInv
    <3>3. done[k] # Unset /\ Puts(x) => books'.file.own \/ books'.file.write > done[k]
      BY <1>4, <3>2 DEF Receipted
    <3>4. Receipted(k, x)'
      BY <1>5, <1>9, <1>11, <2>1, <3>2, <3>3, ReceiptedStays DEF BooksInv
    <3> QED BY <1>5, <2>1, <3>1, <3>4
  <2>2. CASE k = n + 1
    <3>1. Puts(r) <=> Puts(s)
      BY <1>3 DEF Puts
    <3>2. Receipted(n + 1, r)'
      BY <1>1, <1>3, <1>4, <1>5, <3>1 DEF Reading, Receipted, Puts, Newer
    <3> QED BY <1>5, <2>2, <3>2
  <2> QED BY <1>1, <1>6, <2>1, <2>2
<1>15. \A o \in Desks \ {p} : sessions[o] # Unset /\ HoldsLock(sessions[o]) => local'.from = local.from /\ holder' = holder
  BY <1>4
<1> QED BY <1>4, <1>8, <1>9, <1>10, <1>11, <1>12, <1>13, <1>14, <1>15, <1>c, SessionMoved

\* An answer is saved only when the server has given it.
LEMMA ReceivedStep ==
  ASSUME BooksInv, NEW p \in Desks, Received(p)
  PROVE  BooksInv'
<1>s. PICK s : s = sessions[p]
  OBVIOUS
<1>1. s \in Desk /\ s.at = "waiting" /\ Reading(p, s)
  BY <1>s DEF Received, At, BooksInv, BooksTypeOK
<1>k. PICK k : k = s.key
  OBVIOUS
<1>2. k \in Orders /\ k \in Nat /\ done[k] # Unset
  BY <1>1, <1>s, <1>k DEF Reading, Received, Desk
<1>c. PICK c : c = [s EXCEPT !.at = "saved"]
  OBVIOUS
<1>3. c \in Desk /\ c.at = "saved" /\ c.key = k
  BY <1>1, <1>c, <1>k DEF Desk
<1>r. PICK r : r = [orders[k] EXCEPT !.status = "received"]
  OBVIOUS
<1>4. /\ orders[k] \in HostOrder /\ r \in HostOrder /\ r.kind = orders[k].kind /\ r.body = orders[k].body
      /\ r.existing = orders[k].existing /\ r.begun = orders[k].begun /\ r.expected = orders[k].expected
      /\ r.held = orders[k].held /\ r.born = orders[k].born
  BY <1>2, <1>r, OrderOf DEF BooksInv, HostOrder
<1>5. /\ orders' = [orders EXCEPT ![k] = r] /\ sessions' = [sessions EXCEPT ![p] = c]
      /\ UNCHANGED <<books, done, seen, base, local, output, holder, token, edits>>
  BY <1>s, <1>k, <1>c, <1>r DEF Received, Turns, server, copies, Else
<1>6. /\ orders' \in Seq(HostOrder) /\ Len(orders') = Len(orders) /\ orders'[k] = r /\ Orders' = Orders
      /\ \A j \in Orders : j # k => orders'[j] = orders[j]
  BY <1>2, <1>4, <1>5, ExceptSeq DEF BooksInv, BooksTypeOK, Orders
<1>7. BooksTypeOK' /\ FileOK'
  BY <1>3, <1>5, <1>6 DEF BooksInv, BooksTypeOK, FileOK, Newer
<1>8. ClockOK'
  <2>1. \A j \in Orders : orders'[j].born = orders[j].born
    BY <1>4, <1>6
  <2> QED BY <1>5, <1>6, <2>1 DEF BooksInv, ClockOK, Clock
<1>9. MovesOn
  <2>1. \A j \in Orders : j \in Orders' /\ orders'[j].begun = orders[j].begun
    BY <1>4, <1>6
  <2> QED BY <1>5, <2>1, ServerSame DEF BooksInv, BooksTypeOK
<1>10. Reading(p, c)'
  BY <1>2, <1>3, <1>5, <1>6 DEF Reading, HoldsLock
<1>11. ASSUME NEW j \in Orders'
       PROVE  Receipted(j, orders[j])'
  <2>1. PICK x : x = orders'[j]
    OBVIOUS
  <2>2. Receipted(j, x)
    <3>1. CASE j # k
      BY <1>6, <2>1, <3>1 DEF BooksInv
    <3>2. CASE j = k
      <4>1. Receipted(k, orders[k]) /\ x = r
        BY <1>2, <1>6, <2>1, <3>2 DEF BooksInv
      <4>2. Puts(r) <=> Puts(orders[k])
        BY <1>4 DEF Puts
      <4> QED BY <1>2, <1>4, <3>2, <4>1, <4>2 DEF Receipted
    <3> QED BY <3>1, <3>2
  <2>3. Receipted(j, x)'
    BY <1>5, <2>2 DEF Receipted, Newer, Puts
  <2> QED BY <2>1, <2>3
<1> QED BY <1>3, <1>5, <1>7, <1>8, <1>9, <1>10, <1>11, SessionMoved

\* A baseline taken from an answer is the server's own, or another machine wrote after it.
LEMMA FinishSteps ==
  ASSUME BooksInv, NEW p \in Desks, FinishPut(p) \/ ReplaceOutput(p)
  PROVE  BooksInv'
<1>k. PICK k : k = sessions[p].key
  OBVIOUS
<1>1. sessions[p] \in Desk /\ sessions[p].at \in {"remembered", "publishing"} /\ Reading(p, sessions[p])
      /\ (FinishPut(p) => sessions[p].at = "remembered")
  BY DEF FinishPut, ReplaceOutput, At, BooksInv, BooksTypeOK
<1>2. k \in Orders /\ orders[k] \in HostOrder /\ Receipted(k, orders[k])
  BY <1>1, <1>k, OrderOf DEF Reading, BooksInv
<1>3. /\ sessions' = [sessions EXCEPT ![p] = Unset]
      /\ UNCHANGED <<books, done, seen, local, orders, holder, token, edits>>
  BY DEF FinishPut, ReplaceOutput, Quits, Turns, server, Else
<1>4. base' \in [Credentials -> Nat \cup {Unset}]
      /\ \A t \in Credentials : base'[t] # Unset => base'[t] <= books.rev /\ Newer(base'[t], local.from)
  <2>1. CASE FinishPut(p)
    <3>t. PICK c : c = orders[k].token
      OBVIOUS
    <3>1. Puts(orders[k]) /\ base' = [base EXCEPT ![c] = Later(base[c], done[k])] /\ c \in Credentials
      BY <1>2, <1>k, <2>1, <3>t DEF FinishPut, Baseline, HostOrder
    <3>2. done[k] \in Nat /\ done[k] <= books.rev /\ Newer(done[k], local.from)
      BY <1>1, <1>2, <1>k, <2>1, <3>1, OrderOf DEF Reading, Receipted, Newer, BooksInv, BooksTypeOK
    <3>3. base' = base \/ base' = [base EXCEPT ![c] = done[k]]
      BY <3>1 DEF Later, BooksInv, BooksTypeOK
    <3> QED BY <3>1, <3>2, <3>3 DEF BooksInv, BooksTypeOK, FileOK
  <2>2. CASE ReplaceOutput(p)
    BY <2>2 DEF ReplaceOutput, BooksInv, BooksTypeOK, FileOK
  <2> QED BY <2>1, <2>2
<1>5. output' = output \/ output' = orders[k].born
  BY <1>k DEF FinishPut, ReplaceOutput
<1>6. BooksTypeOK'
  BY <1>2, <1>3, <1>4, <1>5 DEF BooksInv, BooksTypeOK, HostOrder
<1>7. FileOK'
  BY <1>3, <1>4 DEF BooksInv, FileOK, Newer
<1>8. ClockOK'
  BY <1>2, <1>3, <1>5 DEF BooksInv, ClockOK, Clock, Orders
<1>9. MovesOn /\ \A j \in Orders' : Receipted(j, orders[j])'
  BY <1>3, ServerSame DEF BooksInv, BooksTypeOK, Orders, Receipted, Newer
<1> QED BY <1>3, <1>6, <1>7, <1>8, <1>9, SessionMoved

\* A download replaces the copy only where nobody changed it, and the lock keeps it until the
\* baseline is written.
LEMMA GetSteps ==
  ASSUME BooksInv, NEW p \in Desks, BeginGet(p) \/ AnswerGet(p) \/ PublishGet(p) \/ ReplaceLocal(p) \/ Track(p)
  PROVE  BooksInv'
<1>0. /\ books \in [rev: Nat, file: [write: Nat, own: BOOLEAN, text: FileTexts]] /\ local \in FileTexts
      /\ books.file.text.from \in Nat /\ local.from \in Nat /\ token \in Credentials
  BY DEF BooksInv, BooksTypeOK, FileTexts
<1>s. PICK s : s = sessions[p]
  OBVIOUS
<1>1. CASE BeginGet(p)
  <2>c. PICK c : c = [at |-> "getting", token |-> token, existing |-> local]
    OBVIOUS
  <2>1. c \in Desk /\ c.at = "getting" /\ c.existing = local
    BY <1>0, <2>c DEF Desk
  <2>2. /\ sessions' = [sessions EXCEPT ![p] = c]
        /\ UNCHANGED <<books, done, seen, base, local, output, orders, holder, token, edits>>
    BY <1>1, <2>c DEF BeginGet, Turns, server, copies, Else
  <2>3. Reading(p, c)'
    BY <2>1, <2>2 DEF Reading, BooksInv, FileOK, HoldsLock
  <2> QED BY <2>1, <2>2, <2>3, OnlyMoves DEF BooksInv, BooksTypeOK
<1>2. CASE AnswerGet(p)
  <2>1. s \in Desk /\ s.at = "getting" /\ Reading(p, s)
    BY <1>2, <1>s DEF AnswerGet, At, BooksInv, BooksTypeOK
  <2>2. s.existing \in FileTexts /\ s.token \in Credentials
    BY <2>1 DEF Desk
  <2>c. PICK c : c = [at |-> "got", token |-> s.token, existing |-> s.existing, rev |-> books.rev, text |-> books.file.text]
    OBVIOUS
  <2>3. c \in Desk /\ c.at = "got" /\ c.existing = s.existing /\ c.rev = books.rev /\ c.text = books.file.text
    BY <1>0, <2>2, <2>c DEF Desk
  <2>4. /\ sessions' = [sessions EXCEPT ![p] = c]
        /\ UNCHANGED <<books, done, seen, base, local, output, orders, holder, token, edits>>
    BY <1>2, <1>s, <2>c DEF AnswerGet, Turns, server, copies, Else
  <2>5. Reading(p, c)
    BY <1>0, <2>1, <2>3 DEF Reading, BooksInv, FileOK, Newer, HoldsLock
  <2>6. Reading(p, c)'
    BY <2>3, <2>4, <2>5 DEF Reading, Newer, HoldsLock
  <2> QED BY <2>3, <2>4, <2>6, OnlyMoves DEF BooksInv, BooksTypeOK
<1>3. CASE PublishGet(p)
  <2>1. s \in Desk /\ s.at = "got" /\ Reading(p, s) /\ holder = Unset
    BY <1>3, <1>s DEF PublishGet, At, BooksInv, BooksTypeOK
  <2>2. UNCHANGED <<books, done, seen, base, local, output, orders, token, edits>>
    BY <1>3 DEF PublishGet, server, copies, Else
  <2>3. \A o \in Desks \ {p} : holder = o => holder' = o
    BY <2>1, BooksAssumption
  <2>4. CASE local \in {s.existing, s.text}
    <3>c. PICK c : c = [s EXCEPT !.at = IF local = s.text THEN "tracking" ELSE "replacing"]
      OBVIOUS
    <3>1. /\ c \in Desk /\ HoldsLock(c) /\ c.rev = s.rev /\ c.existing = s.existing /\ c.text = s.text
          /\ c.at = "tracking" => local = s.text
      BY <2>1, <3>c DEF Desk, HoldsLock
    <3>2. sessions' = [sessions EXCEPT ![p] = c] /\ holder' = p
      BY <1>3, <1>s, <2>4, <3>c DEF PublishGet, Turns
    <3>3. s.text.from <= books.rev /\ Newer(s.rev, s.text.from) /\ s.rev <= books.rev /\ s.existing.from <= s.rev
      BY <2>1 DEF Reading
    <3>4. Reading(p, c)'
      BY <2>2, <2>4, <3>1, <3>2, <3>3 DEF Reading, HoldsLock, Newer
    <3> QED BY <2>2, <2>3, <3>1, <3>2, <3>4, OnlyMoves DEF BooksInv, BooksTypeOK
  <2>5. CASE local \notin {s.existing, s.text}
    <3>1. sessions' = [sessions EXCEPT ![p] = Unset] /\ UNCHANGED holder
      BY <1>3, <1>s, <2>5 DEF PublishGet, Quits, Turns
    <3> QED BY <2>2, <3>1, OnlyMoves DEF BooksInv, BooksTypeOK
  <2> QED BY <2>4, <2>5
<1>5. CASE ReplaceLocal(p)
  <2>1. s \in Desk /\ s.at = "replacing" /\ Reading(p, s)
    BY <1>5, <1>s DEF ReplaceLocal, At, BooksInv, BooksTypeOK
  <2>2. s.existing \in FileTexts /\ s.rev \in Nat /\ s.text \in FileTexts /\ s.existing.from \in Nat /\ s.text.from \in Nat
    BY <2>1 DEF Desk, FileTexts
  <2>3. /\ s.text.from <= books.rev /\ Newer(s.rev, s.text.from) /\ s.rev <= books.rev /\ s.existing.from <= s.rev
        /\ local.from \in {s.existing.from, s.text.from} /\ holder = p
    BY <2>1 DEF Reading, HoldsLock
  <2>c. PICK c : c = [s EXCEPT !.at = "tracking"]
    OBVIOUS
  <2>4. c \in Desk /\ c.at = "tracking" /\ c.rev = s.rev
    BY <2>1, <2>c DEF Desk
  <2>5. /\ sessions' = [sessions EXCEPT ![p] = c] /\ local' = s.text
        /\ UNCHANGED <<books, done, seen, base, output, orders, holder, token, edits>>
    BY <1>5, <1>s, <2>c DEF ReplaceLocal, Turns, server, Else
  <2>6. ASSUME NEW t \in Credentials, base[t] # Unset
        PROVE  base[t] <= books.rev /\ Newer(base[t], s.text.from)
    <3>1. base[t] \in Nat /\ base[t] <= books.rev /\ Newer(base[t], local.from)
      BY <2>6 DEF BooksInv, BooksTypeOK, FileOK
    <3> QED BY <1>0, <2>2, <2>3, <3>1 DEF Newer
  <2>7. BooksTypeOK'
    BY <2>2, <2>4, <2>5 DEF BooksInv, BooksTypeOK
  <2>8. FileOK'
    BY <2>3, <2>5, <2>6 DEF BooksInv, FileOK, Newer
  <2>9. ClockOK'
    BY <2>5 DEF BooksInv, ClockOK, Clock, Orders
  <2>10. MovesOn /\ \A j \in Orders' : Receipted(j, orders[j])'
    BY <2>5, ServerSame DEF BooksInv, BooksTypeOK, Orders, Receipted, Newer
  <2>11. Reading(p, c)'
    BY <2>3, <2>4, <2>5 DEF Reading, Newer, HoldsLock
  <2>12. \A o \in Desks \ {p} : ~(sessions[o] # Unset /\ HoldsLock(sessions[o]))
    BY <2>3 DEF BooksInv, Reading
  <2> QED BY <2>4, <2>5, <2>7, <2>8, <2>9, <2>10, <2>11, <2>12, SessionMoved
<1>4. CASE Track(p)
  <2>1. s \in Desk /\ s.at = "tracking" /\ Reading(p, s)
    BY <1>4, <1>s DEF Track, At, BooksInv, BooksTypeOK
  <2>2. s.rev \in Nat /\ s.token \in Credentials /\ s.rev <= books.rev /\ Newer(s.rev, local.from) /\ holder = p
    BY <2>1 DEF Desk, Reading, HoldsLock
  <2>c. PICK c : c = [at |-> "tracked", rev |-> s.rev]
    OBVIOUS
  <2>3. c \in Desk /\ c.at = "tracked"
    BY <2>2, <2>c DEF Desk
  <2>4. /\ sessions' = [sessions EXCEPT ![p] = c] /\ base' = [base EXCEPT ![s.token] = s.rev]
        /\ UNCHANGED <<books, done, seen, local, output, orders, token, edits>>
    BY <1>4, <1>s, <2>c DEF Track, Turns, server, Else
  <2>5. BooksTypeOK'
    BY <2>2, <2>3, <2>4 DEF BooksInv, BooksTypeOK
  <2>6. FileOK'
    <3>1. \A t \in Credentials : base'[t] = base[t] \/ base'[t] = s.rev
      BY <2>2, <2>4 DEF BooksInv, BooksTypeOK
    <3> QED BY <2>2, <2>4, <3>1 DEF BooksInv, FileOK, Newer
  <2>7. ClockOK'
    BY <2>4 DEF BooksInv, ClockOK, Clock, Orders
  <2>8. MovesOn /\ \A j \in Orders' : Receipted(j, orders[j])'
    BY <2>4, ServerSame DEF BooksInv, BooksTypeOK, Orders, Receipted, Newer
  <2>9. \A o \in Desks \ {p} : ~(sessions[o] # Unset /\ HoldsLock(sessions[o]))
    BY <2>2 DEF BooksInv, Reading
  <2>10. Reading(p, c)'
    BY <2>3 DEF Reading, HoldsLock
  <2> QED BY <2>3, <2>4, <2>5, <2>6, <2>7, <2>8, <2>9, <2>10, SessionMoved
<1> QED BY <1>1, <1>2, <1>3, <1>4, <1>5

-----------------------------------------------------------------------------
(* The invariant *)

LEMMA InitIInv == BooksInit => BooksInv
<1> SUFFICES ASSUME BooksInit PROVE BooksInv
  OBVIOUS
<1>1. /\ done = <<>> /\ orders = <<>> /\ Len(done) = 0 /\ Len(orders) = 0 /\ Orders = {}
      /\ Text(0) \in FileTexts /\ Text(0).from = 0
  BY LenProperties DEF BooksInit, Orders, Text, FileTexts
<1>2. BooksTypeOK
  BY <1>1, BooksAssumption DEF BooksInit, BooksTypeOK, Credentials
<1>3. FileOK /\ ClockOK
  BY <1>1 DEF BooksInit, FileOK, ClockOK, Credentials
<1> QED BY <1>1, <1>2, <1>3 DEF BooksInit, BooksInv

LEMMA NextIInv == BooksInv /\ [BooksNext]_booksVars => BooksInv'
<1> SUFFICES ASSUME BooksInv, [BooksNext]_booksVars PROVE BooksInv'
  OBVIOUS
<1>1. ASSUME NEW k \in Orders, Accepts(k) PROVE BooksInv'
  BY <1>1, AcceptsStep
<1>2. ASSUME NEW file \in BOOLEAN, Elsewhere(file) PROVE BooksInv'
  BY <1>2, ElsewhereStep
<1>3. CASE EditLocal \/ EditOutput \/ Rotate
  BY <1>3, PeopleSteps
<1>4. ASSUME NEW p \in Desks, Works(p) PROVE BooksInv'
  <2>1. CASE (\E kind \in Commands : Begin(p, kind)) \/ Expects(p)
    BY <2>1, PrepareSteps
  <2>2. CASE \/ Refuses(p) \/ SendOrder(p) \/ Remember(p) \/ PublishOutput(p) \/ RememberGet(p) \/ Breaks(p)
             \/ \E k \in Orders : RetryOrder(p, k)
    BY <2>2, WaitSteps
  <2>3. CASE PlaceOrder(p)
    BY <2>3, PlaceStep
  <2>4. CASE Received(p)
    BY <2>4, ReceivedStep
  <2>5. CASE FinishPut(p) \/ ReplaceOutput(p)
    BY <2>5, FinishSteps
  <2>6. CASE BeginGet(p) \/ AnswerGet(p) \/ PublishGet(p) \/ ReplaceLocal(p) \/ Track(p)
    BY <2>6, GetSteps
  <2> QED BY <1>4, <2>1, <2>2, <2>3, <2>4, <2>5, <2>6 DEF Works
<1>5. CASE UNCHANGED booksVars
  <2>1. UNCHANGED <<books, done, seen, base, local, output, orders, sessions, holder, token, edits>>
    BY <1>5 DEF booksVars, server, copies
  <2>2. BooksTypeOK' /\ FileOK' /\ ClockOK'
    BY <2>1 DEF BooksInv, BooksTypeOK, FileOK, ClockOK, Clock, Orders, Newer
  <2>3. (\A p \in Desks : sessions[p] # Unset => Reading(p, sessions[p]))'
    BY <2>1 DEF BooksInv, Reading, Newer, Orders, HoldsLock
  <2>4. (\A k \in Orders : Receipted(k, orders[k]))'
    BY <2>1 DEF BooksInv, Receipted, Newer, Orders
  <2> QED BY <2>2, <2>3, <2>4 DEF BooksInv
<1> QED BY <1>1, <1>2, <1>3, <1>4, <1>5 DEF BooksNext

\* What a folder, its sessions and its receipts believe of the server was so, in every state
\* that interleaved commands, late answers, retries and stops can reach.
THEOREM BooksInvariance == BooksSpec => []BooksInv
<1>1. BooksInit => BooksInv
  BY InitIInv
<1>2. BooksInv /\ [BooksNext]_booksVars => BooksInv'
  BY NextIInv
<1> QED BY <1>1, <1>2, PTL DEF BooksSpec

-----------------------------------------------------------------------------
(* Nothing that came since is undone *)

LEMMA StepSeen ==
  ASSUME BooksInv, BooksNext
  PROVE  SeenOnlyGrows
<1>1. SUFFICES ASSUME seen' # seen PROVE seen = Unset \/ seen' > seen
  BY DEF SeenOnlyGrows
<1>2. PICK p \in Desks : PlaceOrder(p) \/ Remember(p) \/ RememberGet(p)
  BY <1>1 DEF BooksNext, Works, Accepts, Elsewhere, EditLocal, EditOutput, Rotate, Begin, Refuses, Expects,
     SendOrder, Received, FinishPut, PublishOutput, ReplaceOutput, Breaks, RetryOrder, BeginGet, AnswerGet, PublishGet,
     ReplaceLocal, Track, copies
<1>3. \E rev : seen' = Later(seen, rev)
  BY <1>1, <1>2 DEF PlaceOrder, Remember, RememberGet, Seen
<1> QED BY <1>1, <1>3 DEF Later

\* The output that a command compared was there when the command was prepared.
LEMMA StepOutputs ==
  ASSUME BooksInv, BooksNext
  PROVE  OutputsKept
<1>1. SUFFICES ASSUME NEW k \in Orders, output' # output, output # Unset, ~Puts(orders[k]), output' = orders[k].born,
                      ~CameSinceLooked(k)
               PROVE  output <= orders[k].begun
  BY DEF OutputsKept
<1>2. orders[k] \in HostOrder /\ orders[k].born <= Clock /\ orders[k].born \in Nat /\ Clock \in Nat
  <2>1. orders[k] \in HostOrder
    BY OrderOf DEF BooksInv
  <2>2. Len(orders) \in Nat /\ edits \in Nat
    BY LenProperties DEF BooksInv, BooksTypeOK
  <2> QED BY <2>1, <2>2 DEF BooksInv, ClockOK, Clock, HostOrder
<1>3. ~EditOutput
  BY <1>1, <1>2 DEF EditOutput
<1>4. PICK p \in Desks : ReplaceOutput(p)
  BY <1>1, <1>3 DEF BooksNext, Works, Accepts, Elsewhere, EditLocal, Rotate, Begin, Refuses, Expects, PlaceOrder,
     SendOrder, Received, Remember, FinishPut, PublishOutput, Breaks, RetryOrder, BeginGet, AnswerGet, PublishGet,
     ReplaceLocal, Track, RememberGet, copies
<1>j. PICK j : j = sessions[p].key
  OBVIOUS
<1>5. /\ j \in Orders /\ At(p, "publishing") /\ p \in DOMAIN sessions
      /\ sessions[p].current # Unset => sessions[p].current <= orders[j].begun
  BY <1>4, <1>j DEF ReplaceOutput, At, BooksInv, BooksTypeOK, Reading
<1>6. output' = orders[j].born
  BY <1>4, <1>j DEF ReplaceOutput
<1>7. j = k
  BY <1>1, <1>5, <1>6 DEF BooksInv, ClockOK
<1>8. sessions[p].current = output
  BY <1>1, <1>5, <1>7, <1>j DEF CameSinceLooked
<1> QED BY <1>1, <1>5, <1>7, <1>8

LEMMA StepOthers ==
  ASSUME BooksInv, BooksNext
  PROVE  OthersTextKept
<1>1. SUFFICES ASSUME NEW k \in Orders, done[k] = Unset, done'[k] # Unset, orders[k].kind = "put", ~books.file.own,
                      ~DownloadedBetween(orders[k])
               PROVE  orders[k].body.from >= books.file.write
  BY DEF OthersTextKept, Replaces
<1>2. orders[k] \in HostOrder /\ Receipted(k, orders[k]) /\ books.file.write <= books.rev
      /\ books.rev \in Nat /\ books.file.write \in Nat
  BY OrderOf DEF BooksInv, FileOK, BooksTypeOK
<1>3. orders[k].held \in Nat /\ orders[k].body.from \in Nat /\ orders[k].held <= orders[k].body.from
  BY <1>1, <1>2 DEF HostOrder, Receipted, Puts, FileTexts, DownloadedBetween
<1>4. Accepts(k)
  <2>1. ASSUME NEW p \in Desks, PlaceOrder(p) PROVE FALSE
    <3>1. done' = Append(done, Unset) /\ k \in 1..Len(done) /\ done \in Seq(Nat \cup {Unset})
      BY <2>1, OrderOf DEF PlaceOrder, BooksInv, BooksTypeOK
    <3>2. done'[k] = done[k]
      BY <3>1, AppendProperties
    <3> QED BY <1>1, <3>2
  <2>2. ASSUME NEW j \in Orders, Accepts(j) PROVE j = k
    <3>1. done' = [done EXCEPT ![j] = IF orders[j].kind = "read" THEN books.rev ELSE books.rev + 1]
      BY <2>2 DEF Accepts
    <3> QED BY <1>1, <3>1, OrderOf DEF BooksInv
  <2> QED BY <1>1, <2>1, <2>2 DEF BooksNext, Works, Elsewhere, EditLocal, EditOutput, Rotate, Begin, Refuses,
          Expects, SendOrder, Received, Remember, FinishPut, PublishOutput, ReplaceOutput, Breaks, RetryOrder, BeginGet,
          AnswerGet, PublishGet, ReplaceLocal, Track, RememberGet, server
<1>5. orders[k].expected = books.rev
  BY <1>1, <1>4 DEF Accepts, Fresh
<1> QED BY <1>1, <1>2, <1>3, <1>5 DEF Receipted, Newer

\* However late answers come and however receipts are retried, stopped and interleaved with
\* people and other machines: the revision seen only grows; an output written since is kept,
\* but for the moment between the last fingerprint and the replacement; and a text of another
\* machine is overwritten only by a text made from it or from a later one, but for a download
\* of another session between reading a file and reading its baseline (remote._finish,
\* remote.run_file).
THEOREM WhatCameSinceIsKept == BooksSpec => KeepsWhatCameSince
<1>1. BooksInv /\ [BooksNext]_booksVars => [SeenOnlyGrows /\ OutputsKept /\ OthersTextKept]_booksVars
  BY StepSeen, StepOutputs, StepOthers
<1> QED BY <1>1, BooksInvariance, PTL DEF BooksSpec, KeepsWhatCameSince

-----------------------------------------------------------------------------
(* A COMPANY THAT MOVES TO A SERVER *)

LedgerBodies == [setting: Settings, evidence: Documents \cup {Absent}]
Bodies == Settings \cup Documents \cup Extras \cup {Absent} \cup LedgerBodies
Exporting == [at: {"reading", "captured", "checked"}, stamps: [Files -> Nat \cup {Absent}],
              extra: Bodies, got: Seq(Bodies)]

\* The folder and the export.
FolderOK ==
  /\ folder \in [Files -> [body: Bodies, at: Nat]]
  /\ Body("ledger") \in LedgerBodies /\ Body("evidence") \in Documents
  /\ writer \in Settings \cup {Absent}
  /\ export \in Exporting \cup {Absent}

\* A file whose stamp has not moved since the inventory holds what was copied of it.
StillCopied ==
  export # Absent =>
    /\ \A f \in {"entity", "evidence", "ledger"} :
         export.stamps[f] \in Nat /\ export.stamps[f] <= folder[f].at
    /\ Len(export.got) \in 0..3 /\ (export.at # "reading" => Len(export.got) = 3)
    /\ \A n \in 1..Len(export.got) :
         folder[Order[n]].at = export.stamps[Order[n]] => export.got[n] = Body(Order[n])

CopyInv == FolderOK /\ StillCopied

-----------------------------------------------------------------------------
(* The folder *)

\* The clock of the folder is the latest of its stamps.
LEMMA NowIsLatest ==
  ASSUME folder \in [Files -> [body: Bodies, at: Nat]]
  PROVE  Now \in Nat /\ \A f \in Files : folder[f].at <= Now
<1> DEFINE stamps == {folder[f].at : f \in Files}
           Latest(n) == n \in stamps /\ \A f \in Files : folder[f].at <= n
<1>1. \A f \in Files : folder[f].at \in Nat
  OBVIOUS
<1>2. \E n : Latest(n)
  BY <1>1 DEF Files
<1>3. Latest(CHOOSE n : Latest(n))
  BY <1>2
<1>4. Now = CHOOSE n : Latest(n)
  BY DEF Now
<1> QED BY <1>1, <1>3, <1>4

\* A write gives one file a stamp that no inventory has seen.
LEMMA WriteKeeps ==
  ASSUME CopyInv, NEW f \in Files, NEW b \in Bodies, Write(f, b), export' = export,
         f = "ledger" => b \in LedgerBodies, f = "evidence" => b \in Documents,
         writer' \in Settings \cup {Absent}
  PROVE  CopyInv'
<1>1. Now \in Nat /\ \A g \in Files : folder[g].at <= Now
  BY NowIsLatest DEF CopyInv, FolderOK
<1>2. /\ folder' = [folder EXCEPT ![f] = [body |-> b, at |-> Now + 1]]
      /\ folder \in [Files -> [body: Bodies, at: Nat]]
  BY DEF Write, CopyInv, FolderOK
<1>3. /\ folder' \in [Files -> [body: Bodies, at: Nat]]
      /\ folder'[f].body = b /\ folder'[f].at = Now + 1
      /\ \A g \in Files : g # f => folder'[g] = folder[g]
  BY <1>1, <1>2
<1>4. FolderOK'
  BY <1>3 DEF CopyInv, FolderOK, Body, Files
<1>5. StillCopied'
  <2> SUFFICES ASSUME export # Absent
               PROVE  StillCopied'
    BY DEF StillCopied
  <2>1. /\ \A g \in {"entity", "evidence", "ledger"} : export.stamps[g] \in Nat /\ export.stamps[g] <= folder[g].at
        /\ \A n \in 1..Len(export.got) :
             folder[Order[n]].at = export.stamps[Order[n]] => export.got[n] = folder[Order[n]].body
        /\ Len(export.got) \in 0..3 /\ (export.at # "reading" => Len(export.got) = 3)
    BY DEF CopyInv, StillCopied, Body
  <2>2. ASSUME NEW g \in {"entity", "evidence", "ledger"}
        PROVE  export.stamps[g] <= folder'[g].at
    <3>1. g \in Files /\ folder[g].at \in Nat /\ folder[g].at <= Now
      BY <1>1, <1>2 DEF Files
    <3>2. CASE g = f
      BY <1>1, <1>3, <2>1, <3>1, <3>2
    <3>3. CASE g # f
      BY <1>3, <2>1, <3>1, <3>3
    <3> QED BY <3>2, <3>3
  <2>3. ASSUME NEW n \in 1..Len(export.got), folder'[Order[n]].at = export.stamps[Order[n]]
        PROVE  export.got[n] = folder'[Order[n]].body
    <3>0. n = 1 \/ n = 2 \/ n = 3
      <4>1. PICK l : l = Len(export.got)
        OBVIOUS
      <4>2. l \in 0..3 /\ n \in 1..l
        BY <2>1, <4>1
      <4> QED BY <4>2
    <3>1. Order[n] \in {"entity", "evidence", "ledger"}
      BY <3>0 DEF Order
    <3>2. folder[Order[n]].at \in Nat /\ folder[Order[n]].at <= Now /\ export.stamps[Order[n]] <= folder[Order[n]].at
      BY <1>1, <1>2, <2>1, <3>1 DEF Files
    <3>3. Order[n] # f
      BY <1>1, <1>3, <2>3, <3>2
    <3> QED BY <1>3, <2>1, <2>3, <3>1, <3>3 DEF Files
  <2> QED BY <2>1, <2>2, <2>3 DEF StillCopied, Body
<1> QED BY <1>4, <1>5 DEF CopyInv

\* People who write.
LEMMA FolderSteps ==
  ASSUME CopyInv, FolderNext
  PROVE  CopyInv'
<1>1. ASSUME NEW s \in Settings, SetLedger(s)
      PROVE  CopyInv'
  <2>1. [Body("ledger") EXCEPT !.setting = s] \in LedgerBodies
    BY DEF CopyInv, FolderOK, LedgerBodies
  <2> QED BY <1>1, <2>1, WriteKeeps DEF SetLedger, Untouched, Files, Bodies
<1>2. CASE SetEntity
  BY <1>2, WriteKeeps DEF SetEntity, Untouched, Files, Bodies, CopyInv, FolderOK
<1>3. CASE WriterStops
  BY <1>3 DEF WriterStops, Untouched, CopyInv, FolderOK, StillCopied, Body
<1>4. CASE NameEvidence
  <2>1. [Body("ledger") EXCEPT !.evidence = Body("evidence")] \in LedgerBodies
    BY DEF CopyInv, FolderOK, LedgerBodies
  <2>2. writer' \in Settings \cup {Absent}
    BY <1>4 DEF NameEvidence, CopyInv, FolderOK
  <2> QED BY <1>4, <2>1, <2>2, WriteKeeps DEF NameEvidence, Untouched, Files, Bodies
<1>5. ASSUME NEW d \in Documents, PutFile("evidence", d)
      PROVE  CopyInv'
  <2>1. writer' \in Settings \cup {Absent}
    BY <1>5 DEF PutFile, CopyInv, FolderOK
  <2> QED BY <1>5, <2>1, WriteKeeps DEF PutFile, Untouched, Files, Bodies
<1>6. ASSUME NEW x \in Extras, PutFile("extra", x)
      PROVE  CopyInv'
  <2>1. writer' \in Settings \cup {Absent}
    BY <1>6 DEF PutFile, CopyInv, FolderOK
  <2> QED BY <1>6, <2>1, WriteKeeps DEF PutFile, Untouched, Files, Bodies
<1> QED BY <1>1, <1>2, <1>3, <1>4, <1>5, <1>6 DEF FolderNext

-----------------------------------------------------------------------------
(* The export *)

LEMMA ExportSteps ==
  ASSUME CopyInv, ExportNext
  PROVE  CopyInv'
<1>1. folder' = folder /\ writer' = writer
  BY DEF ExportNext, Inventory, ReadFile, Captured, Checked, PublishBundle, DiscardBundle, EndExport, source
<1>2. FolderOK /\ (export' \in Exporting \cup {Absent} => FolderOK')
  BY <1>1 DEF CopyInv, FolderOK, Body
<1>3. CASE export' \in {export, Absent}
  BY <1>1, <1>2, <1>3 DEF CopyInv, StillCopied, Body, FolderOK
<1>4. CASE Inventory
  <2>1. export' = [at |-> "reading", stamps |-> Stamps, extra |-> Body("extra"), got |-> <<>>]
    BY <1>4 DEF Inventory
  <2>2. /\ Stamps \in [Files -> Nat \cup {Absent}]
        /\ \A f \in {"entity", "evidence", "ledger"} : Stamps[f] = folder[f].at /\ folder[f].at \in Nat
    BY <1>2 DEF Stamps, FolderOK, Files
  <2>3. Body("extra") \in Bodies
    BY <1>2 DEF FolderOK, Body, Files
  <2>4. export' \in Exporting
    BY <2>1, <2>2, <2>3 DEF Exporting
  <2>5. StillCopied'
    BY <1>1, <2>1, <2>2 DEF StillCopied
  <2> QED BY <1>2, <2>4, <2>5 DEF CopyInv
<1>5. CASE ReadFile /\ export' \notin {export, Absent}
  <2> DEFINE k == Len(export.got) + 1
             b == Body(Order[k])
  <2>1. /\ export # Absent /\ export.at = "reading" /\ Len(export.got) < Len(Order)
        /\ folder[Order[k]].at = export.stamps[Order[k]]
        /\ export' = [export EXCEPT !.got = Append(@, b)]
    BY <1>5 DEF ReadFile, EndExport
  <2>2. export \in Exporting /\ export.got \in Seq(Bodies) /\ k \in 1..3 /\ Len(Order) = 3
    BY <1>2, <2>1 DEF FolderOK, Exporting, Order
  <2>3. b \in Bodies
    BY <1>2, <2>2 DEF FolderOK, Body, Files, Order
  <2> HIDE DEF b
  <2>4. Append(export.got, b) \in Seq(Bodies) /\ Len(Append(export.got, b)) = k
        /\ Append(export.got, b)[k] = b
        /\ \A n \in 1..Len(export.got) : Append(export.got, b)[n] = export.got[n]
    BY <2>2, <2>3
  <2>5. export' \in Exporting /\ export'.stamps = export.stamps /\ export'.at = "reading"
        /\ export'.got = Append(export.got, b)
    BY <2>1, <2>2, <2>4 DEF Exporting
  <2>6. ASSUME NEW n \in 1..k, folder[Order[n]].at = export.stamps[Order[n]]
        PROVE  Append(export.got, b)[n] = Body(Order[n])
    <3>1. CASE n = k
      BY <2>4, <3>1 DEF b
    <3>2. CASE n # k
      BY <2>1, <2>2, <2>4, <2>6, <3>2 DEF CopyInv, StillCopied
    <3> QED BY <3>1, <3>2
  <2>7. StillCopied'
    BY <1>1, <2>1, <2>2, <2>4, <2>5, <2>6 DEF CopyInv, StillCopied, Body
  <2> QED BY <1>2, <2>5, <2>7 DEF CopyInv
<1>6. CASE (Captured \/ Checked) /\ export' \notin {export, Absent}
  <2>1. PICK phase \in {"captured", "checked"} : export' = [export EXCEPT !.at = phase]
    BY <1>6 DEF Captured, Checked, EndExport
  <2>2. export # Absent /\ Len(export.got) = 3
    BY <1>6 DEF Captured, Checked, CopyInv, StillCopied, Order
  <2>3. export \in Exporting
    BY <1>2, <2>2 DEF FolderOK
  <2>4. export' \in Exporting /\ export'.stamps = export.stamps /\ export'.got = export.got
    BY <2>1, <2>3 DEF Exporting
  <2>5. StillCopied'
    BY <1>1, <2>2, <2>4, SMTT(30) DEF CopyInv, StillCopied, Body
  <2> QED BY <1>2, <2>4, <2>5 DEF CopyInv
<1>7. CASE (PublishBundle \/ DiscardBundle)
  BY <1>3, <1>7 DEF PublishBundle, DiscardBundle
<1> QED BY <1>3, <1>4, <1>5, <1>6, <1>7 DEF ExportNext

-----------------------------------------------------------------------------
\* Imports and the server leave the folder and the export alone.
LEMMA CopyNext ==
  ASSUME CopyInv, [AdoptionNext]_adoptionVars
  PROVE  CopyInv'
<1>1. CASE FolderNext \/ ExportNext
  BY <1>1, FolderSteps, ExportSteps
<1>2. CASE UNCHANGED <<folder, writer, export>>
  BY <1>2 DEF CopyInv, FolderOK, StillCopied, Body
<1>3. CASE (\E p \in Clients : ImportNext(p)) \/ ServerNext \/ UNCHANGED adoptionVars
  <2>1. ASSUME NEW p \in Clients, ImportNext(p)
        PROVE  UNCHANGED <<folder, writer, export>>
    <3>1. UNCHANGED <<source, export>>
      BY <2>1, Zenon DEF ImportNext, Adopts, Freeze, Record, Send, Save, Ends, Answers, Retry, Beyond
    <3> QED BY <3>1 DEF source
  <2>2. ASSUME ServerNext
        PROVE  UNCHANGED <<folder, writer, export>>
    BY <2>2 DEF ServerNext, Arrives, AnotherMachine, Beyond, source
  <2> QED BY <1>2, <1>3, <2>1, <2>2 DEF adoptionVars, source
<1> QED BY <1>1, <1>3 DEF AdoptionNext

LEMMA CopyInit == AdoptionInit => CopyInv
<1> SUFFICES ASSUME AdoptionInit
             PROVE  CopyInv
  OBVIOUS
<1>1. PICK s \in Settings, d \in Documents :
        folder = [f \in Files |->
               [at |-> 0, body |-> CASE f = "entity" -> s [] f = "evidence" -> d [] f = "extra" -> Absent
                                     [] f = "ledger" -> [setting |-> s, evidence |-> Absent]]]
  BY DEF AdoptionInit
<1> DEFINE first == [setting |-> s, evidence |-> Absent]
<1>2. first \in LedgerBodies
  BY DEF LedgerBodies
<1> HIDE DEF first
<1>3. FolderOK
  BY <1>1, <1>2 DEF FolderOK, Files, Body, Bodies, AdoptionInit, first
<1> QED BY <1>3 DEF CopyInv, StillCopied, AdoptionInit

\* An export keeps the folder as it stands, with one setting in both places and the
\* evidence that the ledger names, or nothing (hosted_migration._capture, _ledger).
THEOREM ExportKeepsCopy == AdoptionSpec => KeepsCopy
<1> DEFINE Step == Keeps => /\ export'.got = [n \in 1..Len(Order) |-> folder[Order[n]].body]
                            /\ folder["ledger"].body.setting = folder["entity"].body
                            /\ folder["ledger"].body.evidence \in {Absent, folder["evidence"].body}
<1>1. ASSUME CopyInv, [AdoptionNext]_adoptionVars, Keeps
      PROVE  Step
  <2>1. Checked
    BY <1>1 DEF Keeps, AdoptionNext, FolderNext, ExportNext, SetLedger, SetEntity, WriterStops, NameEvidence, PutFile,
                Untouched, Inventory, ReadFile, Captured, PublishBundle, DiscardBundle, EndExport, ImportNext, Adopts,
                Freeze, Record, Send, Save, Ends, Answers, Retry, Beyond, ServerNext, Arrives, AnotherMachine, adoptionVars
  <2>2. /\ export # Absent /\ Agrees(Copy(export.got)) /\ SourceKept
        /\ export' = [export EXCEPT !.at = "checked"]
    BY <1>1, <2>1 DEF Checked, Keeps, EndExport
  <2>3. export \in Exporting /\ Len(export.got) = 3 /\ export.got \in Seq(Bodies) /\ export'.got = export.got
    BY <1>1, <2>2 DEF CopyInv, FolderOK, StillCopied, Exporting, Keeps
  <2>4. \A f \in {"entity", "evidence", "ledger"} : folder[f].at = export.stamps[f]
    BY <2>2 DEF SourceKept, Stamps, Files
  <2>5. \A n \in 1..3 : export.got[n] = folder[Order[n]].body
    <3>1. \A n \in 1..3 : n = 1 \/ n = 2 \/ n = 3
      OBVIOUS
    <3>2. \A n \in 1..3 : Order[n] \in {"entity", "evidence", "ledger"}
      BY <3>1 DEF Order
    <3> QED BY <1>1, <2>2, <2>3, <2>4, <3>2 DEF CopyInv, StillCopied, Body
  <2>6. export.got = [n \in 1..Len(Order) |-> folder[Order[n]].body]
    <3>1. Len(Order) = 3 /\ DOMAIN export.got = 1..3
      BY <2>3 DEF Order
    <3>2. \A n \in 1..3 : [i \in 1..3 |-> folder[Order[i]].body][n] = export.got[n]
      BY <2>5
    <3>3. export.got = [n \in 1..3 |-> export.got[n]]
      BY <2>3
    <3> QED BY <3>1, <3>2, <3>3
  <2>7. Copy(export.got) = [entity |-> folder["entity"].body, evidence |-> folder["evidence"].body,
                            ledger |-> folder["ledger"].body]
    BY <2>5 DEF Copy, Order
  <2> QED BY <2>2, <2>3, <2>6, <2>7, SMTT(30) DEF Agrees
<1> QED BY <1>1, CopyInit, CopyNext, PTL DEF AdoptionSpec, KeepsCopy

-----------------------------------------------------------------------------
(* IMPORT.  A receipt never loses its intent, and whatever is on its way to the *)
(* server carries the intent of a receipt.                                      *)

AdoptionIds == Connections \X Keys
Companies == {CompanyOf[n] : n \in Connections}
Snaps == [entity: Bodies, evidence: Bodies, ledger: Bodies] \cup {Absent, Torn}
AdoptionIntents == [id: AdoptionIds, snap: Snaps, note: Explanations]
AdoptionReceipt == [intent: AdoptionIntents, status: {"pending", "received"}, answer: [snap: Snaps \cup {Abroad}] \cup {Absent}]
Attempt == [at: {"freezing", "frozen", "ready", "waiting", "answered"}, conn: Connections, intent: AdoptionIntents,
            answer: [snap: Snaps \cup {Abroad}] \cup {Absent}]
Message == [company: Companies, key: Keys, snap: Snaps, note: Explanations]
Holding == [key: Keys, snap: Snaps \cup {Abroad}, note: Explanations \cup {Absent}]

ImportOK ==
  /\ zip \in Snaps /\ frozen \in [AdoptionIds -> Snaps]
  /\ DOMAIN receipts \subseteq AdoptionIds /\ receipts \in [DOMAIN receipts -> AdoptionReceipt]
  /\ clients \in [Clients -> Attempt \cup {Absent}]
  /\ sent \subseteq Message /\ adopted \in [Companies -> Holding \cup {Absent}]

\* The company of a connection holds the snapshot s.
Holds(id, s) == adopted[CompanyOf[id[1]]] # Absent /\ adopted[CompanyOf[id[1]]].snap = s
\* A receipt of company c says that k brought it the snapshot and the explanation.
Says(c, k, snap, note) ==
  \E id \in DOMAIN receipts : /\ CompanyOf[id[1]] = c /\ id[2] = k
                             /\ receipts[id].intent.snap = snap /\ receipts[id].intent.note = note

ReceiptsNamed == \A id \in DOMAIN receipts : receipts[id].intent.id = id
\* A client that sends has a receipt of its own connection.
ClientOK(p) ==
  clients[p] # Absent =>
    LET i == clients[p].intent
    IN /\ clients[p].conn = i.id[1]
       /\ clients[p].at \in {"ready", "waiting", "answered"} => i.id \in DOMAIN receipts /\ receipts[i.id].intent = i
       /\ clients[p].at = "answered" => Holds(i.id, clients[p].answer.snap)
SentIsReceipted == \A m \in sent : Says(m.company, m.key, m.snap, m.note)

ImportInv == /\ ImportOK /\ ReceiptsNamed /\ SentIsReceipted /\ AdoptionRecorded
             /\ \A p \in Clients : ClientOK(p)
AdoptionInv == CopyInv /\ ImportInv

-----------------------------------------------------------------------------
\* Receipts and holdings are only added.
ReceiptsKept == \A id \in DOMAIN receipts : id \in DOMAIN receipts' /\ receipts'[id].intent = receipts[id].intent
HoldingsKept == \A c \in Companies : adopted[c] # Absent => adopted'[c] = adopted[c]

\* What a receipt says stays said.
LEMMA SaysStays ==
  ASSUME ReceiptsKept, NEW c, NEW k, NEW snap, NEW note, Says(c, k, snap, note)
  PROVE  Says(c, k, snap, note)'
BY DEF ReceiptsKept, Says

LEMMA HoldsStays ==
  ASSUME HoldingsKept, NEW id \in AdoptionIds, NEW s, Holds(id, s)
  PROVE  Holds(id, s)'
<1>1. CompanyOf[id[1]] \in Companies
  BY DEF AdoptionIds, Companies
<1> QED BY <1>1 DEF HoldingsKept, Holds

\* A client that a step does not move stays at work.
LEMMA OthersAtWork ==
  ASSUME ImportInv, ReceiptsKept, HoldingsKept, NEW p \in Clients, clients'[p] = clients[p]
  PROVE  ClientOK(p)'
<1>1. CASE clients[p] = Absent
  BY <1>1 DEF ClientOK
<1>2. CASE clients[p] # Absent
  <2>1. clients[p] \in Attempt /\ clients[p].intent.id \in AdoptionIds
    BY <1>2 DEF ImportInv, ImportOK, Attempt, AdoptionIntents
  <2>2. PICK c, i : c = clients[p] /\ i = clients[p].intent
    OBVIOUS
  <2>3. clients'[p] = c /\ c.intent = i /\ i.id \in AdoptionIds
    BY <2>1, <2>2
  <2>4. /\ c.conn = i.id[1]
        /\ c.at \in {"ready", "waiting", "answered"} => i.id \in DOMAIN receipts /\ receipts[i.id].intent = i
        /\ c.at = "answered" => Holds(i.id, c.answer.snap)
    BY <1>2, <2>2 DEF ImportInv, ClientOK
  <2>5. c.at \in {"ready", "waiting", "answered"} => i.id \in DOMAIN receipts' /\ receipts'[i.id].intent = i
    BY <2>4 DEF ReceiptsKept
  <2>6. c.at = "answered" => Holds(i.id, c.answer.snap)'
    <3>1. PICK s : s = c.answer.snap
      OBVIOUS
    <3> QED BY <2>3, <2>4, <3>1, HoldsStays
  <2> QED BY <2>3, <2>4, <2>5, <2>6 DEF ClientOK, Holds
<1> QED BY <1>1, <1>2

\* A step that changes neither messages nor holdings and completes no receipt.
LEMMA UnsentHolds ==
  ASSUME ImportInv, ReceiptsKept, sent' = sent, adopted' = adopted,
         \A id \in DOMAIN receipts' : receipts'[id].status = "received" =>
           \/ id \in DOMAIN receipts /\ receipts[id].status = "received"
           \/ id \in AdoptionIds /\ Holds(id, receipts'[id].intent.snap)
  PROVE  SentIsReceipted' /\ AdoptionRecorded'
<1>1. SentIsReceipted'
  <2> SUFFICES ASSUME NEW m \in sent
               PROVE  Says(m.company, m.key, m.snap, m.note)'
    BY DEF SentIsReceipted
  <2>1. PICK c, k, s, n : c = m.company /\ k = m.key /\ s = m.snap /\ n = m.note
    OBVIOUS
  <2>2. Says(c, k, s, n)'
    BY <2>1, SaysStays DEF ImportInv, SentIsReceipted
  <2> QED BY <2>1, <2>2
<1>2. ASSUME NEW c \in DOMAIN adopted, adopted[c] # Absent, adopted[c].snap # Abroad
      PROVE  \E id \in DOMAIN receipts' :
               /\ CompanyOf[id[1]] = c /\ id[2] = adopted[c].key
               /\ receipts'[id].intent.snap = adopted[c].snap /\ receipts'[id].intent.note = adopted[c].note
  BY <1>2 DEF ImportInv, AdoptionRecorded, ReceiptsKept
<1>3. ASSUME NEW id \in DOMAIN receipts', receipts'[id].status = "received"
      PROVE  /\ adopted[CompanyOf[id[1]]] # Absent
             /\ adopted[CompanyOf[id[1]]].snap = receipts'[id].intent.snap
  BY <1>3 DEF ImportInv, AdoptionRecorded, ReceiptsKept, Holds
<1> QED BY <1>1, <1>2, <1>3 DEF AdoptionRecorded

-----------------------------------------------------------------------------
(* The steps of a client *)

\* A step that moves one client and leaves receipts, messages and holdings alone.
LEMMA ClientMoves ==
  ASSUME ImportInv, NEW p \in Clients, NEW c \in Attempt \cup {Absent}, clients' = [clients EXCEPT ![p] = c],
         UNCHANGED <<receipts, sent, adopted, zip>>, frozen' \in [AdoptionIds -> Snaps],
         c # Absent => /\ c.conn = c.intent.id[1]
                       /\ c.at \in {"ready", "waiting", "answered"} =>
                            c.intent.id \in DOMAIN receipts /\ receipts[c.intent.id].intent = c.intent
                       /\ c.at = "answered" => Holds(c.intent.id, c.answer.snap)
  PROVE  ImportInv'
<1>1. ReceiptsKept /\ HoldingsKept
  BY DEF ReceiptsKept, HoldingsKept
<1>2. clients'[p] = c /\ (\A o \in Clients \ {p} : clients'[o] = clients[o]) /\ ImportOK'
  BY DEF ImportInv, ImportOK
<1>3. ClientOK(p)'
  BY <1>2 DEF ClientOK, Holds
<1>4. \A o \in Clients \ {p} : ClientOK(o)'
  BY <1>1, <1>2, OthersAtWork
<1>5. SentIsReceipted' /\ AdoptionRecorded'
  BY DEF ImportInv, SentIsReceipted, AdoptionRecorded, Says
<1> QED BY <1>2, <1>3, <1>4, <1>5 DEF ImportInv, ReceiptsNamed

LEMMA MovingSteps ==
  ASSUME ImportInv, NEW p \in Clients,
         \/ \E id \in DOMAIN frozen, note \in Explanations : Adopts(p, id, note)
         \/ Freeze(p) \/ Ends(p) \/ Answers(p)
         \/ \E c \in Connections, id \in DOMAIN receipts : Retry(p, c, id)
  PROVE  ImportInv'
<1>1. ASSUME NEW id \in DOMAIN frozen, NEW note \in Explanations, Adopts(p, id, note)
      PROVE  ImportInv'
  <2> DEFINE i == Intent(id, zip, note)
             c == [at |-> IF id \in DOMAIN receipts THEN "ready" ELSE "freezing",
                   conn |-> id[1], intent |-> i, answer |-> Absent]
  <2>1. /\ clients' = [clients EXCEPT ![p] = c] /\ UNCHANGED <<frozen, receipts, sent, adopted, zip>>
        /\ id \in DOMAIN receipts => receipts[id].intent = i
    BY <1>1 DEF Adopts, Beyond
  <2>2. id \in AdoptionIds /\ zip \in Snaps /\ frozen \in [AdoptionIds -> Snaps]
    BY DEF ImportInv, ImportOK
  <2>3. i \in AdoptionIntents /\ i.id = id /\ id[1] \in Connections
    BY <2>2 DEF Intent, AdoptionIntents, AdoptionIds
  <2> HIDE DEF i
  <2>4. /\ c \in Attempt /\ c.conn = id[1] /\ c.intent = i
        /\ c.at = IF id \in DOMAIN receipts THEN "ready" ELSE "freezing"
    BY <2>3 DEF Attempt
  <2> HIDE DEF c
  <2> QED BY <2>1, <2>2, <2>3, <2>4, ClientMoves
<1>2. CASE Freeze(p)
  <2>1. clients[p] # Absent /\ clients[p].at = "freezing" /\ clients[p] \in Attempt
    BY <1>2 DEF Freeze, Waits, ImportInv, ImportOK
  <2>2. frozen' \in [AdoptionIds -> Snaps] /\ UNCHANGED <<receipts, sent, adopted, zip>>
    <3>1. clients[p].intent.snap \in Snaps /\ Torn \in Snaps /\ frozen \in [AdoptionIds -> Snaps]
      BY <2>1 DEF Attempt, AdoptionIntents, Snaps, ImportInv, ImportOK
    <3> QED BY <1>2, <3>1 DEF Freeze, Beyond
  <2>3. CASE Goes(p, "frozen")
    <3> DEFINE c == [clients[p] EXCEPT !.at = "frozen"]
    <3>1. c \in Attempt /\ c.at = "frozen" /\ c.conn = clients[p].conn /\ c.intent = clients[p].intent
      BY <2>1 DEF Attempt
    <3>2. clients' = [clients EXCEPT ![p] = c]
      BY <2>3 DEF Goes, ImportInv, ImportOK
    <3>3. c.conn = c.intent.id[1]
      BY <2>1, <3>1 DEF ImportInv, ClientOK
    <3> HIDE DEF c
    <3> QED BY <2>2, <3>1, <3>2, <3>3, ClientMoves
  <2>4. CASE Leaves(p)
    BY <2>2, <2>4, ClientMoves DEF Leaves
  <2> QED BY <1>2, <2>3, <2>4 DEF Freeze
<1>3. CASE Ends(p)
  BY <1>3, ClientMoves DEF Ends, Leaves, Beyond, ImportInv, ImportOK
<1>4. CASE Answers(p)
  <2> DEFINE m == CompanyOf[clients[p].conn]
             held == [snap |-> adopted[m].snap]
             c == [clients[p] EXCEPT !.at = "answered", !.answer = held]
  <2>1. /\ clients[p] # Absent /\ clients[p].at = "waiting" /\ clients[p] \in Attempt
        /\ clients[p].conn = clients[p].intent.id[1] /\ clients[p].intent.id \in DOMAIN receipts
        /\ receipts[clients[p].intent.id].intent = clients[p].intent
    BY <1>4 DEF Answers, Waits, ImportInv, ImportOK, ClientOK
  <2>2. /\ adopted[m] # Absent /\ UNCHANGED <<receipts, sent, adopted, zip, frozen>>
        /\ clients' = [clients EXCEPT ![p] = c]
    BY <1>4, <2>1 DEF Answers, Request, Beyond, ImportInv, ImportOK
  <2>3. m \in Companies /\ adopted[m] \in Holding
    BY <2>1, <2>2 DEF Companies, Attempt, ImportInv, ImportOK
  <2>4. held \in [snap: Snaps \cup {Abroad}] /\ held.snap = adopted[m].snap
    BY <2>3 DEF Holding
  <2> HIDE DEF held
  <2>5. /\ c \in Attempt /\ c.conn = clients[p].conn /\ c.intent = clients[p].intent
        /\ c.answer = held
    BY <2>1, <2>4 DEF Attempt
  <2>6. Holds(c.intent.id, c.answer.snap)
    BY <2>1, <2>2, <2>4, <2>5 DEF Holds
  <2> HIDE DEF c, m
  <2> QED BY <2>1, <2>2, <2>5, <2>6, ClientMoves DEF ImportInv, ImportOK
<1>5. ASSUME NEW n \in Connections, NEW id \in DOMAIN receipts, Retry(p, n, id)
      PROVE  ImportInv'
  <2> DEFINE c == [at |-> "ready", conn |-> n, intent |-> receipts[id].intent, answer |-> Absent]
  <2>1. clients' = [clients EXCEPT ![p] = c] /\ n = id[1] /\ UNCHANGED <<frozen, receipts, sent, adopted, zip>>
    BY <1>5 DEF Retry, SameScope, Beyond
  <2>2. receipts[id] \in AdoptionReceipt /\ receipts[id].intent.id = id
    BY DEF ImportInv, ImportOK, ReceiptsNamed
  <2>3. c \in Attempt /\ c.conn = n /\ c.intent = receipts[id].intent /\ c.at = "ready"
    BY <2>2 DEF Attempt, AdoptionReceipt
  <2> HIDE DEF c
  <2> QED BY <2>1, <2>2, <2>3, ClientMoves DEF ImportInv, ImportOK
<1> QED BY <1>1, <1>2, <1>3, <1>4, <1>5

\* The receipt is created before anything is sent.
LEMMA RecordStep ==
  ASSUME ImportInv, NEW p \in Clients, Record(p)
  PROVE  ImportInv'
<1> DEFINE c == clients[p]
           i == c.intent
           new == [intent |-> i, status |-> "pending", answer |-> Absent]
<1>1. /\ c # Absent /\ c \in Attempt /\ c.at = "frozen" /\ c.conn = i.id[1] /\ i \in AdoptionIntents /\ i.id \in AdoptionIds
      /\ UNCHANGED <<frozen, sent, adopted, zip>>
  BY DEF Record, Waits, ImportInv, ImportOK, ClientOK, Attempt, AdoptionIntents, Beyond
<1>2. CASE Leaves(p) /\ UNCHANGED receipts
  BY <1>1, <1>2, ClientMoves DEF Leaves, ImportInv, ImportOK
<1> DEFINE ready == [c EXCEPT !.at = "ready"]
<1>3. ready \in Attempt /\ ready.at = "ready" /\ ready.intent = i /\ ready.conn = c.conn
  BY <1>1 DEF Attempt
<1>4. CASE Goes(p, "ready") /\ UNCHANGED receipts /\ i.id \in DOMAIN receipts /\ receipts[i.id].intent = i
  <2>1. clients' = [clients EXCEPT ![p] = ready]
    BY <1>4 DEF Goes, ImportInv, ImportOK
  <2> HIDE DEF ready, c
  <2> QED BY <1>1, <1>3, <1>4, <2>1, ClientMoves DEF ImportInv, ImportOK
<1>5. CASE /\ i.id \notin DOMAIN receipts /\ Goes(p, "ready")
           /\ receipts' = [id \in DOMAIN receipts \cup {i.id} |-> IF id = i.id THEN new ELSE receipts[id]]
  <2>1. clients' = [clients EXCEPT ![p] = ready]
    BY <1>5 DEF Goes, ImportInv, ImportOK
  <2>2. new \in AdoptionReceipt /\ new.intent = i /\ new.status = "pending"
    BY <1>1 DEF AdoptionReceipt
  <2>3. PICK w : w = i
    OBVIOUS
  <2> HIDE DEF ready, new, i, c
  <2>4. /\ DOMAIN receipts' = DOMAIN receipts \cup {w.id} /\ receipts'[w.id] = new
        /\ \A id \in DOMAIN receipts : receipts'[id] = receipts[id]
    BY <1>5, <2>3
  <2>5. ImportOK'
    BY <1>1, <1>3, <2>1, <2>2, <2>3, <2>4, <1>5 DEF ImportInv, ImportOK
  <2>6. ReceiptsKept /\ HoldingsKept
    BY <1>1, <2>4 DEF ReceiptsKept, HoldingsKept
  <2>7. ReceiptsNamed'
    BY <2>2, <2>3, <2>4 DEF ImportInv, ReceiptsNamed
  <2>8. SentIsReceipted' /\ AdoptionRecorded'
    BY <1>1, <2>2, <2>4, <2>6, UnsentHolds
  <2>9. clients'[p] = ready /\ \A o \in Clients \ {p} : clients'[o] = clients[o]
    BY <2>1 DEF ImportInv, ImportOK
  <2>10. ClientOK(p)'
    BY <1>1, <1>3, <2>2, <2>3, <2>4, <2>9 DEF ClientOK
  <2>11. \A o \in Clients \ {p} : ClientOK(o)'
    BY <2>6, <2>9, OthersAtWork
  <2> QED BY <2>5, <2>7, <2>8, <2>10, <2>11 DEF ImportInv
<1> QED BY <1>2, <1>4, <1>5 DEF Record

\* What is sent is what the receipt says.
LEMMA SendStep ==
  ASSUME ImportInv, NEW p \in Clients, Send(p)
  PROVE  ImportInv'
<1> DEFINE c == clients[p]
           i == c.intent
           m == Request(p)
           waiting == [c EXCEPT !.at = "waiting"]
<1>1. /\ c # Absent /\ c \in Attempt /\ c.at = "ready" /\ c.conn = i.id[1] /\ i \in AdoptionIntents /\ i.id \in AdoptionIds
      /\ i.id \in DOMAIN receipts /\ receipts[i.id].intent = i
      /\ UNCHANGED <<frozen, receipts, adopted, zip>>
  BY DEF Send, Waits, ImportInv, ImportOK, ClientOK, Attempt, AdoptionIntents, Beyond
<1>2. CASE Leaves(p) /\ UNCHANGED sent
  BY <1>1, <1>2, ClientMoves DEF Leaves, ImportInv, ImportOK
<1>3. CASE Intact(p) /\ Goes(p, "waiting") /\ sent' = sent \cup {m}
  <2>1. m = [company |-> CompanyOf[i.id[1]], key |-> i.id[2], snap |-> i.snap, note |-> i.note]
    BY <1>1, <1>3 DEF Request, Payload, Intact
  <2>2. m \in Message
    BY <1>1, <2>1 DEF Message, Companies, AdoptionIds, AdoptionIntents
  <2>3. Says(m.company, m.key, m.snap, m.note)
    BY <1>1, <2>1 DEF Says
  <2>4. waiting \in Attempt /\ waiting.at = "waiting" /\ waiting.intent = i /\ waiting.conn = c.conn
    BY <1>1 DEF Attempt
  <2>5. clients' = [clients EXCEPT ![p] = waiting]
    BY <1>3 DEF Goes, ImportInv, ImportOK
  <2>6. PICK w : w = m
    OBVIOUS
  <2> HIDE DEF waiting, m, c
  <2>7. ImportOK'
    BY <1>1, <1>3, <2>2, <2>4, <2>5 DEF ImportInv, ImportOK
  <2>8. ReceiptsKept /\ HoldingsKept
    BY <1>1 DEF ReceiptsKept, HoldingsKept
  <2>9. SentIsReceipted'
    <3> SUFFICES ASSUME NEW x \in sent'
                 PROVE  Says(x.company, x.key, x.snap, x.note)
      BY <1>1 DEF SentIsReceipted, Says
    <3> QED BY <1>3, <2>3 DEF ImportInv, SentIsReceipted
  <2>10. AdoptionRecorded' /\ ReceiptsNamed'
    BY <1>1 DEF ImportInv, AdoptionRecorded, ReceiptsNamed
  <2>11. clients'[p] = waiting /\ \A o \in Clients \ {p} : clients'[o] = clients[o]
    BY <2>5 DEF ImportInv, ImportOK
  <2>12. ClientOK(p)'
    BY <1>1, <2>4, <2>11 DEF ClientOK
  <2>13. \A o \in Clients \ {p} : ClientOK(o)'
    BY <2>8, <2>11, OthersAtWork
  <2> QED BY <2>7, <2>9, <2>10, <2>12, <2>13 DEF ImportInv
<1> QED BY <1>2, <1>3 DEF Send

\* A receipt is completed by an answer that names its own snapshot.
LEMMA SaveStep ==
  ASSUME ImportInv, NEW p \in Clients, Save(p)
  PROVE  ImportInv'
<1> DEFINE c == clients[p]
           i == c.intent
           new == [receipts[i.id] EXCEPT !.status = "received", !.answer = c.answer]
<1>1. /\ c # Absent /\ c \in Attempt /\ c.at = "answered" /\ i.id \in AdoptionIds
      /\ i.id \in DOMAIN receipts /\ receipts[i.id].intent = i /\ receipts[i.id] \in AdoptionReceipt
      /\ Holds(i.id, c.answer.snap)
      /\ clients' = [clients EXCEPT ![p] = Absent] /\ UNCHANGED <<frozen, sent, adopted, zip>>
  BY DEF Save, Waits, Leaves, ImportInv, ImportOK, ClientOK, Attempt, AdoptionIntents, Beyond
<1>2. CASE UNCHANGED receipts
  BY <1>1, <1>2, ClientMoves DEF ImportInv, ImportOK
<1>3. CASE Confirms(c.answer, i) /\ receipts' = [receipts EXCEPT ![i.id] = new]
  <2>1. new \in AdoptionReceipt /\ new.intent = i /\ new.status = "received"
    BY <1>1 DEF AdoptionReceipt, Attempt
  <2>2. Holds(i.id, i.snap)
    BY <1>1, <1>3 DEF Confirms
  <2>3. PICK w : w = i
    OBVIOUS
  <2> HIDE DEF new, c, i
  <2>4. /\ DOMAIN receipts' = DOMAIN receipts /\ receipts'[w.id] = new
        /\ \A id \in DOMAIN receipts : id # w.id => receipts'[id] = receipts[id]
        /\ receipts' \in [DOMAIN receipts' -> AdoptionReceipt]
    BY <1>1, <1>3, <2>1, <2>3 DEF ImportInv, ImportOK
  <2>5. ImportOK'
    BY <1>1, <2>4 DEF ImportInv, ImportOK
  <2>6. ReceiptsKept /\ HoldingsKept
    BY <1>1, <2>1, <2>3, <2>4 DEF ReceiptsKept, HoldingsKept
  <2>7. ReceiptsNamed'
    BY <1>1, <2>6, <2>4 DEF ImportInv, ReceiptsNamed, ReceiptsKept
  <2>8. ASSUME NEW id \in DOMAIN receipts', receipts'[id].status = "received"
        PROVE  \/ id \in DOMAIN receipts /\ receipts[id].status = "received"
               \/ id \in AdoptionIds /\ Holds(id, receipts'[id].intent.snap)
    BY <1>1, <2>1, <2>2, <2>3, <2>4, <2>8
  <2>9. SentIsReceipted' /\ AdoptionRecorded'
    BY <1>1, <2>6, <2>8, UnsentHolds
  <2>10. clients'[p] = Absent /\ \A o \in Clients \ {p} : clients'[o] = clients[o]
    BY <1>1 DEF ImportInv, ImportOK
  <2>11. \A o \in Clients : ClientOK(o)'
    <3>1. ClientOK(p)'
      BY <2>10 DEF ClientOK
    <3> QED BY <2>6, <2>10, <3>1, OthersAtWork
  <2> QED BY <2>5, <2>7, <2>9, <2>11 DEF ImportInv
<1> QED BY <1>1, <1>2, <1>3 DEF Save

-----------------------------------------------------------------------------
(* The server, and the bundle *)

\* A company that held nothing adopts what was sent, or what another machine sent.
LEMMA ServerStep ==
  ASSUME ImportInv, ServerNext
  PROVE  ImportInv'
<1>1. PICK c \in Companies, held \in Holding :
        /\ adopted[c] = Absent /\ adopted' = [adopted EXCEPT ![c] = held]
        /\ held.snap # Abroad => Says(c, held.key, held.snap, held.note)
        /\ UNCHANGED <<frozen, receipts, clients, sent, zip>>
  <2>1. ASSUME NEW m \in sent, Arrives(m)
        PROVE  \E c \in Companies, held \in Holding :
                 /\ adopted[c] = Absent /\ adopted' = [adopted EXCEPT ![c] = held]
                 /\ held.snap # Abroad => Says(c, held.key, held.snap, held.note)
                 /\ UNCHANGED <<frozen, receipts, clients, sent, zip>>
    <3> DEFINE h == [key |-> m.key, snap |-> m.snap, note |-> m.note]
    <3>1. m \in Message /\ Says(m.company, m.key, m.snap, m.note)
      BY DEF ImportInv, ImportOK, SentIsReceipted
    <3>2. h \in Holding /\ h.key = m.key /\ h.snap = m.snap /\ h.note = m.note /\ m.company \in Companies
      BY <3>1 DEF Message, Holding
    <3>3. /\ adopted[m.company] = Absent /\ adopted' = [adopted EXCEPT ![m.company] = h]
          /\ UNCHANGED <<frozen, receipts, clients, sent, zip>>
      BY <2>1 DEF Arrives, client, Beyond
    <3> HIDE DEF h
    <3> QED BY <3>1, <3>2, <3>3
  <2>2. ASSUME NEW c \in DOMAIN adopted, NEW k \in Keys, AnotherMachine(c, k)
        PROVE  \E d \in Companies, held \in Holding :
                 /\ adopted[d] = Absent /\ adopted' = [adopted EXCEPT ![d] = held]
                 /\ held.snap # Abroad => Says(d, held.key, held.snap, held.note)
                 /\ UNCHANGED <<frozen, receipts, clients, sent, zip>>
    <3> DEFINE h == [key |-> k, snap |-> Abroad, note |-> Absent]
    <3>1. h \in Holding /\ h.snap = Abroad
      BY DEF Holding
    <3>2. /\ adopted[c] = Absent /\ adopted' = [adopted EXCEPT ![c] = h] /\ c \in Companies
          /\ UNCHANGED <<frozen, receipts, clients, sent, zip>>
      BY <2>2 DEF AnotherMachine, client, Beyond, ImportInv, ImportOK
    <3> HIDE DEF h
    <3> QED BY <3>1, <3>2
  <2> QED BY <2>1, <2>2 DEF ServerNext
<1>2. /\ adopted'[c] = held /\ \A d \in Companies : d # c => adopted'[d] = adopted[d]
      /\ DOMAIN adopted = Companies /\ DOMAIN adopted' = Companies /\ ImportOK'
  BY <1>1 DEF ImportInv, ImportOK
<1>3. ReceiptsKept /\ HoldingsKept
  BY <1>1, <1>2 DEF ReceiptsKept, HoldingsKept
<1>4. \A p \in Clients : ClientOK(p)'
  BY <1>1, <1>3, OthersAtWork
<1>5. SentIsReceipted' /\ ReceiptsNamed'
  BY <1>1 DEF ImportInv, SentIsReceipted, ReceiptsNamed, Says
<1>6. AdoptionRecorded'
  <2>1. ASSUME NEW d \in Companies, adopted'[d] # Absent, adopted'[d].snap # Abroad
        PROVE  \E id \in DOMAIN receipts :
                 /\ CompanyOf[id[1]] = d /\ id[2] = adopted'[d].key
                 /\ receipts[id].intent.snap = adopted'[d].snap /\ receipts[id].intent.note = adopted'[d].note
    <3>1. CASE d = c
      BY <1>1, <1>2, <2>1, <3>1 DEF Says
    <3>2. CASE d # c
      BY <1>2, <2>1, <3>2 DEF ImportInv, AdoptionRecorded
    <3> QED BY <3>1, <3>2
  <2>2. ASSUME NEW id \in DOMAIN receipts, receipts[id].status = "received"
        PROVE  Holds(id, receipts[id].intent.snap)'
    <3>1. id \in AdoptionIds /\ Holds(id, receipts[id].intent.snap)
      BY <2>2 DEF ImportInv, ImportOK, AdoptionRecorded, Holds
    <3>2. PICK s : s = receipts[id].intent.snap
      OBVIOUS
    <3>3. Holds(id, s)'
      BY <1>3, <3>1, <3>2, HoldsStays
    <3> QED BY <1>1, <3>2, <3>3 DEF Holds
  <2> QED BY <1>1, <1>2, <2>1, <2>2 DEF AdoptionRecorded, Holds
<1> QED BY <1>2, <1>4, <1>5, <1>6 DEF ImportInv

\* The folder and the export change the bundle at most.
LEMMA BundleStep ==
  ASSUME CopyInv, ImportInv, FolderNext \/ ExportNext
  PROVE  ImportInv'
<1>1. UNCHANGED <<frozen, receipts, clients, sent, adopted>>
  BY DEF FolderNext, ExportNext, SetLedger, SetEntity, WriterStops, NameEvidence, PutFile, Untouched,
         Inventory, ReadFile, Captured, Checked, PublishBundle, DiscardBundle, EndExport, client
<1>2. zip' \in Snaps
  <2>1. CASE PublishBundle /\ zip' = Copy(export.got)
    <3>1. export.got \in Seq(Bodies) /\ Len(export.got) = 3
      BY <2>1 DEF PublishBundle, CopyInv, FolderOK, StillCopied, Exporting
    <3>2. export.got[1] \in Bodies /\ export.got[2] \in Bodies /\ export.got[3] \in Bodies
      BY <3>1
    <3> QED BY <2>1, <3>2 DEF Copy, Snaps
  <2>2. CASE zip' \in {zip, Torn, Absent}
    BY <2>2 DEF ImportInv, ImportOK, Snaps
  <2> QED BY <2>1, <2>2 DEF FolderNext, ExportNext, SetLedger, SetEntity, WriterStops, NameEvidence, PutFile, Untouched,
         Inventory, ReadFile, Captured, Checked, PublishBundle, DiscardBundle, EndExport
<1>3. ImportOK'
  BY <1>1, <1>2 DEF ImportInv, ImportOK
<1> QED BY <1>1, <1>3 DEF ImportInv, ReceiptsNamed, SentIsReceipted, AdoptionRecorded, ClientOK, Says, Holds

LEMMA ImportStays ==
  ASSUME AdoptionInv, [AdoptionNext]_adoptionVars
  PROVE  ImportInv'
<1>1. CASE FolderNext \/ ExportNext
  BY <1>1, BundleStep DEF AdoptionInv
<1>2. ASSUME NEW p \in Clients, ImportNext(p)
      PROVE  ImportInv'
  BY <1>2, MovingSteps, RecordStep, SendStep, SaveStep DEF AdoptionInv, ImportNext
<1>3. CASE ServerNext
  BY <1>3, ServerStep DEF AdoptionInv
<1>4. CASE UNCHANGED adoptionVars
  BY <1>4 DEF adoptionVars, client, AdoptionInv, ImportInv, ImportOK, ReceiptsNamed, SentIsReceipted, AdoptionRecorded, ClientOK,
              Says, Holds
<1> QED BY <1>1, <1>2, <1>3, <1>4 DEF AdoptionNext

LEMMA ImportInit == AdoptionInit => ImportInv
<1> SUFFICES ASSUME AdoptionInit
             PROVE  ImportInv
  OBVIOUS
<1>1. ImportOK
  BY DEF AdoptionInit, ImportOK, Snaps, AdoptionIds, Companies
<1>2. DOMAIN receipts = {} /\ sent = {} /\ (\A p \in Clients : clients[p] = Absent)
      /\ \A c \in DOMAIN adopted : adopted[c] = Absent
  BY DEF AdoptionInit
<1> QED BY <1>1, <1>2 DEF ImportInv, ReceiptsNamed, SentIsReceipted, AdoptionRecorded, ClientOK

-----------------------------------------------------------------------------
\* The inductive invariant: every stamp and copy of the export is explained by the folder,
\* every client that sends has its receipt, and every message and answer has one too.
THEOREM AdoptionInvariance == AdoptionSpec => []AdoptionInv
<1>1. AdoptionInit => AdoptionInv
  BY CopyInit, ImportInit DEF AdoptionInv
<1>2. AdoptionInv /\ [AdoptionNext]_adoptionVars => AdoptionInv'
  BY CopyNext, ImportStays DEF AdoptionInv
<1> QED BY <1>1, <1>2, PTL DEF AdoptionSpec

\* A company that this folder filled holds exactly the snapshot and the explanation of a
\* receipt kept here, and a receipt that reports success reports what its company holds
\* (hosted_adoption._run, _finish, _validate_response).
THEOREM AdoptedAsRecorded == AdoptionSpec => []AdoptionRecorded
<1>1. AdoptionInv => AdoptionRecorded
  BY DEF AdoptionInv, ImportInv
<1> QED BY <1>1, AdoptionInvariance, PTL
==============================================================================
