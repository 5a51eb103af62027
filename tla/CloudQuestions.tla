---------------------------- MODULE CloudQuestions ----------------------------
(* Questions of a company that people and sessions ask, answer and resolve on a *)
(* server without idempotency keys: a request that arrives twice is two replies.*)
(* The folder keeps a receipt per request id.  It is written before the one     *)
(* request is sent, and from then on that id is only read back.                 *)
EXTENDS Integers, Sequences, FiniteSets

CONSTANTS Sessions, Requests,  \* command lines and the request ids they use
          Intents,             \* what they may mean: [does, question, text]
          Texts,               \* what other people write
          MaxOthers, MaxGrants, Nothing

VARIABLES threads,   \* questions on the server: text, status, replies with their writer
          effects,   \* what arrived: [by: receipt, does, question, reply]
          notices,   \* receipts: [grant, request] |-> record
          asking,    \* sessions
          lock,      \* session that holds the lock of the remote state
          grant,     \* sign-in of the folder
          others
qvars == <<threads, effects, notices, asking, lock, grant, others>>

\* A question is asked as a new thread; a reply and a resolution name one.
ASSUME QuestionsAssumption ==
  /\ Intents \subseteq [does: {"ask", "reply", "resolve"}, question: Nat \cup {Nothing},
                       text: {i.text : i \in Intents}]
  /\ Nothing \notin Sessions /\ MaxOthers \in Nat /\ MaxGrants \in Nat

Id(request) == <<grant, request>>
KnownOutcome(id) == id \in DOMAIN notices /\ notices[id].status # "pending"
Known(id) == id \in DOMAIN notices
Is(p, phase) == asking[p] # Nothing /\ asking[p].at = phase
Moves(p, s) == asking' = [asking EXCEPT ![p] = s]
\* The lock is held from the first look at the receipt to the saved outcome.
Stops(p) == Moves(p, Nothing) /\ lock' = Nothing
------------------------------------------------------------------------------
(* THE SERVER *)

Thread(text) == [text |-> text, open |-> TRUE, replies |-> <<>>]
\* Replies that a resolution names must be all there are.
Refused(r) ==
  CASE r.intent.does = "ask" -> FALSE
    [] r.intent.does = "reply" -> ~threads[r.intent.question].open
    [] r.intent.does = "resolve" -> Len(threads[r.intent.question].replies) # r.mark
Effect(r) ==
  CASE r.intent.does = "ask" -> Append(threads, Thread(r.intent.text))
    [] r.intent.does = "reply" -> [threads EXCEPT ![r.intent.question].replies = Append(@, r.intent.text)]
    [] r.intent.does = "resolve" -> [threads EXCEPT ![r.intent.question].open = FALSE]
Lands(r) == IF r.intent.does = "ask" THEN Len(threads) + 1 ELSE r.intent.question

SomebodyElse ==
  /\ others < MaxOthers /\ others' = others + 1
  /\ \/ \E t \in Texts : threads' = Append(threads, Thread(t))
     \/ \E q \in DOMAIN threads, t \in Texts :
          threads[q].open /\ threads' = [threads EXCEPT ![q].replies = Append(@, t)]
     \/ \E q \in DOMAIN threads :
          threads[q].open /\ threads' = [threads EXCEPT ![q].open = FALSE]
  /\ UNCHANGED <<effects, notices, asking, lock, grant>>
------------------------------------------------------------------------------
(* ONE REQUEST *)

\* A sign-in makes a new credential file, and with it another identity of receipts.
SignIn == /\ grant < MaxGrants /\ lock = Nothing /\ grant' = grant + 1
          /\ UNCHANGED <<threads, effects, notices, asking, lock, others>>

Open(p, request, intent) ==
  /\ asking[p] = Nothing /\ lock = Nothing /\ lock' = p
  /\ Moves(p, [at |-> "locked", id |-> Id(request), intent |-> intent])
  /\ UNCHANGED <<threads, effects, notices, grant, others>>

\* A receipt of another input, or one with an outcome, says so; one without is only read back.
ReadBack(p) ==
  /\ Is(p, "locked") /\ Known(asking[p].id)
  /\ Stops(p) /\ UNCHANGED <<threads, effects, notices, grant, others>>

\* A resolution takes every reply of the question as it was read.
Mark(intent) == IF intent.does = "resolve" THEN Len(threads[intent.question].replies) ELSE 0
Visible(intent) == intent.does = "ask" \/ intent.question \in DOMAIN threads
Look(p) ==
  /\ Is(p, "locked") /\ ~Known(asking[p].id)
  /\ LET s == asking[p]
     IN IF ~Visible(s.intent) THEN Stops(p)
        ELSE /\ Moves(p, [at |-> "read", id |-> s.id, intent |-> s.intent, baseline |-> threads,
                         mark |-> Mark(s.intent)])
             /\ UNCHANGED lock
  /\ UNCHANGED <<threads, effects, notices, grant, others>>
Fence(p) ==
  /\ Is(p, "read")
  /\ LET s == asking[p]
         record == [intent |-> s.intent, baseline |-> s.baseline, mark |-> s.mark,
                    status |-> "pending", shown |-> Nothing]
     IN notices' = [id \in DOMAIN notices \cup {s.id} |-> IF id = s.id THEN record ELSE notices[id]]
  /\ Moves(p, [at |-> "fenced", id |-> asking[p].id])
  /\ UNCHANGED <<threads, effects, lock, grant, others>>

\* The one request: refused, or done with an answer that is composed later, or that is lost.
PostQuestion(p) ==
  /\ Is(p, "fenced")
  /\ LET id == asking[p].id
         r == notices[id]
     IN IF Refused(r)
        THEN Moves(p, [at |-> "refused", id |-> id]) /\ UNCHANGED <<threads, effects>>
        ELSE /\ threads' = Effect(r)
             /\ effects' = Append(effects, [by |-> id, question |-> Lands(r),
                                          over |-> IF r.intent.does = "resolve" THEN threads[Lands(r)].replies ELSE <<>>])
             /\ Moves(p, [at |-> "sent", id |-> id, question |-> Lands(r)])
  /\ UNCHANGED <<notices, lock, grant, others>>

\* What the answer has to show, compared with the questions read before.
News(r, q) ==
  LET old == IF q \in DOMAIN r.baseline THEN Len(r.baseline[q].replies) ELSE 0
      now == threads[q].replies
  IN {k \in old + 1 .. Len(now) : now[k] = r.intent.text}
Confirmed(r, q) ==
  CASE r.intent.does = "ask" -> /\ q \notin DOMAIN r.baseline /\ threads[q] = Thread(r.intent.text)
    [] r.intent.does = "reply" -> q = r.intent.question /\ Cardinality(News(r, q)) = 1
    [] r.intent.does = "resolve" -> q = r.intent.question /\ ~threads[q].open

Saves(p, status, q) ==
  /\ notices' = [notices EXCEPT ![asking[p].id] = [@ EXCEPT !.status = status, !.shown = q]]
  /\ Stops(p) /\ UNCHANGED <<threads, effects, grant, others>>
Answered(p) ==
  /\ Is(p, "sent")
  /\ LET q == asking[p].question
     IN Saves(p, IF Confirmed(notices[asking[p].id], q) THEN "received" ELSE "uncertain", q)
Rejected(p) == Is(p, "refused") /\ Saves(p, "rejected", Nothing)
\* No answer, or one that cannot be read.
Unanswered(p) == (Is(p, "sent") \/ Is(p, "refused") \/ Is(p, "fenced")) /\ Saves(p, "uncertain", Nothing)
\* A stop, or a receipt that cannot be saved, leaves the pending fence.
Crash(p) == /\ asking[p] # Nothing /\ Stops(p)
            /\ UNCHANGED <<threads, effects, notices, grant, others>>
------------------------------------------------------------------------------
QInit == /\ threads = <<>> /\ effects = <<>> /\ notices = <<>>
         /\ asking = [p \in Sessions |-> Nothing] /\ lock = Nothing /\ grant = 0 /\ others = 0
QNext == \/ SomebodyElse \/ SignIn
         \/ \E p \in Sessions :
              \/ \E request \in Requests, intent \in Intents : Open(p, request, intent)
              \/ ReadBack(p) \/ Look(p) \/ Fence(p) \/ PostQuestion(p)
              \/ Answered(p) \/ Rejected(p) \/ Unanswered(p) \/ Crash(p)
QSpec == QInit /\ [][QNext]_qvars
------------------------------------------------------------------------------
By(id) == {k \in DOMAIN effects : effects[k].by = id}
\* A request id of one sign-in reaches the company at most once, whatever stops, is lost or
\* repeated; "received" is said only of what arrived, "rejected" only of what did not; and no
\* resolution closed over a reply that the request had not seen.
OutcomeAsSaid ==
  /\ \A k \in DOMAIN effects :
       /\ effects[k].by \in DOMAIN notices /\ By(effects[k].by) = {k}
       /\ LET r == notices[effects[k].by]
          IN r.intent.does = "resolve" => effects[k].over = r.baseline[r.intent.question].replies
  /\ \A id \in DOMAIN notices :
       /\ notices[id].status = "received" => \E k \in By(id) : effects[k].question = notices[id].shown
       /\ notices[id].status = "rejected" => By(id) = {}
==============================================================================
