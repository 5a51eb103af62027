---------------------------- MODULE Review_proofs ----------------------------
(***************************************************************************)
(* Theorems about two of the modules MCReview checks together.             *)
(*                                                                         *)
(* DuplicateHolds: for any number of rows, spellings and processes that    *)
(* run at the same time.                                                   *)
(*                                                                         *)
(* ReviewDesk (second part): for any rows, accounts, amounts, categories   *)
(* and splits, and any number of stops, where nobody corrects a row that   *)
(* is posted (~CorrectsPosted; ReviewDesk_twice shows what happens         *)
(* otherwise). The invariant is DeskInv.                                   *)
(***************************************************************************)
EXTENDS DuplicateHolds, ReviewDesk, WellFoundedInduction, Sums

\* The row of the id is in the books b.
In(b, id) == source_id_variants(id) \cap b # {}

\* Every decision "distinct" that is on disk, that a process has read, or that
\* it is about to write, is about a row in the books.
AllBooked(list, b) == \A i \in DOMAIN list : list[i].status = "distinct" => In(b, list[i].id)
ReadAliasesBooked == \A s \in Sessions : AllBooked(sessions[s].aliases, books)
ReleasedFirst ==
  \A s \in Sessions :
    sessions[s].pc = "decide" /\ sessions[s].decision = "distinct" => In(books, sessions[s].id)

\* A process that is not idle works on an id.
HasId == \A s \in Sessions : sessions[s].pc # "idle" => sessions[s].id \in SourceId

IInv == TypeOK /\ HasId /\ ReadAliasesBooked /\ ReleasedFirst /\ AllBooked(aliases, books)

-----------------------------------------------------------------------------
\* What is in the books stays known when they grow.
LEMMA InGrows ==
  ASSUME NEW b, NEW c, b \subseteq c, NEW id, In(b, id)
  PROVE  In(c, id)
BY DEF In

\* A list that is in order for some books is in order for larger ones.
LEMMA AllBookedGrows ==
  ASSUME NEW b, NEW c, b \subseteq c, NEW list, AllBooked(list, b)
  PROVE  AllBooked(list, c)
BY InGrows DEF AllBooked

\* A booked id is known.
LEMMA BookedIn ==
  ASSUME NEW b, NEW id \in SourceId, id \in b
  PROVE  In(b, id)
BY DEF In, source_id_variants

\* Recording a decision keeps the list a list of aliases.
LEMMA DecidedType ==
  ASSUME NEW read \in Seq(Alias), NEW id \in SourceId, NEW decision \in Decision
  PROVE  Decided(read, id, decision) \in Seq(Alias)
<1>1. Redecided(read, id, decision) \in Seq(Alias)
  <2>1. \A i \in 1..Len(read) : read[i] \in Alias
    OBVIOUS
  <2>2. [id |-> id, status |-> decision] \in Alias
    BY DEF Alias
  <2>3. Redecided(read, id, decision) \in [1..Len(read) -> Alias]
    BY <2>1, <2>2 DEF Redecided
  <2> QED BY <2>3
<1>2. [id |-> id, status |-> decision] \in Alias
  BY DEF Alias
<1> QED BY <1>1, <1>2 DEF Decided

\* A "distinct" in the new list was there before or is the decision itself.
LEMMA DecidedDistinct ==
  ASSUME NEW read \in Seq(Alias), NEW id \in SourceId, NEW decision \in Decision,
         NEW i \in DOMAIN Decided(read, id, decision),
         Decided(read, id, decision)[i].status = "distinct"
  PROVE  \/ decision = "distinct" /\ Decided(read, id, decision)[i].id = id
         \/ /\ i \in DOMAIN read /\ read[i].status = "distinct"
            /\ Decided(read, id, decision)[i].id = read[i].id
<1>1. CASE \E j \in DOMAIN read : read[j].id = id
  <2>1. Decided(read, id, decision) = Redecided(read, id, decision)
    BY <1>1 DEF Decided
  <2>2. i \in DOMAIN read
    BY <2>1 DEF Redecided
  <2>3. read[i] \in Alias
    BY <2>2
  <2> QED BY <2>1, <2>2, <2>3 DEF Redecided, Alias
<1>2. CASE ~\E j \in DOMAIN read : read[j].id = id
  <2>1. Decided(read, id, decision) = Append(read, [id |-> id, status |-> decision])
    BY <1>2 DEF Decided
  <2>2. i \in 1..Len(read) + 1
    BY <2>1 DEF Alias
  <2>3. i \in 1..Len(read) \/ i = Len(read) + 1
    BY <2>2
  <2> QED BY <2>1, <2>3
<1> QED BY <1>1, <1>2

-----------------------------------------------------------------------------
\* The invariant holds at the start.
THEOREM InitInv == Init => IInv
<1> SUFFICES ASSUME Init PROVE IInv
  OBVIOUS
<1>1. TypeOK
  BY HoldsAssumption DEF Init, TypeOK, Idle, Session, Candidates, NoCandidates, Decision, Alias
<1>2. HasId /\ ReadAliasesBooked /\ ReleasedFirst /\ AllBooked(aliases, books)
  BY DEF Init, HasId, ReadAliasesBooked, ReleasedFirst, AllBooked, Idle
<1> QED BY <1>1, <1>2 DEF IInv

\* The invariant of one session, over given books.
GoodSession(session, b) ==
  /\ session.pc # "idle" => session.id \in SourceId
  /\ session.pc = "decide" /\ session.decision = "distinct" => In(b, session.id)
  /\ AllBooked(session.aliases, b)

\* A step that changes one session to a good one, adds to the books at most, and
\* writes no unfounded "distinct" keeps the invariant.
LEMMA StepInv ==
  ASSUME IInv, NEW s \in Sessions, sessions' \in [Sessions -> Session],
         \A t \in Sessions : t # s => sessions'[t] = sessions[t],
         GoodSession(sessions'[s], books'),
         candidates' \in Candidates, aliases' \in Seq(Alias), books \subseteq books', books' \subseteq SourceId,
         lock' \in Sessions \cup {NoSession}, crashes' \in 0..MaxCrashes, delivered' \subseteq SourceId,
         reviewed' \in [Rows -> {"none"} \cup Decision],
         AllBooked(aliases', books')
  PROVE  IInv'
<1>1. TypeOK'
  BY DEF TypeOK
<1>2. ASSUME NEW t \in Sessions PROVE GoodSession(sessions'[t], books')
  <2>1. CASE t = s
    BY <2>1
  <2>2. CASE t # s
    <3>1. GoodSession(sessions[t], books)
      BY DEF IInv, GoodSession, HasId, ReadAliasesBooked, ReleasedFirst
    <3> QED BY <3>1, <2>2, InGrows, AllBookedGrows DEF GoodSession
  <2> QED BY <2>1, <2>2
<1>3. HasId' /\ ReadAliasesBooked' /\ ReleasedFirst'
  BY <1>2 DEF GoodSession, HasId, ReadAliasesBooked, ReleasedFirst
<1> QED BY <1>1, <1>3 DEF IInv

\* An idle process read nothing.
LEMMA GoodIdle == Idle \in Session /\ \A b : GoodSession(Idle, b)
BY DEF Idle, Session, Candidates, NoCandidates, Decision, Alias, GoodSession, AllBooked

\* The sessions after one of them became another.
LEMMA SessionsType ==
  ASSUME TypeOK, NEW s \in Sessions, NEW new \in Session, sessions' = [sessions EXCEPT ![s] = new]
  PROVE  /\ sessions' \in [Sessions -> Session]
         /\ sessions'[s] = new
         /\ \A t \in Sessions : t # s => sessions'[t] = sessions[t]
BY DEF TypeOK

\* A finished import.
LEMMA ReturnInv ==
  ASSUME IInv, NEW s \in Sessions, sessions[s].pc # "idle", ImportReturns(s),
         UNCHANGED candidates, aliases' \in Seq(Alias), books \subseteq books', books' \subseteq SourceId,
         AllBooked(aliases', books')
  PROVE  IInv'
<1>1. sessions' = [sessions EXCEPT ![s] = Idle] /\ lock' = NoSession /\ UNCHANGED <<crashes, reviewed>>
  BY DEF ImportReturns, Becomes
<1>2. delivered' \subseteq SourceId
  BY DEF IInv, TypeOK, HasId, ImportReturns
<1>3. TypeOK
  BY DEF IInv
<1>4. /\ sessions' \in [Sessions -> Session] /\ sessions'[s] = Idle
      /\ \A t \in Sessions : t # s => sessions'[t] = sessions[t]
  BY <1>1, <1>3, GoodIdle, SessionsType
<1>5. /\ candidates' \in Candidates /\ crashes' \in 0..MaxCrashes /\ lock' \in Sessions \cup {NoSession}
      /\ reviewed' \in [Rows -> {"none"} \cup Decision]
  BY <1>1, <1>3 DEF TypeOK
<1> QED BY <1>2, <1>4, <1>5, GoodIdle, StepInv

\* A step of one session that writes neither aliases nor history, and at most
\* adds to the books.
LEMMA SessionInv ==
  ASSUME IInv, NEW s \in Sessions, NEW new \in Session, Becomes(s, new), GoodSession(new, books'),
         candidates' \in Candidates, books \subseteq books', books' \subseteq SourceId,
         lock' \in Sessions \cup {NoSession}, UNCHANGED <<aliases, crashes, delivered, reviewed>>
  PROVE  IInv'
<1>1. TypeOK /\ AllBooked(aliases, books)
  BY DEF IInv
<1>2. /\ sessions' \in [Sessions -> Session] /\ sessions'[s] = new
      /\ \A t \in Sessions : t # s => sessions'[t] = sessions[t]
  BY <1>1, SessionsType DEF Becomes
<1>3. AllBooked(aliases', books')
  BY <1>1, AllBookedGrows
<1>4. /\ aliases' \in Seq(Alias) /\ crashes' \in 0..MaxCrashes /\ delivered' \subseteq SourceId
      /\ reviewed' \in [Rows -> {"none"} \cup Decision]
  BY <1>1 DEF TypeOK
<1> QED BY <1>2, <1>3, <1>4, StepInv

-----------------------------------------------------------------------------
\* Every step of an import, a decision, or a stop keeps the invariant.
THEOREM NextInv == IInv /\ [Next]_vars => IInv'
<1> SUFFICES ASSUME IInv, [Next]_vars PROVE IInv'
  OBVIOUS
<1>a. /\ TypeOK /\ HasId /\ AllBooked(aliases, books)
      /\ \A s \in Sessions : GoodSession(sessions[s], books)
  BY DEF IInv, GoodSession, HasId, ReadAliasesBooked, ReleasedFirst
<1>b. \A s \in Sessions : sessions[s] \in Session
  BY <1>a DEF TypeOK
<1>1. CASE UNCHANGED vars
  BY <1>1 DEF vars, IInv, TypeOK, HasId, ReadAliasesBooked, ReleasedFirst
<1>2. ASSUME NEW s \in Sessions, NEW id \in SourceId, NEW similar \in BOOLEAN, ImportStart(s, id, similar)
      PROVE  IInv'
  <2> DEFINE new == [Idle EXCEPT !.pc = "row", !.id = id, !.held = AlreadyHeld(id),
                                 !.planned = plan_feed_holds(id, similar)]
  <2>1. AlreadyHeld(id) \in BOOLEAN /\ plan_feed_holds(id, similar) \in BOOLEAN
    BY DEF AlreadyHeld, plan_feed_holds
  <2>2. new \in Session /\ GoodSession(new, books')
    BY <2>1, GoodIdle DEF Session, GoodSession, Idle, AllBooked
  <2>3. Becomes(s, new) /\ UNCHANGED <<candidates, aliases, books, crashes, delivered, reviewed>>
        /\ lock' \in Sessions \cup {NoSession}
    BY <1>2 DEF ImportStart
  <2>4. candidates' \in Candidates /\ books' \subseteq SourceId /\ books \subseteq books'
    BY <1>a, <2>3 DEF TypeOK
  <2> HIDE DEF new
  <2> QED BY <2>2, <2>3, <2>4, SessionInv
<1>3. ASSUME NEW s \in Sessions, ImportSkips(s) \/ HoldExists(s)
      PROVE  IInv'
  <2>1. /\ sessions[s].pc # "idle" /\ ImportReturns(s) /\ UNCHANGED <<candidates, aliases, books>>
    BY <1>3 DEF ImportSkips, HoldExists
  <2> QED BY <1>a, <2>1, ReturnInv DEF TypeOK
<1>4. ASSUME NEW s \in Sessions, ImportBooks(s)
      PROVE  IInv'
  <2>1. /\ sessions[s].pc # "idle" /\ ImportReturns(s) /\ UNCHANGED <<candidates, aliases>>
        /\ books' = books \cup {sessions[s].id}
    BY <1>4 DEF ImportBooks
  <2>2. books' \subseteq SourceId /\ AllBooked(aliases', books') /\ aliases' \in Seq(Alias)
    BY <1>a, <2>1, AllBookedGrows DEF TypeOK, HasId
  <2> QED BY <2>1, <2>2, ReturnInv
<1>5. ASSUME NEW s \in Sessions, ImportHolds(s)
      PROVE  IInv'
  <2> DEFINE new == [sessions[s] EXCEPT !.pc = "hold", !.candidates = candidates]
  <2>1. new \in Session /\ GoodSession(new, books) /\ sessions[s].pc # "idle"
    BY <1>a, <1>b, <1>5 DEF Session, GoodSession, ImportHolds, TypeOK
  <2>2. Becomes(s, new) /\ UNCHANGED <<candidates, aliases, books, lock, crashes, delivered, reviewed>>
    BY <1>5 DEF ImportHolds
  <2> HIDE DEF new
  <2> QED BY <1>a, <2>1, <2>2, SessionInv DEF TypeOK
<1>6. ASSUME NEW s \in Sessions, HoldWritesCandidates(s)
      PROVE  IInv'
  <2> DEFINE new == [sessions[s] EXCEPT !.pc = "alias", !.aliases = aliases]
  <2>1. new \in Session /\ GoodSession(new, books)
    BY <1>a, <1>b, <1>6 DEF Session, GoodSession, HoldWritesCandidates, TypeOK
  <2>2. Becomes(s, new) /\ UNCHANGED <<aliases, books, lock, crashes, delivered, reviewed>>
    BY <1>6 DEF HoldWritesCandidates
  <2>3. candidates' \in Candidates
    BY <1>b, <1>6 DEF HoldWritesCandidates, Session, Candidates
  <2> HIDE DEF new
  <2> QED BY <1>a, <2>1, <2>2, <2>3, SessionInv DEF TypeOK
<1>7. ASSUME NEW s \in Sessions, HoldWritesAliases(s)
      PROVE  IInv'
  <2> DEFINE list == sessions[s].aliases
             entry == [id |-> sessions[s].id, status |-> "candidate"]
  <2>1. /\ sessions[s].pc # "idle" /\ ImportReturns(s) /\ UNCHANGED <<candidates, books>>
        /\ aliases' = Append(list, entry)
    BY <1>7 DEF HoldWritesAliases
  <2>2. entry \in Alias /\ entry.status # "distinct"
    BY <1>a, <2>1 DEF Alias, HasId
  <2>3. list \in Seq(Alias) /\ AllBooked(list, books)
    BY <1>a, <1>b DEF Session, GoodSession
  <2>4. AllBooked(Append(list, entry), books)
    <3> HIDE DEF list, entry
    <3> QED BY <2>2, <2>3 DEF AllBooked
  <2>5. Append(list, entry) \in Seq(Alias)
    <3> HIDE DEF list, entry
    <3> QED BY <2>2, <2>3
  <2> QED BY <1>a, <2>1, <2>4, <2>5, ReturnInv DEF TypeOK
<1>8. ASSUME NEW s \in Sessions, NEW id \in SourceId, NEW decision \in Decision, Resolve(s, id, decision)
      PROVE  IInv'
  <2> DEFINE new == [Idle EXCEPT !.pc = IF decision = "distinct" THEN "release" ELSE "decide",
                            !.id = id, !.decision = decision,
                            !.candidates = candidates, !.aliases = aliases]
  <2>1. new \in Session /\ GoodSession(new, books)
    BY <1>a DEF Session, GoodSession, Idle, TypeOK, Decision
  <2>2. Becomes(s, new) /\ UNCHANGED <<candidates, aliases, books, lock, crashes, delivered, reviewed>>
    BY <1>8 DEF Resolve
  <2> HIDE DEF new
  <2> QED BY <1>a, <2>1, <2>2, SessionInv DEF TypeOK
<1>9. ASSUME NEW s \in Sessions, Release(s)
      PROVE  IInv'
  <2> DEFINE new == [sessions[s] EXCEPT !.pc = "decide", !.aliases = aliases]
  <2>1. /\ sessions[s].pc = "release" /\ Becomes(s, new)
        /\ UNCHANGED <<candidates, aliases, lock, crashes, delivered, reviewed>>
        /\ books' = IF Known(sessions[s].id) THEN books ELSE books \cup {sessions[s].id}
    BY <1>9 DEF Release
  <2>2. sessions[s].id \in SourceId
    BY <1>a, <2>1 DEF HasId
  <2>3. books \subseteq books' /\ books' \subseteq SourceId
    BY <1>a, <2>1, <2>2 DEF TypeOK
  <2>4. In(books', sessions[s].id)
    BY <2>1, <2>2, BookedIn DEF Known, In
  <2>5. AllBooked(aliases, books')
    BY <1>a, <2>3, AllBookedGrows
  <2>6. new \in Session /\ GoodSession(new, books')
    BY <1>a, <1>b, <2>2, <2>4, <2>5 DEF Session, GoodSession, TypeOK
  <2> HIDE DEF new
  <2> QED BY <1>a, <2>1, <2>3, <2>6, SessionInv DEF TypeOK
<1>10. ASSUME NEW s \in Sessions, WriteDecision(s)
      PROVE  IInv'
  <2> DEFINE new == [sessions[s] EXCEPT !.pc = "close"]
             list == sessions[s].aliases
             id == sessions[s].id
             decision == sessions[s].decision
  <2>1. /\ sessions[s].pc = "decide" /\ Becomes(s, new) /\ aliases' = Decided(list, id, decision)
        /\ UNCHANGED <<candidates, books, lock, crashes, delivered, reviewed>>
    BY <1>10 DEF WriteDecision
  <2>2. /\ list \in Seq(Alias) /\ id \in SourceId /\ decision \in Decision
        /\ AllBooked(list, books)
        /\ decision = "distinct" => In(books, id)
    BY <1>a, <1>b, <2>1 DEF Session, GoodSession
  <2>3. new \in Session /\ GoodSession(new, books)
    BY <1>a, <1>b, <2>1 DEF Session, GoodSession
  <2> HIDE DEF new, list, id, decision
  <2>4. aliases' \in Seq(Alias)
    BY <2>1, <2>2, DecidedType
  <2>5. AllBooked(aliases', books')
    <3> SUFFICES ASSUME NEW i \in DOMAIN Decided(list, id, decision),
                        Decided(list, id, decision)[i].status = "distinct"
                 PROVE  In(books, Decided(list, id, decision)[i].id)
      BY <2>1 DEF AllBooked
    <3>1. CASE decision = "distinct" /\ Decided(list, id, decision)[i].id = id
      BY <2>2, <3>1
    <3>2. CASE /\ i \in DOMAIN list /\ list[i].status = "distinct"
               /\ Decided(list, id, decision)[i].id = list[i].id
      BY <2>2, <3>2 DEF AllBooked
    <3> QED BY <2>2, <3>1, <3>2, DecidedDistinct
  <2>6. /\ sessions' \in [Sessions -> Session] /\ sessions'[s] = new
        /\ \A t \in Sessions : t # s => sessions'[t] = sessions[t]
    BY <1>a, <2>1, <2>3, SessionsType DEF Becomes
  <2>7. /\ candidates' \in Candidates /\ books' \subseteq SourceId /\ lock' \in Sessions \cup {NoSession}
        /\ crashes' \in 0..MaxCrashes /\ delivered' \subseteq SourceId
        /\ reviewed' \in [Rows -> {"none"} \cup Decision]
    BY <1>a, <2>1 DEF TypeOK
  <2> QED BY <2>1, <2>3, <2>4, <2>5, <2>6, <2>7, StepInv
<1>11. ASSUME NEW s \in Sessions, CloseCandidate(s) \/ Crash(s)
      PROVE  IInv'
  <2>1. /\ Becomes(s, Idle) /\ sessions[s].pc # "idle" /\ UNCHANGED <<aliases, books, delivered>>
    BY <1>11 DEF CloseCandidate, Crash
  <2>2. sessions[s].id \in SourceId
    BY <1>a, <2>1 DEF HasId
  <2>3. /\ sessions' \in [Sessions -> Session] /\ sessions'[s] = Idle
        /\ \A t \in Sessions : t # s => sessions'[t] = sessions[t]
    BY <1>a, <2>1, GoodIdle, SessionsType DEF Becomes
  <2>4. /\ books' \subseteq SourceId /\ aliases' \in Seq(Alias) /\ delivered' \subseteq SourceId
    BY <1>a, <2>1 DEF TypeOK
  <2>5. candidates' \in Candidates /\ lock' \in Sessions \cup {NoSession} /\ crashes' \in 0..MaxCrashes
        /\ reviewed' \in [Rows -> {"none"} \cup Decision]
    <3>1. CASE CloseCandidate(s)
      <4>1. sessions[s].decision \in Decision /\ sessions[s].candidates \in Candidates /\ Row(sessions[s].id) \in Rows
        BY <1>b, <2>2 DEF Session, SourceId, Row
      <4>2. candidates' = [sessions[s].candidates EXCEPT ![sessions[s].id] = sessions[s].decision]
            /\ reviewed' = [reviewed EXCEPT ![Row(sessions[s].id)] = sessions[s].decision]
            /\ UNCHANGED <<lock, crashes>>
        BY <3>1 DEF CloseCandidate
      <4>3. candidates' \in Candidates
        BY <2>2, <4>1, <4>2 DEF Candidates
      <4>4. reviewed' \in [Rows -> {"none"} \cup Decision]
        BY <1>a, <4>1, <4>2 DEF TypeOK
      <4> QED BY <1>a, <4>2, <4>3, <4>4 DEF TypeOK
    <3>2. CASE Crash(s)
      BY <1>a, <3>2, HoldsAssumption DEF Crash, TypeOK
    <3> QED BY <1>11, <3>1, <3>2
  <2> QED BY <1>a, <2>1, <2>3, <2>4, <2>5, GoodIdle, StepInv
<1> QED BY <1>1, <1>2, <1>3, <1>4, <1>5, <1>6, <1>7, <1>8, <1>9, <1>10, <1>11 DEF Next

-----------------------------------------------------------------------------
\* The invariant holds in every state of every behaviour.
THEOREM Invariance == Spec => []IInv
BY InitInv, NextInv, PTL DEF Spec

\* Whatever any number of imports and decisions do at the same time, every file
\* keeps its form.
THEOREM TypeCorrect == Spec => []TypeOK
<1>1. IInv => TypeOK
  BY DEF IInv
<1> QED BY <1>1, Invariance, PTL

\* A row on record as distinct is in the books, although the decisions of several
\* processes overwrite each other's files.
THEOREM DistinctBooked == Spec => []DistinctIsBooked
<1>1. IInv => DistinctIsBooked
  BY DEF IInv, DistinctIsBooked, AllBooked, Known, In
<1> QED BY <1>1, Invariance, PTL

-----------------------------------------------------------------------------
(***************************************************************************)
(* One process at a time. Then what a session read is still what the files *)
(* hold when it writes, and three more properties hold; the run with two   *)
(* processes shows that they do not hold without it.                       *)
(***************************************************************************)
OneProcess == \A s, t \in Sessions : s = t

\* A row is held under one spelling ever, and only a held row gets an alias.
HeldOncePerRow ==
  \A i, j \in SourceId : candidates[i] # "none" /\ candidates[j] # "none" /\ Row(i) = Row(j) => i = j
AliasesOfHeld == \A n \in DOMAIN aliases : candidates[aliases[n].id] # "none"

\* What a person was told is what the list of candidates says.
ReviewedIsClosed ==
  \A r \in Rows : reviewed[r] # "none" => \E i \in SourceId : Row(i) = r /\ candidates[i] = reviewed[r]

NeverHeld(id) == \A i \in source_id_variants(id) : candidates[i] = "none"

\* What the process read, wherever it stands, is what the files hold.
ReadIsCurrent(s) ==
  LET id == sessions[s].id
      pc == sessions[s].pc
  IN
  /\ pc = "row" => /\ sessions[s].held = AlreadyHeld(id)
                   /\ \E similar \in BOOLEAN : sessions[s].planned = plan_feed_holds(id, similar)
  /\ pc \in {"hold", "release", "decide", "close"} => sessions[s].candidates = candidates
  /\ pc \in {"alias", "decide"} => sessions[s].aliases = aliases
  /\ pc = "hold" => NeverHeld(id)
  /\ pc \in {"alias", "release", "decide", "close"} => candidates[id] = "open"
  /\ pc = "close" => legacy_alias_status(id) = sessions[s].decision

OneIInv ==
  /\ HeldOncePerRow /\ AliasesOfHeld /\ ClosedMeansDecided /\ ReviewedIsClosed /\ RowAccountedFor
  /\ \A s \in Sessions : ReadIsCurrent(s)

-----------------------------------------------------------------------------
(* The status of the last alias *)

\* A bounded set of naturals that is not empty has a greatest element.
LEMMA LastExists ==
  ASSUME NEW n \in Nat, NEW I, I \subseteq 1..n, I # {}
  PROVE  Max(I) \in I /\ \A j \in I : j <= Max(I)
<1> DEFINE above(i) == {j \in I : j > i}
           T == {U \in SUBSET (1..n) : \E i \in I : U = above(i)}
<1>1. T \subseteq FiniteSubsetsOf(1..n) /\ T # {}
  <2>1. IsFiniteSet(1..n)
    BY FS_Interval
  <2>2. FiniteSubsetsOf(1..n) = SUBSET (1..n)
    BY <2>1, FS_FiniteSubsetsOfFinite
  <2>3. PICK i \in I : TRUE
    OBVIOUS
  <2> QED BY <2>2, <2>3
<1>2. PICK U \in T : \A V \in T : ~ (<<V, U>> \in StrictSubsetOrdering(1..n))
  <2> HIDE DEF T
  <2> QED BY <1>1, WFMin, FS_StrictSubsetOrderingWellFounded
<1>3. PICK i \in I : U = above(i)
  OBVIOUS
<1>4. \A j \in I : i \in Int /\ j \in Int
  OBVIOUS
<1>5. ASSUME NEW j \in I, ~(j <= i) PROVE FALSE
  <2>1. \A k \in I : k > j => k > i
    BY <1>4, <1>5
  <2>2. j > i /\ ~(j > j)
    BY <1>4, <1>5
  <2>3. above(j) \subseteq above(i) /\ j \in above(i) /\ j \notin above(j)
    BY <2>1, <2>2
  <2>4. above(j) \in T
    OBVIOUS
  <2>5. <<above(j), U>> \in StrictSubsetOrdering(1..n)
    BY <1>3, <2>3 DEF StrictSubsetOrdering
  <2> QED BY <1>2, <2>4, <2>5
<1>6. \E x \in I : \A y \in I : x >= y
  BY <1>4, <1>5
<1>7. Max(I) \in I /\ \A y \in I : Max(I) >= y
  BY <1>6 DEF Max
<1> QED BY <1>7, <1>4

\* LastStatus of any list.
StatusIn(list, ids) ==
  LET I == {i \in 1..Len(list) : list[i].id \in ids}
  IN  IF I = {} THEN "none" ELSE list[Max(I)].status

IsLast(list, ids, n) ==
  /\ n \in DOMAIN list /\ list[n].id \in ids
  /\ \A m \in DOMAIN list : list[m].id \in ids => m <= n

\* Selecting the last alias gives the status of the greatest index.
LEMMA StatusSelected ==
  ASSUME NEW list \in Seq(Alias), NEW ids
  PROVE  LET last == SelectLastInSeq(list, LAMBDA a : a.id \in ids)
         IN  (IF last = 0 THEN "none" ELSE list[last].status) = StatusIn(list, ids)
<1> DEFINE I == {i \in 1..Len(list) : list[i].id \in ids}
<1>1. SelectLastInSeq(list, LAMBDA a : a.id \in ids) = IF I # {} THEN Max(I) ELSE 0
  BY DEF SelectLastInSeq
<1>2. CASE I = {}
  BY <1>1, <1>2 DEF StatusIn
<1>3. CASE I # {}
  <2>1. Max(I) \in I
    <3>1. Len(list) \in Nat /\ I \subseteq 1..Len(list)
      OBVIOUS
    <3> HIDE DEF I
    <3> QED BY <1>3, <3>1, LastExists
  <2>2. Max(I) # 0
    BY <2>1
  <2> QED BY <1>1, <1>3, <2>2 DEF StatusIn
<1> QED BY <1>2, <1>3

\* What the readers of the aliases find, now and after the step.
LEMMA StatusIsLast ==
  ASSUME aliases \in Seq(Alias)
  PROVE  \A ids : LastStatus(ids) = StatusIn(aliases, ids)
BY StatusSelected DEF LastStatus

\* The same of the aliases a step leaves.
LEMMA StatusIsLastNext ==
  ASSUME aliases' \in Seq(Alias)
  PROVE  \A ids : LastStatus(ids)' = StatusIn(aliases', ids)
<1> SUFFICES ASSUME NEW ids PROVE LastStatus(ids)' = StatusIn(aliases', ids)
  OBVIOUS
<1> DEFINE list == aliases'
           I == {i \in 1..Len(list) : list[i].id \in ids}
<1>1. LastStatus(ids)' = LET last == IF I # {} THEN Max(I) ELSE 0
                         IN  IF last = 0 THEN "none" ELSE list[last].status
  BY DEF LastStatus, SelectLastInSeq
<1>2. Len(list) \in Nat /\ I \subseteq 1..Len(list)
  OBVIOUS
<1>3. I # {} => Max(I) \in I
  <2> HIDE DEF I
  <2> QED BY <1>2, LastExists
<1>4. I # {} => Max(I) # 0
  BY <1>2, <1>3
<1> QED BY <1>1, <1>4 DEF StatusIn

\* Either no alias is of the ids, or one of them is the last.
LEMMA StatusNone ==
  ASSUME NEW list \in Seq(Alias), NEW ids
  PROVE  \/ StatusIn(list, ids) = "none" /\ \A m \in DOMAIN list : list[m].id \notin ids
         \/ \E n \in DOMAIN list : IsLast(list, ids, n) /\ StatusIn(list, ids) = list[n].status
<1> DEFINE I == {i \in 1..Len(list) : list[i].id \in ids}
<1>0. DOMAIN list = 1..Len(list) /\ Len(list) \in Nat
  OBVIOUS
<1>1. CASE I = {}
  BY <1>0, <1>1 DEF StatusIn
<1>2. CASE I # {}
  <2>1. Max(I) \in I /\ \A j \in I : j <= Max(I)
    <3>1. I \subseteq 1..Len(list)
      OBVIOUS
    <3> HIDE DEF I
    <3> QED BY <1>0, <1>2, <3>1, LastExists
  <2>2. IsLast(list, ids, Max(I))
    BY <1>0, <2>1 DEF IsLast
  <2>3. StatusIn(list, ids) = list[Max(I)].status
    BY <1>2 DEF StatusIn
  <2>4. Max(I) \in DOMAIN list
    BY <1>0, <2>1
  <2> QED BY <2>2, <2>3, <2>4
<1> QED BY <1>1, <1>2

\* The last alias of the ids gives their status.
LEMMA StatusAt ==
  ASSUME NEW list \in Seq(Alias), NEW ids, NEW n, IsLast(list, ids, n)
  PROVE  StatusIn(list, ids) = list[n].status
<1>0. DOMAIN list = 1..Len(list) /\ n \in DOMAIN list /\ list[n].id \in ids
  BY DEF IsLast
<1>1. PICK m \in DOMAIN list : IsLast(list, ids, m) /\ StatusIn(list, ids) = list[m].status
  BY <1>0, StatusNone
<1>2. m <= n /\ n <= m
  BY <1>0, <1>1 DEF IsLast
<1>3. m = n
  BY <1>0, <1>2
<1> QED BY <1>1, <1>3

\* Two lists with the same aliases of the ids at the same places.
LEMMA StatusKept ==
  ASSUME NEW list \in Seq(Alias), NEW other \in Seq(Alias), NEW ids,
         DOMAIN list \subseteq DOMAIN other,
         \A n \in DOMAIN list : list[n].id \in ids => other[n] = list[n],
         \A n \in DOMAIN other : other[n].id \in ids => n \in DOMAIN list /\ list[n].id \in ids
  PROVE  StatusIn(other, ids) = StatusIn(list, ids)
<1>1. CASE \A m \in DOMAIN list : list[m].id \notin ids
  <2>1. \A m \in DOMAIN other : other[m].id \notin ids
    BY <1>1
  <2>2. StatusIn(list, ids) = "none"
    BY <1>1, StatusNone DEF IsLast
  <2>3. StatusIn(other, ids) = "none"
    BY <2>1, StatusNone DEF IsLast
  <2> QED BY <2>2, <2>3
<1>2. CASE \E m \in DOMAIN list : list[m].id \in ids
  <2>1. PICK n \in DOMAIN list : IsLast(list, ids, n) /\ StatusIn(list, ids) = list[n].status
    BY <1>2, StatusNone
  <2>2. IsLast(other, ids, n) /\ other[n] = list[n]
    BY <2>1 DEF IsLast
  <2> QED BY <2>1, <2>2, StatusAt
<1> QED BY <1>1, <1>2

-----------------------------------------------------------------------------
(* Steps of the only process *)

\* All aliases of a held row are of the id that is held.
LEMMA AliasesOfRow ==
  ASSUME HeldOncePerRow, AliasesOfHeld, aliases \in Seq(Alias), NEW id \in SourceId, candidates[id] # "none"
  PROVE  \A n \in DOMAIN aliases : aliases[n].id \in source_id_variants(id) => aliases[n].id = id
BY DEF HeldOncePerRow, AliasesOfHeld, source_id_variants

\* Aliases are of source ids.
LEMMA AliasIds ==
  ASSUME NEW list \in Seq(Alias)
  PROVE  \A n \in DOMAIN list : list[n].id \in SourceId
<1>1. \A n \in 1..Len(list) : list[n] \in Alias
  OBVIOUS
<1> QED BY <1>1 DEF Alias

\* The variants of an id are those of every other variant.
LEMMA SameVariants ==
  ASSUME NEW id \in SourceId, NEW other \in SourceId, Row(id) = Row(other)
  PROVE  source_id_variants(id) = source_id_variants(other)
BY DEF source_id_variants

\* A step that writes neither file nor decision.
LEMMA QuietStep ==
  ASSUME OneIInv, TypeOK, UNCHANGED <<candidates, aliases, reviewed>>, books \subseteq books',
         \A id \in delivered' \ delivered :
           (Known(id) \/ \E i \in source_id_variants(id) : candidates[i] # "none")',
         \A s \in Sessions : ReadIsCurrent(s)'
  PROVE  OneIInv'
<1>1. /\ HeldOncePerRow' /\ AliasesOfHeld' /\ ReviewedIsClosed'
  BY DEF OneIInv, HeldOncePerRow, AliasesOfHeld, ReviewedIsClosed
<1>2. ClosedMeansDecided'
  <2>1. \A ids : LastStatus(ids)' = LastStatus(ids)
    BY StatusIsLast, StatusIsLastNext DEF TypeOK
  <2> QED BY <2>1 DEF OneIInv, ClosedMeansDecided, legacy_alias_status
<1>3. RowAccountedFor'
  <2> SUFFICES ASSUME NEW id \in delivered'
               PROVE  (Known(id) \/ \E i \in source_id_variants(id) : candidates[i] # "none")'
    BY DEF RowAccountedFor
  <2>1. CASE id \in delivered
    <3>1. Known(id) \/ \E i \in source_id_variants(id) : candidates[i] # "none"
      BY <2>1 DEF OneIInv, RowAccountedFor
    <3>2. Known(id) => Known(id)'
      BY DEF Known
    <3> QED BY <3>1, <3>2
  <2>2. CASE id \notin delivered
    BY <2>2
  <2> QED BY <2>1, <2>2
<1> QED BY <1>1, <1>2, <1>3 DEF OneIInv

\* The import of a row that is a decided duplicate, or was held, finds it accounted for.
LEMMA SkippedIsAccounted ==
  ASSUME IInv, OneIInv, NEW id \in SourceId, AlreadyHeld(id) \/ legacy_alias_status(id) # "none"
  PROVE  \E i \in source_id_variants(id) : candidates[i] # "none"
<1>1. CASE AlreadyHeld(id)
  BY <1>1 DEF AlreadyHeld
<1>2. CASE legacy_alias_status(id) # "none"
  <2>1. aliases \in Seq(Alias)
    BY DEF IInv, TypeOK
  <2>2. PICK n \in DOMAIN aliases : aliases[n].id \in source_id_variants(id)
    BY <1>2, <2>1, StatusIsLast, StatusNone DEF legacy_alias_status, IsLast
  <2> QED BY <2>2 DEF OneIInv, AliasesOfHeld
<1> QED BY <1>1, <1>2

\* A row that an import may book is neither a decided duplicate nor, unless a
\* person said so, before the cutover.
LEMMA BookedIsFree ==
  ASSUME IInv, OneIInv, NEW s \in Sessions, ImportBooks(s)
  PROVE  /\ reviewed[Row(sessions[s].id)] # "duplicate"
         /\ Row(sessions[s].id) \notin Cutover
<1> DEFINE id == sessions[s].id
<1>1. /\ id \in SourceId /\ aliases \in Seq(Alias) /\ sessions[s].pc = "row" /\ Row(id) \in Rows
  BY DEF ImportBooks, IInv, TypeOK, HasId, Row, SourceId
<1>2. /\ ~Known(id) /\ ~AlreadyHeld(id) /\ legacy_alias_status(id) # "duplicate"
      /\ legacy_alias_status(id) = "distinct" \/ ~sessions[s].planned
  BY <1>1 DEF ImportBooks, OneIInv, ReadIsCurrent
<1>3. legacy_alias_status(id) # "distinct"
  <2> SUFFICES ASSUME legacy_alias_status(id) = "distinct" PROVE FALSE
    OBVIOUS
  <2>1. PICK n \in DOMAIN aliases : /\ aliases[n].id \in source_id_variants(id)
                                    /\ aliases[n].status = "distinct"
    BY <1>1, StatusIsLast, StatusNone DEF legacy_alias_status, IsLast
  <2>2. In(books, aliases[n].id)
    BY <2>1 DEF IInv, AllBooked
  <2>3. source_id_variants(aliases[n].id) = source_id_variants(id)
    BY <1>1, <2>1 DEF source_id_variants
  <2> QED BY <1>2, <2>2, <2>3 DEF In, Known
<1>4. PlanDecision(id) # "duplicate"
  <2> SUFFICES ASSUME PlanDecision(id) = "duplicate" PROVE FALSE
    OBVIOUS
  <2>1. LastStatus({id}) = "duplicate"
    BY <1>2 DEF PlanDecision, legacy_alias_status
  <2>2. PICK n \in DOMAIN aliases : IsLast(aliases, {id}, n) /\ aliases[n].status = "duplicate"
    BY <1>1, <2>1, StatusIsLast, StatusNone
  <2>3. aliases[n].id = id /\ candidates[id] # "none"
    BY <2>2 DEF IsLast, OneIInv, AliasesOfHeld
  <2>4. \A m \in DOMAIN aliases : aliases[m].id \in source_id_variants(id) => aliases[m].id = id
    BY <1>1, <2>3, AliasesOfRow DEF OneIInv
  <2>5. IsLast(aliases, source_id_variants(id), n)
    BY <1>1, <2>2, <2>3, <2>4 DEF IsLast, source_id_variants
  <2>6. legacy_alias_status(id) = "duplicate"
    BY <1>1, <2>2, <2>5, StatusAt, StatusIsLast DEF legacy_alias_status
  <2> QED BY <1>2, <2>6
<1>5. Row(id) \notin Cutover
  <2>1. PICK similar \in BOOLEAN : sessions[s].planned = plan_feed_holds(id, similar)
    BY <1>1 DEF OneIInv, ReadIsCurrent
  <2>2. ~plan_feed_holds(id, similar)
    BY <1>2, <1>3, <2>1
  <2> QED BY <1>2, <1>3, <1>4, <2>2 DEF plan_feed_holds
<1>6. reviewed[Row(id)] # "duplicate"
  <2> SUFFICES ASSUME reviewed[Row(id)] = "duplicate" PROVE FALSE
    OBVIOUS
  <2>1. PICK i \in SourceId : Row(i) = Row(id) /\ candidates[i] = "duplicate"
    BY <1>1 DEF OneIInv, ReviewedIsClosed
  <2>2. legacy_alias_status(i) = "duplicate"
    BY <2>1 DEF OneIInv, ClosedMeansDecided, Decision
  <2>3. legacy_alias_status(id) = "duplicate"
    BY <1>1, <2>1, <2>2, SameVariants DEF legacy_alias_status
  <2> QED BY <1>2, <2>3
<1> QED BY <1>5, <1>6

-----------------------------------------------------------------------------
(* Recording a decision *)

\* A decided list keeps every id at its place, and adds at most the decided one.
LEMMA DecidedIds ==
  ASSUME NEW read \in Seq(Alias), NEW id \in SourceId, NEW decision \in Decision
  PROVE  /\ DOMAIN read \subseteq DOMAIN Decided(read, id, decision)
         /\ \A n \in DOMAIN read : Decided(read, id, decision)[n].id = read[n].id
         /\ \A n \in DOMAIN read : read[n].id # id => Decided(read, id, decision)[n] = read[n]
         /\ \A n \in DOMAIN Decided(read, id, decision) \ DOMAIN read :
              Decided(read, id, decision)[n] = [id |-> id, status |-> decision]
<1>1. CASE \E j \in DOMAIN read : read[j].id = id
  <2>1. Decided(read, id, decision) = Redecided(read, id, decision)
    BY <1>1 DEF Decided
  <2> QED BY <2>1 DEF Redecided
<1>2. CASE ~\E j \in DOMAIN read : read[j].id = id
  <2> DEFINE a == [id |-> id, status |-> decision]
  <2>1. Decided(read, id, decision) = Append(read, a)
    BY <1>2 DEF Decided
  <2> HIDE DEF a
  <2>2. /\ DOMAIN Append(read, a) = 1..Len(read) + 1 /\ DOMAIN read = 1..Len(read) /\ Len(read) \in Nat
        /\ \A n \in 1..Len(read) : Append(read, a)[n] = read[n]
        /\ Append(read, a)[Len(read) + 1] = a
    OBVIOUS
  <2>3. \A n \in DOMAIN Append(read, a) \ DOMAIN read : n = Len(read) + 1
    BY <2>2
  <2> QED BY <2>1, <2>2, <2>3 DEF a
<1> QED BY <1>1, <1>2

\* The status of other rows stays.
LEMMA DecidedElsewhere ==
  ASSUME NEW read \in Seq(Alias), NEW id \in SourceId, NEW decision \in Decision, NEW ids, id \notin ids
  PROVE  StatusIn(Decided(read, id, decision), ids) = StatusIn(read, ids)
<1>1. Decided(read, id, decision) \in Seq(Alias)
  BY DecidedType
<1>2. \A n \in DOMAIN read : read[n].id \in ids => Decided(read, id, decision)[n] = read[n]
  BY DecidedIds
<1>3. \A n \in DOMAIN Decided(read, id, decision) :
        Decided(read, id, decision)[n].id \in ids => n \in DOMAIN read /\ read[n].id \in ids
  BY DecidedIds
<1>4. DOMAIN read \subseteq DOMAIN Decided(read, id, decision)
  BY DecidedIds
<1> HIDE DEF Decided
<1> QED BY <1>1, <1>2, <1>3, <1>4, StatusKept

\* The status of the row is the decision.
LEMMA DecidedHere ==
  ASSUME NEW read \in Seq(Alias), NEW id \in SourceId, NEW decision \in Decision, NEW ids, id \in ids,
         \A n \in DOMAIN read : read[n].id \in ids => read[n].id = id
  PROVE  StatusIn(Decided(read, id, decision), ids) = decision
<1>0. Decided(read, id, decision) \in Seq(Alias)
  BY DecidedType
<1>1. CASE \E j \in DOMAIN read : read[j].id = id
  <2>1. PICK n \in DOMAIN read : IsLast(read, ids, n)
    BY <1>1, StatusNone
  <2>2. /\ Decided(read, id, decision) = Redecided(read, id, decision)
        /\ DOMAIN Redecided(read, id, decision) = DOMAIN read
    BY <1>1 DEF Decided, Redecided
  <2>3. Redecided(read, id, decision)[n] = [id |-> id, status |-> decision]
    BY <2>1 DEF Redecided, IsLast
  <2>4. IsLast(Redecided(read, id, decision), ids, n)
    BY <2>1, <2>2, DecidedIds DEF IsLast
  <2> QED BY <1>0, <2>2, <2>3, <2>4, StatusAt
<1>2. CASE ~\E j \in DOMAIN read : read[j].id = id
  <2> DEFINE a == [id |-> id, status |-> decision]
  <2>1. Decided(read, id, decision) = Append(read, a)
    BY <1>2 DEF Decided
  <2>2. a.id = id /\ a.status = decision
    OBVIOUS
  <2> HIDE DEF a
  <2>3. /\ DOMAIN Append(read, a) = 1..Len(read) + 1 /\ Len(read) \in Nat
        /\ Append(read, a)[Len(read) + 1] = a
    OBVIOUS
  <2>4. \A m \in 1..Len(read) + 1 : m <= Len(read) + 1
    BY <2>3
  <2>5. IsLast(Append(read, a), ids, Len(read) + 1)
    BY <2>2, <2>3, <2>4 DEF IsLast
  <2>6. Append(read, a) \in Seq(Alias)
    BY <1>0, <2>1
  <2>7. StatusIn(Append(read, a), ids) = Append(read, a)[Len(read) + 1].status
    BY <2>5, <2>6, StatusAt
  <2> QED BY <2>1, <2>2, <2>3, <2>7
<1> QED BY <1>1, <1>2

-----------------------------------------------------------------------------
(* The steps, one by one *)

\* Readers of unchanged files read the same.
LEMMA SameReads ==
  ASSUME TypeOK, UNCHANGED <<candidates, aliases>>
  PROVE  /\ \A id : AlreadyHeld(id)' = AlreadyHeld(id)
         /\ \A id : legacy_alias_status(id)' = legacy_alias_status(id)
         /\ UNCHANGED books => \A id, similar : plan_feed_holds(id, similar)' = plan_feed_holds(id, similar)
<1>1. \A ids : LastStatus(ids)' = LastStatus(ids)
  BY StatusIsLast, StatusIsLastNext DEF TypeOK
<1>2. \A id : AlreadyHeld(id)' = AlreadyHeld(id)
  BY DEF AlreadyHeld
<1>3. \A id : legacy_alias_status(id)' = legacy_alias_status(id) /\ PlanDecision(id)' = PlanDecision(id)
  BY <1>1 DEF legacy_alias_status, PlanDecision
<1>4. UNCHANGED books => \A id : Known(id)' = Known(id)
  BY DEF Known
<1> QED BY <1>2, <1>3, <1>4 DEF plan_feed_holds

\* The hypotheses of a step of the only process s, which becomes new.
LEMMA Becoming ==
  ASSUME OneProcess, IInv, NEW s \in Sessions, NEW new, Becomes(s, new)
  PROVE  /\ TypeOK /\ aliases \in Seq(Alias) /\ sessions[s] \in Session
         /\ sessions'[s] = new
         /\ ReadIsCurrent(s)' => \A t \in Sessions : ReadIsCurrent(t)'
BY DEF OneProcess, IInv, TypeOK, Becomes

\* A command that ends or stops.
LEMMA EndStep ==
  ASSUME OneProcess, IInv, OneIInv, NEW s \in Sessions, Becomes(s, Idle),
         UNCHANGED <<candidates, aliases, reviewed>>, books \subseteq books',
         \A id \in delivered' \ delivered :
           (Known(id) \/ \E i \in source_id_variants(id) : candidates[i] # "none")'
  PROVE  OneIInv'
<1>1. TypeOK /\ sessions'[s] = Idle
  BY Becoming
<1>2. ReadIsCurrent(s)'
  BY <1>1 DEF ReadIsCurrent, Idle
<1>3. \A t \in Sessions : ReadIsCurrent(t)'
  BY <1>2, Becoming
<1> QED BY <1>1, <1>3, QuietStep

\* The steps of the import that keep both files as they are.
LEMMA ImportKeeps ==
  ASSUME OneProcess, IInv, OneIInv, NEW s \in Sessions,
         \/ \E id \in SourceId, similar \in BOOLEAN : ImportStart(s, id, similar)
         \/ ImportSkips(s) \/ ImportBooks(s) \/ ImportHolds(s) \/ HoldExists(s)
  PROVE  OneIInv'
<1>a. \A id \in SourceId : candidates[id] \in {"none", "open"} \cup Decision
  BY DEF IInv, TypeOK, Candidates
<1>b. sessions[s].pc # "idle" => sessions[s].id \in SourceId
  BY DEF IInv, HasId
<1>1. ASSUME NEW id \in SourceId, NEW similar \in BOOLEAN, ImportStart(s, id, similar)
      PROVE  OneIInv'
  <2> DEFINE new == [Idle EXCEPT !.pc = "row", !.id = id, !.held = AlreadyHeld(id),
                                 !.planned = plan_feed_holds(id, similar)]
  <2>1. Becomes(s, new) /\ UNCHANGED <<candidates, aliases, books, crashes, delivered, reviewed>>
    BY <1>1 DEF ImportStart
  <2>2. /\ new.pc = "row" /\ new.id = id /\ new.held = AlreadyHeld(id)
        /\ new.planned = plan_feed_holds(id, similar)
    BY DEF Idle
  <2> HIDE DEF new
  <2>3. TypeOK /\ sessions'[s] = new
    BY <2>1, Becoming
  <2>4. ReadIsCurrent(s)'
    BY <2>1, <2>2, <2>3, SameReads DEF ReadIsCurrent
  <2>5. \A t \in Sessions : ReadIsCurrent(t)'
    BY <2>1, <2>4, Becoming
  <2> QED BY <2>1, <2>3, <2>5, QuietStep
<1>2. CASE ImportSkips(s)
  <2> DEFINE id == sessions[s].id
  <2>1. /\ Becomes(s, Idle) /\ UNCHANGED <<candidates, aliases, books, reviewed>> /\ sessions[s].pc = "row"
        /\ delivered' = delivered \cup {id}
        /\ Known(id) \/ sessions[s].held \/ legacy_alias_status(id) = "duplicate"
    BY <1>2 DEF ImportSkips, ImportReturns
  <2>2. id \in SourceId /\ (sessions[s].held => AlreadyHeld(id))
    BY <1>b, <2>1 DEF OneIInv, ReadIsCurrent
  <2>3. Known(id) \/ \E i \in source_id_variants(id) : candidates[i] # "none"
    BY <2>1, <2>2, SkippedIsAccounted
  <2>4. (Known(id) \/ \E i \in source_id_variants(id) : candidates[i] # "none")
        => \A d \in delivered' \ delivered :
             (Known(d) \/ \E i \in source_id_variants(d) : candidates[i] # "none")'
    BY <2>1 DEF Known
  <2> QED BY <2>1, <2>3, <2>4, EndStep
<1>3. CASE ImportBooks(s)
  <2> DEFINE id == sessions[s].id
  <2>1. /\ Becomes(s, Idle) /\ UNCHANGED <<candidates, aliases, reviewed>> /\ sessions[s].pc = "row"
        /\ delivered' = delivered \cup {id} /\ books' = books \cup {id}
    BY <1>3 DEF ImportBooks, ImportReturns
  <2>2. source_id_variants(id) \cap books' # {}
    BY <1>b, <2>1 DEF source_id_variants
  <2>3. ASSUME NEW d \in delivered' \ delivered PROVE Known(d)'
    <3>1. d = id
      BY <2>1
    <3> QED BY <2>2, <3>1 DEF Known
  <2> QED BY <2>1, <2>3, EndStep
<1>4. CASE ImportHolds(s)
  <2> DEFINE id == sessions[s].id
             new == [sessions[s] EXCEPT !.pc = "hold", !.candidates = candidates]
  <2>1. /\ Becomes(s, new) /\ sessions[s].pc = "row"
        /\ ~sessions[s].held /\ legacy_alias_status(id) \notin Decision
        /\ UNCHANGED <<candidates, aliases, books, lock, crashes, delivered, reviewed>>
    BY <1>4 DEF ImportHolds
  <2>2. new.pc = "hold" /\ new.id = id /\ new.candidates = candidates
    BY <2>1, Becoming DEF Session
  <2>3. ~AlreadyHeld(id) /\ id \in SourceId
    BY <1>b, <2>1 DEF OneIInv, ReadIsCurrent
  <2>4. NeverHeld(id)
    <3> SUFFICES ASSUME NEW i \in source_id_variants(id), candidates[i] # "none" PROVE FALSE
      BY DEF NeverHeld
    <3>1. i \in SourceId /\ candidates[i] \in Decision
      BY <1>a, <2>3 DEF AlreadyHeld, source_id_variants
    <3>2. legacy_alias_status(i) = candidates[i]
      BY <3>1 DEF OneIInv, ClosedMeansDecided
    <3>3. legacy_alias_status(id) = legacy_alias_status(i)
      BY <2>3, <3>1, SameVariants DEF legacy_alias_status, source_id_variants
    <3> QED BY <2>1, <3>1, <3>2, <3>3
  <2> HIDE DEF new
  <2>5. TypeOK /\ sessions'[s] = new
    BY <2>1, Becoming
  <2>6. ReadIsCurrent(s)'
    BY <2>1, <2>2, <2>4, <2>5 DEF ReadIsCurrent, NeverHeld
  <2>7. \A t \in Sessions : ReadIsCurrent(t)'
    BY <2>1, <2>6, Becoming
  <2> QED BY <2>1, <2>5, <2>7, QuietStep
<1>5. CASE HoldExists(s)
  <2> DEFINE id == sessions[s].id
  <2>1. /\ Becomes(s, Idle) /\ UNCHANGED <<candidates, aliases, books, reviewed>> /\ sessions[s].pc = "hold"
        /\ delivered' = delivered \cup {id} /\ sessions[s].candidates[id] # "none"
    BY <1>5 DEF HoldExists, ImportReturns
  <2>2. candidates[id] # "none" /\ id \in source_id_variants(id)
    BY <1>b, <2>1 DEF OneIInv, ReadIsCurrent, source_id_variants
  <2>3. \A d \in delivered' \ delivered : \E i \in source_id_variants(d) : candidates'[i] # "none"
    BY <2>1, <2>2
  <2> QED BY <2>1, <2>3, EndStep
<1> QED BY <1>1, <1>2, <1>3, <1>4, <1>5

\* The steps of a decision that keep both files as they are, and a stop.
LEMMA DecisionKeeps ==
  ASSUME OneProcess, IInv, OneIInv, NEW s \in Sessions,
         \/ \E id \in SourceId, decision \in Decision : Resolve(s, id, decision)
         \/ Release(s) \/ Crash(s)
  PROVE  OneIInv'
<1>1. ASSUME NEW id \in SourceId, NEW decision \in Decision, Resolve(s, id, decision)
      PROVE  OneIInv'
  <2> DEFINE new == [Idle EXCEPT !.pc = IF decision = "distinct" THEN "release" ELSE "decide",
                            !.id = id, !.decision = decision,
                            !.candidates = candidates, !.aliases = aliases]
  <2>1. /\ Becomes(s, new) /\ candidates[id] = "open"
        /\ UNCHANGED <<candidates, aliases, books, lock, crashes, delivered, reviewed>>
    BY <1>1 DEF Resolve
  <2>2. /\ new.pc \in {"release", "decide"} /\ new.id = id
        /\ new.candidates = candidates /\ new.aliases = aliases
    BY DEF Idle
  <2> HIDE DEF new
  <2>3. TypeOK /\ sessions'[s] = new
    BY <2>1, Becoming
  <2>4. ReadIsCurrent(s)'
    BY <2>1, <2>2, <2>3 DEF ReadIsCurrent
  <2>5. \A t \in Sessions : ReadIsCurrent(t)'
    BY <2>1, <2>4, Becoming
  <2> QED BY <2>1, <2>3, <2>5, QuietStep
<1>2. CASE Release(s)
  <2> DEFINE id == sessions[s].id
             new == [sessions[s] EXCEPT !.pc = "decide", !.aliases = aliases]
  <2>1. /\ Becomes(s, new) /\ sessions[s].pc = "release" /\ books \subseteq books'
        /\ UNCHANGED <<candidates, aliases, lock, crashes, delivered, reviewed>>
    BY <1>2 DEF Release
  <2>2. candidates[id] = "open" /\ sessions[s].candidates = candidates
    BY <2>1 DEF OneIInv, ReadIsCurrent
  <2>3. new.pc = "decide" /\ new.id = id /\ new.candidates = candidates /\ new.aliases = aliases
    BY <2>1, <2>2, Becoming DEF Session
  <2> HIDE DEF new
  <2>4. TypeOK /\ sessions'[s] = new
    BY <2>1, Becoming
  <2>5. ReadIsCurrent(s)'
    BY <2>1, <2>2, <2>3, <2>4 DEF ReadIsCurrent
  <2>6. \A t \in Sessions : ReadIsCurrent(t)'
    BY <2>1, <2>5, Becoming
  <2> QED BY <2>1, <2>4, <2>6, QuietStep
<1>3. CASE Crash(s)
  BY <1>3, EndStep DEF Crash
<1> QED BY <1>1, <1>2, <1>3

\* An import that holds a row writes its candidate.
LEMMA HoldWrites ==
  ASSUME OneProcess, IInv, OneIInv, NEW s \in Sessions, HoldWritesCandidates(s)
  PROVE  OneIInv'
<1> DEFINE new == [sessions[s] EXCEPT !.pc = "alias", !.aliases = aliases]
<1>1. PICK id \in SourceId : id = sessions[s].id
  BY DEF HoldWritesCandidates, IInv, HasId
<1>2. /\ Becomes(s, new) /\ sessions[s].pc = "hold"
      /\ UNCHANGED <<aliases, books, lock, crashes, delivered, reviewed>>
      /\ candidates' = [candidates EXCEPT ![id] = "open"] /\ NeverHeld(id)
  BY <1>1 DEF HoldWritesCandidates, OneIInv, ReadIsCurrent
<1>3. /\ new.pc = "alias" /\ new.id = id /\ new.aliases = aliases
      /\ TypeOK /\ aliases \in Seq(Alias) /\ sessions'[s] = new
  BY <1>1, <1>2, Becoming DEF Session
<1>4. /\ candidates'[id] = "open" /\ candidates[id] = "none"
      /\ \A i \in SourceId : i # id => candidates'[i] = candidates[i]
  BY <1>1, <1>2, <1>3 DEF TypeOK, Candidates, NeverHeld, source_id_variants
<1>5. HeldOncePerRow'
  BY <1>1, <1>2, <1>4 DEF HeldOncePerRow, OneIInv, NeverHeld, source_id_variants
<1>6. AliasesOfHeld'
  <2>1. \A n \in DOMAIN aliases : aliases[n].id \in SourceId
    BY <1>3, AliasIds
  <2> QED BY <1>2, <1>4, <2>1 DEF AliasesOfHeld, OneIInv
<1>7. ClosedMeansDecided'
  <2>1. \A i : legacy_alias_status(i)' = legacy_alias_status(i)
    BY <1>2, <1>3, StatusIsLast, StatusIsLastNext DEF legacy_alias_status
  <2>2. "open" \notin Decision
    BY DEF Decision
  <2> QED BY <1>4, <2>1, <2>2 DEF ClosedMeansDecided, OneIInv
<1>8. ReviewedIsClosed'
  BY <1>2, <1>4 DEF ReviewedIsClosed, OneIInv
<1>9. RowAccountedFor'
  <2> SUFFICES ASSUME NEW d \in delivered
               PROVE  (Known(d) \/ \E i \in source_id_variants(d) : candidates[i] # "none")'
    BY <1>2 DEF RowAccountedFor
  <2>1. CASE Known(d)
    BY <1>2, <2>1 DEF Known
  <2>2. CASE \E i \in source_id_variants(d) : candidates[i] # "none"
    BY <1>4, <2>2 DEF source_id_variants
  <2> QED BY <2>1, <2>2 DEF OneIInv, RowAccountedFor
<1>10. ReadIsCurrent(s)'
  <2> HIDE DEF new
  <2> QED BY <1>2, <1>3, <1>4 DEF ReadIsCurrent
<1>11. \A t \in Sessions : ReadIsCurrent(t)'
  BY <1>2, <1>10, Becoming
<1> QED BY <1>5, <1>6, <1>7, <1>8, <1>9, <1>11 DEF OneIInv

\* A write of the aliases, for a row that is open, that keeps the status of every other row.
LEMMA AliasStep ==
  ASSUME IInv, OneIInv, NEW id \in SourceId, candidates[id] = "open", aliases' \in Seq(Alias),
         UNCHANGED <<candidates, books, reviewed>>, delivered' \subseteq delivered \cup {id},
         \A n \in DOMAIN aliases' : \/ aliases'[n].id = id
                                    \/ n \in DOMAIN aliases /\ aliases'[n].id = aliases[n].id,
         \A ids : id \notin ids => StatusIn(aliases', ids) = StatusIn(aliases, ids),
         \A t \in Sessions : ReadIsCurrent(t)'
  PROVE  OneIInv'
<1>1. HeldOncePerRow' /\ ReviewedIsClosed' /\ AliasesOfHeld'
  BY DEF OneIInv, HeldOncePerRow, ReviewedIsClosed, AliasesOfHeld
<1>2. ClosedMeansDecided'
  <2> SUFFICES ASSUME NEW i \in SourceId, candidates[i] \in Decision
               PROVE  legacy_alias_status(i)' = candidates[i]
    BY DEF ClosedMeansDecided
  <2>1. id \notin source_id_variants(i)
    BY DEF OneIInv, HeldOncePerRow, source_id_variants, Decision
  <2>2. aliases \in Seq(Alias)
    BY DEF IInv, TypeOK
  <2>3. LastStatus(source_id_variants(i))' = LastStatus(source_id_variants(i))
    BY <2>1, <2>2, StatusIsLast, StatusIsLastNext
  <2>4. legacy_alias_status(i)' = legacy_alias_status(i)
    BY <2>3 DEF legacy_alias_status
  <2> QED BY <2>4 DEF OneIInv, ClosedMeansDecided
<1>3. RowAccountedFor'
  <2> SUFFICES ASSUME NEW d \in delivered'
               PROVE  (Known(d) \/ \E i \in source_id_variants(d) : candidates[i] # "none")'
    BY DEF RowAccountedFor
  <2>1. CASE d \in delivered
    BY <2>1 DEF OneIInv, RowAccountedFor, Known
  <2>2. CASE d = id
    BY <2>2 DEF source_id_variants
  <2> QED BY <2>1, <2>2
<1> QED BY <1>1, <1>2, <1>3 DEF OneIInv

\* An import that holds a row writes its alias.
LEMMA HoldAliases ==
  ASSUME OneProcess, IInv, OneIInv, NEW s \in Sessions, HoldWritesAliases(s)
  PROVE  OneIInv'
<1>1. PICK id \in SourceId : id = sessions[s].id
  BY DEF HoldWritesAliases, IInv, HasId
<1> DEFINE a == [id |-> id, status |-> "candidate"]
<1>2. /\ Becomes(s, Idle) /\ UNCHANGED <<candidates, books, reviewed>> /\ delivered' = delivered \cup {id}
      /\ aliases' = Append(aliases, a) /\ candidates[id] = "open"
  BY <1>1 DEF HoldWritesAliases, ImportReturns, OneIInv, ReadIsCurrent
<1>3. aliases \in Seq(Alias) /\ sessions'[s] = Idle /\ a \in Alias /\ a.id = id
  BY <1>2, Becoming DEF Alias
<1>4. ReadIsCurrent(s)'
  BY <1>3 DEF ReadIsCurrent, Idle
<1>5. \A t \in Sessions : ReadIsCurrent(t)'
  BY <1>2, <1>4, Becoming
<1> HIDE DEF a
<1>6. /\ aliases' \in Seq(Alias) /\ DOMAIN aliases \subseteq DOMAIN aliases'
      /\ \A n \in DOMAIN aliases : aliases'[n] = aliases[n]
      /\ \A n \in DOMAIN aliases' : aliases'[n] = a \/ n \in DOMAIN aliases
  BY <1>2, <1>3
<1>7. ASSUME NEW ids, id \notin ids PROVE StatusIn(aliases', ids) = StatusIn(aliases, ids)
  <2>1. \A n \in DOMAIN aliases' : aliases'[n].id \in ids => n \in DOMAIN aliases /\ aliases[n].id \in ids
    BY <1>3, <1>6, <1>7
  <2> QED BY <1>3, <1>6, <2>1, StatusKept
<1> QED BY <1>2, <1>3, <1>5, <1>6, <1>7, AliasStep

\* A decision is written: the list of aliases.
LEMMA DecisionWrites ==
  ASSUME OneProcess, IInv, OneIInv, NEW s \in Sessions, WriteDecision(s)
  PROVE  OneIInv'
<1> DEFINE new == [sessions[s] EXCEPT !.pc = "close"]
<1>1. PICK id \in SourceId : id = sessions[s].id
  BY DEF WriteDecision, IInv, HasId
<1>2. PICK decision \in Decision : decision = sessions[s].decision
  BY Becoming DEF Session, IInv, TypeOK
<1>3. /\ Becomes(s, new) /\ UNCHANGED <<candidates, books, delivered, reviewed>>
      /\ aliases' = Decided(aliases, id, decision)
      /\ candidates[id] = "open" /\ sessions[s].candidates = candidates
  BY <1>1, <1>2 DEF WriteDecision, OneIInv, ReadIsCurrent
<1>4. /\ aliases \in Seq(Alias) /\ sessions'[s] = new /\ sessions[s] \in Session
  BY <1>3, Becoming
<1>5. /\ new.pc = "close" /\ new.id = id /\ new.decision = decision /\ new.candidates = candidates
  BY <1>1, <1>2, <1>3, <1>4 DEF Session
<1>6. aliases' \in Seq(Alias)
  BY <1>3, <1>4, DecidedType
<1>7. \A n \in DOMAIN aliases : aliases[n].id \in source_id_variants(id) => aliases[n].id = id
  BY <1>3, <1>4, AliasesOfRow DEF OneIInv
<1>8. StatusIn(aliases', source_id_variants(id)) = decision
  <2>1. id \in source_id_variants(id)
    BY DEF source_id_variants
  <2> QED BY <1>3, <1>4, <1>7, <2>1, DecidedHere
<1>9. legacy_alias_status(id)' = decision
  BY <1>6, <1>8, StatusIsLastNext DEF legacy_alias_status
<1>10. ReadIsCurrent(s)'
  <2> HIDE DEF new
  <2> QED BY <1>3, <1>4, <1>5, <1>9 DEF ReadIsCurrent
<1>11. \A t \in Sessions : ReadIsCurrent(t)'
  BY <1>3, <1>10, Becoming
<1>12. \A n \in DOMAIN aliases' : \/ aliases'[n].id = id
                                  \/ n \in DOMAIN aliases /\ aliases'[n].id = aliases[n].id
  BY <1>3, <1>4, DecidedIds
<1>13. \A ids : id \notin ids => StatusIn(aliases', ids) = StatusIn(aliases, ids)
  BY <1>3, <1>4, DecidedElsewhere
<1> QED BY <1>3, <1>6, <1>11, <1>12, <1>13, AliasStep

\* A decision is written: the list of candidates.
LEMMA CloseWrites ==
  ASSUME OneProcess, IInv, OneIInv, NEW s \in Sessions, CloseCandidate(s)
  PROVE  OneIInv'
<1>1. PICK id \in SourceId : id = sessions[s].id
  BY DEF CloseCandidate, IInv, HasId
<1>2. PICK decision \in Decision : decision = sessions[s].decision
  BY Becoming DEF Session, IInv, TypeOK
<1>3. /\ Becomes(s, Idle) /\ UNCHANGED <<aliases, books, delivered>>
      /\ candidates' = [candidates EXCEPT ![id] = decision]
      /\ reviewed' = [reviewed EXCEPT ![Row(id)] = decision]
      /\ candidates[id] = "open" /\ legacy_alias_status(id) = decision
  BY <1>1, <1>2 DEF CloseCandidate, OneIInv, ReadIsCurrent
<1>4. TypeOK /\ aliases \in Seq(Alias) /\ sessions'[s] = Idle
  BY <1>3, Becoming
<1>5. /\ candidates'[id] = decision /\ decision # "none" /\ Row(id) \in Rows
      /\ \A i \in SourceId : i # id => candidates'[i] = candidates[i]
      /\ reviewed'[Row(id)] = decision
      /\ \A r \in Rows : r # Row(id) => reviewed'[r] = reviewed[r]
  BY <1>3, <1>4 DEF TypeOK, Candidates, Decision, Row, SourceId
<1>6. HeldOncePerRow'
  BY <1>3, <1>5 DEF HeldOncePerRow, OneIInv
<1>7. AliasesOfHeld'
  <2>1. \A n \in DOMAIN aliases : aliases[n].id \in SourceId
    BY <1>4, AliasIds
  <2> QED BY <1>3, <1>5, <2>1 DEF AliasesOfHeld, OneIInv
<1>8. ClosedMeansDecided'
  <2>1. \A i : legacy_alias_status(i)' = legacy_alias_status(i)
    BY <1>3, <1>4, StatusIsLast, StatusIsLastNext DEF legacy_alias_status
  <2> QED BY <1>3, <1>5, <2>1 DEF ClosedMeansDecided, OneIInv
<1>9. ReviewedIsClosed'
  <2> SUFFICES ASSUME NEW r \in Rows, reviewed'[r] # "none"
               PROVE  \E i \in SourceId : Row(i) = r /\ candidates'[i] = reviewed'[r]
    BY DEF ReviewedIsClosed
  <2>1. CASE r = Row(id)
    BY <1>5, <2>1
  <2>2. CASE r # Row(id)
    BY <1>5, <2>2 DEF OneIInv, ReviewedIsClosed
  <2> QED BY <2>1, <2>2
<1>10. RowAccountedFor'
  <2> SUFFICES ASSUME NEW d \in delivered
               PROVE  (Known(d) \/ \E i \in source_id_variants(d) : candidates[i] # "none")'
    BY <1>3 DEF RowAccountedFor
  <2>1. CASE Known(d)
    BY <1>3, <2>1 DEF Known
  <2>2. CASE \E i \in source_id_variants(d) : candidates[i] # "none"
    BY <1>5, <2>2 DEF source_id_variants
  <2> QED BY <2>1, <2>2 DEF OneIInv, RowAccountedFor
<1>11. ReadIsCurrent(s)'
  BY <1>4 DEF ReadIsCurrent, Idle
<1>12. \A t \in Sessions : ReadIsCurrent(t)'
  BY <1>3, <1>11, Becoming
<1> QED BY <1>6, <1>7, <1>8, <1>9, <1>10, <1>12 DEF OneIInv

-----------------------------------------------------------------------------
\* With one process, the files and what it read of them agree in every state.
THEOREM OneInvariance ==
  ASSUME OneProcess
  PROVE  Spec => [](IInv /\ OneIInv)
<1>1. Init => OneIInv
  <2> SUFFICES ASSUME Init PROVE OneIInv
    OBVIOUS
  <2>1. /\ HeldOncePerRow /\ AliasesOfHeld /\ ClosedMeansDecided
    BY DEF Init, NoCandidates, HeldOncePerRow, AliasesOfHeld, ClosedMeansDecided, Decision
  <2>2. ReviewedIsClosed /\ RowAccountedFor
    BY DEF Init, ReviewedIsClosed, RowAccountedFor
  <2>3. \A s \in Sessions : ReadIsCurrent(s)
    BY DEF Init, ReadIsCurrent, Idle
  <2> QED BY <2>1, <2>2, <2>3 DEF OneIInv
<1>2. IInv /\ OneIInv /\ [Next]_vars => OneIInv'
  <2> SUFFICES ASSUME IInv, OneIInv, [Next]_vars PROVE OneIInv'
    OBVIOUS
  <2>1. CASE UNCHANGED vars
    <3>1. /\ TypeOK /\ UNCHANGED <<candidates, aliases, books, sessions, delivered, reviewed>>
      BY <2>1 DEF vars, IInv
    <3>2. ASSUME NEW s \in Sessions PROVE ReadIsCurrent(s)'
      <4>1. ReadIsCurrent(s)
        BY DEF OneIInv
      <4> QED BY <3>1, <4>1, SameReads DEF ReadIsCurrent, NeverHeld
    <3> QED BY <3>1, <3>2, QuietStep
  <2>2. ASSUME NEW s \in Sessions, Next PROVE OneIInv'
    <3>1. PICK t \in Sessions :
            \/ \E id \in SourceId, similar \in BOOLEAN : ImportStart(t, id, similar)
            \/ ImportSkips(t) \/ ImportBooks(t) \/ ImportHolds(t)
            \/ HoldExists(t) \/ HoldWritesCandidates(t) \/ HoldWritesAliases(t)
            \/ \E id \in SourceId, decision \in Decision : Resolve(t, id, decision)
            \/ Release(t) \/ WriteDecision(t) \/ CloseCandidate(t)
            \/ Crash(t)
      BY <2>2 DEF Next
    <3> QED BY <3>1, ImportKeeps, DecisionKeeps, HoldWrites, HoldAliases, DecisionWrites, CloseWrites
  <2> QED BY <2>1, <2>2 DEF Next
<1> QED BY <1>1, <1>2, InitInv, NextInv, PTL DEF Spec

\* A row whose import returned is in the books, or held, or decided, in spite of
\* any number of stops between the writes of the two files.
THEOREM RowsAccountedFor ==
  ASSUME OneProcess
  PROVE  Spec => []RowAccountedFor
<1>1. OneIInv => RowAccountedFor
  BY DEF OneIInv
<1> QED BY <1>1, OneInvariance, PTL

\* A hold ends by the decision on it only.
THEOREM HeldUntilDecided ==
  ASSUME OneProcess
  PROVE  Spec => HeldUntilReviewed
<1>1. IInv /\ OneIInv /\ [Next]_vars =>
        [\A id \in SourceId : candidates[id] = "open" /\ candidates'[id] # "open" =>
           \E s \in Sessions : sessions[s].pc = "close" /\ sessions[s].id = id]_vars
  <2> SUFFICES ASSUME IInv, OneIInv, Next,
                      NEW id \in SourceId, candidates[id] = "open", candidates'[id] # "open"
               PROVE  \E s \in Sessions : sessions[s].pc = "close" /\ sessions[s].id = id
    OBVIOUS
  <2>1. PICK s \in Sessions : HoldWritesCandidates(s) \/ CloseCandidate(s)
    BY DEF Next, ImportStart, ImportSkips, ImportBooks, ImportHolds, HoldExists, HoldWritesAliases,
           Resolve, Release, WriteDecision, Crash
  <2>2. sessions[s].candidates = candidates /\ candidates \in Candidates
    BY <2>1 DEF HoldWritesCandidates, CloseCandidate, OneIInv, ReadIsCurrent, IInv, TypeOK
  <2>3. CASE HoldWritesCandidates(s)
    BY <2>2, <2>3 DEF HoldWritesCandidates, Candidates
  <2>4. CASE CloseCandidate(s)
    BY <2>2, <2>4 DEF CloseCandidate, Candidates
  <2> QED BY <2>1, <2>3, <2>4
<1> QED BY <1>1, OneInvariance, PTL DEF Spec, HeldUntilReviewed

\* A decided duplicate stays out of the books, and a row before the cutover enters
\* them only when a person released it.
THEOREM HeldStaysOut ==
  ASSUME OneProcess
  PROVE  Spec => HeldRowsStayOut
<1>1. IInv /\ OneIInv /\ [Next]_vars =>
        [\A id \in books' \ books : (reviewed[Row(id)] = "duplicate" \/ Row(id) \in Cutover) =>
           \E s \in Sessions : sessions[s].pc = "release" /\ sessions[s].id = id]_vars
  <2> SUFFICES ASSUME IInv, OneIInv, Next, NEW id \in books' \ books,
                      reviewed[Row(id)] = "duplicate" \/ Row(id) \in Cutover
               PROVE  \E s \in Sessions : sessions[s].pc = "release" /\ sessions[s].id = id
    OBVIOUS
  <2>1. PICK s \in Sessions : ImportBooks(s) \/ Release(s)
    BY DEF Next, ImportStart, ImportSkips, ImportHolds, HoldExists, HoldWritesCandidates, HoldWritesAliases,
           Resolve, WriteDecision, CloseCandidate, Crash
  <2>2. sessions[s].id = id
    BY <2>1 DEF ImportBooks, Release
  <2>3. CASE ImportBooks(s)
    BY <2>2, <2>3, BookedIsFree
  <2>4. CASE Release(s)
    BY <2>2, <2>4 DEF Release
  <2> QED BY <2>1, <2>3, <2>4
<1> QED BY <1>1, OneInvariance, PTL DEF Spec, HeldRowsStayOut

-------------------------------------------------------------------------------

\* A plan moves numbers on accounts that are no bank accounts.
PlanOK(plan) ==
  /\ plan \in [DOMAIN plan -> Int] /\ IsFiniteSet(DOMAIN plan)
  /\ DOMAIN plan \cap (Range(AccountOf) \cup {Clearing}) = {}

\* An item that may be approved.
ItemOK(i) ==
  LET q == queue[i] IN
  /\ q.hash \in [i -> Int] /\ PlanOK(q.plan)
  /\ q.type = "transfer" <=> i \in Pairs
  /\ q.type \in {"category", "split", "transfer"}
  /\ q.type = "category" => \A r \in i : SplitTotal(q.plan) = -q.hash[r]

\* The files: rows with amounts, items that are in order while they may be approved.
FilesOK ==
  /\ DOMAIN staged \subseteq DeskRows /\ staged \in [DOMAIN staged -> Int]
  /\ DOMAIN queue = Ids
  /\ \A i \in Ids : "status" \in DOMAIN queue[i]
  /\ \A i \in Ids : Status(i) \in {"open", "reopened"} => ItemOK(i)
  /\ template \subseteq Plans
  /\ job # NoJob => job.id \in Ids /\ job.status \in ClosedStatus

\* Every row of an entry has a source transaction.
LedgerOK ==
  /\ IsFiniteSet(entries) /\ IsFiniteSet(DOMAIN sources)
  /\ \A r \in DOMAIN sources : sources[r] \in Int
  /\ \A e \in entries : e.rows # {} /\ e.rows \subseteq DOMAIN sources /\ \A a : Moves(e, a) \in Int
  /\ \A rec \in receipts : rec.id \subseteq DOMAIN sources

DeskInv == FilesOK /\ LedgerOK /\ PostedAsApproved /\ RowHasOneEntry

--------------------------------------------------------------------------------
\* What a row moves on an account.
Share(r, a) == IF AccountOf[r] = a THEN staged[r] ELSE 0

\* What a transaction adds: balanced entries of its rows, which move on every bank
\* account what these rows do, and nothing on the clearing account.
Adds(N, i) ==
  /\ IsFiniteSet(N)
  /\ \A e \in N : /\ e.rows # {} /\ e.rows \subseteq i /\ SumFunction(e.postings) = 0
                  /\ \A a : Moves(e, a) \in Int
  /\ \A e, f \in N : e.rows \cap f.rows # {} => e = f
  /\ \A a \in Range(AccountOf) :
       SumFunctionOnSet([e \in N |-> Moves(e, a)], N) = SumFunctionOnSet([r \in i |-> Share(r, a)], i)
  /\ SumFunctionOnSet([e \in N |-> Moves(e, Clearing)], N) = 0

\* The rows of an id are one or two of the feed.
LEMMA IdForm ==
  ASSUME NEW i \in Ids
  PROVE  /\ i # {} /\ i \subseteq DeskRows /\ IsFiniteSet(i)
         /\ i \notin Pairs => \E r \in DeskRows : i = {r}
         /\ i \in Pairs => \E r, s \in i : r # s /\ i = {r, s}
<1>1. CASE i \in Pairs
  <2>1. PICK r \in i, s \in i : r # s /\ i = {r, s}
    BY <1>1 DEF Pairs
  <2>2. i = {r} \cup {s} /\ i \subseteq DeskRows
    BY <1>1, <2>1 DEF Pairs
  <2>3. IsFiniteSet({r} \cup {s})
    BY FS_Singleton, FS_Union
  <2>4. QED
    BY <1>1, <2>1, <2>2, <2>3
<1>2. CASE i \notin Pairs
  <2>1. PICK r \in DeskRows : i = {r}
    BY <1>2 DEF Ids
  <2>2. QED
    BY <1>2, <2>1, FS_Singleton
<1>3. QED
  BY <1>1, <1>2

\* Two values sum to their sum.
LEMMA SumTwo ==
  ASSUME NEW x, NEW y, x # y, NEW f, f[x] \in Int, f[y] \in Int
  PROVE  SumFunctionOnSet(f, {x, y}) = f[x] + f[y]
<1>1. {x, y} = {x} \cup {y}
  OBVIOUS
<1>2. SumFunctionOnSet(f, {x} \cup {y}) = SumFunctionOnSet(f, {x}) + f[y]
  BY FS_Singleton, SumAdd
<1>3. SumFunctionOnSet(f, {x}) = f[x]
  BY SumOne
<1>4. QED
  BY <1>1, <1>2, <1>3

\* A row posted on its own, to a plan of its amount.
LEMMA AloneAdds ==
  ASSUME NEW r \in DeskRows, staged[r] \in Int, NEW plan, PlanOK(plan), SplitTotal(plan) = -staged[r]
  PROVE  Adds({Lines({r}, r, Both(plan, Bank(r)))}, {r})
<1> DEFINE b == Both(plan, Bank(r))
           n == Lines({r}, r, b)
           A == AccountOf[r]
<1>1. A \in Range(AccountOf) /\ A \notin DOMAIN plan
  BY DeskAssumption DEF PlanOK, Range
<1>2. DOMAIN b = DOMAIN plan \cup {A}
  BY DEF Both, Bank
<1>3. b[A] = staged[r] /\ \A x \in DOMAIN plan : b[x] = plan[x]
  BY <1>1 DEF Both, Bank
<1>4. \A x \in DOMAIN b : b[x] \in Int
  BY <1>2, <1>3 DEF PlanOK
<1>5. n.rows = {r} /\ n.postings = b
  BY DEF Lines
<1>6. SumFunction(b) = 0
  <2>1. SumFunction(b) = SumFunctionOnSet(b, DOMAIN plan \cup {A})
    BY <1>2, SumAll
  <2>2. IsFiniteSet(DOMAIN plan)
    BY DEF PlanOK
  <2> HIDE DEF b, A
  <2>3. SumFunctionOnSet(b, DOMAIN plan \cup {A}) = SumFunctionOnSet(b, DOMAIN plan) + b[A]
    BY <1>1, <1>2, <1>4, <2>2, SumAdd
  <2>4. SumFunctionOnSet(b, DOMAIN plan) = SumFunctionOnSet(plan, DOMAIN plan)
    BY <1>3, <2>2, SumSame
  <2>5. SumFunctionOnSet(plan, DOMAIN plan) = -staged[r]
    BY SumAll DEF SplitTotal
  <2>6. QED
    BY <1>3, <2>1, <2>3, <2>4, <2>5
<1>7. \A a : Moves(n, a) \in Int
  BY <1>4, <1>5 DEF Moves
<1>8. ASSUME NEW a \in Range(AccountOf)
      PROVE  SumFunctionOnSet([e \in {n} |-> Moves(e, a)], {n})
             = SumFunctionOnSet([x \in {r} |-> Share(x, a)], {r})
  <2> DEFINE f == [e \in {n} |-> Moves(e, a)]
             h == [x \in {r} |-> Share(x, a)]
  <2>1. f[n] = Moves(n, a) /\ h[r] = Share(r, a)
    OBVIOUS
  <2>2. Moves(n, a) = Share(r, a)
    <3>1. CASE a = A
      BY <1>2, <1>3, <1>5, <3>1 DEF Moves, Share
    <3>2. CASE a # A
      <4>1. a \notin DOMAIN b
        BY <1>2, <3>2 DEF PlanOK
      <4>2. QED
        BY <1>5, <3>2, <4>1 DEF Moves, Share
    <3>3. QED
      BY <3>1, <3>2
  <2>3. Moves(n, a) \in Int
    BY <1>7
  <2> HIDE DEF f, h, n
  <2>4. QED
    BY <2>1, <2>2, <2>3, SumOne
<1>9. SumFunctionOnSet([e \in {n} |-> Moves(e, Clearing)], {n}) = 0
  <2>1. Clearing \notin DOMAIN b
    BY <1>1, <1>2, DeskAssumption DEF PlanOK
  <2>2. Moves(n, Clearing) = 0
    BY <1>5, <2>1 DEF Moves
  <2> HIDE DEF n
  <2>3. [e \in {n} |-> Moves(e, Clearing)][n] = 0
    BY <2>2
  <2>4. QED
    BY <2>3, SumOne
<1>10. IsFiniteSet({n})
  BY FS_Singleton
<1> HIDE DEF b, n
<1>11. Adds({n}, {r})
  BY <1>5, <1>6, <1>7, <1>8, <1>9, <1>10 DEF Adds
<1>12. QED
  BY <1>11 DEF n, b


\* Two sides of one day are one entry.
LEMMA SameDayAdds ==
  ASSUME NEW i \in Pairs, NEW r \in i, NEW s \in i, r # s, i = {r, s}, NEW o,
         staged[r] \in Int, staged[s] = -staged[r], AccountOf[r] # AccountOf[s]
  PROVE  Adds({Lines(i, o, [a \in {AccountOf[x] : x \in i} |-> staged[Side(i, a)]])}, i)
<1> DEFINE b == [a \in {AccountOf[x] : x \in i} |-> staged[Side(i, a)]]
           n == Lines(i, o, b)
           A == AccountOf[r]
           C == AccountOf[s]
<1>1. Side(i, A) = r /\ Side(i, C) = s
  BY DEF Side
<1>2. DOMAIN b = {A, C} /\ b[A] = staged[r] /\ b[C] = staged[s]
  BY <1>1
<1>3. \A x \in DOMAIN b : b[x] \in Int
  BY <1>2
<1>4. n.rows = i /\ n.postings = b
  BY DEF Lines
<1>5. A # C /\ Clearing \notin {A, C}
  BY DeskAssumption DEF Range, Pairs
<1> HIDE DEF b, A, C
<1>6. SumFunction(b) = 0
  <2>1. SumFunction(b) = SumFunctionOnSet(b, {A, C})
    BY <1>2, SumAll
  <2>2. SumFunctionOnSet(b, {A, C}) = b[A] + b[C]
    BY <1>2, <1>3, <1>5, SumTwo
  <2>3. QED
    BY <1>2, <2>1, <2>2
<1>7. \A a : Moves(n, a) \in Int
  BY <1>3, <1>4 DEF Moves
<1>8. ASSUME NEW a
      PROVE  Moves(n, a) = IF a = A THEN staged[r] ELSE IF a = C THEN staged[s] ELSE 0
  BY <1>2, <1>4 DEF Moves
<1>9. ASSUME NEW a \in Range(AccountOf)
      PROVE  SumFunctionOnSet([e \in {n} |-> Moves(e, a)], {n})
             = SumFunctionOnSet([x \in i |-> Share(x, a)], i)
  <2> DEFINE f == [e \in {n} |-> Moves(e, a)]
             h == [x \in i |-> Share(x, a)]
  <2>1. f[n] = Moves(n, a) /\ h[r] = Share(r, a) /\ h[s] = Share(s, a)
    OBVIOUS
  <2>2. Moves(n, a) = Share(r, a) + Share(s, a) /\ Share(r, a) \in Int /\ Share(s, a) \in Int
    BY <1>5, <1>8 DEF Share, A, C
  <2> HIDE DEF f, h, n
  <2>3. SumFunctionOnSet(f, {n}) = f[n]
    BY <1>7, <2>1, SumOne
  <2>4. SumFunctionOnSet(h, {r, s}) = h[r] + h[s]
    BY <2>1, <2>2, SumTwo
  <2>5. QED
    BY <2>1, <2>2, <2>3, <2>4 DEF f, h
<1>10. SumFunctionOnSet([e \in {n} |-> Moves(e, Clearing)], {n}) = 0
  <2>1. Moves(n, Clearing) = 0
    BY <1>5, <1>8
  <2> HIDE DEF n
  <2>2. [e \in {n} |-> Moves(e, Clearing)][n] = 0
    BY <2>1
  <2>3. QED
    BY <2>2, SumOne
<1>11. IsFiniteSet({n})
  BY FS_Singleton
<1> HIDE DEF n
<1>12. Adds({n}, i)
  BY <1>4, <1>6, <1>7, <1>9, <1>10, <1>11 DEF Adds
<1>13. QED
  BY <1>12 DEF n, b

\* Two sides of different days are an entry each, against the clearing account.
LEMMA OneSide ==
  ASSUME NEW r \in DeskRows, staged[r] \in Int,
         NEW n, n = Lines({r}, r, Both(Bank(r), [a \in {Clearing} |-> -staged[r]]))
  PROVE  /\ n.rows = {r} /\ SumFunction(n.postings) = 0
         /\ \A a : Moves(n, a) = IF a = AccountOf[r] THEN staged[r] ELSE IF a = Clearing THEN -staged[r] ELSE 0
         /\ AccountOf[r] # Clearing
<1> DEFINE A == AccountOf[r]
           b == Both(Bank(r), [a \in {Clearing} |-> -staged[r]])
<1>1. A # Clearing
  BY DeskAssumption DEF Range
<1>2. DOMAIN b = {A, Clearing} /\ b[A] = staged[r] /\ b[Clearing] = -staged[r]
  BY <1>1 DEF Both, Bank
<1>3. n.rows = {r} /\ n.postings = b
  BY DEF Lines
<1>4. SumFunction(b) = 0
  <2> HIDE DEF b, A
  <2>1. SumFunction(b) = SumFunctionOnSet(b, {A, Clearing})
    BY <1>2, SumAll
  <2>2. SumFunctionOnSet(b, {A, Clearing}) = b[A] + b[Clearing]
    BY <1>1, <1>2, SumTwo
  <2>3. QED
    BY <1>2, <2>1, <2>2
<1>5. QED
  BY <1>1, <1>2, <1>3, <1>4 DEF Moves

\* Together they move on each bank account what their rows do, and on clearing nothing.
LEMMA TwoDaysAdd ==
  ASSUME NEW i \in Pairs, NEW r \in i, NEW s \in i, r # s, i = {r, s},
         staged[r] \in Int, staged[s] = -staged[r]
  PROVE  Adds({Lines({x}, x, Both(Bank(x), [a \in {Clearing} |-> -staged[x]])) : x \in i}, i)
<1> DEFINE L(x) == Lines({x}, x, Both(Bank(x), [a \in {Clearing} |-> -staged[x]]))
           n == L(r)
           m == L(s)
           N == {L(x) : x \in i}
<1>1. N = {n, m}
  OBVIOUS
<1>2. r \in DeskRows /\ s \in DeskRows /\ staged[s] \in Int
  BY DEF Pairs
<1>3. /\ n.rows = {r} /\ SumFunction(n.postings) = 0 /\ AccountOf[r] # Clearing
      /\ \A a : Moves(n, a) = IF a = AccountOf[r] THEN staged[r] ELSE IF a = Clearing THEN -staged[r] ELSE 0
  BY <1>2, OneSide
<1>4. /\ m.rows = {s} /\ SumFunction(m.postings) = 0 /\ AccountOf[s] # Clearing
      /\ \A a : Moves(m, a) = IF a = AccountOf[s] THEN staged[s] ELSE IF a = Clearing THEN -staged[s] ELSE 0
  BY <1>2, OneSide
<1> HIDE DEF n, m, N
<1>5. n # m
  BY <1>3, <1>4
<1>6. \A a : Moves(n, a) \in Int /\ Moves(m, a) \in Int
  BY <1>2, <1>3, <1>4
<1>7. ASSUME NEW a
      PROVE  SumFunctionOnSet([e \in N |-> Moves(e, a)], N) = Moves(n, a) + Moves(m, a)
  <2> DEFINE f == [e \in {n, m} |-> Moves(e, a)]
  <2>1. f[n] = Moves(n, a) /\ f[m] = Moves(m, a)
    OBVIOUS
  <2> HIDE DEF f
  <2>2. SumFunctionOnSet(f, {n, m}) = f[n] + f[m]
    BY <1>5, <1>6, <2>1, SumTwo
  <2>3. QED
    BY <1>1, <2>1, <2>2 DEF f
<1>8. ASSUME NEW a \in Range(AccountOf)
      PROVE  SumFunctionOnSet([e \in N |-> Moves(e, a)], N) = SumFunctionOnSet([x \in i |-> Share(x, a)], i)
  <2> DEFINE h == [x \in i |-> Share(x, a)]
  <2>1. h[r] = Share(r, a) /\ h[s] = Share(s, a) /\ Share(r, a) \in Int /\ Share(s, a) \in Int
    BY <1>2 DEF Share
  <2>2. a # Clearing
    BY DeskAssumption
  <2>3. Moves(n, a) = Share(r, a) /\ Moves(m, a) = Share(s, a)
    BY <1>3, <1>4, <2>2 DEF Share
  <2> HIDE DEF h
  <2>4. SumFunctionOnSet(h, {r, s}) = h[r] + h[s]
    BY <2>1, SumTwo
  <2>5. QED
    BY <1>7, <2>1, <2>3, <2>4 DEF h
<1>9. SumFunctionOnSet([e \in N |-> Moves(e, Clearing)], N) = 0
  <2>1. Moves(n, Clearing) = -staged[r] /\ Moves(m, Clearing) = -staged[s]
    BY <1>3, <1>4
  <2>2. Moves(n, Clearing) + Moves(m, Clearing) = 0
    BY <1>2, <2>1
  <2>3. QED
    BY <1>7, <2>2
<1>10. IsFiniteSet(N)
  <2>1. {n, m} = {n} \cup {m} /\ IsFiniteSet({n} \cup {m})
    BY FS_Singleton, FS_Union
  <2>2. QED
    BY <1>1, <2>1
<1>11. Adds(N, i)
  BY <1>1, <1>3, <1>4, <1>6, <1>8, <1>9, <1>10 DEF Adds
<1>12. QED
  BY <1>11 DEF N

\* What a confirmed or corrected item posts.
LEMMA EntriesAdd ==
  ASSUME NEW i \in Ids, i \subseteq DOMAIN staged, staged \in [DOMAIN staged -> Int], NEW plan,
         i \in Pairs => TransferDetails(i),
         i \notin Pairs => PlanOK(plan) /\ \A r \in i : SplitTotal(plan) = -staged[r]
  PROVE  Adds(EntriesOf(i, plan), i)
<1>1. CASE i \notin Pairs
  <2>1. PICK r \in DeskRows : i = {r}
    BY <1>1, IdForm
  <2>2. EntriesOf(i, plan) = {Lines({r}, r, Both(plan, Bank(r)))}
    BY <1>1, <2>1 DEF EntriesOf
  <2>3. Adds({Lines({r}, r, Both(plan, Bank(r)))}, {r})
    BY <1>1, <2>1, AloneAdds
  <2>4. QED
    BY <2>1, <2>2, <2>3
<1>2. CASE i \in Pairs
  <2>1. PICK r \in i, s \in i : r # s /\ i = {r, s}
    BY <1>2 DEF Pairs
  <2>2. staged[r] \in Int /\ staged[s] = -staged[r] /\ AccountOf[r] # AccountOf[s]
    BY <1>2, <2>1 DEF TransferDetails
  <2>3. CASE i \in SameDay
    BY <1>2, <2>1, <2>2, <2>3, SameDayAdds DEF EntriesOf
  <2>4. CASE i \notin SameDay
    BY <1>2, <2>1, <2>2, <2>4, TwoDaysAdd DEF EntriesOf
  <2>5. QED
    BY <2>3, <2>4
<1>3. QED
  BY <1>1, <1>2

--------------------------------------------------------------------------------
\* One transaction of the ledger, for rows that are not posted.
LEMMA PostKeeps ==
  ASSUME LedgerOK, PostedAsApproved, RowHasOneEntry, NEW i \in Ids, NEW plan, NEW R,
         staged \in [DOMAIN staged -> Int], i \subseteq DOMAIN staged, Posted(i) = {},
         Adds(EntriesOf(i, plan), i), Post(i, plan, R),
         \A rec \in R : rec.id = i /\ rec.item.hash = Hash(i)
  PROVE  LedgerOK' /\ PostedAsApproved' /\ RowHasOneEntry'
<1> DEFINE N == EntriesOf(i, plan)
<1>1. Adds(N, i) /\ entries' = entries \cup N
  BY DEF Post
<1> HIDE DEF N
<1>2. /\ DOMAIN sources' = DOMAIN sources \cup i
      /\ \A r \in i : sources'[r] = staged[r] /\ staged[r] \in Int
      /\ \A r \in DOMAIN sources : sources'[r] = sources[r] /\ r \notin i
  BY DEF Post, Both, Hash, Restrict, Posted
<1>3. \A e \in N : e.rows # {} /\ e.rows \subseteq i /\ \A a : Moves(e, a) \in Int
  BY <1>1 DEF Adds
<1>4. N \cap entries = {} /\ \A e \in N, f \in entries : e.rows \cap f.rows = {}
  BY <1>2, <1>3 DEF LedgerOK
<1>5. IsFiniteSet(entries) /\ IsFiniteSet(N) /\ IsFiniteSet(i) /\ IsFiniteSet(DOMAIN sources)
  BY <1>1, IdForm DEF LedgerOK, Adds
<1>6. \A e \in entries : \A a : Moves(e, a) \in Int
  BY DEF LedgerOK
<1>7. ASSUME NEW a
      PROVE  Balance(a)' = Balance(a) + SumFunctionOnSet([e \in N |-> Moves(e, a)], N)
  <2> DEFINE f == [e \in entries |-> Moves(e, a)]
             g == [e \in N |-> Moves(e, a)]
             h == [e \in entries \cup N |-> Moves(e, a)]
  <2>1. Balance(a) = SumFunctionOnSet(f, entries)
    BY SumAll DEF Balance
  <2>2. Balance(a)' = SumFunctionOnSet(h, entries \cup N)
    <3>1. Balance(a)' = SumFunction([e \in entries' |-> Moves(e, a)])
      BY DEF Balance, Moves
    <3>2. QED
      BY <1>1, <3>1, SumAll
  <2>3. /\ \A e \in entries : f[e] = h[e]
        /\ \A e \in N : g[e] = h[e]
        /\ \A e \in entries \cup N : h[e] \in Int
    BY <1>3, <1>6
  <2> HIDE DEF f, g, h
  <2>4. SumFunctionOnSet(h, entries \cup N) = SumFunctionOnSet(h, entries) + SumFunctionOnSet(h, N)
    BY <1>4, <1>5, <2>3, SumUnion
  <2>5. SumFunctionOnSet(h, entries) = SumFunctionOnSet(f, entries)
    BY <1>5, <2>3, SumSame
  <2>6. SumFunctionOnSet(h, N) = SumFunctionOnSet(g, N)
    BY <1>5, <2>3, SumSame
  <2>7. QED
    BY <2>1, <2>2, <2>4, <2>5, <2>6 DEF g
<1>8. ASSUME NEW a \in Range(AccountOf)
      PROVE  BankTotal(a)' = BankTotal(a) + SumFunctionOnSet([r \in i |-> Share(r, a)], i)
  <2> DEFINE f == [r \in DOMAIN sources |-> IF AccountOf[r] = a THEN sources[r] ELSE 0]
             g == [r \in i |-> Share(r, a)]
             h == [r \in DOMAIN sources \cup i |-> IF AccountOf[r] = a THEN sources'[r] ELSE 0]
  <2>1. BankTotal(a) = SumFunctionOnSet(f, DOMAIN sources)
    BY SumAll DEF BankTotal
  <2>2. BankTotal(a)' = SumFunctionOnSet(h, DOMAIN sources \cup i)
    <3>1. BankTotal(a)' = SumFunction([r \in DOMAIN sources' |-> IF AccountOf[r] = a THEN sources'[r] ELSE 0])
      BY DEF BankTotal
    <3>2. QED
      BY <1>2, <3>1, SumAll
  <2>3. /\ \A r \in DOMAIN sources : f[r] = h[r]
        /\ \A r \in i : g[r] = h[r]
        /\ \A r \in DOMAIN sources \cup i : h[r] \in Int
    BY <1>2 DEF LedgerOK, Share
  <2> HIDE DEF f, g, h
  <2>4. SumFunctionOnSet(h, DOMAIN sources \cup i)
        = SumFunctionOnSet(h, DOMAIN sources) + SumFunctionOnSet(h, i)
    <3>1. DOMAIN sources \cap i = {}
      BY <1>2
    <3>2. QED
      BY <1>5, <2>3, <3>1, SumUnion
  <2>5. SumFunctionOnSet(h, DOMAIN sources) = SumFunctionOnSet(f, DOMAIN sources)
    BY <1>5, <2>3, SumSame
  <2>6. SumFunctionOnSet(h, i) = SumFunctionOnSet(g, i)
    BY <1>5, <2>3, SumSame
  <2>7. QED
    BY <2>1, <2>2, <2>4, <2>5, <2>6 DEF g
<1>9. BankMatchesSources'
  <2>1. ASSUME NEW a \in Range(AccountOf) PROVE Balance(a)' = BankTotal(a)'
    <3>1. SumFunctionOnSet([e \in N |-> Moves(e, a)], N) = SumFunctionOnSet([r \in i |-> Share(r, a)], i)
      BY <1>1 DEF Adds
    <3>2. Balance(a) = BankTotal(a)
      BY DEF PostedAsApproved, BankMatchesSources
    <3>3. QED
      BY <1>7, <1>8, <3>1, <3>2
  <2>2. Balance(Clearing)' = 0
    BY <1>1, <1>7 DEF Adds, PostedAsApproved, BankMatchesSources
  <2>3. QED
    BY <2>1, <2>2 DEF BankMatchesSources
<1>10. PostedAsApproved'
  <2>1. \A rec \in receipts' : \A r \in rec.id : sources'[r] = rec.item.hash[r]
    <3>1. \A rec \in receipts : \A r \in rec.id : sources'[r] = rec.item.hash[r]
      BY <1>2 DEF LedgerOK, PostedAsApproved
    <3>2. \A rec \in R : \A r \in rec.id : sources'[r] = rec.item.hash[r]
      BY <1>2 DEF Hash, Restrict
    <3>3. QED
      BY <3>1, <3>2 DEF Post
  <2>2. \A e \in entries' : SumFunction(e.postings) = 0
    BY <1>1 DEF Adds, PostedAsApproved
  <2>3. QED
    BY <1>9, <2>1, <2>2 DEF PostedAsApproved
<1>11. LedgerOK'
  <2>1. IsFiniteSet(entries') /\ IsFiniteSet(DOMAIN sources')
    <3>1. IsFiniteSet(entries \cup N) /\ IsFiniteSet(DOMAIN sources \cup i)
      BY <1>5, FS_Union
    <3>2. QED
      BY ONLY <1>1, <1>2, <3>1
  <2>2. \A r \in DOMAIN sources' : sources'[r] \in Int
    BY <1>2 DEF LedgerOK
  <2>3. \A e \in entries' : e.rows # {} /\ e.rows \subseteq DOMAIN sources' /\ \A a : Moves(e, a) \in Int
    BY <1>1, <1>2, <1>3 DEF LedgerOK
  <2>4. \A rec \in receipts' : rec.id \subseteq DOMAIN sources'
    BY <1>2 DEF LedgerOK, Post
  <2>5. QED
    BY <2>1, <2>2, <2>3, <2>4 DEF LedgerOK, Moves
<1>12. RowHasOneEntry'
  BY <1>1, <1>4 DEF RowHasOneEntry, Adds
<1>13. QED
  BY <1>10, <1>11, <1>12

\* Steps that leave the ledger alone keep what is said of it.
LEMMA LedgerStays ==
  ASSUME LedgerOK, PostedAsApproved, RowHasOneEntry, UNCHANGED ledger
  PROVE  LedgerOK' /\ PostedAsApproved' /\ RowHasOneEntry'
  BY DEF ledger, LedgerOK, PostedAsApproved, RowHasOneEntry, BankMatchesSources, Balance, BankTotal, Moves

\* A new proposal has the amounts that are staged.
LEMMA Proposed ==
  ASSUME FilesOK, NEW i \in Ids, i \subseteq DOMAIN staged, NEW type, NEW plan, NEW original,
         PlanOK(plan), type = "transfer" <=> i \in Pairs, type \in {"category", "split", "transfer"},
         type = "category" => \A r \in i : SplitTotal(plan) = -staged[r],
         Save(i, NewItem(i, type, plan, original)), staged' = staged, template' = template, job' = job
  PROVE  FilesOK'
<1> DEFINE q == NewItem(i, type, plan, original)
<1>1. /\ q.hash \in [i -> Int] /\ \A r \in i : q.hash[r] = staged[r]
      /\ q.plan = plan /\ q.type = type /\ "status" \in DOMAIN q
  BY DEF NewItem, Hash, Restrict, FilesOK
<1>2. DOMAIN queue' = Ids /\ queue'[i] = q /\ \A j \in Ids : j # i => queue'[j] = queue[j]
  BY DEF Save, FilesOK
<1> HIDE DEF q
<1>3. ItemOK(i)'
  BY <1>1, <1>2 DEF ItemOK, PlanOK, SplitTotal
<1>4. ASSUME NEW j \in Ids, j # i, Status(j)' \in {"open", "reopened"} PROVE ItemOK(j)'
  BY <1>2, <1>4 DEF FilesOK, ItemOK, Status, PlanOK, SplitTotal
<1>5. QED
  BY <1>1, <1>2, <1>3, <1>4 DEF FilesOK

\* A change of status to one that is not open.
LEMMA StatusChanged ==
  ASSUME FilesOK, NEW i \in Ids, NEW st, st \notin {"open", "reopened"},
         Save(i, [queue[i] EXCEPT !.status = st]), staged' = staged, template' = template,
         job' = NoJob \/ job' = job
  PROVE  FilesOK'
<1>1. DOMAIN queue' = Ids /\ \A j \in Ids : j # i => queue'[j] = queue[j]
  BY DEF Save, FilesOK
<1>2. queue'[i].status = st /\ "status" \in DOMAIN queue'[i]
  BY DEF Save, FilesOK
<1>3. ASSUME NEW j \in Ids, Status(j)' \in {"open", "reopened"} PROVE ItemOK(j)'
  BY <1>1, <1>2, <1>3 DEF FilesOK, ItemOK, Status, PlanOK, SplitTotal
<1>4. QED
  BY <1>1, <1>2, <1>3 DEF FilesOK

\* Nothing is posted at first.
LEMMA DeskInitially == DeskInit => DeskInv
<1> SUFFICES ASSUME DeskInit PROVE DeskInv
  OBVIOUS
<1>1. IsFiniteSet({})
  BY FS_EmptySet
<1>2. DOMAIN sources = {} /\ entries = {} /\ receipts = {}
  BY DEF DeskInit
<1>3. FilesOK
  <2>1. \A i \in Ids : queue[i].status = "none" /\ "status" \in DOMAIN queue[i]
    BY DEF DeskInit, NoItem
  <2>2. QED
    BY <2>1, DeskAssumption DEF DeskInit, FilesOK, Status
<1>4. LedgerOK
  BY <1>1, <1>2 DEF LedgerOK
<1>5. \A a : Balance(a) = 0 /\ BankTotal(a) = 0
  <2> TAKE a
  <2>1. Balance(a) = SumFunctionOnSet([e \in entries |-> Moves(e, a)], entries)
    BY SumAll DEF Balance
  <2>2. BankTotal(a)
        = SumFunctionOnSet([r \in DOMAIN sources |-> IF AccountOf[r] = a THEN sources[r] ELSE 0], DOMAIN sources)
    BY SumAll DEF BankTotal
  <2>3. QED
    BY <1>2, <2>1, <2>2, SumEmpty
<1>6. QED
  BY <1>2, <1>3, <1>4, <1>5 DEF DeskInv, PostedAsApproved, RowHasOneEntry, BankMatchesSources

\* Proposals keep the ledger as it is.
LEMMA ProposalsKeep ==
  ASSUME DeskInv,
         \/ \E r \in DeskRows, c \in Categories : propose(r, c)
         \/ \E r \in DeskRows, plan \in Plans \cup template : propose_split(r, plan)
         \/ \E p \in Pairs : propose_transfer(p)
  PROVE  FilesOK' /\ UNCHANGED ledger
<1>f. FilesOK /\ staged \in [DOMAIN staged -> Int]
  BY DEF DeskInv, FilesOK
<1>1. ASSUME NEW r \in DeskRows, NEW c \in Categories, propose(r, c) PROVE FilesOK' /\ UNCHANGED ledger
  <2> DEFINE plan == [x \in {c} |-> -staged[r]]
  <2>1. {r} \in Ids /\ {r} \notin Pairs /\ {r} \subseteq DOMAIN staged
    BY <1>1 DEF Ids, Pairs, propose
  <2>2. DOMAIN plan = {c} /\ plan[c] = -staged[r] /\ -staged[r] \in Int
    BY <1>f, <2>1
  <2>3. PlanOK(plan)
    <3>1. IsFiniteSet({c})
      BY FS_Singleton
    <3>2. c \notin Range(AccountOf) \cup {Clearing}
      BY DeskAssumption
    <3>3. plan \in [{c} -> Int]
      BY <2>2
    <3> HIDE DEF plan
    <3>4. QED
      BY <2>2, <3>1, <3>2, <3>3 DEF PlanOK
  <2>4. SplitTotal(plan) = -staged[r]
    <3> HIDE DEF plan
    <3>1. SumFunction(plan) = SumFunctionOnSet(plan, {c})
      BY <2>2, SumAll
    <3>2. QED
      BY <2>2, <3>1, SumOne DEF SplitTotal
  <2>5. Save({r}, NewItem({r}, "category", plan, OriginalAmount(r)))
        /\ UNCHANGED <<staged, template, chart, ledger, seen, job, stops>>
    BY <1>1 DEF propose
  <2> HIDE DEF plan
  <2>6. FilesOK'
    BY <1>f, <2>1, <2>3, <2>4, <2>5, Proposed
  <2>7. QED
    BY <2>5, <2>6
<1>2. ASSUME NEW r \in DeskRows, NEW plan \in Plans \cup template, propose_split(r, plan)
      PROVE  FilesOK' /\ UNCHANGED ledger
  <2>1. {r} \in Ids /\ {r} \notin Pairs /\ {r} \subseteq DOMAIN staged
    BY <1>2 DEF Ids, Pairs, propose_split
  <2>2. PlanOK(plan)
    BY <1>f, DeskAssumption DEF PlanOK, FilesOK
  <2>3. Save({r}, NewItem({r}, "split", plan, OriginalAmount(r)))
        /\ UNCHANGED <<staged, template, chart, ledger, seen, job, stops>>
    BY <1>2 DEF propose_split
  <2>4. FilesOK'
    BY <1>f, <2>1, <2>2, <2>3, Proposed
  <2>5. QED
    BY <2>3, <2>4
<1>3. ASSUME NEW p \in Pairs, propose_transfer(p) PROVE FilesOK' /\ UNCHANGED ledger
  <2> DEFINE plan == [x \in {} |-> 0]
             top == Max({staged[r] : r \in p})
  <2>1. p \in Ids /\ p \subseteq DOMAIN staged
    BY <1>3 DEF Ids, propose_transfer, MayProposeTransfer, TransferDetails
  <2>2. PlanOK(plan)
    BY FS_EmptySet DEF PlanOK
  <2>3. Save(p, NewItem(p, "transfer", plan, top)) /\ UNCHANGED <<staged, template, chart, ledger, seen, job, stops>>
    BY <1>3 DEF propose_transfer
  <2> HIDE DEF plan, top
  <2>4. FilesOK'
    BY <1>f, <2>1, <2>2, <2>3, Proposed
  <2>5. QED
    BY <2>3, <2>4
<1>4. QED
  BY <1>1, <1>2, <1>3

\* A decision posts unposted rows as they are staged.
LEMMA DecisionsKeep ==
  ASSUME ~CorrectsPosted, DeskInv,
         \/ \E i \in Ids : Confirm(i)
         \/ \E r \in DeskRows, c \in Categories : correct(r, c)
  PROVE  DeskInv'
<1>f. FilesOK /\ LedgerOK /\ PostedAsApproved /\ RowHasOneEntry /\ staged \in [DOMAIN staged -> Int]
  BY DEF DeskInv, FilesOK
<1>s. ASSUME staged' = staged, queue' = queue, template' = template, NEW i \in Ids, job'.id = i,
             job'.status \in ClosedStatus
      PROVE  FilesOK'
  BY <1>f, <1>s DEF FilesOK, ItemOK, Status, PlanOK, SplitTotal
<1>1. ASSUME NEW i \in Ids, Confirm(i) PROVE DeskInv'
  <2>1. ItemOK(i) /\ i \subseteq DOMAIN staged /\ queue[i].hash = Hash(i)
    BY <1>1, <1>f DEF Confirm, FilesOK, EvidenceHolds
  <2>2. i \in Pairs => TransferDetails(i)
    BY <1>1, <2>1 DEF Confirm, ApprovalChecks, ItemOK
  <2>3. i \notin Pairs => PlanOK(queue[i].plan) /\ \A r \in i : SplitTotal(queue[i].plan) = -staged[r]
    <3>1. \A r \in i : queue[i].hash[r] = staged[r]
      BY <2>1 DEF Hash, Restrict
    <3>2. CASE queue[i].type = "category"
      BY <2>1, <3>1, <3>2 DEF ItemOK
    <3>3. CASE queue[i].type = "split"
      BY <1>1, <2>1, <3>3 DEF Confirm, ApprovalChecks, ItemOK
    <3>4. QED
      BY <2>1, <3>2, <3>3 DEF ItemOK
  <2>4. Adds(EntriesOf(i, queue[i].plan), i)
    BY <1>f, <2>1, <2>2, <2>3, EntriesAdd
  <2>5. Post(i, queue[i].plan, {[id |-> i, item |-> queue[i]]}) /\ Posted(i) = {}
    BY <1>1 DEF Confirm
  <2>6. LedgerOK' /\ PostedAsApproved' /\ RowHasOneEntry'
    <3> DEFINE R == {[id |-> i, item |-> queue[i]]}
    <3>1. \A rec \in R : rec.id = i /\ rec.item.hash = Hash(i)
      BY <2>1
    <3> HIDE DEF R
    <3>2. Post(i, queue[i].plan, R)
      BY <2>5 DEF R
    <3>3. QED
      BY <1>f, <2>1, <2>4, <2>5, <3>1, <3>2, PostKeeps
  <2>7. FilesOK'
    BY <1>1, <1>s DEF Confirm, ClosedStatus
  <2>8. QED
    BY <2>6, <2>7 DEF DeskInv
<1>2. ASSUME NEW r \in DeskRows, NEW c \in Categories, correct(r, c) PROVE DeskInv'
  <2> DEFINE i == {r}
             plan == [x \in {c} |-> -staged[r]]
  <2>1. i \in Ids /\ i \notin Pairs /\ i \subseteq DOMAIN staged /\ Posted(i) = {}
    BY <1>2 DEF Ids, Pairs, correct, EvidenceHolds
  <2>2. DOMAIN plan = {c} /\ plan[c] = -staged[r] /\ -staged[r] \in Int
    BY <1>f, <2>1
  <2>3. PlanOK(plan)
    <3>1. IsFiniteSet({c})
      BY FS_Singleton
    <3>2. c \notin Range(AccountOf) \cup {Clearing}
      BY DeskAssumption
    <3>3. plan \in [{c} -> Int]
      BY <2>2
    <3> HIDE DEF plan
    <3>4. QED
      BY <2>2, <3>1, <3>2, <3>3 DEF PlanOK
  <2>4. SplitTotal(plan) = -staged[r]
    <3> HIDE DEF plan
    <3>1. SumFunction(plan) = SumFunctionOnSet(plan, {c})
      BY <2>2, SumAll
    <3>2. QED
      BY <2>2, <3>1, SumOne DEF SplitTotal
  <2>5. Post(i, plan, {})
    BY <1>2 DEF correct
  <2> HIDE DEF plan
  <2>6. Adds(EntriesOf(i, plan), i)
    BY <1>f, <2>1, <2>3, <2>4, EntriesAdd
  <2>7. LedgerOK' /\ PostedAsApproved' /\ RowHasOneEntry'
    BY <1>f, <2>1, <2>5, <2>6, PostKeeps
  <2>8. FilesOK'
    BY <1>2, <1>s, <2>1 DEF correct, ClosedStatus
  <2>9. QED
    BY <2>7, <2>8 DEF DeskInv
<1>3. QED
  BY <1>1, <1>2

\* What neither posts nor proposes.
LEMMA FilesKeep ==
  ASSUME DeskInv,
         \/ \E plan \in Plans : save_split_template(plan)
         \/ \E i \in Ids : withdraw(i) \/ Repeat(i)
         \/ \E r \in DeskRows : AmountChanges(r)
         \/ reconcile_pending_amount_changes
         \/ mark_seen \/ remove_from_pending \/ save_decided \/ Stop
         \/ \E c \in Categories : account_add(c) \/ account_remove(c)
         \/ UNCHANGED deskVars
  PROVE  FilesOK' /\ UNCHANGED ledger
<1>f. FilesOK
  BY DEF DeskInv
<1>s. ASSUME staged' = staged, queue' = queue, template' \subseteq Plans,
             job' # NoJob => job'.id \in Ids /\ job'.status \in ClosedStatus
      PROVE  FilesOK'
  BY <1>f, <1>s DEF FilesOK, ItemOK, Status, PlanOK, SplitTotal
<1>t. template \subseteq Plans /\ (job # NoJob => job.id \in Ids /\ job.status \in ClosedStatus)
  BY <1>f DEF FilesOK
<1>j. ASSUME NEW step, job.left # {}, Then(step)
      PROVE  job # NoJob /\ (job' # NoJob => job'.id \in Ids /\ job'.status \in ClosedStatus)
  <2>1. job # NoJob
    BY <1>j DEF NoJob
  <2>2. CASE job.left = {step}
    BY <1>j, <2>1, <2>2 DEF Then
  <2>3. CASE job.left # {step}
    BY <1>j, <1>t, <2>1, <2>3 DEF Then
  <2>4. QED
    BY <2>1, <2>2, <2>3
<1>1. ASSUME \/ \E plan \in Plans : save_split_template(plan)
             \/ \E i \in Ids : Repeat(i)
             \/ Stop \/ UNCHANGED deskVars
             \/ \E c \in Categories : account_add(c) \/ account_remove(c)
      PROVE  FilesOK' /\ UNCHANGED ledger
  BY <1>1, <1>s, <1>t DEF save_split_template, Repeat, Stop, account_add, account_remove, deskVars, ledger, ClosedStatus
<1>2. ASSUME NEW i \in Ids, withdraw(i) PROVE FilesOK' /\ UNCHANGED ledger
  BY <1>2, <1>f, StatusChanged DEF withdraw
<1>3. ASSUME NEW r \in DeskRows, AmountChanges(r) PROVE FilesOK' /\ UNCHANGED ledger
  <2>1. staged' = [staged EXCEPT ![r] = LaterAmounts[r]] /\ UNCHANGED <<queue, template, chart, ledger, seen, job, stops>>
    BY <1>3 DEF AmountChanges
  <2>2. LaterAmounts[r] \in Int
    BY DeskAssumption
  <2>3. DOMAIN staged' = DOMAIN staged /\ staged' \in [DOMAIN staged -> Int]
    BY <1>f, <2>1, <2>2 DEF FilesOK
  <2>4. QED
    BY <1>f, <2>1, <2>3 DEF FilesOK, ItemOK, Status, PlanOK, SplitTotal
<1>4. ASSUME reconcile_pending_amount_changes PROVE FilesOK' /\ UNCHANGED ledger
  <2>1. DOMAIN queue' = Ids /\ UNCHANGED <<staged, template, chart, ledger, seen, job, stops>>
    BY <1>4 DEF reconcile_pending_amount_changes
  <2>2. ASSUME NEW i \in Ids
        PROVE  \/ queue'[i] = queue[i]
               \/ queue'[i].status = "requires-reproposal" /\ "status" \in DOMAIN queue'[i]
    <3>1. CASE Status(i) \in {"open", "confirmed"} /\ i \subseteq DOMAIN staged /\ i \notin Pairs
      <4>1. PICK r \in DeskRows : i = {r}
        BY <3>1, IdForm
      <4>2. queue'[i] = reopen_if_amount_changed(r)
        BY <1>4, <3>1, <4>1 DEF reconcile_pending_amount_changes
      <4>3. QED
        BY <1>f, <4>1, <4>2 DEF reopen_if_amount_changed, FilesOK
    <3>2. CASE ~(Status(i) \in {"open", "confirmed"} /\ i \subseteq DOMAIN staged /\ i \notin Pairs)
      BY <1>4, <3>2 DEF reconcile_pending_amount_changes
    <3>3. QED
      BY <3>1, <3>2
  <2>3. \A i \in Ids : "status" \in DOMAIN queue'[i]
    BY <1>f, <2>2 DEF FilesOK
  <2>4. ASSUME NEW i \in Ids, Status(i)' \in {"open", "reopened"} PROVE ItemOK(i)'
    BY <1>f, <2>2, <2>4 DEF FilesOK, ItemOK, Status, PlanOK, SplitTotal
  <2>5. QED
    BY <1>f, <2>1, <2>3, <2>4 DEF FilesOK
<1>5. ASSUME mark_seen PROVE FilesOK' /\ UNCHANGED ledger
  BY <1>5, <1>j, <1>s, <1>t DEF mark_seen
<1>6. ASSUME remove_from_pending PROVE FilesOK' /\ UNCHANGED ledger
  <2>1. /\ staged' = Restrict(staged, DOMAIN staged \ job.id) /\ Then("pending") /\ job.left # {}
        /\ UNCHANGED <<queue, template, chart, ledger, seen, stops>>
    BY <1>6 DEF remove_from_pending
  <2>2. DOMAIN staged' \subseteq DOMAIN staged /\ staged' \in [DOMAIN staged' -> Int]
    BY <1>f, <2>1 DEF FilesOK, Restrict
  <2>3. job' # NoJob => job'.id \in Ids /\ job'.status \in ClosedStatus
    BY <1>j, <2>1
  <2>4. QED
    BY <1>f, <2>1, <2>2, <2>3 DEF FilesOK, ItemOK, Status, PlanOK, SplitTotal
<1>7. ASSUME save_decided PROVE FilesOK' /\ UNCHANGED ledger
  <2>1. job # NoJob /\ job' = NoJob
    BY <1>7 DEF save_decided, Then, NoJob
  <2>2. job.id \in Ids /\ job.status \notin {"open", "reopened"}
    BY <1>t, <2>1 DEF ClosedStatus
  <2>3. Save(job.id, [queue[job.id] EXCEPT !.status = job.status])
        /\ UNCHANGED <<staged, template, chart, ledger, seen, stops>>
    BY <1>7 DEF save_decided
  <2>4. QED
    BY <1>f, <2>1, <2>2, <2>3, StatusChanged
<1>8. QED
  BY <1>1, <1>2, <1>3, <1>4, <1>5, <1>6, <1>7

\* Every step keeps the invariant.
LEMMA DeskKeeps == ~CorrectsPosted /\ DeskInv /\ [DeskNext]_deskVars => DeskInv'
<1> SUFFICES ASSUME ~CorrectsPosted, DeskInv, [DeskNext]_deskVars PROVE DeskInv'
  OBVIOUS
<1>1. FilesOK' /\ UNCHANGED ledger => DeskInv'
  BY LedgerStays DEF DeskInv
<1>2. QED
  BY <1>1, ProposalsKeep, DecisionsKeep, FilesKeep DEF DeskNext

\* Whatever files speak of a row, and wherever commands stop: what is posted is what
\* was approved, every posted row stands on its bank account once and at its amount,
\* and transfers leave nothing in clearing.
THEOREM ApprovedIsPosted ==
  ASSUME ~CorrectsPosted
  PROVE  DeskSpec => []PostedAsApproved
<1>1. DeskInv => PostedAsApproved
  BY DEF DeskInv
<1>2. DeskInv /\ [DeskNext]_deskVars => DeskInv'
  BY DeskKeeps
<1>3. QED
  BY DeskInitially, <1>1, <1>2, PTL DEF DeskSpec

\* A row is in one entry, however many queue files speak of it.
THEOREM OneEntryPerRow ==
  ASSUME ~CorrectsPosted
  PROVE  DeskSpec => []RowHasOneEntry
<1>1. DeskInv => RowHasOneEntry
  BY DEF DeskInv
<1>2. DeskInv /\ [DeskNext]_deskVars => DeskInv'
  BY DeskKeeps
<1>3. QED
  BY DeskInitially, <1>1, <1>2, PTL DEF DeskSpec
===============================================================================
