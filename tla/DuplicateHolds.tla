-------------------------- MODULE DuplicateHolds --------------------------
(***************************************************************************)
(* Rows of a bank feed that may repeat activity already in the books: the  *)
(* guarded import holds them (ledger/importer.py), and a person decides    *)
(* "duplicate" or "distinct" (resolve_duplicate_candidate, queue.py).      *)
(*                                                                         *)
(* Holds live in two files, duplicate-candidates.json and                  *)
(* source-id-aliases.json, each read as a whole and replaced as a whole.   *)
(* The import does this under the entity lock. The decision does not take  *)
(* the lock; only the import it calls to release a distinct row does.      *)
(*                                                                         *)
(* Whether a row looks like something in the books depends on all the      *)
(* other activity, so each import may find either. Rows of one batch are   *)
(* separate imports here.                                                  *)
(***************************************************************************)
EXTENDS Integers, SequencesExt

CONSTANTS
  Rows,        \* bank rows
  Spellings,   \* how a row's source id is written: with and without a prefix
  Cutover,     \* rows dated on or before the cutover date of their account
  Sessions,    \* processes that run commands
  NoSession,
  NoId,
  MaxAliases,  \* bound: aliases beyond which no further row looks similar
  MaxCrashes   \* bound: process stops

ASSUME HoldsAssumption ==
  /\ Cutover \subseteq Rows
  /\ NoSession \notin Sessions /\ NoId \notin Rows \X Spellings
  /\ MaxAliases \in Nat /\ MaxCrashes \in Nat

VARIABLES
  candidates,  \* duplicate-candidates.json: the status of each held id
  aliases,     \* source-id-aliases.json, oldest first
  books,       \* ids that are posted or queued for review
  sessions,    \* what each process is doing
  lock,        \* the holder of the entity lock
  crashes,     \* process stops so far
  delivered,   \* history: ids whose import returned
  reviewed     \* history: the last decision on each row that was reported done

vars == <<candidates, aliases, books, sessions, lock, crashes, delivered, reviewed>>

-----------------------------------------------------------------------------
SourceId == Rows \X Spellings
Row(id) == id[1]
source_id_variants(id) == {i \in SourceId : Row(i) = Row(id)}

Decision == {"duplicate", "distinct"}
Candidates == [SourceId -> {"none", "open"} \cup Decision]
Alias == [id: SourceId, status: {"candidate"} \cup Decision]

\* candidates and aliases of a session: what it read and goes on to write.
Session == [pc: {"idle", "row", "hold", "alias", "release", "decide", "close"}, id: SourceId \cup {NoId},
            decision: Decision, held: BOOLEAN, planned: BOOLEAN, candidates: Candidates, aliases: Seq(Alias)]

NoCandidates == [id \in SourceId |-> "none"]
Idle == [pc |-> "idle", id |-> NoId, decision |-> "duplicate", held |-> FALSE, planned |-> FALSE,
         candidates |-> NoCandidates, aliases |-> <<>>]

Init ==
  /\ candidates = NoCandidates
  /\ aliases = <<>>
  /\ books = {}
  /\ sessions = [s \in Sessions |-> Idle]
  /\ lock = NoSession
  /\ crashes = 0
  /\ delivered = {}
  /\ reviewed = [r \in Rows |-> "none"]

-----------------------------------------------------------------------------
(* Reading the two files *)

Known(id) == source_id_variants(id) \cap books # {}

\* The status of the last alias of one of the ids.
LastStatus(ids) ==
  LET last == SelectLastInSeq(aliases, LAMBDA a : a.id \in ids)
  IN  IF last = 0 THEN "none" ELSE aliases[last].status

\* Wrong variant: decisions are looked up under the delivered spelling only.
ExactAliasStatus(id) == LastStatus({id})

legacy_alias_status(id) == LastStatus(source_id_variants(id))

\* plan_duplicates asks for the exact spelling first.
PlanDecision(id) ==
  IF LastStatus({id}) # "none" THEN LastStatus({id}) ELSE LastStatus(source_id_variants(id))

\* Wrong variant: holds are looked up under the delivered spelling only.
HeldExactly(id) == candidates[id] = "open"

\* open_hold_ids: the row is waiting for a decision.
AlreadyHeld(id) == \E i \in source_id_variants(id) : candidates[i] = "open"

\* Wrong variant: a row before the cutover is held only if it looks like another.
PlanIgnoresCutover(id, similar) ==
  ~Known(id) /\ ~AlreadyHeld(id) /\ PlanDecision(id) \notin Decision /\ similar

\* _plan_feed_holds: the row is to be held, because it is similar to something
\* in the books or lies before the cutover.
plan_feed_holds(id, similar) ==
  /\ ~Known(id) /\ ~AlreadyHeld(id) /\ PlanDecision(id) # "duplicate"
  /\ \/ similar /\ PlanDecision(id) # "distinct"
     \/ Row(id) \in Cutover /\ legacy_alias_status(id) # "distinct"

-----------------------------------------------------------------------------
(* The guarded import *)

Becomes(s, session) == sessions' = [sessions EXCEPT ![s] = session]

ImportStart(s, id, similar) ==
  /\ sessions[s].pc = "idle" /\ lock = NoSession
  /\ similar \/ Row(id) \in Cutover => Len(aliases) < MaxAliases
  /\ lock' = s
  /\ Becomes(s, [Idle EXCEPT !.pc = "row", !.id = id, !.held = AlreadyHeld(id),
                            !.planned = plan_feed_holds(id, similar)])
  /\ UNCHANGED <<candidates, aliases, books, crashes, delivered, reviewed>>

ImportReturns(s) ==
  /\ Becomes(s, Idle)
  /\ lock' = NoSession
  /\ delivered' = delivered \cup {sessions[s].id}
  /\ UNCHANGED <<crashes, reviewed>>

\* Wrong variant: a plausible match is skipped instead of held.
ImportSkipsMatches(s) ==
  LET id == sessions[s].id IN
  /\ sessions[s].pc = "row"
  /\ Known(id) \/ sessions[s].held \/ legacy_alias_status(id) = "duplicate" \/ sessions[s].planned
  /\ ImportReturns(s)
  /\ UNCHANGED <<candidates, aliases, books>>

ImportSkips(s) ==
  LET id == sessions[s].id IN
  /\ sessions[s].pc = "row"
  /\ Known(id) \/ sessions[s].held \/ legacy_alias_status(id) = "duplicate"
  /\ ImportReturns(s)
  /\ UNCHANGED <<candidates, aliases, books>>

ImportBooks(s) ==
  LET id == sessions[s].id IN
  /\ sessions[s].pc = "row"
  /\ ~Known(id) /\ ~sessions[s].held /\ legacy_alias_status(id) # "duplicate"
  /\ legacy_alias_status(id) = "distinct" \/ ~sessions[s].planned
  /\ books' = books \cup {id}
  /\ ImportReturns(s)
  /\ UNCHANGED <<candidates, aliases>>

\* _record_feed_hold reads the list it is going to extend.
ImportHolds(s) ==
  LET id == sessions[s].id IN
  /\ sessions[s].pc = "row"
  /\ ~Known(id) /\ ~sessions[s].held /\ legacy_alias_status(id) \notin Decision
  /\ sessions[s].planned
  /\ Becomes(s, [sessions[s] EXCEPT !.pc = "hold", !.candidates = candidates])
  /\ UNCHANGED <<candidates, aliases, books, lock, crashes, delivered, reviewed>>

\* The list has the id already, whatever its status.
HoldExists(s) ==
  /\ sessions[s].pc = "hold" /\ sessions[s].candidates[sessions[s].id] # "none"
  /\ ImportReturns(s)
  /\ UNCHANGED <<candidates, aliases, books>>

\* Wrong variant: the list is started anew.
HoldRestartsCandidates(s) ==
  LET id == sessions[s].id IN
  /\ sessions[s].pc = "hold" /\ sessions[s].candidates[id] = "none"
  /\ candidates' = [NoCandidates EXCEPT ![id] = "open"]
  /\ Becomes(s, [sessions[s] EXCEPT !.pc = "alias", !.aliases = aliases])
  /\ UNCHANGED <<aliases, books, lock, crashes, delivered, reviewed>>

HoldWritesCandidates(s) ==
  LET id == sessions[s].id IN
  /\ sessions[s].pc = "hold" /\ sessions[s].candidates[id] = "none"
  /\ candidates' = [sessions[s].candidates EXCEPT ![id] = "open"]
  /\ Becomes(s, [sessions[s] EXCEPT !.pc = "alias", !.aliases = aliases])
  /\ UNCHANGED <<aliases, books, lock, crashes, delivered, reviewed>>

\* Wrong variant: the alias takes the status of the candidate.
HoldCopiesStatus(s) ==
  /\ sessions[s].pc = "alias"
  /\ aliases' = Append(sessions[s].aliases, [id |-> sessions[s].id, status |-> "open"])
  /\ ImportReturns(s)
  /\ UNCHANGED <<candidates, books>>

HoldWritesAliases(s) ==
  /\ sessions[s].pc = "alias"
  /\ aliases' = Append(sessions[s].aliases, [id |-> sessions[s].id, status |-> "candidate"])
  /\ ImportReturns(s)
  /\ UNCHANGED <<candidates, books>>

-----------------------------------------------------------------------------
(* resolve_duplicate_candidate *)

Resolve(s, id, decision) ==
  /\ sessions[s].pc = "idle"
  /\ candidates[id] = "open"
  /\ Becomes(s, [Idle EXCEPT !.pc = IF decision = "distinct" THEN "release" ELSE "decide",
                            !.id = id, !.decision = decision,
                            !.candidates = candidates, !.aliases = aliases])
  /\ UNCHANGED <<candidates, aliases, books, lock, crashes, delivered, reviewed>>

\* Wrong variant: the release is a guarded import again, which skips the row.
ReleaseGuarded(s) ==
  LET id == sessions[s].id IN
  /\ sessions[s].pc = "release" /\ lock = NoSession
  /\ books' = IF Known(id) \/ AlreadyHeld(id) THEN books ELSE books \cup {id}
  /\ Becomes(s, [sessions[s] EXCEPT !.pc = "decide", !.aliases = aliases])
  /\ UNCHANGED <<candidates, aliases, lock, crashes, delivered, reviewed>>

\* A distinct row is imported without the guard, under the lock.
Release(s) ==
  LET id == sessions[s].id IN
  /\ sessions[s].pc = "release" /\ lock = NoSession
  /\ books' = IF Known(id) THEN books ELSE books \cup {id}
  /\ Becomes(s, [sessions[s] EXCEPT !.pc = "decide", !.aliases = aliases])
  /\ UNCHANGED <<candidates, aliases, lock, crashes, delivered, reviewed>>

Redecided(read, id, decision) ==
  [i \in DOMAIN read |->
    IF read[i].id = id /\ \A j \in DOMAIN read : read[j].id = id => j <= i
    THEN [id |-> id, status |-> decision] ELSE read[i]]

\* Wrong variant: a hold that stopped before its alias was written gets none now.
DecidedIfPresent(read, id, decision) == Redecided(read, id, decision)

\* The last alias of the id takes the decision; without one it is appended.
Decided(read, id, decision) ==
  IF \E i \in DOMAIN read : read[i].id = id
  THEN Redecided(read, id, decision)
  ELSE Append(read, [id |-> id, status |-> decision])

WriteDecision(s) ==
  /\ sessions[s].pc = "decide"
  /\ aliases' = Decided(sessions[s].aliases, sessions[s].id, sessions[s].decision)
  /\ Becomes(s, [sessions[s] EXCEPT !.pc = "close"])
  /\ UNCHANGED <<candidates, books, lock, crashes, delivered, reviewed>>

CloseCandidate(s) ==
  LET id == sessions[s].id IN
  /\ sessions[s].pc = "close"
  /\ candidates' = [sessions[s].candidates EXCEPT ![id] = sessions[s].decision]
  /\ reviewed' = [reviewed EXCEPT ![Row(id)] = sessions[s].decision]
  /\ Becomes(s, Idle)
  /\ UNCHANGED <<aliases, books, lock, crashes, delivered>>

-----------------------------------------------------------------------------
\* A process stops, or one of its writes fails.
Crash(s) ==
  /\ sessions[s].pc # "idle" /\ crashes < MaxCrashes
  /\ crashes' = crashes + 1
  /\ Becomes(s, Idle)
  /\ lock' = IF lock = s THEN NoSession ELSE lock
  /\ UNCHANGED <<candidates, aliases, books, delivered, reviewed>>

Next ==
  \E s \in Sessions :
    \/ \E id \in SourceId, similar \in BOOLEAN : ImportStart(s, id, similar)
    \/ ImportSkips(s) \/ ImportBooks(s) \/ ImportHolds(s)
    \/ HoldExists(s) \/ HoldWritesCandidates(s) \/ HoldWritesAliases(s)
    \/ \E id \in SourceId, decision \in Decision : Resolve(s, id, decision)
    \/ Release(s) \/ WriteDecision(s) \/ CloseCandidate(s)
    \/ Crash(s)

Spec == Init /\ [][Next]_vars
-----------------------------------------------------------------------------
(* Properties *)

TypeOK ==
  /\ candidates \in Candidates /\ aliases \in Seq(Alias) /\ books \subseteq SourceId
  /\ sessions \in [Sessions -> Session] /\ lock \in Sessions \cup {NoSession}
  /\ crashes \in 0..MaxCrashes
  /\ delivered \subseteq SourceId /\ reviewed \in [Rows -> {"none"} \cup Decision]

\* "A row that is already held for review stays held on every later sync, under
\* either spelling of its ID, until a person resolves it": only the decision on
\* a row ends its hold.
HeldUntilReviewed ==
  [][\A id \in SourceId : candidates[id] = "open" /\ candidates'[id] # "open" =>
       \E s \in Sessions : sessions[s].pc = "close" /\ sessions[s].id = id]_vars

\* A person is asked about a row under one spelling, not under two.
OneHoldPerRow ==
  \A id, other \in SourceId :
    candidates[id] = "open" /\ candidates[other] = "open" /\ Row(id) = Row(other) => id = other

\* A row is never lost: once its import returned it is in the books, or held, or
\* a person decided about it.
RowAccountedFor ==
  \A id \in delivered : Known(id) \/ \E i \in source_id_variants(id) : candidates[i] # "none"

\* The decision "distinct" is on record only after the row was released, so that
\* a stop in between cannot leave a row that every later import believes booked.
DistinctIsBooked ==
  \A i \in DOMAIN aliases : aliases[i].status = "distinct" => Known(aliases[i].id)

\* A decision that was shown as done is the one that controls later imports: "The
\* reverse order could leave a hidden, unresolvable candidate alias."
ClosedMeansDecided ==
  \A id \in SourceId : candidates[id] \in Decision => legacy_alias_status(id) = candidates[id]

\* A row that a person called a duplicate, under whatever spelling it returns, and a
\* row dated on or before the cutover, which "are never posted or queued", enter the
\* books only by the release that a person decided.
HeldRowsStayOut ==
  [][\A id \in books' \ books : (reviewed[Row(id)] = "duplicate" \/ Row(id) \in Cutover) =>
       \E s \in Sessions : sessions[s].pc = "release" /\ sessions[s].id = id]_vars
=============================================================================
