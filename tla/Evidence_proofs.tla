--------------------------- MODULE Evidence_proofs --------------------------
(***************************************************************************)
(* Theorems about two of the modules MCEvidence checks together.           *)
(*                                                                         *)
(* GroupJournal: for every set of items and every number of commands and   *)
(* stops. Those about atomicity assume that no stop falls inside the write *)
(* of COMMIT or the removal of the journal; the runs show that they are    *)
(* false otherwise.                                                        *)
(*                                                                         *)
(* StripeClearing (second part): for any movements, deposits, look-alikes  *)
(* and entries of older engines, and any number of captures, plans, stops, *)
(* changes of policy and commands of owners, from ClearingInv.             *)
(***************************************************************************)
EXTENDS GroupJournal, StripeClearing, TLAPS

\* What is on disk between any two steps.
JournalShape ==
  /\ ~journal.dir => journal = NoJournal
  /\ journal.marker # "torn"
  /\ journal.marker = "whole" => journal.manifest = "whole"
  /\ journal.manifest = "whole" => journal.news = journal.group /\ journal.olds = journal.group

\* How far the command is.
Progress ==
  /\ cmd.pc = "idle" => cmd = Idle
  /\ cmd.pc \in {"save", "mkdir"} => ~journal.dir /\ cmd.body = cmd.pc
  /\ cmd.pc \in {"recover", "forward", "back", "remove"} => journal.dir
  /\ cmd.pc \in {"stage", "manifest", "commit", "publish"} =>
       journal.dir /\ cmd.body = "mkdir" /\ journal.group = cmd.targets /\ journal.value = ops
  /\ cmd.pc = "stage" =>
       /\ cmd.todo \subseteq journal.group
       /\ journal.news = journal.group \ cmd.todo /\ journal.olds = journal.group \ cmd.todo
  /\ cmd.pc = "manifest" => journal.news = journal.group /\ journal.olds = journal.group
  /\ cmd.pc \in {"stage", "manifest"} => journal.manifest = "absent" /\ journal.marker = "absent"
  /\ cmd.pc \in {"commit", "back"} => journal.manifest = "whole" /\ journal.marker = "absent"
  /\ cmd.pc \in {"publish", "forward"} => journal.marker = "whole"

\* What the replacements done so far have achieved.
Replaced ==
  /\ cmd.pc \in {"stage", "manifest", "commit"} => journal.prior = dest
  /\ cmd.pc \in {"publish", "forward"} =>
       cmd.todo \subseteq journal.group /\ \A i \in journal.group \ cmd.todo : dest[i] = journal.value
  /\ cmd.pc = "back" =>
       cmd.todo \subseteq journal.group /\ \A i \in journal.group \ cmd.todo : dest[i] = journal.prior[i]
  /\ cmd.pc = "remove" /\ journal.manifest = "whole" =>
       \A i \in journal.group : dest[i] = IF journal.marker = "whole" THEN journal.value ELSE journal.prior[i]

\* Commands are numbered: what is on disk is older than a command that has not
\* published yet.
Numbered ==
  /\ journal.value <= ops
  /\ \A i \in Items : dest[i] <= ops /\ journal.prior[i] <= ops
  /\ cmd.body # "none" =>
       ops \in 1..MaxOps /\ cmd.value = ops /\ requests[ops] = cmd.targets /\ cmd.targets # {}
  /\ cmd.body # "none" /\ cmd.pc # "publish" =>
       \A i \in Items : dest[i] < ops /\ journal.prior[i] < ops
  /\ cmd.body # "none" /\ cmd.pc \in {"recover", "forward", "back", "remove", "save", "mkdir"} =>
       journal.value < ops
  /\ \A op \in 1..MaxOps : op > ops => requests[op] = {}

IInv == TypeOK /\ JournalShape /\ Progress /\ Replaced /\ Numbered

\* What holds wherever a stop may fall.
Occupied ==
  /\ ~journal.dir => journal = NoJournal
  /\ cmd.pc \notin {"idle", "save", "mkdir"} => journal.dir

-----------------------------------------------------------------------------
(* Types *)

\* The queue starts inside its types.
LEMMA TypeInit == Init => TypeOK
BY JournalAssumption DEF Init, TypeOK, Value, Journal, NoJournal, FileState, Command, Idle

\* A missing journal is a journal state.
LEMMA NoJournalType == NoJournal \in Journal
BY JournalAssumption DEF NoJournal, Journal, FileState, Value

\* An idle writer is a writer state.
LEMMA IdleType == Idle \in Command
BY JournalAssumption DEF Idle, Command, Value

\* Every step keeps the types.
LEMMA TypeNext == TypeOK /\ [Next]_vars => TypeOK'
<1> SUFFICES ASSUME TypeOK, [Next]_vars PROVE TypeOK'
  OBVIOUS
<1> USE JournalAssumption DEF TypeOK, Value, Journal, FileState, Command
<1>1. CASE BeginOther
  BY <1>1 DEF BeginOther, Begin, AfterRecovery, Idle
<1>2. ASSUME NEW i \in Items, BeginSave(i) PROVE TypeOK'
  BY <1>2 DEF BeginSave, Request, Begin, AfterRecovery
<1>3. ASSUME NEW group \in SUBSET Items, BeginGroup(group) PROVE TypeOK'
  BY <1>3 DEF BeginGroup, Request, Begin, AfterRecovery
<1>4. CASE SaveItem
  BY <1>4, IdleType DEF SaveItem
<1>5. CASE MakeJournal
  BY <1>5, NoJournalType DEF MakeJournal
<1>6. CASE WriteManifest
  BY <1>6 DEF WriteManifest
<1>7. CASE WriteMarker
  BY <1>7 DEF WriteMarker
<1>8. CASE PublishEnds
  BY <1>8 DEF PublishEnds
<1>9. ASSUME NEW i \in Items, StageItem(i) PROVE TypeOK'
  BY <1>9 DEF StageItem
<1>10. ASSUME NEW i \in Items, PublishItem(i) PROVE TypeOK'
  BY <1>10 DEF PublishItem
<1>11. ASSUME NEW i \in Items, RollForward(i) PROVE TypeOK'
  BY <1>11 DEF RollForward
<1>12. ASSUME NEW i \in Items, RollBack(i) PROVE TypeOK'
  BY <1>12 DEF RollBack
<1>13. CASE RecoverDiscards
  BY <1>13 DEF RecoverDiscards
<1>14. ASSUME NEW direction \in {"forward", "back"}, Recover(direction) PROVE TypeOK'
  BY <1>14 DEF Recover
<1>15. CASE RecoveryEnds
  BY <1>15 DEF RecoveryEnds
<1>16. CASE RecoveryRefuses
  BY <1>16, IdleType DEF RecoveryRefuses
<1>17. CASE RemoveJournal
  BY <1>17, NoJournalType, IdleType DEF RemoveJournal, RemovalDone
<1>18. CASE RemoveFile
  <2>1. ASSUME NEW i \in journal.news, journal' = [journal EXCEPT !.news = @ \ {i}] PROVE TypeOK'
    <3>1. journal.news \ {i} \in SUBSET Items
      OBVIOUS
    <3>2. journal' \in Journal
      BY <2>1, <3>1
    <3> QED
      BY <1>18, <3>2 DEF RemoveFile
  <2>2. ASSUME NEW i \in journal.olds, journal' = [journal EXCEPT !.olds = @ \ {i}] PROVE TypeOK'
    <3>1. journal.olds \ {i} \in SUBSET Items
      OBVIOUS
    <3>2. journal' \in Journal
      BY <2>2, <3>1
    <3> QED
      BY <1>18, <3>2 DEF RemoveFile
  <2>3. CASE journal' = [journal EXCEPT !.manifest = "absent"]
    BY <1>18, <2>3 DEF RemoveFile
  <2>4. CASE journal' = [journal EXCEPT !.marker = "absent"]
    BY <1>18, <2>4 DEF RemoveFile
  <2> QED
    BY <1>18, <2>1, <2>2, <2>3, <2>4 DEF RemoveFile
<1>19. CASE Crash
  <2>1. CASE journal' = journal
    BY <1>19, <2>1, IdleType DEF Crash
  <2>2. CASE journal' = [journal EXCEPT !.manifest = "torn"]
    <3>1. journal' \in Journal
      BY <2>2
    <3> QED
      BY <1>19, <3>1, IdleType DEF Crash
  <2>3. CASE journal' = [journal EXCEPT !.marker = "torn"]
    <3>1. journal' \in Journal
      BY <2>3
    <3> QED
      BY <1>19, <3>1, IdleType DEF Crash
  <2> QED
    BY <1>19, <2>1, <2>2, <2>3 DEF Crash
<1>20. CASE UNCHANGED vars
  BY <1>20 DEF vars
<1> QED
  BY <1>1, <1>2, <1>3, <1>4, <1>5, <1>6, <1>7, <1>8, <1>9, <1>10, <1>11, <1>12, <1>13, <1>14,
     <1>15, <1>16, <1>17, <1>18, <1>19, <1>20 DEF Next, Continue

-----------------------------------------------------------------------------
(* The invariant, when no stop falls inside COMMIT or the removal *)

\* The invariant holds in the first state.
LEMMA InitInv == Init => IInv
<1> SUFFICES ASSUME Init PROVE IInv
  OBVIOUS
<1>1. TypeOK
  BY TypeInit
<1> QED
  BY <1>1, JournalAssumption
  DEF Init, IInv, TypeOK, JournalShape, Progress, Replaced, Numbered, NoJournal, Idle, Value

\* No journal is ever found that recovery refuses.
LEMMA IInvRecovers == IInv => NextCommandRecovers
BY DEF IInv, TypeOK, Journal, FileState, JournalShape, Progress, Replaced, NextCommandRecovers, CannotRecover

\* Every step keeps the invariant when no stop falls inside COMMIT or rmtree.
LEMMA NextInv == Interruptible = {} /\ IInv /\ [Next]_vars => IInv'
<1> SUFFICES ASSUME Interruptible = {}, IInv, [Next]_vars PROVE IInv'
  OBVIOUS
<1>0. TypeOK'
  BY TypeNext DEF IInv
<1> USE JournalAssumption DEF IInv, TypeOK, Value, Journal, FileState, Command
<1>1. CASE BeginOther
  <2>1. JournalShape'
    BY <1>1 DEF BeginOther, Begin, AfterRecovery, Idle, JournalShape, Progress, Replaced, Numbered
  <2>2. Progress'
    BY <1>1 DEF BeginOther, Begin, AfterRecovery, Idle, JournalShape, Progress, Replaced, Numbered
  <2>3. Replaced'
    BY <1>1 DEF BeginOther, Begin, AfterRecovery, Idle, JournalShape, Progress, Replaced, Numbered
  <2>4. Numbered'
    BY <1>1 DEF BeginOther, Begin, AfterRecovery, Idle, JournalShape, Progress, Replaced, Numbered
  <2> QED
    BY <1>0, <2>1, <2>2, <2>3, <2>4
<1>2. ASSUME NEW i \in Items, BeginSave(i) PROVE IInv'
  <2>1. JournalShape'
    BY <1>2 DEF BeginSave, Request, Begin, AfterRecovery, Idle, JournalShape, Progress, Replaced, Numbered
  <2>2. Progress'
    BY <1>2 DEF BeginSave, Request, Begin, AfterRecovery, Idle, JournalShape, Progress, Replaced, Numbered
  <2>3. Replaced'
    BY <1>2 DEF BeginSave, Request, Begin, AfterRecovery, Idle, JournalShape, Progress, Replaced, Numbered
  <2>4. Numbered'
    BY <1>2 DEF BeginSave, Request, Begin, AfterRecovery, Idle, JournalShape, Progress, Replaced, Numbered
  <2> QED
    BY <1>0, <2>1, <2>2, <2>3, <2>4
<1>3. ASSUME NEW group \in SUBSET Items, BeginGroup(group) PROVE IInv'
  <2>1. JournalShape'
    BY <1>3 DEF BeginGroup, Request, Begin, AfterRecovery, Idle, JournalShape, Progress, Replaced, Numbered
  <2>2. Progress'
    BY <1>3 DEF BeginGroup, Request, Begin, AfterRecovery, Idle, JournalShape, Progress, Replaced, Numbered
  <2>3. Replaced'
    BY <1>3 DEF BeginGroup, Request, Begin, AfterRecovery, Idle, JournalShape, Progress, Replaced, Numbered
  <2>4. Numbered'
    BY <1>3 DEF BeginGroup, Request, Begin, AfterRecovery, Idle, JournalShape, Progress, Replaced, Numbered
  <2> QED
    BY <1>0, <2>1, <2>2, <2>3, <2>4
<1>4. CASE SaveItem
  <2>1. JournalShape'
    BY <1>4 DEF SaveItem, Idle, JournalShape, Progress, Replaced, Numbered
  <2>2. Progress'
    BY <1>4 DEF SaveItem, Idle, JournalShape, Progress, Replaced, Numbered
  <2>3. Replaced'
    BY <1>4 DEF SaveItem, Idle, JournalShape, Progress, Replaced, Numbered
  <2>4. Numbered'
    BY <1>4 DEF SaveItem, Idle, JournalShape, Progress, Replaced, Numbered
  <2> QED
    BY <1>0, <2>1, <2>2, <2>3, <2>4
<1>5. CASE MakeJournal
  <2>1. JournalShape'
    BY <1>5 DEF MakeJournal, NoJournal, JournalShape, Progress, Replaced, Numbered
  <2>2. Progress'
    BY <1>5 DEF MakeJournal, NoJournal, JournalShape, Progress, Replaced, Numbered
  <2>3. Replaced'
    BY <1>5 DEF MakeJournal, NoJournal, JournalShape, Progress, Replaced, Numbered
  <2>4. Numbered'
    BY <1>5 DEF MakeJournal, NoJournal, JournalShape, Progress, Replaced, Numbered
  <2> QED
    BY <1>0, <2>1, <2>2, <2>3, <2>4
<1>6. CASE WriteManifest
  <2>1. JournalShape'
    BY <1>6 DEF WriteManifest, NoJournal, JournalShape, Progress, Replaced, Numbered
  <2>2. Progress'
    BY <1>6 DEF WriteManifest, NoJournal, JournalShape, Progress, Replaced, Numbered
  <2>3. Replaced'
    BY <1>6 DEF WriteManifest, NoJournal, JournalShape, Progress, Replaced, Numbered
  <2>4. Numbered'
    BY <1>6 DEF WriteManifest, NoJournal, JournalShape, Progress, Replaced, Numbered
  <2> QED
    BY <1>0, <2>1, <2>2, <2>3, <2>4
<1>7. CASE WriteMarker
  <2>1. JournalShape'
    BY <1>7 DEF WriteMarker, NoJournal, JournalShape, Progress, Replaced, Numbered
  <2>2. Progress'
    BY <1>7 DEF WriteMarker, NoJournal, JournalShape, Progress, Replaced, Numbered
  <2>3. Replaced'
    BY <1>7 DEF WriteMarker, NoJournal, JournalShape, Progress, Replaced, Numbered
  <2>4. Numbered'
    BY <1>7 DEF WriteMarker, NoJournal, JournalShape, Progress, Replaced, Numbered
  <2> QED
    BY <1>0, <2>1, <2>2, <2>3, <2>4
<1>8. CASE PublishEnds
  <2>1. JournalShape'
    BY <1>8 DEF PublishEnds, NoJournal, JournalShape, Progress, Replaced, Numbered
  <2>2. Progress'
    BY <1>8 DEF PublishEnds, NoJournal, JournalShape, Progress, Replaced, Numbered
  <2>3. Replaced'
    BY <1>8 DEF PublishEnds, NoJournal, JournalShape, Progress, Replaced, Numbered
  <2>4. Numbered'
    BY <1>8 DEF PublishEnds, NoJournal, JournalShape, Progress, Replaced, Numbered
  <2> QED
    BY <1>0, <2>1, <2>2, <2>3, <2>4
<1>9. ASSUME NEW i \in Items, StageItem(i) PROVE IInv'
  <2>1. JournalShape'
    BY <1>9 DEF StageItem, NoJournal, JournalShape, Progress, Replaced, Numbered
  <2>2. Progress'
    BY <1>9 DEF StageItem, NoJournal, JournalShape, Progress, Replaced, Numbered
  <2>3. Replaced'
    BY <1>9 DEF StageItem, NoJournal, JournalShape, Progress, Replaced, Numbered
  <2>4. Numbered'
    BY <1>9 DEF StageItem, NoJournal, JournalShape, Progress, Replaced, Numbered
  <2> QED
    BY <1>0, <2>1, <2>2, <2>3, <2>4
<1>10. ASSUME NEW i \in Items, PublishItem(i) PROVE IInv'
  <2>1. JournalShape'
    BY <1>10 DEF PublishItem, JournalShape, Progress, Replaced, Numbered
  <2>2. Progress'
    BY <1>10 DEF PublishItem, JournalShape, Progress, Replaced, Numbered
  <2>3. Replaced'
    BY <1>10 DEF PublishItem, JournalShape, Progress, Replaced, Numbered
  <2>4. Numbered'
    BY <1>10 DEF PublishItem, JournalShape, Progress, Replaced, Numbered
  <2> QED
    BY <1>0, <2>1, <2>2, <2>3, <2>4
<1>11. ASSUME NEW i \in Items, RollForward(i) PROVE IInv'
  <2>1. JournalShape'
    BY <1>11 DEF RollForward, JournalShape, Progress, Replaced, Numbered
  <2>2. Progress'
    BY <1>11 DEF RollForward, JournalShape, Progress, Replaced, Numbered
  <2>3. Replaced'
    BY <1>11 DEF RollForward, JournalShape, Progress, Replaced, Numbered
  <2>4. Numbered'
    BY <1>11 DEF RollForward, JournalShape, Progress, Replaced, Numbered
  <2> QED
    BY <1>0, <2>1, <2>2, <2>3, <2>4
<1>12. ASSUME NEW i \in Items, RollBack(i) PROVE IInv'
  <2>1. JournalShape'
    BY <1>12 DEF RollBack, JournalShape, Progress, Replaced, Numbered
  <2>2. Progress'
    BY <1>12 DEF RollBack, JournalShape, Progress, Replaced, Numbered
  <2>3. Replaced'
    BY <1>12 DEF RollBack, JournalShape, Progress, Replaced, Numbered
  <2>4. Numbered'
    BY <1>12 DEF RollBack, JournalShape, Progress, Replaced, Numbered
  <2> QED
    BY <1>0, <2>1, <2>2, <2>3, <2>4
<1>13. CASE RecoverDiscards
  <2>1. JournalShape'
    BY <1>13 DEF RecoverDiscards, JournalShape, Progress, Replaced, Numbered
  <2>2. Progress'
    BY <1>13 DEF RecoverDiscards, JournalShape, Progress, Replaced, Numbered
  <2>3. Replaced'
    BY <1>13 DEF RecoverDiscards, JournalShape, Progress, Replaced, Numbered
  <2>4. Numbered'
    BY <1>13 DEF RecoverDiscards, JournalShape, Progress, Replaced, Numbered
  <2> QED
    BY <1>0, <2>1, <2>2, <2>3, <2>4
<1>14. ASSUME NEW direction \in {"forward", "back"}, Recover(direction) PROVE IInv'
  <2>1. JournalShape'
    BY <1>14 DEF Recover, JournalShape, Progress, Replaced, Numbered
  <2>2. Progress'
    BY <1>14 DEF Recover, JournalShape, Progress, Replaced, Numbered
  <2>3. Replaced'
    BY <1>14 DEF Recover, JournalShape, Progress, Replaced, Numbered
  <2>4. Numbered'
    BY <1>14 DEF Recover, JournalShape, Progress, Replaced, Numbered
  <2> QED
    BY <1>0, <2>1, <2>2, <2>3, <2>4
<1>15. CASE RecoveryEnds
  <2>1. JournalShape'
    BY <1>15 DEF RecoveryEnds, JournalShape, Progress, Replaced, Numbered
  <2>2. Progress'
    BY <1>15 DEF RecoveryEnds, JournalShape, Progress, Replaced, Numbered
  <2>3. Replaced'
    BY <1>15 DEF RecoveryEnds, JournalShape, Progress, Replaced, Numbered
  <2>4. Numbered'
    BY <1>15 DEF RecoveryEnds, JournalShape, Progress, Replaced, Numbered
  <2> QED
    BY <1>0, <2>1, <2>2, <2>3, <2>4
<1>16. CASE RecoveryRefuses
  BY <1>16, IInvRecovers DEF RecoveryRefuses, NextCommandRecovers
<1>17. CASE RemoveJournal
  <2>1. JournalShape'
    BY <1>17 DEF RemoveJournal, RemovalDone, NoJournal, Idle, JournalShape, Progress, Replaced, Numbered
  <2>2. Progress'
    BY <1>17 DEF RemoveJournal, RemovalDone, NoJournal, Idle, JournalShape, Progress, Replaced, Numbered
  <2>3. Replaced'
    BY <1>17 DEF RemoveJournal, RemovalDone, NoJournal, Idle, JournalShape, Progress, Replaced, Numbered
  <2>4. Numbered'
    BY <1>17 DEF RemoveJournal, RemovalDone, NoJournal, Idle, JournalShape, Progress, Replaced, Numbered
  <2> QED
    BY <1>0, <2>1, <2>2, <2>3, <2>4
<1>18. CASE RemoveFile
  BY <1>18 DEF RemoveFile
<1>19. CASE Crash
  <2>1. JournalShape'
    BY <1>19 DEF Crash, Idle, JournalShape, Progress, Replaced, Numbered
  <2>2. Progress'
    BY <1>19 DEF Crash, Idle, JournalShape, Progress, Replaced, Numbered
  <2>3. Replaced'
    BY <1>19 DEF Crash, Idle, JournalShape, Progress, Replaced, Numbered
  <2>4. Numbered'
    BY <1>19 DEF Crash, Idle, JournalShape, Progress, Replaced, Numbered
  <2> QED
    BY <1>0, <2>1, <2>2, <2>3, <2>4
<1>20. CASE UNCHANGED vars
  BY <1>0, <1>20 DEF vars, JournalShape, Progress, Replaced, Numbered
<1> QED
  BY <1>1, <1>2, <1>3, <1>4, <1>5, <1>6, <1>7, <1>8, <1>9, <1>10, <1>11, <1>12, <1>13, <1>14,
     <1>15, <1>16, <1>17, <1>18, <1>19, <1>20 DEF Next, Continue

-----------------------------------------------------------------------------
(* Theorems *)

\* The queue, the journal and the command stay within their types, wherever
\* stops fall.
THEOREM TypeCorrect == Spec => []TypeOK
<1> QED
  BY TypeInit, TypeNext, PTL DEF Spec

\* Without stops inside COMMIT or the removal, what is on disk between any two
\* steps is one of the shapes recovery can tell apart.
THEOREM Invariance == ASSUME Interruptible = {} PROVE Spec => []IInv
<1> QED
  BY InitInv, NextInv, PTL DEF Spec

\* Then no queue command ever finds a journal it has to refuse
\* (_recover_group_journals_unlocked never raises).
THEOREM Recoverability == ASSUME Interruptible = {} PROVE Spec => []NextCommandRecovers
<1> QED
  BY Invariance, IInvRecovers, PTL

\* Every step keeps it, wherever a stop falls.
LEMMA OccupiedNext == TypeOK /\ Occupied /\ [Next]_vars => Occupied'
<1> SUFFICES ASSUME TypeOK, Occupied, [Next]_vars PROVE Occupied'
  OBVIOUS
<1> USE DEF Occupied, TypeOK, Journal, Command
<1>1. CASE BeginOther
  BY <1>1 DEF BeginOther, Begin, AfterRecovery, Idle
<1>2. ASSUME NEW i \in Items, BeginSave(i) PROVE Occupied'
  BY <1>2 DEF BeginSave, Request, Begin, AfterRecovery, Idle
<1>3. ASSUME NEW group \in SUBSET Items, BeginGroup(group) PROVE Occupied'
  BY <1>3 DEF BeginGroup, Request, Begin, AfterRecovery, Idle
<1>4. CASE SaveItem
  BY <1>4 DEF SaveItem, Idle
<1>5. CASE MakeJournal
  BY <1>5 DEF MakeJournal, NoJournal
<1>6. CASE WriteManifest
  BY <1>6 DEF WriteManifest, NoJournal
<1>7. CASE WriteMarker
  BY <1>7 DEF WriteMarker, NoJournal
<1>8. CASE PublishEnds
  BY <1>8 DEF PublishEnds, NoJournal
<1>9. ASSUME NEW i \in Items, StageItem(i) PROVE Occupied'
  BY <1>9 DEF StageItem, NoJournal
<1>10. ASSUME NEW i \in Items, PublishItem(i) PROVE Occupied'
  BY <1>10 DEF PublishItem
<1>11. ASSUME NEW i \in Items, RollForward(i) PROVE Occupied'
  BY <1>11 DEF RollForward
<1>12. ASSUME NEW i \in Items, RollBack(i) PROVE Occupied'
  BY <1>12 DEF RollBack
<1>13. CASE RecoverDiscards
  BY <1>13 DEF RecoverDiscards
<1>14. ASSUME NEW direction \in {"forward", "back"}, Recover(direction) PROVE Occupied'
  BY <1>14 DEF Recover
<1>15. CASE RecoveryEnds
  BY <1>15 DEF RecoveryEnds
<1>16. CASE RecoveryRefuses
  BY <1>16 DEF RecoveryRefuses, Idle
<1>17. CASE RemoveJournal
  BY <1>17 DEF RemoveJournal, RemovalDone, NoJournal, Idle
<1>18. CASE RemoveFile
  BY <1>18 DEF RemoveFile, NoJournal
<1>19. CASE Crash
  BY <1>19 DEF Crash, Idle
<1>20. CASE UNCHANGED vars
  BY <1>20 DEF vars
<1> QED
  BY <1>1, <1>2, <1>3, <1>4, <1>5, <1>6, <1>7, <1>8, <1>9, <1>10, <1>11, <1>12, <1>13, <1>14,
     <1>15, <1>16, <1>17, <1>18, <1>19, <1>20 DEF Next, Continue

\* Wherever stops fall, a reader that holds no lock and repairs nothing is never
\* shown a queue file of a group that is partly replaced (_group_recovery_view).
THEOREM Readers == Spec => []ReadersSeeTheQueue
<1>1. Init => Occupied
  BY DEF Init, Occupied, NoJournal, Idle
<1>2. Occupied => ReadersSeeTheQueue
  BY DEF Occupied, ReadersSeeTheQueue, Hidden, Logical, NoJournal
<1> QED
  BY <1>1, <1>2, TypeCorrect, OccupiedNext, PTL DEF Spec

-----------------------------------------------------------------------------
(* Refinement *)

\* Once it holds the lock, a command changes what the queue logically holds
\* only by _save_item and by writing COMMIT.
LEMMA SilentSteps ==
  ASSUME Interruptible = {}, IInv, IInv', Next,
         ~SaveItem, ~WriteMarker
  PROVE  Logical' = Logical
<1> USE DEF IInv, JournalShape, Logical
<1>1. CASE BeginOther
  BY <1>1 DEF BeginOther, Begin
<1>2. ASSUME NEW i \in Items, BeginSave(i) PROVE Logical' = Logical
  BY <1>2 DEF BeginSave, Request, Begin
<1>3. ASSUME NEW group \in SUBSET Items, BeginGroup(group) PROVE Logical' = Logical
  BY <1>3 DEF BeginGroup, Request, Begin
<1>5. CASE MakeJournal
  BY <1>5 DEF MakeJournal, Progress, NoJournal
<1>6. CASE WriteManifest
  BY <1>6 DEF WriteManifest, Progress, Replaced
<1>8. CASE PublishEnds
  BY <1>8 DEF PublishEnds
<1>9. ASSUME NEW i \in Items, StageItem(i) PROVE Logical' = Logical
  BY <1>9 DEF StageItem, Progress
<1>10. ASSUME NEW i \in Items, PublishItem(i) PROVE Logical' = Logical
  BY <1>10 DEF PublishItem, Progress, Replaced
<1>11. ASSUME NEW i \in Items, RollForward(i) PROVE Logical' = Logical
  BY <1>11 DEF RollForward, Progress, Replaced
<1>12. ASSUME NEW i \in Items, RollBack(i) PROVE Logical' = Logical
  BY <1>12 DEF RollBack, Progress, Replaced
<1>13. CASE RecoverDiscards
  BY <1>13 DEF RecoverDiscards
<1>14. ASSUME NEW direction \in {"forward", "back"}, Recover(direction) PROVE Logical' = Logical
  BY <1>14 DEF Recover
<1>15. CASE RecoveryEnds
  BY <1>15 DEF RecoveryEnds
<1>16. CASE RecoveryRefuses
  BY <1>16 DEF RecoveryRefuses
<1>17. CASE RemoveJournal
  BY <1>17 DEF RemoveJournal, Replaced, NoJournal, TypeOK, Value
<1>18. CASE RemoveFile
  BY <1>18 DEF RemoveFile
<1>19. CASE Crash
  <2>1. CASE journal' = journal
    BY <1>19, <2>1 DEF Crash
  <2>2. CASE journal.manifest = "absent" /\ journal' = [journal EXCEPT !.manifest = "torn"]
    <3>1. journal.manifest # "whole" /\ journal'.manifest # "whole"
      BY <2>2 DEF TypeOK, Journal
    <3> QED
      BY <1>19, <3>1 DEF Crash
  <2> QED
    BY <1>19, <2>1, <2>2 DEF Crash, Progress
<1> QED
  BY <1>1, <1>2, <1>3, <1>5, <1>6, <1>8, <1>9, <1>10, <1>11, <1>12, <1>13, <1>14,
     <1>15, <1>16, <1>17, <1>18, <1>19 DEF Next, Continue

\* Every step maps to a step of the abstract group or leaves its queue as it is.
LEMMA Simulation ==
  ASSUME Interruptible = {}, IInv, IInv', [Next]_vars PROVE [Atomic!Next]_Atomic!vars
<1> USE JournalAssumption
<1>1. ASSUME NEW i \in Items, BeginSave(i) PROVE Atomic!Next
  <2>1. ops + 1 \in 1..MaxOps
    BY <1>1 DEF BeginSave, IInv, TypeOK
  <2>2. Logical' = Logical
    BY <1>1 DEF BeginSave, Request, Begin, Logical
  <2>3. Atomic!Request(ops + 1, {i})
    BY <1>1, <2>1, <2>2 DEF BeginSave, Request, IInv, Numbered, TypeOK, Atomic!Request
  <2> QED
    BY <2>1, <2>3 DEF Atomic!Next
<1>2. ASSUME NEW group \in SUBSET Items, BeginGroup(group) PROVE Atomic!Next
  <2>1. ops + 1 \in 1..MaxOps
    BY <1>2 DEF BeginGroup, IInv, TypeOK
  <2>2. Logical' = Logical
    BY <1>2 DEF BeginGroup, Request, Begin, Logical
  <2>3. Atomic!Request(ops + 1, group)
    BY <1>2, <2>1, <2>2 DEF BeginGroup, Request, IInv, Numbered, TypeOK, Atomic!Request
  <2> QED
    BY <2>1, <2>3 DEF Atomic!Next
<1>3. ASSUME SaveItem PROVE Atomic!Next
  <2>1. cmd.body # "none" /\ cmd.pc # "publish" /\ journal = NoJournal
    BY <1>3 DEF SaveItem, IInv, Progress, JournalShape
  <2>2. ops \in 1..MaxOps /\ cmd.value = ops /\ requests[ops] = cmd.targets /\ cmd.targets # {}
    BY <2>1 DEF IInv, Numbered
  <2>3. \A i \in Items : Logical[i] = dest[i] /\ dest[i] < ops
    BY <2>1 DEF IInv, Numbered, Logical, NoJournal
  <2>4. Logical' = [i \in Items |-> IF i \in requests[ops] THEN ops ELSE Logical[i]]
    BY <1>3, <2>1, <2>2, <2>3 DEF SaveItem, Logical, NoJournal
  <2>5. Atomic!Publish(ops)
    BY <1>3, <2>2, <2>3, <2>4 DEF SaveItem, Atomic!Publish
  <2> QED
    BY <2>2, <2>5 DEF Atomic!Next
<1>4. ASSUME WriteMarker PROVE Atomic!Next
  <2>1. /\ cmd.body # "none" /\ cmd.pc # "publish"
        /\ journal.manifest = "whole" /\ journal.marker = "absent"
        /\ journal.group = cmd.targets /\ journal.value = ops
    BY <1>4 DEF WriteMarker, IInv, Progress
  <2>2. ops \in 1..MaxOps /\ requests[ops] = cmd.targets /\ cmd.targets # {}
    BY <2>1 DEF IInv, Numbered
  <2>3. \A i \in Items : Logical[i] < ops
    BY <2>1 DEF IInv, Numbered, Logical
  <2>4. journal' = [journal EXCEPT !.marker = "whole"] /\ dest' = dest /\ requests' = requests
    BY <1>4 DEF WriteMarker
  <2>5. Logical' = [i \in Items |-> IF i \in requests[ops] THEN ops ELSE Logical[i]]
    BY <2>1, <2>2, <2>4 DEF Logical, IInv, TypeOK, Journal
  <2>6. Atomic!Publish(ops)
    BY <2>2, <2>3, <2>4, <2>5 DEF Atomic!Publish
  <2> QED
    BY <2>2, <2>6 DEF Atomic!Next
<1>5. ASSUME Next, ~SaveItem, ~WriteMarker, requests' = requests PROVE UNCHANGED Atomic!vars
  BY <1>5, SilentSteps DEF Atomic!vars
<1>6. CASE UNCHANGED vars
  BY <1>6 DEF vars, Atomic!vars, Logical
<1>7. ASSUME Next,
             \A i \in Items : ~BeginSave(i),
             \A group \in SUBSET Items : ~BeginGroup(group)
      PROVE  requests' = requests
  BY <1>7 DEF Next, Continue, BeginOther, SaveItem, MakeJournal, WriteManifest, WriteMarker, PublishEnds,
              StageItem, PublishItem, RollForward, RollBack, RecoverDiscards, Recover, RecoveryEnds,
              RecoveryRefuses, RemoveJournal, RemoveFile, Crash
<1> QED
  BY <1>1, <1>2, <1>3, <1>4, <1>5, <1>6, <1>7

\* Without stops inside COMMIT or the removal, publishing a group through the
\* journal implements changing all its items at once: a group appears as a
\* whole, and no recovery takes back or repeats what a later command replaced.
THEOREM Atomicity == ASSUME Interruptible = {} PROVE Spec => GroupsAreAtomic
<1>1. Init => Atomic!Init
  BY DEF Init, Atomic!Init, Logical, NoJournal
<1>2. IInv /\ IInv' /\ [Next]_vars => [Atomic!Next]_Atomic!vars
  BY Simulation
<1> QED
  BY <1>1, <1>2, Invariance, PTL DEF Spec, GroupsAreAtomic, Atomic!Spec

-----------------------------------------------------------------------------

Fins      == {1, 2}
Policies  == [version: Nat, enabled: BOOLEAN]
Evidence  == [fin: Fins, graph: Graphs]
Entries   == [by: {"stripe", "owner", "invoice"}, fin: Fins, policy: Policies,
              pays: Movements \cup {0}, live: BOOLEAN]
SavedRows == [fin: Fins, effect: Graphs \cup {"none"}]
Rows      == [fin: Fins, hold: BOOLEAN]
Runs      == [step: {"commit", "effects", "seen", "remove"}, recovered: SUBSET Sources]

HostOK ==
  /\ policy \in Policies
  /\ DOMAIN captured \subseteq Movements /\ captured \in [DOMAIN captured -> Evidence]
LedgerOK ==
  /\ DOMAIN books \subseteq Sources /\ books \in [DOMAIN books -> Entries]
  /\ DOMAIN saved \subseteq Sources /\ saved \in [DOMAIN saved -> SavedRows]
  /\ DOMAIN claims \subseteq Movements
ReviewOK ==
  /\ DOMAIN pending \subseteq Sources /\ pending \in [DOMAIN pending -> Rows]
  /\ seen \subseteq Sources /\ owned \subseteq Sources
PlanOK ==
  /\ run \in Runs \cup {NoRun}
  /\ ~Free => ~approved.none
  /\ ~approved.none => /\ approved.movements \subseteq DOMAIN captured
                       /\ approved.bound \in Bindings(approved.movements)
                       /\ approved.actions \subseteq Sources
                       /\ approved.policy \in Policies
ClearingTypeOK == HostOK /\ LedgerOK /\ ReviewOK /\ PlanOK

\* An entry has the facts of its source, and of the row that is still in Review.
EntriesAsSaved ==
  \A s \in DOMAIN books : /\ s \in DOMAIN saved /\ saved[s].fin = books[s].fin
                          /\ s \in DOMAIN pending => pending[s].fin = books[s].fin

\* Only a payout of nothing is recorded without an entry, or seen without one.
OnlyZeroWithoutEntry ==
  /\ \A s \in DOMAIN saved : saved[s].effect # "none" => s \in Movements /\ KindOf[s] = "zero"
  /\ \A s \in seen : s \in DOMAIN books \/ (s \in Movements /\ KindOf[s] = "zero")

\* What a receipt names was posted by an apply.
ReceiptsNamePosted ==
  \A r \in receipts : \A s \in DOMAIN r.sources : s \in DOMAIN books /\ r.sources[s].entry.by = "stripe"

\* What an apply posted from the evidence that it goes by now.
Settles(s) ==
  /\ s \in DOMAIN books /\ books[s].by = "stripe"
  /\ \A r \in ReceiptsOf(s) : r.sources[s].capture = approved.captures[s]

\* A deposit that the host bound to a payout in the books is not in the books, or as its arrival.
ArrivesOnce ==
  approved.actions # {} =>
    \A b \in approved.bound :
      /\ b[1] \in approved.movements /\ b[2] \in Deposits
      /\ b[2] \in DOMAIN books /\ (b[1] \in approved.actions \/ AlreadyApplied(b[1]))
           => Live(b[2]) /\ books[b[2]].pays = b[1]

\* What the plan says of the books that are about to take its entries.
PlanHolds ==
  /\ approved.actions \subseteq DOMAIN pending
  /\ approved.actions \cap (Posted \cup DOMAIN claims) = {}
  /\ \A s \in approved.actions : Fin(s) = pending[s].fin
  /\ ArrivesOnce
  /\ \A s \in approved.actions \cap Deposits : Pays(s) \in Movements \cap (approved.actions \cup DOMAIN books)

NothingToPost ==
  \A m \in approved.movements :
    /\ approved.verdict[m] = "no_effect" => KindOf[m] = "zero" /\ m \notin DOMAIN books \cup approved.actions
    /\ approved.verdict[m] = "recorded" => m \notin approved.actions /\ EffectSaved(m)

\* Where an apply is.
RunSettles ==
  /\ run.step = "commit" => PlanHolds
  /\ run.step \in {"commit", "effects"} => NothingToPost
  /\ ~Free => \A s \in run.recovered : Settles(s)
  /\ run.step \in {"effects", "seen", "remove"} => \A s \in approved.actions : Settles(s)
  /\ run.step \in {"seen", "remove"} =>
       \A m \in approved.movements : approved.verdict[m] \in {"no_effect", "recorded"} => EffectSaved(m)

ClearingInv ==
  /\ ClearingTypeOK /\ EntriesAsSaved /\ OnlyZeroWithoutEntry /\ ReceiptsNamePosted /\ RunSettles

-----------------------------------------------------------------------------
(* The plan *)

\* What a plan takes from the books, the evidence and the policy.
LEMMA PlanRead ==
  ASSUME NEW ms, NEW bound
  PROVE  LET p == Plan(ms, bound)
             Goes(b) == b[1] \in ms /\ (Verdict(b[1]) = "post" \/ AlreadyApplied(b[1])) IN
         /\ ~p.none /\ p.movements = ms /\ p.bound = bound /\ p.policy = policy
         /\ p.verdict = [m \in ms |-> Verdict(m)]
         /\ \A s \in p.actions : \/ s \in ms /\ Verdict(s) = "post"
                                 \/ \E b \in bound : Goes(b) /\ b[2] = s /\ Arrival(b[1], b[2]) = "post"
         /\ p.actions # {} => /\ \A m \in ms : Verdict(m) = "post" => m \in p.actions
                              /\ \A b \in bound : Goes(b) => Arrival(b[1], b[2]) # "conflict"
<1> DEFINE p == Plan(ms, bound)
           Goes(b) == b[1] \in ms /\ (Verdict(b[1]) = "post" \/ AlreadyApplied(b[1]))
           verdict == [m \in ms |-> Verdict(m)]
           posts == {m \in ms : verdict[m] = "post"}
           matched == {b \in bound : b[1] \in ms /\ (b[1] \in posts \/ AlreadyApplied(b[1]))}
           conflict == \E b \in matched : Arrival(b[1], b[2]) = "conflict"
           arriving == {b \in matched : Arrival(b[1], b[2]) = "post"}
<1>1. /\ ~p.none /\ p.movements = ms /\ p.bound = bound /\ p.policy = policy /\ p.verdict = verdict
      /\ p.actions = IF conflict THEN {} ELSE posts \cup {b[2] : b \in arriving}
  BY DEF Plan
<1>2. posts = {m \in ms : Verdict(m) = "post"}
  OBVIOUS
<1>3. matched = {b \in bound : Goes(b)}
  BY <1>2
<1>4. \A s \in p.actions : \/ s \in ms /\ Verdict(s) = "post"
                           \/ \E b \in bound : Goes(b) /\ b[2] = s /\ Arrival(b[1], b[2]) = "post"
  <2> HIDE DEF p, posts, matched, Goes
  <2> QED BY <1>1, <1>2, <1>3
<1>5. p.actions # {} => /\ \A m \in ms : Verdict(m) = "post" => m \in p.actions
                        /\ \A b \in bound : Goes(b) => Arrival(b[1], b[2]) # "conflict"
  <2> HIDE DEF p, posts, matched, Goes
  <2> QED BY <1>1, <1>2, <1>3
<1> QED BY <1>1, <1>4, <1>5

\* And the form it has.
LEMMA PlanFields ==
  ASSUME NEW ms, NEW bound
  PROVE  /\ ~Plan(ms, bound).none /\ Plan(ms, bound).movements = ms
         /\ Plan(ms, bound).bound = bound /\ Plan(ms, bound).policy = policy
         /\ \A s \in Plan(ms, bound).actions : s \in ms \/ \E b \in bound : b[2] = s
<1> DEFINE p == Plan(ms, bound)
           verdict == [m \in ms |-> Verdict(m)]
           posts == {m \in ms : verdict[m] = "post"}
           matched == {b \in bound : b[1] \in ms /\ (b[1] \in posts \/ AlreadyApplied(b[1]))}
           conflict == \E b \in matched : Arrival(b[1], b[2]) = "conflict"
           arriving == {b \in matched : Arrival(b[1], b[2]) = "post"}
<1>1. /\ ~p.none /\ p.movements = ms /\ p.bound = bound /\ p.policy = policy
      /\ p.actions = IF conflict THEN {} ELSE posts \cup {b[2] : b \in arriving}
  BY DEF Plan
<1>2. posts \subseteq ms /\ arriving \subseteq bound
  OBVIOUS
<1>3. \A s \in p.actions : s \in ms \/ \E b \in bound : b[2] = s
  <2> HIDE DEF p, posts, arriving, conflict
  <2> QED BY <1>1, <1>2
<1> QED BY <1>1, <1>3

LEMMA BoundPairs ==
  ASSUME NEW ms, NEW bound \in Bindings(ms)
  PROVE  /\ \A b \in bound : b[1] \in ms /\ b[2] \in Deposits /\ KindOf[b[1]] = "payout"
         /\ \A x, y \in bound : x[2] = y[2] => x = y
BY DEF Bindings

\* A plan that is made of captured movements can be approved.
LEMMA PlanIsOK ==
  ASSUME ClearingTypeOK, NEW ms \in SUBSET DOMAIN captured, NEW bound \in Bindings(ms),
         approved' = Plan(ms, bound), run' = run, UNCHANGED captured
  PROVE  PlanOK'
<1>1. /\ ~approved'.none /\ approved'.movements = ms /\ approved'.bound = bound /\ approved'.policy = policy
      /\ \A s \in approved'.actions : s \in ms \/ \E b \in bound : b[2] = s
  BY PlanFields
<1>2. approved'.actions \subseteq Sources
  BY <1>1, BoundPairs DEF Sources, ClearingTypeOK, HostOK
<1> QED BY <1>1, <1>2 DEF PlanOK, ClearingTypeOK, HostOK, Bindings, Free

\* Under the lock, a plan that is made again and is the approved one holds of the books.
LEMMA PlanStillHolds ==
  ASSUME ClearingInv, ~approved.none, Again = approved, Staged(approved)
  PROVE  PlanHolds /\ NothingToPost
<1> DEFINE ms == approved.movements
           bound == approved.bound
           Goes(b) == b[1] \in ms /\ (Verdict(b[1]) = "post" \/ AlreadyApplied(b[1]))
<1>1. /\ ms \subseteq DOMAIN captured /\ DOMAIN captured \subseteq Movements /\ bound \in Bindings(ms)
      /\ DOMAIN claims \subseteq Movements /\ DOMAIN pending \subseteq Sources
  BY DEF ClearingInv, ClearingTypeOK, HostOK, LedgerOK, ReviewOK, PlanOK
<1>2. /\ approved.verdict = [m \in ms |-> Verdict(m)]
      /\ \A s \in approved.actions : \/ s \in ms /\ Verdict(s) = "post"
                                     \/ \E b \in bound : Goes(b) /\ b[2] = s /\ Arrival(b[1], b[2]) = "post"
      /\ approved.actions # {} => /\ \A m \in ms : Verdict(m) = "post" => m \in approved.actions
                                  /\ \A b \in bound : Goes(b) => Arrival(b[1], b[2]) # "conflict"
  BY PlanRead, Again = Plan(ms, bound) DEF Again
<1>3. /\ \A b \in bound : b[1] \in ms /\ b[2] \in Deposits /\ KindOf[b[1]] = "payout"
      /\ \A x, y \in bound : x[2] = y[2] => x = y
  BY <1>1, BoundPairs
<1>4. Movements \cap Deposits = {}
  BY ClearingAssumption
<1>5. \A m \in ms : Verdict(m) = "post" => /\ m \notin DOMAIN claims /\ m \notin Posted
                                           /\ KnownFin(m) = captured[m].fin /\ KindOf[m] # "zero"
  BY DEF Verdict, Settled
<1>6. \A m, d : Arrival(m, d) = "post" => d \notin Posted
  BY DEF Arrival
<1> HIDE DEF ms, bound, Goes
<1>7. approved.actions \subseteq DOMAIN pending
  BY DEF Staged
<1>8. approved.actions \cap (Posted \cup DOMAIN claims) = {}
  BY <1>1, <1>2, <1>3, <1>4, <1>5, <1>6
<1>9. \A s \in approved.actions : Fin(s) = pending[s].fin
  BY <1>1, <1>2, <1>3, <1>5, <1>7 DEF Fin, KnownFin
<1>10. ArrivesOnce
  <2> SUFFICES ASSUME approved.actions # {}, NEW b \in bound
               PROVE  /\ b[1] \in ms /\ b[2] \in Deposits
                      /\ b[2] \in DOMAIN books /\ (b[1] \in approved.actions \/ AlreadyApplied(b[1]))
                           => Live(b[2]) /\ books[b[2]].pays = b[1]
    BY DEF ArrivesOnce, ms, bound
  <2>1. b[1] \in approved.actions => Verdict(b[1]) = "post"
    BY <1>1, <1>2, <1>3, <1>4
  <2>2. ASSUME b[2] \in DOMAIN books, b[1] \in approved.actions \/ AlreadyApplied(b[1])
        PROVE  Live(b[2]) /\ books[b[2]].pays = b[1]
    <3>1. Arrival(b[1], b[2]) # "conflict"
      BY <1>2, <1>3, <2>1, <2>2 DEF Goes
    <3> QED BY <2>2, <3>1 DEF Arrival, Posted
  <2> QED BY <1>3, <2>2
<1>11. \A s \in approved.actions \cap Deposits : Pays(s) \in Movements \cap (approved.actions \cup DOMAIN books)
  <2> SUFFICES ASSUME NEW s \in approved.actions, s \in Deposits
               PROVE  Pays(s) \in Movements \cap (approved.actions \cup DOMAIN books)
    OBVIOUS
  <2>1. PICK b \in bound : Goes(b) /\ b[2] = s
    BY <1>1, <1>2, <1>4
  <2>2. Pays(s) = b[1]
    BY <1>3, <2>1 DEF Pays, bound
  <2>3. b[1] \in Movements /\ KindOf[b[1]] = "payout"
    BY <1>1, <1>3
  <2>4. CASE Verdict(b[1]) = "post"
    BY <1>2, <1>3, <2>2, <2>3, <2>4
  <2>5. CASE AlreadyApplied(b[1])
    BY <2>2, <2>3, <2>5 DEF AlreadyApplied, Posted, ClearingInv, OnlyZeroWithoutEntry
  <2> QED BY <2>1, <2>4, <2>5 DEF Goes
<1>12. NothingToPost
  <2> SUFFICES ASSUME NEW m \in ms
               PROVE  /\ approved.verdict[m] = "no_effect" =>
                           KindOf[m] = "zero" /\ m \notin DOMAIN books \cup approved.actions
                      /\ approved.verdict[m] = "recorded" => m \notin approved.actions /\ EffectSaved(m)
    BY DEF NothingToPost, ms
  <2>1. approved.verdict[m] = Verdict(m)
    BY <1>2
  <2>2. Verdict(m) = "no_effect" => KindOf[m] = "zero" /\ m \notin DOMAIN books
    BY DEF Verdict, Settled, Posted
  <2>3. m \in approved.actions => Verdict(m) = "post"
    BY <1>1, <1>2, <1>3, <1>4
  <2>4. Verdict(m) = "recorded" => EffectSaved(m)
    BY DEF Verdict, Settled
  <2> QED BY <2>1, <2>2, <2>3, <2>4
<1> QED BY <1>7, <1>8, <1>9, <1>10, <1>11, <1>12 DEF PlanHolds

-----------------------------------------------------------------------------
(* Steps while no apply runs *)

LEMMA PutAdds ==
  ASSUME NEW f, NEW k, NEW v
  PROVE  Put(f, k, v) = [x \in DOMAIN f \cup {k} |-> IF x = k THEN v ELSE f[x]]
BY DEF Put, Over

LEMMA RestSettles ==
  ASSUME Free, run' = run
  PROVE  RunSettles'
BY DEF RunSettles, Free

\* The rows that are left are the rows that were there.
LEMMA FewerRows ==
  ASSUME ClearingInv, NEW S, pending' = Without(pending, S), seen' \subseteq Sources, owned' \subseteq Sources
  PROVE  /\ ReviewOK'
         /\ \A s \in DOMAIN pending' : s \in DOMAIN pending /\ pending'[s] = pending[s]
BY DEF Without, ClearingInv, ClearingTypeOK, ReviewOK

\* The host's steps change no row, no entry and no plan.
LEMMA HostStep ==
  ASSUME ClearingInv, UNCHANGED <<ledgerVars, reviewVars, approved, run>>, HostOK',
         DOMAIN captured \subseteq DOMAIN captured', Free
  PROVE  ClearingInv'
<1>1. RunSettles'
  BY RestSettles
<1>2. PlanOK'
  BY DEF ClearingInv, ClearingTypeOK, PlanOK, Bindings, Free
<1>3. LedgerOK' /\ ReviewOK' /\ EntriesAsSaved' /\ OnlyZeroWithoutEntry' /\ ReceiptsNamePosted'
  BY DEF ClearingInv, ClearingTypeOK, LedgerOK, ReviewOK, EntriesAsSaved, OnlyZeroWithoutEntry,
         ReceiptsNamePosted, ledgerVars, reviewVars
<1> QED BY <1>1, <1>2, <1>3 DEF ClearingInv, ClearingTypeOK

\* Configuring, a move of the mapping, and another policy.
LEMMA HostChanges ==
  ASSUME ClearingInv, Configure \/ MoveMapping \/ ChangePolicy
  PROVE  ClearingInv'
<1>1. /\ UNCHANGED <<ledgerVars, reviewVars, approved, run, captured>> /\ Free
      /\ policy' = policy \/ \E on \in BOOLEAN : policy' = [version |-> policy.version + 1, enabled |-> on]
  BY DEF Configure, MoveMapping, ChangePolicy
<1>2. HostOK'
  BY <1>1 DEF ClearingInv, ClearingTypeOK, HostOK, Policies
<1> QED BY <1>1, <1>2, HostStep

\* A capture adds a movement or shows it otherwise.
LEMMA Captures ==
  ASSUME ClearingInv, NEW m \in Movements, Capture(m) \/ Recapture(m)
  PROVE  ClearingInv'
<1>1. UNCHANGED <<ledgerVars, reviewVars, approved, run, policy>> /\ Free
  BY DEF Capture, Recapture
<1>2. policy \in Policies /\ DOMAIN captured \subseteq Movements /\ captured \in [DOMAIN captured -> Evidence]
  BY DEF ClearingInv, ClearingTypeOK, HostOK
<1>3. CASE Capture(m)
  <2> DEFINE shown == [fin |-> 1, graph |-> IF KindOf[m] = "zero" THEN "available" ELSE "pending"]
  <2>1. shown \in Evidence
    BY DEF Evidence, Fins, Graphs
  <2> HIDE DEF shown
  <2>2. captured' = [x \in DOMAIN captured \cup {m} |-> IF x = m THEN shown ELSE captured[x]]
    BY <1>3, PutAdds DEF Capture, shown
  <2>3. HostOK' /\ DOMAIN captured \subseteq DOMAIN captured'
    BY <1>1, <1>2, <2>1, <2>2 DEF HostOK
  <2> QED BY <1>1, <2>3, HostStep
<1>4. CASE Recapture(m)
  <2>1. m \in DOMAIN captured
        /\ (captured' = [captured EXCEPT ![m].fin = 2]
            \/ \E g \in Graphs : captured' = [captured EXCEPT ![m].graph = g])
    BY <1>4 DEF Recapture
  <2>2. HostOK' /\ DOMAIN captured \subseteq DOMAIN captured'
    BY <1>1, <1>2, <2>1 DEF HostOK, Evidence, Fins
  <2> QED BY <1>1, <2>2, HostStep
<1> QED BY <1>3, <1>4

\* stripe_prepare opens an account, whatever else goes on.
LEMMA Prepares ==
  ASSUME ClearingInv, Prepare \/ UNCHANGED clearingVars
  PROVE  ClearingInv'
<1>1. UNCHANGED <<mapping, policy, captured, books, saved, claims, invoice, receipts, pending, seen, owned,
                  approved, run>>
  BY DEF Prepare, ledgerVars, reviewVars, clearingVars
<1>2. ClearingTypeOK'
  BY <1>1 DEF ClearingInv, ClearingTypeOK, HostOK, LedgerOK, ReviewOK, PlanOK, Free, Bindings
<1>3. EntriesAsSaved' /\ OnlyZeroWithoutEntry' /\ ReceiptsNamePosted'
  BY <1>1 DEF ClearingInv, EntriesAsSaved, OnlyZeroWithoutEntry, ReceiptsNamePosted
<1>4. PlanHolds' = PlanHolds /\ NothingToPost' = NothingToPost
  BY <1>1 DEF PlanHolds, ArrivesOnce, NothingToPost, Fin, Pays, Posted, Reversed, Live, AlreadyApplied, EffectSaved
<1>5. \A s : Settles(s)' = Settles(s) /\ EffectSaved(s)' = EffectSaved(s)
  BY <1>1 DEF Settles, ReceiptsOf, EffectSaved
<1>6. RunSettles'
  BY <1>1, <1>4, <1>5 DEF ClearingInv, RunSettles, Free
<1> QED BY <1>2, <1>3, <1>6 DEF ClearingInv

\* stripe_stage adds the rows of movements that nothing owns, and makes the plan.
LEMMA Stages ==
  ASSUME ClearingInv, NEW ms \in Batches, NEW bound \in Bindings(ms), StageRows(ms, bound)
  PROVE  ClearingInv'
<1> DEFINE new == {m \in ms : Settled(m) = "new"} \ (Posted \cup DOMAIN pending)
<1>1. /\ Free /\ UNCHANGED <<hostVars, ledgerVars, seen, owned, run>> /\ approved' = Plan(ms, bound)
      /\ pending' = [s \in DOMAIN pending \cup new |->
                       IF s \in new THEN [fin |-> captured[s].fin, hold |-> FALSE] ELSE pending[s]]
  BY DEF StageRows, Free
<1>2. ms \subseteq DOMAIN captured /\ DOMAIN captured \subseteq Movements
  BY DEF Batches, ClearingInv, ClearingTypeOK, HostOK
<1>3. new \subseteq ms /\ \A s \in new : s \notin DOMAIN books
  BY DEF Posted
<1> HIDE DEF new
<1>4. PlanOK'
  BY <1>1, <1>2, PlanIsOK DEF hostVars, ClearingInv
<1>5. HostOK' /\ LedgerOK' /\ OnlyZeroWithoutEntry' /\ ReceiptsNamePosted'
  BY <1>1 DEF ClearingInv, ClearingTypeOK, HostOK, LedgerOK, OnlyZeroWithoutEntry, ReceiptsNamePosted,
              hostVars, ledgerVars
<1>6. ReviewOK'
  BY <1>1, <1>2, <1>3 DEF ClearingInv, ClearingTypeOK, HostOK, ReviewOK, Evidence, Rows, Sources
<1>7. EntriesAsSaved'
  BY <1>1, <1>3 DEF ClearingInv, EntriesAsSaved, ledgerVars
<1> QED BY <1>1, <1>4, <1>5, <1>6, <1>7, RestSettles DEF ClearingInv, ClearingTypeOK

\* A deposit comes with the bank feed.
LEMMA Arrives ==
  ASSUME ClearingInv, NEW d \in Deposits, BankArrives(d)
  PROVE  ClearingInv'
<1>1. /\ Free /\ UNCHANGED <<hostVars, ledgerVars, seen, owned, approved, run>> /\ d \notin DOMAIN books
      /\ pending' = [x \in DOMAIN pending \cup {d} |-> IF x = d THEN [fin |-> 1, hold |-> FALSE] ELSE pending[x]]
  BY PutAdds DEF BankArrives, Posted
<1>2. HostOK' /\ LedgerOK' /\ PlanOK' /\ OnlyZeroWithoutEntry' /\ ReceiptsNamePosted'
  BY <1>1 DEF ClearingInv, ClearingTypeOK, HostOK, LedgerOK, PlanOK, OnlyZeroWithoutEntry, ReceiptsNamePosted,
              hostVars, ledgerVars, Bindings, Free
<1>3. ReviewOK'
  BY <1>1 DEF ClearingInv, ClearingTypeOK, ReviewOK, Rows, Fins, Sources
<1>4. EntriesAsSaved'
  BY <1>1 DEF ClearingInv, EntriesAsSaved, ledgerVars
<1> QED BY <1>1, <1>2, <1>3, <1>4, RestSettles DEF ClearingInv, ClearingTypeOK

\* Rows leave, and the sources are seen, which have an entry.
LEMMA RowsLeave ==
  ASSUME ClearingInv, Free, UNCHANGED <<hostVars, ledgerVars, approved, run>>,
         NEW S \in SUBSET DOMAIN books, pending' = Without(pending, S),
         seen' = seen \cup S, owned' \subseteq owned
  PROVE  ClearingInv'
<1>1. ReviewOK' /\ \A s \in DOMAIN pending' : s \in DOMAIN pending /\ pending'[s] = pending[s]
  BY FewerRows DEF ClearingInv, ClearingTypeOK, LedgerOK, ReviewOK
<1>2. HostOK' /\ LedgerOK' /\ PlanOK' /\ OnlyZeroWithoutEntry' /\ ReceiptsNamePosted'
  BY DEF ClearingInv, ClearingTypeOK, HostOK, LedgerOK, PlanOK, OnlyZeroWithoutEntry, ReceiptsNamePosted,
         hostVars, ledgerVars, Bindings, Free
<1>3. EntriesAsSaved'
  BY <1>1 DEF ClearingInv, EntriesAsSaved, ledgerVars
<1> QED BY <1>1, <1>2, <1>3, RestSettles DEF ClearingInv, ClearingTypeOK

LEMMA InvoiceIssued ==
  ASSUME ClearingInv, IssueInvoice
  PROVE  ClearingInv'
BY RestSettles DEF IssueInvoice, ClearingInv, ClearingTypeOK, HostOK, LedgerOK, ReviewOK, PlanOK, EntriesAsSaved,
   OnlyZeroWithoutEntry, ReceiptsNamePosted, hostVars, reviewVars, Bindings, Free

\* Proposals come and go, and entries are reversed.
LEMMA OwnersChange ==
  ASSUME ClearingInv, NEW s \in Sources, Propose(s) \/ Withdraw(s) \/ Reverse(s)
  PROVE  ClearingInv'
<1>1. /\ Free /\ UNCHANGED <<hostVars, saved, claims, receipts, pending, seen, approved, run>>
      /\ owned' = owned \/ owned' = owned \cup {s} \/ owned' = owned \ {s}
      /\ books' = books \/ (s \in DOMAIN books /\ books' = [books EXCEPT ![s].live = FALSE])
  BY DEF Propose, Withdraw, Reverse, ledgerVars, reviewVars, Live
<1>2. /\ LedgerOK' /\ DOMAIN books' = DOMAIN books
      /\ \A x \in DOMAIN books : books'[x].fin = books[x].fin
  <2>1. books \in [DOMAIN books -> Entries]
    BY DEF ClearingInv, ClearingTypeOK, LedgerOK
  <2>2. \A x \in DOMAIN books : [books[x] EXCEPT !.live = FALSE] \in Entries
                                /\ [books[x] EXCEPT !.live = FALSE].fin = books[x].fin
    BY <2>1 DEF Entries
  <2>3. ASSUME s \in DOMAIN books, books' = [books EXCEPT ![s].live = FALSE]
        PROVE  books' = [books EXCEPT ![s] = [books[s] EXCEPT !.live = FALSE]]
    BY <2>3
  <2>4. /\ DOMAIN books' = DOMAIN books /\ books' \in [DOMAIN books -> Entries]
        /\ \A x \in DOMAIN books : books'[x].fin = books[x].fin
    BY <1>1, <2>1, <2>2, <2>3
  <2> QED BY <1>1, <2>4 DEF ClearingInv, ClearingTypeOK, LedgerOK
<1>3. HostOK' /\ PlanOK' /\ ReviewOK'
  BY <1>1 DEF ClearingInv, ClearingTypeOK, HostOK, PlanOK, ReviewOK, hostVars, Bindings, Free
<1>4. EntriesAsSaved' /\ OnlyZeroWithoutEntry' /\ ReceiptsNamePosted'
  BY <1>1, <1>2 DEF ClearingInv, EntriesAsSaved, OnlyZeroWithoutEntry, ReceiptsNamePosted
<1> QED BY <1>1, <1>2, <1>3, <1>4, RestSettles DEF ClearingInv, ClearingTypeOK

\* An owner's command adds an entry with its source, and the row leaves, at once or after a stop.
LEMMA EntryAdded ==
  ASSUME ClearingInv, Free, NEW s \in Sources \ DOMAIN books, NEW e \in Entries,
         UNCHANGED <<hostVars, receipts, approved, run>>,
         DOMAIN claims' \subseteq Movements,
         books' = Put(books, s, e), saved' = Put(saved, s, [fin |-> e.fin, effect |-> "none"]),
         \/ pending' = Without(pending, {s}) /\ seen' = seen \cup {s} /\ owned' = owned \ {s}
         \/ UNCHANGED reviewVars /\ s \in DOMAIN pending /\ pending[s].fin = e.fin
  PROVE  ClearingInv'
<1>1. /\ books' = [x \in DOMAIN books \cup {s} |-> IF x = s THEN e ELSE books[x]]
      /\ saved' = [x \in DOMAIN saved \cup {s} |-> IF x = s THEN [fin |-> e.fin, effect |-> "none"] ELSE saved[x]]
  BY PutAdds
<1>2. LedgerOK'
  <2>1. /\ DOMAIN books \subseteq Sources /\ books \in [DOMAIN books -> Entries]
        /\ DOMAIN saved \subseteq Sources /\ saved \in [DOMAIN saved -> SavedRows]
    BY DEF ClearingInv, ClearingTypeOK, LedgerOK
  <2>2. [fin |-> e.fin, effect |-> "none"] \in SavedRows
    BY DEF SavedRows, Entries
  <2> QED BY <1>1, <2>1, <2>2 DEF LedgerOK
<1>3. ReviewOK' /\ \A x \in DOMAIN pending' : x \in DOMAIN pending /\ pending'[x] = pending[x]
  BY FewerRows DEF ClearingInv, ClearingTypeOK, ReviewOK, reviewVars
<1>4. HostOK' /\ PlanOK'
  BY DEF ClearingInv, ClearingTypeOK, HostOK, PlanOK, hostVars, Bindings, Free
<1>5. EntriesAsSaved'
  <2> SUFFICES ASSUME NEW x \in DOMAIN books'
               PROVE  /\ x \in DOMAIN saved' /\ saved'[x].fin = books'[x].fin
                      /\ x \in DOMAIN pending' => pending'[x].fin = books'[x].fin
    BY DEF EntriesAsSaved
  <2>1. CASE x = s
    BY <1>1, <2>1 DEF Without, reviewVars
  <2>2. CASE x # s
    BY <1>1, <1>3, <2>2 DEF ClearingInv, EntriesAsSaved
  <2> QED BY <2>1, <2>2
<1>6. OnlyZeroWithoutEntry'
  BY <1>1 DEF ClearingInv, OnlyZeroWithoutEntry, reviewVars
<1>7. ReceiptsNamePosted'
  BY <1>1 DEF ClearingInv, ReceiptsNamePosted
<1> QED BY <1>2, <1>3, <1>4, <1>5, <1>6, <1>7, RestSettles DEF ClearingInv, ClearingTypeOK

LEMMA Confirms ==
  ASSUME ClearingInv, NEW s \in Sources, Confirm(s)
  PROVE  ClearingInv'
<1> DEFINE e == [by |-> "owner", fin |-> pending[s].fin, policy |-> NoPolicy, pays |-> 0, live |-> TRUE]
<1>1. pending[s].fin \in Fins /\ s \in DOMAIN pending
  BY DEF Confirm, ClearingInv, ClearingTypeOK, ReviewOK, Rows
<1>2. e \in Entries /\ e.fin = pending[s].fin
  BY <1>1 DEF Entries, Policies, NoPolicy
<1>3. /\ books' = Put(books, s, e) /\ saved' = Put(saved, s, [fin |-> e.fin, effect |-> "none"])
      /\ Free /\ UNCHANGED <<hostVars, claims, receipts, approved, run>> /\ s \notin DOMAIN books
      /\ \/ pending' = Without(pending, {s}) /\ seen' = seen \cup {s} /\ owned' = owned \ {s}
         \/ UNCHANGED reviewVars
  BY DEF Confirm
<1>4. DOMAIN claims' \subseteq Movements
  BY <1>3 DEF ClearingInv, ClearingTypeOK, LedgerOK
<1> HIDE DEF e
<1> QED BY <1>1, <1>2, <1>3, <1>4, EntryAdded

\* Finishing a confirm, and dismissing a held row.
LEMMA Finishes ==
  ASSUME ClearingInv, NEW s \in Sources, ConfirmAgain(s) \/ Dismiss(s)
  PROVE  ClearingInv'
<1>1. /\ Free /\ UNCHANGED <<hostVars, ledgerVars, approved, run>> /\ {s} \subseteq DOMAIN books
      /\ pending' = Without(pending, {s}) /\ seen' = seen \cup {s} /\ owned' \subseteq owned
  BY DEF ConfirmAgain, Dismiss, Live
<1> QED BY <1>1, RowsLeave

\* An invoice import takes a charge that has an entry, or gives it one.
LEMMA PaymentImported ==
  ASSUME ClearingInv, NEW m \in Movements, ImportPayment(m)
  PROVE  ClearingInv'
<1>1. /\ Free /\ UNCHANGED <<hostVars, receipts, approved, run>> /\ m \in DOMAIN captured
      /\ claims' = Put(claims, m, captured[m].fin)
      /\ pending' = Without(pending, {m}) /\ seen' = seen \cup {m} /\ owned' = owned \ {m}
  BY DEF ImportPayment
<1>2. DOMAIN claims' \subseteq Movements
  BY <1>1, PutAdds DEF ClearingInv, ClearingTypeOK, LedgerOK
<1>3. CASE m \in DOMAIN books
  <2>1. UNCHANGED <<books, saved>>
    BY <1>3 DEF ImportPayment
  <2>2. ReviewOK' /\ \A s \in DOMAIN pending' : s \in DOMAIN pending /\ pending'[s] = pending[s]
    BY <1>1, FewerRows DEF ClearingInv, ClearingTypeOK, ReviewOK, Sources
  <2>3. HostOK' /\ LedgerOK' /\ PlanOK'
    BY <1>1, <1>2, <2>1 DEF ClearingInv, ClearingTypeOK, HostOK, LedgerOK, PlanOK, hostVars, Bindings, Free
  <2>4. EntriesAsSaved' /\ OnlyZeroWithoutEntry' /\ ReceiptsNamePosted'
    BY <1>1, <1>3, <2>1, <2>2 DEF ClearingInv, EntriesAsSaved, OnlyZeroWithoutEntry, ReceiptsNamePosted
  <2> QED BY <1>1, <2>2, <2>3, <2>4, RestSettles DEF ClearingInv, ClearingTypeOK
<1>4. CASE m \notin DOMAIN books
  <2> DEFINE e == [by |-> "invoice", fin |-> captured[m].fin, policy |-> NoPolicy, pays |-> 0, live |-> TRUE]
  <2>1. captured[m].fin \in Fins
    BY <1>1 DEF ClearingInv, ClearingTypeOK, HostOK, Evidence
  <2>2. e \in Entries
    BY <2>1 DEF Entries, Policies, NoPolicy
  <2>3. books' = Put(books, m, e) /\ saved' = Put(saved, m, [fin |-> e.fin, effect |-> "none"])
    BY <1>4 DEF ImportPayment
  <2>4. m \in Sources \ DOMAIN books
    BY <1>4 DEF Sources
  <2> HIDE DEF e
  <2> QED BY <1>1, <1>2, <2>2, <2>3, <2>4, EntryAdded
<1> QED BY <1>3, <1>4

-----------------------------------------------------------------------------
(* Steps of an apply *)

\* A row whose posting is proven has an entry of an apply, from the evidence that the plan has.
LEMMA ProvenSettles ==
  ASSUME ReceiptsNamePosted, NEW s, Proven(s)
  PROVE  Settles(s)
<1>1. CASE ReceiptsOf(s) = {}
  BY <1>1 DEF Proven, PostedBefore, Settles
<1>2. CASE ReceiptsOf(s) # {}
  <2>1. PICK r \in ReceiptsOf(s) : TRUE
    BY <1>2
  <2>2. \A x \in ReceiptsOf(s) : Exact(s, x)
    BY <1>2 DEF Proven
  <2>3. s \in DOMAIN books /\ Fact(books[s]) = r.sources[s].entry
    BY <2>2, <2>1 DEF Exact
  <2>4. r.sources[s].entry.by = "stripe"
    BY <2>1 DEF ReceiptsOf, ReceiptsNamePosted
  <2>5. Fact(books[s]).by = books[s].by
    BY DEF Fact
  <2>6. \A x \in ReceiptsOf(s) : x.sources[s].capture = approved.captures[s]
    BY <2>2 DEF Exact
  <2> QED BY <2>3, <2>4, <2>5, <2>6 DEF Settles
<1> QED BY <1>1, <1>2

\* The apply starts: rows whose posting is not proven are held.
LEMMA Starts ==
  ASSUME ClearingInv, StartApply
  PROVE  ClearingInv'
<1>1. /\ Free /\ ~approved.none /\ Again = approved /\ Staged(approved)
      /\ run' = [step |-> "commit", recovered |-> {s \in Unfinished : Proven(s)}]
      /\ pending' = [s \in DOMAIN pending |->
                       IF s \in Unfinished /\ ~Proven(s) THEN [pending[s] EXCEPT !.hold = TRUE] ELSE pending[s]]
      /\ UNCHANGED <<opened, mapping, policy, captured, books, saved, claims, invoice, receipts, seen, owned, approved>>
  BY DEF StartApply, Current, hostVars, ledgerVars
<1>2. PlanHolds /\ NothingToPost
  BY <1>1, PlanStillHolds
<1>3. /\ DOMAIN pending' = DOMAIN pending /\ pending' \in [DOMAIN pending -> Rows]
      /\ \A s \in DOMAIN pending : pending'[s].fin = pending[s].fin
  <2>1. pending \in [DOMAIN pending -> Rows]
    BY DEF ClearingInv, ClearingTypeOK, ReviewOK
  <2>2. \A s \in DOMAIN pending : /\ [pending[s] EXCEPT !.hold = TRUE] \in Rows
                                  /\ [pending[s] EXCEPT !.hold = TRUE].fin = pending[s].fin
    BY <2>1 DEF Rows
  <2> QED BY <1>1, <2>1, <2>2
<1>4. HostOK' /\ LedgerOK' /\ OnlyZeroWithoutEntry' /\ ReceiptsNamePosted'
  BY <1>1 DEF ClearingInv, ClearingTypeOK, HostOK, LedgerOK, OnlyZeroWithoutEntry, ReceiptsNamePosted
<1>5. ReviewOK'
  BY <1>1, <1>3 DEF ClearingInv, ClearingTypeOK, ReviewOK
<1>6. EntriesAsSaved'
  BY <1>1, <1>3 DEF ClearingInv, EntriesAsSaved
<1>7. PlanOK'
  <2>1. run' \in Runs
    BY <1>1 DEF Runs, Unfinished, ClearingInv, ClearingTypeOK, ReviewOK
  <2> QED BY <1>1, <2>1 DEF ClearingInv, ClearingTypeOK, PlanOK, Bindings, Free
<1>8. RunSettles'
  <2>1. run'.step = "commit" /\ \A s \in run'.recovered : Proven(s)
    BY <1>1
  <2>2. \A s \in run'.recovered : Settles(s)
    BY <2>1, ProvenSettles DEF ClearingInv
  <2>3. \A s : Settles(s)' = Settles(s) /\ EffectSaved(s)' = EffectSaved(s)
    BY <1>1 DEF Settles, ReceiptsOf, EffectSaved
  <2>4. NothingToPost'
    BY <1>1, <1>2, <2>3 DEF NothingToPost
  <2>5. ArrivesOnce'
    BY <1>1, <1>2 DEF PlanHolds, ArrivesOnce, AlreadyApplied, Posted, Reversed, Live
  <2>6. \A s \in approved'.actions : Fin(s)' = pending'[s].fin
    BY <1>1, <1>2, <1>3 DEF PlanHolds, Fin
  <2>7. PlanHolds'
    BY <1>1, <1>2, <1>3, <2>5, <2>6 DEF PlanHolds, Posted, Pays
  <2> QED BY <2>1, <2>2, <2>3, <2>4, <2>7 DEF RunSettles
<1> QED BY <1>4, <1>5, <1>6, <1>7, <1>8 DEF ClearingInv, ClearingTypeOK

\* What the commit writes.
LEMMA CommitWrites ==
  ASSUME ClearingInv, Commit
  PROVE  /\ PlanHolds /\ NothingToPost
         /\ books' = [s \in approved.actions \cup DOMAIN books |-> IF s \in approved.actions THEN Entry(s) ELSE books[s]]
         /\ saved' = [s \in approved.actions \cup DOMAIN saved |->
                        IF s \in approved.actions THEN [fin |-> Fin(s), effect |-> "none"] ELSE saved[s]]
         /\ \A s \in approved.actions : s \notin DOMAIN books /\ Entry(s) \in Entries
         /\ UNCHANGED <<opened, mapping, policy, captured, claims, invoice, pending, seen, owned, approved>>
         /\ run' = [run EXCEPT !.step = "effects"] /\ run.step = "commit" /\ run \in Runs /\ ~approved.none
<1>1. run.step = "commit" /\ run \in Runs /\ ~approved.none
  BY DEF Commit, ClearingInv, ClearingTypeOK, PlanOK, Free, NoRun
<1>2. PlanHolds /\ NothingToPost
  BY <1>1 DEF ClearingInv, RunSettles
<1>3. \A s \in approved.actions : s \notin DOMAIN books /\ Entry(s) \in Entries
  <2> SUFFICES ASSUME NEW s \in approved.actions
               PROVE  s \notin DOMAIN books /\ Entry(s) \in Entries
    OBVIOUS
  <2>1. Fin(s) \in Fins
    BY <1>2 DEF PlanHolds, ClearingInv, ClearingTypeOK, ReviewOK, Rows
  <2>2. Pays(s) \in Movements \cup {0}
    BY <1>2 DEF PlanHolds, Pays
  <2>3. approved.policy \in Policies
    BY <1>1 DEF ClearingInv, ClearingTypeOK, PlanOK
  <2> QED BY <1>2, <2>1, <2>2, <2>3 DEF PlanHolds, Posted, Entry, Entries
<1> QED BY <1>1, <1>2, <1>3 DEF Commit, Over, hostVars, reviewVars

\* The commit adds the entries, their sources and the receipt.
LEMMA Commits ==
  ASSUME ClearingInv, Commit
  PROVE  ClearingInv'
<1> DEFINE A == approved.actions
<1>1. /\ PlanHolds /\ NothingToPost
      /\ books' = [s \in A \cup DOMAIN books |-> IF s \in A THEN Entry(s) ELSE books[s]]
      /\ saved' = [s \in A \cup DOMAIN saved |-> IF s \in A THEN [fin |-> Fin(s), effect |-> "none"] ELSE saved[s]]
      /\ \A s \in A : s \notin DOMAIN books /\ Entry(s) \in Entries
      /\ UNCHANGED <<opened, mapping, policy, captured, claims, invoice, pending, seen, owned, approved>>
      /\ run' = [run EXCEPT !.step = "effects"] /\ run.step = "commit" /\ run \in Runs /\ ~approved.none
  BY CommitWrites
<1>2. \A s : Entry(s).fin = Fin(s) /\ Entry(s).by = "stripe"
  BY DEF Entry
<1>3. A \subseteq Sources /\ run' \in Runs /\ run'.step = "effects" /\ run'.recovered = run.recovered
  BY <1>1 DEF ClearingInv, ClearingTypeOK, PlanOK, Runs
<1>4. HostOK' /\ ReviewOK' /\ PlanOK'
  BY <1>1, <1>3 DEF ClearingInv, ClearingTypeOK, HostOK, ReviewOK, PlanOK, Bindings, Free
<1>5. LedgerOK'
  <2>1. /\ DOMAIN books \subseteq Sources /\ books \in [DOMAIN books -> Entries]
        /\ DOMAIN saved \subseteq Sources /\ saved \in [DOMAIN saved -> SavedRows]
        /\ DOMAIN claims \subseteq Movements
    BY DEF ClearingInv, ClearingTypeOK, LedgerOK
  <2>2. \A s \in A : [fin |-> Fin(s), effect |-> "none"] \in SavedRows
    BY <1>1, <1>2 DEF SavedRows, Entries
  <2> HIDE DEF A
  <2> QED BY <1>1, <1>3, <2>1, <2>2 DEF LedgerOK
<1>6. EntriesAsSaved'
  <2> SUFFICES ASSUME NEW s \in DOMAIN books'
               PROVE  /\ s \in DOMAIN saved' /\ saved'[s].fin = books'[s].fin
                      /\ s \in DOMAIN pending' => pending'[s].fin = books'[s].fin
    BY DEF EntriesAsSaved
  <2>1. CASE s \in A
    BY <1>1, <1>2, <2>1 DEF PlanHolds
  <2>2. CASE s \notin A
    BY <1>1, <2>2 DEF ClearingInv, EntriesAsSaved
  <2> QED BY <2>1, <2>2
<1>7. OnlyZeroWithoutEntry'
  <2>1. \A s \in DOMAIN saved' : saved'[s].effect # "none" => s \in DOMAIN saved /\ saved'[s] = saved[s]
    BY <1>1
  <2>2. DOMAIN books \subseteq DOMAIN books'
    BY <1>1
  <2> QED BY <1>1, <2>1, <2>2 DEF ClearingInv, OnlyZeroWithoutEntry
<1>8. /\ \A s \in A : Receipt.sources[s].entry.by = "stripe" /\ Receipt.sources[s].capture = approved.captures[s]
      /\ DOMAIN Receipt.sources = A
      /\ receipts' \subseteq receipts \cup {Receipt}
  BY DEF Receipt, Fact, Entry, Commit
<1> HIDE DEF A
<1>9. ReceiptsNamePosted'
  BY <1>1, <1>8 DEF ClearingInv, ReceiptsNamePosted
<1>10. \A s \in A : Settles(s)'
  <2> SUFFICES ASSUME NEW s \in A
               PROVE  Settles(s)'
    OBVIOUS
  <2>1. s \in DOMAIN books' /\ books'[s].by = "stripe"
    BY <1>1, <1>2
  <2>2. \A r \in receipts : s \notin DOMAIN r.sources
    BY <1>1 DEF ClearingInv, ReceiptsNamePosted
  <2>3. \A r \in ReceiptsOf(s)' : r = Receipt
    BY <1>8, <2>2 DEF ReceiptsOf
  <2> QED BY <1>1, <1>8, <2>1, <2>3 DEF Settles
<1>11. \A s \in run.recovered : Settles(s)'
  <2> SUFFICES ASSUME NEW s \in run.recovered
               PROVE  Settles(s)'
    OBVIOUS
  <2>1. Settles(s)
    BY <1>1 DEF ClearingInv, RunSettles, Free
  <2>2. s \notin A /\ s \in DOMAIN books' /\ books'[s] = books[s]
    BY <1>1, <2>1 DEF Settles
  <2>3. \A r \in ReceiptsOf(s)' : r \in ReceiptsOf(s)
    BY <1>1, <1>8, <2>2 DEF ReceiptsOf
  <2> QED BY <1>1, <2>1, <2>2, <2>3 DEF Settles
<1>12. NothingToPost'
  <2> SUFFICES ASSUME NEW m \in approved.movements
               PROVE  /\ approved.verdict[m] = "no_effect" => KindOf[m] = "zero" /\ m \notin DOMAIN books' \cup A
                      /\ approved.verdict[m] = "recorded" => m \notin A /\ EffectSaved(m)'
    BY <1>1 DEF NothingToPost, A
  <2>1. approved.verdict[m] = "no_effect" => KindOf[m] = "zero" /\ m \notin DOMAIN books \cup A
    BY <1>1 DEF NothingToPost, A
  <2>2. ASSUME approved.verdict[m] = "recorded"
        PROVE  m \notin A /\ EffectSaved(m)'
    <3>1. m \notin A /\ EffectSaved(m)
      BY <1>1, <2>2 DEF NothingToPost, A
    <3> QED BY <1>1, <3>1 DEF EffectSaved
  <2> QED BY <1>1, <2>1, <2>2
<1>13. RunSettles'
  BY <1>1, <1>3, <1>10, <1>11, <1>12 DEF RunSettles, A
<1> QED BY <1>4, <1>5, <1>6, <1>7, <1>9, <1>13 DEF ClearingInv, ClearingTypeOK

\* What holds of the run when only it, the saved sources or the seen ids change.
LEMMA RunGoesOn ==
  ASSUME ClearingInv, UNCHANGED <<hostVars, books, claims, invoice, receipts, owned, approved>>
  PROVE  /\ HostOK' /\ (LedgerOK' <=> (DOMAIN saved' \subseteq Sources /\ saved' \in [DOMAIN saved' -> SavedRows]))
         /\ ReceiptsNamePosted' /\ \A s : Settles(s)' = Settles(s)
         /\ ((run' \in Runs /\ ~approved.none) \/ run' = NoRun) => PlanOK'
<1>1. HostOK' /\ ReceiptsNamePosted' /\ \A s : Settles(s)' = Settles(s)
  BY DEF ClearingInv, ClearingTypeOK, HostOK, ReceiptsNamePosted, Settles, ReceiptsOf, hostVars
<1>2. LedgerOK' <=> (DOMAIN saved' \subseteq Sources /\ saved' \in [DOMAIN saved' -> SavedRows])
  BY DEF ClearingInv, ClearingTypeOK, LedgerOK
<1>3. ((run' \in Runs /\ ~approved.none) \/ run' = NoRun) => PlanOK'
  BY DEF ClearingInv, ClearingTypeOK, PlanOK, Bindings, Free, hostVars, NoRun
<1> QED BY <1>1, <1>2, <1>3

\* Payouts of nothing are recorded.
LEMMA Records ==
  ASSUME ClearingInv, RecordEffects
  PROVE  ClearingInv'
<1> DEFINE W == WithoutEffect
<1>1. /\ run.step = "effects" /\ run \in Runs /\ ~approved.none /\ run' = [run EXCEPT !.step = "seen"]
      /\ UNCHANGED <<opened, mapping, policy, captured, books, claims, invoice, receipts, pending, seen, owned, approved>>
      /\ saved' = [m \in W \cup DOMAIN saved |->
                     IF m \in W THEN [fin |-> captured[m].fin, effect |-> captured[m].graph] ELSE saved[m]]
  BY DEF RecordEffects, Over, hostVars, reviewVars, ClearingInv, ClearingTypeOK, PlanOK, Free, NoRun
<1>2. NothingToPost
  BY <1>1 DEF ClearingInv, RunSettles
<1>3. \A m \in W : m \in Movements /\ KindOf[m] = "zero" /\ m \notin DOMAIN books
  BY <1>1, <1>2 DEF WithoutEffect, NothingToPost, ClearingInv, ClearingTypeOK, HostOK, PlanOK
<1>4. \A m \in W : /\ [fin |-> captured[m].fin, effect |-> captured[m].graph] \in SavedRows
                   /\ captured[m].graph # "none"
  <2>1. \A m \in W : captured[m] \in Evidence
    BY <1>1 DEF WithoutEffect, ClearingInv, ClearingTypeOK, HostOK, PlanOK
  <2> QED BY <2>1 DEF Evidence, SavedRows, Graphs
<1>5. \A m \in approved.movements :
        approved.verdict[m] \in {"no_effect", "recorded"} => m \in W \/ EffectSaved(m)
  BY <1>2 DEF NothingToPost, WithoutEffect
<1> HIDE DEF W
<1>6. run' \in Runs /\ run'.step = "seen" /\ run'.recovered = run.recovered
  BY <1>1 DEF Runs
<1>7. HostOK' /\ PlanOK' /\ LedgerOK' /\ ReceiptsNamePosted' /\ \A s : Settles(s)' = Settles(s)
  <2>1. DOMAIN saved' \subseteq Sources /\ saved' \in [DOMAIN saved' -> SavedRows]
    BY <1>1, <1>3, <1>4 DEF ClearingInv, ClearingTypeOK, LedgerOK, Sources
  <2> QED BY <1>1, <1>6, <2>1, RunGoesOn DEF hostVars
<1>8. ReviewOK'
  BY <1>1 DEF ClearingInv, ClearingTypeOK, ReviewOK
<1>9. EntriesAsSaved'
  BY <1>1, <1>3 DEF ClearingInv, EntriesAsSaved
<1>10. OnlyZeroWithoutEntry'
  BY <1>1, <1>3 DEF ClearingInv, OnlyZeroWithoutEntry
<1>11. \A m \in approved.movements : approved.verdict[m] \in {"no_effect", "recorded"} => EffectSaved(m)'
  BY <1>1, <1>4, <1>5 DEF EffectSaved
<1>12. RunSettles'
  BY <1>1, <1>6, <1>7, <1>11 DEF ClearingInv, RunSettles, Free
<1> QED BY <1>7, <1>8, <1>9, <1>10, <1>12 DEF ClearingInv, ClearingTypeOK

\* The sources are seen, the rows go, or the apply stops.
LEMMA Cleans ==
  ASSUME ClearingInv, MarkSeen \/ RemoveRows \/ ApplyStops
  PROVE  ClearingInv'
<1>1. /\ UNCHANGED <<hostVars, books, claims, invoice, receipts, owned, saved>> /\ ~approved.none
      /\ approved' = approved \/ (approved' = NoPlan /\ run' = NoRun)
      /\ run' = NoRun \/ (run' = [run EXCEPT !.step = "remove"] /\ approved' = approved)
  BY DEF MarkSeen, RemoveRows, ApplyStops, hostVars, ledgerVars, reviewVars, ClearingInv, ClearingTypeOK, PlanOK, Free
<1>2. /\ ~Free /\ run \in Runs
      /\ run.step \in {"seen", "remove"} =>
           \A s \in Handled : s \in Sources /\ (s \in DOMAIN books \/ (s \in Movements /\ KindOf[s] = "zero"))
  <2>1. ~Free /\ run \in Runs
    BY DEF MarkSeen, RemoveRows, ApplyStops, Free, ClearingInv, ClearingTypeOK, PlanOK, NoRun
  <2>2. ASSUME run.step \in {"seen", "remove"}, NEW s \in Handled
        PROVE  s \in Sources /\ (s \in DOMAIN books \/ (s \in Movements /\ KindOf[s] = "zero"))
    <3>1. CASE s \in run.recovered \cup approved.actions
      BY <2>1, <2>2, <3>1 DEF ClearingInv, RunSettles, Settles, ClearingTypeOK, LedgerOK
    <3>2. CASE s \notin run.recovered \cup approved.actions
      BY <2>1, <2>2, <3>2 DEF Handled, ClearingInv, RunSettles, EffectSaved, OnlyZeroWithoutEntry, Sources
    <3> QED BY <3>1, <3>2
  <2> QED BY <2>1, <2>2
<1>3. /\ ReviewOK' /\ \A s \in DOMAIN pending' : s \in DOMAIN pending /\ pending'[s] = pending[s]
      /\ seen' = seen \/ (run.step = "seen" /\ seen' = seen \cup Handled)
  <2>1. CASE RemoveRows
    <3>1. pending' = Without(pending, Handled) /\ seen' = seen /\ owned' = owned
      BY <2>1 DEF RemoveRows
    <3> QED BY <3>1, FewerRows DEF ClearingInv, ClearingTypeOK, ReviewOK
  <2>2. CASE MarkSeen \/ ApplyStops
    BY <1>2, <2>2 DEF MarkSeen, ApplyStops, reviewVars, ClearingInv, ClearingTypeOK, ReviewOK
  <2> QED BY <2>1, <2>2
<1>4. HostOK' /\ LedgerOK' /\ ReceiptsNamePosted'
  BY <1>1 DEF ClearingInv, ClearingTypeOK, HostOK, LedgerOK, ReceiptsNamePosted, hostVars
<1>5. EntriesAsSaved'
  BY <1>1, <1>3 DEF ClearingInv, EntriesAsSaved
<1>6. OnlyZeroWithoutEntry'
  BY <1>1, <1>2, <1>3 DEF ClearingInv, OnlyZeroWithoutEntry
<1>7. CASE run' = NoRun
  <2>1. PlanOK'
    BY <1>1, <1>7 DEF ClearingInv, ClearingTypeOK, PlanOK, Free, NoRun, NoPlan, Bindings, hostVars
  <2>2. RunSettles'
    BY <1>7 DEF RunSettles, Free, NoRun
  <2> QED BY <1>3, <1>4, <1>5, <1>6, <2>1, <2>2 DEF ClearingInv, ClearingTypeOK
<1>8. CASE run' # NoRun
  <2>1. run.step = "seen" /\ UNCHANGED pending
    BY <1>8 DEF MarkSeen, RemoveRows, ApplyStops
  <2>2. run' \in Runs /\ run'.step = "remove" /\ run'.recovered = run.recovered /\ approved' = approved
    BY <1>1, <1>2, <1>8 DEF Runs
  <2>3. PlanOK' /\ \A s : Settles(s)' = Settles(s)
    BY <1>1, <2>2, RunGoesOn
  <2>4. \A s : EffectSaved(s)' = EffectSaved(s)
    BY <1>1 DEF EffectSaved
  <2>5. RunSettles'
    BY <1>2, <2>1, <2>2, <2>3, <2>4 DEF ClearingInv, RunSettles, Free
  <2> QED BY <1>3, <1>4, <1>5, <1>6, <2>3, <2>5 DEF ClearingInv, ClearingTypeOK
<1> QED BY <1>7, <1>8

-----------------------------------------------------------------------------
LEMMA ClearingStart == ClearingInit => ClearingInv
<1> SUFFICES ASSUME NEW old \in SUBSET Older, NewBooks(old)
             PROVE  ClearingInv
  BY DEF ClearingInit
<1>1. old \subseteq Movements
  BY ClearingAssumption
<1>2. policy = [version |-> 1, enabled |-> TRUE] /\ policy \in Policies
  BY DEF NewBooks, Policies
<1>3. HostOK
  BY <1>1, <1>2 DEF HostOK, NewBooks, Evidence, Fins, Graphs
<1>4. LedgerOK
  <2>1. [by |-> "stripe", fin |-> 1, policy |-> policy, pays |-> 0, live |-> TRUE] \in Entries
    BY <1>2 DEF Entries, Fins
  <2> QED BY <1>1, <2>1 DEF LedgerOK, NewBooks, SavedRows, Fins, Sources
<1>5. ReviewOK /\ PlanOK
  BY <1>1 DEF ReviewOK, PlanOK, NewBooks, Rows, Fins, Sources, NoRun, NoPlan, Free
<1>6. EntriesAsSaved /\ OnlyZeroWithoutEntry /\ ReceiptsNamePosted
  BY DEF EntriesAsSaved, OnlyZeroWithoutEntry, ReceiptsNamePosted, NewBooks
<1>7. RunSettles
  BY DEF RunSettles, NewBooks, NoRun, Free
<1> QED BY <1>3, <1>4, <1>5, <1>6, <1>7 DEF ClearingInv, ClearingTypeOK

-----------------------------------------------------------------------------
(* THEOREMS *)

LEMMA ClearingStep == ClearingInv /\ [ClearingNext]_clearingVars => ClearingInv'
<1> SUFFICES ASSUME ClearingInv, [ClearingNext]_clearingVars
             PROVE  ClearingInv'
  OBVIOUS
<1>1. CASE Prepare \/ UNCHANGED clearingVars
  BY <1>1, Prepares
<1>2. CASE Configure \/ MoveMapping \/ ChangePolicy
  BY <1>2, HostChanges
<1>3. ASSUME NEW m \in Movements, Capture(m) \/ Recapture(m)
      PROVE  ClearingInv'
  BY <1>3, Captures
<1>4. ASSUME NEW m \in Movements, ImportPayment(m)
      PROVE  ClearingInv'
  BY <1>4, PaymentImported
<1>5. ASSUME NEW d \in Deposits, BankArrives(d)
      PROVE  ClearingInv'
  BY <1>5, Arrives
<1>6. ASSUME NEW ms \in Batches, NEW bound \in Bindings(ms), StageRows(ms, bound)
      PROVE  ClearingInv'
  BY <1>6, Stages
<1>7. CASE StartApply
  BY <1>7, Starts
<1>8. CASE Commit
  BY <1>8, Commits
<1>9. CASE RecordEffects
  BY <1>9, Records
<1>10. CASE MarkSeen \/ RemoveRows \/ ApplyStops
  BY <1>10, Cleans
<1>11. ASSUME NEW s \in Sources, Dismiss(s) \/ ConfirmAgain(s)
       PROVE  ClearingInv'
  BY <1>11, Finishes
<1>12. ASSUME NEW s \in Sources, Propose(s) \/ Withdraw(s) \/ Reverse(s)
       PROVE  ClearingInv'
  BY <1>12, OwnersChange
<1>13. ASSUME NEW s \in Sources, Confirm(s)
       PROVE  ClearingInv'
  BY <1>13, Confirms
<1>14. CASE IssueInvoice
  BY <1>14, InvoiceIssued
<1> QED BY <1>1, <1>2, <1>3, <1>4, <1>5, <1>6, <1>7, <1>8, <1>9, <1>10, <1>11, <1>12, <1>13, <1>14
        DEF ClearingNext

\* A row that an apply removes was posted by an apply, from the evidence that the books go by, or is a
\* payout of nothing that is recorded.
LEMMA LeavesSettled ==
  ASSUME ClearingInv, [ClearingNext]_clearingVars, NEW s \in DOMAIN pending \ DOMAIN pending'
  PROVE  LeavesBooked(s)
<1>1. CASE RemoveRows
  <2>1. /\ run.step = "remove" /\ ~Free /\ s \in Handled
        /\ UNCHANGED <<books, saved, receipts, captured, policy, claims>>
    BY <1>1 DEF RemoveRows, Without, Free, hostVars, ledgerVars
  <2>2. CASE s \in run.recovered \cup approved.actions
    <3>1. Settles(s)
      BY <2>1, <2>2 DEF ClearingInv, RunSettles
    <3>2. books[s].fin = pending[s].fin
      BY <3>1 DEF Settles, ClearingInv, EntriesAsSaved
    <3> QED BY <2>1, <3>1, <3>2 DEF LeavesBooked, Settles
  <2>3. CASE s \notin run.recovered \cup approved.actions
    <3>1. EffectSaved(s)
      BY <2>1, <2>3 DEF Handled, ClearingInv, RunSettles
    <3> QED BY <2>1, <3>1 DEF EffectSaved, LeavesBooked
  <2> QED BY <2>2, <2>3
<1>2. ASSUME NEW x \in Sources, Dismiss(x)
      PROVE  LeavesBooked(s)
  BY <1>2 DEF Dismiss, Without, LeavesBooked
<1>3. ASSUME NEW x \in Sources, Confirm(x)
      PROVE  LeavesBooked(s)
  <2>1. s = x
    BY <1>3 DEF Confirm, Without, reviewVars
  <2>2. books'[x].fin = pending[x].fin /\ x \in DOMAIN books' /\ Free
    BY <1>3 DEF Confirm, Put, Over
  <2> QED BY <2>1, <2>2 DEF LeavesBooked
<1>4. ASSUME NEW x \in Sources, ConfirmAgain(x)
      PROVE  LeavesBooked(s)
  <2>1. s = x /\ Free /\ x \in DOMAIN books /\ books' = books
    BY <1>4 DEF ConfirmAgain, Without, ledgerVars
  <2> QED BY <2>1 DEF LeavesBooked, ClearingInv, EntriesAsSaved
<1>5. ASSUME NEW m \in Movements, ImportPayment(m)
      PROVE  LeavesBooked(s)
  <2>1. s = m /\ m \in DOMAIN claims'
    BY <1>5 DEF ImportPayment, Without, Put, Over
  <2> QED BY <2>1 DEF LeavesBooked
<1>6. CASE Commit \/ StartApply \/ Prepare \/ UNCHANGED clearingVars
  BY <1>6 DEF Commit, StartApply, Prepare, reviewVars, clearingVars
<1>7. ASSUME NEW d \in Deposits, BankArrives(d)
      PROVE  LeavesBooked(s)
  BY <1>7, PutAdds DEF BankArrives
<1>8. ASSUME NEW ms \in Batches, NEW bound \in Bindings(ms), StageRows(ms, bound)
      PROVE  LeavesBooked(s)
  BY <1>8 DEF StageRows
<1>9. CASE Configure \/ MoveMapping \/ ChangePolicy \/ RecordEffects \/ MarkSeen \/ ApplyStops \/ IssueInvoice
  BY <1>9 DEF Configure, MoveMapping, ChangePolicy, RecordEffects, MarkSeen, ApplyStops, IssueInvoice, reviewVars
<1>10. ASSUME NEW m \in Movements, Capture(m) \/ Recapture(m)
       PROVE  LeavesBooked(s)
  BY <1>10 DEF Capture, Recapture, reviewVars
<1>11. ASSUME NEW x \in Sources, Propose(x) \/ Withdraw(x) \/ Reverse(x)
       PROVE  LeavesBooked(s)
  BY <1>11 DEF Propose, Withdraw, Reverse, reviewVars
<1> QED BY <1>1, <1>2, <1>3, <1>4, <1>5, <1>6, <1>7, <1>8, <1>9, <1>10, <1>11 DEF ClearingNext

\* What a commit adds to the books is there for the first time.
LEMMA CommitPostsOnce ==
  ASSUME ClearingInv, Commit, NEW s \in DOMAIN books' \ DOMAIN books
  PROVE  PostsOnce(s)
<1> DEFINE A == approved.actions
<1>1. /\ PlanHolds /\ UNCHANGED <<captured, claims, approved>>
      /\ books' = [x \in A \cup DOMAIN books |-> IF x \in A THEN Entry(x) ELSE books[x]]
      /\ \A x \in A : x \notin DOMAIN books
  BY CommitWrites
<1> HIDE DEF A
<1>2. s \in A
  BY <1>1
<1>3. s \notin DOMAIN claims
  BY <1>1, <1>2 DEF PlanHolds, A
<1>4. ASSUME NEW b \in approved.bound,
             b[1] \in DOMAIN books', books'[b[1]].live, books'[b[1]].fin = captured[b[1]].fin, b[2] \in DOMAIN books
      PROVE  Live(b[2]) /\ books[b[2]].pays = b[1]
  <2>1. CASE b[1] \in A
    BY <1>1, <1>2, <1>4, <2>1 DEF PlanHolds, ArrivesOnce, A
  <2>2. CASE b[1] \notin A
    <3>1. b[1] \in DOMAIN books /\ books'[b[1]] = books[b[1]]
      BY <1>1, <1>4, <2>2
    <3>2. AlreadyApplied(b[1])
      BY <1>4, <3>1 DEF AlreadyApplied, Posted, Reversed, ClearingInv, EntriesAsSaved
    <3> QED BY <1>1, <1>2, <1>4, <3>2 DEF PlanHolds, ArrivesOnce, A
  <2> QED BY <2>1, <2>2
<1>5. s \in Deposits => books'[s].pays \in DOMAIN books'
  <2>1. books'[s].pays = Pays(s)
    BY <1>1, <1>2 DEF Entry
  <2> QED BY <1>1, <1>2, <2>1 DEF PlanHolds, A
<1> QED BY <1>3, <1>4, <1>5 DEF PostsOnce

\* Nothing but a commit adds an entry of an apply.
LEMMA PostsByCommit ==
  ASSUME ClearingInv, [ClearingNext]_clearingVars, NEW s \in DOMAIN books' \ DOMAIN books, books'[s].by = "stripe"
  PROVE  PostsOnce(s)
<1>1. CASE Commit
  BY <1>1, CommitPostsOnce
<1>2. ASSUME NEW x \in Sources, Confirm(x)
      PROVE  FALSE
  <2> DEFINE e == [by |-> "owner", fin |-> pending[x].fin, policy |-> NoPolicy, pays |-> 0, live |-> TRUE]
  <2>1. books' = Put(books, x, e) /\ e.by = "owner"
    BY <1>2 DEF Confirm
  <2> HIDE DEF e
  <2> QED BY <2>1 DEF Put, Over
<1>3. ASSUME NEW m \in Movements, ImportPayment(m)
      PROVE  FALSE
  <2> DEFINE e == [by |-> "invoice", fin |-> captured[m].fin, policy |-> NoPolicy, pays |-> 0, live |-> TRUE]
  <2>1. (books' = books \/ books' = Put(books, m, e)) /\ e.by = "invoice"
    BY <1>3 DEF ImportPayment
  <2> HIDE DEF e
  <2> QED BY <2>1 DEF Put, Over
<1>4. ASSUME NEW x \in Sources, Reverse(x)
      PROVE  FALSE
  BY <1>4 DEF Reverse
<1>5. CASE Prepare \/ Configure \/ MoveMapping \/ ChangePolicy \/ StartApply \/ RecordEffects \/ MarkSeen
           \/ RemoveRows \/ ApplyStops \/ IssueInvoice \/ UNCHANGED clearingVars
           \/ (\E m \in Movements : Capture(m) \/ Recapture(m)) \/ (\E d \in Deposits : BankArrives(d))
           \/ (\E ms \in Batches : \E bound \in Bindings(ms) : StageRows(ms, bound))
           \/ (\E x \in Sources : Dismiss(x) \/ Propose(x) \/ Withdraw(x) \/ ConfirmAgain(x))
  BY <1>5 DEF Prepare, Configure, MoveMapping, ChangePolicy, StartApply, RecordEffects, MarkSeen, RemoveRows,
              ApplyStops, IssueInvoice, Capture, Recapture, BankArrives, StageRows, Dismiss, Propose, Withdraw,
              ConfirmAgain, ledgerVars, clearingVars
<1> QED BY <1>1, <1>2, <1>3, <1>4, <1>5 DEF ClearingNext

\* The records of an apply agree with the books in every reachable state: a row in Review has the facts of
\* its entry, a receipt names only what an apply posted, and a run goes by a plan that holds of the books.
THEOREM ClearingInvariance == ClearingSpec => []ClearingInv
<1>1. ClearingInit => ClearingInv
  BY ClearingStart
<1>2. ClearingInv /\ [ClearingNext]_clearingVars => ClearingInv'
  BY ClearingStep
<1> QED BY <1>1, <1>2, PTL DEF ClearingSpec

\* Rows of a payment processor leave Review only booked as they are, and no movement is booked
\* twice: as its parts and again as an invoice payment or as a bank deposit.
THEOREM SettledOnce == ClearingSpec => RowsAreSettledOnce
<1> DEFINE step == /\ \A s \in DOMAIN pending \ DOMAIN pending' : LeavesBooked(s)
                   /\ \A s \in DOMAIN books' \ DOMAIN books : books'[s].by = "stripe" => PostsOnce(s)
<1>1. ClearingInv /\ [ClearingNext]_clearingVars => step
  BY LeavesSettled, PostsByCommit
<1>2. ClearingInv /\ [ClearingNext]_clearingVars => [step]_clearingVars
  BY <1>1
<1>3. ClearingSpec => [][step]_clearingVars
  BY <1>2, ClearingInvariance, PTL DEF ClearingSpec
<1> QED BY <1>3 DEF RowsAreSettledOnce
=============================================================================
