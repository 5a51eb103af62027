--------------------------- MODULE GroupJournal ---------------------------
(***************************************************************************)
(* How the review queue publishes a group of proposals (_save_item_group,  *)
(* bookkeeping/queue.py): a journal directory with the old and the new     *)
(* bytes of every member, a manifest, a COMMIT marker, the replacement of  *)
(* the queue files, and the removal of the directory.                      *)
(*                                                                         *)
(* Every command that changes the queue first finishes the journal it      *)
(* finds. Commands hold the exclusive entity lock (cmd); readers hold no   *)
(* lock.                                                                   *)
(*                                                                         *)
(* A file is written with open, write, fsync, and a directory is removed   *)
(* file by file in the order the file system lists it. Interruptible names *)
(* the ones of these that a stop may catch in the middle.                  *)
(***************************************************************************)
EXTENDS Integers, FiniteSets

CONSTANTS
  Items,
  Interruptible,  \* "marker": writing COMMIT; "removal": rmtree of the journal
  MaxOps,         \* bound: commands that write items
  MaxCrashes      \* bound: process stops

ASSUME JournalAssumption ==
  /\ Interruptible \subseteq {"marker", "removal"}
  /\ MaxOps \in Nat /\ MaxCrashes \in Nat

VARIABLES
  dest,      \* review-queue/*.json: the proposal each file holds, 0 if absent
  journal,   \* the directory under review-queue/.transactions
  cmd,       \* the command that holds the entity lock
  ops,       \* commands so far that write items
  crashes,   \* process stops so far
  requests   \* history: the items each command was asked to write

vars == <<dest, journal, cmd, ops, crashes, requests>>

-----------------------------------------------------------------------------
Value == 0..MaxOps
FileState == {"absent", "torn", "whole"}

\* group, value and prior are what manifest and staged files say, so they mean
\* something only while these are whole. news and olds: the staged files.
Journal == [dir: BOOLEAN, news: SUBSET Items, olds: SUBSET Items,
            manifest: FileState, marker: FileState,
            group: SUBSET Items, value: Value, prior: [Items -> Value]]
NoJournal == [dir |-> FALSE, news |-> {}, olds |-> {}, manifest |-> "absent", marker |-> "absent",
              group |-> {}, value |-> 0, prior |-> [i \in Items |-> 0]]

\* body: what the command does once the journal it found is finished.
Command == [pc: {"idle", "recover", "forward", "back", "remove", "save", "mkdir", "stage", "manifest",
                 "commit", "publish"},
            body: {"none", "save", "mkdir"}, targets: SUBSET Items, value: Value, todo: SUBSET Items]
Idle == [pc |-> "idle", body |-> "none", targets |-> {}, value |-> 0, todo |-> {}]

Init ==
  /\ dest = [i \in Items |-> 0]
  /\ journal = NoJournal
  /\ cmd = Idle
  /\ ops = 0 /\ crashes = 0
  /\ requests = [op \in 1..MaxOps |-> {}]

\* What the next step of the command is once nothing is left to recover.
AfterRecovery(body) == IF body = "none" THEN Idle.pc ELSE body

-----------------------------------------------------------------------------
(* Queue mutations *)

\* _queue_mutation: the lock, then the journals that earlier commands left.
Begin(body, targets, value) ==
  /\ cmd.pc = "idle"
  /\ cmd' = [pc |-> IF journal.dir THEN "recover" ELSE AfterRecovery(body),
             body |-> body, targets |-> targets, value |-> value, todo |-> {}]
  /\ UNCHANGED <<dest, journal, crashes>>

\* A mutation that writes no item, such as one of the staged rows.
BeginOther == Begin("none", {}, 0) /\ UNCHANGED <<ops, requests>>

\* A command that writes items; its number is the proposal it writes.
Request(body, group) ==
  /\ Begin(body, group, ops + 1)
  /\ ops' = ops + 1
  /\ requests' = [requests EXCEPT ![ops + 1] = group]

\* Wrong variant: one command past the bound.
BeginSaveOnceMore(i) == ops <= MaxOps /\ Request("save", {i})

BeginSave(i) == ops < MaxOps /\ Request("save", {i})

BeginGroup(group) == group # {} /\ ops < MaxOps /\ Request("mkdir", group)

\* _save_item
SaveItem ==
  /\ cmd.pc = "save"
  /\ dest' = [i \in Items |-> IF i \in cmd.targets THEN cmd.value ELSE dest[i]]
  /\ cmd' = Idle
  /\ UNCHANGED <<journal, ops, crashes, requests>>

-----------------------------------------------------------------------------
(* _save_item_group *)

MakeJournal ==
  /\ cmd.pc = "mkdir"
  /\ journal' = [NoJournal EXCEPT !.dir = TRUE, !.group = cmd.targets, !.value = cmd.value, !.prior = dest]
  /\ cmd' = [cmd EXCEPT !.pc = "stage", !.todo = cmd.targets]
  /\ UNCHANGED <<dest, ops, crashes, requests>>

\* Wrong variant: the old bytes are not kept.
StageNewOnly(i) ==
  /\ cmd.pc = "stage" /\ i \in cmd.todo
  /\ journal' = [journal EXCEPT !.news = @ \cup {i}]
  /\ cmd' = [cmd EXCEPT !.todo = @ \ {i}, !.pc = IF cmd.todo = {i} THEN "manifest" ELSE "stage"]
  /\ UNCHANGED <<dest, ops, crashes, requests>>

StageItem(i) ==
  /\ cmd.pc = "stage" /\ i \in cmd.todo
  /\ journal' = [journal EXCEPT !.news = @ \cup {i}, !.olds = @ \cup {i}]
  /\ cmd' = [cmd EXCEPT !.todo = @ \ {i}, !.pc = IF cmd.todo = {i} THEN "manifest" ELSE "stage"]
  /\ UNCHANGED <<dest, ops, crashes, requests>>

WriteManifest ==
  /\ cmd.pc = "manifest"
  /\ journal' = [journal EXCEPT !.manifest = "whole"]
  /\ cmd' = [cmd EXCEPT !.pc = "commit"]
  /\ UNCHANGED <<dest, ops, crashes, requests>>

WriteMarker ==
  /\ cmd.pc = "commit"
  /\ journal' = [journal EXCEPT !.marker = "whole"]
  /\ cmd' = [cmd EXCEPT !.pc = "publish", !.todo = journal.group]
  /\ UNCHANGED <<dest, ops, crashes, requests>>

PublishItem(i) ==
  /\ cmd.pc = "publish" /\ i \in cmd.todo
  /\ dest' = [dest EXCEPT ![i] = journal.value]
  /\ cmd' = [cmd EXCEPT !.todo = @ \ {i}]
  /\ UNCHANGED <<journal, ops, crashes, requests>>

\* The group is out: remove the journal, and the command is done.
PublishEnds ==
  /\ cmd.pc = "publish" /\ cmd.todo = {}
  /\ cmd' = [cmd EXCEPT !.pc = "remove", !.body = "none"]
  /\ UNCHANGED <<dest, journal, ops, crashes, requests>>

-----------------------------------------------------------------------------
(* _recover_group_journals_unlocked *)

\* Wrong variant: an unreadable manifest is an error even without a marker.
RecoverDiscardsNothing ==
  /\ cmd.pc = "recover" /\ journal.manifest # "whole" /\ journal.marker = "absent"
  /\ cmd' = Idle
  /\ UNCHANGED <<dest, journal, ops, crashes, requests>>

\* Staging never finished: nothing visible was touched.
RecoverDiscards ==
  /\ cmd.pc = "recover"
  /\ journal.manifest # "whole" /\ journal.marker = "absent"
  /\ cmd' = [cmd EXCEPT !.pc = "remove"]
  /\ UNCHANGED <<dest, journal, ops, crashes, requests>>

\* Wrong variant: a committed group is rolled back.
RecoverBackwards(direction) ==
  /\ cmd.pc = "recover" /\ journal.manifest = "whole" /\ journal.marker # "torn"
  /\ direction = (IF journal.marker = "absent" THEN "forward" ELSE "back")
  /\ cmd' = [cmd EXCEPT !.pc = direction, !.todo = journal.group]
  /\ UNCHANGED <<dest, journal, ops, crashes, requests>>

\* Committed groups go forward, uncommitted groups back.
Recover(direction) ==
  /\ cmd.pc = "recover"
  /\ journal.manifest = "whole"
  /\ direction = (IF journal.marker = "absent" THEN "back" ELSE "forward")
  /\ journal.marker # "torn"
  /\ cmd' = [cmd EXCEPT !.pc = direction, !.todo = journal.group]
  /\ UNCHANGED <<dest, journal, ops, crashes, requests>>

RollForward(i) ==
  /\ cmd.pc = "forward" /\ i \in cmd.todo
  /\ i \in journal.news
  /\ dest' = [dest EXCEPT ![i] = journal.value]
  /\ cmd' = [cmd EXCEPT !.todo = @ \ {i}]
  /\ UNCHANGED <<journal, ops, crashes, requests>>

\* A member that had no queue file loses the file again, and needs no old bytes.
RollBack(i) ==
  /\ cmd.pc = "back" /\ i \in cmd.todo
  /\ i \in journal.olds \/ journal.prior[i] = 0
  /\ dest' = [dest EXCEPT ![i] = journal.prior[i]]
  /\ cmd' = [cmd EXCEPT !.todo = @ \ {i}]
  /\ UNCHANGED <<journal, ops, crashes, requests>>

RecoveryEnds ==
  /\ cmd.pc \in {"forward", "back"} /\ cmd.todo = {}
  /\ cmd' = [cmd EXCEPT !.pc = "remove"]
  /\ UNCHANGED <<dest, journal, ops, crashes, requests>>

\* What recovery raises on: a marker over an unreadable manifest, an incomplete
\* marker, or staged bytes that are gone.
CannotRecover ==
  \/ cmd.pc = "recover" /\ \/ journal.manifest # "whole" /\ journal.marker # "absent"
                           \/ journal.manifest = "whole" /\ journal.marker = "torn"
  \/ cmd.pc = "forward" /\ ~(cmd.todo \subseteq journal.news)
  \/ cmd.pc = "back" /\ \E i \in cmd.todo \ journal.olds : journal.prior[i] # 0

RecoveryRefuses ==
  /\ CannotRecover
  /\ cmd' = Idle
  /\ UNCHANGED <<dest, journal, ops, crashes, requests>>

-----------------------------------------------------------------------------
(* _remove_group_transaction *)

RemovalDone == cmd' = IF cmd.body = "none" THEN Idle ELSE [cmd EXCEPT !.pc = cmd.body]

RemoveJournal ==
  /\ cmd.pc = "remove"
  /\ \/ "removal" \notin Interruptible
     \/ journal.news = {} /\ journal.olds = {} /\ journal.manifest = "absent" /\ journal.marker = "absent"
  /\ journal' = NoJournal
  /\ RemovalDone
  /\ UNCHANGED <<dest, ops, crashes, requests>>

RemoveFile ==
  /\ cmd.pc = "remove"
  /\ "removal" \in Interruptible
  /\ \/ \E i \in journal.news : journal' = [journal EXCEPT !.news = @ \ {i}]
     \/ \E i \in journal.olds : journal' = [journal EXCEPT !.olds = @ \ {i}]
     \/ journal.manifest # "absent" /\ journal' = [journal EXCEPT !.manifest = "absent"]
     \/ journal.marker # "absent" /\ journal' = [journal EXCEPT !.marker = "absent"]
  /\ UNCHANGED <<dest, cmd, ops, crashes, requests>>

-----------------------------------------------------------------------------
\* The process stops, or one of its writes fails. The file it was writing may
\* be there without its contents.
Crash ==
  /\ cmd.pc # "idle" /\ crashes < MaxCrashes
  /\ crashes' = crashes + 1
  /\ cmd' = Idle
  /\ \/ journal' = journal
     \/ cmd.pc = "manifest" /\ journal' = [journal EXCEPT !.manifest = "torn"]
     \/ cmd.pc = "commit" /\ "marker" \in Interruptible /\ journal' = [journal EXCEPT !.marker = "torn"]
  /\ UNCHANGED <<dest, ops, requests>>

Continue ==
  \/ SaveItem
  \/ MakeJournal \/ WriteManifest \/ WriteMarker \/ PublishEnds
  \/ \E i \in Items : StageItem(i) \/ PublishItem(i) \/ RollForward(i) \/ RollBack(i)
  \/ RecoverDiscards \/ Recover("forward") \/ Recover("back") \/ RecoveryEnds \/ RecoveryRefuses
  \/ RemoveJournal \/ RemoveFile

Next ==
  \/ BeginOther
  \/ \E i \in Items : BeginSave(i)
  \/ \E group \in SUBSET Items : BeginGroup(group)
  \/ Continue
  \/ Crash

Spec == Init /\ [][Next]_vars

FairSpec == Spec /\ WF_vars(Continue) /\ WF_vars(BeginOther)
-----------------------------------------------------------------------------
(* What the queue holds, and what a reader is shown *)

\* A journal counts as soon as its marker is written, and is worth nothing
\* before: the queue is what recovery would make of the files.
Logical ==
  [i \in Items |->
    IF journal.manifest = "whole" /\ i \in journal.group
    THEN IF journal.marker = "whole" THEN journal.value ELSE journal.prior[i]
    ELSE dest[i]]

\* Wrong variant: a committed journal hides nothing from readers.
HiddenUntilCommit ==
  IF ~journal.dir THEN {}
  ELSE IF journal.manifest # "whole" THEN Items
  ELSE IF journal.marker = "whole" THEN {} ELSE journal.group

\* _group_recovery_view: the files list_queue_items and read_queue_item hold
\* back. Without a readable manifest they hold back all of them.
Hidden ==
  IF ~journal.dir THEN {}
  ELSE IF journal.manifest # "whole" THEN Items ELSE journal.group

-----------------------------------------------------------------------------
(* Properties *)

TypeOK ==
  /\ dest \in [Items -> Value] /\ journal \in Journal /\ cmd \in Command
  /\ ops \in 0..MaxOps /\ crashes \in 0..MaxCrashes
  /\ requests \in [1..MaxOps -> SUBSET Items]

\* "Roll committed groups forward and uncommitted groups back": whatever stops
\* happen, a group appears in the queue as a whole, at once, and is never taken
\* back.
Atomic == INSTANCE AtomicGroup WITH queue <- Logical
GroupsAreAtomic == Atomic!Spec

\* A reader, who holds no lock and repairs nothing, is never shown a queue file
\* of a group that is only partly replaced.
ReadersSeeTheQueue == \A i \in Items \ Hidden : dest[i] = Logical[i]

\* "A grouped proposal commit must be recovered by the next mutating queue
\* command": no command ever finds a journal it has to refuse.
NextCommandRecovers == ~CannotRecover

\* A journal that a stopped command left behind is finished, and the queue can
\* be changed again.
JournalIsFinished == journal.dir ~> ~journal.dir
=============================================================================
