--------------------------- MODULE AtomicGroup ---------------------------
(***************************************************************************)
(* What the review queue promises: a command changes exactly the items it  *)
(* was asked to change, all of them in one step, or none; and a later      *)
(* command is never undone by an earlier one.                              *)
(***************************************************************************)
EXTENDS Integers

CONSTANTS Items, MaxOps

VARIABLES
  queue,     \* the command whose proposal each item holds; 0: no queue file
  requests   \* the items each command was asked to write

vars == <<queue, requests>>

Init ==
  /\ queue = [i \in Items |-> 0]
  /\ requests = [op \in 1..MaxOps |-> {}]

Request(op, group) ==
  /\ requests[op] = {} /\ group # {}
  /\ requests' = [requests EXCEPT ![op] = group]
  /\ UNCHANGED queue

Publish(op) ==
  /\ requests[op] # {}
  /\ \A i \in Items : queue[i] < op
  /\ queue' = [i \in Items |-> IF i \in requests[op] THEN op ELSE queue[i]]
  /\ UNCHANGED requests

Next == \E op \in 1..MaxOps : Publish(op) \/ \E group \in SUBSET Items : Request(op, group)

Spec == Init /\ [][Next]_vars
=============================================================================
