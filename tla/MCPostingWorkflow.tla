------------------------ MODULE MCPostingWorkflow ------------------------
(* Instances of PostingWorkflow for TLC. *)
EXTENDS PostingWorkflow

CONSTANTS r1, r2, r3

SameCounterparty == [r \in Rows |-> CHOOSE c \in Counterparties : TRUE]
=============================================================================
