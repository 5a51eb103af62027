----------------------------- MODULE MCOpenItems -----------------------------
(* A receipt of one cent in cash and one kept as a fee, an invoice, a customer  *)
(* credit, a document and three operations: enough to bill, allocate the        *)
(* receipt in two batches, and meet a confirm or another caller in between.     *)
EXTENDS OpenItems, TLC

CONSTANTS p1, i1, c1, o1, o2, o3, e1

OneCash  == p1 :> 1
OneFee   == p1 :> 1
TwoShares == [Sales |-> 1, Services |-> 1]
==============================================================================
