---------------------------- MODULE MCReviewDesk ----------------------------
(* Instances of ReviewDesk for TLC. *)
EXTENDS ReviewDesk, TLC

CONSTANTS r1, r2, r3

\* r1 and r2 are the sides of a transfer between two accounts.
BankAccounts == r1 :> "Checking" @@ r2 :> "Card" @@ r3 :> "Savings"
Staged == r1 :> -2 @@ r2 :> 2
Changed == r1 :> -3 @@ r2 :> 2
Payroll == {"Wages" :> 1 @@ "Tax" :> 1}
TwoSides == {{r1, r2}}
=============================================================================
