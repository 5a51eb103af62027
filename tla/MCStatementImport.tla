-------------------------- MODULE MCStatementImport --------------------------
(* A purchase of one amount two days before another one, which the feed knows.  *)
EXTENDS StatementImport

first  == [no |-> 1, day |-> 1, amount |-> 5, wording |-> "cafe"]
second == [no |-> 2, day |-> 3, amount |-> 5, wording |-> "cafe"]
TwoPurchases == {first, second}
OneExport == {[name |-> "export", source |-> "csv", first |-> 1, last |-> 3, period |-> "transactions",
               printed |-> FALSE, rows |-> TwoPurchases]}
SameDays == [t \in TwoPurchases |-> t.day]
LateFeed == {{second}}
=============================================================================
