------------------------- MODULE MCQuickbooksSamples --------------------------
(* Reports and snapshots for the instances of QuickbooksOpening.  The period is *)
(* the days 2 and 3; the opening reports are those of day 1.                    *)
EXTENDS Integers

QbAccounts == {"Bank", "Loan", "Sales"}
Lines(bank, loan, sales) ==
  [a \in QbAccounts |-> CASE a = "Bank" -> bank [] a = "Loan" -> loan [] OTHER -> sales]
ReportOf(kind, end, lines) ==
  [kind |-> kind, start |-> 2, end |-> end, cash |-> TRUE, sound |-> TRUE, currency |-> "USD", lines |-> lines]
Trial(end, lines) == ReportOf("trial-balance", end, lines)
Sheet(end, lines) == ReportOf("balance-sheet", end, lines)
OfPeriod == ReportOf("ranged", 3, Lines(0, 0, 0))
Snapshot(currency, reports) ==
  [from |-> 2, to |-> 3, cash |-> TRUE, currency |-> currency, multi |-> FALSE, chart |-> QbAccounts,
   reports |-> [key \in DOMAIN reports |-> [reports[key] EXCEPT !.currency = currency]]]

Before == Lines(3, -1, -2)
BeforeSheet == Lines(3, -1, 0)
After == Lines(5, -1, -4)
Complete == Snapshot("USD", [OpeningTrialBalance |-> Trial(1, Before), OpeningBalanceSheet |-> Sheet(1, BeforeSheet),
  TrialBalance |-> Trial(3, After), BalanceSheet |-> Sheet(3, After), GeneralLedger |-> OfPeriod])
Foreign == Snapshot("EUR", [OpeningTrialBalance |-> Trial(1, Lines(5, 0, -5)), ProfitAndLoss |-> OfPeriod,
  TrialBalance |-> Trial(3, Before)])
SheetOnly == Snapshot("USD", [OpeningBalanceSheet |-> Sheet(1, BeforeSheet), ProfitAndLoss |-> OfPeriod,
  TrialBalance |-> Trial(3, After)])
Differing == Snapshot("USD", [OpeningTrialBalance |-> Trial(1, Before),
  OpeningBalanceSheet |-> Sheet(1, Lines(4, -1, 0)), GeneralLedger |-> OfPeriod])

Exported == [chart |-> QbAccounts, reports |-> <<Sheet(1, BeforeSheet), Trial(1, Before)>>]
NoChart == [Exported EXCEPT !.chart = {}]
OldOpening == [id |-> <<"trial-balance", 2>>, reverses |-> "none", day |-> 2, lines |-> Before,
               currency |-> "USD", qb |-> TRUE]
==============================================================================
