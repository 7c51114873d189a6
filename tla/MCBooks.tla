------------------------------- MODULE MCBooks -------------------------------
\* The parts of accounting beside posting, numbering and payments. Some of them share
\* the date and whether calls overlap; a behaviour takes the steps of one part.
EXTENDS TLC, Reconciliation, InvoiceLines, Ledger, Currency, BankStatements, PaymentTerms
VARIABLE part

Symmetry == Permutations(Debits) \cup Permutations(Credits) \cup Permutations(LineIds)

\* 60 percent in the price, 25 percent on top: 4 is 2.5 and 1.5, rounded to 3 and 2.
Tax(rate, included) == [kind |-> "percent", rate |-> rate, included |-> included, account |-> TRUE]
MCTaxes == (1 :> Tax(60, TRUE)) @@ (2 :> Tax(25, FALSE))
MCCent == 32000
MCPrices == {4 * MCCent}
MCDeposits == {MCCent}
FiveCents == [increment |-> 5 * MCCent, method |-> "half", strategy |-> "add_invoice_line", account |-> TRUE]
MCAccountType == [receivable |-> "asset", cash |-> "asset", tax |-> "liability",
                  sales |-> "income", costs |-> "expense", retained |-> "equity"]
HalfOf(price) == price \div 2
MCDueDates == {-90, -60, -30}
MCLineResidual == [a |-> 1, b |-> 2]

matching == <<balance, residual, reconciled, full, partials, fulls, made, req>>
booksVars == <<part, matching, invoiceVars, ledgerVars, currencyVars, bankVars, termVars, workdayVars>>

\* Parts whose property is only about calls that do not overlap are run so.
BooksInit ==
  /\ part \in {"matching", "invoice", "ledger", "currency", "bank", "terms"}
  /\ Init /\ InvoiceInit /\ LedgerInit /\ CurrencyInit /\ BankInit /\ TermsInit /\ WorkdayInit
  /\ part # "ledger" => exclusive
  /\ part # "matching" => \A l \in DOMAIN balance : balance[l] \in {0, 1, -1}

MatchingSteps ==
  /\ part = "matching" /\ Next
  /\ UNCHANGED <<part, invoiceVars, ledgerVars, currencyVars, bankVars, termVars, workdayVars>>
\* A line that bears the included tax bears the one on top as well.
InvoiceSteps ==
  /\ part = "invoice" /\ InvoiceNext
  /\ \A l \in LineIds : 1 \in lines'[l].taxes => 2 \in lines'[l].taxes
  /\ UNCHANGED <<part, matching, ledgerVars, currencyVars, bankVars, termVars, workdayVars>>
\* Years are closed when calls do not overlap; payments, refunds and taxes are there
\* when they do.
LedgerSteps ==
  /\ part = "ledger" /\ LedgerNext
  /\ IF exclusive
     THEN \A i \in DOMAIN entries' :
            /\ ~entries'[i].bears /\ entries'[i].due = entries'[i].date /\ entries'[i].type # "refund"
            /\ entries'[i].residual >= 0
     ELSE Len(entries') <= 3 /\ today' <= 1
  /\ UNCHANGED <<part, matching, invoiceVars, currencyVars, bankVars, termVars>>
\* Revaluations of two open items, or matches of four of one account, an invoice first.
CurrencySteps ==
  /\ part = "currency" /\ CurrencyNext /\ today' <= 1
  /\ (revaluations' # <<>> \/ \E u \in Clerks : accounting'[u].op = "revalue") =>
       matches' = <<>> /\ Len(items') <= 2
  /\ \A i \in DOMAIN items' : items'[i].account = items'[1].account
  /\ Len(items') > 1 => items'[1].cur > 0
  /\ UNCHANGED <<part, matching, invoiceVars, ledgerVars, bankVars, termVars>>
\* A row that is entered is for the smaller move line, or for both.
BankSteps ==
  /\ part = "bank" /\ BankNext /\ today' <= 1
  /\ Len(statements') > 0 => statements'[1].start = 0
  /\ Len(rows') > Len(rows) => rows'[Len(rows')].link # NoLink \/ rows'[Len(rows')].amount # 2
  /\ UNCHANGED <<part, matching, invoiceVars, ledgerVars, currencyVars, termVars>>
\* One line is written at a time; the first may be due on any kind of date.
TermSteps ==
  /\ part = "terms" /\ TermsNext /\ OneLineWritten'
  /\ \A u \in Editors :
       LET c == editing'[u]
       IN c.op = "add" =>
            \/ termLines = <<>> \/ editing[u] = c
            \/ c.line.delay = "days_after" /\ c.line.days = 1 /\ ~c.line.next
  /\ UNCHANGED <<part, matching, invoiceVars, ledgerVars, currencyVars, bankVars>>

BooksNext == MatchingSteps \/ InvoiceSteps \/ LedgerSteps \/ CurrencySteps \/ BankSteps \/ TermSteps

\* The currency part alone.
CurrencyOnly == BooksInit /\ part = "currency"
RealizedSpec == CurrencyOnly /\ [][CurrencySteps]_booksVars

BooksSpec == BooksInit /\ [][BooksNext]_booksVars
=============================================================================
