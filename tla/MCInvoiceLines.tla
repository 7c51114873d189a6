---------------------------- MODULE MCInvoiceLines ----------------------------
(* Small instances of InvoiceLines for TLC. *)
EXTENDS InvoiceLines, TLC

Tax(kind, rate, included) ==
  [kind |-> kind, rate |-> rate, included |-> included, account |-> TRUE]

\* 25 percent in the price: a price of 125 is 100 and 25
IncludedTax == (1 :> Tax("percent", 25, TRUE))

IncludedCent == 250
IncludedPrices == {125 * IncludedCent}
NoDeposits == {}
NoProfile == [increment |-> 0, method |-> "half", strategy |-> "add_invoice_line",
              account |-> FALSE]
=============================================================================
