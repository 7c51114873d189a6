----------------------------- MODULE InvoiceLines -----------------------------
(***************************************************************************)
(* The lines of one invoice and what posting makes of them: the taxes, the *)
(* cash rounding, the down payments and the AR/AP line, over any number of *)
(* edits, postings and resets.  Concurrency is AccountMove's subject: here *)
(* a call is one action.                                                   *)
(*                                                                         *)
(* Amounts are magnitudes on the side of the product lines (credit for a   *)
(* sale), in fractions of a cent: Cent of them make one, so many that every*)
(* division of the configured rates is exact.                              *)
(***************************************************************************)
EXTENDS Integers, FiniteSets, FiniteSetsExt, SequencesExt

CONSTANTS
  LineIds,     \* product lines the invoice can have
  Taxes,       \* account_tax rows: id -> [kind, rate, included, account]
  Prices,      \* price_unit * quantity, net of the discount
  Deposits,    \* totals of the posted down payments
  Cent,        \* fractions of a cent
  Profile,     \* account_cash_rounding: [increment, method, strategy, account]
  PerLine,     \* tax_rounding_method = "round_per_line"
  MaxRoundings \* bound: cash rounding lines

TaxIds == DOMAIN Taxes

Divisor(t) == CASE Taxes[t].kind = "fixed" -> 1
                [] Taxes[t].kind = "division" -> 100 - Taxes[t].rate
                [] Taxes[t].kind = "percent" -> IF Taxes[t].included THEN 100 + Taxes[t].rate
                                                                     ELSE 100

ASSUME InvoiceAssumption ==
  /\ TaxIds \subseteq Nat /\ PerLine \in BOOLEAN /\ MaxRoundings \in Nat
  /\ Prices \subseteq Nat \ {0} /\ Deposits \subseteq Nat
  /\ Profile.increment \in Nat
  /\ Cent > 0 /\ Cent % MapThenFoldSet(LAMBDA m, n : m * n, 2, Divisor, LAMBDA S : CHOOSE t \in S : TRUE, TaxIds) = 0

VARIABLES
  state,    \* "draft" or "posted"
  lines,    \* product lines: price_subtotal, |debit - credit| and tax_ids
  taxed,    \* tax lines: tax -> amount, 0 for none
  rounding, \* the cash rounding lines: products without price or taxes
  down,     \* the down_payment line, 0 for none
  term,     \* the payment_term line, 0 for none
  deposit,  \* total of the posted down payments that refer to the invoice
  totals,   \* amount_untaxed, amount_tax, amount_total
  last      \* history: the totals the lines were posted with, if not edited since

invoiceVars == <<state, lines, taxed, rounding, down, term, deposit, totals, last>>

Absent == [there |-> FALSE, subtotal |-> 0, amount |-> 0, taxes |-> {}]
NoTotals == [untaxed |-> 0, tax |-> 0, total |-> 0]

InvoiceInit ==
  /\ state = "draft"
  /\ lines = [l \in LineIds |-> Absent]
  /\ taxed = [t \in TaxIds |-> 0]
  /\ rounding = <<>> /\ down = 0 /\ term = 0
  /\ deposit = 0
  /\ totals = NoTotals
  /\ last = NoTotals
-----------------------------------------------------------------------------
(* Arithmetic *)

Absolute(n) == IF n < 0 THEN -n ELSE n
SumOver(S, f(_)) == MapThenSumSet(f, S)

\* Multiples of u at or below a magnitude, and nearest to it, halves up
Floor(u, n) == u * (n \div u)
HalfUp(u, n) == Floor(u, n + u \div 2)
RoundCents(n) == IF n < 0 THEN -HalfUp(Cent, -n) ELSE HalfUp(Cent, n)

ComputeAmount(t, base) ==
  CASE Taxes[t].kind = "percent" -> (base * Taxes[t].rate) \div 100
    [] Taxes[t].kind = "fixed" -> Taxes[t].rate
    [] Taxes[t].kind = "division" -> (base * Taxes[t].rate) \div (100 - Taxes[t].rate)

\* The part of a price that is tax
Extracted(t, gross) ==
  IF Taxes[t].kind = "percent" THEN gross - (gross * 100) \div (100 + Taxes[t].rate)
                               ELSE ComputeAmount(t, gross)

\* A price less its included taxes, taken out one after the other in the order of ids
NetOf(gross, ts) ==
  FoldLeft(LAMBDA net, t : net - Extracted(t, net), gross, SetToSortSeq(ts, <))

IncludedOf(line) == {t \in line.taxes : Taxes[t].included}
NetOfLine(line) == NetOf(line.subtotal, IncludedOf(line))

Contribution(t, line) ==
  LET earlier == {s \in IncludedOf(line) : s < t}
  IN IF Taxes[t].included THEN Extracted(t, NetOf(line.subtotal, earlier))
                          ELSE ComputeAmount(t, NetOfLine(line))
-----------------------------------------------------------------------------
(* The steps of posting *)

There == {l \in LineIds : lines[l].there}
Bearing(t) == {l \in There : t \in lines[l].taxes}

\* The subtotal and the ledger amount of a line become its rounded net price.
Netted(line) ==
  LET net == RoundCents(NetOfLine(line))
  IN IF net = line.subtotal THEN line
     ELSE [there |-> TRUE, subtotal |-> net, amount |-> net, taxes |-> line.taxes]

\* Variant: a tax that no line bears any more keeps its tax line
TaxLineLeft(t) ==
  IF ~Taxes[t].account \/ Bearing(t) = {} THEN taxed[t]
  ELSE IF PerLine THEN SumOver(Bearing(t), LAMBDA l : RoundCents(Contribution(t, lines[l])))
  ELSE RoundCents(SumOver(Bearing(t), LAMBDA l : Contribution(t, lines[l])))

TaxLine(t) ==
  IF ~Taxes[t].account THEN 0
  ELSE IF PerLine THEN SumOver(Bearing(t), LAMBDA l : RoundCents(Contribution(t, lines[l])))
  ELSE RoundCents(SumOver(Bearing(t), LAMBDA l : Contribution(t, lines[l])))

\* All product lines, the cash rounding lines among them
Subtotal(ls, rs) == SumOver(LineIds, LAMBDA l : ls[l].amount)
                      + SumOver(DOMAIN rs, LAMBDA i : rs[i])
AllTax(tx) == SumOver(TaxIds, LAMBDA t : tx[t])

\* What rounds a total to the increment of the profile
RoundingOf(n) ==
  CASE Profile.method = "up" -> -Floor(Profile.increment, -n) - n
    [] Profile.method = "down" -> Floor(Profile.increment, n) - n
    [] Profile.method = "half" -> HalfUp(Profile.increment, n) - n

\* The tax lines the rounding may go to: the biggest one, if the profile says so
Biggest(tx) ==
  {t \in TaxIds : /\ Profile.strategy = "biggest_tax" /\ ~Profile.account
                  /\ Taxes[t].account /\ Bearing(t) # {}
                  /\ \A s \in TaxIds : Absolute(tx[s]) <= Absolute(tx[t])}

CashRound(tx, diff) ==
  IF Profile.increment = 0 \/ diff = 0
    THEN taxed' = tx /\ rounding' = rounding
  ELSE IF Biggest(tx) # {}
    THEN /\ \E t \in Biggest(tx) : taxed' = [tx EXCEPT ![t] = @ + diff]
         /\ rounding' = rounding
  ELSE /\ taxed' = tx
       /\ rounding' = IF Profile.account THEN Append(rounding, diff) ELSE rounding
-----------------------------------------------------------------------------
(* Calls *)

\* create or write of a draft's line; without a price_unit its subtotal is the default, 0
SetLine(l, price, priced, ts) ==
  /\ state = "draft"
  /\ lines' = [lines EXCEPT ![l] = [there |-> TRUE, subtotal |-> IF priced THEN price ELSE 0,
                                    amount |-> price, taxes |-> ts]]
  /\ last' = NoTotals
  /\ UNCHANGED <<state, taxed, rounding, down, term, deposit, totals>>

UnlinkLine(l) ==
  /\ state = "draft" /\ lines[l].there
  /\ lines' = [lines EXCEPT ![l] = Absent]
  /\ last' = NoTotals
  /\ UNCHANGED <<state, taxed, rounding, down, term, deposit, totals>>

UnlinkRounding(i) ==
  /\ state = "draft"
  /\ rounding' = RemoveAt(rounding, i)
  /\ last' = NoTotals
  /\ UNCHANGED <<state, lines, taxed, down, term, deposit, totals>>

\* Down payments are posted and reset.
SetDeposit(a) ==
  /\ a # deposit
  /\ deposit' = a
  /\ last' = NoTotals
  /\ UNCHANGED <<state, lines, taxed, rounding, down, term, totals>>

\* recompute_totals: what a draft shows.  Included taxes are put on top.
RecomputeTotals ==
  LET base(l) == IF lines[l].subtotal # 0 THEN lines[l].subtotal ELSE lines[l].amount
      taxOf(t) == RoundCents(SumOver(Bearing(t), LAMBDA l : ComputeAmount(t, base(l))))
      untaxed == RoundCents(SumOver(There, base) + SumOver(DOMAIN rounding, LAMBDA i : Absolute(rounding[i])))
      tax == SumOver(TaxIds, taxOf)
  IN /\ state = "draft"
     /\ totals' = [untaxed |-> untaxed, tax |-> tax, total |-> untaxed + tax]
     /\ UNCHANGED <<state, lines, taxed, rounding, down, term, deposit, last>>

\* Variant: taxes and rounding accumulate on the lines of the posting before
ActionPostAccumulates ==
  LET netted == [l \in LineIds |-> IF lines[l].there THEN Netted(lines[l]) ELSE lines[l]]
      tx == [t \in TaxIds |-> taxed[t] + TaxLine(t)]
  IN /\ state = "draft"
     /\ lines' = netted
     /\ CashRound(tx, RoundingOf(Subtotal(netted, rounding) + AllTax(tx)))
     /\ Len(rounding') <= MaxRoundings
     /\ down' = IF deposit = 0 THEN down ELSE -deposit
     /\ term' = -(Subtotal(netted, rounding') + AllTax(taxed') + down')
     /\ There # {} \/ rounding' # <<>> \/ down' # 0
     /\ totals' = [untaxed |-> RoundCents(Absolute(Subtotal(netted, rounding'))),
                   tax |-> RoundCents(Absolute(AllTax(taxed'))),
                   total |-> RoundCents(Absolute(term'))]
     /\ last' = totals'
     /\ state' = "posted"
     /\ UNCHANGED deposit

\* The lines are recomputed and, at least one being there, the document is posted.
ActionPost ==
  LET netted == [l \in LineIds |-> IF lines[l].there THEN Netted(lines[l]) ELSE lines[l]]
      tx == [t \in TaxIds |-> TaxLine(t)]
  IN /\ state = "draft"
     /\ lines' = netted
     /\ CashRound(tx, RoundingOf(Subtotal(netted, rounding) + AllTax(tx)))
     /\ Len(rounding') <= MaxRoundings
     /\ down' = IF deposit = 0 THEN down ELSE -deposit
     /\ term' = -(Subtotal(netted, rounding') + AllTax(taxed') + down')
     /\ There # {} \/ rounding' # <<>> \/ down' # 0
     /\ totals' = [untaxed |-> RoundCents(Absolute(Subtotal(netted, rounding'))),
                   tax |-> RoundCents(Absolute(AllTax(taxed'))),
                   total |-> RoundCents(Absolute(term'))]
     /\ last' = totals'
     /\ state' = "posted"
     /\ UNCHANGED deposit

ActionResetToDraft ==
  /\ state = "posted"
  /\ state' = "draft"
  /\ UNCHANGED <<lines, taxed, rounding, down, term, deposit, totals, last>>

InvoiceNext ==
  \/ \E l \in LineIds :
       \/ UnlinkLine(l)
       \/ \E p \in Prices, priced \in BOOLEAN, ts \in SUBSET TaxIds : SetLine(l, p, priced, ts)
  \/ \E i \in DOMAIN rounding : UnlinkRounding(i)
  \/ \E a \in Deposits : SetDeposit(a)
  \/ RecomputeTotals \/ ActionPost \/ ActionResetToDraft

InvoiceSpec == InvoiceInit /\ [][InvoiceNext]_invoiceVars
-----------------------------------------------------------------------------
\* Types; a product line never changes side.
InvoiceTypeOK ==
  /\ state \in {"draft", "posted"}
  /\ lines \in [LineIds -> [there : BOOLEAN, subtotal : Nat, amount : Nat,
                             taxes : SUBSET TaxIds]]
  /\ taxed \in [TaxIds -> Int] /\ rounding \in Seq(Int)
  /\ down \in Int /\ term \in Int /\ deposit \in Nat
  /\ \A r \in {totals, last} : r \in [untaxed : Nat, tax : Nat, total : Nat]

\* Nothing of an earlier posting lingers in a posted invoice: its products and taxes
\* are a multiple of the cash rounding's increment whatever rounding lines are left, and
\* a tax line belongs to a tax that a product line still bears.
NothingLingers ==
  state = "posted" =>
    /\ Profile.increment > 0 /\ Profile.account =>
         (Subtotal(lines, rounding) + AllTax(taxed)) % Profile.increment = 0
    /\ \A t \in TaxIds : taxed[t] # 0 => Bearing(t) # {}

Posts == state = "draft" /\ state' = "posted"

\* Without included taxes posting is idempotent: resetting an invoice and posting it
\* again unedited changes no total - taxes and rounding are not applied on top of
\* themselves.
RepostStable ==
  [][Posts /\ last # NoTotals /\ (\A l \in There : IncludedOf(lines[l]) = {})
       => totals' = last]_invoiceVars

\* _compute_tax_lines: "for a price-included tax" the subtotal "is still gross-of-that-tax
\* at this point": an unedited invoice posted again has the totals it had.
RepostUnchanged == [][Posts /\ last # NoTotals => totals' = last]_invoiceVars
=============================================================================
