------------------------------ MODULE Currency ------------------------------
(***************************************************************************)
(* Receivables and payables in one foreign currency: converted when they   *)
(* are posted, matched with payments at another rate, which realizes an    *)
(* exchange result, and revalued at the end of a period (account.move,     *)
(* account.partial.reconcile). Calls do not overlap here, Reconciliation   *)
(* has that; they may end after any of their transactions.                 *)
(***************************************************************************)
EXTENDS Workday, Sequences, SequencesExt, Sums

CONSTANTS
  Clerks,              \* users whose calls match and revalue
  Rates,               \* company currency for one unit of the foreign one
  ForeignAmounts,      \* amounts of documents and payments, divisible by what shares divide them by
  MaxItems, MaxForeignMatches, MaxRevaluations

VARIABLES
  rateTable,    \* res_currency_rate by date, 0 where there is none
  items,        \* AR/AP lines of posted moves, debits being positive
  matches,      \* account_partial_reconcile rows
  revaluations, \* adjustments that were posted, with their reversal's state
  accounting,   \* what each user's call has read and does next
  shown         \* history: how many adjustments there were before the revaluation that
                \* has just been through, -1 when there is none or something happened since

currencyVars == <<rateTable, items, matches, revaluations, accounting, shown>>

ASSUME CurrencyAssumption ==
  Rates \cup ForeignAmounts \subseteq Nat \ {0} /\ {MaxItems, MaxForeignMatches, MaxRevaluations} \subseteq Nat

CurrencyInit ==
  /\ rateTable = [d \in 0 .. LastDay |-> 0] /\ shown = -1
  /\ items = <<>> /\ matches = <<>> /\ revaluations = <<>>
  /\ accounting = [u \in Clerks |-> Idle]

Accounting(u, c) == accounting' = [accounting EXCEPT ![u] = c]
AtRest == \A u \in Clerks : accounting[u] = Idle
Size(n) == IF n < 0 THEN -n ELSE n
Summed(S, f(_)) == SumOf([x \in S |-> f(x)], S)

\* The rate of the latest date that is not after d; 0 if there is none.
RateOn(d) ==
  LET known == {e \in 0 .. d : rateTable[e] # 0}
  IN IF known = {} THEN 0 ELSE rateTable[Max(known)]
EnterRate(d, rate) ==
  /\ AtRest /\ rateTable[d] = 0
  /\ rateTable' = [rateTable EXCEPT ![d] = rate] /\ shown' = -1
  /\ UNCHANGED <<items, matches, revaluations, accounting>>

\* _apply_fx_conversion: without a rate the posting is refused.
PostForeign(account, amount) ==
  LET worth == amount * RateOn(today)
  IN /\ AtRest /\ Len(items) < MaxItems
     /\ RateOn(today) # 0
     /\ items' = Append(items, [account |-> account, cur |-> amount, balance |-> worth, residual |-> worth])
     /\ shown' = -1
     /\ UNCHANGED <<rateTable, matches, revaluations, accounting>>
-----------------------------------------------------------------------------
(* reconcile_lines of two foreign lines.                                    *)
\* What is left of amount_currency, from the matches there have been.
SharesOf(i) ==
  Summed({m \in DOMAIN matches : matches[m].debit = i}, LAMBDA m : matches[m].debitCur)
  - Summed({m \in DOMAIN matches : matches[m].credit = i}, LAMBDA m : matches[m].creditCur)
RemainingAll(i) == items[i].cur
Remaining(i) == items[i].cur - SharesOf(i)

MatchBegin(u, d, c) ==
  LET dRes == Size(items[d].residual)  cRes == Size(items[c].residual)
      dCur == Size(Remaining(d))       cCur == Size(Remaining(c))
      equivalent == IF dCur = 0 THEN dRes ELSE (dRes * Min({dCur, cCur})) \div dCur
      amount == Min({dRes, cRes, equivalent})
      dShare == (amount * dCur) \div dRes
      cShare == (amount * cCur) \div cRes
  IN /\ AtRest /\ Len(matches) < MaxForeignMatches
     /\ items[d].account = items[c].account /\ items[d].cur > 0 /\ items[c].cur < 0
     /\ items[d].residual > 0 /\ items[c].residual < 0
     /\ Accounting(u, [op |-> "match",
                       row |-> [debit |-> d, credit |-> c, amount |-> amount,
                                debitCur |-> dShare, creditCur |-> cShare],
                       whole |-> dShare = dCur \/ cShare = cCur])
     /\ UNCHANGED <<rateTable, items, matches, revaluations, shown>>

\* The match and both residuals; when either amount is used up, what the other line
\* still has in company currency is taken for the exchange result.
MatchWrite(u) ==
  LET row == accounting[u].row
      dLeft == items[row.debit].residual - row.amount
      cLeft == items[row.credit].residual + row.amount
      open == IF dLeft # 0 THEN row.debit ELSE row.credit
  IN /\ accounting[u].op = "match"
     /\ matches' = Append(matches, row)
     /\ items' = [items EXCEPT ![row.debit].residual = dLeft, ![row.credit].residual = cLeft]
     /\ Accounting(u, IF accounting[u].whole /\ (dLeft # 0 \/ cLeft # 0)
                      THEN [op |-> "result", item |-> open] ELSE Idle)
     /\ shown' = -1
     /\ UNCHANGED <<rateTable, revaluations>>

\* _post_writeoff against an exchange account, and then the match with it.
PostResult(u) ==
  LET i == items[accounting[u].item]
  IN /\ accounting[u].op = "result" /\ Len(items) < MaxItems
     /\ items' = Append(items, [account |-> i.account, cur |-> 0,
                                balance |-> -i.residual, residual |-> -i.residual])
     /\ Accounting(u, [op |-> "settle", item |-> accounting[u].item, with |-> Len(items) + 1])
     /\ UNCHANGED <<rateTable, matches, revaluations, shown>>
SettleResult(u) ==
  LET i == accounting[u].item
      w == accounting[u].with
  IN /\ accounting[u].op = "settle"
     /\ items' = [items EXCEPT ![i].residual = 0, ![w].residual = 0]
     /\ matches' = Append(matches, [debit |-> IF items[i].residual > 0 THEN i ELSE w,
                                    credit |-> IF items[i].residual > 0 THEN w ELSE i,
                                    amount |-> Size(items[i].residual), debitCur |-> 0, creditCur |-> 0])
     /\ Accounting(u, Idle)
     /\ UNCHANGED <<rateTable, revaluations, shown>>
-----------------------------------------------------------------------------
(* revalue_currency_balances: the open lines are read, and for each of them *)
(* an adjustment is posted and its reversal made as a draft.                *)
RevalueBegin(u) ==
  /\ AtRest
  /\ Accounting(u, [op |-> "revalue", from |-> Len(revaluations), todo |-> {i \in DOMAIN items : items[i].cur # 0 /\ items[i].residual # 0}])
  /\ shown' = -1
  /\ UNCHANGED <<rateTable, items, matches, revaluations>>

\* What the account is debited with, for a line that is worth `diff' more.
Adjustment(i, diff) ==
  LET isReceivableSide == items[i].residual >= 0
      isGain == (diff > 0) <=> isReceivableSide
      targetIsDebit == isReceivableSide <=> isGain
  IN IF targetIsDebit THEN Size(diff) ELSE -Size(diff)

RevalueLine(u, i) ==
  LET c == accounting[u]
      diff == Size(items[i].cur) * RateOn(today) - Size(items[i].residual)
  IN /\ c.op = "revalue" /\ i \in c.todo /\ Len(revaluations) < MaxRevaluations
     /\ IF RateOn(today) = 0 \/ diff = 0
        THEN /\ Accounting(u, [c EXCEPT !.todo = @ \ {i}])
             /\ UNCHANGED revaluations
        ELSE /\ revaluations' = Append(revaluations, [item |-> i, date |-> today, reversal |-> "none",
                                                      amount |-> Adjustment(i, diff), undone |-> 0])
             /\ Accounting(u, [c EXCEPT !.op = "undo", !.todo = @ \ {i}])
     /\ UNCHANGED <<rateTable, items, matches, shown>>
DraftReversalSame(u) ==
  LET last == Len(revaluations)
  IN /\ accounting[u].op = "undo"
     /\ revaluations' = [revaluations EXCEPT ![last].reversal = "draft", ![last].undone = @ + revaluations[last].amount]
     /\ Accounting(u, [accounting[u] EXCEPT !.op = "revalue"])
     /\ UNCHANGED <<rateTable, items, matches, shown>>
DraftReversal(u) ==
  LET last == Len(revaluations)
  IN /\ accounting[u].op = "undo"
     /\ revaluations' = [revaluations EXCEPT ![last].reversal = "draft", ![last].undone = -revaluations[last].amount]
     /\ Accounting(u, [accounting[u] EXCEPT !.op = "revalue"])
     /\ UNCHANGED <<rateTable, items, matches, shown>>
RevalueEnd(u) ==
  /\ accounting[u].op = "revalue" /\ accounting[u].todo = {}
  /\ Accounting(u, Idle) /\ shown' = accounting[u].from
  /\ UNCHANGED <<rateTable, items, matches, revaluations>>

\* Someone posts a reversal; a call ends early.
PostReversal(k) ==
  /\ AtRest /\ revaluations[k].reversal = "draft"
  /\ revaluations' = [revaluations EXCEPT ![k].reversal = "posted"]
  /\ shown' = -1
  /\ UNCHANGED <<rateTable, items, matches, accounting>>
AccountingStops(u) ==
  /\ accounting[u] # Idle
  /\ Accounting(u, Idle)
  /\ UNCHANGED <<rateTable, items, matches, revaluations, shown>>

CurrencyNext ==
  \/ /\ \/ \E d \in 0 .. today, rate \in Rates : EnterRate(d, rate)
        \/ \E account \in {"receivable", "payable"}, n \in ForeignAmounts :
             PostForeign(account, n) \/ PostForeign(account, -n)
        \/ \E k \in DOMAIN revaluations : PostReversal(k)
        \/ \E u \in Clerks :
             \/ \E d, c \in DOMAIN items : MatchBegin(u, d, c)
             \/ \E i \in DOMAIN items : RevalueLine(u, i)
             \/ MatchWrite(u) \/ PostResult(u) \/ SettleResult(u)
             \/ RevalueBegin(u) \/ DraftReversal(u) \/ RevalueEnd(u) \/ AccountingStops(u)
     /\ UNCHANGED workdayVars
  \/ NextDay /\ shown' = -1 /\ UNCHANGED <<rateTable, items, matches, revaluations, accounting>>
CurrencySpec == CurrencyInit /\ WorkdayInit /\ [][CurrencyNext]_<<currencyVars, workdayVars>>
-----------------------------------------------------------------------------
PostedItem(k) == IF revaluations[k].reversal = "posted" THEN revaluations[k].undone ELSE 0
\* A line's balance on its account, with all that revaluations have posted for it.
OnAccount(i) ==
  items[i].balance + Summed({k \in DOMAIN revaluations : revaluations[k].item = i},
                             LAMBDA k : revaluations[k].amount + PostedItem(k))

\* What is left of a line in company currency is what is left of it in its own, at
\* the rate it was booked, through any number of matches with lines of other rates,
\* until an exchange result closes it.
LeftAtBookedRate ==
  LET closed == UNION {{matches[m].debit, matches[m].credit} :
                         m \in {n \in DOMAIN matches : matches[n].debitCur = 0 /\ matches[n].creditCur = 0}}
  IN \A i \in DOMAIN items \ closed :
       LET left == items[i].cur - SharesOf(i)
       IN /\ items[i].residual * items[i].cur = items[i].balance * left
          /\ Size(left) <= Size(items[i].cur) /\ left * items[i].cur >= 0

\* Just after a revaluation that was not cut short, the account shows each invoice
\* at today's rate, whatever earlier revaluations posted and had reversed; while
\* nothing is matched, and no bill or payment is open, whose adjustment goes the
\* wrong way in the code.
ShownAtClosingRate ==
  shown >= 0 /\ matches = <<>>
  /\ (\A i \in DOMAIN items : items[i].residual > 0)
  /\ (\A k \in 1 .. shown : revaluations[k].reversal = "posted") =>
    \A i \in DOMAIN items : OnAccount(i) = items[i].cur * RateOn(today)

\* "The gap is a realized exchange gain/loss, not a real open balance": where the
\* rate has never changed there is no exchange result.
NoDriftNoResult ==
  Cardinality({rateTable[d] : d \in 0 .. today} \ {0}) <= 1 =>
    \A i \in DOMAIN items : items[i].cur # 0
=============================================================================
