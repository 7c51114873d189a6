------------------------------- MODULE Ledger -------------------------------
(***************************************************************************)
(* What the accounting of one company adds up to: reversals, debit notes   *)
(* and the closing of a fiscal year make entries from what was posted, and *)
(* the reports read it (account.move, account.report.*, account_partner).  *)
(* Posting itself is AccountMove's and InvoiceLines' subject: here it is   *)
(* one step, with what it does to taxes and to the receivable line.        *)
(***************************************************************************)
EXTENDS Workday, Sequences, SequencesExt, Sums

CONSTANTS
  Bookkeepers,       \* users whose calls reverse and close
  AccountType,       \* account -> type
  YearEnds,          \* last day of each fiscal year
  TaxOf(_),          \* the tax on a price
  Sizes, DueDates,   \* amounts and due dates of the documents
  MaxEntries         \* bound on the moves

VARIABLES
  entries,   \* account_move rows with the balance of their lines by account
  closing,   \* what each user's call has read and does next
  closed     \* history: the years closed since something was posted in them

ledgerVars == <<entries, closing, closed>>

Accounts == DOMAIN AccountType
PLTypes == {"income", "expense"}
ASSUME LedgerAssumption ==
  /\ {"receivable", "cash", "tax", "sales", "costs", "retained"} = Accounts
  /\ AccountType.sales = "income" /\ AccountType.costs = "expense"
  /\ \A a \in Accounts \ {"sales", "costs"} : AccountType[a] \in {"asset", "liability", "equity"}
  /\ YearEnds \subseteq 0 .. LastDay /\ LastDay \in YearEnds /\ MaxEntries \in Nat
  /\ Sizes \subseteq Nat /\ DueDates \subseteq Int

Nothing == [a \in Accounts |-> 0]
Of2(a, x, b, y) == [Nothing EXCEPT ![a] = x, ![b] = y]
Entry(type, date, lines) ==
  [type |-> type, date |-> date, lines |-> lines, state |-> "draft", bears |-> FALSE,
   residual |-> 0, due |-> date, origin |-> 0]

LedgerInit ==
  /\ entries = <<>> /\ closed = {}
  /\ closing = [u \in Bookkeepers |-> Idle]

Keeps(u, c) == closing' = [closing EXCEPT ![u] = c]
Quiet == exclusive => \A u \in Bookkeepers : closing[u] = Idle
Total(S, f(_)) == SumOf([x \in S |-> f(x)], S)
-----------------------------------------------------------------------------
(* Fiscal years *)
YearEnd(d) == Min({e \in YearEnds : e >= d})
\* company_fiscal_year_start: the day after the end of the year before.
YearStart(d) == Max({e + 1 : e \in {e \in YearEnds : e < d}} \cup {0})

(* Posting: the tax lines of a document are made again from the taxes its   *)
(* product lines bear, and then the receivable line that balances them.     *)
InPosted(e) ==
  IF e.type = "entry" THEN [e EXCEPT !.state = "posted"]
  ELSE LET tax == IF e.bears THEN TaxOf(e.lines.sales) ELSE 0
           owed == -(e.lines.sales + tax)
       IN [e EXCEPT !.state = "posted", !.lines.tax = tax, !.lines.receivable = owed, !.residual = owed]
HitsPL(e) == \E a \in Accounts : AccountType[a] \in PLTypes /\ e.lines[a] # 0
Reopened(e) == IF HitsPL(e) THEN closed \ {YearEnd(e.date)} ELSE closed

\* An invoice, or an expense paid at once, is made and posted.
PostNew(e) ==
  /\ Quiet /\ Len(entries) < MaxEntries
  /\ entries' = Append(entries, InPosted(e))
  /\ closed' = Reopened(e)
  /\ UNCHANGED closing
Invoice(size, taxed, due) ==
  PostNew([Entry("invoice", today, [Nothing EXCEPT !.sales = -size]) EXCEPT !.bears = taxed, !.due = due])
Expense(size) == PostNew(Entry("entry", today, Of2("costs", size, "cash", -size)))

\* A payment is made and posted: all of it is left until it is matched, if ever.
Pay(size) ==
  PostNew([Entry("entry", today, Of2("receivable", -size, "cash", size)) EXCEPT !.residual = -size])

\* reconcile_lines: what is owed is matched with a payment or a credit note. Matches take
\* turns here: what overlapping ones do is in Reconciliation and Payments.
Settle(i, j, amount) ==
  /\ Quiet
  /\ entries[i].state = "posted" /\ amount <= entries[i].residual
  /\ entries[j].state = "posted" /\ amount <= -entries[j].residual
  /\ entries' = [entries EXCEPT ![i].residual = @ - amount, ![j].residual = @ + amount]
  /\ UNCHANGED <<closing, closed>>

\* A draft that a call left is posted.
PostDraft(i) ==
  /\ Quiet /\ entries[i].state = "draft"
  /\ entries' = [entries EXCEPT ![i] = InPosted(@)]
  /\ closed' = Reopened(entries[i])
  /\ UNCHANGED closing
-----------------------------------------------------------------------------
(* action_reverse: read, make the reversal with the amounts turned round,   *)
(* post it unless it is to stay a draft. The taxes of lines are not copied. *)
Opposite == [entry |-> "entry", invoice |-> "refund", refund |-> "invoice"]
Turned(lines) == [a \in Accounts |-> -lines[a]]

ReverseBegin(u, i, post) ==
  LET e == entries[i]
  IN /\ MayCall(closing, u) /\ Len(entries) < MaxEntries
     /\ e.state = "posted"
     /\ Keeps(u, [op |-> "make", post |-> post, at |-> 0,
                  entry |-> [Entry(Opposite[e.type], today, Turned(e.lines)) EXCEPT !.origin = i]])
     /\ UNCHANGED <<entries, closed>>

\* action_create_debit_note: a draft with the product lines and their taxes.
DebitNote(u, i) ==
  LET e == entries[i]
  IN /\ MayCall(closing, u) /\ Len(entries) < MaxEntries
     /\ e.state = "posted" /\ e.type # "entry"
     /\ Keeps(u, [op |-> "make", post |-> FALSE, at |-> 0,
                  entry |-> [Entry(e.type, today, [Nothing EXCEPT !.sales = e.lines.sales])
                               EXCEPT !.bears = e.bears]])
     /\ UNCHANGED <<entries, closed>>
-----------------------------------------------------------------------------
(* Reports: everything is computed from posted lines. *)
Posted == {i \in DOMAIN entries : entries[i].state = "posted"}
Net(a, from, to) ==
  Total({i \in Posted : entries[i].date \in from .. to}, LAMBDA i : entries[i].lines[a])
NetOfTypes(types, from, to) ==
  Total({a \in Accounts : AccountType[a] \in types}, LAMBDA a : Net(a, from, to))

\* Trial balance and general ledger: what was posted before the period, and in it.
TrialBalance(a, from, to) ==
  LET during == {i \in Posted : entries[i].date \in from .. to}
  IN [opening |-> Net(a, 0, from - 1),
      debit |-> Total(during, LAMBDA i : Max({entries[i].lines[a], 0})),
      credit |-> Total(during, LAMBDA i : Max({-entries[i].lines[a], 0}))]
NetProfit(from, to) == -NetOfTypes({"income"}, from, to) - NetOfTypes({"expense"}, from, to)
\* Balance sheet: what was earned in the year of the date, and all else until then.
BalanceSheet(d) ==
  [assets |-> NetOfTypes({"asset"}, 0, d),
   liabilities |-> -NetOfTypes({"liability"}, 0, d),
   equity |-> -NetOfTypes({"equity"}, 0, d) + NetProfit(YearStart(d), d)]

BucketFor(days) ==
  CASE days <= 0 -> "current" [] days \in 1 .. 30 -> "b_0_30" [] days \in 31 .. 60 -> "b_31_60"
    [] days \in 61 .. 90 -> "b_61_90" [] days > 90 -> "b_90_plus"
Buckets == {"current", "b_0_30", "b_31_60", "b_61_90", "b_90_plus"}
\* Aged report: the amounts left on documents and on payments, as magnitudes.
Open(d) == {i \in Posted : entries[i].residual # 0 /\ entries[i].date <= d}
Magnitude(n) == IF n < 0 THEN -n ELSE n
Aged(b, d) ==
  Total({i \in Open(d) : BucketFor(d - entries[i].due) = b}, LAMBDA i : Magnitude(entries[i].residual))
\* The ledger of the partner: what is left of its documents, a credit note as less. What
\* is left of payments is not in it.
PartnerBalanceUnsigned ==
  Total({i \in Posted : entries[i].type # "entry"}, LAMBDA i : Magnitude(entries[i].residual))
PartnerBalance == Total({i \in Posted : entries[i].type # "entry"}, LAMBDA i : entries[i].residual)
-----------------------------------------------------------------------------
(* close_fiscal_year: read the result of the year by account, make an entry *)
(* that takes it to retained earnings, post it.                             *)
ResultsEver(end) ==
  [a \in Accounts |-> IF AccountType[a] \in PLTypes THEN Net(a, 0, end) ELSE 0]
Results(end) ==
  [a \in Accounts |-> IF AccountType[a] \in PLTypes THEN Net(a, YearStart(end), end) ELSE 0]
CloseBegin(u, end) ==
  LET of == Results(end)
      net == Total(Accounts, LAMBDA a : of[a])
  IN /\ MayCall(closing, u) /\ Len(entries) < MaxEntries
     /\ \E a \in Accounts : of[a] # 0
     /\ Keeps(u, [op |-> "make", post |-> TRUE, at |-> 0, year |-> end,
                  entry |-> Entry("entry", end, [Turned(of) EXCEPT !.retained = net])])
     /\ UNCHANGED <<entries, closed>>

\* The draft that a reversal, a debit note or a closing makes, and its posting.
MakeDraft(u) ==
  LET c == closing[u]
  IN /\ c.op = "make"
     /\ entries' = Append(entries, c.entry)
     /\ Keeps(u, IF c.post THEN [c EXCEPT !.op = "post", !.at = Len(entries) + 1] ELSE Idle)
     /\ UNCHANGED closed
PostMade(u) ==
  LET c == closing[u]
  IN /\ c.op = "post" /\ entries[c.at].state = "draft"
     /\ entries' = [entries EXCEPT ![c.at] = InPosted(@)]
     /\ closed' = IF "year" \in DOMAIN c THEN closed \cup {c.year} ELSE Reopened(entries[c.at])
     /\ Keeps(u, Idle)
\* A call ends early, or finds its draft posted already.
CallEnds(u) ==
  /\ closing[u] # Idle
  /\ Keeps(u, Idle)
  /\ UNCHANGED <<entries, closed>>

LedgerNext ==
  \/ /\ \/ \E size \in Sizes :
             \/ \E taxed \in BOOLEAN, due \in DueDates \cup {today} : Invoice(size, taxed, due)
             \/ Expense(size) \/ Pay(size)
        \/ \E i, j \in DOMAIN entries : \E amount \in 1 .. entries[i].residual : Settle(i, j, amount)
        \/ \E i \in DOMAIN entries : PostDraft(i)
        \/ \E u \in Bookkeepers :
             \/ \E i \in DOMAIN entries, post \in BOOLEAN : ReverseBegin(u, i, post)
             \/ \E i \in DOMAIN entries : DebitNote(u, i)
             \/ \E end \in {e \in YearEnds : e <= today} : CloseBegin(u, end)
             \/ MakeDraft(u) \/ PostMade(u) \/ CallEnds(u)
     /\ UNCHANGED workdayVars
  \/ NextDay /\ UNCHANGED ledgerVars
LedgerSpec == LedgerInit /\ WorkdayInit /\ [][LedgerNext]_<<ledgerVars, workdayVars>>
-----------------------------------------------------------------------------
\* The balance sheet of any date has the assets of the trial balance of its year, and
\* balances once every earlier year in which there
\* is a result has been closed, and closing one leaves it no result: whatever was
\* reversed, left as a draft and posted, or posted into the years between, as long
\* as calls do not overlap.
SheetBalances ==
  exclusive =>
    \A d \in 0 .. today :
      LET sheet == BalanceSheet(d)
          before == {e \in YearEnds : e < YearStart(d)}
          all == [a \in Accounts |-> TrialBalance(a, YearStart(d), d)]
          shown(a) == all[a].opening + all[a].debit - all[a].credit
          unclosed == {e \in before \ closed : \E i \in Posted : YearEnd(entries[i].date) = e /\ HitsPL(entries[i])}
      IN /\ sheet.assets = Total({a \in Accounts : AccountType[a] = "asset"}, shown)
         /\ unclosed = {} => sheet.assets = sheet.liabilities + sheet.equity
         /\ \A e \in closed \cap before : \A a \in Accounts : Results(e)[a] = 0

\* The receivable account is what the partner owes by its documents, less what is left of
\* its payments: posted, matched in part, with several documents or not at all; but for
\* the reversals of payments, which leave the documents as they are. And the aged report
\* puts all of what is open in one bucket each, unless a payment or a credit note is open.
Payments == {i \in Posted : entries[i].type = "entry" /\ entries[i].origin = 0}
Reversals == {i \in Posted : entries[i].type = "entry" /\ entries[i].origin # 0}
OpenItemsAgree ==
  /\ Net("receivable", 0, LastDay) =
       PartnerBalance + Total(Payments, LAMBDA i : entries[i].residual)
         + Total(Reversals, LAMBDA i : entries[i].lines.receivable)
  /\ \A d \in 0 .. today :
       (\A i \in Open(d) : entries[i].residual > 0) =>
         Total(Buckets, LAMBDA b : Aged(b, d)) = Total(Open(d), LAMBDA i : entries[i].residual)
=============================================================================
