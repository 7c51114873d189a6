---------------------------- MODULE PaymentTerms ----------------------------
(***************************************************************************)
(* The lines of a payment term, edited one at a time, and the instalments  *)
(* they divide an invoice into (account.payment.term). A line is checked   *)
(* against the others in one transaction and stored in another. Dates are  *)
(* day numbers; discounts of instalments are left out.                     *)
(***************************************************************************)
EXTENDS Workday, Sequences, Sums

CONSTANTS
  Editors,                    \* users that edit the term
  Percents, Fixed, Days,      \* amounts and numbers of days of lines
  MonthEnds,                  \* last day of every month of the calendar
  Invoices,                   \* totals of invoices, in cents
  MaxTermLines                \* bound

VARIABLES
  termLines,  \* account_payment_term_line rows of one term, by sequence
  editing     \* what each user's call has checked and stores next

termVars == <<termLines, editing>>

DelayTypes == {"days_after", "days_after_end_of_month", "days_after_end_of_next_month", "days_end_of_month_on_the"}
ASSUME TermsAssumption ==
  /\ Percents \cup Fixed \cup Days \cup MonthEnds \cup Invoices \subseteq Nat /\ MaxTermLines \in Nat
  /\ IsFiniteSet(MonthEnds) /\ \E e, f \in MonthEnds : LastDay < e /\ e < f

TermsInit == termLines = <<>> /\ editing = [u \in Editors |-> Idle]

Edits(u, c) == editing' = [editing EXCEPT ![u] = c]
TermLine(value, amount, delay, days, next) ==
  [value |-> value, amount |-> amount, delay |-> delay, days |-> days, next |-> next]
-----------------------------------------------------------------------------
(* _compute_due_date *)
EndOfMonth(d) == Min({e \in MonthEnds : e >= d})
NextMonthEnd(d) == EndOfMonth(EndOfMonth(d) + 1)
StartOfMonth(end) == Max({e + 1 : e \in {e \in MonthEnds : e < end}} \cup {0})
Length(end) == end - StartOfMonth(end) + 1

\* The day is clamped within the month it falls in. (FR-019)
DayOfMonthOwn(l, d) ==
  LET target == IF l.next THEN NextMonthEnd(d) ELSE EndOfMonth(d)
  IN StartOfMonth(target) + Min({l.days, Length(EndOfMonth(d))}) - 1
DayOfMonth(l, d) ==
  LET target == IF l.next THEN NextMonthEnd(d) ELSE EndOfMonth(d)
  IN StartOfMonth(target) + Min({l.days, Length(target)}) - 1
DueDate(l, d) ==
  CASE l.delay = "days_after" -> d + l.days
    [] l.delay = "days_after_end_of_month" -> EndOfMonth(d) + l.days
    [] l.delay = "days_after_end_of_next_month" -> NextMonthEnd(d) + l.days
    [] l.delay = "days_end_of_month_on_the" -> DayOfMonth(l, d)

(* compute_installments *)
Percentage(l) == IF l.value = "percent" THEN l.amount ELSE 0
Sum100(lines) == SumAll([i \in DOMAIN lines |-> Percentage(lines[i])])
Refused == Sum100(termLines) # 100 /\ \E i \in DOMAIN termLines : termLines[i].value = "percent"
\* Decimal.quantize rounds half to even.
Quantized(n, by) ==
  LET q == n \div by  twice == 2 * (n % by)
  IN IF twice > by \/ (twice = by /\ q % 2 = 1) THEN q + 1 ELSE q
Share(l, total) == IF l.value = "fixed" THEN l.amount ELSE Quantized(total * l.amount, 100)
\* The last instalment is what remains.
Instalments(total) ==
  LET n == Len(termLines)
      before == SumAll([i \in 1 .. n - 1 |-> Share(termLines[i], total)])
  IN [i \in 1 .. n |-> IF i = n THEN total - before ELSE Share(termLines[i], total)]
-----------------------------------------------------------------------------
(* Editing *)
\* _check_percent_sum: with the other lines, all but the one that is written.
OthersSum(except) ==
  Sum100([i \in DOMAIN termLines |-> IF i = except THEN [termLines[i] EXCEPT !.amount = 0] ELSE termLines[i]])
CheckedPercent(value, amount, except) == value = "percent" => OthersSum(except) + amount <= 100

AddBegin(u, line) ==
  /\ MayCall(editing, u) /\ Len(termLines) < MaxTermLines
  /\ CheckedPercent(line.value, line.amount, 0)
  /\ Edits(u, [op |-> "add", line |-> line])
  /\ UNCHANGED termLines
AddStore(u) ==
  /\ editing[u].op = "add"
  /\ termLines' = Append(termLines, editing[u].line)
  /\ Edits(u, Idle)

\* write: each line is checked against the others as they are, then all are written.
WriteBegin(u, ids, value, amount) ==
  /\ MayCall(editing, u)
  /\ \A i \in ids : CheckedPercent(value, amount, i)
  /\ Edits(u, [op |-> "write", ids |-> ids, value |-> value, amount |-> amount])
  /\ UNCHANGED termLines
WriteStore(u) ==
  LET c == editing[u]
  IN /\ c.op = "write"
     /\ termLines' = [i \in DOMAIN termLines |->
                        IF i \in c.ids THEN [termLines[i] EXCEPT !.value = c.value, !.amount = c.amount]
                        ELSE termLines[i]]
     /\ Edits(u, Idle)
EditStops(u) == editing[u] # Idle /\ Edits(u, Idle) /\ UNCHANGED termLines

TermsNext ==
  /\ \E u \in Editors :
       \/ \E value \in {"percent", "fixed"} : \E amount \in IF value = "percent" THEN Percents ELSE Fixed :
            \/ \E delay \in DelayTypes, days \in Days, next \in BOOLEAN :
                 AddBegin(u, TermLine(value, amount, delay, days, next))
            \/ \E ids \in (SUBSET DOMAIN termLines) \ {{}} : WriteBegin(u, ids, value, amount)
       \/ AddStore(u) \/ WriteStore(u) \/ EditStops(u)
  /\ UNCHANGED workdayVars
TermsSpec == TermsInit /\ WorkdayInit /\ [][TermsNext]_<<termVars, workdayVars>>
-----------------------------------------------------------------------------
\* A write of several lines checks each against the others as they were.
OneLineWritten == \A u \in Editors : editing[u].op = "write" => \E i \in DOMAIN termLines : editing[u].ids = {i}

\* What the instalments of an invoice come to, and how far from its share each is.
Fair(total) ==
  LET parts == Instalments(total)
      n == Len(termLines)
      off(i) == 100 * parts[i] - total * termLines[i].amount
  IN n > 0 =>
       /\ SumAll(parts) = total
       /\ \A i \in 1 .. n - 1 : off(i) \in -50 .. 50
       /\ off(n) \in -50 * (n - 1) .. 50 * (n - 1)
DueInMonth(l, d) ==
  LET due == DueDate(l, d)
  IN l.delay = "days_end_of_month_on_the" /\ l.days > 0 =>
       /\ EndOfMonth(due) = IF l.next THEN NextMonthEnd(d) ELSE EndOfMonth(d)
       /\ due < EndOfMonth(due) => due = StartOfMonth(EndOfMonth(due)) + l.days - 1

\* Edited one line at a time, a term never shares out more than all of an invoice;
\* of percentages alone each instalment is its share but for rounding, the last one
\* for all of it, and they add up; and an instalment due on a day of a month falls in
\* that month, on its last day at the latest.
TermFair ==
  exclusive =>
    /\ Sum100(termLines) <= 100
    /\ ~Refused /\ (\A i \in DOMAIN termLines : termLines[i].value = "percent") =>
         \A total \in Invoices : Fair(total)
    /\ \A i \in DOMAIN termLines, d \in 0 .. LastDay : DueInMonth(termLines[i], d)
=============================================================================
