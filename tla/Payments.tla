------------------------------- MODULE Payments -------------------------------
(***************************************************************************)
(* Payments of invoices: posting a payment with its journal entry, and     *)
(* registering it against a list of invoices, with early discounts.        *)
(*                                                                         *)
(* Each call is a sequence of transactions and may end after any of them.  *)
(* The residual of the payment is read once for the whole list; a match is *)
(* one action here and its transactions are Reconciliation's subject.      *)
(***************************************************************************)
EXTENDS Integers, Sequences, Sums

CONSTANTS
  Payments, Invoices,
  NoPayment,       \* the payment of a discount entry
  Requests,        \* calls in flight
  Paid, Totals,    \* amounts of payments, totals of invoices
  Percent,         \* early discount of the payment term, 0 for none
  MaxEntries,      \* bound: journal entries made
  MaxMatches,      \* bound: partial reconciles made
  SharedUndo       \* unreconcile is called for lines whose counterparts have other matches

ASSUME ConstantsOK ==
  /\ NoPayment \notin Payments /\ Percent \in 0..100 /\ Invoices \cap (1..MaxEntries) = {}
  /\ Paid \cup Totals \subseteq Nat \ {0} /\ MaxEntries \in Nat /\ MaxMatches \in Nat
  /\ SharedUndo \in BOOLEAN

VARIABLES
  due,       \* amount of each payment, total of each posted invoice
  early,     \* payments dated inside the discount window
  state,     \* account_payment.state
  moveOf,    \* account_payment.move_id, 0 for NULL
  entries,   \* journal entries of payments and discounts: [payment, posted, amount]
  open,      \* |amount_residual| of the AR/AP lines of invoices and entries
  partials,  \* account_partial_reconcile: [id, invoice, entry, amount], and how it came about
  made,      \* ids of partials given out
  status,    \* account_move.payment_state of invoices
  req        \* calls in flight

vars == <<due, early, state, moveOf, entries, open, partials, made, status, req>>

EntryIds == 1..MaxEntries
Lists == UNION {{s \in [1..n -> Invoices] : \A i, j \in 1..n : i # j => s[i] # s[j]} :
                n \in 1..Cardinality(Invoices)}

Smaller(a, b) == IF a < b THEN a ELSE b

\* A call: its payment, the entry it works with, the invoices left, what it read of the
\* payment's residual, and what it takes the first invoice to owe
Call(step, p, e, list, seen, owed) ==
  [step |-> step, payment |-> p, entry |-> e, list |-> list, seen |-> seen, owed |-> owed]
Idle == Call("idle", NoPayment, 0, <<>>, 0, 0)

Init ==
  /\ due \in [Payments \cup Invoices -> Paid \cup Totals]
  /\ \A p \in Payments : due[p] \in Paid
  /\ \A i \in Invoices : due[i] \in Totals
  /\ early \in SUBSET Payments
  /\ state = [p \in Payments |-> "draft"]
  /\ moveOf = [p \in Payments |-> 0]
  /\ entries = <<>>
  /\ open = [x \in Invoices \cup EntryIds |-> IF x \in Invoices THEN due[x] ELSE 0]
  /\ partials = {} /\ made = 0
  /\ status = [i \in Invoices |-> "not_paid"]
  /\ req = [r \in Requests |-> Idle]

At(r, step) == req[r].step = step
Set(r, call) == req' = [req EXCEPT ![r] = call]
Goto(r, step) == req' = [req EXCEPT ![r].step = step]

AddEntry(p, posted, amount) ==
  /\ Len(entries) < MaxEntries
  /\ entries' = Append(entries, [payment |-> p, posted |-> posted, amount |-> amount])
  /\ open' = [open EXCEPT ![Len(entries) + 1] = amount]
-----------------------------------------------------------------------------
(* action_post *)

\* Variant: any payment may be posted
PostBeginAnyState(r, p) ==
  /\ At(r, "idle")
  /\ Set(r, Call("create", p, 0, <<>>, 0, 0))
  /\ UNCHANGED <<due, early, state, moveOf, entries, open, partials, made, status>>

PostBegin(r, p) ==
  /\ At(r, "idle")
  /\ state[p] = "draft"
  /\ Set(r, Call("create", p, 0, <<>>, 0, 0))
  /\ UNCHANGED <<due, early, state, moveOf, entries, open, partials, made, status>>

PostCreate(r) ==
  LET p == req[r].payment
  IN /\ At(r, "create")
     /\ AddEntry(p, FALSE, due[p])
     /\ Set(r, Call("entry", p, Len(entries) + 1, <<>>, 0, 0))
     /\ UNCHANGED <<due, early, state, moveOf, partials, made, status>>

\* AccountMove.action_post of the entry
PostEntry(r) ==
  /\ At(r, "entry")
  /\ entries' = [entries EXCEPT ![req[r].entry].posted = TRUE]
  /\ Goto(r, "mark")
  /\ UNCHANGED <<due, early, state, moveOf, open, partials, made, status>>

PostMark(r) ==
  LET p == req[r].payment
  IN /\ At(r, "mark")
     /\ state' = [state EXCEPT ![p] = "posted"]
     /\ moveOf' = [moveOf EXCEPT ![p] = req[r].entry]
     /\ Set(r, Idle)
     /\ UNCHANGED <<due, early, entries, open, partials, made, status>>
-----------------------------------------------------------------------------
(* reconcile_lines and unreconcile *)

Most(i, e) == Smaller(open[i], open[e])

\* Variant: no cap by the residuals
MatchUncapped(i, e, amount, how) ==
  /\ made < MaxMatches
  /\ made' = made + 1
  /\ partials' = partials \cup {[id |-> made + 1, invoice |-> i, entry |-> e, amount |-> amount, how |-> how]}
  /\ open' = [open EXCEPT ![i] = @ - amount, ![e] = @ - amount]

Match(i, e, amount, how) ==
  /\ amount <= Most(i, e) /\ made < MaxMatches
  /\ made' = made + 1
  /\ partials' = partials \cup {[id |-> made + 1, invoice |-> i, entry |-> e, amount |-> amount, how |-> how]}
  /\ open' = [open EXCEPT ![i] = @ - amount, ![e] = @ - amount]

Of(x) == {q \in partials : q.invoice = x \/ q.entry = x}

\* POST /account/reconcile: the line of any posted entry, also of one that no payment points
\* to; the status of the invoice stays
Reconcile(i, e, amount) ==
  /\ entries[e].posted
  /\ Match(i, e, amount, "hand")
  /\ UNCHANGED <<due, early, state, moveOf, entries, status, req>>

Unreconcile(i) ==
  LET affected == {i} \cup {q.entry : q \in Of(i)}
  IN /\ Of(i) # {}
     /\ SharedUndo \/ \A x \in affected : Of(x) \subseteq Of(i)
     /\ partials' = partials \ Of(i)
     /\ open' = [x \in DOMAIN open |->
                   IF x \notin affected THEN open[x]
                   ELSE IF x = i THEN due[i] ELSE entries[x].amount]
     /\ UNCHANGED <<due, early, state, moveOf, entries, made, status, req>>
-----------------------------------------------------------------------------
(* register_against_invoices *)

RegisterBegin(r, p, list) ==
  /\ At(r, "idle")
  /\ state[p] = "posted"
  /\ Set(r, Call("look", p, moveOf[p], list, open[moveOf[p]], 0))
  /\ UNCHANGED <<due, early, state, moveOf, entries, open, partials, made, status>>

\* What is left of a call after its first invoice
Rest(q) ==
  IF Len(q.list) = 1 THEN Idle
  ELSE Call("look", q.payment, moveOf[q.payment], Tail(q.list), q.seen, 0)

Discount(n) == (n * Percent) \div 100

Look(r) ==
  LET q == req[r]
      owed == open[Head(q.list)]
  IN /\ At(r, "look")
     /\ Set(r, Call(IF q.payment \in early /\ Discount(owed) > 0 THEN "discount" ELSE "match",
                    q.payment, q.entry, q.list, q.seen, owed))
     /\ UNCHANGED <<due, early, state, moveOf, entries, open, partials, made, status>>

\* _apply_early_discount: the discount's entry is posted, then matched.
DiscountEntry(r) ==
  LET q == req[r]
  IN /\ At(r, "discount")
     /\ AddEntry(NoPayment, TRUE, Discount(q.owed))
     /\ Set(r, Call("take", q.payment, Len(entries) + 1, q.list, q.seen, q.owed))
     /\ UNCHANGED <<due, early, state, moveOf, partials, made, status>>

DiscountMatch(r) ==
  LET q == req[r]
      d == Discount(q.owed)
  IN /\ At(r, "take")
     /\ Match(Head(q.list), q.entry, d, "discount")
     /\ Set(r, Call("match", q.payment, moveOf[q.payment], q.list, q.seen, q.owed - d))
     /\ UNCHANGED <<due, early, state, moveOf, entries, status>>

Wanted(q) == Smaller(q.seen, q.owed)

RegisterMatch(r) ==
  LET q == req[r]
  IN /\ At(r, "match")
     /\ \/ /\ Wanted(q) = 0
           /\ Set(r, Rest(q))
           /\ UNCHANGED <<open, partials, made>>
        \/ /\ Wanted(q) > 0
           /\ Match(Head(q.list), q.entry, Wanted(q), "registration")
           /\ Goto(r, "status")
     /\ UNCHANGED <<due, early, state, moveOf, entries, status>>

\* _compute_payment_state
PaymentState(i) ==
  IF open[i] = 0 THEN "paid" ELSE IF open[i] >= due[i] THEN "not_paid" ELSE "partial"

RegisterStatus(r) ==
  LET q == req[r]
  IN /\ At(r, "status")
     /\ status' = [status EXCEPT ![Head(q.list)] = PaymentState(Head(q.list))]
     /\ Set(r, Rest(q))
     /\ UNCHANGED <<due, early, state, moveOf, entries, open, partials, made>>

\* A match that is refused, and any other end of a call
Fails(r) ==
  /\ ~At(r, "idle")
  /\ Set(r, Idle)
  /\ UNCHANGED <<due, early, state, moveOf, entries, open, partials, made, status>>

Next ==
  \/ \E r \in Requests :
       \/ PostCreate(r) \/ PostEntry(r) \/ PostMark(r) \/ Look(r) \/ DiscountEntry(r)
       \/ DiscountMatch(r) \/ RegisterMatch(r) \/ RegisterStatus(r) \/ Fails(r)
       \/ \E p \in Payments : PostBegin(r, p) \/ \E list \in Lists : RegisterBegin(r, p, list)
  \/ \E i \in Invoices :
       \/ Unreconcile(i)
       \/ \E e \in DOMAIN entries : \E amount \in 1..Most(i, e) : Reconcile(i, e, amount)

Spec == Init /\ [][Next]_vars
-----------------------------------------------------------------------------
Matched(x) == SumOf([q \in partials |-> q.amount], Of(x))

\* Types of the columns and of what calls remember.
TypeOK ==
  /\ state \in [Payments -> {"draft", "posted"}]
  /\ moveOf \in [Payments -> 0..MaxEntries]
  /\ entries \in Seq([payment : Payments \cup {NoPayment}, posted : BOOLEAN, amount : Nat])
  /\ open \in [Invoices \cup EntryIds -> Nat]
  /\ partials \subseteq [id : 1..MaxMatches, invoice : Invoices, entry : EntryIds, amount : Nat \ {0},
                  how : {"registration", "discount", "hand"}]
  /\ status \in [Invoices -> {"not_paid", "partial", "paid"}]
  /\ \A r \in Requests : /\ req[r].list \in Seq(Invoices) /\ req[r].seen \in Nat
                           /\ req[r].owed \in Nat /\ req[r].entry \in {0} \cup EntryIds

\* Nobody pays twice: what an invoice still owes and what is left of an entry are its
\* amount less its matches, never less than nothing - although one reading of the
\* payment's residual serves the whole list of invoices, and a discount comes first.
NeverOverpaid ==
  /\ \A i \in Invoices : open[i] = due[i] - Matched(i) /\ open[i] >= 0
  /\ \A e \in DOMAIN entries : open[e] = entries[e].amount - Matched(e) /\ open[e] >= 0

\* Invoices are settled by money that is booked: by posted entries, and a registration takes
\* for a payment the one entry the payment points to. What a call that ended early has left
\* behind, or a later posting replaced, is not what registrations settle with.
MoneyBooked ==
  \A q \in partials :
    LET e == entries[q.entry] IN
    /\ e.posted
    /\ q.how = "registration" =>
         e.payment # NoPayment /\ state[e.payment] = "posted" /\ moveOf[e.payment] = q.entry
=============================================================================
