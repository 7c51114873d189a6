---------------------------- MODULE Reconciliation ----------------------------
(***************************************************************************)
(* Matching of the receivable and payable lines of posted documents in one *)
(* currency: reconcile_lines with its optional write-off, and unreconcile. *)
(*                                                                         *)
(* reconcile_lines is a sequence of transactions: it reads the residuals,  *)
(* in another one it writes new ones computed from what it read, in more   *)
(* it posts the write-off and matches it by calling itself, and in the     *)
(* last it marks the lines.  A call may end between any two of them.       *)
(***************************************************************************)
EXTENDS Integers, Sums

CONSTANTS
  Debits, Credits,   \* posted lines of invoices and payments
  Spares,            \* ids of the lines that write-off entries will have
  NoLine,
  Requests,          \* calls of reconcile_lines in flight
  Balances,          \* absolute balances a line can have, in cents
  MaxMatches,        \* bound: partial reconciles created
  SharedUndo         \* unreconcile is called for lines whose counterparts have other matches

Lines == Debits \cup Credits \cup Spares

ASSUME ConstantsOK ==
  /\ Debits \cap Credits = {} /\ Spares \cap (Debits \cup Credits) = {}
  /\ NoLine \notin Lines
  /\ Balances \subseteq Nat \ {0} /\ MaxMatches \in Nat /\ SharedUndo \in BOOLEAN

VARIABLES
  balance,     \* debit - credit; 0 for a write-off line that does not exist yet
  residual,    \* amount_residual
  reconciled,  \* the flag
  full,        \* full_reconcile_id of a line, 0 for NULL
  partials,    \* account_partial_reconcile
  fulls,       \* ids in account_full_reconcile
  made,        \* ids of account_partial_reconcile given out
  req          \* calls in flight

vars == <<balance, residual, reconciled, full, partials, fulls, made, req>>

Ids == 1..MaxMatches

\* A full reconcile is created for one partial and gets its id here.
Partial == [id : Ids, debit : Lines, credit : Lines, amount : Nat, full : {0} \cup Ids]

AbsOf(n) == IF n < 0 THEN -n ELSE n
Smaller(a, b) == IF a < b THEN a ELSE b

Positive == {l \in Lines : balance[l] > 0}
Negative == {l \in Lines : balance[l] < 0}
Of(l) == {p \in partials : p.debit = l \/ p.credit = l}
Matched(ps) == SumOf([p \in partials |-> p.amount], ps)

\* A call: the residuals are what it read, later what it takes them to be; `outer` is
\* the call it was made by, for a write-off.
NoOuter == [debit |-> NoLine, credit |-> NoLine, id |-> 0, closes |-> FALSE]
Call(step, d, c, dres, cres, amount, writeOff, id, outer) ==
  [step |-> step, debit |-> d, credit |-> c, dres |-> dres, cres |-> cres,
   amount |-> amount, writeOff |-> writeOff, id |-> id, outer |-> outer]
NoRequest == Call("idle", NoLine, NoLine, 0, 0, 0, FALSE, 0, NoOuter)

Init ==
  /\ \E amount \in [Debits \cup Credits -> Balances] :
       balance = [l \in Lines |-> IF l \in Debits THEN amount[l]
                                  ELSE IF l \in Credits THEN -amount[l] ELSE 0]
  /\ residual = balance
  /\ reconciled = [l \in Lines |-> FALSE]
  /\ full = [l \in Lines |-> 0]
  /\ partials = {} /\ fulls = {} /\ made = 0
  /\ req = [r \in Requests |-> NoRequest]

At(r, step) == req[r].step = step
Set(r, call) == req' = [req EXCEPT ![r] = call]
-----------------------------------------------------------------------------
\* Variant: at most the residual of the debit line
ReadDebitCap(r, d, c, asked, writeOff, outer) ==
  /\ asked <= AbsOf(residual[d]) \/ writeOff
  /\ Set(r, Call("apply", d, c, residual[d], residual[c],
                 Smaller(asked, AbsOf(residual[d])), writeOff, 0, outer))

\* The first read, the checks and the amount: at most the smaller residual
Read(r, d, c, asked, writeOff, outer) ==
  LET most == Smaller(AbsOf(residual[d]), AbsOf(residual[c]))
  IN /\ asked <= most \/ writeOff
     /\ Set(r, Call("apply", d, c, residual[d], residual[c], Smaller(asked, most),
                    writeOff, 0, outer))

Reconcile(r, d, c, asked, writeOff) ==
  /\ At(r, "idle")
  /\ Read(r, d, c, asked, writeOff, NoOuter)
  /\ UNCHANGED <<balance, residual, reconciled, full, partials, fulls, made>>

\* amount None: the smaller residual
ReconcileAll(r, d, c, writeOff) ==
  Reconcile(r, d, c, Smaller(AbsOf(residual[d]), AbsOf(residual[c])), writeOff)

\* The full reconcile of the caller, if its lines are settled with this call
Outer(o) == IF o.closes THEN Call("close", o.debit, o.credit, 0, 0, 0, FALSE, o.id, NoOuter)
                        ELSE NoRequest

\* What remains to be done once both residuals are written
Rest(d, c, dres, cres, writeOff, id, outer) ==
  IF writeOff /\ (dres # 0 \/ cres # 0)
    THEN Call("writeoff", d, c, dres, cres, 0, FALSE, id, outer)
  ELSE IF dres = 0 /\ cres = 0 THEN Call("close", d, c, 0, 0, 0, FALSE, id, outer)
  ELSE Outer(outer)

\* The partial, and both residuals as computed from what was read
Apply(r) ==
  LET q == req[r]
      id == made + 1
  IN /\ At(r, "apply") /\ made < MaxMatches
     /\ made' = id
     /\ partials' = partials \cup
          {[id |-> id, debit |-> q.debit, credit |-> q.credit, amount |-> q.amount, full |-> 0]}
     /\ residual' = [residual EXCEPT ![q.debit] = q.dres - q.amount,
                                     ![q.credit] = q.cres + q.amount]
     /\ Set(r, Rest(q.debit, q.credit, q.dres - q.amount, q.cres + q.amount,
                    q.writeOff, id, q.outer))
     /\ UNCHANGED <<balance, reconciled, full, fulls>>

\* _post_writeoff: an entry whose line takes up the residual of the debit line, or of
\* the credit line when the debit line is closed, is posted.
WriteOff(r, s) ==
  LET q == req[r]
      open == IF q.dres # 0 THEN q.debit ELSE q.credit
      gap == IF q.dres # 0 THEN q.dres ELSE q.cres
      outer == [debit |-> q.debit, credit |-> q.credit, id |-> q.id,
                closes |-> q.dres = 0 \/ q.cres = 0]
  IN /\ At(r, "writeoff") /\ balance[s] = 0
     /\ balance' = [balance EXCEPT ![s] = -gap]
     /\ residual' = [residual EXCEPT ![s] = -gap]
     /\ Set(r, IF gap > 0 THEN Call("nested", open, s, 0, 0, 0, FALSE, 0, outer)
                          ELSE Call("nested", s, open, 0, 0, 0, FALSE, 0, outer))
     /\ UNCHANGED <<reconciled, full, partials, fulls, made>>

\* The call that matches the write-off reads the residuals again.
Nested(r) ==
  LET q == req[r]
  IN /\ At(r, "nested")
     /\ Read(r, q.debit, q.credit,
             Smaller(AbsOf(residual[q.debit]), AbsOf(residual[q.credit])), FALSE, q.outer)
     /\ UNCHANGED <<balance, residual, reconciled, full, partials, fulls, made>>

\* Both lines are settled: the full reconcile, the lines and the partial that made it
Close(r) ==
  LET q == req[r]
  IN /\ At(r, "close")
     /\ fulls' = fulls \cup {q.id}
     /\ reconciled' = [reconciled EXCEPT ![q.debit] = TRUE, ![q.credit] = TRUE]
     /\ full' = [full EXCEPT ![q.debit] = q.id, ![q.credit] = q.id]
     /\ partials' = {IF p.id = q.id THEN [p EXCEPT !.full = q.id] ELSE p : p \in partials}
     /\ Set(r, Outer(q.outer))
     /\ UNCHANGED <<balance, residual, made>>

Fails(r) ==
  /\ ~At(r, "idle")
  /\ Set(r, NoRequest)
  /\ UNCHANGED <<balance, residual, reconciled, full, partials, fulls, made>>

\* Variant: the full reconciles stay
UnreconcileKeepsFull(l) ==
  LET gone == Of(l)
      affected == {p.debit : p \in gone} \cup {p.credit : p \in gone}
  IN /\ gone # {}
     /\ SharedUndo \/ \A a \in affected \ {l} : Of(a) \subseteq gone
     /\ \A r \in Requests : At(r, "idle")
     /\ partials' = partials \ gone
     /\ reconciled' = [a \in Lines |-> reconciled[a] /\ a \notin affected]
     /\ full' = [a \in Lines |-> IF a \in affected THEN 0 ELSE full[a]]
     /\ residual' = [a \in Lines |-> IF a \in affected THEN balance[a] ELSE residual[a]]
     /\ UNCHANGED <<balance, fulls, made, req>>

\* One transaction: the matches of a line and their full reconciles go, and every line
\* of those matches starts again from its balance.
Unreconcile(l) ==
  LET gone == Of(l)
      affected == {p.debit : p \in gone} \cup {p.credit : p \in gone}
  IN /\ gone # {}
     /\ SharedUndo \/ \A a \in affected \ {l} : Of(a) \subseteq gone
     /\ \A r \in Requests : At(r, "idle")
     /\ partials' = partials \ gone
     /\ fulls' = fulls \ {p.full : p \in gone}
     /\ reconciled' = [a \in Lines |-> reconciled[a] /\ a \notin affected]
     /\ full' = [a \in Lines |-> IF a \in affected THEN 0 ELSE full[a]]
     /\ residual' = [a \in Lines |-> IF a \in affected THEN balance[a] ELSE residual[a]]
     /\ UNCHANGED <<balance, made, req>>

Next ==
  \/ \E r \in Requests :
       \/ \E d \in Positive, c \in Negative, writeOff \in BOOLEAN :
            ReconcileAll(r, d, c, writeOff)
            \/ \E asked \in Balances : Reconcile(r, d, c, asked, writeOff)
       \/ Apply(r) \/ Nested(r) \/ Close(r) \/ Fails(r)
       \/ \E s \in Spares : WriteOff(r, s)
  \/ \E l \in Lines : Unreconcile(l)

Spec == Init /\ [][Next]_vars
-----------------------------------------------------------------------------
\* Types; a match never has a negative amount.
TypeOK ==
  /\ balance \in [Lines -> Int] /\ residual \in [Lines -> Int]
  /\ reconciled \in [Lines -> BOOLEAN]
  /\ full \in [Lines -> {0} \cup Ids]
  /\ partials \subseteq Partial
  /\ fulls \subseteq Ids
  /\ made \in 0..MaxMatches
  /\ \A r \in Requests :
       /\ req[r].step \in {"idle", "apply", "writeoff", "nested", "close"}
       /\ req[r].debit \in Lines \cup {NoLine} /\ req[r].credit \in Lines \cup {NoLine}
       /\ req[r].amount \in Nat /\ req[r].id \in {0} \cup Ids

\* The open amount of a line is its balance less what it is matched with, and the
\* matches never exceed the balance: residuals are written as absolute values, by a
\* transaction that does not look at the ones it overwrites.  unreconcile "restores
\* the original residual amounts" (FR-034).
ResidualExact ==
  \A l \in Lines :
    /\ residual[l] = balance[l] - Matched({p \in partials : p.debit = l})
                                + Matched({p \in partials : p.credit = l})
    /\ AbsOf(residual[l]) <= AbsOf(balance[l])

\* A line marked reconciled owes nothing and has the full reconcile that settled it;
\* no full reconcile outlives its match, and no match points to a deleted one.
SettledIsBacked ==
  /\ \A l \in Lines : reconciled[l] => residual[l] = 0 /\ full[l] \in fulls
  /\ \A l \in Lines : full[l] # 0 => \E p \in Of(l) : p.full = full[l]
  /\ fulls = {p.full : p \in partials} \ {0}
=============================================================================
