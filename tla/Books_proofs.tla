---------------------------- MODULE Books_proofs ----------------------------
(***************************************************************************)
(* Theorems about matching, bank statements, the general ledger, foreign   *)
(* currency and payment terms.                                             *)
(* Matching: as long as calls do not overlap, and wherever they end, the   *)
(* open amount of a line is its balance less its matches, and what is      *)
(* marked reconciled is settled by matches that are there. Statements:     *)
(* splitting rows changes no total, and those confirmed one after the      *)
(* other run on. Ledger: as of every day the balance sheet balances and    *)
(* the trial balance carries on, with years closed in any order, and the   *)
(* open items come to the balance of the partner's account. Currency: what *)
(* is left of a line is left at the rate it was booked, and a revaluation  *)
(* shows invoices at today's. Terms: instalments are their shares of an    *)
(* invoice but for rounding, come to all of it, and fall in their month.   *)
(***************************************************************************)
EXTENDS Reconciliation, BankStatements, Ledger, Currency, PaymentTerms, Sums_proofs
-----------------------------------------------------------------------------
(* Sums of the amounts of matches.                                         *)
Weight(A, S) == SumOf([p \in A |-> p.amount], S)

LEMMA WeightType ==
  ASSUME NEW A, NEW S, S \subseteq A, IsFiniteSet(S), \A p \in A : p.amount \in Nat
  PROVE  Weight(A, S) \in Nat
<1>1. \A p \in S : [q \in A |-> q.amount][p] \in Nat OBVIOUS
<1> QED BY <1>1, SumNat DEF Weight

LEMMA WeightSame ==
  ASSUME NEW A, NEW B, NEW S, S \subseteq A, S \subseteq B, IsFiniteSet(S)
  PROVE  Weight(A, S) = Weight(B, S)
<1>1. \A p \in S : [q \in A |-> q.amount][p] = [q \in B |-> q.amount][p] OBVIOUS
<1> QED BY <1>1, SumSame DEF Weight

LEMMA WeightMore ==
  ASSUME NEW A, NEW S, S \subseteq A, IsFiniteSet(S), NEW q, q \notin A,
         \A p \in A \cup {q} : p.amount \in Nat
  PROVE  Weight(A \cup {q}, S \cup {q}) = Weight(A, S) + q.amount
<1> DEFINE h == [p \in A \cup {q} |-> p.amount]
<1>1. \A p \in S \cup {q} : h[p] \in Int /\ h[p] = p.amount OBVIOUS
<1>2. Weight(A \cup {q}, S \cup {q}) = SumOf(h, S \cup {q}) /\ Weight(A \cup {q}, S) = SumOf(h, S)
  BY DEF Weight
<1> HIDE DEF h
<1>3. SumOf(h, S \cup {q}) = h[q] + SumOf(h, S) BY <1>1, SumAdd
<1>4. Weight(A \cup {q}, S) = Weight(A, S)
  <2>1. S \subseteq A \cup {q} OBVIOUS
  <2> QED BY <2>1, WeightSame
<1>5. Weight(A, S) \in Nat BY WeightType
<1> QED BY <1>1, <1>2, <1>3, <1>4, <1>5

LEMMA WeightSwap ==
  ASSUME NEW A, NEW S, S \subseteq A, IsFiniteSet(S), NEW a \in S, NEW b, b \notin A \ {a},
         \A p \in A : p.amount \in Nat, b.amount = a.amount
  PROVE  Weight((A \ {a}) \cup {b}, (S \ {a}) \cup {b}) = Weight(A, S)
<1> DEFINE f == [p \in A |-> p.amount]
           h == [p \in (A \ {a}) \cup {b} |-> p.amount]
<1>1. /\ \A x \in S : f[x] \in Int
      /\ h[b] = f[a] /\ \A x \in S \ {a} : h[x] = f[x]
      /\ b \notin S \ {a}
  OBVIOUS
<1>2. Weight((A \ {a}) \cup {b}, (S \ {a}) \cup {b}) = SumOf(h, (S \ {a}) \cup {b}) /\ Weight(A, S) = SumOf(f, S)
  BY DEF Weight
<1> HIDE DEF f, h
<1> QED BY <1>1, <1>2, SumSwap
-----------------------------------------------------------------------------
(* The invariant. One call at a time: what a call read still holds when it *)
(* writes, which nothing in the code ensures when two calls overlap.       *)
OneAtATime == \A r, s \in Requests : r = s

Steps == {"idle", "apply", "writeoff", "nested", "close"}
SomeLine == Lines \cup {NoLine}
Outers == [debit : SomeLine, credit : SomeLine, id : Nat, closes : BOOLEAN]
Calls == [step : Steps, debit : SomeLine, credit : SomeLine, dres : Int, cres : Int, amount : Int,
          writeOff : BOOLEAN, id : Nat, outer : Outers]

Types ==
  /\ balance \in [Lines -> Int] /\ residual \in [Lines -> Int]
  /\ reconciled \in [Lines -> BOOLEAN] /\ full \in [Lines -> Nat]
  /\ made \in Nat /\ IsFiniteSet(partials)
  /\ partials \subseteq [id : 1 .. made, debit : Lines, credit : Lines, amount : Nat, full : Nat]
  /\ req \in [Requests -> Calls]

\* A line is open between nothing and its balance.
Between(b, n) == (b >= 0 => 0 <= n /\ n <= b) /\ (b <= 0 => b <= n /\ n <= 0)
WithinBalance == \A l \in Lines : Between(balance[l], residual[l])

\* Matches join a positive and a negative line; a full reconcile has its match's id.
Joins ==
  /\ \A p, q \in partials : p.id = q.id => p = q
  /\ \A p \in partials : balance[p.debit] > 0 /\ balance[p.credit] < 0 /\ p.full \in {0, p.id}

Debited(l) == {p \in partials : p.debit = l}
Credited(l) == {p \in partials : p.credit = l}
Exact ==
  \A l \in Lines :
    residual[l] = balance[l] - Weight(partials, Debited(l)) + Weight(partials, Credited(l))

\* What a call has read, made and found settled.
Made(id, d, c) == \E p \in partials : p.id = id /\ p.debit = d /\ p.credit = c
Settled(o, d, c) ==
  /\ Made(o.id, o.debit, o.credit)
  /\ o.debit = d \/ residual[o.debit] = 0
  /\ o.credit = c \/ residual[o.credit] = 0
Told(q) ==
  /\ q.step # "idle" => /\ q.debit \in Lines /\ q.credit \in Lines
                        /\ balance[q.debit] > 0 /\ balance[q.credit] < 0
  /\ q.step = "apply" => /\ q.dres = residual[q.debit] /\ q.cres = residual[q.credit]
                         /\ 0 <= q.amount /\ q.amount <= q.dres /\ q.amount <= -q.cres
                         /\ q.outer.closes => q.amount = q.dres /\ q.amount = -q.cres
  /\ q.step = "writeoff" => /\ q.dres = residual[q.debit] /\ q.cres = residual[q.credit]
                            /\ q.dres # 0 \/ q.cres # 0
                            /\ Made(q.id, q.debit, q.credit)
  /\ q.step = "nested" => residual[q.debit] = -residual[q.credit]
  /\ q.step = "close" => /\ residual[q.debit] = 0 /\ residual[q.credit] = 0
                         /\ Made(q.id, q.debit, q.credit)
  /\ q.step \in {"apply", "nested", "close"} /\ q.outer.closes => Settled(q.outer, q.debit, q.credit)
AllTold == \A r \in Requests : Told(req[r])

MatchInv == Types /\ WithinBalance /\ Joins /\ AllTold /\ SettledIsBacked /\ (~SharedUndo => Exact)
-----------------------------------------------------------------------------
LEMMA Ranges ==
  ASSUME Types
  PROVE  /\ \A p \in partials : /\ p.id \in 1 .. made /\ p.debit \in Lines /\ p.credit \in Lines
                                /\ p.amount \in Nat /\ p.full \in Nat
         /\ \A l \in Lines : balance[l] \in Int /\ residual[l] \in Int
         /\ \A l : IsFiniteSet(Debited(l)) /\ IsFiniteSet(Credited(l))
<1>1. ASSUME NEW l PROVE IsFiniteSet(Debited(l)) /\ IsFiniteSet(Credited(l))
  <2>1. Debited(l) \subseteq partials /\ Credited(l) \subseteq partials BY DEF Debited, Credited
  <2> QED BY <2>1, FS_Subset DEF Types
<1> QED BY <1>1 DEF Types

LEMMA ExactIs ==
  ASSUME MatchInv, ~SharedUndo PROVE ResidualExact
<1>1. \A l \in Lines : /\ Matched({p \in partials : p.debit = l}) = Weight(partials, Debited(l))
                       /\ Matched({p \in partials : p.credit = l}) = Weight(partials, Credited(l))
  BY DEF Matched, Weight, Debited, Credited
<1>2. ASSUME NEW l \in Lines PROVE AbsOf(residual[l]) <= AbsOf(balance[l])
  <2>1. balance[l] \in Int /\ residual[l] \in Int BY Ranges DEF MatchInv
  <2>2. Between(balance[l], residual[l]) BY DEF MatchInv, WithinBalance
  <2> QED BY <2>1, <2>2 DEF Between, AbsOf
<1> QED BY <1>1, <1>2 DEF MatchInv, Exact, ResidualExact

\* A call takes its turn, alone.
LEMMA Turn ==
  ASSUME Types, OneAtATime, NEW r \in Requests, NEW c \in Calls, req' = [req EXCEPT ![r] = c], Told(c)'
  PROVE  req' \in [Requests -> Calls] /\ AllTold'
<1>1. req' \in [Requests -> Calls] BY DEF Types
<1>2. ASSUME NEW s \in Requests PROVE (Told(req[s]))'
  <2>1. s = r BY DEF OneAtATime
  <2>2. req'[s] = c BY <2>1 DEF Types
  <2> QED BY <2>2 DEF Told, Made, Settled
<1> QED BY <1>1, <1>2 DEF AllTold

\* A turn that changes nothing else.
LEMMA JustTurn ==
  ASSUME MatchInv, OneAtATime, NEW r \in Requests, NEW c \in Calls, req' = [req EXCEPT ![r] = c], Told(c),
         UNCHANGED <<balance, residual, reconciled, full, partials, fulls, made>>
  PROVE  MatchInv'
<1>1. Told(c)' BY DEF Told, Made, Settled
<1>2. req' \in [Requests -> Calls] /\ AllTold' BY <1>1, Turn DEF MatchInv
<1>3. Types' BY <1>2 DEF MatchInv, Types
<1>4. WithinBalance' /\ Joins' BY DEF MatchInv, WithinBalance, Joins
<1>5. SettledIsBacked' BY DEF MatchInv, SettledIsBacked, Of
<1>6. Exact => Exact' BY DEF Exact, Debited, Credited
<1> QED BY <1>2, <1>3, <1>4, <1>5, <1>6 DEF MatchInv

LEMMA NoCall == NoRequest \in Calls /\ Told(NoRequest) /\ Told(NoRequest)' /\ NoOuter \in Outers
<1>1. NoOuter \in Outers /\ NoOuter.closes = FALSE BY DEF NoOuter, Outers, SomeLine
<1>2. NoRequest = [step |-> "idle", debit |-> NoLine, credit |-> NoLine, dres |-> 0, cres |-> 0,
                   amount |-> 0, writeOff |-> FALSE, id |-> 0, outer |-> NoOuter]
  BY DEF NoRequest, Call
<1>3. NoRequest \in Calls BY <1>1, <1>2 DEF Calls, Steps, SomeLine
<1>4. NoRequest.step = "idle" BY <1>2
<1> QED BY <1>1, <1>3, <1>4 DEF Told
-----------------------------------------------------------------------------
(* reconcile_lines.                                                        *)
LEMMA ReadTurn ==
  ASSUME MatchInv, ConstantsOK, OneAtATime, NEW r \in Requests, NEW d \in Lines, NEW c \in Lines,
         balance[d] > 0, balance[c] < 0,
         NEW asked \in Nat, NEW writeOff \in BOOLEAN, NEW outer \in Outers,
         Read(r, d, c, asked, writeOff, outer),
         outer.closes => /\ asked = residual[d] /\ asked = -residual[c]
                         /\ Settled(outer, d, c),
         UNCHANGED <<balance, residual, reconciled, full, partials, fulls, made>>
  PROVE  MatchInv'
<1> DEFINE most == Smaller(AbsOf(residual[d]), AbsOf(residual[c]))
<1>1. PICK a : a = Smaller(asked, most) OBVIOUS
<1>2. PICK k : k = [step |-> "apply", debit |-> d, credit |-> c, dres |-> residual[d], cres |-> residual[c],
                    amount |-> a, writeOff |-> writeOff, id |-> 0, outer |-> outer]
  OBVIOUS
<1>3. req' = [req EXCEPT ![r] = k] BY <1>1, <1>2 DEF Read, Set, Call
<1>4. /\ residual[d] \in Int /\ residual[c] \in Int /\ balance[d] \in Int /\ balance[c] \in Int
      /\ residual[d] >= 0 /\ residual[c] <= 0
  BY Ranges DEF MatchInv, WithinBalance, Between
<1>5. /\ a \in Nat /\ a <= residual[d] /\ a <= -residual[c]
      /\ asked = residual[d] /\ asked = -residual[c] => a = asked
  BY <1>1, <1>4 DEF Smaller, AbsOf
<1>6. k \in Calls BY <1>2, <1>4, <1>5 DEF Calls, Steps, SomeLine
<1>7. Told(k) BY <1>2, <1>4, <1>5 DEF Told
<1> QED BY <1>3, <1>6, <1>7, JustTurn

LEMMA AsksFor ==
  ASSUME MatchInv, NEW d \in Lines, NEW c \in Lines, balance[d] > 0, balance[c] < 0
  PROVE  /\ Smaller(AbsOf(residual[d]), AbsOf(residual[c])) \in Nat
         /\ residual[d] = -residual[c] =>
              /\ Smaller(AbsOf(residual[d]), AbsOf(residual[c])) = residual[d]
<1>1. /\ residual[d] \in Int /\ residual[c] \in Int /\ balance[d] \in Int /\ balance[c] \in Int
      /\ residual[d] >= 0 /\ residual[c] <= 0
  BY Ranges DEF MatchInv, WithinBalance, Between
<1> QED BY <1>1 DEF Smaller, AbsOf

\* The partial and both residuals: exact, because what was read still holds.
LEMMA ApplyKeeps ==
  ASSUME MatchInv, NEW r \in Requests, Apply(r), NEW q \in Calls, q = req[r], Told(q), q.step = "apply"
  PROVE  /\ WithinBalance' /\ Joins' /\ SettledIsBacked' /\ (Exact => Exact')
         /\ residual' \in [Lines -> Int] /\ made' \in Nat /\ IsFiniteSet(partials')
         /\ partials' \subseteq [id : 1 .. made', debit : Lines, credit : Lines, amount : Nat, full : Nat]
         /\ (Made(made, q.debit, q.credit))'
         /\ residual'[q.debit] = q.dres - q.amount /\ residual'[q.credit] = q.cres + q.amount
         /\ \A l \in Lines : residual[l] = 0 => residual'[l] = 0
<1>1. PICK d, c, a : d = q.debit /\ c = q.credit /\ a = q.amount OBVIOUS
<1>2. PICK p : p = [id |-> made + 1, debit |-> d, credit |-> c, amount |-> a, full |-> 0] OBVIOUS
<1>3. /\ made' = made + 1 /\ partials' = partials \cup {p}
      /\ residual' = [residual EXCEPT ![d] = q.dres - a, ![c] = q.cres + a]
      /\ UNCHANGED <<balance, reconciled, full, fulls>>
  BY <1>1, <1>2 DEF Apply
<1>4. /\ d \in Lines /\ c \in Lines /\ balance[d] > 0 /\ balance[c] < 0
      /\ q.dres = residual[d] /\ q.cres = residual[c] /\ a \in Nat /\ a <= residual[d] /\ a <= -residual[c]
  BY <1>1 DEF Told, Calls
<1>5. \A l \in Lines : balance[l] \in Int /\ residual[l] \in Int BY Ranges DEF MatchInv
<1>6. d # c BY <1>4, <1>5
<1>7. /\ residual' \in [Lines -> Int]
      /\ residual'[d] = residual[d] - a /\ residual'[c] = residual[c] + a
      /\ \A l \in Lines : l # d /\ l # c => residual'[l] = residual[l]
  BY <1>3, <1>4, <1>5, <1>6 DEF MatchInv, Types
<1>8. made \in Nat /\ p.id = made + 1 /\ p.amount \in Nat BY <1>2, <1>4 DEF MatchInv, Types
<1>9. \A k \in partials : k.id \in 1 .. made BY Ranges DEF MatchInv
<1>10. p \notin partials /\ \A k \in partials : k.id # p.id BY <1>8, <1>9
<1>11. WithinBalance'
  <2>1. ASSUME NEW l \in Lines PROVE Between(balance[l], residual'[l])
    <3>1. Between(balance[l], residual[l]) BY DEF MatchInv, WithinBalance
    <3> QED BY <1>4, <1>5, <1>6, <1>7, <3>1 DEF Between
  <2> QED BY <1>3, <2>1 DEF WithinBalance
<1>12. Joins' BY <1>2, <1>3, <1>4, <1>10 DEF MatchInv, Joins
<1>13. \A l \in Lines : residual[l] = 0 => residual'[l] = 0
  <2>1. (residual[d] = 0 => residual'[d] = 0) /\ (residual[c] = 0 => residual'[c] = 0)
    <3>1. residual[d] \in Int /\ residual[c] \in Int /\ a \in Nat /\ a <= residual[d] /\ a <= -residual[c] BY <1>4, <1>5
    <3>2. residual'[d] = residual[d] - a /\ residual'[c] = residual[c] + a BY <1>7
    <3> QED BY ONLY <3>1, <3>2
  <2>2. \A l \in Lines : l # d /\ l # c => residual'[l] = residual[l] BY <1>7
  <2> QED BY ONLY <2>1, <2>2
<1>14. SettledIsBacked'
  <2>1. \A l \in Lines : reconciled[l] => residual'[l] = 0 /\ full[l] \in fulls
    BY <1>13 DEF MatchInv, SettledIsBacked
  <2>2. \A l \in Lines : full[l] # 0 => \E k \in Of(l)' : k.full = full[l]
    BY <1>3 DEF MatchInv, SettledIsBacked, Of
  <2>3. fulls = {k.full : k \in partials'} \ {0}
    <3>1. fulls = {k.full : k \in partials} \ {0} BY DEF MatchInv, SettledIsBacked
    <3>2. p.full = 0 BY <1>2
    <3> QED BY <1>3, <3>1, <3>2
  <2> QED BY <1>3, <2>1, <2>2, <2>3 DEF SettledIsBacked
<1>15. ASSUME Exact PROVE Exact'
  <2>1. \A l : /\ Debited(l) \subseteq partials /\ Credited(l) \subseteq partials
               /\ IsFiniteSet(Debited(l)) /\ IsFiniteSet(Credited(l))
    BY Ranges DEF MatchInv, Debited, Credited
  <2>2. \A k \in partials \cup {p} : k.amount \in Nat BY <1>8, Ranges DEF MatchInv
  <2>3. ASSUME NEW l \in Lines
        PROVE  Weight(partials', Debited(l)') = Weight(partials, Debited(l)) + (IF l = d THEN a ELSE 0)
    <3>1. CASE l = d
      <4>1. Debited(l)' = Debited(l) \cup {p} BY <1>2, <1>3, <3>1 DEF Debited
      <4> QED BY <1>2, <1>3, <1>10, <2>1, <2>2, <3>1, <4>1, WeightMore
    <3>2. CASE l # d
      <4>1. Debited(l)' = Debited(l) BY <1>2, <1>3, <3>2 DEF Debited
      <4>2. Debited(l) \subseteq partials' BY <1>3, <2>1
      <4>3. Weight(partials', Debited(l)) = Weight(partials, Debited(l)) BY <2>1, <4>2, WeightSame
      <4>4. Weight(partials, Debited(l)) \in Nat BY <2>1, <2>2, WeightType
      <4> QED BY <3>2, <4>1, <4>3, <4>4
    <3> QED BY <3>1, <3>2
  <2>4. ASSUME NEW l \in Lines
        PROVE  Weight(partials', Credited(l)') = Weight(partials, Credited(l)) + (IF l = c THEN a ELSE 0)
    <3>1. CASE l = c
      <4>1. Credited(l)' = Credited(l) \cup {p} BY <1>2, <1>3, <3>1 DEF Credited
      <4> QED BY <1>2, <1>3, <1>10, <2>1, <2>2, <3>1, <4>1, WeightMore
    <3>2. CASE l # c
      <4>1. Credited(l)' = Credited(l) BY <1>2, <1>3, <3>2 DEF Credited
      <4>2. Credited(l) \subseteq partials' BY <1>3, <2>1
      <4>3. Weight(partials', Credited(l)) = Weight(partials, Credited(l)) BY <2>1, <4>2, WeightSame
      <4>4. Weight(partials, Credited(l)) \in Nat BY <2>1, <2>2, WeightType
      <4> QED BY <3>2, <4>1, <4>3, <4>4
    <3> QED BY <3>1, <3>2
  <2>5. ASSUME NEW l \in Lines
        PROVE  residual'[l] = balance[l] - Weight(partials', Debited(l)') + Weight(partials', Credited(l)')
    <3>1. residual[l] = balance[l] - Weight(partials, Debited(l)) + Weight(partials, Credited(l))
      BY <1>15 DEF Exact
    <3>2. Weight(partials, Debited(l)) \in Nat /\ Weight(partials, Credited(l)) \in Nat
      BY <2>1, <2>2, WeightType
    <3> QED BY <1>4, <1>5, <1>6, <1>7, <2>3, <2>4, <3>1, <3>2
  <2> QED BY <1>3, <2>5 DEF Exact
<1>16. IsFiniteSet(partials') BY <1>3, FS_AddElement DEF MatchInv, Types
<1>17. partials' \subseteq [id : 1 .. made', debit : Lines, credit : Lines, amount : Nat, full : Nat]
  <2>1. 1 .. made \subseteq 1 .. made' /\ made + 1 \in 1 .. made' BY <1>3, <1>8
  <2>2. p \in [id : 1 .. made', debit : Lines, credit : Lines, amount : Nat, full : Nat]
    BY <1>2, <1>4, <2>1
  <2> QED BY <1>3, <2>1, <2>2 DEF MatchInv, Types
<1>18. (Made(made, q.debit, q.credit))'
  <2>1. p \in partials' /\ p.id = made' /\ p.debit = d /\ p.credit = c BY <1>2, <1>3
  <2> QED BY <1>1, <2>1 DEF Made
<1>19. residual'[q.debit] = q.dres - q.amount /\ residual'[q.credit] = q.cres + q.amount BY <1>1, <1>4, <1>7
<1>20. residual' \in [Lines -> Int] /\ made' \in Nat BY <1>3, <1>7, <1>8
<1> QED BY <1>11, <1>12, <1>13, <1>14, <1>15, <1>16, <1>17, <1>18, <1>19, <1>20

LEMMA ApplyTurn ==
  ASSUME MatchInv, ConstantsOK, OneAtATime, NEW r \in Requests, Apply(r) PROVE MatchInv'
<1>1. PICK q : q = req[r] OBVIOUS
<1>2. q \in Calls /\ Told(q) /\ q.step = "apply" BY <1>1 DEF MatchInv, Types, AllTold, Apply, At
<1>3. PICK d, c, dres, cres, id : /\ d = q.debit /\ c = q.credit /\ id = made + 1
                                  /\ dres = q.dres - q.amount /\ cres = q.cres + q.amount
  OBVIOUS
<1>4. /\ made' = id /\ req' = [req EXCEPT ![r] = Rest(d, c, dres, cres, q.writeOff, id, q.outer)]
      /\ UNCHANGED <<balance, reconciled, full, fulls>>
  BY <1>1, <1>3 DEF Apply, Set
<1>5. /\ WithinBalance' /\ Joins' /\ SettledIsBacked' /\ (Exact => Exact')
      /\ residual' \in [Lines -> Int] /\ made' \in Nat /\ IsFiniteSet(partials')
      /\ partials' \subseteq [id : 1 .. made', debit : Lines, credit : Lines, amount : Nat, full : Nat]
      /\ (Made(made, q.debit, q.credit))'
      /\ residual'[d] = dres /\ residual'[c] = cres
      /\ \A l \in Lines : residual[l] = 0 => residual'[l] = 0
  BY <1>1, <1>2, <1>3, ApplyKeeps
<1>6. /\ d \in Lines /\ c \in Lines /\ balance'[d] > 0 /\ balance'[c] < 0
      /\ dres \in Int /\ cres \in Int /\ id \in Nat
      /\ q.outer \in Outers /\ q.writeOff \in BOOLEAN
      /\ q.outer.closes => dres = 0 /\ cres = 0 /\ Settled(q.outer, d, c)
  BY <1>2, <1>3, <1>4, <1>5 DEF Told, Calls
<1>7. (Made(id, d, c))' BY <1>3, <1>4, <1>5 DEF Made
<1>8. ASSUME q.outer.closes PROVE (Settled(q.outer, d, c))'
  <2>1. Settled(q.outer, d, c) BY <1>6, <1>8
  <2>2. q.outer.debit \in Lines /\ q.outer.credit \in Lines BY <2>1, Ranges DEF Settled, Made, MatchInv
  <2>3. (Made(q.outer.id, q.outer.debit, q.outer.credit))'
    <3>1. partials \subseteq partials' BY <1>1 DEF Apply
    <3> QED BY <2>1, <3>1 DEF Settled, Made
  <2> QED BY <1>5, <2>1, <2>2, <2>3 DEF Settled
<1>9. ASSUME NEW k, k \in Calls, Told(k)', req' = [req EXCEPT ![r] = k] PROVE MatchInv'
  <2>1. req' \in [Requests -> Calls] /\ AllTold' BY <1>9, Turn DEF MatchInv
  <2>2. Types' BY <1>4, <1>5, <2>1 DEF MatchInv, Types
  <2> QED BY <1>5, <2>1, <2>2 DEF MatchInv
<1>10. CASE q.writeOff /\ (dres # 0 \/ cres # 0)
  <2>1. PICK k : k = [step |-> "writeoff", debit |-> d, credit |-> c, dres |-> dres, cres |-> cres,
                      amount |-> 0, writeOff |-> FALSE, id |-> id, outer |-> q.outer]
    OBVIOUS
  <2>2. req' = [req EXCEPT ![r] = k] BY <1>4, <1>10, <2>1 DEF Rest, Call
  <2>3. k \in Calls BY <1>6, <2>1 DEF Calls, Steps, SomeLine
  <2>4. Told(k)' BY <1>5, <1>6, <1>7, <1>10, <2>1 DEF Told
  <2> QED BY <1>9, <2>2, <2>3, <2>4
<1>11. CASE dres = 0 /\ cres = 0
  <2>1. PICK k : k = [step |-> "close", debit |-> d, credit |-> c, dres |-> 0, cres |-> 0,
                      amount |-> 0, writeOff |-> FALSE, id |-> id, outer |-> q.outer]
    OBVIOUS
  <2>2. req' = [req EXCEPT ![r] = k] BY <1>4, <1>11, <2>1 DEF Rest, Call
  <2>3. k \in Calls BY <1>6, <2>1 DEF Calls, Steps, SomeLine
  <2>4. Told(k)' BY <1>5, <1>6, <1>7, <1>8, <1>11, <2>1 DEF Told
  <2> QED BY <1>9, <2>2, <2>3, <2>4
<1>12. CASE ~q.writeOff /\ ~(dres = 0 /\ cres = 0)
  <2>1. ~q.outer.closes BY <1>6, <1>12
  <2>2. req' = [req EXCEPT ![r] = NoRequest] BY <1>4, <1>12, <2>1 DEF Rest, Outer
  <2> QED BY <1>9, <2>2, NoCall
<1> QED BY <1>6, <1>10, <1>11, <1>12

LEMMA WriteOffTurn ==
  ASSUME MatchInv, ConstantsOK, OneAtATime, NEW r \in Requests, NEW s \in Spares, WriteOff(r, s)
  PROVE  MatchInv'
<1>1. PICK q : q = req[r] OBVIOUS
<1>2. q \in Calls /\ Told(q) /\ q.step = "writeoff" BY <1>1 DEF MatchInv, Types, AllTold, WriteOff, At
<1>3. PICK d, c, gap : d = q.debit /\ c = q.credit /\ gap = IF q.dres # 0 THEN q.dres ELSE q.cres OBVIOUS
<1>4. PICK o : o = [debit |-> d, credit |-> c, id |-> q.id, closes |-> q.dres = 0 \/ q.cres = 0] OBVIOUS
<1>5. /\ balance[s] = 0 /\ balance' = [balance EXCEPT ![s] = -gap] /\ residual' = [residual EXCEPT ![s] = -gap]
      /\ UNCHANGED <<reconciled, full, partials, fulls, made>>
  BY <1>1, <1>3 DEF WriteOff
<1>6. /\ d \in Lines /\ c \in Lines /\ balance[d] > 0 /\ balance[c] < 0
      /\ q.dres = residual[d] /\ q.cres = residual[c] /\ (q.dres # 0 \/ q.cres # 0)
      /\ Made(q.id, d, c) /\ q.id \in Nat
  BY <1>2, <1>3 DEF Told, Calls
<1>7. \A l \in Lines : balance[l] \in Int /\ residual[l] \in Int BY Ranges DEF MatchInv
<1>8. residual[d] >= 0 /\ residual[c] <= 0 BY <1>6, <1>7 DEF MatchInv, WithinBalance, Between
<1>9. gap \in Int /\ gap # 0 BY <1>3, <1>6, <1>7
<1>10. s \in Lines /\ s # d /\ s # c BY <1>5, <1>6, <1>7 DEF Lines
<1>11. /\ balance' \in [Lines -> Int] /\ residual' \in [Lines -> Int]
       /\ balance'[s] = -gap /\ residual'[s] = -gap
       /\ \A l \in Lines : l # s => balance'[l] = balance[l] /\ residual'[l] = residual[l]
  BY <1>5, <1>9, <1>10 DEF MatchInv, Types
<1>12. \A p \in partials : p.debit # s /\ p.credit # s BY <1>5 DEF MatchInv, Joins
<1>13. WithinBalance'
  <2>1. ASSUME NEW l \in Lines PROVE Between(balance'[l], residual'[l])
    <3>1. Between(balance[l], residual[l]) BY DEF MatchInv, WithinBalance
    <3> QED BY <1>9, <1>11, <3>1 DEF Between
  <2> QED BY <2>1 DEF WithinBalance
<1>14. Joins'
  <2>1. \A p \in partials : p.debit \in Lines /\ p.credit \in Lines BY Ranges DEF MatchInv
  <2> QED BY <1>5, <1>11, <1>12, <2>1 DEF MatchInv, Joins
<1>15. SettledIsBacked'
  <2>1. ~reconciled[s]
    <3>1. SUFFICES ASSUME reconciled[s] PROVE FALSE OBVIOUS
    <3>2. full[s] # 0 BY <1>10, <3>1 DEF MatchInv, SettledIsBacked
    <3> QED BY <1>10, <1>12, <3>2 DEF MatchInv, SettledIsBacked, Of
  <2> QED BY <1>5, <1>11, <2>1 DEF MatchInv, SettledIsBacked, Of
<1>16. ASSUME Exact PROVE Exact'
  <2>1. \A l : Debited(l)' = Debited(l) /\ Credited(l)' = Credited(l) BY <1>5 DEF Debited, Credited
  <2>2. Debited(s) = {} /\ Credited(s) = {} BY <1>12 DEF Debited, Credited
  <2>3. Weight(partials, {}) = 0 BY SumEmpty DEF Weight
  <2>4. ASSUME NEW l \in Lines
        PROVE  residual'[l] = balance'[l] - Weight(partials, Debited(l)) + Weight(partials, Credited(l))
    <3>1. CASE l = s BY <1>9, <1>11, <2>2, <2>3, <3>1
    <3>2. CASE l # s BY <1>11, <1>16, <3>2 DEF Exact
    <3> QED BY <3>1, <3>2
  <2> QED BY <1>5, <2>1, <2>4 DEF Exact
<1>17. o \in Outers BY <1>4, <1>6 DEF Outers, SomeLine
<1>18. ASSUME NEW k, k \in Calls, Told(k)', req' = [req EXCEPT ![r] = k] PROVE MatchInv'
  <2>1. req' \in [Requests -> Calls] /\ AllTold' BY <1>18, Turn DEF MatchInv
  <2>2. Types' BY <1>5, <1>11, <2>1 DEF MatchInv, Types
  <2> QED BY <1>13, <1>14, <1>15, <1>16, <2>1, <2>2 DEF MatchInv
<1>19. (Made(q.id, d, c))' BY <1>5, <1>6 DEF Made
<1>20. CASE q.dres # 0
  <2>1. PICK k : k = [step |-> "nested", debit |-> d, credit |-> s, dres |-> 0, cres |-> 0,
                      amount |-> 0, writeOff |-> FALSE, id |-> 0, outer |-> o]
    OBVIOUS
  <2>2. gap = residual[d] /\ gap > 0 BY <1>3, <1>6, <1>7, <1>8, <1>20
  <2>3. req' = [req EXCEPT ![r] = k] BY <1>1, <1>3, <1>4, <1>20, <2>1, <2>2 DEF WriteOff, Set, Call
  <2>4. k \in Calls BY <1>6, <1>10, <1>17, <2>1 DEF Calls, Steps, SomeLine
  <2>5. o.closes => (Settled(o, d, s))'
    <3>1. SUFFICES ASSUME o.closes PROVE (Settled(o, d, s))' OBVIOUS
    <3>2. residual'[c] = 0 BY <1>4, <1>6, <1>10, <1>11, <1>20, <3>1
    <3> QED BY <1>4, <1>19, <3>2 DEF Settled
  <2>6. Told(k)'
    <3>1. balance'[d] > 0 /\ balance'[s] < 0 /\ residual'[d] = -residual'[s]
      BY <1>6, <1>9, <1>10, <1>11, <2>2
    <3> QED BY <1>6, <1>10, <2>1, <2>5, <3>1 DEF Told
  <2> QED BY <1>18, <2>3, <2>4, <2>6
<1>21. CASE q.dres = 0
  <2>1. PICK k : k = [step |-> "nested", debit |-> s, credit |-> c, dres |-> 0, cres |-> 0,
                      amount |-> 0, writeOff |-> FALSE, id |-> 0, outer |-> o]
    OBVIOUS
  <2>2. gap = residual[c] /\ gap < 0 BY <1>3, <1>6, <1>7, <1>8, <1>21
  <2>3. req' = [req EXCEPT ![r] = k]
    <3>1. ~(gap > 0) BY <1>9, <2>2
    <3> QED BY <1>1, <1>3, <1>4, <1>21, <2>1, <3>1 DEF WriteOff, Set, Call
  <2>4. k \in Calls BY <1>6, <1>10, <1>17, <2>1 DEF Calls, Steps, SomeLine
  <2>5. (Settled(o, s, c))'
    <3>1. residual'[d] = 0 BY <1>6, <1>10, <1>11, <1>21
    <3> QED BY <1>4, <1>19, <3>1 DEF Settled
  <2>6. Told(k)'
    <3>1. balance'[s] > 0 /\ balance'[c] < 0 /\ residual'[s] = -residual'[c]
      BY <1>6, <1>9, <1>10, <1>11, <2>2
    <3> QED BY <1>6, <1>10, <2>1, <2>5, <3>1 DEF Told
  <2> QED BY <1>18, <2>3, <2>4, <2>6
<1> QED BY <1>20, <1>21

\* The full reconcile of a match: the match is replaced by itself with its full reconcile.
LEMMA CloseKeeps ==
  ASSUME MatchInv, NEW r \in Requests, Close(r), NEW q \in Calls, q = req[r], Told(q), q.step = "close"
  PROVE  /\ WithinBalance' /\ Joins' /\ SettledIsBacked' /\ (Exact => Exact')
         /\ reconciled' \in [Lines -> BOOLEAN] /\ full' \in [Lines -> Nat] /\ IsFiniteSet(partials')
         /\ partials' \subseteq [id : 1 .. made, debit : Lines, credit : Lines, amount : Nat, full : Nat]
         /\ \A id, d, c : Made(id, d, c) => \E p \in partials' : p.id = id /\ p.debit = d /\ p.credit = c
<1>1. PICK p \in partials : p.id = q.id /\ p.debit = q.debit /\ p.credit = q.credit BY DEF Told, Made
<1>2. PICK b : b = [p EXCEPT !.full = q.id] OBVIOUS
<1>3. PICK d, c, id : d = q.debit /\ c = q.credit /\ id = q.id OBVIOUS
<1>4. /\ fulls' = fulls \cup {id}
      /\ reconciled' = [reconciled EXCEPT ![d] = TRUE, ![c] = TRUE]
      /\ full' = [full EXCEPT ![d] = id, ![c] = id]
      /\ partials' = {IF k.id = id THEN [k EXCEPT !.full = id] ELSE k : k \in partials}
      /\ UNCHANGED <<balance, residual, made>>
  BY <1>3 DEF Close
<1>5. p \in [id : 1 .. made, debit : Lines, credit : Lines, amount : Nat, full : Nat] BY DEF MatchInv, Types
<1>6. made \in Nat /\ id \in 1 .. made /\ id # 0 /\ id \in Nat BY <1>1, <1>3, <1>5 DEF MatchInv, Types
<1>7. /\ b \in [id : 1 .. made, debit : Lines, credit : Lines, amount : Nat, full : Nat]
      /\ b.id = p.id /\ b.debit = p.debit /\ b.credit = p.credit /\ b.amount = p.amount /\ b.full = id
  BY <1>2, <1>3, <1>5, <1>6
<1>8. \A k \in partials : k.id = id => k = p BY <1>1, <1>3 DEF MatchInv, Joins
<1>9. partials' = (partials \ {p}) \cup {b} BY <1>1, <1>2, <1>3, <1>4, <1>8
<1>10. b \notin partials \ {p} BY <1>1, <1>3, <1>7, <1>8
<1>11. d \in Lines /\ c \in Lines /\ residual[d] = 0 /\ residual[c] = 0 BY <1>3 DEF Told
<1>12. IsFiniteSet(partials')
  <2>1. IsFiniteSet(partials \ {p}) BY FS_RemoveElement DEF MatchInv, Types
  <2> QED BY <1>9, <2>1, FS_AddElement
<1>13. partials' \subseteq [id : 1 .. made, debit : Lines, credit : Lines, amount : Nat, full : Nat]
  BY <1>7, <1>9 DEF MatchInv, Types
<1>14. /\ reconciled' \in [Lines -> BOOLEAN] /\ full' \in [Lines -> Nat]
       /\ full'[d] = id /\ full'[c] = id
       /\ \A l \in Lines : l # d /\ l # c => reconciled'[l] = reconciled[l] /\ full'[l] = full[l]
  BY <1>4, <1>6, <1>11 DEF MatchInv, Types
<1>15. WithinBalance' BY <1>4 DEF MatchInv, WithinBalance
<1>16. Joins' BY <1>1, <1>3, <1>4, <1>7, <1>9 DEF MatchInv, Joins
<1>17. SettledIsBacked'
  <2>1. ASSUME NEW l \in Lines, reconciled'[l] PROVE residual[l] = 0 /\ full'[l] \in fulls'
    BY <1>4, <1>11, <1>14, <2>1 DEF MatchInv, SettledIsBacked
  <2>2. ASSUME NEW l \in Lines, full'[l] # 0 PROVE \E k \in Of(l)' : k.full = full'[l]
    <3>1. CASE l = d \/ l = c
      <4>1. b \in Of(l)' BY <1>1, <1>3, <1>7, <1>9, <3>1 DEF Of
      <4> QED BY <1>7, <1>14, <3>1, <4>1
    <3>2. CASE l # d /\ l # c
      <4>1. PICK k \in Of(l) : k.full = full[l] BY <1>14, <2>2, <3>2 DEF MatchInv, SettledIsBacked
      <4>2. k \in partials /\ k # p BY <1>1, <1>3, <3>2, <4>1 DEF Of
      <4>3. k \in Of(l)' BY <1>9, <4>1, <4>2 DEF Of
      <4> QED BY <1>14, <3>2, <4>1, <4>3
    <3> QED BY <3>1, <3>2
  <2>3. fulls' = {k.full : k \in partials'} \ {0}
    <3>1. fulls = {k.full : k \in partials} \ {0} BY DEF MatchInv, SettledIsBacked
    <3>2. p.full \in {0, id} BY <1>1, <1>3 DEF MatchInv, Joins
    <3> QED BY <1>4, <1>6, <1>7, <1>9, <3>1, <3>2
  <2> QED BY <1>4, <2>1, <2>2, <2>3 DEF SettledIsBacked
<1>18. ASSUME Exact PROVE Exact'
  <2>1. \A l : /\ Debited(l) \subseteq partials /\ Credited(l) \subseteq partials
               /\ IsFiniteSet(Debited(l)) /\ IsFiniteSet(Credited(l))
    BY Ranges DEF MatchInv, Debited, Credited
  <2>2. \A k \in partials : k.amount \in Nat BY Ranges DEF MatchInv
  <2>3. ASSUME NEW l PROVE Weight(partials', Debited(l)') = Weight(partials, Debited(l))
    <3>1. CASE p \in Debited(l)
      <4>1. Debited(l)' = (Debited(l) \ {p}) \cup {b} BY <1>7, <1>9, <3>1 DEF Debited
      <4>2. Weight((partials \ {p}) \cup {b}, (Debited(l) \ {p}) \cup {b}) = Weight(partials, Debited(l))
        BY <1>7, <1>10, <2>1, <2>2, <3>1, WeightSwap
      <4> QED BY <1>9, <4>1, <4>2
    <3>2. CASE p \notin Debited(l)
      <4>1. Debited(l)' = Debited(l) /\ Debited(l) \subseteq partials' BY <1>7, <1>9, <3>2 DEF Debited
      <4> QED BY <2>1, <4>1, WeightSame
    <3> QED BY <3>1, <3>2
  <2>4. ASSUME NEW l PROVE Weight(partials', Credited(l)') = Weight(partials, Credited(l))
    <3>1. CASE p \in Credited(l)
      <4>1. Credited(l)' = (Credited(l) \ {p}) \cup {b} BY <1>7, <1>9, <3>1 DEF Credited
      <4>2. Weight((partials \ {p}) \cup {b}, (Credited(l) \ {p}) \cup {b}) = Weight(partials, Credited(l))
        BY <1>7, <1>10, <2>1, <2>2, <3>1, WeightSwap
      <4> QED BY <1>9, <4>1, <4>2
    <3>2. CASE p \notin Credited(l)
      <4>1. Credited(l)' = Credited(l) /\ Credited(l) \subseteq partials' BY <1>7, <1>9, <3>2 DEF Credited
      <4> QED BY <2>1, <4>1, WeightSame
    <3> QED BY <3>1, <3>2
  <2> QED BY <1>4, <1>18, <2>3, <2>4 DEF Exact
<1>19. ASSUME NEW i, NEW e, NEW f, Made(i, e, f) PROVE \E k \in partials' : k.id = i /\ k.debit = e /\ k.credit = f
  BY <1>7, <1>9, <1>19 DEF Made
<1> QED BY <1>12, <1>13, <1>14, <1>15, <1>16, <1>17, <1>18, <1>19

LEMMA CloseTurn ==
  ASSUME MatchInv, ConstantsOK, OneAtATime, NEW r \in Requests, Close(r) PROVE MatchInv'
<1>1. PICK q, o : q = req[r] /\ o = q.outer OBVIOUS
<1>2. q \in Calls /\ Told(q) /\ q.step = "close" BY <1>1 DEF MatchInv, Types, AllTold, Close, At
<1>3. /\ WithinBalance' /\ Joins' /\ SettledIsBacked' /\ (Exact => Exact')
      /\ reconciled' \in [Lines -> BOOLEAN] /\ full' \in [Lines -> Nat] /\ IsFiniteSet(partials')
      /\ partials' \subseteq [id : 1 .. made, debit : Lines, credit : Lines, amount : Nat, full : Nat]
      /\ \A id, d, c : Made(id, d, c) => \E p \in partials' : p.id = id /\ p.debit = d /\ p.credit = c
  BY <1>1, <1>2, CloseKeeps
<1>4. req' = [req EXCEPT ![r] = Outer(o)] /\ UNCHANGED <<balance, residual, made>> BY <1>1 DEF Close, Set
<1>5. ASSUME NEW k, k \in Calls, Told(k)', req' = [req EXCEPT ![r] = k] PROVE MatchInv'
  <2>1. req' \in [Requests -> Calls] /\ AllTold' BY <1>5, Turn DEF MatchInv
  <2>2. Types' BY <1>3, <1>4, <2>1 DEF MatchInv, Types
  <2> QED BY <1>3, <2>1, <2>2 DEF MatchInv
<1>6. CASE ~o.closes BY <1>4, <1>5, <1>6, NoCall DEF Outer
<1>7. CASE o.closes
  <2>1. PICK k : k = [step |-> "close", debit |-> o.debit, credit |-> o.credit, dres |-> 0, cres |-> 0,
                      amount |-> 0, writeOff |-> FALSE, id |-> o.id, outer |-> NoOuter]
    OBVIOUS
  <2>2. req' = [req EXCEPT ![r] = k] BY <1>4, <1>7, <2>1 DEF Outer, Call
  <2>3. o \in Outers BY <1>1, <1>2 DEF Calls
  <2>4. k \in Calls BY <2>1, <2>3, NoCall DEF Calls, Steps, Outers
  <2>5. /\ Made(o.id, o.debit, o.credit) /\ residual[o.debit] = 0 /\ residual[o.credit] = 0
    BY <1>1, <1>2, <1>7 DEF Told, Settled
  <2>6. o.debit \in Lines /\ o.credit \in Lines /\ balance[o.debit] > 0 /\ balance[o.credit] < 0
    BY <2>5, Ranges DEF Made, MatchInv, Joins
  <2>7. (Made(o.id, o.debit, o.credit))' BY <1>3, <2>5 DEF Made
  <2>8. Told(k)'
    <3>1. ~k.outer.closes BY <2>1 DEF NoOuter
    <3> QED BY <1>4, <2>1, <2>5, <2>6, <2>7, <3>1 DEF Told
  <2> QED BY <1>5, <2>2, <2>4, <2>8
<1> QED BY <1>6, <1>7
-----------------------------------------------------------------------------
(* unreconcile: every line of the matches starts again from its balance.   *)
LEMMA UndoTurn ==
  ASSUME MatchInv, NEW l \in Lines, Unreconcile(l) PROVE MatchInv'
<1> DEFINE gone == Of(l)
           affected == {p.debit : p \in gone} \cup {p.credit : p \in gone}
<1>1. /\ SharedUndo \/ \A a \in affected \ {l} : Of(a) \subseteq gone
      /\ \A r \in Requests : req[r].step = "idle"
      /\ partials' = partials \ gone
      /\ fulls' = fulls \ {p.full : p \in gone}
      /\ reconciled' = [a \in Lines |-> reconciled[a] /\ a \notin affected]
      /\ full' = [a \in Lines |-> IF a \in affected THEN 0 ELSE full[a]]
      /\ residual' = [a \in Lines |-> IF a \in affected THEN balance[a] ELSE residual[a]]
      /\ UNCHANGED <<balance, made, req>>
  BY DEF Unreconcile, At
<1>2. gone \subseteq partials BY DEF Of
<1>3. \A p \in partials : p.debit \in affected \/ p.credit \in affected \/ p \notin gone OBVIOUS
<1>4. \A p \in gone : p.debit \in affected /\ p.credit \in affected OBVIOUS
<1>5. \A a \in Lines : balance[a] \in Int /\ residual[a] \in Int BY Ranges DEF MatchInv
<1>6. ASSUME ~SharedUndo, NEW a \in affected PROVE Of(a) \subseteq gone BY <1>1, <1>6
<1> HIDE DEF affected
<1>7. /\ \A a \in Lines : residual'[a] = IF a \in affected THEN balance[a] ELSE residual[a]
      /\ \A a \in Lines : reconciled'[a] <=> reconciled[a] /\ a \notin affected
      /\ \A a \in Lines : full'[a] = IF a \in affected THEN 0 ELSE full[a]
  BY <1>1
<1>8. Types'
  <2>1. residual' \in [Lines -> Int] BY <1>1, <1>5, <1>7
  <2>2. reconciled' \in [Lines -> BOOLEAN] BY <1>1, <1>7 DEF MatchInv, Types
  <2>3. full' \in [Lines -> Nat] BY <1>1, <1>7 DEF MatchInv, Types
  <2>4. IsFiniteSet(partials') BY <1>1, FS_Subset DEF MatchInv, Types
  <2> QED BY <1>1, <2>1, <2>2, <2>3, <2>4 DEF MatchInv, Types
<1>9. WithinBalance'
  <2>1. ASSUME NEW a \in Lines PROVE Between(balance[a], residual'[a])
    <3>1. Between(balance[a], residual[a]) BY DEF MatchInv, WithinBalance
    <3> QED BY <1>5, <1>7, <3>1 DEF Between
  <2> QED BY <1>1, <2>1 DEF WithinBalance
<1>10. Joins' BY <1>1 DEF MatchInv, Joins
<1>11. AllTold' BY <1>1 DEF AllTold, Told
<1>12. \A p \in gone, k \in partials : k.full # 0 /\ k.full = p.full => k = p
  <2>1. \A k \in partials : k.full # 0 => k.full = k.id BY DEF MatchInv, Joins
  <2> QED BY <1>2, <2>1 DEF MatchInv, Joins
<1>13. SettledIsBacked'
  <2>1. ASSUME NEW a \in Lines, full[a] # 0, a \notin affected
        PROVE  \E k \in Of(a) : k \notin gone /\ k.full = full[a]
    BY <1>4, <2>1 DEF MatchInv, SettledIsBacked, Of
  <2>2. ASSUME NEW a \in Lines, reconciled'[a] PROVE residual'[a] = 0 /\ full'[a] \in fulls'
    <3>1. reconciled[a] /\ a \notin affected BY <1>7, <2>2
    <3>2. residual[a] = 0 /\ full[a] \in fulls /\ full[a] # 0 BY <3>1 DEF MatchInv, SettledIsBacked
    <3>3. PICK k \in Of(a) : k \notin gone /\ k.full = full[a] BY <2>1, <3>1, <3>2
    <3>4. k \in partials BY <3>3 DEF Of
    <3>5. full[a] \notin {p.full : p \in gone} BY <1>12, <3>2, <3>3, <3>4
    <3> QED BY <1>1, <1>7, <3>1, <3>2, <3>5
  <2>3. ASSUME NEW a \in Lines, full'[a] # 0 PROVE \E k \in Of(a)' : k.full = full'[a]
    <3>1. a \notin affected /\ full'[a] = full[a] BY <1>7, <2>3
    <3>2. PICK k \in Of(a) : k \notin gone /\ k.full = full[a] BY <2>1, <2>3, <3>1
    <3>3. k \in Of(a)' BY <1>1, <3>2 DEF Of
    <3> QED BY <3>1, <3>2, <3>3
  <2>4. fulls' = {p.full : p \in partials'} \ {0}
    <3>1. fulls = {p.full : p \in partials} \ {0} BY DEF MatchInv, SettledIsBacked
    <3> HIDE DEF gone
    <3> QED BY <1>1, <1>2, <1>12, <3>1
  <2> QED BY <2>2, <2>3, <2>4 DEF SettledIsBacked
<1>14. ASSUME ~SharedUndo, Exact PROVE Exact'
  <2>1. \A a : /\ Debited(a) \subseteq partials /\ Credited(a) \subseteq partials
               /\ IsFiniteSet(Debited(a)) /\ IsFiniteSet(Credited(a))
    BY Ranges DEF MatchInv, Debited, Credited
  <2>2. ASSUME NEW a \in Lines
        PROVE  residual'[a] = balance[a] - Weight(partials', Debited(a)') + Weight(partials', Credited(a)')
    <3>1. CASE a \in affected
      <4>1. Of(a) \subseteq gone BY <1>6, <1>14, <3>1
      <4>2. Debited(a)' = {} /\ Credited(a)' = {} BY <1>1, <4>1 DEF Debited, Credited, Of
      <4>3. Weight(partials', {}) = 0 BY SumEmpty DEF Weight
      <4> QED BY <1>5, <1>7, <3>1, <4>2, <4>3
    <3>2. CASE a \notin affected
      <4>1. Debited(a)' = Debited(a) /\ Credited(a)' = Credited(a) BY <1>1, <1>4, <3>2 DEF Debited, Credited
      <4>2. Debited(a) \subseteq partials' /\ Credited(a) \subseteq partials'
        BY <1>1, <1>4, <2>1, <3>2 DEF Debited, Credited
      <4>3. /\ Weight(partials', Debited(a)) = Weight(partials, Debited(a))
            /\ Weight(partials', Credited(a)) = Weight(partials, Credited(a))
        BY <2>1, <4>2, WeightSame
      <4> QED BY <1>7, <1>14, <3>2, <4>1, <4>3 DEF Exact
    <3> QED BY <3>1, <3>2
  <2> QED BY <1>1, <2>2 DEF Exact
<1> QED BY <1>8, <1>9, <1>10, <1>11, <1>13, <1>14 DEF MatchInv
-----------------------------------------------------------------------------
LEMMA InitMatch == ConstantsOK /\ Init => MatchInv
<1> SUFFICES ASSUME ConstantsOK, Init PROVE MatchInv OBVIOUS
<1>1. PICK amount \in [Debits \cup Credits -> Balances] :
        balance = [l \in Lines |-> IF l \in Debits THEN amount[l] ELSE IF l \in Credits THEN -amount[l] ELSE 0]
  BY DEF Init
<1>2. \A l \in Debits \cup Credits : amount[l] \in Nat BY DEF ConstantsOK
<1>3. balance \in [Lines -> Int] /\ residual = balance BY <1>1, <1>2 DEF Init
<1>4. partials = {} /\ IsFiniteSet(partials) /\ fulls = {} BY FS_EmptySet DEF Init
<1>5. req \in [Requests -> Calls] /\ \A r \in Requests : req[r] = NoRequest BY NoCall DEF Init
<1>6. Types BY <1>3, <1>4, <1>5 DEF Init, Types
<1>7. WithinBalance BY <1>3 DEF WithinBalance, Between
<1>8. AllTold BY <1>5, NoCall DEF AllTold
<1>9. SettledIsBacked BY <1>4 DEF Init, SettledIsBacked
<1>10. Exact
  <2>1. \A l : Debited(l) = {} /\ Credited(l) = {} BY <1>4 DEF Debited, Credited
  <2>2. Weight(partials, {}) = 0 BY SumEmpty DEF Weight
  <2>3. \A l \in Lines : Weight(partials, Debited(l)) = 0 /\ Weight(partials, Credited(l)) = 0 BY <2>1, <2>2
  <2>4. \A l \in Lines : residual[l] = balance[l] /\ balance[l] \in Int BY <1>3
  <2> QED BY <2>3, <2>4 DEF Exact
<1> QED BY <1>4, <1>6, <1>7, <1>8, <1>9, <1>10 DEF MatchInv, Joins

LEMMA MatchStep ==
  ASSUME MatchInv, ConstantsOK, OneAtATime, [Next]_vars PROVE MatchInv'
<1>1. ASSUME NEW r \in Requests, NEW d \in Positive, NEW c \in Negative, NEW writeOff \in BOOLEAN,
             NEW asked \in Nat, Reconcile(r, d, c, asked, writeOff)
      PROVE  MatchInv'
  <2>1. d \in Lines /\ c \in Lines /\ balance[d] > 0 /\ balance[c] < 0 BY DEF Positive, Negative
  <2>2. /\ Read(r, d, c, asked, writeOff, NoOuter)
        /\ UNCHANGED <<balance, residual, reconciled, full, partials, fulls, made>>
    BY <1>1 DEF Reconcile
  <2>3. NoOuter \in Outers /\ ~NoOuter.closes BY NoCall DEF NoOuter
  <2> QED BY <2>1, <2>2, <2>3, ReadTurn
<1>2. ASSUME NEW r \in Requests, NEW d \in Positive, NEW c \in Negative, NEW writeOff \in BOOLEAN,
             ReconcileAll(r, d, c, writeOff)
      PROVE  MatchInv'
  <2>1. Smaller(AbsOf(residual[d]), AbsOf(residual[c])) \in Nat BY AsksFor DEF Positive, Negative
  <2> QED BY <1>1, <1>2, <2>1 DEF ReconcileAll
<1>3. ASSUME NEW r \in Requests, Nested(r) PROVE MatchInv'
  <2>1. PICK q : q = req[r] OBVIOUS
  <2>2. q \in Calls /\ Told(q) /\ q.step = "nested" BY <1>3, <2>1 DEF MatchInv, Types, AllTold, Nested, At
  <2>3. PICK asked : asked = Smaller(AbsOf(residual[q.debit]), AbsOf(residual[q.credit])) OBVIOUS
  <2>4. /\ Read(r, q.debit, q.credit, asked, FALSE, q.outer)
        /\ UNCHANGED <<balance, residual, reconciled, full, partials, fulls, made>>
    BY <1>3, <2>1, <2>3 DEF Nested
  <2>5. /\ q.debit \in Lines /\ q.credit \in Lines /\ balance[q.debit] > 0 /\ balance[q.credit] < 0
        /\ residual[q.debit] = -residual[q.credit]
        /\ q.outer.closes => Settled(q.outer, q.debit, q.credit)
    BY <2>2 DEF Told
  <2>6. asked \in Nat /\ asked = residual[q.debit] BY <2>3, <2>5, AsksFor
  <2>7. q.outer \in Outers BY <2>2 DEF Calls
  <2> QED BY <2>4, <2>5, <2>6, <2>7, ReadTurn
<1>4. ASSUME NEW r \in Requests, Fails(r) PROVE MatchInv'
  BY <1>4, NoCall, JustTurn DEF Fails, Set
<1>5. ASSUME UNCHANGED vars PROVE MatchInv'
  <2>1. Types' /\ WithinBalance' /\ Joins' BY <1>5 DEF MatchInv, Types, WithinBalance, Joins, vars
  <2>2. AllTold' BY <1>5 DEF MatchInv, AllTold, Told, Settled, Made, vars
  <2>3. SettledIsBacked' BY <1>5 DEF MatchInv, SettledIsBacked, Of, vars
  <2>4. Exact => Exact' BY <1>5 DEF Exact, Debited, Credited, vars
  <2> QED BY <2>1, <2>2, <2>3, <2>4 DEF MatchInv
<1>6. Balances \subseteq Nat BY DEF ConstantsOK
<1> QED
  BY <1>1, <1>2, <1>3, <1>4, <1>5, <1>6, ApplyTurn, WriteOffTurn, CloseTurn, UndoTurn DEF Next

\* As long as calls of reconcile_lines do not overlap, wherever they end, and unreconcile
\* is asked for lines whose counterparts have no other match: the open amount of a line
\* is its balance less its matches, and never on the other side of nothing.
THEOREM Residuals ==
  ASSUME OneAtATime, ~SharedUndo PROVE Spec => []ResidualExact
<1>1. MatchInv => ResidualExact BY ExactIs
<1>2. Init => MatchInv BY InitMatch, ConstantsOK
<1>3. MatchInv /\ [Next]_vars => MatchInv' BY MatchStep, ConstantsOK
<1> QED BY <1>1, <1>2, <1>3, PTL DEF Spec

\* As long as calls do not overlap, wherever they end and whatever is undone: a line marked
\* reconciled owes nothing, the full reconcile it names is there, and there is one for
\* nothing but a match that is still there.
THEOREM Settlements ==
  ASSUME OneAtATime PROVE Spec => []SettledIsBacked
<1>1. MatchInv => SettledIsBacked BY DEF MatchInv
<1>2. Init => MatchInv BY InitMatch, ConstantsOK
<1>3. MatchInv /\ [Next]_vars => MatchInv' BY MatchStep, ConstantsOK
<1> QED BY <1>1, <1>2, <1>3, PTL DEF Spec
-----------------------------------------------------------------------------
(* Bank statements. What the rows of a statement come to, for any table.   *)
BankRows == [of : Nat, amount : Int, link : MoveLines \cup {NoLink}]
RowsIn(R, s) == {r \in DOMAIN R : R[r].of = s}
Amounts(R) == [r \in DOMAIN R |-> R[r].amount]
TotalOf(R, s) == SumOf(Amounts(R), RowsIn(R, s))

LEMMA RowTotalIs ==
  ASSUME NEW s
  PROVE  RowTotal(s) = TotalOf(rows, s) /\ RowTotal(s)' = TotalOf(rows', s)
  BY DEF RowTotal, RowsOf, TotalOf, RowsIn, Amounts

LEMMA RowsFinite ==
  ASSUME NEW R \in Seq(BankRows), NEW s
  PROVE  /\ IsFiniteSet(DOMAIN R) /\ IsFiniteSet(RowsIn(R, s))
         /\ \A r \in DOMAIN R : R[r] \in BankRows /\ Amounts(R)[r] \in Int
         /\ TotalOf(R, s) \in Int
<1>1. DOMAIN R = 1 .. Len(R) /\ Len(R) \in Nat OBVIOUS
<1>2. IsFiniteSet(DOMAIN R) BY <1>1, FS_Interval
<1>3. RowsIn(R, s) \subseteq DOMAIN R BY DEF RowsIn
<1>4. IsFiniteSet(RowsIn(R, s)) BY <1>2, <1>3, FS_Subset
<1>5. ASSUME NEW r \in DOMAIN R PROVE R[r] \in BankRows /\ Amounts(R)[r] \in Int
  <2>1. R[r] \in BankRows BY <1>1, <1>5
  <2>2. Amounts(R)[r] = R[r].amount BY DEF Amounts
  <2> QED BY <2>1, <2>2 DEF BankRows
<1>6. TotalOf(R, s) \in Int BY <1>3, <1>4, <1>5, SumType DEF TotalOf
<1> QED BY <1>2, <1>4, <1>5, <1>6

LEMMA TotalKept ==
  ASSUME NEW R \in Seq(BankRows), NEW Q \in Seq(BankRows), DOMAIN Q = DOMAIN R, NEW s,
         \A r \in DOMAIN R : Q[r].of = R[r].of /\ Q[r].amount = R[r].amount
  PROVE  TotalOf(Q, s) = TotalOf(R, s)
<1>1. RowsIn(Q, s) = RowsIn(R, s) BY DEF RowsIn
<1>2. \A r \in RowsIn(R, s) : Amounts(Q)[r] = Amounts(R)[r] BY DEF Amounts, RowsIn
<1> QED BY <1>1, <1>2, RowsFinite, SumSame DEF TotalOf

LEMMA TotalLess ==
  ASSUME NEW R \in Seq(BankRows), NEW r \in DOMAIN R, R[r].of # 0, NEW s \in Nat \ {0},
         NEW Q \in Seq(BankRows), DOMAIN Q = DOMAIN R, Q[r].of = 0,
         \A x \in DOMAIN R : Q[x].amount = R[x].amount /\ (x # r => Q[x].of = R[x].of)
  PROVE  TotalOf(Q, s) = TotalOf(R, s) - (IF R[r].of = s THEN R[r].amount ELSE 0)
<1>1. R[r] \in BankRows BY RowsFinite
<1>2. RowsIn(Q, s) = RowsIn(R, s) \ {r} BY DEF RowsIn
<1>3. SumOf(Amounts(Q), RowsIn(Q, s)) = SumOf(Amounts(R), RowsIn(Q, s))
  <2>1. \A x \in RowsIn(Q, s) : Amounts(Q)[x] = Amounts(R)[x] BY DEF Amounts, RowsIn
  <2>2. PICK f, h, S : f = Amounts(Q) /\ h = Amounts(R) /\ S = RowsIn(Q, s) OBVIOUS
  <2>3. IsFiniteSet(S) /\ \A x \in S : f[x] = h[x] BY <2>1, <2>2, RowsFinite
  <2>4. SumOf(f, S) = SumOf(h, S) BY <2>3, SumSame
  <2> QED BY <2>2, <2>4
<1>4. CASE R[r].of = s
  <2>1. r \in RowsIn(R, s) BY <1>4 DEF RowsIn
  <2>2. SumOf(Amounts(R), RowsIn(R, s)) = Amounts(R)[r] + SumOf(Amounts(R), RowsIn(R, s) \ {r})
    <3>1. \A x \in RowsIn(R, s) : Amounts(R)[x] \in Int BY RowsFinite DEF RowsIn
    <3>2. IsFiniteSet(RowsIn(R, s)) BY RowsFinite
    <3>3. PICK f, S : f = Amounts(R) /\ S = RowsIn(R, s) OBVIOUS
    <3>4. r \in S /\ IsFiniteSet(S) /\ \A x \in S : f[x] \in Int BY <2>1, <3>1, <3>2, <3>3
    <3>5. SumOf(f, S) = f[r] + SumOf(f, S \ {r}) BY ONLY <3>4, SumRemove
    <3> QED BY <3>3, <3>5
  <2>3. Amounts(R)[r] = R[r].amount BY DEF Amounts
  <2>4. TotalOf(Q, s) \in Int BY RowsFinite
  <2>5. R[r].amount \in Int BY <1>1 DEF BankRows
  <2>6. TotalOf(R, s) = R[r].amount + TotalOf(Q, s) BY <1>2, <1>3, <2>2, <2>3 DEF TotalOf
  <2> QED BY <1>4, <2>4, <2>5, <2>6
<1>5. CASE R[r].of # s
  <2>1. RowsIn(Q, s) = RowsIn(R, s) BY <1>2, <1>5 DEF RowsIn
  <2>2. TotalOf(R, s) \in Int BY RowsFinite
  <2> QED BY <1>3, <1>5, <2>1, <2>2 DEF TotalOf
<1> QED BY <1>4, <1>5

LEMMA TotalMore ==
  ASSUME NEW R \in Seq(BankRows), NEW P \in Seq(BankRows), NEW o \in Nat,
         \A i \in DOMAIN P : P[i].of = o, NEW s
  PROVE  /\ R \o P \in Seq(BankRows)
         /\ TotalOf(R \o P, s) = TotalOf(R, s) + (IF s = o THEN SumOf(Amounts(P), DOMAIN P) ELSE 0)
<1> DEFINE n == Len(R)
           m == Len(P)
           Q == R \o P
           New == n + 1 .. n + m
<1>1. n \in Nat /\ m \in Nat /\ DOMAIN R = 1 .. n /\ DOMAIN P = 1 .. m OBVIOUS
<1>2. Q \in Seq(BankRows) /\ DOMAIN Q = 1 .. n + m OBVIOUS
<1>3. /\ \A i \in 1 .. n : Q[i] = R[i]
      /\ \A i \in New : i - n \in 1 .. m /\ Q[i] = P[i - n]
      /\ \A i \in 1 .. m : i + n \in New /\ Q[i + n] = P[i]
  BY <1>1
<1>4. RowsIn(Q, s) = RowsIn(R, s) \cup (IF s = o THEN New ELSE {})
  <2>1. \A i \in 1 .. n + m : i \in 1 .. n \/ i \in New BY <1>1
  <2>2. \A i \in New : Q[i].of = o /\ i \in 1 .. n + m BY <1>1, <1>3
  <2>3. \A i \in 1 .. n : i \in 1 .. n + m /\ i \notin New BY <1>1
  <2> HIDE DEF Q, New, n, m
  <2> QED BY <1>1, <1>2, <1>3, <2>1, <2>2, <2>3 DEF RowsIn
<1>5. TotalOf(R, s) \in Int /\ IsFiniteSet(RowsIn(R, s)) BY RowsFinite
<1>6. SumOf(Amounts(Q), RowsIn(R, s)) = TotalOf(R, s)
  <2>1. \A i \in RowsIn(R, s) : Amounts(Q)[i] = Amounts(R)[i]
    <3>1. \A i \in RowsIn(R, s) : i \in 1 .. n /\ i \in 1 .. n + m BY <1>1 DEF RowsIn
    <3> HIDE DEF Q, New, n, m
    <3> QED BY <1>1, <1>2, <1>3, <3>1 DEF Amounts
  <2> HIDE DEF Q
  <2> QED BY <1>5, <2>1, SumSame DEF TotalOf
<1>7. CASE s # o
  <2>1. RowsIn(Q, s) = RowsIn(R, s) BY <1>4, <1>7
  <2> QED BY <1>2, <1>5, <1>6, <1>7, <2>1 DEF TotalOf
<1>8. CASE s = o
  <2>1. IsFiniteSet(New) /\ IsFiniteSet(1 .. m)
    <3>1. n + 1 \in Int /\ n + m \in Int /\ 1 \in Int BY <1>1
    <3> HIDE DEF n, m
    <3>2. IsFiniteSet(n + 1 .. n + m) BY <3>1, FS_Interval
    <3>3. IsFiniteSet(1 .. m) BY <1>1, FS_Interval
    <3> QED BY <3>2, <3>3
  <2>2. SumOf(Amounts(P), DOMAIN P) = SumOf(Amounts(Q), New)
    <3> DEFINE b == [i \in 1 .. m |-> i + n]
    <3>1. b \in [1 .. m -> New] BY <1>1
    <3>2. \A x, y \in 1 .. m : b[x] = b[y] => x = y BY <1>1
    <3>3. \A y \in New : \E x \in 1 .. m : b[x] = y
      <4> SUFFICES ASSUME NEW y \in New PROVE \E x \in 1 .. m : b[x] = y
        OBVIOUS
      <4>1. y - n \in 1 .. m /\ b[y - n] = y BY <1>1
      <4> QED BY <4>1
    <3>4. \A x \in 1 .. m : Amounts(P)[x] \in Int /\ Amounts(P)[x] = Amounts(Q)[b[x]]
      <4> SUFFICES ASSUME NEW x \in 1 .. m PROVE Amounts(P)[x] \in Int /\ Amounts(P)[x] = Amounts(Q)[b[x]]
        OBVIOUS
      <4>1. Amounts(P)[x] = P[x].amount /\ Amounts(P)[x] \in Int BY <1>1, RowsFinite DEF Amounts
      <4>2. b[x] = x + n /\ x + n \in 1 .. n + m BY <1>1
      <4>3. Amounts(Q)[x + n] = Q[x + n].amount BY <1>2, <4>2 DEF Amounts
      <4> QED BY <1>3, <4>1, <4>2, <4>3
    <3> HIDE DEF b, Q, New, n, m
    <3>5. PICK f, h, S, T, c : f = Amounts(P) /\ h = Amounts(Q) /\ S = 1 .. m /\ T = New /\ c = b OBVIOUS
    <3>6. /\ IsFiniteSet(S) /\ IsFiniteSet(T) /\ c \in [S -> T]
          /\ \A x, y \in S : c[x] = c[y] => x = y
          /\ \A y \in T : \E x \in S : c[x] = y
          /\ \A x \in S : f[x] \in Int /\ f[x] = h[c[x]]
      BY <2>1, <3>1, <3>2, <3>3, <3>4, <3>5
    <3>7. SumOf(f, S) = SumOf(h, T) BY <3>6, SumRenamed
    <3> QED BY <1>1, <3>5, <3>7
  <2>3. SumOf(Amounts(Q), RowsIn(R, s) \cup New) = SumOf(Amounts(Q), RowsIn(R, s)) + SumOf(Amounts(Q), New)
    <3>1. RowsIn(R, s) \cap New = {} BY <1>1 DEF RowsIn
    <3>2. \A i \in RowsIn(R, s) \cup New : Amounts(Q)[i] \in Int
      <4>1. RowsIn(R, s) \cup New \subseteq DOMAIN Q BY <1>1, <1>2 DEF RowsIn
      <4> HIDE DEF Q, New
      <4> QED BY <1>2, <4>1, RowsFinite
    <3> HIDE DEF Q, New
    <3> QED BY <1>5, <2>1, <3>1, <3>2, SumUnion
  <2> HIDE DEF Q, New
  <2>4. TotalOf(Q, s) = TotalOf(R, s) + SumOf(Amounts(P), DOMAIN P) BY <1>4, <1>6, <1>8, <2>2, <2>3 DEF TotalOf
  <2> QED BY <1>2, <1>8, <2>4 DEF Q
<1> QED BY <1>7, <1>8

\* One row more.
LEMMA TotalOneMore ==
  ASSUME NEW R \in Seq(BankRows), NEW row \in BankRows, NEW s
  PROVE  /\ Append(R, row) \in Seq(BankRows)
         /\ TotalOf(Append(R, row), s) = TotalOf(R, s) + (IF s = row.of THEN row.amount ELSE 0)
<1>1. PICK P : P = <<row>> OBVIOUS
<1>2. P \in Seq(BankRows) /\ DOMAIN P = {1} /\ P[1] = row BY <1>1
<1>3. Append(R, row) = R \o P /\ Append(R, row) \in Seq(BankRows) BY <1>1
<1>4. SumOf(Amounts(P), {1}) = row.amount
  <2>1. PICK f : f = Amounts(P) OBVIOUS
  <2>2. f[1] = row.amount /\ f[1] \in Int BY <1>2, <2>1 DEF Amounts, BankRows
  <2>3. SumOf(f, {1}) = f[1] + SumOf(f, {1} \ {1})
    <3>1. IsFiniteSet({1}) /\ \A x \in {1} : f[x] \in Int BY <2>2, FS_Singleton
    <3> QED BY <3>1, SumRemove
  <2>4. {1} \ {1} = {} OBVIOUS
  <2>5. SumOf(f, {1} \ {1}) = 0 BY <2>4, SumEmpty
  <2> QED BY <2>1, <2>2, <2>3, <2>5
<1>5. row.of \in Nat BY DEF BankRows
<1>6. \A i \in DOMAIN P : P[i].of = row.of BY <1>2
<1>7. TotalOf(R \o P, s) = TotalOf(R, s) + (IF s = row.of THEN SumOf(Amounts(P), DOMAIN P) ELSE 0)
  BY <1>2, <1>5, <1>6, TotalMore
<1> QED BY <1>2, <1>3, <1>4, <1>7

\* The rows of a split come to what its move lines come to.
LEMMA PartsFit ==
  ASSUME NEW W \in SUBSET MoveLines, NEW o \in Nat, NEW P, P = Parts(o, W)
  PROVE  /\ P \in Seq(BankRows) /\ \A i \in DOMAIN P : P[i].of = o
         /\ SumOf(Amounts(P), DOMAIN P) = SumOf(LineResidual, W)
<1>1. PICK n : n = Cardinality(W) OBVIOUS
<1>2. IsFiniteSet(W) /\ n \in Nat /\ ExistsBijection(1 .. n, W) BY <1>1, BankAssumption, FS_Subset, FS_CardinalityType
<1>3. PICK order : order = SetToSeq(W) OBVIOUS
<1>4. order \in [1 .. n -> W] /\ IsInjective(order)
  <2>1. \E f \in [1 .. n -> W] : IsInjective(f) BY <1>2 DEF ExistsBijection, Bijection, Injection
  <2> QED BY <1>1, <1>3, <2>1 DEF SetToSeq
<1>5. order \in Surjection(1 .. n, W)
  <2>1. order \in Injection(1 .. n, W) BY <1>4 DEF Injection
  <2>2. Cardinality(1 .. n) = n BY <1>2, FS_Interval
  <2> QED BY <1>1, <1>2, <2>1, <2>2, FS_Injection
<1>6. \A y \in W : \E x \in 1 .. n : order[x] = y BY <1>5 DEF Surjection
<1>7. \A x, y \in 1 .. n : order[x] = order[y] => x = y BY <1>4 DEF IsInjective
<1>8. P = [i \in 1 .. n |-> [of |-> o, amount |-> LineResidual[order[i]], link |-> order[i]]]
  <2>1. DOMAIN order = 1 .. n BY <1>4
  <2> QED BY <1>3, <2>1 DEF Parts
<1>9. ASSUME NEW i \in 1 .. n
      PROVE  /\ P[i] \in BankRows /\ P[i].of = o /\ P[i].amount = LineResidual[order[i]]
             /\ LineResidual[order[i]] \in Int
  <2>1. order[i] \in MoveLines BY <1>4
  <2>2. LineResidual[order[i]] \in Int BY <2>1, BankAssumption
  <2> QED BY <1>8, <2>1, <2>2 DEF BankRows
<1>10. P \in Seq(BankRows) /\ DOMAIN P = 1 .. n
  <2>1. P \in [1 .. n -> BankRows] BY <1>8, <1>9
  <2> QED BY <1>2, <2>1
<1>11. SumOf(Amounts(P), 1 .. n) = SumOf(LineResidual, W)
  <2>1. PICK f, S : f = Amounts(P) /\ S = 1 .. n OBVIOUS
  <2>2. /\ IsFiniteSet(S) /\ order \in [S -> W]
        /\ \A x, y \in S : order[x] = order[y] => x = y
        /\ \A y \in W : \E x \in S : order[x] = y
    BY <1>2, <1>4, <1>6, <1>7, <2>1, FS_Interval
  <2>3. \A x \in S : f[x] \in Int /\ f[x] = LineResidual[order[x]] BY <1>9, <1>10, <2>1 DEF Amounts
  <2>4. SumOf(f, S) = SumOf(LineResidual, W) BY <1>2, <2>2, <2>3, SumRenamed
  <2> QED BY <2>1, <2>4
<1> QED BY <1>9, <1>10, <1>11
-----------------------------------------------------------------------------
StatementRows == [date : Nat, start : Int, end : Int, state : {"open", "confirmed"}]
Confirms == [op : {"confirm"}, at : Nat]
Matchings == [op : {"link", "split"}, row : Nat, of : Nat, with : SUBSET MoveLines]
Tellings == {Idle} \cup Confirms \cup Matchings
Knows(c) ==
  /\ c.op = "confirm" => c.at \in DOMAIN statements
  /\ c.op \in {"link", "split"} => c.row \in DOMAIN rows
BankTypes ==
  /\ today \in Nat
  /\ statements \in Seq(StatementRows) /\ rows \in Seq(BankRows)
  /\ reported \in Seq(Int) /\ Len(reported) = Len(statements)
  /\ telling \in [Tellers -> Tellings]
  /\ \A u \in Tellers : Knows(telling[u])

LEMMA TellingKinds ==
  ASSUME NEW c \in Tellings
  PROVE  /\ c.op = "confirm" => c \in Confirms
         /\ c.op \in {"link", "split"} => c \in Matchings
         /\ c = Idle => c.op = "idle"
         /\ c.op = "idle" => c = Idle
  BY DEF Tellings, Confirms, Matchings, Idle

\* A call takes its turn; the tables only grow.
LEMMA TellsTyped ==
  ASSUME BankTypes, NEW u \in Tellers, NEW c \in Tellings, Tells(u, c), Knows(c)',
         DOMAIN statements \subseteq DOMAIN statements', DOMAIN rows \subseteq DOMAIN rows'
  PROVE  telling' \in [Tellers -> Tellings] /\ \A v \in Tellers : Knows(telling[v])'
<1>1. \A v \in Tellers : telling'[v] = IF v = u THEN c ELSE telling[v] BY DEF Tells, BankTypes
<1>2. telling' \in [Tellers -> Tellings] BY DEF Tells, BankTypes
<1>3. ASSUME NEW v \in Tellers PROVE Knows(telling[v])'
  <2>1. Knows(telling[v]) BY DEF BankTypes
  <2> QED BY <1>1, <2>1 DEF Knows
<1> QED BY <1>2, <1>3

LEMMA BankTypesHold ==
  ASSUME BankTypes, [BankNext]_<<bankVars, workdayVars>>
  PROVE  BankTypes'
<1>1. Idle \in Tellings /\ Knows(Idle)' BY DEF Tellings, Knows, Idle
<1>2. ASSUME UNCHANGED <<statements, rows, reported, today>>, NEW u \in Tellers, NEW c \in Tellings,
             Tells(u, c), Knows(c)
      PROVE  BankTypes'
  <2>1. Knows(c)' BY <1>2 DEF Knows
  <2> QED BY <1>2, <2>1, TellsTyped DEF BankTypes
<1>3. ASSUME UNCHANGED workdayVars, NEW start \in StatementBalances, NEW end \in StatementBalances, EnterStatement(start, end)
      PROVE  BankTypes'
  <2>1. PICK row : /\ row = [date |-> today, start |-> start, end |-> end, state |-> "open"]
                   /\ statements' = Append(statements, row) /\ reported' = Append(reported, 0)
                   /\ UNCHANGED <<rows, telling, today>>
    BY <1>3 DEF EnterStatement, workdayVars
  <2>2. row \in StatementRows BY <2>1, BankAssumption DEF BankTypes, StatementRows
  <2>3. /\ statements' \in Seq(StatementRows) /\ reported' \in Seq(Int) /\ Len(reported') = Len(statements')
        /\ DOMAIN statements \subseteq DOMAIN statements'
    BY <2>1, <2>2 DEF BankTypes
  <2>4. ASSUME NEW v \in Tellers PROVE Knows(telling[v])'
    <3>1. Knows(telling[v]) BY DEF BankTypes
    <3> QED BY <2>1, <2>3, <3>1 DEF Knows
  <2> QED BY <2>1, <2>3, <2>4 DEF BankTypes
<1>4. ASSUME UNCHANGED workdayVars, NEW s \in DOMAIN statements, NEW W \in SUBSET MoveLines, EnterRow(s, SumOf(LineResidual, W))
      PROVE  BankTypes'
  <2>1. PICK amount, row :
          /\ amount = SumOf(LineResidual, W) /\ row = [of |-> s, amount |-> amount, link |-> NoLink]
          /\ rows' = Append(rows, row) /\ reported' = [reported EXCEPT ![s] = @ + amount]
          /\ UNCHANGED <<statements, telling, today>>
    BY <1>4 DEF EnterRow, workdayVars
  <2>2. amount \in Int
    <3>1. IsFiniteSet(W) /\ \A x \in W : LineResidual[x] \in Int BY BankAssumption, FS_Subset
    <3> QED BY <2>1, <3>1, SumType
  <2>3. row \in BankRows BY <2>1, <2>2 DEF BankTypes, BankRows
  <2>4. rows' \in Seq(BankRows) /\ DOMAIN rows \subseteq DOMAIN rows' BY <2>1, <2>3 DEF BankTypes
  <2>5. reported' \in Seq(Int) /\ Len(reported') = Len(reported)
    <3>1. s \in DOMAIN reported BY DEF BankTypes
    <3> QED BY <2>1, <2>2, <3>1 DEF BankTypes
  <2>6. ASSUME NEW v \in Tellers PROVE Knows(telling[v])'
    <3>1. Knows(telling[v]) BY DEF BankTypes
    <3> QED BY <2>1, <2>4, <3>1 DEF Knows
  <2> QED BY <2>1, <2>4, <2>5, <2>6 DEF BankTypes
<1>5. ASSUME UNCHANGED workdayVars, NEW u \in Tellers, NEW s \in DOMAIN statements, ConfirmBegin(u, s)
      PROVE  BankTypes'
  <2>1. PICK c : c = [op |-> "confirm", at |-> s] /\ Tells(u, c) BY <1>5 DEF ConfirmBegin
  <2>2. c \in Tellings /\ Knows(c) BY <2>1 DEF BankTypes, Tellings, Confirms, Knows
  <2> QED BY <1>2, <1>5, <2>1, <2>2 DEF ConfirmBegin, workdayVars
<1>6. ASSUME UNCHANGED workdayVars, NEW u \in Tellers, ConfirmWrite(u) PROVE BankTypes'
  <2>1. telling[u] \in Tellings /\ Knows(telling[u]) /\ telling[u].op = "confirm" BY <1>6 DEF BankTypes, ConfirmWrite
  <2>2. PICK s : s = telling[u].at /\ s \in DOMAIN statements BY <2>1 DEF Knows
  <2>3. statements[s] \in StatementRows BY <2>2 DEF BankTypes
  <2>4. PICK row : row = [statements[s] EXCEPT !.state = "confirmed"] /\ statements' = [statements EXCEPT ![s] = row]
    BY <1>6, <2>2 DEF ConfirmWrite
  <2>5. row \in StatementRows BY <2>3, <2>4 DEF StatementRows
  <2>6. statements' \in Seq(StatementRows) /\ Len(statements') = Len(statements) BY <2>2, <2>4, <2>5 DEF BankTypes
  <2>7. DOMAIN statements \subseteq DOMAIN statements' BY <2>4
  <2> QED BY <1>1, <1>6, <2>6, <2>7, TellsTyped DEF ConfirmWrite, BankTypes, workdayVars
<1>7. ASSUME UNCHANGED workdayVars, NEW u \in Tellers, NEW r \in DOMAIN rows, NEW W \in SUBSET MoveLines, LinkBegin(u, r, W)
      PROVE  BankTypes'
  <2>1. PICK c : /\ c = [op |-> IF Cardinality(W) = 1 THEN "link" ELSE "split", row |-> r, of |-> rows[r].of, with |-> W]
                 /\ Tells(u, c)
    BY <1>7 DEF LinkBegin
  <2>2. rows[r] \in BankRows BY DEF BankTypes
  <2>3. r \in Nat BY DEF BankTypes
  <2>4. c \in Tellings /\ Knows(c) BY <2>1, <2>2, <2>3 DEF BankRows, Tellings, Matchings, Knows
  <2> QED BY <1>2, <1>7, <2>1, <2>4 DEF LinkBegin, workdayVars
<1>8. ASSUME UNCHANGED workdayVars, NEW u \in Tellers, LinkWrite(u) PROVE BankTypes'
  <2>1. telling[u] \in Tellings /\ Knows(telling[u]) /\ telling[u].op = "link" BY <1>8 DEF BankTypes, LinkWrite
  <2>2. telling[u] \in Matchings BY <2>1, TellingKinds
  <2>3. PICK l \in telling[u].with :
          rows' = IF rows[telling[u].row].of = 0 THEN rows ELSE [rows EXCEPT ![telling[u].row].link = l]
    BY <1>8 DEF LinkWrite
  <2>4. PICK r : r = telling[u].row /\ r \in DOMAIN rows BY <2>1 DEF Knows
  <2>5. PICK row : row = [rows[r] EXCEPT !.link = l] OBVIOUS
  <2>6. rows' = rows \/ rows' = [rows EXCEPT ![r] = row] BY <2>3, <2>4, <2>5
  <2>7. rows[r] \in BankRows /\ l \in MoveLines BY <2>2, <2>4 DEF BankTypes, Matchings
  <2>8. row \in BankRows BY <2>5, <2>7 DEF BankRows
  <2>9. rows' \in Seq(BankRows) /\ DOMAIN rows \subseteq DOMAIN rows'
    <3>1. rows \in Seq(BankRows) BY DEF BankTypes
    <3>2. PICK changed : changed = [rows EXCEPT ![r] = row] OBVIOUS
    <3>3. changed \in Seq(BankRows) /\ DOMAIN changed = DOMAIN rows BY <2>4, <2>8, <3>1, <3>2
    <3> QED BY <2>6, <3>1, <3>2, <3>3
  <2> QED BY <1>1, <1>8, <2>9, TellsTyped DEF LinkWrite, BankTypes, workdayVars
<1>9. ASSUME UNCHANGED workdayVars, NEW u \in Tellers, SplitWrite(u) PROVE BankTypes'
  <2>1. telling[u] \in Tellings /\ Knows(telling[u]) /\ telling[u].op = "split" BY <1>9 DEF BankTypes, SplitWrite
  <2>2. telling[u] \in Matchings BY <2>1, TellingKinds
  <2>3. PICK r, o, W, row, P :
          /\ r = telling[u].row /\ o = telling[u].of /\ W = telling[u].with
          /\ row = [rows[r] EXCEPT !.of = 0] /\ P = Parts(o, W)
          /\ rows' = [rows EXCEPT ![r] = row] \o P
    BY <1>9 DEF SplitWrite
  <2>4. r \in DOMAIN rows /\ o \in Nat /\ W \in SUBSET MoveLines BY <2>1, <2>2, <2>3 DEF Knows, Matchings
  <2>5. P \in Seq(BankRows) BY <2>3, <2>4, PartsFit
  <2>6. rows[r] \in BankRows BY <2>4 DEF BankTypes
  <2>7. row \in BankRows BY <2>3, <2>6 DEF BankRows
  <2>8. rows' \in Seq(BankRows) /\ DOMAIN rows \subseteq DOMAIN rows' BY <2>3, <2>4, <2>5, <2>7 DEF BankTypes
  <2> QED BY <1>1, <1>9, <2>8, TellsTyped DEF SplitWrite, BankTypes, workdayVars
<1>10. ASSUME UNCHANGED workdayVars, NEW u \in Tellers, TellingStops(u) PROVE BankTypes'
  <2>1. Knows(Idle) BY DEF Knows, Idle
  <2> QED BY <1>1, <1>2, <1>10, <2>1 DEF TellingStops, workdayVars
<1>11. CASE NextDay /\ UNCHANGED bankVars BY <1>11 DEF NextDay, bankVars, BankTypes, Knows
<1>12. CASE UNCHANGED <<bankVars, workdayVars>> BY <1>12 DEF bankVars, workdayVars, BankTypes, Knows
<1> QED BY <1>3, <1>4, <1>5, <1>6, <1>7, <1>8, <1>9, <1>10, <1>11, <1>12 DEF BankNext
-----------------------------------------------------------------------------
\* A statement starts where the one before it ends.
Continues(s) == Priors(s) # {} => \E p \in Priors(s) : statements[p].end = statements[s].start
Fitting(c) ==
  /\ c.op = "confirm" => Continues(c.at)
  /\ c.op \in {"link", "split"} => /\ rows[c.row].of = c.of /\ c.of # 0
                                   /\ rows[c.row].amount = SumOf(LineResidual, c.with)
InOrder ==
  \A s, t \in DOMAIN statements :
    statements[s].date <= today /\ (s <= t => statements[s].date <= statements[t].date)
BankInv ==
  exclusive =>
    /\ \A s \in DOMAIN statements : TotalOf(rows, s) = reported[s]
    /\ \A r \in DOMAIN rows : rows[r].of <= Len(statements)
    /\ \A u, v \in Tellers : u # v => telling[u] = Idle \/ telling[v] = Idle
    /\ InOrder
    /\ \A s \in DOMAIN statements : statements[s].state = "confirmed" => Continues(s)
    /\ \A u \in Tellers : Fitting(telling[u])

LEMMA TellsAlone ==
  ASSUME BankTypes, BankInv, exclusive, NEW u \in Tellers, NEW c,
         telling[u] # Idle \/ MayCall(telling, u), Tells(u, c)
  PROVE  \A v \in Tellers : telling'[v] = IF v = u THEN c ELSE Idle
<1>1. DOMAIN telling = Tellers BY DEF BankTypes
<1>2. \A v \in Tellers : v # u => telling[v] = Idle
  BY <1>1 DEF BankInv, MayCall
<1> QED BY <1>1, <1>2 DEF Tells

\* What statements are entered later, or confirmed, leaves the ones before each.
LEMMA ContinuesStill ==
  ASSUME BankTypes, InOrder, NEW s \in DOMAIN statements, Continues(s),
         DOMAIN statements \subseteq DOMAIN statements',
         \A q \in DOMAIN statements :
           /\ statements'[q].date = statements[q].date
           /\ statements'[q].start = statements[q].start /\ statements'[q].end = statements[q].end,
         \A q \in DOMAIN statements' \ DOMAIN statements : statements'[q].date = today
  PROVE  Continues(s)'
<1>1. \A q \in DOMAIN statements : statements[q].date \in Nat /\ statements[q].date <= today
  <2>1. \A q \in DOMAIN statements : statements[q] \in StatementRows BY DEF BankTypes
  <2> QED BY <2>1 DEF InOrder, StatementRows
<1>2. today \in Nat BY DEF BankTypes
<1>3. \A q \in DOMAIN statements' : statements'[q].date < statements'[s].date =>
        q \in DOMAIN statements
  BY <1>1, <1>2
<1>4. Priors(s)' = Priors(s) BY <1>1, <1>3 DEF Priors
<1>5. Priors(s) \subseteq DOMAIN statements BY DEF Priors
<1> QED BY <1>4, <1>5 DEF Continues

\* Turns of a call that leave the tables as they are.
LEMMA BankTurn ==
  ASSUME BankTypes, BankInv, exclusive, UNCHANGED <<statements, rows, reported, today, exclusive>>,
         NEW u \in Tellers, NEW c, telling[u] # Idle \/ MayCall(telling, u), Tells(u, c), Fitting(c)
  PROVE  BankInv'
<1>1. \A v \in Tellers : telling'[v] = IF v = u THEN c ELSE Idle BY TellsAlone
<1>2. Fitting(Idle) BY DEF Fitting, Idle
<1>3. ASSUME NEW d, Fitting(d) PROVE Fitting(d)' BY <1>3 DEF Fitting, Continues, Priors
<1>4. Fitting(c)' /\ Fitting(Idle)' BY <1>2, <1>3
<1>5. ASSUME NEW v \in Tellers PROVE Fitting(telling[v])'
  <2>1. telling'[v] = c \/ telling'[v] = Idle BY <1>1
  <2> QED BY <1>4, <2>1 DEF Fitting
<1>6. InOrder' BY DEF BankInv, InOrder
<1>7. \A s \in DOMAIN statements : (statements[s].state = "confirmed" => Continues(s))' BY DEF BankInv, Continues, Priors
<1> QED BY <1>1, <1>5, <1>6, <1>7 DEF BankInv

\* Rows change by one turn of a call, which is then over; the statements' totals stay.
LEMMA RowsTurn ==
  ASSUME BankTypes, BankInv, exclusive, UNCHANGED <<statements, reported, today, exclusive>>,
         NEW u \in Tellers, telling[u] # Idle, Tells(u, Idle),
         \A s \in DOMAIN statements : TotalOf(rows', s) = TotalOf(rows, s),
         \A r \in DOMAIN rows' : rows'[r].of <= Len(statements)
  PROVE  BankInv'
<1>1. \A v \in Tellers : telling'[v] = Idle BY TellsAlone
<1>2. \A v \in Tellers : Fitting(telling[v])' BY <1>1 DEF Fitting, Idle
<1>3. InOrder' BY DEF BankInv, InOrder
<1>4. \A s \in DOMAIN statements : (statements[s].state = "confirmed" => Continues(s))' BY DEF BankInv, Continues, Priors
<1> QED BY <1>1, <1>2, <1>3, <1>4 DEF BankInv

LEMMA BankStep ==
  ASSUME BankTypes, BankInv, RowsFit, [BankNext]_<<bankVars, workdayVars>>
  PROVE  BankInv'
<1>0. exclusive' = exclusive BY DEF BankNext, workdayVars, NextDay
<1> SUFFICES ASSUME exclusive PROVE BankInv'
  BY <1>0 DEF BankInv
<1>1. Fitting(Idle) BY DEF Fitting, Idle
<1>2. today \in Nat /\ rows \in Seq(BankRows) /\ DOMAIN statements = 1 .. Len(statements) /\ Len(statements) \in Nat
  BY DEF BankTypes
<1>busy. \A u \in Tellers : telling[u].op # "idle" => telling[u] # Idle BY DEF Idle
<1>3. ASSUME UNCHANGED workdayVars, NEW start \in StatementBalances, NEW end \in StatementBalances, EnterStatement(start, end)
      PROVE  BankInv'
  <2>1. PICK row : /\ row = [date |-> today, start |-> start, end |-> end, state |-> "open"]
                   /\ statements' = Append(statements, row) /\ reported' = Append(reported, 0)
                   /\ UNCHANGED <<rows, telling, today>>
    BY <1>3 DEF EnterStatement, workdayVars
  <2>2. PICK n \in Nat : n = Len(statements) BY <1>2
  <2>3. /\ DOMAIN statements = 1 .. n /\ DOMAIN statements' = 1 .. n + 1
        /\ statements'[n + 1] = row /\ reported'[n + 1] = 0
        /\ \A q \in 1 .. n : statements'[q] = statements[q] /\ reported'[q] = reported[q]
    BY <2>1, <2>2 DEF BankTypes
  <2>4. \A q \in DOMAIN statements' \ DOMAIN statements : q = n + 1 /\ statements'[q].date = today BY <2>1, <2>3
  <2>5. \A u \in Tellers : telling[u] = Idle BY <1>3 DEF EnterStatement, NobodyTells
  <2>6. \A u \in Tellers : Fitting(telling[u])' BY <2>1, <2>5 DEF Fitting, Idle
  <2>7. ASSUME NEW s \in DOMAIN statements', statements'[s].state = "confirmed" PROVE Continues(s)'
    <3>1. s # n + 1 BY <2>1, <2>3, <2>7
    <3>2. s \in DOMAIN statements BY <2>4, <2>7, <3>1
    <3>3. Continues(s) BY <2>3, <2>7, <3>2 DEF BankInv
    <3>4. DOMAIN statements \subseteq DOMAIN statements' BY <2>3
    <3> QED BY <2>3, <2>4, <3>2, <3>3, <3>4, ContinuesStill DEF BankInv
  <2>8. InOrder'
    <3>1. InOrder BY DEF BankInv
    <3>2. \A q \in 1 .. n : statements[q].date \in Nat /\ statements[q].date <= today
      <4>1. \A q \in 1 .. n : statements[q] \in StatementRows BY <2>3 DEF BankTypes
      <4> QED BY <2>3, <3>1, <4>1 DEF InOrder, StatementRows
    <3>3. ASSUME NEW q \in 1 .. n + 1 PROVE q \in 1 .. n \/ q = n + 1 OBVIOUS
    <3> QED BY <1>2, <2>1, <2>3, <3>1, <3>2, <3>3 DEF InOrder
  <2>9. ASSUME NEW s \in DOMAIN statements' PROVE TotalOf(rows', s) = reported'[s]
    <3>1. CASE s = n + 1
      <4>1. RowsIn(rows, s) = {}
        <5>1. \A r \in DOMAIN rows : rows[r].of \in Nat /\ rows[r].of <= n BY <2>2, RowsFinite DEF BankInv, BankRows, BankTypes
        <5> QED BY <3>1, <5>1 DEF RowsIn
      <4>2. TotalOf(rows, s) = 0 BY <4>1, SumEmpty DEF TotalOf
      <4> QED BY <2>1, <2>3, <3>1, <4>2
    <3>2. CASE s # n + 1
      <4>1. s \in DOMAIN statements BY <2>4, <3>2
      <4> QED BY <2>1, <2>3, <4>1 DEF BankInv
    <3> QED BY <3>1, <3>2
  <2>10. \A r \in DOMAIN rows' : rows'[r].of <= Len(statements')
    <3>1. Len(statements') = n + 1 BY <2>1, <2>2 DEF BankTypes
    <3>2. \A r \in DOMAIN rows : rows[r].of \in Nat /\ rows[r].of <= n BY <2>2, RowsFinite DEF BankInv, BankRows, BankTypes
    <3> QED BY <2>1, <3>1, <3>2
  <2> QED BY <1>0, <2>1, <2>5, <2>6, <2>7, <2>8, <2>9, <2>10 DEF BankInv
<1>4. ASSUME UNCHANGED workdayVars, NEW s \in DOMAIN statements, NEW W \in SUBSET MoveLines, EnterRow(s, SumOf(LineResidual, W))
      PROVE  BankInv'
  <2>1. PICK amount, row :
          /\ amount = SumOf(LineResidual, W) /\ row = [of |-> s, amount |-> amount, link |-> NoLink]
          /\ rows' = Append(rows, row) /\ reported' = [reported EXCEPT ![s] = @ + amount]
          /\ UNCHANGED <<statements, telling, today>>
    BY <1>4 DEF EnterRow, workdayVars
  <2>2. amount \in Int
    <3>1. IsFiniteSet(W) /\ \A x \in W : LineResidual[x] \in Int BY BankAssumption, FS_Subset
    <3> QED BY <2>1, <3>1, SumType
  <2>3. row \in BankRows BY <1>2, <2>1, <2>2 DEF BankRows
  <2>4. \A u \in Tellers : telling[u] = Idle BY <1>4 DEF EnterRow, NobodyTells
  <2>5. \A u \in Tellers : Fitting(telling[u])' BY <2>1, <2>4 DEF Fitting, Idle
  <2>6. ASSUME NEW t \in DOMAIN statements PROVE TotalOf(rows', t) = reported'[t]
    <3>1. TotalOf(rows', t) = TotalOf(rows, t) + (IF t = s THEN amount ELSE 0)
      <4>1. TotalOf(Append(rows, row), t) = TotalOf(rows, t) + (IF t = row.of THEN row.amount ELSE 0)
        BY <1>2, <2>3, TotalOneMore
      <4> QED BY <2>1, <4>1
    <3>2. reported'[t] = IF t = s THEN reported[t] + amount ELSE reported[t] BY <2>1 DEF BankTypes
    <3>3. TotalOf(rows, t) = reported[t] /\ reported[t] \in Int BY DEF BankInv, BankTypes
    <3> QED BY <3>1, <3>2, <3>3
  <2>7. \A r \in DOMAIN rows' : rows'[r].of <= Len(statements')
    <3>1. \A r \in DOMAIN rows' : (r \in DOMAIN rows /\ rows'[r] = rows[r]) \/ rows'[r] = row BY <1>2, <2>1
    <3> QED BY <1>2, <2>1, <3>1 DEF BankInv
  <2>8. InOrder' BY <2>1 DEF BankInv, InOrder
  <2>9. \A t \in DOMAIN statements : (statements[t].state = "confirmed" => Continues(t))'
    BY <2>1 DEF BankInv, Continues, Priors
  <2> QED BY <1>0, <2>1, <2>4, <2>5, <2>6, <2>7, <2>8, <2>9 DEF BankInv
<1>5. ASSUME UNCHANGED workdayVars, NEW u \in Tellers, NEW s \in DOMAIN statements, ConfirmBegin(u, s)
      PROVE  BankInv'
  <2>1. PICK c : c = [op |-> "confirm", at |-> s] /\ Tells(u, c) BY <1>5 DEF ConfirmBegin
  <2>2. Fitting(c) BY <1>5, <2>1 DEF ConfirmBegin, Fitting, Continues
  <2> QED BY <1>5, <2>1, <2>2, BankTurn DEF ConfirmBegin, workdayVars
<1>6. ASSUME UNCHANGED workdayVars, NEW u \in Tellers, ConfirmWrite(u) PROVE BankInv'
  <2>1. Knows(telling[u]) /\ telling[u].op = "confirm" /\ telling[u] # Idle /\ Fitting(telling[u])
    BY <1>busy, <1>6 DEF BankTypes, ConfirmWrite, BankInv
  <2>2. PICK s : s = telling[u].at /\ s \in DOMAIN statements /\ Continues(s) BY <2>1 DEF Knows, Fitting
  <2>3. statements[s] \in StatementRows BY <2>2 DEF BankTypes
  <2>4. PICK row : row = [statements[s] EXCEPT !.state = "confirmed"] /\ statements' = [statements EXCEPT ![s] = row]
    BY <1>6, <2>2 DEF ConfirmWrite
  <2>5. /\ row.date = statements[s].date /\ row.start = statements[s].start /\ row.end = statements[s].end
    BY <2>3, <2>4 DEF StatementRows
  <2>6. DOMAIN statements' = DOMAIN statements /\ Len(statements') = Len(statements) BY <2>4, <1>2 DEF BankTypes
  <2>7. \A q \in DOMAIN statements :
          /\ statements'[q].date = statements[q].date
          /\ statements'[q].start = statements[q].start /\ statements'[q].end = statements[q].end
          /\ q # s => statements'[q].state = statements[q].state
    BY <2>4, <2>5
  <2>8. \A v \in Tellers : telling'[v] = Idle
    <3>1. Tells(u, Idle) BY <1>6 DEF ConfirmWrite
    <3> QED BY <2>1, <3>1, TellsAlone
  <2>9. \A v \in Tellers : Fitting(telling[v])' BY <2>8 DEF Fitting, Idle
  <2>10. ASSUME NEW t \in DOMAIN statements, statements'[t].state = "confirmed" PROVE Continues(t)'
    <3>1. Continues(t) BY <2>2, <2>7, <2>10 DEF BankInv
    <3>2. InOrder BY DEF BankInv
    <3>3. \A q \in DOMAIN statements' \ DOMAIN statements : statements'[q].date = today BY <2>6
    <3> QED BY <2>6, <2>7, <3>1, <3>2, <3>3, ContinuesStill
  <2>11. UNCHANGED <<rows, reported, today>> BY <1>6 DEF ConfirmWrite, workdayVars
  <2>12. InOrder' BY <2>6, <2>7, <2>11 DEF BankInv, InOrder
  <2> QED BY <1>0, <2>6, <2>8, <2>9, <2>10, <2>11, <2>12 DEF BankInv
<1>7. ASSUME UNCHANGED workdayVars, NEW u \in Tellers, NEW r \in DOMAIN rows, NEW W \in SUBSET MoveLines, LinkBegin(u, r, W)
      PROVE  BankInv'
  <2>1. PICK c : /\ c = [op |-> IF Cardinality(W) = 1 THEN "link" ELSE "split", row |-> r, of |-> rows[r].of, with |-> W]
                 /\ Tells(u, c)
    BY <1>7 DEF LinkBegin
  <2>2. Fitting(c) BY <1>7, <2>1 DEF LinkBegin, Fitting
  <2> QED BY <1>7, <2>1, <2>2, BankTurn DEF LinkBegin, workdayVars
<1>8. ASSUME UNCHANGED workdayVars, NEW u \in Tellers, LinkWrite(u) PROVE BankInv'
  <2>1. Knows(telling[u]) /\ telling[u].op = "link" /\ telling[u] # Idle BY <1>busy, <1>8 DEF BankTypes, LinkWrite
  <2>2. PICK l : rows' = IF rows[telling[u].row].of = 0 THEN rows ELSE [rows EXCEPT ![telling[u].row].link = l]
    BY <1>8 DEF LinkWrite
  <2>3. PICK r : r = telling[u].row /\ r \in DOMAIN rows BY <2>1 DEF Knows
  <2>4. PICK row : row = [rows[r] EXCEPT !.link = l] OBVIOUS
  <2>5. rows' = rows \/ rows' = [rows EXCEPT ![r] = row] BY <2>2, <2>3, <2>4
  <2>6. rows[r] \in BankRows BY <1>2, <2>3
  <2>7. row.of = rows[r].of /\ row.amount = rows[r].amount BY <2>4, <2>6 DEF BankRows
  <2>8. DOMAIN rows' = DOMAIN rows BY <2>5
  <2>9. \A q \in DOMAIN rows : rows'[q].of = rows[q].of /\ rows'[q].amount = rows[q].amount BY <2>3, <2>5, <2>7
  <2>10. rows' \in Seq(BankRows) BY BankTypesHold, <1>8 DEF BankTypes, BankNext
  <2>11. \A s \in DOMAIN statements : TotalOf(rows', s) = TotalOf(rows, s) BY <1>2, <2>8, <2>9, <2>10, TotalKept
  <2>12. \A q \in DOMAIN rows' : rows'[q].of <= Len(statements) BY <2>8, <2>9 DEF BankInv
  <2> QED BY <1>8, <2>1, <2>11, <2>12, RowsTurn DEF LinkWrite, workdayVars
<1>9. ASSUME UNCHANGED workdayVars, NEW u \in Tellers, SplitWrite(u) PROVE BankInv'
  <2>1. /\ telling[u] \in Tellings /\ Knows(telling[u]) /\ telling[u].op = "split" /\ telling[u] # Idle
        /\ Fitting(telling[u])
    BY <1>busy, <1>9 DEF BankTypes, SplitWrite, BankInv
  <2>2. telling[u] \in Matchings BY <2>1, TellingKinds
  <2>3. PICK r, o, W, row, P :
          /\ r = telling[u].row /\ o = telling[u].of /\ W = telling[u].with
          /\ row = [rows[r] EXCEPT !.of = 0] /\ P = Parts(o, W)
          /\ rows' = [rows EXCEPT ![r] = row] \o P
    BY <1>9 DEF SplitWrite
  <2>4. r \in DOMAIN rows /\ o \in Nat /\ W \in SUBSET MoveLines BY <2>1, <2>2, <2>3 DEF Knows, Matchings
  <2>5. rows[r].of = o /\ o # 0 /\ rows[r].amount = SumOf(LineResidual, W) BY <2>1, <2>3 DEF Fitting
  <2>6. P \in Seq(BankRows) /\ (\A i \in DOMAIN P : P[i].of = o) /\ SumOf(Amounts(P), DOMAIN P) = rows[r].amount
    BY <2>3, <2>4, <2>5, PartsFit
  <2>7. rows[r] \in BankRows BY <1>2, <2>4
  <2>8. row \in BankRows /\ row.of = 0 /\ row.amount = rows[r].amount BY <2>3, <2>7 DEF BankRows
  <2>9. PICK Q : Q = [rows EXCEPT ![r] = row] OBVIOUS
  <2>10. /\ Q \in Seq(BankRows) /\ DOMAIN Q = DOMAIN rows /\ Q[r].of = 0
         /\ \A x \in DOMAIN rows : Q[x].amount = rows[x].amount /\ (x # r => Q[x].of = rows[x].of)
    BY <1>2, <2>4, <2>8, <2>9
  <2>11. ASSUME NEW s \in DOMAIN statements PROVE TotalOf(rows', s) = TotalOf(rows, s)
    <3>1. s \in Nat \ {0} BY <1>2
    <3>2. TotalOf(Q, s) = TotalOf(rows, s) - (IF rows[r].of = s THEN rows[r].amount ELSE 0)
      BY <1>2, <2>4, <2>5, <2>10, <3>1, TotalLess
    <3>3. TotalOf(Q \o P, s) = TotalOf(Q, s) + (IF s = o THEN SumOf(Amounts(P), DOMAIN P) ELSE 0)
      BY <2>4, <2>6, <2>10, TotalMore
    <3>4. TotalOf(rows, s) \in Int /\ rows[r].amount \in Int BY <1>2, <2>7, RowsFinite DEF BankRows
    <3> QED BY <2>3, <2>5, <2>6, <2>9, <3>2, <3>3, <3>4
  <2>12. ASSUME NEW q \in DOMAIN rows' PROVE rows'[q].of <= Len(statements)
    <3>1. rows' = Q \o P BY <2>3, <2>9
    <3>2. (\E x \in DOMAIN Q : rows'[q] = Q[x]) \/ (\E x \in DOMAIN P : rows'[q] = P[x])
      <4>1. /\ DOMAIN Q = 1 .. Len(Q) /\ DOMAIN P = 1 .. Len(P) /\ Len(Q) \in Nat /\ Len(P) \in Nat
            /\ DOMAIN rows' = 1 .. Len(Q) + Len(P)
        BY <2>6, <2>10, <3>1
      <4>2. CASE q <= Len(Q) BY <2>6, <2>10, <2>12, <3>1, <4>1, <4>2
      <4>3. CASE q > Len(Q)
        <5>1. q - Len(Q) \in 1 .. Len(P) /\ rows'[q] = P[q - Len(Q)] BY <2>6, <2>10, <2>12, <3>1, <4>1, <4>3
        <5> QED BY <4>1, <5>1
      <4> QED BY <2>12, <4>1, <4>2, <4>3
    <3>3. \A x \in DOMAIN rows : rows[x].of <= Len(statements) BY DEF BankInv
    <3>4. \A x \in DOMAIN Q : x \in DOMAIN rows /\ (Q[x] = rows[x] \/ Q[x].of = 0) BY <2>8, <2>9
    <3> QED BY <1>2, <2>4, <2>5, <2>6, <3>2, <3>3, <3>4
  <2> QED BY <1>9, <2>1, <2>11, <2>12, RowsTurn DEF SplitWrite, workdayVars
<1>10. ASSUME UNCHANGED workdayVars, NEW u \in Tellers, TellingStops(u) PROVE BankInv'
  BY <1>1, <1>10, BankTurn DEF TellingStops, workdayVars
<1>11. CASE NextDay /\ UNCHANGED bankVars
  <2>1. today' = today + 1 /\ today \in Nat BY <1>2, <1>11 DEF NextDay
  <2>2. \A s \in DOMAIN statements : statements[s] \in StatementRows BY DEF BankTypes
  <2>3. InOrder' BY <1>11, <2>1, <2>2 DEF bankVars, BankInv, InOrder, StatementRows
  <2> QED BY <1>0, <1>11, <2>3 DEF bankVars, BankInv, Fitting, Continues, Priors
<1>12. CASE UNCHANGED <<bankVars, workdayVars>>
  BY <1>12 DEF bankVars, workdayVars, BankInv, InOrder, Fitting, Continues, Priors
<1> QED BY <1>3, <1>4, <1>5, <1>6, <1>7, <1>8, <1>9, <1>10, <1>11, <1>12 DEF BankNext

LEMMA BankStarts == ASSUME BankInit, WorkdayInit PROVE BankTypes /\ BankInv
<1>1. statements = <<>> /\ rows = <<>> /\ reported = <<>> /\ today = 0 BY DEF BankInit, WorkdayInit
<1>2. telling = [u \in Tellers |-> Idle] BY DEF BankInit
<1>3. BankTypes BY <1>1, <1>2 DEF BankTypes, Tellings, Knows, Idle
<1>4. BankInv BY <1>1, <1>2 DEF BankInv, InOrder, Fitting, Idle
<1> QED BY <1>3, <1>4

\* The only statement before a lone one, where the one entered just before is lone too.
LEMMA OnePrior ==
  ASSUME BankTypes, InOrder, NEW k \in DOMAIN statements, k - 1 \in DOMAIN statements, Lone(k), Lone(k - 1)
  PROVE  Priors(k) = {k - 1}
<1>1. k \in Nat /\ k - 1 \in Nat /\ DOMAIN statements \subseteq Nat BY DEF BankTypes
<1>2. \A q \in DOMAIN statements : statements[q].date \in Nat
  <2>1. \A q \in DOMAIN statements : statements[q] \in StatementRows BY DEF BankTypes
  <2> QED BY <2>1 DEF StatementRows
<1>3. statements[k - 1].date < statements[k].date
  <2>1. statements[k - 1].date <= statements[k].date BY <1>1 DEF InOrder
  <2>2. statements[k - 1].date # statements[k].date BY <1>1 DEF Lone
  <2> QED BY <1>2, <2>1, <2>2
<1>4. ASSUME NEW q \in DOMAIN statements, statements[q].date < statements[k].date
      PROVE  statements[q].date <= statements[k - 1].date
             /\ (q # k - 1 => statements[q].date < statements[k - 1].date)
  <2>1. q <= k - 1
    <3>1. CASE k <= q
      <4>1. statements[k].date <= statements[q].date BY <3>1 DEF InOrder
      <4> QED BY <1>2, <1>4, <4>1
    <3> QED BY <1>1, <3>1
  <2>2. statements[q].date <= statements[k - 1].date BY <2>1 DEF InOrder
  <2>3. q # k - 1 => statements[q].date # statements[k - 1].date BY DEF Lone
  <2> QED BY <1>2, <2>2, <2>3
<1>5. k - 1 \in Priors(k) BY <1>3, <1>4 DEF Priors
<1>6. ASSUME NEW p \in Priors(k) PROVE p = k - 1
  <2>1. p \in DOMAIN statements /\ statements[p].date < statements[k].date
        /\ statements[k - 1].date <= statements[p].date
    BY <1>3, <1>6 DEF Priors
  <2> QED BY <1>2, <1>4, <2>1
<1> QED BY <1>5, <1>6

\* The balances run on, statement after statement: there is no first one that does not.
LEMMA RunsOn ==
  ASSUME BankTypes, BankInv, exclusive, NEW s \in DOMAIN statements, NEW t \in DOMAIN statements, s <= t,
         \A q \in s .. t : Lone(q) /\ statements[q].state = "confirmed" /\ Complete(q)
  PROVE  statements[t].end = statements[s].start + SumOf(reported, s .. t)
<1> DEFINE Runs(k) == statements[k].end = statements[s].start + SumOf(reported, s .. k)
           Bad == {s .. k : k \in {j \in s .. t : ~Runs(j)}}
<1>1. s \in Nat /\ t \in Nat /\ DOMAIN statements = 1 .. Len(statements) /\ s .. t \subseteq DOMAIN statements
      /\ DOMAIN reported = DOMAIN statements
  BY DEF BankTypes
<1>2. ASSUME NEW q \in s .. t
      PROVE  /\ statements[q].start \in Int /\ statements[q].end \in Int /\ reported[q] \in Int
             /\ statements[q].end = statements[q].start + reported[q]
  <2>1. statements[q] \in StatementRows /\ reported[q] \in Int BY <1>1, <1>2 DEF BankTypes
  <2>2. RowTotal(q) = reported[q] BY <1>1, RowTotalIs DEF BankInv
  <2>3. statements[q].start + RowTotal(q) = statements[q].end BY <1>2 DEF Complete
  <2> QED BY <2>1, <2>2, <2>3 DEF StatementRows
<1>3. ASSUME Bad # {} PROVE FALSE
  <2>1. PICK S \in Bad : \A T \in Bad : ~(T \subseteq S /\ T # S)
    <3>1. PICK F : F = s .. t OBVIOUS
    <3>2. IsFiniteSet(F) BY <1>1, <3>1, FS_Interval
    <3>3. Bad \in SUBSET SUBSET F BY <1>1, <3>1
    <3> HIDE DEF Bad
    <3> QED BY <1>3, <3>2, <3>3, LeastSet
  <2>2. PICK k \in s .. t : S = s .. k /\ ~Runs(k) BY <2>1
  <2>3. k \in Nat /\ k \in s .. k /\ s .. k \subseteq s .. t BY <1>1
  <2>4. PICK A, B : A = s .. k /\ B = A \ {k} OBVIOUS
  <2>5. IsFiniteSet(A) /\ IsFiniteSet(B) /\ \A q \in A : reported[q] \in Int
    <3>1. IsFiniteSet(A) BY <1>1, <2>3, <2>4, FS_Interval
    <3> QED BY <1>2, <2>3, <2>4, <3>1, FS_Subset
  <2>6. SumOf(reported, A) = reported[k] + SumOf(reported, B)
    <3>1. k \in A BY <2>3, <2>4
    <3>2. PICK f, a : f = reported /\ a = k OBVIOUS
    <3>3. IsFiniteSet(A) /\ (\A x \in A : f[x] \in Int) /\ a \in A BY <2>5, <3>1, <3>2
    <3> HIDE DEF Bad, Runs
    <3>4. SumOf(f, A) = f[a] + SumOf(f, A \ {a}) BY ONLY <3>3, SumRemove
    <3> QED BY <2>4, <3>2, <3>4
  <2>7. SumOf(reported, B) \in Int BY <2>4, <2>5, SumType
  <2>8. CASE k = s
    <3>1. B = {} BY <1>1, <2>4, <2>8
    <3>2. SumOf(reported, B) = 0 BY <3>1, SumEmpty
    <3> QED BY <1>2, <2>2, <2>4, <2>6, <2>8, <3>2
  <2>9. CASE k # s
    <3>1. k - 1 \in s .. t /\ B = s .. k - 1 BY <1>1, <2>2, <2>3, <2>4, <2>9
    <3>2. Runs(k - 1)
      <4>1. B # A /\ B \subseteq A BY <2>3, <2>4
      <4>2. B \notin Bad BY <2>1, <2>2, <2>4, <4>1
      <4> QED BY <3>1, <4>2
    <3>3. Priors(k) = {k - 1}
      <4>1. InOrder BY DEF BankInv
      <4>2. k \in DOMAIN statements /\ k - 1 \in DOMAIN statements /\ Lone(k) /\ Lone(k - 1) BY <1>1, <2>2, <3>1
      <4> QED BY <4>1, <4>2, OnePrior
    <3>4. Continues(k) BY <1>1, <2>2 DEF BankInv
    <3>5. statements[k - 1].end = statements[k].start BY <3>3, <3>4 DEF Continues
    <3>6. statements[k].end = statements[k].start + reported[k] BY <1>2, <2>2
    <3>7. statements[k - 1].end = statements[s].start + SumOf(reported, B) BY <3>1, <3>2
    <3>8. s \in s .. t BY <1>1
    <3>9. statements[k].end = statements[s].start + SumOf(reported, A)
      BY <1>2, <2>2, <2>6, <2>7, <3>5, <3>6, <3>7, <3>8
    <3> QED BY <2>2, <2>4, <3>9
  <2> QED BY <2>8, <2>9
<1>4. t \in s .. t BY <1>1
<1> QED BY <1>3, <1>4

\* As long as calls do not overlap, and each row is matched with posted lines that make it
\* up: however rows are split, a statement's rows add up to what was entered for it; and
\* confirmed, complete statements, each the only one of its day, run on without a break
\* from the first balance to the last, whatever is entered, matched or confirmed between.
THEOREM StatementsAgree ==
  ASSUME RowsFit PROVE BankSpec => []BankAgrees
<1>1. ASSUME BankTypes, BankInv PROVE BankAgrees
  <2>1. ASSUME exclusive, NEW s \in DOMAIN statements PROVE RowTotal(s) = reported[s]
    BY <1>1, <2>1, RowTotalIs DEF BankInv
  <2>2. ASSUME exclusive, NEW s \in DOMAIN statements, NEW t \in DOMAIN statements, s < t,
               \A q \in s .. t : Lone(q) /\ statements[q].state = "confirmed" /\ Complete(q)
        PROVE  statements[t].end = statements[s].start + SumOf(reported, s .. t)
    <3>1. s <= t BY <1>1, <2>2 DEF BankTypes
    <3> QED BY <1>1, <2>2, <3>1, RunsOn
  <2> QED BY <2>1, <2>2 DEF BankAgrees
<1>2. BankInit /\ WorkdayInit => BankTypes /\ BankInv BY BankStarts
<1>3. BankTypes /\ BankInv /\ [BankNext]_<<bankVars, workdayVars>> => BankTypes' /\ BankInv'
  BY BankTypesHold, BankStep
<1> QED BY <1>1, <1>2, <1>3, PTL DEF BankSpec
-----------------------------------------------------------------------------
(* The ledger. Fiscal years: the end of the year of a day, and its first.   *)
LEMMA Calendar ==
  /\ YearEnds \subseteq 0 .. LastDay /\ LastDay \in YearEnds /\ LastDay \in Nat
  /\ \A e \in YearEnds : e \in Nat /\ e <= LastDay
<1>1. YearEnds \subseteq 0 .. LastDay /\ LastDay \in YearEnds BY Zenon, LedgerAssumption
<1> QED BY <1>1, LastDayAssumption

LEMMA YearEndIs ==
  ASSUME NEW d \in 0 .. LastDay
  PROVE  /\ YearEnd(d) \in YearEnds /\ YearEnd(d) \in Nat /\ d <= YearEnd(d)
         /\ \A e \in YearEnds : d <= e => YearEnd(d) <= e
<1>1. PICK S : S = {e \in YearEnds : e >= d} OBVIOUS
<1>6. YearEnds \subseteq 0 .. LastDay /\ LastDay \in YearEnds /\ LastDay \in Nat BY Calendar
<1>2. LastDay \in S /\ S # {} /\ S \subseteq 0 .. LastDay
  <2>1. LastDay >= d BY <1>6
  <2> QED BY <1>1, <1>6, <2>1
<1>7. \A e \in YearEnds : e \in Nat BY Calendar
<1>3. PICK x \in S : \A y \in S : x <= y BY ONLY <1>2, <1>6, Extremes
<1>4. YearEnd(d) = CHOOSE z \in S : \A y \in S : z <= y BY <1>1 DEF YearEnd, Min
<1>5. YearEnd(d) \in S /\ \A y \in S : YearEnd(d) <= y BY <1>3, <1>4
<1>8. YearEnd(d) \in YearEnds /\ YearEnd(d) \in Nat /\ YearEnd(d) >= d BY <1>1, <1>5, <1>7
<1>9. ASSUME NEW e \in YearEnds, d <= e PROVE YearEnd(d) <= e
  <2>1. e >= d BY <1>7, <1>9
  <2> QED BY <1>1, <1>5, <2>1
<1> QED BY <1>8, <1>9

LEMMA YearStartIs ==
  ASSUME NEW d \in 0 .. LastDay
  PROVE  /\ YearStart(d) \in 0 .. d
         /\ \A e \in YearEnds : e < d => e < YearStart(d)
         /\ YearStart(d) # 0 => YearStart(d) - 1 \in YearEnds
<1>1. PICK S : S = {e + 1 : e \in {e \in YearEnds : e < d}} \cup {0} OBVIOUS
<1>2. \A e \in YearEnds : e \in Nat BY Calendar
<1>3. 0 \in S /\ S \subseteq 0 .. d /\ d \in Nat BY <1>1, <1>2, Calendar
<1>4. PICK x \in S : \A y \in S : y <= x BY <1>3, Extremes
<1>5. YearStart(d) = CHOOSE z \in S : \A y \in S : z >= y BY <1>1 DEF YearStart, Max
<1>6. \A y \in S : x >= y BY <1>3, <1>4
<1>7. YearStart(d) \in S /\ \A y \in S : YearStart(d) >= y BY <1>5, <1>6
<1>8. \A e \in YearEnds : e < d => e + 1 \in S BY <1>1
<1>9. ASSUME NEW e \in YearEnds, e < d PROVE e < YearStart(d)
  <2>1. e \in Nat /\ e + 1 \in S BY <1>2, <1>8, <1>9
  <2>2. YearStart(d) >= e + 1 BY <1>7, <2>1
  <2>3. YearStart(d) \in Nat
    <3>1. YearStart(d) \in 0 .. d BY <1>3, <1>7
    <3> QED BY <1>3, <3>1
  <2> QED BY <2>1, <2>2, <2>3
<1>10. YearStart(d) # 0 => YearStart(d) - 1 \in YearEnds BY <1>1, <1>2, <1>7
<1> QED BY <1>3, <1>7, <1>9, <1>10

\* A day is in the year that ends with the end of its year, and in no other.
LEMMA YearOf ==
  ASSUME NEW e \in YearEnds, NEW d \in 0 .. LastDay
  PROVE  d \in YearStart(e) .. e <=> YearEnd(d) = e
<1>1. e \in 0 .. LastDay /\ e \in Nat /\ d \in Nat BY Calendar
<1>2. /\ YearEnd(d) \in YearEnds /\ YearEnd(d) \in Nat /\ d <= YearEnd(d)
      /\ \A x \in YearEnds : d <= x => YearEnd(d) <= x
  BY YearEndIs
<1>3. YearStart(e) \in 0 .. e /\ (\A x \in YearEnds : x < e => x < YearStart(e))
      /\ (YearStart(e) # 0 => YearStart(e) - 1 \in YearEnds)
  BY <1>1, YearStartIs
<1>4. ASSUME d \in YearStart(e) .. e PROVE YearEnd(d) = e
  <2>1. YearEnd(d) <= e BY <1>1, <1>2, <1>4
  <2>2. ~(YearEnd(d) < e)
    <3>1. YearEnd(d) < e => YearEnd(d) < YearStart(e) BY <1>2, <1>3
    <3>2. YearStart(e) <= d /\ YearStart(e) \in Nat BY <1>1, <1>3, <1>4
    <3> QED BY <1>1, <1>2, <3>1, <3>2
  <2> QED BY <1>1, <1>2, <2>1, <2>2
<1>5. ASSUME YearEnd(d) = e PROVE d \in YearStart(e) .. e
  <2>1. ~(d < YearStart(e))
    <3> SUFFICES ASSUME d < YearStart(e) PROVE FALSE OBVIOUS
    <3>1. PICK z : z = YearStart(e) - 1 OBVIOUS
    <3>2. z \in YearEnds /\ d <= z /\ z < e /\ z \in Int BY <1>1, <1>3, <3>1
    <3>3. YearEnd(d) <= z BY <1>2, <3>2
    <3> QED BY <1>1, <1>5, <3>2, <3>3
  <2> QED BY <1>1, <1>2, <1>3, <1>5, <2>1
<1> QED BY <1>4, <1>5

\* The days before a year are those of the years that ended before it.
LEMMA DaysBefore ==
  ASSUME NEW d \in 0 .. LastDay, NEW x \in 0 .. LastDay
  PROVE  x < YearStart(d) <=> YearEnd(x) < YearStart(d)
<1>1. x \in Nat /\ d \in Nat BY Calendar
<1>2. /\ YearEnd(x) \in YearEnds /\ YearEnd(x) \in Nat /\ x <= YearEnd(x)
      /\ \A e \in YearEnds : x <= e => YearEnd(x) <= e
  BY YearEndIs
<1>3. YearStart(d) \in 0 .. d /\ (YearStart(d) # 0 => YearStart(d) - 1 \in YearEnds) BY YearStartIs
<1>4. ASSUME x < YearStart(d) PROVE YearEnd(x) < YearStart(d)
  <2>1. PICK z : z = YearStart(d) - 1 OBVIOUS
  <2>2. z \in YearEnds /\ x <= z BY <1>1, <1>3, <1>4, <2>1
  <2>3. YearEnd(x) <= z BY <1>2, <2>2
  <2> QED BY <1>1, <1>2, <1>3, <2>1, <2>3
<1>5. YearStart(d) \in Nat BY <1>1, <1>3
<1>6. YearEnd(x) < YearStart(d) => x < YearStart(d) BY <1>1, <1>2, <1>5
<1> QED BY <1>4, <1>6
-----------------------------------------------------------------------------
(* The entries. What a row may hold; and by how much what is left on        *)
(* documents and payments differs from the partner's account: by nothing,   *)
(* in all, but for reversed payments.                                       *)
TaxesWhole == \A n \in Int : TaxOf(n) \in Int
EntryRows == [type : {"entry", "invoice", "refund"}, date : 0 .. LastDay, lines : [Accounts -> Int],
              state : {"draft", "posted"}, bears : BOOLEAN, residual : Int, due : Int, origin : Nat]
Six(l) == l.receivable + l.cash + l.tax + l.sales + l.costs + l.retained
Fit(e) ==
  /\ e.type = "entry" => Six(e.lines) = 0
  /\ e.type # "entry" => e.lines.cash = 0 /\ e.lines.costs = 0 /\ e.lines.retained = 0
  /\ e.state = "posted" => Six(e.lines) = 0
  /\ e.type = "entry" /\ e.origin # 0 => e.residual = 0
  /\ e.state = "draft" /\ e.type = "entry" /\ e.origin = 0 => e.residual = e.lines.receivable
Gap(e) ==
  e.residual - (IF e.type = "entry" /\ e.origin # 0 THEN 0 ELSE e.lines.receivable)

LEMMA AccountsAre ==
  /\ Accounts = {"receivable", "cash", "tax", "sales", "costs", "retained"}
  /\ AccountType["sales"] = "income" /\ AccountType["costs"] = "expense"
  /\ \A a \in Accounts \ {"sales", "costs"} : AccountType[a] \in {"asset", "liability", "equity"}
BY Zenon, LedgerAssumption

\* The lines of an entry, account by account.
LEMMA LinesTyped ==
  ASSUME NEW l \in [Accounts -> Int]
  PROVE  /\ l.receivable \in Int /\ l.cash \in Int /\ l.tax \in Int
         /\ l.sales \in Int /\ l.costs \in Int /\ l.retained \in Int
         /\ Six(l) \in Int
<1>1. \A a \in {"receivable", "cash", "tax", "sales", "costs", "retained"} : l[a] \in Int BY AccountsAre
<1> QED BY <1>1 DEF Six

LEMMA NothingIs ==
  /\ Nothing \in [Accounts -> Int]
  /\ Nothing.receivable = 0 /\ Nothing.cash = 0 /\ Nothing.tax = 0
  /\ Nothing.sales = 0 /\ Nothing.costs = 0 /\ Nothing.retained = 0
<1>1. \A a \in {"receivable", "cash", "tax", "sales", "costs", "retained"} : a \in Accounts BY AccountsAre
<1> QED BY <1>1 DEF Nothing

LEMMA EntryTyped ==
  ASSUME NEW t \in {"entry", "invoice", "refund"}, NEW d \in 0 .. LastDay, NEW l \in [Accounts -> Int]
  PROVE  Entry(t, d, l) \in EntryRows
BY Calendar DEF Entry, EntryRows

\* Posting makes a document add up, and leaves on it what the partner owes.
LEMMA PostedIs ==
  ASSUME TaxesWhole, NEW e \in EntryRows, e.state = "draft", Fit(e)
  PROVE  /\ InPosted(e) \in EntryRows /\ InPosted(e).state = "posted" /\ Fit(InPosted(e)) /\ Gap(InPosted(e)) = 0
         /\ InPosted(e).date = e.date
         /\ InPosted(e).lines.sales = e.lines.sales /\ InPosted(e).lines.costs = e.lines.costs
<1>1. PICK l : l = e.lines OBVIOUS
<1>2. l \in [Accounts -> Int] /\ e.type \in {"entry", "invoice", "refund"} BY <1>1 DEF EntryRows
<1>3. /\ l.receivable \in Int /\ l.cash \in Int /\ l.tax \in Int
      /\ l.sales \in Int /\ l.costs \in Int /\ l.retained \in Int
  BY <1>2, LinesTyped
<1>4. CASE e.type = "entry"
  <2>1. PICK p : p = [e EXCEPT !.state = "posted"] OBVIOUS
  <2>2. InPosted(e) = p BY <1>4, <2>1 DEF InPosted
  <2>3. /\ p \in EntryRows /\ p.state = "posted" /\ p.date = e.date /\ p.lines = e.lines /\ p.type = "entry"
        /\ p.residual = e.residual /\ p.origin = e.origin
    BY <1>4, <2>1 DEF EntryRows
  <2>4. /\ Six(e.lines) = 0
        /\ e.origin # 0 => e.residual = 0
        /\ e.origin = 0 => e.residual = e.lines.receivable
    BY <1>4 DEF Fit
  <2>5. Fit(p) BY <2>3, <2>4 DEF Fit
  <2>6. Gap(p) = 0 BY <1>1, <1>3, <2>3, <2>4 DEF Gap
  <2> QED BY <2>2, <2>3, <2>5, <2>6
<1>5. CASE e.type # "entry"
  <2>1. PICK tax \in Int : tax = IF e.bears THEN TaxOf(e.lines.sales) ELSE 0 BY <1>1, <1>3 DEF TaxesWhole
  <2>2. PICK owed \in Int : owed = -(e.lines.sales + tax) BY <1>1, <1>3
  <2>3. PICK m : m = [l EXCEPT !["tax"] = tax, !["receivable"] = owed] OBVIOUS
  <2>4. /\ m \in [Accounts -> Int] /\ m.tax = tax /\ m.receivable = owed /\ m.sales = l.sales
        /\ m.cash = l.cash /\ m.costs = l.costs /\ m.retained = l.retained
    <3>1. "tax" \in DOMAIN l /\ "receivable" \in DOMAIN l BY <1>2, AccountsAre
    <3>2. m \in [Accounts -> Int] BY <1>2, <2>3
    <3> QED BY <2>3, <3>1, <3>2, <1>2, AccountsAre
  <2>5. PICK p : p = [e EXCEPT !.state = "posted", !.lines = m, !.residual = owed] OBVIOUS
  <2>6. /\ p \in EntryRows /\ p.state = "posted" /\ p.date = e.date /\ p.lines = m /\ p.type = e.type
        /\ p.residual = owed
    BY <2>4, <2>5 DEF EntryRows
  <2>7. InPosted(e) = p
    <3>1. InPosted(e) = [e EXCEPT !.state = "posted", !.lines.tax = tax, !.lines.receivable = owed, !.residual = owed]
      BY <1>5, <2>1, <2>2 DEF InPosted
    <3> QED BY <1>1, <2>3, <2>5, <3>1 DEF EntryRows
  <2>8. l.cash = 0 /\ l.costs = 0 /\ l.retained = 0 BY <1>1, <1>5 DEF Fit
  <2>9. Six(m) = 0 BY <1>1, <1>3, <2>2, <2>4, <2>8 DEF Six
  <2>10. Fit(p) BY <1>5, <2>4, <2>6, <2>8, <2>9 DEF Fit
  <2>11. Gap(p) = 0 BY <1>5, <2>4, <2>6 DEF Gap
  <2> QED BY <1>1, <2>4, <2>6, <2>7, <2>10, <2>11
<1> QED BY <1>4, <1>5
-----------------------------------------------------------------------------
(* Tables of entries, before a step and after it.                          *)
Table(R) == R \in Seq(EntryRows) /\ \A i \in DOMAIN R : Fit(R[i])
PostedIn(R) == {i \in DOMAIN R : R[i].state = "posted"}
Within(R, from, to) == {i \in PostedIn(R) : R[i].date \in from .. to}
LinesOf(R, a) == [i \in DOMAIN R |-> R[i].lines[a]]
NetIn(R, a, from, to) == SumOf(LinesOf(R, a), Within(R, from, to))
Gaps(R) == [i \in DOMAIN R |-> Gap(R[i])]
AllGaps(R) == SumOf(Gaps(R), PostedIn(R))

\* What a step keeps of the entries there were.
Keeping(R, Q) ==
  /\ DOMAIN R \subseteq DOMAIN Q
  /\ \A i \in PostedIn(R) : /\ Q[i].state = "posted" /\ Q[i].date = R[i].date /\ Q[i].lines = R[i].lines
                            /\ Q[i].type = R[i].type /\ Q[i].origin = R[i].origin
\* A step that posts none, and one that posts one.
PostsNone(R, Q) == Keeping(R, Q) /\ PostedIn(Q) = PostedIn(R)
PostsOne(R, Q, k) == Keeping(R, Q) /\ k \in DOMAIN Q /\ k \notin PostedIn(R) /\ PostedIn(Q) = PostedIn(R) \cup {k}

LEMMA TableIs ==
  ASSUME NEW R, Table(R)
  PROVE  /\ IsFiniteSet(DOMAIN R) /\ IsFiniteSet(PostedIn(R)) /\ PostedIn(R) \subseteq DOMAIN R
         /\ \A from, to : IsFiniteSet(Within(R, from, to)) /\ Within(R, from, to) \subseteq PostedIn(R)
         /\ \A i \in DOMAIN R : R[i] \in EntryRows /\ Fit(R[i]) /\ Gap(R[i]) \in Int
                                /\ R[i].date \in 0 .. LastDay /\ R[i].lines \in [Accounts -> Int]
                                /\ \A a \in Accounts : LinesOf(R, a)[i] \in Int /\ LinesOf(R, a)[i] = R[i].lines[a]
<1>1. R \in Seq(EntryRows) /\ DOMAIN R = 1 .. Len(R) /\ Len(R) \in Nat BY DEF Table
<1>2. IsFiniteSet(DOMAIN R) BY <1>1, FS_Interval
<1>3. PostedIn(R) \subseteq DOMAIN R BY DEF PostedIn
<1>4. IsFiniteSet(PostedIn(R)) BY <1>2, <1>3, FS_Subset
<1>5. \A from, to : IsFiniteSet(Within(R, from, to)) /\ Within(R, from, to) \subseteq PostedIn(R)
  <2> TAKE from, to
  <2>1. Within(R, from, to) \subseteq PostedIn(R) BY DEF Within
  <2> QED BY <1>4, <2>1, FS_Subset
<1>6. ASSUME NEW i \in DOMAIN R
      PROVE  /\ R[i] \in EntryRows /\ Fit(R[i]) /\ Gap(R[i]) \in Int
             /\ R[i].date \in 0 .. LastDay /\ R[i].lines \in [Accounts -> Int]
             /\ \A a \in Accounts : LinesOf(R, a)[i] \in Int /\ LinesOf(R, a)[i] = R[i].lines[a]
  <2>1. R[i] \in EntryRows /\ Fit(R[i]) BY <1>1 DEF Table
  <2>2. R[i].lines \in [Accounts -> Int] /\ R[i].residual \in Int /\ R[i].date \in 0 .. LastDay BY <2>1 DEF EntryRows
  <2>3. R[i].lines.receivable \in Int BY <2>2, LinesTyped
  <2>4. Gap(R[i]) \in Int BY <2>2, <2>3 DEF Gap
  <2>5. \A a \in Accounts : LinesOf(R, a)[i] \in Int /\ LinesOf(R, a)[i] = R[i].lines[a]
    BY <2>2 DEF LinesOf
  <2> QED BY <2>1, <2>2, <2>4, <2>5
<1> QED BY <1>2, <1>3, <1>4, <1>5, <1>6

\* What an account comes to is a whole number, and changes by what is posted.
LEMMA NetTyped ==
  ASSUME NEW R, Table(R), NEW a \in Accounts, NEW from, NEW to
  PROVE  NetIn(R, a, from, to) \in Int
<1>1. PICK S, f : S = Within(R, from, to) /\ f = LinesOf(R, a) OBVIOUS
<1>2. IsFiniteSet(S) BY <1>1, TableIs
<1>3. \A i \in S : f[i] \in Int BY <1>1, TableIs
<1>4. SumOf(f, S) \in Int BY ONLY <1>2, <1>3, SumType
<1> QED BY <1>1, <1>4 DEF NetIn

LEMMA NetStays ==
  ASSUME NEW R, NEW Q, Table(R), Table(Q), PostsNone(R, Q), NEW a \in Accounts, NEW from, NEW to
  PROVE  NetIn(Q, a, from, to) = NetIn(R, a, from, to)
<1>1. PICK S, f, h : S = Within(R, from, to) /\ f = LinesOf(R, a) /\ h = LinesOf(Q, a) OBVIOUS
<1>2. IsFiniteSet(S) BY <1>1, TableIs
<1>3. Within(Q, from, to) = S BY <1>1 DEF Within, PostsNone, Keeping
<1>4. \A i \in S : f[i] = h[i]
  <2>1. \A i \in S : i \in PostedIn(R) /\ i \in DOMAIN R /\ i \in DOMAIN Q
    BY <1>1 DEF Within, PostedIn, PostsNone, Keeping
  <2> QED BY <1>1, <2>1 DEF LinesOf, PostsNone, Keeping
<1>5. SumOf(f, S) = SumOf(h, S) BY ONLY <1>2, <1>4, SumSame
<1> QED BY <1>1, <1>3, <1>5 DEF NetIn

LEMMA NetGrows ==
  ASSUME NEW R, NEW Q, NEW k, Table(R), Table(Q), PostsOne(R, Q, k), NEW a \in Accounts, NEW from, NEW to
  PROVE  NetIn(Q, a, from, to) = NetIn(R, a, from, to) + (IF Q[k].date \in from .. to THEN Q[k].lines[a] ELSE 0)
<1>1. PICK S, f, h : S = Within(R, from, to) /\ f = LinesOf(R, a) /\ h = LinesOf(Q, a) OBVIOUS
<1>2. IsFiniteSet(S) BY <1>1, TableIs
<1>3. \A i \in S : i \in PostedIn(R) /\ i \in DOMAIN R /\ i \in DOMAIN Q
  BY <1>1 DEF Within, PostedIn, PostsOne, Keeping
<1>4. \A i \in S : f[i] = h[i] BY <1>1, <1>3 DEF LinesOf, PostsOne, Keeping
<1>5. SumOf(f, S) = SumOf(h, S) BY ONLY <1>2, <1>4, SumSame
<1>6. k \in DOMAIN Q /\ k \notin S BY <1>3 DEF PostsOne
<1>7. NetIn(R, a, from, to) = SumOf(f, S) /\ NetIn(R, a, from, to) \in Int BY <1>1, NetTyped DEF NetIn
<1>8. CASE Q[k].date \in from .. to
  <2>1. Within(Q, from, to) = S \cup {k} BY <1>1, <1>8 DEF Within, PostsOne, Keeping
  <2>2. \A i \in S \cup {k} : h[i] \in Int BY <1>1, <1>3, <1>6, TableIs
  <2>3. SumOf(h, S \cup {k}) = h[k] + SumOf(h, S) BY ONLY <1>2, <1>6, <2>2, SumAdd
  <2>4. h[k] = Q[k].lines[a] /\ h[k] \in Int BY <1>1, <1>6, TableIs
  <2>5. NetIn(Q, a, from, to) = SumOf(h, S \cup {k}) BY <1>1, <2>1 DEF NetIn
  <2> QED BY <1>5, <1>7, <1>8, <2>3, <2>4, <2>5
<1>9. CASE Q[k].date \notin from .. to
  <2>1. Within(Q, from, to) = S BY <1>1, <1>9 DEF Within, PostsOne, Keeping
  <2>2. NetIn(Q, a, from, to) = SumOf(h, S) BY <1>1, <2>1 DEF NetIn
  <2> QED BY <1>5, <1>7, <1>9, <2>2
<1> QED BY <1>8, <1>9
-----------------------------------------------------------------------------
(* The accounts together.                                                  *)
LEMMA SixSum ==
  ASSUME NEW f \in [Accounts -> Int]
  PROVE  SumOf(f, Accounts) = Six(f)
<1>1. /\ f.receivable \in Int /\ f.cash \in Int /\ f.tax \in Int
      /\ f.sales \in Int /\ f.costs \in Int /\ f.retained \in Int
  BY LinesTyped
<1>2. PICK A, B, C, D, E, F :
        /\ A = {"receivable"} /\ B = A \cup {"cash"} /\ C = B \cup {"tax"}
        /\ D = C \cup {"sales"} /\ E = D \cup {"costs"} /\ F = E \cup {"retained"}
  OBVIOUS
<1>3. F = Accounts BY <1>2, AccountsAre
<1>4. \A x \in F : f[x] \in Int BY <1>3
<1>5. IsFiniteSet({}) /\ IsFiniteSet(A) /\ IsFiniteSet(B) /\ IsFiniteSet(C) /\ IsFiniteSet(D) /\ IsFiniteSet(E)
  <2>1. IsFiniteSet({}) /\ IsFiniteSet(A) BY <1>2, FS_EmptySet, FS_Singleton
  <2>2. IsFiniteSet(B) BY <1>2, <2>1, FS_AddElement
  <2>3. IsFiniteSet(C) BY <1>2, <2>2, FS_AddElement
  <2>4. IsFiniteSet(D) BY <1>2, <2>3, FS_AddElement
  <2>5. IsFiniteSet(E) BY <1>2, <2>4, FS_AddElement
  <2> QED BY <2>1, <2>2, <2>3, <2>4, <2>5
<1>6. ASSUME NEW S, IsFiniteSet(S), NEW a, a \notin S, S \cup {a} \subseteq F
      PROVE  SumOf(f, S \cup {a}) = f[a] + SumOf(f, S)
  <2>1. \A x \in S \cup {a} : f[x] \in Int BY <1>4, <1>6
  <2> QED BY ONLY <1>6, <2>1, SumAdd
<1>7. SumOf(f, {}) = 0 BY SumEmpty
<1>8. SumOf(f, A) = f.receivable + SumOf(f, {})
  <2>1. "receivable" \notin {} /\ {} \cup {"receivable"} \subseteq F /\ A = {} \cup {"receivable"} BY <1>2
  <2> QED BY <1>5, <1>6, <2>1
<1>9. SumOf(f, B) = f.cash + SumOf(f, A)
  <2>1. "cash" \notin A /\ A \cup {"cash"} \subseteq F BY <1>2
  <2> QED BY <1>2, <1>5, <1>6, <2>1
<1>10. SumOf(f, C) = f.tax + SumOf(f, B)
  <2>1. "tax" \notin B /\ B \cup {"tax"} \subseteq F BY <1>2
  <2> QED BY <1>2, <1>5, <1>6, <2>1
<1>11. SumOf(f, D) = f.sales + SumOf(f, C)
  <2>1. "sales" \notin C /\ C \cup {"sales"} \subseteq F BY <1>2
  <2> QED BY <1>2, <1>5, <1>6, <2>1
<1>12. SumOf(f, E) = f.costs + SumOf(f, D)
  <2>1. "costs" \notin D /\ D \cup {"costs"} \subseteq F BY <1>2
  <2> QED BY <1>2, <1>5, <1>6, <2>1
<1>13. SumOf(f, F) = f.retained + SumOf(f, E)
  <2>1. "retained" \notin E /\ E \cup {"retained"} \subseteq F BY <1>2
  <2> QED BY <1>2, <1>5, <1>6, <2>1
<1> QED BY <1>1, <1>3, <1>7, <1>8, <1>9, <1>10, <1>11, <1>12, <1>13 DEF Six

\* Whatever is posted adds up, so what the accounts come to in any days does.
LEMMA NetsAddUp ==
  ASSUME NEW R, Table(R), NEW from, NEW to
  PROVE  /\ [a \in Accounts |-> NetIn(R, a, from, to)] \in [Accounts -> Int]
         /\ SumOf([a \in Accounts |-> NetIn(R, a, from, to)], Accounts) = 0
<1>1. PICK S : S = Within(R, from, to) OBVIOUS
<1>2. IsFiniteSet(S) /\ S \subseteq PostedIn(R) /\ PostedIn(R) \subseteq DOMAIN R BY <1>1, TableIs
<1>3. PICK g : g = [a \in Accounts |-> NetIn(R, a, from, to)] OBVIOUS
<1>4. g \in [Accounts -> Int] BY <1>3, NetTyped
<1>5. PICK r, c, t, s, x, e :
        /\ r = LinesOf(R, "receivable") /\ c = LinesOf(R, "cash") /\ t = LinesOf(R, "tax")
        /\ s = LinesOf(R, "sales") /\ x = LinesOf(R, "costs") /\ e = LinesOf(R, "retained")
  OBVIOUS
<1>6. \A a \in {"receivable", "cash", "tax", "sales", "costs", "retained"} : a \in Accounts BY AccountsAre
<1>7. ASSUME NEW i \in S
      PROVE  /\ r[i] \in Int /\ c[i] \in Int /\ t[i] \in Int /\ s[i] \in Int /\ x[i] \in Int /\ e[i] \in Int
             /\ r[i] + c[i] + t[i] + s[i] + x[i] + e[i] = 0
  <2>1. i \in DOMAIN R /\ R[i].state = "posted" BY <1>2 DEF PostedIn
  <2>2. \A a \in {"receivable", "cash", "tax", "sales", "costs", "retained"} :
          LinesOf(R, a)[i] \in Int /\ LinesOf(R, a)[i] = R[i].lines[a]
    BY <1>6, <2>1, TableIs
  <2>3. Six(R[i].lines) = 0 BY <2>1, TableIs DEF Fit
  <2> QED BY <1>5, <2>2, <2>3 DEF Six
<1>8. PICK rc, rct, sx, sxe, all :
        /\ rc = [i \in S |-> r[i] + c[i]] /\ rct = [i \in S |-> rc[i] + t[i]]
        /\ sx = [i \in S |-> s[i] + x[i]] /\ sxe = [i \in S |-> sx[i] + e[i]]
        /\ all = [i \in S |-> rct[i] + sxe[i]]
  OBVIOUS
<1>9. ASSUME NEW f, NEW h, NEW k, \A i \in S : f[i] \in Int /\ h[i] \in Int, \A i \in S : k[i] = f[i] + h[i]
      PROVE  SumOf(k, S) = SumOf(f, S) + SumOf(h, S)
  BY ONLY <1>2, <1>9, SumPlus
<1>10. SumOf(rc, S) = SumOf(r, S) + SumOf(c, S)
  <2>1. (\A i \in S : r[i] \in Int /\ c[i] \in Int) /\ \A i \in S : rc[i] = r[i] + c[i] BY <1>7, <1>8
  <2> QED BY ONLY <1>9, <2>1
<1>11. SumOf(rct, S) = SumOf(rc, S) + SumOf(t, S)
  <2>1. (\A i \in S : rc[i] \in Int /\ t[i] \in Int) /\ \A i \in S : rct[i] = rc[i] + t[i] BY <1>7, <1>8
  <2> QED BY ONLY <1>9, <2>1
<1>12. SumOf(sx, S) = SumOf(s, S) + SumOf(x, S)
  <2>1. (\A i \in S : s[i] \in Int /\ x[i] \in Int) /\ \A i \in S : sx[i] = s[i] + x[i] BY <1>7, <1>8
  <2> QED BY ONLY <1>9, <2>1
<1>13. SumOf(sxe, S) = SumOf(sx, S) + SumOf(e, S)
  <2>1. (\A i \in S : sx[i] \in Int /\ e[i] \in Int) /\ \A i \in S : sxe[i] = sx[i] + e[i] BY <1>7, <1>8
  <2> QED BY ONLY <1>9, <2>1
<1>14. SumOf(all, S) = SumOf(rct, S) + SumOf(sxe, S)
  <2>1. \A i \in S : rct[i] \in Int /\ sxe[i] \in Int BY <1>7, <1>8
  <2>2. \A i \in S : all[i] = rct[i] + sxe[i] BY <1>8
  <2> QED BY ONLY <1>9, <2>1, <2>2
<1>15. SumOf(all, S) = 0
  <2>1. \A i \in S : all[i] = 0 BY <1>7, <1>8
  <2> QED BY ONLY <1>2, <2>1, SumZero
<1>16. /\ g["receivable"] = SumOf(r, S) /\ g["cash"] = SumOf(c, S) /\ g["tax"] = SumOf(t, S)
       /\ g["sales"] = SumOf(s, S) /\ g["costs"] = SumOf(x, S) /\ g["retained"] = SumOf(e, S)
  BY <1>1, <1>3, <1>5, <1>6 DEF NetIn
<1>17. \A a \in {"receivable", "cash", "tax", "sales", "costs", "retained"} : g[a] \in Int BY <1>4, <1>6
<1>18. Six(g) = 0 BY <1>10, <1>11, <1>12, <1>13, <1>14, <1>15, <1>16, <1>17 DEF Six
<1> QED BY <1>3, <1>4, <1>18, SixSum

\* The days until one, before its year and in it.
LEMMA NetSplits ==
  ASSUME NEW R, Table(R), NEW a \in Accounts, NEW m \in Nat, NEW d \in Nat, m <= d
  PROVE  NetIn(R, a, 0, d) = NetIn(R, a, 0, m - 1) + NetIn(R, a, m, d)
<1>1. PICK S, T, f : S = Within(R, 0, m - 1) /\ T = Within(R, m, d) /\ f = LinesOf(R, a) OBVIOUS
<1>2. IsFiniteSet(S) /\ IsFiniteSet(T) BY <1>1, TableIs
<1>3. S \cap T = {} BY <1>1 DEF Within
<1>4. Within(R, 0, d) = S \cup T
  <2>1. \A i \in PostedIn(R) : R[i].date \in 0 .. LastDay BY TableIs
  <2>2. \A i \in PostedIn(R) : R[i].date \in 0 .. d <=> R[i].date \in 0 .. m - 1 \/ R[i].date \in m .. d
    BY <2>1, Calendar
  <2> QED BY <1>1, <2>2 DEF Within
<1>5. \A i \in S \cup T : f[i] \in Int BY <1>1, TableIs
<1>6. SumOf(f, S \cup T) = SumOf(f, S) + SumOf(f, T) BY ONLY <1>2, <1>3, <1>5, SumUnion
<1> QED BY <1>1, <1>4, <1>6 DEF NetIn
\* The days before a year, by the years that ended before it.
LEMMA YearsSettle ==
  ASSUME NEW R, Table(R), NEW a \in Accounts, NEW d \in 0 .. LastDay,
         \A e \in YearEnds : e < YearStart(d) => NetIn(R, a, YearStart(e), e) = 0
  PROVE  NetIn(R, a, 0, YearStart(d) - 1) = 0
<1>1. PICK S, f, T, lab, g :
        /\ S = Within(R, 0, YearStart(d) - 1) /\ f = LinesOf(R, a) /\ T = {e \in YearEnds : e < YearStart(d)}
        /\ lab = [i \in S |-> YearEnd(R[i].date)] /\ g = [e \in T |-> NetIn(R, a, YearStart(e), e)]
  OBVIOUS
<1>2. IsFiniteSet(S) /\ S \subseteq PostedIn(R) BY <1>1, TableIs
<1>3. IsFiniteSet(T)
  <2>1. T \subseteq 0 .. LastDay BY <1>1, Calendar
  <2>2. IsFiniteSet(0 .. LastDay) BY Calendar, FS_Interval
  <2> QED BY <2>1, <2>2, FS_Subset
<1>4. \A i \in S : f[i] \in Int BY <1>1, <1>2, TableIs
<1>5. YearStart(d) \in Nat /\ d \in Nat
  <2>1. YearStart(d) \in 0 .. d BY YearStartIs
  <2> QED BY <2>1, Calendar
<1>6. ASSUME NEW i \in PostedIn(R)
      PROVE  /\ R[i].date \in 0 .. LastDay /\ YearEnd(R[i].date) \in YearEnds
             /\ R[i].date \in 0 .. YearStart(d) - 1 <=> YearEnd(R[i].date) < YearStart(d)
             /\ \A e \in YearEnds : R[i].date \in YearStart(e) .. e <=> YearEnd(R[i].date) = e
  <2>1. R[i].date \in 0 .. LastDay BY TableIs
  <2>2. YearEnd(R[i].date) \in YearEnds BY <2>1, YearEndIs
  <2>3. R[i].date < YearStart(d) <=> YearEnd(R[i].date) < YearStart(d) BY <2>1, DaysBefore
  <2>4. R[i].date \in 0 .. YearStart(d) - 1 <=> R[i].date < YearStart(d) BY <1>5, <2>1, Calendar
  <2>5. \A e \in YearEnds : R[i].date \in YearStart(e) .. e <=> YearEnd(R[i].date) = e BY <2>1, YearOf
  <2> QED BY <2>1, <2>2, <2>3, <2>4, <2>5
<1>7. \A i \in S : lab[i] \in T
  <2> TAKE i \in S
  <2>1. i \in PostedIn(R) /\ R[i].date \in 0 .. YearStart(d) - 1 BY <1>1 DEF Within
  <2> QED BY <1>1, <1>6, <2>1
<1>8. \A t \in T : g[t] = SumOf(f, PartOf(S, lab, t))
  <2> TAKE t \in T
  <2>1. t \in YearEnds /\ t < YearStart(d) BY <1>1
  <2>2. \A i \in S : lab[i] = YearEnd(R[i].date) BY <1>1
  <2>3. PartOf(S, lab, t) = Within(R, YearStart(t), t)
    <3>1. \A i \in S : i \in PostedIn(R) BY <1>2
    <3>2. \A i \in PostedIn(R) : YearEnd(R[i].date) = t => i \in S BY <1>1, <1>6, <2>1 DEF Within
    <3> QED BY <1>6, <2>1, <2>2, <3>1, <3>2 DEF Within, PartOf
  <2> QED BY <1>1, <2>3 DEF NetIn
<1>9. SumOf(g, T) = SumOf(f, S) BY ONLY <1>2, <1>3, <1>4, <1>7, <1>8, SumParts
<1>10. \A t \in T : g[t] = 0 BY <1>1
<1>11. SumOf(g, T) = 0 BY ONLY <1>3, <1>10, SumZero
<1> QED BY <1>1, <1>9, <1>11 DEF NetIn

\* A year in which nothing is posted to income or expenses has no result.
LEMMA YearQuiet ==
  ASSUME NEW R, Table(R), NEW a \in {"sales", "costs"}, NEW e \in YearEnds,
         \A i \in PostedIn(R) : YearEnd(R[i].date) = e => ~HitsPL(R[i])
  PROVE  NetIn(R, a, YearStart(e), e) = 0
<1>1. PICK S, f : S = Within(R, YearStart(e), e) /\ f = LinesOf(R, a) OBVIOUS
<1>2. IsFiniteSet(S) /\ a \in Accounts /\ AccountType[a] \in PLTypes BY <1>1, TableIs, AccountsAre DEF PLTypes
<1>3. ASSUME NEW i \in S PROVE f[i] = 0
  <2>1. i \in PostedIn(R) /\ R[i].date \in YearStart(e) .. e /\ i \in DOMAIN R BY <1>1 DEF Within, PostedIn
  <2>2. R[i].date \in 0 .. LastDay BY <2>1, TableIs
  <2>3. YearEnd(R[i].date) = e BY <2>1, <2>2, YearOf
  <2>4. ~HitsPL(R[i]) BY <2>1, <2>3
  <2> QED BY <1>1, <1>2, <2>1, <2>4 DEF HitsPL, LinesOf
<1>4. SumOf(f, S) = 0 BY ONLY <1>2, <1>3, SumZero
<1> QED BY <1>1, <1>4 DEF NetIn

\* What the partner owes, with one document more, and with one paid.
GapsKept(R, Q) == \A i \in PostedIn(R) : Gap(Q[i]) = Gap(R[i])

LEMMA GapsStay ==
  ASSUME NEW R, NEW Q, Table(R), Table(Q), PostsNone(R, Q), GapsKept(R, Q)
  PROVE  AllGaps(Q) = AllGaps(R)
<1>1. PICK S, f, h : S = PostedIn(R) /\ f = Gaps(R) /\ h = Gaps(Q) OBVIOUS
<1>2. IsFiniteSet(S) /\ \A i \in S : i \in DOMAIN R /\ i \in DOMAIN Q
  BY <1>1, TableIs DEF PostedIn, PostsNone, Keeping
<1>3. \A i \in S : f[i] = h[i] BY <1>1, <1>2 DEF Gaps, GapsKept
<1>4. SumOf(f, S) = SumOf(h, S) BY ONLY <1>2, <1>3, SumSame
<1> QED BY <1>1, <1>4 DEF AllGaps, PostsNone

LEMMA GapsGrow ==
  ASSUME NEW R, NEW Q, NEW k, Table(R), Table(Q), PostsOne(R, Q, k), GapsKept(R, Q)
  PROVE  AllGaps(Q) = AllGaps(R) + Gap(Q[k])
<1>1. PICK S, f, h : S = PostedIn(R) /\ f = Gaps(R) /\ h = Gaps(Q) OBVIOUS
<1>2. IsFiniteSet(S) /\ \A i \in S : i \in DOMAIN R /\ i \in DOMAIN Q
  BY <1>1, TableIs DEF PostedIn, PostsOne, Keeping
<1>3. \A i \in S : f[i] = h[i] BY <1>1, <1>2 DEF Gaps, GapsKept
<1>4. SumOf(f, S) = SumOf(h, S) BY ONLY <1>2, <1>3, SumSame
<1>5. k \in DOMAIN Q /\ k \notin S /\ PostedIn(Q) = S \cup {k} BY <1>1 DEF PostsOne
<1>6. \A i \in S \cup {k} : h[i] \in Int /\ h[i] = Gap(Q[i]) BY <1>1, <1>2, <1>5, TableIs DEF Gaps
<1>7. SumOf(h, S \cup {k}) = h[k] + SumOf(h, S)
  <2>1. \A i \in S \cup {k} : h[i] \in Int BY <1>6
  <2> QED BY ONLY <1>2, <1>5, <2>1, SumAdd
<1>8. SumOf(h, S) \in Int /\ h[k] \in Int
  <2>1. \A i \in S : h[i] \in Int BY <1>6
  <2>2. SumOf(h, S) \in Int BY ONLY <1>2, <2>1, SumType
  <2> QED BY <1>6, <2>2
<1> QED BY <1>1, <1>4, <1>5, <1>6, <1>7, <1>8 DEF AllGaps

LEMMA GapChanges ==
  ASSUME NEW R, NEW Q, NEW i \in PostedIn(R), Table(R), Table(Q), PostsNone(R, Q),
         \A j \in PostedIn(R) \ {i} : Gap(Q[j]) = Gap(R[j])
  PROVE  AllGaps(Q) = AllGaps(R) + Gap(Q[i]) - Gap(R[i])
<1>1. PICK S, f, h : S = PostedIn(R) /\ f = Gaps(R) /\ h = Gaps(Q) OBVIOUS
<1>2. IsFiniteSet(S) /\ i \in S /\ \A j \in S : j \in DOMAIN R /\ j \in DOMAIN Q
  BY <1>1, TableIs DEF PostedIn, PostsNone, Keeping
<1>3. \A j \in S : f[j] \in Int /\ h[j] \in Int BY <1>1, <1>2, TableIs DEF Gaps
<1>4. \A j \in S \ {i} : f[j] = h[j] BY <1>1, <1>2 DEF Gaps
<1>5. SumOf(h, S) = SumOf(f, S) + h[i] - f[i] BY ONLY <1>2, <1>3, <1>4, SumChange
<1>6. h[i] = Gap(Q[i]) /\ f[i] = Gap(R[i]) BY <1>1, <1>2 DEF Gaps
<1> QED BY <1>1, <1>5, <1>6 DEF AllGaps, PostsNone

\* An entry more, and one in place of a draft.
LEMMA Appended ==
  ASSUME NEW R, Table(R), NEW e \in EntryRows, Fit(e)
  PROVE  /\ Table(Append(R, e)) /\ Append(R, e)[Len(R) + 1] = e /\ GapsKept(R, Append(R, e))
         /\ DOMAIN Append(R, e) = DOMAIN R \cup {Len(R) + 1} /\ \A i \in DOMAIN R : Append(R, e)[i] = R[i]
         /\ e.state = "posted" => PostsOne(R, Append(R, e), Len(R) + 1)
         /\ e.state = "draft" => PostsNone(R, Append(R, e))
<1>1. R \in Seq(EntryRows) /\ Len(R) \in Nat /\ DOMAIN R = 1 .. Len(R) /\ \A i \in DOMAIN R : Fit(R[i]) BY DEF Table
<1>2. PICK Q, k : Q = Append(R, e) /\ k = Len(R) + 1 OBVIOUS
<1>3. Q \in Seq(EntryRows) /\ DOMAIN Q = DOMAIN R \cup {k} /\ k \notin DOMAIN R /\ Q[k] = e /\ \A i \in DOMAIN R : Q[i] = R[i]
  BY <1>1, <1>2
<1>4. Table(Q) BY <1>1, <1>3 DEF Table
<1>5. Keeping(R, Q) /\ GapsKept(R, Q) BY <1>3 DEF Keeping, GapsKept, PostedIn
<1>6. e.state = "posted" => PostsOne(R, Q, k) BY <1>3, <1>5 DEF PostsOne, PostedIn
<1>7. e.state = "draft" => PostsNone(R, Q) BY <1>3, <1>5 DEF PostsNone, PostedIn
<1> QED BY <1>2, <1>3, <1>4, <1>5, <1>6, <1>7

LEMMA Replaced ==
  ASSUME NEW R, Table(R), NEW k \in DOMAIN R, R[k].state = "draft", NEW e \in EntryRows, Fit(e), e.state = "posted",
         NEW Q, Q = [R EXCEPT ![k] = e]
  PROVE  Table(Q) /\ Q[k] = e /\ GapsKept(R, Q) /\ PostsOne(R, Q, k) /\ DOMAIN Q = DOMAIN R
<1>1. R \in Seq(EntryRows) /\ \A i \in DOMAIN R : Fit(R[i]) BY DEF Table
<1>2. Q \in Seq(EntryRows) /\ DOMAIN Q = DOMAIN R /\ Q[k] = e /\ \A i \in DOMAIN R : i # k => Q[i] = R[i] BY <1>1
<1>3. Table(Q) BY <1>1, <1>2 DEF Table
<1>4. k \notin PostedIn(R) BY DEF PostedIn
<1>5. Keeping(R, Q) /\ GapsKept(R, Q) BY <1>2, <1>4 DEF Keeping, GapsKept, PostedIn
<1>6. PostsOne(R, Q, k) BY <1>2, <1>4, <1>5 DEF PostsOne, PostedIn
<1> QED BY <1>2, <1>3, <1>5, <1>6
-----------------------------------------------------------------------------
(* The invariant. A closed year has no result; a call that closes one holds *)
(* what its result is, which nothing else changes while it runs.            *)
Result == {"sales", "costs"}
InFlight(c, D) ==
  /\ {"op", "at", "entry"} \subseteq DOMAIN c
  /\ c.op \in {"make", "post"} /\ c.entry \in EntryRows /\ c.entry.state = "draft" /\ Fit(c.entry)
  /\ c.op = "post" => c.at \in D
  /\ "year" \in DOMAIN c => c.year \in YearEnds
LedgerTypes ==
  /\ today \in 0 .. LastDay /\ exclusive \in BOOLEAN /\ Table(entries)
  /\ DOMAIN closing = Bookkeepers /\ \A u \in Bookkeepers : closing[u] = Idle \/ InFlight(closing[u], DOMAIN entries)
Emptied(R, C) == \A e \in C : e \in YearEnds /\ \A a \in Result : NetIn(R, a, YearStart(e), e) = 0
Closes(R, c) ==
  "year" \in DOMAIN c =>
    /\ c.entry.date = c.year
    /\ \A a \in Result : c.entry.lines[a] = -NetIn(R, a, YearStart(c.year), c.year)
    /\ c.op = "post" => R[c.at] = c.entry
Busy(u) == closing[u] # Idle
LedgerInv ==
  /\ AllGaps(entries) = 0
  /\ exclusive =>
       /\ Emptied(entries, closed)
       /\ \A u \in Bookkeepers : Busy(u) => Closes(entries, closing[u])
       /\ \A u, v \in Bookkeepers : Busy(u) /\ Busy(v) => u = v

LEMMA ResultIs == \A a \in Result : a \in Accounts /\ AccountType[a] \in PLTypes
BY AccountsAre DEF Result, PLTypes

\* A posting leaves closed what was closed, but for the year it has a result in.
LEMMA EmptiedStays ==
  ASSUME NEW R, NEW Q, NEW k, Table(R), Table(Q), PostsOne(R, Q, k), NEW C, Emptied(R, C),
         \A y \in C : YearEnd(Q[k].date) = y => \A a \in Result : Q[k].lines[a] = 0
  PROVE  Emptied(Q, C)
<1>1. k \in DOMAIN Q /\ Q[k].date \in 0 .. LastDay
  <2>1. k \in DOMAIN Q BY DEF PostsOne
  <2> QED BY <2>1, TableIs
<1>2. ASSUME NEW y \in C, NEW a \in Result PROVE y \in YearEnds /\ NetIn(Q, a, YearStart(y), y) = 0
  <2>1. y \in YearEnds /\ NetIn(R, a, YearStart(y), y) = 0 BY DEF Emptied
  <2>2. a \in Accounts BY ResultIs
  <2>3. Q[k].date \in YearStart(y) .. y <=> YearEnd(Q[k].date) = y BY <1>1, <2>1, YearOf
  <2>4. NetIn(Q, a, YearStart(y), y)
          = NetIn(R, a, YearStart(y), y) + (IF Q[k].date \in YearStart(y) .. y THEN Q[k].lines[a] ELSE 0)
    BY <2>2, NetGrows
  <2>5. Q[k].date \in YearStart(y) .. y => Q[k].lines[a] = 0 BY <2>3
  <2> QED BY <2>1, <2>4, <2>5
<1>3. \A y \in C : y \in YearEnds BY DEF Emptied
<1> QED BY <1>2, <1>3 DEF Emptied

LEMMA Unreached ==
  ASSUME NEW R, NEW Q, Table(R), Table(Q), PostsNone(R, Q)
  PROVE  /\ \A C : Emptied(R, C) => Emptied(Q, C)
         /\ \A a \in Result : \A from, to : NetIn(Q, a, from, to) = NetIn(R, a, from, to)
<1>1. \A a \in Result : \A from, to : NetIn(Q, a, from, to) = NetIn(R, a, from, to) BY ResultIs, NetStays
<1>2. \A C : Emptied(R, C) => Emptied(Q, C) BY <1>1 DEF Emptied
<1> QED BY <1>1, <1>2

\* A draft is posted.
LEMMA PostTurn ==
  ASSUME TaxesWhole, LedgerTypes, LedgerInv, NEW e \in EntryRows, e.state = "draft", Fit(e),
         NEW Q, NEW k, Table(Q), PostsOne(entries, Q, k), Q[k] = InPosted(e), GapsKept(entries, Q)
  PROVE  AllGaps(Q) = 0 /\ (exclusive => Emptied(Q, Reopened(e)))
<1>1. /\ InPosted(e).state = "posted" /\ Gap(InPosted(e)) = 0 /\ InPosted(e).date = e.date
      /\ InPosted(e).lines.sales = e.lines.sales /\ InPosted(e).lines.costs = e.lines.costs
  BY PostedIs
<1>2. Table(entries) /\ AllGaps(entries) = 0 BY DEF LedgerTypes, LedgerInv
<1>3. AllGaps(Q) = 0
  <2>1. AllGaps(Q) = AllGaps(entries) + Gap(Q[k]) BY <1>2, GapsGrow
  <2> QED BY <1>1, <1>2, <2>1
<1>4. ASSUME exclusive PROVE Emptied(Q, Reopened(e))
  <2>1. Emptied(entries, Reopened(e)) BY <1>4 DEF LedgerInv, Emptied, Reopened
  <2>2. \A y \in Reopened(e) : YearEnd(Q[k].date) = y => \A a \in Result : Q[k].lines[a] = 0
    <3> SUFFICES ASSUME NEW y \in Reopened(e), YearEnd(e.date) = y, NEW a \in Result PROVE Q[k].lines[a] = 0
      BY <1>1
    <3>1. ~HitsPL(e) BY DEF Reopened
    <3>2. e.lines[a] = 0 BY <3>1, ResultIs DEF HitsPL
    <3> QED BY <1>1, <3>2 DEF Result
  <2> QED BY <1>2, <2>1, <2>2, EmptiedStays
<1> QED BY <1>3, <1>4

\* A call goes on, ends or starts.
LEMMA CallTurn ==
  ASSUME LedgerTypes, NEW u \in Bookkeepers, NEW c, Keeps(u, c), UNCHANGED workdayVars,
         Table(entries'), DOMAIN entries \subseteq DOMAIN entries', c = Idle \/ InFlight(c, DOMAIN entries')
  PROVE  LedgerTypes' /\ closing'[u] = c /\ \A v \in Bookkeepers : v # u => closing'[v] = closing[v]
<1>1. DOMAIN closing = Bookkeepers BY DEF LedgerTypes
<1>2. DOMAIN closing' = Bookkeepers /\ closing'[u] = c /\ \A v \in Bookkeepers : v # u => closing'[v] = closing[v]
  BY <1>1 DEF Keeps
<1>3. \A v \in Bookkeepers : closing'[v] = Idle \/ InFlight(closing'[v], DOMAIN entries')
  BY <1>2 DEF LedgerTypes, InFlight
<1>4. today' \in 0 .. LastDay /\ exclusive' \in BOOLEAN BY DEF LedgerTypes, workdayVars
<1> QED BY <1>2, <1>3, <1>4 DEF LedgerTypes

LEMMA NoCallTurn ==
  ASSUME LedgerTypes, UNCHANGED <<closing, exclusive>>, today' \in 0 .. LastDay,
         Table(entries'), DOMAIN entries \subseteq DOMAIN entries'
  PROVE  LedgerTypes'
BY DEF LedgerTypes, InFlight

\* A posting while no call runs, if calls exclude each other.
LEMMA QuietPost ==
  ASSUME TaxesWhole, LedgerTypes, LedgerInv, Quiet, NEW e \in EntryRows, e.state = "draft", Fit(e), NEW k,
         Table(entries'), PostsOne(entries, entries', k), entries'[k] = InPosted(e), GapsKept(entries, entries'),
         closed' = Reopened(e), UNCHANGED <<closing, workdayVars>>
  PROVE  LedgerTypes' /\ LedgerInv'
<1>1. AllGaps(entries') = 0 /\ (exclusive => Emptied(entries', closed')) BY PostTurn
<1>2. LedgerTypes'
  <2>1. DOMAIN entries \subseteq DOMAIN entries' BY DEF PostsOne, Keeping
  <2>2. today' \in 0 .. LastDay BY DEF LedgerTypes, workdayVars
  <2> QED BY <2>1, <2>2, NoCallTurn DEF workdayVars
<1>3. exclusive' = exclusive /\ closing' = closing /\ (exclusive => \A u \in Bookkeepers : closing'[u] = Idle)
  BY DEF workdayVars, Quiet
<1>4. LedgerInv' BY <1>1, <1>3 DEF LedgerInv, Busy
<1> QED BY <1>2, <1>4

\* A call starts, and has made nothing yet.
LEMMA BeginTurn ==
  ASSUME LedgerTypes, LedgerInv, NEW u \in Bookkeepers, MayCall(closing, u), NEW c, Keeps(u, c),
         {"op", "at", "entry"} \subseteq DOMAIN c, c.op = "make", c.entry \in EntryRows, c.entry.state = "draft", Fit(c.entry),
         "year" \in DOMAIN c => c.year \in YearEnds, Closes(entries, c),
         UNCHANGED <<entries, closed, workdayVars>>
  PROVE  LedgerTypes' /\ LedgerInv'
<1>1. InFlight(c, DOMAIN entries) BY DEF InFlight
<1>2. LedgerTypes' /\ closing'[u] = c /\ \A v \in Bookkeepers : v # u => closing'[v] = closing[v]
  BY <1>1, CallTurn DEF LedgerTypes
<1>3. exclusive => \A v \in Bookkeepers : closing[v] = Idle BY DEF MayCall, LedgerTypes
<1>4. exclusive' = exclusive BY DEF workdayVars
<1>5. exclusive => \A v \in Bookkeepers : Busy(v)' => v = u BY <1>2, <1>3 DEF Busy
<1>6. exclusive => \A v \in Bookkeepers : Busy(v)' => Closes(entries', closing'[v]) BY <1>2, <1>5
<1>7. AllGaps(entries') = 0 /\ (exclusive => Emptied(entries', closed')) BY DEF LedgerInv
<1>8. LedgerInv' BY <1>4, <1>5, <1>6, <1>7 DEF LedgerInv
<1> QED BY <1>2, <1>8

LEMMA PostNewTurn ==
  ASSUME TaxesWhole, LedgerTypes, LedgerInv, NEW e \in EntryRows, e.state = "draft", Fit(e), PostNew(e),
         UNCHANGED workdayVars
  PROVE  LedgerTypes' /\ LedgerInv'
<1>1. Table(entries) BY DEF LedgerTypes
<1>2. InPosted(e) \in EntryRows /\ InPosted(e).state = "posted" /\ Fit(InPosted(e)) BY PostedIs
<1>3. PICK k : k = Len(entries) + 1 OBVIOUS
<1>4. Quiet /\ entries' = Append(entries, InPosted(e)) /\ closed' = Reopened(e) /\ closing' = closing BY DEF PostNew
<1>5. /\ Table(entries') /\ entries'[k] = InPosted(e) /\ GapsKept(entries, entries')
      /\ PostsOne(entries, entries', k)
  BY <1>1, <1>2, <1>3, <1>4, Appended
<1> QED BY <1>4, <1>5, QuietPost

LEMMA SalesIs ==
  ASSUME NEW x \in Int, NEW l, l = [Nothing EXCEPT !.sales = x]
  PROVE  l \in [Accounts -> Int] /\ l.cash = 0 /\ l.costs = 0 /\ l.retained = 0
BY NothingIs, AccountsAre

LEMMA InvoiceTurn ==
  ASSUME TaxesWhole, LedgerTypes, LedgerInv, NEW size \in Sizes, NEW taxed \in BOOLEAN, NEW due \in DueDates \cup {today},
         Invoice(size, taxed, due), UNCHANGED workdayVars
  PROVE  LedgerTypes' /\ LedgerInv'
<1>1. PICK l : l = [Nothing EXCEPT !.sales = -size] OBVIOUS
<1>2. size \in Int /\ due \in Int /\ today \in 0 .. LastDay BY LedgerAssumption, Calendar DEF LedgerTypes
<1>3. l \in [Accounts -> Int] /\ l.cash = 0 /\ l.costs = 0 /\ l.retained = 0
  <2>1. -size \in Int BY <1>2
  <2> QED BY <1>1, <2>1, SalesIs
<1>4. PICK e : e = [Entry("invoice", today, l) EXCEPT !.bears = taxed, !.due = due] OBVIOUS
<1>5. Entry("invoice", today, l) \in EntryRows BY <1>2, <1>3, EntryTyped
<1>6. e \in EntryRows /\ e.state = "draft" /\ Fit(e)
  <2>1. e \in EntryRows BY <1>2, <1>4, <1>5 DEF EntryRows
  <2>2. e.state = "draft" /\ e.type = "invoice" /\ e.lines = l BY <1>4 DEF Entry
  <2> QED BY <1>3, <2>1, <2>2 DEF Fit
<1>7. PostNew(e) BY <1>1, <1>4 DEF Invoice
<1> QED BY <1>6, <1>7, PostNewTurn

LEMMA ExpenseTurn ==
  ASSUME TaxesWhole, LedgerTypes, LedgerInv, NEW size \in Sizes, Expense(size), UNCHANGED workdayVars
  PROVE  LedgerTypes' /\ LedgerInv'
<1>1. PICK l : l = Of2("costs", size, "cash", -size) OBVIOUS
<1>2. size \in Int /\ -size \in Int /\ today \in 0 .. LastDay BY LedgerAssumption DEF LedgerTypes
<1>3. l \in [Accounts -> Int] /\ l.costs = size /\ l.cash = -size
      /\ l.receivable = 0 /\ l.tax = 0 /\ l.sales = 0 /\ l.retained = 0
  BY <1>1, <1>2, NothingIs, AccountsAre DEF Of2
<1>4. PICK e : e = Entry("entry", today, l) OBVIOUS
<1>5. e \in EntryRows /\ e.state = "draft" /\ e.type = "entry" /\ e.lines = l /\ e.residual = 0
  BY <1>2, <1>3, <1>4, EntryTyped DEF Entry
<1>6. Six(l) = 0 BY <1>2, <1>3 DEF Six
<1>7. Fit(e) BY <1>3, <1>5, <1>6 DEF Fit
<1>8. PostNew(e) BY <1>1, <1>4 DEF Expense
<1> QED BY <1>5, <1>7, <1>8, PostNewTurn

LEMMA PostDraftTurn ==
  ASSUME TaxesWhole, LedgerTypes, LedgerInv, NEW i \in DOMAIN entries, PostDraft(i), UNCHANGED workdayVars
  PROVE  LedgerTypes' /\ LedgerInv'
<1>1. PICK e : e = entries[i] OBVIOUS
<1>2. Table(entries) BY DEF LedgerTypes
<1>3. /\ Quiet /\ e.state = "draft" /\ entries' = [entries EXCEPT ![i] = InPosted(e)]
      /\ closed' = Reopened(e) /\ closing' = closing
  BY <1>1 DEF PostDraft
<1>4. e \in EntryRows /\ Fit(e) BY <1>1, <1>2, TableIs
<1>5. InPosted(e) \in EntryRows /\ InPosted(e).state = "posted" /\ Fit(InPosted(e)) BY <1>3, <1>4, PostedIs
<1>6. PICK Q : Q = entries' OBVIOUS
<1>7. Table(Q) /\ Q[i] = InPosted(e) /\ GapsKept(entries, Q) /\ PostsOne(entries, Q, i)
  <2>1. entries[i].state = "draft" /\ Q = [entries EXCEPT ![i] = InPosted(e)] BY <1>1, <1>3, <1>6
  <2> QED BY <1>2, <1>5, <2>1, Replaced
<1> QED BY <1>3, <1>4, <1>6, <1>7, QuietPost

\* A payment, with all of it left.
LEMMA PayTurn ==
  ASSUME TaxesWhole, LedgerTypes, LedgerInv, NEW size \in Sizes, Pay(size), UNCHANGED workdayVars
  PROVE  LedgerTypes' /\ LedgerInv'
<1>1. PICK l : l = Of2("receivable", -size, "cash", size) OBVIOUS
<1>2. size \in Int /\ -size \in Int /\ today \in 0 .. LastDay BY LedgerAssumption DEF LedgerTypes
<1>3. l \in [Accounts -> Int] /\ l.receivable = -size /\ l.cash = size
      /\ l.costs = 0 /\ l.tax = 0 /\ l.sales = 0 /\ l.retained = 0
  BY <1>1, <1>2, NothingIs, AccountsAre DEF Of2
<1>4. PICK d : d = Entry("entry", today, l) OBVIOUS
<1>5. d \in EntryRows /\ d.state = "draft" /\ d.type = "entry" /\ d.lines = l /\ d.origin = 0
  BY <1>2, <1>3, <1>4, EntryTyped DEF Entry
<1>6. PICK e : e = [d EXCEPT !.residual = -size] OBVIOUS
<1>7. /\ e \in EntryRows /\ e.state = "draft" /\ e.type = "entry" /\ e.lines = l /\ e.origin = 0
      /\ e.residual = -size
  BY <1>2, <1>5, <1>6 DEF EntryRows
<1>8. Six(l) = 0 BY <1>2, <1>3 DEF Six
<1>9. Fit(e) BY <1>3, <1>7, <1>8 DEF Fit
<1>10. PostNew(e) BY <1>1, <1>4, <1>6 DEF Pay
<1> QED BY <1>7, <1>9, <1>10, PostNewTurn

\* What is left on one posted entry changes: so does what is left in all.
Left(R, Q, i, n) == Q = [R EXCEPT ![i].residual = n]
LEMMA LeftChanges ==
  ASSUME NEW R, Table(R), NEW i \in DOMAIN R, R[i].state = "posted", R[i].residual # 0,
         NEW x \in Int, NEW Q, Left(R, Q, i, x)
  PROVE  /\ Table(Q) /\ PostsNone(R, Q) /\ DOMAIN Q = DOMAIN R /\ \A j \in DOMAIN R : j # i => Q[j] = R[j]
         /\ AllGaps(Q) = AllGaps(R) + x - R[i].residual
<1>1. /\ R[i] \in EntryRows /\ Fit(R[i]) /\ R[i].residual \in Int /\ R[i].lines.receivable \in Int
      /\ R \in Seq(EntryRows)
  <2>1. R[i] \in EntryRows /\ Fit(R[i]) BY TableIs
  <2>2. R[i].lines \in [Accounts -> Int] /\ R[i].residual \in Int BY <2>1 DEF EntryRows
  <2>3. R \in Seq(EntryRows) BY DEF Table
  <2> QED BY <2>1, <2>2, <2>3, LinesTyped
<1>2. PICK r, m : r = R[i] /\ m = [r EXCEPT !.residual = x] OBVIOUS
<1>3. Q = [R EXCEPT ![i] = m] BY <1>2 DEF Left
<1>4. /\ Q \in Seq(EntryRows) /\ Q[i] = m /\ DOMAIN Q = DOMAIN R /\ \A j \in DOMAIN R : j # i => Q[j] = R[j]
      /\ m \in EntryRows /\ m.state = r.state /\ m.date = r.date /\ m.lines = r.lines /\ m.type = r.type
      /\ m.origin = r.origin /\ m.residual = x
  <2>1. r \in EntryRows BY <1>1, <1>2
  <2>2. m \in EntryRows BY <1>2, <2>1 DEF EntryRows
  <2>3. /\ m.state = r.state /\ m.date = r.date /\ m.lines = r.lines /\ m.type = r.type
        /\ m.origin = r.origin /\ m.residual = x
    BY <1>2, <2>1 DEF EntryRows
  <2>4. Q \in Seq(EntryRows) /\ Q[i] = m /\ DOMAIN Q = DOMAIN R /\ \A j \in DOMAIN R : j # i => Q[j] = R[j]
    BY <1>1, <1>3, <2>2
  <2> QED BY <2>2, <2>3, <2>4
<1>5. ~(r.type = "entry" /\ r.origin # 0) BY <1>1, <1>2 DEF Fit
<1>6. Fit(m)
  <2>1. Fit(r) /\ r.state = "posted" BY <1>1, <1>2
  <2> QED BY <1>4, <1>5, <2>1 DEF Fit
<1>7. Table(Q) BY <1>4, <1>6 DEF Table
<1>8. PostsNone(R, Q)
  <2>1. PICK D : D = DOMAIN R OBVIOUS
  <2>2. DOMAIN Q = D /\ i \in D BY <1>4, <2>1
  <2>3. \A k \in D : /\ Q[k].state = R[k].state /\ Q[k].date = R[k].date /\ Q[k].lines = R[k].lines
                     /\ Q[k].type = R[k].type /\ Q[k].origin = R[k].origin
    BY <1>2, <1>4, <2>1
  <2>4. PostedIn(Q) = PostedIn(R) BY ONLY <2>1, <2>2, <2>3 DEF PostedIn
  <2>5. Keeping(R, Q) BY ONLY <2>1, <2>2, <2>3 DEF Keeping, PostedIn
  <2> QED BY <2>4, <2>5 DEF PostsNone
<1>9. AllGaps(Q) = AllGaps(R) + x - R[i].residual
  <2>1. i \in PostedIn(R) BY DEF PostedIn
  <2>2. \A j \in PostedIn(R) \ {i} : Gap(Q[j]) = Gap(R[j]) BY <1>4 DEF PostedIn
  <2>3. AllGaps(Q) = AllGaps(R) + Gap(Q[i]) - Gap(R[i]) BY <1>7, <1>8, <2>1, <2>2, GapChanges
  <2>4. Gap(R[i]) = r.residual - r.lines.receivable /\ Gap(Q[i]) = x - r.lines.receivable
    BY <1>2, <1>4, <1>5 DEF Gap
  <2>5. AllGaps(R) \in Int
    <3>1. IsFiniteSet(PostedIn(R)) /\ \A k \in PostedIn(R) : Gaps(R)[k] \in Int
      BY TableIs DEF Gaps
    <3> QED BY <3>1, SumType DEF AllGaps
  <2> QED BY <1>1, <1>2, <2>3, <2>4, <2>5
<1> QED BY <1>4, <1>7, <1>8, <1>9

\* A match takes from one what it takes from the other.
LEMMA SettleTurn ==
  ASSUME LedgerTypes, LedgerInv, NEW i \in DOMAIN entries, NEW j \in DOMAIN entries,
         NEW amount \in 1 .. entries[i].residual, Settle(i, j, amount), UNCHANGED workdayVars
  PROVE  LedgerTypes' /\ LedgerInv'
<1>1. PICK R, x, y : R = entries /\ x = R[i].residual /\ y = R[j].residual OBVIOUS
<1>2. Table(R) /\ today \in 0 .. LastDay /\ x \in Int /\ y \in Int
  <2>1. Table(R) /\ today \in 0 .. LastDay BY <1>1 DEF LedgerTypes
  <2>2. R[i] \in EntryRows /\ R[j] \in EntryRows BY <1>1, <2>1, TableIs
  <2> QED BY <1>1, <2>1, <2>2 DEF EntryRows
<1>3. /\ Quiet /\ R[i].state = "posted" /\ R[j].state = "posted" /\ amount <= -y
      /\ entries' = [R EXCEPT ![i].residual = @ - amount, ![j].residual = @ + amount]
      /\ closing' = closing /\ closed' = closed
  BY <1>1 DEF Settle
<1>4. amount \in Int /\ x > 0 /\ y < 0 /\ i # j BY <1>1, <1>2, <1>3
<1>14. PICK v, w : v = x - amount /\ w = y + amount /\ v \in Int /\ w \in Int BY <1>2, <1>4
<1>5. PICK M : M = [R EXCEPT ![i].residual = v] OBVIOUS
<1>6. /\ Table(M) /\ PostsNone(R, M) /\ DOMAIN M = DOMAIN R /\ M[j] = R[j]
      /\ AllGaps(M) = AllGaps(R) + v - x
  <2>1. R[i].residual # 0 /\ R[i].residual = x /\ R[i].state = "posted" /\ i \in DOMAIN R /\ j \in DOMAIN R
    BY <1>1, <1>3, <1>4
  <2>2. /\ Table(M) /\ PostsNone(R, M) /\ DOMAIN M = DOMAIN R /\ \A k \in DOMAIN R : k # i => M[k] = R[k]
        /\ AllGaps(M) = AllGaps(R) + v - R[i].residual
    <3>1. Left(R, M, i, v) BY <1>5 DEF Left
    <3> QED BY ONLY <1>2, <1>14, <2>1, <3>1, LeftChanges
  <2> QED BY <1>4, <2>1, <2>2
<1>7. PICK Q : Q = [M EXCEPT ![j].residual = w] OBVIOUS
<1>8. /\ Table(Q) /\ PostsNone(M, Q) /\ DOMAIN Q = DOMAIN M
      /\ AllGaps(Q) = AllGaps(M) + w - y
  <2>1. M[j].residual # 0 /\ M[j].residual = y /\ M[j].state = "posted" /\ j \in DOMAIN M BY <1>1, <1>3, <1>4, <1>6
  <2>2. /\ Table(Q) /\ PostsNone(M, Q) /\ DOMAIN Q = DOMAIN M
        /\ AllGaps(Q) = AllGaps(M) + w - M[j].residual
    <3>1. Left(M, Q, j, w) BY <1>7 DEF Left
    <3> QED BY ONLY <1>6, <1>14, <2>1, <3>1, LeftChanges
  <2> QED BY <2>1, <2>2
<1>9. entries' = Q
  <2>1. i \in DOMAIN R /\ j \in DOMAIN R /\ R = [k \in DOMAIN R |-> R[k]] BY <1>1, <1>2 DEF Table
  <2>2. entries' = [[R EXCEPT ![i].residual = x - amount] EXCEPT ![j].residual = y + amount]
    BY <1>1, <1>3, <1>4, <2>1
  <2> QED BY <1>5, <1>7, <1>14, <2>2
<1>10. AllGaps(Q) = 0
  <2>1. AllGaps(R) = 0 BY <1>1 DEF LedgerInv
  <2> QED BY <1>2, <1>4, <1>6, <1>8, <1>14, <2>1
<1>11. exclusive => Emptied(Q, closed)
  <2>1. exclusive => Emptied(R, closed) BY <1>1 DEF LedgerInv
  <2>2. exclusive => Emptied(M, closed) BY <1>2, <1>6, <2>1, Unreached
  <2> QED BY <1>6, <1>8, <2>2, Unreached
<1>12. LedgerTypes'
  <2>1. Table(entries') /\ DOMAIN entries \subseteq DOMAIN entries' BY <1>1, <1>6, <1>8, <1>9
  <2>2. UNCHANGED <<closing, exclusive>> /\ today' \in 0 .. LastDay BY <1>2, <1>3 DEF workdayVars
  <2> QED BY <2>1, <2>2, NoCallTurn
<1>13. LedgerInv'
  <2>1. exclusive' = exclusive /\ closing' = closing /\ (exclusive => \A u \in Bookkeepers : closing'[u] = Idle)
    BY <1>3 DEF workdayVars, Quiet
  <2>2. entries' = Q /\ closed' = closed BY <1>3, <1>9
  <2> QED BY <1>10, <1>11, <2>1, <2>2 DEF LedgerInv, Busy
<1> QED BY <1>12, <1>13

LEMMA TurnedIs ==
  ASSUME NEW l \in [Accounts -> Int]
  PROVE  /\ Turned(l) \in [Accounts -> Int] /\ \A a \in Accounts : Turned(l)[a] = -l[a]
         /\ Six(l) = 0 => Six(Turned(l)) = 0
<1>1. Turned(l) \in [Accounts -> Int] /\ \A a \in Accounts : Turned(l)[a] = -l[a] BY DEF Turned
<1>2. \A a \in {"receivable", "cash", "tax", "sales", "costs", "retained"} : a \in Accounts BY AccountsAre
<1>3. PICK k, r, c, t, s, x, e :
        /\ k = Turned(l) /\ r = l.receivable /\ c = l.cash /\ t = l.tax /\ s = l.sales /\ x = l.costs /\ e = l.retained
  OBVIOUS
<1>4. r \in Int /\ c \in Int /\ t \in Int /\ s \in Int /\ x \in Int /\ e \in Int BY <1>3, LinesTyped
<1>5. k.receivable = -r /\ k.cash = -c /\ k.tax = -t /\ k.sales = -s /\ k.costs = -x /\ k.retained = -e
  BY <1>1, <1>2, <1>3
<1>6. Six(l) = r + c + t + s + x + e BY <1>3 DEF Six
<1>7. Six(k) = -r + -c + -t + -s + -x + -e BY <1>5 DEF Six
<1>8. Six(l) = 0 => Six(k) = 0 BY ONLY <1>4, <1>6, <1>7
<1> QED BY <1>1, <1>3, <1>8

LEMMA ReverseTurn ==
  ASSUME LedgerTypes, LedgerInv, NEW u \in Bookkeepers, NEW i \in DOMAIN entries, NEW post \in BOOLEAN,
         ReverseBegin(u, i, post), UNCHANGED workdayVars
  PROVE  LedgerTypes' /\ LedgerInv'
<1>1. PICK r, l, d, e, c :
        /\ r = entries[i] /\ l = Turned(r.lines) /\ d = Entry(Opposite[r.type], today, l)
        /\ e = [d EXCEPT !.origin = i] /\ c = [op |-> "make", post |-> post, at |-> 0, entry |-> e]
  OBVIOUS
<1>2. MayCall(closing, u) /\ r.state = "posted" /\ Keeps(u, c) /\ UNCHANGED <<entries, closed>>
  BY <1>1 DEF ReverseBegin
<1>3. r \in EntryRows /\ Fit(r) /\ r.lines \in [Accounts -> Int] /\ i \in Nat /\ i # 0 /\ today \in 0 .. LastDay
  <2>1. Table(entries) /\ today \in 0 .. LastDay BY DEF LedgerTypes
  <2>2. i \in Nat /\ i # 0 BY <2>1 DEF Table
  <2> QED BY <1>1, <2>1, <2>2, TableIs
<1>4. /\ Opposite[r.type] \in {"entry", "invoice", "refund"}
      /\ Opposite[r.type] = "entry" <=> r.type = "entry"
  <2>1. r.type \in {"entry", "invoice", "refund"} BY <1>3 DEF EntryRows
  <2> QED BY <2>1 DEF Opposite
<1>5. /\ l \in [Accounts -> Int] /\ (Six(r.lines) = 0 => Six(l) = 0)
      /\ l.cash = -r.lines.cash /\ l.costs = -r.lines.costs /\ l.retained = -r.lines.retained
  BY <1>1, <1>3, TurnedIs, AccountsAre
<1>6. d \in EntryRows /\ d.state = "draft" /\ d.type = Opposite[r.type] /\ d.lines = l /\ d.residual = 0
  BY <1>1, <1>3, <1>4, <1>5, EntryTyped DEF Entry
<1>7. e \in EntryRows /\ e.state = "draft" /\ e.type = Opposite[r.type] /\ e.lines = l /\ e.residual = 0 /\ e.origin = i
  BY <1>1, <1>3, <1>6 DEF EntryRows
<1>8. Fit(e)
  <2>1. Six(r.lines) = 0 BY <1>2, <1>3 DEF Fit
  <2>2. r.type # "entry" => r.lines.cash = 0 /\ r.lines.costs = 0 /\ r.lines.retained = 0 BY <1>3 DEF Fit
  <2>3. Six(l) = 0 BY <1>5, <2>1
  <2>4. r.type # "entry" => l.cash = 0 /\ l.costs = 0 /\ l.retained = 0 BY <1>5, <2>2
  <2> QED BY <1>3, <1>4, <1>7, <2>3, <2>4 DEF Fit
<1>9. {"op", "at", "entry"} \subseteq DOMAIN c /\ c.op = "make" /\ c.entry = e /\ "year" \notin DOMAIN c BY <1>1
<1>10. Closes(entries, c) BY <1>9 DEF Closes
<1> QED BY <1>2, <1>7, <1>8, <1>9, <1>10, BeginTurn

LEMMA DebitNoteTurn ==
  ASSUME LedgerTypes, LedgerInv, NEW u \in Bookkeepers, NEW i \in DOMAIN entries,
         DebitNote(u, i), UNCHANGED workdayVars
  PROVE  LedgerTypes' /\ LedgerInv'
<1>1. PICK r, l, d, e, c :
        /\ r = entries[i] /\ l = [Nothing EXCEPT !.sales = r.lines.sales] /\ d = Entry(r.type, today, l)
        /\ e = [d EXCEPT !.bears = r.bears] /\ c = [op |-> "make", post |-> FALSE, at |-> 0, entry |-> e]
  OBVIOUS
<1>2. MayCall(closing, u) /\ r.type # "entry" /\ Keeps(u, c) /\ UNCHANGED <<entries, closed>>
  BY <1>1 DEF DebitNote
<1>3. /\ r \in EntryRows /\ r.lines \in [Accounts -> Int] /\ r.lines.sales \in Int /\ today \in 0 .. LastDay
      /\ r.type \in {"entry", "invoice", "refund"} /\ r.bears \in BOOLEAN
  <2>1. Table(entries) /\ today \in 0 .. LastDay BY DEF LedgerTypes
  <2>2. r \in EntryRows /\ r.lines \in [Accounts -> Int] BY <1>1, <2>1, TableIs
  <2>3. r.lines.sales \in Int BY <2>2, LinesTyped
  <2> QED BY <2>1, <2>2, <2>3 DEF EntryRows
<1>4. l \in [Accounts -> Int] /\ l.cash = 0 /\ l.costs = 0 /\ l.retained = 0 BY <1>1, <1>3, SalesIs
<1>5. d \in EntryRows /\ d.state = "draft" /\ d.type = r.type /\ d.lines = l
  BY <1>1, <1>3, <1>4, EntryTyped DEF Entry
<1>6. e \in EntryRows /\ e.state = "draft" /\ e.type = r.type /\ e.lines = l
  BY <1>1, <1>3, <1>5 DEF EntryRows
<1>7. Fit(e) BY <1>2, <1>4, <1>6 DEF Fit
<1>8. {"op", "at", "entry"} \subseteq DOMAIN c /\ c.op = "make" /\ c.entry = e /\ "year" \notin DOMAIN c BY <1>1
<1>9. Closes(entries, c) BY <1>8 DEF Closes
<1> QED BY <1>2, <1>6, <1>7, <1>8, <1>9, BeginTurn

LEMMA NetIs ==
  ASSUME Table(entries)
  PROVE  \A a, from, to : Net(a, from, to) = NetIn(entries, a, from, to)
<1> TAKE a, from, to
<1>1. PICK S, f, g : /\ S = Within(entries, from, to) /\ f = LinesOf(entries, a)
                     /\ g = [i \in S |-> entries[i].lines[a]]
  OBVIOUS
<1>2. S = {i \in Posted : entries[i].date \in from .. to} BY <1>1 DEF Within, PostedIn, Posted
<1>3. Net(a, from, to) = SumOf(g, S) BY <1>1, <1>2 DEF Net, Total
<1>4. IsFiniteSet(S) BY <1>1, TableIs
<1>5. \A i \in S : f[i] = g[i]
  <2>1. \A i \in S : i \in DOMAIN entries BY <1>1 DEF Within, PostedIn
  <2> QED BY <1>1, <2>1 DEF LinesOf
<1>6. SumOf(f, S) = SumOf(g, S) BY ONLY <1>4, <1>5, SumSame
<1> QED BY <1>1, <1>3, <1>6 DEF NetIn

\* The closing entry takes the result of the year to retained earnings.
LEMMA CloseBeginTurn ==
  ASSUME LedgerTypes, LedgerInv, NEW u \in Bookkeepers, NEW end \in YearEnds, end <= today,
         CloseBegin(u, end), UNCHANGED workdayVars
  PROVE  LedgerTypes' /\ LedgerInv'
<1>1. PICK of, net, l, e, c :
        /\ of = Results(end) /\ net = Total(Accounts, LAMBDA a : of[a])
        /\ l = [Turned(of) EXCEPT !.retained = net] /\ e = Entry("entry", end, l)
        /\ c = [op |-> "make", post |-> TRUE, at |-> 0, year |-> end, entry |-> e]
  OBVIOUS
<1>2. MayCall(closing, u) /\ Keeps(u, c) /\ UNCHANGED <<entries, closed>> BY <1>1 DEF CloseBegin
<1>3. Table(entries) /\ end \in 0 .. LastDay BY Calendar DEF LedgerTypes
<1>4. /\ of \in [Accounts -> Int] /\ \A a \in Result : of[a] = NetIn(entries, a, YearStart(end), end)
      /\ of.receivable = 0 /\ of.cash = 0 /\ of.tax = 0 /\ of.retained = 0
  <2>1. \A a \in Accounts : NetIn(entries, a, YearStart(end), end) \in Int BY <1>3, NetTyped
  <2>2. of = [a \in Accounts |-> IF AccountType[a] \in PLTypes THEN NetIn(entries, a, YearStart(end), end) ELSE 0]
    BY <1>1, <1>3, NetIs DEF Results
  <2>3. \A a \in Accounts \ Result : AccountType[a] \notin PLTypes BY AccountsAre DEF Result, PLTypes
  <2>4. of \in [Accounts -> Int] BY <2>1, <2>2
  <2>5. \A a \in Result : of[a] = NetIn(entries, a, YearStart(end), end) BY <2>2, ResultIs
  <2>6. \A a \in {"receivable", "cash", "tax", "retained"} : a \in Accounts \ Result BY AccountsAre DEF Result
  <2>7. \A a \in {"receivable", "cash", "tax", "retained"} : of[a] = 0 BY <2>2, <2>3, <2>6
  <2> QED BY <2>4, <2>5, <2>7
<1>5. net = Six(of) /\ net \in Int
  <2>1. [a \in Accounts |-> of[a]] = of BY <1>4
  <2>2. net = SumOf(of, Accounts) BY <1>1, <2>1 DEF Total
  <2> QED BY <1>4, <2>2, SixSum, LinesTyped
<1>6. /\ l \in [Accounts -> Int] /\ l.retained = net /\ \A a \in Result : l[a] = -of[a]
      /\ l.receivable = 0 /\ Six(l) = 0
  <2>1. PICK t : t = Turned(of) OBVIOUS
  <2>2. t \in [Accounts -> Int] /\ \A a \in Accounts : t[a] = -of[a] BY <1>4, <2>1, TurnedIs
  <2>3. l = [t EXCEPT !["retained"] = net] BY <1>1, <2>1
  <2>4. \A a \in {"receivable", "cash", "tax", "sales", "costs", "retained"} : a \in Accounts BY AccountsAre
  <2>5. l \in [Accounts -> Int] /\ l["retained"] = net BY <1>5, <2>2, <2>3, <2>4
  <2>6. \A a \in {"receivable", "cash", "tax", "sales", "costs"} : l[a] = -of[a] BY <2>2, <2>3, <2>4
  <2>7. of.sales \in Int /\ of.costs \in Int BY <1>4, LinesTyped
  <2>8. l.receivable = 0 /\ l.cash = 0 /\ l.tax = 0 /\ l.sales = -of.sales /\ l.costs = -of.costs
    BY <1>4, <2>6
  <2>9. net = of.sales + of.costs BY <1>4, <1>5, <2>7 DEF Six
  <2>10. Six(l) = 0 BY <2>5, <2>7, <2>8, <2>9 DEF Six
  <2> QED BY <2>5, <2>6, <2>8, <2>10 DEF Result
<1>7. e \in EntryRows /\ e.state = "draft" /\ e.type = "entry" /\ e.lines = l /\ e.residual = 0 /\ e.date = end
  BY <1>1, <1>3, <1>6, EntryTyped DEF Entry
<1>8. Fit(e) BY <1>6, <1>7 DEF Fit
<1>9. {"op", "at", "entry"} \subseteq DOMAIN c /\ c.op = "make" /\ c.entry = e /\ c.year = end BY <1>1
<1>10. Closes(entries, c)
  <2>1. c.op # "post" BY <1>9
  <2>2. \A a \in Result : c.entry.lines[a] = -NetIn(entries, a, YearStart(c.year), c.year)
    BY <1>4, <1>6, <1>7, <1>9
  <2> QED BY <1>7, <1>9, <2>1, <2>2 DEF Closes
<1>11. c.entry \in EntryRows /\ c.entry.state = "draft" /\ Fit(c.entry) /\ ("year" \in DOMAIN c => c.year \in YearEnds)
  BY <1>7, <1>8, <1>9
<1> QED BY <1>2, <1>9, <1>10, <1>11, BeginTurn

LEMMA MakeDraftTurn ==
  ASSUME LedgerTypes, LedgerInv, NEW u \in Bookkeepers, MakeDraft(u), UNCHANGED workdayVars
  PROVE  LedgerTypes' /\ LedgerInv'
<1>1. PICK c, n : c = closing[u] /\ n = Len(entries) + 1 OBVIOUS
<1>2. PICK p : p = [c EXCEPT !.op = "post", !.at = n] OBVIOUS
<1>3. PICK x : x = IF c.post THEN p ELSE Idle OBVIOUS
<1>4. c.op = "make" /\ entries' = Append(entries, c.entry) /\ Keeps(u, x) /\ closed' = closed
  BY <1>1, <1>2, <1>3 DEF MakeDraft
<1>5. c # Idle BY <1>4 DEF Idle
<1>6. InFlight(c, DOMAIN entries) /\ Table(entries) /\ Busy(u) BY <1>1, <1>5 DEF LedgerTypes, Busy
<1>7. c.entry \in EntryRows /\ c.entry.state = "draft" /\ Fit(c.entry)
      /\ "op" \in DOMAIN c /\ "at" \in DOMAIN c /\ "entry" \in DOMAIN c
  BY <1>4, <1>6 DEF InFlight
<1>8. /\ Table(entries') /\ entries'[n] = c.entry /\ GapsKept(entries, entries') /\ DOMAIN entries' = DOMAIN entries \cup {n}
      /\ PostsNone(entries, entries')
  BY <1>1, <1>4, <1>6, <1>7, Appended
<1>9. /\ DOMAIN p = DOMAIN c /\ p.op = "post" /\ p.entry = c.entry /\ p.at = n
      /\ "year" \in DOMAIN c => p.year = c.year
  BY <1>2, <1>7
<1>10. InFlight(p, DOMAIN entries')
  <2>1. "year" \in DOMAIN c => c.year \in YearEnds BY <1>6 DEF InFlight
  <2>2. n \in DOMAIN entries' BY <1>8
  <2>3. {"op", "at", "entry"} \subseteq DOMAIN p BY <1>7, <1>9
  <2>4. p.op # "make" BY <1>9
  <2> QED BY <1>7, <1>9, <2>1, <2>2, <2>3, <2>4 DEF InFlight
<1>11. LedgerTypes' /\ closing'[u] = x /\ \A v \in Bookkeepers : v # u => closing'[v] = closing[v]
  <2>1. x = Idle \/ InFlight(x, DOMAIN entries') BY <1>3, <1>10
  <2> QED BY <1>4, <1>8, <2>1, CallTurn
<1>12. AllGaps(entries') = 0 BY <1>6, <1>8, GapsStay DEF LedgerInv
<1>13. ASSUME exclusive
       PROVE  /\ Emptied(entries', closed')
              /\ \A v \in Bookkeepers : Busy(v)' => v = u
              /\ Busy(u)' => Closes(entries', x)
  <2>1. Emptied(entries', closed') BY <1>4, <1>6, <1>8, <1>13, Unreached DEF LedgerInv
  <2>2. \A v \in Bookkeepers : Busy(v)' => v = u BY <1>6, <1>11, <1>13 DEF LedgerInv, Busy
  <2>3. ASSUME x = p PROVE Closes(entries', x)
    <3>1. Closes(entries, c) BY <1>1, <1>6, <1>13 DEF LedgerInv
    <3>2. ASSUME "year" \in DOMAIN c
          PROVE  /\ c.entry.date = c.year
                 /\ \A a \in Result : c.entry.lines[a] = -NetIn(entries', a, YearStart(c.year), c.year)
      <4>1. /\ c.entry.date = c.year
            /\ \A a \in Result : c.entry.lines[a] = -NetIn(entries, a, YearStart(c.year), c.year)
        BY <3>1, <3>2 DEF Closes
      <4>2. \A a \in Result : \A from, to : NetIn(entries', a, from, to) = NetIn(entries, a, from, to)
        BY <1>6, <1>8, Unreached
      <4> QED BY <4>1, <4>2
    <3> QED BY <1>8, <1>9, <2>3, <3>2 DEF Closes
  <2>4. Busy(u)' => x = p BY <1>3, <1>11 DEF Busy
  <2> QED BY <2>1, <2>2, <2>3, <2>4
<1>14. LedgerInv'
  <2>1. exclusive' = exclusive BY DEF workdayVars
  <2>2. exclusive => \A v \in Bookkeepers : Busy(v)' => Closes(entries', closing'[v]) BY <1>11, <1>13
  <2>3. exclusive => \A v, w \in Bookkeepers : Busy(v)' /\ Busy(w)' => v = w BY <1>13
  <2> QED BY <1>12, <1>13, <2>1, <2>2, <2>3 DEF LedgerInv
<1> QED BY <1>11, <1>14

LEMMA YearEndItself == \A e \in YearEnds : YearEnd(e) = e /\ e \in YearStart(e) .. e /\ e \in 0 .. LastDay
<1> TAKE e \in YearEnds
<1>1. e \in 0 .. LastDay /\ e \in Nat BY Calendar
<1>2. e <= YearEnd(e) /\ YearEnd(e) <= e /\ YearEnd(e) \in Nat BY <1>1, YearEndIs
<1>3. YearEnd(e) = e BY <1>1, <1>2
<1> QED BY <1>1, <1>3, YearOf

\* The closing entry empties its year and is in no other.
LEMMA ClosesYear ==
  ASSUME NEW R, NEW Q, NEW k, Table(R), Table(Q), PostsOne(R, Q, k), NEW C, Emptied(R, C), NEW y \in YearEnds,
         Q[k].date = y, \A a \in Result : Q[k].lines[a] = -NetIn(R, a, YearStart(y), y)
  PROVE  Emptied(Q, C \cup {y})
<1>1. YearEnd(y) = y /\ y \in YearStart(y) .. y BY YearEndItself
<1>2. Emptied(Q, C \ {y})
  <2>1. PICK D : D = C \ {y} OBVIOUS
  <2>2. Emptied(R, D) BY <2>1 DEF Emptied
  <2>3. \A z \in D : YearEnd(Q[k].date) = z => \A a \in Result : Q[k].lines[a] = 0 BY <1>1, <2>1
  <2>4. Emptied(Q, D) BY <2>2, <2>3, EmptiedStays
  <2> QED BY <2>1, <2>4
<1>3. ASSUME NEW a \in Result PROVE NetIn(Q, a, YearStart(y), y) = 0
  <2>1. a \in Accounts BY ResultIs
  <2>2. NetIn(R, a, YearStart(y), y) \in Int BY <2>1, NetTyped
  <2>3. NetIn(Q, a, YearStart(y), y) = NetIn(R, a, YearStart(y), y) + Q[k].lines[a] BY <1>1, <2>1, NetGrows
  <2> QED BY <2>2, <2>3
<1> QED BY <1>2, <1>3 DEF Emptied

LEMMA PostMadeTurn ==
  ASSUME TaxesWhole, LedgerTypes, LedgerInv, NEW u \in Bookkeepers, PostMade(u), UNCHANGED workdayVars
  PROVE  LedgerTypes' /\ LedgerInv'
<1>1. PICK c, k : c = closing[u] /\ k = c.at OBVIOUS
<1>2. PICK e, Q : e = entries[k] /\ Q = [entries EXCEPT ![k] = InPosted(e)] OBVIOUS
<1>3. /\ c.op = "post" /\ e.state = "draft" /\ entries' = Q /\ Keeps(u, Idle)
      /\ closed' = IF "year" \in DOMAIN c THEN closed \cup {c.year} ELSE Reopened(e)
  BY <1>1, <1>2 DEF PostMade
<1>4. c # Idle BY <1>3 DEF Idle
<1>5. Table(entries) /\ Busy(u) /\ k \in DOMAIN entries /\ ("year" \in DOMAIN c => c.year \in YearEnds)
  BY <1>1, <1>3, <1>4 DEF LedgerTypes, InFlight, Busy
<1>6. e \in EntryRows /\ Fit(e) BY <1>2, <1>5, TableIs
<1>7. /\ InPosted(e) \in EntryRows /\ InPosted(e).state = "posted" /\ Fit(InPosted(e)) /\ InPosted(e).date = e.date
      /\ InPosted(e).lines.sales = e.lines.sales /\ InPosted(e).lines.costs = e.lines.costs
  BY <1>3, <1>6, PostedIs
<1>8. Table(Q) /\ Q[k] = InPosted(e) /\ GapsKept(entries, Q) /\ PostsOne(entries, Q, k) /\ DOMAIN Q = DOMAIN entries
  <2>1. entries[k].state = "draft" BY <1>2, <1>3
  <2> QED BY <1>2, <1>5, <1>7, <2>1, Replaced
<1>9. AllGaps(Q) = 0 /\ (exclusive => Emptied(Q, Reopened(e))) BY <1>3, <1>6, <1>8, PostTurn
<1>10. LedgerTypes' /\ closing'[u] = Idle /\ \A v \in Bookkeepers : v # u => closing'[v] = closing[v]
  BY <1>3, <1>8, CallTurn
<1>11. ASSUME exclusive PROVE Emptied(entries', closed')
  <2>1. CASE "year" \in DOMAIN c
    <3>1. e = c.entry /\ e.date = c.year /\ \A a \in Result : e.lines[a] = -NetIn(entries, a, YearStart(c.year), c.year)
      BY <1>1, <1>2, <1>3, <1>5, <1>11, <2>1 DEF LedgerInv, Closes
    <3>2. \A a \in Result : Q[k].lines[a] = -NetIn(entries, a, YearStart(c.year), c.year)
      BY <1>7, <1>8, <3>1 DEF Result
    <3>3. Emptied(entries, closed) BY <1>11 DEF LedgerInv
    <3>4. Q[k].date = c.year BY <1>7, <1>8, <3>1
    <3>5. Emptied(Q, closed \cup {c.year}) BY <1>5, <1>8, <2>1, <3>2, <3>3, <3>4, ClosesYear
    <3> QED BY <1>3, <2>1, <3>5
  <2>2. CASE "year" \notin DOMAIN c BY <1>3, <1>9, <1>11, <2>2
  <2> QED BY <2>1, <2>2
<1>12. exclusive => \A v \in Bookkeepers : ~Busy(v)' BY <1>5, <1>10 DEF LedgerInv, Busy
<1>13. LedgerInv'
  <2>1. exclusive' = exclusive BY DEF workdayVars
  <2> QED BY <1>3, <1>9, <1>11, <1>12, <2>1 DEF LedgerInv
<1> QED BY <1>10, <1>13

LEMMA CallEndsTurn ==
  ASSUME LedgerTypes, LedgerInv, NEW u \in Bookkeepers, CallEnds(u), UNCHANGED workdayVars
  PROVE  LedgerTypes' /\ LedgerInv'
<1>1. Keeps(u, Idle) /\ UNCHANGED <<entries, closed>> BY DEF CallEnds
<1>2. LedgerTypes' /\ closing'[u] = Idle /\ \A v \in Bookkeepers : v # u => closing'[v] = closing[v]
  BY <1>1, CallTurn DEF LedgerTypes
<1>3. exclusive' = exclusive BY DEF workdayVars
<1>4. LedgerInv' BY <1>1, <1>2, <1>3 DEF LedgerInv, Busy
<1> QED BY <1>2, <1>4

LEMMA LedgerStep ==
  ASSUME TaxesWhole, LedgerTypes, LedgerInv, [LedgerNext]_<<ledgerVars, workdayVars>>
  PROVE  LedgerTypes' /\ LedgerInv'
<1>1. CASE NextDay /\ UNCHANGED ledgerVars
  <2>1. UNCHANGED <<entries, closing, closed, exclusive>> BY <1>1 DEF NextDay, ledgerVars
  <2>2. today' \in 0 .. LastDay BY <1>1, LastDayAssumption DEF NextDay, LedgerTypes
  <2>3. LedgerTypes' BY <2>1, <2>2, NoCallTurn DEF LedgerTypes
  <2>4. LedgerInv' BY <2>1 DEF LedgerInv, Busy
  <2> QED BY <2>3, <2>4
<1>2. CASE UNCHANGED <<ledgerVars, workdayVars>>
  <2>1. UNCHANGED <<entries, closing, closed, exclusive, today>> BY <1>2 DEF workdayVars, ledgerVars
  <2>2. LedgerTypes' BY <2>1, NoCallTurn DEF LedgerTypes
  <2>3. LedgerInv' BY <2>1 DEF LedgerInv, Busy
  <2> QED BY <2>2, <2>3
<1>3. CASE \E size \in Sizes, taxed \in BOOLEAN, due \in DueDates \cup {today} :
             Invoice(size, taxed, due) /\ UNCHANGED workdayVars
  BY <1>3, InvoiceTurn
<1>4. CASE \E size \in Sizes : Expense(size) /\ UNCHANGED workdayVars BY <1>4, ExpenseTurn
<1>5. CASE \E size \in Sizes : Pay(size) /\ UNCHANGED workdayVars BY <1>5, PayTurn
<1>13. CASE \E i, j \in DOMAIN entries : \E amount \in 1 .. entries[i].residual :
              Settle(i, j, amount) /\ UNCHANGED workdayVars
  BY <1>13, SettleTurn
<1>6. CASE \E i \in DOMAIN entries : PostDraft(i) /\ UNCHANGED workdayVars BY <1>6, PostDraftTurn
<1>7. CASE \E u \in Bookkeepers, i \in DOMAIN entries, post \in BOOLEAN :
             ReverseBegin(u, i, post) /\ UNCHANGED workdayVars
  BY <1>7, ReverseTurn
<1>8. CASE \E u \in Bookkeepers, i \in DOMAIN entries : DebitNote(u, i) /\ UNCHANGED workdayVars
  BY <1>8, DebitNoteTurn
<1>9. CASE \E u \in Bookkeepers, end \in YearEnds : end <= today /\ CloseBegin(u, end) /\ UNCHANGED workdayVars
  BY <1>9, CloseBeginTurn
<1>10. CASE \E u \in Bookkeepers : MakeDraft(u) /\ UNCHANGED workdayVars BY <1>10, MakeDraftTurn
<1>11. CASE \E u \in Bookkeepers : PostMade(u) /\ UNCHANGED workdayVars BY <1>11, PostMadeTurn
<1>12. CASE \E u \in Bookkeepers : CallEnds(u) /\ UNCHANGED workdayVars BY <1>12, CallEndsTurn
<1> QED
  BY <1>1, <1>2, <1>3, <1>4, <1>5, <1>6, <1>7, <1>8, <1>9, <1>10, <1>11, <1>12, <1>13, Zenon DEF LedgerNext

LEMMA LedgerStarts == ASSUME LedgerInit, WorkdayInit PROVE LedgerTypes /\ LedgerInv
<1>1. entries = <<>> /\ closed = {} /\ closing = [u \in Bookkeepers |-> Idle] /\ today = 0 /\ exclusive \in BOOLEAN
  BY DEF LedgerInit, WorkdayInit
<1>2. Table(entries) /\ PostedIn(entries) = {} BY <1>1 DEF Table, PostedIn
<1>3. LedgerTypes BY <1>1, <1>2, LastDayAssumption DEF LedgerTypes
<1>4. AllGaps(entries) = 0 BY <1>2, SumEmpty DEF AllGaps
<1>5. LedgerInv BY <1>1, <1>4 DEF LedgerInv, Emptied, Busy
<1> QED BY <1>3, <1>5
-----------------------------------------------------------------------------
(* The reports. The trial balance of a year, and what accounts of a type    *)
(* come to.                                                                *)
LEMMA LargerIs == \A x \in Int : Max({x, 0}) = IF x > 0 THEN x ELSE 0
<1> TAKE x \in Int
<1>1. PICK S, z : S = {x, 0} /\ z = IF x > 0 THEN x ELSE 0 OBVIOUS
<1>2. z \in S /\ \A y \in S : z >= y BY <1>1
<1>3. \A w \in S : (\A y \in S : w >= y) => w = z
  <2> SUFFICES ASSUME NEW w \in S, \A y \in S : w >= y PROVE w = z OBVIOUS
  <2>1. w >= x /\ w >= 0 /\ w \in {x, 0} BY <1>1
  <2> QED BY <1>1, <2>1
<1>4. Max(S) = CHOOSE w \in S : \A y \in S : w >= y BY DEF Max
<1>5. Max(S) = z BY <1>2, <1>3, <1>4
<1> QED BY <1>1, <1>5

LEMMA TrialIs ==
  ASSUME Table(entries), NEW a \in Accounts, NEW d \in 0 .. LastDay, NEW t, t = TrialBalance(a, YearStart(d), d)
  PROVE  t.opening + t.debit - t.credit = NetIn(entries, a, 0, d)
<1>1. PICK m : m = YearStart(d) OBVIOUS
<1>2. m \in Nat /\ d \in Nat /\ m <= d
  <2>1. m \in 0 .. d BY <1>1, YearStartIs
  <2> QED BY <2>1, Calendar
<1>3. PICK S, f, debit, credit :
        /\ S = Within(entries, m, d) /\ f = LinesOf(entries, a)
        /\ debit = [i \in S |-> Max({entries[i].lines[a], 0})] /\ credit = [i \in S |-> Max({-entries[i].lines[a], 0})]
  OBVIOUS
<1>4. IsFiniteSet(S) BY <1>3, TableIs
<1>5. S = {i \in Posted : entries[i].date \in m .. d} BY <1>3 DEF Within, PostedIn, Posted
<1>6. t.opening = Net(a, 0, m - 1) /\ t.debit = SumOf(debit, S) /\ t.credit = SumOf(credit, S)
  BY <1>1, <1>3, <1>5 DEF TrialBalance, Total
<1>7. ASSUME NEW i \in S PROVE /\ f[i] \in Int /\ debit[i] \in Int /\ credit[i] \in Int
                               /\ debit[i] = f[i] + credit[i]
  <2>1. i \in DOMAIN entries BY <1>3 DEF Within, PostedIn
  <2>2. f[i] \in Int /\ f[i] = entries[i].lines[a] BY <1>3, <2>1, TableIs
  <2>3. PICK x : x = f[i] OBVIOUS
  <2>4. x \in Int /\ -x \in Int /\ debit[i] = Max({x, 0}) /\ credit[i] = Max({-x, 0}) BY <1>3, <2>2, <2>3
  <2>5. Max({x, 0}) = IF x > 0 THEN x ELSE 0 BY <2>4, LargerIs
  <2>6. Max({-x, 0}) = IF -x > 0 THEN -x ELSE 0 BY <2>4, LargerIs
  <2>7. debit[i] \in Int /\ credit[i] \in Int /\ debit[i] = x + credit[i] BY ONLY <2>4, <2>5, <2>6
  <2> QED BY <2>2, <2>3, <2>7
<1>8. SumOf(debit, S) = SumOf(f, S) + SumOf(credit, S)
  <2>1. (\A i \in S : f[i] \in Int /\ credit[i] \in Int) /\ \A i \in S : debit[i] = f[i] + credit[i] BY <1>7
  <2> QED BY ONLY <1>4, <2>1, SumPlus
<1>9. SumOf(credit, S) \in Int
  <2>1. \A i \in S : credit[i] \in Int BY <1>7
  <2> QED BY ONLY <1>4, <2>1, SumType
<1>10. SumOf(f, S) = NetIn(entries, a, m, d) /\ NetIn(entries, a, m, d) \in Int BY <1>3, NetTyped DEF NetIn
<1>11. Net(a, 0, m - 1) = NetIn(entries, a, 0, m - 1) /\ NetIn(entries, a, 0, m - 1) \in Int BY NetIs, NetTyped
<1>12. NetIn(entries, a, 0, d) = NetIn(entries, a, 0, m - 1) + NetIn(entries, a, m, d) BY <1>2, NetSplits
<1> QED BY <1>6, <1>8, <1>9, <1>10, <1>11, <1>12

OfType(type) == {a \in Accounts : AccountType[a] = type}

LEMMA TypesAre ==
  /\ OfType("income") = {"sales"} /\ OfType("expense") = {"costs"}
  /\ Accounts = ((OfType("asset") \cup OfType("liability")) \cup OfType("equity")) \cup ({"sales"} \cup {"costs"})
  /\ IsFiniteSet(Accounts) /\ \A type : OfType(type) \subseteq Accounts /\ IsFiniteSet(OfType(type))
<1>1. "sales" \in Accounts /\ "costs" \in Accounts BY AccountsAre
<1>2. OfType("income") = {"sales"} /\ OfType("expense") = {"costs"} BY <1>1, AccountsAre DEF OfType
<1>3. Accounts = ((OfType("asset") \cup OfType("liability")) \cup OfType("equity")) \cup ({"sales"} \cup {"costs"})
  <2>1. \A a \in Accounts \ {"sales", "costs"} : a \in (OfType("asset") \cup OfType("liability")) \cup OfType("equity")
    BY AccountsAre DEF OfType
  <2> QED BY <1>1, <2>1 DEF OfType
<1>4. IsFiniteSet(Accounts)
  <2>1. IsFiniteSet({}) BY FS_EmptySet
  <2>2. Accounts = ((((({} \cup {"receivable"}) \cup {"cash"}) \cup {"tax"}) \cup {"sales"}) \cup {"costs"}) \cup {"retained"}
    BY AccountsAre
  <2> QED BY <2>1, <2>2, FS_AddElement
<1>5. \A type : OfType(type) \subseteq Accounts BY DEF OfType
<1> QED BY <1>2, <1>3, <1>4, <1>5, FS_Subset

LEMMA TypeNet ==
  ASSUME Table(entries), NEW type, NEW from, NEW to, NEW f, f = [a \in Accounts |-> NetIn(entries, a, from, to)]
  PROVE  NetOfTypes({type}, from, to) = SumOf(f, OfType(type))
<1>1. PICK S, g : S = OfType(type) /\ g = [a \in S |-> Net(a, from, to)] OBVIOUS
<1>2. S = {a \in Accounts : AccountType[a] \in {type}} BY <1>1 DEF OfType
<1>3. NetOfTypes({type}, from, to) = SumOf(g, S) BY <1>1, <1>2 DEF NetOfTypes, Total
<1>4. IsFiniteSet(S) /\ S \subseteq Accounts BY <1>1, TypesAre
<1>5. \A a \in S : g[a] = f[a] BY <1>1, <1>4, NetIs
<1>6. SumOf(g, S) = SumOf(f, S) BY ONLY <1>4, <1>5, SumSame
<1> QED BY <1>1, <1>3, <1>6

\* All that is posted adds up, type by type.
LEMMA TypesAddUp ==
  ASSUME Table(entries), NEW from, NEW to
  PROVE  /\ NetOfTypes({"asset"}, from, to) \in Int /\ NetOfTypes({"liability"}, from, to) \in Int
         /\ NetOfTypes({"equity"}, from, to) \in Int
         /\ NetOfTypes({"income"}, from, to) = NetIn(entries, "sales", from, to)
         /\ NetOfTypes({"expense"}, from, to) = NetIn(entries, "costs", from, to)
         /\ NetIn(entries, "sales", from, to) \in Int /\ NetIn(entries, "costs", from, to) \in Int
         /\ NetOfTypes({"asset"}, from, to) + NetOfTypes({"liability"}, from, to) + NetOfTypes({"equity"}, from, to)
              + NetIn(entries, "sales", from, to) + NetIn(entries, "costs", from, to) = 0
<1>1. PICK f, A, L, E, X, Y :
        /\ f = [a \in Accounts |-> NetIn(entries, a, from, to)]
        /\ A = OfType("asset") /\ L = OfType("liability") /\ E = OfType("equity") /\ X = {"sales"} /\ Y = {"costs"}
  OBVIOUS
<1>2. f \in [Accounts -> Int] /\ SumOf(f, Accounts) = 0 BY <1>1, NetsAddUp
<1>3. /\ NetOfTypes({"asset"}, from, to) = SumOf(f, A) /\ NetOfTypes({"liability"}, from, to) = SumOf(f, L)
      /\ NetOfTypes({"equity"}, from, to) = SumOf(f, E)
      /\ NetOfTypes({"income"}, from, to) = SumOf(f, X) /\ NetOfTypes({"expense"}, from, to) = SumOf(f, Y)
  BY <1>1, TypeNet, TypesAre
<1>4. /\ Accounts = ((A \cup L) \cup E) \cup (X \cup Y)
      /\ IsFiniteSet(A) /\ IsFiniteSet(L) /\ IsFiniteSet(E) /\ IsFiniteSet(X) /\ IsFiniteSet(Y)
      /\ IsFiniteSet(A \cup L) /\ IsFiniteSet((A \cup L) \cup E) /\ IsFiniteSet(X \cup Y)
  BY <1>1, TypesAre, FS_Union, FS_Singleton
<1>5. A \cap L = {} /\ (A \cup L) \cap E = {} /\ X \cap Y = {} /\ ((A \cup L) \cup E) \cap (X \cup Y) = {}
  BY <1>1, AccountsAre DEF OfType
<1>6. \A a \in ((A \cup L) \cup E) \cup (X \cup Y) : f[a] \in Int BY <1>2, <1>4
<1>7. ASSUME NEW S, NEW T, S \subseteq Accounts, T \subseteq Accounts, IsFiniteSet(S), IsFiniteSet(T), S \cap T = {}
      PROVE  SumOf(f, S \cup T) = SumOf(f, S) + SumOf(f, T) /\ SumOf(f, S) \in Int /\ SumOf(f, T) \in Int
  <2>1. \A a \in S \cup T : f[a] \in Int BY <1>2, <1>7
  <2>2. SumOf(f, S \cup T) = SumOf(f, S) + SumOf(f, T) BY ONLY <1>7, <2>1, SumUnion
  <2>3. (\A a \in S : f[a] \in Int) /\ \A a \in T : f[a] \in Int BY <2>1
  <2>4. SumOf(f, S) \in Int /\ SumOf(f, T) \in Int BY ONLY <1>7, <2>3, SumType
  <2> QED BY <2>2, <2>4
<1>8. /\ A \subseteq Accounts /\ L \subseteq Accounts /\ E \subseteq Accounts /\ X \subseteq Accounts /\ Y \subseteq Accounts
      /\ A \cup L \subseteq Accounts /\ (A \cup L) \cup E \subseteq Accounts /\ X \cup Y \subseteq Accounts
  BY <1>4
<1>9. SumOf(f, A \cup L) = SumOf(f, A) + SumOf(f, L) /\ SumOf(f, A) \in Int /\ SumOf(f, L) \in Int
  BY ONLY <1>4, <1>5, <1>7, <1>8
<1>10. SumOf(f, (A \cup L) \cup E) = SumOf(f, A \cup L) + SumOf(f, E) /\ SumOf(f, E) \in Int
  BY ONLY <1>4, <1>5, <1>7, <1>8
<1>11. SumOf(f, X \cup Y) = SumOf(f, X) + SumOf(f, Y) /\ SumOf(f, X) \in Int /\ SumOf(f, Y) \in Int
  BY ONLY <1>4, <1>5, <1>7, <1>8
<1>12. SumOf(f, Accounts) = SumOf(f, (A \cup L) \cup E) + SumOf(f, X \cup Y)
  BY ONLY <1>4, <1>5, <1>7, <1>8
<1>13. SumOf(f, X) = NetIn(entries, "sales", from, to) /\ SumOf(f, Y) = NetIn(entries, "costs", from, to)
  <2>1. "sales" \in Accounts /\ "costs" \in Accounts BY AccountsAre
  <2>2. IsFiniteSet({}) /\ SumOf(f, {}) = 0 BY FS_EmptySet, SumEmpty
  <2>3. X = {} \cup {"sales"} /\ Y = {} \cup {"costs"} /\ "sales" \notin {} /\ "costs" \notin {} BY <1>1
  <2>4. (\A a \in {} \cup {"sales"} : f[a] \in Int) /\ (\A a \in {} \cup {"costs"} : f[a] \in Int) BY <1>2, <2>1
  <2>5. SumOf(f, X) = f["sales"] + SumOf(f, {}) BY ONLY <2>2, <2>3, <2>4, SumAdd
  <2>6. SumOf(f, Y) = f["costs"] + SumOf(f, {}) BY ONLY <2>2, <2>3, <2>4, SumAdd
  <2>7. f["sales"] \in Int /\ f["costs"] \in Int BY <1>2, <2>1
  <2> QED BY <1>1, <2>1, <2>2, <2>5, <2>6, <2>7
<1> QED BY <1>2, <1>3, <1>9, <1>10, <1>11, <1>12, <1>13

\* What accounts come to before the year of a day, once the years there are closed.
LEMMA EarlierSettled ==
  ASSUME LedgerTypes, LedgerInv, exclusive, NEW d \in 0 .. LastDay, NEW a \in Result,
         {e \in {y \in YearEnds : y < YearStart(d)} \ closed :
            \E i \in Posted : YearEnd(entries[i].date) = e /\ HitsPL(entries[i])} = {}
  PROVE  NetIn(entries, a, 0, YearStart(d) - 1) = 0
<1>1. Table(entries) /\ a \in Accounts BY ResultIs DEF LedgerTypes
<1>2. ASSUME NEW e \in YearEnds, e < YearStart(d) PROVE NetIn(entries, a, YearStart(e), e) = 0
  <2>1. CASE e \in closed BY <2>1 DEF LedgerInv, Emptied
  <2>2. CASE e \notin closed
    <3>1. \A i \in PostedIn(entries) : YearEnd(entries[i].date) = e => ~HitsPL(entries[i])
      BY <1>2, <2>2 DEF Posted, PostedIn
    <3> QED BY <1>1, <3>1, YearQuiet DEF Result
  <2> QED BY <2>1, <2>2
<1> QED BY <1>1, <1>2, YearsSettle

LEMMA SheetHolds ==
  ASSUME LedgerTypes, LedgerInv PROVE SheetBalances
<1> SUFFICES ASSUME exclusive, NEW d \in 0 .. today,
                    NEW sheet, sheet = BalanceSheet(d),
                    NEW before, before = {e \in YearEnds : e < YearStart(d)},
                    NEW all, all = [a \in Accounts |-> TrialBalance(a, YearStart(d), d)],
                    NEW unclosed,
                    unclosed = {e \in before \ closed : \E i \in Posted : YearEnd(entries[i].date) = e /\ HitsPL(entries[i])}
             PROVE  /\ sheet.assets = Total({a \in Accounts : AccountType[a] = "asset"},
                                            LAMBDA a : all[a].opening + all[a].debit - all[a].credit)
                    /\ unclosed = {} => sheet.assets = sheet.liabilities + sheet.equity
                    /\ \A e \in closed \cap before : \A a \in Accounts : Results(e)[a] = 0
  BY DEF SheetBalances
<1>1. Table(entries) /\ d \in 0 .. LastDay /\ d \in Nat BY Calendar DEF LedgerTypes
<1>2. PICK m : m = YearStart(d) OBVIOUS
<1>3. m \in Nat /\ m <= d
  <2>1. m \in 0 .. d BY <1>1, <1>2, YearStartIs
  <2> QED BY <1>1, <2>1
<1>4. sheet.assets = Total({a \in Accounts : AccountType[a] = "asset"},
                           LAMBDA a : all[a].opening + all[a].debit - all[a].credit)
  <2>1. PICK S, f, g : /\ S = OfType("asset") /\ f = [a \in Accounts |-> NetIn(entries, a, 0, d)]
                       /\ g = [a \in S |-> all[a].opening + all[a].debit - all[a].credit]
    OBVIOUS
  <2>2. S \subseteq Accounts /\ IsFiniteSet(S) BY <2>1, TypesAre
  <2>3. \A a \in S : g[a] = f[a]
    <3> TAKE a \in S
    <3>1. a \in Accounts BY <2>2
    <3>2. PICK t : t = TrialBalance(a, YearStart(d), d) OBVIOUS
    <3>3. t.opening + t.debit - t.credit = NetIn(entries, a, 0, d) BY <1>1, <3>1, <3>2, TrialIs
    <3>4. all[a] = t BY <3>1, <3>2
    <3> QED BY <2>1, <3>1, <3>3, <3>4
  <2>4. SumOf(g, S) = SumOf(f, S) BY ONLY <2>2, <2>3, SumSame
  <2>5. sheet.assets = SumOf(f, S) BY <1>1, <2>1, TypeNet DEF BalanceSheet
  <2>6. S = {a \in Accounts : AccountType[a] = "asset"} BY <2>1 DEF OfType
  <2> QED BY <2>1, <2>4, <2>5, <2>6 DEF Total
<1>5. ASSUME unclosed = {} PROVE sheet.assets = sheet.liabilities + sheet.equity
  <2>1. "sales" \in Result /\ "costs" \in Result BY DEF Result
  <2>2. NetIn(entries, "sales", 0, m - 1) = 0 /\ NetIn(entries, "costs", 0, m - 1) = 0
    BY <1>1, <1>2, <1>5, <2>1, EarlierSettled
  <2>3. /\ NetIn(entries, "sales", 0, d) = NetIn(entries, "sales", 0, m - 1) + NetIn(entries, "sales", m, d)
        /\ NetIn(entries, "costs", 0, d) = NetIn(entries, "costs", 0, m - 1) + NetIn(entries, "costs", m, d)
    BY <1>1, <1>3, <2>1, ResultIs, NetSplits
  <2>4. PICK A, L, E, s, c, sm, cm :
          /\ A = NetOfTypes({"asset"}, 0, d) /\ L = NetOfTypes({"liability"}, 0, d) /\ E = NetOfTypes({"equity"}, 0, d)
          /\ s = NetIn(entries, "sales", 0, d) /\ c = NetIn(entries, "costs", 0, d)
          /\ sm = NetIn(entries, "sales", m, d) /\ cm = NetIn(entries, "costs", m, d)
    OBVIOUS
  <2>5. A \in Int /\ L \in Int /\ E \in Int /\ s \in Int /\ c \in Int /\ A + L + E + s + c = 0
    BY <1>1, <2>4, TypesAddUp
  <2>6. sm \in Int /\ cm \in Int /\ NetProfit(m, d) = -sm - cm
    BY <1>1, <2>4, TypesAddUp DEF NetProfit
  <2>7. s = sm /\ c = cm BY <2>2, <2>3, <2>4, <2>6
  <2>8. sheet.assets = A /\ sheet.liabilities = -L /\ sheet.equity = -E + (-sm - cm)
    BY <1>2, <2>4, <2>6 DEF BalanceSheet
  <2> QED BY ONLY <2>5, <2>6, <2>7, <2>8
<1>6. ASSUME NEW e \in closed \cap before, NEW a \in Accounts PROVE Results(e)[a] = 0
  <2>1. Results(e)[a] = IF AccountType[a] \in PLTypes THEN NetIn(entries, a, YearStart(e), e) ELSE 0
    BY <1>1, NetIs DEF Results
  <2>2. AccountType[a] \in PLTypes => a \in Result BY AccountsAre DEF PLTypes, Result
  <2>3. a \in Result => NetIn(entries, a, YearStart(e), e) = 0 BY <1>6 DEF LedgerInv, Emptied
  <2> QED BY <2>1, <2>2, <2>3
<1> QED BY <1>4, <1>5, <1>6

LEMMA BucketOf == \A n \in Int : BucketFor(n) \in Buckets
BY DEF BucketFor, Buckets

\* A sum over a set is the sum over the part of it where there is anything.
LEMMA SumWithin ==
  ASSUME NEW S, IsFiniteSet(S), NEW D, D \subseteq S, NEW f, \A i \in S : f[i] \in Int, \A i \in S \ D : f[i] = 0,
         NEW h, \A i \in D : h[i] = f[i]
  PROVE  SumOf(h, D) = SumOf(f, S)
<1>1. PICK N : N = S \ D OBVIOUS
<1>2. IsFiniteSet(D) /\ IsFiniteSet(N) /\ D \cap N = {} /\ S = D \cup N BY <1>1, FS_Subset
<1>3. SumOf(f, D \cup N) = SumOf(f, D) + SumOf(f, N)
  <2>1. \A i \in D \cup N : f[i] \in Int BY <1>2
  <2> QED BY ONLY <1>2, <2>1, SumUnion
<1>4. SumOf(f, N) = 0
  <2>1. \A i \in N : f[i] = 0 BY <1>1
  <2> QED BY ONLY <1>2, <2>1, SumZero
<1>5. SumOf(h, D) = SumOf(f, D)
  <2>1. \A i \in D : h[i] = f[i] OBVIOUS
  <2> QED BY ONLY <1>2, <2>1, SumSame
<1>6. SumOf(f, D) \in Int
  <2>1. \A i \in D : f[i] \in Int BY <1>2
  <2> QED BY ONLY <1>2, <2>1, SumType
<1> QED BY <1>2, <1>3, <1>4, <1>5, <1>6

LEMMA OpenItemsHold ==
  ASSUME LedgerTypes, LedgerInv PROVE OpenItemsAgree
<1>1. Table(entries) /\ Posted = PostedIn(entries) BY DEF LedgerTypes, Posted, PostedIn
<1>2. /\ IsFiniteSet(Posted) /\ Posted \subseteq DOMAIN entries
      /\ \A i \in Posted : /\ entries[i] \in EntryRows /\ entries[i].residual \in Int /\ entries[i].due \in Int
                           /\ entries[i].lines.receivable \in Int /\ entries[i].date \in 0 .. LastDay
  <2>1. IsFiniteSet(Posted) /\ Posted \subseteq DOMAIN entries BY <1>1, TableIs
  <2>2. ASSUME NEW i \in Posted
        PROVE  /\ entries[i] \in EntryRows /\ entries[i].residual \in Int /\ entries[i].due \in Int
               /\ entries[i].lines.receivable \in Int /\ entries[i].date \in 0 .. LastDay
    <3>1. entries[i] \in EntryRows /\ entries[i].lines \in [Accounts -> Int] /\ entries[i].date \in 0 .. LastDay
      BY <1>1, <2>1, TableIs
    <3>2. entries[i].lines.receivable \in Int BY <3>1, LinesTyped
    <3> QED BY <3>1, <3>2 DEF EntryRows
  <2> QED BY <2>1, <2>2
<1>3. Net("receivable", 0, LastDay) =
        PartnerBalance + Total(Payments, LAMBDA i : entries[i].residual)
          + Total(Reversals, LAMBDA i : entries[i].lines.receivable)
  <2>1. PICK S, D, P, V, f, g, rd, rp, rv, dp :
          /\ S = Posted /\ D = {i \in Posted : entries[i].type # "entry"} /\ P = Payments /\ V = Reversals
          /\ f = LinesOf(entries, "receivable") /\ g = Gaps(entries)
          /\ rd = [i \in S |-> IF i \in D THEN entries[i].residual ELSE 0]
          /\ rp = [i \in S |-> IF i \in P THEN entries[i].residual ELSE 0]
          /\ rv = [i \in S |-> IF i \in V THEN entries[i].lines.receivable ELSE 0]
          /\ dp = [i \in S |-> rd[i] + rp[i]]
    OBVIOUS
  <2>2. IsFiniteSet(S) /\ D \subseteq S /\ P \subseteq S /\ V \subseteq S BY <1>2, <2>1 DEF Payments, Reversals
  <2>3. ASSUME NEW i \in S
        PROVE  /\ f[i] \in Int /\ g[i] \in Int /\ rd[i] \in Int /\ rp[i] \in Int /\ rv[i] \in Int /\ dp[i] \in Int
               /\ dp[i] = rd[i] + rp[i] /\ dp[i] + rv[i] = g[i] + f[i]
    <3>1. PICK e, x, y : e = entries[i] /\ x = e.residual /\ y = e.lines.receivable OBVIOUS
    <3>2. x \in Int /\ y \in Int /\ i \in DOMAIN entries /\ Fit(e) BY <1>1, <1>2, <2>1, <3>1, TableIs
    <3>3. f[i] = y /\ g[i] = Gap(e) BY <2>1, <3>1, <3>2 DEF LinesOf, Gaps
    <3>4. /\ i \in D <=> e.type # "entry"
          /\ i \in P <=> e.type = "entry" /\ e.origin = 0
          /\ i \in V <=> e.type = "entry" /\ e.origin # 0
      BY <2>1, <3>1 DEF Payments, Reversals
    <3>5. /\ rd[i] = IF i \in D THEN x ELSE 0
          /\ rp[i] = IF i \in P THEN x ELSE 0
          /\ rv[i] = IF i \in V THEN y ELSE 0
          /\ dp[i] = rd[i] + rp[i]
      BY <2>1, <3>1
    <3>6. g[i] = x - (IF i \in V THEN 0 ELSE y) /\ (i \in V => x = 0) BY <3>1, <3>2, <3>3, <3>4 DEF Gap, Fit
    <3> QED BY <3>2, <3>3, <3>4, <3>5, <3>6
  <2>4. \A i \in S : f[i] \in Int /\ g[i] \in Int /\ rd[i] \in Int /\ rp[i] \in Int /\ rv[i] \in Int /\ dp[i] \in Int
    BY <2>3
  <2>5. SumOf(dp, S) = SumOf(rd, S) + SumOf(rp, S)
    <3>1. (\A i \in S : rd[i] \in Int /\ rp[i] \in Int) /\ \A i \in S : dp[i] = rd[i] + rp[i] BY <2>3
    <3> QED BY ONLY <2>2, <3>1, SumPlus
  <2>6. SumOf(dp, S) + SumOf(rv, S) = SumOf(g, S) + SumOf(f, S)
    <3>1. PICK t : t = [i \in S |-> g[i] + f[i]] OBVIOUS
    <3>2. (\A i \in S : g[i] \in Int /\ f[i] \in Int) /\ \A i \in S : t[i] = g[i] + f[i] BY <2>3, <3>1
    <3>3. (\A i \in S : dp[i] \in Int /\ rv[i] \in Int) /\ \A i \in S : t[i] = dp[i] + rv[i] BY <2>3, <3>1
    <3>4. SumOf(t, S) = SumOf(g, S) + SumOf(f, S) BY ONLY <2>2, <3>2, SumPlus
    <3>5. SumOf(t, S) = SumOf(dp, S) + SumOf(rv, S) BY ONLY <2>2, <3>3, SumPlus
    <3> QED BY <3>4, <3>5
  <2>7. SumOf(g, S) = 0 BY <1>1, <2>1 DEF LedgerInv, AllGaps
  <2>8. PartnerBalance = SumOf(rd, S)
    <3>1. PICK h : h = [i \in D |-> entries[i].residual] OBVIOUS
    <3>2. (\A i \in D : h[i] = rd[i]) /\ \A i \in S \ D : rd[i] = 0 BY <2>1, <2>2, <3>1
    <3>3. SumOf(h, D) = SumOf(rd, S) BY ONLY <2>2, <2>4, <3>2, SumWithin
    <3> QED BY <2>1, <3>1, <3>3 DEF PartnerBalance, Total
  <2>9. Total(Payments, LAMBDA i : entries[i].residual) = SumOf(rp, S)
    <3>1. PICK h : h = [i \in P |-> entries[i].residual] OBVIOUS
    <3>2. (\A i \in P : h[i] = rp[i]) /\ \A i \in S \ P : rp[i] = 0 BY <2>1, <2>2, <3>1
    <3>3. SumOf(h, P) = SumOf(rp, S) BY ONLY <2>2, <2>4, <3>2, SumWithin
    <3> QED BY <2>1, <3>1, <3>3 DEF Total
  <2>10. Total(Reversals, LAMBDA i : entries[i].lines.receivable) = SumOf(rv, S)
    <3>1. PICK h : h = [i \in V |-> entries[i].lines.receivable] OBVIOUS
    <3>2. (\A i \in V : h[i] = rv[i]) /\ \A i \in S \ V : rv[i] = 0 BY <2>1, <2>2, <3>1
    <3>3. SumOf(h, V) = SumOf(rv, S) BY ONLY <2>2, <2>4, <3>2, SumWithin
    <3> QED BY <2>1, <3>1, <3>3 DEF Total
  <2>11. SumOf(f, S) \in Int /\ SumOf(rd, S) \in Int /\ SumOf(rp, S) \in Int /\ SumOf(rv, S) \in Int
    <3>1. \A h : (\A i \in S : h[i] \in Int) => SumOf(h, S) \in Int BY ONLY <2>2, SumType
    <3> QED BY ONLY <2>4, <3>1
  <2>12. Net("receivable", 0, LastDay) = SumOf(f, S)
    <3>1. Within(entries, 0, LastDay) = S BY <1>1, <1>2, <2>1 DEF Within
    <3> QED BY <1>1, <2>1, <3>1, NetIs DEF NetIn
  <2> QED BY <2>5, <2>6, <2>7, <2>8, <2>9, <2>10, <2>11, <2>12
<1>4. ASSUME NEW d \in 0 .. today, \A i \in Open(d) : entries[i].residual > 0
      PROVE  Total(Buckets, LAMBDA b : Aged(b, d)) = Total(Open(d), LAMBDA i : entries[i].residual)
  <2>1. PICK S, f, lab, g :
          /\ S = Open(d) /\ f = [i \in S |-> entries[i].residual]
          /\ lab = [i \in S |-> BucketFor(d - entries[i].due)]
          /\ g = [b \in Buckets |-> Aged(b, d)]
    OBVIOUS
  <2>2. S \subseteq Posted /\ IsFiniteSet(S)
    <3>1. S \subseteq Posted BY <2>1 DEF Open
    <3> QED BY <1>2, <3>1, FS_Subset
  <2>3. \A i \in S : f[i] \in Int /\ f[i] = entries[i].residual /\ f[i] > 0 BY <1>2, <1>4, <2>1, <2>2
  <2>4. \A i \in S : lab[i] \in Buckets
    <3> TAKE i \in S
    <3>1. entries[i].due \in Int /\ d \in Int BY <1>2, <2>2 DEF LedgerTypes
    <3>2. PICK n \in Int : n = d - entries[i].due BY <3>1
    <3> QED BY <2>1, <3>2, BucketOf
  <2>5. IsFiniteSet(Buckets)
    <3>1. IsFiniteSet({}) BY FS_EmptySet
    <3>2. Buckets = (((({} \cup {"current"}) \cup {"b_0_30"}) \cup {"b_31_60"}) \cup {"b_61_90"}) \cup {"b_90_plus"}
      BY DEF Buckets
    <3> QED BY <3>1, <3>2, FS_AddElement
  <2>6. \A b \in Buckets : g[b] = SumOf(f, PartOf(S, lab, b))
    <3> TAKE b \in Buckets
    <3>1. PICK P, h : /\ P = {i \in Open(d) : BucketFor(d - entries[i].due) = b}
                      /\ h = [i \in P |-> Magnitude(entries[i].residual)]
      OBVIOUS
    <3>2. P = PartOf(S, lab, b) /\ P \subseteq S BY <2>1, <3>1 DEF PartOf
    <3>3. IsFiniteSet(P) BY <2>2, <3>2, FS_Subset
    <3>4. \A i \in P : h[i] = f[i] BY <2>3, <3>1, <3>2 DEF Magnitude
    <3>5. SumOf(h, P) = SumOf(f, P) BY ONLY <3>3, <3>4, SumSame
    <3>6. Aged(b, d) = SumOf(h, P) BY <3>1 DEF Aged, Total
    <3> QED BY <2>1, <3>2, <3>5, <3>6
  <2>7. SumOf(g, Buckets) = SumOf(f, S)
    <3>1. \A i \in S : f[i] \in Int BY <2>3
    <3> QED BY ONLY <2>2, <2>4, <2>5, <2>6, <3>1, SumParts
  <2> QED BY <2>1, <2>7 DEF Total
<1> QED BY <1>3, <1>4 DEF OpenItemsAgree

\* For any sizes, taxes, fiscal years and number of users: whatever is invoiced, paid, reversed,
\* left as a draft, posted or closed, and as long as calls do not overlap, a closed year has
\* no result left, the assets of the balance sheet are those of the trial balance, and the
\* sheet balances once every earlier year with a result is closed.
THEOREM SheetBalancesHolds ==
  ASSUME TaxesWhole PROVE LedgerSpec => []SheetBalances
<1>1. LedgerInit /\ WorkdayInit => LedgerTypes /\ LedgerInv BY LedgerStarts
<1>2. LedgerTypes /\ LedgerInv /\ [LedgerNext]_<<ledgerVars, workdayVars>> => LedgerTypes' /\ LedgerInv'
  BY LedgerStep
<1>3. LedgerTypes /\ LedgerInv => SheetBalances BY SheetHolds
<1> QED BY <1>1, <1>2, <1>3, PTL DEF LedgerSpec

\* Whether reversals, debit notes and closings overlap or not, and wherever they end: the
\* receivable account is what is left of the documents and of the payments, matched or not,
\* but for what reversals of payments booked; and the buckets of the aged report come to
\* all that is open, unless a payment or a credit note is.
THEOREM OpenItemsAgreeHolds ==
  ASSUME TaxesWhole PROVE LedgerSpec => []OpenItemsAgree
<1>1. LedgerInit /\ WorkdayInit => LedgerTypes /\ LedgerInv BY LedgerStarts
<1>2. LedgerTypes /\ LedgerInv /\ [LedgerNext]_<<ledgerVars, workdayVars>> => LedgerTypes' /\ LedgerInv'
  BY LedgerStep
<1>3. LedgerTypes /\ LedgerInv => OpenItemsAgree BY OpenItemsHold
<1> QED BY <1>1, <1>2, <1>3, PTL DEF LedgerSpec
-----------------------------------------------------------------------------
(* Foreign currency. The rows, and what they come to.                      *)
ItemRows == [account : {"receivable", "payable"}, cur : Int, balance : Int, residual : Int]
MatchRows == [debit : Nat, credit : Nat, amount : Int, debitCur : Int, creditCur : Int]
Revaluations == [item : Nat, date : Nat, reversal : {"none", "draft", "posted"}, amount : Int, undone : Int]

DebitShares(M, i) == SumOf([m \in DOMAIN M |-> M[m].debitCur], {m \in DOMAIN M : M[m].debit = i})
CreditShares(M, i) == SumOf([m \in DOMAIN M |-> M[m].creditCur], {m \in DOMAIN M : M[m].credit = i})
Shares(M, i) == DebitShares(M, i) - CreditShares(M, i)
\* What adjustments were posted of an item after the first ones.
AmountsIn(R) == [k \in DOMAIN R |-> R[k].amount]
RowsSince(R, i, from) == {k \in DOMAIN R : k > from /\ R[k].item = i}
Since(R, i, from) == SumOf(AmountsIn(R), RowsSince(R, i, from))
\* Items that an exchange result, or a match of nothing, has closed.
ClosedBy(M) == {i \in Nat : \E m \in DOMAIN M : M[m].debitCur = 0 /\ M[m].creditCur = 0 /\ i \in {M[m].debit, M[m].credit}}

\* What a call has in hand.
CallTyped(k) ==
  /\ k.op = "match" => /\ k.row \in MatchRows /\ k.row.debit \in DOMAIN items /\ k.row.credit \in DOMAIN items
                       /\ k.row.debit # k.row.credit
  /\ k.op = "result" => k.item \in DOMAIN items
  /\ k.op = "settle" => k.item \in DOMAIN items /\ k.with \in DOMAIN items
  /\ k.op \in {"revalue", "undo"} => k.from \in 0 .. Len(revaluations) /\ k.todo \subseteq DOMAIN items
                                    /\ k = [op |-> k.op, from |-> k.from, todo |-> k.todo]
  /\ k.op = "undo" => /\ k.from < Len(revaluations) /\ revaluations[Len(revaluations)].reversal = "none"
Occupied(u) == accounting[u] # Idle
CurrencyTypes ==
  /\ today \in 0 .. LastDay /\ rateTable \in [0 .. LastDay -> Nat] /\ \A d \in 0 .. LastDay : d > today => rateTable[d] = 0
  /\ items \in Seq(ItemRows) /\ matches \in Seq(MatchRows) /\ revaluations \in Seq(Revaluations)
  /\ \A m \in DOMAIN matches : matches[m].debit \in DOMAIN items /\ matches[m].credit \in DOMAIN items
  /\ \A k \in DOMAIN revaluations : revaluations[k].item \in DOMAIN items
  /\ shown \in Int /\ DOMAIN accounting = Clerks
  /\ \A u \in Clerks : CallTyped(accounting[u])
  /\ \A u, v \in Clerks : Occupied(u) /\ Occupied(v) => u = v
-----------------------------------------------------------------------------
\* What is left of a row, at the rate it was booked.
BookedRow(r, s) ==
  \/ r.cur = 0 /\ s = 0
  \/ r.cur # 0 /\ \E q \in Nat \ {0} :
       /\ r.balance = q * r.cur /\ r.residual = q * (r.cur - s)
       /\ r.cur > 0 => r.cur - s \in 0 .. r.cur
       /\ r.cur < 0 => r.cur - s \in r.cur .. 0
Proposed(row, d, c) ==
  /\ row.debit = d /\ row.credit = c /\ d # c
  /\ row.amount \in 0 .. items[d].residual /\ row.amount <= -items[c].residual
  /\ row.debitCur >= 0 /\ row.creditCur >= 0
  /\ items[d].cur > 0 /\ items[c].cur < 0 /\ items[d].residual > 0 /\ items[c].residual < 0
Proposes(k) == k.op = "match" => Proposed(k.row, k.row.debit, k.row.credit)
LeftInv ==
  /\ \A i \in DOMAIN items \ ClosedBy(matches) : BookedRow(items[i], Shares(matches, i))
  /\ \A u \in Clerks : Proposes(accounting[u])
\* The shares of a match come out whole.
SharesWhole ==
  \A u \in Clerks : accounting[u].op = "match" =>
    LET row == accounting[u].row
    IN /\ row.debitCur * Size(items[row.debit].residual) = row.amount * Size(Remaining(row.debit))
       /\ row.creditCur * Size(items[row.credit].residual) = row.amount * Size(Remaining(row.credit))
-----------------------------------------------------------------------------
\* What has been revalued since `from', but for what is still to do.
Valued(from, todo) ==
  /\ from \in 0 .. Len(revaluations)
  /\ \A k \in DOMAIN revaluations : k > from => revaluations[k].reversal # "posted" /\ revaluations[k].item \notin todo
  /\ \A i \in DOMAIN items \ todo : items[i].cur > 0 /\ items[i].residual > 0 =>
       Since(revaluations, i, from) = items[i].cur * RateOn(today) - items[i].residual
HasRate == items # <<>> => RateOn(today) # 0
\* What a posted reversal takes back is what was adjusted.
UndoneInv == \A k \in DOMAIN revaluations :
  revaluations[k].undone = IF revaluations[k].reversal = "none" THEN 0 ELSE -revaluations[k].amount
WholeInv == matches = <<>> =>
  \A i \in DOMAIN items : items[i].residual = items[i].balance /\ (items[i].residual > 0 => items[i].cur > 0)
CallShown(k) == /\ k.op \in {"result", "settle"} => matches # <<>>
                /\ k.op \in {"result", "settle", "revalue", "undo"} => shown = -1
                /\ k.op \in {"revalue", "undo"} => Valued(k.from, k.todo)
ShownInv ==
  /\ HasRate /\ UndoneInv /\ WholeInv
  /\ \A u \in Clerks : CallShown(accounting[u])
  /\ shown >= 0 => Valued(shown, {})
-----------------------------------------------------------------------------
LEMMA SharesTyped ==
  ASSUME NEW M \in Seq(MatchRows), NEW i
  PROVE  DebitShares(M, i) \in Int /\ CreditShares(M, i) \in Int /\ Shares(M, i) \in Int
<1>1. PICK n \in Nat : n = Len(M) OBVIOUS
<1>2. DOMAIN M = 1..n BY <1>1
<1>3. PICK f, g : f = [m \in DOMAIN M |-> M[m].debitCur] /\ g = [m \in DOMAIN M |-> M[m].creditCur] OBVIOUS
<1>4. PICK S, T : S = {m \in DOMAIN M : M[m].debit = i} /\ T = {m \in DOMAIN M : M[m].credit = i} OBVIOUS
<1>12. \A m \in 1..n : M[m] \in MatchRows BY <1>1, <1>2
<1>5. \A m \in 1..n : f[m] \in Int /\ g[m] \in Int
  <2>1. \A m \in 1..n : M[m].debitCur \in Int /\ M[m].creditCur \in Int BY <1>12 DEF MatchRows
  <2> QED BY <1>2, <1>3, <2>1
<1>6. IsFiniteSet(S) /\ IsFiniteSet(T) /\ S \subseteq 1..n /\ T \subseteq 1..n
  <2>1. IsFiniteSet(1..n) /\ S \in SUBSET (1..n) /\ T \in SUBSET (1..n) BY <1>2, <1>4, FS_Interval
  <2> QED BY <2>1, FS_Subset
<1>7. \A m \in S : f[m] \in Int BY <1>5, <1>6
<1>8. \A m \in T : g[m] \in Int BY <1>5, <1>6
<1>9. SumOf(f, S) \in Int BY ONLY <1>6, <1>7, SumType
<1>10. SumOf(g, T) \in Int BY ONLY <1>6, <1>8, SumType
<1>11. DebitShares(M, i) = SumOf(f, S) /\ CreditShares(M, i) = SumOf(g, T)
  BY <1>3, <1>4 DEF DebitShares, CreditShares
<1> QED BY <1>9, <1>10, <1>11 DEF Shares

\* One more match.
LEMMA SharesGrow ==
  ASSUME NEW M \in Seq(MatchRows), NEW r \in MatchRows, NEW i
  PROVE  /\ DebitShares(Append(M, r), i) = DebitShares(M, i) + (IF r.debit = i THEN r.debitCur ELSE 0)
         /\ CreditShares(Append(M, r), i) = CreditShares(M, i) + (IF r.credit = i THEN r.creditCur ELSE 0)
<1>1. PICK n \in Nat : n = Len(M) OBVIOUS
<1>0. PICK Q : Q = Append(M, r) OBVIOUS
<1>2. DOMAIN M = 1..n /\ DOMAIN Q = (1..n) \cup {n + 1} /\ Q[n + 1] = r /\ \A m \in 1..n : Q[m] = M[m] BY <1>0, <1>1
<1>17. \A m \in 1..n : M[m] \in MatchRows BY <1>1, <1>2
<1>18. /\ \A m \in 1..n : M[m].debitCur \in Int /\ M[m].creditCur \in Int
       /\ r.debitCur \in Int /\ r.creditCur \in Int
  BY <1>17 DEF MatchRows
<1>3. PICK f, h : f = [m \in DOMAIN M |-> M[m].debitCur] /\ h = [m \in DOMAIN Q |-> Q[m].debitCur] OBVIOUS
<1>4. PICK g, k : g = [m \in DOMAIN M |-> M[m].creditCur] /\ k = [m \in DOMAIN Q |-> Q[m].creditCur] OBVIOUS
<1>5. PICK S, T : S = {m \in DOMAIN M : M[m].debit = i} /\ T = {m \in DOMAIN M : M[m].credit = i} OBVIOUS
<1>6. S \subseteq 1..n /\ T \subseteq 1..n BY <1>2, <1>5
<1>7. (\A m \in 1..n : f[m] \in Int /\ h[m] = f[m]) /\ h[n + 1] = r.debitCur /\ h[n + 1] \in Int
  BY <1>2, <1>3, <1>18
<1>8. (\A m \in 1..n : g[m] \in Int /\ k[m] = g[m]) /\ k[n + 1] = r.creditCur /\ k[n + 1] \in Int
  BY <1>2, <1>4, <1>18
<1>20. IsFiniteSet(S) /\ IsFiniteSet(T)
  <2>1. IsFiniteSet(1..n) /\ S \in SUBSET (1..n) /\ T \in SUBSET (1..n) BY <1>6, FS_Interval
  <2> QED BY <2>1, FS_Subset
<1>19. SumOf(f, S) \in Int /\ SumOf(h, S) = SumOf(f, S) /\ SumOf(h, S \cup {n + 1}) = SumOf(f, S) + h[n + 1]
  <2>1. \A m \in S : f[m] \in Int /\ h[m] = f[m] BY <1>6, <1>7
  <2>2. n + 1 \notin S /\ \A m \in S \cup {n + 1} : h[m] \in Int BY <1>6, <1>7
  <2>3. SumOf(f, S) \in Int BY ONLY <1>20, <2>1, SumType
  <2>4. SumOf(h, S) = SumOf(f, S) BY ONLY <1>20, <2>1, SumSame
  <2>5. SumOf(h, S \cup {n + 1}) = h[n + 1] + SumOf(h, S) BY ONLY <1>20, <2>2, SumAdd
  <2> QED BY <2>3, <2>4, <2>5, <1>7
<1>9. SumOf(g, T) \in Int /\ SumOf(k, T) = SumOf(g, T) /\ SumOf(k, T \cup {n + 1}) = SumOf(g, T) + k[n + 1]
  <2>1. \A m \in T : g[m] \in Int /\ k[m] = g[m] BY <1>6, <1>8
  <2>2. n + 1 \notin T /\ \A m \in T \cup {n + 1} : k[m] \in Int BY <1>6, <1>8
  <2>3. SumOf(g, T) \in Int BY ONLY <1>20, <2>1, SumType
  <2>4. SumOf(k, T) = SumOf(g, T) BY ONLY <1>20, <2>1, SumSame
  <2>5. SumOf(k, T \cup {n + 1}) = k[n + 1] + SumOf(k, T) BY ONLY <1>20, <2>2, SumAdd
  <2> QED BY <2>3, <2>4, <2>5, <1>8
<1>10. DebitShares(M, i) = SumOf(f, S) /\ CreditShares(M, i) = SumOf(g, T)
  BY <1>3, <1>4, <1>5 DEF DebitShares, CreditShares
<1>11. {m \in DOMAIN Q : Q[m].debit = i} = (IF r.debit = i THEN S \cup {n + 1} ELSE S) BY <1>2, <1>5
<1>12. {m \in DOMAIN Q : Q[m].credit = i} = (IF r.credit = i THEN T \cup {n + 1} ELSE T) BY <1>2, <1>5
<1>13. DebitShares(Q, i) = SumOf(h, IF r.debit = i THEN S \cup {n + 1} ELSE S) BY <1>3, <1>11 DEF DebitShares
<1>14. CreditShares(Q, i) = SumOf(k, IF r.credit = i THEN T \cup {n + 1} ELSE T) BY <1>4, <1>12 DEF CreditShares
<1>15. DebitShares(Q, i) = DebitShares(M, i) + (IF r.debit = i THEN r.debitCur ELSE 0) BY <1>7, <1>19, <1>10, <1>13
<1>16. CreditShares(Q, i) = CreditShares(M, i) + (IF r.credit = i THEN r.creditCur ELSE 0) BY <1>8, <1>9, <1>10, <1>14
<1> QED BY <1>0, <1>15, <1>16

LEMMA SharesNone ==
  ASSUME NEW M, NEW i, \A m \in DOMAIN M : M[m].debit # i /\ M[m].credit # i
  PROVE  Shares(M, i) = 0
<1>1. {m \in DOMAIN M : M[m].debit = i} = {} /\ {m \in DOMAIN M : M[m].credit = i} = {} OBVIOUS
<1>2. DebitShares(M, i) = 0 /\ CreditShares(M, i) = 0 BY <1>1, SumEmpty DEF DebitShares, CreditShares
<1> QED BY <1>2 DEF Shares

\* What the model takes from a line is this.
LEMMA SharesAre ==
  ASSUME matches \in Seq(MatchRows)
  PROVE  \A i : SharesOf(i) = Shares(matches, i)
<1>1. TAKE i
<1>2. PICK S, T : /\ S = {m \in DOMAIN matches : matches[m].debit = i}
                  /\ T = {m \in DOMAIN matches : matches[m].credit = i}
  OBVIOUS
<1>3. IsFiniteSet(S) /\ IsFiniteSet(T)
  <2>1. DOMAIN matches = 1..Len(matches) /\ Len(matches) \in Nat OBVIOUS
  <2>2. IsFiniteSet(1..Len(matches)) /\ S \in SUBSET (1..Len(matches)) /\ T \in SUBSET (1..Len(matches))
    BY <1>2, <2>1, FS_Interval
  <2> QED BY <2>2, FS_Subset
<1>4. PICK f, g : f = [m \in S |-> matches[m].debitCur] /\ g = [m \in T |-> matches[m].creditCur] OBVIOUS
<1>5. PICK h, k : /\ h = [m \in DOMAIN matches |-> matches[m].debitCur]
                  /\ k = [m \in DOMAIN matches |-> matches[m].creditCur]
  OBVIOUS
<1>6. \A m \in S : f[m] = h[m] BY <1>2, <1>4, <1>5
<1>7. \A m \in T : g[m] = k[m] BY <1>2, <1>4, <1>5
<1>8. SumOf(f, S) = SumOf(h, S) BY ONLY <1>3, <1>6, SumSame
<1>9. SumOf(g, T) = SumOf(k, T) BY ONLY <1>3, <1>7, SumSame
<1>10. SharesOf(i) = SumOf(f, S) - SumOf(g, T) BY <1>2, <1>4 DEF SharesOf, Summed
<1>11. Shares(matches, i) = SumOf(h, S) - SumOf(k, T) BY <1>2, <1>5 DEF Shares, DebitShares, CreditShares
<1> QED BY <1>8, <1>9, <1>10, <1>11
-----------------------------------------------------------------------------
(* One call is under way at a time.                                        *)
CallTurned(u, c) == DOMAIN accounting' = Clerks /\ accounting'[u] = c /\ \A v \in Clerks \ {u} : accounting'[v] = Idle
LEMMA CallTurns ==
  ASSUME CurrencyTypes, NEW u \in Clerks, NEW c, Accounting(u, c), AtRest \/ Occupied(u)
  PROVE  CallTurned(u, c) /\ \A v \in Clerks \ {u} : accounting[v] = Idle
<1>1. DOMAIN accounting = Clerks /\ \A v \in Clerks \ {u} : accounting[v] = Idle
  BY DEF CurrencyTypes, Occupied, AtRest
<1>2. DOMAIN accounting' = Clerks /\ accounting'[u] = c /\ \A v \in Clerks \ {u} : accounting'[v] = accounting[v]
  BY <1>1 DEF Accounting
<1> QED BY <1>1, <1>2 DEF CallTurned

LEMMA UnderWay ==
  ASSUME NEW u \in Clerks, accounting[u].op # "idle" PROVE Occupied(u)
BY DEF Occupied, Idle

LEMMA TurnedTypes ==
  ASSUME NEW u \in Clerks, NEW c, CallTurned(u, c), CallTyped(c)'
  PROVE  /\ DOMAIN accounting' = Clerks
         /\ \A v \in Clerks : CallTyped(accounting[v])'
         /\ \A v, w \in Clerks : Occupied(v)' /\ Occupied(w)' => v = w
<1>1. CallTyped(Idle)' BY DEF CallTyped, Idle
<1>2. \A v \in Clerks : accounting'[v] = IF v = u THEN c ELSE Idle BY DEF CallTurned
<1>3. \A v \in Clerks : CallTyped(accounting[v])'
  <2>1. TAKE v \in Clerks
  <2>2. CASE v = u BY <1>2, <2>2
  <2>3. CASE v # u BY <1>1, <1>2, <2>3
  <2> QED BY <2>2, <2>3
<1>4. \A v \in Clerks : Occupied(v)' => v = u BY <1>2 DEF Occupied
<1> QED BY <1>3, <1>4 DEF CallTurned
-----------------------------------------------------------------------------
(* The rate, and arithmetic.                                               *)
RateIn(T, d) == LET known == {e \in 0 .. d : T[e] # 0} IN IF known = {} THEN 0 ELSE T[Max(known)]
LEMMA RateInIs ==
  ASSUME NEW T \in [0 .. LastDay -> Nat], NEW d \in 0 .. LastDay
  PROVE  RateIn(T, d) \in Nat /\ (RateIn(T, d) # 0 <=> \E e \in 0 .. d : T[e] # 0)
<1>1. PICK K : K = {e \in 0 .. d : T[e] # 0} OBVIOUS
<1>2. RateIn(T, d) = IF K = {} THEN 0 ELSE T[Max(K)] BY <1>1 DEF RateIn
<1>3. CASE K = {} BY <1>1, <1>2, <1>3
<1>4. CASE K # {}
  <2>1. K \subseteq 0 .. d /\ d \in Nat BY <1>1, LastDayAssumption
  <2>2. \E x \in K : \A y \in K : y <= x BY ONLY <1>4, <2>1, Extremes
  <2>3. \E x \in K : \A y \in K : x >= y BY <2>1, <2>2
  <2>4. Max(K) \in K BY <2>3 DEF Max
  <2>5. T[Max(K)] # 0 /\ Max(K) \in 0 .. LastDay BY <1>1, <2>4, LastDayAssumption
  <2>6. T[Max(K)] \in Nat BY <2>5
  <2>7. \E e \in 0 .. d : T[e] # 0 BY <1>1, <2>4
  <2> QED BY <1>2, <1>4, <2>5, <2>6, <2>7
<1> QED BY <1>3, <1>4

LEMMA RateIs ==
  ASSUME CurrencyTypes, NEW d \in 0 .. LastDay
  PROVE  RateOn(d) \in Nat /\ (RateOn(d) # 0 <=> \E e \in 0 .. d : rateTable[e] # 0)
<1>1. PICK T : T = rateTable OBVIOUS
<1>2. T \in [0 .. LastDay -> Nat] BY <1>1 DEF CurrencyTypes
<1>3. RateOn(d) = RateIn(T, d) BY <1>1 DEF RateOn, RateIn
<1> QED BY <1>1, <1>2, <1>3, RateInIs

LEMMA RateStays ==
  ASSUME CurrencyTypes, UNCHANGED rateTable, UNCHANGED workdayVars \/ NextDay
  PROVE  RateOn(today)' = RateOn(today)
<1>1. CASE UNCHANGED workdayVars BY <1>1 DEF RateOn, workdayVars
<1>2. CASE NextDay
  <2>1. today \in 0 .. LastDay /\ today < LastDay /\ today' = today + 1 BY <1>2 DEF NextDay, CurrencyTypes
  <2>2. rateTable[today + 1] = 0 BY <2>1, LastDayAssumption DEF CurrencyTypes
  <2>3. {e \in 0 .. today' : rateTable[e] # 0} = {e \in 0 .. today : rateTable[e] # 0}
    BY <2>1, <2>2, LastDayAssumption
  <2> QED BY <2>3 DEF RateOn
<1> QED BY <1>1, <1>2

LEMMA MinOf ==
  ASSUME NEW a \in Int, NEW b \in Int, NEW c \in Int
  PROVE  /\ Min({a, b}) \in {a, b} /\ Min({a, b}) <= a /\ Min({a, b}) <= b
         /\ Min({a, b, c}) \in {a, b, c} /\ Min({a, b, c}) <= a /\ Min({a, b, c}) <= b /\ Min({a, b, c}) <= c
<1>1. \E x \in {a, b} : \A y \in {a, b} : x <= y OBVIOUS
<1>2. \E x \in {a, b, c} : \A y \in {a, b, c} : x <= y OBVIOUS
<1>3. Min({a, b}) \in {a, b} /\ \A y \in {a, b} : Min({a, b}) <= y BY <1>1 DEF Min
<1>4. Min({a, b, c}) \in {a, b, c} /\ \A y \in {a, b, c} : Min({a, b, c}) <= y BY <1>2 DEF Min
<1> QED BY <1>3, <1>4

LEMMA SizeIs == \A n \in Int : Size(n) \in Nat /\ (Size(n) = n \/ Size(n) = -n) /\ (n >= 0 => Size(n) = n) /\ (n <= 0 => Size(n) = -n)
BY DEF Size
LEMMA Quotient ==
  ASSUME NEW a \in Nat, NEW b \in Nat, NEW c \in Nat \ {0}
  PROVE  (a * b) \div c \in Nat
<1>1. PICK m : m = a * b OBVIOUS
<1>2. m \in Nat BY <1>1
<1>3. m \div c \in Nat BY ONLY <1>2, c \in Nat \ {0}
<1> QED BY <1>1, <1>3
-----------------------------------------------------------------------------
(* What a step does to the rows.                                           *)
\* One more line.
LEMMA ItemAdded ==
  ASSUME CurrencyTypes, NEW r \in ItemRows, items' = Append(items, r)
  PROVE  /\ items' \in Seq(ItemRows) /\ DOMAIN items \subseteq DOMAIN items'
         /\ Len(items) + 1 \in DOMAIN items' /\ Len(items) + 1 \notin DOMAIN items
         /\ items'[Len(items) + 1] = r /\ \A i \in DOMAIN items : items'[i] = items[i]
         /\ DOMAIN items' = DOMAIN items \cup {Len(items) + 1}
<1>1. items \in Seq(ItemRows) BY DEF CurrencyTypes
<1> QED BY <1>1

\* Two lines have this left.
Leaves(a, x, b, y) == items' = [items EXCEPT ![a].residual = x, ![b].residual = y]
LEMMA ItemsLeft ==
  ASSUME CurrencyTypes, NEW a \in DOMAIN items, NEW b \in DOMAIN items, NEW x \in Int, NEW y \in Int, Leaves(a, x, b, y)
  PROVE  /\ items' \in Seq(ItemRows) /\ DOMAIN items' = DOMAIN items
         /\ \A i \in DOMAIN items : /\ items'[i].cur = items[i].cur /\ items'[i].balance = items[i].balance
                                    /\ items'[i].account = items[i].account
                                    /\ items'[i].residual = IF i = b THEN y ELSE IF i = a THEN x ELSE items[i].residual
<1>1. items \in Seq(ItemRows) BY DEF CurrencyTypes
<1>2. \A i \in DOMAIN items : items[i] \in ItemRows BY <1>1
<1>3. PICK r : r = [items[a] EXCEPT !.residual = x] OBVIOUS
<1>4. r \in ItemRows /\ r.cur = items[a].cur /\ r.balance = items[a].balance /\ r.account = items[a].account /\ r.residual = x
  BY <1>2, <1>3 DEF ItemRows
<1>5. PICK t : t = [items EXCEPT ![a] = r] OBVIOUS
<1>6. t \in Seq(ItemRows) /\ DOMAIN t = DOMAIN items /\ t[a] = r /\ \A i \in DOMAIN items : i # a => t[i] = items[i]
  BY <1>1, <1>4, <1>5
<1>7. PICK s : s = [t[b] EXCEPT !.residual = y] OBVIOUS
<1>8. s \in ItemRows /\ s.cur = t[b].cur /\ s.balance = t[b].balance /\ s.account = t[b].account /\ s.residual = y
  <2>1. t[b] \in ItemRows BY <1>6
  <2> QED BY <1>7, <2>1 DEF ItemRows
<1>9. items' = [t EXCEPT ![b] = s] BY <1>3, <1>5, <1>7 DEF Leaves
<1>10. items' \in Seq(ItemRows) /\ DOMAIN items' = DOMAIN items /\ items'[b] = s /\ \A i \in DOMAIN items : i # b => items'[i] = t[i]
  BY <1>6, <1>8, <1>9
<1> QED BY <1>4, <1>6, <1>8, <1>10

LEMMA BothCleared ==
  ASSUME CurrencyTypes, NEW a \in DOMAIN items, NEW b \in DOMAIN items, Leaves(a, 0, b, 0)
  PROVE  /\ items' \in Seq(ItemRows) /\ DOMAIN items' = DOMAIN items
         /\ \A i \in DOMAIN items : /\ items'[i].cur = items[i].cur /\ items'[i].balance = items[i].balance
                                    /\ items'[i].residual = IF i \in {a, b} THEN 0 ELSE items[i].residual
<1>1. PICK x \in Int, y \in Int : x = 0 /\ y = 0 OBVIOUS
<1>2. Leaves(a, x, b, y) BY <1>1
<1>3. /\ items' \in Seq(ItemRows) /\ DOMAIN items' = DOMAIN items
      /\ \A i \in DOMAIN items : /\ items'[i].cur = items[i].cur /\ items'[i].balance = items[i].balance
                                 /\ items'[i].account = items[i].account
                                 /\ items'[i].residual = IF i = b THEN y ELSE IF i = a THEN x ELSE items[i].residual
  BY <1>2, ItemsLeft
<1> QED BY <1>1, <1>3

\* One more adjustment, and one that is reversed.
LEMMA Adjusted ==
  ASSUME CurrencyTypes, NEW r \in Revaluations, revaluations' = Append(revaluations, r)
  PROVE  /\ revaluations' \in Seq(Revaluations) /\ Len(revaluations') = Len(revaluations) + 1 /\ Len(revaluations) \in Nat
         /\ DOMAIN revaluations' = DOMAIN revaluations \cup {Len(revaluations) + 1}
         /\ revaluations'[Len(revaluations) + 1] = r /\ \A k \in DOMAIN revaluations : revaluations'[k] = revaluations[k]
<1>1. revaluations \in Seq(Revaluations) BY DEF CurrencyTypes
<1> QED BY <1>1

Reverses(k, s, n) ==
  /\ revaluations' \in Seq(Revaluations) /\ Len(revaluations') = Len(revaluations) /\ DOMAIN revaluations' = DOMAIN revaluations
  /\ \A j \in DOMAIN revaluations : /\ revaluations'[j].item = revaluations[j].item
                                    /\ revaluations'[j].amount = revaluations[j].amount
                                    /\ j # k => revaluations'[j] = revaluations[j]
  /\ revaluations'[k].reversal = s /\ revaluations'[k].undone = n
LEMMA Drafted ==
  ASSUME CurrencyTypes, NEW k \in DOMAIN revaluations, NEW n \in Int,
         revaluations' = [revaluations EXCEPT ![k].reversal = "draft", ![k].undone = n]
  PROVE  Reverses(k, "draft", n)
<1>1. revaluations \in Seq(Revaluations) BY DEF CurrencyTypes
<1>2. revaluations[k] \in Revaluations BY <1>1
<1>3. PICK r : r = [revaluations[k] EXCEPT !.reversal = "draft"] OBVIOUS
<1>4. /\ r \in Revaluations /\ r.item = revaluations[k].item /\ r.amount = revaluations[k].amount
      /\ r.reversal = "draft" /\ r.date = revaluations[k].date
  BY <1>2, <1>3 DEF Revaluations
<1>5. PICK t : t = [revaluations EXCEPT ![k] = r] OBVIOUS
<1>6. /\ t \in Seq(Revaluations) /\ DOMAIN t = DOMAIN revaluations /\ t[k] = r
      /\ \A i \in DOMAIN revaluations : i # k => t[i] = revaluations[i]
  BY <1>1, <1>4, <1>5
<1>7. PICK s : s = [t[k] EXCEPT !.undone = n] OBVIOUS
<1>8. /\ s \in Revaluations /\ s.item = revaluations[k].item /\ s.amount = revaluations[k].amount
      /\ s.reversal = "draft" /\ s.undone = n
  BY <1>4, <1>6, <1>7 DEF Revaluations
<1>9. revaluations' = [t EXCEPT ![k] = s] BY <1>3, <1>5, <1>7
<1>10. /\ revaluations' \in Seq(Revaluations) /\ DOMAIN revaluations' = DOMAIN revaluations /\ revaluations'[k] = s
       /\ \A i \in DOMAIN revaluations : i # k => revaluations'[i] = revaluations[i]
  <2>1. PICK P : P = revaluations' OBVIOUS
  <2>2. s \in Revaluations /\ k \in DOMAIN t /\ P = [t EXCEPT ![k] = s] BY <1>6, <1>8, <1>9, <2>1
  <2>3. P \in Seq(Revaluations) /\ DOMAIN P = DOMAIN t /\ P[k] = s /\ \A i \in DOMAIN t : i # k => P[i] = t[i]
    BY ONLY <1>6, <2>2
  <2> QED BY <1>6, <2>1, <2>3
<1>11. Len(revaluations') = Len(revaluations) BY <1>1, <1>10
<1> QED BY <1>8, <1>10, <1>11 DEF Reverses

LEMMA PostsReversal ==
  ASSUME CurrencyTypes, NEW k \in DOMAIN revaluations, revaluations' = [revaluations EXCEPT ![k].reversal = "posted"]
  PROVE  Reverses(k, "posted", revaluations[k].undone)
<1>1. revaluations \in Seq(Revaluations) BY DEF CurrencyTypes
<1>2. revaluations[k] \in Revaluations BY <1>1
<1>3. PICK r : r = [revaluations[k] EXCEPT !.reversal = "posted"] OBVIOUS
<1>4. /\ r \in Revaluations /\ r.item = revaluations[k].item /\ r.amount = revaluations[k].amount
      /\ r.reversal = "posted" /\ r.undone = revaluations[k].undone
  BY <1>2, <1>3 DEF Revaluations
<1>5. /\ revaluations' \in Seq(Revaluations) /\ DOMAIN revaluations' = DOMAIN revaluations /\ revaluations'[k] = r
      /\ \A i \in DOMAIN revaluations : i # k => revaluations'[i] = revaluations[i]
  BY <1>1, <1>3, <1>4
<1>6. Len(revaluations') = Len(revaluations) BY <1>1, <1>5
<1> QED BY <1>4, <1>5, <1>6 DEF Reverses
-----------------------------------------------------------------------------
(* The columns, and what calls have in hand.                               *)
\* What is proposed can be stored.
LEMMA ProposalTyped ==
  ASSUME CurrencyTypes, NEW u \in Clerks, NEW d \in DOMAIN items, NEW c \in DOMAIN items, MatchBegin(u, d, c)
  PROVE  \E row \in MatchRows, whole \in BOOLEAN :
           /\ Accounting(u, [op |-> "match", row |-> row, whole |-> whole])
           /\ Proposed(row, d, c)
<1>0. items \in Seq(ItemRows) /\ matches \in Seq(MatchRows) BY DEF CurrencyTypes
<1>1. items[d] \in ItemRows /\ items[c] \in ItemRows /\ d \in Nat /\ c \in Nat BY <1>0
<1>2. PICK dRes, cRes, dCur, cCur : /\ dRes = Size(items[d].residual) /\ cRes = Size(items[c].residual)
                                    /\ dCur = Size(Remaining(d)) /\ cCur = Size(Remaining(c))
  OBVIOUS
<1>3. PICK equivalent : equivalent = IF dCur = 0 THEN dRes ELSE (dRes * Min({dCur, cCur})) \div dCur OBVIOUS
<1>4. PICK amount : amount = Min({dRes, cRes, equivalent}) OBVIOUS
<1>5. PICK dShare, cShare : dShare = (amount * dCur) \div dRes /\ cShare = (amount * cCur) \div cRes OBVIOUS
<1>6. PICK row : row = [debit |-> d, credit |-> c, amount |-> amount, debitCur |-> dShare, creditCur |-> cShare] OBVIOUS
<1>7. /\ items[d].cur > 0 /\ items[c].cur < 0 /\ items[d].residual > 0 /\ items[c].residual < 0
      /\ Accounting(u, [op |-> "match", row |-> row, whole |-> dShare = dCur \/ cShare = cCur])
  BY <1>2, <1>3, <1>4, <1>5, <1>6 DEF MatchBegin
<1>8. dRes = items[d].residual /\ cRes = -items[c].residual /\ dRes \in Nat \ {0} /\ cRes \in Nat \ {0}
  BY <1>1, <1>2, <1>7, SizeIs DEF ItemRows
<1>9. dCur \in Nat /\ cCur \in Nat
  <2>1. \A i \in DOMAIN items : Remaining(i) \in Int
    <3>1. \A i \in DOMAIN items : SharesOf(i) \in Int BY <1>0, SharesAre, SharesTyped
    <3>2. \A i \in DOMAIN items : items[i].cur \in Int
      <4>1. \A i \in DOMAIN items : items[i] \in ItemRows BY <1>0
      <4> QED BY <4>1 DEF ItemRows
    <3> QED BY <3>1, <3>2 DEF Remaining
  <2> QED BY <1>2, <2>1, SizeIs
<1>10. Min({dCur, cCur}) \in Nat
  <2>1. dCur \in Int /\ cCur \in Int BY <1>9
  <2>2. Min({dCur, cCur}) \in {dCur, cCur} BY ONLY <2>1, 0 \in Int, MinOf
  <2> QED BY <1>9, <2>2
<1>11. equivalent \in Nat
  <2>1. dCur # 0 => (dRes * Min({dCur, cCur})) \div dCur \in Nat BY <1>8, <1>9, <1>10, Quotient
  <2> QED BY <1>3, <1>8, <2>1
<1>12. amount \in Nat /\ amount <= dRes /\ amount <= cRes
  <2>1. dRes \in Int /\ cRes \in Int /\ equivalent \in Int BY <1>8, <1>11
  <2>2. /\ Min({dRes, cRes, equivalent}) \in {dRes, cRes, equivalent}
        /\ Min({dRes, cRes, equivalent}) <= dRes /\ Min({dRes, cRes, equivalent}) <= cRes
    BY ONLY <2>1, MinOf
  <2> QED BY <1>4, <1>8, <1>11, <2>2
<1>13. dShare \in Nat /\ cShare \in Nat BY <1>5, <1>8, <1>9, <1>12, Quotient
<1>14. row \in MatchRows BY <1>1, <1>6, <1>12, <1>13 DEF MatchRows
<1>15. /\ row.debit = d /\ row.credit = c /\ row.amount = amount /\ row.debitCur = dShare /\ row.creditCur = cShare BY <1>6
<1>16. d # c BY <1>1, <1>7 DEF ItemRows
<1>17. /\ row.amount \in 0 .. items[d].residual /\ row.amount <= -items[c].residual /\ row.debitCur >= 0 /\ row.creditCur >= 0
  BY <1>8, <1>12, <1>13, <1>15, <1>1 DEF ItemRows
<1>18. Proposed(row, d, c) BY <1>7, <1>15, <1>16, <1>17 DEF Proposed
<1> QED BY <1>6, <1>7, <1>14, <1>18

\* The columns after a step.
RowsTyped ==
  /\ items \in Seq(ItemRows) /\ matches \in Seq(MatchRows) /\ revaluations \in Seq(Revaluations)
  /\ \A m \in DOMAIN matches : matches[m].debit \in DOMAIN items /\ matches[m].credit \in DOMAIN items
  /\ \A k \in DOMAIN revaluations : revaluations[k].item \in DOMAIN items
CallsTyped ==
  /\ DOMAIN accounting = Clerks
  /\ \A u \in Clerks : CallTyped(accounting[u])
  /\ \A u, v \in Clerks : Occupied(u) /\ Occupied(v) => u = v
LEMMA TypesFrom ==
  ASSUME CurrencyTypes, UNCHANGED rateTable, UNCHANGED workdayVars, shown' \in Int, RowsTyped', CallsTyped'
  PROVE  CurrencyTypes'
BY DEF CurrencyTypes, RowsTyped, CallsTyped, workdayVars

\* Lines that stay, and perhaps more; matches and adjustments that stay.
LEMMA RowsFrom ==
  ASSUME CurrencyTypes, items' \in Seq(ItemRows), DOMAIN items \subseteq DOMAIN items',
         UNCHANGED matches \/ \E r \in MatchRows : r.debit \in DOMAIN items' /\ r.credit \in DOMAIN items' /\ matches' = Append(matches, r),
         UNCHANGED revaluations
  PROVE  RowsTyped'
<1>1. matches \in Seq(MatchRows) BY DEF CurrencyTypes
<1>2. matches' \in Seq(MatchRows) /\ \A m \in DOMAIN matches' : matches'[m].debit \in DOMAIN items' /\ matches'[m].credit \in DOMAIN items'
  <2>1. CASE UNCHANGED matches BY <2>1 DEF CurrencyTypes
  <2>2. CASE \E r \in MatchRows : r.debit \in DOMAIN items' /\ r.credit \in DOMAIN items' /\ matches' = Append(matches, r)
    <3>1. PICK r \in MatchRows : r.debit \in DOMAIN items' /\ r.credit \in DOMAIN items' /\ matches' = Append(matches, r) BY <2>2
    <3>2. /\ matches' \in Seq(MatchRows) /\ DOMAIN matches' = DOMAIN matches \cup {Len(matches) + 1}
          /\ matches'[Len(matches) + 1] = r /\ \A m \in DOMAIN matches : matches'[m] = matches[m]
      BY <1>1, <3>1
    <3> QED BY <3>1, <3>2 DEF CurrencyTypes
  <2> QED BY <2>1, <2>2
<1> QED BY <1>2 DEF RowsTyped, CurrencyTypes

LEMMA RestTypes ==
  ASSUME CurrencyTypes, AtRest, UNCHANGED accounting
  PROVE  CallsTyped'
<1>1. DOMAIN accounting' = Clerks /\ \A u \in Clerks : accounting'[u] = Idle BY DEF CurrencyTypes, AtRest
<1>2. CallTyped(Idle)' BY DEF CallTyped, Idle
<1>3. \A u \in Clerks : CallTyped(accounting[u])' BY <1>1, <1>2
<1>4. \A u \in Clerks : ~Occupied(u)' BY <1>1 DEF Occupied
<1> QED BY <1>1, <1>3, <1>4 DEF CallsTyped

LEMMA TurnTypes ==
  ASSUME CurrencyTypes, NEW u \in Clerks, NEW c, Accounting(u, c), AtRest \/ Occupied(u), CallTyped(c)'
  PROVE  CallsTyped'
BY CallTurns, TurnedTypes DEF CallsTyped

LEMMA RatesTypes ==
  ASSUME CurrencyTypes, NEW d \in 0 .. today, NEW rate \in Rates, EnterRate(d, rate), UNCHANGED workdayVars
  PROVE  CurrencyTypes'
<1>1. /\ rateTable' = [rateTable EXCEPT ![d] = rate] /\ shown' = -1 /\ AtRest /\ d <= today /\ rate \in Nat
      /\ UNCHANGED <<items, matches, revaluations, accounting>>
  BY CurrencyAssumption DEF EnterRate
<1>2. rateTable' \in [0 .. LastDay -> Nat] /\ \A e \in 0 .. LastDay : e > today => rateTable'[e] = 0
  <2>1. rateTable \in [0 .. LastDay -> Nat] /\ today \in 0 .. LastDay /\ \A e \in 0 .. LastDay : e > today => rateTable[e] = 0
    BY DEF CurrencyTypes
  <2>2. d \in 0 .. LastDay BY <2>1, LastDayAssumption
  <2>3. rateTable' \in [0 .. LastDay -> Nat] BY <1>1, <2>1
  <2>4. \A e \in 0 .. LastDay : e > today => e # d BY <1>1, <2>1, LastDayAssumption
  <2>5. \A e \in 0 .. LastDay : e > today => rateTable'[e] = rateTable[e] BY <1>1, <2>1, <2>4
  <2> QED BY <2>1, <2>3, <2>5
<1>3. CallsTyped' BY <1>1, RestTypes
<1> QED BY <1>1, <1>2, <1>3 DEF CurrencyTypes, CallsTyped, workdayVars

LEMMA PostForeignTypes ==
  ASSUME CurrencyTypes, NEW account \in {"receivable", "payable"}, NEW n \in Int, PostForeign(account, n), UNCHANGED workdayVars
  PROVE  CurrencyTypes'
<1>1. PICK worth : worth = n * RateOn(today) OBVIOUS
<1>2. PICK r : r = [account |-> account, cur |-> n, balance |-> worth, residual |-> worth] OBVIOUS
<1>3. /\ items' = Append(items, r) /\ shown' = -1 /\ AtRest
      /\ UNCHANGED <<rateTable, matches, revaluations, accounting>>
  BY <1>1, <1>2 DEF PostForeign
<1>4. worth \in Int
  <2>1. today \in 0 .. LastDay BY DEF CurrencyTypes
  <2>2. RateOn(today) \in Nat BY <2>1, RateIs
  <2> QED BY <1>1, <2>2
<1>5. r \in ItemRows BY <1>2, <1>4 DEF ItemRows
<1>6. RowsTyped' BY <1>3, <1>5, ItemAdded, RowsFrom
<1>7. CallsTyped' BY <1>3, RestTypes
<1> QED BY <1>3, <1>6, <1>7, TypesFrom

LEMMA MatchBeginTypes ==
  ASSUME CurrencyTypes, NEW u \in Clerks, NEW d \in DOMAIN items, NEW c \in DOMAIN items, MatchBegin(u, d, c), UNCHANGED workdayVars
  PROVE  CurrencyTypes'
<1>1. PICK row \in MatchRows, whole \in BOOLEAN :
        Accounting(u, [op |-> "match", row |-> row, whole |-> whole]) /\ Proposed(row, d, c)
  BY ProposalTyped
<1>3. PICK k : k = [op |-> "match", row |-> row, whole |-> whole] OBVIOUS
<1>4. AtRest /\ UNCHANGED <<rateTable, items, matches, revaluations, shown>> BY DEF MatchBegin
<1>5. CallTyped(k)' BY <1>1, <1>3, <1>4 DEF CallTyped, Proposed
<1>6. CallsTyped' BY <1>1, <1>3, <1>4, <1>5, TurnTypes
<1>7. RowsTyped' BY <1>4 DEF RowsTyped, CurrencyTypes
<1>8. shown' \in Int BY <1>4 DEF CurrencyTypes
<1> QED BY <1>4, <1>6, <1>7, <1>8, TypesFrom

\* What a match that is written does.
LEMMA MatchWritten ==
  ASSUME CurrencyTypes, NEW u \in Clerks, MatchWrite(u)
  PROVE  \E row \in MatchRows : \E dLeft \in Int, cLeft \in Int :
           /\ accounting[u].op = "match" /\ row = accounting[u].row /\ row.debit \in DOMAIN items /\ row.credit \in DOMAIN items
           /\ row.debit # row.credit /\ matches' = Append(matches, row) /\ Leaves(row.debit, dLeft, row.credit, cLeft)
           /\ dLeft = items[row.debit].residual - row.amount /\ cLeft = items[row.credit].residual + row.amount
           /\ \E c : Accounting(u, c) /\ (c = Idle \/ (c.op = "result" /\ c.item \in DOMAIN items))
           /\ shown' = -1 /\ UNCHANGED <<rateTable, revaluations>>
<1>1. PICK row : row = accounting[u].row OBVIOUS
<1>2. PICK dLeft, cLeft : dLeft = items[row.debit].residual - row.amount /\ cLeft = items[row.credit].residual + row.amount OBVIOUS
<1>3. PICK open : open = IF dLeft # 0 THEN row.debit ELSE row.credit OBVIOUS
<1>4. PICK c : c = IF accounting[u].whole /\ (dLeft # 0 \/ cLeft # 0) THEN [op |-> "result", item |-> open] ELSE Idle OBVIOUS
<1>5. /\ accounting[u].op = "match" /\ matches' = Append(matches, row) /\ Leaves(row.debit, dLeft, row.credit, cLeft)
      /\ Accounting(u, c) /\ shown' = -1 /\ UNCHANGED <<rateTable, revaluations>>
  BY <1>1, <1>2, <1>3, <1>4 DEF MatchWrite, Leaves
<1>6. row \in MatchRows /\ row.debit \in DOMAIN items /\ row.credit \in DOMAIN items /\ row.debit # row.credit
  BY <1>1, <1>5 DEF CurrencyTypes, CallTyped
<1>7. dLeft \in Int /\ cLeft \in Int
  <2>1. items[row.debit] \in ItemRows /\ items[row.credit] \in ItemRows BY <1>6 DEF CurrencyTypes
  <2> QED BY <1>2, <1>6, <2>1 DEF ItemRows, MatchRows
<1>8. c = Idle \/ (c.op = "result" /\ c.item \in DOMAIN items) BY <1>3, <1>4, <1>6
<1> QED BY <1>1, <1>2, <1>5, <1>6, <1>7, <1>8

LEMMA MatchWriteTypes ==
  ASSUME CurrencyTypes, NEW u \in Clerks, MatchWrite(u), UNCHANGED workdayVars
  PROVE  CurrencyTypes'
<1>1. PICK row \in MatchRows : \E dLeft \in Int, cLeft \in Int :
           /\ accounting[u].op = "match" /\ row.debit \in DOMAIN items /\ row.credit \in DOMAIN items
           /\ matches' = Append(matches, row) /\ Leaves(row.debit, dLeft, row.credit, cLeft)
           /\ \E c : Accounting(u, c) /\ (c = Idle \/ (c.op = "result" /\ c.item \in DOMAIN items))
           /\ shown' = -1 /\ UNCHANGED <<rateTable, revaluations>>
  <2>1. PICK row \in MatchRows : \E dLeft \in Int, cLeft \in Int :
           /\ accounting[u].op = "match" /\ row = accounting[u].row /\ row.debit \in DOMAIN items /\ row.credit \in DOMAIN items
           /\ row.debit # row.credit /\ matches' = Append(matches, row) /\ Leaves(row.debit, dLeft, row.credit, cLeft)
           /\ dLeft = items[row.debit].residual - row.amount /\ cLeft = items[row.credit].residual + row.amount
           /\ \E c : Accounting(u, c) /\ (c = Idle \/ (c.op = "result" /\ c.item \in DOMAIN items))
           /\ shown' = -1 /\ UNCHANGED <<rateTable, revaluations>>
    BY MatchWritten
  <2> QED BY <2>1
<1>2. PICK c : Accounting(u, c) /\ (c = Idle \/ (c.op = "result" /\ c.item \in DOMAIN items)) BY <1>1
<1>3. items' \in Seq(ItemRows) /\ DOMAIN items' = DOMAIN items BY <1>1, ItemsLeft
<1>4. RowsTyped' BY <1>1, <1>3, RowsFrom
<1>5. CallTyped(c)' BY <1>2, <1>3 DEF CallTyped, Idle
<1>6. CallsTyped' BY <1>1, <1>2, <1>5, UnderWay, TurnTypes
<1> QED BY <1>1, <1>4, <1>6, TypesFrom

\* The line of an exchange result.
LEMMA ResultPosted ==
  ASSUME CurrencyTypes, NEW u \in Clerks, PostResult(u)
  PROVE  \E r \in ItemRows : \E c :
           /\ accounting[u].op = "result" /\ items' = Append(items, r) /\ r.cur = 0 /\ Accounting(u, c)
           /\ c.op = "settle" /\ c.item = accounting[u].item /\ c.with = Len(items) + 1 /\ c.item \in DOMAIN items
           /\ UNCHANGED <<rateTable, matches, revaluations, shown>>
<1>1. PICK i : i = items[accounting[u].item] OBVIOUS
<1>2. PICK r : r = [account |-> i.account, cur |-> 0, balance |-> -i.residual, residual |-> -i.residual] OBVIOUS
<1>3. PICK c : c = [op |-> "settle", item |-> accounting[u].item, with |-> Len(items) + 1] OBVIOUS
<1>4. /\ accounting[u].op = "result" /\ items' = Append(items, r) /\ Accounting(u, c)
      /\ UNCHANGED <<rateTable, matches, revaluations, shown>>
  BY <1>1, <1>2, <1>3 DEF PostResult
<1>5. accounting[u].item \in DOMAIN items BY <1>4 DEF CurrencyTypes, CallTyped
<1>6. r \in ItemRows
  <2>1. i \in ItemRows BY <1>1, <1>5 DEF CurrencyTypes
  <2> QED BY <1>2, <2>1 DEF ItemRows
<1>7. r.cur = 0 BY <1>2
<1> QED BY <1>3, <1>4, <1>5, <1>6, <1>7

LEMMA PostResultTypes ==
  ASSUME CurrencyTypes, NEW u \in Clerks, PostResult(u), UNCHANGED workdayVars
  PROVE  CurrencyTypes'
<1>1. PICK r \in ItemRows : \E c :
           /\ accounting[u].op = "result" /\ items' = Append(items, r) /\ Accounting(u, c)
           /\ c.op = "settle" /\ c.with = Len(items) + 1 /\ c.item \in DOMAIN items
           /\ UNCHANGED <<rateTable, matches, revaluations, shown>>
  <2>1. PICK r \in ItemRows : \E c :
           /\ accounting[u].op = "result" /\ items' = Append(items, r) /\ r.cur = 0 /\ Accounting(u, c)
           /\ c.op = "settle" /\ c.item = accounting[u].item /\ c.with = Len(items) + 1 /\ c.item \in DOMAIN items
           /\ UNCHANGED <<rateTable, matches, revaluations, shown>>
    BY ResultPosted
  <2> QED BY <2>1
<1>2. PICK c : Accounting(u, c) /\ c.op = "settle" /\ c.with = Len(items) + 1 /\ c.item \in DOMAIN items BY <1>1
<1>3. items' \in Seq(ItemRows) /\ DOMAIN items \subseteq DOMAIN items' /\ Len(items) + 1 \in DOMAIN items' BY <1>1, ItemAdded
<1>4. RowsTyped' BY <1>1, <1>3, RowsFrom
<1>5. CallTyped(c)' BY <1>2, <1>3 DEF CallTyped
<1>6. CallsTyped' BY <1>1, <1>2, <1>5, UnderWay, TurnTypes
<1>7. shown' \in Int BY <1>1 DEF CurrencyTypes
<1> QED BY <1>1, <1>4, <1>6, <1>7, TypesFrom

LEMMA ResultSettled ==
  ASSUME CurrencyTypes, NEW u \in Clerks, SettleResult(u)
  PROVE  \E row \in MatchRows : \E i \in DOMAIN items, w \in DOMAIN items :
           /\ accounting[u].op = "settle" /\ matches' = Append(matches, row) /\ {row.debit, row.credit} = {i, w}
           /\ row.debitCur = 0 /\ row.creditCur = 0
           /\ Leaves(i, 0, w, 0) /\ Accounting(u, Idle) /\ UNCHANGED <<rateTable, revaluations, shown>>
<1>1. PICK i, w : i = accounting[u].item /\ w = accounting[u].with OBVIOUS
<1>2. PICK row : row = [debit |-> IF items[i].residual > 0 THEN i ELSE w,
                        credit |-> IF items[i].residual > 0 THEN w ELSE i,
                        amount |-> Size(items[i].residual), debitCur |-> 0, creditCur |-> 0]
  OBVIOUS
<1>3. /\ accounting[u].op = "settle" /\ matches' = Append(matches, row)
      /\ Leaves(i, 0, w, 0) /\ Accounting(u, Idle) /\ UNCHANGED <<rateTable, revaluations, shown>>
  BY <1>1, <1>2 DEF SettleResult, Leaves
<1>4. i \in DOMAIN items /\ w \in DOMAIN items BY <1>1, <1>3 DEF CurrencyTypes, CallTyped
<1>5. i \in Nat /\ w \in Nat /\ items[i] \in ItemRows BY <1>4 DEF CurrencyTypes
<1>6. Size(items[i].residual) \in Int BY <1>5, SizeIs DEF ItemRows
<1>7. row \in MatchRows BY <1>2, <1>5, <1>6 DEF MatchRows
<1>8. {row.debit, row.credit} = {i, w} /\ row.debitCur = 0 /\ row.creditCur = 0 BY <1>2
<1> QED BY <1>3, <1>4, <1>7, <1>8

LEMMA SettleTypes ==
  ASSUME CurrencyTypes, NEW u \in Clerks, SettleResult(u), UNCHANGED workdayVars
  PROVE  CurrencyTypes'
<1>1. PICK row \in MatchRows : \E i \in DOMAIN items, w \in DOMAIN items :
           /\ accounting[u].op = "settle" /\ matches' = Append(matches, row) /\ {row.debit, row.credit} = {i, w}
           /\ Leaves(i, 0, w, 0) /\ Accounting(u, Idle) /\ UNCHANGED <<rateTable, revaluations, shown>>
  <2>1. PICK row \in MatchRows : \E i \in DOMAIN items, w \in DOMAIN items :
           /\ accounting[u].op = "settle" /\ matches' = Append(matches, row) /\ {row.debit, row.credit} = {i, w}
           /\ row.debitCur = 0 /\ row.creditCur = 0
           /\ Leaves(i, 0, w, 0) /\ Accounting(u, Idle) /\ UNCHANGED <<rateTable, revaluations, shown>>
    BY ResultSettled
  <2> QED BY <2>1
<1>2. PICK i \in DOMAIN items, w \in DOMAIN items : {row.debit, row.credit} = {i, w} /\ Leaves(i, 0, w, 0) BY <1>1
<1>3. items' \in Seq(ItemRows) /\ DOMAIN items' = DOMAIN items
  BY <1>2, BothCleared
<1>4. row.debit \in DOMAIN items' /\ row.credit \in DOMAIN items' BY <1>2, <1>3
<1>5. RowsTyped' BY <1>1, <1>3, <1>4, RowsFrom
<1>6. CallTyped(Idle)' BY DEF CallTyped, Idle
<1>7. CallsTyped' BY <1>1, <1>6, UnderWay, TurnTypes
<1>8. shown' \in Int BY <1>1 DEF CurrencyTypes
<1> QED BY <1>1, <1>5, <1>7, <1>8, TypesFrom

LEMMA RevalueBeginTypes ==
  ASSUME CurrencyTypes, NEW u \in Clerks, RevalueBegin(u), UNCHANGED workdayVars
  PROVE  CurrencyTypes'
<1>1. PICK T : T = {i \in DOMAIN items : items[i].cur # 0 /\ items[i].residual # 0} OBVIOUS
<1>2. PICK c : c = [op |-> "revalue", from |-> Len(revaluations), todo |-> T] OBVIOUS
<1>3. AtRest /\ Accounting(u, c) /\ shown' = -1 /\ UNCHANGED <<rateTable, items, matches, revaluations>>
  BY <1>1, <1>2 DEF RevalueBegin
<1>4. Len(revaluations) \in Nat /\ T \subseteq DOMAIN items BY <1>1 DEF CurrencyTypes
<1>5. c.op = "revalue" /\ c.from = Len(revaluations) /\ c.todo = T /\ c = [op |-> c.op, from |-> c.from, todo |-> c.todo] BY <1>2
<1>6. CallTyped(c)' BY <1>3, <1>4, <1>5 DEF CallTyped
<1>7. CallsTyped' BY <1>3, <1>6, TurnTypes
<1>8. RowsTyped' BY <1>3 DEF RowsTyped, CurrencyTypes
<1> QED BY <1>3, <1>7, <1>8, TypesFrom

\* A line is revalued, or is worth what is left of it.
Difference(i) == Size(items[i].cur) * RateOn(today) - Size(items[i].residual)
LEMMA LineRevalued ==
  ASSUME CurrencyTypes, NEW u \in Clerks, NEW i \in DOMAIN items, RevalueLine(u, i)
  PROVE  LET k == accounting[u]
         IN /\ k.op = "revalue" /\ k.from \in 0 .. Len(revaluations) /\ k.todo \subseteq DOMAIN items /\ i \in k.todo
            /\ Difference(i) \in Int
            /\ UNCHANGED <<rateTable, items, matches, shown>>
            /\ \E c : /\ Accounting(u, c) /\ c = [op |-> c.op, from |-> k.from, todo |-> k.todo \ {i}]
                      /\ \/ /\ c.op = "revalue" /\ UNCHANGED revaluations /\ (RateOn(today) = 0 \/ Difference(i) = 0)
                         \/ /\ c.op = "undo" /\ ~(RateOn(today) = 0 \/ Difference(i) = 0)
                            /\ \E r \in Revaluations : /\ revaluations' = Append(revaluations, r) /\ r.item = i
                                                       /\ r.reversal = "none" /\ r.undone = 0
                                                       /\ r.amount = Adjustment(i, Difference(i))
<1>1. PICK k : k = accounting[u] OBVIOUS
<1>2. PICK diff : diff = Difference(i) OBVIOUS
<1>3. /\ k.op = "revalue" /\ i \in k.todo /\ UNCHANGED <<rateTable, items, matches, shown>>
      /\ IF RateOn(today) = 0 \/ diff = 0
         THEN Accounting(u, [k EXCEPT !.todo = @ \ {i}]) /\ UNCHANGED revaluations
         ELSE /\ revaluations' = Append(revaluations, [item |-> i, date |-> today, reversal |-> "none",
                                                       amount |-> Adjustment(i, diff), undone |-> 0])
              /\ Accounting(u, [k EXCEPT !.op = "undo", !.todo = @ \ {i}])
  BY <1>1, <1>2 DEF RevalueLine, Difference
<1>4. k.from \in 0 .. Len(revaluations) /\ k.todo \subseteq DOMAIN items BY <1>1, <1>3 DEF CurrencyTypes, CallTyped
<1>5. today \in 0 .. LastDay /\ RateOn(today) \in Nat
  <2>1. today \in 0 .. LastDay BY DEF CurrencyTypes
  <2> QED BY <2>1, RateIs
<1>6. items[i] \in ItemRows /\ i \in Nat BY DEF CurrencyTypes
<1>7. diff \in Int /\ Adjustment(i, diff) \in Int
  <2>1. Size(items[i].cur) \in Int /\ Size(items[i].residual) \in Int BY <1>6, SizeIs DEF ItemRows
  <2>2. diff \in Int BY <1>2, <1>5, <2>1 DEF Difference
  <2>3. Size(diff) \in Int BY <2>2, SizeIs
  <2> QED BY <2>2, <2>3 DEF Adjustment
<1>8. k = [op |-> "revalue", from |-> k.from, todo |-> k.todo] BY <1>1, <1>3 DEF CurrencyTypes, CallTyped
<1>9. CASE RateOn(today) = 0 \/ diff = 0
  <2>1. PICK c : c = [k EXCEPT !.todo = @ \ {i}] OBVIOUS
  <2>2. c.op = "revalue" /\ c = [op |-> c.op, from |-> k.from, todo |-> k.todo \ {i}] BY <1>8, <2>1
  <2>3. Accounting(u, c) /\ UNCHANGED revaluations /\ (RateOn(today) = 0 \/ Difference(i) = 0) BY <1>2, <1>3, <1>9, <2>1
  <2> QED BY <1>1, <1>2, <1>3, <1>4, <1>7, <2>2, <2>3
<1>10. CASE ~(RateOn(today) = 0 \/ diff = 0)
  <2>1. PICK c : c = [k EXCEPT !.op = "undo", !.todo = @ \ {i}] OBVIOUS
  <2>2. c.op = "undo" /\ c = [op |-> c.op, from |-> k.from, todo |-> k.todo \ {i}] BY <1>8, <2>1
  <2>3. PICK r : r = [item |-> i, date |-> today, reversal |-> "none", amount |-> Adjustment(i, diff), undone |-> 0] OBVIOUS
  <2>4. r \in Revaluations BY <1>5, <1>6, <1>7, <2>3, LastDayAssumption DEF Revaluations
  <2>5. Accounting(u, c) /\ revaluations' = Append(revaluations, r) BY <1>3, <1>10, <2>1, <2>3
  <2>6. r.item = i /\ r.reversal = "none" /\ r.undone = 0 /\ r.amount = Adjustment(i, Difference(i)) BY <1>2, <2>3
  <2> QED BY <1>1, <1>2, <1>3, <1>4, <1>7, <1>10, <2>2, <2>4, <2>5, <2>6
<1> QED BY <1>9, <1>10

LEMMA RevalueLineTypes ==
  ASSUME CurrencyTypes, NEW u \in Clerks, NEW i \in DOMAIN items, RevalueLine(u, i), UNCHANGED workdayVars
  PROVE  CurrencyTypes'
<1>1. PICK k : k = accounting[u] OBVIOUS
<1>2. /\ k.op = "revalue" /\ k.from \in 0 .. Len(revaluations) /\ k.todo \subseteq DOMAIN items
      /\ UNCHANGED <<rateTable, items, matches, shown>>
      /\ \E c : /\ Accounting(u, c) /\ c = [op |-> c.op, from |-> k.from, todo |-> k.todo \ {i}]
                /\ \/ c.op = "revalue" /\ UNCHANGED revaluations
                   \/ /\ c.op = "undo"
                      /\ \E r \in Revaluations : revaluations' = Append(revaluations, r) /\ r.item = i /\ r.reversal = "none"
  BY <1>1, LineRevalued
<1>3. PICK c : /\ Accounting(u, c) /\ c = [op |-> c.op, from |-> k.from, todo |-> k.todo \ {i}]
               /\ \/ c.op = "revalue" /\ UNCHANGED revaluations
                  \/ /\ c.op = "undo"
                     /\ \E r \in Revaluations : revaluations' = Append(revaluations, r) /\ r.item = i /\ r.reversal = "none"
  BY <1>2
<1>4. c.from = k.from /\ c.todo = k.todo \ {i} BY <1>3
<1>5. Occupied(u) BY <1>1, <1>2, UnderWay
<1>6. shown' \in Int BY <1>2 DEF CurrencyTypes
<1>7. CASE c.op = "revalue" /\ UNCHANGED revaluations
  <2>1. CallTyped(c)' BY <1>2, <1>3, <1>4, <1>7 DEF CallTyped
  <2>2. CallsTyped' BY <1>3, <1>5, <2>1, TurnTypes
  <2>3. RowsTyped' BY <1>2, <1>7 DEF RowsTyped, CurrencyTypes
  <2> QED BY <1>2, <1>6, <2>2, <2>3, TypesFrom
<1>8. CASE c.op = "undo" /\ \E r \in Revaluations : revaluations' = Append(revaluations, r) /\ r.item = i /\ r.reversal = "none"
  <2>1. PICK r \in Revaluations : revaluations' = Append(revaluations, r) /\ r.item = i /\ r.reversal = "none" BY <1>8
  <2>2. /\ revaluations' \in Seq(Revaluations) /\ Len(revaluations') = Len(revaluations) + 1 /\ Len(revaluations) \in Nat
        /\ DOMAIN revaluations' = DOMAIN revaluations \cup {Len(revaluations) + 1}
        /\ revaluations'[Len(revaluations) + 1] = r /\ \A j \in DOMAIN revaluations : revaluations'[j] = revaluations[j]
    BY <2>1, Adjusted
  <2>3. k.from \in 0 .. Len(revaluations') /\ k.from < Len(revaluations') BY <1>2, <2>2
  <2>4. revaluations'[Len(revaluations')].reversal = "none" BY <2>1, <2>2
  <2>5. CallTyped(c)' BY <1>2, <1>3, <1>4, <1>8, <2>3, <2>4 DEF CallTyped
  <2>6. CallsTyped' BY <1>3, <1>5, <2>5, TurnTypes
  <2>7. \A j \in DOMAIN revaluations' : revaluations'[j].item \in DOMAIN items BY <2>1, <2>2 DEF CurrencyTypes
  <2>8. RowsTyped' BY <1>2, <2>2, <2>7 DEF RowsTyped, CurrencyTypes
  <2> QED BY <1>2, <1>6, <2>6, <2>8, TypesFrom
<1> QED BY <1>3, <1>7, <1>8

\* A draft of the last adjustment's reversal.
LEMMA ReversalDrafted ==
  ASSUME CurrencyTypes, NEW u \in Clerks, DraftReversal(u)
  PROVE  LET k == accounting[u]
             last == Len(revaluations)
         IN /\ k.op = "undo" /\ k.from \in 0 .. last /\ k.from < last /\ k.todo \subseteq DOMAIN items
            /\ last \in DOMAIN revaluations /\ revaluations[last].reversal = "none"
            /\ Reverses(last, "draft", -revaluations[last].amount)
            /\ Accounting(u, [op |-> "revalue", from |-> k.from, todo |-> k.todo])
            /\ UNCHANGED <<rateTable, items, matches, shown>>
<1>1. PICK k : k = accounting[u] OBVIOUS
<1>2. PICK last : last = Len(revaluations) OBVIOUS
<1>3. /\ k.op = "undo" /\ UNCHANGED <<rateTable, items, matches, shown>>
      /\ revaluations' = [revaluations EXCEPT ![last].reversal = "draft", ![last].undone = -revaluations[last].amount]
      /\ Accounting(u, [k EXCEPT !.op = "revalue"])
  BY <1>1, <1>2 DEF DraftReversal
<1>4. /\ k.from \in 0 .. last /\ k.from < last /\ k.todo \subseteq DOMAIN items /\ revaluations[last].reversal = "none"
      /\ k = [op |-> "undo", from |-> k.from, todo |-> k.todo]
  BY <1>1, <1>2, <1>3 DEF CurrencyTypes, CallTyped
<1>5. last \in DOMAIN revaluations /\ revaluations[last] \in Revaluations BY <1>2, <1>4 DEF CurrencyTypes
<1>6. -revaluations[last].amount \in Int BY <1>5 DEF Revaluations
<1>7. Reverses(last, "draft", -revaluations[last].amount) BY <1>3, <1>5, <1>6, Drafted
<1>8. [k EXCEPT !.op = "revalue"] = [op |-> "revalue", from |-> k.from, todo |-> k.todo] BY <1>4
<1> QED BY <1>1, <1>2, <1>3, <1>4, <1>5, <1>7, <1>8

LEMMA ReversesTyped ==
  ASSUME CurrencyTypes, NEW k \in DOMAIN revaluations, NEW s, NEW n, Reverses(k, s, n), UNCHANGED <<items, matches>>
  PROVE  RowsTyped'
BY DEF Reverses, CurrencyTypes, RowsTyped

LEMMA DraftReversalTypes ==
  ASSUME CurrencyTypes, NEW u \in Clerks, DraftReversal(u), UNCHANGED workdayVars
  PROVE  CurrencyTypes'
<1>1. PICK k, last : k = accounting[u] /\ last = Len(revaluations) OBVIOUS
<1>2. /\ k.op = "undo" /\ k.from \in 0 .. last /\ k.todo \subseteq DOMAIN items
      /\ last \in DOMAIN revaluations /\ Reverses(last, "draft", -revaluations[last].amount)
      /\ Accounting(u, [op |-> "revalue", from |-> k.from, todo |-> k.todo])
      /\ UNCHANGED <<rateTable, items, matches, shown>>
  BY <1>1, ReversalDrafted
<1>3. PICK c : c = [op |-> "revalue", from |-> k.from, todo |-> k.todo] OBVIOUS
<1>4. RowsTyped' BY <1>2, ReversesTyped
<1>5. Len(revaluations') = last BY <1>1, <1>2 DEF Reverses
<1>6. CallTyped(c)' BY <1>2, <1>3, <1>5 DEF CallTyped
<1>7. CallsTyped' BY <1>1, <1>2, <1>3, <1>6, UnderWay, TurnTypes
<1>8. shown' \in Int BY <1>2 DEF CurrencyTypes
<1> QED BY <1>2, <1>4, <1>7, <1>8, TypesFrom

LEMMA PostReversalTypes ==
  ASSUME CurrencyTypes, NEW k \in DOMAIN revaluations, PostReversal(k), UNCHANGED workdayVars
  PROVE  CurrencyTypes'
<1>1. /\ AtRest /\ revaluations' = [revaluations EXCEPT ![k].reversal = "posted"] /\ shown' = -1
      /\ UNCHANGED <<rateTable, items, matches, accounting>>
  BY DEF PostReversal
<1>2. Reverses(k, "posted", revaluations[k].undone) BY <1>1, PostsReversal
<1>3. RowsTyped' BY <1>1, <1>2, ReversesTyped
<1>4. CallsTyped' BY <1>1, RestTypes
<1> QED BY <1>1, <1>3, <1>4, TypesFrom

\* A call ends.
LEMMA EndTypes ==
  ASSUME CurrencyTypes, NEW u \in Clerks, Occupied(u), Accounting(u, Idle), shown' \in Int,
         UNCHANGED <<rateTable, items, matches, revaluations>>, UNCHANGED workdayVars
  PROVE  CurrencyTypes'
<1>1. CallTyped(Idle)' BY DEF CallTyped, Idle
<1>2. CallsTyped' BY <1>1, TurnTypes
<1>3. RowsTyped' BY DEF RowsTyped, CurrencyTypes
<1> QED BY <1>2, <1>3, TypesFrom

LEMMA RevalueEndTypes ==
  ASSUME CurrencyTypes, NEW u \in Clerks, RevalueEnd(u), UNCHANGED workdayVars
  PROVE  CurrencyTypes'
<1>1. /\ accounting[u].op = "revalue" /\ Accounting(u, Idle) /\ shown' = accounting[u].from
      /\ UNCHANGED <<rateTable, items, matches, revaluations>>
  BY DEF RevalueEnd
<1>2. accounting[u].from \in Int BY <1>1 DEF CurrencyTypes, CallTyped
<1> QED BY <1>1, <1>2, UnderWay, EndTypes

LEMMA StopTypes ==
  ASSUME CurrencyTypes, NEW u \in Clerks, AccountingStops(u), UNCHANGED workdayVars
  PROVE  CurrencyTypes'
<1>1. Occupied(u) /\ Accounting(u, Idle) /\ UNCHANGED <<rateTable, items, matches, revaluations, shown>>
  BY DEF AccountingStops, Occupied
<1>2. shown' \in Int BY <1>1 DEF CurrencyTypes
<1> QED BY <1>1, <1>2, EndTypes

LEMMA NextDayTypes ==
  ASSUME CurrencyTypes, NextDay, shown' = -1, UNCHANGED <<rateTable, items, matches, revaluations, accounting>>
  PROVE  CurrencyTypes'
<1>1. today' \in 0 .. LastDay /\ \A d \in 0 .. LastDay : d > today' => d > today
  BY LastDayAssumption DEF CurrencyTypes, NextDay
<1>2. CallsTyped' BY DEF CallsTyped, CurrencyTypes, CallTyped, Occupied
<1> QED BY <1>1, <1>2 DEF CurrencyTypes, CallsTyped

\* The steps there are.
LEMMA CurrencyActions ==
  ASSUME CurrencyNext
  PROVE  \/ /\ UNCHANGED workdayVars
            /\ \/ \E d \in 0 .. today, rate \in Rates : EnterRate(d, rate)
               \/ \E account \in {"receivable", "payable"}, n \in Int : PostForeign(account, n) /\ n # 0
               \/ \E k \in DOMAIN revaluations : PostReversal(k)
               \/ \E u \in Clerks : \E d, c \in DOMAIN items : MatchBegin(u, d, c)
               \/ \E u \in Clerks : \E i \in DOMAIN items : RevalueLine(u, i)
               \/ \E u \in Clerks : MatchWrite(u)
               \/ \E u \in Clerks : PostResult(u)
               \/ \E u \in Clerks : SettleResult(u)
               \/ \E u \in Clerks : RevalueBegin(u)
               \/ \E u \in Clerks : DraftReversal(u)
               \/ \E u \in Clerks : RevalueEnd(u)
               \/ \E u \in Clerks : AccountingStops(u)
         \/ NextDay /\ shown' = -1 /\ UNCHANGED <<rateTable, items, matches, revaluations, accounting>>
<1>1. \A n \in ForeignAmounts : n \in Int /\ n # 0 /\ -n \in Int /\ -n # 0 BY CurrencyAssumption
<1>2. ASSUME NEW account \in {"receivable", "payable"}, NEW n \in ForeignAmounts, PostForeign(account, n) \/ PostForeign(account, -n)
      PROVE  \E m \in Int : PostForeign(account, m) /\ m # 0
  BY <1>1, <1>2
<1> QED BY <1>2 DEF CurrencyNext

LEMMA CurrencyTypesStep ==
  ASSUME CurrencyTypes, CurrencyNext
  PROVE  CurrencyTypes'
<1>1. CASE NextDay /\ shown' = -1 /\ UNCHANGED <<rateTable, items, matches, revaluations, accounting>> BY <1>1, NextDayTypes
<1>2. CASE ~(NextDay /\ shown' = -1 /\ UNCHANGED <<rateTable, items, matches, revaluations, accounting>>)
  <2>0. UNCHANGED workdayVars BY <1>2, CurrencyActions
  <2>1. ASSUME NEW d \in 0 .. today, NEW rate \in Rates, EnterRate(d, rate) PROVE CurrencyTypes' BY <2>0, <2>1, RatesTypes
  <2>2. ASSUME NEW account \in {"receivable", "payable"}, NEW n \in Int, PostForeign(account, n) PROVE CurrencyTypes'
    BY <2>0, <2>2, PostForeignTypes
  <2>3. ASSUME NEW k \in DOMAIN revaluations, PostReversal(k) PROVE CurrencyTypes' BY <2>0, <2>3, PostReversalTypes
  <2>4. ASSUME NEW u \in Clerks, NEW d \in DOMAIN items, NEW c \in DOMAIN items, MatchBegin(u, d, c) PROVE CurrencyTypes'
    BY <2>0, <2>4, MatchBeginTypes
  <2>5. ASSUME NEW u \in Clerks, NEW i \in DOMAIN items, RevalueLine(u, i) PROVE CurrencyTypes' BY <2>0, <2>5, RevalueLineTypes
  <2>6. ASSUME NEW u \in Clerks, MatchWrite(u) PROVE CurrencyTypes' BY <2>0, <2>6, MatchWriteTypes
  <2>7. ASSUME NEW u \in Clerks, PostResult(u) PROVE CurrencyTypes' BY <2>0, <2>7, PostResultTypes
  <2>8. ASSUME NEW u \in Clerks, SettleResult(u) PROVE CurrencyTypes' BY <2>0, <2>8, SettleTypes
  <2>9. ASSUME NEW u \in Clerks, RevalueBegin(u) PROVE CurrencyTypes' BY <2>0, <2>9, RevalueBeginTypes
  <2>10. ASSUME NEW u \in Clerks, DraftReversal(u) PROVE CurrencyTypes' BY <2>0, <2>10, DraftReversalTypes
  <2>11. ASSUME NEW u \in Clerks, RevalueEnd(u) PROVE CurrencyTypes' BY <2>0, <2>11, RevalueEndTypes
  <2>12. ASSUME NEW u \in Clerks, AccountingStops(u) PROVE CurrencyTypes' BY <2>0, <2>12, StopTypes
  <2> QED BY <1>2, <2>1, <2>2, <2>3, <2>4, <2>5, <2>6, <2>7, <2>8, <2>9, <2>10, <2>11, <2>12, CurrencyActions
<1> QED BY <1>1, <1>2

\* Records and calls have their types, and one call runs at a time.
THEOREM CurrencyTypesHold == CurrencySpec => []CurrencyTypes
<1>1. CurrencyInit /\ WorkdayInit => CurrencyTypes
  <2>1. SUFFICES ASSUME CurrencyInit, WorkdayInit PROVE CurrencyTypes OBVIOUS
  <2>6. today = 0 BY <2>1 DEF WorkdayInit
  <2>2. /\ rateTable = [d \in 0 .. LastDay |-> 0] /\ shown = -1
        /\ items = <<>> /\ matches = <<>> /\ revaluations = <<>> /\ accounting = [u \in Clerks |-> Idle]
    BY <2>1 DEF CurrencyInit
  <2>5. DOMAIN accounting = Clerks /\ \A u \in Clerks : accounting[u] = Idle BY <2>2
  <2>3. CallTyped(Idle) BY DEF CallTyped, Idle
  <2>4. \A u \in Clerks : CallTyped(accounting[u]) /\ ~Occupied(u) BY <2>5, <2>3 DEF Occupied
  <2> QED BY <2>2, <2>4, <2>5, <2>6, LastDayAssumption DEF CurrencyTypes
<1>2. CurrencyTypes /\ [CurrencyNext]_<<currencyVars, workdayVars>> => CurrencyTypes'
  <2>1. CASE CurrencyNext BY <2>1, CurrencyTypesStep
  <2>2. CASE UNCHANGED <<currencyVars, workdayVars>>
    BY <2>2 DEF CurrencyTypes, CallTyped, Occupied, currencyVars, workdayVars
  <2> QED BY <2>1, <2>2
<1> QED BY <1>1, <1>2, PTL DEF CurrencySpec
-----------------------------------------------------------------------------
(* What revaluations have posted.                                          *)
LEMMA SinceRows ==
  ASSUME NEW R \in Seq(Revaluations), NEW i, NEW from
  PROVE  /\ IsFiniteSet(RowsSince(R, i, from)) /\ RowsSince(R, i, from) \subseteq 1 .. Len(R)
         /\ \A k \in RowsSince(R, i, from) : AmountsIn(R)[k] \in Int
<1>1. PICK n \in Nat : n = Len(R) OBVIOUS
<1>2. DOMAIN R = 1..n BY <1>1
<1>3. RowsSince(R, i, from) \subseteq 1..n BY <1>2 DEF RowsSince
<1>4. IsFiniteSet(RowsSince(R, i, from))
  <2>1. PICK S : S = RowsSince(R, i, from) OBVIOUS
  <2>2. IsFiniteSet(1..n) /\ S \in SUBSET (1..n) BY <1>3, <2>1, FS_Interval
  <2> QED BY <2>1, <2>2, FS_Subset
<1>5. \A k \in DOMAIN R : R[k] \in Revaluations OBVIOUS
<1>6. \A k \in DOMAIN R : AmountsIn(R)[k] \in Int BY <1>5 DEF Revaluations, AmountsIn
<1> QED BY <1>1, <1>2, <1>3, <1>4, <1>6

LEMMA SinceSame ==
  ASSUME NEW R \in Seq(Revaluations), NEW Q \in Seq(Revaluations), DOMAIN Q = DOMAIN R,
         \A k \in DOMAIN R : Q[k].item = R[k].item /\ Q[k].amount = R[k].amount, NEW i, NEW from
  PROVE  Since(Q, i, from) = Since(R, i, from)
<1>1. AmountsIn(Q) = AmountsIn(R) BY DEF AmountsIn
<1>2. RowsSince(Q, i, from) = RowsSince(R, i, from) BY DEF RowsSince
<1> QED BY <1>1, <1>2 DEF Since

LEMMA SinceNone ==
  ASSUME NEW R, NEW i, NEW from, \A k \in DOMAIN R : k > from => R[k].item # i
  PROVE  Since(R, i, from) = 0
<1>1. RowsSince(R, i, from) = {} BY DEF RowsSince
<1> QED BY <1>1, SumEmpty DEF Since

LEMMA SinceMore ==
  ASSUME NEW R \in Seq(Revaluations), NEW r \in Revaluations, NEW i, NEW from \in 0 .. Len(R)
  PROVE  Since(Append(R, r), i, from) = Since(R, i, from) + (IF r.item = i THEN r.amount ELSE 0)
<1>1. PICK n \in Nat : n = Len(R) OBVIOUS
<1>0. PICK Q : Q = Append(R, r) OBVIOUS
<1>2. /\ Q \in Seq(Revaluations) /\ DOMAIN R = 1..n /\ DOMAIN Q = (1..n) \cup {n + 1} /\ Q[n + 1] = r
      /\ \A k \in 1..n : Q[k] = R[k]
  BY <1>0, <1>1
<1>3. PICK f, h : f = AmountsIn(R) /\ h = AmountsIn(Q) OBVIOUS
<1>4. PICK S, T : S = RowsSince(R, i, from) /\ T = RowsSince(Q, i, from) OBVIOUS
<1>5. Since(R, i, from) = SumOf(f, S) /\ IsFiniteSet(S) /\ (\A k \in S : f[k] \in Int) /\ S \subseteq 1 .. n
  BY <1>1, <1>3, <1>4, SinceRows DEF Since
<1>6. Since(Q, i, from) = SumOf(h, T) /\ \A k \in T : h[k] \in Int BY <1>2, <1>3, <1>4, SinceRows DEF Since
<1>7. \A k \in S : f[k] = h[k] BY <1>2, <1>3, <1>5 DEF AmountsIn
<1>8. SumOf(f, S) = SumOf(h, S) BY ONLY <1>5, <1>7, SumSame
<1>9. SumOf(f, S) \in Int BY ONLY <1>5, SumType
<1>10. CASE r.item = i
  <2>1. T = S \cup {n + 1} BY <1>1, <1>2, <1>4, <1>10 DEF RowsSince
  <2>2. n + 1 \notin S /\ \A k \in S \cup {n + 1} : h[k] \in Int BY <1>5, <1>6, <2>1
  <2>3. SumOf(h, S \cup {n + 1}) = h[n + 1] + SumOf(h, S) BY ONLY <1>5, <2>2, SumAdd
  <2>4. h[n + 1] = r.amount /\ h[n + 1] \in Int BY <1>2, <1>3, <2>2 DEF AmountsIn
  <2> QED BY <1>0, <1>5, <1>6, <1>8, <1>9, <1>10, <2>1, <2>3, <2>4
<1>11. CASE r.item # i
  <2>1. T = S BY <1>1, <1>2, <1>4, <1>11 DEF RowsSince
  <2> QED BY <1>0, <1>5, <1>6, <1>8, <1>9, <1>11, <2>1
<1> QED BY <1>10, <1>11

\* A posted adjustment is reversed: what an account has of an item is what was posted since.
LEMMA OnAccountIs ==
  ASSUME CurrencyTypes, UndoneInv, NEW i, NEW from, from \in 0 .. Len(revaluations),
         \A k \in DOMAIN revaluations : k > from => revaluations[k].reversal # "posted",
         \A k \in 1 .. from : revaluations[k].reversal = "posted"
  PROVE  OnAccount(i) = items[i].balance + Since(revaluations, i, from)
<1>1. PICK R : R = revaluations OBVIOUS
<1>2. R \in Seq(Revaluations) /\ DOMAIN R = 1 .. Len(R) /\ Len(R) \in Nat BY <1>1 DEF CurrencyTypes
<1>3. PICK A : A = {k \in DOMAIN R : R[k].item = i} OBVIOUS
<1>4. PICK g : g = [k \in A |-> R[k].amount + PostedItem(k)] OBVIOUS
<1>5. PICK S, T : S = RowsSince(R, i, from) /\ T = {k \in A : k <= from} OBVIOUS
<1>6. PICK f : f = AmountsIn(R) OBVIOUS
<1>7. Since(R, i, from) = SumOf(f, S) /\ IsFiniteSet(S) /\ (\A k \in S : f[k] \in Int) BY <1>2, <1>5, <1>6, SinceRows DEF Since
<1>8. IsFiniteSet(T)
  <2>1. IsFiniteSet(1 .. Len(R))
    <3>1. PICK n \in Nat : n = Len(R) BY <1>2
    <3>2. IsFiniteSet(1 .. n) BY FS_Interval
    <3> QED BY <3>1, <3>2
  <2>2. T \in SUBSET (1 .. Len(R)) BY <1>2, <1>3, <1>5
  <2> QED BY <2>1, <2>2, FS_Subset
<1>9. A = T \cup S /\ T \cap S = {} BY <1>1, <1>2, <1>3, <1>5 DEF RowsSince
<1>10. \A k \in T : g[k] = 0
  <2>1. TAKE k \in T
  <2>2. k \in A /\ k \in 1 .. from /\ k \in DOMAIN R BY <1>2, <1>3, <1>5
  <2>3. R[k].reversal = "posted" BY <1>1, <2>2
  <2>4. R[k] \in Revaluations BY <1>2, <2>2
  <2>5. PostedItem(k) = -R[k].amount BY <1>1, <2>2, <2>3 DEF PostedItem, UndoneInv
  <2>6. R[k].amount \in Int BY <2>4 DEF Revaluations
  <2> QED BY <1>4, <2>2, <2>5, <2>6
<1>11. \A k \in S : g[k] = f[k]
  <2>1. TAKE k \in S
  <2>2. k \in A /\ k > from /\ k \in DOMAIN R BY <1>3, <1>5 DEF RowsSince
  <2>3. PostedItem(k) = 0 BY <1>1, <2>2 DEF PostedItem
  <2>4. f[k] = R[k].amount /\ f[k] \in Int BY <1>6, <1>7, <2>2 DEF AmountsIn
  <2> QED BY <1>4, <2>2, <2>3, <2>4
<1>12. SumOf(g, T) = 0 BY ONLY <1>8, <1>10, SumZero
<1>13. SumOf(g, S) = SumOf(f, S) BY ONLY <1>7, <1>11, SumSame
<1>14. \A k \in T \cup S : g[k] \in Int BY <1>7, <1>10, <1>11
<1>15. SumOf(g, T \cup S) = SumOf(g, T) + SumOf(g, S) BY ONLY <1>7, <1>8, <1>9, <1>14, SumUnion
<1>16. SumOf(f, S) \in Int BY ONLY <1>7, SumType
<1>17. OnAccount(i) = items[i].balance + SumOf(g, A) BY <1>1, <1>3, <1>4 DEF OnAccount, Summed
<1> QED BY <1>1, <1>7, <1>9, <1>12, <1>13, <1>15, <1>16, <1>17
-----------------------------------------------------------------------------
(* What is shown after a revaluation.                                      *)
LEMMA ShownTurn ==
  ASSUME NEW u \in Clerks, NEW c, CallTurned(u, c), CallShown(c)'
  PROVE  \A v \in Clerks : CallShown(accounting[v])'
<1>1. CallShown(Idle)' BY DEF CallShown, Idle
<1>2. TAKE v \in Clerks
<1>3. CASE v = u BY <1>3 DEF CallTurned
<1>4. CASE v # u
  <2>1. accounting'[v] = Idle BY <1>4 DEF CallTurned
  <2> QED BY <1>1, <2>1
<1> QED BY <1>3, <1>4

LEMMA ShownRest ==
  ASSUME AtRest, UNCHANGED accounting
  PROVE  \A v \in Clerks : CallShown(accounting[v])'
<1>1. CallShown(Idle)' BY DEF CallShown, Idle
<1>2. \A v \in Clerks : accounting'[v] = Idle BY DEF AtRest
<1> QED BY <1>1, <1>2

LEMMA ValuedStays ==
  ASSUME UNCHANGED <<items, revaluations>>, RateOn(today)' = RateOn(today), NEW from, NEW todo, Valued(from, todo)
  PROVE  Valued(from, todo)'
BY DEF Valued

LEMMA ShownRates ==
  ASSUME CurrencyTypes, CurrencyTypes', ShownInv, NEW d \in 0 .. today, NEW rate \in Rates, EnterRate(d, rate), UNCHANGED workdayVars
  PROVE  ShownInv'
<1>1. /\ AtRest /\ rateTable' = [rateTable EXCEPT ![d] = rate] /\ shown' = -1 /\ today' = today
      /\ UNCHANGED <<items, matches, revaluations, accounting>>
  BY DEF EnterRate, workdayVars
<1>2. HasRate'
  <2>1. today \in 0 .. LastDay /\ DOMAIN rateTable = 0 .. LastDay BY DEF CurrencyTypes
  <2>2. d \in 0 .. LastDay /\ rate # 0 BY <2>1, LastDayAssumption, CurrencyAssumption
  <2>3. rateTable'[d] # 0 BY <1>1, <2>1, <2>2
  <2>4. PICK T, t : T = rateTable' /\ t = today OBVIOUS
  <2>5. T \in [0 .. LastDay -> Nat] /\ t \in 0 .. LastDay /\ d \in 0 .. t /\ T[d] # 0 BY <2>1, <2>3, <2>4 DEF CurrencyTypes
  <2>6. RateIn(T, t) # 0 BY <2>5, RateInIs
  <2>7. RateOn(today)' = RateIn(T, t) BY <1>1, <2>4 DEF RateOn, RateIn
  <2> QED BY <2>6, <2>7 DEF HasRate
<1>3. UndoneInv' /\ WholeInv' BY <1>1 DEF ShownInv, UndoneInv, WholeInv
<1>4. \A v \in Clerks : CallShown(accounting[v])' BY <1>1, ShownRest
<1> QED BY <1>1, <1>2, <1>3, <1>4 DEF ShownInv

LEMMA ShownForeign ==
  ASSUME CurrencyTypes, ShownInv, NEW account \in {"receivable", "payable"}, NEW n \in Int, n # 0, PostForeign(account, n), UNCHANGED workdayVars
  PROVE  ShownInv'
<1>1. PICK worth : worth = n * RateOn(today) OBVIOUS
<1>2. PICK r : r = [account |-> account, cur |-> n, balance |-> worth, residual |-> worth] OBVIOUS
<1>3. /\ items' = Append(items, r) /\ shown' = -1 /\ AtRest /\ RateOn(today) # 0
      /\ UNCHANGED <<rateTable, matches, revaluations, accounting>>
  BY <1>1, <1>2 DEF PostForeign
<1>4. RateOn(today) \in Nat
  <2>1. today \in 0 .. LastDay BY DEF CurrencyTypes
  <2> QED BY <2>1, RateIs
<1>5. worth \in Int /\ (worth > 0 => n > 0)
  <2>1. PICK q : q = RateOn(today) OBVIOUS
  <2>2. q \in Nat BY <1>4, <2>1
  <2>3. worth \in Int /\ (n <= 0 => n * q <= 0) BY <1>1, <2>1, <2>2
  <2> QED BY <1>1, <2>1, <2>3
<1>6. r \in ItemRows BY <1>2, <1>5 DEF ItemRows
<1>7. HasRate' BY <1>3, RateStays DEF HasRate
<1>8. WholeInv'
  <2>1. /\ DOMAIN items' = DOMAIN items \cup {Len(items) + 1} /\ items'[Len(items) + 1] = r
        /\ \A i \in DOMAIN items : items'[i] = items[i]
    BY <1>3, <1>6, ItemAdded
  <2>2. r.residual = r.balance /\ (r.residual > 0 => r.cur > 0) BY <1>2, <1>5
  <2>3. matches = <<>> => \A i \in DOMAIN items : /\ items[i].residual = items[i].balance
                                                  /\ items[i].residual > 0 => items[i].cur > 0
    <3>1. WholeInv BY DEF ShownInv
    <3> QED BY <3>1 DEF WholeInv
  <2> QED BY <1>3, <2>1, <2>2, <2>3 DEF WholeInv
<1>9. UndoneInv' BY <1>3 DEF ShownInv, UndoneInv
<1>10. \A v \in Clerks : CallShown(accounting[v])' BY <1>3, ShownRest
<1> QED BY <1>3, <1>7, <1>8, <1>9, <1>10 DEF ShownInv

LEMMA ShownPosted ==
  ASSUME CurrencyTypes, ShownInv, NEW k \in DOMAIN revaluations, PostReversal(k), UNCHANGED workdayVars
  PROVE  ShownInv'
<1>1. /\ AtRest /\ revaluations' = [revaluations EXCEPT ![k].reversal = "posted"] /\ shown' = -1
      /\ revaluations[k].reversal = "draft" /\ UNCHANGED <<rateTable, items, matches, accounting>>
  BY DEF PostReversal
<1>2. Reverses(k, "posted", revaluations[k].undone) BY <1>1, PostsReversal
<1>3. revaluations[k].undone = -revaluations[k].amount BY <1>1 DEF ShownInv, UndoneInv
<1>4. UndoneInv'
  <2>1. \A j \in DOMAIN revaluations : j # k => revaluations'[j] = revaluations[j] BY <1>2 DEF Reverses
  <2>2. DOMAIN revaluations' = DOMAIN revaluations /\ revaluations'[k].reversal = "posted"
        /\ revaluations'[k].undone = -revaluations[k].amount /\ revaluations'[k].amount = revaluations[k].amount
    BY <1>2, <1>3 DEF Reverses
  <2> QED BY <2>1, <2>2 DEF ShownInv, UndoneInv
<1>5. HasRate' /\ WholeInv' BY <1>1, RateStays DEF ShownInv, HasRate, WholeInv
<1>6. \A v \in Clerks : CallShown(accounting[v])' BY <1>1, ShownRest
<1> QED BY <1>1, <1>4, <1>5, <1>6 DEF ShownInv

\* Nothing but calls changes.
LEMMA ShownCalls ==
  ASSUME CurrencyTypes, ShownInv, UNCHANGED <<rateTable, items, matches, revaluations>>, UNCHANGED workdayVars,
         NEW u \in Clerks, NEW c, CallTurned(u, c), CallShown(c)', shown' >= 0 => Valued(shown, {})'
  PROVE  ShownInv'
<1>1. RateOn(today)' = RateOn(today) BY RateStays
<1>2. HasRate' /\ UndoneInv' /\ WholeInv' BY <1>1 DEF ShownInv, HasRate, UndoneInv, WholeInv
<1>3. \A v \in Clerks : CallShown(accounting[v])' BY ShownTurn
<1> QED BY <1>2, <1>3 DEF ShownInv

LEMMA ShownMatchBegin ==
  ASSUME CurrencyTypes, ShownInv, NEW u \in Clerks, NEW d \in DOMAIN items, NEW c \in DOMAIN items, MatchBegin(u, d, c), UNCHANGED workdayVars
  PROVE  ShownInv'
<1>1. PICK row \in MatchRows, whole \in BOOLEAN :
        Accounting(u, [op |-> "match", row |-> row, whole |-> whole]) /\ Proposed(row, d, c)
  BY ProposalTyped
<1>2. PICK k : k = [op |-> "match", row |-> row, whole |-> whole] OBVIOUS
<1>3. AtRest /\ UNCHANGED <<rateTable, items, matches, revaluations, shown>> BY DEF MatchBegin
<1>4. CallTurned(u, k) BY <1>1, <1>2, <1>3, CallTurns
<1>5. CallShown(k)' BY <1>2 DEF CallShown
<1>6. ASSUME shown' >= 0 PROVE Valued(shown, {})'
  <2>1. PICK s : s = shown OBVIOUS
  <2>2. Valued(s, {}) BY <1>3, <1>6, <2>1 DEF ShownInv
  <2>3. Valued(s, {})' BY <1>3, <2>2, RateStays, ValuedStays
  <2> QED BY <1>3, <2>1, <2>3
<1> QED BY <1>3, <1>4, <1>5, <1>6, ShownCalls

LEMMA ShownMatchWrite ==
  ASSUME CurrencyTypes, ShownInv, NEW u \in Clerks, MatchWrite(u), UNCHANGED workdayVars
  PROVE  ShownInv'
<1>1. PICK row \in MatchRows : \E dLeft \in Int, cLeft \in Int :
           /\ accounting[u].op = "match" /\ row = accounting[u].row /\ row.debit \in DOMAIN items /\ row.credit \in DOMAIN items
           /\ row.debit # row.credit /\ matches' = Append(matches, row) /\ Leaves(row.debit, dLeft, row.credit, cLeft)
           /\ dLeft = items[row.debit].residual - row.amount /\ cLeft = items[row.credit].residual + row.amount
           /\ \E c : Accounting(u, c) /\ (c = Idle \/ (c.op = "result" /\ c.item \in DOMAIN items))
           /\ shown' = -1 /\ UNCHANGED <<rateTable, revaluations>>
  BY MatchWritten
<1>2. PICK c : Accounting(u, c) /\ (c = Idle \/ (c.op = "result" /\ c.item \in DOMAIN items)) BY <1>1
<1>3. matches' # <<>> BY <1>1 DEF CurrencyTypes
<1>4. HasRate'
  <2>1. DOMAIN items # {} BY <1>1
  <2>2. items # <<>> BY <2>1
  <2> QED BY <1>1, <2>2, RateStays DEF ShownInv, HasRate
<1>5. UndoneInv' /\ WholeInv' BY <1>1, <1>3 DEF ShownInv, UndoneInv, WholeInv
<1>6. CallShown(c)' BY <1>1, <1>2, <1>3 DEF CallShown, Idle
<1>7. CallTurned(u, c) BY <1>1, <1>2, UnderWay, CallTurns
<1>8. \A v \in Clerks : CallShown(accounting[v])' BY <1>6, <1>7, ShownTurn
<1> QED BY <1>1, <1>4, <1>5, <1>8 DEF ShownInv

LEMMA ShownResult ==
  ASSUME CurrencyTypes, ShownInv, NEW u \in Clerks, PostResult(u), UNCHANGED workdayVars
  PROVE  ShownInv'
<1>1. PICK r \in ItemRows : \E c :
           /\ accounting[u].op = "result" /\ items' = Append(items, r) /\ r.cur = 0 /\ Accounting(u, c)
           /\ c.op = "settle" /\ c.item = accounting[u].item /\ c.with = Len(items) + 1 /\ c.item \in DOMAIN items
           /\ UNCHANGED <<rateTable, matches, revaluations, shown>>
  BY ResultPosted
<1>2. PICK c : Accounting(u, c) /\ c.op = "settle" /\ c.item \in DOMAIN items BY <1>1
<1>3. matches # <<>> /\ shown = -1 BY <1>1 DEF ShownInv, CallShown
<1>4. HasRate'
  <2>1. DOMAIN items # {} BY <1>2
  <2>2. items # <<>> BY <2>1
  <2> QED BY <1>1, <2>2, RateStays DEF ShownInv, HasRate
<1>5. UndoneInv' /\ WholeInv' BY <1>1, <1>3 DEF ShownInv, UndoneInv, WholeInv
<1>6. CallShown(c)' BY <1>1, <1>2, <1>3 DEF CallShown
<1>7. CallTurned(u, c) BY <1>1, <1>2, UnderWay, CallTurns
<1>8. \A v \in Clerks : CallShown(accounting[v])' BY <1>6, <1>7, ShownTurn
<1> QED BY <1>1, <1>3, <1>4, <1>5, <1>8 DEF ShownInv

LEMMA ShownSettle ==
  ASSUME CurrencyTypes, ShownInv, NEW u \in Clerks, SettleResult(u), UNCHANGED workdayVars
  PROVE  ShownInv'
<1>1. PICK row \in MatchRows : \E i \in DOMAIN items, w \in DOMAIN items :
           /\ accounting[u].op = "settle" /\ matches' = Append(matches, row) /\ {row.debit, row.credit} = {i, w}
           /\ row.debitCur = 0 /\ row.creditCur = 0
           /\ Leaves(i, 0, w, 0) /\ Accounting(u, Idle) /\ UNCHANGED <<rateTable, revaluations, shown>>
  BY ResultSettled
<1>2. PICK i \in DOMAIN items, w \in DOMAIN items : Leaves(i, 0, w, 0) BY <1>1
<1>10. matches \in Seq(MatchRows) BY DEF CurrencyTypes
<1>3. matches' # <<>> BY <1>1, <1>10
<1>4. shown = -1 BY <1>1 DEF ShownInv, CallShown
<1>5. HasRate'
  <2>1. DOMAIN items # {} BY <1>2
  <2>2. items # <<>> BY <2>1
  <2> QED BY <1>1, <2>2, RateStays DEF ShownInv, HasRate
<1>6. UndoneInv' /\ WholeInv' BY <1>1, <1>3 DEF ShownInv, UndoneInv, WholeInv
<1>7. CallShown(Idle)' BY DEF CallShown, Idle
<1>8. CallTurned(u, Idle) BY <1>1, UnderWay, CallTurns
<1>9. \A v \in Clerks : CallShown(accounting[v])' BY <1>7, <1>8, ShownTurn
<1> QED BY <1>1, <1>4, <1>5, <1>6, <1>9 DEF ShownInv

LEMMA ShownRevalueBegin ==
  ASSUME CurrencyTypes, ShownInv, NEW u \in Clerks, RevalueBegin(u), UNCHANGED workdayVars
  PROVE  ShownInv'
<1>1. PICK T : T = {i \in DOMAIN items : items[i].cur # 0 /\ items[i].residual # 0} OBVIOUS
<1>2. PICK c : c = [op |-> "revalue", from |-> Len(revaluations), todo |-> T] OBVIOUS
<1>3. AtRest /\ Accounting(u, c) /\ shown' = -1 /\ UNCHANGED <<rateTable, items, matches, revaluations>>
  BY <1>1, <1>2 DEF RevalueBegin
<1>4. CallTurned(u, c) BY <1>3, CallTurns
<1>5. c.op = "revalue" /\ c.from = Len(revaluations) /\ c.todo = T BY <1>2
<1>6. Valued(Len(revaluations), T)'
  <2>1. Len(revaluations) \in Nat /\ DOMAIN revaluations = 1 .. Len(revaluations) BY DEF CurrencyTypes
  <2>2. \A i \in DOMAIN items \ T : ~(items[i].cur > 0 /\ items[i].residual > 0) BY <1>1
  <2> QED BY <1>3, <2>1, <2>2 DEF Valued
<1>7. CallShown(c)' BY <1>3, <1>5, <1>6 DEF CallShown
<1> QED BY <1>3, <1>4, <1>7, ShownCalls

LEMMA ShownRevalueEnd ==
  ASSUME CurrencyTypes, ShownInv, NEW u \in Clerks, RevalueEnd(u), UNCHANGED workdayVars
  PROVE  ShownInv'
<1>1. PICK k : k = accounting[u] OBVIOUS
<1>2. /\ k.op = "revalue" /\ k.todo = {} /\ Accounting(u, Idle) /\ shown' = k.from
      /\ UNCHANGED <<rateTable, items, matches, revaluations>>
  BY <1>1 DEF RevalueEnd
<1>3. Valued(k.from, {}) BY <1>1, <1>2 DEF ShownInv, CallShown
<1>4. PICK s : s = k.from OBVIOUS
<1>5. Valued(s, {})' BY <1>2, <1>3, <1>4, RateStays, ValuedStays
<1>6. CallTurned(u, Idle) BY <1>1, <1>2, UnderWay, CallTurns
<1>7. CallShown(Idle)' BY DEF CallShown, Idle
<1> QED BY <1>2, <1>4, <1>5, <1>6, <1>7, ShownCalls

LEMMA ShownStop ==
  ASSUME CurrencyTypes, ShownInv, NEW u \in Clerks, AccountingStops(u), UNCHANGED workdayVars
  PROVE  ShownInv'
<1>1. Occupied(u) /\ Accounting(u, Idle) /\ UNCHANGED <<rateTable, items, matches, revaluations, shown>>
  BY DEF AccountingStops, Occupied
<1>2. ASSUME shown' >= 0 PROVE Valued(shown, {})'
  <2>1. PICK s : s = shown OBVIOUS
  <2>2. Valued(s, {}) BY <1>1, <1>2, <2>1 DEF ShownInv
  <2>3. Valued(s, {})' BY <1>1, <2>2, RateStays, ValuedStays
  <2> QED BY <1>1, <2>1, <2>3
<1>3. CallTurned(u, Idle) BY <1>1, CallTurns
<1>4. CallShown(Idle)' BY DEF CallShown, Idle
<1> QED BY <1>1, <1>2, <1>3, <1>4, ShownCalls

LEMMA ShownNextDay ==
  ASSUME CurrencyTypes, ShownInv, NextDay, shown' = -1, UNCHANGED <<rateTable, items, matches, revaluations, accounting>>
  PROVE  ShownInv'
<1>1. RateOn(today)' = RateOn(today) BY RateStays
<1>2. HasRate' /\ UndoneInv' /\ WholeInv' BY <1>1 DEF ShownInv, HasRate, UndoneInv, WholeInv
<1>3. \A v \in Clerks : CallShown(accounting[v])'
  <2>1. TAKE v \in Clerks
  <2>2. PICK k : k = accounting[v] OBVIOUS
  <2>3. CallShown(k) BY <2>2 DEF ShownInv
  <2>4. k.op \in {"revalue", "undo"} => Valued(k.from, k.todo)'
    <3>1. PICK a, b : a = k.from /\ b = k.todo OBVIOUS
    <3>2. Valued(a, b) => Valued(a, b)' BY <1>1, ValuedStays
    <3> QED BY <2>3, <3>1, <3>2 DEF CallShown
  <2>5. CallShown(k)' BY <2>3, <2>4 DEF CallShown
  <2> QED BY <2>2, <2>5
<1> QED BY <1>2, <1>3 DEF ShownInv

LEMMA ShownDraft ==
  ASSUME CurrencyTypes, CurrencyTypes', ShownInv, NEW u \in Clerks, DraftReversal(u), UNCHANGED workdayVars
  PROVE  ShownInv'
<1>1. PICK k, last : k = accounting[u] /\ last = Len(revaluations) OBVIOUS
<1>2. /\ k.op = "undo" /\ k.from \in 0 .. last /\ last \in DOMAIN revaluations
      /\ Reverses(last, "draft", -revaluations[last].amount)
      /\ Accounting(u, [op |-> "revalue", from |-> k.from, todo |-> k.todo])
      /\ UNCHANGED <<rateTable, items, matches, shown>>
  BY <1>1, ReversalDrafted
<1>3. PICK c : c = [op |-> "revalue", from |-> k.from, todo |-> k.todo] OBVIOUS
<1>4. Valued(k.from, k.todo) /\ shown = -1 BY <1>1, <1>2 DEF ShownInv, CallShown
<1>5. /\ \A j \in DOMAIN revaluations : revaluations'[j].item = revaluations[j].item /\ revaluations'[j].amount = revaluations[j].amount
      /\ \A j \in DOMAIN revaluations : j # last => revaluations'[j] = revaluations[j]
      /\ DOMAIN revaluations' = DOMAIN revaluations /\ Len(revaluations') = Len(revaluations)
      /\ revaluations'[last].reversal = "draft" /\ revaluations'[last].undone = -revaluations[last].amount
  BY <1>2 DEF Reverses
<1>6. UndoneInv'
  <2>1. revaluations'[last].amount = revaluations[last].amount BY <1>2, <1>5
  <2> QED BY <1>2, <1>5, <2>1 DEF ShownInv, UndoneInv
<1>7. RateOn(today)' = RateOn(today) BY <1>2, RateStays
<1>8. HasRate' /\ WholeInv' BY <1>2, <1>7 DEF ShownInv, HasRate, WholeInv
<1>9. PICK from, todo : from = k.from /\ todo = k.todo OBVIOUS
<1>10. Valued(from, todo)'
  <2>1. revaluations \in Seq(Revaluations) /\ revaluations' \in Seq(Revaluations) BY DEF CurrencyTypes
  <2>2. \A i : Since(revaluations', i, from) = Since(revaluations, i, from)
    <3>1. PICK R, Q : R = revaluations /\ Q = revaluations' OBVIOUS
    <3>2. /\ R \in Seq(Revaluations) /\ Q \in Seq(Revaluations) /\ DOMAIN Q = DOMAIN R
          /\ \A j \in DOMAIN R : Q[j].item = R[j].item /\ Q[j].amount = R[j].amount
      BY <1>5, <2>1, <3>1
    <3>3. \A i : Since(Q, i, from) = Since(R, i, from) BY ONLY <3>2, SinceSame
    <3> QED BY <3>1, <3>3
  <2>3. Valued(from, todo) BY <1>4, <1>9
  <2>4. \A j \in DOMAIN revaluations : j > from => revaluations'[j].reversal # "posted" /\ revaluations'[j].item \notin todo
    BY <1>5, <2>3 DEF Valued
  <2>5. from \in 0 .. Len(revaluations') BY <1>5, <2>3 DEF Valued
  <2> QED BY <1>2, <1>5, <1>7, <2>2, <2>3, <2>4, <2>5 DEF Valued
<1>11. c.op = "revalue" /\ c.from = from /\ c.todo = todo BY <1>3, <1>9
<1>12. CallShown(c)' BY <1>2, <1>4, <1>10, <1>11 DEF CallShown
<1>13. CallTurned(u, c) BY <1>1, <1>2, <1>3, UnderWay, CallTurns
<1>14. \A v \in Clerks : CallShown(accounting[v])' BY <1>12, <1>13, ShownTurn
<1> QED BY <1>2, <1>4, <1>6, <1>8, <1>14 DEF ShownInv

\* A line is revalued.
LEMMA AdjustmentIs ==
  ASSUME NEW i, items[i].residual \in Int, items[i].residual >= 0
  PROVE  \A diff \in Int : diff # 0 => Adjustment(i, diff) = diff
BY DEF Adjustment, Size

LEMMA ShownLine ==
  ASSUME CurrencyTypes, CurrencyTypes', ShownInv, NEW u \in Clerks, NEW i \in DOMAIN items, RevalueLine(u, i), UNCHANGED workdayVars
  PROVE  ShownInv'
<1>1. PICK k : k = accounting[u] OBVIOUS
<1>2. PICK diff : diff = Difference(i) OBVIOUS
<1>3. /\ k.op = "revalue" /\ k.from \in 0 .. Len(revaluations) /\ i \in k.todo /\ diff \in Int
      /\ UNCHANGED <<rateTable, items, matches, shown>>
      /\ \E c : /\ Accounting(u, c) /\ c = [op |-> c.op, from |-> k.from, todo |-> k.todo \ {i}]
                /\ \/ /\ c.op = "revalue" /\ UNCHANGED revaluations /\ (RateOn(today) = 0 \/ diff = 0)
                   \/ /\ c.op = "undo" /\ ~(RateOn(today) = 0 \/ diff = 0)
                      /\ \E r \in Revaluations : /\ revaluations' = Append(revaluations, r) /\ r.item = i
                                                 /\ r.reversal = "none" /\ r.undone = 0 /\ r.amount = Adjustment(i, diff)
  BY <1>1, <1>2, LineRevalued
<1>4. PICK c : /\ Accounting(u, c) /\ c = [op |-> c.op, from |-> k.from, todo |-> k.todo \ {i}]
               /\ \/ /\ c.op = "revalue" /\ UNCHANGED revaluations /\ (RateOn(today) = 0 \/ diff = 0)
                  \/ /\ c.op = "undo" /\ ~(RateOn(today) = 0 \/ diff = 0)
                     /\ \E r \in Revaluations : /\ revaluations' = Append(revaluations, r) /\ r.item = i
                                                /\ r.reversal = "none" /\ r.undone = 0 /\ r.amount = Adjustment(i, diff)
  BY <1>3
<1>5. PICK from, todo : from = k.from /\ todo = k.todo OBVIOUS
<1>6. c.from = from /\ c.todo = todo \ {i} /\ c.op \in {"revalue", "undo"} BY <1>4, <1>5
<1>7. Valued(from, todo) /\ shown = -1 BY <1>1, <1>3, <1>5 DEF ShownInv, CallShown
<1>8. RateOn(today)' = RateOn(today) BY <1>3, RateStays
<1>9. HasRate' /\ WholeInv' BY <1>3, <1>8 DEF ShownInv, HasRate, WholeInv
<1>10. revaluations \in Seq(Revaluations) /\ Len(revaluations) \in Nat /\ DOMAIN revaluations = 1 .. Len(revaluations)
  BY DEF CurrencyTypes
<1>11. Since(revaluations, i, from) = 0
  <2>1. \A j \in DOMAIN revaluations : j > from => revaluations[j].item # i BY <1>3, <1>5, <1>7 DEF Valued
  <2> QED BY <2>1, SinceNone
<1>12. ASSUME items[i].cur > 0, items[i].residual > 0
       PROVE  diff = items[i].cur * RateOn(today) - items[i].residual
  <2>1. items[i] \in ItemRows BY DEF CurrencyTypes
  <2>2. Size(items[i].cur) = items[i].cur /\ Size(items[i].residual) = items[i].residual BY <1>12, <2>1, SizeIs DEF ItemRows
  <2> QED BY <1>2, <2>2 DEF Difference
<1>13. UndoneInv' /\ Valued(from, todo \ {i})'
  <2>1. CASE UNCHANGED revaluations /\ (RateOn(today) = 0 \/ diff = 0)
    <3>1. UndoneInv' BY <2>1 DEF ShownInv, UndoneInv
    <3>2. diff = 0
      <4>1. items # <<>> OBVIOUS
      <4> QED BY <2>1, <4>1 DEF ShownInv, HasRate
    <3>3. \A j \in DOMAIN items \ (todo \ {i}) : items[j].cur > 0 /\ items[j].residual > 0 =>
            Since(revaluations, j, from) = items[j].cur * RateOn(today) - items[j].residual
      <4>1. TAKE j \in DOMAIN items \ (todo \ {i})
      <4>2. CASE j = i BY <1>11, <1>12, <3>2, <4>2
      <4>3. CASE j # i BY <1>7, <4>3 DEF Valued
      <4> QED BY <4>2, <4>3
    <3>4. Valued(from, todo \ {i})' BY <1>3, <1>7, <1>8, <2>1, <3>3 DEF Valued
    <3> QED BY <3>1, <3>4
  <2>2. ASSUME NEW r \in Revaluations, revaluations' = Append(revaluations, r), r.item = i, r.reversal = "none", r.undone = 0,
               r.amount = Adjustment(i, diff), ~(RateOn(today) = 0 \/ diff = 0)
        PROVE  UndoneInv' /\ Valued(from, todo \ {i})'
    <3>1. /\ Len(revaluations') = Len(revaluations) + 1 /\ DOMAIN revaluations' = DOMAIN revaluations \cup {Len(revaluations) + 1}
          /\ revaluations'[Len(revaluations) + 1] = r /\ \A j \in DOMAIN revaluations : revaluations'[j] = revaluations[j]
      BY <2>2, Adjusted
    <3>2. UndoneInv' BY <2>2, <3>1 DEF ShownInv, UndoneInv
    <3>3. \A j : Since(revaluations', j, from) = Since(revaluations, j, from) + (IF i = j THEN r.amount ELSE 0)
      <4>1. PICK R, Q : R = revaluations /\ Q = revaluations' OBVIOUS
      <4>2. R \in Seq(Revaluations) /\ Q = Append(R, r) /\ from \in 0 .. Len(R) BY <1>3, <1>5, <1>10, <2>2, <4>1
      <4>3. \A j : Since(Q, j, from) = Since(R, j, from) + (IF r.item = j THEN r.amount ELSE 0)
        <5>1. TAKE j
        <5>2. r \in Revaluations BY <2>2
        <5>3. Since(Append(R, r), j, from) = Since(R, j, from) + (IF r.item = j THEN r.amount ELSE 0)
          BY ONLY <4>2, <5>2, SinceMore
        <5> QED BY <4>2, <5>3
      <4> QED BY <2>2, <4>1, <4>3
    <3>4. \A j \in DOMAIN revaluations' : j > from =>
            revaluations'[j].reversal # "posted" /\ revaluations'[j].item \notin todo \ {i}
      BY <1>7, <2>2, <3>1 DEF Valued
    <3>5. \A j \in DOMAIN items \ (todo \ {i}) : items[j].cur > 0 /\ items[j].residual > 0 =>
            Since(revaluations', j, from) = items[j].cur * RateOn(today) - items[j].residual
      <4>1. SUFFICES ASSUME NEW j \in DOMAIN items \ (todo \ {i}), items[j].cur > 0, items[j].residual > 0
                     PROVE  Since(revaluations', j, from) = items[j].cur * RateOn(today) - items[j].residual
        OBVIOUS
      <4>2. CASE j = i
        <5>1. items[i].residual \in Int /\ items[i].residual >= 0
          <6>1. items[i] \in ItemRows BY DEF CurrencyTypes
          <6> QED BY <4>1, <4>2, <6>1 DEF ItemRows
        <5>2. r.amount = diff BY <1>3, <2>2, <5>1, AdjustmentIs
        <5>3. diff = items[i].cur * RateOn(today) - items[i].residual BY <1>12, <4>1, <4>2
        <5>4. Since(revaluations', i, from) = 0 + r.amount BY <1>11, <3>3
        <5> QED BY <1>3, <4>2, <5>2, <5>3, <5>4
      <4>3. CASE j # i
        <5>1. Since(revaluations, j, from) = items[j].cur * RateOn(today) - items[j].residual BY <1>7, <4>1, <4>3 DEF Valued
        <5>2. Since(revaluations', j, from) = Since(revaluations, j, from) + 0 BY <3>3, <4>3
        <5>3. Since(revaluations, j, from) \in Int
          <6>1. items[j] \in ItemRows BY DEF CurrencyTypes
          <6>2. today \in 0 .. LastDay BY DEF CurrencyTypes
          <6>3. RateOn(today) \in Nat BY <6>2, RateIs
          <6> QED BY <5>1, <6>1, <6>3 DEF ItemRows
        <5> QED BY <5>1, <5>2, <5>3
      <4> QED BY <4>2, <4>3
    <3>6. from \in 0 .. Len(revaluations') BY <1>3, <1>5, <1>10, <3>1
    <3>7. Valued(from, todo \ {i})' BY <1>3, <1>8, <3>4, <3>5, <3>6 DEF Valued
    <3> QED BY <3>2, <3>7
  <2>3. CASE UNCHANGED revaluations /\ (RateOn(today) = 0 \/ diff = 0) BY <2>1, <2>3
  <2>4. CASE ~(RateOn(today) = 0 \/ diff = 0) BY <1>4, <2>2, <2>4
  <2> QED BY <1>4, <2>3, <2>4
<1>14. CallShown(c)' BY <1>3, <1>6, <1>7, <1>13 DEF CallShown
<1>15. CallTurned(u, c) BY <1>1, <1>3, <1>4, UnderWay, CallTurns
<1>16. \A v \in Clerks : CallShown(accounting[v])' BY <1>14, <1>15, ShownTurn
<1> QED BY <1>3, <1>7, <1>9, <1>13, <1>16 DEF ShownInv

LEMMA ShownStep ==
  ASSUME CurrencyTypes, CurrencyTypes', ShownInv, CurrencyNext
  PROVE  ShownInv'
<1>1. CASE NextDay /\ shown' = -1 /\ UNCHANGED <<rateTable, items, matches, revaluations, accounting>> BY <1>1, ShownNextDay
<1>2. CASE ~(NextDay /\ shown' = -1 /\ UNCHANGED <<rateTable, items, matches, revaluations, accounting>>)
  <2>0. UNCHANGED workdayVars BY <1>2, CurrencyActions
  <2>1. ASSUME NEW d \in 0 .. today, NEW rate \in Rates, EnterRate(d, rate) PROVE ShownInv' BY <2>0, <2>1, ShownRates
  <2>2. ASSUME NEW account \in {"receivable", "payable"}, NEW n \in Int, n # 0, PostForeign(account, n) PROVE ShownInv'
    BY <2>0, <2>2, ShownForeign
  <2>3. ASSUME NEW k \in DOMAIN revaluations, PostReversal(k) PROVE ShownInv' BY <2>0, <2>3, ShownPosted
  <2>4. ASSUME NEW u \in Clerks, NEW d \in DOMAIN items, NEW c \in DOMAIN items, MatchBegin(u, d, c) PROVE ShownInv'
    BY <2>0, <2>4, ShownMatchBegin
  <2>5. ASSUME NEW u \in Clerks, NEW i \in DOMAIN items, RevalueLine(u, i) PROVE ShownInv' BY <2>0, <2>5, ShownLine
  <2>6. ASSUME NEW u \in Clerks, MatchWrite(u) PROVE ShownInv' BY <2>0, <2>6, ShownMatchWrite
  <2>7. ASSUME NEW u \in Clerks, PostResult(u) PROVE ShownInv' BY <2>0, <2>7, ShownResult
  <2>8. ASSUME NEW u \in Clerks, SettleResult(u) PROVE ShownInv' BY <2>0, <2>8, ShownSettle
  <2>9. ASSUME NEW u \in Clerks, RevalueBegin(u) PROVE ShownInv' BY <2>0, <2>9, ShownRevalueBegin
  <2>10. ASSUME NEW u \in Clerks, DraftReversal(u) PROVE ShownInv' BY <2>0, <2>10, ShownDraft
  <2>11. ASSUME NEW u \in Clerks, RevalueEnd(u) PROVE ShownInv' BY <2>0, <2>11, ShownRevalueEnd
  <2>12. ASSUME NEW u \in Clerks, AccountingStops(u) PROVE ShownInv' BY <2>0, <2>12, ShownStop
  <2> QED BY <1>2, <2>1, <2>2, <2>3, <2>4, <2>5, <2>6, <2>7, <2>8, <2>9, <2>10, <2>11, <2>12, CurrencyActions
<1> QED BY <1>1, <1>2

\* After a revaluation that went through, the account shows each open invoice at today's rate.
LEMMA ShownFollows ==
  ASSUME CurrencyTypes, ShownInv
  PROVE  ShownAtClosingRate
<1>1. SUFFICES ASSUME shown >= 0, matches = <<>>, \A i \in DOMAIN items : items[i].residual > 0,
                      \A k \in 1 .. shown : revaluations[k].reversal = "posted",
                      NEW i \in DOMAIN items
               PROVE  OnAccount(i) = items[i].cur * RateOn(today)
  BY DEF ShownAtClosingRate
<1>2. PICK from : from = shown OBVIOUS
<1>3. Valued(from, {}) BY <1>1, <1>2 DEF ShownInv
<1>4. /\ from \in 0 .. Len(revaluations)
      /\ \A k \in DOMAIN revaluations : k > from => revaluations[k].reversal # "posted"
  BY <1>3 DEF Valued
<1>5. OnAccount(i) = items[i].balance + Since(revaluations, i, from)
  <2>1. \A k \in 1 .. from : revaluations[k].reversal = "posted" BY <1>1, <1>2
  <2>2. UndoneInv BY DEF ShownInv
  <2> QED BY <1>4, <2>1, <2>2, OnAccountIs
<1>6. items[i].residual = items[i].balance /\ items[i].cur > 0 BY <1>1 DEF ShownInv, WholeInv
<1>7. Since(revaluations, i, from) = items[i].cur * RateOn(today) - items[i].residual BY <1>1, <1>3, <1>6 DEF Valued
<1>8. items[i] \in ItemRows /\ RateOn(today) \in Nat
  <2>1. items[i] \in ItemRows /\ today \in 0 .. LastDay BY DEF CurrencyTypes
  <2> QED BY <2>1, RateIs
<1>9. items[i].cur * RateOn(today) \in Int /\ items[i].balance \in Int /\ items[i].residual \in Int BY <1>8 DEF ItemRows
<1> QED BY <1>5, <1>6, <1>7, <1>9

\* ShownAtClosingRate, for any number of documents, rates, matches and revaluations, wherever
\* calls end (AccountMove.revalue_currency_balances).
THEOREM ShownAtClosingRateHolds == CurrencySpec => []ShownAtClosingRate
<1>1. CurrencyInit /\ WorkdayInit => ShownInv
  <2>1. SUFFICES ASSUME CurrencyInit, WorkdayInit PROVE ShownInv OBVIOUS
  <2>2. shown = -1 /\ items = <<>> /\ matches = <<>> /\ revaluations = <<>> /\ accounting = [u \in Clerks |-> Idle]
    BY <2>1 DEF CurrencyInit
  <2>3. CallShown(Idle) BY DEF CallShown, Idle
  <2>4. \A u \in Clerks : CallShown(accounting[u]) BY <2>2, <2>3
  <2>5. HasRate /\ UndoneInv /\ WholeInv BY <2>2 DEF HasRate, UndoneInv, WholeInv
  <2> QED BY <2>2, <2>4, <2>5 DEF ShownInv
<1>2. CurrencyTypes /\ CurrencyTypes' /\ ShownInv /\ [CurrencyNext]_<<currencyVars, workdayVars>> => ShownInv'
  <2>1. CASE CurrencyNext BY <2>1, ShownStep
  <2>2. CASE UNCHANGED <<currencyVars, workdayVars>>
    BY <2>2 DEF ShownInv, HasRate, UndoneInv, WholeInv, CallShown, Valued, RateOn, currencyVars, workdayVars
  <2> QED BY <2>1, <2>2
<1>3. CurrencyTypes /\ ShownInv => ShownAtClosingRate BY ShownFollows
<1> QED BY <1>1, <1>2, <1>3, CurrencyTypesHold, PTL DEF CurrencySpec
-----------------------------------------------------------------------------
(* What is left of a line.                                                 *)
LEMMA ExactShare ==
  ASSUME NEW q \in Nat \ {0}, NEW left \in Nat, NEW x \in Nat, NEW a \in Nat, NEW rest \in Nat \ {0},
         rest = q * left, a <= rest, x * rest = a * left
  PROVE  a = q * x /\ x <= left /\ rest - a = q * (left - x)
<1>1. left > 0 BY SMT
<1>2. PICK m \in Nat : m = x * q OBVIOUS
<1>3. m * left = a * left
  <2>1. x * rest = x * (q * left) OBVIOUS
  <2>2. x * (q * left) = (x * q) * left BY SMT
  <2> QED BY <1>2, <2>1, <2>2
<1>4. a = m
  <2>1. CASE m < a
    <3>1. PICK d \in Nat \ {0} : a = m + d
      <4>1. a - m \in Nat \ {0} /\ a = m + (a - m) BY <2>1
      <4> QED BY <4>1
    <3>2. a * left = m * left + d * left BY <3>1
    <3>3. d * left > 0 BY <1>1
    <3>4. PICK y, z \in Int : y = m * left /\ z = d * left OBVIOUS
    <3> QED BY <1>3, <3>2, <3>3, <3>4
  <2>2. CASE a < m
    <3>1. PICK d \in Nat \ {0} : m = a + d
      <4>1. m - a \in Nat \ {0} /\ m = a + (m - a) BY <2>2
      <4> QED BY <4>1
    <3>2. m * left = a * left + d * left BY <3>1
    <3>3. d * left > 0 BY <1>1
    <3>4. PICK y, z \in Int : y = a * left /\ z = d * left OBVIOUS
    <3> QED BY <1>3, <3>2, <3>3, <3>4
  <2> QED BY <2>1, <2>2
<1>5. a = q * x BY <1>2, <1>4
<1>6. x <= left
  <2>1. SUFFICES ASSUME x > left PROVE FALSE OBVIOUS
  <2>2. PICK d \in Nat \ {0} : x = left + d
    <3>1. x - left \in Nat \ {0} /\ x = left + (x - left) BY <2>1
    <3> QED BY <3>1
  <2>3. q * x = q * left + q * d BY <2>2
  <2>4. q * d > 0 OBVIOUS
  <2>5. PICK y, z \in Int : y = q * left /\ z = q * d OBVIOUS
  <2> QED BY <1>5, <2>3, <2>4, <2>5
<1>7. rest - a = q * (left - x)
  <2>1. q * (left - x) = q * left - q * x OBVIOUS
  <2> QED BY <1>5, <2>1
<1> QED BY <1>5, <1>6, <1>7

\* A debit of which a match takes its share.
LEMMA DebitLeft ==
  ASSUME NEW r \in ItemRows, NEW t \in ItemRows, NEW s \in Int, NEW x \in Nat, NEW a \in 0 .. r.residual,
         BookedRow(r, s), r.cur > 0, r.residual > 0, t.cur = r.cur, t.balance = r.balance, t.residual = r.residual - a,
         x * Size(r.residual) = a * Size(r.cur - s)
  PROVE  BookedRow(t, s + x)
<1>1. r.cur \in Int /\ r.residual \in Int BY DEF ItemRows
<1>2. PICK q \in Nat \ {0} : r.balance = q * r.cur /\ r.residual = q * (r.cur - s) /\ r.cur - s \in 0 .. r.cur
  BY <1>1 DEF BookedRow
<1>3. PICK left, rest : left = r.cur - s /\ rest = r.residual OBVIOUS
<1>4. left \in Nat /\ rest \in Nat \ {0} /\ a \in Nat /\ a <= rest /\ rest = q * left BY <1>1, <1>2, <1>3
<1>5. Size(r.residual) = rest /\ Size(r.cur - s) = left BY <1>1, <1>3, <1>4, SizeIs
<1>6. x * rest = a * left BY <1>5
<1>7. x <= left /\ rest - a = q * (left - x) BY ONLY <1>4, <1>6, q \in Nat \ {0}, x \in Nat, ExactShare
<1>8. t.cur - (s + x) = left - x BY <1>1, <1>3
<1>9. t.residual = q * (t.cur - (s + x)) BY <1>3, <1>7, <1>8
<1>10. t.cur - (s + x) \in 0 .. t.cur BY <1>1, <1>2, <1>3, <1>4, <1>7, <1>8
<1>11. t.balance = q * t.cur /\ t.cur > 0 BY <1>2
<1> QED BY <1>1, <1>9, <1>10, <1>11 DEF BookedRow

LEMMA CreditLeft ==
  ASSUME NEW r \in ItemRows, NEW t \in ItemRows, NEW s \in Int, NEW x \in Nat, NEW a \in Nat, a <= -r.residual,
         BookedRow(r, s), r.cur < 0, r.residual < 0, t.cur = r.cur, t.balance = r.balance, t.residual = r.residual + a,
         x * Size(r.residual) = a * Size(r.cur - s)
  PROVE  BookedRow(t, s - x)
<1>1. r.cur \in Int /\ r.residual \in Int BY DEF ItemRows
<1>2. PICK q \in Nat \ {0} : r.balance = q * r.cur /\ r.residual = q * (r.cur - s) /\ r.cur - s \in r.cur .. 0
  BY <1>1 DEF BookedRow
<1>3. PICK left, rest : left = s - r.cur /\ rest = -r.residual OBVIOUS
<1>4. left \in Nat /\ rest \in Nat \ {0} /\ a <= rest /\ r.cur - s = -left BY <1>1, <1>2, <1>3
<1>12. rest = q * left
  <2>1. r.residual = q * (-left) BY <1>2, <1>4
  <2>2. q * (-left) = -(q * left) BY <1>4
  <2>3. PICK p \in Int : p = q * left BY <1>4
  <2> QED BY <1>1, <1>3, <2>1, <2>2, <2>3
<1>5. Size(r.residual) = rest /\ Size(r.cur - s) = left BY <1>1, <1>3, <1>4, SizeIs
<1>6. x * rest = a * left BY <1>5
<1>7. x <= left /\ rest - a = q * (left - x) BY ONLY <1>4, <1>12, <1>6, q \in Nat \ {0}, x \in Nat, a \in Nat, ExactShare
<1>8. t.cur - (s - x) = x - left BY <1>1, <1>3
<1>9. t.residual = q * (t.cur - (s - x))
  <2>1. q * (x - left) = -(q * (left - x)) BY <1>4
  <2>2. PICK p \in Int : p = q * (left - x) BY <1>4
  <2>3. t.residual = -(rest - a) BY <1>1, <1>3
  <2> QED BY <1>4, <1>7, <1>8, <2>1, <2>2, <2>3
<1>10. t.cur - (s - x) \in t.cur .. 0 BY <1>1, <1>2, <1>3, <1>4, <1>7, <1>8
<1>11. t.balance = q * t.cur /\ t.cur < 0 BY <1>2
<1> QED BY <1>1, <1>9, <1>10, <1>11 DEF BookedRow

\* Lines and matches stay.
LEMMA LeftTurn ==
  ASSUME LeftInv, UNCHANGED <<items, matches>>, NEW u \in Clerks, NEW c, CallTurned(u, c), Proposes(c)'
  PROVE  LeftInv'
<1>1. Proposes(Idle)' BY DEF Proposes, Idle
<1>2. \A v \in Clerks : Proposes(accounting[v])'
  <2>1. TAKE v \in Clerks
  <2>2. CASE v = u BY <2>2 DEF CallTurned
  <2>3. CASE v # u
    <3>1. accounting'[v] = Idle BY <2>3 DEF CallTurned
    <3> QED BY <1>1, <3>1
  <2> QED BY <2>2, <2>3
<1> QED BY <1>2 DEF LeftInv

LEMMA LeftCalls ==
  ASSUME NEW u \in Clerks, NEW c, CallTurned(u, c), c.op # "match"
  PROVE  \A v \in Clerks : Proposes(accounting[v])'
<1>1. \A v \in Clerks : accounting'[v].op # "match" BY DEF CallTurned, Idle
<1> QED BY <1>1 DEF Proposes

LEMMA LeftRest ==
  ASSUME AtRest, UNCHANGED accounting
  PROVE  \A v \in Clerks : Proposes(accounting[v])'
<1>1. \A v \in Clerks : accounting'[v].op # "match" BY DEF AtRest, Idle
<1> QED BY <1>1 DEF Proposes

\* One more line, of which nothing is matched.
LEMMA LeftAdded ==
  ASSUME CurrencyTypes, LeftInv, NEW r \in ItemRows, items' = Append(items, r), UNCHANGED matches, BookedRow(r, 0)
  PROVE  \A i \in DOMAIN items' \ ClosedBy(matches') : BookedRow(items'[i], Shares(matches', i))
<1>1. /\ DOMAIN items' = DOMAIN items \cup {Len(items) + 1} /\ items'[Len(items) + 1] = r
      /\ Len(items) + 1 \notin DOMAIN items /\ \A i \in DOMAIN items : items'[i] = items[i]
  BY ItemAdded
<1>2. PICK n : n = Len(items) + 1 OBVIOUS
<1>3. Shares(matches, n) = 0
  <2>1. \A m \in DOMAIN matches : matches[m].debit # n /\ matches[m].credit # n BY <1>1, <1>2 DEF CurrencyTypes
  <2> QED BY <2>1, SharesNone
<1>4. BookedRow(items'[n], Shares(matches', n)) BY <1>1, <1>2, <1>3
<1>5. \A i \in DOMAIN items \ ClosedBy(matches') : BookedRow(items'[i], Shares(matches', i)) BY <1>1 DEF LeftInv
<1> QED BY <1>1, <1>2, <1>4, <1>5

LEMMA LeftForeign ==
  ASSUME CurrencyTypes, LeftInv, NEW account \in {"receivable", "payable"}, NEW n \in Int, n # 0, PostForeign(account, n)
  PROVE  LeftInv'
<1>1. PICK worth : worth = n * RateOn(today) OBVIOUS
<1>2. PICK r : r = [account |-> account, cur |-> n, balance |-> worth, residual |-> worth] OBVIOUS
<1>3. /\ items' = Append(items, r) /\ AtRest /\ RateOn(today) # 0 /\ UNCHANGED <<matches, accounting>>
  BY <1>1, <1>2 DEF PostForeign
<1>4. PICK q : q = RateOn(today) OBVIOUS
<1>5. q \in Nat \ {0}
  <2>1. today \in 0 .. LastDay BY DEF CurrencyTypes
  <2> QED BY <1>3, <1>4, <2>1, RateIs
<1>6. worth = n * q /\ worth = q * n /\ worth \in Int BY <1>1, <1>4, <1>5
<1>7. r \in ItemRows /\ r.cur = n /\ r.balance = worth /\ r.residual = worth BY <1>2, <1>6 DEF ItemRows
<1>8. BookedRow(r, 0)
  <2>1. n - 0 = n OBVIOUS
  <2>2. r.balance = q * r.cur /\ r.residual = q * (r.cur - 0) BY <1>6, <1>7, <2>1
  <2>3. (r.cur > 0 => r.cur - 0 \in 0 .. r.cur) /\ (r.cur < 0 => r.cur - 0 \in r.cur .. 0) BY <1>7
  <2> QED BY <1>5, <2>2, <2>3 DEF BookedRow
<1>9. \A i \in DOMAIN items' \ ClosedBy(matches') : BookedRow(items'[i], Shares(matches', i)) BY <1>3, <1>7, <1>8, LeftAdded
<1>10. \A v \in Clerks : Proposes(accounting[v])' BY <1>3, LeftRest
<1> QED BY <1>9, <1>10 DEF LeftInv

LEMMA LeftResult ==
  ASSUME CurrencyTypes, LeftInv, NEW u \in Clerks, PostResult(u)
  PROVE  LeftInv'
<1>1. PICK r \in ItemRows : \E c :
           /\ accounting[u].op = "result" /\ items' = Append(items, r) /\ r.cur = 0 /\ Accounting(u, c)
           /\ c.op = "settle" /\ c.item = accounting[u].item /\ c.with = Len(items) + 1 /\ c.item \in DOMAIN items
           /\ UNCHANGED <<rateTable, matches, revaluations, shown>>
  BY ResultPosted
<1>2. PICK c : Accounting(u, c) /\ c.op = "settle" BY <1>1
<1>3. CallTurned(u, c) BY <1>1, <1>2, UnderWay, CallTurns
<1>4. BookedRow(r, 0) BY <1>1 DEF BookedRow
<1>5. \A i \in DOMAIN items' \ ClosedBy(matches') : BookedRow(items'[i], Shares(matches', i)) BY <1>1, <1>4, LeftAdded
<1>6. \A v \in Clerks : Proposes(accounting[v])' BY <1>2, <1>3, LeftCalls
<1> QED BY <1>5, <1>6 DEF LeftInv

\* Whatever was closed stays so.
LEMMA ClosedGrow ==
  ASSUME NEW M \in Seq(MatchRows), NEW r \in MatchRows
  PROVE  /\ ClosedBy(M) \subseteq ClosedBy(Append(M, r))
         /\ r.debitCur = 0 /\ r.creditCur = 0 => {r.debit, r.credit} \subseteq ClosedBy(Append(M, r))
<1>1. PICK Q : Q = Append(M, r) OBVIOUS
<1>2. DOMAIN Q = DOMAIN M \cup {Len(M) + 1} /\ Q[Len(M) + 1] = r /\ \A m \in DOMAIN M : Q[m] = M[m] BY <1>1
<1>3. r.debit \in Nat /\ r.credit \in Nat BY DEF MatchRows
<1>4. ClosedBy(M) \subseteq ClosedBy(Q) BY <1>2 DEF ClosedBy
<1>5. r.debitCur = 0 /\ r.creditCur = 0 => {r.debit, r.credit} \subseteq ClosedBy(Q) BY <1>2, <1>3 DEF ClosedBy
<1> QED BY <1>1, <1>4, <1>5

LEMMA LeftSettle ==
  ASSUME CurrencyTypes, LeftInv, NEW u \in Clerks, SettleResult(u)
  PROVE  LeftInv'
<1>1. PICK row \in MatchRows : \E i \in DOMAIN items, w \in DOMAIN items :
           /\ accounting[u].op = "settle" /\ matches' = Append(matches, row) /\ {row.debit, row.credit} = {i, w}
           /\ row.debitCur = 0 /\ row.creditCur = 0
           /\ Leaves(i, 0, w, 0) /\ Accounting(u, Idle) /\ UNCHANGED <<rateTable, revaluations, shown>>
  BY ResultSettled
<1>2. PICK i \in DOMAIN items, w \in DOMAIN items : {row.debit, row.credit} = {i, w} /\ Leaves(i, 0, w, 0) BY <1>1
<1>3. matches \in Seq(MatchRows) BY DEF CurrencyTypes
<1>4. /\ items' \in Seq(ItemRows) /\ DOMAIN items' = DOMAIN items
      /\ \A j \in DOMAIN items : /\ items'[j].cur = items[j].cur /\ items'[j].balance = items[j].balance
                                 /\ items'[j].residual = IF j \in {i, w} THEN 0 ELSE items[j].residual
  BY <1>2, BothCleared
<1>5. \A j \in DOMAIN items' \ ClosedBy(matches') : BookedRow(items'[j], Shares(matches', j))
  <2>1. TAKE j \in DOMAIN items' \ ClosedBy(matches')
  <2>2. ClosedBy(matches) \subseteq ClosedBy(matches') /\ {i, w} \subseteq ClosedBy(matches') BY <1>1, <1>2, <1>3, ClosedGrow
  <2>3. j \in DOMAIN items \ ClosedBy(matches) /\ j # i /\ j # w BY <1>4, <2>2
  <2>4. BookedRow(items[j], Shares(matches, j)) BY <2>3 DEF LeftInv
  <2>5. Shares(matches', j) = Shares(matches, j)
    <3>1. PICK M : M = matches OBVIOUS
    <3>2. /\ DebitShares(Append(M, row), j) = DebitShares(M, j) + (IF row.debit = j THEN row.debitCur ELSE 0)
          /\ CreditShares(Append(M, row), j) = CreditShares(M, j) + (IF row.credit = j THEN row.creditCur ELSE 0)
      BY <1>3, <3>1, SharesGrow
    <3>3. DebitShares(M, j) \in Int /\ CreditShares(M, j) \in Int BY <1>3, <3>1, SharesTyped
    <3> QED BY <1>1, <3>1, <3>2, <3>3 DEF Shares
  <2>6. BookedRow(items'[j], Shares(matches, j)) BY <1>4, <2>3, <2>4 DEF BookedRow
  <2> QED BY <2>5, <2>6
<1>6. CallTurned(u, Idle) BY <1>1, UnderWay, CallTurns
<1>7. \A v \in Clerks : Proposes(accounting[v])' BY <1>6, LeftCalls DEF Idle
<1> QED BY <1>5, <1>7 DEF LeftInv

LEMMA LeftMatchBegin ==
  ASSUME CurrencyTypes, LeftInv, NEW u \in Clerks, NEW d \in DOMAIN items, NEW c \in DOMAIN items, MatchBegin(u, d, c)
  PROVE  LeftInv'
<1>1. PICK row \in MatchRows, whole \in BOOLEAN :
        Accounting(u, [op |-> "match", row |-> row, whole |-> whole]) /\ Proposed(row, d, c)
  BY ProposalTyped
<1>2. PICK k : k = [op |-> "match", row |-> row, whole |-> whole] OBVIOUS
<1>3. AtRest /\ UNCHANGED <<items, matches>> BY DEF MatchBegin
<1>4. CallTurned(u, k) BY <1>1, <1>2, <1>3, CallTurns
<1>5. row.debit = d /\ row.credit = c BY <1>1 DEF Proposed
<1>6. Proposed(row, d, c)' BY <1>1, <1>3 DEF Proposed
<1>7. Proposes(k)' BY <1>2, <1>5, <1>6 DEF Proposes
<1> QED BY <1>3, <1>4, <1>7, LeftTurn

\* A match takes its shares.
LEMMA LeftMatchWrite ==
  ASSUME CurrencyTypes, CurrencyTypes', SharesWhole, LeftInv, NEW u \in Clerks, MatchWrite(u)
  PROVE  LeftInv'
<1>1. PICK row \in MatchRows : \E dLeft \in Int, cLeft \in Int :
           /\ accounting[u].op = "match" /\ row = accounting[u].row /\ row.debit \in DOMAIN items /\ row.credit \in DOMAIN items
           /\ row.debit # row.credit /\ matches' = Append(matches, row) /\ Leaves(row.debit, dLeft, row.credit, cLeft)
           /\ dLeft = items[row.debit].residual - row.amount /\ cLeft = items[row.credit].residual + row.amount
           /\ \E c : Accounting(u, c) /\ (c = Idle \/ (c.op = "result" /\ c.item \in DOMAIN items))
           /\ shown' = -1 /\ UNCHANGED <<rateTable, revaluations>>
  BY MatchWritten
<1>2. PICK dLeft \in Int, cLeft \in Int :
        /\ Leaves(row.debit, dLeft, row.credit, cLeft)
        /\ dLeft = items[row.debit].residual - row.amount /\ cLeft = items[row.credit].residual + row.amount
  BY <1>1
<1>3. PICK c : Accounting(u, c) /\ (c = Idle \/ (c.op = "result" /\ c.item \in DOMAIN items)) BY <1>1
<1>4. PICK d, e : d = row.debit /\ e = row.credit OBVIOUS
<1>5. d \in DOMAIN items /\ e \in DOMAIN items /\ d # e BY <1>1, <1>4
<1>6. /\ items' \in Seq(ItemRows) /\ DOMAIN items' = DOMAIN items
      /\ \A j \in DOMAIN items : /\ items'[j].cur = items[j].cur /\ items'[j].balance = items[j].balance
                                 /\ items'[j].residual = IF j = e THEN cLeft ELSE IF j = d THEN dLeft ELSE items[j].residual
  BY <1>2, <1>4, <1>5, ItemsLeft
<1>7. Proposed(row, d, e) BY <1>1, <1>4 DEF LeftInv, Proposes
<1>8. matches \in Seq(MatchRows) BY DEF CurrencyTypes
<1>9. PICK M : M = matches OBVIOUS
<1>10. \A j : /\ DebitShares(Append(M, row), j) = DebitShares(M, j) + (IF row.debit = j THEN row.debitCur ELSE 0)
              /\ CreditShares(Append(M, row), j) = CreditShares(M, j) + (IF row.credit = j THEN row.creditCur ELSE 0)
              /\ DebitShares(M, j) \in Int /\ CreditShares(M, j) \in Int /\ Shares(M, j) \in Int
  BY <1>8, <1>9, SharesGrow, SharesTyped
<1>11. row.debitCur \in Nat /\ row.creditCur \in Nat /\ row.amount \in Nat /\ row.amount \in 0 .. items[d].residual
  BY <1>7 DEF MatchRows, Proposed
<1>12. /\ row.debitCur * Size(items[d].residual) = row.amount * Size(items[d].cur - Shares(M, d))
       /\ row.creditCur * Size(items[e].residual) = row.amount * Size(items[e].cur - Shares(M, e))
  <2>1. \A i : SharesOf(i) = Shares(M, i) BY <1>8, <1>9, SharesAre
  <2> QED BY <1>1, <1>4, <2>1 DEF SharesWhole, Remaining
<1>13. ClosedBy(matches) \subseteq ClosedBy(matches') BY <1>1, <1>8, ClosedGrow
<1>14. \A j \in DOMAIN items : items[j] \in ItemRows /\ items'[j] \in ItemRows BY <1>6 DEF CurrencyTypes
<1>15. \A j \in DOMAIN items' \ ClosedBy(matches') : BookedRow(items'[j], Shares(matches', j))
  <2>1. TAKE j \in DOMAIN items' \ ClosedBy(matches')
  <2>2. BookedRow(items[j], Shares(M, j)) /\ j \in DOMAIN items BY <1>6, <1>9, <1>13 DEF LeftInv
  <2>3. matches' = Append(M, row) BY <1>1, <1>9
  <2>4. CASE j = d
    <3>1. Shares(matches', j) = Shares(M, d) + row.debitCur
      <4>1. DebitShares(matches', d) = DebitShares(M, d) + row.debitCur BY <1>4, <1>10, <2>3
      <4>2. CreditShares(matches', d) = CreditShares(M, d) + 0 BY <1>4, <1>5, <1>10, <2>3
      <4> QED BY <1>10, <1>11, <2>4, <4>1, <4>2 DEF Shares
    <3>2. /\ items'[d].cur = items[d].cur /\ items'[d].balance = items[d].balance
          /\ items'[d].residual = items[d].residual - row.amount
      BY <1>2, <1>4, <1>5, <1>6
    <3>3. items[d].cur > 0 /\ items[d].residual > 0 BY <1>7 DEF Proposed
    <3>4. PICK r, t, s, x, a : r = items[d] /\ t = items'[d] /\ s = Shares(M, d) /\ x = row.debitCur /\ a = row.amount OBVIOUS
    <3>5. r \in ItemRows /\ t \in ItemRows /\ s \in Int /\ x \in Nat /\ a \in 0 .. r.residual BY <1>5, <1>10, <1>11, <1>14, <3>4
    <3>6. /\ BookedRow(r, s) /\ r.cur > 0 /\ r.residual > 0 /\ t.cur = r.cur /\ t.balance = r.balance
          /\ t.residual = r.residual - a /\ x * Size(r.residual) = a * Size(r.cur - s)
      BY <1>12, <2>2, <2>4, <3>2, <3>3, <3>4
    <3>7. BookedRow(t, s + x) BY ONLY <3>5, <3>6, DebitLeft
    <3> QED BY <2>4, <3>1, <3>4, <3>7
  <2>5. CASE j = e
    <3>1. Shares(matches', j) = Shares(M, e) - row.creditCur
      <4>1. CreditShares(matches', e) = CreditShares(M, e) + row.creditCur BY <1>4, <1>10, <2>3
      <4>2. DebitShares(matches', e) = DebitShares(M, e) + 0 BY <1>4, <1>5, <1>10, <2>3
      <4> QED BY <1>10, <1>11, <2>5, <4>1, <4>2 DEF Shares
    <3>2. /\ items'[e].cur = items[e].cur /\ items'[e].balance = items[e].balance
          /\ items'[e].residual = items[e].residual + row.amount
      BY <1>2, <1>4, <1>5, <1>6
    <3>3. items[e].cur < 0 /\ items[e].residual < 0 /\ row.amount <= -items[e].residual BY <1>7 DEF Proposed
    <3>4. PICK r, t, s, x, a : r = items[e] /\ t = items'[e] /\ s = Shares(M, e) /\ x = row.creditCur /\ a = row.amount OBVIOUS
    <3>5. r \in ItemRows /\ t \in ItemRows /\ s \in Int /\ x \in Nat /\ a \in Nat BY <1>5, <1>10, <1>11, <1>14, <3>4
    <3>6. /\ BookedRow(r, s) /\ r.cur < 0 /\ r.residual < 0 /\ t.cur = r.cur /\ t.balance = r.balance /\ a <= -r.residual
          /\ t.residual = r.residual + a /\ x * Size(r.residual) = a * Size(r.cur - s)
      BY <1>12, <2>2, <2>5, <3>2, <3>3, <3>4
    <3>7. BookedRow(t, s - x) BY ONLY <3>5, <3>6, CreditLeft
    <3> QED BY <2>5, <3>1, <3>4, <3>7
  <2>6. CASE j # d /\ j # e
    <3>1. Shares(matches', j) = Shares(M, j)
      <4>1. CreditShares(matches', j) = CreditShares(M, j) + 0 BY <1>4, <1>10, <2>3, <2>6
      <4>2. DebitShares(matches', j) = DebitShares(M, j) + 0 BY <1>4, <1>10, <2>3, <2>6
      <4> QED BY <1>10, <4>1, <4>2 DEF Shares
    <3>2. /\ items'[j].cur = items[j].cur /\ items'[j].balance = items[j].balance
          /\ items'[j].residual = items[j].residual
      BY <1>6, <2>2, <2>6
    <3> QED BY <2>2, <3>1, <3>2 DEF BookedRow
  <2> QED BY <2>4, <2>5, <2>6
<1>16. CallTurned(u, c) BY <1>1, <1>3, UnderWay, CallTurns
<1>17. \A v \in Clerks : Proposes(accounting[v])' BY <1>3, <1>16, LeftCalls DEF Idle
<1> QED BY <1>15, <1>17 DEF LeftInv

LEMMA LeftStep ==
  ASSUME CurrencyTypes, CurrencyTypes', SharesWhole, LeftInv, CurrencyNext
  PROVE  LeftInv'
<1>1. CASE UNCHANGED <<items, matches, accounting>> BY <1>1 DEF LeftInv, Proposes, Proposed
<1>2. CASE ~UNCHANGED <<items, matches, accounting>>
  <2>1. ASSUME NEW account \in {"receivable", "payable"}, NEW n \in Int, n # 0, PostForeign(account, n) PROVE LeftInv'
    BY <2>1, LeftForeign
  <2>2. ASSUME NEW u \in Clerks, NEW d \in DOMAIN items, NEW c \in DOMAIN items, MatchBegin(u, d, c) PROVE LeftInv'
    BY <2>2, LeftMatchBegin
  <2>3. ASSUME NEW u \in Clerks, MatchWrite(u) PROVE LeftInv' BY <2>3, LeftMatchWrite
  <2>4. ASSUME NEW u \in Clerks, PostResult(u) PROVE LeftInv' BY <2>4, LeftResult
  <2>5. ASSUME NEW u \in Clerks, SettleResult(u) PROVE LeftInv' BY <2>5, LeftSettle
  <2>6. ASSUME NEW u \in Clerks, NEW c, Accounting(u, c), AtRest \/ Occupied(u), c.op # "match", UNCHANGED <<items, matches>>
        PROVE  LeftInv'
    BY <2>6, CallTurns, LeftCalls, LeftTurn DEF CallTurned
  <2>7. ASSUME NEW u \in Clerks, NEW i \in DOMAIN items, RevalueLine(u, i) PROVE LeftInv'
    <3>1. PICK k : k = accounting[u] OBVIOUS
    <3>2. /\ k.op = "revalue" /\ UNCHANGED <<items, matches>>
          /\ \E c : Accounting(u, c) /\ (c.op = "revalue" \/ c.op = "undo")
      BY <2>7, <3>1, LineRevalued
    <3> QED BY <2>6, <3>1, <3>2, UnderWay
  <2>8. ASSUME NEW u \in Clerks, RevalueBegin(u) PROVE LeftInv'
    <3>1. /\ AtRest /\ UNCHANGED <<items, matches>>
          /\ \E c : Accounting(u, c) /\ c.op = "revalue"
      BY <2>8 DEF RevalueBegin
    <3> QED BY <2>6, <3>1
  <2>9. ASSUME NEW u \in Clerks, DraftReversal(u) PROVE LeftInv'
    <3>1. PICK k : k = accounting[u] OBVIOUS
    <3>2. k.op = "undo" /\ UNCHANGED <<items, matches>> /\ Accounting(u, [op |-> "revalue", from |-> k.from, todo |-> k.todo])
      BY <2>9, <3>1, ReversalDrafted
    <3> QED BY <2>6, <3>1, <3>2, UnderWay
  <2>10. ASSUME NEW u \in Clerks, RevalueEnd(u) \/ AccountingStops(u) PROVE LeftInv'
    <3>1. Occupied(u) /\ Accounting(u, Idle) /\ UNCHANGED <<items, matches>>
      BY <2>10, UnderWay DEF RevalueEnd, AccountingStops, Occupied
    <3> QED BY <2>6, <3>1 DEF Idle
  <2>11. ASSUME NEW k \in DOMAIN revaluations, PostReversal(k) PROVE FALSE BY <1>2, <2>11 DEF PostReversal
  <2>12. ASSUME NEW d \in 0 .. today, NEW rate \in Rates, EnterRate(d, rate) PROVE FALSE BY <1>2, <2>12 DEF EnterRate
  <2> QED BY <1>2, <2>1, <2>2, <2>3, <2>4, <2>5, <2>7, <2>8, <2>9, <2>10, <2>11, <2>12, CurrencyActions
<1> QED BY <1>1, <1>2

LEMMA LeftFollows ==
  ASSUME CurrencyTypes, LeftInv
  PROVE  LeftAtBookedRate
<1>1. PICK shut : shut = UNION {{matches[m].debit, matches[m].credit} :
                         m \in {n \in DOMAIN matches : matches[n].debitCur = 0 /\ matches[n].creditCur = 0}}
  OBVIOUS
<1>2. matches \in Seq(MatchRows) /\ items \in Seq(ItemRows) BY DEF CurrencyTypes
<1>3. DOMAIN items \ shut \subseteq DOMAIN items \ ClosedBy(matches)
  <2>1. SUFFICES ASSUME NEW i \in ClosedBy(matches) PROVE i \in shut OBVIOUS
  <2>2. PICK m \in DOMAIN matches : matches[m].debitCur = 0 /\ matches[m].creditCur = 0 /\ i \in {matches[m].debit, matches[m].credit}
    BY <2>1 DEF ClosedBy
  <2> QED BY <1>1, <2>2
<1>4. SUFFICES ASSUME NEW i \in DOMAIN items \ shut
               PROVE  LET left == items[i].cur - SharesOf(i)
                      IN /\ items[i].residual * items[i].cur = items[i].balance * left
                         /\ Size(left) <= Size(items[i].cur) /\ left * items[i].cur >= 0
  BY <1>1 DEF LeftAtBookedRate
<1>5. PICK r, s : r = items[i] /\ s = Shares(matches, i) OBVIOUS
<1>6. BookedRow(r, s) /\ r \in ItemRows /\ s \in Int BY <1>2, <1>3, <1>4, <1>5, SharesTyped DEF LeftInv
<1>7. SharesOf(i) = s BY <1>2, <1>5, SharesAre
<1>8. PICK left, cur : left = r.cur - s /\ cur = r.cur OBVIOUS
<1>9. left \in Int /\ cur \in Int /\ r.residual \in Int /\ r.balance \in Int BY <1>6, <1>8 DEF ItemRows
<1>10. r.residual * cur = r.balance * left /\ Size(left) <= Size(cur) /\ left * cur >= 0
  <2>1. CASE cur = 0 /\ s = 0 BY <1>8, <1>9, <2>1 DEF Size
  <2>2. ASSUME NEW q \in Nat \ {0}, r.balance = q * cur, r.residual = q * left,
               cur > 0 => left \in 0 .. cur, cur < 0 => left \in cur .. 0, cur # 0
        PROVE  r.residual * cur = r.balance * left /\ Size(left) <= Size(cur) /\ left * cur >= 0
    <3>1. (q * left) * cur = (q * cur) * left BY <1>9, SMT
    <3>2. CASE cur > 0 BY <1>9, <2>2, <3>1, <3>2 DEF Size
    <3>3. CASE cur < 0
      <4>1. left * cur >= 0 BY <1>9, <2>2, <3>3
      <4>2. Size(left) <= Size(cur) BY <1>9, <2>2, <3>3 DEF Size
      <4> QED BY <2>2, <3>1, <4>1, <4>2
    <3> QED BY <1>9, <2>2, <3>2, <3>3
  <2>3. \/ cur = 0 /\ s = 0
        \/ \E q \in Nat \ {0} : /\ r.balance = q * cur /\ r.residual = q * left /\ cur # 0
                               /\ (cur > 0 => left \in 0 .. cur) /\ (cur < 0 => left \in cur .. 0)
    BY <1>6, <1>8 DEF BookedRow
  <2> QED BY <2>1, <2>2, <2>3
<1> QED BY <1>5, <1>7, <1>8, <1>10

\* LeftAtBookedRate, for any number of documents, rates and matches, wherever calls end, when the
\* shares of a match come out whole (reconcile_lines).
THEOREM LeftAtBookedRateHolds == CurrencySpec /\ []SharesWhole => []LeftAtBookedRate
<1>1. CurrencyInit /\ WorkdayInit => LeftInv
  <2>1. SUFFICES ASSUME CurrencyInit PROVE LeftInv OBVIOUS
  <2>2. items = <<>> /\ accounting = [u \in Clerks |-> Idle] BY <2>1 DEF CurrencyInit
  <2>3. \A u \in Clerks : accounting[u].op # "match" BY <2>2 DEF Idle
  <2> QED BY <2>2, <2>3 DEF LeftInv, Proposes
<1>2. CurrencyTypes /\ CurrencyTypes' /\ SharesWhole /\ LeftInv /\ [CurrencyNext]_<<currencyVars, workdayVars>> => LeftInv'
  <2>1. CASE CurrencyNext BY <2>1, LeftStep
  <2>2. CASE UNCHANGED <<currencyVars, workdayVars>> BY <2>2 DEF LeftInv, Proposes, Proposed, currencyVars
  <2> QED BY <2>1, <2>2
<1>3. CurrencyTypes /\ LeftInv => LeftAtBookedRate BY LeftFollows
<1> QED BY <1>1, <1>2, <1>3, CurrencyTypesHold, PTL DEF CurrencySpec
-----------------------------------------------------------------------------
(* Payment terms.                                                          *)

\* Adding first and multiplying after.
LEMMA Distributes == ASSUME NEW k \in Int, NEW x \in Int, NEW y \in Int PROVE k * (x + y) = k * x + k * y
OBVIOUS

\* Values that are near their share come to near the share of all.
LEMMA RoundingAdds ==
  ASSUME NEW f, NEW h, NEW S, IsFiniteSet(S), NEW k \in Int,
         \A x \in S : f[x] \in Int /\ h[x] \in Int /\ 100 * f[x] - k * h[x] \in -50 .. 50
  PROVE  100 * SumOf(f, S) - k * SumOf(h, S) \in -(50 * Cardinality(S)) .. 50 * Cardinality(S)
<1> DEFINE Near(T) == 100 * SumOf(f, T) - k * SumOf(h, T) \in -(50 * Cardinality(T)) .. 50 * Cardinality(T)
           Bad == {T \in SUBSET S : ~Near(T)}
<1>1. SUFFICES ASSUME Bad # {} PROVE FALSE
  <2>1. S \in SUBSET S OBVIOUS
  <2> QED BY <2>1
<1>2. PICK T \in Bad : \A t \in Bad : ~(t \subseteq T /\ t # T)
  <2>1. Bad \in SUBSET SUBSET S OBVIOUS
  <2> HIDE DEF Bad
  <2> QED BY <1>1, <2>1, LeastSet
<1>3. T \in SUBSET S /\ IsFiniteSet(T) /\ ~Near(T) BY <1>2, FS_Subset
<1>4. T # {}
  <2> SUFFICES ASSUME T = {} PROVE FALSE OBVIOUS
  <2>1. SumOf(f, {}) = 0 /\ SumOf(h, {}) = 0 /\ Cardinality({}) = 0 BY SumEmpty, FS_EmptySet
  <2>2. SumOf(f, T) = 0 /\ SumOf(h, T) = 0 /\ Cardinality(T) = 0 BY <2>1
  <2>3. k * 0 = 0 OBVIOUS
  <2> QED BY <1>3, <2>2, <2>3
<1>5. PICK a \in T : TRUE BY <1>4
<1> DEFINE U == T \ {a}
<1>6. U \in SUBSET S /\ U \subseteq T /\ U # T /\ IsFiniteSet(U) BY <1>3, <1>5, FS_Subset
<1>7. Near(U)
  <2>1. U \notin Bad BY <1>2, <1>6
  <2> QED BY <1>6, <2>1
<1>8. SumOf(f, T) = f[a] + SumOf(f, U) /\ SumOf(h, T) = h[a] + SumOf(h, U)
  <2>1. \A x \in T : f[x] \in Int /\ h[x] \in Int BY <1>3
  <2> QED BY <1>3, <1>5, <2>1, SumRemove
<1>9. SumOf(f, U) \in Int /\ SumOf(h, U) \in Int
  <2>1. \A x \in U : f[x] \in Int /\ h[x] \in Int BY <1>6
  <2> HIDE DEF U
  <2> QED BY <1>6, <2>1, SumType
<1>10. Cardinality(T) = Cardinality(U) + 1 /\ Cardinality(U) \in Nat
  <2>1. Cardinality(U) = Cardinality(T) - 1 BY <1>3, <1>5, FS_RemoveElement
  <2>2. Cardinality(T) \in Nat BY <1>3, FS_CardinalityType
  <2> HIDE DEF U
  <2>3. Cardinality(U) \in Nat BY <1>6, FS_CardinalityType
  <2> QED BY <2>1, <2>2, <2>3
<1>11. PICK n, x, y, F, H : n = Cardinality(U) /\ x = f[a] /\ y = h[a] /\ F = SumOf(f, U) /\ H = SumOf(h, U) OBVIOUS
<1>12. x \in Int /\ y \in Int /\ F \in Int /\ H \in Int /\ n \in Nat /\ 100 * x - k * y \in -50 .. 50
  BY <1>3, <1>5, <1>9, <1>10, <1>11
<1>13. k * (y + H) = k * y + k * H BY <1>12, Distributes
<1>14. 100 * F - k * H \in -(50 * n) .. 50 * n BY <1>7, <1>11
<1>15. k * y \in Int /\ k * H \in Int BY <1>12
<1>16. PICK p, q : p = k * y /\ q = k * H OBVIOUS
<1>17. 100 * (x + F) - (p + q) \in -(50 * (n + 1)) .. 50 * (n + 1)
  <2>1. p \in Int /\ q \in Int /\ 100 * x - p \in -50 .. 50 /\ 100 * F - q \in -(50 * n) .. 50 * n BY <1>12, <1>14, <1>15, <1>16
  <2> QED BY ONLY <1>12, <2>1
<1>18. Near(T)
  <2>1. SumOf(f, T) = x + F /\ SumOf(h, T) = y + H /\ Cardinality(T) = n + 1 BY <1>8, <1>10, <1>11
  <2>2. k * SumOf(h, T) = p + q BY <1>13, <1>16, <2>1
  <2> QED BY <1>17, <2>1, <2>2
<1> QED BY <1>3, <1>18

\* Rounding half to even is at most a half off.
LEMMA QuantizedNear ==
  ASSUME NEW m \in Nat PROVE Quantized(m, 100) \in Nat /\ 100 * Quantized(m, 100) - m \in -50 .. 50
<1>1. PICK q, r : q = m \div 100 /\ r = m % 100 OBVIOUS
<1>2. q \in Nat /\ r \in 0 .. 99 /\ m = 100 * q + r BY <1>1
<1>3. \/ Quantized(m, 100) = q + 1 /\ 2 * r >= 100
      \/ Quantized(m, 100) = q /\ 2 * r <= 100
  BY <1>1, <1>2 DEF Quantized
<1> QED BY <1>2, <1>3

(* Types of what the edits keep.                                           *)
TermRows == [value : {"percent", "fixed"}, amount : Nat, delay : DelayTypes, days : Nat, next : BOOLEAN]
EditTyped(c) ==
  \/ c = Idle
  \/ c.op = "add" /\ c.line \in TermRows
  \/ c.op = "write" /\ c.ids \subseteq DOMAIN termLines /\ c.value \in {"percent", "fixed"} /\ c.amount \in Nat
TermTypes == termLines \in Seq(TermRows) /\ DOMAIN editing = Editors /\ \A u \in Editors : EditTyped(editing[u])

\* What a call under way has checked still holds when calls do not overlap.
EditChecked(c) ==
  /\ c.op = "add" => CheckedPercent(c.line.value, c.line.amount, 0)
  /\ c.op = "write" => \A i \in c.ids : CheckedPercent(c.value, c.amount, i)
NotOver == Sum100(termLines) <= 100
OneEdits == \A u, v \in Editors : u # v => editing[u] = Idle \/ editing[v] = Idle
TermInv ==
  /\ TermTypes
  /\ exclusive => NotOver /\ OneEdits /\ \A u \in Editors : EditChecked(editing[u])

\* One call goes on, the others are where they were.
EditTurned(u, c) ==
  /\ DOMAIN editing' = Editors /\ editing'[u] = c
  /\ \A v \in Editors : v # u => editing'[v] = editing[v]
LEMMA EditTurns ==
  ASSUME DOMAIN editing = Editors, NEW u \in Editors, NEW c, Edits(u, c) PROVE EditTurned(u, c)
BY DEF Edits, EditTurned

\* What a line has of the percentages.
LEMMA PercentageTyped == ASSUME NEW l \in TermRows PROVE Percentage(l) \in Nat
BY DEF Percentage, TermRows

\* The percentages of a sequence of lines.
LEMMA Sum100Is ==
  ASSUME NEW lines \in Seq(TermRows), NEW g, \A i \in DOMAIN lines : g[i] = Percentage(lines[i])
  PROVE  Sum100(lines) = SumOf(g, DOMAIN lines) /\ Sum100(lines) \in Nat
<1>1. PICK S, f : S = DOMAIN lines /\ f = [i \in S |-> Percentage(lines[i])] OBVIOUS
<1>2. IsFiniteSet(S) BY <1>1, FS_Interval
<1>3. \A i \in S : f[i] \in Nat /\ f[i] = g[i]
  <2>1. \A i \in S : lines[i] \in TermRows BY <1>1
  <2>2. \A i \in S : f[i] = Percentage(lines[i]) BY <1>1
  <2> QED BY <1>1, <2>1, <2>2, PercentageTyped
<1>4. Sum100(lines) = SumOf(f, S) BY <1>1 DEF Sum100, SumAll
<1>5. SumOf(f, S) = SumOf(g, S) /\ SumOf(f, S) \in Nat BY <1>2, <1>3, SumSame, SumNat
<1> QED BY <1>1, <1>4, <1>5

\* A line more, and a line changed.
LEMMA Sum100Grows ==
  ASSUME NEW lines \in Seq(TermRows), NEW l \in TermRows
  PROVE  Sum100(Append(lines, l)) = Sum100(lines) + Percentage(l)
<1>1. PICK Q, n : Q = Append(lines, l) /\ n = Len(lines) OBVIOUS
<1>2. /\ Q \in Seq(TermRows) /\ n \in Nat /\ DOMAIN Q = 1..(n + 1) /\ DOMAIN lines = 1..n
      /\ Q[n + 1] = l /\ \A i \in 1..n : Q[i] = lines[i]
  BY <1>1
<1>3. PICK f, h : f = [i \in 1..n |-> Percentage(lines[i])] /\ h = [i \in 1..(n + 1) |-> Percentage(Q[i])] OBVIOUS
<1>4. \A i \in 1..n : f[i] \in Int /\ h[i] = f[i]
  <2>1. \A i \in 1..n : lines[i] \in TermRows /\ i \in 1..(n + 1) BY <1>2
  <2>2. \A i \in 1..n : f[i] = Percentage(lines[i]) /\ h[i] = Percentage(lines[i]) BY <1>2, <1>3, <2>1
  <2> QED BY <2>1, <2>2, PercentageTyped
<1>5. h[n + 1] = Percentage(l) /\ h[n + 1] \in Int BY <1>2, <1>3, PercentageTyped
<1>6. SumOf(h, 1..(n + 1)) = SumOf(f, 1..n) + h[n + 1] BY <1>2, <1>4, <1>5, SumLast
<1>7. Sum100(lines) = SumOf(f, 1..n) BY <1>2, <1>3, Sum100Is
<1>8. Sum100(Q) = SumOf(h, 1..(n + 1)) BY <1>2, <1>3, Sum100Is
<1> QED BY <1>1, <1>5, <1>6, <1>7, <1>8

LEMMA Sum100Changes ==
  ASSUME NEW lines \in Seq(TermRows), NEW other \in Seq(TermRows), DOMAIN other = DOMAIN lines,
         NEW i \in DOMAIN lines, \A j \in DOMAIN lines : j # i => other[j] = lines[j]
  PROVE  Sum100(other) = Sum100(lines) + Percentage(other[i]) - Percentage(lines[i])
<1>1. PICK S : S = DOMAIN lines OBVIOUS
<1>2. PICK f, h : f = [j \in S |-> Percentage(lines[j])] /\ h = [j \in S |-> Percentage(other[j])] OBVIOUS
<1>3. IsFiniteSet(S) BY <1>1, FS_Interval
<1>4. \A j \in S : f[j] \in Int /\ h[j] \in Int
  <2>1. \A j \in S : lines[j] \in TermRows /\ other[j] \in TermRows BY <1>1
  <2>2. \A j \in S : f[j] = Percentage(lines[j]) /\ h[j] = Percentage(other[j]) BY <1>2
  <2> QED BY <2>1, <2>2, PercentageTyped
<1>5. \A j \in S \ {i} : f[j] = h[j] BY <1>1, <1>2
<1>6. SumOf(h, S) = SumOf(f, S) + h[i] - f[i] BY <1>1, <1>3, <1>4, <1>5, SumChange
<1>7. Sum100(lines) = SumOf(f, S) /\ Sum100(other) = SumOf(h, S) BY <1>1, <1>2, Sum100Is
<1> QED BY <1>1, <1>2, <1>6, <1>7

\* The other lines: all but the one.
LEMMA OthersAre ==
  ASSUME TermTypes, NEW e
  PROVE  /\ e \notin DOMAIN termLines => OthersSum(e) = Sum100(termLines)
         /\ e \in DOMAIN termLines => OthersSum(e) = Sum100(termLines) - Percentage(termLines[e])
<1>1. PICK T, Q : /\ T = termLines
                  /\ Q = [i \in DOMAIN T |-> IF i = e THEN [T[i] EXCEPT !.amount = 0] ELSE T[i]]
  OBVIOUS
<1>2. T \in Seq(TermRows) BY <1>1 DEF TermTypes
<1>3. OthersSum(e) = Sum100(Q) BY <1>1 DEF OthersSum
<1>4. CASE e \notin DOMAIN T
  <2>1. Q = T BY <1>1, <1>2, <1>4
  <2> QED BY <1>1, <1>3, <1>4, <2>1
<1>5. CASE e \in DOMAIN T
  <2>1. PICK r : r = [T[e] EXCEPT !.amount = 0] OBVIOUS
  <2>2. T[e] \in TermRows BY <1>2, <1>5
  <2>3. r \in TermRows /\ Percentage(r) = 0 BY <2>1, <2>2 DEF TermRows, Percentage
  <2>4. /\ Q = [i \in 1..Len(T) |-> Q[i]] /\ DOMAIN Q = DOMAIN T /\ Len(T) \in Nat /\ Q[e] = r
        /\ \A i \in DOMAIN T : i # e => Q[i] = T[i]
    BY <1>1, <1>2, <1>5, <2>1
  <2>5. ASSUME NEW i \in 1..Len(T) PROVE Q[i] \in TermRows
    <3>1. T[i] \in TermRows /\ i \in DOMAIN T BY <1>2
    <3> QED BY <2>3, <2>4, <3>1
  <2>6. Q \in Seq(TermRows) BY <2>4, <2>5
  <2>7. Sum100(Q) = Sum100(T) + Percentage(Q[e]) - Percentage(T[e]) BY <1>2, <1>5, <2>4, <2>6, Sum100Changes
  <2>8. Sum100(T) \in Nat
    <3>1. PICK g : g = [i \in DOMAIN T |-> Percentage(T[i])] OBVIOUS
    <3> QED BY <1>2, <3>1, Sum100Is
  <2>9. Percentage(T[e]) \in Int BY <2>2, PercentageTyped
  <2>10. Sum100(Q) = Sum100(T) - Percentage(T[e])
    <3>1. Percentage(Q[e]) = 0 BY <2>3, <2>4
    <3> QED BY <2>7, <2>8, <2>9, <3>1
  <2> QED BY <1>1, <1>3, <1>5, <2>10
<1> QED BY <1>1, <1>4, <1>5

-----------------------------------------------------------------------------
(* The steps.                                                              *)

LEMMA TermsStart == TermsInit /\ WorkdayInit => TermInv
<1> SUFFICES ASSUME TermsInit, WorkdayInit PROVE TermInv OBVIOUS
<1>1. termLines = <<>> /\ termLines \in Seq(TermRows) BY DEF TermsInit
<1>2. DOMAIN editing = Editors /\ \A u \in Editors : editing[u] = Idle BY DEF TermsInit
<1>3. TermTypes BY <1>1, <1>2 DEF TermTypes, EditTyped
<1>4. NotOver
  <2>1. PICK g : g = [i \in DOMAIN termLines |-> 0] OBVIOUS
  <2>2. \A i \in DOMAIN termLines : g[i] = Percentage(termLines[i]) BY <1>1
  <2>3. Sum100(termLines) = SumOf(g, DOMAIN termLines) BY <1>1, <2>2, Sum100Is
  <2>4. DOMAIN termLines = {} BY <1>1
  <2>5. SumOf(g, {}) = 0 BY SumEmpty
  <2>6. SumOf(g, DOMAIN termLines) = 0 BY <2>4, <2>5
  <2> QED BY <2>3, <2>6 DEF NotOver
<1>5. OneEdits BY <1>2 DEF OneEdits
<1>6. \A u \in Editors : EditChecked(editing[u])
  <2>1. EditChecked(Idle) BY DEF EditChecked, Idle
  <2> QED BY <1>2, <2>1
<1> QED BY <1>3, <1>4, <1>5, <1>6 DEF TermInv

\* A call begins with what it has checked, or ends without storing.
LEMMA EditMoves ==
  ASSUME TermInv, NEW u \in Editors, NEW c, Edits(u, c), UNCHANGED <<termLines, exclusive>>,
         EditTyped(c), exclusive => EditChecked(c),
         exclusive => c = Idle \/ \A v \in Editors : editing[v] = Idle
  PROVE  TermInv'
<1>1. EditTurned(u, c) BY EditTurns DEF TermInv, TermTypes
<1>2. ASSUME NEW v \in Editors PROVE editing'[v] = c \/ editing'[v] = editing[v] BY <1>1 DEF EditTurned
<1>3. ASSUME NEW v \in Editors PROVE EditTyped(editing[v])'
  <2>1. EditTyped(editing'[v]) BY <1>2 DEF TermInv, TermTypes
  <2> QED BY <2>1 DEF EditTyped
<1>4. TermTypes' BY <1>1, <1>3 DEF EditTurned, TermInv, TermTypes
<1>5. ASSUME exclusive PROVE NotOver' /\ OneEdits' /\ \A v \in Editors : EditChecked(editing[v])'
  <2>1. NotOver' BY <1>5 DEF TermInv, NotOver
  <2>2. OneEdits' BY <1>1, <1>5 DEF TermInv, OneEdits, EditTurned
  <2>3. ASSUME NEW v \in Editors PROVE EditChecked(editing[v])'
    <3>1. EditChecked(editing'[v]) BY <1>2, <1>5 DEF TermInv
    <3> QED BY <3>1 DEF EditChecked, CheckedPercent, OthersSum
  <2> QED BY <2>1, <2>2, <2>3
<1> QED BY <1>4, <1>5 DEF TermInv

LEMMA BeginAdds ==
  ASSUME TermInv, NEW u \in Editors, NEW l \in TermRows, AddBegin(u, l), UNCHANGED exclusive
  PROVE  TermInv'
<1>1. PICK c : c = [op |-> "add", line |-> l] OBVIOUS
<1>2. c.op = "add" /\ c.line = l BY <1>1
<1>3. EditTyped(c) BY <1>2 DEF EditTyped
<1>4. EditChecked(c) BY <1>2 DEF AddBegin, EditChecked
<1>5. Edits(u, c) /\ UNCHANGED termLines /\ (exclusive => \A v \in Editors : editing[v] = Idle)
  BY <1>1 DEF AddBegin, MayCall, TermInv, TermTypes
<1> QED BY <1>3, <1>4, <1>5, EditMoves

LEMMA BeginWrites ==
  ASSUME TermInv, NEW u \in Editors, NEW ids \in SUBSET DOMAIN termLines, NEW value \in {"percent", "fixed"}, NEW amount \in Nat,
         WriteBegin(u, ids, value, amount), UNCHANGED exclusive
  PROVE  TermInv'
<1>1. PICK c : c = [op |-> "write", ids |-> ids, value |-> value, amount |-> amount] OBVIOUS
<1>2. c.op = "write" /\ c.ids = ids /\ c.value = value /\ c.amount = amount BY <1>1
<1>3. EditTyped(c) BY <1>2 DEF EditTyped
<1>4. EditChecked(c) BY <1>2 DEF WriteBegin, EditChecked
<1>5. Edits(u, c) /\ UNCHANGED termLines /\ (exclusive => \A v \in Editors : editing[v] = Idle)
  BY <1>1 DEF WriteBegin, MayCall, TermInv, TermTypes
<1> QED BY <1>3, <1>4, <1>5, EditMoves

LEMMA StopsEdit ==
  ASSUME TermInv, NEW u \in Editors, EditStops(u), UNCHANGED exclusive
  PROVE  TermInv'
<1>1. EditTyped(Idle) BY DEF EditTyped
<1>2. EditChecked(Idle) BY DEF EditChecked, Idle
<1> QED BY <1>1, <1>2, EditMoves DEF EditStops

\* What was checked is stored: nobody else has changed the term since.
LEMMA EditStores ==
  ASSUME TermInv, NEW u \in Editors, editing[u] # Idle, Edits(u, Idle), UNCHANGED exclusive,
         termLines' \in Seq(TermRows), DOMAIN termLines \subseteq DOMAIN termLines', exclusive => NotOver'
  PROVE  TermInv'
<1>1. EditTurned(u, Idle) BY EditTurns DEF TermInv, TermTypes
<1>2. ASSUME NEW v \in Editors PROVE EditTyped(editing[v])'
  <2>1. editing'[v] = Idle \/ editing'[v] = editing[v] BY <1>1 DEF EditTurned
  <2>2. EditTyped(editing[v]) BY DEF TermInv, TermTypes
  <2> QED BY <2>1, <2>2 DEF EditTyped
<1>3. TermTypes' BY <1>1, <1>2 DEF EditTurned, TermTypes
<1>4. ASSUME exclusive PROVE OneEdits' /\ \A v \in Editors : EditChecked(editing[v])'
  <2>1. \A v \in Editors : editing'[v] = Idle BY <1>1, <1>4 DEF TermInv, OneEdits, EditTurned
  <2>2. EditChecked(Idle)' BY DEF EditChecked, Idle
  <2>3. \A v \in Editors : EditChecked(editing[v])' BY <2>1, <2>2 DEF EditChecked
  <2> QED BY <2>1, <2>3 DEF OneEdits
<1> QED BY <1>3, <1>4 DEF TermInv

LEMMA StoresAdd ==
  ASSUME TermInv, NEW u \in Editors, AddStore(u), UNCHANGED exclusive
  PROVE  TermInv'
<1>1. PICK T, l : T = termLines /\ l = editing[u].line OBVIOUS
<1>2. editing[u].op = "add" /\ termLines' = Append(T, l) /\ Edits(u, Idle) BY <1>1 DEF AddStore
<1>3. editing[u] # Idle BY <1>2 DEF Idle
<1>4. T \in Seq(TermRows) /\ l \in TermRows BY <1>1, <1>2, <1>3 DEF TermInv, TermTypes, EditTyped
<1>5. Append(T, l) \in Seq(TermRows) /\ DOMAIN T \subseteq DOMAIN Append(T, l) BY <1>4
<1>6. ASSUME exclusive PROVE Sum100(Append(T, l)) <= 100
  <2>1. CheckedPercent(l.value, l.amount, 0) BY <1>1, <1>2, <1>6 DEF TermInv, EditChecked
  <2>2. Sum100(Append(T, l)) = Sum100(T) + Percentage(l) BY <1>4, Sum100Grows
  <2>3. Sum100(T) <= 100 BY <1>1, <1>6 DEF TermInv, NotOver
  <2>4. Sum100(T) \in Nat
    <3>1. PICK g : g = [i \in DOMAIN T |-> Percentage(T[i])] OBVIOUS
    <3> QED BY <1>4, <3>1, Sum100Is
  <2>5. OthersSum(0) = Sum100(T)
    <3>1. 0 \notin DOMAIN T BY <1>4
    <3> QED BY <1>1, <3>1, OthersAre DEF TermInv
  <2> QED BY <2>1, <2>2, <2>3, <2>4, <2>5 DEF CheckedPercent, Percentage
<1>7. exclusive => NotOver' BY <1>2, <1>6 DEF NotOver
<1> QED BY <1>1, <1>2, <1>3, <1>5, <1>7, EditStores

LEMMA StoresWrite ==
  ASSUME TermInv, OneLineWritten, NEW u \in Editors, WriteStore(u), UNCHANGED exclusive
  PROVE  TermInv'
<1>1. PICK T, c : T = termLines /\ c = editing[u] OBVIOUS
<1>2. /\ c.op = "write" /\ Edits(u, Idle)
      /\ termLines' = [j \in DOMAIN T |-> IF j \in c.ids THEN [T[j] EXCEPT !.value = c.value, !.amount = c.amount] ELSE T[j]]
  BY <1>1 DEF WriteStore
<1>3. editing[u] # Idle
  <2>1. editing[u].op = "write" BY <1>1, <1>2
  <2> QED BY ONLY <2>1 DEF Idle
<1>4. PICK i \in DOMAIN T : c.ids = {i} BY <1>1, <1>2 DEF OneLineWritten
<1>5. T \in Seq(TermRows) BY <1>1 DEF TermInv, TermTypes
<1>6. c.value \in {"percent", "fixed"} /\ c.amount \in Nat BY <1>1, <1>2, <1>3 DEF TermInv, TermTypes, EditTyped
<1>7. PICK r : r = [T[i] EXCEPT !.value = c.value, !.amount = c.amount] OBVIOUS
<1>8. T[i] \in TermRows BY <1>4, <1>5
<1>9. r \in TermRows /\ r.value = c.value /\ r.amount = c.amount BY <1>6, <1>7, <1>8 DEF TermRows
<1>10. PICK Q : Q = [j \in DOMAIN T |-> IF j = i THEN r ELSE T[j]] OBVIOUS
<1>11. termLines' = Q
  <2>1. \A j \in DOMAIN T : (IF j \in c.ids THEN [T[j] EXCEPT !.value = c.value, !.amount = c.amount] ELSE T[j])
                            = IF j = i THEN r ELSE T[j]
    BY <1>4, <1>7
  <2> QED BY <1>2, <1>10, <2>1
<1>12. Q \in Seq(TermRows) /\ DOMAIN Q = DOMAIN T /\ Q[i] = r /\ \A j \in DOMAIN T : j # i => Q[j] = T[j]
  <2>1. Q = [j \in 1..Len(T) |-> Q[j]] /\ Len(T) \in Nat /\ DOMAIN T = 1..Len(T) BY <1>5, <1>10
  <2>2. \A j \in DOMAIN T : T[j] \in TermRows BY <1>5
  <2>3. \A j \in 1..Len(T) : Q[j] \in TermRows BY <1>9, <1>10, <2>1, <2>2
  <2>4. Q \in Seq(TermRows) BY <2>1, <2>3
  <2> QED BY <1>4, <1>10, <2>4
<1>13. ASSUME exclusive PROVE Sum100(Q) <= 100
  <2>1. CheckedPercent(c.value, c.amount, i) BY <1>1, <1>2, <1>4, <1>13 DEF TermInv, EditChecked
  <2>2. Sum100(Q) = Sum100(T) + Percentage(r) - Percentage(T[i]) BY <1>4, <1>5, <1>12, Sum100Changes
  <2>3. Sum100(T) <= 100 BY <1>1, <1>13 DEF TermInv, NotOver
  <2>4. Sum100(T) \in Nat
    <3>1. PICK g : g = [k \in DOMAIN T |-> Percentage(T[k])] OBVIOUS
    <3> QED BY <1>5, <3>1, Sum100Is
  <2>5. OthersSum(i) = Sum100(T) - Percentage(T[i]) BY <1>1, <1>4, OthersAre DEF TermInv
  <2>6. Percentage(T[i]) \in Nat /\ Percentage(r) \in Nat BY <1>8, <1>9, PercentageTyped
  <2>7. CASE r.value = "percent"
    <3>1. Percentage(r) = c.amount BY <1>9, <2>7 DEF Percentage
    <3>2. OthersSum(i) + c.amount <= 100 BY <1>9, <2>1, <2>7 DEF CheckedPercent
    <3> QED BY <2>2, <2>4, <2>5, <2>6, <3>1, <3>2
  <2>8. CASE r.value # "percent"
    <3>1. Percentage(r) = 0 BY <2>8 DEF Percentage
    <3> QED BY <2>2, <2>3, <2>4, <2>6, <3>1
  <2> QED BY <2>7, <2>8
<1>14. exclusive => NotOver' BY <1>11, <1>13 DEF NotOver
<1> QED BY <1>1, <1>2, <1>3, <1>11, <1>12, <1>14, EditStores

LEMMA TermsStep ==
  ASSUME TermInv, OneLineWritten, TermsNext PROVE TermInv'
<1>1. UNCHANGED exclusive BY DEF TermsNext, workdayVars
<1>2. PICK u \in Editors :
        \/ \E value \in {"percent", "fixed"} : \E amount \in IF value = "percent" THEN Percents ELSE Fixed :
             \/ \E delay \in DelayTypes, days \in Days, next \in BOOLEAN :
                  AddBegin(u, TermLine(value, amount, delay, days, next))
             \/ \E ids \in (SUBSET DOMAIN termLines) \ {{}} : WriteBegin(u, ids, value, amount)
        \/ AddStore(u) \/ WriteStore(u) \/ EditStops(u)
  BY DEF TermsNext
<1>3. ASSUME NEW value \in {"percent", "fixed"}, NEW amount \in IF value = "percent" THEN Percents ELSE Fixed
      PROVE  amount \in Nat
  BY TermsAssumption
<1>4. CASE \E value \in {"percent", "fixed"} : \E amount \in IF value = "percent" THEN Percents ELSE Fixed :
             \E delay \in DelayTypes, days \in Days, next \in BOOLEAN : AddBegin(u, TermLine(value, amount, delay, days, next))
  <2>0. PICK value \in {"percent", "fixed"} : \E amount \in IF value = "percent" THEN Percents ELSE Fixed :
             \E delay \in DelayTypes, days \in Days, next \in BOOLEAN : AddBegin(u, TermLine(value, amount, delay, days, next))
    BY <1>4
  <2>1. PICK amount \in (IF value = "percent" THEN Percents ELSE Fixed), delay \in DelayTypes, days \in Days, next \in BOOLEAN :
             AddBegin(u, TermLine(value, amount, delay, days, next))
    BY <2>0
  <2>2. amount \in Nat BY <1>3
  <2>3. days \in Nat BY TermsAssumption
  <2>4. TermLine(value, amount, delay, days, next) \in TermRows BY <2>2, <2>3 DEF TermLine, TermRows
  <2> QED BY <1>1, <2>1, <2>4, BeginAdds
<1>5. CASE \E value \in {"percent", "fixed"} : \E amount \in IF value = "percent" THEN Percents ELSE Fixed :
             \E ids \in (SUBSET DOMAIN termLines) \ {{}} : WriteBegin(u, ids, value, amount)
  <2>0. PICK value \in {"percent", "fixed"} : \E amount \in IF value = "percent" THEN Percents ELSE Fixed :
             \E ids \in (SUBSET DOMAIN termLines) \ {{}} : WriteBegin(u, ids, value, amount)
    BY <1>5
  <2>1. PICK amount \in (IF value = "percent" THEN Percents ELSE Fixed), ids \in (SUBSET DOMAIN termLines) \ {{}} :
             WriteBegin(u, ids, value, amount)
    BY <2>0
  <2>2. amount \in Nat BY <1>3
  <2> QED BY <1>1, <2>1, <2>2, BeginWrites
<1>6. CASE AddStore(u) \/ WriteStore(u) \/ EditStops(u) BY <1>1, <1>6, StoresAdd, StoresWrite, StopsEdit
<1> QED BY <1>2, <1>4, <1>5, <1>6
-----------------------------------------------------------------------------
(* The calendar.                                                           *)

\* Finitely many numbers have a bound.
LEMMA Bounded ==
  ASSUME NEW S, IsFiniteSet(S), S \subseteq Nat PROVE \E n \in Nat : S \subseteq 0 .. n
<1>1. PICK f : f = [x \in S |-> x] OBVIOUS
<1>2. \A x \in S : f[x] = x /\ f[x] \in Nat BY <1>1
<1>3. SumOf(f, S) \in Nat BY <1>2, SumNat
<1>4. ASSUME NEW x \in S PROVE x <= SumOf(f, S)
  <2>1. PICK T : T = S \ {x} OBVIOUS
  <2>2. IsFiniteSet(T) /\ T \subseteq S BY <2>1, FS_RemoveElement
  <2>3. SumOf(f, T) \in Nat BY <1>2, <2>2, SumNat
  <2>4. \A y \in S : f[y] \in Int BY <1>2
  <2>5. SumOf(f, S) = f[x] + SumOf(f, T)
    <3>1. SumOf(f, S) = f[x] + SumOf(f, S \ {x}) BY ONLY IsFiniteSet(S), x \in S, <2>4, SumRemove
    <3> QED BY <2>1, <3>1
  <2> QED BY <1>2, <1>3, <2>3, <2>5
<1>5. S \subseteq 0 .. SumOf(f, S) BY <1>3, <1>4
<1> QED BY <1>3, <1>5

LEMMA LeastIs ==
  ASSUME NEW n \in Nat, NEW S, S # {}, S \subseteq 0 .. n
  PROVE  /\ Min(S) \in S /\ \A y \in S : Min(S) <= y
         /\ Max(S) \in S /\ \A y \in S : y <= Max(S)
<1>1. (\E x \in S : \A y \in S : x <= y) /\ (\E x \in S : \A y \in S : y <= x) BY Extremes
<1>2. Min(S) \in S /\ \A y \in S : Min(S) <= y BY <1>1 DEF Min
<1>3. Max(S) \in S /\ \A y \in S : y <= Max(S)
  <2>1. \A x, y \in S : x >= y <=> y <= x OBVIOUS
  <2>2. \E x \in S : \A y \in S : x >= y BY <1>1, <2>1
  <2>3. Max(S) \in S /\ \A y \in S : Max(S) >= y BY <2>2 DEF Max
  <2> QED BY <2>1, <2>3
<1> QED BY <1>2, <1>3

LEMMA LesserIs ==
  ASSUME NEW a \in Nat, NEW b \in Nat PROVE Min({a, b}) \in {a, b} /\ Min({a, b}) <= a /\ Min({a, b}) <= b
<1>1. \E n \in Nat : {a, b} \subseteq 0 .. n
  <2>1. CASE a <= b BY <2>1
  <2>2. CASE b <= a BY <2>2
  <2> QED BY <2>1, <2>2
<1>2. {a, b} # {} OBVIOUS
<1> QED BY <1>1, <1>2, LeastIs

\* The first last day of a month that has not passed.
LEMMA MonthEndIs ==
  ASSUME NEW d \in Nat, \E e \in MonthEnds : d <= e
  PROVE  EndOfMonth(d) \in MonthEnds /\ d <= EndOfMonth(d) /\ \A e \in MonthEnds : d <= e => EndOfMonth(d) <= e
<1>1. PICK S : S = {e \in MonthEnds : e >= d} OBVIOUS
<1>2. MonthEnds \subseteq Nat /\ IsFiniteSet(MonthEnds) BY TermsAssumption
<1>3. PICK n \in Nat : MonthEnds \subseteq 0 .. n BY <1>2, Bounded
<1>4. S # {} /\ S \subseteq 0 .. n BY <1>1, <1>2, <1>3
<1>5. Min(S) \in S /\ \A y \in S : Min(S) <= y BY <1>4, LeastIs
<1>6. EndOfMonth(d) = Min(S) BY <1>1 DEF EndOfMonth
<1>7. \A e \in MonthEnds : d <= e <=> e \in S BY <1>1, <1>2
<1>8. PICK x : x = Min(S) OBVIOUS
<1>9. x \in S /\ \A y \in S : x <= y BY <1>5, <1>8
<1>10. x \in MonthEnds /\ d <= x /\ \A e \in MonthEnds : d <= e => x <= e BY ONLY <1>1, <1>2, <1>7, <1>9, d \in Nat
<1> QED BY <1>6, <1>8, <1>10

\* A month starts after the one before it has ended.
LEMMA MonthStartIs ==
  ASSUME NEW t \in MonthEnds
  PROVE  StartOfMonth(t) \in 0 .. t /\ \A e \in MonthEnds : e < t => e < StartOfMonth(t)
<1>1. PICK F : F = {e + 1 : e \in {e \in MonthEnds : e < t}} \cup {0} OBVIOUS
<1>2. MonthEnds \subseteq Nat /\ t \in Nat BY TermsAssumption
<1>3. F # {} /\ F \subseteq 0 .. t BY <1>1, <1>2
<1>4. Max(F) \in F /\ \A y \in F : y <= Max(F) BY <1>2, <1>3, LeastIs
<1>5. StartOfMonth(t) = Max(F) BY <1>1 DEF StartOfMonth
<1>6. \A e \in MonthEnds : e < t => e + 1 \in F BY <1>1
<1>7. ASSUME NEW e \in MonthEnds, e < t PROVE e < Max(F)
  <2>1. PICK x : x = Max(F) OBVIOUS
  <2>2. x \in Nat /\ e \in Nat
    <3>1. x \in F /\ F \subseteq 0 .. t BY <1>3, <1>4, <2>1
    <3> QED BY ONLY <1>2, <3>1, e \in MonthEnds
  <2>3. e + 1 <= x BY <1>4, <1>6, <1>7, <2>1
  <2>4. e < x BY ONLY <2>2, <2>3
  <2> QED BY <2>1, <2>4
<1> QED BY <1>3, <1>4, <1>5, <1>7

\* A day of a month falls in that month, whatever its length.
LEMMA DayFalls ==
  ASSUME NEW t \in MonthEnds, NEW days \in Nat, days > 0, NEW due, due = StartOfMonth(t) + Min({days, Length(t)}) - 1
  PROVE  EndOfMonth(due) = t /\ (due < t => due = StartOfMonth(t) + days - 1)
<1>1. PICK s, len, m : s = StartOfMonth(t) /\ len = Length(t) /\ m = Min({days, len}) OBVIOUS
<1>2. MonthEnds \subseteq Nat /\ t \in Nat BY TermsAssumption
<1>3. s \in 0 .. t /\ \A e \in MonthEnds : e < t => e < s BY <1>1, MonthStartIs
<1>4. len = t - s + 1 /\ len \in Nat /\ len > 0 BY <1>1, <1>2, <1>3 DEF Length
<1>5. m \in {days, len} /\ m <= days /\ m <= len BY <1>1, <1>4, LesserIs
<1>6. due = s + m - 1 BY <1>1
<1>7. due \in Nat /\ s <= due /\ due <= t BY <1>2, <1>3, <1>4, <1>5, <1>6
<1>8. due < t => m = days BY <1>2, <1>3, <1>4, <1>5, <1>6
<1>9. EndOfMonth(due) \in MonthEnds /\ due <= EndOfMonth(due) /\ EndOfMonth(due) <= t BY <1>7, MonthEndIs
<1>10. EndOfMonth(due) = t
  <2>1. PICK E : E = EndOfMonth(due) OBVIOUS
  <2>2. E \in Nat /\ due <= E /\ E <= t /\ (E < t => E < s) BY <1>2, <1>3, <1>9, <2>1
  <2>3. E = t BY ONLY <1>2, <1>3, <1>7, <2>2
  <2> QED BY <2>1, <2>3
<1> QED BY <1>1, <1>6, <1>8, <1>10

\* The months a term needs are in the calendar.
LEMMA MonthsKnown ==
  ASSUME NEW d \in 0 .. LastDay PROVE EndOfMonth(d) \in MonthEnds /\ NextMonthEnd(d) \in MonthEnds
<1>1. PICK e \in MonthEnds, f \in MonthEnds : LastDay < e /\ e < f BY TermsAssumption
<1>2. MonthEnds \subseteq Nat /\ LastDay \in Nat BY TermsAssumption, LastDayAssumption
<1>3. d \in Nat /\ d <= e BY <1>1, <1>2
<1>4. EndOfMonth(d) \in MonthEnds /\ EndOfMonth(d) <= e BY <1>3, MonthEndIs
<1>5. PICK x : x = EndOfMonth(d) + 1 OBVIOUS
<1>6. x \in Nat /\ x <= f
  <2>1. PICK E : E = EndOfMonth(d) OBVIOUS
  <2>2. E \in Nat /\ e \in Nat /\ f \in Nat /\ E <= e /\ e < f /\ x = E + 1 BY <1>1, <1>2, <1>4, <1>5, <2>1
  <2> QED BY ONLY <2>2
<1>7. EndOfMonth(x) \in MonthEnds BY <1>6, MonthEndIs
<1> QED BY <1>4, <1>5, <1>7 DEF NextMonthEnd

LEMMA FallsInMonth ==
  ASSUME NEW l \in TermRows, NEW d \in 0 .. LastDay PROVE DueInMonth(l, d)
<1>1. SUFFICES ASSUME l.delay = "days_end_of_month_on_the", l.days > 0
               PROVE  LET due == DueDate(l, d)
                      IN /\ EndOfMonth(due) = IF l.next THEN NextMonthEnd(d) ELSE EndOfMonth(d)
                         /\ due < EndOfMonth(due) => due = StartOfMonth(EndOfMonth(due)) + l.days - 1
  BY DEF DueInMonth
<1>2. PICK t, due : t = (IF l.next THEN NextMonthEnd(d) ELSE EndOfMonth(d)) /\ due = DueDate(l, d) OBVIOUS
<1>3. t \in MonthEnds BY <1>2, MonthsKnown
<1>4. l.days \in Nat BY DEF TermRows
<1>5. due = StartOfMonth(t) + Min({l.days, Length(t)}) - 1 BY <1>1, <1>2 DEF DueDate, DayOfMonth
<1>6. EndOfMonth(due) = t /\ (due < t => due = StartOfMonth(t) + l.days - 1) BY <1>1, <1>3, <1>4, <1>5, DayFalls
<1> QED BY <1>2, <1>6
-----------------------------------------------------------------------------
(* The instalments.                                                        *)

LEMMA ShareNear ==
  ASSUME NEW l \in TermRows, l.value = "percent", NEW total \in Nat
  PROVE  Share(l, total) \in Nat /\ 100 * Share(l, total) - total * l.amount \in -50 .. 50
<1>1. l.amount \in Nat BY DEF TermRows
<1>2. PICK m : m = total * l.amount OBVIOUS
<1>3. m \in Nat BY <1>1, <1>2
<1>4. Share(l, total) = Quantized(m, 100) BY <1>2 DEF Share
<1> QED BY <1>2, <1>3, <1>4, QuantizedNear

\* Before the last each is its share but for rounding; the last is what they leave.
LEMMA PartsFair ==
  ASSUME TermTypes, ~Refused, \A i \in DOMAIN termLines : termLines[i].value = "percent", NEW total \in Nat
  PROVE  Fair(total)
<1>1. PICK T, n, m : T = termLines /\ n = Len(T) /\ m = n - 1 OBVIOUS
<1>2. T \in Seq(TermRows) /\ DOMAIN T = 1 .. n /\ n \in Nat BY <1>1 DEF TermTypes
<1>3. SUFFICES ASSUME n > 0
               PROVE  LET parts == Instalments(total)
                          off(i) == 100 * parts[i] - total * termLines[i].amount
                      IN /\ SumAll(parts) = total
                         /\ \A i \in 1 .. n - 1 : off(i) \in -50 .. 50
                         /\ off(n) \in -50 * (n - 1) .. 50 * (n - 1)
  BY <1>1 DEF Fair
<1>4. m \in Nat /\ n = m + 1 BY <1>1, <1>2, <1>3
<1>5. \A i \in 1 .. n : T[i] \in TermRows /\ T[i].value = "percent" /\ T[i].amount \in Nat
  <2>1. \A i \in 1 .. n : T[i] \in TermRows BY <1>2
  <2> QED BY <1>1, <1>2, <2>1 DEF TermRows
<1>6. PICK f, g : f = [i \in 1 .. m |-> Share(T[i], total)] /\ g = [i \in 1 .. n |-> T[i].amount] OBVIOUS
<1>7. PICK S, before : S = 1 .. m /\ before = SumOf(f, S) OBVIOUS
<1>8. IsFiniteSet(S) /\ Cardinality(S) = m
  <2>1. IsFiniteSet(1 .. m) /\ Cardinality(1 .. m) = m BY <1>4, FS_Interval
  <2> QED BY <1>7, <2>1
<1>9. \A i \in S : f[i] \in Int /\ g[i] \in Int /\ f[i] = Share(T[i], total) /\ g[i] = T[i].amount
                   /\ 100 * f[i] - total * g[i] \in -50 .. 50
  <2> TAKE i \in S
  <2>1. i \in 1 .. m /\ i \in 1 .. n BY <1>4, <1>7
  <2>2. f[i] = Share(T[i], total) /\ g[i] = T[i].amount BY <1>6, <2>1
  <2>3. Share(T[i], total) \in Nat /\ 100 * Share(T[i], total) - total * T[i].amount \in -50 .. 50
    BY <1>5, <2>1, ShareNear
  <2> QED BY <1>5, <2>1, <2>2, <2>3
<1>10. before \in Int /\ SumOf(g, S) \in Int
  <2>1. (\A i \in S : f[i] \in Int) /\ (\A i \in S : g[i] \in Int) BY <1>9
  <2> QED BY <1>7, <1>8, <2>1, SumType
<1>11. 100 * before - total * SumOf(g, S) \in -(50 * m) .. 50 * m
  <2>1. \A i \in S : f[i] \in Int /\ g[i] \in Int /\ 100 * f[i] - total * g[i] \in -50 .. 50 BY <1>9
  <2>2. 100 * SumOf(f, S) - total * SumOf(g, S) \in -(50 * Cardinality(S)) .. 50 * Cardinality(S)
    BY <1>8, <2>1, RoundingAdds
  <2> QED BY <1>7, <1>8, <2>2
<1>12. SumOf(g, S) + g[n] = 100
  <2>1. \A i \in 1 .. n : g[i] = Percentage(T[i]) BY <1>5, <1>6 DEF Percentage
  <2>2. Sum100(T) = SumOf(g, 1 .. n) BY <1>2, <2>1, Sum100Is
  <2>3. \A i \in 1 .. m : g[i] \in Int BY <1>7, <1>9
  <2>4. g[m + 1] \in Int
    <3>1. n \in 1 .. n BY <1>2, <1>3
    <3> QED BY <1>4, <1>5, <1>6, <3>1
  <2>5. SumOf(g, 1 .. (m + 1)) = SumOf(g, 1 .. m) + g[m + 1] BY <1>4, <2>3, <2>4, SumLast
  <2>6. Sum100(T) = 100
    <3>1. 1 \in DOMAIN T BY <1>2, <1>3
    <3> QED BY <1>1, <3>1 DEF Refused
  <2> QED BY <1>4, <1>7, <2>2, <2>5, <2>6
<1>13. PICK parts : parts = Instalments(total) OBVIOUS
<1>14. parts = [i \in 1 .. n |-> IF i = n THEN total - before ELSE Share(T[i], total)]
  <2>1. SumAll([i \in 1 .. n - 1 |-> Share(T[i], total)]) = before BY <1>1, <1>6, <1>7 DEF SumAll
  <2> QED BY <1>1, <1>13, <2>1 DEF Instalments
<1>15. parts[n] = total - before /\ DOMAIN parts = 1 .. n BY <1>2, <1>3, <1>14
<1>16. \A i \in 1 .. m : parts[i] = f[i] BY <1>4, <1>6, <1>14
<1>17. SumAll(parts) = total
  <2>1. \A i \in 1 .. m : f[i] \in Int /\ parts[i] = f[i] BY <1>7, <1>9, <1>16
  <2>2. parts[m + 1] \in Int BY <1>4, <1>10, <1>15
  <2>3. SumOf(parts, 1 .. (m + 1)) = SumOf(f, 1 .. m) + parts[m + 1] BY <1>4, <2>1, <2>2, SumLast
  <2>4. SumAll(parts) = SumOf(parts, 1 .. n) BY <1>15 DEF SumAll
  <2> QED BY <1>4, <1>7, <1>10, <1>15, <2>3, <2>4
<1>18. \A i \in 1 .. n - 1 : 100 * parts[i] - total * T[i].amount \in -50 .. 50
  <2>1. \A i \in S : parts[i] = f[i] BY <1>7, <1>16
  <2>2. \A i \in S : 100 * f[i] - total * g[i] \in -50 .. 50 /\ g[i] = T[i].amount BY <1>9
  <2>3. \A i \in S : 100 * parts[i] - total * T[i].amount \in -50 .. 50 BY ONLY <2>1, <2>2
  <2>4. S = 1 .. n - 1 BY <1>1, <1>7
  <2> QED BY <2>3, <2>4
<1>19. 100 * parts[n] - total * T[n].amount \in -50 * (n - 1) .. 50 * (n - 1)
  <2>1. PICK G, a : G = SumOf(g, S) /\ a = g[n] OBVIOUS
  <2>2. a = T[n].amount /\ a \in Nat
    <3>1. n \in 1 .. n BY <1>2, <1>3
    <3> QED BY <1>5, <1>6, <2>1, <3>1
  <2>3. G \in Int /\ G + a = 100 BY <1>10, <1>12, <2>1
  <2>4. total * (G + a) = total * G + total * a BY <2>2, <2>3, Distributes
  <2>5. PICK p, q : p = total * G /\ q = total * a OBVIOUS
  <2>6. p \in Int /\ q \in Int /\ total * 100 = p + q BY <2>2, <2>3, <2>4, <2>5
  <2>7. 100 * before - p \in -(50 * m) .. 50 * m BY <1>11, <2>1, <2>5
  <2>8. 100 * (total - before) - q \in -(50 * m) .. 50 * m BY ONLY total \in Nat, <1>4, <1>10, <2>6, <2>7
  <2>9. -(50 * m) = -50 * (n - 1) /\ 50 * m = 50 * (n - 1) BY <1>4
  <2> QED BY <1>15, <2>2, <2>5, <2>8, <2>9
<1> QED BY <1>1, <1>13, <1>17, <1>18, <1>19

LEMMA TermKept == TermInv => TermFair
<1> SUFFICES ASSUME TermInv, exclusive PROVE TermFair BY DEF TermFair
<1>1. TermTypes /\ Sum100(termLines) <= 100 BY DEF TermInv, NotOver
<1>2. \A total \in Invoices : total \in Nat BY TermsAssumption
<1>3. ASSUME ~Refused, \A i \in DOMAIN termLines : termLines[i].value = "percent", NEW total \in Invoices
      PROVE  Fair(total)
  BY <1>1, <1>2, <1>3, PartsFair
<1>4. ASSUME NEW i \in DOMAIN termLines, NEW d \in 0 .. LastDay PROVE DueInMonth(termLines[i], d)
  <2>1. termLines[i] \in TermRows BY <1>1 DEF TermTypes
  <2> QED BY <2>1, FallsInMonth
<1> QED BY <1>1, <1>3, <1>4 DEF TermFair

\* Terms edited a line at a time are fair: the percentages that calls which do not
\* overlap leave never come to more than a hundred, the instalments of any invoice
\* are their shares to the cent and add up to it, and each falls in its month.
THEOREM TermFairHolds == TermsSpec /\ []OneLineWritten => []TermFair
<1>1. TermsInit /\ WorkdayInit => TermInv BY TermsStart
<1>2. TermInv /\ OneLineWritten /\ [TermsNext]_<<termVars, workdayVars>> => TermInv'
  <2> SUFFICES ASSUME TermInv, OneLineWritten, [TermsNext]_<<termVars, workdayVars>> PROVE TermInv' OBVIOUS
  <2>1. CASE TermsNext BY <2>1, TermsStep
  <2>2. CASE UNCHANGED <<termVars, workdayVars>>
    <3>1. UNCHANGED <<termLines, editing, exclusive>> BY <2>2 DEF termVars, workdayVars
    <3> QED BY <3>1 DEF TermInv, TermTypes, EditTyped, NotOver, OneEdits, EditChecked, CheckedPercent, OthersSum
  <2> QED BY <2>1, <2>2
<1>3. TermInv => TermFair BY TermKept
<1> QED BY <1>1, <1>2, <1>3, PTL DEF TermsSpec
=============================================================================
