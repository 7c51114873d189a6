--------------------------- MODULE Payments_proofs ---------------------------
(***************************************************************************)
(* Theorems about payments: whatever calls overlap and wherever they end,  *)
(* nobody pays twice; and as long as one call runs at a time, what is      *)
(* matched is posted, and registrations match what payments point to.      *)
(***************************************************************************)
EXTENDS Payments, Sums_proofs
-----------------------------------------------------------------------------
(* The call in progress: what it may rely on between two transactions.     *)
Steps == {"idle", "create", "entry", "mark", "look", "discount", "take", "match", "status"}
Posting == {"create", "entry", "mark"}
Registering == {"look", "discount", "take", "match", "status"}
Calls == [step : Steps, payment : Payments \cup {NoPayment}, entry : {0} \cup EntryIds,
          list : Seq(Invoices), seen : Int, owed : Int]
Ways == {"registration", "discount", "hand"}
Entries == [payment : Payments \cup {NoPayment}, posted : BOOLEAN, amount : Nat]

Types ==
  /\ due \in [Payments \cup Invoices -> Paid \cup Totals]
  /\ early \in SUBSET Payments
  /\ state \in [Payments -> {"draft", "posted"}]
  /\ moveOf \in [Payments -> {0} \cup EntryIds]
  /\ entries \in Seq(Entries) /\ Len(entries) <= MaxEntries
  /\ open \in [Invoices \cup EntryIds -> Int]
  /\ partials \subseteq [id : 1 .. made, invoice : Invoices, entry : DOMAIN entries, amount : Int, how : Ways]
  /\ made \in Nat /\ IsFiniteSet(partials)
  /\ req \in [Requests -> Calls]

\* A posted payment has an entry, and so has a call about one.
Sound(q) ==
  /\ q.step # "idle" => q.payment \in Payments
  /\ q.step \in Registering => state[q.payment] = "posted" /\ q.list # <<>>
  /\ q.step \notin {"idle", "create"} => q.entry \in DOMAIN entries
  /\ q.step = "discount" => Discount(q.owed) > 0
Anchored ==
  /\ \A p \in Payments : state[p] = "posted" => moveOf[p] \in DOMAIN entries
  /\ \A r \in Requests : Sound(req[r])

PayInv == Types /\ Anchored /\ (~SharedUndo => NeverOverpaid)
-----------------------------------------------------------------------------
LEMMA Ranges ==
  ASSUME Types, ConstantsOK
  PROVE  /\ \A x \in Payments \cup Invoices : due[x] \in Nat
         /\ DOMAIN entries \subseteq EntryIds
         /\ \A e \in DOMAIN entries : entries[e] \in Entries
<1>1. \A x \in Payments \cup Invoices : due[x] \in Paid \cup Totals BY DEF Types
<1>2. Paid \cup Totals \subseteq Nat BY DEF ConstantsOK
<1>3. Len(entries) \in Nat /\ MaxEntries \in Nat /\ Len(entries) <= MaxEntries BY DEF Types, ConstantsOK
<1>4. DOMAIN entries = 1 .. Len(entries) BY DEF Types
<1>5. DOMAIN entries \subseteq EntryIds BY <1>3, <1>4 DEF EntryIds
<1>6. \A e \in DOMAIN entries : entries[e] \in Entries
  <2>1. entries \in Seq(Entries) BY DEF Types
  <2> QED BY <2>1
<1> QED BY <1>1, <1>2, <1>5, <1>6

LEMMA MatchedType ==
  ASSUME Types, NEW x PROVE Matched(x) \in Int /\ IsFiniteSet(Of(x))
<1>1. Of(x) \subseteq partials BY DEF Of
<1>2. IsFiniteSet(Of(x)) BY <1>1, FS_Subset DEF Types
<1>3. \A q \in Of(x) : [p \in partials |-> p.amount][q] \in Int BY <1>1 DEF Types
<1> QED BY <1>2, <1>3, SumType DEF Matched

\* Matches that stay count as much as before.
LEMMA MatchedSame ==
  ASSUME Types, NEW x, Of(x)' = Of(x) PROVE Matched(x)' = Matched(x)
<1> DEFINE f == [q \in partials |-> q.amount]
           g == [q \in partials' |-> q.amount]
           S == Of(x)
<1>1. IsFiniteSet(S) BY MatchedType
<1>2. \A q \in S : f[q] = g[q]
  <2>1. S \subseteq partials /\ S \subseteq partials' BY DEF Of
  <2> QED BY <2>1
<1>3. Matched(x) = SumOf(f, S) /\ Matched(x)' = SumOf(g, S) BY DEF Matched
<1> HIDE DEF f, g, S
<1> QED BY <1>1, <1>2, <1>3, SumSame

\* One more counts with its amount.
LEMMA MatchedMore ==
  ASSUME Types, NEW x, NEW q, q \notin partials, partials' = partials \cup {q}, q.amount \in Int,
         q.invoice = x \/ q.entry = x
  PROVE  Matched(x)' = Matched(x) + q.amount
<1> DEFINE f == [p \in partials |-> p.amount]
           g == [p \in partials' |-> p.amount]
           S == Of(x)
<1>1. IsFiniteSet(S) BY MatchedType
<1>2. S \subseteq partials /\ q \notin S BY DEF Of
<1>3. Of(x)' = S \cup {q} BY DEF Of
<1>4. \A p \in S : f[p] = g[p] BY <1>2
<1>5. g[q] = q.amount OBVIOUS
<1>6. \A p \in S \cup {q} : g[p] \in Int
  <2>1. \A p \in partials : p.amount \in Int BY DEF Types
  <2> QED BY <1>2, <1>5, <2>1
<1>7. Matched(x) = SumOf(f, S) /\ Matched(x)' = SumOf(g, S \cup {q}) BY <1>3 DEF Matched
<1> HIDE DEF f, g, S
<1>8. SumOf(g, S \cup {q}) = g[q] + SumOf(g, S) BY <1>1, <1>2, <1>6, SumAdd
<1>9. SumOf(f, S) = SumOf(g, S) BY <1>1, <1>4, SumSame
<1>10. SumOf(f, S) \in Int BY <1>7, MatchedType
<1> QED BY <1>5, <1>7, <1>8, <1>9, <1>10

\* A match lowers what its two lines leave open, and nothing else.
LEMMA MatchKeeps ==
  ASSUME Types, ConstantsOK, UNCHANGED <<due, entries>>,
         NEW i \in Invoices, NEW e \in DOMAIN entries, NEW amount \in Int,
         NEW how \in Ways, Match(i, e, amount, how)
  PROVE  /\ NeverOverpaid => NeverOverpaid'
         /\ open' \in [Invoices \cup EntryIds -> Int]
         /\ partials' \subseteq [id : 1 .. made', invoice : Invoices, entry : DOMAIN entries', amount : Int, how : Ways]
         /\ made' \in Nat /\ IsFiniteSet(partials')
<1>1. PICK q : q = [id |-> made + 1, invoice |-> i, entry |-> e, amount |-> amount, how |-> how] OBVIOUS
<1>2. partials' = partials \cup {q} /\ made' = made + 1 BY <1>1 DEF Match
<1>3. e \in EntryIds /\ i # e /\ i \in DOMAIN open /\ e \in DOMAIN open BY DEF Types, ConstantsOK, EntryIds
<1>4. open' = [open EXCEPT ![i] = @ - amount, ![e] = @ - amount] BY DEF Match
<1>5. \A x \in Invoices \cup EntryIds : open[x] \in Int BY DEF Types
<1>6. /\ open' \in [Invoices \cup EntryIds -> Int]
      /\ open'[i] = open[i] - amount /\ open'[e] = open[e] - amount
      /\ \A x \in Invoices \cup EntryIds : x # i /\ x # e => open'[x] = open[x]
  BY <1>3, <1>4, <1>5 DEF Types
<1>7. q \notin partials
  <2>1. \A p \in partials : p.id \in 1 .. made BY DEF Types
  <2>2. made + 1 \notin 1 .. made BY DEF Types
  <2> QED BY <1>1, <2>1, <2>2
<1>8. open'[i] >= 0 /\ open'[e] >= 0
  <2>1. amount <= open[i] /\ amount <= open[e] BY <1>3, <1>5 DEF Match, Most, Smaller
  <2> QED BY <1>3, <1>5, <1>6, <2>1
<1>9. Matched(i)' = Matched(i) + amount /\ Matched(e)' = Matched(e) + amount
  BY <1>1, <1>2, <1>7, MatchedMore
<1>10. ASSUME NEW x, x # i, x # e PROVE Matched(x)' = Matched(x)
  <2>1. Of(x)' = Of(x) BY <1>1, <1>2, <1>10 DEF Of
  <2> QED BY <2>1, MatchedSame
<1>11. DOMAIN entries \subseteq EntryIds /\ \A d \in DOMAIN entries : entries[d].amount \in Int
  BY Ranges DEF Entries
<1>12. \A j \in Invoices : due[j] \in Int BY Ranges
<1>13. ASSUME NeverOverpaid PROVE NeverOverpaid'
  <2>1. ASSUME NEW j \in Invoices PROVE open'[j] = due[j] - Matched(j)' /\ open'[j] >= 0
    <3>1. open[j] = due[j] - Matched(j) /\ open[j] >= 0 BY <1>13 DEF NeverOverpaid
    <3>2. j # e BY <1>3 DEF ConstantsOK, EntryIds
    <3>3. Matched(j) \in Int /\ due[j] \in Int BY <1>12, MatchedType
    <3> QED BY <1>6, <1>8, <1>9, <1>10, <3>1, <3>2, <3>3
  <2>2. ASSUME NEW d \in DOMAIN entries PROVE open'[d] = entries[d].amount - Matched(d)' /\ open'[d] >= 0
    <3>1. open[d] = entries[d].amount - Matched(d) /\ open[d] >= 0 BY <1>13 DEF NeverOverpaid
    <3>2. d # i BY <1>3, <1>11 DEF ConstantsOK, EntryIds
    <3>3. Matched(d) \in Int /\ entries[d].amount \in Int BY <1>11, MatchedType
    <3> QED BY <1>6, <1>8, <1>9, <1>10, <1>11, <3>1, <3>2, <3>3
  <2> QED BY <2>1, <2>2 DEF NeverOverpaid
<1>14. IsFiniteSet(partials') BY <1>2, FS_AddElement DEF Types
<1>15. partials' \subseteq [id : 1 .. made', invoice : Invoices, entry : DOMAIN entries', amount : Int, how : Ways]
  <2>1. 1 .. made \subseteq 1 .. made' /\ made' \in Nat BY <1>2 DEF Types
  <2>2. q \in [id : 1 .. made', invoice : Invoices, entry : DOMAIN entries, amount : Int, how : Ways]
    BY <1>1, <1>2 DEF Types
  <2> QED BY <1>2, <2>1, <2>2 DEF Types
<1> QED BY <1>2, <1>6, <1>13, <1>14, <1>15 DEF Types

\* What is undone is owed again, and its counterparts, which had no other match, are
\* open again.
LEMMA UndoKeeps ==
  ASSUME Types, ConstantsOK, NEW i \in Invoices, Unreconcile(i)
  PROVE  /\ ~SharedUndo /\ NeverOverpaid => NeverOverpaid'
         /\ open' \in [Invoices \cup EntryIds -> Int]
         /\ partials' \subseteq partials /\ IsFiniteSet(partials')
<1> DEFINE affected == {i} \cup {q.entry : q \in Of(i)}
<1>1. /\ ~SharedUndo => \A x \in affected : Of(x) \subseteq Of(i)
      /\ partials' = partials \ Of(i)
      /\ open' = [x \in DOMAIN open |-> IF x \notin affected THEN open[x]
                                        ELSE IF x = i THEN due[i] ELSE entries[x].amount]
      /\ UNCHANGED <<due, entries>>
  BY DEF Unreconcile
<1>2. /\ \A x \in DOMAIN entries : entries[x].amount \in Nat
      /\ DOMAIN entries \subseteq EntryIds /\ \A x \in Invoices : due[x] \in Nat
  BY Ranges DEF Entries
<1>3. affected \subseteq {i} \cup DOMAIN entries BY DEF Types, Of
<1>4. \A x \in Invoices \cup EntryIds : open[x] \in Int BY DEF Types
<1>5. Invoices \cap EntryIds = {} BY DEF ConstantsOK, EntryIds
<1>6. DOMAIN open = Invoices \cup EntryIds BY DEF Types
<1> HIDE DEF affected
<1>7. ASSUME NEW x \in Invoices \cup EntryIds
      PROVE  open'[x] = IF x \notin affected THEN open[x]
                        ELSE IF x = i THEN due[i] ELSE entries[x].amount
  BY <1>1, <1>6
<1>8. open' \in [Invoices \cup EntryIds -> Int]
  <2>1. \A x \in Invoices \cup EntryIds : open'[x] \in Int BY <1>2, <1>3, <1>4, <1>7
  <2> QED BY <1>1, <1>6, <2>1
<1>9. ASSUME ~SharedUndo, NEW x \in affected PROVE Matched(x)' = 0
  <2>1. Of(x)' = {} BY <1>1, <1>9 DEF Of
  <2>2. Matched(x)' = SumOf([q \in partials' |-> q.amount], Of(x)') BY DEF Matched
  <2> QED BY <2>1, <2>2, SumEmpty
<1>10. ASSUME NEW x \in Invoices \cup DOMAIN entries, x \notin affected PROVE Matched(x)' = Matched(x)
  <2>1. ASSUME NEW q \in Of(x) PROVE q \notin Of(i)
    <3>1. q \in partials /\ (q.invoice = x \/ q.entry = x) BY <2>1 DEF Of
    <3>2. q.invoice \in Invoices /\ q.entry \in DOMAIN entries BY <3>1 DEF Types
    <3>3. SUFFICES ASSUME q \in Of(i) PROVE FALSE OBVIOUS
    <3>4. q.entry \in affected /\ i \in affected BY <3>3 DEF affected
    <3>5. q.invoice = i BY <1>2, <1>5, <3>2, <3>3 DEF Of
    <3> QED BY <1>10, <3>1, <3>4, <3>5
  <2>2. Of(x)' = Of(x) BY <1>1, <2>1 DEF Of
  <2> QED BY <2>2, MatchedSame
<1>11. ASSUME ~SharedUndo, NeverOverpaid PROVE NeverOverpaid'
  <2>1. ASSUME NEW j \in Invoices PROVE open'[j] = due[j] - Matched(j)' /\ open'[j] >= 0
    <3>1. open[j] = due[j] - Matched(j) /\ open[j] >= 0 BY <1>11 DEF NeverOverpaid
    <3>2. CASE j \in affected
      <4>1. j = i BY <1>2, <1>3, <1>5, <3>2
      <4>2. open'[j] = due[j] BY <1>7, <3>2, <4>1
      <4> QED BY <1>2, <1>9, <1>11, <3>2, <4>2
    <3>3. CASE j \notin affected BY <1>7, <1>10, <3>1, <3>3
    <3> QED BY <3>2, <3>3
  <2>2. ASSUME NEW d \in DOMAIN entries PROVE open'[d] = entries[d].amount - Matched(d)' /\ open'[d] >= 0
    <3>1. open[d] = entries[d].amount - Matched(d) /\ open[d] >= 0 BY <1>11 DEF NeverOverpaid
    <3>2. CASE d \in affected
      <4>1. d # i BY <1>2, <1>5
      <4>2. open'[d] = entries[d].amount BY <1>2, <1>7, <3>2, <4>1
      <4> QED BY <1>2, <1>9, <1>11, <3>2, <4>2
    <3>3. CASE d \notin affected BY <1>2, <1>7, <1>10, <3>1, <3>3
    <3> QED BY <3>2, <3>3
  <2> QED BY <1>1, <2>1, <2>2 DEF NeverOverpaid
<1>12. IsFiniteSet(partials') BY <1>1, FS_Subset DEF Types
<1> QED BY <1>1, <1>8, <1>11, <1>12

\* A new entry is open with its amount.
LEMMA EntryKeeps ==
  ASSUME Types, ConstantsOK, UNCHANGED <<due, partials>>,
         NEW p \in Payments \cup {NoPayment}, NEW posted \in BOOLEAN, NEW amount \in Nat,
         AddEntry(p, posted, amount)
  PROVE  /\ NeverOverpaid => NeverOverpaid'
         /\ open' \in [Invoices \cup EntryIds -> Int]
         /\ entries' \in Seq(Entries) /\ Len(entries') <= MaxEntries
         /\ Len(entries) + 1 \in DOMAIN entries' /\ Len(entries) + 1 \in EntryIds
         /\ DOMAIN entries \subseteq DOMAIN entries'
         /\ \A e \in DOMAIN entries : entries'[e] = entries[e]
         /\ entries'[Len(entries) + 1] = [payment |-> p, posted |-> posted, amount |-> amount]
<1>1. PICK n : n = Len(entries) + 1 OBVIOUS
<1>2. PICK e : e = [payment |-> p, posted |-> posted, amount |-> amount] OBVIOUS
<1>3. e \in Entries BY <1>2 DEF Entries
<1>4. Len(entries) < MaxEntries /\ entries' = Append(entries, e) /\ open' = [open EXCEPT ![n] = amount]
  BY <1>1, <1>2 DEF AddEntry
<1>5. entries \in Seq(Entries) /\ Len(entries) \in Nat /\ MaxEntries \in Nat BY DEF Types, ConstantsOK
<1>6. /\ entries' \in Seq(Entries) /\ Len(entries') = n /\ entries'[n] = e
      /\ DOMAIN entries = 1 .. Len(entries) /\ DOMAIN entries' = 1 .. n
      /\ \A d \in DOMAIN entries : entries'[d] = entries[d]
  BY <1>1, <1>3, <1>4, <1>5
<1>7. n \in EntryIds /\ n \in DOMAIN entries' /\ n \notin DOMAIN entries
      /\ DOMAIN entries' = DOMAIN entries \cup {n} /\ n <= MaxEntries
  BY <1>1, <1>4, <1>5, <1>6 DEF EntryIds
<1>8. open' \in [Invoices \cup EntryIds -> Int] /\ open'[n] = amount
      /\ \A x \in Invoices \cup EntryIds : x # n => open'[x] = open[x]
  BY <1>4, <1>7 DEF Types
<1>9. ASSUME NEW x PROVE Matched(x)' = Matched(x)
  <2>1. Of(x)' = Of(x) BY DEF Of
  <2> QED BY <2>1, MatchedSame
<1>10. Matched(n) = 0
  <2>1. Invoices \cap EntryIds = {} BY DEF ConstantsOK, EntryIds
  <2>2. Of(n) = {} BY <1>7, <2>1 DEF Of, Types
  <2>3. Matched(n) = SumOf([q \in partials |-> q.amount], Of(n)) BY DEF Matched
  <2> QED BY <2>2, <2>3, SumEmpty
<1>11. ASSUME NeverOverpaid PROVE NeverOverpaid'
  <2>1. ASSUME NEW j \in Invoices PROVE open'[j] = due[j] - Matched(j)' /\ open'[j] >= 0
    <3>1. open[j] = due[j] - Matched(j) /\ open[j] >= 0 BY <1>11 DEF NeverOverpaid
    <3>2. j # n BY <1>7 DEF ConstantsOK, EntryIds
    <3> QED BY <1>8, <1>9, <3>1, <3>2
  <2>2. ASSUME NEW d \in DOMAIN entries' PROVE open'[d] = entries'[d].amount - Matched(d)' /\ open'[d] >= 0
    <3>1. CASE d = n BY <1>2, <1>6, <1>8, <1>9, <1>10, <3>1
    <3>2. CASE d # n
      <4>1. d \in DOMAIN entries /\ d \in EntryIds BY <1>7, <3>2, Ranges
      <4>2. open[d] = entries[d].amount - Matched(d) /\ open[d] >= 0 BY <1>11, <4>1 DEF NeverOverpaid
      <4> QED BY <1>6, <1>8, <1>9, <3>2, <4>1, <4>2
    <3> QED BY <3>1, <3>2
  <2> QED BY <2>1, <2>2 DEF NeverOverpaid
<1> QED BY <1>1, <1>2, <1>6, <1>7, <1>8, <1>11
-----------------------------------------------------------------------------
\* A call takes its turn; payments stay posted, and entries stay.
LEMMA Turn ==
  ASSUME Types, Anchored, NEW r \in Requests, NEW c \in Calls, req' = [req EXCEPT ![r] = c], Sound(c)',
         DOMAIN entries \subseteq DOMAIN entries',
         \A p \in Payments : state[p] = "posted" => state'[p] = "posted",
         \A p \in Payments : state'[p] = "posted" => moveOf'[p] \in DOMAIN entries'
  PROVE  req' \in [Requests -> Calls] /\ Anchored'
<1>1. req' \in [Requests -> Calls] BY DEF Types
<1>2. ASSUME NEW s \in Requests PROVE (Sound(req[s]))'
  <2>1. CASE s = r
    <3>1. req'[s] = c BY <2>1 DEF Types
    <3> QED BY <3>1 DEF Sound
  <2>2. CASE s # r
    <3>1. req'[s] = req[s] BY <2>2 DEF Types
    <3>2. Sound(req[s]) BY DEF Anchored
    <3> QED BY <3>1, <3>2 DEF Sound, Registering
  <2> QED BY <2>1, <2>2
<1> QED BY <1>1, <1>2 DEF Anchored

\* Turns that change nothing but the call.
LEMMA JustTurn ==
  ASSUME PayInv, NEW r \in Requests, NEW c \in Calls, req' = [req EXCEPT ![r] = c], Sound(c),
         UNCHANGED <<due, early, state, moveOf, entries, open, partials, made>>
  PROVE  PayInv'
<1>1. Sound(c)' BY DEF Sound
<1>2. \A p \in Payments : state'[p] = "posted" => moveOf'[p] \in DOMAIN entries'
  BY DEF PayInv, Anchored
<1>3. req' \in [Requests -> Calls] /\ Anchored' BY <1>1, <1>2, Turn DEF PayInv
<1>4. Types' BY <1>3 DEF PayInv, Types
<1>5. ASSUME ~SharedUndo PROVE NeverOverpaid'
  <2>1. NeverOverpaid BY <1>5 DEF PayInv
  <2>2. ASSUME NEW x PROVE Matched(x)' = Matched(x) BY DEF Matched, Of
  <2> QED BY <2>1, <2>2 DEF NeverOverpaid
<1> QED BY <1>3, <1>4, <1>5 DEF PayInv

LEMMA CallFacts ==
  ASSUME PayInv, NEW r \in Requests
  PROVE  req[r] \in Calls /\ Sound(req[r])
BY DEF PayInv, Types, Anchored

LEMMA IdleCall == Idle \in Calls /\ Sound(Idle) /\ Sound(Idle)'
<1>1. Idle = [step |-> "idle", payment |-> NoPayment, entry |-> 0, list |-> <<>>, seen |-> 0, owed |-> 0]
  BY DEF Idle, Call
<1>2. <<>> \in Seq(Invoices) OBVIOUS
<1> QED BY <1>1, <1>2 DEF Calls, Steps, Sound, Registering

\* What is left of a call is a call.
LEMMA RestCall ==
  ASSUME PayInv, ConstantsOK, NEW q \in Calls, q.step \in Registering, Sound(q)
  PROVE  Rest(q) \in Calls /\ Sound(Rest(q))
<1>1. CASE Len(q.list) = 1 BY <1>1, IdleCall DEF Rest
<1>2. CASE Len(q.list) # 1
  <2>1. Rest(q) = [step |-> "look", payment |-> q.payment, entry |-> moveOf[q.payment],
                   list |-> Tail(q.list), seen |-> q.seen, owed |-> 0]
    BY <1>2 DEF Rest, Call
  <2>2. q.payment \in Payments /\ state[q.payment] = "posted" /\ q.list # <<>> /\ q.list \in Seq(Invoices)
    BY DEF Sound, Registering, Calls
  <2>3. Tail(q.list) \in Seq(Invoices) /\ Tail(q.list) # <<>>
    <3>1. Len(q.list) \in Nat /\ Len(q.list) # 0 BY <2>2
    <3>2. Tail(q.list) \in Seq(Invoices) /\ Len(Tail(q.list)) = Len(q.list) - 1 BY <2>2, <3>1
    <3>3. Len(<<>>) = 0 OBVIOUS
    <3>4. Len(Tail(q.list)) # 0 BY <1>2, <3>1, <3>2
    <3> QED BY <3>2, <3>3, <3>4
  <2>4. moveOf[q.payment] \in DOMAIN entries /\ moveOf[q.payment] \in EntryIds
    BY <2>2, Ranges DEF PayInv, Anchored
  <2>5. q.seen \in Int BY DEF Calls
  <2> QED BY <2>1, <2>2, <2>3, <2>4, <2>5 DEF Calls, Steps, Sound, Registering
<1> QED BY <1>1, <1>2
-----------------------------------------------------------------------------
LEMMA InitPay == ConstantsOK /\ Init => PayInv
<1> SUFFICES ASSUME ConstantsOK, Init PROVE PayInv OBVIOUS
<1>1. DOMAIN entries = {} /\ entries \in Seq(Entries) /\ Len(entries) = 0 BY DEF Init
<1>2. \A x \in Payments \cup Invoices : due[x] \in Nat
  <2>1. \A x \in Payments \cup Invoices : due[x] \in Paid \cup Totals BY DEF Init
  <2> QED BY <2>1 DEF ConstantsOK
<1>3. open \in [Invoices \cup EntryIds -> Int] /\ \A i \in Invoices : open[i] = due[i]
  BY <1>2 DEF Init
<1>4. IsFiniteSet(partials) /\ partials = {} BY FS_EmptySet DEF Init
<1>5. req \in [Requests -> Calls] /\ \A r \in Requests : req[r] = Idle BY IdleCall DEF Init
<1>6. Types BY <1>1, <1>3, <1>4, <1>5 DEF Init, Types, ConstantsOK
<1>7. Anchored
  <2>1. \A p \in Payments : state[p] # "posted" BY DEF Init
  <2> QED BY <1>5, <2>1, IdleCall DEF Anchored
<1>8. NeverOverpaid
  <2>1. ASSUME NEW i \in Invoices PROVE open[i] = due[i] - Matched(i) /\ open[i] >= 0
    <3>1. Of(i) = {} BY <1>4 DEF Of
    <3>2. Matched(i) = SumOf([q \in partials |-> q.amount], Of(i)) BY DEF Matched
    <3>3. Matched(i) = 0 BY <3>1, <3>2, SumEmpty
    <3> QED BY <1>2, <1>3, <3>3
  <2> QED BY <1>1, <2>1 DEF NeverOverpaid
<1> QED BY <1>6, <1>7, <1>8 DEF PayInv

\* What a match changes, the call's next step apart.
LEMMA MatchTurn ==
  ASSUME PayInv, ConstantsOK, UNCHANGED <<due, early, state, moveOf, entries>>,
         NEW i \in Invoices, NEW e \in DOMAIN entries, NEW amount \in Int,
         NEW how \in Ways, Match(i, e, amount, how),
         NEW r \in Requests, NEW c \in Calls, req' = [req EXCEPT ![r] = c], Sound(c)
  PROVE  PayInv'
<1>1. /\ NeverOverpaid => NeverOverpaid'
      /\ open' \in [Invoices \cup EntryIds -> Int]
      /\ partials' \subseteq [id : 1 .. made', invoice : Invoices, entry : DOMAIN entries', amount : Int, how : Ways]
      /\ made' \in Nat /\ IsFiniteSet(partials')
  BY MatchKeeps DEF PayInv
<1>2. Sound(c)' BY DEF Sound
<1>3. \A p \in Payments : state'[p] = "posted" => moveOf'[p] \in DOMAIN entries'
  BY DEF PayInv, Anchored
<1>4. req' \in [Requests -> Calls] /\ Anchored' BY <1>2, <1>3, Turn DEF PayInv
<1>5. Types' BY <1>1, <1>4 DEF PayInv, Types
<1> QED BY <1>1, <1>4, <1>5 DEF PayInv

\* What a new entry changes.
LEMMA EntryTurn ==
  ASSUME PayInv, ConstantsOK, UNCHANGED <<due, early, state, moveOf, partials, made>>,
         NEW p \in Payments \cup {NoPayment}, NEW posted \in BOOLEAN, NEW amount \in Nat,
         AddEntry(p, posted, amount),
         NEW r \in Requests, NEW c \in Calls, req' = [req EXCEPT ![r] = c], Sound(c)'
  PROVE  PayInv'
<1>1. /\ NeverOverpaid => NeverOverpaid'
      /\ open' \in [Invoices \cup EntryIds -> Int]
      /\ entries' \in Seq(Entries) /\ Len(entries') <= MaxEntries
      /\ DOMAIN entries \subseteq DOMAIN entries'
  BY EntryKeeps DEF PayInv
<1>2. \A d \in Payments : state'[d] = "posted" => moveOf'[d] \in DOMAIN entries'
  BY <1>1 DEF PayInv, Anchored
<1>3. req' \in [Requests -> Calls] /\ Anchored' BY <1>1, <1>2, Turn DEF PayInv
<1>4. partials' \subseteq [id : 1 .. made', invoice : Invoices, entry : DOMAIN entries', amount : Int, how : Ways]
  BY <1>1 DEF PayInv, Types
<1>5. Types' BY <1>1, <1>3, <1>4 DEF PayInv, Types
<1> QED BY <1>1, <1>3, <1>5 DEF PayInv
-----------------------------------------------------------------------------
LEMMA PayStep ==
  ASSUME PayInv, ConstantsOK, [Next]_vars PROVE PayInv'
<1>1. ASSUME NEW r \in Requests, PostCreate(r) PROVE PayInv'
  <2>1. PICK q : q = req[r] OBVIOUS
  <2>2. q \in Calls /\ Sound(q) BY <2>1, CallFacts
  <2>3. PICK c : c = [step |-> "entry", payment |-> q.payment, entry |-> Len(entries) + 1,
                      list |-> <<>>, seen |-> 0, owed |-> 0]
    OBVIOUS
  <2>4. /\ q.step = "create" /\ AddEntry(q.payment, FALSE, due[q.payment])
        /\ req' = [req EXCEPT ![r] = c] /\ UNCHANGED <<due, early, state, moveOf, partials, made>>
    BY <1>1, <2>1, <2>3 DEF PostCreate, At, Set, Call
  <2>5. q.payment \in Payments BY <2>2, <2>4 DEF Sound
  <2>6. due[q.payment] \in Nat BY <2>5, Ranges DEF PayInv
  <2>7. Len(entries) + 1 \in EntryIds /\ Len(entries) + 1 \in DOMAIN entries'
    BY <2>4, <2>5, <2>6, EntryKeeps DEF PayInv
  <2>8. <<>> \in Seq(Invoices) OBVIOUS
  <2>9. c \in Calls /\ Sound(c)' BY <2>3, <2>5, <2>7, <2>8 DEF Calls, Steps, Sound, Registering
  <2> QED BY <2>4, <2>5, <2>6, <2>9, EntryTurn
<1>2. ASSUME NEW r \in Requests, PostEntry(r) PROVE PayInv'
  <2>1. PICK q, c : q = req[r] /\ c = [q EXCEPT !.step = "mark"] OBVIOUS
  <2>2. q \in Calls /\ Sound(q) BY <2>1, CallFacts
  <2>3. /\ q.step = "entry" /\ entries' = [entries EXCEPT ![q.entry].posted = TRUE]
        /\ req' = [req EXCEPT ![r] = c] /\ UNCHANGED <<due, early, state, moveOf, open, partials, made>>
    BY <1>2, <2>1 DEF PostEntry, At, Goto
  <2>4. q.payment \in Payments /\ q.entry \in DOMAIN entries BY <2>2, <2>3 DEF Sound
  <2>5. entries \in Seq(Entries) /\ Len(entries) <= MaxEntries /\ entries[q.entry] \in Entries
    BY <2>4, Ranges DEF PayInv, Types
  <2>6. PICK e : e = [entries[q.entry] EXCEPT !.posted = TRUE] OBVIOUS
  <2>7. e \in Entries /\ e.amount = entries[q.entry].amount BY <2>5, <2>6 DEF Entries
  <2>8. entries' = [entries EXCEPT ![q.entry] = e] BY <2>3, <2>6
  <2>9. /\ entries' \in Seq(Entries) /\ Len(entries') = Len(entries) /\ DOMAIN entries' = DOMAIN entries
        /\ \A d \in DOMAIN entries : entries'[d].amount = entries[d].amount
    BY <2>4, <2>5, <2>7, <2>8
  <2>10. c \in Calls /\ Sound(c)'
    <3>1. c \in Calls /\ c.step = "mark" /\ c.entry = q.entry /\ c.payment = q.payment
      BY <2>1, <2>2 DEF Calls, Steps
    <3> QED BY <2>4, <2>9, <3>1 DEF Sound, Registering
  <2>11. req' \in [Requests -> Calls] /\ Anchored' BY <2>3, <2>9, <2>10, Turn DEF PayInv, Anchored
  <2>12. Types' BY <2>3, <2>5, <2>9, <2>11 DEF PayInv, Types
  <2>13. ASSUME NeverOverpaid PROVE NeverOverpaid'
    <3>1. ASSUME NEW x PROVE Matched(x)' = Matched(x) BY <2>3 DEF Matched, Of
    <3> QED BY <2>3, <2>9, <2>13, <3>1 DEF NeverOverpaid
  <2> QED BY <2>11, <2>12, <2>13 DEF PayInv
<1>3. ASSUME NEW r \in Requests, PostMark(r) PROVE PayInv'
  <2>1. PICK q : q = req[r] OBVIOUS
  <2>2. q \in Calls /\ Sound(q) BY <2>1, CallFacts
  <2>3. /\ q.step = "mark" /\ state' = [state EXCEPT ![q.payment] = "posted"]
        /\ moveOf' = [moveOf EXCEPT ![q.payment] = q.entry]
        /\ req' = [req EXCEPT ![r] = Idle] /\ UNCHANGED <<due, early, entries, open, partials, made>>
    BY <1>3, <2>1 DEF PostMark, At, Set
  <2>4. q.payment \in Payments /\ q.entry \in DOMAIN entries /\ q.entry \in EntryIds
    BY <2>2, <2>3, Ranges DEF Sound, PayInv
  <2>5. /\ state' \in [Payments -> {"draft", "posted"}] /\ moveOf' \in [Payments -> {0} \cup EntryIds]
        /\ \A p \in Payments : state[p] = "posted" => state'[p] = "posted"
        /\ \A p \in Payments : state'[p] = "posted" => moveOf'[p] \in DOMAIN entries'
    BY <2>3, <2>4 DEF PayInv, Types, Anchored
  <2>6. req' \in [Requests -> Calls] /\ Anchored' BY <2>3, <2>5, IdleCall, Turn DEF PayInv
  <2>7. Types' BY <2>3, <2>5, <2>6 DEF PayInv, Types
  <2>8. ASSUME NeverOverpaid PROVE NeverOverpaid'
    <3>1. ASSUME NEW x PROVE Matched(x)' = Matched(x) BY <2>3 DEF Matched, Of
    <3> QED BY <2>3, <2>8, <3>1 DEF NeverOverpaid
  <2> QED BY <2>6, <2>7, <2>8 DEF PayInv
<1>4. ASSUME NEW r \in Requests, Look(r) PROVE PayInv'
  <2>1. PICK q, n : q = req[r] /\ n = IF q.payment \in early /\ Discount(open[Head(q.list)]) > 0
                                      THEN "discount" ELSE "match"
    OBVIOUS
  <2>2. q \in Calls /\ Sound(q) BY <2>1, CallFacts
  <2>3. PICK c : c = [step |-> n, payment |-> q.payment, entry |-> q.entry, list |-> q.list,
                      seen |-> q.seen, owed |-> open[Head(q.list)]]
    OBVIOUS
  <2>4. /\ q.step = "look" /\ req' = [req EXCEPT ![r] = c]
        /\ UNCHANGED <<due, early, state, moveOf, entries, open, partials, made>>
    BY <1>4, <2>1, <2>3 DEF Look, At, Set, Call
  <2>5. q.list \in Seq(Invoices) /\ q.list # <<>> BY <2>2, <2>4 DEF Calls, Sound, Registering
  <2>6. Head(q.list) \in Invoices BY <2>5
  <2>7. open[Head(q.list)] \in Int BY <2>6 DEF PayInv, Types
  <2>8. n \in {"discount", "match"} BY <2>1
  <2>9. c \in Calls BY <2>2, <2>3, <2>7, <2>8 DEF Calls, Steps
  <2>10. Sound(c)
    <3>1. c.step = "discount" => Discount(c.owed) > 0 BY <2>1, <2>3
    <3> QED BY <2>2, <2>3, <2>4, <2>8, <3>1 DEF Sound, Registering
  <2> QED BY <2>4, <2>9, <2>10, JustTurn
<1>5. ASSUME NEW r \in Requests, DiscountEntry(r) PROVE PayInv'
  <2>1. PICK q : q = req[r] OBVIOUS
  <2>2. q \in Calls /\ Sound(q) BY <2>1, CallFacts
  <2>3. PICK c : c = [step |-> "take", payment |-> q.payment, entry |-> Len(entries) + 1,
                      list |-> q.list, seen |-> q.seen, owed |-> q.owed]
    OBVIOUS
  <2>4. /\ q.step = "discount" /\ AddEntry(NoPayment, TRUE, Discount(q.owed))
        /\ req' = [req EXCEPT ![r] = c] /\ UNCHANGED <<due, early, state, moveOf, partials, made>>
    BY <1>5, <2>1, <2>3 DEF DiscountEntry, At, Set, Call
  <2>5. Discount(q.owed) \in Nat
    <3>1. q.owed \in Int /\ Percent \in Int BY <2>2 DEF Calls, ConstantsOK
    <3>2. q.owed * Percent \in Int BY <3>1
    <3>3. Discount(q.owed) \in Int BY <3>2 DEF Discount
    <3> QED BY <2>2, <2>4, <3>3 DEF Sound
  <2>6. Len(entries) + 1 \in EntryIds /\ Len(entries) + 1 \in DOMAIN entries' /\ DOMAIN entries \subseteq DOMAIN entries'
    BY <2>4, <2>5, EntryKeeps DEF PayInv
  <2>7. c \in Calls BY <2>2, <2>3, <2>6 DEF Calls, Steps
  <2>8. Sound(c)' BY <2>2, <2>3, <2>4, <2>6 DEF Sound, Registering
  <2> QED BY <2>4, <2>5, <2>7, <2>8, EntryTurn
<1>6. ASSUME NEW r \in Requests, DiscountMatch(r) PROVE PayInv'
  <2>1. PICK q, d : q = req[r] /\ d = Discount(q.owed) OBVIOUS
  <2>2. q \in Calls /\ Sound(q) BY <2>1, CallFacts
  <2>3. PICK c : c = [step |-> "match", payment |-> q.payment, entry |-> moveOf[q.payment],
                      list |-> q.list, seen |-> q.seen, owed |-> q.owed - d]
    OBVIOUS
  <2>4. /\ q.step = "take" /\ Match(Head(q.list), q.entry, d, "discount")
        /\ req' = [req EXCEPT ![r] = c] /\ UNCHANGED <<due, early, state, moveOf, entries>>
    BY <1>6, <2>1, <2>3 DEF DiscountMatch, At, Set, Call
  <2>5. d \in Int /\ q.owed \in Int /\ q.owed - d \in Int
    <3>1. q.owed \in Int /\ Percent \in Int BY <2>2 DEF Calls, ConstantsOK
    <3>2. q.owed * Percent \in Int BY <3>1
    <3>3. d \in Int BY <2>1, <3>2 DEF Discount
    <3> QED BY <3>1, <3>3
  <2>6. Head(q.list) \in Invoices /\ q.entry \in DOMAIN entries BY <2>2, <2>4 DEF Calls, Sound, Registering
  <2>7. moveOf[q.payment] \in DOMAIN entries /\ moveOf[q.payment] \in EntryIds
    BY <2>2, <2>4, Ranges DEF PayInv, Anchored, Sound, Registering
  <2>8. c \in Calls BY <2>2, <2>3, <2>5, <2>7 DEF Calls, Steps
  <2>9. Sound(c) BY <2>2, <2>3, <2>4, <2>7 DEF Sound, Registering
  <2>10. "discount" \in Ways BY DEF Ways
  <2> QED BY <2>4, <2>5, <2>6, <2>8, <2>9, <2>10, MatchTurn
<1>7. ASSUME NEW r \in Requests, RegisterMatch(r) PROVE PayInv'
  <2>1. PICK q : q = req[r] OBVIOUS
  <2>2. q \in Calls /\ Sound(q) BY <2>1, CallFacts
  <2>3. q.step = "match" /\ UNCHANGED <<due, early, state, moveOf, entries>>
    BY <1>7, <2>1 DEF RegisterMatch, At
  <2>4. CASE UNCHANGED <<open, partials, made>> /\ Set(r, Rest(q))
    <3>1. Rest(q) \in Calls /\ Sound(Rest(q)) BY <2>2, <2>3, RestCall DEF Registering
    <3> QED BY <2>3, <2>4, <3>1, JustTurn DEF Set
  <2>5. CASE Match(Head(q.list), q.entry, Wanted(q), "registration") /\ Goto(r, "status")
    <3>1. PICK c : c = [q EXCEPT !.step = "status"] OBVIOUS
    <3>2. req' = [req EXCEPT ![r] = c] BY <2>1, <2>5, <3>1 DEF Goto
    <3>3. c \in Calls BY <2>2, <3>1 DEF Calls, Steps
    <3>4. Sound(c) BY <2>2, <2>3, <3>1 DEF Sound, Registering, Calls
    <3>5. Wanted(q) \in Int BY <2>2 DEF Wanted, Smaller, Calls
    <3>6. Head(q.list) \in Invoices /\ q.entry \in DOMAIN entries BY <2>2, <2>3 DEF Calls, Sound, Registering
    <3>7. "registration" \in Ways BY DEF Ways
    <3> QED BY <2>3, <2>5, <3>2, <3>3, <3>4, <3>5, <3>6, <3>7, MatchTurn
  <2> QED BY <1>7, <2>1, <2>4, <2>5 DEF RegisterMatch
<1>8. ASSUME NEW r \in Requests, RegisterStatus(r) PROVE PayInv'
  <2>1. PICK q : q = req[r] OBVIOUS
  <2>2. q \in Calls /\ Sound(q) BY <2>1, CallFacts
  <2>3. /\ q.step = "status" /\ req' = [req EXCEPT ![r] = Rest(q)]
        /\ UNCHANGED <<due, early, state, moveOf, entries, open, partials, made>>
    BY <1>8, <2>1 DEF RegisterStatus, At, Set
  <2>4. Rest(q) \in Calls /\ Sound(Rest(q)) BY <2>2, <2>3, RestCall DEF Registering
  <2> QED BY <2>3, <2>4, JustTurn
<1>9. ASSUME NEW r \in Requests, Fails(r) PROVE PayInv'
  BY <1>9, IdleCall, JustTurn DEF Fails, Set
<1>10. ASSUME NEW r \in Requests, NEW p \in Payments, PostBegin(r, p) PROVE PayInv'
  <2>1. PICK c : c = [step |-> "create", payment |-> p, entry |-> 0, list |-> <<>>, seen |-> 0, owed |-> 0]
    OBVIOUS
  <2>2. /\ req' = [req EXCEPT ![r] = c]
        /\ UNCHANGED <<due, early, state, moveOf, entries, open, partials, made>>
    BY <1>10, <2>1 DEF PostBegin, Set, Call
  <2>3. <<>> \in Seq(Invoices) OBVIOUS
  <2>4. c \in Calls /\ Sound(c) BY <2>1, <2>3 DEF Calls, Steps, Sound, Registering
  <2> QED BY <2>2, <2>4, JustTurn
<1>11. ASSUME NEW r \in Requests, NEW p \in Payments, NEW list \in Lists, RegisterBegin(r, p, list) PROVE PayInv'
  <2>1. PICK c : c = [step |-> "look", payment |-> p, entry |-> moveOf[p], list |-> list,
                      seen |-> open[moveOf[p]], owed |-> 0]
    OBVIOUS
  <2>2. /\ state[p] = "posted" /\ req' = [req EXCEPT ![r] = c]
        /\ UNCHANGED <<due, early, state, moveOf, entries, open, partials, made>>
    BY <1>11, <2>1 DEF RegisterBegin, Set, Call
  <2>3. moveOf[p] \in DOMAIN entries /\ moveOf[p] \in EntryIds /\ open[moveOf[p]] \in Int
    BY <2>2, Ranges DEF PayInv, Anchored, Types
  <2>4. list \in Seq(Invoices) /\ list # <<>>
    <3>1. PICK n \in 1 .. Cardinality(Invoices) : list \in [1 .. n -> Invoices] BY DEF Lists
    <3>2. n \in Nat /\ n # 0 BY <3>1
    <3>3. list \in Seq(Invoices) /\ Len(list) = n BY <3>1, <3>2
    <3>4. Len(<<>>) = 0 OBVIOUS
    <3> QED BY <3>2, <3>3, <3>4
  <2>5. c \in Calls BY <2>1, <2>3, <2>4 DEF Calls, Steps
  <2>6. Sound(c) BY <2>1, <2>2, <2>3, <2>4 DEF Sound, Registering
  <2> QED BY <2>2, <2>5, <2>6, JustTurn
<1>12. ASSUME NEW i \in Invoices, Unreconcile(i) PROVE PayInv'
  <2>1. /\ ~SharedUndo /\ NeverOverpaid => NeverOverpaid'
        /\ open' \in [Invoices \cup EntryIds -> Int]
        /\ partials' \subseteq partials /\ IsFiniteSet(partials')
    BY <1>12, UndoKeeps DEF PayInv
  <2>2. UNCHANGED <<due, early, state, moveOf, entries, made, req>> BY <1>12 DEF Unreconcile
  <2>3. Types' BY <2>1, <2>2 DEF PayInv, Types
  <2>4. Anchored' BY <2>2 DEF PayInv, Anchored, Sound
  <2> QED BY <2>1, <2>3, <2>4 DEF PayInv
<1>13. ASSUME NEW i \in Invoices, NEW e \in DOMAIN entries, NEW amount \in 1 .. Most(i, e),
              Reconcile(i, e, amount)
       PROVE  PayInv'
  <2>1. Match(i, e, amount, "hand") /\ UNCHANGED <<due, early, state, moveOf, entries, req>>
    BY <1>13 DEF Reconcile
  <2>2. amount \in Int /\ "hand" \in Ways BY DEF Ways
  <2>3. /\ NeverOverpaid => NeverOverpaid'
        /\ open' \in [Invoices \cup EntryIds -> Int]
        /\ partials' \subseteq [id : 1 .. made', invoice : Invoices, entry : DOMAIN entries', amount : Int, how : Ways]
        /\ made' \in Nat /\ IsFiniteSet(partials')
    BY <2>1, <2>2, MatchKeeps DEF PayInv
  <2>4. Types' BY <2>1, <2>3 DEF PayInv, Types
  <2>5. Anchored' BY <2>1 DEF PayInv, Anchored, Sound
  <2> QED BY <2>3, <2>4, <2>5 DEF PayInv
<1>14. ASSUME UNCHANGED vars PROVE PayInv'
  <2>1. Types' /\ Anchored' BY <1>14 DEF PayInv, Types, Anchored, Sound, vars
  <2>2. NeverOverpaid => NeverOverpaid' BY <1>14 DEF NeverOverpaid, Matched, Of, vars
  <2> QED BY <2>1, <2>2 DEF PayInv
<1> QED
  BY <1>1, <1>2, <1>3, <1>4, <1>5, <1>6, <1>7, <1>8, <1>9, <1>10, <1>11, <1>12, <1>13, <1>14 DEF Next

\* Nobody pays twice, whatever calls overlap and wherever they end: what an invoice owes
\* and what an entry has left are their amounts less their matches, never less than
\* nothing. (register_against_invoices, unreconcile; a match of reconcile_lines is one step
\* here, its own transactions are in Reconciliation.)
THEOREM NobodyPaysTwice ==
  ASSUME ~SharedUndo PROVE Spec => []NeverOverpaid
<1>1. PayInv => NeverOverpaid BY DEF PayInv
<1>2. Init => PayInv BY InitPay, ConstantsOK
<1>3. PayInv /\ [Next]_vars => PayInv' BY PayStep, ConstantsOK
<1> QED BY <1>1, <1>2, <1>3, PTL DEF Spec
-----------------------------------------------------------------------------
(* One call at a time: what is read of a payment still holds when it is    *)
(* used, which nothing in the code ensures when two calls overlap.         *)
OneAtATime == \A r, s \in Requests : r = s

\* A posted payment points to its own posted entry.
Booked ==
  \A p \in Payments :
    state[p] = "posted" => entries[moveOf[p]].posted /\ entries[moveOf[p]].payment = p

\* What a call has told its payment and entry to be is what they are.
Told(q) ==
  /\ q.step \in Posting => state[q.payment] = "draft"
  /\ q.step \in {"entry", "mark"} => entries[q.entry].payment = q.payment
  /\ q.step = "mark" => entries[q.entry].posted
  /\ q.step \in {"look", "discount", "match"} => q.entry = moveOf[q.payment]
  /\ q.step = "take" => entries[q.entry].posted
AllTold == \A r \in Requests : Told(req[r])

MoneyInv == PayInv /\ Booked /\ AllTold /\ MoneyBooked

LEMMA ToldTurn ==
  ASSUME MoneyInv, OneAtATime, NEW r \in Requests, NEW c, req' = [req EXCEPT ![r] = c], Told(c)'
  PROVE  AllTold'
<1>1. ASSUME NEW s \in Requests PROVE (Told(req[s]))'
  <2>1. s = r BY DEF OneAtATime
  <2>2. req'[s] = c BY <2>1 DEF MoneyInv, PayInv, Types
  <2> QED BY <2>2 DEF Told
<1> QED BY <1>1 DEF AllTold

LEMMA IdleTold == Told(Idle) /\ Told(Idle)'
BY DEF Told, Idle, Call, Posting

\* Turns that change no payment, entry or match.
LEMMA SameMoney ==
  ASSUME MoneyInv, PayInv', OneAtATime, NEW r \in Requests, NEW c, req' = [req EXCEPT ![r] = c], Told(c),
         UNCHANGED <<state, moveOf, entries, partials>>
  PROVE  MoneyInv'
<1>1. Told(c)' BY DEF Told
<1>2. AllTold' BY <1>1, ToldTurn
<1> QED BY <1>2 DEF MoneyInv, Booked, MoneyBooked

LEMMA RestTold ==
  ASSUME NEW q \in Calls PROVE Told(Rest(q))
<1>1. CASE Len(q.list) = 1 BY <1>1, IdleTold DEF Rest
<1>2. CASE Len(q.list) # 1 BY <1>2 DEF Rest, Told, Call, Posting
<1> QED BY <1>1, <1>2

LEMMA MatchMoney ==
  ASSUME MoneyInv, PayInv', ConstantsOK, UNCHANGED <<state, moveOf, entries>>,
         NEW i, NEW e, NEW amount, NEW how, Match(i, e, amount, how), entries[e].posted,
         how = "registration" => \E p \in Payments : state[p] = "posted" /\ e = moveOf[p]
  PROVE  Booked' /\ MoneyBooked'
<1>1. PICK q : q = [id |-> made + 1, invoice |-> i, entry |-> e, amount |-> amount, how |-> how] OBVIOUS
<1>2. partials' = partials \cup {q} /\ q.entry = e /\ q.how = how BY <1>1 DEF Match
<1>3. ASSUME q.how = "registration"
      PROVE  /\ entries[e].payment # NoPayment
             /\ state[entries[e].payment] = "posted" /\ moveOf[entries[e].payment] = e
  <2>1. PICK p \in Payments : state[p] = "posted" /\ e = moveOf[p] BY <1>2, <1>3
  <2>2. entries[e].payment = p /\ p # NoPayment BY <2>1 DEF MoneyInv, Booked, ConstantsOK
  <2> QED BY <2>1, <2>2
<1>4. MoneyBooked' BY <1>2, <1>3 DEF MoneyInv, MoneyBooked
<1> QED BY <1>4 DEF MoneyInv, Booked

LEMMA EntryMoney ==
  ASSUME MoneyInv, UNCHANGED <<state, moveOf, partials>>,
         \A e \in DOMAIN entries : entries'[e] = entries[e]
  PROVE  Booked' /\ MoneyBooked'
<1>1. \A p \in Payments : state[p] = "posted" => moveOf[p] \in DOMAIN entries
  BY DEF MoneyInv, PayInv, Anchored
<1>2. \A q \in partials : q.entry \in DOMAIN entries BY DEF MoneyInv, PayInv, Types
<1>3. Booked' BY <1>1 DEF MoneyInv, Booked
<1>4. MoneyBooked' BY <1>2 DEF MoneyInv, MoneyBooked
<1> QED BY <1>3, <1>4

LEMMA InitMoney == ConstantsOK /\ Init => MoneyInv
<1> SUFFICES ASSUME ConstantsOK, Init PROVE MoneyInv OBVIOUS
<1>1. PayInv BY InitPay
<1>2. Booked /\ MoneyBooked BY DEF Init, Booked, MoneyBooked
<1>3. AllTold BY IdleTold DEF Init, AllTold
<1> QED BY <1>1, <1>2, <1>3 DEF MoneyInv

LEMMA MoneyStep ==
  ASSUME MoneyInv, ConstantsOK, OneAtATime, [Next]_vars PROVE MoneyInv'
<1>0. PayInv' BY PayStep DEF MoneyInv
<1>1. ASSUME NEW r \in Requests PROVE req[r] \in Calls /\ Sound(req[r]) /\ Told(req[r])
  BY CallFacts DEF MoneyInv, AllTold
<1>2. ASSUME NEW r \in Requests, PostCreate(r) PROVE MoneyInv'
  <2>1. PICK q : q = req[r] OBVIOUS
  <2>2. q \in Calls /\ Sound(q) /\ Told(q) BY <1>1, <2>1
  <2>3. PICK c : c = [step |-> "entry", payment |-> q.payment, entry |-> Len(entries) + 1,
                      list |-> <<>>, seen |-> 0, owed |-> 0]
    OBVIOUS
  <2>4. /\ q.step = "create" /\ AddEntry(q.payment, FALSE, due[q.payment])
        /\ req' = [req EXCEPT ![r] = c] /\ UNCHANGED <<due, early, state, moveOf, partials, made>>
    BY <1>2, <2>1, <2>3 DEF PostCreate, At, Set, Call
  <2>5. q.payment \in Payments /\ state[q.payment] = "draft" BY <2>2, <2>4 DEF Sound, Told, Posting
  <2>6. due[q.payment] \in Nat BY <2>5, Ranges DEF MoneyInv, PayInv
  <2>7. /\ \A e \in DOMAIN entries : entries'[e] = entries[e]
        /\ entries'[Len(entries) + 1] = [payment |-> q.payment, posted |-> FALSE, amount |-> due[q.payment]]
    BY <2>4, <2>5, <2>6, EntryKeeps DEF MoneyInv, PayInv
  <2>8. Told(c)'
    <3>1. entries'[c.entry].payment = c.payment /\ c.step = "entry" BY <2>3, <2>7
    <3>2. state'[c.payment] = "draft" BY <2>3, <2>4, <2>5
    <3> QED BY <3>1, <3>2 DEF Told
  <2>9. AllTold' BY <2>4, <2>8, ToldTurn
  <2> QED BY <1>0, <2>4, <2>7, <2>9, EntryMoney DEF MoneyInv
<1>3. ASSUME NEW r \in Requests, PostEntry(r) PROVE MoneyInv'
  <2>1. PICK q, c : q = req[r] /\ c = [q EXCEPT !.step = "mark"] OBVIOUS
  <2>2. q \in Calls /\ Sound(q) /\ Told(q) BY <1>1, <2>1
  <2>3. /\ q.step = "entry" /\ entries' = [entries EXCEPT ![q.entry].posted = TRUE]
        /\ req' = [req EXCEPT ![r] = c] /\ UNCHANGED <<state, moveOf, partials>>
    BY <1>3, <2>1 DEF PostEntry, At, Goto
  <2>4. q.entry \in DOMAIN entries BY <2>2, <2>3 DEF Sound
  <2>5. PICK e : e = [entries[q.entry] EXCEPT !.posted = TRUE] OBVIOUS
  <2>6. entries[q.entry] \in Entries BY <2>4, Ranges DEF MoneyInv, PayInv
  <2>7. e.posted /\ e.payment = entries[q.entry].payment BY <2>5, <2>6 DEF Entries
  <2>8. entries' = [entries EXCEPT ![q.entry] = e] BY <2>3, <2>5
  <2>9. entries'[q.entry] = e BY <2>4, <2>8 DEF MoneyInv, PayInv, Types
  <2>10. \A d \in DOMAIN entries : /\ entries[d].posted => entries'[d].posted
                                   /\ entries'[d].payment = entries[d].payment
    BY <2>4, <2>7, <2>8, <2>9 DEF MoneyInv, PayInv, Types
  <2>11. \A p \in Payments : state[p] = "posted" => moveOf[p] \in DOMAIN entries
    BY DEF MoneyInv, PayInv, Anchored
  <2>12. \A p \in partials : p.entry \in DOMAIN entries BY DEF MoneyInv, PayInv, Types
  <2>13. Booked' BY <2>3, <2>10, <2>11 DEF MoneyInv, Booked
  <2>14. MoneyBooked' BY <2>3, <2>10, <2>12 DEF MoneyInv, MoneyBooked
  <2>15. Told(c)'
    <3>1. c.step = "mark" /\ c.entry = q.entry /\ c.payment = q.payment BY <2>1, <2>2 DEF Calls
    <3>2. state[q.payment] = "draft" /\ entries[q.entry].payment = q.payment BY <2>2, <2>3 DEF Told, Posting
    <3> QED BY <2>3, <2>7, <2>9, <3>1, <3>2 DEF Told
  <2> QED BY <1>0, <2>3, <2>13, <2>14, <2>15, ToldTurn DEF MoneyInv
<1>4. ASSUME NEW r \in Requests, PostMark(r) PROVE MoneyInv'
  <2>1. PICK q : q = req[r] OBVIOUS
  <2>2. q \in Calls /\ Sound(q) /\ Told(q) BY <1>1, <2>1
  <2>3. /\ q.step = "mark" /\ state' = [state EXCEPT ![q.payment] = "posted"]
        /\ moveOf' = [moveOf EXCEPT ![q.payment] = q.entry]
        /\ req' = [req EXCEPT ![r] = Idle] /\ UNCHANGED <<entries, partials>>
    BY <1>4, <2>1 DEF PostMark, At, Set
  <2>4. q.payment \in Payments /\ state[q.payment] = "draft"
        /\ entries[q.entry].posted /\ entries[q.entry].payment = q.payment
    BY <2>2, <2>3 DEF Sound, Told, Posting
  <2>5. /\ state'[q.payment] = "posted" /\ moveOf'[q.payment] = q.entry
        /\ \A p \in Payments : p # q.payment => state'[p] = state[p] /\ moveOf'[p] = moveOf[p]
    BY <2>3, <2>4 DEF MoneyInv, PayInv, Types
  <2>6. Booked' BY <2>3, <2>4, <2>5 DEF MoneyInv, Booked
  <2>7. MoneyBooked'
    <3>1. ASSUME NEW k \in partials, k.how = "registration"
          PROVE  entries[k.entry].payment \in Payments /\ entries[k.entry].payment # q.payment
      <4>1. entries[k.entry] \in Entries BY Ranges DEF MoneyInv, PayInv, Types
      <4>2. state[entries[k.entry].payment] = "posted" /\ entries[k.entry].payment # NoPayment
        BY <3>1 DEF MoneyInv, MoneyBooked
      <4> QED BY <2>4, <3>1, <4>1, <4>2 DEF Entries
    <3> QED BY <2>3, <2>5, <3>1 DEF MoneyInv, MoneyBooked
  <2> QED BY <1>0, <2>3, <2>6, <2>7, IdleTold, ToldTurn DEF MoneyInv
<1>5. ASSUME NEW r \in Requests, Look(r) PROVE MoneyInv'
  <2>1. PICK q, n : q = req[r] /\ n = IF q.payment \in early /\ Discount(open[Head(q.list)]) > 0
                                      THEN "discount" ELSE "match"
    OBVIOUS
  <2>2. q \in Calls /\ Sound(q) /\ Told(q) BY <1>1, <2>1
  <2>3. PICK c : c = [step |-> n, payment |-> q.payment, entry |-> q.entry, list |-> q.list,
                      seen |-> q.seen, owed |-> open[Head(q.list)]]
    OBVIOUS
  <2>4. q.step = "look" /\ req' = [req EXCEPT ![r] = c] /\ UNCHANGED <<state, moveOf, entries, partials>>
    BY <1>5, <2>1, <2>3 DEF Look, At, Set, Call
  <2>5. Told(c) BY <2>1, <2>2, <2>3, <2>4 DEF Told, Posting
  <2> QED BY <1>0, <2>4, <2>5, SameMoney
<1>6. ASSUME NEW r \in Requests, DiscountEntry(r) PROVE MoneyInv'
  <2>1. PICK q : q = req[r] OBVIOUS
  <2>2. q \in Calls /\ Sound(q) /\ Told(q) BY <1>1, <2>1
  <2>3. PICK c : c = [step |-> "take", payment |-> q.payment, entry |-> Len(entries) + 1,
                      list |-> q.list, seen |-> q.seen, owed |-> q.owed]
    OBVIOUS
  <2>4. /\ q.step = "discount" /\ AddEntry(NoPayment, TRUE, Discount(q.owed))
        /\ req' = [req EXCEPT ![r] = c] /\ UNCHANGED <<due, early, state, moveOf, partials, made>>
    BY <1>6, <2>1, <2>3 DEF DiscountEntry, At, Set, Call
  <2>5. Discount(q.owed) \in Nat
    <3>1. q.owed \in Int /\ Percent \in Int BY <2>2 DEF Calls, ConstantsOK
    <3>2. q.owed * Percent \in Int BY <3>1
    <3>3. Discount(q.owed) \in Int BY <3>2 DEF Discount
    <3> QED BY <2>2, <2>4, <3>3 DEF Sound
  <2>6. /\ \A e \in DOMAIN entries : entries'[e] = entries[e]
        /\ entries'[Len(entries) + 1] = [payment |-> NoPayment, posted |-> TRUE, amount |-> Discount(q.owed)]
    BY <2>4, <2>5, EntryKeeps DEF MoneyInv, PayInv
  <2>7. Told(c)' BY <2>3, <2>6 DEF Told, Posting
  <2>8. AllTold' BY <2>4, <2>7, ToldTurn
  <2> QED BY <1>0, <2>4, <2>6, <2>8, EntryMoney DEF MoneyInv
<1>7. ASSUME NEW r \in Requests, DiscountMatch(r) PROVE MoneyInv'
  <2>1. PICK q, d : q = req[r] /\ d = Discount(q.owed) OBVIOUS
  <2>2. q \in Calls /\ Sound(q) /\ Told(q) BY <1>1, <2>1
  <2>3. PICK c : c = [step |-> "match", payment |-> q.payment, entry |-> moveOf[q.payment],
                      list |-> q.list, seen |-> q.seen, owed |-> q.owed - d]
    OBVIOUS
  <2>4. /\ q.step = "take" /\ Match(Head(q.list), q.entry, d, "discount")
        /\ req' = [req EXCEPT ![r] = c] /\ UNCHANGED <<state, moveOf, entries>>
    BY <1>7, <2>1, <2>3 DEF DiscountMatch, At, Set, Call
  <2>5. q.payment \in Payments /\ state[q.payment] = "posted" /\ entries[q.entry].posted
    BY <2>2, <2>4 DEF Sound, Registering, Told
  <2>6. Booked' /\ MoneyBooked' BY <1>0, <2>4, <2>5, MatchMoney
  <2>7. Told(c)' BY <2>3, <2>4 DEF Told, Posting
  <2> QED BY <1>0, <2>4, <2>6, <2>7, ToldTurn DEF MoneyInv
<1>8. ASSUME NEW r \in Requests, RegisterMatch(r) PROVE MoneyInv'
  <2>1. PICK q : q = req[r] OBVIOUS
  <2>2. q \in Calls /\ Sound(q) /\ Told(q) BY <1>1, <2>1
  <2>3. q.step = "match" /\ UNCHANGED <<state, moveOf, entries>> BY <1>8, <2>1 DEF RegisterMatch, At
  <2>4. CASE UNCHANGED <<open, partials, made>> /\ Set(r, Rest(q))
    <3>1. Told(Rest(q)) BY <2>2, RestTold
    <3> QED BY <1>0, <2>3, <2>4, <3>1, SameMoney DEF Set
  <2>5. CASE Match(Head(q.list), q.entry, Wanted(q), "registration") /\ Goto(r, "status")
    <3>1. PICK c : c = [q EXCEPT !.step = "status"] OBVIOUS
    <3>2. req' = [req EXCEPT ![r] = c] BY <2>1, <2>5, <3>1 DEF Goto
    <3>3. c.step = "status" BY <2>2, <3>1 DEF Calls
    <3>4. Told(c)' BY <3>3 DEF Told, Posting
    <3>5. /\ q.payment \in Payments /\ state[q.payment] = "posted" /\ q.entry = moveOf[q.payment]
          /\ entries[q.entry].posted
      BY <2>2, <2>3 DEF Sound, Registering, Told, MoneyInv, Booked
    <3>6. Booked' /\ MoneyBooked' BY <1>0, <2>3, <2>5, <3>5, MatchMoney
    <3> QED BY <1>0, <3>2, <3>4, <3>6, ToldTurn DEF MoneyInv
  <2> QED BY <1>8, <2>1, <2>4, <2>5 DEF RegisterMatch
<1>9. ASSUME NEW r \in Requests, RegisterStatus(r) PROVE MoneyInv'
  <2>1. req[r] \in Calls /\ Told(Rest(req[r])) BY <1>1, RestTold
  <2> QED BY <1>0, <1>9, <2>1, SameMoney DEF RegisterStatus, Set
<1>10. ASSUME NEW r \in Requests, Fails(r) PROVE MoneyInv'
  BY <1>0, <1>10, IdleTold, SameMoney DEF Fails, Set
<1>11. ASSUME NEW r \in Requests, NEW p \in Payments, PostBegin(r, p) PROVE MoneyInv'
  <2>1. PICK c : c = [step |-> "create", payment |-> p, entry |-> 0, list |-> <<>>, seen |-> 0, owed |-> 0]
    OBVIOUS
  <2>2. state[p] = "draft" /\ req' = [req EXCEPT ![r] = c] /\ UNCHANGED <<state, moveOf, entries, partials>>
    BY <1>11, <2>1 DEF PostBegin, Set, Call
  <2>3. Told(c) BY <2>1, <2>2 DEF Told
  <2> QED BY <1>0, <2>2, <2>3, SameMoney
<1>12. ASSUME NEW r \in Requests, NEW p \in Payments, NEW list \in Lists, RegisterBegin(r, p, list) PROVE MoneyInv'
  <2>1. PICK c : c = [step |-> "look", payment |-> p, entry |-> moveOf[p], list |-> list,
                      seen |-> open[moveOf[p]], owed |-> 0]
    OBVIOUS
  <2>2. req' = [req EXCEPT ![r] = c] /\ UNCHANGED <<state, moveOf, entries, partials>>
    BY <1>12, <2>1 DEF RegisterBegin, Set, Call
  <2>3. Told(c) BY <2>1 DEF Told, Posting
  <2> QED BY <1>0, <2>2, <2>3, SameMoney
<1>13. ASSUME NEW i \in Invoices, Unreconcile(i) PROVE MoneyInv'
  <2>1. partials' \subseteq partials /\ UNCHANGED <<state, moveOf, entries, req>> BY <1>13 DEF Unreconcile
  <2>2. AllTold' BY <2>1 DEF MoneyInv, AllTold, Told
  <2> QED BY <1>0, <2>1, <2>2 DEF MoneyInv, Booked, MoneyBooked
<1>14. ASSUME NEW i \in Invoices, NEW e \in DOMAIN entries, NEW amount \in 1 .. Most(i, e),
              Reconcile(i, e, amount)
       PROVE  MoneyInv'
  <2>1. entries[e].posted /\ Match(i, e, amount, "hand") /\ UNCHANGED <<state, moveOf, entries, req>>
    BY <1>14 DEF Reconcile
  <2>2. Booked' /\ MoneyBooked' BY <1>0, <2>1, MatchMoney
  <2>3. AllTold' BY <2>1 DEF MoneyInv, AllTold, Told
  <2> QED BY <1>0, <2>2, <2>3 DEF MoneyInv
<1>15. ASSUME UNCHANGED vars PROVE MoneyInv'
  BY <1>0, <1>15 DEF MoneyInv, AllTold, Told, Booked, MoneyBooked, vars
<1> QED
  BY <1>2, <1>3, <1>4, <1>5, <1>6, <1>7, <1>8, <1>9, <1>10, <1>11, <1>12, <1>13, <1>14, <1>15 DEF Next

\* As long as calls do not overlap, wherever they end and whatever is matched by hand in
\* between, invoices are settled by posted entries, and registrations settle with the one
\* their payment points to: not with what a call that ended early has left behind, which
\* matching by hand may use. (AccountPayment.action_post, register_against_invoices,
\* AccountPartialReconcile.reconcile_lines.)
THEOREM MoneyIsBooked ==
  ASSUME OneAtATime PROVE Spec => []MoneyBooked
<1>1. MoneyInv => MoneyBooked BY DEF MoneyInv
<1>2. Init => MoneyInv BY InitMoney, ConstantsOK
<1>3. MoneyInv /\ [Next]_vars => MoneyInv' BY MoneyStep, ConstantsOK
<1> QED BY <1>1, <1>2, <1>3, PTL DEF Spec
=============================================================================
