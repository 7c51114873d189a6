---------------------------- MODULE Stock_proofs ----------------------------
(***************************************************************************)
(* Theorems about stock.                                                   *)
(***************************************************************************)
EXTENDS Stock, Sums_proofs
-----------------------------------------------------------------------------
(* Rows and calls.                                                         *)
States == Open \cup {"done", "cancelled"}
Kinds == {"idle", "confirm", "validate", "cancel", "scrap", "count"}
OpNames == {"line", "adjust", "insert", "release", "reserve", "state", "overwrite"}
Ops == [op : OpNames, move : Nat, at : Locations, by : Int, to : Locations \cup States \cup {None}]
Calls == [kind : Kinds, pick : Nat, todo : SUBSET Nat, ops : Seq(Ops), rest : Seq(Specs),
          back : BOOLEAN]
LineRows == [qty : Nat \ {0}, dst : Locations]
MoveRows == [pick : Nat, demand : Nat \ {0}, src : Locations, dst : Locations, state : States,
             lines : Seq(LineRows)]
QuantRows == [qty : Int, res : Nat]

\* What a transaction works on.
OpFits(o, mv) ==
  /\ o.move \in 1..Len(mv)
  /\ o.op = "line" => o.by \in Nat \ {0} /\ o.to \in Locations /\ mv[o.move].src = o.at
  /\ o.op = "state" => o.to \in States
  /\ o.op \in {"release", "overwrite", "reserve"} => o.by \in Nat

\* In which order the transactions of a call stand.
Ordered(ops, mv) ==
  /\ \A i \in 1..Len(ops) :
       /\ ops[i].op \in {"line", "insert"} => i = 1
       /\ ops[i].op = "reserve" => Len(ops) = 1
       /\ ops[i].op = "overwrite" => i = Len(ops)
       /\ ops[i].op = "adjust" /\ ops[i].by < 0 => i = 1 \/ (i = 2 /\ ops[1].op = "line")
  /\ \A i, j \in 1..Len(ops) :
       ops[i].op = "release" /\ ops[j].op = "state" =>
         i < j /\ ops[j].move = ops[i].move /\ mv[ops[i].move].src = ops[i].at

\* A line goes with what the call has planned for the quantities.
LineBacked(ops) ==
  ops # <<>> /\ ops[1].op = "line" =>
    \A l \in Locations : Plan(ops, l) = (IF ops[1].to = l THEN ops[1].by ELSE 0)
                                          - (IF ops[1].at = l THEN ops[1].by ELSE 0)

OpsFit(ops, kind, p, mv) ==
  /\ ops \in Seq(Ops)
  /\ \A i \in 1..Len(ops) :
       /\ OpFits(ops[i], mv) /\ mv[ops[i].move].pick = p
       /\ ops[i].op = "overwrite" => kind = "count"
       /\ ops[i].op = "reserve" => kind = "confirm"
  /\ Ordered(ops, mv)
  /\ LineBacked(ops)

CallFits(q, mv, n) ==
  /\ q \in Calls /\ q.pick \in 0..n
  /\ \A m \in q.todo : m \in 1..Len(mv) /\ mv[m].pick = q.pick
  /\ OpsFit(q.ops, q.kind, q.pick, mv)

QuantTypes == DOMAIN quant \subseteq Locations /\ quant \in [DOMAIN quant -> QuantRows]

StockTypes ==
  /\ QuantTypes
  /\ moves \in Seq(MoveRows) /\ pickings \in Seq(Nat)
  /\ \A m \in 1..Len(moves) : moves[m].pick \in 0..Len(pickings)
  /\ req \in [Requests -> Calls]
  /\ \A r \in Requests : CallFits(req[r], moves, Len(pickings))
  /\ lost \in [Locations -> Int] /\ tried \subseteq 1..Len(moves)

\* What a step never changes in a move.
Keeps(mv, nv) ==
  /\ Len(mv) <= Len(nv)
  /\ \A m \in 1..Len(mv) : /\ nv[m].pick = mv[m].pick /\ nv[m].demand = mv[m].demand
                           /\ nv[m].src = mv[m].src /\ nv[m].dst = mv[m].dst
-----------------------------------------------------------------------------
(* What transactions come to.                                              *)

LEMMA PlanIs ==
  ASSUME NEW ops \in Seq(Ops), NEW l
  PROVE  /\ Plan(ops, l) = SumOf([i \in 1..Len(ops) |-> Change(ops[i], l)], 1..Len(ops))
         /\ \A i \in 1..Len(ops) : Change(ops[i], l) \in Int
         /\ Plan(ops, l) \in Int
<1>1. DOMAIN ops = 1..Len(ops) OBVIOUS
<1>2. Plan(ops, l) = SumOf([i \in 1..Len(ops) |-> Change(ops[i], l)], 1..Len(ops))
  BY <1>1 DEF Plan, SumAll
<1>3. \A i \in 1..Len(ops) : Change(ops[i], l) \in Int
  <2> TAKE i \in 1..Len(ops)
  <2>1. ops[i] \in Ops OBVIOUS
  <2> QED BY <2>1 DEF Change, Ops
<1>4. PICK f, S : f = [i \in 1..Len(ops) |-> Change(ops[i], l)] /\ S = 1..Len(ops) OBVIOUS
<1>5. IsFiniteSet(S) /\ \A i \in S : f[i] \in Int BY <1>3, <1>4, FS_Interval
<1>6. SumOf(f, S) \in Int BY ONLY <1>5, SumType
<1> QED BY <1>2, <1>3, <1>4, <1>6

LEMMA PlanEmpty ==
  ASSUME NEW l PROVE Plan(<<>>, l) = 0
<1>1. DOMAIN [i \in DOMAIN <<>> |-> Change(<<>>[i], l)] = {} OBVIOUS
<1> QED BY <1>1, SumEmpty DEF Plan, SumAll

LEMMA PlanTail ==
  ASSUME NEW ops \in Seq(Ops), ops # <<>>, NEW l
  PROVE  Plan(ops, l) = Change(ops[1], l) + Plan(Tail(ops), l)
<1>1. PICK t, n : t = Tail(ops) /\ n = Len(ops) OBVIOUS
<1>2. /\ n \in Nat \ {0} /\ t \in Seq(Ops) /\ Len(t) = n - 1
      /\ \A i \in 1..(n - 1) : t[i] = ops[i + 1]
  BY <1>1
<1>3. PICK f, h : f = [i \in 1..n |-> Change(ops[i], l)] /\ h = [i \in 1..(n - 1) |-> Change(t[i], l)]
  OBVIOUS
<1>4. \A i \in 1..n : Change(ops[i], l) \in Int BY <1>1, PlanIs
<1>5. /\ \A i \in 1..n : f[i] \in Int
      /\ \A i \in 1..(n - 1) : h[i] = f[i + 1]
  BY <1>2, <1>3, <1>4
<1>6. SumOf(f, 1..n) = f[1] + SumOf(h, 1..(n - 1)) BY ONLY <1>2, <1>5, SumFirst
<1>7. Plan(ops, l) = SumOf(f, 1..n) BY <1>1, <1>3, PlanIs
<1>8. Plan(t, l) = SumOf(h, 1..(n - 1)) BY <1>2, <1>3, PlanIs
<1>9. f[1] = Change(ops[1], l) BY <1>2, <1>3
<1> QED BY <1>1, <1>6, <1>7, <1>8, <1>9

LEMMA PlanConcat ==
  ASSUME NEW s \in Seq(Ops), NEW t \in Seq(Ops), NEW l
  PROVE  Plan(s \o t, l) = Plan(s, l) + Plan(t, l)
<1>1. PICK u, n, k : u = s \o t /\ n = Len(s) /\ k = Len(t) OBVIOUS
<1>2. /\ u \in Seq(Ops) /\ Len(u) = n + k /\ n \in Nat /\ k \in Nat
      /\ \A i \in 1..n : u[i] = s[i]
      /\ \A i \in 1..k : u[n + i] = t[i]
  BY <1>1
<1>3. PICK f, g, h : /\ f = [i \in 1..n |-> Change(s[i], l)] /\ g = [i \in 1..k |-> Change(t[i], l)]
                     /\ h = [i \in 1..(n + k) |-> Change(u[i], l)]
  OBVIOUS
<1>4. (\A i \in 1..n : Change(s[i], l) \in Int) /\ \A i \in 1..k : Change(t[i], l) \in Int
  BY <1>1, PlanIs
<1>5. \A i \in 1..n : f[i] \in Int /\ h[i] = f[i] BY <1>2, <1>3, <1>4
<1>6. \A i \in 1..k : g[i] \in Int /\ h[n + i] = g[i] BY <1>2, <1>3, <1>4
<1>7. SumOf(h, 1..(n + k)) = SumOf(f, 1..n) + SumOf(g, 1..k)
  <2>1. Joined(f, n, g, k, h) BY <1>2, <1>5, <1>6 DEF Joined
  <2> QED BY ONLY <2>1, SumJoined
<1>8. Plan(s, l) = SumOf(f, 1..n) /\ Plan(t, l) = SumOf(g, 1..k) BY <1>1, <1>3, PlanIs
<1>9. Plan(u, l) = SumOf(h, 1..(n + k)) BY <1>2, <1>3, PlanIs
<1> QED BY <1>1, <1>7, <1>8, <1>9

LEMMA PlanOne ==
  ASSUME NEW o \in Ops, NEW l
  PROVE  Plan(<<o>>, l) = Change(o, l)
<1>1. PICK s : s = <<o>> OBVIOUS
<1>2. s \in Seq(Ops) /\ s # <<>> /\ s[1] = o /\ Tail(s) = <<>> BY <1>1
<1>3. Plan(s, l) = Change(s[1], l) + Plan(Tail(s), l) BY <1>2, PlanTail
<1>4. Change(o, l) \in Int BY DEF Change, Ops
<1> QED BY <1>1, <1>2, <1>3, <1>4, PlanEmpty
-----------------------------------------------------------------------------
(* The transactions of one move.                                           *)

\* One list of transactions after another.
LEMMA Joins ==
  ASSUME NEW s \in Seq(Ops), NEW t \in Seq(Ops)
  PROVE  /\ s \o t \in Seq(Ops) /\ Len(s \o t) = Len(s) + Len(t) /\ Len(s) \in Nat /\ Len(t) \in Nat
         /\ \A i \in 1..Len(s) : (s \o t)[i] = s[i]
         /\ \A i \in 1..Len(t) : (s \o t)[Len(s) + i] = t[i]
OBVIOUS

LEMMA Adds ==
  ASSUME NEW s \in Seq(Ops), NEW o \in Ops, NEW t, t = s \o <<o>>
  PROVE  /\ t \in Seq(Ops) /\ Len(t) = Len(s) + 1 /\ Len(s) \in Nat
         /\ \A i \in 1..Len(s) : t[i] = s[i]
         /\ t[Len(s) + 1] = o
OBVIOUS

LEMMA Nothing ==
  ASSUME NEW s \in Seq(Ops) PROVE s \o <<>> = s /\ <<>> \o s = s
OBVIOUS

LEMMA One ==
  ASSUME NEW o \in Ops, NEW t, t = <<o>> PROVE t \in Seq(Ops) /\ Len(t) = 1 /\ t[1] = o
OBVIOUS

\* Lists of two to six transactions.
Two(t, a, b) == t \in Seq(Ops) /\ Len(t) = 2 /\ t[1] = a /\ t[2] = b
Three(t, a, b, c) == t \in Seq(Ops) /\ Len(t) = 3 /\ t[1] = a /\ t[2] = b /\ t[3] = c
Four(t, a, b, c, d) ==
  t \in Seq(Ops) /\ Len(t) = 4 /\ t[1] = a /\ t[2] = b /\ t[3] = c /\ t[4] = d
Five(t, a, b, c, d, e) ==
  t \in Seq(Ops) /\ Len(t) = 5 /\ t[1] = a /\ t[2] = b /\ t[3] = c /\ t[4] = d /\ t[5] = e
Six(t, a, b, c, d, e, f) ==
  /\ t \in Seq(Ops) /\ Len(t) = 6 /\ t[1] = a /\ t[2] = b /\ t[3] = c /\ t[4] = d /\ t[5] = e
  /\ t[6] = f

LEMMA Pair ==
  ASSUME NEW a \in Ops, NEW b \in Ops PROVE Two(<<a, b>>, a, b)
BY DEF Two

LEMMA Third ==
  ASSUME NEW s, NEW a, NEW b, NEW c \in Ops, Two(s, a, b) PROVE Three(s \o <<c>>, a, b, c)
<1>1. PICK t : t = s \o <<c>> OBVIOUS
<1>2. Three(t, a, b, c) BY <1>1, Adds DEF Two, Three
<1> QED BY <1>1, <1>2

LEMMA Fourth ==
  ASSUME NEW s, NEW a, NEW b, NEW c, NEW d \in Ops, Three(s, a, b, c)
  PROVE  Four(s \o <<d>>, a, b, c, d)
<1>1. PICK t : t = s \o <<d>> OBVIOUS
<1>2. t \in Seq(Ops) /\ Len(t) = 4 /\ t[4] = d /\ \A i \in 1..3 : t[i] = s[i]
  <2>1. s \in Seq(Ops) BY DEF Three
  <2>2. /\ t \in Seq(Ops) /\ Len(t) = Len(s) + 1 /\ t[Len(s) + 1] = d
        /\ \A i \in 1..Len(s) : t[i] = s[i]
    BY <1>1, <2>1, Adds
  <2>3. Len(s) = 3 BY DEF Three
  <2> QED BY <2>2, <2>3
<1>3. t[1] = s[1] /\ t[2] = s[2] /\ t[3] = s[3]
  BY <1>2
<1>4. Four(t, a, b, c, d) BY <1>2, <1>3 DEF Three, Four
<1> QED BY <1>1, <1>4

LEMMA Fifth ==
  ASSUME NEW s, NEW a, NEW b, NEW c, NEW d, NEW e \in Ops, Four(s, a, b, c, d)
  PROVE  Five(s \o <<e>>, a, b, c, d, e)
<1>1. PICK t : t = s \o <<e>> OBVIOUS
<1>2. t \in Seq(Ops) /\ Len(t) = 5 /\ t[5] = e /\ \A i \in 1..4 : t[i] = s[i]
  <2>1. s \in Seq(Ops) BY DEF Four
  <2>2. /\ t \in Seq(Ops) /\ Len(t) = Len(s) + 1 /\ t[Len(s) + 1] = e
        /\ \A i \in 1..Len(s) : t[i] = s[i]
    BY <1>1, <2>1, Adds
  <2>3. Len(s) = 4 BY DEF Four
  <2> QED BY <2>2, <2>3
<1>3. t[1] = s[1] /\ t[2] = s[2] /\ t[3] = s[3] /\ t[4] = s[4]
  BY <1>2
<1>4. Five(t, a, b, c, d, e) BY <1>2, <1>3 DEF Four, Five
<1> QED BY <1>1, <1>4

LEMMA Sixth ==
  ASSUME NEW s, NEW a, NEW b, NEW c, NEW d, NEW e, NEW f \in Ops, Five(s, a, b, c, d, e)
  PROVE  Six(s \o <<f>>, a, b, c, d, e, f)
<1>1. PICK t : t = s \o <<f>> OBVIOUS
<1>2. t \in Seq(Ops) /\ Len(t) = 6 /\ t[6] = f /\ \A i \in 1..5 : t[i] = s[i]
  <2>1. s \in Seq(Ops) BY DEF Five
  <2>2. /\ t \in Seq(Ops) /\ Len(t) = Len(s) + 1 /\ t[Len(s) + 1] = f
        /\ \A i \in 1..Len(s) : t[i] = s[i]
    BY <1>1, <2>1, Adds
  <2>3. Len(s) = 5 BY DEF Five
  <2> QED BY <2>2, <2>3
<1>3. t[1] = s[1] /\ t[2] = s[2] /\ t[3] = s[3] /\ t[4] = s[4] /\ t[5] = s[5]
  BY <1>2
<1>4. Six(t, a, b, c, d, e, f) BY <1>2, <1>3 DEF Five, Six
<1> QED BY <1>1, <1>4

\* What a validation may do for a move, one after the other.
LEMMA TransferCases ==
  ASSUME NEW m \in Nat, NEW v \in MoveRows, NEW done \in 0..v.demand, NEW to \in Locations,
         NEW line \in Ops, NEW out \in Ops, NEW free \in Ops, NEW inn \in Ops, NEW rest \in Ops,
         NEW state \in Ops,
         line = Op("line", m, v.src, done, to), out = Op("adjust", m, v.src, -done, None),
         free = Op("release", m, v.src, done, None), inn = Op("adjust", m, to, done, None),
         rest = Op("release", m, v.src, v.demand - done, None),
         state = Op("state", m, v.src, 0, IF done > 0 THEN "done" ELSE "cancelled"),
         NEW ops, ops = Transfer(m, v, done, to)
  PROVE  /\ done = 0 =>
              IF v.src \in Internal THEN Two(ops, rest, state)
              ELSE ops \in Seq(Ops) /\ Len(ops) = 1 /\ ops[1] = state
         /\ done > 0 /\ v.src \notin Internal => Four(ops, line, out, inn, state)
         /\ done > 0 /\ v.src \in Internal /\ done < v.demand => Six(ops, line, out, free, inn, rest, state)
         /\ done > 0 /\ v.src \in Internal /\ done = v.demand => Five(ops, line, out, free, inn, state)
<1> HIDE DEF Two, Three, Four, Five, Six
<1>0. line \in Ops /\ out \in Ops /\ free \in Ops /\ inn \in Ops /\ rest \in Ops /\ state \in Ops
  OBVIOUS
<1>1. v.demand \in Nat \ {0} BY DEF MoveRows
<1>2. PICK F, G : F = Free(m, v.src, done) /\ G = Free(m, v.src, v.demand - done) OBVIOUS
<1>3. F = IF v.src \in Internal /\ done > 0 THEN <<free>> ELSE <<>> BY <1>2 DEF Free
<1>4. G = IF v.src \in Internal /\ done < v.demand THEN <<rest>> ELSE <<>>
  BY <1>1, <1>2 DEF Free
<1>5. PICK s, S : s = <<line, out>> /\ S = <<state>> OBVIOUS
<1>6. done = 0 => ops = (<<>> \o G) \o S BY <1>2, <1>5 DEF Transfer
<1>7. done > 0 => ops = (((s \o F) \o <<inn>>) \o G) \o S
  <2>1. ASSUME done # 0
        PROVE  ops = (((<<line, out>> \o Free(m, v.src, done)) \o <<inn>>)
                        \o Free(m, v.src, v.demand - done)) \o <<state>>
    BY <2>1 DEF Transfer
  <2>2. done > 0 => done # 0 OBVIOUS
  <2> QED BY ONLY <1>2, <1>5, <2>1, <2>2
<1>8. Two(s, line, out) /\ s \in Seq(Ops) BY <1>0, <1>5, Pair DEF Two
<1>9. PICK a : a = <<rest>> OBVIOUS
<1>10. a \in Seq(Ops) /\ Len(a) = 1 /\ a[1] = rest BY <1>0, <1>9, One
<1>11. <<>> \in Seq(Ops) OBVIOUS
<1>12. S \in Seq(Ops) /\ Len(S) = 1 /\ S[1] = state BY <1>0, <1>5, One
<1>13. CASE done = 0
  <2>1. CASE v.src \in Internal
    <3>1. ops = (<<>> \o a) \o S BY <1>1, <1>4, <1>6, <1>9, <1>13, <2>1
    <3>2. ops = a \o <<state>> BY <1>5, <1>10, <3>1, Nothing
    <3>3. Two(ops, rest, state) BY ONLY <1>0, <1>10, <3>2, Adds DEF Two
    <3> QED BY <1>13, <2>1, <3>3
  <2>2. CASE v.src \notin Internal
    <3>1. ops = (<<>> \o <<>>) \o S BY <1>4, <1>6, <1>13, <2>2
    <3>2. ops = S BY <1>11, <1>12, <3>1, Nothing
    <3> QED BY <1>12, <1>13, <2>2, <3>2
  <2> QED BY <2>1, <2>2
<1>14. CASE done > 0 /\ v.src \notin Internal
  <2>1. F = <<>> /\ G = <<>> BY <1>3, <1>4, <1>14
  <2>2. Three(s \o <<inn>>, line, out, inn) BY <1>0, <1>8, Third
  <2>3. (s \o <<inn>>) \in Seq(Ops) BY <2>2 DEF Three
  <2>4. ops = (s \o <<inn>>) \o <<state>> BY <1>5, <1>7, <1>8, <1>14, <2>1, <2>3, Nothing
  <2>5. Four(ops, line, out, inn, state) BY <1>0, <2>2, <2>4, Fourth
  <2> QED BY <1>14, <2>5
<1>15. CASE done > 0 /\ v.src \in Internal
  <2>1. F = <<free>> BY <1>3, <1>15
  <2>2. Three(s \o <<free>>, line, out, free) BY <1>0, <1>8, Third
  <2>3. Four((s \o <<free>>) \o <<inn>>, line, out, free, inn) BY <1>0, <2>2, Fourth
  <2>4. CASE done < v.demand
    <3>1. G = <<rest>> BY <1>4, <1>15, <2>4
    <3>2. ops = (((s \o <<free>>) \o <<inn>>) \o <<rest>>) \o <<state>> BY <1>5, <1>7, <1>15, <2>1, <3>1
    <3>3. Five(((s \o <<free>>) \o <<inn>>) \o <<rest>>, line, out, free, inn, rest)
      BY <1>0, <2>3, Fifth
    <3>4. Six(ops, line, out, free, inn, rest, state) BY <1>0, <3>2, <3>3, Sixth
    <3> QED BY <1>15, <2>4, <3>4
  <2>5. CASE done = v.demand
    <3>1. G = <<>> BY <1>4, <1>15, <2>5
    <3>2. ((s \o <<free>>) \o <<inn>>) \in Seq(Ops) BY <2>3 DEF Four
    <3>3. ops = ((s \o <<free>>) \o <<inn>>) \o <<state>>
      BY <1>5, <1>7, <1>15, <2>1, <3>1, <3>2, Nothing
    <3>4. Five(ops, line, out, free, inn, state) BY <1>0, <2>3, <3>3, Fifth
    <3> QED BY <1>15, <2>5, <3>4
  <2> QED BY <1>1, <2>4, <2>5
<1> QED BY <1>1, <1>13, <1>14, <1>15

Then(s, t) == s \o t

LEMMA PlanThen ==
  ASSUME NEW s \in Seq(Ops), NEW t \in Seq(Ops), NEW l
  PROVE  Then(s, t) \in Seq(Ops) /\ Plan(Then(s, t), l) = Plan(s, l) + Plan(t, l)
<1>1. s \o t \in Seq(Ops) BY Joins
<1>2. Plan(s \o t, l) = Plan(s, l) + Plan(t, l) BY PlanConcat
<1> QED BY <1>1, <1>2 DEF Then

\* Only the quantities a list of transactions adjusts are planned.
LEMMA PlanPair ==
  ASSUME NEW a \in Ops, NEW b \in Ops, NEW l
  PROVE  Plan(<<a, b>>, l) = Change(a, l) + Change(b, l)
<1>1. PICK s : s = <<a, b>> OBVIOUS
<1>2. s \in Seq(Ops) /\ s # <<>> /\ s[1] = a /\ Tail(s) = <<b>> BY <1>1
<1>3. Plan(s, l) = Change(s[1], l) + Plan(Tail(s), l) BY <1>2, PlanTail
<1> QED BY <1>1, <1>2, <1>3, PlanOne

LEMMA TransferPlan ==
  ASSUME NEW m \in Nat, NEW v \in MoveRows, NEW done \in 0..v.demand, NEW to \in Locations, NEW l,
         done > 0
  PROVE  Plan(Transfer(m, v, done, to), l)
           = (IF to = l THEN done ELSE 0) - (IF v.src = l THEN done ELSE 0)
<1>1. v.demand \in Nat \ {0} /\ v.src \in Locations BY DEF MoveRows
<1>2. PICK line, out, inn, state, ops :
        /\ line = Op("line", m, v.src, done, to) /\ out = Op("adjust", m, v.src, -done, None)
        /\ inn = Op("adjust", m, to, done, None) /\ state = Op("state", m, v.src, 0, "done")
        /\ ops = Transfer(m, v, done, to)
  OBVIOUS
<1>3. line \in Ops /\ out \in Ops /\ inn \in Ops /\ state \in Ops
  BY <1>1, <1>2 DEF Op, Ops, OpNames, States
<1>4. PICK s, F, i, G, S :
        /\ s = <<line, out>> /\ F = Free(m, v.src, done) /\ i = <<inn>>
        /\ G = Free(m, v.src, v.demand - done) /\ S = <<state>>
  OBVIOUS
<1>5. ops = (((s \o F) \o i) \o G) \o S
  <2>1. ASSUME done # 0
        PROVE  Transfer(m, v, done, to)
                 = (((<<line, out>> \o Free(m, v.src, done)) \o <<inn>>)
                        \o Free(m, v.src, v.demand - done)) \o <<state>>
    BY <1>2, <2>1 DEF Transfer
  <2>2. done # 0 OBVIOUS
  <2> QED BY ONLY <1>2, <1>4, <2>1, <2>2
<1>6. s \in Seq(Ops) /\ i \in Seq(Ops) /\ S \in Seq(Ops) BY <1>3, <1>4
<1>7. F \in Seq(Ops) /\ Plan(F, l) = 0
  <2>1. PICK o : o = Op("release", m, v.src, done, None) OBVIOUS
  <2>2. o \in Ops /\ Change(o, l) = 0 BY <1>1, <2>1 DEF Op, Ops, OpNames, Change
  <2>3. F = <<>> \/ F = <<o>> BY <1>4, <2>1 DEF Free
  <2>4. <<o>> \in Seq(Ops) /\ <<>> \in Seq(Ops) BY <2>2
  <2> QED BY <2>2, <2>3, <2>4, PlanEmpty, PlanOne
<1>8. G \in Seq(Ops) /\ Plan(G, l) = 0
  <2>1. PICK o : o = Op("release", m, v.src, v.demand - done, None) OBVIOUS
  <2>2. o \in Ops /\ Change(o, l) = 0 BY <1>1, <2>1 DEF Op, Ops, OpNames, Change
  <2>3. G = <<>> \/ G = <<o>> BY <1>4, <2>1 DEF Free
  <2>4. <<o>> \in Seq(Ops) /\ <<>> \in Seq(Ops) BY <2>2
  <2> QED BY <2>2, <2>3, <2>4, PlanEmpty, PlanOne
<1>9. PICK a, b, c : a = Then(s, F) /\ b = Then(a, i) /\ c = Then(b, G) OBVIOUS
<1>10. ops = Then(c, S) BY <1>5, <1>9 DEF Then
<1>11. a \in Seq(Ops) /\ Plan(a, l) = Plan(s, l) + Plan(F, l) BY <1>6, <1>7, <1>9, PlanThen
<1>12. b \in Seq(Ops) /\ Plan(b, l) = Plan(a, l) + Plan(i, l) BY <1>6, <1>9, <1>11, PlanThen
<1>13. /\ c \in Seq(Ops) /\ Plan(c, l) = Plan(b, l) + Plan(G, l)
       /\ Plan(ops, l) = Plan(c, l) + Plan(S, l)
  BY <1>6, <1>8, <1>9, <1>10, <1>12, PlanThen
<1>14. Plan(s, l) = Change(line, l) + Change(out, l) BY <1>3, <1>4, PlanPair
<1>15. Plan(i, l) = Change(inn, l) /\ Plan(S, l) = Change(state, l) BY <1>3, <1>4, PlanOne
<1>16. /\ Change(line, l) = 0 /\ Change(state, l) = 0
       /\ Change(out, l) = IF v.src = l THEN -done ELSE 0
       /\ Change(inn, l) = IF to = l THEN done ELSE 0
  BY <1>2 DEF Change, Op
<1> QED BY <1>2, <1>7, <1>8, <1>11, <1>12, <1>13, <1>14, <1>15, <1>16

LEMMA TransferFits ==
  ASSUME NEW mv \in Seq(MoveRows), NEW m \in 1..Len(mv), NEW done \in 0..mv[m].demand,
         NEW to \in Locations
  PROVE  OpsFit(Transfer(m, mv[m], done, to), "validate", mv[m].pick, mv)
<1>1. PICK v, ops : v = mv[m] /\ ops = Transfer(m, mv[m], done, to) OBVIOUS
<1>2. v \in MoveRows /\ m \in Nat /\ done \in 0..v.demand BY <1>1
<1>3. v.demand \in Nat \ {0} /\ v.src \in Locations /\ done \in Nat /\ v.demand - done \in Nat
  BY <1>2, SMTT(30) DEF MoveRows
<1>4. PICK line, out, free, inn, rest, state :
        /\ line = Op("line", m, v.src, done, to) /\ out = Op("adjust", m, v.src, -done, None)
        /\ free = Op("release", m, v.src, done, None) /\ inn = Op("adjust", m, to, done, None)
        /\ rest = Op("release", m, v.src, v.demand - done, None)
        /\ state = Op("state", m, v.src, 0, IF done > 0 THEN "done" ELSE "cancelled")
  OBVIOUS
<1>5. /\ line \in Ops /\ out \in Ops /\ free \in Ops /\ inn \in Ops /\ rest \in Ops /\ state \in Ops
      /\ line.op = "line" /\ out.op = "adjust" /\ free.op = "release" /\ inn.op = "adjust"
      /\ rest.op = "release" /\ state.op = "state" /\ state.to \in States
      /\ line.by = done /\ line.at = v.src /\ line.to = to /\ inn.by = done
      /\ free.at = v.src /\ free.by = done /\ rest.at = v.src /\ rest.by = v.demand - done
      /\ line.move = m /\ out.move = m /\ free.move = m /\ inn.move = m /\ rest.move = m
      /\ state.move = m
  BY <1>2, <1>3, <1>4 DEF Op, Ops, OpNames, States
<1>6. /\ done = 0 =>
           IF v.src \in Internal THEN Two(ops, rest, state)
           ELSE ops \in Seq(Ops) /\ Len(ops) = 1 /\ ops[1] = state
      /\ done > 0 /\ v.src \notin Internal => Four(ops, line, out, inn, state)
      /\ done > 0 /\ v.src \in Internal /\ done < v.demand => Six(ops, line, out, free, inn, rest, state)
      /\ done > 0 /\ v.src \in Internal /\ done = v.demand => Five(ops, line, out, free, inn, state)
  <2>1. ops = Transfer(m, v, done, to) BY <1>1
  <2> QED BY ONLY <1>2, <1>4, <1>5, <2>1, to \in Locations, TransferCases
<1>7. ops \in Seq(Ops) /\ ops # <<>>
  BY <1>3, <1>6 DEF Two, Four, Five, Six
<1>8. \A o \in {line, out, free, inn, rest, state} :
        \/ /\ OpFits(o, mv) /\ mv[o.move].pick = mv[m].pick
           /\ o.op \notin {"overwrite", "reserve", "insert"}
        \/ done = 0 /\ o = line
  BY <1>1, <1>2, <1>3, <1>5 DEF OpFits
<1>9. LineBacked(ops)
  <2>1. CASE done = 0
    <3>1. ops[1] \in {rest, state} BY <1>6, <2>1 DEF Two
    <3> QED BY <1>5, <3>1 DEF LineBacked
  <2>2. CASE done > 0
    <3>1. ops[1] = line BY <1>3, <1>6, <2>2 DEF Four, Five, Six
    <3>2. \A l \in Locations : Plan(ops, l) = (IF to = l THEN done ELSE 0) - (IF v.src = l THEN done ELSE 0)
      BY <1>1, <1>2, <2>2, TransferPlan
    <3> QED BY <1>5, <3>1, <3>2 DEF LineBacked
  <2> QED BY <1>3, <2>1, <2>2
<1>10. CASE done = 0
  <2>1. CASE v.src \in Internal
    <3>1. Len(ops) = 2 /\ ops[1] = rest /\ ops[2] = state BY <1>6, <1>10, <2>1 DEF Two
    <3>2. 1..2 = {1, 2} OBVIOUS
    <3>3. Ordered(ops, mv) BY <1>1, <1>5, <3>1, <3>2 DEF Ordered
    <3> QED BY <1>1, <1>5, <1>7, <1>8, <1>9, <3>1, <3>2, <3>3 DEF OpsFit
  <2>2. CASE v.src \notin Internal
    <3>1. Len(ops) = 1 /\ ops[1] = state BY <1>6, <1>10, <2>2
    <3>2. 1..1 = {1} OBVIOUS
    <3>3. Ordered(ops, mv) BY <1>1, <1>5, <3>1, <3>2 DEF Ordered
    <3> QED BY <1>1, <1>5, <1>7, <1>8, <1>9, <3>1, <3>2, <3>3 DEF OpsFit
  <2> QED BY <2>1, <2>2
<1>11. CASE done > 0 /\ v.src \notin Internal
  <2>1. Len(ops) = 4 /\ ops[1] = line /\ ops[2] = out /\ ops[3] = inn /\ ops[4] = state
    BY <1>6, <1>11 DEF Four
  <2>2. 1..4 = {1, 2, 3, 4} OBVIOUS
  <2>3. Ordered(ops, mv) BY <1>1, <1>3, <1>5, <2>1, <2>2 DEF Ordered
  <2>4. \A i \in 1..4 : ops[i] \in {line, out, inn, state} BY <2>1, <2>2
  <2>5. \A i \in 1..Len(ops) : /\ OpFits(ops[i], mv) /\ mv[ops[i].move].pick = mv[m].pick
                               /\ ops[i].op \notin {"overwrite", "reserve", "insert"}
    BY <1>8, <1>11, <2>1, <2>4, SMTT(30)
  <2> QED BY <1>1, <1>7, <1>9, <2>3, <2>5 DEF OpsFit
<1>12. CASE done > 0 /\ v.src \in Internal /\ done < v.demand
  <2>1. /\ Len(ops) = 6 /\ ops[1] = line /\ ops[2] = out /\ ops[3] = free /\ ops[4] = inn
        /\ ops[5] = rest /\ ops[6] = state
    BY <1>6, <1>12 DEF Six
  <2>2. 1..6 = {1, 2, 3, 4, 5, 6} OBVIOUS
  <2>3. Ordered(ops, mv)
    <3>1. ASSUME NEW i \in 1..Len(ops)
          PROVE  /\ ops[i].op \in {"line", "insert"} => i = 1
                 /\ ops[i].op = "reserve" => Len(ops) = 1
                 /\ ops[i].op = "overwrite" => i = Len(ops)
                 /\ ops[i].op = "adjust" /\ ops[i].by < 0 => i = 1 \/ (i = 2 /\ ops[1].op = "line")
      BY ONLY <1>3, <1>5, <2>1, <2>2, <3>1
    <3>2. \A i \in 1..Len(ops) : (ops[i].op = "release" => i \in {3, 5}) /\ (ops[i].op = "state" => i = 6)
      BY ONLY <1>5, <2>1, <2>2
    <3>3. \A i, j \in 1..Len(ops) : ops[i].op = "release" /\ ops[j].op = "state" =>
            i < j /\ ops[j].move = ops[i].move /\ mv[ops[i].move].src = ops[i].at
      BY ONLY <1>1, <1>5, <2>1, <3>2
    <3> QED BY ONLY <3>1, <3>3 DEF Ordered
  <2>4. \A i \in 1..6 : ops[i] \in {line, out, free, inn, rest, state}
    BY <2>1, <2>2
  <2>5. \A i \in 1..Len(ops) : /\ OpFits(ops[i], mv) /\ mv[ops[i].move].pick = mv[m].pick
                               /\ ops[i].op \notin {"overwrite", "reserve", "insert"}
    BY <1>8, <1>12, <2>1, <2>4, SMTT(30)
  <2> QED BY <1>1, <1>7, <1>9, <2>3, <2>5 DEF OpsFit
<1>13. CASE done > 0 /\ v.src \in Internal /\ done = v.demand
  <2>1. /\ Len(ops) = 5 /\ ops[1] = line /\ ops[2] = out /\ ops[3] = free /\ ops[4] = inn
        /\ ops[5] = state
    BY <1>6, <1>13 DEF Five
  <2>2. 1..5 = {1, 2, 3, 4, 5} OBVIOUS
  <2>3. Ordered(ops, mv)
    <3>1. ASSUME NEW i \in 1..Len(ops)
          PROVE  /\ ops[i].op \in {"line", "insert"} => i = 1
                 /\ ops[i].op = "reserve" => Len(ops) = 1
                 /\ ops[i].op = "overwrite" => i = Len(ops)
                 /\ ops[i].op = "adjust" /\ ops[i].by < 0 => i = 1 \/ (i = 2 /\ ops[1].op = "line")
      BY ONLY <1>3, <1>5, <2>1, <2>2, <3>1
    <3>2. \A i \in 1..Len(ops) : (ops[i].op = "release" => i \in {3}) /\ (ops[i].op = "state" => i = 5)
      BY ONLY <1>5, <2>1, <2>2
    <3>3. \A i, j \in 1..Len(ops) : ops[i].op = "release" /\ ops[j].op = "state" =>
            i < j /\ ops[j].move = ops[i].move /\ mv[ops[i].move].src = ops[i].at
      BY ONLY <1>1, <1>5, <2>1, <3>2
    <3> QED BY ONLY <3>1, <3>3 DEF Ordered
  <2>4. \A i \in 1..5 : ops[i] \in {line, out, free, inn, rest, state}
    BY <2>1, <2>2
  <2>5. \A i \in 1..Len(ops) : /\ OpFits(ops[i], mv) /\ mv[ops[i].move].pick = mv[m].pick
                               /\ ops[i].op \notin {"overwrite", "reserve", "insert"}
    BY <1>8, <1>13, <2>1, <2>4, SMTT(30)
  <2> QED BY <1>1, <1>7, <1>9, <2>3, <2>5 DEF OpsFit
<1> QED BY <1>3, <1>10, <1>11, <1>12, <1>13
-----------------------------------------------------------------------------
(* Transactions that are done, added, and kept while others go on.         *)

LEMMA OpsEmpty ==
  ASSUME NEW k, NEW p, NEW mv PROVE OpsFit(<<>>, k, p, mv)
<1>1. <<>> \in Seq(Ops) /\ Len(<<>>) = 0 /\ 1..0 = {} OBVIOUS
<1> QED BY <1>1 DEF OpsFit, Ordered, LineBacked

LEMMA Tails ==
  ASSUME NEW s \in Seq(Ops), s # <<>>
  PROVE  /\ Tail(s) \in Seq(Ops) /\ Len(Tail(s)) = Len(s) - 1 /\ Len(s) \in Nat \ {0}
         /\ \A i \in 1..(Len(s) - 1) : Tail(s)[i] = s[i + 1]
         /\ Head(s) = s[1] /\ s[1] \in Ops
OBVIOUS

LEMMA OpsTail ==
  ASSUME NEW ops, NEW k, NEW p, NEW mv, OpsFit(ops, k, p, mv), ops # <<>>
  PROVE  OpsFit(Tail(ops), k, p, mv)
<1>1. ops \in Seq(Ops) BY DEF OpsFit
<1>2. PICK t, n : t = Tail(ops) /\ n = Len(ops) OBVIOUS
<1>3. /\ t \in Seq(Ops) /\ Len(t) = n - 1 /\ n \in Nat \ {0}
      /\ \A i \in 1..(n - 1) : t[i] = ops[i + 1] /\ i + 1 \in 1..n
  BY <1>1, <1>2, Tails
<1>4. /\ \A i \in 1..n : /\ OpFits(ops[i], mv) /\ mv[ops[i].move].pick = p
                         /\ ops[i].op = "overwrite" => k = "count"
                         /\ ops[i].op = "reserve" => k = "confirm"
      /\ Ordered(ops, mv)
  BY <1>2 DEF OpsFit
<1>5. \A i \in 1..Len(t) : /\ OpFits(t[i], mv) /\ mv[t[i].move].pick = p
                           /\ t[i].op = "overwrite" => k = "count"
                           /\ t[i].op = "reserve" => k = "confirm"
  BY <1>3, <1>4
<1>6. /\ \A i \in 1..n :
           /\ ops[i].op \in {"line", "insert"} => i = 1
           /\ ops[i].op = "reserve" => n = 1
           /\ ops[i].op = "overwrite" => i = n
           /\ ops[i].op = "adjust" /\ ops[i].by < 0 => i = 1 \/ (i = 2 /\ ops[1].op = "line")
      /\ \A i, j \in 1..n :
           ops[i].op = "release" /\ ops[j].op = "state" =>
             i < j /\ ops[j].move = ops[i].move /\ mv[ops[i].move].src = ops[i].at
  BY <1>2, <1>4 DEF Ordered
<1>7. \A i \in 1..Len(t) :
        /\ t[i].op \in {"line", "insert"} => i = 1
        /\ t[i].op = "reserve" => Len(t) = 1
        /\ t[i].op = "overwrite" => i = Len(t)
        /\ t[i].op = "adjust" /\ t[i].by < 0 => i = 1 \/ (i = 2 /\ t[1].op = "line")
  <2> TAKE i \in 1..Len(t)
  <2>1. i \in 1..(n - 1) /\ t[i] = ops[i + 1] /\ i + 1 \in 1..n BY <1>3
  <2> QED BY ONLY <1>3, <1>6, <2>1
<1>8. \A i, j \in 1..Len(t) :
        t[i].op = "release" /\ t[j].op = "state" =>
          i < j /\ t[j].move = t[i].move /\ mv[t[i].move].src = t[i].at
  <2> TAKE i, j \in 1..Len(t)
  <2>1. /\ i \in 1..(n - 1) /\ t[i] = ops[i + 1] /\ i + 1 \in 1..n
        /\ j \in 1..(n - 1) /\ t[j] = ops[j + 1] /\ j + 1 \in 1..n
    BY <1>3
  <2> QED BY ONLY <1>6, <2>1
<1>9. LineBacked(t)
  <2>1. t # <<>> => t[1].op # "line"
    <3> SUFFICES ASSUME t # <<>> PROVE t[1].op # "line" OBVIOUS
    <3>1. 1 \in 1..(n - 1) BY <1>3
    <3>2. t[1] = ops[1 + 1] /\ 1 + 1 \in 1..n BY <1>3, <3>1
    <3> QED BY <1>6, <3>2
  <2> QED BY <2>1 DEF LineBacked
<1> QED BY <1>2, <1>3, <1>5, <1>7, <1>8, <1>9 DEF OpsFit, Ordered

LEMMA OpsOne ==
  ASSUME NEW o \in Ops, NEW k, NEW p, NEW mv, OpFits(o, mv), mv[o.move].pick = p,
         o.op \in {"state", "reserve"}, o.op = "reserve" => k = "confirm"
  PROVE  OpsFit(<<o>>, k, p, mv)
<1>1. PICK t : t = <<o>> OBVIOUS
<1>2. t \in Seq(Ops) /\ Len(t) = 1 /\ t[1] = o /\ 1..1 = {1} BY <1>1, One
<1>3. OpsFit(t, k, p, mv) BY <1>2 DEF OpsFit, Ordered, LineBacked
<1> QED BY <1>1, <1>3

\* The first transaction is replaced.
LEMMA Replaced ==
  ASSUME NEW s \in Seq(Ops), s # <<>>, NEW o \in Ops, NEW t, t = <<o>> \o Tail(s)
  PROVE  /\ t \in Seq(Ops) /\ t # <<>> /\ Len(t) = Len(s) /\ t[1] = o /\ Tail(t) = Tail(s)
         /\ \A i \in 1..Len(s) : i # 1 => t[i] = s[i]
OBVIOUS

LEMMA OpsInsert ==
  ASSUME NEW ops, NEW k, NEW p, NEW mv, OpsFit(ops, k, p, mv), ops # <<>>,
         ops[1].op = "adjust", NEW t, t = <<[ops[1] EXCEPT !.op = "insert"]>> \o Tail(ops)
  PROVE  OpsFit(t, k, p, mv) /\ \A l : Plan(t, l) = Plan(ops, l)
<1>1. ops \in Seq(Ops) BY DEF OpsFit
<1>2. PICK o, n : o = [ops[1] EXCEPT !.op = "insert"] /\ n = Len(ops) OBVIOUS
<1>3. ops[1] \in Ops /\ n \in Nat \ {0} BY <1>1, <1>2, Tails
<1>4. /\ o \in Ops /\ o.op = "insert" /\ o.by = ops[1].by /\ o.at = ops[1].at
      /\ o.move = ops[1].move
  BY <1>2, <1>3 DEF Ops, OpNames
<1>5. /\ t \in Seq(Ops) /\ t # <<>> /\ Len(t) = n /\ t[1] = o /\ Tail(t) = Tail(ops)
      /\ \A i \in 1..n : i # 1 => t[i] = ops[i]
  BY <1>1, <1>2, <1>4, Replaced
<1>6. /\ \A i \in 1..n : /\ OpFits(ops[i], mv) /\ mv[ops[i].move].pick = p
                         /\ ops[i].op = "overwrite" => k = "count"
                         /\ ops[i].op = "reserve" => k = "confirm"
      /\ Ordered(ops, mv)
  BY <1>2 DEF OpsFit
<1>7. OpFits(o, mv) /\ mv[o.move].pick = p
  <2>1. 1 \in 1..n BY <1>3
  <2> QED BY <1>4, <1>6, <2>1 DEF OpFits
<1>8. \A i \in 1..Len(t) : /\ OpFits(t[i], mv) /\ mv[t[i].move].pick = p
                           /\ t[i].op = "overwrite" => k = "count"
                           /\ t[i].op = "reserve" => k = "confirm"
  <2> SUFFICES ASSUME NEW i \in 1..Len(t)
               PROVE  /\ OpFits(t[i], mv) /\ mv[t[i].move].pick = p
                      /\ t[i].op = "overwrite" => k = "count"
                      /\ t[i].op = "reserve" => k = "confirm"
    OBVIOUS
  <2>1. i \in 1..n BY <1>5
  <2>2. CASE i = 1
    <3>1. t[i] = o BY <1>5, <2>2
    <3> QED BY <1>4, <1>7, <3>1
  <2>3. CASE i # 1
    <3>1. t[i] = ops[i] BY <1>5, <2>1, <2>3
    <3> QED BY <1>6, <2>1, <3>1
  <2> QED BY <2>2, <2>3
<1>9. Ordered(t, mv)
  <2>1. /\ \A i \in 1..n :
             /\ ops[i].op \in {"line", "insert"} => i = 1
             /\ ops[i].op = "reserve" => n = 1
             /\ ops[i].op = "overwrite" => i = n
             /\ ops[i].op = "adjust" /\ ops[i].by < 0 => i = 1 \/ (i = 2 /\ ops[1].op = "line")
        /\ \A i, j \in 1..n :
             ops[i].op = "release" /\ ops[j].op = "state" =>
               i < j /\ ops[j].move = ops[i].move /\ mv[ops[i].move].src = ops[i].at
    BY <1>2, <1>6 DEF Ordered
  <2>2. \A i \in 1..n : (t[i].op = "insert" /\ i = 1) \/ (t[i] = ops[i] /\ i # 1) BY <1>4, <1>5
  <2>3. \A i \in 1..n :
          /\ t[i].op \in {"line", "insert"} => i = 1
          /\ t[i].op = "reserve" => n = 1
          /\ t[i].op = "overwrite" => i = n
          /\ t[i].op = "adjust" /\ t[i].by < 0 => i = 1 \/ (i = 2 /\ t[1].op = "line")
    <3> TAKE i \in 1..n
    <3>1. CASE t[i].op = "insert" /\ i = 1 BY ONLY <3>1
    <3>2. CASE t[i] = ops[i] /\ i # 1
      <4>1. /\ ops[i].op \in {"line", "insert"} => i = 1
            /\ ops[i].op = "reserve" => n = 1
            /\ ops[i].op = "overwrite" => i = n
            /\ ops[i].op = "adjust" /\ ops[i].by < 0 => i = 1 \/ (i = 2 /\ ops[1].op = "line")
        BY <2>1
      <4>2. ops[1].op # "line" OBVIOUS
      <4> QED BY ONLY <3>2, <4>1, <4>2
    <3> QED BY <2>2, <3>1, <3>2
  <2>4. \A i, j \in 1..n :
          t[i].op = "release" /\ t[j].op = "state" =>
            i < j /\ t[j].move = t[i].move /\ mv[t[i].move].src = t[i].at
    <3> TAKE i, j \in 1..n
    <3>1. t[i].op = "release" /\ t[j].op = "state" => t[i] = ops[i] /\ t[j] = ops[j] BY <2>2
    <3>2. ops[i].op = "release" /\ ops[j].op = "state" =>
               i < j /\ ops[j].move = ops[i].move /\ mv[ops[i].move].src = ops[i].at
      BY <2>1
    <3> QED BY ONLY <3>1, <3>2
  <2>5. Len(t) = n BY <1>5
  <2> QED BY ONLY <2>3, <2>4, <2>5 DEF Ordered
<1>10. LineBacked(t) BY <1>4, <1>5 DEF LineBacked
<1>11. ASSUME NEW l PROVE Plan(t, l) = Plan(ops, l)
  <2>1. Plan(t, l) = Change(o, l) + Plan(Tail(ops), l) BY <1>5, PlanTail
  <2>2. Plan(ops, l) = Change(ops[1], l) + Plan(Tail(ops), l) BY <1>1, PlanTail
  <2>3. Change(o, l) = Change(ops[1], l) BY <1>4 DEF Change
  <2> QED BY <2>1, <2>2, <2>3
<1> QED BY <1>5, <1>8, <1>9, <1>10, <1>11 DEF OpsFit

LEMMA CancelFits ==
  ASSUME NEW mv \in Seq(MoveRows), NEW m \in 1..Len(mv), NEW n \in Nat
  PROVE  OpsFit(Free(m, mv[m].src, n) \o <<Op("state", m, mv[m].src, 0, "cancelled")>>,
                "cancel", mv[m].pick, mv)
<1>1. mv[m] \in MoveRows OBVIOUS
<1>2. mv[m].src \in Locations BY <1>1 DEF MoveRows
<1>3. PICK free, state : /\ free = Op("release", m, mv[m].src, n, None)
                         /\ state = Op("state", m, mv[m].src, 0, "cancelled")
  OBVIOUS
<1>4. /\ free \in Ops /\ state \in Ops /\ free.op = "release" /\ state.op = "state"
      /\ free.move = m /\ state.move = m /\ free.at = mv[m].src /\ free.by = n
      /\ state.to \in States
  BY <1>2, <1>3 DEF Op, Ops, OpNames, States
<1>5. OpFits(free, mv) /\ OpFits(state, mv) BY <1>4 DEF OpFits
<1>6. PICK F, S, ops : F = Free(m, mv[m].src, n) /\ S = <<state>> /\ ops = F \o S OBVIOUS
<1>7. OpsFit(S, "cancel", mv[m].pick, mv) BY <1>4, <1>5, <1>6, OpsOne
<1>8. CASE F = <<>>
  <2>1. S \in Seq(Ops) BY <1>4, <1>6
  <2>2. ops = S BY <1>6, <1>8, <2>1, Nothing
  <2> QED BY <1>3, <1>6, <1>7, <2>2
<1>9. CASE F = <<free>>
  <2>1. F \in Seq(Ops) /\ Len(F) = 1 /\ F[1] = free BY <1>4, <1>9, One
  <2>2. ops \in Seq(Ops) /\ Len(ops) = 2 /\ ops[1] = free /\ ops[2] = state
    BY ONLY <1>4, <1>6, <2>1, Adds
  <2>3. 1..2 = {1, 2} OBVIOUS
  <2>4. OpsFit(ops, "cancel", mv[m].pick, mv)
    BY <1>4, <1>5, <2>2, <2>3 DEF OpsFit, Ordered, LineBacked
  <2> QED BY <1>3, <1>6, <2>4
<1> QED BY <1>3, <1>6, <1>8, <1>9 DEF Free

\* Lists of four, built at once.
LEMMA FourOf ==
  ASSUME NEW a \in Ops, NEW b \in Ops, NEW c \in Ops, NEW d \in Ops
  PROVE  Four(<<a, b, c, d>>, a, b, c, d)
BY DEF Four

\* What a scrap or a count has to do.
Apart(mv, m, n, to, k, after, write, ops) ==
  /\ mv \in Seq(MoveRows) /\ m \in 1..Len(mv) /\ n \in Nat \ {0} /\ to \in Locations
  /\ write \in Ops /\ write.op = "overwrite" /\ write.move = m /\ write.by \in Nat
  /\ after = <<>> \/ (after = <<write>> /\ k = "count")
  /\ ops = Alone(m, n, mv[m].src, to, after)

LEMMA AloneFits ==
  ASSUME NEW mv, NEW m, NEW n, NEW to, NEW k, NEW after, NEW write, NEW ops,
         Apart(mv, m, n, to, k, after, write, ops)
  PROVE  /\ OpsFit(ops, k, mv[m].pick, mv) /\ ops # <<>>
         /\ ops[1].op = "line" /\ ops[1].by = n /\ ops[1].at = mv[m].src /\ ops[1].to = to
         /\ \A i \in 1..Len(ops) :
              /\ ops[i].op \in {"line", "adjust", "state", "overwrite"}
              /\ ops[i].op = "overwrite" => k = "count" /\ ops[i] = write
              /\ ops[i].op = "adjust" /\ ops[i].by < 0 => ops[i].at = mv[m].src /\ ops[i].by = -n
<1>0. /\ mv \in Seq(MoveRows) /\ m \in 1..Len(mv) /\ n \in Nat \ {0} /\ to \in Locations
      /\ write \in Ops /\ write.op = "overwrite" /\ write.move = m /\ write.by \in Nat
      /\ after = <<>> \/ (after = <<write>> /\ k = "count")
      /\ ops = Alone(m, n, mv[m].src, to, after)
  BY DEF Apart
<1> USE <1>0
<1>1. mv[m] \in MoveRows OBVIOUS
<1>2. PICK p, src : p = mv[m].pick /\ src = mv[m].src OBVIOUS
<1>3. src \in Locations BY <1>1, <1>2 DEF MoveRows
<1>4. PICK line, out, inn, state :
        /\ line = Op("line", m, src, n, to) /\ out = Op("adjust", m, src, -n, None)
        /\ inn = Op("adjust", m, to, n, None) /\ state = Op("state", m, src, 0, "done")
  OBVIOUS
<1>5. /\ line \in Ops /\ out \in Ops /\ inn \in Ops /\ state \in Ops
      /\ line.op = "line" /\ line.by = n /\ line.at = src /\ line.to = to /\ line.move = m
      /\ out.op = "adjust" /\ out.by = -n /\ out.at = src /\ out.move = m
      /\ inn.op = "adjust" /\ inn.by = n /\ inn.at = to /\ inn.move = m
      /\ state.op = "state" /\ state.to \in States /\ state.move = m /\ state.by = 0
  BY <1>3, <1>4 DEF Op, Ops, OpNames, States
<1>6. OpFits(line, mv) /\ OpFits(out, mv) /\ OpFits(inn, mv) /\ OpFits(state, mv) /\ OpFits(write, mv)
  BY <1>2, <1>5 DEF OpFits
<1>7. PICK s : s = <<line, out, inn, state>> OBVIOUS
<1>8. Four(s, line, out, inn, state) BY <1>5, <1>7, FourOf
<1>9. s \in Seq(Ops) BY <1>8 DEF Four
<1>10. ops = s \o after BY <1>2, <1>4, <1>7 DEF Alone
<1>11. \A l : /\ Change(line, l) = 0 /\ Change(state, l) = 0 /\ Change(write, l) = 0
              /\ Change(out, l) = IF src = l THEN -n ELSE 0
              /\ Change(inn, l) = IF to = l THEN n ELSE 0
  BY <1>5 DEF Change
<1>12. ASSUME NEW l PROVE Plan(s, l) = (IF to = l THEN n ELSE 0) - (IF src = l THEN n ELSE 0)
  <2>1. PICK a, b : a = <<line, out>> /\ b = <<inn, state>> OBVIOUS
  <2>2. a \in Seq(Ops) /\ b \in Seq(Ops) BY <1>5, <2>1
  <2>3. s = Then(a, b) BY <1>7, <2>1 DEF Then
  <2>4. Plan(a, l) = Change(line, l) + Change(out, l) BY <1>5, <2>1, PlanPair
  <2>5. Plan(b, l) = Change(inn, l) + Change(state, l) BY <1>5, <2>1, PlanPair
  <2>6. Plan(s, l) = Plan(a, l) + Plan(b, l) BY <2>2, <2>3, PlanThen
  <2> QED BY <1>11, <2>4, <2>5, <2>6
<1>13. ASSUME NEW l PROVE Plan(ops, l) = (IF to = l THEN n ELSE 0) - (IF src = l THEN n ELSE 0)
  <2>1. CASE after = <<>> BY <1>9, <1>10, <1>12, <2>1, Nothing
  <2>2. CASE after = <<write>>
    <3>1. after \in Seq(Ops) BY <2>2
    <3>2. Plan(ops, l) = Plan(s, l) + Plan(after, l) BY <1>9, <1>10, <3>1, PlanThen DEF Then
    <3>3. Plan(after, l) = 0 BY <1>11, <2>2, PlanOne
    <3> QED BY <1>12, <3>2, <3>3
  <2> QED BY <2>1, <2>2
<1>14. CASE after = <<>>
  <2>1. ops = s BY <1>9, <1>10, <1>14, Nothing
  <2>2. /\ ops \in Seq(Ops) /\ Len(ops) = 4 /\ ops[1] = line /\ ops[2] = out /\ ops[3] = inn
        /\ ops[4] = state
    BY <1>8, <2>1 DEF Four
  <2>3. 1..4 = {1, 2, 3, 4} OBVIOUS
  <2>4. Ordered(ops, mv)
    <3>1. ASSUME NEW i \in 1..Len(ops)
          PROVE  /\ ops[i].op \in {"line", "insert"} => i = 1
                 /\ ops[i].op = "reserve" => Len(ops) = 1
                 /\ ops[i].op = "overwrite" => i = Len(ops)
                 /\ ops[i].op = "adjust" /\ ops[i].by < 0 => i = 1 \/ (i = 2 /\ ops[1].op = "line")
      BY ONLY <1>0, <1>5, <2>2, <2>3
    <3>2. \A i \in 1..Len(ops) : ops[i].op # "release" BY ONLY <1>0, <1>5, <2>2, <2>3
    <3> QED BY ONLY <3>1, <3>2 DEF Ordered
  <2>5. LineBacked(ops) BY <1>5, <1>13, <2>2 DEF LineBacked
  <2>6. \A i \in 1..Len(ops) : ops[i] \in {line, out, inn, state} BY <2>2, <2>3
  <2>7. OpsFit(ops, k, p, mv) BY <1>2, <1>5, <1>6, <2>2, <2>4, <2>5, <2>6, SMTT(30) DEF OpsFit
  <2> QED BY <1>2, <1>5, <2>2, <2>6, <2>7
<1>15. CASE after = <<write>> /\ k = "count"
  <2>1. Five(ops, line, out, inn, state, write) BY <1>8, <1>10, <1>15, Fifth
  <2>2. /\ ops \in Seq(Ops) /\ Len(ops) = 5 /\ ops[1] = line /\ ops[2] = out /\ ops[3] = inn
        /\ ops[4] = state /\ ops[5] = write
    BY <2>1 DEF Five
  <2>3. 1..5 = {1, 2, 3, 4, 5} OBVIOUS
  <2>4. Ordered(ops, mv)
    <3>1. ASSUME NEW i \in 1..Len(ops)
          PROVE  /\ ops[i].op \in {"line", "insert"} => i = 1
                 /\ ops[i].op = "reserve" => Len(ops) = 1
                 /\ ops[i].op = "overwrite" => i = Len(ops)
                 /\ ops[i].op = "adjust" /\ ops[i].by < 0 => i = 1 \/ (i = 2 /\ ops[1].op = "line")
      BY ONLY <1>0, <1>5, <2>2, <2>3
    <3>2. \A i \in 1..Len(ops) : ops[i].op # "release" BY ONLY <1>0, <1>5, <2>2, <2>3
    <3> QED BY ONLY <3>1, <3>2 DEF Ordered
  <2>5. LineBacked(ops) BY <1>5, <1>13, <2>2 DEF LineBacked
  <2>6. \A i \in 1..Len(ops) : ops[i] \in {line, out, inn, state, write} BY <2>2, <2>3
  <2>7. \A o \in {line, out, inn, state, write} :
          /\ OpFits(o, mv) /\ mv[o.move].pick = p
          /\ o.op \in {"line", "adjust", "state", "overwrite"}
          /\ o.op = "overwrite" => o = write
          /\ o.op = "adjust" /\ o.by < 0 => o.at = src /\ o.by = -n
    BY ONLY <1>2, <1>5, <1>6, <1>0
  <2>8. OpsFit(ops, k, p, mv)
    <3>1. \A i \in 1..Len(ops) : /\ OpFits(ops[i], mv) /\ mv[ops[i].move].pick = p
                                 /\ ops[i].op # "reserve"
      BY ONLY <2>6, <2>7
    <3> QED BY ONLY <1>15, <2>2, <2>4, <2>5, <3>1 DEF OpsFit
  <2>9. \A i \in 1..Len(ops) :
          /\ ops[i].op \in {"line", "adjust", "state", "overwrite"}
          /\ ops[i].op = "overwrite" => k = "count" /\ ops[i] = write
          /\ ops[i].op = "adjust" /\ ops[i].by < 0 => ops[i].at = src /\ ops[i].by = -n
    BY ONLY <1>15, <2>6, <2>7
  <2>10. ops # <<>> BY <2>2
  <2> QED BY ONLY <1>2, <1>5, <2>2, <2>8, <2>9, <2>10
<1> QED BY <1>14, <1>15
-----------------------------------------------------------------------------
(* Calls, while moves are added and change.                                *)

LEMMA IdleFits ==
  ASSUME NEW mv, NEW n \in Nat PROVE CallFits(Idle, mv, n)
<1>1. <<>> \in Seq(Ops) /\ <<>> \in Seq(Specs) OBVIOUS
<1>2. Idle \in Calls /\ Idle.pick = 0 /\ Idle.todo = {} /\ Idle.ops = <<>>
  BY <1>1 DEF Idle, Call, Calls, Kinds
<1> QED BY <1>2, OpsEmpty DEF CallFits

LEMMA SettleFits ==
  ASSUME NEW q, NEW mv, NEW n \in Nat, CallFits(q, mv, n) PROVE CallFits(Settle(q), mv, n)
BY IdleFits DEF Settle

LEMMA CallFitsKept ==
  ASSUME NEW q, NEW mv, NEW n \in Nat, CallFits(q, mv, n), NEW nv, Keeps(mv, nv),
         NEW k \in Nat, n <= k, Len(mv) \in Nat, Len(nv) \in Nat
  PROVE  CallFits(q, nv, k)
<1>1. PICK ops : ops = q.ops OBVIOUS
<1>2. /\ q \in Calls /\ q.pick \in 0..n
      /\ \A m \in q.todo : m \in 1..Len(mv) /\ mv[m].pick = q.pick
      /\ OpsFit(ops, q.kind, q.pick, mv)
  BY <1>1 DEF CallFits
<1>3. \A m \in 1..Len(mv) : m \in 1..Len(nv) /\ nv[m].pick = mv[m].pick /\ nv[m].src = mv[m].src
  BY DEF Keeps
<1>4. \A m \in q.todo : m \in 1..Len(nv) /\ nv[m].pick = q.pick BY <1>2, <1>3
<1>5. ops \in Seq(Ops) /\ LineBacked(ops) BY <1>2 DEF OpsFit
<1>6. \A i \in 1..Len(ops) : OpFits(ops[i], nv) /\ nv[ops[i].move].pick = q.pick
  <2> TAKE i \in 1..Len(ops)
  <2>1. OpFits(ops[i], mv) /\ mv[ops[i].move].pick = q.pick BY <1>2 DEF OpsFit
  <2> QED BY <1>3, <2>1 DEF OpFits
<1>7. Ordered(ops, nv)
  <2>1. Ordered(ops, mv) BY <1>2 DEF OpsFit
  <2>2. \A i \in 1..Len(ops) : nv[ops[i].move].src = mv[ops[i].move].src
    <3> TAKE i \in 1..Len(ops)
    <3>1. OpFits(ops[i], mv) BY <1>2 DEF OpsFit
    <3> QED BY <1>3, <3>1 DEF OpFits
  <2> QED BY <2>1, <2>2 DEF Ordered
<1>8. OpsFit(ops, q.kind, q.pick, nv) BY <1>2, <1>5, <1>6, <1>7 DEF OpsFit
<1> QED BY <1>1, <1>2, <1>4, <1>8 DEF CallFits

\* A call goes on with other transactions.
LEMMA CallGoesOn ==
  ASSUME NEW q, NEW mv, NEW n, CallFits(q, mv, n), NEW ops, OpsFit(ops, q.kind, q.pick, mv)
  PROVE  CallFits([q EXCEPT !.ops = ops], mv, n)
<1>1. q \in Calls /\ ops \in Seq(Ops) BY DEF CallFits, OpsFit
<1>2. PICK s : s = [q EXCEPT !.ops = ops] OBVIOUS
<1>3. s \in Calls /\ s.kind = q.kind /\ s.pick = q.pick /\ s.todo = q.todo /\ s.ops = ops
  BY <1>1, <1>2 DEF Calls
<1>4. CallFits(s, mv, n) BY <1>3 DEF CallFits
<1> QED BY <1>2, <1>4
-----------------------------------------------------------------------------
(* Moves that are added and changed.                                       *)

LEMMA KeepsSame ==
  ASSUME NEW mv \in Seq(MoveRows) PROVE Keeps(mv, mv) /\ Len(mv) \in Nat
BY DEF Keeps

\* The new moves of a transfer.
Drafts(p, specs) == [i \in DOMAIN specs |-> Draft(p, specs[i])]

LEMMA DraftsAre ==
  ASSUME NEW specs \in Seq(Specs), NEW p \in Nat
  PROVE  /\ Drafts(p, specs) \in Seq(MoveRows) /\ Len(Drafts(p, specs)) = Len(specs)
         /\ \A i \in 1..Len(specs) : /\ Drafts(p, specs)[i] = Draft(p, specs[i])
                                     /\ Draft(p, specs[i]) \in MoveRows
<1>1. PICK n : n = Len(specs) OBVIOUS
<1>2. n \in Nat /\ DOMAIN specs = 1..n BY <1>1
<1>3. \A i \in 1..n : Draft(p, specs[i]) \in MoveRows
  <2> TAKE i \in 1..n
  <2>1. specs[i] \in Specs BY <1>1
  <2>2. <<>> \in Seq(LineRows) OBVIOUS
  <2> QED BY <2>1, <2>2 DEF Specs, Draft, MoveRows, States, Open
<1>4. Drafts(p, specs) = [i \in 1..n |-> Draft(p, specs[i])] BY <1>2 DEF Drafts
<1> QED BY <1>1, <1>2, <1>3, <1>4

LEMMA RowsAdded ==
  ASSUME NEW R, NEW s \in Seq(R), NEW t \in Seq(R), NEW u, u = s \o t
  PROVE  /\ u \in Seq(R) /\ Len(u) = Len(s) + Len(t) /\ Len(s) \in Nat /\ Len(t) \in Nat
         /\ \A m \in 1..Len(s) : u[m] = s[m]
         /\ \A m \in 1..(Len(s) + Len(t)) : m > Len(s) => u[m] = t[m - Len(s)]
OBVIOUS

\* Moves of a transfer are added.
Extended(mv, p, specs, nv) ==
  /\ mv \in Seq(MoveRows) /\ specs \in Seq(Specs) /\ p \in Nat
  /\ nv = mv \o [i \in DOMAIN specs |-> Draft(p, specs[i])]

LEMMA MovesAdded ==
  ASSUME NEW mv, NEW specs, NEW p, NEW nv, Extended(mv, p, specs, nv)
  PROVE  /\ nv \in Seq(MoveRows) /\ Keeps(mv, nv) /\ Len(nv) = Len(mv) + Len(specs)
         /\ Len(mv) \in Nat /\ Len(specs) \in Nat /\ Len(nv) \in Nat
         /\ \A m \in 1..Len(mv) : nv[m] = mv[m]
         /\ \A i \in 1..Len(specs) : nv[Len(mv) + i] = Draft(p, specs[i])
         /\ \A m \in 1..Len(nv) : m \notin 1..Len(mv) =>
              nv[m].pick = p /\ nv[m].state = "draft" /\ nv[m].lines = <<>>
<1>0. /\ mv \in Seq(MoveRows) /\ specs \in Seq(Specs) /\ p \in Nat
      /\ nv = mv \o [i \in DOMAIN specs |-> Draft(p, specs[i])]
  BY DEF Extended
<1>1. PICK d : d = Drafts(p, specs) OBVIOUS
<1>2. /\ d \in Seq(MoveRows) /\ Len(d) = Len(specs) /\ Len(specs) \in Nat
      /\ \A i \in 1..Len(specs) : d[i] = Draft(p, specs[i])
  BY <1>0, <1>1, DraftsAre
<1>3. nv = mv \o d BY <1>0, <1>1 DEF Drafts
<1>4. PICK n, k : n = Len(mv) /\ k = Len(specs) OBVIOUS
<1>5. /\ nv \in Seq(MoveRows) /\ Len(nv) = n + k /\ n \in Nat /\ k \in Nat
      /\ \A m \in 1..n : nv[m] = mv[m]
      /\ \A m \in 1..(n + k) : m > n => nv[m] = d[m - n]
  <2>1. d \in Seq(MoveRows) BY <1>2
  <2>2. PICK R : R = MoveRows OBVIOUS
  <2>3. mv \in Seq(R) /\ d \in Seq(R) BY <1>0, <2>1, <2>2
  <2>4. /\ nv \in Seq(R) /\ Len(nv) = Len(mv) + Len(d) /\ Len(mv) \in Nat /\ Len(d) \in Nat
        /\ \A m \in 1..Len(mv) : nv[m] = mv[m]
        /\ \A m \in 1..(Len(mv) + Len(d)) : m > Len(mv) => nv[m] = d[m - Len(mv)]
    BY ONLY <1>3, <2>3, RowsAdded
  <2> QED BY ONLY <1>2, <1>4, <2>2, <2>4
<1>6. \A i \in 1..k : n + i \in 1..(n + k) /\ n + i > n /\ (n + i) - n = i BY <1>5
<1>7. \A i \in 1..k : nv[n + i] = Draft(p, specs[i]) BY <1>2, <1>4, <1>5, <1>6
<1>8. \A m \in 1..(n + k) : m \notin 1..n =>
        nv[m].pick = p /\ nv[m].state = "draft" /\ nv[m].lines = <<>>
  <2> SUFFICES ASSUME NEW m \in 1..(n + k), m \notin 1..n
               PROVE  nv[m].pick = p /\ nv[m].state = "draft" /\ nv[m].lines = <<>>
    OBVIOUS
  <2>1. m - n \in 1..k /\ m > n BY <1>5
  <2>2. nv[m] = Draft(p, specs[m - n]) BY <1>2, <1>4, <1>5, <2>1
  <2>3. PICK sp : sp = specs[m - n] OBVIOUS
  <2>4. /\ Draft(p, sp).pick = p /\ Draft(p, sp).state = "draft"
        /\ Draft(p, sp).lines = <<>>
    BY DEF Draft
  <2> QED BY ONLY <2>2, <2>3, <2>4
<1> QED BY <1>4, <1>5, <1>7, <1>8 DEF Keeps

\* A move is changed to a row that asks for the same.
Edited(mv, m, row, nv) ==
  /\ mv \in Seq(MoveRows) /\ m \in 1..Len(mv) /\ row \in MoveRows
  /\ row.pick = mv[m].pick /\ row.demand = mv[m].demand /\ row.src = mv[m].src /\ row.dst = mv[m].dst
  /\ nv = [mv EXCEPT ![m] = row]

LEMMA MoveEdited ==
  ASSUME NEW mv, NEW m, NEW row, NEW nv, Edited(mv, m, row, nv)
  PROVE  /\ nv \in Seq(MoveRows) /\ Keeps(mv, nv) /\ Len(nv) = Len(mv) /\ Len(mv) \in Nat
         /\ m \in 1..Len(mv) /\ nv[m] = row /\ \A x \in 1..Len(mv) : x # m => nv[x] = mv[x]
<1>0. /\ mv \in Seq(MoveRows) /\ m \in 1..Len(mv) /\ row \in MoveRows
      /\ nv = [mv EXCEPT ![m] = row]
  BY DEF Edited
<1>1. nv \in Seq(MoveRows) /\ Len(nv) = Len(mv) /\ Len(mv) \in Nat
  BY <1>0
<1>2. nv[m] = row /\ \A x \in 1..Len(mv) : x # m => nv[x] = mv[x] BY <1>0
<1> QED BY <1>0, <1>1, <1>2 DEF Keeps, Edited

LEMMA SetOfSeq ==
  ASSUME NEW S, IsFiniteSet(S)
  PROVE  SetToSeq(S) \in [1..Cardinality(S) -> S] /\ Cardinality(S) \in Nat
<1>1. Cardinality(S) \in Nat /\ ExistsBijection(1..Cardinality(S), S) BY FS_CardinalityType
<1>2. \E f \in [1..Cardinality(S) -> S] : IsInjective(f)
  BY <1>1 DEF ExistsBijection, Bijection, Injection
<1> QED BY <1>1, <1>2 DEF SetToSeq

LEMMA MovedIs ==
  ASSUME moves \in Seq(MoveRows), NEW m \in 1..Len(moves)
  PROVE  Moved(m) \in Nat
<1>1. PICK lines : lines = moves[m].lines OBVIOUS
<1>2. moves[m] \in MoveRows OBVIOUS
<1>3. lines \in Seq(LineRows) BY <1>1, <1>2 DEF MoveRows
<1>4. PICK f, S : f = [i \in DOMAIN lines |-> lines[i].qty] /\ S = DOMAIN lines OBVIOUS
<1>5. S = 1..Len(lines) /\ Len(lines) \in Nat BY <1>3, <1>4
<1>6. IsFiniteSet(S) /\ DOMAIN f = S /\ \A i \in S : f[i] \in Nat
  <2>1. IsFiniteSet(S) BY <1>5, FS_Interval
  <2>2. \A i \in S : lines[i] \in LineRows BY <1>3, <1>5
  <2> QED BY <1>4, <2>1, <2>2 DEF LineRows
<1>7. SumOf(f, S) \in Nat BY ONLY <1>6, SumNat
<1> QED BY <1>1, <1>4, <1>6, <1>7 DEF Moved, SumAll
-----------------------------------------------------------------------------
(* What each transaction does to the quantities.                           *)

LEMMA OnHandIs ==
  ASSUME QuantTypes, NEW l
  PROVE  OnHand(l) \in Int /\ Reserved(l) \in Nat
<1>1. CASE l \in DOMAIN quant
  <2>1. quant[l] \in QuantRows BY <1>1 DEF QuantTypes
  <2> QED BY <1>1, <2>1 DEF OnHand, Reserved, QuantRows
<1>2. CASE l \notin DOMAIN quant BY <1>2 DEF OnHand, Reserved
<1> QED BY <1>1, <1>2

LEMMA OnHandNext ==
  ASSUME QuantTypes', NEW l
  PROVE  OnHand(l)' \in Int /\ Reserved(l)' \in Nat
<1>1. CASE l \in DOMAIN quant'
  <2>1. quant'[l] \in QuantRows BY <1>1 DEF QuantTypes
  <2> QED BY <1>1, <2>1 DEF OnHand, Reserved, QuantRows
<1>2. CASE l \notin DOMAIN quant' BY <1>2 DEF OnHand, Reserved
<1> QED BY <1>1, <1>2

LEMMA SameQuant ==
  ASSUME QuantTypes, quant' = quant
  PROVE  QuantTypes' /\ \A l : OnHand(l)' = OnHand(l) /\ Reserved(l)' = Reserved(l)
BY DEF QuantTypes, OnHand, Reserved

LEMMA QuantAdjusted ==
  ASSUME QuantTypes, NEW a \in DOMAIN quant, NEW n \in Int,
         quant' = [quant EXCEPT ![a].qty = @ + n]
  PROVE  /\ QuantTypes' /\ DOMAIN quant' = DOMAIN quant
         /\ \A l : /\ OnHand(l)' = OnHand(l) + (IF l = a THEN n ELSE 0)
                   /\ Reserved(l)' = Reserved(l)
<1>1. DOMAIN quant' = DOMAIN quant OBVIOUS
<1>2. \A l \in DOMAIN quant : quant[l] \in QuantRows BY DEF QuantTypes
<1>3. /\ \A l \in DOMAIN quant : l # a => quant'[l] = quant[l]
      /\ quant'[a] = [quant[a] EXCEPT !.qty = quant[a].qty + n]
  BY DEF QuantTypes
<1>4. quant[a] \in QuantRows BY <1>2
<1>5. /\ quant'[a] \in QuantRows /\ quant'[a].qty = quant[a].qty + n /\ quant'[a].res = quant[a].res
      /\ quant[a].qty \in Int
  BY <1>3, <1>4 DEF QuantRows
<1>6. QuantTypes' BY <1>1, <1>2, <1>3, <1>5 DEF QuantTypes
<1>7. ASSUME NEW l
      PROVE  /\ OnHand(l)' = OnHand(l) + (IF l = a THEN n ELSE 0)
             /\ Reserved(l)' = Reserved(l)
  <2>1. OnHand(l) \in Int BY OnHandIs
  <2> QED BY <1>1, <1>3, <1>5, <2>1 DEF OnHand, Reserved
<1> QED BY <1>1, <1>6, <1>7

LEMMA QuantInserted ==
  ASSUME QuantTypes, NEW a \in Locations, a \notin DOMAIN quant, NEW n \in Int,
         quant' = [l \in DOMAIN quant \cup {a} |-> IF l = a THEN [qty |-> n, res |-> 0] ELSE quant[l]]
  PROVE  /\ QuantTypes' /\ DOMAIN quant' = DOMAIN quant \cup {a}
         /\ \A l : /\ OnHand(l)' = OnHand(l) + (IF l = a THEN n ELSE 0)
                   /\ Reserved(l)' = Reserved(l)
<1>1. DOMAIN quant' = DOMAIN quant \cup {a} OBVIOUS
<1>2. \A l \in DOMAIN quant : quant[l] \in QuantRows BY DEF QuantTypes
<1>3. /\ \A l \in DOMAIN quant : quant'[l] = quant[l]
      /\ quant'[a] = [qty |-> n, res |-> 0]
  OBVIOUS
<1>4. quant'[a] \in QuantRows /\ quant'[a].qty = n /\ quant'[a].res = 0 BY <1>3 DEF QuantRows
<1>5. QuantTypes' BY <1>1, <1>2, <1>3, <1>4 DEF QuantTypes
<1>6. ASSUME NEW l
      PROVE  /\ OnHand(l)' = OnHand(l) + (IF l = a THEN n ELSE 0)
             /\ Reserved(l)' = Reserved(l)
  <2>1. OnHand(l) \in Int BY OnHandIs
  <2> QED BY <1>1, <1>3, <1>4, <2>1 DEF OnHand, Reserved
<1> QED BY <1>1, <1>5, <1>6

LEMMA QuantReleased ==
  ASSUME QuantTypes, NEW a, NEW n \in Nat,
         quant' = [l \in DOMAIN quant |->
                     IF l = a THEN [quant[l] EXCEPT !.res = Most(0, @ - n)] ELSE quant[l]]
  PROVE  /\ QuantTypes' /\ DOMAIN quant' = DOMAIN quant
         /\ \A l : /\ OnHand(l)' = OnHand(l)
                   /\ Reserved(l)' = IF l = a THEN Most(0, Reserved(l) - n) ELSE Reserved(l)
<1>1. DOMAIN quant' = DOMAIN quant OBVIOUS
<1>2. \A l \in DOMAIN quant : quant[l] \in QuantRows BY DEF QuantTypes
<1>3. ASSUME NEW l \in DOMAIN quant
      PROVE  /\ quant'[l] \in QuantRows /\ quant'[l].qty = quant[l].qty
             /\ quant'[l].res = IF l = a THEN Most(0, quant[l].res - n) ELSE quant[l].res
  <2>1. PICK v : v = quant[l] OBVIOUS
  <2>2. v \in QuantRows BY <1>2, <2>1
  <2>3. quant'[l] = IF l = a THEN [v EXCEPT !.res = Most(0, v.res - n)] ELSE v BY <2>1
  <2>4. Most(0, v.res - n) \in Nat BY <2>2 DEF QuantRows, Most
  <2> QED BY <2>1, <2>2, <2>3, <2>4 DEF QuantRows
<1>4. QuantTypes' BY <1>1, <1>3 DEF QuantTypes
<1>5. ASSUME NEW l
      PROVE  /\ OnHand(l)' = OnHand(l)
             /\ Reserved(l)' = IF l = a THEN Most(0, Reserved(l) - n) ELSE Reserved(l)
  <2>1. Most(0, 0 - n) = 0 BY DEF Most
  <2> QED BY <1>1, <1>3, <2>1 DEF OnHand, Reserved
<1> QED BY <1>1, <1>4, <1>5

LEMMA QuantReserved ==
  ASSUME QuantTypes, NEW a, NEW n \in Nat, n > 0 => OnHand(a) - Reserved(a) > 0,
         quant' = IF n = 0 THEN quant ELSE [quant EXCEPT ![a].res = @ + n]
  PROVE  /\ QuantTypes' /\ DOMAIN quant' = DOMAIN quant
         /\ \A l : /\ OnHand(l)' = OnHand(l)
                   /\ Reserved(l)' = Reserved(l) + (IF l = a THEN n ELSE 0)
<1>1. CASE n = 0
  <2>1. QuantTypes' /\ \A l : OnHand(l)' = OnHand(l) /\ Reserved(l)' = Reserved(l) BY <1>1, SameQuant
  <2>2. \A l : Reserved(l) \in Nat BY OnHandIs
  <2> QED BY <1>1, <2>1, <2>2
<1>2. CASE n # 0
  <2>1. a \in DOMAIN quant BY <1>2 DEF OnHand, Reserved
  <2>2. DOMAIN quant' = DOMAIN quant BY <1>2
  <2>3. \A l \in DOMAIN quant : quant[l] \in QuantRows BY DEF QuantTypes
  <2>4. /\ \A l \in DOMAIN quant : l # a => quant'[l] = quant[l]
        /\ quant'[a] = [quant[a] EXCEPT !.res = quant[a].res + n]
    BY <1>2, <2>1 DEF QuantTypes
  <2>5. quant[a] \in QuantRows BY <2>1, <2>3
  <2>6. /\ quant'[a] \in QuantRows /\ quant'[a].qty = quant[a].qty /\ quant'[a].res = quant[a].res + n
        /\ quant[a].res \in Nat
    BY <2>4, <2>5 DEF QuantRows
  <2>7. QuantTypes' BY <2>2, <2>3, <2>4, <2>6 DEF QuantTypes
  <2>8. ASSUME NEW l
        PROVE  OnHand(l)' = OnHand(l) /\ Reserved(l)' = Reserved(l) + (IF l = a THEN n ELSE 0)
    <3>1. Reserved(l) \in Nat BY OnHandIs
    <3> QED BY <2>1, <2>2, <2>4, <2>6, <3>1 DEF OnHand, Reserved
  <2> QED BY <2>2, <2>7, <2>8
<1> QED BY <1>1, <1>2

LEMMA QuantOverwritten ==
  ASSUME QuantTypes, NEW a, NEW n \in Nat, quant' = [quant EXCEPT ![a].qty = n]
  PROVE  /\ QuantTypes' /\ DOMAIN quant' = DOMAIN quant
         /\ \A l : /\ OnHand(l)' = IF l = a /\ a \in DOMAIN quant THEN n ELSE OnHand(l)
                   /\ Reserved(l)' = Reserved(l)
<1>1. DOMAIN quant' = DOMAIN quant OBVIOUS
<1>2. \A l \in DOMAIN quant : quant[l] \in QuantRows BY DEF QuantTypes
<1>3. \A l \in DOMAIN quant : l # a => quant'[l] = quant[l] BY DEF QuantTypes
<1>4. a \in DOMAIN quant => /\ quant'[a] = [quant[a] EXCEPT !.qty = n] /\ quant[a] \in QuantRows
  BY <1>2 DEF QuantTypes
<1>5. a \in DOMAIN quant =>
        quant'[a] \in QuantRows /\ quant'[a].qty = n /\ quant'[a].res = quant[a].res
  BY <1>4 DEF QuantRows
<1>6. QuantTypes' BY <1>1, <1>2, <1>3, <1>5 DEF QuantTypes
<1>7. ASSUME NEW l
      PROVE  /\ OnHand(l)' = IF l = a /\ a \in DOMAIN quant THEN n ELSE OnHand(l)
             /\ Reserved(l)' = Reserved(l)
  BY <1>1, <1>3, <1>5 DEF OnHand, Reserved
<1> QED BY <1>1, <1>6, <1>7
-----------------------------------------------------------------------------
(* Rows and calls keep to their types.                                     *)

LEMMA TypesInit ==
  ASSUME Init PROVE StockTypes
<1>1. PICK L \in SUBSET Locations : Stocked \in [L -> Nat] BY ConstantsOK
<1>2. DOMAIN quant = L /\ \A l \in L : quant[l] = [qty |-> Stocked[l], res |-> 0] BY <1>1 DEF Init
<1>3. QuantTypes
  <2>1. \A l \in L : Stocked[l] \in Nat /\ quant[l] \in QuantRows BY <1>1, <1>2 DEF QuantRows
  <2>2. quant = [l \in DOMAIN Stocked |-> [qty |-> Stocked[l], res |-> 0]] BY DEF Init
  <2> QED BY <1>1, <1>2, <2>1, <2>2 DEF QuantTypes
<1>4. PICK n, R : n = Len(Orders) /\ R = [pick : 1..Transfers, demand : Nat \ {0}, src : Locations, dst : Locations]
  OBVIOUS
<1>5. Orders \in Seq(R) BY <1>4, ConstantsOK
<1>6. n \in Nat /\ DOMAIN Orders = 1..n /\ \A i \in 1..n : Orders[i] \in R
  <2>1. n = Len(Orders) BY <1>4
  <2> QED BY ONLY <1>5, <2>1
<1>7. moves = [i \in 1..n |-> Draft(Orders[i].pick, Orders[i])] BY <1>6 DEF Init
<1>8. Transfers \in Nat BY ConstantsOK
<1>9. \A i \in 1..n : moves[i] \in MoveRows /\ moves[i].pick \in 0..Transfers
  <2> TAKE i \in 1..n
  <2>1. Orders[i] \in R BY <1>6
  <2>2. <<>> \in Seq(LineRows) OBVIOUS
  <2>3. moves[i] = Draft(Orders[i].pick, Orders[i]) BY <1>7
  <2> QED BY <1>4, <1>8, <2>1, <2>2, <2>3 DEF Draft, MoveRows, States, Open
<1>10. moves \in Seq(MoveRows) /\ Len(moves) = n BY <1>6, <1>7, <1>9
<1>11. pickings \in Seq(Nat) /\ Len(pickings) = Transfers BY <1>8 DEF Init
<1>12. req = [r \in Requests |-> Idle] BY DEF Init
<1>13. \A r \in Requests : CallFits(req[r], moves, Len(pickings)) BY <1>8, <1>11, <1>12, IdleFits
<1>14. req \in [Requests -> Calls] BY <1>12, <1>13 DEF CallFits
<1>15. lost \in [Locations -> Int] /\ tried \subseteq 1..Len(moves) BY DEF Init
<1> QED BY <1>3, <1>9, <1>10, <1>11, <1>13, <1>14, <1>15 DEF StockTypes

\* One call at most takes a turn, while transfers and moves are added or edited.
LEMMA TurnTaken ==
  ASSUME StockTypes, moves' \in Seq(MoveRows), Keeps(moves, moves'), pickings' \in Seq(Nat),
         Len(pickings) <= Len(pickings'),
         req' = req \/ \E r \in Requests : \E q : /\ CallFits(q, moves', Len(pickings'))
                                                  /\ req' = [req EXCEPT ![r] = q]
  PROVE  /\ req' \in [Requests -> Calls]
         /\ \A o \in Requests : CallFits(req'[o], moves', Len(pickings'))
<1>1. PICK mv, nv, n, k : mv = moves /\ nv = moves' /\ n = Len(pickings) /\ k = Len(pickings') OBVIOUS
<1>2. n \in Nat /\ k \in Nat /\ n <= k /\ Len(mv) \in Nat /\ Len(nv) \in Nat /\ Keeps(mv, nv)
  BY <1>1 DEF StockTypes
<1>3. req \in [Requests -> Calls] BY DEF StockTypes
<1>4. \A o \in Requests : CallFits(req[o], nv, k)
  <2> TAKE o \in Requests
  <2>1. PICK q : q = req[o] OBVIOUS
  <2>2. CallFits(q, mv, n) BY <1>1, <2>1 DEF StockTypes
  <2>3. CallFits(q, nv, k) BY ONLY <1>2, <2>2, CallFitsKept
  <2> QED BY <2>1, <2>3
<1>5. CASE req' = req BY <1>1, <1>3, <1>4, <1>5
<1>6. ASSUME NEW r \in Requests, NEW q, CallFits(q, nv, k), req' = [req EXCEPT ![r] = q]
      PROVE  req' \in [Requests -> Calls] /\ \A o \in Requests : CallFits(req'[o], nv, k)
  <2>1. q \in Calls BY <1>6 DEF CallFits
  <2>2. \A o \in Requests : req'[o] = IF o = r THEN q ELSE req[o] BY <1>3, <1>6
  <2>3. req' \in [Requests -> Calls] BY <1>3, <1>6, <2>1
  <2> QED BY <1>4, <1>6, <2>2, <2>3
<1> QED BY <1>1, <1>5, <1>6

\* The next transaction of a call, and the call without it.
LEMMA HeadOf ==
  ASSUME StockTypes, NEW r \in Requests, req[r].ops # <<>>
  PROVE  /\ req[r] \in Calls /\ CallFits(req[r], moves, Len(pickings))
         /\ OpsFit(req[r].ops, req[r].kind, req[r].pick, moves)
         /\ Head(req[r].ops) = req[r].ops[1] /\ req[r].ops[1] \in Ops /\ 1 \in 1..Len(req[r].ops)
         /\ OpFits(req[r].ops[1], moves) /\ moves[req[r].ops[1].move].pick = req[r].pick
         /\ req[r].ops[1].op = "overwrite" => req[r].kind = "count"
         /\ req[r].ops[1].op = "reserve" => req[r].kind = "confirm" /\ Tail(req[r].ops) = <<>>
         /\ OpsFit(Tail(req[r].ops), req[r].kind, req[r].pick, moves)
         /\ <<>> \o Tail(req[r].ops) = Tail(req[r].ops)
<1>1. PICK q, ops, mv, n : q = req[r] /\ ops = q.ops /\ mv = moves /\ n = Len(pickings) OBVIOUS
<1>2. q \in Calls /\ CallFits(q, mv, n) /\ OpsFit(ops, q.kind, q.pick, mv)
  BY <1>1 DEF StockTypes, CallFits
<1>3. ops \in Seq(Ops) /\ ops # <<>> BY <1>1, <1>2 DEF OpsFit
<1>4. /\ Tail(ops) \in Seq(Ops) /\ Len(ops) \in Nat \ {0} /\ Head(ops) = ops[1] /\ ops[1] \in Ops
      /\ Len(Tail(ops)) = Len(ops) - 1
  BY <1>3, Tails
<1>5. 1 \in 1..Len(ops) BY <1>4
<1>6. /\ OpFits(ops[1], mv) /\ mv[ops[1].move].pick = q.pick
      /\ ops[1].op = "overwrite" => q.kind = "count"
      /\ ops[1].op = "reserve" => q.kind = "confirm"
  BY <1>2, <1>5 DEF OpsFit
<1>7. ops[1].op = "reserve" => Len(ops) = 1 BY <1>2, <1>5 DEF OpsFit, Ordered
<1>8. ops[1].op = "reserve" => Tail(ops) = <<>>
  <2>1. \A t \in Seq(Ops) : Len(t) = 0 => t = <<>> OBVIOUS
  <2>2. PICK t, k : t = Tail(ops) /\ k = Len(ops) OBVIOUS
  <2>3. t \in Seq(Ops) /\ Len(t) = k - 1 /\ (ops[1].op = "reserve" => k = 1) BY <1>4, <1>7, <2>2
  <2>4. ops[1].op = "reserve" => t = <<>> BY ONLY <2>1, <2>3
  <2> QED BY <2>2, <2>4
<1>9. OpsFit(Tail(ops), q.kind, q.pick, mv) BY <1>2, <1>3, OpsTail
<1>10. <<>> \o Tail(ops) = Tail(ops) BY <1>4, Nothing
<1> QED BY <1>1, <1>2, <1>4, <1>5, <1>6, <1>8, <1>9, <1>10

LEMMA DoneFits ==
  ASSUME StockTypes, NEW r \in Requests, req[r].ops # <<>>, NEW more,
         OpsFit(more \o Tail(req[r].ops), req[r].kind, req[r].pick, moves), Done(r, more)
  PROVE  \E q : CallFits(q, moves, Len(pickings)) /\ req' = [req EXCEPT ![r] = q]
<1>1. PICK q, ops, mv, n : q = req[r] /\ ops = more \o Tail(req[r].ops) /\ mv = moves /\ n = Len(pickings)
  OBVIOUS
<1>2. CallFits(q, mv, n) /\ OpsFit(ops, q.kind, q.pick, mv) /\ n \in Nat
  BY <1>1 DEF StockTypes
<1>3. CallFits([q EXCEPT !.ops = ops], mv, n) BY ONLY <1>2, CallGoesOn
<1>4. CallFits(Settle([q EXCEPT !.ops = ops]), mv, n) BY ONLY <1>2, <1>3, SettleFits
<1>5. req' = [req EXCEPT ![r] = Settle([q EXCEPT !.ops = ops])] BY <1>1 DEF Done
<1> QED BY <1>1, <1>4, <1>5

LEMMA TypesKept ==
  ASSUME StockTypes, QuantTypes', moves' \in Seq(MoveRows), Keeps(moves, moves'), pickings' \in Seq(Nat),
         Len(pickings) <= Len(pickings'), \A m \in 1..Len(moves') : moves'[m].pick \in 0..Len(pickings'),
         req' = req \/ \E r \in Requests : \E q : /\ CallFits(q, moves', Len(pickings'))
                                                  /\ req' = [req EXCEPT ![r] = q],
         lost' \in [Locations -> Int], tried' \subseteq 1..Len(moves')
  PROVE  StockTypes'
<1>1. /\ req' \in [Requests -> Calls]
      /\ \A o \in Requests : CallFits(req'[o], moves', Len(pickings'))
  BY TurnTaken
<1> QED BY <1>1 DEF StockTypes

\* A step that leaves the rows alone, or changes the quantities only.
LEMMA TypesSame ==
  ASSUME StockTypes, QuantTypes', UNCHANGED <<moves, pickings>>,
         req' = req \/ \E r \in Requests : \E q : /\ CallFits(q, moves, Len(pickings))
                                                  /\ req' = [req EXCEPT ![r] = q],
         lost' \in [Locations -> Int], tried' \subseteq 1..Len(moves)
  PROVE  StockTypes'
<1>1. moves \in Seq(MoveRows) /\ pickings \in Seq(Nat) BY DEF StockTypes
<1>2. Keeps(moves, moves) BY <1>1, KeepsSame
<1>3. Len(pickings) <= Len(pickings) BY <1>1
<1>4. \A m \in 1..Len(moves) : moves[m].pick \in 0..Len(pickings) BY DEF StockTypes
<1> QED BY <1>1, <1>2, <1>3, <1>4, TypesKept

LEMMA BeginFits ==
  ASSUME StockTypes, NEW k \in Kinds, NEW p \in 0..Len(pickings), NEW todo, NEW back \in BOOLEAN,
         \A m \in todo : m \in 1..Len(moves) /\ moves[m].pick = p
  PROVE  CallFits(Settle(Call(k, p, todo, <<>>, <<>>, back)), moves, Len(pickings))
<1>1. Len(pickings) \in Nat /\ Len(moves) \in Nat BY DEF StockTypes
<1>2. PICK q : q = Call(k, p, todo, <<>>, <<>>, back) OBVIOUS
<1>3. <<>> \in Seq(Ops) /\ <<>> \in Seq(Specs) OBVIOUS
<1>4. todo \in SUBSET Nat /\ p \in Nat BY <1>1
<1>5. q \in Calls /\ q.pick = p /\ q.todo = todo /\ q.ops = <<>> BY <1>2, <1>3, <1>4 DEF Call, Calls
<1>6. CallFits(q, moves, Len(pickings)) BY <1>5, OpsEmpty DEF CallFits
<1> QED BY <1>1, <1>2, <1>6, SettleFits

LEMMA OfIs ==
  ASSUME StockTypes, NEW p
  PROVE  /\ \A m \in Of(p) : m \in 1..Len(moves) /\ moves[m].pick = p
         /\ \A m \in OpenOf(p) : m \in Of(p) /\ moves[m].state \in Open
BY DEF Of, OpenOf, StockTypes

\* A call has taken up one of its moves, and is to do ops for it.
Turned(r, m, q, ops) ==
  /\ req' = [req EXCEPT ![r] = q] /\ q.ops = ops /\ req[r].ops = <<>>
  /\ m \in req[r].todo /\ m \in 1..Len(moves) /\ moves[m].pick = req[r].pick
  /\ q = Idle \/ (q.kind = req[r].kind /\ q.pick = req[r].pick /\ q.todo = req[r].todo \ {m})

LEMMA TakeUpFits ==
  ASSUME StockTypes, NEW r \in Requests, NEW k, NEW m, Turn(r, k, m), NEW ops, NEW rest \in Seq(Specs),
         OpsFit(ops, k, moves[m].pick, moves), TakeUp(r, m, ops, rest)
  PROVE  req[r].kind = k /\ \E q : CallFits(q, moves, Len(pickings)) /\ Turned(r, m, q, ops)
<1>1. PICK q : q = req[r] OBVIOUS
<1>2. q \in Calls /\ CallFits(q, moves, Len(pickings)) BY <1>1 DEF StockTypes
<1>3. q.kind = k /\ m \in q.todo BY <1>1 DEF Turn
<1>4. moves[m].pick = q.pick /\ m \in 1..Len(moves) BY <1>2, <1>3 DEF CallFits
<1>5. PICK s : s = Call(q.kind, q.pick, q.todo \ {m}, ops, q.rest \o rest, q.back) OBVIOUS
<1>6. ops \in Seq(Ops) BY DEF OpsFit
<1>7. q.rest \o rest \in Seq(Specs) BY <1>2 DEF Calls
<1>8. /\ s \in Calls /\ s.kind = k /\ s.pick = q.pick /\ s.todo = q.todo \ {m} /\ s.ops = ops
  <2>1. PICK t : t = q.rest \o rest OBVIOUS
  <2>2. s = Call(q.kind, q.pick, q.todo \ {m}, ops, t, q.back) /\ t \in Seq(Specs) BY <1>5, <1>7, <2>1
  <2> QED BY ONLY <1>2, <1>3, <1>6, <2>2 DEF Call, Calls
<1>9. CallFits(s, moves, Len(pickings)) BY <1>2, <1>4, <1>8 DEF CallFits
<1>10. Len(pickings) \in Nat BY DEF StockTypes
<1>11. CallFits(Settle(s), moves, Len(pickings)) BY <1>9, <1>10, SettleFits
<1>12. req' = [req EXCEPT ![r] = Settle(s)] BY <1>1, <1>5 DEF TakeUp
<1>13. Settle(s).ops = s.ops /\ (Settle(s) = Idle \/ Settle(s) = s)
  BY DEF Settle, Idle, Call
<1>14. req[r].ops = <<>> BY DEF Turn
<1>15. Turned(r, m, Settle(s), ops) BY <1>1, <1>3, <1>4, <1>8, <1>12, <1>13, <1>14 DEF Turned
<1> QED BY <1>1, <1>3, <1>11, <1>15

LEMMA TurnIs ==
  ASSUME StockTypes, NEW r \in Requests, NEW k, NEW m, Turn(r, k, m)
  PROVE  m \in 1..Len(moves) /\ moves[m] \in MoveRows /\ moves[m].pick = req[r].pick
         /\ req[r] \in Calls /\ moves \in Seq(MoveRows)
<1>1. CallFits(req[r], moves, Len(pickings)) /\ moves \in Seq(MoveRows) BY DEF StockTypes
<1>2. m \in req[r].todo BY DEF Turn
<1>3. m \in 1..Len(moves) /\ moves[m].pick = req[r].pick /\ req[r] \in Calls BY <1>1, <1>2 DEF CallFits
<1> QED BY <1>1, <1>3

LEMMA BeginTypes ==
  ASSUME StockTypes, NEW r \in Requests, NEW p \in DOMAIN pickings, NEW b \in BOOLEAN,
         ConfirmBegin(r, p) \/ CancelBegin(r, p) \/ ValidateBegin(r, p, b)
  PROVE  StockTypes'
<1>1. PICK k \in Kinds, todo \in {Of(p), OpenOf(p)}, back \in BOOLEAN :
        Begin(r, Call(k, p, todo, <<>>, <<>>, back)) /\ UNCHANGED <<rows, tried, history>>
  BY DEF ConfirmBegin, CancelBegin, ValidateBegin, Kinds
<1>2. p \in 0..Len(pickings) BY DEF StockTypes
<1>3. \A m \in todo : m \in 1..Len(moves) /\ moves[m].pick = p BY <1>1, OfIs
<1>4. CallFits(Settle(Call(k, p, todo, <<>>, <<>>, back)), moves, Len(pickings))
  BY <1>2, <1>3, BeginFits
<1>5. req' = [req EXCEPT ![r] = Settle(Call(k, p, todo, <<>>, <<>>, back))] BY <1>1 DEF Begin
<1>6. UNCHANGED <<quant, moves, pickings, tried, lost>> BY <1>1 DEF rows, history
<1>7. QuantTypes /\ lost \in [Locations -> Int] /\ tried \subseteq 1..Len(moves) BY DEF StockTypes
<1>8. QuantTypes' BY <1>6, <1>7, SameQuant
<1> QED BY <1>4, <1>5, <1>6, <1>7, <1>8, TypesSame

LEMMA ConfirmTypes ==
  ASSUME StockTypes, NEW r \in Requests, NEW m, ConfirmMove(r, m)
  PROVE  /\ StockTypes' /\ UNCHANGED <<quant, moves, pickings, tried, lost>> /\ req[r].kind = "confirm"
         /\ \E q, ops, o : /\ Turned(r, m, q, ops) /\ (ops = <<>> \/ ops = <<o>>) /\ o \in Ops
                          /\ o.move = m /\ o.op \in {"state", "reserve"}
                          /\ (o.op = "state" => o.to = "ready")
                          /\ (o.op = "reserve" => /\ o.at = moves[m].src /\ o.at \in Internal
                                                 /\ o.by = moves[m].demand /\ moves[m].state \in Open)
<1>1. Turn(r, "confirm", m) BY DEF ConfirmMove
<1>2. m \in 1..Len(moves) /\ moves[m] \in MoveRows /\ moves \in Seq(MoveRows) BY <1>1, TurnIs
<1>3. PICK v : v = moves[m] OBVIOUS
<1>4. m \in Nat /\ v.demand \in Nat \ {0} /\ v.src \in Locations BY <1>2, <1>3 DEF MoveRows
<1>5. PICK s, o : s = Op("state", m, v.src, 0, "ready") /\ o = Op("reserve", m, v.src, v.demand, None)
  OBVIOUS
<1>6. /\ s \in Ops /\ s.op = "state" /\ s.to = "ready" /\ s.move = m
      /\ o \in Ops /\ o.op = "reserve" /\ o.by = v.demand /\ o.move = m /\ o.at = v.src
  BY <1>4, <1>5 DEF Op, Ops, OpNames, States, Open
<1>7. OpFits(s, moves) /\ OpFits(o, moves) BY <1>2, <1>4, <1>6 DEF OpFits, States, Open
<1>8. /\ OpsFit(<<s>>, "confirm", v.pick, moves) /\ OpsFit(<<o>>, "confirm", v.pick, moves)
      /\ OpsFit(<<>>, "confirm", v.pick, moves)
  <2>1. moves[s.move].pick = v.pick /\ moves[o.move].pick = v.pick BY <1>3, <1>6
  <2>2. OpsFit(<<s>>, "confirm", v.pick, moves) BY <1>6, <1>7, <2>1, OpsOne
  <2>3. OpsFit(<<o>>, "confirm", v.pick, moves) BY <1>6, <1>7, <2>1, OpsOne
  <2> QED BY <2>2, <2>3, OpsEmpty
<1>9. PICK ops : /\ TakeUp(r, m, ops, <<>>) /\ UNCHANGED <<rows, tried, history>>
                 /\ \/ ops = <<>> \/ ops = <<s>>
                    \/ ops = <<o>> /\ v.state \in Open /\ v.src \in Internal
  BY <1>3, <1>5 DEF ConfirmMove
<1>10. OpsFit(ops, "confirm", moves[m].pick, moves) BY <1>3, <1>8, <1>9
<1>11. <<>> \in Seq(Specs) OBVIOUS
<1>12. PICK q : CallFits(q, moves, Len(pickings)) /\ Turned(r, m, q, ops) /\ req[r].kind = "confirm"
  BY <1>1, <1>9, <1>10, <1>11, TakeUpFits
<1>13. UNCHANGED <<quant, moves, pickings, tried, lost>> BY <1>9 DEF rows, history
<1>14. QuantTypes /\ lost \in [Locations -> Int] /\ tried \subseteq 1..Len(moves) BY DEF StockTypes
<1>15. QuantTypes' BY <1>13, <1>14, SameQuant
<1>16. StockTypes' BY <1>12, <1>13, <1>14, <1>15, TypesSame DEF Turned
<1>17. CASE ops = <<o>> /\ v.state \in Open /\ v.src \in Internal BY <1>3, <1>6, <1>12, <1>13, <1>16, <1>17
<1>18. CASE ops = <<>> \/ ops = <<s>> BY <1>3, <1>6, <1>12, <1>13, <1>16, <1>18
<1> QED BY <1>9, <1>17, <1>18

LEMMA DoQtyIs ==
  ASSUME QuantTypes, NEW v \in MoveRows
  PROVE  DoQty(v) \in 0..v.demand /\ v.demand \in Nat \ {0} /\ DoQty(v) \in Nat
         /\ (v.src \in Internal /\ DoQty(v) > 0 => DoQty(v) <= OnHand(v.src))
<1>1. v.demand \in Nat \ {0} /\ OnHand(v.src) \in Int BY OnHandIs DEF MoveRows
<1> QED BY <1>1 DEF DoQty, Most, Least

LEMMA DestsAre ==
  ASSUME NEW l \in Locations, NEW to \in Dests(l) PROVE to \in Locations
BY ConstantsOK DEF Dests

LEMMA ValidateTypes ==
  ASSUME StockTypes, NEW r \in Requests, NEW m, ValidateMove(r, m)
  PROVE  /\ StockTypes' /\ UNCHANGED <<quant, moves, pickings, tried, lost>> /\ req[r].kind = "validate"
         /\ \E q : \E to \in Locations : Turned(r, m, q, Transfer(m, moves[m], DoQty(moves[m]), to))
<1>1. Turn(r, "validate", m) BY DEF ValidateMove
<1>2. m \in 1..Len(moves) /\ moves[m] \in MoveRows /\ moves \in Seq(MoveRows) BY <1>1, TurnIs
<1>3. PICK v, done : v = moves[m] /\ done = DoQty(moves[m]) OBVIOUS
<1>4. QuantTypes /\ lost \in [Locations -> Int] /\ tried \subseteq 1..Len(moves) BY DEF StockTypes
<1>5. v \in MoveRows /\ done \in 0..v.demand BY <1>2, <1>3, <1>4, DoQtyIs
<1>6. v.demand \in Nat \ {0} /\ v.src \in Locations /\ v.dst \in Locations BY <1>5 DEF MoveRows
<1>7. PICK to \in Dests(v.dst) : TakeUp(r, m, Transfer(m, v, done, to), Rest(v, done))
  BY <1>3 DEF ValidateMove
<1>8. to \in Locations BY <1>6, <1>7, DestsAre
<1>9. OpsFit(Transfer(m, moves[m], done, to), "validate", moves[m].pick, moves)
  BY <1>2, <1>3, <1>5, <1>8, TransferFits
<1>10. Rest(v, done) \in Seq(Specs)
  <2>1. PICK sp : sp = [demand |-> v.demand - done, src |-> v.src, dst |-> v.dst] OBVIOUS
  <2>2. done # v.demand => sp \in Specs BY <1>5, <1>6, <2>1 DEF Specs
  <2>3. sp \in Specs => <<sp>> \in Seq(Specs) OBVIOUS
  <2>4. <<>> \in Seq(Specs) OBVIOUS
  <2> QED BY <2>1, <2>2, <2>3, <2>4 DEF Rest
<1>11. PICK q : /\ CallFits(q, moves, Len(pickings)) /\ req[r].kind = "validate"
                /\ Turned(r, m, q, Transfer(m, v, done, to))
  <2>1. OpsFit(Transfer(m, v, done, to), "validate", moves[m].pick, moves) BY <1>3, <1>9
  <2> QED BY <1>1, <1>7, <1>10, <2>1, TakeUpFits
<1>12. UNCHANGED <<quant, moves, pickings, tried, lost>> BY DEF rows, history, ValidateMove
<1>13. QuantTypes' BY <1>4, <1>12, SameQuant
<1>14. StockTypes' BY <1>4, <1>11, <1>12, <1>13, TypesSame DEF Turned
<1> QED BY <1>3, <1>8, <1>11, <1>12, <1>14

LEMMA CancelTypes ==
  ASSUME StockTypes, NEW r \in Requests, NEW m, CancelMove(r, m)
  PROVE  /\ StockTypes' /\ UNCHANGED <<quant, moves, pickings, tried, lost>> /\ req[r].kind = "cancel"
         /\ \E q, ops, n : /\ Turned(r, m, q, ops) /\ n = Least(Reserved(moves[m].src), moves[m].demand)
                          /\ n \in Nat
                          /\ ops = Free(m, moves[m].src, n)
                                     \o <<Op("state", m, moves[m].src, 0, "cancelled")>>
<1>1. Turn(r, "cancel", m) BY DEF CancelMove
<1>2. m \in 1..Len(moves) /\ moves[m] \in MoveRows /\ moves \in Seq(MoveRows) BY <1>1, TurnIs
<1>3. PICK n : n = Least(Reserved(moves[m].src), moves[m].demand) OBVIOUS
<1>4. QuantTypes /\ lost \in [Locations -> Int] /\ tried \subseteq 1..Len(moves) BY DEF StockTypes
<1>5. n \in Nat BY <1>2, <1>3, <1>4, OnHandIs DEF Least, MoveRows
<1>6. PICK ops : ops = Free(m, moves[m].src, n) \o <<Op("state", m, moves[m].src, 0, "cancelled")>>
  OBVIOUS
<1>7. OpsFit(ops, "cancel", moves[m].pick, moves) BY <1>2, <1>5, <1>6, CancelFits
<1>8. TakeUp(r, m, ops, <<>>) BY <1>3, <1>6 DEF CancelMove
<1>9. <<>> \in Seq(Specs) OBVIOUS
<1>10. PICK q : CallFits(q, moves, Len(pickings)) /\ Turned(r, m, q, ops) /\ req[r].kind = "cancel"
  BY <1>1, <1>7, <1>8, <1>9, TakeUpFits
<1>11. UNCHANGED <<quant, moves, pickings, tried, lost>> BY DEF rows, history, CancelMove
<1>12. QuantTypes' BY <1>4, <1>11, SameQuant
<1>13. StockTypes' BY <1>4, <1>10, <1>11, <1>12, TypesSame DEF Turned
<1> QED BY <1>3, <1>5, <1>6, <1>10, <1>11, <1>13

LEMMA StopFits ==
  ASSUME StockTypes, NEW r \in Requests, Stop(r)
  PROVE  /\ \E q : CallFits(q, moves, Len(pickings)) /\ req' = [req EXCEPT ![r] = q]
         /\ lost' \in [Locations -> Int]
         /\ \A l : Due(req[r].ops, l) \in Int
<1>1. Len(pickings) \in Nat BY DEF StockTypes
<1>2. CallFits(Idle, moves, Len(pickings)) BY <1>1, IdleFits
<1>3. \A l : Due(req[r].ops, l) \in Int
  <2>1. CallFits(req[r], moves, Len(pickings)) BY DEF StockTypes
  <2>2. req[r].ops \in Seq(Ops) BY <2>1 DEF CallFits, OpsFit
  <2>3. \A l : Plan(req[r].ops, l) \in Int
    <3>1. PICK ops : ops = req[r].ops OBVIOUS
    <3>2. ops \in Seq(Ops) BY <2>2, <3>1
    <3>3. \A l : Plan(ops, l) \in Int BY ONLY <3>2, PlanIs
    <3> QED BY <3>1, <3>3
  <2> QED BY <2>3 DEF Due
<1>4. lost \in [Locations -> Int] BY DEF StockTypes
<1>5. lost' = [l \in Locations |-> lost[l] + Due(req[r].ops, l)] BY DEF Stop
<1>6. lost' \in [Locations -> Int] BY <1>3, <1>4, <1>5
<1> QED BY <1>2, <1>3, <1>6 DEF Stop

LEMMA FailsTypes ==
  ASSUME StockTypes, NEW r \in Requests, Fails(r) PROVE StockTypes'
<1>1. Stop(r) /\ UNCHANGED <<quant, moves, pickings, tried>> BY DEF Fails, rows
<1>2. QuantTypes /\ tried \subseteq 1..Len(moves) BY DEF StockTypes
<1> QED BY <1>1, <1>2, StopFits, SameQuant, TypesSame

\* A transaction on the quantities, or one that cannot be done.
LEMMA QuantityTypes ==
  ASSUME StockTypes, NEW r \in Requests,
         Adjust(r) \/ Insert(r) \/ Release(r) \/ Reserve(r) \/ Overwrite(r)
  PROVE  StockTypes'
<1>1. PICK ops, o, k, p : ops = req[r].ops /\ o = ops[1] /\ k = req[r].kind /\ p = req[r].pick OBVIOUS
<1>2. ops # <<>> /\ Head(ops).op \in {"adjust", "insert", "release", "reserve", "overwrite"}
  BY <1>1, ZenonT(60) DEF Adjust, Insert, Release, Reserve, Overwrite, Next1
<1>3. /\ Head(ops) = o /\ o \in Ops /\ OpFits(o, moves) /\ OpsFit(Tail(ops), k, p, moves)
      /\ OpsFit(ops, k, p, moves) /\ <<>> \o Tail(ops) = Tail(ops) /\ moves[o.move].pick = p
      /\ o.op = "reserve" => k = "confirm" /\ Tail(ops) = <<>>
  BY <1>1, <1>2, HeadOf
<1>4. o.at \in Locations /\ o.by \in Int /\ o.move \in 1..Len(moves) BY <1>3 DEF Ops, OpFits
<1>5. QuantTypes /\ lost \in [Locations -> Int] /\ tried \subseteq 1..Len(moves) BY DEF StockTypes
<1>6. Done(r, <<>>) => \E q : CallFits(q, moves, Len(pickings)) /\ req' = [req EXCEPT ![r] = q]
  BY <1>1, <1>2, <1>3, DoneFits
<1>7. CASE Adjust(r)
  <2>1. o.op = "adjust" /\ UNCHANGED <<moves, pickings, tried, lost>>
    BY <1>1, <1>3, <1>7 DEF Adjust, Next1, history
  <2>2. CASE o.at \in DOMAIN quant
    <3>1. quant' = [quant EXCEPT ![o.at].qty = @ + o.by] /\ Done(r, <<>>)
      BY <1>1, <1>3, <1>7, <2>2 DEF Adjust
    <3>2. QuantTypes' BY <1>4, <1>5, <2>2, <3>1, QuantAdjusted
    <3> QED BY <1>5, <1>6, <2>1, <3>1, <3>2, TypesSame
  <2>3. CASE o.at \notin DOMAIN quant
    <3>1. Done(r, <<[o EXCEPT !.op = "insert"]>>) /\ quant' = quant
      BY <1>1, <1>3, <1>7, <2>3 DEF Adjust
    <3>2. OpsFit(<<[o EXCEPT !.op = "insert"]>> \o Tail(ops), k, p, moves)
      BY <1>1, <1>2, <1>3, <2>1, OpsInsert
    <3>3. \E q : CallFits(q, moves, Len(pickings)) /\ req' = [req EXCEPT ![r] = q]
      BY <1>1, <1>2, <3>1, <3>2, DoneFits
    <3>4. QuantTypes' BY <1>5, <3>1, SameQuant
    <3> QED BY <1>5, <2>1, <3>3, <3>4, TypesSame
  <2> QED BY <2>2, <2>3
<1>8. CASE Insert(r)
  <2>1. UNCHANGED <<moves, pickings, tried>> BY <1>8 DEF Insert
  <2>2. CASE o.at \in DOMAIN quant
    <3>1. Stop(r) /\ quant' = quant BY <1>1, <1>3, <1>8, <2>2 DEF Insert
    <3> QED BY <1>5, <2>1, <3>1, StopFits, SameQuant, TypesSame
  <2>3. CASE o.at \notin DOMAIN quant
    <3>1. /\ quant' = [l \in DOMAIN quant \cup {o.at} |->
                         IF l = o.at THEN [qty |-> o.by, res |-> 0] ELSE quant[l]]
          /\ Done(r, <<>>) /\ UNCHANGED lost
      BY <1>1, <1>3, <1>8, <2>3 DEF Insert
    <3>2. QuantTypes' BY <1>4, <1>5, <2>3, <3>1, QuantInserted
    <3> QED BY <1>5, <1>6, <2>1, <3>1, <3>2, TypesSame
  <2> QED BY <2>2, <2>3
<1>9. CASE Release(r)
  <2>1. /\ o.op = "release" /\ UNCHANGED <<moves, pickings, tried, lost>> /\ Done(r, <<>>)
        /\ quant' = [l \in DOMAIN quant |->
                       IF l = o.at THEN [quant[l] EXCEPT !.res = Most(0, @ - o.by)] ELSE quant[l]]
    BY <1>1, <1>3, <1>9 DEF Release, Next1, history
  <2>2. o.by \in Nat BY <1>3, <2>1 DEF OpFits
  <2>3. QuantTypes' BY <1>5, <2>1, <2>2, QuantReleased
  <2> QED BY <1>5, <1>6, <2>1, <2>3, TypesSame
<1>10. CASE Reserve(r)
  <2>1. PICK take, s : /\ take = Least(o.by, Most(0, OnHand(o.at) - Reserved(o.at)))
                       /\ s = Op("state", o.move, o.at, 0, IF take = 0 THEN "waiting"
                                                          ELSE IF take < o.by THEN "confirmed" ELSE "ready")
    OBVIOUS
  <2>2. /\ o.op = "reserve" /\ UNCHANGED <<moves, pickings, lost>>
        /\ quant' = IF take = 0 THEN quant ELSE [quant EXCEPT ![o.at].res = @ + take]
        /\ Done(r, <<s>>) /\ tried' = tried \cup {o.move}
    BY <1>1, <1>3, <1>10, <2>1, ZenonT(60) DEF Reserve, Next1, history
  <2>3. o.by \in Nat /\ OnHand(o.at) \in Int /\ Reserved(o.at) \in Nat
    BY <1>3, <1>5, <2>2, OnHandIs DEF OpFits
  <2>4. take \in Nat /\ (take > 0 => OnHand(o.at) - Reserved(o.at) > 0)
    BY <2>1, <2>3 DEF Least, Most
  <2>5. QuantTypes' BY <1>5, <2>2, <2>4, QuantReserved
  <2>6. s \in Ops /\ s.op = "state" /\ s.move = o.move /\ s.to \in States
    BY <1>4, <2>1 DEF Op, Ops, OpNames, States, Open
  <2>7. OpFits(s, moves) BY <1>4, <2>6 DEF OpFits
  <2>8. OpsFit(<<s>>, k, p, moves) BY <1>3, <2>6, <2>7, OpsOne
  <2>9. <<s>> \o Tail(ops) = <<s>>
    <3>1. <<s>> \in Seq(Ops) BY <2>6
    <3> QED BY <1>3, <2>2, <3>1, Nothing
  <2>10. \E q : CallFits(q, moves, Len(pickings)) /\ req' = [req EXCEPT ![r] = q]
    <3>1. OpsFit(<<s>> \o Tail(req[r].ops), req[r].kind, req[r].pick, moves) BY <1>1, <2>8, <2>9
    <3> QED BY <1>1, <1>2, <2>2, <3>1, DoneFits
  <2>11. tried' \subseteq 1..Len(moves) BY <1>4, <1>5, <2>2
  <2> QED BY <1>5, <2>2, <2>5, <2>10, <2>11, TypesSame
<1>11. CASE Overwrite(r)
  <2>1. /\ o.op = "overwrite" /\ UNCHANGED <<moves, pickings, tried, lost>> /\ Done(r, <<>>)
        /\ quant' = [quant EXCEPT ![o.at].qty = o.by]
    BY <1>1, <1>3, <1>11 DEF Overwrite, Next1, history
  <2>2. o.by \in Nat BY <1>3, <2>1 DEF OpFits
  <2>3. QuantTypes' BY <1>5, <2>1, <2>2, QuantOverwritten, ZenonT(60)
  <2> QED BY <1>5, <1>6, <2>1, <2>3, TypesSame
<1> QED BY <1>7, <1>8, <1>9, <1>10, <1>11

\* A move gets a line.
LEMMA LineAdded ==
  ASSUME StockTypes, NEW r \in Requests, AddLine(r)
  PROVE  /\ req[r].ops # <<>> /\ req[r].ops[1].op = "line" /\ Done(r, <<>>)
         /\ UNCHANGED <<quant, pickings, tried, lost>>
         /\ \E m, row : /\ Edited(moves, m, row, moves') /\ m = req[r].ops[1].move
                        /\ row.state = moves[m].state
                        /\ row.lines = Append(moves[m].lines, [qty |-> req[r].ops[1].by,
                                                              dst |-> req[r].ops[1].to])
<1>1. PICK o : o = req[r].ops[1] OBVIOUS
<1>2. req[r].ops # <<>> /\ Head(req[r].ops).op = "line" BY DEF AddLine, Next1
<1>3. Head(req[r].ops) = o /\ o \in Ops /\ OpFits(o, moves) BY <1>1, <1>2, HeadOf
<1>4. o.op = "line" /\ o.by \in Nat \ {0} /\ o.to \in Locations /\ o.move \in 1..Len(moves)
  BY <1>2, <1>3 DEF OpFits
<1>5. PICK m, v, line : m = o.move /\ v = moves[m] /\ line = [qty |-> o.by, dst |-> o.to] OBVIOUS
<1>6. v \in MoveRows /\ moves \in Seq(MoveRows) BY <1>4, <1>5 DEF StockTypes
<1>7. PICK lines, more : lines = v.lines /\ more = Append(lines, line) OBVIOUS
<1>8. lines \in Seq(LineRows) /\ line \in LineRows BY <1>4, <1>5, <1>6, <1>7 DEF MoveRows, LineRows
<1>9. more \in Seq(LineRows) BY <1>7, <1>8
<1>10. PICK row : row = [v EXCEPT !.lines = more] OBVIOUS
<1>11. /\ row \in MoveRows /\ row.lines = more /\ row.state = v.state /\ row.pick = v.pick
       /\ row.demand = v.demand /\ row.src = v.src /\ row.dst = v.dst
  BY <1>6, <1>9, <1>10 DEF MoveRows
<1>12. moves' = [moves EXCEPT ![m] = row]
  <2>1. moves' = [moves EXCEPT ![o.move].lines = Append(@, [qty |-> o.by, dst |-> o.to])]
    BY <1>3, ZenonT(60) DEF AddLine
  <2> QED BY <1>5, <1>7, <1>10, <2>1
<1>13. Edited(moves, m, row, moves')
  BY ONLY <1>4, <1>5, <1>6, <1>11, <1>12 DEF Edited
<1>14. m = req[r].ops[1].move BY <1>1, <1>5
<1>15. row.state = moves[m].state BY <1>5, <1>11
<1>16. row.lines = Append(moves[m].lines, [qty |-> req[r].ops[1].by, dst |-> req[r].ops[1].to])
  BY ONLY <1>1, <1>5, <1>7, <1>11, ZenonT(60)
<1>17. /\ req[r].ops # <<>> /\ req[r].ops[1].op = "line" /\ Done(r, <<>>)
       /\ UNCHANGED <<quant, pickings, tried, lost>>
  BY <1>1, <1>2, <1>3 DEF AddLine, history
<1> QED BY ONLY <1>13, <1>14, <1>15, <1>16, <1>17, ZenonT(60)

\* The state of a move.
LEMMA StateSet ==
  ASSUME StockTypes, NEW r \in Requests, SetState(r)
  PROVE  /\ req[r].ops # <<>> /\ req[r].ops[1].op = "state" /\ UNCHANGED <<quant, pickings, tried>>
         /\ \/ Stop(r) /\ moves' = moves
            \/ /\ Done(r, <<>>) /\ lost' = lost
               /\ moves[req[r].ops[1].move].state \notin Open =>
                    req[r].ops[1].to = moves[req[r].ops[1].move].state
               /\ \E m, row : /\ Edited(moves, m, row, moves') /\ m = req[r].ops[1].move
                              /\ row.state = req[r].ops[1].to /\ row.lines = moves[m].lines
<1>1. PICK o : o = req[r].ops[1] OBVIOUS
<1>2. req[r].ops # <<>> /\ Head(req[r].ops).op = "state" BY DEF SetState, Next1
<1>3. Head(req[r].ops) = o /\ o \in Ops /\ OpFits(o, moves) BY <1>1, <1>2, HeadOf
<1>4. o.op = "state" /\ o.to \in States /\ o.move \in 1..Len(moves) BY <1>2, <1>3 DEF OpFits
<1>5. PICK m, v, row : m = o.move /\ v = moves[m] /\ row = [v EXCEPT !.state = o.to] OBVIOUS
<1>6. v \in MoveRows /\ moves \in Seq(MoveRows) BY <1>4, <1>5 DEF StockTypes
<1>7. /\ row \in MoveRows /\ row.lines = v.lines /\ row.state = o.to /\ row.pick = v.pick
      /\ row.demand = v.demand /\ row.src = v.src /\ row.dst = v.dst
  BY <1>4, <1>5, <1>6 DEF MoveRows
<1>8. CASE o.to # v.state /\ v.state \notin Open
  <2>1. Stop(r) /\ moves' = moves BY <1>3, <1>5, <1>8 DEF SetState
  <2> QED BY <1>1, <1>2, <1>3, <2>1 DEF SetState
<1>9. CASE ~(o.to # v.state /\ v.state \notin Open)
  <2>1. moves' = [moves EXCEPT ![o.move].state = o.to] /\ Done(r, <<>>) /\ lost' = lost
    BY <1>3, <1>5, <1>9 DEF SetState
  <2>2. moves' = [moves EXCEPT ![m] = row] BY <1>5, <2>1
  <2>3. Edited(moves, m, row, moves')
    BY ONLY <1>4, <1>5, <1>6, <1>7, <2>2 DEF Edited
  <2>4. m = req[r].ops[1].move /\ row.state = req[r].ops[1].to BY <1>1, <1>5, <1>7
  <2>5. row.lines = moves[m].lines BY <1>5, <1>7
  <2>6. /\ req[r].ops # <<>> /\ req[r].ops[1].op = "state" /\ UNCHANGED <<quant, pickings, tried>>
        /\ moves[req[r].ops[1].move].state \notin Open =>
             req[r].ops[1].to = moves[req[r].ops[1].move].state
    BY <1>1, <1>2, <1>3, <1>5, <1>9, ZenonT(60) DEF SetState
  <2> QED BY ONLY <2>1, <2>3, <2>4, <2>5, <2>6
<1> QED BY <1>8, <1>9

LEMMA EditTypes ==
  ASSUME StockTypes, NEW r \in Requests, AddLine(r) \/ SetState(r)
  PROVE  StockTypes' /\ Keeps(moves, moves') /\ Len(moves') = Len(moves)
<1>1. QuantTypes /\ lost \in [Locations -> Int] /\ tried \subseteq 1..Len(moves) /\ moves \in Seq(MoveRows)
      /\ pickings \in Seq(Nat) /\ Len(moves) \in Nat
      /\ \A m \in 1..Len(moves) : moves[m].pick \in 0..Len(pickings)
  BY DEF StockTypes
<1>2. CASE SetState(r) /\ moves' = moves /\ Stop(r)
  <2>1. UNCHANGED <<quant, pickings, tried>> BY <1>2, StateSet
  <2> QED BY <1>1, <1>2, <2>1, KeepsSame, StopFits, SameQuant, TypesSame
<1>3. CASE ~(SetState(r) /\ moves' = moves /\ Stop(r))
  <2>1. /\ req[r].ops # <<>> /\ UNCHANGED <<quant, pickings, tried, lost>> /\ Done(r, <<>>)
        /\ \E m, row : Edited(moves, m, row, moves')
    <3>1. CASE AddLine(r) BY <3>1, LineAdded
    <3>2. CASE SetState(r) BY <1>3, <3>2, StateSet
    <3> QED BY <3>1, <3>2
  <2>2. /\ moves' \in Seq(MoveRows) /\ Keeps(moves, moves') /\ Len(moves') = Len(moves)
    BY <2>1, MoveEdited
  <2>3. PICK q : CallFits(q, moves, Len(pickings)) /\ req' = [req EXCEPT ![r] = q]
    <3>1. OpsFit(<<>> \o Tail(req[r].ops), req[r].kind, req[r].pick, moves) BY <2>1, HeadOf
    <3> QED BY <2>1, <3>1, DoneFits
  <2>4. CallFits(q, moves', Len(pickings))
    <3>1. PICK mv, nv, n : mv = moves /\ nv = moves' /\ n = Len(pickings) OBVIOUS
    <3>2. /\ Keeps(mv, nv) /\ Len(nv) = Len(mv) /\ Len(mv) \in Nat /\ n \in Nat /\ n <= n
          /\ CallFits(q, mv, n)
      BY <1>1, <2>2, <2>3, <3>1
    <3>3. Len(nv) \in Nat BY <3>2
    <3>4. CallFits(q, nv, n) BY ONLY <3>2, <3>3, CallFitsKept
    <3> QED BY <3>1, <3>4
  <2>5. QuantTypes' BY <1>1, <2>1, SameQuant
  <2>6. \A m \in 1..Len(moves') : moves'[m].pick \in 0..Len(pickings) BY <1>1, <2>2 DEF Keeps
  <2>7. tried' \subseteq 1..Len(moves') /\ Len(pickings) <= Len(pickings) BY <1>1, <2>1, <2>2
  <2>8. StockTypes'
    BY <1>1, <2>1, <2>2, <2>3, <2>4, <2>5, <2>6, <2>7, TypesKept
  <2> QED BY <2>2, <2>8
<1> QED BY <1>2, <1>3

\* Moves are added.
LEMMA AddTypes ==
  ASSUME StockTypes, QuantTypes', NEW p, NEW specs \in Seq(Specs), AddMoves(p, specs),
         pickings' \in Seq(Nat), Len(pickings) <= Len(pickings'), p \in 0..Len(pickings'),
         req' = req \/ \E r \in Requests : \E q : /\ CallFits(q, moves', Len(pickings'))
                                                  /\ req' = [req EXCEPT ![r] = q],
         lost' \in [Locations -> Int], tried' = tried
  PROVE  StockTypes'
<1>1. /\ tried \subseteq 1..Len(moves) /\ moves \in Seq(MoveRows)
      /\ \A m \in 1..Len(moves) : moves[m].pick \in 0..Len(pickings)
      /\ Len(pickings) \in Nat /\ Len(pickings') \in Nat
  BY DEF StockTypes
<1>2. p \in Nat BY <1>1
<1>3. moves' = moves \o [i \in DOMAIN specs |-> Draft(p, specs[i])] BY DEF AddMoves
<1>4. /\ moves' \in Seq(MoveRows) /\ Keeps(moves, moves') /\ Len(moves') = Len(moves) + Len(specs)
      /\ Len(moves) \in Nat /\ Len(specs) \in Nat
      /\ \A m \in 1..Len(moves) : moves'[m] = moves[m]
      /\ \A m \in 1..Len(moves') : m \notin 1..Len(moves) => moves'[m].pick = p
  <2>1. Extended(moves, p, specs, moves') BY <1>1, <1>2, <1>3 DEF Extended
  <2> QED BY <2>1, MovesAdded
<1>5. \A m \in 1..Len(moves') : moves'[m].pick \in 0..Len(pickings')
  <2> TAKE m \in 1..Len(moves')
  <2>1. CASE m \in 1..Len(moves)
    <3>1. moves'[m] = moves[m] /\ moves[m].pick \in 0..Len(pickings) BY <1>1, <1>4, <2>1
    <3>2. PICK x, n, k : x = moves[m].pick /\ n = Len(pickings) /\ k = Len(pickings') OBVIOUS
    <3>3. x \in 0..n /\ n \in Nat /\ k \in Nat /\ n <= k BY <1>1, <3>1, <3>2
    <3>4. x \in 0..k BY ONLY <3>3
    <3> QED BY <3>1, <3>2, <3>4
  <2>2. CASE m \notin 1..Len(moves) BY <1>4, <2>2
  <2> QED BY <2>1, <2>2
<1>6. tried' \subseteq 1..Len(moves') BY <1>1, <1>4
<1> QED BY <1>4, <1>5, <1>6, TypesKept

LEMMA ReturnIs ==
  ASSUME StockTypes, NEW p \in DOMAIN pickings, Return(p)
  PROVE  UNCHANGED <<quant, req, tried, lost>> /\ \E specs \in Seq(Specs) : AddPicking(0, specs)
<1>1. PICK S : S = {m \in Of(p) : Moved(m) > 0} OBVIOUS
<1>2. moves \in Seq(MoveRows) /\ pickings \in Seq(Nat) /\ Len(moves) \in Nat BY DEF StockTypes
<1>3. \A m \in S : m \in 1..Len(moves) /\ Moved(m) \in Nat \ {0}
  <2> TAKE m \in S
  <2>1. m \in 1..Len(moves) /\ Moved(m) > 0 BY <1>1, OfIs
  <2> QED BY <1>2, <2>1, MovedIs
<1>4. IsFiniteSet(S)
  <2>1. S \in SUBSET (1..Len(moves)) /\ IsFiniteSet(1..Len(moves)) BY <1>2, <1>3, FS_Interval
  <2> QED BY <2>1, FS_Subset
<1>5. PICK done, n : done = SetToSeq(S) /\ n = Cardinality(S) OBVIOUS
<1>6. done \in [1..n -> S] /\ n \in Nat BY <1>4, <1>5, SetOfSeq
<1>7. PICK specs : specs = [i \in DOMAIN done |->
          [demand |-> Moved(done[i]), src |-> moves[done[i]].dst, dst |-> moves[done[i]].src]]
  OBVIOUS
<1>8. specs \in Seq(Specs)
  <2>1. DOMAIN done = 1..n BY <1>6
  <2>2. ASSUME NEW i \in 1..n PROVE specs[i] \in Specs
    <3>1. PICK m \in S : m = done[i] BY <1>6
    <3>2. m \in 1..Len(moves) /\ Moved(m) \in Nat \ {0} BY <1>3
    <3>3. PICK v, k : v = moves[m] /\ k = Moved(m) OBVIOUS
    <3>4. v \in MoveRows BY <1>2, <3>2, <3>3
    <3>5. specs[i] = [demand |-> k, src |-> v.dst, dst |-> v.src] BY <1>7, <2>1, <3>1, <3>3
    <3> QED BY <3>2, <3>3, <3>4, <3>5 DEF MoveRows, Specs
  <2>3. DOMAIN specs = 1..n /\ specs = [i \in 1..n |-> specs[i]] BY <1>7, <2>1
  <2> QED BY <1>6, <2>2, <2>3
<1>9. AddPicking(0, specs) /\ UNCHANGED <<quant, req, tried, lost>>
  BY <1>1, <1>5, <1>7 DEF Return, history
<1> QED BY <1>8, <1>9

LEMMA ReturnTypes ==
  ASSUME StockTypes, NEW p \in DOMAIN pickings, Return(p) PROVE StockTypes'
<1>1. moves \in Seq(MoveRows) /\ pickings \in Seq(Nat) /\ Len(moves) \in Nat BY DEF StockTypes
<1>2. PICK specs \in Seq(Specs) : AddPicking(0, specs) /\ UNCHANGED <<quant, req, tried, lost>>
  BY ReturnIs
<1>3. AddMoves(Len(pickings) + 1, specs) /\ pickings' = Append(pickings, 0) BY <1>2 DEF AddPicking
<1>4. pickings' \in Seq(Nat) /\ Len(pickings') = Len(pickings) + 1 /\ Len(pickings) \in Nat
  BY <1>1, <1>3
<1>5. QuantTypes' /\ lost' \in [Locations -> Int] BY <1>2, SameQuant DEF StockTypes
<1>6. Len(pickings) <= Len(pickings') /\ Len(pickings) + 1 \in 0..Len(pickings') BY <1>4
<1> QED BY <1>2, <1>3, <1>4, <1>5, <1>6, AddTypes

LEMMA EndTypes ==
  ASSUME StockTypes, NEW r \in Requests, ValidateEnd(r) PROVE StockTypes'
<1>1. moves \in Seq(MoveRows) /\ pickings \in Seq(Nat) /\ Len(pickings) \in Nat BY DEF StockTypes
<1>2. PICK q : q = req[r] OBVIOUS
<1>3. q \in Calls /\ q.pick \in 0..Len(pickings) BY <1>2 DEF StockTypes, CallFits
<1>4. UNCHANGED <<quant, tried, lost>> /\ req' = [req EXCEPT ![r] = Idle] BY DEF ValidateEnd
<1>5. QuantTypes' /\ lost' \in [Locations -> Int] /\ tried \subseteq 1..Len(moves)
  BY <1>4, SameQuant DEF StockTypes
<1>6. CASE q.back /\ q.rest # <<>>
  <2>1. AddPicking(q.pick, q.rest) BY <1>2, <1>6 DEF ValidateEnd
  <2>2. AddMoves(Len(pickings) + 1, q.rest) /\ pickings' = Append(pickings, q.pick)
    BY <2>1 DEF AddPicking
  <2>3. q.rest \in Seq(Specs) /\ q.pick \in Nat BY <1>3 DEF Calls
  <2>4. pickings' \in Seq(Nat) /\ Len(pickings') = Len(pickings) + 1 BY <1>1, <2>2, <2>3
  <2>5. Len(pickings') \in Nat BY <1>1, <2>4
  <2>6. CallFits(Idle, moves', Len(pickings')) BY <2>5, IdleFits
  <2>7. Len(pickings) <= Len(pickings') /\ Len(pickings) + 1 \in 0..Len(pickings') BY <1>1, <2>4
  <2> QED BY <1>4, <1>5, <2>2, <2>3, <2>4, <2>6, <2>7, AddTypes
<1>7. CASE ~(q.back /\ q.rest # <<>>)
  <2>1. UNCHANGED <<moves, pickings>> BY <1>2, <1>7 DEF ValidateEnd
  <2>2. CallFits(Idle, moves, Len(pickings)) BY <1>1, IdleFits
  <2> QED BY <1>4, <1>5, <2>1, <2>2, TypesSame
<1> QED BY <1>6, <1>7

\* A scrap or a count begins, of n from one location to another.
Starts(r, k, n, from, to, write) ==
  \E q, ops, specs :
    /\ req' = [req EXCEPT ![r] = q] /\ req[r] = Idle /\ q = Call(k, 0, {}, ops, <<>>, FALSE)
    /\ q \in Calls /\ q.kind = k /\ q.pick = 0 /\ q.todo = {} /\ q.ops = ops
    /\ specs \in Seq(Specs) /\ AddMoves(0, specs) /\ CallFits(q, moves', Len(pickings))
    /\ UNCHANGED <<quant, pickings, tried, lost>>
    /\ OpsFit(ops, k, 0, moves') /\ ops # <<>>
    /\ ops[1].op = "line" /\ ops[1].by = n /\ ops[1].at = from /\ ops[1].to = to
    /\ \A i \in 1..Len(ops) :
         /\ ops[i].op \in {"line", "adjust", "state", "overwrite"}
         /\ ops[i].op = "overwrite" => k = "count" /\ ops[i] = write
         /\ ops[i].op = "adjust" /\ ops[i].by < 0 => ops[i].at = from /\ ops[i].by = -n

LEMMA StandaloneIs ==
  ASSUME StockTypes, NEW r \in Requests, NEW k \in {"scrap", "count"}, NEW n \in Nat \ {0},
         NEW from \in Locations, NEW to \in Locations, NEW after, NEW write \in Ops,
         write.op = "overwrite", write.move = Len(moves) + 1, write.by \in Nat,
         after = <<>> \/ (after = <<write>> /\ k = "count"), Standalone(r, k, n, from, to, after)
  PROVE  Starts(r, k, n, from, to, write)
<1>1. moves \in Seq(MoveRows) /\ Len(moves) \in Nat /\ Len(pickings) \in Nat BY DEF StockTypes
<1>2. PICK sp, specs, m, ops :
        /\ sp = [demand |-> n, src |-> from, dst |-> to] /\ specs = <<sp>> /\ m = Len(moves) + 1
        /\ ops = Alone(m, n, from, to, after)
  OBVIOUS
<1>3. sp \in Specs BY <1>2 DEF Specs
<1>4. specs \in Seq(Specs) /\ Len(specs) = 1 /\ specs[1] = sp BY <1>2, <1>3
<1>5. AddMoves(0, specs) BY <1>2 DEF Standalone
<1>6. moves' = moves \o [i \in DOMAIN specs |-> Draft(0, specs[i])] BY <1>5 DEF AddMoves
<1>7. PICK nv : nv = moves' OBVIOUS
<1>8. /\ nv \in Seq(MoveRows) /\ Len(nv) = Len(moves) + 1
      /\ \A i \in 1..Len(specs) : nv[Len(moves) + i] = Draft(0, specs[i])
  <2>1. Extended(moves, 0, specs, nv) BY <1>1, <1>4, <1>6, <1>7 DEF Extended
  <2>2. /\ nv \in Seq(MoveRows) /\ Len(nv) = Len(moves) + Len(specs)
        /\ \A i \in 1..Len(specs) : nv[Len(moves) + i] = Draft(0, specs[i])
    BY <2>1, MovesAdded
  <2> QED BY <1>4, <2>2
<1>9. m \in 1..Len(nv) /\ nv[m].src = from /\ nv[m].pick = 0
  <2>1. 1 \in 1..Len(specs) BY <1>4
  <2>2. nv[Len(moves) + 1] = Draft(0, specs[1]) BY <1>8, <2>1
  <2>3. nv[m] = Draft(0, sp) BY <1>2, <1>4, <2>2
  <2>4. Draft(0, sp).src = sp.src /\ Draft(0, sp).pick = 0 BY DEF Draft
  <2>5. m \in 1..Len(nv) BY <1>1, <1>2, <1>8
  <2> QED BY <1>2, <2>3, <2>4, <2>5
<1>10. ops = Alone(m, n, nv[m].src, to, after) BY <1>2, <1>9
<1>11. Apart(nv, m, n, to, k, after, write, ops) BY <1>2, <1>8, <1>9, <1>10 DEF Apart
<1>12. /\ OpsFit(ops, k, nv[m].pick, nv) /\ ops # <<>>
       /\ ops[1].op = "line" /\ ops[1].by = n /\ ops[1].at = nv[m].src /\ ops[1].to = to
       /\ \A i \in 1..Len(ops) :
            /\ ops[i].op \in {"line", "adjust", "state", "overwrite"}
            /\ ops[i].op = "overwrite" => k = "count" /\ ops[i] = write
            /\ ops[i].op = "adjust" /\ ops[i].by < 0 => ops[i].at = nv[m].src /\ ops[i].by = -n
  BY <1>11, AloneFits
<1>13. PICK q : q = Call(k, 0, {}, ops, <<>>, FALSE) OBVIOUS
<1>14. ops \in Seq(Ops) BY <1>12 DEF OpsFit
<1>15. q \in Calls /\ q.kind = k /\ q.pick = 0 /\ q.todo = {} /\ q.ops = ops
  <2>1. <<>> \in Seq(Specs) OBVIOUS
  <2> QED BY <1>13, <1>14, <2>1 DEF Call, Calls, Kinds
<1>16. OpsFit(ops, k, 0, nv) BY <1>9, <1>12
<1>17. CallFits(q, nv, Len(pickings)) BY <1>1, <1>15, <1>16 DEF CallFits
<1>18. Settle(q) = q BY <1>12, <1>15 DEF Settle
<1>19. req' = [req EXCEPT ![r] = q] /\ req[r] = Idle
  BY <1>2, <1>13, <1>18 DEF Standalone, Begin
<1>20. UNCHANGED <<quant, pickings, tried, lost>> BY DEF Standalone, history
<1>21. OpsFit(ops, k, 0, moves') /\ CallFits(q, moves', Len(pickings)) BY <1>7, <1>16, <1>17
<1>22. /\ ops[1].op = "line" /\ ops[1].by = n /\ ops[1].at = from /\ ops[1].to = to
       /\ \A i \in 1..Len(ops) :
            /\ ops[i].op \in {"line", "adjust", "state", "overwrite"}
            /\ ops[i].op = "overwrite" => k = "count" /\ ops[i] = write
            /\ ops[i].op = "adjust" /\ ops[i].by < 0 => ops[i].at = from /\ ops[i].by = -n
  BY ONLY <1>9, <1>12
<1>23. ops # <<>> BY <1>12
<1> QED BY ONLY <1>4, <1>5, <1>13, <1>15, <1>19, <1>20, <1>21, <1>22, <1>23 DEF Starts

LEMMA ScrapIs ==
  ASSUME StockTypes, NEW r \in Requests, NEW c \in Scraps, Scrap(r, c[1], c[2]), NEW write,
         write = Op("overwrite", Len(moves) + 1, c[1], 0, None)
  PROVE  /\ c[1] \in Internal /\ c[2] \in Nat \ {0} /\ Loss \in Outside
         /\ Starts(r, "scrap", c[2], c[1], Loss, write)
<1>1. c[1] \in Internal /\ c[2] \in Nat \ {0} /\ Loss \in Outside BY ConstantsOK
<1>2. c[1] \in Locations /\ Loss \in Locations BY <1>1 DEF Locations
<1>3. Standalone(r, "scrap", c[2], c[1], Loss, <<>>) BY DEF Scrap
<1>4. Len(moves) \in Nat BY DEF StockTypes
<1>5. write \in Ops /\ write.op = "overwrite" /\ write.move = Len(moves) + 1 /\ write.by \in Nat
  BY <1>2, <1>4 DEF Op, Ops, OpNames
<1> QED BY <1>1, <1>2, <1>3, <1>5, StandaloneIs

LEMMA CountIs ==
  ASSUME StockTypes, NEW r \in Requests, NEW c \in Counts, Count(r, c[1], c[2]), NEW write,
         write = Op("overwrite", Len(moves) + 1, c[1], c[2], None)
  PROVE  /\ c[1] \in Internal /\ c[2] \in Nat /\ Loss \in Outside
         /\ c[1] \in DOMAIN quant /\ (Orderly => \A o \in Requests : req[o] = Idle)
         /\ write \in Ops /\ write.op = "overwrite" /\ write.at = c[1] /\ write.by = c[2]
         /\ \E d \in Int \ {0} : /\ d = c[2] - OnHand(c[1])
                                 /\ \/ d > 0 /\ Starts(r, "count", d, Loss, c[1], write)
                                    \/ d < 0 /\ Starts(r, "count", -d, c[1], Loss, write)
<1>1. c[1] \in Internal /\ c[2] \in Nat /\ Loss \in Outside BY ConstantsOK
<1>2. c[1] \in Locations /\ Loss \in Locations BY <1>1 DEF Locations
<1>3. Len(moves) \in Nat /\ QuantTypes BY DEF StockTypes
<1>4. PICK d : d = c[2] - OnHand(c[1]) OBVIOUS
<1>5. d \in Int BY <1>1, <1>3, <1>4, OnHandIs
<1>6. /\ write \in Ops /\ write.op = "overwrite" /\ write.move = Len(moves) + 1 /\ write.by = c[2]
      /\ write.at = c[1]
  BY <1>1, <1>2, <1>3 DEF Op, Ops, OpNames
<1>7. \/ d > 0 /\ Standalone(r, "count", d, Loss, c[1], <<write>>)
      \/ d < 0 /\ Standalone(r, "count", -d, c[1], Loss, <<write>>)
  BY <1>4 DEF Count
<1>8. CASE d > 0 /\ Standalone(r, "count", d, Loss, c[1], <<write>>)
  <2>1. d \in Nat \ {0} /\ write.by \in Nat BY <1>1, <1>5, <1>6, <1>8
  <2>2. Starts(r, "count", d, Loss, c[1], write)
    BY <1>2, <1>6, <1>8, <2>1, StandaloneIs
  <2> QED BY <1>1, <1>4, <1>5, <1>6, <1>8, <2>1, <2>2 DEF Count
<1>9. CASE d < 0 /\ Standalone(r, "count", -d, c[1], Loss, <<write>>)
  <2>1. -d \in Nat \ {0} /\ write.by \in Nat /\ d # 0 BY <1>1, <1>5, <1>6, <1>9
  <2>2. Starts(r, "count", -d, c[1], Loss, write)
    BY <1>2, <1>6, <1>9, <2>1, StandaloneIs
  <2> QED BY <1>1, <1>4, <1>5, <1>6, <1>9, <2>1, <2>2 DEF Count
<1> QED BY <1>7, <1>8, <1>9

LEMMA StartsTypes ==
  ASSUME StockTypes, NEW r \in Requests, NEW k, NEW n, NEW from, NEW to, NEW write,
         Starts(r, k, n, from, to, write)
  PROVE  StockTypes'
<1>1. PICK q, specs : /\ req' = [req EXCEPT ![r] = q] /\ specs \in Seq(Specs) /\ AddMoves(0, specs)
                      /\ CallFits(q, moves', Len(pickings)) /\ UNCHANGED <<quant, pickings, tried, lost>>
  BY DEF Starts
<1>2. QuantTypes' /\ lost' \in [Locations -> Int] /\ pickings' \in Seq(Nat) /\ Len(pickings) \in Nat
  BY <1>1, SameQuant DEF StockTypes
<1>3. Len(pickings) <= Len(pickings') /\ 0 \in 0..Len(pickings') /\ tried' = tried BY <1>1, <1>2
<1>4. CallFits(q, moves', Len(pickings')) BY <1>1
<1> QED BY <1>1, <1>2, <1>3, <1>4, AddTypes

LEMMA TypesNext ==
  ASSUME StockTypes, [Next]_vars PROVE StockTypes'
<1>1. CASE UNCHANGED vars
  <2>1. QuantTypes /\ lost \in [Locations -> Int] /\ tried \subseteq 1..Len(moves) BY DEF StockTypes
  <2>2. QuantTypes' BY <1>1, <2>1, SameQuant DEF vars
  <2> QED BY <1>1, <2>1, <2>2, TypesSame DEF vars
<1>2. ASSUME NEW p \in DOMAIN pickings, Return(p) PROVE StockTypes' BY <1>2, ReturnTypes
<1>3. ASSUME NEW r \in Requests, NEW p \in DOMAIN pickings, NEW b \in BOOLEAN,
             ConfirmBegin(r, p) \/ CancelBegin(r, p) \/ ValidateBegin(r, p, b)
      PROVE  StockTypes'
  BY <1>3, BeginTypes
<1>4. ASSUME NEW r \in Requests, NEW m, ConfirmMove(r, m) \/ ValidateMove(r, m) \/ CancelMove(r, m)
      PROVE  StockTypes'
  BY <1>4, ConfirmTypes, ValidateTypes, CancelTypes
<1>5. ASSUME NEW r \in Requests, ValidateEnd(r) PROVE StockTypes' BY <1>5, EndTypes
<1>6. ASSUME NEW r \in Requests, NEW c \in Counts, Count(r, c[1], c[2]) PROVE StockTypes'
  BY <1>6, CountIs, StartsTypes
<1>7. ASSUME NEW r \in Requests, NEW c \in Scraps, Scrap(r, c[1], c[2]) PROVE StockTypes'
  BY <1>7, ScrapIs, StartsTypes
<1>8. ASSUME NEW r \in Requests, AddLine(r) \/ SetState(r) PROVE StockTypes' BY <1>8, EditTypes
<1>9. ASSUME NEW r \in Requests, Adjust(r) \/ Insert(r) \/ Release(r) \/ Reserve(r) \/ Overwrite(r)
      PROVE  StockTypes'
  BY <1>9, QuantityTypes
<1>10. ASSUME NEW r \in Requests, Fails(r) PROVE StockTypes' BY <1>10, FailsTypes
<1> QED BY <1>1, <1>2, <1>3, <1>4, <1>5, <1>6, <1>7, <1>8, <1>9, <1>10 DEF Next

\* Rows and calls keep to their types: every call in flight stands for moves of its transfer, in
\* an order of its transactions that the code decides on, whatever the other calls do.
THEOREM StockTypesHold == Spec => []StockTypes
<1>1. Init => StockTypes BY TypesInit
<1>2. StockTypes /\ [Next]_vars => StockTypes' BY TypesNext
<1> QED BY <1>1, <1>2, PTL DEF Spec

\* Locations, demands, states and reservations keep to their types, and none is negative but
\* quantities.
THEOREM StockTyped == Spec => []TypeOK
<1>1. StockTypes => TypeOK
  <2> SUFFICES ASSUME StockTypes PROVE TypeOK OBVIOUS
  <2>1. DOMAIN moves = 1..Len(moves) /\ moves \in Seq(MoveRows) BY DEF StockTypes
  <2>2. \A m \in DOMAIN moves : moves[m] \in MoveRows BY <2>1
  <2>3. \A m \in DOMAIN moves : /\ moves[m].demand \in Nat \ {0}
                                /\ moves[m].state \in Open \cup {"done", "cancelled"}
    BY <2>2 DEF MoveRows, States
  <2>4. \A m \in DOMAIN moves : moves[m].pick \in 0..Len(pickings) BY <2>1 DEF StockTypes
  <2>5. \A r \in Requests : req[r].pick \in 0..Len(pickings) BY DEF StockTypes, CallFits
  <2>6. DOMAIN quant \subseteq Locations BY DEF StockTypes, QuantTypes
  <2>7. \A l \in DOMAIN quant : quant[l].qty \in Int /\ quant[l].res \in Nat
    BY DEF StockTypes, QuantTypes, QuantRows
  <2> QED BY <2>3, <2>4, <2>5, <2>6, <2>7 DEF TypeOK
<1> QED BY <1>1, StockTypesHold, PTL
-----------------------------------------------------------------------------
(* What move lines carried.                                                *)

Units(v) == [i \in DOMAIN v.lines |-> v.lines[i].qty]
UnitsTo(v, l) == [i \in DOMAIN v.lines |-> IF v.lines[i].dst = l THEN v.lines[i].qty ELSE 0]
CarriedBy(v, l) == SumAll(UnitsTo(v, l)) - (IF v.src = l THEN SumAll(Units(v)) ELSE 0)
\* .. by all moves.
Total(mv, l) == SumOf([m \in 1..Len(mv) |-> CarriedBy(mv[m], l)], 1..Len(mv))

LEMMA UnitsAre ==
  ASSUME NEW v \in MoveRows, NEW l
  PROVE  /\ SumAll(Units(v)) = SumOf(Units(v), 1..Len(v.lines)) /\ SumAll(Units(v)) \in Int
         /\ SumAll(UnitsTo(v, l)) = SumOf(UnitsTo(v, l), 1..Len(v.lines)) /\ SumAll(UnitsTo(v, l)) \in Int
         /\ \A i \in 1..Len(v.lines) :
              /\ v.lines[i] \in LineRows /\ Units(v)[i] = v.lines[i].qty /\ Units(v)[i] \in Int
              /\ UnitsTo(v, l)[i] = (IF v.lines[i].dst = l THEN v.lines[i].qty ELSE 0)
              /\ UnitsTo(v, l)[i] \in Int
         /\ Len(v.lines) \in Nat
<1>1. PICK ls, n : ls = v.lines /\ n = Len(v.lines) OBVIOUS
<1>2. ls \in Seq(LineRows) BY <1>1 DEF MoveRows
<1>3. n \in Nat /\ DOMAIN ls = 1..n /\ \A i \in 1..n : ls[i] \in LineRows BY <1>1, <1>2
<1>4. \A i \in 1..n : ls[i].qty \in Int BY <1>3 DEF LineRows
<1>5. PICK f, g, S : f = Units(v) /\ g = UnitsTo(v, l) /\ S = 1..n OBVIOUS
<1>6. /\ f = [i \in 1..n |-> ls[i].qty]
      /\ g = [i \in 1..n |-> IF ls[i].dst = l THEN ls[i].qty ELSE 0]
  BY <1>1, <1>3, <1>5 DEF Units, UnitsTo
<1>7. /\ IsFiniteSet(S) /\ \A i \in S : f[i] \in Int /\ g[i] \in Int
      /\ DOMAIN f = S /\ DOMAIN g = S
      /\ \A i \in 1..n : f[i] = ls[i].qty /\ g[i] = IF ls[i].dst = l THEN ls[i].qty ELSE 0
  BY <1>3, <1>4, <1>5, <1>6, FS_Interval
<1>8. SumOf(f, S) \in Int /\ SumOf(g, S) \in Int BY ONLY <1>7, SumType
<1>9. SumAll(f) = SumOf(f, S) /\ SumAll(g) = SumOf(g, S) BY <1>7 DEF SumAll
<1> QED BY <1>1, <1>3, <1>5, <1>7, <1>8, <1>9

LEMMA CarriedInt ==
  ASSUME NEW v \in MoveRows, NEW l PROVE CarriedBy(v, l) \in Int
BY UnitsAre DEF CarriedBy

LEMMA CarriedNone ==
  ASSUME NEW v, v.lines = <<>>, NEW l PROVE CarriedBy(v, l) = 0
<1>1. DOMAIN v.lines = {} OBVIOUS
<1>2. SumAll(Units(v)) = 0 /\ SumAll(UnitsTo(v, l)) = 0
  <2>1. DOMAIN Units(v) = {} /\ DOMAIN UnitsTo(v, l) = {} BY <1>1 DEF Units, UnitsTo
  <2> QED BY <2>1, SumEmpty DEF SumAll
<1> QED BY <1>2 DEF CarriedBy

LEMMA CarriedSame ==
  ASSUME NEW v, NEW w, w.lines = v.lines, w.src = v.src, NEW l PROVE CarriedBy(w, l) = CarriedBy(v, l)
BY DEF CarriedBy, Units, UnitsTo

LEMMA CarriedMore ==
  ASSUME NEW v \in MoveRows, NEW w \in MoveRows, NEW line \in LineRows,
         w.lines = Append(v.lines, line), w.src = v.src, NEW l
  PROVE  CarriedBy(w, l) = CarriedBy(v, l) + (IF line.dst = l THEN line.qty ELSE 0)
                                           - (IF v.src = l THEN line.qty ELSE 0)
<1>1. PICK vs, ws, n : vs = v.lines /\ ws = w.lines /\ n = Len(v.lines) OBVIOUS
<1>2. vs \in Seq(LineRows) BY <1>1 DEF MoveRows
<1>3. /\ n \in Nat /\ Len(ws) = n + 1 /\ ws[n + 1] = line
      /\ \A i \in 1..n : ws[i] = vs[i]
  BY <1>1, <1>2
<1>4. PICK f, g, h, k : f = Units(v) /\ g = UnitsTo(v, l) /\ h = Units(w) /\ k = UnitsTo(w, l) OBVIOUS
<1>5. /\ SumAll(f) = SumOf(f, 1..n) /\ SumAll(g) = SumOf(g, 1..n) /\ SumAll(f) \in Int
      /\ SumAll(g) \in Int
      /\ \A i \in 1..n : /\ f[i] = vs[i].qty /\ f[i] \in Int
                         /\ g[i] = (IF vs[i].dst = l THEN vs[i].qty ELSE 0) /\ g[i] \in Int
  BY <1>1, <1>4, UnitsAre
<1>6. /\ SumAll(h) = SumOf(h, 1..(n + 1)) /\ SumAll(k) = SumOf(k, 1..(n + 1))
      /\ \A i \in 1..(n + 1) : /\ h[i] = ws[i].qty /\ h[i] \in Int
                               /\ k[i] = (IF ws[i].dst = l THEN ws[i].qty ELSE 0) /\ k[i] \in Int
  <2>1. PICK x : x = Len(w.lines) OBVIOUS
  <2>2. /\ SumAll(h) = SumOf(h, 1..x) /\ SumAll(k) = SumOf(k, 1..x)
        /\ \A i \in 1..x : /\ h[i] = ws[i].qty /\ h[i] \in Int
                           /\ k[i] = (IF ws[i].dst = l THEN ws[i].qty ELSE 0) /\ k[i] \in Int
    BY ONLY w \in MoveRows, <1>1, <1>4, <2>1, UnitsAre
  <2>3. x = n + 1 BY <1>1, <1>3, <2>1
  <2> QED BY ONLY <2>2, <2>3
<1>7. /\ n + 1 \in 1..(n + 1) /\ 1..n \subseteq 1..(n + 1) BY <1>3
<1>8. /\ \A i \in 1..n : f[i] \in Int /\ h[i] = f[i]
      /\ h[n + 1] = line.qty /\ h[n + 1] \in Int
  BY <1>3, <1>5, <1>6, <1>7
<1>9. /\ \A i \in 1..n : g[i] \in Int /\ k[i] = g[i]
      /\ k[n + 1] = (IF line.dst = l THEN line.qty ELSE 0) /\ k[n + 1] \in Int
  BY <1>3, <1>5, <1>6, <1>7
<1>10. SumOf(h, 1..(n + 1)) = SumOf(f, 1..n) + h[n + 1] BY ONLY <1>3, <1>8, SumLast
<1>11. SumOf(k, 1..(n + 1)) = SumOf(g, 1..n) + k[n + 1] BY ONLY <1>3, <1>9, SumLast
<1>12. line.qty \in Int BY DEF LineRows
<1>13. SumAll(h) = SumAll(f) + line.qty /\ SumAll(k) = SumAll(g) + (IF line.dst = l THEN line.qty ELSE 0)
  BY <1>5, <1>6, <1>8, <1>9, <1>10, <1>11
<1> QED BY <1>4, <1>5, <1>12, <1>13 DEF CarriedBy

LEMMA TotalIs ==
  ASSUME NEW mv \in Seq(MoveRows), NEW l
  PROVE  /\ Total(mv, l) \in Int
         /\ \A m \in 1..Len(mv) : CarriedBy(mv[m], l) \in Int
<1>1. PICK f, S : f = [m \in 1..Len(mv) |-> CarriedBy(mv[m], l)] /\ S = 1..Len(mv) OBVIOUS
<1>2. \A m \in 1..Len(mv) : CarriedBy(mv[m], l) \in Int BY CarriedInt
<1>3. IsFiniteSet(S) /\ \A m \in S : f[m] \in Int BY <1>1, <1>2, FS_Interval
<1>4. SumOf(f, S) \in Int BY ONLY <1>3, SumType
<1> QED BY <1>1, <1>2, <1>4 DEF Total

LEMMA TotalEdited ==
  ASSUME NEW mv, NEW m, NEW row, NEW nv, Edited(mv, m, row, nv), NEW l
  PROVE  Total(nv, l) = Total(mv, l) + CarriedBy(row, l) - CarriedBy(mv[m], l)
<1>1. /\ nv \in Seq(MoveRows) /\ Len(nv) = Len(mv) /\ m \in 1..Len(mv) /\ nv[m] = row
      /\ \A x \in 1..Len(mv) : x # m => nv[x] = mv[x]
      /\ mv \in Seq(MoveRows) /\ Len(mv) \in Nat
  BY MoveEdited DEF Edited
<1>2. PICK f, h, S, n : /\ n = Len(mv) /\ f = [x \in 1..n |-> CarriedBy(mv[x], l)] /\ S = 1..n
                        /\ h = [x \in 1..n |-> CarriedBy(nv[x], l)]
  OBVIOUS
<1>3. n \in Nat /\ Len(nv) = n /\ Len(mv) = n BY <1>1, <1>2
<1>4. /\ \A x \in 1..n : CarriedBy(mv[x], l) \in Int
      /\ \A x \in 1..n : CarriedBy(nv[x], l) \in Int
  BY <1>1, <1>3, TotalIs
<1>5. IsFiniteSet(S) BY <1>2, <1>3, FS_Interval
<1>6. /\ m \in S /\ \A x \in S : f[x] \in Int /\ h[x] \in Int
      /\ \A x \in S \ {m} : f[x] = h[x]
  BY <1>1, <1>2, <1>3, <1>4
<1>7. SumOf(h, S) = SumOf(f, S) + h[m] - f[m] BY ONLY <1>5, <1>6, SumChange
<1>8. Total(nv, l) = SumOf(h, S) /\ Total(mv, l) = SumOf(f, S) BY <1>2, <1>3 DEF Total
<1>9. h[m] = CarriedBy(row, l) /\ f[m] = CarriedBy(mv[m], l) BY <1>1, <1>2, <1>3
<1> QED BY <1>7, <1>8, <1>9

LEMMA TotalExtended ==
  ASSUME NEW mv, NEW p, NEW specs, NEW nv, Extended(mv, p, specs, nv), NEW l
  PROVE  Total(nv, l) = Total(mv, l)
<1>1. PICK n, k : n = Len(mv) /\ k = Len(nv) OBVIOUS
<1>2. /\ nv \in Seq(MoveRows) /\ mv \in Seq(MoveRows) /\ n \in Nat /\ k \in Nat /\ n <= k
      /\ \A m \in 1..n : nv[m] = mv[m]
      /\ \A m \in 1..k : m \notin 1..n => nv[m].lines = <<>>
  <2>1. mv \in Seq(MoveRows) BY DEF Extended
  <2>2. /\ nv \in Seq(MoveRows) /\ k = n + Len(specs) /\ n \in Nat /\ Len(specs) \in Nat
        /\ \A m \in 1..n : nv[m] = mv[m]
        /\ \A m \in 1..k : m \notin 1..n => nv[m].lines = <<>>
    BY <1>1, MovesAdded
  <2> QED BY ONLY <2>1, <2>2
<1>3. PICK f, h, S, N : /\ f = [x \in 1..n |-> CarriedBy(mv[x], l)] /\ S = 1..n
                        /\ h = [x \in 1..k |-> CarriedBy(nv[x], l)] /\ N = (1..k) \ S
  OBVIOUS
<1>4. IsFiniteSet(S) /\ IsFiniteSet(1..k) /\ S \cup N = 1..k /\ S \cap N = {}
  <2>1. IsFiniteSet(1..n) /\ IsFiniteSet(1..k) BY <1>2, FS_Interval
  <2>2. 1..n \subseteq 1..k BY <1>2
  <2> QED BY <1>3, <2>1, <2>2
<1>5. IsFiniteSet(N)
  <2>1. N \in SUBSET (1..k) BY <1>3
  <2> QED BY <1>4, <2>1, FS_Subset
<1>6. \A x \in N : h[x] = 0
  <2> TAKE x \in N
  <2>1. x \in 1..k /\ nv[x].lines = <<>> BY <1>2, <1>3
  <2> QED BY <1>3, <2>1, CarriedNone
<1>7. \A x \in S : f[x] \in Int /\ h[x] = f[x]
  <2>1. \A x \in 1..n : CarriedBy(mv[x], l) \in Int BY <1>1, <1>2, TotalIs
  <2>2. 1..n \subseteq 1..k BY <1>2
  <2> QED BY <1>2, <1>3, <2>1, <2>2
<1>8. SumOf(h, N) = 0 BY ONLY <1>5, <1>6, SumZero
<1>9. SumOf(h, S) = SumOf(f, S) BY ONLY <1>4, <1>7, SumSame
<1>10. SumOf(f, S) \in Int BY ONLY <1>4, <1>7, SumType
<1>11. SumOf(h, S \cup N) = SumOf(h, S) + SumOf(h, N)
  <2>1. \A x \in S \cup N : h[x] \in Int BY <1>6, <1>7
  <2> QED BY ONLY <1>4, <1>5, <2>1, SumUnion
<1>12. Total(mv, l) = SumOf(f, S) /\ Total(nv, l) = SumOf(h, S \cup N)
  BY <1>1, <1>3, <1>4 DEF Total
<1> QED BY <1>8, <1>9, <1>10, <1>11, <1>12
-----------------------------------------------------------------------------
(* What calls owe to the lines.                                            *)

LEMMA DueIs ==
  ASSUME NEW ops, NEW k, NEW p, NEW mv, OpsFit(ops, k, p, mv), NEW l
  PROVE  /\ Due(ops, l) \in Int /\ Plan(ops, l) \in Int
         /\ ops = <<>> => Due(ops, l) = 0
         /\ ops # <<>> /\ ops[1].op = "line" => Due(ops, l) = 0
         /\ ops # <<>> /\ ops[1].op # "line" => Due(ops, l) = Plan(ops, l)
<1>1. ops \in Seq(Ops) BY DEF OpsFit
<1>2. PICK n : n = Len(ops) OBVIOUS
<1>3. DOMAIN ops = 1..n /\ n \in Nat /\ (ops # <<>> => 1 \in 1..n) BY <1>1, <1>2
<1>4. \A i \in 1..n : ops[i].op = "line" => i = 1 BY <1>2 DEF OpsFit, Ordered
<1>5. Plan(ops, l) \in Int BY <1>1, PlanIs
<1>6. ops = <<>> => Plan(ops, l) = 0 BY PlanEmpty
<1>7. ops # <<>> /\ ops[1].op # "line" => ~\E i \in DOMAIN ops : ops[i].op = "line" BY <1>3, <1>4
<1>8. ops # <<>> /\ ops[1].op = "line" => \E i \in DOMAIN ops : ops[i].op = "line" BY <1>3
<1> QED BY <1>5, <1>6, <1>7, <1>8 DEF Due

\* .. once the first transaction is done.
LEMMA DueTail ==
  ASSUME NEW ops, NEW k, NEW p, NEW mv, OpsFit(ops, k, p, mv), ops # <<>>, NEW l
  PROVE  /\ Due(Tail(ops), l) = Plan(ops, l) - Change(ops[1], l)
         /\ Plan(Tail(ops), l) = Plan(ops, l) - Change(ops[1], l) /\ Change(ops[1], l) \in Int
<1>1. ops \in Seq(Ops) BY DEF OpsFit
<1>2. PICK t, n : t = Tail(ops) /\ n = Len(ops) OBVIOUS
<1>3. /\ t \in Seq(Ops) /\ Len(t) = n - 1 /\ n \in Nat \ {0} /\ ops[1] \in Ops
      /\ \A i \in 1..(n - 1) : t[i] = ops[i + 1] /\ i + 1 \in 1..n /\ i + 1 # 1
  BY <1>1, <1>2, Tails
<1>4. DOMAIN t = 1..(n - 1) BY <1>3
<1>5. \A i \in 1..n : ops[i].op = "line" => i = 1 BY <1>2 DEF OpsFit, Ordered
<1>6. ~\E i \in DOMAIN t : t[i].op = "line" BY <1>3, <1>4, <1>5
<1>7. Due(t, l) = Plan(t, l) BY <1>6 DEF Due
<1>8. Plan(ops, l) = Change(ops[1], l) + Plan(t, l) BY <1>1, <1>2, PlanTail
<1>9. Change(ops[1], l) \in Int BY <1>3 DEF Change, Ops
<1>10. Plan(t, l) \in Int BY <1>3, PlanIs
<1> QED BY <1>2, <1>7, <1>8, <1>9, <1>10

DueSum(l) == SumOf([r \in Requests |-> Due(req[r].ops, l)], Requests)

LEMMA DueSumIs ==
  ASSUME StockTypes, NEW l
  PROVE  DueSum(l) \in Int /\ \A r \in Requests : Due(req[r].ops, l) \in Int
<1>1. \A r \in Requests : Due(req[r].ops, l) \in Int
  <2> TAKE r \in Requests
  <2>1. CallFits(req[r], moves, Len(pickings)) BY DEF StockTypes
  <2>2. OpsFit(req[r].ops, req[r].kind, req[r].pick, moves) BY <2>1 DEF CallFits
  <2> QED BY <2>2, DueIs
<1>2. PICK f, S : f = [r \in Requests |-> Due(req[r].ops, l)] /\ S = Requests BY ZenonT(60)
<1>3. IsFiniteSet(S) /\ \A r \in S : f[r] \in Int BY <1>1, <1>2, ConstantsOK
<1>4. SumOf(f, S) \in Int BY ONLY <1>3, SumType
<1> QED BY <1>1, <1>2, <1>4 DEF DueSum

LEMMA DueSumNext ==
  ASSUME StockTypes', NEW l
  PROVE  DueSum(l)' \in Int
<1>1. \A r \in Requests : Due(req'[r].ops, l) \in Int
  <2> TAKE r \in Requests
  <2>1. CallFits(req'[r], moves', Len(pickings')) BY DEF StockTypes
  <2>2. OpsFit(req'[r].ops, req'[r].kind, req'[r].pick, moves') BY <2>1 DEF CallFits
  <2> QED BY <2>2, DueIs
<1>2. PICK f, S : f = [r \in Requests |-> Due(req'[r].ops, l)] /\ S = Requests BY ZenonT(60)
<1>3. IsFiniteSet(S) /\ \A r \in S : f[r] \in Int BY <1>1, <1>2, ConstantsOK
<1>4. SumOf(f, S) \in Int BY ONLY <1>3, SumType
<1> QED BY <1>2, <1>4 DEF DueSum

\* A call turns into another.
LEMMA DueTurn ==
  ASSUME StockTypes, StockTypes', NEW r \in Requests, NEW q, req' = [req EXCEPT ![r] = q], NEW l
  PROVE  DueSum(l)' = DueSum(l) + Due(q.ops, l) - Due(req[r].ops, l)
<1>1. req \in [Requests -> Calls] BY DEF StockTypes
<1>2. \A o \in Requests : req'[o] = IF o = r THEN q ELSE req[o] BY <1>1
<1>3. PICK f, h, S : /\ f = [o \in Requests |-> Due(req[o].ops, l)] /\ S = Requests
                     /\ h = [o \in Requests |-> Due(req'[o].ops, l)]
  OBVIOUS
<1>4. \A o \in Requests : Due(req[o].ops, l) \in Int BY DueSumIs
<1>5. \A o \in Requests : Due(req'[o].ops, l) \in Int
  <2> TAKE o \in Requests
  <2>1. CallFits(req'[o], moves', Len(pickings')) BY DEF StockTypes
  <2>2. OpsFit(req'[o].ops, req'[o].kind, req'[o].pick, moves') BY <2>1 DEF CallFits
  <2> QED BY <2>2, DueIs
<1>6. /\ IsFiniteSet(S) /\ r \in S /\ \A o \in S : f[o] \in Int /\ h[o] \in Int
      /\ \A o \in S \ {r} : f[o] = h[o]
  BY <1>2, <1>3, <1>4, <1>5, ConstantsOK
<1>7. SumOf(h, S) = SumOf(f, S) + h[r] - f[r] BY ONLY <1>6, SumChange
<1>8. DueSum(l) = SumOf(f, S) BY <1>3 DEF DueSum
<1>9. DueSum(l)' = SumOf(h, S) BY <1>3 DEF DueSum
<1>10. h[r] = Due(q.ops, l) /\ f[r] = Due(req[r].ops, l) BY <1>2, <1>3
<1> QED BY <1>7, <1>8, <1>9, <1>10

LEMMA SettleOps ==
  ASSUME NEW q PROVE Settle(q).ops = q.ops
BY DEF Settle, Idle, Call

\* A call that has not taken up other moves.
Goes(r, q) ==
  /\ req' = [req EXCEPT ![r] = q] /\ q.todo = req[r].todo
  /\ q = Idle \/ (q.kind = req[r].kind /\ q.pick = req[r].pick)

\* What a call has to do once its next transaction is done.
LEMMA DoneOps ==
  ASSUME StockTypes, NEW r \in Requests, NEW more, Done(r, more)
  PROVE  \E q : Goes(r, q) /\ q.ops = more \o Tail(req[r].ops)
<1>1. PICK t, s : t = more \o Tail(req[r].ops) /\ s = [req[r] EXCEPT !.ops = t] OBVIOUS
<1>2. req[r] \in Calls BY DEF StockTypes
<1>3. s.ops = t /\ s.todo = req[r].todo /\ s.kind = req[r].kind /\ s.pick = req[r].pick
  BY <1>1, <1>2 DEF Calls
<1>4. req' = [req EXCEPT ![r] = Settle(s)] BY <1>1 DEF Done
<1>5. Settle(s).todo = s.todo /\ (Settle(s) = Idle \/ Settle(s) = s) BY DEF Settle, Idle, Call
<1>6. Goes(r, Settle(s)) BY <1>3, <1>4, <1>5 DEF Goes
<1> QED BY <1>1, <1>3, <1>6, SettleOps, ZenonT(60)
-----------------------------------------------------------------------------
(* The ledger.                                                             *)

Base(l) == IF l \in DOMAIN Stocked THEN Stocked[l] ELSE 0
LedgerInv ==
  \A l \in Locations : OnHand(l) = Base(l) + Total(moves, l) - lost[l] - DueSum(l)

LEMMA LedgerIs ==
  ASSUME StockTypes PROVE LedgerInv <=> StockLedger
<1>1. DOMAIN moves = 1..Len(moves) BY DEF StockTypes
<1>2. ASSUME NEW l PROVE SumAll([m \in DOMAIN moves |-> Carried(m, l)]) = Total(moves, l)
  <2>1. \A m : Carried(m, l) = CarriedBy(moves[m], l)
    BY DEF Carried, CarriedBy, Moved, Units, UnitsTo
  <2>2. [m \in DOMAIN moves |-> Carried(m, l)] = [m \in 1..Len(moves) |-> CarriedBy(moves[m], l)]
    BY <1>1, <2>1
  <2>3. DOMAIN [m \in 1..Len(moves) |-> CarriedBy(moves[m], l)] = 1..Len(moves) OBVIOUS
  <2> QED BY <2>2, <2>3 DEF SumAll, Total
<1>3. ASSUME NEW l PROVE SumAll([r \in Requests |-> Due(req[r].ops, l)]) = DueSum(l)
  <2>1. DOMAIN [r \in Requests |-> Due(req[r].ops, l)] = Requests OBVIOUS
  <2> QED BY <2>1 DEF SumAll, DueSum
<1> QED BY <1>2, <1>3 DEF LedgerInv, StockLedger, Base

LEMMA BaseInt ==
  ASSUME NEW l PROVE Base(l) \in Int
BY ConstantsOK DEF Base

\* The ledger stays exact when what a step does on both sides is the same.
LEMMA LedgerStep ==
  ASSUME StockTypes, StockTypes', LedgerInv,
         \A l \in Locations : OnHand(l)' - OnHand(l) =
            (Total(moves', l) - Total(moves, l)) - (lost'[l] - lost[l]) - (DueSum(l)' - DueSum(l))
  PROVE  LedgerInv'
<1> SUFFICES ASSUME NEW l \in Locations
             PROVE  OnHand(l)' = Base(l) + Total(moves', l) - lost'[l] - DueSum(l)'
  BY DEF LedgerInv
<1>1. QuantTypes /\ QuantTypes' /\ moves \in Seq(MoveRows) /\ moves' \in Seq(MoveRows) BY DEF StockTypes
<1>2. OnHand(l) \in Int BY <1>1, OnHandIs
<1>3. OnHand(l)' \in Int BY <1>1, OnHandNext
<1>4. Total(moves, l) \in Int /\ Total(moves', l) \in Int BY <1>1, TotalIs
<1>5. lost[l] \in Int /\ lost'[l] \in Int BY DEF StockTypes
<1>6. DueSum(l) \in Int BY DueSumIs
<1>7. DueSum(l)' \in Int BY DueSumNext
<1>8. OnHand(l) = Base(l) + Total(moves, l) - lost[l] - DueSum(l) BY DEF LedgerInv
<1> QED BY <1>2, <1>3, <1>4, <1>5, <1>6, <1>7, <1>8, BaseInt
-----------------------------------------------------------------------------
(* What each transaction does to the quantities and to its call.           *)

LEMMA DoneTail ==
  ASSUME StockTypes, NEW r \in Requests, req[r].ops # <<>>, Done(r, <<>>)
  PROVE  \E q : Goes(r, q) /\ q.ops = Tail(req[r].ops)
<1>1. PICK q : Goes(r, q) /\ q.ops = <<>> \o Tail(req[r].ops) BY DoneOps
<1>2. <<>> \o Tail(req[r].ops) = Tail(req[r].ops) BY HeadOf
<1>3. q.ops = Tail(req[r].ops) BY ONLY <1>1, <1>2
<1> QED BY ONLY <1>1, <1>3

LEMMA AdjustStep ==
  ASSUME StockTypes, NEW r \in Requests, NEW ops, NEW o, ops = req[r].ops, o = ops[1], Adjust(r)
  PROVE  /\ ops # <<>> /\ o.op = "adjust" /\ UNCHANGED <<moves, pickings, tried, lost>>
         /\ \E q : /\ Goes(r, q)
                   /\ \/ /\ q.ops = Tail(ops) /\ o.at \in DOMAIN quant /\ DOMAIN quant' = DOMAIN quant
                         /\ \A l : OnHand(l)' = OnHand(l) + Change(o, l) /\ Reserved(l)' = Reserved(l)
                      \/ /\ q.ops = <<[o EXCEPT !.op = "insert"]>> \o Tail(ops)
                         /\ o.at \notin DOMAIN quant /\ quant' = quant
<1>1. ops # <<>> /\ Head(ops).op = "adjust" BY DEF Adjust, Next1
<1>2. Head(ops) = o /\ o \in Ops /\ <<>> \o Tail(ops) = Tail(ops) BY <1>1, HeadOf
<1>3. o.at \in Locations /\ o.by \in Int BY <1>2 DEF Ops
<1>4. QuantTypes BY DEF StockTypes
<1>5. UNCHANGED <<moves, pickings, tried, lost>> BY DEF Adjust, history
<1>6. CASE o.at \in DOMAIN quant
  <2>1. quant' = [quant EXCEPT ![o.at].qty = @ + o.by] /\ Done(r, <<>>) BY <1>2, <1>6 DEF Adjust
  <2>2. PICK q : Goes(r, q) /\ q.ops = Tail(ops) BY <1>1, <2>1, DoneTail
  <2>3. DOMAIN quant' = DOMAIN quant
        /\ \A l : OnHand(l)' = OnHand(l) + (IF l = o.at THEN o.by ELSE 0) /\ Reserved(l)' = Reserved(l)
    BY <1>3, <1>4, <1>6, <2>1, QuantAdjusted
  <2>4. \A l : Change(o, l) = IF l = o.at THEN o.by ELSE 0 BY <1>1, <1>2 DEF Change
  <2>5. \A l : OnHand(l)' = OnHand(l) + Change(o, l) /\ Reserved(l)' = Reserved(l) BY <2>3, <2>4
  <2> QED BY <1>1, <1>2, <1>5, <1>6, <2>2, <2>3, <2>5
<1>7. CASE o.at \notin DOMAIN quant
  <2>1. quant' = quant /\ Done(r, <<[o EXCEPT !.op = "insert"]>>) BY <1>2, <1>7 DEF Adjust
  <2>2. PICK q : Goes(r, q) /\ q.ops = <<[o EXCEPT !.op = "insert"]>> \o Tail(ops)
    BY <2>1, DoneOps
  <2> QED BY <1>1, <1>2, <1>5, <1>7, <2>1, <2>2
<1> QED BY <1>6, <1>7

LEMMA InsertStep ==
  ASSUME StockTypes, NEW r \in Requests, NEW ops, NEW o, ops = req[r].ops, o = ops[1], Insert(r)
  PROVE  /\ ops # <<>> /\ o.op = "insert" /\ UNCHANGED <<moves, pickings, tried>>
         /\ \/ Stop(r) /\ quant' = quant
            \/ /\ lost' = lost /\ o.at \notin DOMAIN quant /\ DOMAIN quant' = DOMAIN quant \cup {o.at}
               /\ \A l : OnHand(l)' = OnHand(l) + Change(o, l) /\ Reserved(l)' = Reserved(l)
               /\ \E q : Goes(r, q) /\ q.ops = Tail(ops)
<1>1. ops # <<>> /\ Head(ops).op = "insert" BY DEF Insert, Next1
<1>2. Head(ops) = o /\ o \in Ops /\ <<>> \o Tail(ops) = Tail(ops) BY <1>1, HeadOf
<1>3. o.at \in Locations /\ o.by \in Int BY <1>2 DEF Ops
<1>4. QuantTypes BY DEF StockTypes
<1>5. UNCHANGED <<moves, pickings, tried>> BY DEF Insert
<1>6. CASE o.at \in DOMAIN quant
  <2>1. Stop(r) /\ quant' = quant BY <1>2, <1>6 DEF Insert
  <2> QED BY <1>1, <1>2, <1>5, <2>1
<1>7. CASE o.at \notin DOMAIN quant
  <2>1. /\ quant' = [l \in DOMAIN quant \cup {o.at} |->
                       IF l = o.at THEN [qty |-> o.by, res |-> 0] ELSE quant[l]]
        /\ Done(r, <<>>) /\ lost' = lost
    BY <1>2, <1>7 DEF Insert
  <2>2. PICK q : Goes(r, q) /\ q.ops = Tail(ops) BY <1>1, <2>1, DoneTail
  <2>3. /\ DOMAIN quant' = DOMAIN quant \cup {o.at}
        /\ \A l : OnHand(l)' = OnHand(l) + (IF l = o.at THEN o.by ELSE 0) /\ Reserved(l)' = Reserved(l)
    BY <1>3, <1>4, <1>7, <2>1, QuantInserted
  <2>4. \A l : Change(o, l) = IF l = o.at THEN o.by ELSE 0 BY <1>1, <1>2 DEF Change
  <2>5. \A l : OnHand(l)' = OnHand(l) + Change(o, l) /\ Reserved(l)' = Reserved(l) BY <2>3, <2>4
  <2> QED BY <1>1, <1>2, <1>5, <1>7, <2>1, <2>2, <2>3, <2>5
<1> QED BY <1>6, <1>7

LEMMA ReleaseStep ==
  ASSUME StockTypes, NEW r \in Requests, NEW ops, NEW o, ops = req[r].ops, o = ops[1], Release(r)
  PROVE  /\ ops # <<>> /\ o.op = "release" /\ UNCHANGED <<moves, pickings, tried, lost>>
         /\ o.by \in Nat /\ DOMAIN quant' = DOMAIN quant
         /\ \A l : /\ OnHand(l)' = OnHand(l) /\ Change(o, l) = 0
                   /\ Reserved(l)' = IF l = o.at THEN Most(0, Reserved(l) - o.by) ELSE Reserved(l)
         /\ \E q : Goes(r, q) /\ q.ops = Tail(ops)
<1>1. ops # <<>> /\ Head(ops).op = "release" BY DEF Release, Next1
<1>2. Head(ops) = o /\ OpFits(o, moves) /\ <<>> \o Tail(ops) = Tail(ops) BY <1>1, HeadOf
<1>3. o.by \in Nat BY <1>1, <1>2 DEF OpFits
<1>4. QuantTypes BY DEF StockTypes
<1>5. /\ UNCHANGED <<moves, pickings, tried, lost>> /\ Done(r, <<>>)
      /\ quant' = [l \in DOMAIN quant |->
                     IF l = o.at THEN [quant[l] EXCEPT !.res = Most(0, @ - o.by)] ELSE quant[l]]
  BY <1>2 DEF Release, history
<1>6. PICK q : Goes(r, q) /\ q.ops = Tail(ops) BY <1>1, <1>5, DoneTail
<1>7. /\ DOMAIN quant' = DOMAIN quant
      /\ \A l : /\ OnHand(l)' = OnHand(l)
                /\ Reserved(l)' = IF l = o.at THEN Most(0, Reserved(l) - o.by) ELSE Reserved(l)
  BY <1>3, <1>4, <1>5, QuantReleased
<1>8. \A l : Change(o, l) = 0 BY <1>1, <1>2 DEF Change
<1> QED BY <1>1, <1>2, <1>3, <1>5, <1>6, <1>7, <1>8

\* What is left to do once move m was reserved for.
Resolves(r, m) ==
  \E q, s : /\ Goes(r, q) /\ q.ops = <<s>> /\ s \in Ops /\ s.op = "state" /\ s.move = m
            /\ s.to \in Open /\ \A l : Plan(<<s>>, l) = 0

LEMMA ReserveStep ==
  ASSUME StockTypes, NEW r \in Requests, NEW ops, NEW o, ops = req[r].ops, o = ops[1], Reserve(r)
  PROVE  /\ ops # <<>> /\ o.op = "reserve" /\ UNCHANGED <<moves, pickings, lost>>
         /\ tried' = tried \cup {o.move} /\ DOMAIN quant' = DOMAIN quant
         /\ o.by \in Nat /\ req[r].kind = "confirm"
         /\ \A l : OnHand(l)' = OnHand(l) /\ Change(o, l) = 0 /\ Plan(ops, l) = 0
         /\ \E take \in 0..o.by : \A l : Reserved(l)' = Reserved(l) + (IF l = o.at THEN take ELSE 0)
         /\ Resolves(r, o.move)
<1>1. ops # <<>> /\ Head(ops).op = "reserve" BY DEF Reserve, Next1
<1>2. /\ Head(ops) = o /\ OpFits(o, moves) /\ o \in Ops /\ Tail(ops) = <<>> /\ req[r].kind = "confirm"
      /\ OpsFit(ops, req[r].kind, req[r].pick, moves)
  BY <1>1, HeadOf
<1>3. o.by \in Nat /\ o.move \in Nat /\ o.at \in Locations BY <1>1, <1>2 DEF OpFits, Ops
<1>4. QuantTypes BY DEF StockTypes
<1>5. PICK take, s : /\ take = Least(o.by, Most(0, OnHand(o.at) - Reserved(o.at)))
                     /\ s = Op("state", o.move, o.at, 0, IF take = 0 THEN "waiting"
                                                        ELSE IF take < o.by THEN "confirmed" ELSE "ready")
  OBVIOUS
<1>6. /\ UNCHANGED <<moves, pickings, lost>> /\ Done(r, <<s>>) /\ tried' = tried \cup {o.move}
      /\ quant' = IF take = 0 THEN quant ELSE [quant EXCEPT ![o.at].res = @ + take]
  BY <1>2, <1>5, ZenonT(60) DEF Reserve, history
<1>7. OnHand(o.at) \in Int /\ Reserved(o.at) \in Nat BY <1>4, OnHandIs
<1>8. take \in Nat /\ take \in 0..o.by /\ (take > 0 => OnHand(o.at) - Reserved(o.at) > 0)
  <2>1. PICK x, y, n : x = OnHand(o.at) /\ y = Reserved(o.at) /\ n = o.by OBVIOUS
  <2>2. x \in Int /\ y \in Nat /\ n \in Nat /\ take = Least(n, Most(0, x - y))
    BY <1>3, <1>5, <1>7, <2>1
  <2>3. take \in Nat /\ take \in 0..n /\ (take > 0 => x - y > 0) BY ONLY <2>2 DEF Least, Most
  <2> QED BY <2>1, <2>3
<1>9. /\ DOMAIN quant' = DOMAIN quant
      /\ \A l : /\ OnHand(l)' = OnHand(l)
                /\ Reserved(l)' = Reserved(l) + (IF l = o.at THEN take ELSE 0)
  BY <1>4, <1>6, <1>8, QuantReserved, ZenonT(60)
<1>10. s \in Ops /\ s.op = "state" /\ s.move = o.move /\ s.to \in Open
  BY <1>3, <1>5 DEF Op, Ops, OpNames, States, Open
<1>11. PICK q : Goes(r, q) /\ q.ops = <<s>>
  <2>1. PICK q : Goes(r, q) /\ q.ops = <<s>> \o Tail(ops) BY <1>6, DoneOps
  <2>2. <<s>> \in Seq(Ops) BY <1>10
  <2>3. <<s>> \o Tail(ops) = <<s>> BY <1>2, <2>2, Nothing
  <2> QED BY <2>1, <2>3
<1>12. ASSUME NEW l PROVE Change(o, l) = 0 /\ Plan(ops, l) = 0 /\ Plan(<<s>>, l) = 0
  <2>1. Change(o, l) = 0 /\ Change(s, l) = 0 BY <1>1, <1>2, <1>10 DEF Change
  <2>2. Plan(<<s>>, l) = 0 BY <1>10, <2>1, PlanOne
  <2>3. ops \in Seq(Ops) BY <1>2 DEF OpsFit
  <2>4. Plan(ops, l) = Change(o, l) + Plan(Tail(ops), l) BY <1>1, <2>3, PlanTail
  <2>5. Plan(Tail(ops), l) = 0 BY <1>2, PlanEmpty
  <2> QED BY <2>1, <2>2, <2>4, <2>5
<1>13. /\ ops # <<>> /\ o.op = "reserve" /\ UNCHANGED <<moves, pickings, lost>>
       /\ tried' = tried \cup {o.move} /\ o.by \in Nat /\ req[r].kind = "confirm"
  BY ONLY <1>1, <1>2, <1>3, <1>6
<1>14. \A l : OnHand(l)' = OnHand(l) /\ Change(o, l) = 0 /\ Plan(ops, l) = 0 BY ONLY <1>9, <1>12
<1>15. \E x \in 0..o.by : \A l : Reserved(l)' = Reserved(l) + (IF l = o.at THEN x ELSE 0)
  BY ONLY <1>8, <1>9
<1>16. Resolves(r, o.move) BY ONLY <1>10, <1>11, <1>12 DEF Resolves
<1> QED BY ONLY <1>9, <1>13, <1>14, <1>15, <1>16

LEMMA OverwriteStep ==
  ASSUME StockTypes, NEW r \in Requests, NEW ops, NEW o, ops = req[r].ops, o = ops[1], Overwrite(r)
  PROVE  /\ ops # <<>> /\ o.op = "overwrite" /\ UNCHANGED <<moves, pickings, tried, lost>>
         /\ o.by \in Nat /\ req[r].kind = "count" /\ DOMAIN quant' = DOMAIN quant
         /\ \A l : /\ OnHand(l)' = IF l = o.at /\ o.at \in DOMAIN quant THEN o.by ELSE OnHand(l)
                   /\ Reserved(l)' = Reserved(l) /\ Change(o, l) = 0
         /\ Tail(ops) = <<>>
         /\ \E q : Goes(r, q) /\ q.ops = Tail(ops)
<1>1. ops # <<>> /\ Head(ops).op = "overwrite" BY DEF Overwrite, Next1
<1>2. /\ Head(ops) = o /\ OpFits(o, moves) /\ <<>> \o Tail(ops) = Tail(ops) /\ req[r].kind = "count"
      /\ OpsFit(ops, req[r].kind, req[r].pick, moves)
  BY <1>1, HeadOf
<1>3. o.by \in Nat BY <1>1, <1>2 DEF OpFits
<1>4. QuantTypes BY DEF StockTypes
<1>5. /\ UNCHANGED <<moves, pickings, tried, lost>> /\ Done(r, <<>>)
      /\ quant' = [quant EXCEPT ![o.at].qty = o.by]
  BY <1>2 DEF Overwrite, history
<1>6. PICK q : Goes(r, q) /\ q.ops = Tail(ops) BY <1>1, <1>5, DoneTail
<1>7. /\ DOMAIN quant' = DOMAIN quant
      /\ \A l : /\ OnHand(l)' = IF l = o.at /\ o.at \in DOMAIN quant THEN o.by ELSE OnHand(l)
                /\ Reserved(l)' = Reserved(l)
  BY <1>3, <1>4, <1>5, QuantOverwritten
<1>8. \A l : Change(o, l) = 0 BY <1>1, <1>2 DEF Change
<1>9. Tail(ops) = <<>>
  <2>1. PICK t, n : t = Tail(ops) /\ n = Len(ops) OBVIOUS
  <2>2. ops \in Seq(Ops) BY <1>2 DEF OpsFit
  <2>3. t \in Seq(Ops) /\ Len(t) = n - 1 /\ n \in Nat \ {0} /\ 1 \in 1..n BY <1>1, <2>1, <2>2, Tails
  <2>4. 1 = n
    <3>1. Ordered(ops, moves) BY <1>2 DEF OpsFit
    <3>2. ops[1].op = "overwrite" BY <1>1, <1>2
    <3>3. \A i \in 1..n : ops[i].op = "overwrite" => i = n BY ONLY <2>1, <3>1 DEF Ordered
    <3> QED BY ONLY <2>3, <3>2, <3>3
  <2>5. t = <<>> BY ONLY <2>3, <2>4
  <2> QED BY <2>1, <2>5
<1> QED BY <1>1, <1>2, <1>3, <1>5, <1>6, <1>7, <1>8, <1>9

\* A transaction other than an overwriting one is done: its call goes on, having done what it
\* took off its plan, in the ledger as well.
Does(r, q) ==
  /\ Goes(r, q) /\ lost' = lost /\ DOMAIN quant \subseteq DOMAIN quant'
  /\ \A l : OnHand(l)' + Plan(q.ops, l) = OnHand(l) + Plan(req[r].ops, l)
  /\ \A i \in 1..Len(q.ops) :
       q.ops[i].op = "overwrite" => \E j \in 1..Len(req[r].ops) : q.ops[i] = req[r].ops[j]
  /\ \A l \in Locations : OnHand(l)' - OnHand(l) =
       (Total(moves', l) - Total(moves, l)) - (Due(q.ops, l) - Due(req[r].ops, l))

\* .. when it is the first of the list.
LEMMA DoesFirst ==
  ASSUME StockTypes, NEW r \in Requests, NEW ops, NEW o, ops = req[r].ops, o = ops[1], ops # <<>>,
         NEW q, Goes(r, q), q.ops = Tail(ops), lost' = lost, DOMAIN quant \subseteq DOMAIN quant',
         \A l : OnHand(l)' = OnHand(l) + Change(o, l),
         IF o.op = "line" THEN \A l \in Locations : Total(moves', l) = Total(moves, l) + Plan(ops, l)
         ELSE \A l \in Locations : Total(moves', l) = Total(moves, l)
  PROVE  Does(r, q)
<1>1. OpsFit(ops, req[r].kind, req[r].pick, moves) BY HeadOf
<1>2. ops \in Seq(Ops) BY <1>1 DEF OpsFit
<1>3. PICK t, n : t = Tail(ops) /\ n = Len(ops) OBVIOUS
<1>4. n \in Nat \ {0} /\ Len(t) = n - 1 /\ \A i \in 1..(n - 1) : t[i] = ops[i + 1] /\ i + 1 \in 1..n
  BY <1>2, <1>3, Tails
<1>5. \A i \in 1..Len(t) : t[i].op = "overwrite" => \E j \in 1..n : t[i] = ops[j] BY <1>4
<1>6. \A l : /\ Due(t, l) = Plan(ops, l) - Change(o, l) /\ Plan(t, l) = Plan(ops, l) - Change(o, l)
             /\ Change(o, l) \in Int /\ Plan(ops, l) \in Int /\ OnHand(l) \in Int
  <2> TAKE l
  <2>1. /\ Due(t, l) = Plan(ops, l) - Change(o, l) /\ Plan(t, l) = Plan(ops, l) - Change(o, l)
        /\ Change(o, l) \in Int
    BY <1>1, <1>3, DueTail
  <2>2. Plan(ops, l) \in Int BY <1>2, PlanIs
  <2>3. OnHand(l) \in Int BY OnHandIs DEF StockTypes
  <2> QED BY <2>1, <2>2, <2>3
<1>7. \A l : OnHand(l)' + Plan(t, l) = OnHand(l) + Plan(ops, l)
  <2> TAKE l
  <2>1. PICK a, b, c, d, e : /\ a = OnHand(l)' /\ b = Plan(t, l) /\ c = OnHand(l) /\ d = Plan(ops, l)
                             /\ e = Change(o, l)
    OBVIOUS
  <2>2. a = c + e /\ b = d - e /\ c \in Int /\ d \in Int /\ e \in Int BY <1>6, <2>1
  <2>3. a + b = c + d BY ONLY <2>2
  <2> QED BY <2>1, <2>3
<1>8. ASSUME NEW l \in Locations
      PROVE  OnHand(l)' - OnHand(l) = (Total(moves', l) - Total(moves, l)) - (Due(t, l) - Due(ops, l))
  <2>1. PICK a, b, c, d, e, x, y, z :
          /\ a = OnHand(l)' /\ b = Due(t, l) /\ c = OnHand(l) /\ d = Plan(ops, l) /\ e = Change(o, l)
          /\ x = Total(moves, l) /\ y = Total(moves', l) /\ z = Due(ops, l)
    OBVIOUS
  <2>2. a = c + e /\ b = d - e /\ c \in Int /\ d \in Int /\ e \in Int BY <1>6, <2>1
  <2>3. x \in Int /\ (o.op # "line" => y = x) BY <2>1, TotalIs DEF StockTypes
  <2>4. IF o.op = "line" THEN z = 0 /\ e = 0 /\ y = x + d ELSE z = d /\ y = x
    <3>1. CASE o.op = "line"
      <4>1. z = 0 /\ e = 0 BY <1>1, <2>1, <3>1, DueIs DEF Change
      <4>2. y = x + d BY <2>1, <3>1
      <4> QED BY <3>1, <4>1, <4>2
    <3>2. CASE o.op # "line"
      <4>1. z = d BY <1>1, <2>1, <3>2, DueIs
      <4> QED BY <2>3, <3>2, <4>1
    <3> QED BY <3>1, <3>2
  <2>5. a - c = (y - x) - (b - z) BY ONLY <2>2, <2>3, <2>4
  <2> QED BY <2>1, <2>5
<1> QED BY <1>3, <1>5, <1>7, <1>8 DEF Does

\* .. and when another takes its place.
LEMMA DoesOther ==
  ASSUME StockTypes, NEW r \in Requests, NEW ops, ops = req[r].ops, ops # <<>>, ops[1].op # "line",
         NEW q, Goes(r, q), lost' = lost, DOMAIN quant \subseteq DOMAIN quant', moves' = moves,
         q.ops # <<>>, q.ops[1].op # "line", OpsFit(q.ops, req[r].kind, req[r].pick, moves),
         \A l : OnHand(l)' = OnHand(l) /\ Plan(q.ops, l) = Plan(ops, l),
         \A i \in 1..Len(q.ops) :
           q.ops[i].op = "overwrite" => \E j \in 1..Len(ops) : q.ops[i] = ops[j]
  PROVE  Does(r, q)
<1>1. OpsFit(ops, req[r].kind, req[r].pick, moves) BY HeadOf
<1>2. \A l : OnHand(l)' + Plan(q.ops, l) = OnHand(l) + Plan(ops, l) OBVIOUS
<1>3. ASSUME NEW l \in Locations
      PROVE  OnHand(l)' - OnHand(l) = (Total(moves', l) - Total(moves, l)) - (Due(q.ops, l) - Due(ops, l))
  <2>1. Due(ops, l) = Plan(ops, l) /\ Due(q.ops, l) = Plan(q.ops, l) /\ Plan(ops, l) \in Int
    BY <1>1, DueIs
  <2>2. OnHand(l) \in Int /\ Total(moves, l) \in Int BY OnHandIs, TotalIs DEF StockTypes
  <2>3. PICK a, c, d, e, x : /\ a = OnHand(l)' /\ c = OnHand(l) /\ d = Due(ops, l) /\ e = Due(q.ops, l)
                             /\ x = Total(moves, l)
    OBVIOUS
  <2>4. a = c /\ c \in Int /\ x \in Int /\ d \in Int /\ e = d BY <2>1, <2>2, <2>3
  <2>5. a - c = (x - x) - (e - d) BY ONLY <2>4
  <2> QED BY <2>3, <2>5
<1> QED BY <1>2, <1>3 DEF Does

\* Each transaction but an overwriting one ends the call, or is done.
LEMMA QuantityDone ==
  ASSUME StockTypes, NEW r \in Requests, Adjust(r) \/ Insert(r) \/ Release(r) \/ Reserve(r)
  PROVE  req[r].ops # <<>> /\ ((Stop(r) /\ UNCHANGED <<quant, moves>>) \/ \E q : Does(r, q))
<1>1. PICK ops, o : ops = req[r].ops /\ o = ops[1] OBVIOUS
<1>2. CASE Release(r)
  <2>1. /\ ops # <<>> /\ o.op = "release" /\ moves' = moves /\ lost' = lost /\ DOMAIN quant' = DOMAIN quant
        /\ \A l : OnHand(l)' = OnHand(l) /\ Change(o, l) = 0
        /\ \E q : Goes(r, q) /\ q.ops = Tail(ops)
    BY <1>1, <1>2, ReleaseStep
  <2>2. \A l : OnHand(l)' = OnHand(l) + Change(o, l)
    <3>1. \A l : OnHand(l) \in Int BY OnHandIs DEF StockTypes
    <3> QED BY <2>1, <3>1
  <2> QED BY <1>1, <2>1, <2>2, DoesFirst
<1>3. CASE Insert(r)
  <2>1. ops # <<>> /\ o.op = "insert" /\ moves' = moves BY <1>1, <1>3, InsertStep
  <2>2. CASE Stop(r) /\ quant' = quant BY <1>1, <2>1, <2>2
  <2>3. CASE ~(Stop(r) /\ quant' = quant)
    <3>1. /\ lost' = lost /\ DOMAIN quant' = DOMAIN quant \cup {o.at}
          /\ \A l : OnHand(l)' = OnHand(l) + Change(o, l)
          /\ \E q : Goes(r, q) /\ q.ops = Tail(ops)
      BY <1>1, <1>3, <2>3, InsertStep
    <3>2. DOMAIN quant \subseteq DOMAIN quant' BY <3>1
    <3> QED BY <1>1, <2>1, <3>1, <3>2, DoesFirst
  <2> QED BY <2>2, <2>3
<1>4. CASE Adjust(r)
  <2>1. ops # <<>> /\ o.op = "adjust" /\ moves' = moves /\ lost' = lost BY <1>1, <1>4, AdjustStep
  <2>2. PICK q : /\ Goes(r, q)
                 /\ \/ /\ q.ops = Tail(ops) /\ DOMAIN quant' = DOMAIN quant
                       /\ \A l : OnHand(l)' = OnHand(l) + Change(o, l)
                    \/ /\ q.ops = <<[o EXCEPT !.op = "insert"]>> \o Tail(ops) /\ quant' = quant
    BY <1>1, <1>4, AdjustStep, ZenonT(60)
  <2>3. CASE q.ops = Tail(ops) /\ DOMAIN quant' = DOMAIN quant
               /\ \A l : OnHand(l)' = OnHand(l) + Change(o, l)
    BY <1>1, <2>1, <2>2, <2>3, DoesFirst
  <2>4. CASE q.ops = <<[o EXCEPT !.op = "insert"]>> \o Tail(ops) /\ quant' = quant
    <3>1. OpsFit(ops, req[r].kind, req[r].pick, moves) /\ o \in Ops BY <1>1, <2>1, HeadOf
    <3>2. OpsFit(q.ops, req[r].kind, req[r].pick, moves) /\ \A l : Plan(q.ops, l) = Plan(ops, l)
      <4>1. PICK t, k, p, mv : t = q.ops /\ k = req[r].kind /\ p = req[r].pick /\ mv = moves OBVIOUS
      <4>2. OpsFit(ops, k, p, mv) BY <3>1, <4>1
      <4>3. t = <<[ops[1] EXCEPT !.op = "insert"]>> \o Tail(ops) BY <1>1, <2>4, <4>1
      <4>4. ops # <<>> /\ ops[1].op = "adjust" BY <1>1, <2>1
      <4>5. OpsFit(t, k, p, mv) /\ \A l : Plan(t, l) = Plan(ops, l)
        BY ONLY <4>2, <4>3, <4>4, OpsInsert
      <4> QED BY <4>1, <4>5
    <3>3. PICK x, t, n : x = [o EXCEPT !.op = "insert"] /\ t = q.ops /\ n = Len(ops) OBVIOUS
    <3>4. x \in Ops /\ x.op = "insert" BY <3>1, <3>3 DEF Ops, OpNames
    <3>5. ops \in Seq(Ops) BY <3>1 DEF OpsFit
    <3>6. t = <<x>> \o Tail(ops) BY <2>4, <3>3
    <3>7. t # <<>> /\ Len(t) = n /\ t[1] = x /\ \A i \in 1..n : i # 1 => t[i] = ops[i]
      BY ONLY <2>1, <3>3, <3>4, <3>5, <3>6, Replaced
    <3>8. q.ops # <<>> /\ q.ops[1].op # "line" BY <3>3, <3>4, <3>7
    <3>9. \A i \in 1..Len(q.ops) : q.ops[i].op = "overwrite" => \E j \in 1..Len(ops) : q.ops[i] = ops[j]
      BY <3>3, <3>4, <3>7
    <3>10. \A l : OnHand(l)' = OnHand(l) BY <2>4 DEF OnHand
    <3>11. DOMAIN quant \subseteq DOMAIN quant' BY <2>4
    <3>12. \A l : OnHand(l)' = OnHand(l) /\ Plan(q.ops, l) = Plan(ops, l) BY <3>2, <3>10
    <3>13. ops[1].op # "line" BY <1>1, <2>1
    <3> QED BY <1>1, <2>1, <2>2, <3>2, <3>8, <3>9, <3>11, <3>12, <3>13, DoesOther
  <2> QED BY <2>2, <2>3, <2>4
<1>5. CASE Reserve(r)
  <2>1. /\ ops # <<>> /\ o.op = "reserve" /\ moves' = moves /\ lost' = lost /\ DOMAIN quant' = DOMAIN quant
        /\ \A l : OnHand(l)' = OnHand(l) /\ Plan(ops, l) = 0
    BY <1>1, <1>5, ReserveStep
  <2>2. PICK q, s : /\ Goes(r, q) /\ q.ops = <<s>> /\ s \in Ops /\ s.op = "state" /\ s.move = o.move
                    /\ s.to \in Open /\ \A l : Plan(<<s>>, l) = 0
    <3>1. Resolves(r, o.move) BY <1>1, <1>5, ReserveStep
    <3> QED BY <3>1 DEF Resolves
  <2>3. OpsFit(q.ops, req[r].kind, req[r].pick, moves)
    <3>1. OpFits(o, moves) /\ moves[o.move].pick = req[r].pick BY <1>1, <2>1, HeadOf
    <3>2. OpFits(s, moves) /\ moves[s.move].pick = req[r].pick
      BY <2>2, <3>1 DEF OpFits, States
    <3> QED BY <2>2, <3>2, OpsOne
  <2>4. q.ops \in Seq(Ops) /\ Len(q.ops) = 1 /\ q.ops[1] = s BY <2>2, One
  <2>5. q.ops # <<>> /\ q.ops[1].op # "line" /\ ops[1].op # "line" BY <1>1, <2>1, <2>2, <2>4
  <2>6. \A i \in 1..Len(q.ops) : q.ops[i].op = "overwrite" => \E j \in 1..Len(ops) : q.ops[i] = ops[j]
    BY <2>2, <2>4
  <2>7. \A l : OnHand(l)' = OnHand(l) /\ Plan(q.ops, l) = Plan(ops, l) BY <2>1, <2>2
  <2> QED BY <1>1, <2>1, <2>2, <2>3, <2>5, <2>6, <2>7, DoesOther
<1> QED BY <1>2, <1>3, <1>4, <1>5

LEMMA EditDone ==
  ASSUME StockTypes, NEW r \in Requests, AddLine(r) \/ SetState(r)
  PROVE  req[r].ops # <<>> /\ ((Stop(r) /\ UNCHANGED <<quant, moves>>) \/ \E q : Does(r, q))
<1>1. PICK ops, o, k, p, mv :
        /\ ops = req[r].ops /\ o = ops[1] /\ k = req[r].kind /\ p = req[r].pick /\ mv = moves
  OBVIOUS
<1>2. mv \in Seq(MoveRows) /\ QuantTypes BY <1>1 DEF StockTypes
<1>3. \A l : OnHand(l) \in Int BY <1>2, OnHandIs
<1>4. CASE AddLine(r)
  <2>1. /\ ops # <<>> /\ o.op = "line" /\ Done(r, <<>>) /\ UNCHANGED <<quant, pickings, tried, lost>>
        /\ \E m, row : /\ Edited(moves, m, row, moves') /\ m = o.move
                       /\ row.lines = Append(moves[m].lines, [qty |-> o.by, dst |-> o.to])
    BY <1>1, <1>4, LineAdded
  <2>2. PICK m, row, line : /\ Edited(mv, m, row, moves') /\ m = o.move
                            /\ line = [qty |-> o.by, dst |-> o.to] /\ row.lines = Append(mv[m].lines, line)
    BY <1>1, <2>1, ZenonT(60)
  <2>3. OpsFit(ops, k, p, mv) /\ OpFits(o, mv) /\ o \in Ops BY <1>1, <2>1, HeadOf, ZenonT(60)
  <2>4. /\ o.by \in Nat \ {0} /\ o.to \in Locations /\ mv[m].src = o.at /\ line \in LineRows
        /\ line.qty = o.by /\ line.dst = o.to
    BY <2>1, <2>2, <2>3 DEF OpFits, LineRows
  <2>5. mv[m] \in MoveRows /\ row \in MoveRows /\ row.src = mv[m].src /\ m \in 1..Len(mv)
    BY <1>2, <2>2 DEF Edited
  <2>6. ASSUME NEW l \in Locations PROVE Total(moves', l) = Total(moves, l) + Plan(ops, l)
    <3>1. CarriedBy(row, l) = CarriedBy(mv[m], l) + (IF o.to = l THEN o.by ELSE 0)
                                                 - (IF o.at = l THEN o.by ELSE 0)
      <4>1. PICK v : v = mv[m] OBVIOUS
      <4>2. v \in MoveRows /\ row \in MoveRows /\ line \in LineRows /\ row.src = v.src
            /\ row.lines = Append(v.lines, line)
        BY <2>2, <2>4, <2>5, <4>1
      <4>3. CarriedBy(row, l) = CarriedBy(v, l) + (IF line.dst = l THEN line.qty ELSE 0)
                                                - (IF v.src = l THEN line.qty ELSE 0)
        BY ONLY <4>2, CarriedMore
      <4> QED BY <2>4, <4>1, <4>3
    <3>2. CarriedBy(row, l) \in Int /\ CarriedBy(mv[m], l) \in Int BY <2>5, CarriedInt
    <3>3. Total(moves', l) = Total(mv, l) + CarriedBy(row, l) - CarriedBy(mv[m], l)
      BY <2>2, TotalEdited
    <3>4. Total(mv, l) \in Int BY <1>2, TotalIs
    <3>5. Plan(ops, l) = (IF o.to = l THEN o.by ELSE 0) - (IF o.at = l THEN o.by ELSE 0)
      BY <1>1, <2>1, <2>3, ZenonT(60) DEF OpsFit, LineBacked
    <3>6. PICK a, b, c, d, e, f :
            /\ a = Total(mv, l) /\ b = CarriedBy(row, l) /\ c = CarriedBy(mv[m], l) /\ d = Total(moves', l)
            /\ e = (IF o.to = l THEN o.by ELSE 0) /\ f = (IF o.at = l THEN o.by ELSE 0)
      OBVIOUS
    <3>7. a \in Int /\ b \in Int /\ c \in Int /\ e \in Int /\ f \in Int /\ b = c + e - f /\ d = a + b - c
      BY <2>4, <3>1, <3>2, <3>3, <3>4, <3>6
    <3>8. d = a + (e - f) BY ONLY <3>7
    <3> QED BY <1>1, <3>5, <3>6, <3>8
  <2>7. PICK q : Goes(r, q) /\ q.ops = Tail(ops) BY <1>1, <2>1, DoneTail, ZenonT(60)
  <2>8. lost' = lost /\ DOMAIN quant \subseteq DOMAIN quant' /\ \A l : OnHand(l)' = OnHand(l) + Change(o, l)
    BY <1>3, <2>1 DEF OnHand, Change
  <2> QED BY <1>1, <2>1, <2>6, <2>7, <2>8, DoesFirst, ZenonT(60)
<1>5. CASE SetState(r)
  <2>1. ops # <<>> /\ o.op = "state" /\ UNCHANGED <<quant, pickings, tried>> BY <1>1, <1>5, StateSet
  <2>2. CASE Stop(r) /\ moves' = moves BY <1>1, <2>1, <2>2
  <2>3. CASE ~(Stop(r) /\ moves' = moves)
    <3>1. /\ Done(r, <<>>) /\ lost' = lost
          /\ \E m, row : Edited(moves, m, row, moves') /\ row.lines = moves[m].lines
      BY <1>5, <2>3, StateSet
    <3>2. PICK m, row : Edited(mv, m, row, moves') /\ row.lines = mv[m].lines BY <1>1, <3>1
    <3>3. mv[m] \in MoveRows /\ row.src = mv[m].src BY <1>2, <3>2 DEF Edited
    <3>4. ASSUME NEW l \in Locations PROVE Total(moves', l) = Total(moves, l)
      <4>1. CarriedBy(row, l) = CarriedBy(mv[m], l) /\ CarriedBy(mv[m], l) \in Int
        BY <3>2, <3>3, CarriedSame, CarriedInt
      <4>2. Total(moves', l) = Total(mv, l) + CarriedBy(row, l) - CarriedBy(mv[m], l)
        BY <3>2, TotalEdited
      <4>3. Total(mv, l) \in Int BY <1>2, TotalIs
      <4> QED BY <1>1, <4>1, <4>2, <4>3
    <3>5. PICK q : Goes(r, q) /\ q.ops = Tail(ops) BY <1>1, <2>1, <3>1, DoneTail
    <3>6. DOMAIN quant \subseteq DOMAIN quant' /\ \A l : OnHand(l)' = OnHand(l) + Change(o, l)
      BY <1>3, <2>1 DEF OnHand, Change
    <3>7. o.op # "line" BY <2>1
    <3> QED BY <1>1, <2>1, <3>1, <3>4, <3>5, <3>6, <3>7, DoesFirst
  <2> QED BY <2>2, <2>3
<1> QED BY <1>4, <1>5

\* A list without a change of quantity plans none.
LEMMA DueNone ==
  ASSUME NEW ops \in Seq(Ops), \A i \in 1..Len(ops) : ops[i].op \notin {"adjust", "insert"}, NEW l
  PROVE  Due(ops, l) = 0 /\ Plan(ops, l) = 0
<1>1. PICK f, n : n = Len(ops) /\ f = [i \in 1..Len(ops) |-> Change(ops[i], l)] OBVIOUS
<1>2. Plan(ops, l) = SumOf(f, 1..n) BY <1>1, PlanIs
<1>3. n \in Nat BY <1>1
<1>4. IsFiniteSet(1..n) BY <1>3, FS_Interval
<1>5. \A i \in 1..n : f[i] = 0 BY <1>1 DEF Change
<1>6. Plan(ops, l) = 0 BY <1>2, <1>4, <1>5, SumZero
<1> QED BY <1>6 DEF Due

\* What a cancelled move has to give back, and its state.
GivesBack(m, l, n, free, state, ops) ==
  /\ m \in Nat /\ l \in Locations /\ n \in Nat
  /\ free = Op("release", m, l, n, None) /\ state = Op("state", m, l, 0, "cancelled")
  /\ ops = Free(m, l, n) \o <<state>>

LEMMA CancelCases ==
  ASSUME NEW m, NEW l, NEW n, NEW free, NEW state, NEW ops, GivesBack(m, l, n, free, state, ops)
  PROVE  /\ free \in Ops /\ free.op = "release" /\ free.move = m /\ free.at = l /\ free.by = n
         /\ state \in Ops /\ state.op = "state" /\ state.move = m /\ state.to = "cancelled"
         /\ IF l \in Internal /\ n > 0 THEN Two(ops, free, state)
            ELSE ops \in Seq(Ops) /\ Len(ops) = 1 /\ ops[1] = state
<1>1. /\ free \in Ops /\ free.op = "release" /\ free.move = m /\ free.at = l /\ free.by = n
      /\ state \in Ops /\ state.op = "state" /\ state.move = m /\ state.to = "cancelled"
  BY DEF Op, Ops, OpNames, States, GivesBack
<1>2. PICK F, S : F = Free(m, l, n) /\ S = <<state>> OBVIOUS
<1>3. ops = F \o S /\ n \in Nat /\ free = Op("release", m, l, n, None) BY <1>2 DEF GivesBack
<1>4. S \in Seq(Ops) /\ Len(S) = 1 /\ S[1] = state BY <1>1, <1>2, One
<1>5. CASE l \in Internal /\ n > 0
  <2>1. F = <<free>> BY <1>3, <1>2, <1>5 DEF Free
  <2>2. F \in Seq(Ops) /\ Len(F) = 1 /\ F[1] = free BY <1>1, <2>1, One
  <2>3. ops = F \o <<state>> BY <1>3, <1>2
  <2>4. Two(ops, free, state)
    <3>1. ops \in Seq(Ops) /\ Len(ops) = 2 /\ ops[1] = free /\ ops[2] = state
      BY ONLY <1>1, <2>2, <2>3, Adds
    <3> QED BY <3>1 DEF Two
  <2> QED BY <1>1, <1>5, <2>4
<1>6. CASE ~(l \in Internal /\ n > 0)
  <2>1. F = <<>> BY <1>2, <1>6 DEF Free
  <2>2. ops = S BY <1>3, <1>2, <1>4, <2>1, Nothing
  <2> QED BY <1>1, <1>4, <1>6, <2>2
<1> QED BY <1>5, <1>6

\* What a cancellation is to do for a move ..
LEMMA CancelIs ==
  ASSUME StockTypes, NEW r \in Requests, NEW m, CancelMove(r, m)
  PROVE  /\ UNCHANGED <<quant, moves, pickings, tried, lost>> /\ req[r].kind = "cancel"
         /\ \E q, ops, free, state, n :
              /\ Turned(r, m, q, ops) /\ n = Least(Reserved(moves[m].src), moves[m].demand) /\ n \in Nat
              /\ free.op = "release" /\ free.at = moves[m].src /\ free.by = n
              /\ state.op = "state" /\ state.move = m
              /\ IF moves[m].src \in Internal /\ n > 0 THEN Two(ops, free, state)
                 ELSE ops \in Seq(Ops) /\ Len(ops) = 1 /\ ops[1] = state
<1>1. PICK q, ops, n : /\ Turned(r, m, q, ops) /\ n \in Nat
                       /\ n = Least(Reserved(moves[m].src), moves[m].demand)
                       /\ ops = Free(m, moves[m].src, n) \o <<Op("state", m, moves[m].src, 0, "cancelled")>>
  BY CancelTypes, ZenonT(60)
<1>2. PICK l, free, state : /\ l = moves[m].src /\ free = Op("release", m, l, n, None)
                            /\ state = Op("state", m, l, 0, "cancelled")
  OBVIOUS
<1>3. moves[m] \in MoveRows /\ m \in Nat BY <1>1 DEF Turned, StockTypes
<1>4. GivesBack(m, l, n, free, state, ops) BY <1>1, <1>2, <1>3 DEF GivesBack, MoveRows
<1>5. /\ free.op = "release" /\ free.at = l /\ free.by = n /\ state.op = "state" /\ state.move = m
      /\ IF l \in Internal /\ n > 0 THEN Two(ops, free, state)
         ELSE ops \in Seq(Ops) /\ Len(ops) = 1 /\ ops[1] = state
  BY ONLY <1>4, CancelCases
<1>6. UNCHANGED <<quant, moves, pickings, tried, lost>> /\ req[r].kind = "cancel" BY CancelTypes
<1> QED BY <1>1, <1>2, <1>5, <1>6

\* .. and a validation.
Carries(m, v, done, line, out, free, inn, rest, state, ops) ==
  /\ line.op = "line" /\ out.op = "adjust" /\ out.at = v.src /\ out.by = -done
  /\ free.op = "release" /\ free.at = v.src /\ free.by = done /\ inn.op = "adjust" /\ inn.by = done
  /\ rest.op = "release" /\ rest.at = v.src /\ rest.by = v.demand - done
  /\ state.op = "state" /\ state.move = m
  /\ done = 0 =>
       IF v.src \in Internal THEN Two(ops, rest, state)
       ELSE ops \in Seq(Ops) /\ Len(ops) = 1 /\ ops[1] = state
  /\ done > 0 =>
       \/ v.src \notin Internal /\ Four(ops, line, out, inn, state)
       \/ v.src \in Internal /\ done < v.demand /\ Six(ops, line, out, free, inn, rest, state)
       \/ v.src \in Internal /\ done = v.demand /\ Five(ops, line, out, free, inn, state)

LEMMA ValidateIs ==
  ASSUME StockTypes, NEW r \in Requests, NEW m, ValidateMove(r, m)
  PROVE  /\ UNCHANGED <<quant, moves, pickings, tried, lost>> /\ req[r].kind = "validate"
         /\ \E q, ops, done, line, out, free, inn, rest, state :
              /\ Turned(r, m, q, ops) /\ done = DoQty(moves[m]) /\ done \in 0..moves[m].demand
              /\ Carries(m, moves[m], done, line, out, free, inn, rest, state, ops)
<1>1. PICK q, to : to \in Locations /\ Turned(r, m, q, Transfer(m, moves[m], DoQty(moves[m]), to))
  BY ValidateTypes
<1>2. PICK v, done, ops : v = moves[m] /\ done = DoQty(v) /\ ops = Transfer(m, v, done, to) OBVIOUS
<1>3. v \in MoveRows /\ m \in Nat /\ QuantTypes BY <1>1, <1>2 DEF Turned, StockTypes
<1>4. done \in 0..v.demand /\ v.demand \in Nat \ {0} BY <1>2, <1>3, DoQtyIs
<1>5. v.src \in Locations /\ -done \in Int /\ done \in Int /\ v.demand - done \in Int
  BY <1>3, <1>4 DEF MoveRows
<1>6. PICK line, out, free, inn, rest, state :
        /\ line = Op("line", m, v.src, done, to) /\ out = Op("adjust", m, v.src, -done, None)
        /\ free = Op("release", m, v.src, done, None) /\ inn = Op("adjust", m, to, done, None)
        /\ rest = Op("release", m, v.src, v.demand - done, None)
        /\ state = Op("state", m, v.src, 0, IF done > 0 THEN "done" ELSE "cancelled")
  OBVIOUS
<1>7. line \in Ops /\ out \in Ops /\ free \in Ops /\ inn \in Ops /\ rest \in Ops /\ state \in Ops
  BY <1>1, <1>3, <1>5, <1>6 DEF Op, Ops, OpNames, States
<1>8. /\ line.op = "line" /\ out.op = "adjust" /\ out.at = v.src /\ out.by = -done
      /\ free.op = "release" /\ free.at = v.src /\ free.by = done /\ inn.op = "adjust" /\ inn.by = done
      /\ rest.op = "release" /\ rest.at = v.src /\ rest.by = v.demand - done
      /\ state.op = "state" /\ state.move = m
  BY <1>6 DEF Op
<1>9. /\ done = 0 =>
           IF v.src \in Internal THEN Two(ops, rest, state)
           ELSE ops \in Seq(Ops) /\ Len(ops) = 1 /\ ops[1] = state
      /\ done > 0 /\ v.src \notin Internal => Four(ops, line, out, inn, state)
      /\ done > 0 /\ v.src \in Internal /\ done < v.demand => Six(ops, line, out, free, inn, rest, state)
      /\ done > 0 /\ v.src \in Internal /\ done = v.demand => Five(ops, line, out, free, inn, state)
  BY ONLY <1>1, <1>2, <1>3, <1>4, <1>6, <1>7, TransferCases
<1>10. done < v.demand \/ done = v.demand BY <1>4
<1>11. Carries(m, v, done, line, out, free, inn, rest, state, ops) BY <1>8, <1>9, <1>10 DEF Carries
<1>12. UNCHANGED <<quant, moves, pickings, tried, lost>> /\ req[r].kind = "validate" BY ValidateTypes
<1> QED BY <1>1, <1>2, <1>4, <1>11, <1>12

\* A call goes on to another move, or begins, or is over, and no quantity is owed for it.
Quiet(r, q) ==
  /\ UNCHANGED <<quant, lost>> /\ req' = [req EXCEPT ![r] = q] /\ req[r].ops = <<>>
  /\ \A l \in Locations : Due(q.ops, l) = 0 /\ Total(moves', l) = Total(moves, l)

LEMMA QuietTurn ==
  ASSUME StockTypes, NEW r \in Requests, NEW m, ConfirmMove(r, m) \/ ValidateMove(r, m) \/ CancelMove(r, m)
  PROVE  /\ req[r].kind \in {"confirm", "validate", "cancel"}
         /\ \E q : Quiet(r, q) /\ (q = Idle \/ q.kind = req[r].kind)
<1>1. PICK q, ops : Turned(r, m, q, ops) /\ \A l \in Locations : Due(ops, l) = 0
  <2>1. CASE ConfirmMove(r, m)
    <3>1. PICK q, ops, o : /\ Turned(r, m, q, ops) /\ (ops = <<>> \/ ops = <<o>>) /\ o \in Ops
                           /\ o.op \in {"state", "reserve"}
      BY <2>1, ConfirmTypes
    <3>2. <<>> \in Seq(Ops) /\ Len(<<>>) = 0 OBVIOUS
    <3>3. ops \in Seq(Ops) /\ \A i \in 1..Len(ops) : ops[i].op \notin {"adjust", "insert"}
      <4>1. CASE ops = <<>> BY <3>2, <4>1
      <4>2. CASE ops = <<o>>
        <5>1. ops \in Seq(Ops) /\ Len(ops) = 1 /\ ops[1] = o BY <3>1, <4>2, One
        <5> QED BY <3>1, <5>1
      <4> QED BY <3>1, <4>1, <4>2
    <3> QED BY <3>1, <3>3, DueNone
  <2>2. CASE CancelMove(r, m)
    <3>1. PICK q, ops, free, state :
            /\ Turned(r, m, q, ops) /\ free.op = "release" /\ state.op = "state"
            /\ Two(ops, free, state) \/ (ops \in Seq(Ops) /\ Len(ops) = 1 /\ ops[1] = state)
      BY <2>2, CancelIs
    <3>2. 1..2 = {1, 2} /\ 1..1 = {1} OBVIOUS
    <3>3. ops \in Seq(Ops) /\ \A i \in 1..Len(ops) : ops[i].op \notin {"adjust", "insert"}
      BY <3>1, <3>2 DEF Two
    <3> QED BY <3>1, <3>3, DueNone
  <2>3. CASE ValidateMove(r, m)
    <3>1. PICK q, ops, done, line, out, free, inn, rest, state :
            /\ Turned(r, m, q, ops) /\ done = DoQty(moves[m]) /\ done \in 0..moves[m].demand
            /\ Carries(m, moves[m], done, line, out, free, inn, rest, state, ops)
      BY <2>3, ValidateIs
    <3>2. moves[m] \in MoveRows BY <3>1 DEF Turned, StockTypes
    <3>3. done = 0 \/ done > 0 BY <3>1, <3>2 DEF MoveRows
    <3>4. ASSUME NEW l \in Locations PROVE Due(ops, l) = 0
      <4>1. CASE done = 0
        <5>1. 1..2 = {1, 2} /\ 1..1 = {1} OBVIOUS
        <5>2. ops \in Seq(Ops) /\ \A i \in 1..Len(ops) : ops[i].op \notin {"adjust", "insert"}
          BY <3>1, <4>1, <5>1 DEF Two, Carries
        <5> QED BY <5>2, DueNone
      <4>2. CASE done > 0
        <5>1. 1 \in DOMAIN ops /\ ops[1].op = "line" BY <3>1, <4>2 DEF Four, Five, Six, Carries
        <5> QED BY <5>1 DEF Due
      <4> QED BY <3>3, <4>1, <4>2
    <3> QED BY <3>1, <3>4
  <2> QED BY <2>1, <2>2, <2>3
<1>2. UNCHANGED <<quant, moves, lost>> /\ req[r].kind \in {"confirm", "validate", "cancel"}
  BY ConfirmTypes, ValidateTypes, CancelTypes
<1>3. Quiet(r, q) BY <1>1, <1>2 DEF Quiet, Turned
<1> QED BY <1>1, <1>2, <1>3 DEF Turned

\* Added moves have carried nothing.
LEMMA AddedQuiet ==
  ASSUME StockTypes, NEW p \in Nat, NEW specs \in Seq(Specs), AddMoves(p, specs), NEW l
  PROVE  Total(moves', l) = Total(moves, l)
<1>1. Extended(moves, p, specs, moves') BY DEF Extended, AddMoves, StockTypes
<1> QED BY <1>1, TotalExtended

LEMMA QuietEnd ==
  ASSUME StockTypes, NEW r \in Requests, ValidateEnd(r)
  PROVE  req[r].kind = "validate" /\ Quiet(r, Idle)
<1>1. /\ UNCHANGED <<quant, lost>> /\ req' = [req EXCEPT ![r] = Idle] /\ req[r].ops = <<>>
      /\ req[r].kind = "validate"
  BY DEF ValidateEnd
<1>2. req[r] \in Calls /\ Len(pickings) \in Nat BY DEF StockTypes
<1>3. \A l : Total(moves', l) = Total(moves, l)
  <2>1. CASE UNCHANGED moves BY <2>1
  <2>2. CASE ~UNCHANGED moves
    <3>1. AddPicking(req[r].pick, req[r].rest) BY <2>2 DEF ValidateEnd
    <3>2. AddMoves(Len(pickings) + 1, req[r].rest) BY <3>1 DEF AddPicking
    <3>3. PICK specs, p : specs = req[r].rest /\ p = Len(pickings) + 1 OBVIOUS
    <3>4. specs \in Seq(Specs) /\ p \in Nat /\ AddMoves(p, specs) BY <1>2, <3>2, <3>3 DEF Calls
    <3> QED BY <3>4, AddedQuiet
  <2> QED BY <2>1, <2>2
<1>4. \A l : Due(Idle.ops, l) = 0 BY PlanEmpty DEF Idle, Call, Due
<1> QED BY <1>1, <1>3, <1>4 DEF Quiet

LEMMA QuietBegin ==
  ASSUME StockTypes, NEW r \in Requests, NEW p, NEW b,
         ConfirmBegin(r, p) \/ CancelBegin(r, p) \/ ValidateBegin(r, p, b)
  PROVE  /\ req[r] = Idle /\ \E from : Clear(r, p, from)
         /\ \E q : Quiet(r, q) /\ q.kind # "count"
<1>1. PICK k, todo, back, from :
        /\ Begin(r, Call(k, p, todo, <<>>, <<>>, back)) /\ UNCHANGED <<rows, tried, history>>
        /\ k # "count" /\ Clear(r, p, from)
  BY DEF ConfirmBegin, CancelBegin, ValidateBegin
<1>2. PICK c, q : c = Call(k, p, todo, <<>>, <<>>, back) /\ q = Settle(c) OBVIOUS
<1>3. q.ops = <<>> /\ q.kind # "count" BY <1>1, <1>2 DEF Settle, Call, Idle
<1>4. req[r] = Idle /\ req' = [req EXCEPT ![r] = q] BY <1>1, <1>2 DEF Begin
<1>5. UNCHANGED <<quant, moves, lost>> BY <1>1 DEF rows, history
<1>6. req[r].ops = <<>> BY <1>4 DEF Idle, Call
<1>7. \A l : Due(q.ops, l) = 0 BY <1>3, PlanEmpty DEF Due
<1>8. Quiet(r, q) BY <1>4, <1>5, <1>6, <1>7 DEF Quiet
<1> QED BY <1>1, <1>3, <1>4, <1>8

LEMMA QuietStart ==
  ASSUME StockTypes, NEW r \in Requests, NEW k, NEW n, NEW from, NEW to, NEW write,
         Starts(r, k, n, from, to, write)
  PROVE  \E q : Quiet(r, q) /\ q.kind = k
<1>1. PICK q, ops, specs :
        /\ req' = [req EXCEPT ![r] = q] /\ req[r] = Idle /\ q = Call(k, 0, {}, ops, <<>>, FALSE)
        /\ q \in Calls /\ q.kind = k /\ q.pick = 0 /\ q.todo = {} /\ q.ops = ops
        /\ specs \in Seq(Specs) /\ AddMoves(0, specs) /\ CallFits(q, moves', Len(pickings))
        /\ UNCHANGED <<quant, pickings, tried, lost>>
        /\ OpsFit(ops, k, 0, moves') /\ ops # <<>>
        /\ ops[1].op = "line" /\ ops[1].by = n /\ ops[1].at = from /\ ops[1].to = to
  BY ZenonT(60) DEF Starts
<1>2. \A l : Total(moves', l) = Total(moves, l) BY <1>1, AddedQuiet
<1>3. \A l : Due(ops, l) = 0
  <2>1. PICK nv : nv = moves' OBVIOUS
  <2>2. OpsFit(ops, k, 0, nv) BY <1>1, <2>1
  <2> QED BY <1>1, <2>2, DueIs
<1>4. req[r].ops = <<>> BY <1>1 DEF Idle, Call
<1> QED BY <1>1, <1>2, <1>3, <1>4 DEF Quiet
-----------------------------------------------------------------------------
(* Counts.                                                                 *)

\* What is still to be written is the quantity there once the rest is done.
Counted(ops) ==
  \A i \in 1..Len(ops) : ops[i].op = "overwrite" =>
    ops[i].at \in DOMAIN quant /\ OnHand(ops[i].at) + Plan(ops, ops[i].at) = ops[i].by

\* A count is alone: clients count when nothing moves, and nothing begins while they do.
CountInv ==
  \A r \in Requests : req[r].kind = "count" =>
    /\ Orderly /\ \A o \in Requests \ {r} : req[o] = Idle
    /\ Counted(req[r].ops)

\* While a call is in flight no other is a count.
LEMMA Busy ==
  ASSUME CountInv, NEW r \in Requests, req[r] # Idle
  PROVE  \A o \in Requests \ {r} : req[o].kind # "count"
BY DEF CountInv

\* .. so that its steps leave no count behind, if it is none itself.
LEMMA NoCount ==
  ASSUME StockTypes, NEW r \in Requests, \A o \in Requests \ {r} : req[o].kind # "count",
         NEW q, req' = [req EXCEPT ![r] = q], q.kind # "count"
  PROVE  CountInv'
<1>1. \A o \in Requests : req'[o].kind # "count" BY DEF StockTypes
<1> QED BY <1>1 DEF CountInv

LEMMA CountTypes ==
  ASSUME StockTypes, NEW r \in Requests, NEW c \in Counts, Count(r, c[1], c[2]), Orderly \/ Counts = {}
  PROVE  CountInv' /\ \E q : Quiet(r, q)
<1>1. PICK write : write = Op("overwrite", Len(moves) + 1, c[1], c[2], None) OBVIOUS
<1>2. /\ c[1] \in Internal /\ c[2] \in Nat /\ Loss \in Outside /\ c[1] \in DOMAIN quant
      /\ (Orderly => \A o \in Requests : req[o] = Idle) /\ write.at = c[1] /\ write.by = c[2]
  BY <1>1, CountIs
<1>3. PICK d, n, from, to :
        /\ d \in Int /\ d = c[2] - OnHand(c[1]) /\ Starts(r, "count", n, from, to, write)
        /\ \/ n = d /\ from = Loss /\ to = c[1]
           \/ n = -d /\ from = c[1] /\ to = Loss
  BY <1>1, CountIs
<1>4. Loss # c[1] BY <1>2, ConstantsOK
<1>5. PICK q, ops :
        /\ req' = [req EXCEPT ![r] = q] /\ q.kind = "count" /\ q.ops = ops
        /\ UNCHANGED <<quant, pickings, tried, lost>>
        /\ OpsFit(ops, "count", 0, moves') /\ ops # <<>>
        /\ ops[1].op = "line" /\ ops[1].by = n /\ ops[1].at = from /\ ops[1].to = to
        /\ \A i \in 1..Len(ops) :
             /\ ops[i].op \in {"line", "adjust", "state", "overwrite"}
             /\ ops[i].op = "overwrite" => "count" = "count" /\ ops[i] = write
             /\ ops[i].op = "adjust" /\ ops[i].by < 0 => ops[i].at = from /\ ops[i].by = -n
  BY <1>3, ZenonT(60) DEF Starts
<1>6. Orderly /\ \A o \in Requests : req[o] = Idle BY <1>2
<1>7. Plan(ops, c[1]) = d
  <2>1. c[1] \in Locations BY <1>2 DEF Locations
  <2>2. Plan(ops, c[1]) = (IF to = c[1] THEN n ELSE 0) - (IF from = c[1] THEN n ELSE 0)
    BY <1>5, <2>1 DEF OpsFit, LineBacked
  <2> QED BY <1>3, <1>4, <2>2
<1>8. OnHand(c[1])' = OnHand(c[1]) /\ OnHand(c[1]) \in Int BY <1>5, OnHandIs DEF OnHand, StockTypes
<1>9. OnHand(c[1])' + Plan(ops, c[1]) = c[2] BY <1>2, <1>3, <1>7, <1>8
<1>10. Counted(ops)'
  <2>1. PICK x : x = c[1] OBVIOUS
  <2>2. ASSUME NEW i \in 1..Len(ops), ops[i].op = "overwrite"
        PROVE  ops[i].at \in DOMAIN quant' /\ OnHand(ops[i].at)' + Plan(ops, ops[i].at) = ops[i].by
    <3>1. ops[i] = write /\ ops[i].at = x /\ ops[i].by = c[2] BY <1>2, <1>5, <2>1, <2>2
    <3>2. x \in DOMAIN quant' BY <1>2, <1>5, <2>1
    <3>3. OnHand(x)' + Plan(ops, x) = c[2] BY <1>9, <2>1
    <3> QED BY <3>1, <3>2, <3>3
  <2> QED BY <2>2 DEF Counted
<1>11. req' \in [Requests -> {req'[o] : o \in Requests}] /\ req'[r] = q
       /\ \A o \in Requests \ {r} : req'[o] = Idle
  BY <1>5, <1>6 DEF StockTypes
<1>12. Idle.kind # "count" BY DEF Idle, Call
<1>13. CountInv' BY <1>5, <1>6, <1>10, <1>11, <1>12 DEF CountInv
<1> QED BY <1>3, <1>13, QuietStart

\* A call in flight is not idle.
LEMMA InFlight ==
  ASSUME NEW r, req[r].ops # <<>> \/ req[r].kind \in {"confirm", "validate", "cancel"}
  PROVE  req[r] # Idle
BY DEF Idle, Call

LEMMA CountStops ==
  ASSUME StockTypes, CountInv, NEW r \in Requests, req[r] # Idle, Stop(r)
  PROVE  CountInv'
<1>1. req' = [req EXCEPT ![r] = Idle] /\ Idle.kind # "count" BY DEF Stop, Idle, Call
<1> QED BY <1>1, Busy, NoCount

LEMMA CountDoes ==
  ASSUME StockTypes, CountInv, NEW r \in Requests, req[r].ops # <<>>, NEW q, Does(r, q)
  PROVE  CountInv'
<1>1. /\ req' = [req EXCEPT ![r] = q] /\ (q = Idle \/ q.kind = req[r].kind) /\ DOMAIN quant \subseteq DOMAIN quant'
      /\ \A l : OnHand(l)' + Plan(q.ops, l) = OnHand(l) + Plan(req[r].ops, l)
      /\ \A i \in 1..Len(q.ops) :
           q.ops[i].op = "overwrite" => \E j \in 1..Len(req[r].ops) : q.ops[i] = req[r].ops[j]
  BY DEF Does, Goes
<1>2. req[r] # Idle BY InFlight
<1>3. CASE q.kind # "count" BY <1>1, <1>2, <1>3, Busy, NoCount
<1>4. CASE q.kind = "count"
  <2>1. req[r].kind = "count" BY <1>1, <1>4 DEF Idle, Call
  <2>2. Orderly /\ (\A o \in Requests \ {r} : req[o] = Idle) /\ Counted(req[r].ops)
    BY <2>1 DEF CountInv
  <2>3. PICK t, ops : t = q.ops /\ ops = req[r].ops OBVIOUS
  <2>4. ASSUME NEW i \in 1..Len(t), t[i].op = "overwrite"
        PROVE  t[i].at \in DOMAIN quant' /\ OnHand(t[i].at)' + Plan(t, t[i].at) = t[i].by
    <3>1. PICK j \in 1..Len(ops) : t[i] = ops[j] BY <1>1, <2>3, <2>4
    <3>2. ops[j].at \in DOMAIN quant /\ OnHand(ops[j].at) + Plan(ops, ops[j].at) = ops[j].by
      BY <2>2, <2>3, <2>4, <3>1 DEF Counted
    <3>3. PICK x : x = t[i].at OBVIOUS
    <3>4. OnHand(x)' + Plan(t, x) = OnHand(x) + Plan(ops, x) BY <1>1, <2>3
    <3> QED BY <1>1, <3>1, <3>2, <3>3, <3>4
  <2>5. Counted(t)' BY <2>4 DEF Counted
  <2>6. req'[r] = q /\ \A o \in Requests \ {r} : req'[o] = Idle BY <1>1, <2>2 DEF StockTypes
  <2>7. Idle.kind # "count" BY DEF Idle, Call
  <2>8. req'[r].ops = t BY <2>3, <2>6
  <2> QED BY <2>2, <2>5, <2>6, <2>7, <2>8 DEF CountInv
<1> QED BY <1>3, <1>4

\* A count writes what is there by then.
LEMMA CountWrites ==
  ASSUME StockTypes, CountInv, NEW r \in Requests, Overwrite(r)
  PROVE  /\ CountInv' /\ req[r].ops # <<>> /\ \A l : OnHand(l)' = OnHand(l)
         /\ \E q : Goes(r, q) /\ q.ops = <<>>
         /\ \A l : Due(req[r].ops, l) = 0
<1>1. PICK ops, o : ops = req[r].ops /\ o = ops[1] OBVIOUS
<1>2. /\ ops # <<>> /\ o.op = "overwrite" /\ req[r].kind = "count" /\ DOMAIN quant' = DOMAIN quant
      /\ \A l : /\ OnHand(l)' = IF l = o.at /\ o.at \in DOMAIN quant THEN o.by ELSE OnHand(l)
                /\ Change(o, l) = 0
      /\ Tail(ops) = <<>>
  BY <1>1, OverwriteStep, ZenonT(60)
<1>3. PICK q : Goes(r, q) /\ q.ops = <<>>
  <2>1. \E q : Goes(r, q) /\ q.ops = Tail(ops) BY <1>1, OverwriteStep
  <2> QED BY <1>2, <2>1
<1>4. OpsFit(ops, req[r].kind, req[r].pick, moves) /\ ops \in Seq(Ops) /\ 1 \in 1..Len(ops)
  BY <1>1, <1>2, HeadOf DEF OpsFit
<1>5. ASSUME NEW l PROVE Plan(ops, l) = 0
  <2>1. Plan(ops, l) = Change(ops[1], l) + Plan(Tail(ops), l) BY <1>2, <1>4, PlanTail
  <2>2. Change(ops[1], l) = 0 /\ Plan(Tail(ops), l) = 0 BY <1>1, <1>2, PlanEmpty
  <2> QED BY <2>1, <2>2
<1>6. /\ Orderly /\ \A x \in Requests \ {r} : req[x] = Idle
      /\ o.at \in DOMAIN quant /\ OnHand(o.at) + Plan(ops, o.at) = o.by
  BY <1>1, <1>2, <1>4 DEF CountInv, Counted
<1>7. \A l : OnHand(l) \in Int BY OnHandIs DEF StockTypes
<1>8. \A l : OnHand(l)' = OnHand(l) BY <1>2, <1>5, <1>6, <1>7
<1>9. \A l : Due(ops, l) = 0 BY <1>5 DEF Due
<1>10. CountInv'
  <2>1. req' = [req EXCEPT ![r] = q] BY <1>3 DEF Goes
  <2>2. req'[r] = q /\ \A x \in Requests \ {r} : req'[x] = Idle BY <1>6, <2>1 DEF StockTypes
  <2>3. Idle.kind # "count" BY DEF Idle, Call
  <2>4. PICK t : t = q.ops /\ t = <<>> BY <1>3
  <2>5. Counted(t)' BY <2>4 DEF Counted
  <2>6. req'[r].ops = t BY <2>2, <2>4
  <2> QED BY <1>6, <2>2, <2>3, <2>5, <2>6 DEF CountInv
<1> QED BY <1>1, <1>2, <1>3, <1>8, <1>9, <1>10
-----------------------------------------------------------------------------
(* The ledger.                                                             *)

\* A call that goes on, having changed what is on hand by what it carried and no longer owes.
LEMMA LedgerGoes ==
  ASSUME StockTypes, StockTypes', LedgerInv, NEW r \in Requests, NEW q, req' = [req EXCEPT ![r] = q],
         lost' = lost,
         \A l \in Locations : OnHand(l)' - OnHand(l) =
           (Total(moves', l) - Total(moves, l)) - (Due(q.ops, l) - Due(req[r].ops, l))
  PROVE  LedgerInv'
<1>1. ASSUME NEW l \in Locations
      PROVE  OnHand(l)' - OnHand(l) =
               (Total(moves', l) - Total(moves, l)) - (lost'[l] - lost[l]) - (DueSum(l)' - DueSum(l))
  <2>1. DueSum(l)' = DueSum(l) + Due(q.ops, l) - Due(req[r].ops, l) /\ DueSum(l)' \in Int
    BY DueTurn, DueSumNext
  <2>2. DueSum(l) \in Int /\ Due(req[r].ops, l) \in Int BY DueSumIs
  <2>3. lost[l] \in Int BY DEF StockTypes
  <2>4. Due(q.ops, l) \in Int
    <3>1. req'[r] = q BY DEF StockTypes
    <3>2. PICK ops, k, p, mv : ops = q.ops /\ k = q.kind /\ p = q.pick /\ mv = moves' OBVIOUS
    <3>3. OpsFit(ops, k, p, mv) BY <3>1, <3>2 DEF StockTypes, CallFits
    <3> QED BY <3>2, <3>3, DueIs
  <2>5. PICK a, b, c, d, e, f, g :
          /\ a = OnHand(l)' - OnHand(l) /\ b = Total(moves', l) - Total(moves, l) /\ c = lost[l]
          /\ d = DueSum(l) /\ e = DueSum(l)' /\ f = Due(q.ops, l) /\ g = Due(req[r].ops, l)
    OBVIOUS
  <2>6. Total(moves', l) \in Int /\ Total(moves, l) \in Int BY TotalIs DEF StockTypes
  <2>7. /\ a = b - (f - g) /\ b \in Int /\ c \in Int /\ d \in Int /\ e = d + f - g /\ f \in Int /\ g \in Int
        /\ lost'[l] = c
    BY <2>1, <2>2, <2>3, <2>4, <2>5, <2>6
  <2>8. a = b - (c - c) - (e - d) BY ONLY <2>7
  <2> QED BY <2>5, <2>7, <2>8
<1> QED BY <1>1, LedgerStep

LEMMA LedgerStops ==
  ASSUME StockTypes, StockTypes', LedgerInv, NEW r \in Requests, Stop(r), UNCHANGED <<quant, moves>>
  PROVE  LedgerInv'
<1>1. req' = [req EXCEPT ![r] = Idle] /\ lost' = [l \in Locations |-> lost[l] + Due(req[r].ops, l)]
  BY DEF Stop
<1>2. ASSUME NEW l \in Locations
      PROVE  OnHand(l)' - OnHand(l) =
               (Total(moves', l) - Total(moves, l)) - (lost'[l] - lost[l]) - (DueSum(l)' - DueSum(l))
  <2>1. Due(Idle.ops, l) = 0 BY PlanEmpty DEF Idle, Call, Due
  <2>2. DueSum(l)' = DueSum(l) + Due(Idle.ops, l) - Due(req[r].ops, l) BY <1>1, DueTurn
  <2>3. DueSum(l) \in Int /\ Due(req[r].ops, l) \in Int BY DueSumIs
  <2>4. lost[l] \in Int /\ lost'[l] = lost[l] + Due(req[r].ops, l) BY <1>1 DEF StockTypes
  <2>5. OnHand(l)' = OnHand(l) /\ OnHand(l) \in Int BY OnHandIs DEF OnHand, StockTypes
  <2>6. Total(moves', l) = Total(moves, l) /\ Total(moves, l) \in Int BY TotalIs DEF StockTypes
  <2>7. PICK a, b, c, d, e, f, g :
          /\ a = OnHand(l) /\ b = Total(moves, l) /\ c = lost[l] /\ d = DueSum(l) /\ e = DueSum(l)'
          /\ f = Due(req[r].ops, l) /\ g = lost'[l]
    OBVIOUS
  <2>8. /\ a \in Int /\ b \in Int /\ c \in Int /\ d \in Int /\ f \in Int /\ e = d + 0 - f /\ g = c + f
        /\ OnHand(l)' = a /\ Total(moves', l) = b
    BY <2>1, <2>2, <2>3, <2>4, <2>5, <2>6, <2>7
  <2>9. a - a = (b - b) - (g - c) - (e - d) BY ONLY <2>8
  <2> QED BY <2>7, <2>8, <2>9
<1> QED BY <1>2, LedgerStep

LEMMA LedgerQuiet ==
  ASSUME StockTypes, StockTypes', LedgerInv, NEW r \in Requests, NEW q, Quiet(r, q)
  PROVE  LedgerInv'
<1>1. req' = [req EXCEPT ![r] = q] /\ UNCHANGED <<quant, lost>> BY DEF Quiet
<1>2. ASSUME NEW l \in Locations
      PROVE  OnHand(l)' - OnHand(l) =
               (Total(moves', l) - Total(moves, l)) - (Due(q.ops, l) - Due(req[r].ops, l))
  <2>1. Due(req[r].ops, l) = 0 BY PlanEmpty DEF Quiet, Due
  <2>2. Due(q.ops, l) = 0 /\ Total(moves', l) = Total(moves, l) BY DEF Quiet
  <2>3. OnHand(l)' = OnHand(l) /\ OnHand(l) \in Int BY <1>1, OnHandIs DEF OnHand, StockTypes
  <2>4. Total(moves, l) \in Int BY TotalIs DEF StockTypes
  <2> QED BY <2>1, <2>2, <2>3, <2>4
<1> QED BY <1>1, <1>2, LedgerGoes

LEMMA LedgerNext ==
  ASSUME Orderly \/ Counts = {}, StockTypes, StockTypes', CountInv, LedgerInv, [Next]_vars
  PROVE  CountInv' /\ LedgerInv'
<1>1. ASSUME NEW r \in Requests, req[r] # Idle, Stop(r), UNCHANGED <<quant, moves>>
      PROVE  CountInv' /\ LedgerInv'
  BY <1>1, CountStops, LedgerStops
<1>2. ASSUME NEW r \in Requests, req[r].ops # <<>>, NEW q, Does(r, q)
      PROVE  CountInv' /\ LedgerInv'
  <2>1. CountInv' BY <1>2, CountDoes
  <2>2. /\ req' = [req EXCEPT ![r] = q] /\ lost' = lost
        /\ \A l \in Locations : OnHand(l)' - OnHand(l) =
             (Total(moves', l) - Total(moves, l)) - (Due(q.ops, l) - Due(req[r].ops, l))
    BY <1>2 DEF Does, Goes
  <2> QED BY <2>1, <2>2, LedgerGoes
<1>3. ASSUME NEW r \in Requests, NEW q, Quiet(r, q), q.kind # "count",
             \A o \in Requests \ {r} : req[o].kind # "count"
      PROVE  CountInv' /\ LedgerInv'
  BY <1>3, NoCount, LedgerQuiet DEF Quiet
<1>4. CASE UNCHANGED <<quant, req, lost>> /\ \A l : Total(moves', l) = Total(moves, l)
  <2>1. CountInv'
    <3>1. \A ops : Counted(ops)' <=> Counted(ops) BY <1>4 DEF Counted, OnHand
    <3> QED BY <1>4, <3>1 DEF CountInv
  <2>2. ASSUME NEW l \in Locations
        PROVE  OnHand(l)' - OnHand(l) =
                 (Total(moves', l) - Total(moves, l)) - (lost'[l] - lost[l]) - (DueSum(l)' - DueSum(l))
    <3>1. OnHand(l)' = OnHand(l) /\ DueSum(l)' = DueSum(l) BY <1>4 DEF OnHand, DueSum
    <3>2. OnHand(l) \in Int /\ Total(moves, l) \in Int /\ lost[l] \in Int /\ DueSum(l) \in Int
      BY OnHandIs, TotalIs, DueSumIs DEF StockTypes
    <3>3. Total(moves', l) = Total(moves, l) /\ lost'[l] = lost[l] BY <1>4
    <3> QED BY <3>1, <3>2, <3>3
  <2> QED BY <2>1, <2>2, LedgerStep
<1>5. CASE UNCHANGED vars BY <1>4, <1>5 DEF vars
<1>6. ASSUME NEW p \in DOMAIN pickings, Return(p) PROVE CountInv' /\ LedgerInv'
  <2>1. PICK specs \in Seq(Specs) : AddPicking(0, specs) /\ UNCHANGED <<quant, req, tried, lost>>
    BY <1>6, ReturnIs
  <2>2. Len(pickings) + 1 \in Nat /\ AddMoves(Len(pickings) + 1, specs) BY <2>1 DEF AddPicking, StockTypes
  <2>3. \A l : Total(moves', l) = Total(moves, l) BY <2>2, AddedQuiet
  <2> QED BY <1>4, <2>1, <2>3
<1>7. ASSUME NEW r \in Requests, NEW p \in DOMAIN pickings, NEW b \in BOOLEAN,
             ConfirmBegin(r, p) \/ CancelBegin(r, p) \/ ValidateBegin(r, p, b)
      PROVE  CountInv' /\ LedgerInv'
  <2>1. (\E from : Clear(r, p, from)) /\ \E q : Quiet(r, q) /\ q.kind # "count" BY <1>7, QuietBegin
  <2>2. \A o \in Requests \ {r} : req[o].kind # "count" BY <2>1 DEF Clear, CountInv
  <2> QED BY <1>3, <2>1, <2>2
<1>8. ASSUME NEW r \in Requests, NEW m, ConfirmMove(r, m) \/ ValidateMove(r, m) \/ CancelMove(r, m)
      PROVE  CountInv' /\ LedgerInv'
  <2>1. req[r].kind \in {"confirm", "validate", "cancel"} BY <1>8, QuietTurn
  <2>2. PICK q : Quiet(r, q) /\ (q = Idle \/ q.kind = req[r].kind) BY <1>8, QuietTurn
  <2>3. q.kind # "count" BY <2>1, <2>2 DEF Idle, Call
  <2>4. \A o \in Requests \ {r} : req[o].kind # "count" BY <2>1, InFlight, Busy
  <2> QED BY <1>3, <2>2, <2>3, <2>4
<1>9. ASSUME NEW r \in Requests, ValidateEnd(r) PROVE CountInv' /\ LedgerInv'
  <2>1. req[r].kind = "validate" /\ Quiet(r, Idle) BY <1>9, QuietEnd
  <2>2. Idle.kind # "count" BY DEF Idle, Call
  <2>3. \A o \in Requests \ {r} : req[o].kind # "count" BY <2>1, InFlight, Busy
  <2> QED BY <1>3, <2>1, <2>2, <2>3
<1>10. ASSUME NEW r \in Requests, NEW c \in Counts, Count(r, c[1], c[2]) PROVE CountInv' /\ LedgerInv'
  <2>1. CountInv' /\ \E q : Quiet(r, q) BY <1>10, CountTypes
  <2> QED BY <2>1, LedgerQuiet
<1>11. ASSUME NEW r \in Requests, NEW c \in Scraps, Scrap(r, c[1], c[2]) PROVE CountInv' /\ LedgerInv'
  <2>1. PICK write : write = Op("overwrite", Len(moves) + 1, c[1], 0, None) OBVIOUS
  <2>2. Starts(r, "scrap", c[2], c[1], Loss, write) BY <1>11, <2>1, ScrapIs
  <2>3. PICK q : Quiet(r, q) /\ q.kind = "scrap" BY <2>2, QuietStart
  <2>4. Clear(r, 0, {c[1]}) BY <1>11 DEF Scrap
  <2>5. \A o \in Requests \ {r} : req[o].kind # "count" BY <2>4 DEF Clear, CountInv
  <2> QED BY <1>3, <2>3, <2>5
<1>12. ASSUME NEW r \in Requests,
              AddLine(r) \/ SetState(r) \/ Adjust(r) \/ Insert(r) \/ Release(r) \/ Reserve(r)
       PROVE  CountInv' /\ LedgerInv'
  <2>1. req[r].ops # <<>> /\ ((Stop(r) /\ UNCHANGED <<quant, moves>>) \/ \E q : Does(r, q))
    <3>1. CASE AddLine(r) \/ SetState(r) BY <3>1, EditDone
    <3>2. CASE Adjust(r) \/ Insert(r) \/ Release(r) \/ Reserve(r) BY <3>2, QuantityDone
    <3> QED BY <1>12, <3>1, <3>2
  <2> QED BY <1>1, <1>2, <2>1, InFlight
<1>13. ASSUME NEW r \in Requests, Overwrite(r) PROVE CountInv' /\ LedgerInv'
  <2>1. CountInv' /\ (\A l : OnHand(l)' = OnHand(l)) /\ \A l : Due(req[r].ops, l) = 0
    BY <1>13, CountWrites
  <2>2. PICK q : Goes(r, q) /\ q.ops = <<>> BY <1>13, CountWrites
  <2>3. UNCHANGED <<moves, lost>> BY <1>13 DEF Overwrite, history
  <2>4. ASSUME NEW l \in Locations
        PROVE  OnHand(l)' - OnHand(l) =
                 (Total(moves', l) - Total(moves, l)) - (Due(q.ops, l) - Due(req[r].ops, l))
    <3>1. Due(q.ops, l) = 0 BY <2>2, PlanEmpty DEF Due
    <3>2. OnHand(l) \in Int /\ Total(moves, l) \in Int BY OnHandIs, TotalIs DEF StockTypes
    <3> QED BY <2>1, <2>3, <3>1, <3>2
  <2> QED BY <2>1, <2>2, <2>3, <2>4, LedgerGoes DEF Goes
<1>14. ASSUME NEW r \in Requests, Fails(r) PROVE CountInv' /\ LedgerInv'
  BY <1>1, <1>14 DEF Fails, rows
<1> QED BY <1>5, <1>6, <1>7, <1>8, <1>9, <1>10, <1>11, <1>12, <1>13, <1>14 DEF Next

LEMMA LedgerInit ==
  ASSUME Init PROVE CountInv /\ LedgerInv
<1>1. StockTypes BY TypesInit
<1>2. \A r \in Requests : req[r] = Idle BY DEF Init
<1>3. CountInv BY <1>2 DEF CountInv, Idle, Call
<1>4. ASSUME NEW l \in Locations PROVE OnHand(l) = Base(l) + Total(moves, l) - lost[l] - DueSum(l)
  <2>1. OnHand(l) = Base(l) BY DEF Init, OnHand, Base
  <2>2. lost[l] = 0 BY DEF Init
  <2>3. Total(moves, l) = 0
    <3>1. moves \in Seq(MoveRows) /\ Len(moves) \in Nat BY <1>1 DEF StockTypes
    <3>2. \A m \in 1..Len(moves) : moves[m].lines = <<>> BY <3>1 DEF Init, Draft
    <3>3. \A m \in 1..Len(moves) : CarriedBy(moves[m], l) = 0 BY <3>2, CarriedNone
    <3>4. IsFiniteSet(1..Len(moves)) BY <3>1, FS_Interval
    <3>5. PICK f : f = [m \in 1..Len(moves) |-> CarriedBy(moves[m], l)] OBVIOUS
    <3>6. SumOf(f, 1..Len(moves)) = 0 BY <3>3, <3>4, <3>5, SumZero
    <3> QED BY <3>5, <3>6 DEF Total
  <2>4. DueSum(l) = 0
    <3>1. PICK f : f = [r \in Requests |-> Due(req[r].ops, l)] OBVIOUS
    <3>2. Due(Idle.ops, l) = 0 BY PlanEmpty DEF Idle, Call, Due
    <3>3. \A r \in Requests : f[r] = 0 BY <1>2, <3>1, <3>2
    <3>4. SumOf(f, Requests) = 0 BY <3>3, ConstantsOK, SumZero
    <3> QED BY <3>1, <3>4 DEF DueSum
  <2> QED BY <2>1, <2>2, <2>3, <2>4, BaseInt
<1> QED BY <1>3, <1>4 DEF LedgerInv

\* No order of transfers, scraps and counts, nor of calls that end between two of their
\* transactions, makes or loses a unit: the quantity at a location is what the move lines carried
\* there and away, but for what calls in flight, or cut short, have not done yet. Counts are made
\* when nothing moves, or not at all: one that overwrites a quantity changed since does lose it.
THEOREM StockLedgerHolds ==
  ASSUME Orderly \/ Counts = {}
  PROVE  Spec => []StockLedger
<1>1. Init => StockTypes /\ CountInv /\ LedgerInv BY TypesInit, LedgerInit
<1>2. StockTypes /\ CountInv /\ LedgerInv /\ [Next]_vars => (StockTypes /\ CountInv /\ LedgerInv)'
  BY TypesNext, LedgerNext
<1>3. StockTypes /\ CountInv /\ LedgerInv => StockLedger BY LedgerIs
<1> QED BY <1>1, <1>2, <1>3, PTL DEF Spec
-----------------------------------------------------------------------------
(* Quantities of internal locations.                                       *)

\* A call takes from a location, or is to: what Takes says, of moves given.
Reaches(q, mv, l) ==
  \/ q.kind = "validate" /\ \E m \in q.todo : mv[m].src = l
  \/ \E i \in 1..Len(q.ops) : q.ops[i].op = "adjust" /\ q.ops[i].by < 0 /\ q.ops[i].at = l

LEMMA TakesAre ==
  ASSUME NEW q, q.ops \in Seq(Ops), NEW l
  PROVE  l \in Takes(q) <=> Reaches(q, moves, l)
<1>1. DOMAIN q.ops = 1..Len(q.ops) OBVIOUS
<1> QED BY <1>1 DEF Takes, Reaches

LEMMA ReachesKept ==
  ASSUME NEW q, NEW mv, NEW nv, q.todo \subseteq 1..Len(mv), Keeps(mv, nv), NEW l
  PROVE  Reaches(q, nv, l) <=> Reaches(q, mv, l)
<1>1. \A m \in q.todo : nv[m].src = mv[m].src BY DEF Keeps
<1> QED BY <1>1 DEF Reaches

LEMMA IdleReaches ==
  ASSUME NEW mv, NEW l PROVE ~Reaches(Idle, mv, l)
BY DEF Reaches, Idle, Call

\* What a list of transactions takes is there.
Safe(ops) ==
  \A i \in 1..Len(ops) : ops[i].op \in {"adjust", "insert"} /\ ops[i].at \in Internal /\ ops[i].by < 0 =>
    ops[i].op = "adjust" /\ OnHand(ops[i].at) + ops[i].by >= 0

\* What calls are to take from internal locations is there, for each of them alone.
TakesInv ==
  /\ \A l \in Internal : OnHand(l) >= 0
  /\ \A r, o \in Requests : \A l \in Internal :
       r # o => ~Reaches(req[r], moves, l) \/ ~Reaches(req[o], moves, l)
  /\ \A r \in Requests : Safe(req[r].ops)

LEMMA TakesGo ==
  ASSUME StockTypes, TakesInv, Keeps(moves, moves'), NEW r \in Requests, NEW q,
         req' = [req EXCEPT ![r] = q],
         \A l \in Internal : Reaches(q, moves', l) =>
           \A o \in Requests \ {r} : ~Reaches(req[o], moves, l),
         Safe(q.ops)', \A o \in Requests \ {r} : Safe(req[o].ops)',
         \A l \in Internal : OnHand(l)' >= 0
  PROVE  TakesInv'
<1>1. req'[r] = q /\ \A o \in Requests \ {r} : req'[o] = req[o] BY DEF StockTypes
<1>2. \A o \in Requests \ {r} : \A l : Reaches(req'[o], moves', l) <=> Reaches(req[o], moves, l)
  <2> TAKE o \in Requests \ {r}
  <2> TAKE l
  <2>1. PICK c : c = req[o] OBVIOUS
  <2>2. c.todo \subseteq 1..Len(moves) BY <2>1 DEF StockTypes, CallFits
  <2>3. Reaches(c, moves', l) <=> Reaches(c, moves, l) BY <2>2, ReachesKept
  <2> QED BY <1>1, <2>1, <2>3
<1>3. ASSUME NEW x \in Requests, NEW y \in Requests, NEW l \in Internal, x # y
      PROVE  ~Reaches(req'[x], moves', l) \/ ~Reaches(req'[y], moves', l)
  <2>1. CASE x = r BY <1>1, <1>2, <1>3, <2>1
  <2>2. CASE y = r BY <1>1, <1>2, <1>3, <2>2
  <2>3. CASE x # r /\ y # r BY <1>2, <1>3, <2>3 DEF TakesInv
  <2> QED BY <2>1, <2>2, <2>3
<1>4. ASSUME NEW o \in Requests PROVE Safe(req[o].ops)'
  <2>1. CASE o = r
    <3>1. PICK t : t = q.ops OBVIOUS
    <3>2. Safe(t)' BY <3>1 DEF Safe
    <3>3. req'[o].ops = t BY <1>1, <2>1, <3>1
    <3> QED BY <3>2, <3>3 DEF Safe
  <2>2. CASE o # r
    <3>1. PICK t : t = req[o].ops OBVIOUS
    <3>2. req'[o].ops = t BY <1>1, <2>2, <3>1
    <3> QED BY <2>2, <3>1, <3>2 DEF Safe
  <2> QED BY <2>1, <2>2
<1> QED BY <1>3, <1>4 DEF TakesInv

\* .. while the quantities stay.
LEMMA TakesSame ==
  ASSUME StockTypes, TakesInv, Keeps(moves, moves'), NEW r \in Requests, NEW q,
         req' = [req EXCEPT ![r] = q], \A l : OnHand(l)' = OnHand(l),
         \A l \in Internal : Reaches(q, moves, l) =>
           \A o \in Requests \ {r} : ~Reaches(req[o], moves, l),
         q.todo \subseteq 1..Len(moves), Safe(q.ops)
  PROVE  TakesInv'
<1>1. \A o \in Requests \ {r} : req'[o] = req[o] BY DEF StockTypes
<1>2. \A t : Safe(t)' <=> Safe(t) BY DEF Safe
<1>3. Safe(q.ops)'
  <2>1. PICK t : t = q.ops OBVIOUS
  <2>2. Safe(t)' BY <1>2, <2>1
  <2> QED BY <2>1, <2>2 DEF Safe
<1>4. ASSUME NEW o \in Requests \ {r} PROVE Safe(req[o].ops)'
  <2>1. PICK t : t = req[o].ops OBVIOUS
  <2>2. Safe(t)' BY <1>2, <2>1 DEF TakesInv
  <2>3. req'[o].ops = t BY <1>1, <2>1
  <2> QED BY <2>2, <2>3 DEF Safe
<1>5. ASSUME NEW l \in Internal, Reaches(q, moves', l)
      PROVE  \A o \in Requests \ {r} : ~Reaches(req[o], moves, l)
  <2>1. Reaches(q, moves', l) <=> Reaches(q, moves, l) BY ReachesKept
  <2> QED BY <1>5, <2>1
<1>6. \A l \in Internal : OnHand(l)' >= 0 BY DEF TakesInv
<1> QED BY <1>3, <1>4, <1>5, <1>6, TakesGo

\* A call that is over takes nothing.
LEMMA TakesIdle ==
  ASSUME StockTypes, TakesInv, Keeps(moves, moves'), NEW r \in Requests,
         req' = [req EXCEPT ![r] = Idle], \A l : OnHand(l)' = OnHand(l)
  PROVE  TakesInv'
<1>1. Safe(Idle.ops) /\ Idle.todo = {} BY DEF Idle, Call, Safe
<1> QED BY <1>1, IdleReaches, TakesSame

\* Having done what was first, a call takes nothing it did not, and nothing more once it took.
LEMMA TakesTail ==
  ASSUME StockTypes, TakesInv, NEW r \in Requests, req[r].ops # <<>>, NEW q, Goes(r, q),
         q.ops = Tail(req[r].ops)
  PROVE  /\ \A l : Reaches(q, moves, l) => Reaches(req[r], moves, l)
         /\ q.todo \subseteq 1..Len(moves) /\ Safe(q.ops)
         /\ req[r].ops[1].op \in {"adjust", "insert"} =>
              \A i \in 1..Len(q.ops) : q.ops[i].op # "adjust" \/ q.ops[i].by >= 0
<1>1. PICK ops, t, n : ops = req[r].ops /\ t = q.ops /\ n = Len(ops) OBVIOUS
<1>2. OpsFit(ops, req[r].kind, req[r].pick, moves) /\ ops \in Seq(Ops) BY <1>1, HeadOf DEF OpsFit
<1>3. n \in Nat \ {0} /\ Len(t) = n - 1 /\ \A i \in 1..(n - 1) : t[i] = ops[i + 1] /\ i + 1 \in 1..n
  BY <1>1, <1>2, Tails
<1>4. \A i \in 1..Len(t) : t[i] = ops[i + 1] /\ i + 1 \in 1..n BY <1>3
<1>5. ASSUME NEW l, Reaches(q, moves, l) PROVE Reaches(req[r], moves, l)
  <2>1. CASE q = Idle BY <1>5, <2>1, IdleReaches
  <2>2. CASE q # Idle
    <3>1. q.kind = req[r].kind /\ q.todo = req[r].todo BY <2>2 DEF Goes
    <3>2. CASE q.kind = "validate" /\ \E m \in q.todo : moves[m].src = l BY <3>1, <3>2 DEF Reaches
    <3>3. CASE \E i \in 1..Len(t) : t[i].op = "adjust" /\ t[i].by < 0 /\ t[i].at = l
      BY <1>1, <1>4, <3>3 DEF Reaches
    <3> QED BY <1>1, <1>5, <3>2, <3>3 DEF Reaches
  <2> QED BY <2>1, <2>2
<1>6. q.todo \subseteq 1..Len(moves) BY DEF Goes, StockTypes, CallFits
<1>7. Safe(q.ops)
  <2>1. Safe(ops) BY <1>1 DEF TakesInv
  <2>2. ASSUME NEW i \in 1..Len(t), t[i].op \in {"adjust", "insert"}, t[i].at \in Internal, t[i].by < 0
        PROVE  t[i].op = "adjust" /\ OnHand(t[i].at) + t[i].by >= 0
    BY <1>1, <1>4, <2>1, <2>2 DEF Safe
  <2> QED BY <1>1, <2>2 DEF Safe
<1>8. ASSUME ops[1].op \in {"adjust", "insert"}, NEW i \in 1..Len(t), t[i].op = "adjust"
      PROVE  t[i].by >= 0
  <2>1. i + 1 \in 1..n /\ i + 1 # 1 /\ t[i] = ops[i + 1] BY <1>4
  <2>2. ~(t[i].by < 0) BY <1>1, <1>2, <1>8, <2>1 DEF OpsFit, Ordered
  <2>3. t[i] \in Ops BY <1>1, <1>2, <2>1
  <2> QED BY <2>2, <2>3 DEF Ops
<1> QED BY <1>1, <1>5, <1>6, <1>7, <1>8

\* A transaction is done that changes a quantity.
LEMMA TakesChange ==
  ASSUME StockTypes, TakesInv, moves' = moves, NEW r \in Requests, NEW ops, NEW o, ops = req[r].ops,
         o = ops[1], ops # <<>>, o.op \in {"adjust", "insert"}, NEW q, Goes(r, q), q.ops = Tail(ops),
         \A l : OnHand(l)' = OnHand(l) + Change(o, l)
  PROVE  TakesInv'
<1>1. o \in Ops /\ 1 \in 1..Len(ops) BY HeadOf
<1>2. o.by \in Int /\ (\A l : OnHand(l) \in Int) BY <1>1, OnHandIs DEF Ops, StockTypes
<1>3. PICK a, n : a = o.at /\ n = o.by OBVIOUS
<1>4. n \in Int /\ \A l : OnHand(l)' = OnHand(l) + (IF l = a THEN n ELSE 0)
  BY <1>2, <1>3 DEF Change
<1>5. a \in Internal /\ n < 0 => o.op = "adjust" /\ OnHand(a) + n >= 0
  BY <1>1, <1>3 DEF TakesInv, Safe
<1>6. ASSUME NEW l \in Internal PROVE OnHand(l)' >= 0
  <2>1. OnHand(l) >= 0 BY DEF TakesInv
  <2> QED BY <1>2, <1>4, <1>5, <2>1
<1>7. /\ \A l : Reaches(q, moves, l) => Reaches(req[r], moves, l)
      /\ q.todo \subseteq 1..Len(moves) /\ Safe(q.ops)
      /\ \A i \in 1..Len(q.ops) : q.ops[i].op # "adjust" \/ q.ops[i].by >= 0
  BY TakesTail
<1>8. Safe(q.ops)'
  <2>1. PICK t : t = q.ops OBVIOUS
  <2>2. ASSUME NEW i \in 1..Len(t), t[i].op \in {"adjust", "insert"}, t[i].at \in Internal, t[i].by < 0 PROVE FALSE
    <3>1. t[i].op = "adjust" BY <1>7, <2>1, <2>2 DEF Safe
    <3>2. t[i].by >= 0 BY <1>7, <2>1, <2>2, <3>1
    <3>3. t[i].by \in Int
      <4>1. ops \in Seq(Ops) BY HeadOf DEF OpsFit
      <4>2. t \in Seq(Ops) BY <2>1, <4>1, Tails
      <4>3. t[i] \in Ops BY <4>2
      <4> QED BY <4>3 DEF Ops
    <3> QED BY <2>2, <3>2, <3>3
  <2>3. Safe(t)' BY <2>2 DEF Safe
  <2> QED BY <2>1, <2>3 DEF Safe
<1>9. ASSUME NEW c \in Requests \ {r} PROVE Safe(req[c].ops)'
  <2>1. PICK p, t : p = req[c] /\ t = p.ops OBVIOUS
  <2>2. req'[c].ops = t /\ p \in Calls /\ t \in Seq(Ops) BY <2>1 DEF Goes, StockTypes, Calls
  <2>3. ASSUME NEW i \in 1..Len(t), t[i].op \in {"adjust", "insert"}, t[i].at \in Internal, t[i].by < 0
        PROVE  t[i].op = "adjust" /\ OnHand(t[i].at)' + t[i].by >= 0
    <3>1. t[i].op = "adjust" /\ OnHand(t[i].at) + t[i].by >= 0 BY <2>1, <2>3 DEF TakesInv, Safe
    <3>2. t[i].at = a => n >= 0
      <4>1. SUFFICES ASSUME t[i].at = a, n < 0 PROVE FALSE BY <1>4
      <4>2. Reaches(p, moves, a) BY <2>1, <2>3, <3>1, <4>1 DEF Reaches
      <4>3. Reaches(req[r], moves, a) BY <1>1, <1>3, <1>5, <2>3, <4>1 DEF Reaches
      <4> QED BY <2>1, <2>3, <4>1, <4>2, <4>3 DEF TakesInv
    <3>3. PICK l, x, y : l = t[i].at /\ x = OnHand(l) /\ y = OnHand(l)' OBVIOUS
    <3>4. t[i].by \in Int /\ x \in Int /\ y = x + (IF l = a THEN n ELSE 0) /\ x + t[i].by >= 0
      <4>1. t[i] \in Ops BY <2>2
      <4>2. t[i].by \in Int BY <4>1 DEF Ops
      <4> QED BY <1>2, <1>4, <3>1, <3>3, <4>2
    <3>5. y + t[i].by >= 0 BY <1>4, <3>2, <3>3, <3>4
    <3> QED BY <3>1, <3>3, <3>5
  <2>4. Safe(t)' BY <2>3 DEF Safe
  <2> QED BY <2>2, <2>4 DEF Safe
<1>10. Keeps(moves, moves') /\ req' = [req EXCEPT ![r] = q] BY KeepsSame DEF Goes, StockTypes
<1>11. \A l \in Internal : Reaches(q, moves', l) => \A c \in Requests \ {r} : ~Reaches(req[c], moves, l)
  BY <1>7 DEF TakesInv
<1> QED BY <1>6, <1>8, <1>9, <1>10, <1>11, TakesGo

\* The steps of a call in flight, once it has decided on them.
LEMMA TakesDone ==
  ASSUME StockTypes, StockTypes', CountInv, TakesInv, NEW r \in Requests,
         \/ AddLine(r) \/ SetState(r) \/ Adjust(r) \/ Insert(r) \/ Release(r) \/ Reserve(r) \/ Overwrite(r)
         \/ Fails(r)
  PROVE  TakesInv'
<1>1. PICK ops, o : ops = req[r].ops /\ o = ops[1] OBVIOUS
<1>2. moves \in Seq(MoveRows) /\ \A l : OnHand(l) \in Int BY OnHandIs DEF StockTypes
<1>3. ASSUME Stop(r), UNCHANGED <<quant, moves>> PROVE TakesInv'
  <2>1. req' = [req EXCEPT ![r] = Idle] /\ \A l : OnHand(l)' = OnHand(l) BY <1>3 DEF Stop, OnHand
  <2> QED BY <1>2, <1>3, <2>1, KeepsSame, TakesIdle
<1>4. ASSUME ops # <<>>, Keeps(moves, moves'), \A l : OnHand(l)' = OnHand(l),
             NEW q, Goes(r, q), q.ops = Tail(ops)
      PROVE  TakesInv'
  <2>1. /\ \A l : Reaches(q, moves, l) => Reaches(req[r], moves, l)
        /\ q.todo \subseteq 1..Len(moves) /\ Safe(q.ops) /\ req' = [req EXCEPT ![r] = q]
    BY <1>1, <1>4, TakesTail DEF Goes
  <2>2. \A l \in Internal : Reaches(q, moves, l) => \A c \in Requests \ {r} : ~Reaches(req[c], moves, l)
    BY <2>1 DEF TakesInv
  <2> QED BY <1>4, <2>1, <2>2, TakesSame
<1>5. CASE AddLine(r)
  <2>1. Keeps(moves, moves') /\ ops # <<>> /\ Done(r, <<>>) /\ quant' = quant
    BY <1>1, <1>5, EditTypes, LineAdded
  <2>2. \E q : Goes(r, q) /\ q.ops = Tail(ops) BY <1>1, <2>1, DoneTail
  <2> QED BY <1>4, <2>1, <2>2 DEF OnHand
<1>6. CASE SetState(r)
  <2>1. /\ Keeps(moves, moves') /\ ops # <<>> /\ quant' = quant
        /\ (Stop(r) /\ moves' = moves) \/ Done(r, <<>>)
    BY <1>1, <1>6, EditTypes, StateSet
  <2>2. CASE Stop(r) /\ moves' = moves BY <1>3, <2>1, <2>2
  <2>3. CASE Done(r, <<>>)
    <3>1. \E q : Goes(r, q) /\ q.ops = Tail(ops) BY <1>1, <2>1, <2>3, DoneTail
    <3> QED BY <1>4, <2>1, <3>1 DEF OnHand
  <2> QED BY <2>1, <2>2, <2>3
<1>7. CASE Insert(r)
  <2>1. ops # <<>> /\ o.op = "insert" /\ moves' = moves BY <1>1, <1>7, InsertStep
  <2>2. CASE Stop(r) /\ quant' = quant BY <1>3, <2>1, <2>2
  <2>3. CASE ~(Stop(r) /\ quant' = quant)
    <3>1. /\ \A l : OnHand(l)' = OnHand(l) + Change(o, l)
          /\ \E q : Goes(r, q) /\ q.ops = Tail(ops)
      BY <1>1, <1>7, <2>3, InsertStep
    <3> QED BY <1>1, <2>1, <3>1, TakesChange
  <2> QED BY <2>2, <2>3
<1>8. CASE Release(r)
  <2>1. /\ ops # <<>> /\ moves' = moves /\ \A l : OnHand(l)' = OnHand(l)
        /\ \E q : Goes(r, q) /\ q.ops = Tail(ops)
    BY <1>1, <1>8, ReleaseStep
  <2> QED BY <1>2, <1>4, <2>1, KeepsSame
<1>9. CASE Overwrite(r)
  <2>1. req[r].ops # <<>> /\ (\A l : OnHand(l)' = OnHand(l)) /\ moves' = moves
    BY <1>9, CountWrites, ZenonT(60) DEF Overwrite
  <2>2. Tail(ops) = <<>> /\ \E q : Goes(r, q) /\ q.ops = Tail(ops) BY <1>1, <1>9, OverwriteStep
  <2> QED BY <1>1, <1>2, <1>4, <2>1, <2>2, KeepsSame
<1>10. CASE Fails(r) BY <1>3, <1>10 DEF Fails, rows
<1>11. CASE Reserve(r)
  <2>1. /\ ops # <<>> /\ moves' = moves /\ req[r].kind = "confirm" /\ Resolves(r, o.move)
        /\ \A l : OnHand(l)' = OnHand(l)
    BY <1>1, <1>11, ReserveStep
  <2>2. PICK q, s : /\ Goes(r, q) /\ q.ops = <<s>> /\ s \in Ops /\ s.op = "state"
                    /\ \A l : Plan(<<s>>, l) = 0
    BY <2>1 DEF Resolves
  <2>3. q.ops \in Seq(Ops) /\ Len(q.ops) = 1 /\ q.ops[1] = s BY <2>2, One
  <2>4. Safe(q.ops) BY <2>2, <2>3 DEF Safe
  <2>5. q.kind # "validate" BY <2>1, <2>2 DEF Goes, Idle, Call
  <2>6. \A l : ~Reaches(q, moves, l) BY <2>2, <2>3, <2>5 DEF Reaches
  <2>7. q.todo \subseteq 1..Len(moves) BY <2>2 DEF Goes, StockTypes, CallFits
  <2>8. req' = [req EXCEPT ![r] = q] /\ Keeps(moves, moves') BY <1>2, <2>1, <2>2, KeepsSame DEF Goes
  <2> QED BY <2>1, <2>4, <2>6, <2>7, <2>8, TakesSame
<1>12. CASE Adjust(r)
  <2>1. ops # <<>> /\ o.op = "adjust" /\ moves' = moves BY <1>1, <1>12, AdjustStep
  <2>2. PICK q : /\ Goes(r, q)
                 /\ \/ /\ q.ops = Tail(ops) /\ \A l : OnHand(l)' = OnHand(l) + Change(o, l)
                    \/ /\ q.ops = <<[o EXCEPT !.op = "insert"]>> \o Tail(ops)
                       /\ o.at \notin DOMAIN quant /\ quant' = quant
    BY <1>1, <1>12, AdjustStep, ZenonT(60)
  <2>3. CASE q.ops = Tail(ops) /\ \A l : OnHand(l)' = OnHand(l) + Change(o, l)
    BY <1>1, <2>1, <2>2, <2>3, TakesChange
  <2>4. CASE q.ops = <<[o EXCEPT !.op = "insert"]>> \o Tail(ops) /\ o.at \notin DOMAIN quant /\ quant' = quant
    <3>1. OpsFit(ops, req[r].kind, req[r].pick, moves) /\ o \in Ops /\ ops \in Seq(Ops)
      BY <1>1, <2>1, HeadOf DEF OpsFit
    <3>2. PICK x, t, n : x = [o EXCEPT !.op = "insert"] /\ t = q.ops /\ n = Len(ops) OBVIOUS
    <3>3. x \in Ops /\ x.op = "insert" /\ x.at = o.at /\ x.by = o.by BY <3>1, <3>2 DEF Ops, OpNames
    <3>4. t = <<x>> \o Tail(ops) BY <2>4, <3>2
    <3>5. t # <<>> /\ Len(t) = n /\ t[1] = x /\ \A i \in 1..n : i # 1 => t[i] = ops[i]
      BY ONLY <2>1, <3>1, <3>2, <3>3, <3>4, Replaced
    <3>6. n \in Nat \ {0} /\ 1 \in 1..n BY <2>1, <3>1, <3>2, Tails
    <3>7. Safe(ops) BY <1>1 DEF TakesInv
    <3>8. ~(o.at \in Internal /\ o.by < 0)
      <4>1. OnHand(o.at) = 0 BY <2>4 DEF OnHand
      <4>2. o.at \in Internal /\ o.by < 0 => OnHand(o.at) + o.by >= 0 BY <1>1, <2>1, <3>2, <3>6, <3>7 DEF Safe
      <4>3. o.by \in Int BY <3>1 DEF Ops
      <4> QED BY <4>1, <4>2, <4>3
    <3>9. Safe(t)
      <4>1. ASSUME NEW i \in 1..Len(t), t[i].op \in {"adjust", "insert"}, t[i].at \in Internal, t[i].by < 0
            PROVE  t[i].op = "adjust" /\ OnHand(t[i].at) + t[i].by >= 0
        <5>1. i # 1 BY <3>3, <3>5, <3>8, <4>1
        <5>2. i \in 1..n /\ t[i] = ops[i] BY <3>5, <4>1, <5>1
        <5> QED BY <3>2, <3>7, <4>1, <5>2 DEF Safe
      <4> QED BY <4>1 DEF Safe
    <3>10. ASSUME NEW l, Reaches(q, moves, l) PROVE Reaches(req[r], moves, l)
      <4>1. CASE q = Idle BY <3>10, <4>1, IdleReaches
      <4>2. CASE q # Idle
        <5>1. q.kind = req[r].kind /\ q.todo = req[r].todo BY <2>2, <4>2 DEF Goes
        <5>2. CASE q.kind = "validate" /\ \E m \in q.todo : moves[m].src = l BY <5>1, <5>2 DEF Reaches
        <5>3. CASE \E i \in 1..Len(t) : t[i].op = "adjust" /\ t[i].by < 0 /\ t[i].at = l
          <6>1. PICK i \in 1..n : t[i].op = "adjust" /\ t[i].by < 0 /\ t[i].at = l BY <3>5, <5>3
          <6>2. i # 1 BY <3>3, <3>5, <6>1
          <6>3. t[i] = ops[i] BY <3>5, <6>2
          <6> QED BY <1>1, <3>2, <6>1, <6>3 DEF Reaches
        <5> QED BY <3>2, <3>10, <5>2, <5>3 DEF Reaches
      <4> QED BY <4>1, <4>2
    <3>11. \A l \in Internal : Reaches(q, moves, l) => \A c \in Requests \ {r} : ~Reaches(req[c], moves, l)
      BY <3>10 DEF TakesInv
    <3>12. /\ q.todo \subseteq 1..Len(moves) /\ req' = [req EXCEPT ![r] = q] /\ Keeps(moves, moves')
           /\ \A l : OnHand(l)' = OnHand(l)
      BY <1>2, <2>1, <2>2, <2>4, KeepsSame DEF Goes, StockTypes, CallFits, OnHand
    <3>13. Safe(q.ops) BY <3>2, <3>9
    <3> QED BY <3>11, <3>12, <3>13, TakesSame
  <2> QED BY <2>2, <2>3, <2>4
<1> QED BY <1>5, <1>6, <1>7, <1>8, <1>9, <1>10, <1>11, <1>12

LEMMA TakesBegin ==
  ASSUME Orderly, StockTypes, TakesInv, NEW r \in Requests, NEW p, NEW b,
         ConfirmBegin(r, p) \/ CancelBegin(r, p) \/ ValidateBegin(r, p, b)
  PROVE  TakesInv'
<1>1. PICK k, todo, back :
        /\ Begin(r, Call(k, p, todo, <<>>, <<>>, back)) /\ UNCHANGED <<rows, tried, history>>
        /\ todo \in {Of(p), OpenOf(p)}
        /\ k = "validate" => Clear(r, p, {moves[m].src : m \in Of(p)} \cap Internal)
  <2>1. CASE ConfirmBegin(r, p)
    <3>1. /\ Begin(r, Call("confirm", p, Of(p), <<>>, <<>>, FALSE)) /\ UNCHANGED <<rows, tried, history>>
          /\ "confirm" # "validate"
      BY <2>1 DEF ConfirmBegin
    <3> QED BY ONLY <3>1
  <2>2. CASE CancelBegin(r, p)
    <3>1. /\ Begin(r, Call("cancel", p, OpenOf(p), <<>>, <<>>, FALSE)) /\ UNCHANGED <<rows, tried, history>>
          /\ "cancel" # "validate"
      BY <2>2 DEF CancelBegin
    <3> QED BY ONLY <3>1
  <2>3. CASE ValidateBegin(r, p, b) BY <2>3 DEF ValidateBegin
  <2> QED BY <2>1, <2>2, <2>3
<1>2. PICK q : q = Settle(Call(k, p, todo, <<>>, <<>>, back)) OBVIOUS
<1>3. /\ q.ops = <<>> /\ req' = [req EXCEPT ![r] = q]
      /\ q = Idle \/ (q.kind = k /\ q.todo = todo)
  BY <1>1, <1>2 DEF Settle, Call, Idle, Begin
<1>4. todo \subseteq Of(p) /\ \A m \in todo : m \in 1..Len(moves) BY <1>1, OfIs DEF OpenOf
<1>5. q.todo \subseteq 1..Len(moves) BY <1>3, <1>4 DEF Idle, Call
<1>6. Safe(q.ops) BY <1>3 DEF Safe
<1>7. moves \in Seq(MoveRows) /\ UNCHANGED <<quant, moves>> BY <1>1 DEF StockTypes, rows
<1>8. ASSUME NEW l \in Internal, Reaches(q, moves, l), NEW o \in Requests \ {r}
      PROVE  ~Reaches(req[o], moves, l)
  <2>1. q # Idle BY <1>8, IdleReaches
  <2>2. k = "validate" /\ \E m \in todo : moves[m].src = l BY <1>3, <1>8, <2>1 DEF Reaches
  <2>3. l \in {moves[m].src : m \in Of(p)} \cap Internal BY <1>4, <1>8, <2>2
  <2>4. Takes(req[o]) \cap ({moves[m].src : m \in Of(p)} \cap Internal) = {}
    BY <1>1, <2>2 DEF Clear
  <2>5. l \notin Takes(req[o]) BY <2>3, <2>4
  <2>6. req[o].ops \in Seq(Ops) BY DEF StockTypes, CallFits, OpsFit
  <2> QED BY <2>5, <2>6, TakesAre
<1> QED BY <1>3, <1>5, <1>6, <1>7, <1>8, KeepsSame, TakesSame DEF OnHand

LEMMA TakesTurn ==
  ASSUME StockTypes, TakesInv, NEW r \in Requests, NEW m, NEW q, NEW ops, Turned(r, m, q, ops),
         UNCHANGED <<quant, moves>>,
         \A i \in 1..Len(ops) : ops[i].op \in {"adjust", "insert"} /\ ops[i].by < 0 =>
           /\ req[r].kind = "validate" /\ ops[i].op = "adjust" /\ ops[i].at = moves[m].src
           /\ ops[i].at \in Internal => OnHand(ops[i].at) + ops[i].by >= 0
  PROVE  TakesInv'
<1>1. /\ req' = [req EXCEPT ![r] = q] /\ q.ops = ops /\ m \in req[r].todo
      /\ q = Idle \/ (q.kind = req[r].kind /\ q.todo = req[r].todo \ {m})
  BY DEF Turned
<1>2. req[r].todo \subseteq 1..Len(moves) BY DEF StockTypes, CallFits
<1>3. q.todo \subseteq 1..Len(moves) BY <1>1, <1>2 DEF Idle, Call
<1>4. Safe(ops) BY DEF Safe
<1>5. ASSUME NEW l \in Internal, Reaches(q, moves, l) PROVE Reaches(req[r], moves, l)
  <2>1. q # Idle BY <1>5, IdleReaches
  <2>2. CASE q.kind = "validate" /\ \E x \in q.todo : moves[x].src = l BY <1>1, <2>1, <2>2 DEF Reaches
  <2>3. CASE \E i \in 1..Len(ops) : ops[i].op = "adjust" /\ ops[i].by < 0 /\ ops[i].at = l
    BY <1>1, <2>3 DEF Reaches
  <2> QED BY <1>1, <1>5, <2>2, <2>3 DEF Reaches
<1>6. \A l \in Internal : Reaches(q, moves, l) => \A o \in Requests \ {r} : ~Reaches(req[o], moves, l)
  BY <1>5 DEF TakesInv
<1>7. Keeps(moves, moves') BY KeepsSame DEF StockTypes
<1> QED BY <1>1, <1>3, <1>4, <1>6, <1>7, TakesSame DEF OnHand

\* A call goes on to its next move.
LEMMA TakesMove ==
  ASSUME StockTypes, TakesInv, NEW r \in Requests, NEW m,
         ConfirmMove(r, m) \/ ValidateMove(r, m) \/ CancelMove(r, m)
  PROVE  TakesInv'
<1>1. UNCHANGED <<quant, moves>> BY ConfirmTypes, ValidateTypes, CancelTypes
<1>2. ASSUME NEW q, NEW ops, Turned(r, m, q, ops), \A i \in 1..Len(ops) : ops[i].op \notin {"adjust", "insert"}
      PROVE  TakesInv'
  BY <1>1, <1>2, TakesTurn
<1>3. CASE ConfirmMove(r, m)
  <2>1. PICK q, ops, o : /\ Turned(r, m, q, ops) /\ (ops = <<>> \/ ops = <<o>>) /\ o \in Ops
                         /\ o.op \in {"state", "reserve"}
    BY <1>3, ConfirmTypes
  <2>2. \A i \in 1..Len(ops) : ops[i].op \notin {"adjust", "insert"}
    <3>1. CASE ops = <<>> BY <3>1
    <3>2. CASE ops = <<o>>
      <4>1. ops \in Seq(Ops) /\ Len(ops) = 1 /\ ops[1] = o BY <2>1, <3>2, One
      <4> QED BY <2>1, <4>1
    <3> QED BY <2>1, <3>1, <3>2
  <2> QED BY <1>2, <2>1, <2>2
<1>4. CASE CancelMove(r, m)
  <2>1. PICK q, ops, free, state :
          /\ Turned(r, m, q, ops) /\ free.op = "release" /\ state.op = "state"
          /\ Two(ops, free, state) \/ (ops \in Seq(Ops) /\ Len(ops) = 1 /\ ops[1] = state)
    BY <1>4, CancelIs
  <2>2. 1..2 = {1, 2} /\ 1..1 = {1} OBVIOUS
  <2>3. \A i \in 1..Len(ops) : ops[i].op \notin {"adjust", "insert"} BY <2>1, <2>2 DEF Two
  <2> QED BY <1>2, <2>1, <2>3
<1>5. CASE ValidateMove(r, m)
  <2>1. PICK q, ops, done, line, out, free, inn, rest, state :
          /\ Turned(r, m, q, ops) /\ done = DoQty(moves[m]) /\ done \in 0..moves[m].demand
          /\ Carries(m, moves[m], done, line, out, free, inn, rest, state, ops)
    BY <1>5, ValidateIs
  <2>2. moves[m] \in MoveRows /\ QuantTypes /\ req[r].kind = "validate"
    BY <1>5, <2>1, ValidateIs DEF Turned, StockTypes
  <2>3. done \in Nat /\ (moves[m].src \in Internal /\ done > 0 => done <= OnHand(moves[m].src))
    BY <2>1, <2>2, DoQtyIs
  <2>4. OnHand(moves[m].src) \in Int BY <2>2, OnHandIs
  <2>5. ASSUME NEW i \in 1..Len(ops), ops[i].op \in {"adjust", "insert"}, ops[i].by < 0
        PROVE  ops[i] = out /\ done > 0
    <3>1. 1..1 = {1} /\ 1..2 = {1, 2} /\ 1..4 = {1, 2, 3, 4} /\ 1..5 = {1, 2, 3, 4, 5}
          /\ 1..6 = {1, 2, 3, 4, 5, 6}
      OBVIOUS
    <3>2. done > 0 BY <2>1, <2>3, <2>5, <3>1 DEF Carries, Two
    <3>3. /\ line.op = "line" /\ free.op = "release" /\ inn.by = done /\ rest.op = "release"
          /\ state.op = "state"
          /\ \/ Four(ops, line, out, inn, state) \/ Six(ops, line, out, free, inn, rest, state)
             \/ Five(ops, line, out, free, inn, state)
      BY <2>1, <3>2 DEF Carries
    <3>4. \/ ops[i] = line \/ ops[i] = out \/ ops[i] = free \/ ops[i] = inn \/ ops[i] = rest \/ ops[i] = state
      BY ONLY <2>5, <3>1, <3>3 DEF Four, Five, Six
    <3> QED BY <2>3, <2>5, <3>2, <3>3, <3>4
  <2>6. \A i \in 1..Len(ops) : ops[i].op \in {"adjust", "insert"} /\ ops[i].by < 0 =>
          /\ req[r].kind = "validate" /\ ops[i].op = "adjust" /\ ops[i].at = moves[m].src
          /\ ops[i].at \in Internal => OnHand(ops[i].at) + ops[i].by >= 0
    BY <2>1, <2>2, <2>3, <2>4, <2>5 DEF Carries
  <2> QED BY <1>1, <2>1, <2>6, TakesTurn
<1> QED BY <1>3, <1>4, <1>5

\* A scrap or a count begins that takes no more than is there, from where no other call takes.
LEMMA TakesStart ==
  ASSUME StockTypes, TakesInv, NEW r \in Requests, NEW k \in {"scrap", "count"}, NEW n \in Nat, NEW from,
         NEW to, NEW write, Starts(r, k, n, from, to, write),
         from \in Internal => /\ OnHand(from) - n >= 0
                              /\ \A o \in Requests \ {r} : ~Reaches(req[o], moves, from)
  PROVE  TakesInv'
<1>1. PICK q, ops, specs :
        /\ req' = [req EXCEPT ![r] = q] /\ req[r] = Idle /\ q = Call(k, 0, {}, ops, <<>>, FALSE)
        /\ q \in Calls /\ q.kind = k /\ q.pick = 0 /\ q.todo = {} /\ q.ops = ops
        /\ specs \in Seq(Specs) /\ AddMoves(0, specs) /\ CallFits(q, moves', Len(pickings))
        /\ UNCHANGED <<quant, pickings, tried, lost>>
        /\ OpsFit(ops, k, 0, moves') /\ ops # <<>>
        /\ ops[1].op = "line" /\ ops[1].by = n /\ ops[1].at = from /\ ops[1].to = to
        /\ \A i \in 1..Len(ops) :
             /\ ops[i].op \in {"line", "adjust", "state", "overwrite"}
             /\ ops[i].op = "overwrite" => k = "count" /\ ops[i] = write
             /\ ops[i].op = "adjust" /\ ops[i].by < 0 => ops[i].at = from /\ ops[i].by = -n
  BY DEF Starts
<1>2. Keeps(moves, moves')
  <2>1. Extended(moves, 0, specs, moves') BY <1>1 DEF Extended, AddMoves, StockTypes
  <2> QED BY <2>1, MovesAdded
<1>3. Safe(ops)
  <2>1. OnHand(from) \in Int BY OnHandIs DEF StockTypes
  <2>2. ASSUME NEW i \in 1..Len(ops), ops[i].op \in {"adjust", "insert"}, ops[i].at \in Internal, ops[i].by < 0
        PROVE  ops[i].op = "adjust" /\ OnHand(ops[i].at) + ops[i].by >= 0
    <3>1. ops[i].op = "adjust" /\ ops[i].at = from /\ ops[i].by = -n BY <1>1, <2>2
    <3> QED BY <2>1, <2>2, <3>1
  <2> QED BY <2>2 DEF Safe
<1>4. ASSUME NEW l \in Internal, Reaches(q, moves, l) PROVE l = from BY <1>1, <1>4, ZenonT(60) DEF Reaches
<1>5. q.todo \subseteq 1..Len(moves) /\ \A l : OnHand(l)' = OnHand(l) BY <1>1 DEF OnHand
<1>6. \A l \in Internal : Reaches(q, moves, l) => \A o \in Requests \ {r} : ~Reaches(req[o], moves, l)
  BY <1>4
<1>7. Safe(q.ops) BY <1>1, <1>3
<1> QED BY <1>1, <1>2, <1>5, <1>6, <1>7, TakesSame

LEMMA TakesNext ==
  ASSUME Orderly, StockTypes, StockTypes', CountInv, TakesInv, [Next]_vars
  PROVE  TakesInv'
<1>1. moves \in Seq(MoveRows) BY DEF StockTypes
<1>2. ASSUME UNCHANGED <<quant, req>>, Keeps(moves, moves') PROVE TakesInv'
  <2>1. \A ops : Safe(ops)' <=> Safe(ops) BY <1>2 DEF Safe, OnHand
  <2>2. \A o \in Requests : \A l : Reaches(req[o], moves', l) <=> Reaches(req[o], moves, l)
    <3> TAKE o \in Requests
    <3>1. PICK c : c = req[o] OBVIOUS
    <3>2. c.todo \subseteq 1..Len(moves) BY <3>1 DEF StockTypes, CallFits
    <3> QED BY <1>2, <3>1, <3>2, ReachesKept
  <2>3. \A o \in Requests : Safe(req[o].ops)'
    <3> TAKE o \in Requests
    <3>1. PICK t : t = req[o].ops OBVIOUS
    <3>2. Safe(t)' BY <2>1, <3>1 DEF TakesInv
    <3>3. req'[o].ops = t BY <1>2, <3>1
    <3> QED BY <3>2, <3>3 DEF Safe
  <2>4. \A l \in Internal : OnHand(l)' >= 0 BY <1>2 DEF TakesInv, OnHand
  <2>5. \A x, y \in Requests : \A l \in Internal :
          x # y => ~Reaches(req'[x], moves', l) \/ ~Reaches(req'[y], moves', l)
    BY <1>2, <2>2 DEF TakesInv
  <2> QED BY <2>3, <2>4, <2>5 DEF TakesInv
<1>3. CASE UNCHANGED vars BY <1>1, <1>2, <1>3, KeepsSame DEF vars
<1>4. ASSUME NEW p \in DOMAIN pickings, Return(p) PROVE TakesInv'
  <2>1. PICK specs \in Seq(Specs) : AddPicking(0, specs) /\ UNCHANGED <<quant, req, tried, lost>>
    BY <1>4, ReturnIs
  <2>2. Len(pickings) + 1 \in Nat /\ AddMoves(Len(pickings) + 1, specs) BY <2>1 DEF AddPicking, StockTypes
  <2>3. Extended(moves, Len(pickings) + 1, specs, moves') BY <1>1, <2>2 DEF Extended, AddMoves
  <2>4. Keeps(moves, moves') BY <2>3, MovesAdded
  <2> QED BY <1>2, <2>1, <2>4
<1>5. ASSUME NEW r \in Requests, ValidateEnd(r) PROVE TakesInv'
  <2>1. quant' = quant /\ req' = [req EXCEPT ![r] = Idle] BY <1>5 DEF ValidateEnd
  <2>2. Keeps(moves, moves')
    <3>1. CASE UNCHANGED moves BY <1>1, <3>1, KeepsSame
    <3>2. CASE ~UNCHANGED moves
      <4>1. AddPicking(req[r].pick, req[r].rest) BY <1>5, <3>2 DEF ValidateEnd
      <4>2. PICK specs, n : specs = req[r].rest /\ n = Len(pickings) + 1 OBVIOUS
      <4>3. specs \in Seq(Specs) /\ n \in Nat /\ AddMoves(n, specs)
        BY <4>1, <4>2 DEF AddPicking, StockTypes, Calls
      <4>4. Extended(moves, n, specs, moves') BY <1>1, <4>3 DEF Extended, AddMoves
      <4> QED BY <4>4, MovesAdded
    <3> QED BY <3>1, <3>2
  <2> QED BY <2>1, <2>2, TakesIdle DEF OnHand
<1>6. ASSUME NEW r \in Requests, NEW c \in Scraps, Scrap(r, c[1], c[2]) PROVE TakesInv'
  <2>1. PICK write : write = Op("overwrite", Len(moves) + 1, c[1], 0, None) OBVIOUS
  <2>2. Starts(r, "scrap", c[2], c[1], Loss, write) /\ c[1] \in Internal /\ c[2] \in Nat
    BY <1>6, <2>1, ScrapIs
  <2>3. c[2] <= OnHand(c[1]) - Reserved(c[1]) /\ Clear(r, 0, {c[1]}) BY <1>6 DEF Scrap
  <2>4. OnHand(c[1]) \in Int /\ Reserved(c[1]) \in Nat BY OnHandIs DEF StockTypes
  <2>5. OnHand(c[1]) - c[2] >= 0 BY <2>2, <2>3, <2>4
  <2>6. ASSUME NEW o \in Requests \ {r} PROVE ~Reaches(req[o], moves, c[1])
    <3>1. c[1] \notin Takes(req[o]) BY <2>3 DEF Clear
    <3>2. req[o].ops \in Seq(Ops) BY DEF StockTypes, CallFits, OpsFit
    <3> QED BY <3>1, <3>2, TakesAre
  <2>7. "scrap" \in {"scrap", "count"} OBVIOUS
  <2> QED BY <2>2, <2>5, <2>6, <2>7, TakesStart
<1>7. ASSUME NEW r \in Requests, NEW c \in Counts, Count(r, c[1], c[2]) PROVE TakesInv'
  <2>1. PICK write : write = Op("overwrite", Len(moves) + 1, c[1], c[2], None) OBVIOUS
  <2>2. c[1] \in Internal /\ c[2] \in Nat /\ Loss \in Outside /\ \A o \in Requests : req[o] = Idle
    BY <1>7, <2>1, CountIs
  <2>3. PICK d, n, from, to :
          /\ d \in Int \ {0} /\ d = c[2] - OnHand(c[1]) /\ Starts(r, "count", n, from, to, write)
          /\ \/ d > 0 /\ n = d /\ from = Loss
             \/ d < 0 /\ n = -d /\ from = c[1]
    BY <1>7, <2>1, CountIs
  <2>4. n \in Nat BY <2>3
  <2>5. Loss \notin Internal BY <2>2, ConstantsOK
  <2>6. from \in Internal => OnHand(from) - n >= 0
    <3>1. OnHand(c[1]) \in Int BY OnHandIs DEF StockTypes
    <3> QED BY <2>2, <2>3, <2>5, <3>1
  <2>7. \A o \in Requests \ {r} : ~Reaches(req[o], moves, from) BY <2>2, IdleReaches
  <2>8. "count" \in {"scrap", "count"} OBVIOUS
  <2> QED BY <2>3, <2>4, <2>6, <2>7, <2>8, TakesStart
<1> QED BY <1>3, <1>4, <1>5, <1>6, <1>7, TakesBegin, TakesMove, TakesDone DEF Next

\* FR-029: no order of calls, and none that ends between two of its transactions, takes an
\* internal location below zero: not a validation of what another call reserved, nor a scrap of
\* what was promised, nor a backorder of a transfer that failed halfway. Clients keep to one call
\* that takes from a location at a time: between two that read the quantity, the code has nothing.
THEOREM NeverNegativeHolds ==
  ASSUME Orderly
  PROVE  Spec => []NeverNegative
<1>1. ASSUME Init PROVE StockTypes /\ CountInv /\ LedgerInv /\ TakesInv
  <2>1. StockTypes /\ CountInv /\ LedgerInv BY <1>1, TypesInit, LedgerInit
  <2>2. \A r \in Requests : req[r] = Idle BY <1>1 DEF Init
  <2>3. \A l \in Internal : OnHand(l) >= 0 BY <1>1, ConstantsOK DEF Init, OnHand
  <2>4. \A r \in Requests : Safe(req[r].ops) BY <2>2 DEF Safe, Idle, Call
  <2>5. TakesInv BY <2>2, <2>3, <2>4, IdleReaches DEF TakesInv
  <2> QED BY <2>1, <2>5
<1>2. StockTypes /\ CountInv /\ LedgerInv /\ TakesInv /\ [Next]_vars
        => (StockTypes /\ CountInv /\ LedgerInv /\ TakesInv)'
  BY TypesNext, LedgerNext, TakesNext
<1>3. TakesInv => NeverNegative BY DEF TakesInv, NeverNegative
<1> QED BY <1>1, <1>2, <1>3, PTL DEF Spec
-----------------------------------------------------------------------------
(* What is reserved is wanted: what each move still holds of it.           *)

\* A call is to close a move.
Closes(q, m) ==
  \E i \in 1..Len(q.ops) : q.ops[i].op = "state" /\ q.ops[i].move = m /\ q.ops[i].to \notin Open

\* What transactions release.
Given(o) == IF o.op = "release" THEN o.by ELSE 0
Freed(ops) == SumAll([i \in DOMAIN ops |-> Given(ops[i])])
Frees(ops) == ops \in Seq(Ops) /\ \A i \in 1..Len(ops) : ops[i].op = "release" => ops[i].by \in Nat

LEMMA FreedIs ==
  ASSUME NEW ops, Frees(ops)
  PROVE  /\ Freed(ops) = SumOf([i \in 1..Len(ops) |-> Given(ops[i])], 1..Len(ops))
         /\ \A i \in 1..Len(ops) : Given(ops[i]) \in Nat
         /\ Freed(ops) \in Nat
<1>1. DOMAIN ops = 1..Len(ops) /\ Len(ops) \in Nat BY DEF Frees
<1>2. Freed(ops) = SumOf([i \in 1..Len(ops) |-> Given(ops[i])], 1..Len(ops))
  BY <1>1 DEF Freed, SumAll
<1>3. \A i \in 1..Len(ops) : Given(ops[i]) \in Nat BY DEF Given, Frees
<1>4. PICK f, S : f = [i \in 1..Len(ops) |-> Given(ops[i])] /\ S = 1..Len(ops) OBVIOUS
<1>5. IsFiniteSet(S) /\ \A i \in S : f[i] \in Nat BY <1>1, <1>3, <1>4, FS_Interval
<1>6. SumOf(f, S) \in Nat BY ONLY <1>5, SumNat
<1> QED BY <1>2, <1>3, <1>4, <1>6

LEMMA FreedTail ==
  ASSUME NEW ops, Frees(ops), ops # <<>>
  PROVE  Frees(Tail(ops)) /\ Freed(ops) = Given(ops[1]) + Freed(Tail(ops))
<1>1. PICK t, n : t = Tail(ops) /\ n = Len(ops) OBVIOUS
<1>2. /\ n \in Nat \ {0} /\ t \in Seq(Ops) /\ Len(t) = n - 1
      /\ \A i \in 1..(n - 1) : t[i] = ops[i + 1]
  BY <1>1, Tails DEF Frees
<1>3. Frees(t)
  <2>1. ASSUME NEW i \in 1..(n - 1), t[i].op = "release" PROVE t[i].by \in Nat
    <3>1. i + 1 \in 1..n /\ t[i] = ops[i + 1] BY <1>2
    <3> QED BY <1>1, <2>1, <3>1 DEF Frees
  <2> QED BY <1>2, <2>1 DEF Frees
<1>4. PICK f, h : f = [i \in 1..n |-> Given(ops[i])] /\ h = [i \in 1..(n - 1) |-> Given(t[i])]
  OBVIOUS
<1>5. \A i \in 1..n : Given(ops[i]) \in Int
  <2>1. \A i \in 1..Len(ops) : Given(ops[i]) \in Nat BY FreedIs
  <2> QED BY ONLY <1>1, <2>1
<1>6. /\ \A i \in 1..n : f[i] \in Int
      /\ \A i \in 1..(n - 1) : h[i] = f[i + 1]
  BY <1>2, <1>4, <1>5
<1>7. SumOf(f, 1..n) = f[1] + SumOf(h, 1..(n - 1)) BY ONLY <1>2, <1>6, SumFirst
<1>8. Freed(ops) = SumOf(f, 1..n) BY <1>1, <1>4, FreedIs
<1>9. Freed(t) = SumOf(h, 1..(n - 1)) BY <1>2, <1>3, <1>4, FreedIs
<1>10. f[1] = Given(ops[1]) BY <1>2, <1>4
<1> QED BY <1>1, <1>3, <1>7, <1>8, <1>9, <1>10

\* Some of the transactions release no more than all of them.
LEMMA FreedSome ==
  ASSUME NEW ops, Frees(ops), NEW i \in 1..Len(ops), NEW j \in 1..Len(ops)
  PROVE  /\ Given(ops[i]) <= Freed(ops) /\ Given(ops[i]) \in Nat
         /\ i # j => Given(ops[i]) + Given(ops[j]) <= Freed(ops)
<1>1. PICK f, S : f = [x \in 1..Len(ops) |-> Given(ops[x])] /\ S = 1..Len(ops) OBVIOUS
<1>2. Len(ops) \in Nat BY DEF Frees
<1>3. /\ IsFiniteSet(S) /\ i \in S /\ j \in S
      /\ \A x \in S : f[x] \in Nat
  <2>1. \A x \in 1..Len(ops) : Given(ops[x]) \in Nat BY FreedIs
  <2> QED BY <1>1, <1>2, <2>1, FS_Interval
<1>4. PICK T : T = S \ {i} OBVIOUS
<1>5. /\ IsFiniteSet(T)
      /\ \A x \in T : f[x] \in Nat
  BY <1>3, <1>4, FS_RemoveElement
<1>6. SumOf(f, S) = f[i] + SumOf(f, T)
  <2>1. \A x \in S : f[x] \in Int BY <1>3
  <2>2. IsFiniteSet(S) BY <1>3
  <2>3. \A x \in S : SumOf(f, S) = f[x] + SumOf(f, S \ {x}) BY ONLY <2>1, <2>2, SumRemove
  <2> QED BY <1>3, <1>4, <2>3
<1>7. SumOf(f, T) \in Nat BY ONLY <1>5, SumNat
<1>8. ASSUME i # j PROVE SumOf(f, T) >= f[j]
  <2>1. j \in T BY <1>3, <1>4, <1>8
  <2>2. PICK U : U = T \ {j} OBVIOUS
  <2>3. SumOf(f, T) = f[j] + SumOf(f, U)
    <3>1. \A x \in T : f[x] \in Int BY <1>5
    <3>2. IsFiniteSet(T) BY <1>5
    <3>3. \A x \in T : SumOf(f, T) = f[x] + SumOf(f, T \ {x}) BY ONLY <3>1, <3>2, SumRemove
    <3> QED BY <2>1, <2>2, <3>3
  <2>4. IsFiniteSet(U) /\ \A x \in U : f[x] \in Nat BY <1>5, <2>2, FS_RemoveElement
  <2>5. SumOf(f, U) \in Nat BY ONLY <2>4, SumNat
  <2>6. f[j] \in Nat BY <1>3
  <2> QED BY <2>3, <2>5, <2>6
<1>9. Freed(ops) = SumOf(f, S) /\ f[i] = Given(ops[i]) /\ f[j] = Given(ops[j])
  BY <1>1, FreedIs
<1>10. f[i] \in Nat /\ f[j] \in Nat BY <1>3
<1> QED BY <1>6, <1>7, <1>8, <1>9, <1>10

LEMMA FreedNone ==
  ASSUME NEW ops \in Seq(Ops), \A i \in 1..Len(ops) : ops[i].op # "release"
  PROVE  Frees(ops) /\ Freed(ops) = 0
<1>1. Frees(ops) BY DEF Frees
<1>2. PICK f, S : f = [i \in 1..Len(ops) |-> Given(ops[i])] /\ S = 1..Len(ops) OBVIOUS
<1>3. IsFiniteSet(S) /\ \A i \in S : f[i] = 0
  <2>1. \A i \in 1..Len(ops) : Given(ops[i]) = 0 BY DEF Given
  <2>2. Len(ops) \in Nat OBVIOUS
  <2> QED BY <1>2, <2>1, <2>2, FS_Interval
<1>4. SumOf(f, S) = 0 BY ONLY <1>3, SumZero
<1> QED BY <1>1, <1>2, <1>4, FreedIs

LEMMA OpsFree ==
  ASSUME NEW ops, NEW k, NEW p, NEW mv, OpsFit(ops, k, p, mv) PROVE Frees(ops)
BY DEF OpsFit, OpFits, Frees

\* What the call of a request releases, in this state and in the next.
LEMMA CallFrees ==
  ASSUME StockTypes, NEW r \in Requests
  PROVE  /\ req[r] \in Calls /\ OpsFit(req[r].ops, req[r].kind, req[r].pick, moves)
         /\ Frees(req[r].ops) /\ Freed(req[r].ops) \in Nat
         /\ \A m \in req[r].todo : m \in 1..Len(moves) /\ moves[m].pick = req[r].pick
<1>1. CallFits(req[r], moves, Len(pickings)) /\ req[r] \in Calls BY DEF StockTypes
<1>2. OpsFit(req[r].ops, req[r].kind, req[r].pick, moves) BY <1>1 DEF CallFits
<1>3. Frees(req[r].ops) BY <1>2, OpsFree
<1> QED BY <1>1, <1>2, <1>3, FreedIs DEF CallFits

\* The open moves from a location that something was reserved for.
Wanted(tr, mv, l) == {m \in tr : mv[m].src = l /\ mv[m].state \in Open}

\* Calls work on transfers of their own; scraps and counts are never reserved for.
PicksInv ==
  /\ \A r, o \in Requests : r # o /\ req[r].pick # 0 => req[o].pick # req[r].pick
  /\ \A m \in tried : moves[m].pick # 0

\* A confirmation reserves once for each move, which is open until then.
Confirms(q, mv, tr) ==
  q.kind = "confirm" =>
    /\ q.pick # 0 /\ \A m \in q.todo : m \notin tr /\ mv[m].state \in Open
    /\ \A i \in 1..Len(q.ops) :
         /\ q.ops[i].move \notin q.todo
         /\ q.ops[i].op = "reserve" =>
              /\ q.ops[i].move \notin tr /\ mv[q.ops[i].move].state \in Open
              /\ mv[q.ops[i].move].src = q.ops[i].at /\ q.ops[i].at \in Internal
              /\ q.ops[i].by <= mv[q.ops[i].move].demand
ConfirmInv == \A r \in Requests : Confirms(req[r], moves, tried)

\* w is what each move still holds: no more than its demand, nor, once a call is to close it,
\* than that call yet releases; it accounts for all that is reserved.
Covers(w, q, mv, tr) ==
  \A m \in tr : mv[m].src \in Internal /\ Closes(q, m) => w[m] <= Freed(q.ops)
Weighs(w) ==
  /\ w \in [tried -> Nat] /\ \A m \in tried : w[m] <= moves[m].demand
  /\ \A r \in Requests : Covers(w, req[r], moves, tried)
  /\ \A l \in Internal : Reserved(l) <= SumOf(w, Wanted(tried, moves, l))

WantedInv == PicksInv /\ ConfirmInv /\ \E w : Weighs(w)

LEMMA WantedFinite ==
  ASSUME StockTypes, NEW tr, tr \subseteq tried, NEW mv, NEW l
  PROVE  /\ IsFiniteSet(Wanted(tr, mv, l)) /\ Wanted(tr, mv, l) \subseteq tr
         /\ \A m \in tried : m \in 1..Len(moves) /\ moves[m] \in MoveRows
<1>1. moves \in Seq(MoveRows) /\ Len(moves) \in Nat /\ tried \subseteq 1..Len(moves) BY DEF StockTypes
<1>2. IsFiniteSet(1..Len(moves)) BY <1>1, FS_Interval
<1>3. Wanted(tr, mv, l) \subseteq tr BY DEF Wanted
<1>4. Wanted(tr, mv, l) \in SUBSET (1..Len(moves)) BY <1>1, <1>3
<1> QED BY <1>1, <1>2, <1>3, <1>4, FS_Subset

\* While a call turns into another of the same transfer, or of one no other works on.
LEMMA PicksGo ==
  ASSUME StockTypes, PicksInv, Keeps(moves, moves'), NEW r \in Requests, NEW q, req' = [req EXCEPT ![r] = q],
         q.pick # 0 /\ q.pick # req[r].pick => \A o \in Requests \ {r} : req[o].pick # q.pick,
         \A m \in tried' : m \in 1..Len(moves) /\ moves[m].pick # 0
  PROVE  PicksInv'
<1>1. \A o \in Requests : req'[o] = IF o = r THEN q ELSE req[o] BY DEF StockTypes
<1>2. \A x \in Requests \ {r} : q.pick # 0 => req[x].pick # q.pick BY DEF PicksInv
<1>3. ASSUME NEW x \in Requests, NEW o \in Requests, x # o, req'[x].pick # 0 PROVE req'[o].pick # req'[x].pick
  <2>1. CASE x = r BY <1>1, <1>2, <1>3, <2>1
  <2>2. CASE o = r BY <1>1, <1>2, <1>3, <2>2
  <2>3. CASE x # r /\ o # r BY <1>1, <1>3, <2>3 DEF PicksInv
  <2> QED BY <2>1, <2>2, <2>3
<1>4. \A m \in tried' : moves'[m].pick # 0 BY DEF Keeps
<1> QED BY <1>3, <1>4 DEF PicksInv

\* What changes of the moves of one call is no matter to the others.
LEMMA ConfirmGo ==
  ASSUME StockTypes, PicksInv, ConfirmInv, Keeps(moves, moves'), NEW r \in Requests, NEW q,
         req' = [req EXCEPT ![r] = q], Confirms(q, moves', tried'),
         \A m \in 1..Len(moves) : moves[m].pick # req[r].pick =>
           moves'[m].state = moves[m].state /\ (m \in tried' <=> m \in tried)
  PROVE  ConfirmInv'
<1>1. \A o \in Requests : req'[o] = IF o = r THEN q ELSE req[o] BY DEF StockTypes
<1>2. ASSUME NEW o \in Requests, o # r PROVE Confirms(req[o], moves', tried')
  <2>1. PICK c : c = req[o] OBVIOUS
  <2>2. Confirms(c, moves, tried) BY <2>1 DEF ConfirmInv
  <2>3. /\ OpsFit(c.ops, c.kind, c.pick, moves)
        /\ \A m \in c.todo : m \in 1..Len(moves) /\ moves[m].pick = c.pick
    BY <2>1, CallFrees
  <2>4. \A i \in 1..Len(c.ops) : c.ops[i].move \in 1..Len(moves) /\ moves[c.ops[i].move].pick = c.pick
    BY <2>3 DEF OpsFit, OpFits
  <2>5. c.pick # 0 => c.pick # req[r].pick BY <1>2, <2>1 DEF PicksInv
  <2>6. ASSUME NEW m \in 1..Len(moves), moves[m].pick = c.pick, c.pick # 0
        PROVE  /\ moves'[m].state = moves[m].state /\ (m \in tried' <=> m \in tried)
               /\ moves'[m].src = moves[m].src /\ moves'[m].demand = moves[m].demand
    BY <2>5, <2>6 DEF Keeps
  <2>7. CASE c.kind = "confirm"
    <3>1. c.pick # 0 BY <2>2, <2>7 DEF Confirms
    <3>2. \A m \in c.todo : m \notin tried' /\ moves'[m].state \in Open
      BY <2>2, <2>3, <2>6, <2>7, <3>1 DEF Confirms
    <3>3. ASSUME NEW i \in 1..Len(c.ops)
          PROVE  /\ c.ops[i].move \notin c.todo
                 /\ c.ops[i].op = "reserve" =>
                      /\ c.ops[i].move \notin tried' /\ moves'[c.ops[i].move].state \in Open
                      /\ moves'[c.ops[i].move].src = c.ops[i].at /\ c.ops[i].at \in Internal
                      /\ c.ops[i].by <= moves'[c.ops[i].move].demand
      <4>1. PICK x : x = c.ops[i] OBVIOUS
      <4>2. /\ x.move \notin c.todo
            /\ x.op = "reserve" =>
                 /\ x.move \notin tried /\ moves[x.move].state \in Open
                 /\ moves[x.move].src = x.at /\ x.at \in Internal /\ x.by <= moves[x.move].demand
        BY <2>2, <2>7, <4>1 DEF Confirms
      <4>3. x.move \in 1..Len(moves) /\ moves[x.move].pick = c.pick BY <2>4, <4>1
      <4> QED BY <2>6, <3>1, <4>1, <4>2, <4>3
    <3>4. Confirms(c, moves', tried') BY <3>1, <3>2, <3>3 DEF Confirms
    <3> QED BY <2>1, <3>4
  <2>8. CASE c.kind # "confirm" BY <2>1, <2>8 DEF Confirms
  <2> QED BY <2>1, <2>7, <2>8
<1>3. ASSUME NEW o \in Requests PROVE Confirms(req'[o], moves', tried')
  BY <1>1, <1>2
<1> QED BY <1>3 DEF ConfirmInv

\* A new weight, no heavier, of the moves that were reserved for.
LEMMA WeightGo ==
  ASSUME StockTypes, StockTypes', Keeps(moves, moves'), tried' = tried, NEW w, Weighs(w),
         NEW r \in Requests, NEW q, req' = [req EXCEPT ![r] = q],
         NEW v \in [tried -> Nat], \A m \in tried : v[m] <= w[m], Covers(v, q, moves, tried),
         \A l \in Internal : Reserved(l)' <= SumOf(v, Wanted(tried, moves', l))
  PROVE  \E x : Weighs(x)'
<1>1. \A m \in tried : m \in 1..Len(moves) /\ moves[m] \in MoveRows BY WantedFinite
<1>2. \A m \in tried : moves'[m].src = moves[m].src /\ moves'[m].demand = moves[m].demand
  BY <1>1 DEF Keeps
<1>3. \A m \in tried : v[m] <= moves'[m].demand
  <2> TAKE m \in tried
  <2>1. PICK a, b, d : a = v[m] /\ b = w[m] /\ d = moves[m].demand OBVIOUS
  <2>2. a \in Nat /\ b \in Nat /\ d \in Nat /\ a <= b /\ b <= d BY <1>1, <2>1 DEF Weighs, MoveRows
  <2>3. a <= d BY ONLY <2>2
  <2> QED BY <1>2, <2>1, <2>3
<1>4. \A o \in Requests : req'[o] = IF o = r THEN q ELSE req[o] BY DEF StockTypes
<1>5. ASSUME NEW o \in Requests PROVE Covers(v, req'[o], moves', tried)
  <2>1. CASE o = r BY <1>2, <1>4, <2>1 DEF Covers
  <2>2. CASE o # r
    <3>1. PICK c : c = req[o] OBVIOUS
    <3>2. Freed(c.ops) \in Nat /\ Covers(w, c, moves, tried) BY <3>1, CallFrees DEF Weighs
    <3>3. ASSUME NEW m \in tried, moves'[m].src \in Internal, Closes(c, m) PROVE v[m] <= Freed(c.ops)
      <4>1. PICK a, b, d : a = v[m] /\ b = w[m] /\ d = Freed(c.ops) OBVIOUS
      <4>2. b <= d BY <1>2, <3>2, <3>3, <4>1 DEF Covers
      <4>3. a \in Nat /\ b \in Nat /\ d \in Nat /\ a <= b BY <3>2, <4>1 DEF Weighs
      <4>4. a <= d BY ONLY <4>2, <4>3
      <4> QED BY <4>1, <4>4
    <3>4. Covers(v, c, moves', tried) BY <3>3 DEF Covers
    <3> QED BY <1>4, <2>2, <3>1, <3>4
  <2> QED BY <2>1, <2>2
<1>6. Weighs(v)'
  <2>1. (v \in [tried -> Nat])' BY <1>4
  <2>2. \A m \in tried' : v[m] <= moves'[m].demand BY <1>3
  <2>3. \A o \in Requests : Covers(v, req'[o], moves', tried') BY <1>5
  <2>4. \A l \in Internal : Reserved(l)' <= SumOf(v, Wanted(tried', moves', l)) OBVIOUS
  <2> QED BY <2>1, <2>2, <2>3, <2>4 DEF Weighs
<1> QED BY <1>6

\* A step that leaves the reservations and the states alone.
LEMMA WantedGo ==
  ASSUME StockTypes, StockTypes', WantedInv, Keeps(moves, moves'), tried' = tried,
         NEW r \in Requests, NEW q, req' = [req EXCEPT ![r] = q],
         q.pick # 0 /\ q.pick # req[r].pick => \A o \in Requests \ {r} : req[o].pick # q.pick,
         Confirms(q, moves', tried), \A w : Weighs(w) => Covers(w, q, moves, tried),
         \A l : Reserved(l)' = Reserved(l),
         \A m \in 1..Len(moves) : moves'[m].state = moves[m].state
  PROVE  WantedInv'
<1>1. PicksInv /\ ConfirmInv /\ \A m \in tried : m \in 1..Len(moves) /\ moves[m].pick # 0
  BY WantedFinite DEF WantedInv, PicksInv
<1>2. PicksInv' BY <1>1, PicksGo
<1>3. ConfirmInv' BY <1>1, ConfirmGo
<1>4. PICK w : Weighs(w) BY DEF WantedInv
<1>5. Covers(w, q, moves, tried) /\ w \in [tried -> Nat] BY <1>4 DEF Weighs
<1>6. \A m \in tried : w[m] <= w[m] BY <1>5
<1>7. ASSUME NEW l \in Internal PROVE Reserved(l)' <= SumOf(w, Wanted(tried, moves', l))
  <2>1. Wanted(tried, moves', l) = Wanted(tried, moves, l) BY <1>1 DEF Wanted, Keeps
  <2> QED BY <1>4, <2>1 DEF Weighs
<1>8. \E x : Weighs(x)' BY <1>4, <1>5, <1>6, <1>7, WeightGo
<1> QED BY <1>2, <1>3, <1>8 DEF WantedInv

\* A call is left with nothing to reserve or to resolve but what it had.
Shrinks(q, c) ==
  \A i \in 1..Len(q.ops) : \E j \in 1..Len(c.ops) :
    q.ops[i].move = c.ops[j].move /\ (q.ops[i].op \in {"reserve", "state"} => q.ops[i] = c.ops[j])

LEMMA ShrinksKeeps ==
  ASSUME NEW c, NEW q, Shrinks(q, c), q.todo = c.todo, q = Idle \/ (q.kind = c.kind /\ q.pick = c.pick),
         NEW mv, NEW tr
  PROVE  /\ Confirms(c, mv, tr) => Confirms(q, mv, tr)
         /\ \A m : Closes(q, m) => Closes(c, m)
         /\ q.pick \in {0, c.pick}
<1>1. ASSUME Confirms(c, mv, tr), q.kind = "confirm" PROVE Confirms(q, mv, tr)
  <2>1. q.kind = c.kind /\ q.pick = c.pick BY <1>1 DEF Idle, Call
  <2>2. ASSUME NEW i \in 1..Len(q.ops)
        PROVE  /\ q.ops[i].move \notin q.todo
               /\ q.ops[i].op = "reserve" =>
                    /\ q.ops[i].move \notin tr /\ mv[q.ops[i].move].state \in Open
                    /\ mv[q.ops[i].move].src = q.ops[i].at /\ q.ops[i].at \in Internal
                    /\ q.ops[i].by <= mv[q.ops[i].move].demand
    <3>1. PICK j \in 1..Len(c.ops) :
            q.ops[i].move = c.ops[j].move /\ (q.ops[i].op \in {"reserve", "state"} => q.ops[i] = c.ops[j])
      BY DEF Shrinks
    <3>2. /\ c.ops[j].move \notin c.todo
          /\ c.ops[j].op = "reserve" =>
               /\ c.ops[j].move \notin tr /\ mv[c.ops[j].move].state \in Open
               /\ mv[c.ops[j].move].src = c.ops[j].at /\ c.ops[j].at \in Internal
               /\ c.ops[j].by <= mv[c.ops[j].move].demand
      BY <1>1, <2>1 DEF Confirms
    <3> QED BY <3>1, <3>2
  <2>3. q.pick # 0 /\ \A m \in q.todo : m \notin tr /\ mv[m].state \in Open
    BY <1>1, <2>1 DEF Confirms
  <2> QED BY <2>2, <2>3 DEF Confirms
<1>2. q.kind # "confirm" => Confirms(q, mv, tr) BY DEF Confirms
<1>3. ASSUME NEW m, Closes(q, m) PROVE Closes(c, m)
  <2>1. PICK i \in 1..Len(q.ops) : q.ops[i].op = "state" /\ q.ops[i].move = m /\ q.ops[i].to \notin Open
    BY <1>3 DEF Closes
  <2>2. \E j \in 1..Len(c.ops) : q.ops[i] = c.ops[j] BY <2>1 DEF Shrinks
  <2> QED BY <2>1, <2>2 DEF Closes
<1>4. q.pick \in {0, c.pick} BY DEF Idle, Call
<1> QED BY <1>1, <1>2, <1>3, <1>4

\* What is left of a list once its first transaction is done, or another stands in its place.
LEMMA ShrinksTail ==
  ASSUME NEW c, c.ops \in Seq(Ops), c.ops # <<>>, NEW q,
         \/ q.ops = Tail(c.ops)
         \/ \E o \in Ops : /\ q.ops = <<o>> \o Tail(c.ops)
                          /\ o.move = c.ops[1].move /\ o.op \notin {"reserve", "state"}
  PROVE  Shrinks(q, c)
<1>1. PICK s, n, t : s = c.ops /\ n = Len(s) /\ t = q.ops OBVIOUS
<1>2. s \in Seq(Ops) /\ s # <<>> /\ n \in Nat \ {0} BY <1>1, Tails
<1>3. CASE t = Tail(s)
  <2>1. Len(t) = n - 1 /\ \A i \in 1..(n - 1) : t[i] = s[i + 1] BY <1>1, <1>2, <1>3, Tails
  <2>2. \A i \in 1..Len(t) : i + 1 \in 1..n /\ t[i] = s[i + 1] BY <1>2, <2>1
  <2>3. \A i \in 1..Len(t) : \E j \in 1..n :
          t[i].move = s[j].move /\ (t[i].op \in {"reserve", "state"} => t[i] = s[j])
    BY <2>2
  <2> QED BY <1>1, <2>3 DEF Shrinks
<1>4. CASE \E o \in Ops : t = <<o>> \o Tail(s) /\ o.move = s[1].move /\ o.op \notin {"reserve", "state"}
  <2>1. PICK o \in Ops : t = <<o>> \o Tail(s) /\ o.move = s[1].move /\ o.op \notin {"reserve", "state"}
    BY <1>4
  <2>2. Len(t) = n /\ t[1] = o /\ \A i \in 1..n : i # 1 => t[i] = s[i] BY ONLY <1>1, <1>2, <2>1, Replaced
  <2>3. ASSUME NEW i \in 1..Len(t)
        PROVE  t[i].move = s[i].move /\ (t[i].op \in {"reserve", "state"} => t[i] = s[i])
    <3>1. CASE i = 1 BY <2>1, <2>2, <3>1
    <3>2. CASE i # 1 BY <2>2, <3>2
    <3> QED BY <3>1, <3>2
  <2>4. \A i \in 1..Len(t) : \E j \in 1..n :
          t[i].move = s[j].move /\ (t[i].op \in {"reserve", "state"} => t[i] = s[j])
    BY <2>2, <2>3
  <2> QED BY <1>1, <2>4 DEF Shrinks
<1> QED BY <1>1, <1>3, <1>4

\* A call goes on that reserves and releases nothing in this step.
LEMMA WantedOn ==
  ASSUME StockTypes, StockTypes', WantedInv, Keeps(moves, moves'), tried' = tried,
         NEW r \in Requests, NEW q, Goes(r, q), Shrinks(q, req[r]), Freed(q.ops) >= Freed(req[r].ops),
         Freed(q.ops) \in Nat,
         \A l : Reserved(l)' = Reserved(l),
         \A m \in 1..Len(moves) : moves'[m].state = moves[m].state
  PROVE  WantedInv'
<1>1. PICK c : c = req[r] OBVIOUS
<1>2. q.todo = c.todo /\ (q = Idle \/ (q.kind = c.kind /\ q.pick = c.pick)) /\ req' = [req EXCEPT ![r] = q]
  BY <1>1 DEF Goes
<1>3. /\ Confirms(c, moves, tried) => Confirms(q, moves, tried)
      /\ \A m : Closes(q, m) => Closes(c, m)
      /\ q.pick \in {0, c.pick}
  BY <1>1, <1>2, ShrinksKeeps
<1>4. ConfirmInv /\ \A m \in tried : m \in 1..Len(moves) /\ moves[m] \in MoveRows
  BY WantedFinite DEF WantedInv
<1>5. Confirms(q, moves, tried) BY <1>1, <1>3, <1>4 DEF ConfirmInv
<1>6. Confirms(q, moves', tried)
  <2>1. c.todo \subseteq 1..Len(moves) BY <1>1, CallFrees
  <2>2. ASSUME NEW i \in 1..Len(q.ops) PROVE q.ops[i].move \in 1..Len(moves)
    <3>1. PICK j \in 1..Len(c.ops) : q.ops[i].move = c.ops[j].move BY <1>1 DEF Shrinks
    <3>2. OpsFit(c.ops, c.kind, c.pick, moves) BY <1>1, CallFrees
    <3> QED BY <3>1, <3>2 DEF OpsFit, OpFits
  <2> QED BY <1>2, <1>5, <2>1, <2>2 DEF Confirms, Keeps
<1>7. ASSUME NEW w, Weighs(w) PROVE Covers(w, q, moves, tried)
  <2>1. Covers(w, c, moves, tried) /\ w \in [tried -> Nat] BY <1>1, <1>7 DEF Weighs
  <2>2. Freed(c.ops) \in Nat BY <1>1, CallFrees
  <2>3. ASSUME NEW m \in tried, moves[m].src \in Internal, Closes(q, m) PROVE w[m] <= Freed(q.ops)
    <3>1. PICK a, b, d : a = w[m] /\ b = Freed(c.ops) /\ d = Freed(q.ops) OBVIOUS
    <3>2. a <= b BY <1>3, <2>1, <2>3, <3>1 DEF Covers
    <3>3. a \in Nat /\ b \in Nat /\ d \in Nat /\ b <= d BY <1>1, <2>1, <2>2, <3>1
    <3>4. a <= d BY ONLY <3>2, <3>3
    <3> QED BY <3>1, <3>4
  <2> QED BY <2>3 DEF Covers
<1>8. q.pick # 0 /\ q.pick # req[r].pick => \A o \in Requests \ {r} : req[o].pick # q.pick BY <1>1, <1>3
<1> QED BY <1>2, <1>6, <1>7, <1>8, WantedGo

\* A call ends, or begins, or goes on with a move it is not to close.
LEMMA WantedOpen ==
  ASSUME StockTypes, StockTypes', WantedInv, Keeps(moves, moves'), tried' = tried,
         NEW r \in Requests, NEW q, req' = [req EXCEPT ![r] = q],
         q.pick # 0 /\ q.pick # req[r].pick => \A o \in Requests \ {r} : req[o].pick # q.pick,
         Confirms(q, moves', tried), \A m \in tried : ~Closes(q, m),
         \A l : Reserved(l)' = Reserved(l),
         \A m \in 1..Len(moves) : moves'[m].state = moves[m].state
  PROVE  WantedInv'
<1>1. \A w : Weighs(w) => Covers(w, q, moves, tried) BY DEF Covers
<1> QED BY <1>1, WantedGo

LEMMA WantedIdle ==
  ASSUME StockTypes, StockTypes', WantedInv, Keeps(moves, moves'), tried' = tried,
         NEW r \in Requests, req' = [req EXCEPT ![r] = Idle],
         \A l : Reserved(l)' = Reserved(l),
         \A m \in 1..Len(moves) : moves'[m].state = moves[m].state
  PROVE  WantedInv'
<1>1. Idle.pick = 0 /\ Idle.kind = "idle" /\ Idle.ops = <<>> BY DEF Idle, Call
<1>2. Confirms(Idle, moves', tried) BY <1>1 DEF Confirms
<1>3. \A m \in tried : ~Closes(Idle, m) BY <1>1 DEF Closes
<1> QED BY <1>1, <1>2, <1>3, WantedOpen

\* Moves are added.
LEMMA WantedRows ==
  ASSUME StockTypes, StockTypes', WantedInv, Keeps(moves, moves'), UNCHANGED <<quant, req, tried>>,
         \A m \in 1..Len(moves) : moves'[m].state = moves[m].state
  PROVE  WantedInv'
<1>1. \A m \in tried : m \in 1..Len(moves) /\ moves[m] \in MoveRows BY WantedFinite
<1>2. PicksInv' BY <1>1 DEF WantedInv, PicksInv, Keeps
<1>3. ASSUME NEW o \in Requests PROVE Confirms(req'[o], moves', tried')
  <2>1. PICK c : c = req[o] OBVIOUS
  <2>2. Confirms(c, moves, tried) BY <2>1 DEF WantedInv, ConfirmInv
  <2>3. c.todo \subseteq 1..Len(moves) /\ OpsFit(c.ops, c.kind, c.pick, moves) BY <2>1, CallFrees
  <2>4. \A i \in 1..Len(c.ops) : c.ops[i].move \in 1..Len(moves) BY <2>3 DEF OpsFit, OpFits
  <2>5. Confirms(c, moves', tried) BY <2>2, <2>3, <2>4 DEF Confirms, Keeps
  <2> QED BY <2>1, <2>5
<1>4. PICK w : Weighs(w) BY DEF WantedInv
<1>5. Weighs(w)'
  <2>1. (w \in [tried -> Nat])' BY <1>4 DEF Weighs
  <2>2. \A m \in tried' : w[m] <= moves'[m].demand BY <1>1, <1>4 DEF Weighs, Keeps
  <2>3. \A o \in Requests : Covers(w, req'[o], moves', tried') BY <1>1, <1>4 DEF Weighs, Covers, Keeps
  <2>4. ASSUME NEW l \in Internal PROVE Reserved(l)' <= SumOf(w, Wanted(tried', moves', l))
    <3>1. Wanted(tried', moves', l) = Wanted(tried, moves, l) BY <1>1 DEF Wanted, Keeps
    <3>2. Reserved(l)' = Reserved(l) BY DEF Reserved
    <3> QED BY <1>4, <3>1, <3>2 DEF Weighs
  <2> QED BY <2>1, <2>2, <2>3, <2>4 DEF Weighs
<1>6. ConfirmInv' BY <1>3 DEF ConfirmInv
<1> QED BY <1>2, <1>5, <1>6 DEF WantedInv
-----------------------------------------------------------------------------
(* .. and the steps that keep it so.                                       *)

\* Clients begin one call at a time for a transfer, and confirm it once, before anything else.
LEMMA WantedBegin ==
  ASSUME Orderly, StockTypes, StockTypes', WantedInv, NEW r \in Requests, NEW p \in DOMAIN pickings, NEW b,
         ConfirmBegin(r, p) \/ CancelBegin(r, p) \/ ValidateBegin(r, p, b)
  PROVE  WantedInv'
<1>1. PICK k, todo, back, from :
        /\ Begin(r, Call(k, p, todo, <<>>, <<>>, back)) /\ UNCHANGED <<rows, tried, history>>
        /\ Clear(r, p, from)
        /\ k = "confirm" => todo = Of(p) /\ \A m \in Of(p) : moves[m].state = "draft" /\ m \notin tried
  <2>1. CASE ConfirmBegin(r, p) BY <2>1 DEF ConfirmBegin
  <2>2. CASE CancelBegin(r, p)
    <3>1. /\ Begin(r, Call("cancel", p, OpenOf(p), <<>>, <<>>, FALSE)) /\ UNCHANGED <<rows, tried, history>>
          /\ "cancel" # "confirm" /\ Clear(r, p, {})
      BY <2>2 DEF CancelBegin
    <3> QED BY ONLY <3>1
  <2>3. CASE ValidateBegin(r, p, b)
    <3>1. /\ Begin(r, Call("validate", p, OpenOf(p), <<>>, <<>>, b)) /\ UNCHANGED <<rows, tried, history>>
          /\ "validate" # "confirm" /\ Clear(r, p, {moves[m].src : m \in Of(p)} \cap Internal)
      BY <2>3 DEF ValidateBegin
    <3> QED BY ONLY <3>1
  <2> QED BY <2>1, <2>2, <2>3
<1>2. PICK q : q = Settle(Call(k, p, todo, <<>>, <<>>, back)) OBVIOUS
<1>3. /\ q.ops = <<>> /\ req' = [req EXCEPT ![r] = q]
      /\ q = Idle \/ (q.kind = k /\ q.todo = todo /\ q.pick = p)
  BY <1>1, <1>2 DEF Settle, Call, Idle, Begin
<1>4. p # 0 /\ moves \in Seq(MoveRows) BY DEF StockTypes
<1>5. q.pick # 0 => \A o \in Requests \ {r} : req[o].pick # q.pick
  BY <1>1, <1>3, <1>4 DEF Clear, Idle, Call
<1>6. Confirms(q, moves', tried)
  <2>1. moves' = moves BY <1>1 DEF rows
  <2>2. CASE q = Idle BY <2>2 DEF Confirms, Idle, Call
  <2>3. CASE q # Idle
    <3>1. ASSUME q.kind = "confirm" PROVE \A m \in q.todo : m \notin tried /\ moves[m].state \in Open
      BY <1>1, <1>3, <2>3, <3>1 DEF Open
    <3> QED BY <1>3, <1>4, <2>1, <2>3, <3>1 DEF Confirms
  <2> QED BY <2>2, <2>3
<1>7. \A m \in tried : ~Closes(q, m) BY <1>3 DEF Closes
<1>8. UNCHANGED <<quant, moves, tried>> BY <1>1 DEF rows
<1>9. \A l : Reserved(l)' = Reserved(l) BY <1>8 DEF Reserved
<1> QED BY <1>3, <1>4, <1>5, <1>6, <1>7, <1>8, <1>9, KeepsSame, WantedOpen

\* A confirmation is to reserve for its next move.
LEMMA WantedConfirm ==
  ASSUME StockTypes, StockTypes', WantedInv, NEW r \in Requests, NEW m, ConfirmMove(r, m)
  PROVE  WantedInv'
<1>1. PICK q, ops, o :
        /\ Turned(r, m, q, ops) /\ (ops = <<>> \/ ops = <<o>>) /\ o \in Ops
        /\ o.move = m /\ o.op \in {"state", "reserve"}
        /\ (o.op = "state" => o.to = "ready")
        /\ (o.op = "reserve" => /\ o.at = moves[m].src /\ o.at \in Internal
                               /\ o.by = moves[m].demand /\ moves[m].state \in Open)
  BY ConfirmTypes
<1>2. UNCHANGED <<quant, moves, tried>> /\ req[r].kind = "confirm" BY ConfirmTypes
<1>3. PICK c : c = req[r] OBVIOUS
<1>4. /\ req' = [req EXCEPT ![r] = q] /\ q.ops = ops /\ m \in c.todo /\ m \in 1..Len(moves)
      /\ q = Idle \/ (q.kind = c.kind /\ q.pick = c.pick /\ q.todo = c.todo \ {m})
  BY <1>1, <1>3 DEF Turned
<1>5. Confirms(c, moves, tried) BY <1>3 DEF WantedInv, ConfirmInv
<1>6. \A i \in 1..Len(ops) : ops[i] = o
  <2>1. CASE ops = <<>> BY <2>1
  <2>2. CASE ops = <<o>>
    <3>1. Len(ops) = 1 /\ ops[1] = o BY <1>1, <2>2, One
    <3> QED BY <3>1
  <2> QED BY <1>1, <2>1, <2>2
<1>7. Confirms(q, moves, tried)
  <2>1. CASE q = Idle BY <2>1 DEF Confirms, Idle, Call
  <2>2. CASE q # Idle
    <3>1. q.pick # 0 /\ m \notin tried /\ \A x \in q.todo : x \notin tried /\ moves[x].state \in Open
      BY <1>2, <1>3, <1>4, <1>5, <2>2 DEF Confirms
    <3>2. moves[m].demand \in Nat /\ m \notin q.todo
      <4>1. moves[m] \in MoveRows BY <1>4 DEF StockTypes
      <4> QED BY <1>4, <2>2, <4>1 DEF MoveRows
    <3> QED BY <1>1, <1>4, <1>6, <3>1, <3>2 DEF Confirms
  <2> QED BY <2>1, <2>2
<1>8. \A x \in tried : ~Closes(q, x) BY <1>1, <1>4, <1>6 DEF Closes, Open
<1>9. q.pick \in {0, c.pick} BY <1>4 DEF Idle, Call
<1>10. \A l : Reserved(l)' = Reserved(l) BY <1>2 DEF Reserved
<1>11. Keeps(moves, moves') BY <1>2, KeepsSame DEF StockTypes
<1> QED BY <1>2, <1>3, <1>4, <1>7, <1>8, <1>9, <1>10, <1>11, WantedOpen

\* A validation takes up a move: it releases the demand, in what it moves and in the rest.
LEMMA WantedValidate ==
  ASSUME StockTypes, StockTypes', WantedInv, NEW r \in Requests, NEW m, ValidateMove(r, m)
  PROVE  WantedInv'
<1>1. PICK q, ops, done, line, out, free, inn, rest, state :
        /\ Turned(r, m, q, ops) /\ done = DoQty(moves[m]) /\ done \in 0..moves[m].demand
        /\ Carries(m, moves[m], done, line, out, free, inn, rest, state, ops)
  BY ValidateIs
<1>2. UNCHANGED <<quant, moves, tried>> /\ req[r].kind = "validate" BY ValidateIs
<1>3. PICK c, v : c = req[r] /\ v = moves[m] OBVIOUS
<1>4. /\ req' = [req EXCEPT ![r] = q] /\ q.ops = ops /\ v \in MoveRows
      /\ q = Idle \/ (q.kind = c.kind /\ q.pick = c.pick)
  BY <1>1, <1>3 DEF Turned, StockTypes
<1>5. v.demand \in Nat /\ done \in 0..v.demand BY <1>1, <1>3, <1>4 DEF MoveRows
<1>6. Frees(ops) /\ Freed(ops) \in Nat
  <2>1. req'[r] = q BY <1>4 DEF StockTypes
  <2>2. CallFits(q, moves', Len(pickings')) BY <2>1 DEF StockTypes
  <2>3. OpsFit(ops, q.kind, q.pick, moves') BY <1>4, <2>2 DEF CallFits
  <2> QED BY <2>3, OpsFree, FreedIs
<1>7. /\ line.op = "line" /\ out.op = "adjust" /\ inn.op = "adjust" /\ state.move = m
      /\ free.op = "release" /\ free.by = done
      /\ rest.op = "release" /\ rest.by = v.demand - done
      /\ done = 0 => IF v.src \in Internal THEN Two(ops, rest, state)
                     ELSE ops \in Seq(Ops) /\ Len(ops) = 1 /\ ops[1] = state
      /\ done > 0 =>
           \/ v.src \notin Internal /\ Four(ops, line, out, inn, state)
           \/ v.src \in Internal /\ done < v.demand /\ Six(ops, line, out, free, inn, rest, state)
           \/ v.src \in Internal /\ done = v.demand /\ Five(ops, line, out, free, inn, state)
  BY <1>1, <1>3 DEF Carries
<1>8. ASSUME NEW x, Closes(q, x) PROVE x = m
  <2>1. PICK i \in 1..Len(ops) : ops[i].op = "state" /\ ops[i].move = x BY <1>4, <1>8 DEF Closes
  <2>2. 1..1 = {1} /\ 1..2 = {1, 2} /\ 1..4 = {1, 2, 3, 4} /\ 1..5 = {1, 2, 3, 4, 5}
        /\ 1..6 = {1, 2, 3, 4, 5, 6}
    OBVIOUS
  <2>3. ops[i] \in {line, out, inn, free, rest, state}
    <3>1. CASE done = 0 BY ONLY <1>7, <2>1, <2>2, <3>1 DEF Two
    <3>2. CASE done > 0 BY ONLY <1>7, <2>1, <2>2, <3>2 DEF Four, Five, Six
    <3> QED BY <1>5, <3>1, <3>2
  <2> QED BY ONLY <1>7, <2>1, <2>3
<1>9. ASSUME v.src \in Internal PROVE v.demand <= Freed(ops)
  <2>1. CASE done = 0
    <3>1. Len(ops) = 2 /\ ops[1] = rest BY <1>7, <1>9, <2>1 DEF Two
    <3>2. Given(ops[1]) <= Freed(ops)
      <4>1. 1 \in 1..Len(ops) BY <3>1
      <4> QED BY <1>6, <4>1, FreedSome
    <3>3. Given(ops[1]) = v.demand BY <1>5, <1>7, <2>1, <3>1 DEF Given
    <3> QED BY <3>2, <3>3
  <2>2. CASE done > 0 /\ done < v.demand
    <3>1. Len(ops) = 6 /\ ops[3] = free /\ ops[5] = rest BY ONLY <1>5, <1>7, <1>9, <2>2 DEF Six
    <3>2. 3 \in 1..Len(ops) /\ 5 \in 1..Len(ops) /\ 3 # 5 BY <3>1
    <3>3. Given(ops[3]) + Given(ops[5]) <= Freed(ops) BY <1>6, <3>2, FreedSome
    <3>4. Given(ops[3]) = done /\ Given(ops[5]) = v.demand - done BY <1>7, <3>1 DEF Given
    <3> QED BY <1>5, <3>3, <3>4
  <2>3. CASE done > 0 /\ done = v.demand
    <3>1. Len(ops) = 5 /\ ops[3] = free BY ONLY <1>5, <1>7, <1>9, <2>3 DEF Five
    <3>2. 3 \in 1..Len(ops) BY <3>1
    <3>3. Given(ops[3]) <= Freed(ops) BY <1>6, <3>2, FreedSome
    <3>4. Given(ops[3]) = v.demand BY <1>7, <2>3, <3>1 DEF Given
    <3> QED BY <3>3, <3>4
  <2> QED BY <1>5, <2>1, <2>2, <2>3
<1>10. ASSUME NEW w, Weighs(w) PROVE Covers(w, q, moves, tried)
  <2>1. ASSUME NEW x \in tried, moves[x].src \in Internal, Closes(q, x) PROVE w[x] <= Freed(q.ops)
    <3>1. x = m BY <1>8, <2>1
    <3>2. PICK a, b, d : a = w[m] /\ b = v.demand /\ d = Freed(ops) OBVIOUS
    <3>3. a \in Nat /\ b \in Nat /\ d \in Nat /\ a <= b
      BY <1>3, <1>5, <1>6, <1>10, <2>1, <3>1, <3>2 DEF Weighs
    <3>4. b <= d BY <1>3, <1>9, <2>1, <3>1, <3>2
    <3>5. a <= d BY ONLY <3>3, <3>4
    <3> QED BY <1>4, <3>1, <3>2, <3>5
  <2> QED BY <2>1 DEF Covers
<1>11. Confirms(q, moves', tried) BY <1>2, <1>3, <1>4 DEF Confirms, Idle, Call
<1>12. q.pick \in {0, c.pick} BY <1>4 DEF Idle, Call
<1>13. \A l : Reserved(l)' = Reserved(l) BY <1>2 DEF Reserved
<1>14. Keeps(moves, moves') BY <1>2, KeepsSame DEF StockTypes
<1> QED BY <1>2, <1>3, <1>4, <1>10, <1>11, <1>12, <1>13, <1>14, WantedGo

\* One move holds n instead.
LEMMA WeightOne ==
  ASSUME NEW S, IsFiniteSet(S), NEW T, S \subseteq T, NEW w \in [T -> Nat], NEW m, NEW n \in Nat,
         NEW v, v = [x \in T |-> IF x = m THEN n ELSE w[x]]
  PROVE  /\ v \in [T -> Nat] /\ SumOf(v, S) \in Nat /\ SumOf(w, S) \in Nat
         /\ m \in S => SumOf(v, S) = SumOf(w, S) + n - w[m] /\ SumOf(v, S) >= n
         /\ m \notin S => SumOf(v, S) = SumOf(w, S)
<1>1. v \in [T -> Nat] OBVIOUS
<1>2. /\ \A x \in S : v[x] \in Nat
      /\ \A x \in S : w[x] \in Nat
      /\ \A x \in S : v[x] \in Int /\ w[x] \in Int
      /\ \A x \in S : v[x] \in Int
      /\ \A x \in S \ {m} : w[x] = v[x]
  BY <1>1
<1>3. SumOf(v, S) \in Nat BY ONLY <1>2, IsFiniteSet(S), SumNat
<1>4. SumOf(w, S) \in Nat BY ONLY <1>2, IsFiniteSet(S), SumNat
<1>5. ASSUME m \in S PROVE SumOf(v, S) = SumOf(w, S) + n - w[m] /\ SumOf(v, S) >= n
  <2>1. v[m] = n BY <1>5
  <2>2. \A x \in S : w[x] \in Int /\ v[x] \in Int BY <1>2
  <2>3. SumOf(v, S) = SumOf(w, S) + v[m] - w[m] BY ONLY <1>2, <1>5, <2>2, IsFiniteSet(S), SumChange
  <2>4. SumOf(v, S) = v[m] + SumOf(v, S \ {m}) BY ONLY <1>2, <1>5, IsFiniteSet(S), SumRemove
  <2>5. SumOf(v, S \ {m}) \in Nat
    <3>1. PICK U : U = S \ {m} OBVIOUS
    <3>2. IsFiniteSet(U) /\ \A x \in U : v[x] \in Nat BY <1>2, <3>1, FS_RemoveElement
    <3>3. SumOf(v, U) \in Nat BY ONLY <3>2, SumNat
    <3> QED BY <3>1, <3>3
  <2> QED BY <2>1, <2>3, <2>4, <2>5
<1>6. ASSUME m \notin S PROVE SumOf(v, S) = SumOf(w, S)
  <2>1. \A x \in S : v[x] = w[x] BY <1>2, <1>6
  <2> QED BY ONLY <2>1, IsFiniteSet(S), SumSame
<1> QED BY <1>1, <1>3, <1>4, <1>5, <1>6

\* A cancellation takes up a move: it is to release the demand, or all there is.
LEMMA WantedCancel ==
  ASSUME StockTypes, StockTypes', WantedInv, NEW r \in Requests, NEW m, CancelMove(r, m)
  PROVE  WantedInv'
<1>1. PICK q, ops, free, state, n :
        /\ Turned(r, m, q, ops) /\ n = Least(Reserved(moves[m].src), moves[m].demand) /\ n \in Nat
        /\ free.op = "release" /\ free.at = moves[m].src /\ free.by = n
        /\ state.op = "state" /\ state.move = m
        /\ IF moves[m].src \in Internal /\ n > 0 THEN Two(ops, free, state)
           ELSE ops \in Seq(Ops) /\ Len(ops) = 1 /\ ops[1] = state
  BY CancelIs
<1>2. UNCHANGED <<quant, moves, tried>> /\ req[r].kind = "cancel" BY CancelIs
<1>3. PICK c, v : c = req[r] /\ v = moves[m] OBVIOUS
<1>4. /\ req' = [req EXCEPT ![r] = q] /\ q.ops = ops /\ v \in MoveRows
      /\ q = Idle \/ (q.kind = c.kind /\ q.pick = c.pick)
  BY <1>1, <1>3 DEF Turned, StockTypes
<1>5. Frees(ops) /\ Freed(ops) \in Nat
  <2>1. req'[r] = q BY <1>4 DEF StockTypes
  <2>2. CallFits(q, moves', Len(pickings')) BY <2>1 DEF StockTypes
  <2>3. OpsFit(ops, q.kind, q.pick, moves') BY <1>4, <2>2 DEF CallFits
  <2> QED BY <2>3, OpsFree, FreedIs
<1>6. ASSUME NEW x, Closes(q, x) PROVE x = m
  <2>1. PICK i \in 1..Len(ops) : ops[i].op = "state" /\ ops[i].move = x BY <1>4, <1>6 DEF Closes
  <2>2. 1..1 = {1} /\ 1..2 = {1, 2} OBVIOUS
  <2>3. ops[i] \in {free, state} BY ONLY <1>1, <2>1, <2>2 DEF Two
  <2> QED BY ONLY <1>1, <2>1, <2>3
<1>7. ASSUME v.src \in Internal PROVE n <= Freed(ops)
  <2>1. CASE n = 0 BY <1>5, <2>1
  <2>2. CASE n > 0
    <3>1. Len(ops) = 2 /\ ops[1] = free BY <1>1, <1>3, <1>7, <2>2 DEF Two
    <3>2. 1 \in 1..Len(ops) BY <3>1
    <3>3. Given(ops[1]) <= Freed(ops) BY <1>5, <3>2, FreedSome
    <3>4. Given(ops[1]) = n BY <1>1, <3>1 DEF Given
    <3> QED BY <3>3, <3>4
  <2> QED BY <1>1, <2>1, <2>2
<1>8. Keeps(moves, moves') /\ \A l : Reserved(l)' = Reserved(l) BY <1>2, KeepsSame DEF StockTypes, Reserved
<1>9. q.pick \in {0, c.pick} /\ Confirms(q, moves', tried') BY <1>2, <1>3, <1>4 DEF Confirms, Idle, Call
<1>10. \A x \in tried : x \in 1..Len(moves) /\ moves[x] \in MoveRows BY WantedFinite
<1>11. PicksInv /\ ConfirmInv /\ \A x \in tried' : x \in 1..Len(moves) /\ moves[x].pick # 0
  BY <1>2, <1>10 DEF WantedInv, PicksInv
<1>12. PicksInv' BY <1>3, <1>4, <1>8, <1>9, <1>11, PicksGo
<1>13. ConfirmInv' BY <1>2, <1>4, <1>8, <1>9, <1>11, ConfirmGo
<1>14. PICK w : Weighs(w) BY DEF WantedInv
<1>15. CASE m \in tried /\ v.src \in Internal /\ w[m] > n
  <2>1. PICK u : u = [x \in tried |-> IF x = m THEN n ELSE w[x]] OBVIOUS
  <2>2. w \in [tried -> Nat] /\ u \in [tried -> Nat] BY <1>1, <1>14, <2>1 DEF Weighs
  <2>3. \A x \in tried : u[x] <= w[x] BY <1>1, <1>15, <2>1, <2>2
  <2>4. Covers(u, q, moves, tried)
    <3>1. ASSUME NEW x \in tried, Closes(q, x) PROVE u[x] <= Freed(ops)
      <4>1. x = m BY <1>6, <3>1
      <4>2. u[x] = n BY <2>1, <4>1
      <4> QED BY <1>7, <1>15, <4>2
    <3> QED BY <1>4, <3>1 DEF Covers
  <2>5. ASSUME NEW l \in Internal PROVE Reserved(l)' <= SumOf(u, Wanted(tried, moves', l))
    <3>1. PICK S : S = Wanted(tried, moves, l) OBVIOUS
    <3>2. IsFiniteSet(S) /\ S \subseteq tried BY <3>1, WantedFinite
    <3>3. /\ SumOf(u, S) \in Nat /\ SumOf(w, S) \in Nat
          /\ m \in S => SumOf(u, S) >= n
          /\ m \notin S => SumOf(u, S) = SumOf(w, S)
      <4>1. n \in Nat /\ w \in [tried -> Nat] BY <1>1, <2>2
      <4>2. /\ u \in [tried -> Nat] /\ SumOf(u, S) \in Nat /\ SumOf(w, S) \in Nat
            /\ m \in S => SumOf(u, S) = SumOf(w, S) + n - w[m] /\ SumOf(u, S) >= n
            /\ m \notin S => SumOf(u, S) = SumOf(w, S)
        BY ONLY <2>1, <3>2, <4>1, WeightOne
      <4> QED BY ONLY <4>2
    <3>4. Reserved(l) <= SumOf(w, S) /\ Reserved(l) \in Nat BY <1>14, <3>1, OnHandIs DEF Weighs, StockTypes
    <3>5. ASSUME m \in S PROVE Reserved(l) = n
      <4>1. l = v.src BY <1>3, <3>1, <3>5 DEF Wanted
      <4>2. PICK a, b, d : a = Reserved(l) /\ b = v.demand /\ d = w[m] OBVIOUS
      <4>3. n = Least(a, b) /\ a \in Nat /\ b \in Nat /\ d \in Nat /\ d <= b /\ d > n /\ n \in Nat
        BY <1>1, <1>3, <1>4, <1>14, <1>15, <2>2, <3>4, <4>1, <4>2 DEF Weighs, MoveRows
      <4>4. a = n BY ONLY <4>3 DEF Least
      <4> QED BY <4>2, <4>4
    <3>6. Reserved(l) <= SumOf(u, S)
      <4>1. CASE m \in S BY <3>3, <3>5, <4>1
      <4>2. CASE m \notin S BY <3>3, <3>4, <4>2
      <4> QED BY <4>1, <4>2
    <3> QED BY <1>2, <1>8, <3>1, <3>6
  <2>6. \E x : Weighs(x)' BY <1>2, <1>4, <1>8, <1>14, <2>2, <2>3, <2>4, <2>5, WeightGo
  <2> QED BY <1>12, <1>13, <2>6 DEF WantedInv
<1>16. CASE ~(m \in tried /\ v.src \in Internal /\ w[m] > n)
  <2>1. w \in [tried -> Nat] /\ \A x \in tried : w[x] <= w[x] BY <1>14 DEF Weighs
  <2>2. Covers(w, q, moves, tried)
    <3>1. ASSUME NEW x \in tried, moves[x].src \in Internal, Closes(q, x) PROVE w[x] <= Freed(ops)
      <4>1. x = m BY <1>6, <3>1
      <4>2. PICK a, d : a = w[m] /\ d = Freed(ops) OBVIOUS
      <4>3. a \in Nat /\ n \in Nat /\ d \in Nat /\ ~(a > n) /\ n <= d
        BY <1>1, <1>3, <1>5, <1>7, <1>16, <2>1, <3>1, <4>1, <4>2
      <4>4. a <= d BY ONLY <4>3
      <4> QED BY <4>1, <4>2, <4>4
    <3> QED BY <1>4, <3>1 DEF Covers
  <2>3. \A l \in Internal : Reserved(l)' <= SumOf(w, Wanted(tried, moves', l))
    BY <1>2, <1>8, <1>14 DEF Weighs
  <2>4. \E x : Weighs(x)' BY <1>2, <1>4, <1>8, <1>14, <2>1, <2>2, <2>3, WeightGo
  <2> QED BY <1>12, <1>13, <2>4 DEF WantedInv
<1> QED BY <1>15, <1>16

\* A validation ends, and its backorder is made.
LEMMA WantedEnd ==
  ASSUME StockTypes, StockTypes', WantedInv, NEW r \in Requests, ValidateEnd(r)
  PROVE  WantedInv'
<1>1. UNCHANGED <<quant, tried>> /\ req' = [req EXCEPT ![r] = Idle] BY DEF ValidateEnd
<1>2. moves \in Seq(MoveRows) BY DEF StockTypes
<1>3. Keeps(moves, moves') /\ \A m \in 1..Len(moves) : moves'[m].state = moves[m].state
  <2>1. CASE UNCHANGED moves BY <1>2, <2>1, KeepsSame
  <2>2. CASE ~UNCHANGED moves
    <3>1. AddPicking(req[r].pick, req[r].rest) BY <2>2 DEF ValidateEnd
    <3>2. PICK specs, n : specs = req[r].rest /\ n = Len(pickings) + 1 OBVIOUS
    <3>3. specs \in Seq(Specs) /\ n \in Nat /\ AddMoves(n, specs)
      BY <3>1, <3>2 DEF AddPicking, StockTypes, Calls
    <3>4. Extended(moves, n, specs, moves') BY <1>2, <3>3 DEF Extended, AddMoves
    <3> QED BY <3>4, MovesAdded
  <2> QED BY <2>1, <2>2
<1>4. \A l : Reserved(l)' = Reserved(l) BY <1>1 DEF Reserved
<1> QED BY <1>1, <1>3, <1>4, WantedIdle

\* A scrap or a count works on a move of no transfer, which nothing is reserved for.
LEMMA WantedStart ==
  ASSUME StockTypes, StockTypes', WantedInv, NEW r \in Requests, NEW k \in {"scrap", "count"}, NEW n,
         NEW from, NEW to, NEW write, Starts(r, k, n, from, to, write)
  PROVE  WantedInv'
<1>1. PICK q, ops, specs :
        /\ req' = [req EXCEPT ![r] = q] /\ req[r] = Idle /\ q = Call(k, 0, {}, ops, <<>>, FALSE)
        /\ q \in Calls /\ q.kind = k /\ q.pick = 0 /\ q.todo = {} /\ q.ops = ops
        /\ specs \in Seq(Specs) /\ AddMoves(0, specs) /\ CallFits(q, moves', Len(pickings))
        /\ UNCHANGED <<quant, pickings, tried, lost>>
        /\ OpsFit(ops, k, 0, moves') /\ ops # <<>>
        /\ ops[1].op = "line" /\ ops[1].by = n /\ ops[1].at = from /\ ops[1].to = to
        /\ \A i \in 1..Len(ops) :
             /\ ops[i].op \in {"line", "adjust", "state", "overwrite"}
             /\ ops[i].op = "overwrite" => k = "count" /\ ops[i] = write
             /\ ops[i].op = "adjust" /\ ops[i].by < 0 => ops[i].at = from /\ ops[i].by = -n
  BY ZenonT(60) DEF Starts
<1>2. Keeps(moves, moves') /\ \A m \in 1..Len(moves) : moves'[m].state = moves[m].state
  <2>1. Extended(moves, 0, specs, moves') BY <1>1 DEF Extended, AddMoves, StockTypes
  <2> QED BY <2>1, MovesAdded
<1>3. ASSUME NEW m \in tried PROVE ~Closes(q, m)
  <2>1. m \in 1..Len(moves) /\ moves[m].pick # 0 BY WantedFinite DEF WantedInv, PicksInv
  <2>2. moves'[m].pick # 0 BY <1>2, <2>1 DEF Keeps
  <2>3. \A i \in 1..Len(ops) : moves'[ops[i].move].pick = 0 BY <1>1 DEF OpsFit
  <2>4. q.ops = ops BY <1>1
  <2>5. ASSUME Closes(q, m) PROVE FALSE
    <3>1. PICK i \in 1..Len(ops) : ops[i].move = m BY <2>4, <2>5 DEF Closes
    <3> QED BY <2>2, <2>3, <3>1
  <2> QED BY <2>5
<1>4. Confirms(q, moves', tried) BY <1>1 DEF Confirms
<1>5. \A l : Reserved(l)' = Reserved(l) BY <1>1 DEF Reserved
<1>6. tried' = tried BY <1>1
<1> QED BY <1>1, <1>2, <1>3, <1>4, <1>5, <1>6, WantedOpen

\* What is released is taken off the move that is to be closed after it.
LEMMA WantedRelease ==
  ASSUME StockTypes, StockTypes', WantedInv, NEW r \in Requests, Release(r)
  PROVE  WantedInv'
<1>1. PICK c, ops, o : c = req[r] /\ ops = c.ops /\ o = ops[1] OBVIOUS
<1>2. /\ ops # <<>> /\ o.op = "release" /\ UNCHANGED <<moves, tried>> /\ o.by \in Nat
      /\ \A l : Reserved(l)' = IF l = o.at THEN Most(0, Reserved(l) - o.by) ELSE Reserved(l)
  BY <1>1, ReleaseStep
<1>3. PICK q : Goes(r, q) /\ q.ops = Tail(ops) BY <1>1, ReleaseStep
<1>4. OpsFit(ops, c.kind, c.pick, moves) /\ Frees(ops) /\ Freed(ops) \in Nat BY <1>1, CallFrees
<1>5. ops \in Seq(Ops) /\ Ordered(ops, moves) BY <1>4 DEF OpsFit
<1>6. Shrinks(q, c) BY <1>1, <1>2, <1>3, <1>5, ShrinksTail
<1>7. q.todo = c.todo /\ (q = Idle \/ (q.kind = c.kind /\ q.pick = c.pick)) /\ req' = [req EXCEPT ![r] = q]
  BY <1>1, <1>3 DEF Goes
<1>8. /\ Confirms(c, moves, tried) => Confirms(q, moves, tried)
      /\ \A m : Closes(q, m) => Closes(c, m)
      /\ q.pick \in {0, c.pick}
  BY <1>6, <1>7, ShrinksKeeps
<1>9. PicksInv /\ ConfirmInv /\ \A m \in tried : m \in 1..Len(moves) /\ moves[m].pick # 0
  BY WantedFinite DEF WantedInv, PicksInv
<1>10. Keeps(moves, moves') BY <1>2, KeepsSame DEF StockTypes
<1>11. Confirms(q, moves', tried') BY <1>1, <1>2, <1>8, <1>9 DEF ConfirmInv
<1>12. PicksInv' BY <1>1, <1>2, <1>7, <1>8, <1>9, <1>10, PicksGo
<1>13. ConfirmInv' BY <1>1, <1>2, <1>7, <1>9, <1>10, <1>11, ConfirmGo
<1>14. PICK f, g, n : f = Freed(ops) /\ g = Freed(Tail(ops)) /\ n = o.by OBVIOUS
<1>15. f = n + g /\ f \in Nat /\ g \in Nat /\ n \in Nat
  <2>1. Frees(Tail(ops)) /\ f = Given(o) + g BY <1>1, <1>2, <1>4, <1>14, FreedTail
  <2>2. Given(o) = n BY <1>2, <1>14 DEF Given
  <2> QED BY <1>2, <1>4, <1>14, <2>1, <2>2, FreedIs
<1>16. ASSUME NEW x, Closes(c, x) PROVE x = o.move /\ moves[x].src = o.at
  <2>1. PICK j \in 1..Len(ops) : ops[j].op = "state" /\ ops[j].move = x BY <1>1, <1>16 DEF Closes
  <2>2. 1 \in 1..Len(ops) BY <1>2, <1>5, Tails
  <2> QED BY <1>1, <1>2, <1>5, <2>1, <2>2 DEF Ordered
<1>17. PICK w : Weighs(w) BY DEF WantedInv
<1>18. w \in [tried -> Nat] BY <1>17 DEF Weighs
<1>19. \A l : Reserved(l) \in Nat BY OnHandIs DEF StockTypes
<1>20. CASE o.move \in tried /\ Closes(c, o.move)
  <2>1. PICK m, k, u : /\ m = o.move /\ k = Most(0, w[m] - n)
                       /\ u = [x \in tried |-> IF x = m THEN k ELSE w[x]]
    OBVIOUS
  <2>2. w[m] \in Nat /\ k \in Nat /\ k <= w[m]
    <3>1. PICK a : a = w[m] OBVIOUS
    <3>2. a \in Nat /\ k = Most(0, a - n) /\ n \in Nat BY <1>15, <1>18, <1>20, <2>1, <3>1
    <3>3. k \in Nat /\ k <= a BY ONLY <3>2 DEF Most
    <3> QED BY <3>1, <3>2, <3>3
  <2>3. u \in [tried -> Nat] /\ \A x \in tried : u[x] <= w[x] BY <1>18, <2>1, <2>2
  <2>4. Covers(u, q, moves, tried)
    <3>1. ASSUME NEW x \in tried, moves[x].src \in Internal, Closes(q, x) PROVE u[x] <= Freed(q.ops)
      <4>1. Closes(c, x) /\ x = m BY <1>8, <1>16, <2>1, <3>1
      <4>2. w[m] <= f BY <1>1, <1>14, <1>17, <3>1, <4>1 DEF Weighs, Covers
      <4>3. u[x] = k BY <2>1, <3>1, <4>1
      <4>4. PICK a : a = w[m] OBVIOUS
      <4>5. a \in Nat /\ a <= f /\ k = Most(0, a - n) BY <2>1, <2>2, <4>2, <4>4
      <4>6. k <= g BY ONLY <1>15, <4>5 DEF Most
      <4> QED BY <1>3, <1>14, <4>3, <4>6
    <3> QED BY <3>1 DEF Covers
  <2>5. ASSUME NEW l \in Internal PROVE Reserved(l)' <= SumOf(u, Wanted(tried, moves', l))
    <3>1. PICK S : S = Wanted(tried, moves, l) OBVIOUS
    <3>2. IsFiniteSet(S) /\ S \subseteq tried BY <3>1, WantedFinite
    <3>3. /\ u \in [tried -> Nat] /\ SumOf(u, S) \in Nat /\ SumOf(w, S) \in Nat
          /\ m \in S => SumOf(u, S) = SumOf(w, S) + k - w[m] /\ SumOf(u, S) >= k
          /\ m \notin S => SumOf(u, S) = SumOf(w, S)
      BY ONLY <1>18, <2>1, <2>2, <3>2, WeightOne
    <3>4. PICK R, a, s, t : R = Reserved(l) /\ a = w[m] /\ s = SumOf(w, S) /\ t = SumOf(u, S) OBVIOUS
    <3>5. R <= s /\ R \in Nat BY <1>17, <1>19, <3>1, <3>4 DEF Weighs
    <3>6. CASE m \in S
      <4>1. l = o.at BY <1>16, <1>20, <2>1, <3>1, <3>6 DEF Wanted
      <4>2. Reserved(l)' = Most(0, R - n) BY <1>2, <1>14, <3>4, <4>1
      <4>3. t \in Nat /\ s \in Nat /\ a \in Nat /\ t = s + k - a /\ k = Most(0, a - n)
        BY <2>1, <2>2, <3>3, <3>4, <3>6
      <4>4. Most(0, R - n) <= t BY ONLY <1>15, <3>5, <4>3 DEF Most
      <4> QED BY <1>2, <3>1, <3>4, <4>2, <4>4
    <3>7. CASE m \notin S
      <4>1. Reserved(l)' = R \/ Reserved(l)' = Most(0, R - n) BY <1>2, <1>14, <3>4
      <4>2. t = s /\ s \in Nat BY <3>3, <3>4, <3>7
      <4>3. R <= t /\ Most(0, R - n) <= t BY ONLY <1>15, <3>5, <4>2 DEF Most
      <4> QED BY <1>2, <3>1, <3>4, <4>1, <4>3
    <3> QED BY <3>6, <3>7
  <2>6. \E x : Weighs(x)' BY <1>2, <1>7, <1>10, <1>17, <2>3, <2>4, <2>5, WeightGo
  <2> QED BY <1>12, <1>13, <2>6 DEF WantedInv
<1>21. CASE ~(o.move \in tried /\ Closes(c, o.move))
  <2>1. \A x \in tried : w[x] <= w[x] BY <1>18
  <2>2. Covers(w, q, moves, tried) BY <1>8, <1>16, <1>21 DEF Covers
  <2>3. ASSUME NEW l \in Internal PROVE Reserved(l)' <= SumOf(w, Wanted(tried, moves', l))
    <3>1. PICK R, s : R = Reserved(l) /\ s = SumOf(w, Wanted(tried, moves, l)) OBVIOUS
    <3>2. R <= s /\ R \in Nat BY <1>17, <1>19, <3>1 DEF Weighs
    <3>3. s \in Nat
      <4>1. PICK S : S = Wanted(tried, moves, l) OBVIOUS
      <4>2. IsFiniteSet(S) /\ S \subseteq tried BY <4>1, WantedFinite
      <4>3. \A x \in S : w[x] \in Nat BY <1>18, <4>2
      <4>4. SumOf(w, S) \in Nat BY ONLY <4>2, <4>3, SumNat
      <4> QED BY <3>1, <4>1, <4>4
    <3>4. Reserved(l)' = R \/ Reserved(l)' = Most(0, R - n) BY <1>2, <1>14, <3>1
    <3>5. Most(0, R - n) <= s BY ONLY <1>15, <3>2, <3>3 DEF Most
    <3> QED BY <1>2, <3>1, <3>2, <3>4, <3>5
  <2>4. \E x : Weighs(x)' BY <1>2, <1>7, <1>10, <1>17, <1>18, <2>1, <2>2, <2>3, WeightGo
  <2> QED BY <1>12, <1>13, <2>4 DEF WantedInv
<1> QED BY <1>20, <1>21

\* A move is reserved for, once.
LEMMA WantedReserve ==
  ASSUME StockTypes, StockTypes', WantedInv, NEW r \in Requests, Reserve(r)
  PROVE  WantedInv'
<1>1. PICK c, ops, o, m : c = req[r] /\ ops = c.ops /\ o = ops[1] /\ m = o.move OBVIOUS
<1>2. /\ ops # <<>> /\ o.op = "reserve" /\ moves' = moves /\ tried' = tried \cup {m}
      /\ o.by \in Nat /\ c.kind = "confirm" /\ Resolves(r, m)
  BY <1>1, ReserveStep
<1>3. PICK n \in 0..o.by : \A l : Reserved(l)' = Reserved(l) + (IF l = o.at THEN n ELSE 0)
  BY <1>1, ReserveStep
<1>4. PICK q, s : Goes(r, q) /\ q.ops = <<s>> /\ s \in Ops /\ s.op = "state" /\ s.move = m /\ s.to \in Open
  BY <1>2 DEF Resolves
<1>5. /\ req' = [req EXCEPT ![r] = q] /\ q.todo = c.todo
      /\ q = Idle \/ (q.kind = c.kind /\ q.pick = c.pick)
  BY <1>1, <1>4 DEF Goes
<1>6. /\ OpsFit(ops, c.kind, c.pick, moves)
      /\ \A x \in c.todo : x \in 1..Len(moves) /\ moves[x].pick = c.pick
  BY <1>1, CallFrees
<1>7. 1 \in 1..Len(ops) /\ m \in 1..Len(moves) /\ moves[m].pick = c.pick
  <2>1. 1 \in 1..Len(ops) BY <1>2, <1>6, Tails DEF OpsFit
  <2>2. OpFits(ops[1], moves) /\ moves[ops[1].move].pick = c.pick BY <1>6, <2>1 DEF OpsFit
  <2> QED BY <1>1, <2>1, <2>2 DEF OpFits
<1>8. Confirms(c, moves, tried) /\ PicksInv /\ ConfirmInv BY <1>1 DEF WantedInv, ConfirmInv
<1>9. /\ c.pick # 0 /\ m \notin c.todo /\ m \notin tried /\ moves[m].state \in Open
      /\ moves[m].src = o.at /\ o.at \in Internal /\ o.by <= moves[m].demand
      /\ \A x \in c.todo : x \notin tried /\ moves[x].state \in Open
  BY <1>1, <1>2, <1>7, <1>8 DEF Confirms
<1>10. moves[m] \in MoveRows /\ moves[m].demand \in Nat
  <2>1. moves[m] \in MoveRows BY <1>7 DEF StockTypes
  <2> QED BY <2>1 DEF MoveRows
<1>11. Keeps(moves, moves') BY <1>2, KeepsSame DEF StockTypes
<1>12. \A x \in tried : x \in 1..Len(moves) /\ moves[x] \in MoveRows /\ moves[x].pick # 0
  BY <1>8, WantedFinite DEF PicksInv
<1>13. Len(q.ops) = 1 /\ q.ops[1] = s BY <1>4, One
<1>14. q.pick \in {0, c.pick} BY <1>5 DEF Idle, Call
<1>15. Confirms(q, moves', tried')
  <2>1. CASE q = Idle BY <2>1 DEF Confirms, Idle, Call
  <2>2. CASE q # Idle
    <3>1. q.pick = c.pick /\ q.todo = c.todo BY <1>5, <2>2
    <3>2. \A x \in q.todo : x \notin tried' /\ moves'[x].state \in Open BY <1>2, <1>9, <3>1
    <3>3. \A i \in 1..Len(q.ops) : q.ops[i].move \notin q.todo /\ q.ops[i].op # "reserve"
      BY <1>4, <1>9, <1>13, <3>1
    <3> QED BY <1>9, <3>1, <3>2, <3>3 DEF Confirms
  <2> QED BY <2>1, <2>2
<1>16. PicksInv'
  <2>1. \A x \in tried' : x \in 1..Len(moves) /\ moves[x].pick # 0 BY <1>2, <1>7, <1>9, <1>12
  <2> QED BY <1>1, <1>5, <1>8, <1>11, <1>14, <2>1, PicksGo
<1>17. ConfirmInv'
  <2>1. \A x \in 1..Len(moves) : moves[x].pick # req[r].pick =>
          moves'[x].state = moves[x].state /\ (x \in tried' <=> x \in tried)
    BY <1>1, <1>2, <1>7, <1>9
  <2> QED BY <1>5, <1>8, <1>11, <1>15, <2>1, ConfirmGo
<1>18. PICK w : Weighs(w) BY DEF WantedInv
<1>19. w \in [tried -> Nat] BY <1>18 DEF Weighs
<1>20. PICK T, u : T = tried \cup {m} /\ u = [x \in T |-> IF x = m THEN n ELSE w[x]] OBVIOUS
<1>21. /\ n \in Nat /\ n <= o.by /\ u \in [T -> Nat] /\ u[m] = n
       /\ \A x \in tried : u[x] = w[x]
  <2>1. n \in Nat /\ n <= o.by BY <1>2, <1>3
  <2> QED BY <1>9, <1>19, <1>20, <2>1
<1>22. \A x \in T : u[x] <= moves'[x].demand
  <2> TAKE x \in T
  <2>1. CASE x = m
    <3>1. PICK d : d = moves[m].demand OBVIOUS
    <3>2. d \in Nat /\ o.by <= d /\ o.by \in Nat /\ n \in Nat /\ n <= o.by BY <1>2, <1>9, <1>10, <1>21, <3>1
    <3>3. n <= d BY ONLY <3>2
    <3> QED BY <1>2, <1>21, <2>1, <3>1, <3>3
  <2>2. CASE x # m
    <3>1. x \in tried BY <1>20, <2>2
    <3> QED BY <1>2, <1>18, <1>21, <3>1 DEF Weighs
  <2> QED BY <2>1, <2>2
<1>23. \A x \in Requests : req'[x] = IF x = r THEN q ELSE req[x] BY <1>5 DEF StockTypes
<1>24. ASSUME NEW x \in Requests PROVE Covers(u, req'[x], moves', T)
  <2>1. CASE x = r
    <3>1. \A y : ~Closes(q, y) BY <1>4, <1>13 DEF Closes
    <3> QED BY <1>23, <2>1, <3>1 DEF Covers
  <2>2. CASE x # r
    <3>1. PICK d : d = req[x] OBVIOUS
    <3>2. OpsFit(d.ops, d.kind, d.pick, moves) BY <3>1, CallFrees
    <3>3. d.pick # c.pick BY <1>1, <1>8, <1>9, <2>2, <3>1 DEF PicksInv
    <3>4. ~Closes(d, m)
      <4>1. \A i \in 1..Len(d.ops) : moves[d.ops[i].move].pick = d.pick BY <3>2 DEF OpsFit
      <4>2. ASSUME Closes(d, m) PROVE FALSE
        <5>1. PICK i \in 1..Len(d.ops) : d.ops[i].move = m BY <4>2 DEF Closes
        <5> QED BY <1>7, <3>3, <4>1, <5>1
      <4> QED BY <4>2
    <3>5. Covers(w, d, moves, tried) BY <1>18, <3>1 DEF Weighs
    <3>6. Covers(u, d, moves, T)
      <4>1. ASSUME NEW y \in T, moves[y].src \in Internal, Closes(d, y) PROVE u[y] <= Freed(d.ops)
        <5>1. y \in tried BY <1>20, <3>4, <4>1
        <5> QED BY <1>21, <3>5, <4>1, <5>1 DEF Covers
      <4> QED BY <4>1 DEF Covers
    <3> QED BY <1>2, <1>23, <2>2, <3>1, <3>6
  <2> QED BY <2>1, <2>2
<1>25. ASSUME NEW l \in Internal PROVE Reserved(l)' <= SumOf(u, Wanted(T, moves, l))
  <2>1. PICK S : S = Wanted(tried, moves, l) OBVIOUS
  <2>2. IsFiniteSet(S) /\ S \subseteq tried BY <2>1, WantedFinite
  <2>3. SumOf(u, S) = SumOf(w, S)
    <3>1. \A x \in S : u[x] = w[x] BY <1>21, <2>2
    <3> QED BY ONLY <2>2, <3>1, SumSame
  <2>4. SumOf(w, S) \in Nat
    <3>1. \A x \in S : w[x] \in Nat BY <1>19, <2>2
    <3> QED BY ONLY <2>2, <3>1, SumNat
  <2>5. PICK R, k : R = Reserved(l) /\ k = SumOf(w, S) OBVIOUS
  <2>6. R \in Nat /\ R <= k /\ k \in Nat
    BY <1>18, <2>1, <2>4, <2>5, OnHandIs DEF Weighs, StockTypes
  <2>7. CASE l = o.at
    <3>1. Wanted(T, moves, l) = S \cup {m} BY <1>9, <1>20, <2>1, <2>7 DEF Wanted
    <3>2. m \notin S /\ \A x \in S \cup {m} : u[x] \in Int BY <1>9, <1>20, <1>21, <2>2
    <3>3. SumOf(u, S \cup {m}) = u[m] + SumOf(u, S) BY ONLY <2>2, <3>2, SumAdd
    <3>4. Reserved(l)' = R + n BY <1>3, <2>5, <2>7
    <3>5. SumOf(u, S \cup {m}) = n + k BY <1>21, <2>3, <2>5, <3>3
    <3>6. R + n <= n + k BY ONLY <1>21, <2>6
    <3> QED BY <3>1, <3>4, <3>5, <3>6
  <2>8. CASE l # o.at
    <3>1. Wanted(T, moves, l) = S BY <1>9, <1>20, <2>1, <2>8 DEF Wanted
    <3>2. Reserved(l)' = R + 0 BY <1>3, <2>5, <2>8
    <3> QED BY <2>3, <2>5, <2>6, <3>1, <3>2
  <2> QED BY <2>7, <2>8
<1>26. Weighs(u)'
  <2>1. tried' = T BY <1>2, <1>20
  <2>2. (u \in [tried -> Nat])' BY <1>21, <2>1
  <2>3. \A x \in tried' : u[x] <= moves'[x].demand BY <1>22, <2>1
  <2>4. \A x \in Requests : Covers(u, req'[x], moves', tried') BY <1>24, <2>1
  <2>5. \A l \in Internal : Reserved(l)' <= SumOf(u, Wanted(tried', moves', l)) BY <1>2, <1>25, <2>1
  <2> QED BY <2>2, <2>3, <2>4, <2>5 DEF Weighs
<1> QED BY <1>16, <1>17, <1>26 DEF WantedInv

\* A move is closed once nothing is left to release for it, and so holds nothing.
LEMMA WantedState ==
  ASSUME StockTypes, StockTypes', WantedInv, NEW r \in Requests, SetState(r)
  PROVE  WantedInv'
<1>1. PICK c, ops, o, m : c = req[r] /\ ops = c.ops /\ o = ops[1] /\ m = o.move OBVIOUS
<1>2. ops # <<>> /\ o.op = "state" /\ UNCHANGED <<quant, tried>> BY <1>1, StateSet
<1>3. \A l : Reserved(l)' = Reserved(l) /\ Reserved(l) \in Nat BY <1>2, OnHandIs DEF Reserved, StockTypes
<1>4. CASE Stop(r) /\ moves' = moves
  <2>1. req' = [req EXCEPT ![r] = Idle] /\ Keeps(moves, moves') BY <1>4, KeepsSame DEF Stop, StockTypes
  <2> QED BY <1>2, <1>3, <1>4, <2>1, WantedIdle
<1>5. CASE ~(Stop(r) /\ moves' = moves)
  <2>1. /\ Done(r, <<>>) /\ (moves[m].state \notin Open => o.to = moves[m].state)
        /\ \E row : Edited(moves, m, row, moves') /\ row.state = o.to
    BY <1>1, <1>5, StateSet
  <2>2. /\ Keeps(moves, moves') /\ m \in 1..Len(moves) /\ moves'[m].state = o.to
        /\ \A x \in 1..Len(moves) : x # m => moves'[x] = moves[x]
    BY <2>1, MoveEdited
  <2>3. PICK q : Goes(r, q) /\ q.ops = Tail(ops) BY <1>1, <1>2, <2>1, DoneTail
  <2>4. /\ OpsFit(ops, c.kind, c.pick, moves) /\ Frees(ops)
        /\ \A x \in c.todo : x \in 1..Len(moves) /\ moves[x].pick = c.pick
    BY <1>1, CallFrees
  <2>5. ops \in Seq(Ops) /\ Ordered(ops, moves) /\ 1 \in 1..Len(ops) /\ moves[m].pick = c.pick
    BY <1>1, <1>2, <2>4, Tails DEF OpsFit
  <2>6. \A i \in 1..Len(ops) : ops[i].op # "release"
    <3>1. \A i \in 1..Len(ops) : i \in Nat /\ i >= 1 BY <2>5
    <3>2. \A i \in 1..Len(ops) : ops[i].op = "release" => i < 1 BY <1>1, <1>2, <2>5 DEF Ordered
    <3> QED BY <3>1, <3>2
  <2>7. Freed(ops) = 0 /\ Freed(q.ops) \in Nat
    <3>1. Frees(q.ops) BY <1>2, <2>3, <2>4, FreedTail
    <3> QED BY <2>5, <2>6, <3>1, FreedNone, FreedIs
  <2>8. Shrinks(q, c) BY <1>1, <1>2, <2>3, <2>5, ShrinksTail
  <2>9. q.todo = c.todo /\ (q = Idle \/ (q.kind = c.kind /\ q.pick = c.pick)) /\ req' = [req EXCEPT ![r] = q]
    BY <1>1, <2>3 DEF Goes
  <2>10. /\ Confirms(c, moves, tried) => Confirms(q, moves, tried)
         /\ \A x : Closes(q, x) => Closes(c, x)
         /\ q.pick \in {0, c.pick}
    BY <2>8, <2>9, ShrinksKeeps
  <2>11. /\ PicksInv /\ ConfirmInv /\ Confirms(c, moves, tried)
         /\ \A x \in tried : x \in 1..Len(moves) /\ moves[x].pick # 0
    BY <1>1, WantedFinite DEF WantedInv, PicksInv, ConfirmInv
  <2>12. Confirms(q, moves', tried)
    <3>1. CASE q.kind # "confirm" BY <3>1 DEF Confirms
    <3>2. CASE q.kind = "confirm"
      <4>1. q.todo = c.todo /\ q.kind = c.kind /\ q.pick = c.pick BY <2>9, <3>2 DEF Idle, Call
      <4>2. m \notin c.todo BY <1>1, <2>5, <2>11, <3>2, <4>1 DEF Confirms
      <4>3. Confirms(q, moves, tried) BY <2>10, <2>11
      <4>4. \A x \in q.todo : x \notin tried /\ moves'[x].state \in Open
        BY <2>2, <2>4, <3>2, <4>1, <4>2, <4>3 DEF Confirms
      <4>5. ASSUME NEW i \in 1..Len(q.ops) PROVE q.ops[i].op # "reserve"
        <5>1. Len(q.ops) = Len(ops) - 1 /\ Len(ops) \in Nat /\ q.ops[i] = ops[i + 1] /\ i + 1 \in 1..Len(ops)
          BY <1>2, <2>3, <2>5, <4>5, Tails
        <5>2. ops[i + 1].op = "reserve" => Len(ops) = 1 BY <2>5, <5>1 DEF Ordered
        <5> QED BY <5>1, <5>2
      <4> QED BY <3>2, <4>3, <4>4, <4>5 DEF Confirms
    <3> QED BY <3>1, <3>2
  <2>13. PicksInv' BY <1>1, <1>2, <2>2, <2>9, <2>10, <2>11, PicksGo
  <2>14. ConfirmInv'
    <3>1. \A x \in 1..Len(moves) : moves[x].pick # req[r].pick =>
            moves'[x].state = moves[x].state /\ (x \in tried' <=> x \in tried)
      BY <1>1, <1>2, <2>2, <2>5
    <3> QED BY <1>2, <2>2, <2>9, <2>11, <2>12, <3>1, ConfirmGo
  <2>15. PICK w : Weighs(w) BY DEF WantedInv
  <2>16. w \in [tried -> Nat] /\ Covers(w, c, moves, tried) BY <1>1, <2>15 DEF Weighs
  <2>17. \A x \in tried : moves[x].src \in Internal /\ Closes(c, x) => w[x] = 0
    <3>1. \A x \in tried : moves[x].src \in Internal /\ Closes(c, x) => w[x] <= 0
      BY <1>1, <2>7, <2>16 DEF Covers
    <3> QED BY <2>16, <3>1
  <2>18. Covers(w, q, moves, tried)
    <3>1. \A x \in tried : moves[x].src \in Internal /\ Closes(q, x) => w[x] = 0 BY <2>10, <2>17
    <3> QED BY <2>7, <3>1 DEF Covers
  <2>19. ASSUME NEW l \in Internal PROVE Reserved(l)' <= SumOf(w, Wanted(tried, moves', l))
    <3>1. PICK S, U : S = Wanted(tried, moves, l) /\ U = Wanted(tried, moves', l) OBVIOUS
    <3>2. IsFiniteSet(S) /\ S \subseteq tried BY <3>1, WantedFinite
    <3>3. Reserved(l)' <= SumOf(w, S) BY <1>3, <2>15, <3>1 DEF Weighs
    <3>4. \A x \in tried : /\ moves'[x].src = moves[x].src
                           /\ x # m => moves'[x].state = moves[x].state
      BY <2>2, <2>11 DEF Keeps
    <3>5. CASE o.to \in Open \/ m \notin S
      <4>1. ASSUME m \in tried, moves[m].src = l PROVE moves'[m].state \in Open <=> moves[m].state \in Open
        BY <2>1, <2>2, <3>1, <3>5, <4>1 DEF Wanted
      <4>2. U = S BY <3>1, <3>4, <4>1 DEF Wanted
      <4> QED BY <3>1, <3>3, <4>2
    <3>6. CASE o.to \notin Open /\ m \in S
      <4>1. U = S \ {m} BY <2>2, <3>1, <3>4, <3>6 DEF Wanted
      <4>2. m \in tried /\ moves[m].src \in Internal BY <3>1, <3>2, <3>6 DEF Wanted
      <4>3. Closes(c, m) BY <1>1, <1>2, <2>5, <3>6 DEF Closes
      <4>4. w[m] = 0 BY <2>17, <4>2, <4>3
      <4>5. \A x \in S : w[x] \in Nat /\ w[x] \in Int BY <2>16, <3>2
      <4>6. SumOf(w, S) = w[m] + SumOf(w, U)
        <5>1. \A x \in S : w[x] \in Int BY <4>5
        <5>2. IsFiniteSet(S) BY <3>2
        <5>3. \A x \in S : SumOf(w, S) = w[x] + SumOf(w, S \ {x}) BY ONLY <5>1, <5>2, SumRemove
        <5> QED BY <3>6, <4>1, <5>3
      <4>7. SumOf(w, U) \in Nat
        <5>1. IsFiniteSet(U) /\ \A x \in U : w[x] \in Nat BY <3>2, <4>1, <4>5, FS_RemoveElement
        <5> QED BY ONLY <5>1, SumNat
      <4> QED BY <3>1, <3>3, <4>4, <4>6, <4>7
    <3> QED BY <3>5, <3>6
  <2>20. \A x \in tried : w[x] <= w[x] BY <2>16
  <2>21. \E x : Weighs(x)' BY <1>2, <2>2, <2>9, <2>15, <2>16, <2>18, <2>19, <2>20, WeightGo
  <2> QED BY <2>13, <2>14, <2>21 DEF WantedInv
<1> QED BY <1>4, <1>5

\* A transaction that neither reserves, releases nor resolves, or a call that ends early.
LEMMA WantedDone ==
  ASSUME StockTypes, StockTypes', WantedInv, NEW r \in Requests,
         AddLine(r) \/ Adjust(r) \/ Insert(r) \/ Overwrite(r) \/ Fails(r)
  PROVE  WantedInv'
<1>1. PICK c, ops, o : c = req[r] /\ ops = c.ops /\ o = ops[1] OBVIOUS
<1>2. moves \in Seq(MoveRows) BY DEF StockTypes
<1>3. OpsFit(ops, c.kind, c.pick, moves) /\ ops \in Seq(Ops) /\ Frees(ops) /\ Freed(ops) \in Nat
  BY <1>1, CallFrees DEF OpsFit
<1>4. ASSUME Stop(r), UNCHANGED <<quant, moves, tried>> PROVE WantedInv'
  <2>1. req' = [req EXCEPT ![r] = Idle] /\ Keeps(moves, moves') BY <1>2, <1>4, KeepsSame DEF Stop
  <2> QED BY <1>4, <2>1, WantedIdle DEF Reserved
<1>5. ASSUME ops # <<>>, o.op # "release", NEW q, Goes(r, q), q.ops = Tail(ops), tried' = tried,
             Keeps(moves, moves'), \A l : Reserved(l)' = Reserved(l),
             \A m \in 1..Len(moves) : moves'[m].state = moves[m].state
      PROVE  WantedInv'
  <2>1. Shrinks(q, req[r]) BY <1>1, <1>3, <1>5, ShrinksTail
  <2>2. Frees(q.ops) /\ Freed(ops) = Given(o) + Freed(q.ops) BY <1>1, <1>3, <1>5, FreedTail
  <2>3. Given(o) = 0 /\ Freed(q.ops) \in Nat BY <1>5, <2>2, FreedIs DEF Given
  <2>4. Freed(q.ops) >= Freed(req[r].ops) BY <1>1, <2>2, <2>3
  <2> QED BY <1>5, <2>1, <2>3, <2>4, WantedOn
<1>6. CASE AddLine(r)
  <2>1. /\ ops # <<>> /\ o.op = "line" /\ Done(r, <<>>) /\ UNCHANGED <<quant, tried>>
        /\ \E m, row : Edited(moves, m, row, moves') /\ row.state = moves[m].state
    BY <1>1, <1>6, LineAdded
  <2>2. PICK m, row : Edited(moves, m, row, moves') /\ row.state = moves[m].state BY <2>1
  <2>3. Keeps(moves, moves') /\ \A x \in 1..Len(moves) : moves'[x].state = moves[x].state
    BY <2>2, MoveEdited
  <2>4. \E q : Goes(r, q) /\ q.ops = Tail(ops) BY <1>1, <2>1, DoneTail
  <2>5. \A l : Reserved(l)' = Reserved(l) BY <2>1 DEF Reserved
  <2> QED BY <1>5, <2>1, <2>3, <2>4, <2>5
<1>7. CASE Insert(r)
  <2>1. ops # <<>> /\ o.op = "insert" /\ UNCHANGED <<moves, tried>> BY <1>1, <1>7, InsertStep
  <2>2. CASE Stop(r) /\ quant' = quant BY <1>4, <2>1, <2>2
  <2>3. CASE ~(Stop(r) /\ quant' = quant)
    <3>1. /\ \A l : Reserved(l)' = Reserved(l)
          /\ \E q : Goes(r, q) /\ q.ops = Tail(ops)
      BY <1>1, <1>7, <2>3, InsertStep
    <3>2. Keeps(moves, moves') BY <1>2, <2>1, KeepsSame
    <3> QED BY <1>5, <2>1, <3>1, <3>2
  <2> QED BY <2>2, <2>3
<1>8. CASE Overwrite(r)
  <2>1. /\ ops # <<>> /\ o.op = "overwrite" /\ UNCHANGED <<moves, tried>>
        /\ \A l : Reserved(l)' = Reserved(l)
        /\ \E q : Goes(r, q) /\ q.ops = Tail(ops)
    BY <1>1, <1>8, OverwriteStep
  <2>2. Keeps(moves, moves') BY <1>2, <2>1, KeepsSame
  <2> QED BY <1>5, <2>1, <2>2
<1>9. CASE Fails(r) BY <1>4, <1>9 DEF Fails, rows
<1>10. CASE Adjust(r)
  <2>1. ops # <<>> /\ o.op = "adjust" /\ UNCHANGED <<moves, tried>> BY <1>1, <1>10, AdjustStep
  <2>2. PICK q : /\ Goes(r, q)
                 /\ \/ q.ops = Tail(ops) /\ \A l : Reserved(l)' = Reserved(l)
                    \/ q.ops = <<[o EXCEPT !.op = "insert"]>> \o Tail(ops) /\ quant' = quant
    BY <1>1, <1>10, AdjustStep, ZenonT(60)
  <2>3. Keeps(moves, moves') BY <1>2, <2>1, KeepsSame
  <2>4. CASE q.ops = Tail(ops) /\ \A l : Reserved(l)' = Reserved(l)
    BY <1>5, <2>1, <2>2, <2>3, <2>4
  <2>5. CASE q.ops = <<[o EXCEPT !.op = "insert"]>> \o Tail(ops) /\ quant' = quant
    <3>1. PICK x, t : x = [o EXCEPT !.op = "insert"] /\ t = q.ops OBVIOUS
    <3>2. x \in Ops /\ x.op = "insert" /\ x.move = o.move
      <4>1. o \in Ops BY <1>1, <2>1, HeadOf
      <4> QED BY <3>1, <4>1 DEF Ops, OpNames
    <3>3. t = <<x>> \o Tail(ops) BY <2>5, <3>1
    <3>4. Shrinks(q, c)
      <4>1. x \in Ops /\ q.ops = <<x>> \o Tail(c.ops) BY ONLY <1>1, <3>1, <3>2, <3>3
      <4>2. x.move = c.ops[1].move /\ x.op \notin {"reserve", "state"} BY ONLY <1>1, <3>2
      <4>3. \E y \in Ops : /\ q.ops = <<y>> \o Tail(c.ops)
                          /\ y.move = c.ops[1].move /\ y.op \notin {"reserve", "state"}
        BY ONLY <4>1, <4>2
      <4>4. c.ops \in Seq(Ops) /\ c.ops # <<>> BY ONLY <1>1, <1>3, <2>1
      <4> QED BY ONLY <4>3, <4>4, ShrinksTail
    <3>5. t # <<>> /\ t[1] = x /\ Tail(t) = Tail(ops) BY ONLY <1>3, <2>1, <3>2, <3>3, Replaced
    <3>6. Frees(t)
      <4>1. OpsFit(t, c.kind, c.pick, moves) BY <1>1, <1>3, <2>1, <2>5, <3>1, OpsInsert
      <4> QED BY <4>1, OpsFree
    <3>7. Freed(t) = Given(x) + Freed(Tail(ops)) BY <3>5, <3>6, FreedTail
    <3>8. Freed(ops) = Given(o) + Freed(Tail(ops)) BY <1>1, <1>3, <2>1, FreedTail
    <3>9. Given(x) = 0 /\ Given(o) = 0 BY <2>1, <3>2 DEF Given
    <3>10. Freed(q.ops) >= Freed(req[r].ops) /\ Freed(q.ops) \in Nat
      BY <1>1, <1>3, <3>1, <3>7, <3>8, <3>9
    <3>11. \A l : Reserved(l)' = Reserved(l) BY <2>5 DEF Reserved
    <3> QED BY <1>1, <2>1, <2>2, <2>3, <3>4, <3>10, <3>11, WantedOn
  <2> QED BY <2>2, <2>4, <2>5
<1> QED BY <1>6, <1>7, <1>8, <1>9, <1>10

LEMMA WantedNext ==
  ASSUME Orderly, StockTypes, StockTypes', WantedInv, [Next]_vars
  PROVE  WantedInv'
<1>1. moves \in Seq(MoveRows) BY DEF StockTypes
<1>2. CASE UNCHANGED vars
  <2>1. UNCHANGED <<quant, moves, req, tried>> BY <1>2 DEF vars
  <2>2. Keeps(moves, moves') BY <1>1, <2>1, KeepsSame
  <2> QED BY <2>1, <2>2, WantedRows
<1>3. ASSUME NEW p \in DOMAIN pickings, Return(p) PROVE WantedInv'
  <2>1. PICK specs \in Seq(Specs) : AddPicking(0, specs) /\ UNCHANGED <<quant, req, tried, lost>>
    BY <1>3, ReturnIs
  <2>2. Len(pickings) + 1 \in Nat /\ AddMoves(Len(pickings) + 1, specs) BY <2>1 DEF AddPicking, StockTypes
  <2>3. Extended(moves, Len(pickings) + 1, specs, moves') BY <1>1, <2>2 DEF Extended, AddMoves
  <2>4. Keeps(moves, moves') /\ \A m \in 1..Len(moves) : moves'[m].state = moves[m].state
    BY <2>3, MovesAdded
  <2> QED BY <2>1, <2>4, WantedRows
<1>4. ASSUME NEW r \in Requests, NEW c \in Scraps, Scrap(r, c[1], c[2]) PROVE WantedInv'
  <2>1. PICK write : write = Op("overwrite", Len(moves) + 1, c[1], 0, None) OBVIOUS
  <2>2. Starts(r, "scrap", c[2], c[1], Loss, write) BY <1>4, <2>1, ScrapIs
  <2>3. "scrap" \in {"scrap", "count"} OBVIOUS
  <2> QED BY <2>2, <2>3, WantedStart
<1>5. ASSUME NEW r \in Requests, NEW c \in Counts, Count(r, c[1], c[2]) PROVE WantedInv'
  <2>1. PICK write : write = Op("overwrite", Len(moves) + 1, c[1], c[2], None) OBVIOUS
  <2>2. PICK n, from, to : Starts(r, "count", n, from, to, write) BY <1>5, <2>1, CountIs
  <2>3. "count" \in {"scrap", "count"} OBVIOUS
  <2> QED BY <2>2, <2>3, WantedStart
<1>6. ASSUME NEW r \in Requests,
             \/ \E p \in DOMAIN pickings :
                  ConfirmBegin(r, p) \/ CancelBegin(r, p) \/ \E b \in BOOLEAN : ValidateBegin(r, p, b)
             \/ \E m \in DOMAIN moves : ConfirmMove(r, m) \/ ValidateMove(r, m) \/ CancelMove(r, m)
             \/ ValidateEnd(r)
             \/ Release(r) \/ Reserve(r) \/ SetState(r)
             \/ AddLine(r) \/ Adjust(r) \/ Insert(r) \/ Overwrite(r) \/ Fails(r)
      PROVE  WantedInv'
  BY <1>6, WantedBegin, WantedConfirm, WantedValidate, WantedCancel, WantedEnd, WantedRelease,
     WantedReserve, WantedState, WantedDone
<1> QED BY <1>2, <1>3, <1>4, <1>5, <1>6 DEF Next

LEMMA WantedInit ==
  ASSUME Init PROVE WantedInv
<1>1. StockTypes /\ tried = {} BY TypesInit DEF Init
<1>2. \A r \in Requests : req[r] = Idle BY DEF Init
<1>3. Idle.pick = 0 /\ Idle.kind = "idle" BY DEF Idle, Call
<1>4. PicksInv BY <1>1, <1>2, <1>3 DEF PicksInv
<1>5. ConfirmInv BY <1>2, <1>3 DEF ConfirmInv, Confirms
<1>6. PICK w : w = [m \in {} |-> 0] OBVIOUS
<1>7. w \in [tried -> Nat] /\ \A r \in Requests : Covers(w, req[r], moves, tried)
  BY <1>1, <1>6 DEF Covers
<1>8. ASSUME NEW l \in Internal PROVE Reserved(l) <= SumOf(w, Wanted(tried, moves, l))
  <2>1. Wanted(tried, moves, l) = {} BY <1>1 DEF Wanted
  <2>2. SumOf(w, Wanted(tried, moves, l)) = 0 BY <2>1, SumEmpty
  <2>3. Reserved(l) = 0 BY DEF Reserved, Init
  <2> QED BY <2>2, <2>3
<1>9. Weighs(w) BY <1>1, <1>7, <1>8 DEF Weighs
<1> QED BY <1>4, <1>5, <1>9 DEF WantedInv

LEMMA WantedBounds ==
  ASSUME StockTypes, WantedInv PROVE ReservedIsWanted
<1>1. PICK w : Weighs(w) BY DEF WantedInv
<1>2. ASSUME NEW l \in Internal
      PROVE  Reserved(l) <= SumAll([m \in Wanted(tried, moves, l) |-> moves[m].demand])
  <2>1. PICK S, h : S = Wanted(tried, moves, l) /\ h = [m \in S |-> moves[m].demand] OBVIOUS
  <2>2. /\ IsFiniteSet(S) /\ S \subseteq tried
        /\ \A m \in tried : m \in 1..Len(moves) /\ moves[m] \in MoveRows
    BY <2>1, WantedFinite
  <2>3. w \in [tried -> Nat] /\ \A m \in tried : w[m] <= moves[m].demand BY <1>1 DEF Weighs
  <2>4. \A m \in S : w[m] \in Int /\ h[m] \in Int /\ w[m] <= h[m] BY <2>1, <2>2, <2>3 DEF MoveRows
  <2>5. SumOf(w, S) <= SumOf(h, S) BY ONLY <2>2, <2>4, SumAtMost
  <2>6. Reserved(l) <= SumOf(w, S) /\ Reserved(l) \in Nat BY <1>1, <2>1, OnHandIs DEF Weighs, StockTypes
  <2>7. SumOf(w, S) \in Nat /\ SumOf(h, S) \in Nat
    <3>1. \A m \in S : w[m] \in Nat BY <2>2, <2>3
    <3>2. \A m \in S : h[m] \in Nat BY <2>1, <2>2 DEF MoveRows
    <3>3. SumOf(w, S) \in Nat BY ONLY <2>2, <3>1, SumNat
    <3>4. SumOf(h, S) \in Nat BY ONLY <2>2, <3>2, SumNat
    <3> QED BY <3>3, <3>4
  <2>8. SumAll(h) = SumOf(h, S) BY <2>1 DEF SumAll
  <2>9. Reserved(l) <= SumAll(h) BY <2>5, <2>6, <2>7, <2>8
  <2> QED BY <2>1, <2>9
<1> QED BY <1>2 DEF ReservedIsWanted, Wanted

\* No stock stays blocked for nobody: whatever is validated, sent to a backorder, cancelled or cut
\* short between two transactions, what is reserved at an internal location is wanted by open moves
\* from there, which asked for at least as much. Clients keep to one call per transfer at a time,
\* and confirm a transfer once: a second confirmation reserves its demand again.
THEOREM ReservedIsWantedHolds ==
  ASSUME Orderly
  PROVE  Spec => []ReservedIsWanted
<1>1. Init => StockTypes /\ WantedInv BY TypesInit, WantedInit
<1>2. StockTypes /\ WantedInv /\ [Next]_vars => (StockTypes /\ WantedInv)'
  BY TypesNext, WantedNext
<1>3. StockTypes /\ WantedInv => ReservedIsWanted BY WantedBounds
<1> QED BY <1>1, <1>2, <1>3, PTL DEF Spec
-----------------------------------------------------------------------------
(* Each unit asked for is moved once.                                      *)

\* The moves of a transfer, and what moves asked for and did not get.
On(mv, p) == {m \in 1..Len(mv) : mv[m].pick = p}
Fresh(mv, p) == \A m \in On(mv, p) : mv[m].state \in Open /\ mv[m].lines = <<>>
Over(mv, p) == \A m \in On(mv, p) : mv[m].state \notin Open

\* What a call is about to carry for a move.
Carrying(q, m) ==
  IF q.ops # <<>> /\ q.ops[1].op = "line" /\ q.ops[1].move = m THEN q.ops[1].by ELSE 0
Missing(q, mv) == [m \in 1..Len(mv) |-> mv[m].demand - SumAll(Units(mv[m])) - Carrying(q, m)]
Asked(specs) == SumOf([i \in 1..Len(specs) |-> specs[i].demand], 1..Len(specs))

\* Only confirmations leave moves open; others close those they have taken up.
Steady(q) ==
  /\ q.kind \in {"confirm", "validate", "cancel"} <=> q.pick # 0
  /\ q.kind = "confirm" => \A i \in 1..Len(q.ops) :
       q.ops[i].op \in {"reserve", "state"} /\ (q.ops[i].op = "state" => q.ops[i].to \in Open)
  /\ q.kind \in {"validate", "cancel"} => \A i \in 1..Len(q.ops) :
       q.ops[i].move \notin q.todo /\ (q.ops[i].op = "state" => q.ops[i].to \notin Open)

Taken(q, mv) == On(mv, q.pick) \ q.todo
Halfway(q, mv) ==
  /\ \A m \in q.todo : mv[m].state \in Open /\ mv[m].lines = <<>>
  /\ \A m \in Taken(q, mv) : mv[m].state \notin Open \/ Closes(q, m)
AddsUp(q, mv) ==
  /\ \A m \in Taken(q, mv) : Missing(q, mv)[m] >= 0
  /\ SumOf(Missing(q, mv), Taken(q, mv)) = Asked(q.rest)
Follows(q, mv) ==
  /\ q.kind = "confirm" => Fresh(mv, q.pick)
  /\ q.kind \in {"validate", "cancel"} => Halfway(q, mv)
  /\ q.kind = "validate" => AddsUp(q, mv)

\* The moves of the backorders of a transfer.
Behind(mv, pk, p) == {m \in 1..Len(mv) : mv[m].pick \in 1..Len(pk) /\ pk[mv[m].pick] = p}
Split(mv, pk, p) ==
  /\ Over(mv, p)
  /\ \A m \in On(mv, p) : Missing(Idle, mv)[m] >= 0
  /\ SumOf(Missing(Idle, mv), On(mv, p))
       = SumOf([m \in 1..Len(mv) |-> mv[m].demand], Behind(mv, pk, p))

Tracked(p, rq, mv) ==
  /\ (\A r \in Requests : rq[r].pick # p) => Fresh(mv, p) \/ Over(mv, p)
  /\ \A r \in Requests : rq[r].pick = p => Follows(rq[r], mv)
Honoured(p, rq, mv, pk) ==
  /\ Split(mv, pk, p)
  /\ \A r \in Requests : rq[r].pick = p => On(mv, p) = {} /\ rq[r].rest = <<>>

UnitsInv ==
  /\ promised \subseteq 1..Len(pickings)
  /\ \A b \in 1..Len(pickings) : pickings[b] # 0 => pickings[b] \in promised
  /\ \A r \in Requests : Steady(req[r])
  /\ \A p \in (1..Len(pickings)) \ cut :
       Tracked(p, req, moves) /\ (p \in promised => Honoured(p, req, moves, pickings))

LEMMA OnIs ==
  ASSUME NEW mv \in Seq(MoveRows), NEW p
  PROVE  /\ IsFiniteSet(On(mv, p)) /\ On(mv, p) \subseteq 1..Len(mv) /\ Len(mv) \in Nat
         /\ \A m \in On(mv, p) : mv[m] \in MoveRows /\ mv[m].pick = p
<1>1. Len(mv) \in Nat /\ IsFiniteSet(1..Len(mv)) BY FS_Interval
<1>2. On(mv, p) \in SUBSET (1..Len(mv)) BY DEF On
<1>3. IsFiniteSet(On(mv, p)) BY <1>1, <1>2, FS_Subset
<1> QED BY <1>1, <1>2, <1>3 DEF On

LEMMA MissingIs ==
  ASSUME NEW mv \in Seq(MoveRows), NEW q \in Calls, NEW m \in 1..Len(mv)
  PROVE  /\ Missing(q, mv)[m] = mv[m].demand - SumAll(Units(mv[m])) - Carrying(q, m)
         /\ Missing(q, mv)[m] \in Int /\ SumAll(Units(mv[m])) \in Int /\ Carrying(q, m) \in Int
         /\ mv[m].demand \in Nat \ {0} /\ mv[m] \in MoveRows
<1>1. mv[m] \in MoveRows OBVIOUS
<1>2. mv[m].demand \in Nat \ {0} /\ SumAll(Units(mv[m])) \in Int BY <1>1, UnitsAre DEF MoveRows
<1>3. Carrying(q, m) \in Int
  <2>1. q.ops \in Seq(Ops) BY DEF Calls
  <2>2. q.ops # <<>> => q.ops[1] \in Ops BY <2>1, Tails
  <2> QED BY <2>2 DEF Carrying, Ops
<1> QED BY <1>1, <1>2, <1>3 DEF Missing

\* What is missing of some moves does not change while they and what a call carries do not.
Even(q, nv, c, mv, S) ==
  /\ Len(mv) \in Nat /\ S \subseteq 1..Len(mv) /\ S \subseteq 1..Len(nv)
  /\ \A m \in S : /\ nv[m].demand = mv[m].demand /\ Carrying(q, m) = Carrying(c, m)
                   /\ SumAll(Units(nv[m])) = SumAll(Units(mv[m]))

LEMMA MissingSame ==
  ASSUME NEW mv, NEW nv, NEW q, NEW c, NEW S, Even(q, nv, c, mv, S)
  PROVE  /\ SumOf(Missing(q, nv), S) = SumOf(Missing(c, mv), S)
         /\ \A m \in S : Missing(q, nv)[m] = Missing(c, mv)[m]
<1>1. PICK f, h : f = Missing(q, nv) /\ h = Missing(c, mv) OBVIOUS
<1>2. \A m \in S : f[m] = h[m] BY <1>1 DEF Missing, Even
<1>3. IsFiniteSet(S)
  <2>1. Len(mv) \in Nat /\ S \in SUBSET (1..Len(mv)) BY DEF Even
  <2>2. IsFiniteSet(1..Len(mv)) BY <2>1, FS_Interval
  <2> QED BY <2>1, <2>2, FS_Subset
<1>4. SumOf(f, S) = SumOf(h, S) BY ONLY <1>2, <1>3, SumSame
<1> QED BY <1>1, <1>2, <1>4

LEMMA AskedIs ==
  ASSUME NEW specs \in Seq(Specs)
  PROVE  /\ Asked(specs) \in Nat /\ Len(specs) \in Nat
         /\ \A i \in 1..Len(specs) : specs[i].demand \in Nat \ {0}
<1>1. PICK f, S : f = [i \in 1..Len(specs) |-> specs[i].demand] /\ S = 1..Len(specs) OBVIOUS
<1>2. \A i \in 1..Len(specs) : specs[i].demand \in Nat \ {0}
  <2>1. \A i \in 1..Len(specs) : specs[i] \in Specs OBVIOUS
  <2> QED BY <2>1 DEF Specs
<1>3. Len(specs) \in Nat OBVIOUS
<1>4. IsFiniteSet(S) /\ \A i \in S : f[i] \in Nat
  <2>1. IsFiniteSet(S) BY <1>1, <1>3, FS_Interval
  <2>2. \A i \in S : f[i] \in Nat \ {0} BY <1>1, <1>2
  <2> QED BY <2>1, <2>2
<1>5. SumOf(f, S) \in Nat BY ONLY <1>4, SumNat
<1> QED BY <1>1, <1>2, <1>3, <1>5 DEF Asked

LEMMA AskedNone == Asked(<<>>) = 0
<1>1. 1..Len(<<>>) = {} OBVIOUS
<1> QED BY <1>1, SumEmpty DEF Asked

\* One more is asked for.
LEMMA AskedMore ==
  ASSUME NEW specs \in Seq(Specs), NEW sp \in Specs, NEW more, more = specs \o <<sp>>
  PROVE  Asked(more) = Asked(specs) + sp.demand
<1>1. PICK n, t : n = Len(specs) /\ t = <<sp>> OBVIOUS
<1>2. t \in Seq(Specs) /\ Len(t) = 1 /\ t[1] = sp BY <1>1
<1>3. PICK R : R = Specs OBVIOUS
<1>4. /\ more \in Seq(R) /\ Len(more) = Len(specs) + Len(t) /\ Len(specs) \in Nat /\ Len(t) \in Nat
      /\ \A m \in 1..Len(specs) : more[m] = specs[m]
      /\ \A m \in 1..(Len(specs) + Len(t)) : m > Len(specs) => more[m] = t[m - Len(specs)]
  <2>1. specs \in Seq(R) /\ t \in Seq(R) /\ more = specs \o t BY <1>1, <1>2, <1>3
  <2> QED BY ONLY <2>1, RowsAdded
<1>5. n \in Nat /\ Len(more) = n + 1 /\ more[n + 1] = sp /\ \A i \in 1..n : more[i] = specs[i]
  <2>1. n + 1 \in 1..(n + 1) /\ n + 1 > n /\ (n + 1) - n = 1 BY <1>1, <1>4
  <2> QED BY <1>1, <1>2, <1>4, <2>1
<1>6. PICK f, h : /\ f = [i \in 1..Len(specs) |-> specs[i].demand]
                  /\ h = [i \in 1..Len(more) |-> more[i].demand]
  OBVIOUS
<1>7. \A i \in 1..n : specs[i].demand \in Int BY <1>1, AskedIs
<1>8. sp.demand \in Int BY DEF Specs
<1>9. 1..n \subseteq 1..(n + 1) /\ n + 1 \in 1..(n + 1) BY <1>5
<1>10. /\ \A i \in 1..n : f[i] \in Int /\ h[i] = f[i]
       /\ h[n + 1] \in Int /\ h[n + 1] = sp.demand
  BY <1>1, <1>5, <1>6, <1>7, <1>8, <1>9
<1>11. SumOf(h, 1..(n + 1)) = SumOf(f, 1..n) + h[n + 1] BY ONLY <1>5, <1>10, SumLast
<1> QED BY <1>1, <1>5, <1>6, <1>10, <1>11 DEF Asked

\* A step leaves a transfer alone: its moves, and the calls on it.
Alike(p, mv, nv) ==
  /\ mv \in Seq(MoveRows) /\ nv \in Seq(MoveRows) /\ Keeps(mv, nv)
  /\ \A m \in 1..Len(nv) : nv[m].pick = p => m \in 1..Len(mv) /\ nv[m] = mv[m]
Aside(p, rq, nq) == \A r \in Requests : rq[r].pick = p \/ nq[r].pick = p => nq[r] = rq[r]

LEMMA OnAlike ==
  ASSUME NEW p, NEW mv, NEW nv, Alike(p, mv, nv)
  PROVE  On(nv, p) = On(mv, p) /\ \A m \in On(mv, p) : m \in 1..Len(mv) /\ m \in 1..Len(nv) /\ nv[m] = mv[m]
<1>1. Len(mv) \in Nat /\ Len(nv) \in Nat /\ Len(mv) <= Len(nv) BY DEF Alike, Keeps
<1>2. \A m \in On(nv, p) : m \in On(mv, p) /\ nv[m] = mv[m] BY DEF Alike, On
<1>3. \A m \in On(mv, p) : m \in On(nv, p) BY <1>1 DEF Alike, Keeps, On
<1> QED BY <1>2, <1>3 DEF On

LEMMA FollowsAlike ==
  ASSUME NEW p, NEW mv, NEW nv, Alike(p, mv, nv), NEW q, q.pick = p, \A m \in q.todo : m \in On(mv, p),
         Follows(q, mv)
  PROVE  Follows(q, nv)
<1>1. On(nv, p) = On(mv, p) /\ \A m \in On(mv, p) : m \in 1..Len(mv) /\ m \in 1..Len(nv) /\ nv[m] = mv[m]
  BY OnAlike
<1>2. q.kind = "confirm" => Fresh(nv, q.pick) BY <1>1 DEF Follows, Fresh
<1>3. Taken(q, nv) = Taken(q, mv) /\ Taken(q, mv) \subseteq On(mv, p) BY <1>1 DEF Taken
<1>4. q.kind \in {"validate", "cancel"} => Halfway(q, nv) BY <1>1, <1>3 DEF Follows, Halfway
<1>5. /\ SumOf(Missing(q, nv), Taken(q, mv)) = SumOf(Missing(q, mv), Taken(q, mv))
      /\ \A m \in Taken(q, mv) : Missing(q, nv)[m] = Missing(q, mv)[m]
  <2>1. PICK S : S = Taken(q, mv) OBVIOUS
  <2>2. /\ S \subseteq 1..Len(mv) /\ S \subseteq 1..Len(nv) /\ Len(mv) \in Nat
        /\ \A m \in S : nv[m] = mv[m]
    BY <1>1, <1>3, <2>1 DEF Alike
  <2>3. Even(q, nv, q, mv, S) BY <2>2 DEF Even
  <2>4. /\ SumOf(Missing(q, nv), S) = SumOf(Missing(q, mv), S)
        /\ \A m \in S : Missing(q, nv)[m] = Missing(q, mv)[m]
    BY ONLY <2>3, MissingSame
  <2> QED BY <2>1, <2>4
<1>6. q.kind = "validate" => AddsUp(q, nv) BY <1>3, <1>5 DEF Follows, AddsUp
<1> QED BY <1>2, <1>4, <1>6 DEF Follows

LEMMA TrackedStays ==
  ASSUME NEW p, NEW mv, NEW nv, Alike(p, mv, nv), NEW rq, NEW nq, Aside(p, rq, nq),
         \A r \in Requests : rq[r].pick = p => \A m \in rq[r].todo : m \in On(mv, p), Tracked(p, rq, mv)
  PROVE  Tracked(p, nq, nv)
<1>1. On(nv, p) = On(mv, p) /\ \A m \in On(mv, p) : nv[m] = mv[m] BY OnAlike
<1>2. \A r \in Requests : (rq[r].pick = p <=> nq[r].pick = p) /\ (nq[r].pick = p => nq[r] = rq[r])
  BY DEF Aside
<1>3. (Fresh(mv, p) => Fresh(nv, p)) /\ (Over(mv, p) => Over(nv, p)) BY <1>1 DEF Fresh, Over
<1>4. ASSUME NEW r \in Requests, nq[r].pick = p PROVE Follows(nq[r], nv)
  <2>1. PICK q : q = nq[r] OBVIOUS
  <2>2. q = rq[r] /\ q.pick = p BY <1>2, <1>4, <2>1
  <2>3. Follows(q, mv) /\ \A m \in q.todo : m \in On(mv, p) BY <2>2 DEF Tracked
  <2>4. Follows(q, nv) BY ONLY Alike(p, mv, nv), <2>2, <2>3, FollowsAlike
  <2> QED BY <2>1, <2>4
<1> QED BY <1>2, <1>3, <1>4 DEF Tracked

\* .. and its backorders.
LEMMA SplitStays ==
  ASSUME NEW p, NEW mv, NEW nv, Alike(p, mv, nv), NEW pk, NEW nk, pk \in Seq(Nat), nk \in Seq(Nat),
         \A m \in 1..Len(mv) : mv[m].pick \in 0..Len(pk), Len(pk) <= Len(nk), p # 0,
         \A b \in 1..Len(pk) : nk[b] = pk[b], \A b \in 1..Len(nk) : nk[b] = p => b \in 1..Len(pk),
         \A m \in 1..Len(nv) : m \notin 1..Len(mv) => nv[m].pick \notin 1..Len(pk), Split(mv, pk, p)
  PROVE  Split(nv, nk, p)
<1>1. On(nv, p) = On(mv, p) /\ \A m \in On(mv, p) : m \in 1..Len(mv) /\ m \in 1..Len(nv) /\ nv[m] = mv[m]
  BY OnAlike
<1>2. mv \in Seq(MoveRows) /\ nv \in Seq(MoveRows) /\ Keeps(mv, nv) BY DEF Alike
<1>3. Len(mv) \in Nat /\ Len(nv) \in Nat /\ Len(mv) <= Len(nv) /\ Len(pk) \in Nat /\ Len(nk) \in Nat
  BY <1>2 DEF Keeps
<1>4. Over(nv, p) BY <1>1 DEF Split, Over
<1>5. /\ SumOf(Missing(Idle, nv), On(mv, p)) = SumOf(Missing(Idle, mv), On(mv, p))
      /\ \A m \in On(mv, p) : Missing(Idle, nv)[m] = Missing(Idle, mv)[m]
  <2>1. PICK S, q : S = On(mv, p) /\ q = Idle OBVIOUS
  <2>2. S \subseteq 1..Len(mv) /\ S \subseteq 1..Len(nv) BY <1>1, <2>1
  <2>3. Even(q, nv, q, mv, S) BY <1>1, <1>3, <2>1, <2>2 DEF Even
  <2>4. /\ SumOf(Missing(q, nv), S) = SumOf(Missing(q, mv), S)
        /\ \A m \in S : Missing(q, nv)[m] = Missing(q, mv)[m]
    BY ONLY <2>3, MissingSame
  <2> QED BY <2>1, <2>4
<1>6. Behind(nv, nk, p) = Behind(mv, pk, p) /\ Behind(mv, pk, p) \subseteq 1..Len(mv)
  <2>1. ASSUME NEW m \in 1..Len(nv), nv[m].pick \in 1..Len(nk), nk[nv[m].pick] = p
        PROVE  m \in 1..Len(mv) /\ mv[m].pick \in 1..Len(pk) /\ pk[mv[m].pick] = p
    <3>1. nv[m].pick \in 1..Len(pk) BY <2>1
    <3>2. m \in 1..Len(mv) BY <3>1
    <3>3. mv[m].pick = nv[m].pick BY <1>2, <3>2 DEF Keeps
    <3> QED BY <2>1, <3>1, <3>2, <3>3
  <2>2. ASSUME NEW m \in 1..Len(mv), mv[m].pick \in 1..Len(pk), pk[mv[m].pick] = p
        PROVE  m \in 1..Len(nv) /\ nv[m].pick \in 1..Len(nk) /\ nk[nv[m].pick] = p
    <3>1. m \in 1..Len(nv) BY ONLY <1>3, m \in 1..Len(mv)
    <3>3. mv[m].pick \in 1..Len(nk) BY ONLY <1>3, <2>2, Len(pk) <= Len(nk)
    <3>2. mv[m].pick = nv[m].pick BY <1>2 DEF Keeps
    <3> QED BY <2>2, <3>1, <3>2, <3>3
  <2> QED BY <2>1, <2>2 DEF Behind
<1>7. PICK f, h, T : /\ f = [m \in 1..Len(nv) |-> nv[m].demand] /\ h = [m \in 1..Len(mv) |-> mv[m].demand]
                     /\ T = Behind(mv, pk, p)
  OBVIOUS
<1>8. IsFiniteSet(T) /\ \A m \in T : f[m] = h[m]
  <2>1. IsFiniteSet(1..Len(mv)) /\ T \in SUBSET (1..Len(mv)) BY <1>3, <1>6, <1>7, FS_Interval
  <2>2. \A m \in T : m \in 1..Len(nv) /\ nv[m].demand = mv[m].demand BY <1>2, <1>3, <2>1 DEF Keeps
  <2> QED BY <1>7, <2>1, <2>2, FS_Subset
<1>9. SumOf(f, T) = SumOf(h, T) BY ONLY <1>8, SumSame
<1> QED BY <1>1, <1>4, <1>5, <1>6, <1>7, <1>9 DEF Split

LEMMA HonouredStays ==
  ASSUME NEW p, NEW mv, NEW nv, Alike(p, mv, nv), NEW pk, NEW nk, Split(nv, nk, p), NEW rq, NEW nq,
         Aside(p, rq, nq), Honoured(p, rq, mv, pk)
  PROVE  Honoured(p, nq, nv, nk)
<1>1. On(nv, p) = On(mv, p) BY OnAlike
<1> QED BY <1>1 DEF Honoured, Aside

\* What a step is to show for the transfers T that it works on ..
Good(p) == Tracked(p, req, moves) /\ (p \in promised => Honoured(p, req, moves, pickings))

LEMMA UnitsFrame ==
  ASSUME StockTypes, StockTypes', UnitsInv, Keeps(moves, moves'), NEW T,
         Len(pickings) <= Len(pickings'), \A b \in 1..Len(pickings) : pickings'[b] = pickings[b],
         \A b \in 1..Len(pickings') : b \notin 1..Len(pickings) =>
           b \in T /\ (pickings'[b] # 0 => pickings'[b] \in T \cap promised'),
         promised' \subseteq 1..Len(pickings'), promised \subseteq promised', promised' \ promised \subseteq T,
         cut \subseteq cut', \A r \in Requests : Steady(req'[r]),
         \A m \in 1..Len(moves') : m \notin 1..Len(moves) => moves'[m].pick \notin 1..Len(pickings),
         \A m \in 1..Len(moves) : moves[m].pick \notin T \cup {0} => moves'[m] = moves[m],
         \A r \in Requests : req'[r] # req[r] => {req[r].pick, req'[r].pick} \subseteq T \cup {0},
         \A p \in T : p \in 1..Len(pickings') /\ p \notin cut' => Good(p)'
  PROVE  UnitsInv'
<1>1. PICK mv, nv, pk, nk, rq, nq :
        mv = moves /\ nv = moves' /\ pk = pickings /\ nk = pickings' /\ rq = req /\ nq = req'
  OBVIOUS
<1>2. /\ mv \in Seq(MoveRows) /\ nv \in Seq(MoveRows) /\ Keeps(mv, nv) /\ pk \in Seq(Nat) /\ nk \in Seq(Nat)
      /\ \A m \in 1..Len(mv) : mv[m].pick \in 0..Len(pk)
      /\ Len(mv) \in Nat /\ Len(nv) \in Nat /\ Len(pk) \in Nat /\ Len(nk) \in Nat
  BY <1>1 DEF StockTypes
<1>3. \A b \in 1..Len(pickings') : pickings'[b] # 0 => pickings'[b] \in promised'
  BY DEF UnitsInv
<1>4. ASSUME NEW p \in (1..Len(pickings')) \ cut' PROVE Good(p)'
  <2>1. CASE p \in T BY <1>4, <2>1
  <2>2. CASE p \notin T
    <3>1. p \in (1..Len(pk)) \ cut /\ p # 0 BY <1>1, <1>2, <1>4, <2>2
    <3>2. Alike(p, mv, nv)
      <4>1. ASSUME NEW m \in 1..Len(nv), nv[m].pick = p PROVE m \in 1..Len(mv) /\ nv[m] = mv[m]
        <5>1. m \in 1..Len(mv) BY <1>1, <3>1, <4>1
        <5>2. mv[m].pick = p BY <1>2, <4>1, <5>1 DEF Keeps
        <5> QED BY <1>1, <2>2, <5>1, <5>2
      <4> QED BY <1>2, <4>1 DEF Alike
    <3>3. Aside(p, rq, nq) BY <1>1, <2>2, <3>1 DEF Aside
    <3>4. \A r \in Requests : rq[r].pick = p => \A m \in rq[r].todo : m \in On(mv, p)
      BY <1>1, CallFrees DEF On
    <3>5. Tracked(p, rq, mv) /\ (p \in promised => Honoured(p, rq, mv, pk)) BY <1>1, <3>1 DEF UnitsInv
    <3>6. Tracked(p, nq, nv) BY ONLY <3>2, <3>3, <3>4, <3>5, TrackedStays
    <3>7. ASSUME p \in promised' PROVE Honoured(p, nq, nv, nk)
      <4>1. Honoured(p, rq, mv, pk) BY <2>2, <3>5, <3>7
      <4>2. Split(mv, pk, p) BY <4>1 DEF Honoured
      <4>3. /\ Len(pk) <= Len(nk) /\ \A b \in 1..Len(pk) : nk[b] = pk[b]
            /\ \A b \in 1..Len(nk) : nk[b] = p => b \in 1..Len(pk)
            /\ \A m \in 1..Len(nv) : m \notin 1..Len(mv) => nv[m].pick \notin 1..Len(pk)
        BY <1>1, <2>2, <3>1
      <4>4. Split(nv, nk, p) BY ONLY <1>2, <3>1, <3>2, <4>2, <4>3, SplitStays
      <4> QED BY ONLY <3>2, <3>3, <4>1, <4>4, HonouredStays
    <3> QED BY <1>1, <3>6, <3>7 DEF Good
  <2> QED BY <2>1, <2>2
<1> QED BY <1>3, <1>4 DEF UnitsInv, Good

\* .. and when it makes no transfer, and ends none with a promise.
LEMMA UnitsGo ==
  ASSUME StockTypes, StockTypes', UnitsInv, Keeps(moves, moves'), UNCHANGED <<pickings, promised>>,
         cut \subseteq cut', NEW r \in Requests, NEW q, req' = [req EXCEPT ![r] = q], Steady(q),
         NEW p, {req[r].pick, q.pick} \subseteq {0, p},
         \A m \in 1..Len(moves') : m \notin 1..Len(moves) => moves'[m].pick = 0,
         \A m \in 1..Len(moves) : moves[m].pick \notin {0, p} => moves'[m] = moves[m],
         p \in 1..Len(pickings) /\ p \notin cut' => Good(p)'
  PROVE  UnitsInv'
<1>1. \A o \in Requests : req'[o] = IF o = r THEN q ELSE req[o] BY DEF StockTypes
<1>2. \A o \in Requests : Steady(req'[o]) BY <1>1 DEF UnitsInv
<1>3. Len(pickings) \in Nat /\ promised \subseteq 1..Len(pickings) BY DEF StockTypes, UnitsInv
<1>4. PICK T : T = {p} OBVIOUS
<1>5. \A o \in Requests : req'[o] # req[o] => {req[o].pick, req'[o].pick} \subseteq T \cup {0} BY <1>1, <1>4
<1>6. \A x \in T : x \in 1..Len(pickings') /\ x \notin cut' => Good(x)' BY <1>4
<1>7. \A m \in 1..Len(moves') : m \notin 1..Len(moves) => moves'[m].pick \notin 1..Len(pickings) BY <1>3
<1>8. \A m \in 1..Len(moves) : moves[m].pick \notin T \cup {0} => moves'[m] = moves[m] BY <1>4
<1>9. /\ Len(pickings) <= Len(pickings') /\ \A b \in 1..Len(pickings) : pickings'[b] = pickings[b]
      /\ \A b \in 1..Len(pickings') : b \notin 1..Len(pickings) =>
           b \in T /\ (pickings'[b] # 0 => pickings'[b] \in T \cap promised')
      /\ promised' \subseteq 1..Len(pickings') /\ promised \subseteq promised' /\ promised' \ promised \subseteq T
  BY <1>3
<1> QED BY <1>2, <1>5, <1>6, <1>7, <1>8, <1>9, UnitsFrame

LEMMA SteadyIdle == Steady(Idle) /\ Idle.pick = 0 /\ Idle.ops = <<>> /\ Idle.todo = {} /\ Idle.kind = "idle"
<1>1. Idle.pick = 0 /\ Idle.ops = <<>> /\ Idle.todo = {} /\ Idle.kind = "idle" BY DEF Idle, Call
<1> QED BY <1>1 DEF Steady

\* A call on a transfer that has nothing left to do leaves it as it was asked for, or done with.
LEMMA FollowsEnd ==
  ASSUME NEW s, NEW mv, Steady(s), s.pick # 0, Follows(s, mv), s.todo = {}, s.ops = <<>>
  PROVE  Fresh(mv, s.pick) \/ Over(mv, s.pick)
<1>1. s.kind \in {"confirm", "validate", "cancel"} BY DEF Steady
<1>2. CASE s.kind = "confirm" BY <1>2 DEF Follows
<1>3. CASE s.kind # "confirm"
  <2>1. Halfway(s, mv) BY <1>1, <1>3 DEF Follows
  <2>2. \A m : ~Closes(s, m)
    <3>1. 1..Len(s.ops) = {} OBVIOUS
    <3> QED BY <3>1 DEF Closes
  <2>3. Taken(s, mv) = On(mv, s.pick) BY DEF Taken
  <2> QED BY <2>1, <2>2, <2>3 DEF Halfway, Over
<1> QED BY <1>2, <1>3

\* A call goes on to s, or ends with it.
LEMMA UnitsCall ==
  ASSUME StockTypes, StockTypes', PicksInv, UnitsInv, Keeps(moves, moves'), UNCHANGED <<pickings, promised>>,
         cut \subseteq cut', NEW r \in Requests, NEW s, req' = [req EXCEPT ![r] = Settle(s)], Steady(s),
         \A m \in 1..Len(moves') : m \notin 1..Len(moves) => moves'[m].pick = 0,
         \A m \in 1..Len(moves) : moves[m].pick \notin {0, s.pick} => moves'[m] = moves[m],
         \/ req[r].pick = s.pick
         \/ req[r].pick = 0 /\ (s.pick # 0 => \A o \in Requests \ {r} : req[o].pick # s.pick),
         s.pick \in 1..Len(pickings) /\ s.pick \notin cut' =>
           /\ Follows(s, moves')
           /\ s.pick \in promised => Split(moves', pickings, s.pick) /\ On(moves', s.pick) = {} /\ s.rest = <<>>
  PROVE  UnitsInv'
<1>1. PICK p, q : p = s.pick /\ q = Settle(s) OBVIOUS
<1>2. q = Idle \/ q = s BY <1>1 DEF Settle
<1>3. Steady(q) /\ q.pick \in {0, p} BY <1>1, <1>2, SteadyIdle
<1>4. 0 \notin 1..Len(pickings) OBVIOUS
<1>5. ASSUME p \in 1..Len(pickings), p \notin cut' PROVE Good(p)'
  <2>1. p # 0 BY <1>4, <1>5
  <2>2. \A o \in Requests : req'[o] = IF o = r THEN q ELSE req[o] BY <1>1 DEF StockTypes
  <2>3. \A o \in Requests \ {r} : req'[o].pick # p BY <1>1, <2>1, <2>2 DEF PicksInv
  <2>4. Follows(s, moves') BY <1>1, <1>5
  <2>5. p \in promised' => Split(moves', pickings', p) /\ On(moves', p) = {} /\ s.rest = <<>> BY <1>1, <1>5
  <2>6. CASE q = s
    <3>1. req'[r] = s /\ s.pick = p BY <1>1, <2>2, <2>6
    <3>2. \A o \in Requests : req'[o].pick = p => req'[o] = s BY <2>3, <3>1
    <3>3. Tracked(p, req', moves') BY <2>4, <3>1, <3>2 DEF Tracked
    <3> QED BY <2>5, <3>2, <3>3 DEF Good, Honoured
  <2>7. CASE q # s
    <3>1. q = Idle /\ s.todo = {} /\ s.ops = <<>> BY <1>1, <2>7 DEF Settle
    <3>2. \A o \in Requests : req'[o].pick # p BY <2>1, <2>2, <2>3, <3>1, SteadyIdle
    <3>3. Fresh(moves', p) \/ Over(moves', p) BY <1>1, <2>1, <2>4, <3>1, FollowsEnd
    <3> QED BY <2>5, <3>2, <3>3 DEF Good, Honoured, Tracked
  <2> QED BY <2>6, <2>7
<1>6. {req[r].pick, q.pick} \subseteq {0, p} BY <1>1, <1>3
<1>7. \A m \in 1..Len(moves) : moves[m].pick \notin {0, p} => moves'[m] = moves[m] BY <1>1
<1>8. req' = [req EXCEPT ![r] = q] BY <1>1
<1>9. p \in 1..Len(pickings) /\ p \notin cut' => Good(p)' BY <1>5
<1>10. /\ StockTypes /\ StockTypes' /\ UnitsInv /\ Keeps(moves, moves') /\ UNCHANGED <<pickings, promised>>
       /\ cut \subseteq cut' /\ \A m \in 1..Len(moves') : m \notin 1..Len(moves) => moves'[m].pick = 0
  OBVIOUS
<1> QED BY ONLY r \in Requests, <1>3, <1>6, <1>7, <1>8, <1>9, <1>10, UnitsGo

\* A line adds what it carries.
LEMMA UnitsMore ==
  ASSUME NEW v \in MoveRows, NEW w \in MoveRows, NEW line \in LineRows, w.lines = Append(v.lines, line)
  PROVE  SumAll(Units(w)) = SumAll(Units(v)) + line.qty
<1>1. PICK vs, ws, n : vs = v.lines /\ ws = w.lines /\ n = Len(v.lines) OBVIOUS
<1>2. vs \in Seq(LineRows) BY <1>1 DEF MoveRows
<1>3. /\ n \in Nat /\ Len(ws) = n + 1 /\ ws[n + 1] = line
      /\ \A i \in 1..n : ws[i] = vs[i]
  BY <1>1, <1>2
<1>4. PICK f, h : f = Units(v) /\ h = Units(w) OBVIOUS
<1>5. SumAll(f) = SumOf(f, 1..n) /\ \A i \in 1..n : f[i] = vs[i].qty /\ f[i] \in Int
  BY <1>1, <1>4, UnitsAre
<1>6. SumAll(h) = SumOf(h, 1..(n + 1)) /\ \A i \in 1..(n + 1) : h[i] = ws[i].qty /\ h[i] \in Int
  <2>1. PICK x : x = Len(w.lines) OBVIOUS
  <2>2. SumAll(h) = SumOf(h, 1..x) /\ \A i \in 1..x : h[i] = ws[i].qty /\ h[i] \in Int
    BY ONLY w \in MoveRows, <1>1, <1>4, <2>1, UnitsAre
  <2>3. x = n + 1 BY <1>1, <1>3, <2>1
  <2> QED BY ONLY <2>2, <2>3
<1>7. n + 1 \in 1..(n + 1) /\ 1..n \subseteq 1..(n + 1) BY <1>3
<1>8. /\ \A i \in 1..n : f[i] \in Int /\ h[i] = f[i]
      /\ h[n + 1] = line.qty /\ h[n + 1] \in Int
  BY <1>3, <1>5, <1>6, <1>7
<1>9. SumOf(h, 1..(n + 1)) = SumOf(f, 1..n) + h[n + 1] BY ONLY <1>3, <1>8, SumLast
<1> QED BY <1>4, <1>5, <1>6, <1>8, <1>9

\* A call that has done its first transaction, or put another in its place, goes on as s.
Onward(s, c) ==
  /\ s.kind = c.kind /\ s.pick = c.pick /\ s.todo = c.todo /\ s.rest = c.rest
  /\ c.ops \in Seq(Ops) /\ c.ops # <<>> /\ s.ops \in Seq(Ops)
  /\ \A i \in 1..Len(s.ops) :
       \/ \E j \in 1..Len(c.ops) : j # 1 /\ s.ops[i] = c.ops[j]
       \/ /\ c.ops[1].op = "adjust" /\ s.ops[i].op = "insert" /\ s.ops[i].move = c.ops[1].move
       \/ /\ c.kind = "confirm" /\ s.ops[i].op = "state" /\ s.ops[i].to \in Open
  /\ \A j \in 1..Len(c.ops) : j = 1 \/ \E i \in 1..Len(s.ops) : s.ops[i] = c.ops[j]

LEMMA OnwardSteady ==
  ASSUME NEW s, NEW c, Onward(s, c), Steady(c) PROVE Steady(s)
<1>1. 1 \in 1..Len(c.ops) BY Tails DEF Onward
<1>2. s.kind \in {"confirm", "validate", "cancel"} <=> s.pick # 0 BY DEF Onward, Steady
<1>3. ASSUME s.kind = "confirm", NEW i \in 1..Len(s.ops)
      PROVE  s.ops[i].op \in {"reserve", "state"} /\ (s.ops[i].op = "state" => s.ops[i].to \in Open)
  BY <1>1, <1>3 DEF Onward, Steady
<1>4. ASSUME s.kind \in {"validate", "cancel"}, NEW i \in 1..Len(s.ops)
      PROVE  s.ops[i].move \notin s.todo /\ (s.ops[i].op = "state" => s.ops[i].to \notin Open)
  BY <1>1, <1>4 DEF Onward, Steady
<1> QED BY <1>2, <1>3, <1>4 DEF Steady

LEMMA OnwardCloses ==
  ASSUME NEW s, NEW c, Onward(s, c), NEW m, Closes(c, m)
  PROVE  Closes(s, m) \/ (c.ops[1].op = "state" /\ c.ops[1].move = m)
<1>1. PICK j \in 1..Len(c.ops) : c.ops[j].op = "state" /\ c.ops[j].move = m /\ c.ops[j].to \notin Open
  BY DEF Closes
<1>2. CASE j = 1 BY <1>1, <1>2
<1>3. CASE j # 1
  <2>1. PICK i \in 1..Len(s.ops) : s.ops[i] = c.ops[j] BY <1>3 DEF Onward
  <2> QED BY <1>1, <2>1 DEF Closes
<1> QED BY <1>2, <1>3

\* Only the first transaction adds a line.
LEMMA OnwardCarries ==
  ASSUME NEW s, NEW c, Onward(s, c), NEW mv, Ordered(c.ops, mv), NEW m PROVE Carrying(s, m) = 0
<1>1. CASE s.ops = <<>> BY <1>1 DEF Carrying
<1>2. CASE s.ops # <<>>
  <2>1. 1 \in 1..Len(s.ops) BY <1>2, Tails DEF Onward
  <2>2. s.ops[1].op # "line"
    <3>1. \A j \in 1..Len(c.ops) : j # 1 => c.ops[j].op # "line" BY DEF Ordered
    <3> QED BY <2>1, <3>1 DEF Onward
  <2> QED BY <2>2 DEF Carrying
<1> QED BY <1>1, <1>2

\* The first transaction of a call changes the row of its move.
Worked(c, s, mv, nv) ==
  /\ mv \in Seq(MoveRows) /\ nv \in Seq(MoveRows) /\ Keeps(mv, nv) /\ Len(nv) = Len(mv)
  /\ OpsFit(c.ops, c.kind, c.pick, mv) /\ Onward(s, c)
  /\ \A x \in 1..Len(mv) : x # c.ops[1].move => nv[x] = mv[x]
  /\ LET x == c.ops[1].move
     IN /\ nv[x].state = IF c.ops[1].op = "state" THEN c.ops[1].to ELSE mv[x].state
        /\ IF c.ops[1].op = "line"
           THEN \E d : nv[x].lines = Append(mv[x].lines, [qty |-> c.ops[1].by, dst |-> d]) /\ d \in Locations
           ELSE nv[x].lines = mv[x].lines

LEMMA WorkedIs ==
  ASSUME NEW c, NEW s, NEW mv, NEW nv, Worked(c, s, mv, nv)
  PROVE  /\ mv \in Seq(MoveRows) /\ nv \in Seq(MoveRows) /\ Keeps(mv, nv) /\ Len(nv) = Len(mv) /\ Len(mv) \in Nat
         /\ s.kind = c.kind /\ s.pick = c.pick /\ s.todo = c.todo /\ s.rest = c.rest /\ Onward(s, c)
         /\ c.ops # <<>> /\ 1 \in 1..Len(c.ops)
<1>1. mv \in Seq(MoveRows) /\ nv \in Seq(MoveRows) /\ Keeps(mv, nv) /\ Len(nv) = Len(mv) /\ Onward(s, c)
  BY ZenonT(60) DEF Worked
<1>2. Len(mv) \in Nat BY <1>1
<1>3. /\ s.kind = c.kind /\ s.pick = c.pick /\ s.todo = c.todo /\ s.rest = c.rest
      /\ c.ops \in Seq(Ops) /\ c.ops # <<>>
  BY <1>1 DEF Onward
<1>4. Len(c.ops) \in Nat \ {0} BY <1>3, Tails
<1>5. 1 \in 1..Len(c.ops) BY <1>4
<1> QED BY <1>1, <1>2, <1>3, <1>5

LEMMA WorkedMissing ==
  ASSUME NEW c, NEW s, NEW mv, NEW nv, Worked(c, s, mv, nv), NEW x \in 1..Len(mv)
  PROVE  Missing(s, nv)[x] = Missing(c, mv)[x]
<1>1. x \in 1..Len(nv) /\ nv[x] \in MoveRows /\ mv[x] \in MoveRows /\ nv[x].demand = mv[x].demand
  <2>1. mv \in Seq(MoveRows) /\ nv \in Seq(MoveRows) /\ Keeps(mv, nv) /\ Len(nv) = Len(mv) BY WorkedIs
  <2> QED BY <2>1 DEF Keeps
<1>2. c.ops # <<>> /\ Carrying(s, x) = 0
  <2>1. Onward(s, c) /\ Ordered(c.ops, mv) BY ZenonT(60) DEF Worked, OpsFit
  <2> QED BY <2>1, OnwardCarries, ZenonT(60) DEF Onward
<1>3. PICK a, b, k : a = SumAll(Units(nv[x])) /\ b = SumAll(Units(mv[x])) /\ k = Carrying(c, x) OBVIOUS
<1>4. a \in Int /\ b \in Int BY <1>1, <1>3, UnitsAre
<1>5. a = b + k /\ k \in Int
  <2>1. CASE c.ops[1].op = "line" /\ c.ops[1].move = x
    <3>1. k = c.ops[1].by BY <1>2, <1>3, <2>1 DEF Carrying
    <3>2. c.ops[1].by \in Nat \ {0}
      <4>1. 1 \in 1..Len(c.ops) BY WorkedIs
      <4> QED BY <2>1, <4>1 DEF Worked, OpsFit, OpFits
    <3>3. PICK line : line \in LineRows /\ line.qty = c.ops[1].by /\ nv[x].lines = Append(mv[x].lines, line)
      <4>1. PICK d \in Locations : nv[x].lines = Append(mv[x].lines, [qty |-> c.ops[1].by, dst |-> d])
        BY <2>1 DEF Worked
      <4>2. [qty |-> c.ops[1].by, dst |-> d] \in LineRows BY <3>2 DEF LineRows
      <4> QED BY <4>1, <4>2
    <3>4. SumAll(Units(nv[x])) = SumAll(Units(mv[x])) + line.qty BY ONLY <1>1, <3>3, UnitsMore
    <3> QED BY <1>3, <3>1, <3>2, <3>3, <3>4
  <2>2. CASE ~(c.ops[1].op = "line" /\ c.ops[1].move = x)
    <3>1. k = 0 BY <1>3, <2>2 DEF Carrying
    <3>2. nv[x].lines = mv[x].lines BY <2>2, ZenonT(60) DEF Worked
    <3>3. a = b BY <1>3, <3>2 DEF Units
    <3> QED BY <1>4, <3>1, <3>3
  <2> QED BY <2>1, <2>2
<1>6. mv[x].demand \in Int BY <1>1 DEF MoveRows
<1>7. PICK e : e = mv[x].demand OBVIOUS
<1>8. Missing(s, nv)[x] = e - a - 0 /\ Missing(c, mv)[x] = e - b - k
  BY <1>1, <1>2, <1>3, <1>7 DEF Missing
<1>9. e - a - 0 = e - b - k
  <2>1. e \in Int BY <1>6, <1>7
  <2> QED BY ONLY <1>4, <1>5, <2>1
<1> QED BY <1>8, <1>9

LEMMA FollowsOn ==
  ASSUME NEW c, NEW s, NEW mv, NEW nv, Worked(c, s, mv, nv), Steady(c), Follows(c, mv),
         \A x \in c.todo : x \in 1..Len(mv)
  PROVE  Follows(s, nv)
<1>1. PICK o, m : o = c.ops[1] /\ m = o.move OBVIOUS
<1>2. /\ s.kind = c.kind /\ s.pick = c.pick /\ s.todo = c.todo /\ s.rest = c.rest /\ c.ops # <<>>
      /\ Onward(s, c) /\ 1 \in 1..Len(c.ops) /\ Len(mv) \in Nat
  BY WorkedIs
<1>3. On(nv, c.pick) = On(mv, c.pick) /\ On(mv, c.pick) \subseteq 1..Len(mv) BY ZenonT(60) DEF Worked, Keeps, On
<1>4. Taken(s, nv) = Taken(c, mv) /\ Taken(c, mv) \subseteq 1..Len(mv) BY <1>2, <1>3 DEF Taken
<1>5. /\ \A x \in 1..Len(mv) : x # m => nv[x] = mv[x]
      /\ o.op # "state" => nv[m].state = mv[m].state
      /\ o.op = "state" => nv[m].state = o.to
      /\ o.op # "line" => nv[m].lines = mv[m].lines
  BY <1>1, ZenonT(60) DEF Worked
<1>6. ASSUME s.kind = "confirm" PROVE Fresh(nv, s.pick)
  <2>1. o.op \in {"reserve", "state"} /\ (o.op = "state" => o.to \in Open) BY <1>1, <1>2, <1>6 DEF Steady
  <2>2. Fresh(mv, c.pick) BY <1>2, <1>6 DEF Follows
  <2> QED BY <1>2, <1>3, <1>5, <2>1, <2>2 DEF Fresh
<1>7. ASSUME s.kind \in {"validate", "cancel"} PROVE Halfway(s, nv)
  <2>1. Halfway(c, mv) BY <1>2, <1>7 DEF Follows
  <2>2. m \notin c.todo /\ (o.op = "state" => o.to \notin Open) BY <1>1, <1>2, <1>7 DEF Steady
  <2>3. \A x \in c.todo : x \in 1..Len(mv) OBVIOUS
  <2>4. \A x \in s.todo : nv[x].state \in Open /\ nv[x].lines = <<>> BY <1>2, <1>5, <2>1, <2>2, <2>3 DEF Halfway
  <2>5. ASSUME NEW x \in Taken(s, nv) PROVE nv[x].state \notin Open \/ Closes(s, x)
    <3>1. mv[x].state \notin Open \/ Closes(c, x) BY <1>4, <2>1, <2>5 DEF Halfway
    <3>2. Closes(c, x) => Closes(s, x) \/ (o.op = "state" /\ m = x) BY <1>1, <1>2, OnwardCloses
    <3>3. x # m => nv[x].state = mv[x].state BY <1>4, <1>5, <2>5
    <3> QED BY <1>5, <2>2, <3>1, <3>2, <3>3
  <2> QED BY <2>4, <2>5 DEF Halfway
<1>8. ASSUME s.kind = "validate" PROVE AddsUp(s, nv)
  <2>1. AddsUp(c, mv) BY <1>2, <1>8 DEF Follows
  <2>2. PICK T, f, h : T = Taken(c, mv) /\ f = Missing(s, nv) /\ h = Missing(c, mv) OBVIOUS
  <2>3. IsFiniteSet(T) /\ \A x \in T : f[x] = h[x]
    <3>1. Len(mv) \in Nat /\ T \in SUBSET (1..Len(mv)) BY <1>2, <1>4, <2>2
    <3>2. IsFiniteSet(T)
      <4>1. IsFiniteSet(1..Len(mv)) BY <3>1, FS_Interval
      <4> QED BY <3>1, <4>1, FS_Subset
    <3>3. \A x \in T : x \in 1..Len(mv) BY <3>1
    <3> QED BY <2>2, <3>2, <3>3, WorkedMissing
  <2>4. SumOf(f, T) = SumOf(h, T) BY ONLY <2>3, SumSame
  <2> QED BY <1>2, <1>4, <2>1, <2>2, <2>3, <2>4 DEF AddsUp
<1> QED BY <1>6, <1>7, <1>8 DEF Follows

\* A call does its first transaction ..
LEMMA UnitsOn ==
  ASSUME StockTypes, StockTypes', PicksInv, UnitsInv, NEW r \in Requests, NEW c, c = req[r], NEW s,
         req' = [req EXCEPT ![r] = Settle(s)], Worked(c, s, moves, moves'),
         UNCHANGED <<pickings, promised, cut>>
  PROVE  UnitsInv'
<1>1. /\ Keeps(moves, moves') /\ Len(moves') = Len(moves) /\ s.pick = c.pick /\ Onward(s, c)
      /\ c.ops # <<>> /\ 1 \in 1..Len(c.ops)
  BY WorkedIs
<1>2. Steady(c) BY DEF UnitsInv
<1>3. Steady(s) BY <1>1, <1>2, OnwardSteady
<1>4. PICK m : m = c.ops[1].move OBVIOUS
<1>5. m \in 1..Len(moves) /\ moves[m].pick = c.pick BY <1>1, <1>4, ZenonT(60) DEF Worked, OpsFit, OpFits
<1>6. \A x \in 1..Len(moves) : moves[x].pick \notin {0, s.pick} => moves'[x] = moves[x]
  <2>1. \A x \in 1..Len(moves) : x # m => moves'[x] = moves[x] BY <1>4, ZenonT(60) DEF Worked
  <2> QED BY <1>1, <1>5, <2>1
<1>7. ASSUME c.pick \in 1..Len(pickings), c.pick \notin cut PROVE Follows(s, moves') /\ c.pick \notin promised
  <2>1. Tracked(c.pick, req, moves) /\ (c.pick \in promised => Honoured(c.pick, req, moves, pickings))
    BY <1>7 DEF UnitsInv
  <2>2. Follows(c, moves) BY <2>1 DEF Tracked
  <2>3. \A x \in c.todo : x \in 1..Len(moves) BY CallFrees
  <2>4. Follows(s, moves') BY <1>2, <2>2, <2>3, FollowsOn
  <2>5. On(moves, c.pick) # {} BY <1>5 DEF On
  <2> QED BY <2>1, <2>4, <2>5 DEF Honoured
<1>8. /\ cut \subseteq cut' /\ UNCHANGED <<pickings, promised>>
      /\ \A x \in 1..Len(moves') : x \notin 1..Len(moves) => moves'[x].pick = 0
      /\ req[r].pick = s.pick
  BY <1>1
<1>9. s.pick \in 1..Len(pickings) /\ s.pick \notin cut' =>
        /\ Follows(s, moves')
        /\ s.pick \in promised => Split(moves', pickings, s.pick) /\ On(moves', s.pick) = {} /\ s.rest = <<>>
  BY <1>1, <1>7
<1> QED BY <1>1, <1>3, <1>6, <1>8, <1>9, UnitsCall

\* .. and goes on with the rest of them, or with another in the place of the first.
LEMMA DoneOnward ==
  ASSUME StockTypes, NEW r \in Requests, NEW c, c = req[r], c.ops # <<>>, NEW more, Done(r, more), NEW x,
         \/ more = <<>>
         \/ /\ more = <<x>> /\ x \in Ops
            /\ \/ c.ops[1].op = "adjust" /\ x.op = "insert" /\ x.move = c.ops[1].move
               \/ c.kind = "confirm" /\ x.op = "state" /\ x.to \in Open
  PROVE  \E s : Onward(s, c) /\ req' = [req EXCEPT ![r] = Settle(s)]
<1>1. PICK ops, t, s : ops = c.ops /\ t = more \o Tail(ops) /\ s = [c EXCEPT !.ops = t] OBVIOUS
<1>2. c \in Calls /\ ops \in Seq(Ops) /\ ops # <<>> BY <1>1 DEF StockTypes, Calls
<1>3. s.ops = t /\ s.kind = c.kind /\ s.pick = c.pick /\ s.todo = c.todo /\ s.rest = c.rest
  BY <1>1, <1>2 DEF Calls
<1>4. req' = [req EXCEPT ![r] = Settle(s)] BY <1>1 DEF Done
<1>5. /\ Tail(ops) \in Seq(Ops) /\ Len(Tail(ops)) = Len(ops) - 1 /\ Len(ops) \in Nat \ {0}
      /\ \A i \in 1..(Len(ops) - 1) : Tail(ops)[i] = ops[i + 1]
  BY <1>2, Tails
<1>6. CASE more = <<>>
  <2>1. t = Tail(ops) BY <1>1, <1>5, <1>6, Nothing
  <2>2. ASSUME NEW i \in 1..Len(t) PROVE \E j \in 1..Len(ops) : j # 1 /\ t[i] = ops[j]
    <3>1. i + 1 \in 1..Len(ops) /\ i + 1 # 1 /\ t[i] = ops[i + 1] BY <1>5, <2>1, <2>2
    <3> QED BY <3>1
  <2>3. ASSUME NEW j \in 1..Len(ops), j # 1 PROVE \E i \in 1..Len(t) : t[i] = ops[j]
    <3>1. j - 1 \in 1..(Len(ops) - 1) /\ (j - 1) + 1 = j BY <1>5, <2>3
    <3>2. t[j - 1] = ops[j] BY <1>5, <2>1, <3>1
    <3> QED BY <1>5, <2>1, <3>1, <3>2
  <2>4. t \in Seq(Ops) BY <1>5, <2>1
  <2>5. Onward(s, c)
    <3>1. ops = c.ops /\ s.ops = t BY <1>1, <1>3
    <3>2. /\ c.ops \in Seq(Ops) /\ c.ops # <<>> /\ s.ops \in Seq(Ops)
          /\ \A j \in 1..Len(c.ops) : j = 1 \/ \E i \in 1..Len(s.ops) : s.ops[i] = c.ops[j]
          /\ \A i \in 1..Len(s.ops) :
               \/ \E j \in 1..Len(c.ops) : j # 1 /\ s.ops[i] = c.ops[j]
               \/ c.ops[1].op = "adjust" /\ s.ops[i].op = "insert" /\ s.ops[i].move = c.ops[1].move
               \/ c.kind = "confirm" /\ s.ops[i].op = "state" /\ s.ops[i].to \in Open
      BY ONLY <1>2, <3>1, <2>2, <2>3, <2>4
    <3> QED BY ONLY <1>3, <3>2 DEF Onward
  <2> QED BY <1>4, <2>5
<1>7. CASE more # <<>>
  <2>1. t = <<x>> \o Tail(ops) /\ x \in Ops BY <1>1, <1>7
  <2>2. t \in Seq(Ops) /\ Len(t) = Len(ops) /\ t[1] = x /\ \A i \in 1..Len(ops) : i # 1 => t[i] = ops[i]
    BY ONLY <1>2, <2>1, Replaced
  <2>3. \A i \in 1..Len(t) : i = 1 \/ \E j \in 1..Len(ops) : j # 1 /\ t[i] = ops[j] BY <2>2
  <2>4. \A j \in 1..Len(ops) : j = 1 \/ \E i \in 1..Len(t) : t[i] = ops[j] BY <2>2
  <2>5. \/ ops[1].op = "adjust" /\ t[1].op = "insert" /\ t[1].move = ops[1].move
        \/ c.kind = "confirm" /\ t[1].op = "state" /\ t[1].to \in Open
    BY <1>1, <1>7, <2>2
  <2>6. ASSUME NEW i \in 1..Len(t)
        PROVE  \/ \E j \in 1..Len(ops) : j # 1 /\ t[i] = ops[j]
               \/ ops[1].op = "adjust" /\ t[i].op = "insert" /\ t[i].move = ops[1].move
               \/ c.kind = "confirm" /\ t[i].op = "state" /\ t[i].to \in Open
    BY <2>3, <2>5
  <2>7. Onward(s, c)
    <3>1. ops = c.ops /\ s.ops = t BY <1>1, <1>3
    <3>2. /\ c.ops \in Seq(Ops) /\ c.ops # <<>> /\ s.ops \in Seq(Ops)
          /\ \A j \in 1..Len(c.ops) : j = 1 \/ \E i \in 1..Len(s.ops) : s.ops[i] = c.ops[j]
          /\ \A i \in 1..Len(s.ops) :
               \/ \E j \in 1..Len(c.ops) : j # 1 /\ s.ops[i] = c.ops[j]
               \/ c.ops[1].op = "adjust" /\ s.ops[i].op = "insert" /\ s.ops[i].move = c.ops[1].move
               \/ c.kind = "confirm" /\ s.ops[i].op = "state" /\ s.ops[i].to \in Open
      BY ONLY <1>2, <3>1, <2>2, <2>4, <2>6
    <3> QED BY ONLY <1>3, <3>2 DEF Onward
  <2> QED BY <1>4, <2>7
<1> QED BY <1>6, <1>7

\* .. of which most leave the moves as they are.
LEMMA UnitsBare ==
  ASSUME StockTypes, StockTypes', PicksInv, UnitsInv, NEW r \in Requests, NEW c, c = req[r], c.ops # <<>>,
         NEW more, Done(r, more), NEW x,
         \/ more = <<>>
         \/ /\ more = <<x>> /\ x \in Ops
            /\ \/ c.ops[1].op = "adjust" /\ x.op = "insert" /\ x.move = c.ops[1].move
               \/ c.kind = "confirm" /\ x.op = "state" /\ x.to \in Open,
         UNCHANGED <<moves, pickings, promised, cut>>, c.ops[1].op \notin {"line", "state"}
  PROVE  UnitsInv'
<1>1. PICK s : Onward(s, c) /\ req' = [req EXCEPT ![r] = Settle(s)] BY DoneOnward
<1>2. moves \in Seq(MoveRows) BY DEF StockTypes
<1>3. Keeps(moves, moves') BY <1>2, KeepsSame
<1>4. OpsFit(c.ops, c.kind, c.pick, moves) BY CallFrees
<1>5. Worked(c, s, moves, moves') BY <1>1, <1>2, <1>3, <1>4 DEF Worked
<1> QED BY <1>1, <1>5, UnitsOn

\* A call ends early, and its transfer is not looked at any more.
LEMMA UnitsCut ==
  ASSUME StockTypes, StockTypes', UnitsInv, NEW r \in Requests, Stop(r), UNCHANGED <<moves, pickings, promised>>
  PROVE  UnitsInv'
<1>1. PICK p : p = req[r].pick OBVIOUS
<1>2. req' = [req EXCEPT ![r] = Idle] /\ cut' = cut \cup {p} BY <1>1 DEF Stop
<1>3. Keeps(moves, moves') BY KeepsSame DEF StockTypes
<1>4. Steady(Idle) /\ {req[r].pick, Idle.pick} \subseteq {0, p} BY <1>1, SteadyIdle
<1>5. /\ cut \subseteq cut' /\ UNCHANGED <<pickings, promised>>
      /\ \A m \in 1..Len(moves') : m \notin 1..Len(moves) => moves'[m].pick = 0
      /\ \A m \in 1..Len(moves) : moves[m].pick \notin {0, p} => moves'[m] = moves[m]
      /\ p \in 1..Len(pickings) /\ p \notin cut' => Good(p)'
  BY <1>2
<1>6. PICK q : q = Idle OBVIOUS
<1>7. Steady(q) /\ {req[r].pick, q.pick} \subseteq {0, p} /\ req' = [req EXCEPT ![r] = q] BY <1>2, <1>4, <1>6
<1>8. StockTypes /\ StockTypes' /\ UnitsInv OBVIOUS
<1> QED BY ONLY r \in Requests, <1>3, <1>5, <1>7, <1>8, UnitsGo

\* The transactions of a call ..
LEMMA UnitsEdit ==
  ASSUME StockTypes, StockTypes', PicksInv, UnitsInv, NEW r \in Requests, AddLine(r) \/ SetState(r)
  PROVE  UnitsInv'
<1>1. PICK c, o : c = req[r] /\ o = c.ops[1] OBVIOUS
<1>2. CASE SetState(r) /\ Stop(r) /\ moves' = moves
  <2>1. UNCHANGED <<moves, pickings, promised>> BY <1>2 DEF SetState
  <2> QED BY <1>2, <2>1, UnitsCut
<1>3. CASE AddLine(r)
  <2>1. PICK m, row :
          /\ Edited(moves, m, row, moves') /\ m = o.move /\ row.state = moves[m].state
          /\ row.lines = Append(moves[m].lines, [qty |-> o.by, dst |-> o.to])
    BY <1>1, <1>3, LineAdded
  <2>2. c.ops # <<>> /\ o.op = "line" /\ Done(r, <<>>) /\ UNCHANGED pickings BY <1>1, <1>3, LineAdded, ZenonT(60)
  <2>3. UNCHANGED <<promised, cut>> BY <1>3 DEF AddLine, history
  <2>4. PICK s : Onward(s, c) /\ req' = [req EXCEPT ![r] = Settle(s)] BY <1>1, <2>2, DoneOnward
  <2>5. /\ moves' \in Seq(MoveRows) /\ Keeps(moves, moves') /\ Len(moves') = Len(moves)
        /\ moves'[m] = row /\ \A x \in 1..Len(moves) : x # m => moves'[x] = moves[x]
    BY <2>1, MoveEdited
  <2>6. OpsFit(c.ops, c.kind, c.pick, moves) /\ moves \in Seq(MoveRows) BY <1>1, CallFrees DEF StockTypes
  <2>7. o.to \in Locations
    <3>1. OpFits(o, moves) BY <1>1, <2>2, HeadOf
    <3> QED BY <2>2, <3>1 DEF OpFits
  <2>8. Worked(c, s, moves, moves') BY <1>1, <2>1, <2>2, <2>4, <2>5, <2>6, <2>7, ZenonT(60) DEF Worked
  <2> QED BY <1>1, <2>2, <2>3, <2>4, <2>8, UnitsOn
<1>4. CASE SetState(r) /\ ~(Stop(r) /\ moves' = moves)
  <2>1. c.ops # <<>> /\ o.op = "state" /\ Done(r, <<>>) /\ UNCHANGED pickings BY <1>1, <1>4, StateSet
  <2>2. PICK m, row : /\ Edited(moves, m, row, moves') /\ m = o.move
                      /\ row.state = o.to /\ row.lines = moves[m].lines
    BY <1>1, <1>4, StateSet
  <2>3. UNCHANGED <<promised, cut>> BY <1>4 DEF SetState
  <2>4. PICK s : Onward(s, c) /\ req' = [req EXCEPT ![r] = Settle(s)] BY <1>1, <2>1, DoneOnward
  <2>5. /\ moves' \in Seq(MoveRows) /\ Keeps(moves, moves') /\ Len(moves') = Len(moves)
        /\ moves'[m] = row /\ \A x \in 1..Len(moves) : x # m => moves'[x] = moves[x]
    BY <2>2, MoveEdited
  <2>6. OpsFit(c.ops, c.kind, c.pick, moves) /\ moves \in Seq(MoveRows) BY <1>1, CallFrees DEF StockTypes
  <2>7. Worked(c, s, moves, moves') BY <1>1, <2>1, <2>2, <2>4, <2>5, <2>6 DEF Worked
  <2> QED BY <1>1, <2>1, <2>3, <2>4, <2>7, UnitsOn
<1> QED BY <1>2, <1>3, <1>4

\* .. those on quantities ..
LEMMA UnitsQuantity ==
  ASSUME StockTypes, StockTypes', PicksInv, UnitsInv, NEW r \in Requests,
         Adjust(r) \/ Insert(r) \/ Release(r) \/ Reserve(r) \/ Overwrite(r)
  PROVE  UnitsInv'
<1>1. PICK c, o : c = req[r] /\ o = c.ops[1] OBVIOUS
<1>2. c.ops # <<>> /\ Head(c.ops).op \in {"adjust", "insert", "release", "reserve", "overwrite"}
  BY <1>1, ZenonT(60) DEF Next1, Adjust, Insert, Release, Reserve, Overwrite
<1>3. Head(c.ops) = o /\ o \in Ops /\ (o.op = "reserve" => c.kind = "confirm") BY <1>1, <1>2, HeadOf
<1>4. UNCHANGED <<moves, pickings, promised>>
  BY ZenonT(60) DEF Adjust, Insert, Release, Reserve, Overwrite, history
<1>5. CASE Insert(r) /\ Stop(r) BY <1>4, <1>5, UnitsCut
<1>6. CASE ~(Insert(r) /\ Stop(r))
  <2>1. UNCHANGED cut BY <1>6, ZenonT(60) DEF Adjust, Insert, Release, Reserve, Overwrite, history
  <2>2. ASSUME Done(r, <<>>) PROVE UnitsInv' BY <1>1, <1>2, <1>3, <1>4, <2>1, <2>2, UnitsBare
  <2>3. CASE ~Done(r, <<>>)
    <3>1. CASE Adjust(r)
      <4>1. o.op = "adjust" /\ Done(r, <<[o EXCEPT !.op = "insert"]>>)
        BY <1>1, <1>3, <2>3, <3>1 DEF Adjust, Next1
      <4>2. PICK x : x = [o EXCEPT !.op = "insert"] OBVIOUS
      <4>3. x \in Ops /\ x.op = "insert" /\ x.move = o.move BY <1>3, <4>2 DEF Ops, OpNames
      <4>4. PICK more : more = <<x>> /\ Done(r, more) BY <4>1, <4>2
      <4> QED BY ONLY StockTypes, StockTypes', PicksInv, UnitsInv, r \in Requests,
                      <1>1, <1>2, <1>4, <2>1, <4>1, <4>3, <4>4, UnitsBare
    <3>2. CASE Reserve(r)
      <4>1. o.op = "reserve" /\ c.kind = "confirm" BY <1>3, <3>2, <1>1, ZenonT(60) DEF Reserve, Next1
      <4>2. PICK x : /\ Done(r, <<x>>)
                     /\ \E to \in {"waiting", "confirmed", "ready"} : x = Op("state", o.move, o.at, 0, to)
        BY <1>1, <1>3, <3>2, ZenonT(60) DEF Reserve
      <4>3. x \in Ops /\ x.op = "state" /\ x.to \in Open
        <5>1. o.move \in Nat /\ o.at \in Locations BY <1>3 DEF Ops
        <5> QED BY <4>2, <5>1 DEF Op, Ops, OpNames, States, Open
      <4>4. PICK more : more = <<x>> /\ Done(r, more) BY <4>2
      <4> QED BY ONLY StockTypes, StockTypes', PicksInv, UnitsInv, r \in Requests,
                      <1>1, <1>2, <1>4, <2>1, <4>1, <4>3, <4>4, UnitsBare
    <3>3. Adjust(r) \/ Reserve(r) BY <1>6, <2>3 DEF Insert, Release, Overwrite
    <3> QED BY <3>1, <3>2, <3>3
  <2> QED BY <2>2, <2>3
<1> QED BY <1>5, <1>6

\* A call takes up its next move.
Took(r, m, c, ops, rest, s) ==
  /\ req' = [req EXCEPT ![r] = Settle(s)] /\ s.kind = c.kind /\ s.pick = c.pick
  /\ s.todo = c.todo \ {m} /\ s.ops = ops /\ s.rest = c.rest \o rest

LEMMA TookUp ==
  ASSUME StockTypes, NEW r \in Requests, NEW c, c = req[r], NEW k, NEW m, Turn(r, k, m), NEW ops, NEW rest,
         TakeUp(r, m, ops, rest)
  PROVE  /\ c.kind = k /\ c.ops = <<>> /\ m \in c.todo /\ c \in Calls
         /\ m \in 1..Len(moves) /\ moves[m].pick = c.pick /\ moves[m] \in MoveRows
         /\ \E s : Took(r, m, c, ops, rest, s)
<1>1. PICK s : s = Call(c.kind, c.pick, c.todo \ {m}, ops, c.rest \o rest, c.back) OBVIOUS
<1>2. c.kind = k /\ c.ops = <<>> /\ m \in c.todo BY DEF Turn
<1>3. req' = [req EXCEPT ![r] = Settle(s)] BY <1>1 DEF TakeUp
<1>4. Took(r, m, c, ops, rest, s) BY <1>1, <1>2, <1>3 DEF Call, Took
<1>5. m \in 1..Len(moves) /\ moves[m].pick = c.pick /\ moves[m] \in MoveRows /\ c \in Calls BY TurnIs
<1> QED BY <1>2, <1>3, <1>4, <1>5

LEMMA UnitsTurn ==
  ASSUME StockTypes, StockTypes', PicksInv, UnitsInv, NEW r \in Requests, NEW c, c = req[r],
         NEW m \in 1..Len(moves), moves[m].pick = c.pick, NEW s, req' = [req EXCEPT ![r] = Settle(s)],
         s.pick = c.pick, Steady(s), UNCHANGED <<moves, pickings, promised, cut>>,
         Follows(c, moves) => Follows(s, moves)
  PROVE  UnitsInv'
<1>1. Keeps(moves, moves') BY KeepsSame DEF StockTypes
<1>2. ASSUME c.pick \in 1..Len(pickings), c.pick \notin cut PROVE Follows(s, moves') /\ c.pick \notin promised
  <2>1. Tracked(c.pick, req, moves) /\ (c.pick \in promised => Honoured(c.pick, req, moves, pickings))
    BY <1>2 DEF UnitsInv
  <2>2. Follows(s, moves) BY <2>1 DEF Tracked
  <2>3. On(moves, c.pick) # {} BY DEF On
  <2> QED BY <2>1, <2>2, <2>3 DEF Honoured
<1>3. /\ cut \subseteq cut' /\ UNCHANGED <<pickings, promised>>
      /\ \A x \in 1..Len(moves') : x \notin 1..Len(moves) => moves'[x].pick = 0
      /\ \A x \in 1..Len(moves) : moves[x].pick \notin {0, s.pick} => moves'[x] = moves[x]
      /\ req[r].pick = s.pick
  OBVIOUS
<1>4. s.pick \in 1..Len(pickings) /\ s.pick \notin cut' =>
        /\ Follows(s, moves')
        /\ s.pick \in promised => Split(moves', pickings, s.pick) /\ On(moves', s.pick) = {} /\ s.rest = <<>>
  BY <1>2
<1> QED BY <1>1, <1>3, <1>4, UnitsCall

\* The move it takes up is among those it has taken up, and it closes it.
LEMMA TakenMore ==
  ASSUME NEW mv, NEW c, NEW s, NEW m, c.ops = <<>>, m \in c.todo, m \in On(mv, c.pick), s.pick = c.pick,
         s.todo = c.todo \ {m}, Halfway(c, mv), Closes(s, m)
  PROVE  /\ Halfway(s, mv) /\ Taken(s, mv) = Taken(c, mv) \cup {m} /\ m \notin Taken(c, mv)
         /\ mv[m].lines = <<>>
<1>1. Taken(s, mv) = Taken(c, mv) \cup {m} /\ m \notin Taken(c, mv) BY DEF Taken
<1>2. \A x : ~Closes(c, x)
  <2>1. 1..Len(c.ops) = {} OBVIOUS
  <2> QED BY <2>1 DEF Closes
<1>3. \A x \in Taken(c, mv) : mv[x].state \notin Open BY <1>2 DEF Halfway
<1> QED BY <1>1, <1>3 DEF Halfway

\* What is missing of it then is asked for, by the rest.
LEMMA AddsUpMore ==
  ASSUME NEW mv \in Seq(MoveRows), NEW c \in Calls, c.ops = <<>>, NEW s, NEW m \in 1..Len(mv),
         s.pick = c.pick, Taken(s, mv) = Taken(c, mv) \cup {m}, m \notin Taken(c, mv), mv[m].lines = <<>>,
         NEW d \in 0..mv[m].demand, Carrying(s, m) = d, \A x : x # m => Carrying(s, x) = 0,
         s.rest = c.rest \o Rest(mv[m], d), AddsUp(c, mv)
  PROVE  AddsUp(s, mv)
<1>1. PICK T, f, h, v : T = Taken(c, mv) /\ f = Missing(s, mv) /\ h = Missing(c, mv) /\ v = mv[m] OBVIOUS
<1>2. v \in MoveRows /\ v.demand \in Nat \ {0} /\ d \in Nat /\ d <= v.demand
  <2>1. v \in MoveRows BY <1>1
  <2>2. v.demand \in Nat \ {0} BY <2>1 DEF MoveRows
  <2> QED BY <1>1, <2>1, <2>2
<1>3. SumAll(Units(v)) = 0
  <2>1. 1..Len(v.lines) = {} BY <1>1
  <2>2. SumAll(Units(v)) = SumOf(Units(v), {}) BY <1>2, <2>1, UnitsAre
  <2> QED BY <2>2, SumEmpty
<1>4. f[m] = v.demand - d /\ f[m] \in Nat
  <2>1. f[m] = v.demand - SumAll(Units(v)) - d BY <1>1 DEF Missing
  <2> QED BY <1>2, <1>3, <2>1
<1>5. IsFiniteSet(T) /\ T \subseteq 1..Len(mv)
  <2>1. T \subseteq On(mv, c.pick) BY <1>1 DEF Taken
  <2>2. IsFiniteSet(On(mv, c.pick)) /\ On(mv, c.pick) \subseteq 1..Len(mv) BY OnIs
  <2> QED BY <2>1, <2>2, FS_Subset
<1>6. \A x : Carrying(c, x) = 0 BY DEF Carrying
<1>7. \A x \in T : f[x] = h[x] /\ f[x] \in Int /\ f[x] >= 0
  <2>1. \A x \in T : x # m /\ x \in 1..Len(mv) BY <1>1, <1>5
  <2>2. \A x \in T : f[x] = h[x] BY <1>1, <1>6, <2>1 DEF Missing
  <2>3. \A x \in T : h[x] \in Int BY <1>1, <2>1, MissingIs
  <2>4. \A x \in T : h[x] >= 0 BY <1>1 DEF AddsUp
  <2> QED BY <2>2, <2>3, <2>4
<1>8. SumOf(f, T) = Asked(c.rest)
  <2>1. SumOf(f, T) = SumOf(h, T) BY ONLY <1>5, <1>7, SumSame
  <2> QED BY <1>1, <2>1 DEF AddsUp
<1>9. SumOf(f, T \cup {m}) = f[m] + SumOf(f, T)
  <2>1. m \notin T /\ IsFiniteSet(T) /\ \A x \in T \cup {m} : f[x] \in Int BY <1>1, <1>4, <1>5, <1>7
  <2> QED BY ONLY <2>1, SumAdd
<1>10. Asked(s.rest) = Asked(c.rest) + (v.demand - d) /\ Asked(c.rest) \in Nat
  <2>1. c.rest \in Seq(Specs) BY DEF Calls
  <2>2. Asked(c.rest) \in Nat BY <2>1, AskedIs
  <2>3. CASE d = v.demand
    <3>1. Rest(v, d) = <<>> BY <2>3 DEF Rest
    <3>2. s.rest = c.rest BY <1>1, <2>1, <3>1
    <3>3. v.demand - d = 0 BY <1>2, <2>3
    <3> QED BY <2>2, <3>2, <3>3
  <2>4. CASE d # v.demand
    <3>1. PICK sp : sp = [demand |-> v.demand - d, src |-> v.src, dst |-> v.dst] OBVIOUS
    <3>2. Rest(v, d) = <<sp>> BY <2>4, <3>1 DEF Rest
    <3>3. v.demand - d \in Nat \ {0} BY <1>2, <2>4
    <3>4. sp \in Specs /\ sp.demand = v.demand - d BY <1>2, <3>1, <3>3 DEF Specs, MoveRows
    <3>5. s.rest = c.rest \o <<sp>> BY <1>1, <3>2
    <3>6. Asked(s.rest) = Asked(c.rest) + sp.demand BY ONLY <2>1, <3>4, <3>5, AskedMore
    <3> QED BY <2>2, <3>4, <3>6
  <2> QED BY <2>3, <2>4
<1>11. SumOf(f, T \cup {m}) = Asked(s.rest)
  <2>1. f[m] \in Int /\ SumOf(f, T) \in Int BY <1>4, <1>8, <1>10
  <2> QED BY <1>4, <1>8, <1>9, <1>10, <2>1
<1>12. \A x \in Taken(s, mv) : f[x] >= 0 BY <1>1, <1>4, <1>7
<1> QED BY <1>1, <1>11, <1>12 DEF AddsUp

\* What a validation is to do for a move is to move some of it, and to close it.
Gives(ops, m, done) ==
  /\ ops \in Seq(Ops) /\ ops # <<>>
  /\ \A i \in 1..Len(ops) : ops[i].move = m /\ (ops[i].op = "state" => ops[i].to \notin Open)
  /\ \E i \in 1..Len(ops) : ops[i].op = "state"
  /\ done > 0 => ops[1].op = "line" /\ ops[1].by = done
  /\ done = 0 => ops[1].op # "line"

LEMMA TransferGives ==
  ASSUME NEW m \in Nat, NEW v \in MoveRows, NEW done \in 0..v.demand, NEW to \in Locations, NEW ops,
         ops = Transfer(m, v, done, to)
  PROVE  Gives(ops, m, done)
<1>1. PICK line, out, free, inn, rest, state :
        /\ line = Op("line", m, v.src, done, to) /\ out = Op("adjust", m, v.src, -done, None)
        /\ free = Op("release", m, v.src, done, None) /\ inn = Op("adjust", m, to, done, None)
        /\ rest = Op("release", m, v.src, v.demand - done, None)
        /\ state = Op("state", m, v.src, 0, IF done > 0 THEN "done" ELSE "cancelled")
  OBVIOUS
<1>2. v.demand \in Nat /\ v.src \in Locations BY DEF MoveRows
<1>3. done \in Int /\ -done \in Int /\ v.demand - done \in Int /\ done <= v.demand /\ done >= 0 BY <1>2
<1>4. line \in Ops /\ out \in Ops /\ free \in Ops /\ inn \in Ops /\ rest \in Ops /\ state \in Ops
  BY <1>1, <1>2, <1>3 DEF Op, Ops, OpNames, States
<1>5. /\ line.move = m /\ out.move = m /\ free.move = m /\ inn.move = m /\ rest.move = m /\ state.move = m
      /\ line.op = "line" /\ out.op = "adjust" /\ free.op = "release" /\ inn.op = "adjust"
      /\ rest.op = "release" /\ state.op = "state" /\ state.to \notin Open /\ line.by = done
  BY <1>1 DEF Op, Open
<1>6. /\ done = 0 => IF v.src \in Internal THEN Two(ops, rest, state)
                     ELSE ops \in Seq(Ops) /\ Len(ops) = 1 /\ ops[1] = state
      /\ done > 0 /\ v.src \notin Internal => Four(ops, line, out, inn, state)
      /\ done > 0 /\ v.src \in Internal /\ done < v.demand => Six(ops, line, out, free, inn, rest, state)
      /\ done > 0 /\ v.src \in Internal /\ done = v.demand => Five(ops, line, out, free, inn, state)
  BY ONLY m \in Nat, v \in MoveRows, done \in 0..v.demand, to \in Locations, ops = Transfer(m, v, done, to),
          <1>1, <1>4, TransferCases
<1>7. PICK n : n = Len(ops) OBVIOUS
<1>8. 1..1 = {1} /\ 1..2 = {1, 2} /\ 1..4 = {1, 2, 3, 4} /\ 1..5 = {1, 2, 3, 4, 5}
      /\ 1..6 = {1, 2, 3, 4, 5, 6}
  OBVIOUS
<1>9. /\ ops \in Seq(Ops) /\ n \in {1, 2, 4, 5, 6} /\ ops[n] = state
      /\ \A i \in 1..n : ops[i] \in {line, out, free, inn, rest, state}
      /\ done > 0 => ops[1] = line
      /\ done = 0 => ops[1] \in {rest, state}
  <2>1. CASE done = 0 /\ v.src \in Internal
    <3>1. Two(ops, rest, state) /\ ~(done > 0) BY <1>6, <2>1
    <3>2. ops \in Seq(Ops) /\ n = 2 /\ ops[1] = rest /\ ops[2] = state BY ONLY <1>7, <3>1 DEF Two
    <3> QED BY ONLY <1>8, <2>1, <3>1, <3>2
  <2>2. CASE done = 0 /\ v.src \notin Internal BY ONLY <1>6, <1>7, <1>8, <2>2
  <2>3. CASE done > 0 /\ v.src \notin Internal BY ONLY <1>6, <1>7, <1>8, <2>3 DEF Four
  <2>4. CASE done > 0 /\ v.src \in Internal /\ done < v.demand BY ONLY <1>6, <1>7, <1>8, <2>4 DEF Six
  <2>5. CASE done > 0 /\ v.src \in Internal /\ done = v.demand BY ONLY <1>6, <1>7, <1>8, <2>5 DEF Five
  <2>6. done = 0 \/ (done > 0 /\ (done < v.demand \/ done = v.demand)) BY <1>2, <1>3
  <2> QED BY <2>1, <2>2, <2>3, <2>4, <2>5, <2>6
<1>10. ops # <<>> /\ n \in 1..n
  <2>1. n # 0 /\ n \in 1..n BY <1>9
  <2> QED BY <1>7, <2>1
<1>11. \A i \in 1..n : ops[i].move = m /\ (ops[i].op = "state" => ops[i].to \notin Open)
  BY ONLY <1>5, <1>9
<1>12. (done > 0 => ops[1].op = "line" /\ ops[1].by = done) /\ (done = 0 => ops[1].op # "line")
  BY <1>5, <1>9
<1>13. ops[n].op = "state" BY <1>5, <1>9
<1> QED BY <1>7, <1>9, <1>10, <1>11, <1>12, <1>13 DEF Gives

LEMMA UnitsConfirm ==
  ASSUME StockTypes, StockTypes', PicksInv, UnitsInv, NEW r \in Requests, NEW m, ConfirmMove(r, m)
  PROVE  UnitsInv'
<1>1. PICK c, v, ops, a, b :
        /\ c = req[r] /\ v = moves[m] /\ a = Op("state", m, v.src, 0, "ready")
        /\ b = Op("reserve", m, v.src, v.demand, None)
        /\ ops = IF v.state \notin Open THEN <<>> ELSE IF v.src \notin Internal THEN <<a>> ELSE <<b>>
  OBVIOUS
<1>2. Turn(r, "confirm", m) /\ TakeUp(r, m, ops, <<>>) /\ UNCHANGED <<moves, pickings, promised, cut>>
  BY <1>1 DEF ConfirmMove, rows, history
<1>3. PICK s : /\ req' = [req EXCEPT ![r] = Settle(s)] /\ s.kind = "confirm" /\ s.pick = c.pick
               /\ s.todo = c.todo \ {m} /\ s.ops = ops /\ s.rest = c.rest \o <<>>
  <2>1. c.kind = "confirm" /\ \E s : Took(r, m, c, ops, <<>>, s) BY <1>1, <1>2, TookUp
  <2> QED BY <2>1 DEF Took
<1>4. c.kind = "confirm" /\ m \in 1..Len(moves) /\ moves[m].pick = c.pick BY <1>1, <1>2, TookUp
<1>5. \A i \in 1..Len(ops) : ops[i].op \in {"reserve", "state"} /\ (ops[i].op = "state" => ops[i].to \in Open)
  <2>1. /\ a.op = "state" /\ a.to = "ready" /\ b.op = "reserve" /\ "ready" \in Open BY <1>1 DEF Op, Open
  <2>2. CASE ops = <<>>
    <3>1. 1..Len(ops) = {} BY <2>2
    <3> QED BY <3>1
  <2>3. ASSUME NEW x \in {a, b}, ops = <<x>>
        PROVE  \A i \in 1..Len(ops) : ops[i].op \in {"reserve", "state"} /\ (ops[i].op = "state" => ops[i].to \in Open)
    <3>1. Len(ops) = 1 /\ ops[1] = x /\ 1..1 = {1} BY <2>3
    <3> QED BY <2>1, <3>1
  <2> QED BY <1>1, <2>2, <2>3
<1>6. Steady(s)
  <2>1. Steady(c) BY <1>1 DEF UnitsInv
  <2>2. c.pick # 0 BY <1>4, <2>1 DEF Steady
  <2> QED BY <1>3, <1>5, <2>2 DEF Steady
<1>7. Follows(c, moves) => Follows(s, moves) BY <1>3, <1>4 DEF Follows
<1> QED BY <1>1, <1>2, <1>3, <1>4, <1>6, <1>7, UnitsTurn

\* The transactions for a move a call takes up close it.
Closing(s, m) ==
  /\ \A i \in 1..Len(s.ops) : s.ops[i].move = m /\ (s.ops[i].op = "state" => s.ops[i].to \notin Open)
  /\ \E i \in 1..Len(s.ops) : s.ops[i].op = "state"

LEMMA ClosingSteady ==
  ASSUME NEW s, NEW m, NEW c, Closing(s, m), m \notin s.todo, s.kind \in {"validate", "cancel"},
         s.kind = c.kind, s.pick = c.pick, Steady(c)
  PROVE  Steady(s) /\ Closes(s, m)
<1>1. Closes(s, m) BY DEF Closing, Closes
<1> QED BY <1>1 DEF Closing, Steady

LEMMA UnitsValidate ==
  ASSUME StockTypes, StockTypes', PicksInv, UnitsInv, NEW r \in Requests, NEW m, ValidateMove(r, m)
  PROVE  UnitsInv'
<1>1. PICK c, v, d : c = req[r] /\ v = moves[m] /\ d = DoQty(v) OBVIOUS
<1>2. PICK to \in Dests(v.dst) : TakeUp(r, m, Transfer(m, v, d, to), Rest(v, d)) BY <1>1 DEF ValidateMove
<1>3. Turn(r, "validate", m) /\ UNCHANGED <<moves, pickings, promised, cut>>
  BY DEF ValidateMove, rows, history
<1>4. PICK s : /\ req' = [req EXCEPT ![r] = Settle(s)] /\ s.kind = "validate" /\ s.pick = c.pick
               /\ s.todo = c.todo \ {m} /\ s.ops = Transfer(m, v, d, to) /\ s.rest = c.rest \o Rest(v, d)
  <2>1. PICK ops, rest : ops = Transfer(m, v, d, to) /\ rest = Rest(v, d) OBVIOUS
  <2>2. c.kind = "validate" /\ \E s : Took(r, m, c, ops, rest, s) BY <1>1, <1>2, <1>3, <2>1, TookUp
  <2> QED BY <2>1, <2>2 DEF Took
<1>5. /\ c.kind = "validate" /\ c.ops = <<>> /\ m \in c.todo /\ c \in Calls
      /\ m \in 1..Len(moves) /\ v.pick = c.pick /\ v \in MoveRows
  BY <1>1, <1>2, <1>3, TookUp
<1>6. d \in 0..v.demand /\ to \in Locations /\ m \in Nat
  <2>1. QuantTypes BY DEF StockTypes
  <2>2. d \in 0..v.demand BY <1>1, <1>5, <2>1, DoQtyIs
  <2>3. v.dst \in Locations BY <1>5 DEF MoveRows
  <2> QED BY <1>2, <1>5, <2>2, <2>3, DestsAre
<1>7. /\ s.ops \in Seq(Ops) /\ s.ops # <<>>
      /\ \A i \in 1..Len(s.ops) : s.ops[i].move = m /\ (s.ops[i].op = "state" => s.ops[i].to \notin Open)
      /\ \E i \in 1..Len(s.ops) : s.ops[i].op = "state"
      /\ d > 0 => s.ops[1].op = "line" /\ s.ops[1].by = d
      /\ d = 0 => s.ops[1].op # "line"
  <2>1. PICK ops : ops = Transfer(m, v, d, to) OBVIOUS
  <2>2. Gives(ops, m, d)
    <3>1. m \in Nat /\ v \in MoveRows /\ d \in 0..v.demand /\ to \in Locations BY <1>5, <1>6
    <3> QED BY ONLY <2>1, <3>1, TransferGives
  <2>3. s.ops = ops BY <1>4, <2>1
  <2> QED BY ONLY <2>2, <2>3 DEF Gives
<1>8. Steady(s) /\ Closes(s, m)
  <2>1. Steady(c) BY <1>1 DEF UnitsInv
  <2>2. Closing(s, m) BY <1>7 DEF Closing
  <2>3. m \notin s.todo /\ s.kind \in {"validate", "cancel"} /\ s.kind = c.kind /\ s.pick = c.pick BY <1>4, <1>5
  <2> QED BY ONLY <2>1, <2>2, <2>3, ClosingSteady
<1>9. Carrying(s, m) = d /\ \A x : x # m => Carrying(s, x) = 0
  <2>1. 1 \in 1..Len(s.ops) BY <1>7, Tails
  <2>2. s.ops[1].move = m BY <1>7, <2>1
  <2>3. d = 0 \/ d > 0 BY <1>5, <1>6 DEF MoveRows
  <2> QED BY <1>7, <2>2, <2>3 DEF Carrying
<1>10. ASSUME Follows(c, moves) PROVE Follows(s, moves)
  <2>1. Halfway(c, moves) /\ AddsUp(c, moves) BY <1>5, <1>10 DEF Follows
  <2>2. m \in On(moves, c.pick) BY <1>1, <1>5 DEF On
  <2>3. PICK mv : mv = moves OBVIOUS
  <2>4. /\ Halfway(s, mv) /\ Taken(s, mv) = Taken(c, mv) \cup {m} /\ m \notin Taken(c, mv)
        /\ mv[m].lines = <<>>
    BY <1>4, <1>5, <1>8, <2>1, <2>2, <2>3, TakenMore
  <2>5. /\ mv \in Seq(MoveRows) /\ m \in 1..Len(mv) /\ d \in 0..mv[m].demand /\ AddsUp(c, mv)
        /\ s.rest = c.rest \o Rest(mv[m], d) /\ s.pick = c.pick /\ c.ops = <<>> /\ c \in Calls
    BY <1>1, <1>4, <1>5, <1>6, <2>1, <2>3 DEF StockTypes
  <2>6. AddsUp(s, mv) BY ONLY <1>9, <2>4, <2>5, AddsUpMore
  <2> QED BY <1>4, <2>3, <2>4, <2>6 DEF Follows
<1> QED BY <1>1, <1>3, <1>4, <1>5, <1>8, <1>10, UnitsTurn

LEMMA UnitsCancel ==
  ASSUME StockTypes, StockTypes', PicksInv, UnitsInv, NEW r \in Requests, NEW m, CancelMove(r, m)
  PROVE  UnitsInv'
<1>1. PICK c, v, n, free, state, ops :
        /\ c = req[r] /\ v = moves[m] /\ n = Least(Reserved(v.src), v.demand)
        /\ free = Op("release", m, v.src, n, None) /\ state = Op("state", m, v.src, 0, "cancelled")
        /\ ops = Free(m, v.src, n) \o <<state>>
  OBVIOUS
<1>2. TakeUp(r, m, ops, <<>>) /\ Turn(r, "cancel", m) /\ UNCHANGED <<moves, pickings, promised, cut>>
  BY <1>1 DEF CancelMove, rows, history
<1>3. PICK s : /\ req' = [req EXCEPT ![r] = Settle(s)] /\ s.kind = "cancel" /\ s.pick = c.pick
               /\ s.todo = c.todo \ {m} /\ s.ops = ops /\ s.rest = c.rest \o <<>>
  <2>1. c.kind = "cancel" /\ \E s : Took(r, m, c, ops, <<>>, s) BY <1>1, <1>2, TookUp
  <2> QED BY <2>1 DEF Took
<1>4. /\ c.kind = "cancel" /\ c.ops = <<>> /\ m \in c.todo /\ c \in Calls
      /\ m \in 1..Len(moves) /\ v.pick = c.pick /\ v \in MoveRows
  BY <1>1, <1>2, TookUp
<1>5. n \in Nat /\ v.src \in Locations /\ m \in Nat
  <2>1. v.demand \in Nat /\ v.src \in Locations BY <1>4 DEF MoveRows
  <2>2. Reserved(v.src) \in Nat BY OnHandIs DEF StockTypes
  <2> QED BY <1>1, <1>4, <2>1, <2>2 DEF Least
<1>6. /\ free.move = m /\ free.op = "release"
      /\ state.op = "state" /\ state.move = m /\ state.to = "cancelled"
      /\ IF v.src \in Internal /\ n > 0 THEN Two(ops, free, state)
         ELSE ops \in Seq(Ops) /\ Len(ops) = 1 /\ ops[1] = state
  <2>1. GivesBack(m, v.src, n, free, state, ops) BY <1>1, <1>5 DEF GivesBack
  <2> QED BY ONLY <2>1, CancelCases
<1>7. Closing(s, m)
  <2>1. "cancelled" \notin Open BY DEF Open
  <2>2. 1..1 = {1} /\ 1..2 = {1, 2} OBVIOUS
  <2>3. CASE v.src \in Internal /\ n > 0
    <3>1. Two(ops, free, state) BY <1>6, <2>3
    <3>2. Len(ops) = 2 /\ ops[1] = free /\ ops[2] = state BY <3>1 DEF Two
    <3> QED BY ONLY <1>3, <1>6, <2>1, <2>2, <3>2 DEF Closing
  <2>4. CASE ~(v.src \in Internal /\ n > 0)
    <3>1. Len(ops) = 1 /\ ops[1] = state BY <1>6, <2>4
    <3> QED BY ONLY <1>3, <1>6, <2>1, <2>2, <3>1 DEF Closing
  <2> QED BY <2>3, <2>4
<1>8. Steady(s) /\ Closes(s, m)
  <2>1. Steady(c) BY <1>1 DEF UnitsInv
  <2>2. m \notin s.todo /\ s.kind \in {"validate", "cancel"} /\ s.kind = c.kind /\ s.pick = c.pick BY <1>3, <1>4
  <2> QED BY ONLY <1>7, <2>1, <2>2, ClosingSteady
<1>9. ASSUME Follows(c, moves) PROVE Follows(s, moves)
  <2>1. Halfway(c, moves) BY <1>4, <1>9 DEF Follows
  <2>2. m \in On(moves, c.pick) BY <1>1, <1>4 DEF On
  <2>3. PICK mv : mv = moves OBVIOUS
  <2>4. Halfway(s, mv) BY <1>3, <1>4, <1>8, <2>1, <2>2, <2>3, TakenMore
  <2> QED BY <1>3, <2>3, <2>4 DEF Follows
<1> QED BY <1>1, <1>2, <1>3, <1>4, <1>8, <1>9, UnitsTurn

\* Nothing changes of the transfers.
LEMMA UnitsSame ==
  ASSUME StockTypes, StockTypes', UnitsInv, UNCHANGED <<moves, pickings, req, promised, cut>>
  PROVE  UnitsInv'
<1>1. PICK T : T = {} OBVIOUS
<1>2. Keeps(moves, moves') BY KeepsSame DEF StockTypes
<1>3. Len(pickings) \in Nat /\ promised \subseteq 1..Len(pickings) /\ \A r \in Requests : Steady(req'[r])
  BY DEF StockTypes, UnitsInv
<1>4. /\ Len(pickings) <= Len(pickings') /\ \A b \in 1..Len(pickings) : pickings'[b] = pickings[b]
      /\ \A b \in 1..Len(pickings') : b \notin 1..Len(pickings) =>
           b \in T /\ (pickings'[b] # 0 => pickings'[b] \in T \cap promised')
      /\ promised' \subseteq 1..Len(pickings') /\ promised \subseteq promised' /\ promised' \ promised \subseteq T
      /\ cut \subseteq cut'
      /\ \A m \in 1..Len(moves') : m \notin 1..Len(moves) => moves'[m].pick \notin 1..Len(pickings)
      /\ \A m \in 1..Len(moves) : moves[m].pick \notin T \cup {0} => moves'[m] = moves[m]
      /\ \A r \in Requests : req'[r] # req[r] => {req[r].pick, req'[r].pick} \subseteq T \cup {0}
      /\ \A p \in T : p \in 1..Len(pickings') /\ p \notin cut' => Good(p)'
  BY <1>1, <1>3
<1> QED BY <1>2, <1>3, <1>4, UnitsFrame

\* A transfer that is done with and not said to be has no moves.
LEMMA StateOver ==
  ASSUME StockTypes, NEW p, Over(moves, p), PickingState(p) \notin {"done", "cancelled"}
  PROVE  On(moves, p) = {}
<1>1. Of(p) = On(moves, p) BY DEF Of, On, StockTypes
<1>2. SUFFICES ASSUME Of(p) # {} PROVE FALSE BY <1>1
<1>3. PICK s : s = {moves[m].state : m \in Of(p)} \ {"cancelled"} OBVIOUS
<1>4. s \subseteq {"done"}
  <2>1. \A m \in Of(p) : moves[m].state \in {"done", "cancelled"}
    <3>1. \A m \in On(moves, p) : moves[m] \in MoveRows BY OnIs DEF StockTypes
    <3>2. \A m \in On(moves, p) : moves[m].state \in States /\ moves[m].state \notin Open
      BY <3>1 DEF MoveRows, Over
    <3> QED BY <1>1, <3>2 DEF States
  <2> QED BY <1>3, <2>1
<1>5. CASE s = {}
  <2>1. PickingState(p) = "cancelled" BY <1>2, <1>3, <1>5 DEF PickingState
  <2> QED BY <2>1
<1>6. CASE s = {"done"}
  <2>1. Cardinality(s) = 1 BY <1>6, FS_Singleton
  <2>2. PickingState(p) = CHOOSE x \in s : TRUE BY <1>2, <1>3, <1>6, <2>1 DEF PickingState
  <2> QED BY <1>6, <2>2
<1> QED BY <1>4, <1>5, <1>6

\* A call begins on a transfer as it was asked for.
LEMMA FollowsFresh ==
  ASSUME NEW mv, NEW s, s.kind \in {"confirm", "validate", "cancel"}, s.rest = <<>>, Fresh(mv, s.pick),
         s.kind # "confirm" => s.todo = On(mv, s.pick)
  PROVE  Follows(s, mv)
<1>1. CASE s.kind = "confirm" BY <1>1 DEF Follows
<1>2. CASE s.kind # "confirm"
  <2>1. Taken(s, mv) = {} BY <1>2 DEF Taken
  <2>2. Halfway(s, mv) BY <1>2, <2>1 DEF Halfway, Fresh
  <2>3. SumOf(Missing(s, mv), Taken(s, mv)) = 0 BY <2>1, SumEmpty
  <2>4. AddsUp(s, mv) BY <2>1, <2>3, AskedNone DEF AddsUp
  <2> QED BY <1>2, <2>2, <2>4 DEF Follows
<1> QED BY <1>1, <1>2

LEMMA UnitsBegin ==
  ASSUME Orderly, StockTypes, StockTypes', PicksInv, UnitsInv, NEW r \in Requests, NEW p \in DOMAIN pickings,
         NEW b, ConfirmBegin(r, p) \/ CancelBegin(r, p) \/ ValidateBegin(r, p, b)
  PROVE  UnitsInv'
<1>1. PICK k, todo, back, from :
        /\ Begin(r, Call(k, p, todo, <<>>, <<>>, back)) /\ UNCHANGED <<rows, tried, history>>
        /\ Clear(r, p, from) /\ k \in {"confirm", "validate", "cancel"}
        /\ k = "confirm" => todo = Of(p) /\ \A m \in Of(p) : moves[m].state = "draft"
        /\ k # "confirm" => todo = OpenOf(p)
        /\ k = "validate" => PickingState(p) \notin {"done", "cancelled"}
  <2>1. CASE ConfirmBegin(r, p)
    <3>1. /\ Begin(r, Call("confirm", p, Of(p), <<>>, <<>>, FALSE)) /\ UNCHANGED <<rows, tried, history>>
          /\ Clear(r, p, {}) /\ \A m \in Of(p) : moves[m].state = "draft"
          /\ "confirm" # "validate" /\ "confirm" \in {"confirm", "validate", "cancel"}
      BY <2>1 DEF ConfirmBegin
    <3> QED BY ONLY <3>1
  <2>2. CASE CancelBegin(r, p)
    <3>1. /\ Begin(r, Call("cancel", p, OpenOf(p), <<>>, <<>>, FALSE)) /\ UNCHANGED <<rows, tried, history>>
          /\ Clear(r, p, {}) /\ "cancel" # "confirm" /\ "cancel" # "validate"
      BY <2>2 DEF CancelBegin
    <3> QED BY ONLY <3>1
  <2>3. CASE ValidateBegin(r, p, b)
    <3>1. /\ Begin(r, Call("validate", p, OpenOf(p), <<>>, <<>>, b)) /\ UNCHANGED <<rows, tried, history>>
          /\ Clear(r, p, {moves[m].src : m \in Of(p)} \cap Internal) /\ "validate" # "confirm"
          /\ PickingState(p) \notin {"done", "cancelled"}
      BY <2>3 DEF ValidateBegin
    <3> QED BY ONLY <3>1
  <2> QED BY <2>1, <2>2, <2>3
<1>2. PICK s : s = Call(k, p, todo, <<>>, <<>>, back) OBVIOUS
<1>3. s.kind = k /\ s.pick = p /\ s.todo = todo /\ s.ops = <<>> /\ s.rest = <<>> BY <1>2 DEF Call
<1>4. req[r] = Idle /\ req' = [req EXCEPT ![r] = Settle(s)] BY <1>1, <1>2 DEF Begin
<1>5. UNCHANGED <<moves, pickings, promised, cut>> BY <1>1 DEF rows, history
<1>6. p \in 1..Len(pickings) /\ p # 0 /\ Of(p) = On(moves, p) /\ OpenOf(p) \subseteq On(moves, p)
  BY DEF StockTypes, Of, OpenOf, On
<1>7. \A o \in Requests : req[o].pick # p
  <2>1. \A o \in Requests \ {r} : req[o].pick # p BY <1>1, <1>6 DEF Clear
  <2> QED BY <1>4, <1>6, <2>1, SteadyIdle
<1>8. CASE todo = {} /\ k # "validate"
  <2>1. Settle(s) = Idle BY <1>3, <1>8 DEF Settle
  <2>2. req' = req BY <1>4, <2>1 DEF StockTypes
  <2> QED BY <1>5, <2>2, UnitsSame
<1>9. CASE ~(todo = {} /\ k # "validate")
  <2>1. Steady(s)
    <3>1. 1..Len(s.ops) = {} BY <1>3
    <3> QED BY <1>1, <1>3, <1>6, <3>1 DEF Steady
  <2>2. ASSUME p \notin cut
        PROVE  Follows(s, moves) /\ (p \in promised => Split(moves, pickings, p) /\ On(moves, p) = {})
    <3>1. Tracked(p, req, moves) /\ (p \in promised => Split(moves, pickings, p))
      BY <1>6, <2>2 DEF UnitsInv, Honoured
    <3>2. Fresh(moves, p) \/ Over(moves, p) BY <1>7, <3>1 DEF Tracked
    <3>3. Over(moves, p) => On(moves, p) = {}
      <4>1. CASE k = "confirm" BY <1>1, <1>6, <4>1 DEF Over, Open
      <4>2. CASE k = "cancel"
        <5>1. todo # {} /\ todo = OpenOf(p) BY <1>1, <1>9, <4>2
        <5> QED BY <1>6, <5>1 DEF OpenOf, Over
      <4>3. CASE k = "validate" BY <1>1, <4>3, StateOver
      <4> QED BY <1>1, <4>1, <4>2, <4>3
    <3>4. Fresh(moves, p) BY <3>2, <3>3 DEF Fresh
    <3>5. OpenOf(p) = On(moves, p) BY <1>6, <3>4 DEF OpenOf, Fresh
    <3>6. Follows(s, moves) BY <1>1, <1>3, <3>4, <3>5, FollowsFresh
    <3>7. p \in promised => On(moves, p) = {} BY <3>1, <3>3 DEF Split
    <3> QED BY <3>1, <3>6, <3>7
  <2>3. Keeps(moves, moves') BY <1>5, KeepsSame DEF StockTypes
  <2>4. /\ cut \subseteq cut' /\ UNCHANGED <<pickings, promised>>
        /\ \A x \in 1..Len(moves') : x \notin 1..Len(moves) => moves'[x].pick = 0
        /\ \A x \in 1..Len(moves) : moves[x].pick \notin {0, s.pick} => moves'[x] = moves[x]
        /\ req[r].pick = 0 /\ \A o \in Requests \ {r} : req[o].pick # s.pick
    BY <1>3, <1>4, <1>5, <1>7, SteadyIdle
  <2>5. s.pick \in 1..Len(pickings) /\ s.pick \notin cut' =>
          /\ Follows(s, moves')
          /\ s.pick \in promised => Split(moves', pickings, s.pick) /\ On(moves', s.pick) = {} /\ s.rest = <<>>
    BY <1>3, <1>5, <2>2
  <2> QED BY <1>4, <2>1, <2>3, <2>4, <2>5, UnitsCall
<1> QED BY <1>8, <1>9

\* A scrap or a count works on a move of no transfer.
LEMMA UnitsStart ==
  ASSUME StockTypes, StockTypes', UnitsInv, NEW r \in Requests, NEW k \in {"scrap", "count"}, NEW n,
         NEW from, NEW to, NEW write, Starts(r, k, n, from, to, write), UNCHANGED <<promised, cut>>
  PROVE  UnitsInv'
<1>1. PICK q, ops, specs :
        /\ req' = [req EXCEPT ![r] = q] /\ req[r] = Idle /\ q = Call(k, 0, {}, ops, <<>>, FALSE)
        /\ q \in Calls /\ q.kind = k /\ q.pick = 0 /\ q.todo = {} /\ q.ops = ops
        /\ specs \in Seq(Specs) /\ AddMoves(0, specs) /\ CallFits(q, moves', Len(pickings))
        /\ UNCHANGED <<quant, pickings, tried, lost>>
        /\ OpsFit(ops, k, 0, moves') /\ ops # <<>>
        /\ ops[1].op = "line" /\ ops[1].by = n /\ ops[1].at = from /\ ops[1].to = to
        /\ \A i \in 1..Len(ops) :
             /\ ops[i].op \in {"line", "adjust", "state", "overwrite"}
             /\ ops[i].op = "overwrite" => k = "count" /\ ops[i] = write
             /\ ops[i].op = "adjust" /\ ops[i].by < 0 => ops[i].at = from /\ ops[i].by = -n
  BY ZenonT(60) DEF Starts
<1>2. Extended(moves, 0, specs, moves') BY <1>1 DEF Extended, AddMoves, StockTypes
<1>3. /\ Keeps(moves, moves') /\ \A m \in 1..Len(moves) : moves'[m] = moves[m]
      /\ \A m \in 1..Len(moves') : m \notin 1..Len(moves) => moves'[m].pick = 0
  BY <1>2, MovesAdded
<1>4. Steady(q) BY <1>1 DEF Steady
<1>5. PICK p : p = 0 OBVIOUS
<1>6. {req[r].pick, q.pick} \subseteq {0, p} BY <1>1, <1>5, SteadyIdle
<1>7. /\ StockTypes /\ StockTypes' /\ UnitsInv /\ UNCHANGED <<pickings, promised>> /\ cut \subseteq cut'
      /\ req' = [req EXCEPT ![r] = q] /\ \A m \in 1..Len(moves) : moves[m].pick \notin {0, p} => moves'[m] = moves[m]
  BY <1>1, <1>3
<1>8. p \in 1..Len(pickings) /\ p \notin cut' => Good(p)' BY <1>5
<1> QED BY ONLY r \in Requests, <1>3, <1>4, <1>6, <1>7, <1>8, UnitsGo

LEMMA UnitsFails ==
  ASSUME StockTypes, StockTypes', UnitsInv, NEW r \in Requests, Fails(r)
  PROVE  UnitsInv'
<1>1. Stop(r) /\ UNCHANGED <<moves, pickings, promised>> BY DEF Fails, rows
<1> QED BY <1>1, UnitsCut

\* A return asks for moves of its own.
LEMMA UnitsReturn ==
  ASSUME StockTypes, StockTypes', UnitsInv, NEW p \in DOMAIN pickings, Return(p)
  PROVE  UnitsInv'
<1>1. PICK specs \in Seq(Specs) : AddPicking(0, specs) /\ UNCHANGED req BY ReturnIs
<1>2. PICK n, T : n = Len(pickings) + 1 /\ T = {n} OBVIOUS
<1>3. UNCHANGED <<promised, cut>> BY DEF Return, history
<1>4. /\ pickings \in Seq(Nat) /\ moves \in Seq(MoveRows) /\ Len(pickings) \in Nat
      /\ n \in Nat /\ n # 0 /\ n \notin 1..Len(pickings) /\ n \in 1..(Len(pickings) + 1)
      /\ \A m \in 1..Len(moves) : moves[m].pick \in 0..Len(pickings)
  BY <1>2 DEF StockTypes
<1>5. /\ pickings' = Append(pickings, 0) /\ Extended(moves, n, specs, moves')
  BY <1>1, <1>2, <1>4 DEF AddPicking, AddMoves, Extended
<1>6. /\ Len(pickings') = n /\ pickings'[n] = 0 /\ \A b \in 1..Len(pickings) : pickings'[b] = pickings[b]
  BY <1>2, <1>4, <1>5
<1>7. /\ Keeps(moves, moves') /\ \A m \in 1..Len(moves) : moves'[m] = moves[m]
      /\ \A m \in 1..Len(moves') : m \notin 1..Len(moves) =>
           moves'[m].pick = n /\ moves'[m].state = "draft" /\ moves'[m].lines = <<>>
  BY <1>5, MovesAdded
<1>8. promised \subseteq 1..Len(pickings) /\ \A r \in Requests : Steady(req'[r]) BY <1>1 DEF UnitsInv
<1>9. Good(n)'
  <2>1. Fresh(moves', n)
    <3>1. ASSUME NEW m \in On(moves', n), m \in 1..Len(moves) PROVE FALSE
      <4>1. moves'[m].pick = n BY DEF On
      <4>2. moves[m].pick = n BY <1>7, <3>1, <4>1
      <4>3. n \in 0..Len(pickings) BY ONLY <1>4, <3>1, <4>2
      <4> QED BY ONLY <1>4, <4>3
    <3>2. \A m \in On(moves', n) : m \in 1..Len(moves') BY DEF On
    <3> QED BY <1>7, <3>1, <3>2 DEF Fresh, Open
  <2>2. \A r \in Requests : req'[r].pick # n
    <3>1. \A r \in Requests : req[r].pick \in 0..Len(pickings) BY DEF StockTypes, CallFits
    <3> QED BY <1>1, <1>4, <3>1
  <2>3. n \notin promised' BY <1>3, <1>4, <1>8
  <2> QED BY <2>1, <2>2, <2>3 DEF Good, Tracked
<1>10. /\ Len(pickings) <= Len(pickings')
       /\ \A b \in 1..Len(pickings') : b \notin 1..Len(pickings) =>
            b \in T /\ (pickings'[b] # 0 => pickings'[b] \in T \cap promised')
       /\ promised' \subseteq 1..Len(pickings') /\ promised \subseteq promised' /\ promised' \ promised \subseteq T
       /\ cut \subseteq cut'
  BY <1>2, <1>3, <1>4, <1>6, <1>8
<1>11. /\ \A m \in 1..Len(moves') : m \notin 1..Len(moves) => moves'[m].pick \notin 1..Len(pickings)
       /\ \A m \in 1..Len(moves) : moves[m].pick \notin T \cup {0} => moves'[m] = moves[m]
       /\ \A r \in Requests : req'[r] # req[r] => {req[r].pick, req'[r].pick} \subseteq T \cup {0}
       /\ \A x \in T : x \in 1..Len(pickings') /\ x \notin cut' => Good(x)'
  BY <1>1, <1>2, <1>4, <1>7, <1>9
<1>12. StockTypes /\ StockTypes' /\ UnitsInv OBVIOUS
<1>13. \A b \in 1..Len(pickings) : pickings'[b] = pickings[b] BY <1>6
<1>14. Keeps(moves, moves') BY <1>7
<1> QED BY ONLY <1>8, <1>10, <1>11, <1>12, <1>13, <1>14, UnitsFrame

\* A validation that is through has asked again for what is missing of its moves.
LEMMA FollowsOver ==
  ASSUME NEW c, NEW mv \in Seq(MoveRows), c.kind = "validate", c.todo = {}, c.ops = <<>>, Follows(c, mv)
  PROVE  /\ Over(mv, c.pick) /\ \A m \in On(mv, c.pick) : Missing(Idle, mv)[m] >= 0
         /\ SumOf(Missing(Idle, mv), On(mv, c.pick)) = Asked(c.rest)
<1>1. Halfway(c, mv) /\ AddsUp(c, mv) BY DEF Follows
<1>2. PICK S, q : S = On(mv, c.pick) /\ q = Idle OBVIOUS
<1>3. Taken(c, mv) = S BY <1>2 DEF Taken
<1>4. \A m : ~Closes(c, m)
  <2>1. 1..Len(c.ops) = {} OBVIOUS
  <2> QED BY <2>1 DEF Closes
<1>5. Over(mv, c.pick) BY <1>1, <1>2, <1>3, <1>4 DEF Halfway, Over
<1>6. S \subseteq 1..Len(mv) /\ Len(mv) \in Nat BY <1>2, OnIs
<1>7. \A m \in S : Carrying(q, m) = Carrying(c, m) BY <1>2, SteadyIdle DEF Carrying
<1>8. Even(q, mv, c, mv, S) BY <1>6, <1>7 DEF Even
<1>9. /\ SumOf(Missing(q, mv), S) = SumOf(Missing(c, mv), S)
      /\ \A m \in S : Missing(q, mv)[m] = Missing(c, mv)[m]
  BY ONLY <1>8, MissingSame
<1> QED BY <1>1, <1>2, <1>3, <1>5, <1>9 DEF AddsUp

\* Nothing is missing of a transfer without a backorder.
LEMMA SplitNone ==
  ASSUME NEW mv, NEW pk, NEW p, Over(mv, p), \A m \in On(mv, p) : Missing(Idle, mv)[m] >= 0,
         SumOf(Missing(Idle, mv), On(mv, p)) = 0, \A b \in 1..Len(pk) : pk[b] # p
  PROVE  Split(mv, pk, p)
<1>1. PICK f : f = [m \in 1..Len(mv) |-> mv[m].demand] OBVIOUS
<1>2. Behind(mv, pk, p) = {} BY DEF Behind
<1>3. SumOf(f, {}) = 0 BY SumEmpty
<1> QED BY <1>1, <1>2, <1>3 DEF Split

\* .. and a backorder asks for all that is.
LEMMA SplitNew ==
  ASSUME NEW mv, NEW pk \in Seq(Nat), \A m \in 1..Len(mv) : mv[m].pick \in 0..Len(pk), NEW p \in 1..Len(pk),
         NEW nk, nk = Append(pk, p), NEW n, n = Len(pk) + 1, NEW specs, NEW nv, Extended(mv, n, specs, nv),
         Over(mv, p), \A m \in On(mv, p) : Missing(Idle, mv)[m] >= 0,
         SumOf(Missing(Idle, mv), On(mv, p)) = Asked(specs), \A b \in 1..Len(pk) : pk[b] # p
  PROVE  Split(nv, nk, p)
<1>1. mv \in Seq(MoveRows) /\ specs \in Seq(Specs) /\ n \in Nat BY DEF Extended
<1>2. PICK l, k : l = Len(mv) /\ k = Len(specs) OBVIOUS
<1>3. /\ nv \in Seq(MoveRows) /\ Keeps(mv, nv) /\ Len(nv) = l + k /\ l \in Nat /\ k \in Nat
      /\ \A m \in 1..l : nv[m] = mv[m]
      /\ \A i \in 1..k : nv[l + i] = Draft(n, specs[i])
      /\ \A m \in 1..Len(nv) : m \notin 1..l => nv[m].pick = n
  <2>1. /\ nv \in Seq(MoveRows) /\ Keeps(mv, nv) /\ Len(nv) = Len(mv) + Len(specs)
        /\ Len(mv) \in Nat /\ Len(specs) \in Nat
        /\ \A m \in 1..Len(mv) : nv[m] = mv[m]
        /\ \A i \in 1..Len(specs) : nv[Len(mv) + i] = Draft(n, specs[i])
        /\ \A m \in 1..Len(nv) : m \notin 1..Len(mv) => nv[m].pick = n
    <3>1. Extended(mv, n, specs, nv) OBVIOUS
    <3> QED BY ONLY <3>1, MovesAdded
  <2> QED BY ONLY <1>2, <2>1
<1>4. /\ Len(pk) \in Nat /\ Len(nk) = n /\ nk[n] = p /\ p # n /\ n \notin 1..Len(pk) /\ n \in 1..n
      /\ \A b \in 1..Len(pk) : nk[b] = pk[b]
  OBVIOUS
<1>5. Alike(p, mv, nv) BY <1>1, <1>2, <1>3, <1>4 DEF Alike
<1>6. On(nv, p) = On(mv, p) /\ \A m \in On(mv, p) : m \in 1..Len(mv) /\ m \in 1..Len(nv) /\ nv[m] = mv[m]
  BY <1>5, OnAlike
<1>7. Over(nv, p) BY <1>6 DEF Over
<1>8. /\ SumOf(Missing(Idle, nv), On(mv, p)) = SumOf(Missing(Idle, mv), On(mv, p))
      /\ \A m \in On(mv, p) : Missing(Idle, nv)[m] = Missing(Idle, mv)[m]
  <2>1. PICK S, q : S = On(mv, p) /\ q = Idle OBVIOUS
  <2>2. S \subseteq 1..Len(mv) /\ S \subseteq 1..Len(nv) BY <1>6, <2>1
  <2>3. Even(q, nv, q, mv, S) BY <1>2, <1>3, <1>6, <2>1, <2>2 DEF Even
  <2>4. /\ SumOf(Missing(q, nv), S) = SumOf(Missing(q, mv), S)
        /\ \A m \in S : Missing(q, nv)[m] = Missing(q, mv)[m]
    BY ONLY <2>3, MissingSame
  <2> QED BY <2>1, <2>4
<1>9. Behind(nv, nk, p) = (l + 1)..(l + k)
  <2>1. ASSUME NEW m \in 1..l PROVE m \notin Behind(nv, nk, p)
    <3>1. nv[m].pick \in 0..Len(pk) BY <1>2, <1>3
    <3>2. nv[m].pick \in 1..Len(nk) => nk[nv[m].pick] # p BY <1>4, <3>1
    <3> QED BY <3>2 DEF Behind
  <2>2. \A m \in 1..(l + k) : m \notin 1..l => m \in Behind(nv, nk, p) BY <1>3, <1>4 DEF Behind
  <2>3. \A m \in Behind(nv, nk, p) : m \in 1..(l + k) BY <1>3 DEF Behind
  <2>4. \A m : m \in (l + 1)..(l + k) <=> m \in 1..(l + k) /\ m \notin 1..l BY <1>3
  <2> QED BY <2>1, <2>2, <2>3, <2>4
<1>10. PICK f, h, S : /\ f = [m \in 1..Len(nv) |-> nv[m].demand] /\ h = [i \in 1..Len(specs) |-> specs[i].demand]
                      /\ S = (l + 1)..(l + k)
  OBVIOUS
<1>11. Shifted(f, S, l, h, k)
  <2>1. ASSUME NEW i \in 1..k PROVE f[l + i] \in Int /\ h[i] = f[l + i]
    <3>1. l + i \in 1..Len(nv) BY <1>3
    <3>2. f[l + i] = nv[l + i].demand /\ h[i] = specs[i].demand BY <1>2, <1>10, <3>1
    <3>3. nv[l + i].demand = specs[i].demand
      <4>1. PICK sp : sp = specs[i] OBVIOUS
      <4>2. Draft(n, sp).demand = sp.demand BY DEF Draft
      <4> QED BY <1>3, <4>1, <4>2
    <3>4. specs[i].demand \in Nat BY <1>1, <1>2, AskedIs
    <3> QED BY <3>2, <3>3, <3>4
  <2> QED BY <1>3, <1>10, <2>1 DEF Shifted
<1>12. SumOf(f, S) = SumOf(h, 1..k) BY ONLY <1>11, SumShifted
<1>13. SumOf(f, Behind(nv, nk, p)) = Asked(specs) BY <1>2, <1>9, <1>10, <1>12 DEF Asked
<1> QED BY <1>6, <1>7, <1>8, <1>10, <1>13 DEF Split

\* A validation ends, and its promise is kept.
LEMMA UnitsEnd ==
  ASSUME StockTypes, StockTypes', PicksInv, UnitsInv, NEW r \in Requests, ValidateEnd(r)
  PROVE  UnitsInv'
<1>1. PICK c, p : c = req[r] /\ p = c.pick OBVIOUS
<1>2. /\ c.kind = "validate" /\ c.todo = {} /\ c.ops = <<>> /\ req' = [req EXCEPT ![r] = Idle]
      /\ promised' = IF c.back THEN promised \cup {p} ELSE promised
      /\ UNCHANGED cut
      /\ c.back /\ c.rest # <<>> => AddPicking(p, c.rest)
      /\ ~(c.back /\ c.rest # <<>>) => UNCHANGED <<moves, pickings>>
  BY <1>1 DEF ValidateEnd
<1>3. /\ moves \in Seq(MoveRows) /\ pickings \in Seq(Nat) /\ Len(pickings) \in Nat /\ c.rest \in Seq(Specs)
      /\ p \in 0..Len(pickings) /\ \A m \in 1..Len(moves) : moves[m].pick \in 0..Len(pickings)
  BY <1>1 DEF StockTypes, CallFits, Calls
<1>4. p \in 1..Len(pickings) /\ p # 0
  <2>1. Steady(c) BY <1>1 DEF UnitsInv
  <2> QED BY <1>1, <1>2, <1>3, <2>1 DEF Steady
<1>5. \A o \in Requests : req'[o] = IF o = r THEN Idle ELSE req[o] BY <1>2 DEF StockTypes
<1>6. \A o \in Requests : Steady(req'[o]) BY <1>5, SteadyIdle DEF UnitsInv
<1>7. \A o \in Requests : req'[o].pick # p BY <1>1, <1>4, <1>5, SteadyIdle DEF PicksInv
<1>8. promised \subseteq 1..Len(pickings) /\ \A b \in 1..Len(pickings) : pickings[b] # 0 => pickings[b] \in promised
  BY DEF UnitsInv
<1>9. ASSUME p \notin cut
      PROVE  /\ Over(moves, p) /\ \A m \in On(moves, p) : Missing(Idle, moves)[m] >= 0
             /\ SumOf(Missing(Idle, moves), On(moves, p)) = Asked(c.rest)
             /\ p \in promised => c.rest = <<>> /\ Split(moves, pickings, p)
  <2>1. Tracked(p, req, moves) /\ (p \in promised => Honoured(p, req, moves, pickings))
    BY <1>4, <1>9 DEF UnitsInv
  <2>2. Follows(c, moves) BY <1>1, <2>1 DEF Tracked
  <2>3. /\ Over(moves, p) /\ \A m \in On(moves, p) : Missing(Idle, moves)[m] >= 0
        /\ SumOf(Missing(Idle, moves), On(moves, p)) = Asked(c.rest)
    BY <1>1, <1>2, <1>3, <2>2, FollowsOver
  <2> QED BY <1>1, <2>1, <2>3 DEF Honoured
<1>10. \A o \in Requests : req'[o] # req[o] => {req[o].pick, req'[o].pick} \subseteq {p, 0}
  BY <1>1, <1>5, SteadyIdle
<1>11. CASE ~(c.back /\ c.rest # <<>>)
  <2>1. PICK T : T = {p} OBVIOUS
  <2>2. UNCHANGED <<moves, pickings>> BY <1>2, <1>11
  <2>3. Keeps(moves, moves') BY <1>3, <2>2, KeepsSame
  <2>4. ASSUME p \notin cut' PROVE Good(p)'
    <3>1. p \notin cut BY <1>2, <2>4
    <3>2. Over(moves', p) BY <1>9, <2>2, <3>1
    <3>3. Tracked(p, req', moves') BY <1>7, <3>2 DEF Tracked
    <3>4. ASSUME p \in promised' PROVE Split(moves, pickings, p)
      <4>1. CASE p \in promised BY <1>9, <3>1, <4>1
      <4>2. CASE p \notin promised
        <5>1. c.rest = <<>> BY <1>2, <1>11, <3>4, <4>2
        <5>2. SumOf(Missing(Idle, moves), On(moves, p)) = 0 BY <1>9, <3>1, <5>1, AskedNone
        <5>3. \A b \in 1..Len(pickings) : pickings[b] # p BY <1>4, <1>8, <4>2
        <5> QED BY <1>9, <3>1, <5>2, <5>3, SplitNone
      <4> QED BY <4>1, <4>2
    <3> QED BY <1>7, <2>2, <3>3, <3>4 DEF Good, Honoured
  <2>5. /\ Len(pickings) <= Len(pickings')
        /\ \A b \in 1..Len(pickings') : b \notin 1..Len(pickings) =>
             b \in T /\ (pickings'[b] # 0 => pickings'[b] \in T \cap promised')
        /\ promised' \subseteq 1..Len(pickings') /\ promised \subseteq promised' /\ promised' \ promised \subseteq T
        /\ cut \subseteq cut'
    BY <1>2, <1>3, <1>4, <1>8, <2>1, <2>2
  <2>6. /\ \A m \in 1..Len(moves') : m \notin 1..Len(moves) => moves'[m].pick \notin 1..Len(pickings)
        /\ \A m \in 1..Len(moves) : moves[m].pick \notin T \cup {0} => moves'[m] = moves[m]
        /\ \A o \in Requests : req'[o] # req[o] => {req[o].pick, req'[o].pick} \subseteq T \cup {0}
        /\ \A x \in T : x \in 1..Len(pickings') /\ x \notin cut' => Good(x)'
    BY <1>10, <2>1, <2>2, <2>4
  <2>7. StockTypes /\ StockTypes' /\ UnitsInv OBVIOUS
  <2>8. \A b \in 1..Len(pickings) : pickings'[b] = pickings[b] BY <2>2
  <2> QED BY ONLY <1>6, <2>3, <2>5, <2>6, <2>7, <2>8, UnitsFrame
<1>12. CASE c.back /\ c.rest # <<>>
  <2>1. PICK n, T : n = Len(pickings) + 1 /\ T = {p, n} OBVIOUS
  <2>2. n \in Nat /\ n # 0 /\ n # p /\ n \notin 1..Len(pickings) /\ n \in 1..(Len(pickings) + 1)
    BY <1>3, <1>4, <2>1
  <2>3. pickings' = Append(pickings, p) /\ Extended(moves, n, c.rest, moves')
    BY <1>2, <1>3, <1>12, <2>1, <2>2 DEF AddPicking, AddMoves, Extended
  <2>4. Len(pickings') = n /\ pickings'[n] = p /\ \A b \in 1..Len(pickings) : pickings'[b] = pickings[b]
    BY <1>3, <1>4, <2>1, <2>3
  <2>5. /\ Keeps(moves, moves') /\ \A m \in 1..Len(moves) : moves'[m] = moves[m]
        /\ \A m \in 1..Len(moves') : m \notin 1..Len(moves) =>
             moves'[m].pick = n /\ moves'[m].state = "draft" /\ moves'[m].lines = <<>>
    BY <2>3, MovesAdded
  <2>6. Good(n)'
    <3>1. Fresh(moves', n)
      <4>1. ASSUME NEW m \in On(moves', n), m \in 1..Len(moves) PROVE FALSE
        <5>1. moves'[m].pick = n /\ moves'[m] = moves[m] BY <2>5, <4>1 DEF On
        <5>2. moves[m].pick \in 0..Len(pickings) BY <1>3, <4>1
        <5> QED BY <2>1, <1>3, <5>1, <5>2
      <4>2. \A m \in On(moves', n) : m \in 1..Len(moves') BY DEF On
      <4> QED BY <2>5, <4>1, <4>2 DEF Fresh, Open
    <3>2. \A o \in Requests : req'[o].pick # n
      <4>1. \A o \in Requests : req[o].pick \in 0..Len(pickings) BY DEF StockTypes, CallFits
      <4> QED BY <1>5, <2>2, <4>1, SteadyIdle
    <3>3. n \notin promised' BY <1>2, <1>8, <2>2
    <3> QED BY <3>1, <3>2, <3>3 DEF Good, Tracked
  <2>7. ASSUME p \notin cut' PROVE Good(p)'
    <3>1. p \notin cut BY <1>2, <2>7
    <3>2. p \notin promised BY <1>9, <1>12, <3>1
    <3>3. \A b \in 1..Len(pickings) : pickings[b] # p BY <1>4, <1>8, <3>2
    <3>4. PICK mv, pk, nk, specs, nv :
            mv = moves /\ pk = pickings /\ nk = pickings' /\ specs = c.rest /\ nv = moves'
      OBVIOUS
    <3>5. /\ pk \in Seq(Nat) /\ \A m \in 1..Len(mv) : mv[m].pick \in 0..Len(pk)
          /\ p \in 1..Len(pk) /\ nk = Append(pk, p) /\ n = Len(pk) + 1 /\ Extended(mv, n, specs, nv)
          /\ \A b \in 1..Len(pk) : pk[b] # p
      BY <1>3, <1>4, <2>1, <2>3, <3>3, <3>4
    <3>6. /\ Over(mv, p) /\ \A m \in On(mv, p) : Missing(Idle, mv)[m] >= 0
          /\ SumOf(Missing(Idle, mv), On(mv, p)) = Asked(specs)
      BY <1>9, <3>1, <3>4
    <3>7. Split(nv, nk, p) BY ONLY <3>5, <3>6, SplitNew
    <3>8. Over(moves', p) BY <3>4, <3>7 DEF Split
    <3>9. Tracked(p, req', moves') BY <1>7, <3>8 DEF Tracked
    <3> QED BY <1>7, <3>4, <3>7, <3>9 DEF Good, Honoured
  <2>8. /\ Len(pickings) <= Len(pickings')
        /\ \A b \in 1..Len(pickings') : b \notin 1..Len(pickings) =>
             b \in T /\ (pickings'[b] # 0 => pickings'[b] \in T \cap promised')
        /\ promised' \subseteq 1..Len(pickings') /\ promised \subseteq promised' /\ promised' \ promised \subseteq T
        /\ cut \subseteq cut'
    <3>1. promised' = promised \cup {p} BY <1>2, <1>12
    <3>2. \A b \in 1..Len(pickings') : b \notin 1..Len(pickings) => b = n BY <1>3, <2>1, <2>4
    <3>3. 1..Len(pickings) \subseteq 1..Len(pickings') /\ Len(pickings) <= Len(pickings') BY <1>3, <2>1, <2>4
    <3> QED BY <1>2, <1>4, <1>8, <2>1, <2>4, <3>1, <3>2, <3>3
  <2>9. /\ \A m \in 1..Len(moves') : m \notin 1..Len(moves) => moves'[m].pick \notin 1..Len(pickings)
        /\ \A m \in 1..Len(moves) : moves[m].pick \notin T \cup {0} => moves'[m] = moves[m]
        /\ \A o \in Requests : req'[o] # req[o] => {req[o].pick, req'[o].pick} \subseteq T \cup {0}
        /\ \A x \in T : x \in 1..Len(pickings') /\ x \notin cut' => Good(x)'
    BY <1>10, <2>1, <2>2, <2>5, <2>6, <2>7
  <2>10. StockTypes /\ StockTypes' /\ UnitsInv OBVIOUS
  <2>11. \A b \in 1..Len(pickings) : pickings'[b] = pickings[b] BY <2>4
  <2>12. Keeps(moves, moves') BY <2>5
  <2> QED BY ONLY <1>6, <2>8, <2>9, <2>10, <2>11, <2>12, UnitsFrame
<1> QED BY <1>11, <1>12

LEMMA UnitsInit ==
  ASSUME Init PROVE UnitsInv
<1>1. StockTypes /\ promised = {} /\ \A r \in Requests : req[r] = Idle BY TypesInit DEF Init
<1>2. \A b \in 1..Len(pickings) : pickings[b] = 0
  <2>1. pickings = [p \in 1..Transfers |-> 0] /\ Transfers \in Nat BY ConstantsOK DEF Init
  <2>2. pickings \in Seq(Nat) BY <1>1 DEF StockTypes
  <2>3. DOMAIN pickings = 1..Len(pickings) /\ DOMAIN pickings = 1..Transfers BY <2>1, <2>2
  <2> QED BY <2>1, <2>3
<1>3. \A m \in 1..Len(moves) : moves[m].state = "draft" /\ moves[m].lines = <<>>
  <2>1. moves = [i \in DOMAIN Orders |-> Draft(Orders[i].pick, Orders[i])] BY DEF Init
  <2>2. moves \in Seq(MoveRows) BY <1>1 DEF StockTypes
  <2>3. DOMAIN moves = 1..Len(moves) /\ DOMAIN moves = DOMAIN Orders BY <2>1, <2>2
  <2>4. \A m \in 1..Len(moves) : moves[m] = Draft(Orders[m].pick, Orders[m]) BY <2>1, <2>3
  <2>5. \A p, s : Draft(p, s).state = "draft" /\ Draft(p, s).lines = <<>> BY DEF Draft
  <2> QED BY <2>4, <2>5
<1>4. \A r \in Requests : Steady(req[r]) BY <1>1, SteadyIdle
<1>5. ASSUME NEW p \in 1..Len(pickings) PROVE Tracked(p, req, moves)
  <2>1. Fresh(moves, p) BY <1>3 DEF Fresh, On, Open
  <2>2. \A r \in Requests : req[r].pick # p
    <3>1. Len(pickings) \in Nat BY <1>1 DEF StockTypes
    <3>2. p # 0 BY <3>1
    <3> QED BY <1>1, <3>2, SteadyIdle
  <2> QED BY <2>1, <2>2 DEF Tracked
<1> QED BY <1>1, <1>2, <1>4, <1>5 DEF UnitsInv

LEMMA UnitsNext ==
  ASSUME Orderly, StockTypes, StockTypes', WantedInv, UnitsInv, [Next]_vars
  PROVE  UnitsInv'
<1>1. PicksInv BY DEF WantedInv
<1>2. CASE UNCHANGED vars
  <2>1. UNCHANGED <<moves, pickings, req, promised, cut>> BY <1>2 DEF vars
  <2> QED BY <2>1, UnitsSame
<1>3. ASSUME NEW p \in DOMAIN pickings, Return(p) PROVE UnitsInv' BY <1>3, UnitsReturn
<1>4. ASSUME NEW r \in Requests, NEW c \in Scraps, Scrap(r, c[1], c[2]) PROVE UnitsInv'
  <2>1. PICK write : write = Op("overwrite", Len(moves) + 1, c[1], 0, None) OBVIOUS
  <2>2. Starts(r, "scrap", c[2], c[1], Loss, write) BY <1>4, <2>1, ScrapIs
  <2>3. "scrap" \in {"scrap", "count"} OBVIOUS
  <2>4. UNCHANGED <<promised, cut>> BY <1>4 DEF Scrap, Standalone, history
  <2> QED BY <2>2, <2>3, <2>4, UnitsStart
<1>5. ASSUME NEW r \in Requests, NEW c \in Counts, Count(r, c[1], c[2]) PROVE UnitsInv'
  <2>1. PICK write : write = Op("overwrite", Len(moves) + 1, c[1], c[2], None) OBVIOUS
  <2>2. PICK n, from, to : Starts(r, "count", n, from, to, write) BY <1>5, <2>1, CountIs
  <2>3. "count" \in {"scrap", "count"} OBVIOUS
  <2>4. UNCHANGED <<promised, cut>> BY <1>5 DEF Count, Standalone, history
  <2> QED BY <2>2, <2>3, <2>4, UnitsStart
<1>6. ASSUME NEW r \in Requests, NEW p \in DOMAIN pickings,
             ConfirmBegin(r, p) \/ CancelBegin(r, p) \/ \E b \in BOOLEAN : ValidateBegin(r, p, b)
      PROVE  UnitsInv'
  <2>1. PICK b : ConfirmBegin(r, p) \/ CancelBegin(r, p) \/ ValidateBegin(r, p, b) BY <1>6
  <2> QED BY <1>1, <2>1, UnitsBegin
<1>7. ASSUME NEW r \in Requests,
             \/ \E m \in DOMAIN moves : ConfirmMove(r, m) \/ ValidateMove(r, m) \/ CancelMove(r, m)
             \/ ValidateEnd(r)
             \/ Release(r) \/ Reserve(r) \/ SetState(r)
             \/ AddLine(r) \/ Adjust(r) \/ Insert(r) \/ Overwrite(r) \/ Fails(r)
      PROVE  UnitsInv'
  BY <1>1, <1>7, UnitsConfirm, UnitsValidate, UnitsCancel, UnitsEnd, UnitsEdit, UnitsQuantity, UnitsFails
<1> QED BY <1>2, <1>3, <1>4, <1>5, <1>6, <1>7 DEF Next

LEMMA UnitsBounds ==
  ASSUME StockTypes, UnitsInv PROVE EachUnitOnce
<1>1. /\ moves \in Seq(MoveRows) /\ Len(moves) \in Nat /\ DOMAIN moves = 1..Len(moves)
      /\ pickings \in Seq(Nat) /\ DOMAIN pickings = 1..Len(pickings)
  BY DEF StockTypes
<1>2. \A m \in 1..Len(moves) : Moved(m) = SumAll(Units(moves[m])) BY DEF Moved, Units
<1>3. \A p : Of(p) = On(moves, p) BY <1>1 DEF Of, On
<1>4. ASSUME NEW p \in promised \ cut, NEW back,
             back = UNION {Of(b) : b \in {b \in DOMAIN pickings : pickings[b] = p}}
      PROVE  /\ \A m \in Of(p) : Moved(m) <= moves[m].demand
             /\ SumAll([m \in Of(p) |-> moves[m].demand - Moved(m)]) = SumAll([m \in back |-> moves[m].demand])
  <2>1. Split(moves, pickings, p) BY <1>4 DEF UnitsInv, Honoured
  <2>2. PICK f, S : f = Missing(Idle, moves) /\ S = On(moves, p) OBVIOUS
  <2>3. \A m \in S : f[m] = moves[m].demand - Moved(m) /\ f[m] >= 0
    <3>1. ASSUME NEW m \in S PROVE f[m] = moves[m].demand - Moved(m)
      <4>1. m \in 1..Len(moves) BY <2>2, <3>1 DEF On
      <4>2. Carrying(Idle, m) = 0 BY SteadyIdle DEF Carrying
      <4>3. SumAll(Units(moves[m])) \in Int /\ moves[m].demand \in Int
        <5>1. moves[m] \in MoveRows BY <1>1, <4>1
        <5> QED BY <5>1, UnitsAre DEF MoveRows
      <4>4. f[m] = moves[m].demand - SumAll(Units(moves[m])) - Carrying(Idle, m) BY <2>2, <4>1 DEF Missing
      <4> QED BY <1>2, <4>1, <4>2, <4>3, <4>4
    <3> QED BY <2>1, <2>2, <3>1 DEF Split
  <2>4. \A m \in S : Moved(m) <= moves[m].demand
    <3>1. ASSUME NEW m \in S PROVE Moved(m) <= moves[m].demand
      <4>1. m \in 1..Len(moves) BY <2>2, <3>1 DEF On
      <4>2. Moved(m) \in Int /\ moves[m].demand \in Int
        <5>1. moves[m] \in MoveRows BY <1>1, <4>1
        <5>2. Moved(m) \in Nat BY <1>1, <4>1, MovedIs
        <5> QED BY <5>1, <5>2 DEF MoveRows
      <4> QED BY <2>3, <3>1, <4>2
    <3> QED BY <3>1
  <2>5. back = Behind(moves, pickings, p)
    <3>1. \A m \in back : m \in Behind(moves, pickings, p) BY <1>1, <1>4 DEF Of, Behind
    <3>2. ASSUME NEW m \in Behind(moves, pickings, p) PROVE m \in back
      <4>1. m \in Of(moves[m].pick) BY <1>1, <3>2 DEF Of, Behind
      <4>2. moves[m].pick \in {b \in DOMAIN pickings : pickings[b] = p} BY <1>1, <3>2 DEF Behind
      <4> QED BY <1>4, <4>1, <4>2
    <3> QED BY <3>1, <3>2
  <2>6. PICK h, g, k : /\ h = [m \in S |-> moves[m].demand - Moved(m)]
                       /\ g = [m \in 1..Len(moves) |-> moves[m].demand] /\ k = [m \in back |-> moves[m].demand]
    OBVIOUS
  <2>7. IsFiniteSet(S) /\ IsFiniteSet(back) /\ back \subseteq 1..Len(moves)
    <3>1. IsFiniteSet(S) BY <1>1, <2>2, OnIs
    <3>2. back \in SUBSET (1..Len(moves)) /\ IsFiniteSet(1..Len(moves)) BY <1>1, <2>5, FS_Interval DEF Behind
    <3>3. IsFiniteSet(back) BY ONLY <3>2, FS_Subset
    <3> QED BY <3>1, <3>2, <3>3
  <2>8. (\A m \in S : h[m] = f[m]) /\ (\A m \in back : k[m] = g[m]) BY <2>3, <2>6, <2>7
  <2>9. SumOf(h, S) = SumOf(f, S) BY ONLY <2>7, <2>8, SumSame
  <2>10. SumOf(k, back) = SumOf(g, back) BY ONLY <2>7, <2>8, SumSame
  <2>11. SumOf(f, S) = SumOf(g, back) BY <2>1, <2>2, <2>5, <2>6 DEF Split
  <2>12. SumAll(h) = SumOf(h, S) /\ SumAll(k) = SumOf(k, back) BY <2>6 DEF SumAll
  <2>13. SumAll(h) = SumAll(k) BY <2>9, <2>10, <2>11, <2>12
  <2> QED BY <1>3, <2>2, <2>4, <2>6, <2>13
<1> QED BY <1>4 DEF EachUnitOnce

\* Every unit asked for is moved once: a transfer validated to the end has moved no more than its
\* demand, and its backorder asks for exactly what is missing, whatever other transfers, scraps,
\* counts, returns and calls cut short do between two of its transactions, or afterwards. Clients
\* keep to one call per transfer at a time and confirm it once; a transfer a call was cut short on
\* is not spoken of.
THEOREM EachUnitOnceHolds ==
  ASSUME Orderly
  PROVE  Spec => []EachUnitOnce
<1>1. Init => StockTypes /\ WantedInv /\ UnitsInv BY TypesInit, WantedInit, UnitsInit
<1>2. StockTypes /\ WantedInv /\ UnitsInv /\ [Next]_vars => (StockTypes /\ WantedInv /\ UnitsInv)'
  BY TypesNext, WantedNext, UnitsNext
<1>3. StockTypes /\ UnitsInv => EachUnitOnce BY UnitsBounds
<1> QED BY <1>1, <1>2, <1>3, PTL DEF Spec
=============================================================================
