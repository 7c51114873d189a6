--------------------------- MODULE Replenishment ---------------------------
(***************************************************************************)
(* Replenishment of one product at one location to a minimum and a maximum *)
(* (stock.warehouse.orderpoint), along the rules of the route that applies *)
(* (stock.route, stock.rule). A run reads the forecast in three statements *)
(* and makes one transfer per rule, each in transactions of its own.       *)
(***************************************************************************)
EXTENDS Workday, Sequences, SequencesExt

CONSTANTS
  Planners,            \* users that run replenishment and make rules
  Inside, Vendors, Clients,  \* internal locations; where goods come from and go to
  Watched,             \* the location of the orderpoint
  MinQty, MaxQty, Multiple,  \* its settings
  Routes, NoRoute,     \* routes, and what a lookup that finds none returns
  MaxRules, MaxOpen    \* bounds on the rules and on the open transfers

VARIABLES
  assigned,   \* the routes of the product, of its category and of the warehouse
  rules,      \* stock_rule rows
  onShelf,    \* quantity of the product at each internal location
  transfers,  \* open moves [qty, src, dst]
  planning    \* what each user's call has read and does next

replenishmentVars == <<assigned, rules, onShelf, transfers, planning>>

Sites == Inside \cup {Vendors, Clients}
ASSUME ReplenishmentAssumption ==
  /\ Watched \in Inside /\ Vendors \notin Inside /\ Clients \notin Inside
  /\ {MinQty, MaxQty, MaxRules, MaxOpen} \subseteq Nat /\ Multiple \in Nat \ {0}
  /\ MinQty <= MaxQty /\ NoRoute \notin Routes

ReplenishmentInit ==
  /\ assigned \in [{"product", "category", "warehouse"} -> Routes \cup {NoRoute}]
  /\ rules = <<>>
  /\ onShelf = [l \in Inside |-> 0]
  /\ transfers = <<>>
  /\ planning = [u \in Planners |-> Idle]

Plans(u, c) == planning' = [planning EXCEPT ![u] = c]
OnHandTotal(moves) == FoldLeft(LAMBDA sum, m : sum + m.qty, 0, moves)
Between(from, to) == OnHandTotal(SelectSeq(transfers, LAMBDA m : m.src \in from /\ m.dst \in to))
-----------------------------------------------------------------------------
(* stock.rule: a rule must not lead back to its own source. The rules are   *)
(* kept by their source, so of two rules that leave a place one counts.     *)
RECURSIVE Reaches(_, _, _, _)
Reaches(next, at, goal, seen) ==
  /\ at \in DOMAIN next
  /\ \/ next[at] = goal
     \/ next[at] \notin seen /\ Reaches(next, next[at], goal, seen \cup {next[at]})

BySource(route) ==
  LET of == {r \in DOMAIN rules : rules[r].route = route}
      sources == {rules[r].src : r \in of}
  IN {[s \in sources |-> rules[pick[s]].dst] :
        pick \in {p \in [sources -> of] : \A s \in sources : rules[p[s]].src = s}}

LeadsBackDirectly(next, from, to) == to \in DOMAIN next /\ next[to] = from
LeadsBack(next, from, to) == Reaches(next, to, from, {to})
RuleBegin(u, route, from, to) ==
  /\ MayCall(planning, u) /\ Len(rules) < MaxRules
  /\ from # to
  /\ \E next \in BySource(route) : ~LeadsBack(next, from, to)
  /\ Plans(u, [op |-> "rule", rule |-> [route |-> route, src |-> from, dst |-> to]])
  /\ UNCHANGED <<assigned, rules, onShelf, transfers>>
RuleInsert(u) ==
  /\ planning[u].op = "rule"
  /\ rules' = Append(rules, planning[u].rule)
  /\ Plans(u, Idle)
  /\ UNCHANGED <<assigned, onShelf, transfers>>
-----------------------------------------------------------------------------
(* run_reordering; get_forecast counts goods that come in from outside the  *)
(* company and that leave it, not those that move within it.                *)
ReadsNext(u, op, next, qty) ==
  /\ planning[u].op = op
  /\ Plans(u, [op |-> next, sum |-> planning[u].sum + qty])
  /\ UNCHANGED <<assigned, rules, onShelf, transfers>>

ReorderBegin(u) ==
  /\ MayCall(planning, u)
  /\ Plans(u, [op |-> "incoming", sum |-> onShelf[Watched]])
  /\ UNCHANGED <<assigned, rules, onShelf, transfers>>
Incoming(u) == ReadsNext(u, "incoming", "outgoing", Between(Sites \ Inside, {Watched}))
Outgoing(u) == ReadsNext(u, "outgoing", "decide", -Between({Watched}, Sites \ Inside))

ApplicableRoute ==
  IF assigned.product # NoRoute THEN assigned.product
  ELSE IF assigned.category # NoRoute THEN assigned.category ELSE assigned.warehouse

\* From the location back along the rules by their destination, to the first
\* place nothing leads to or that was passed already; then the other way round.
RECURSIVE Chain(_, _, _)
Chain(to, route, seen) ==
  LET leading == {r \in DOMAIN rules : rules[r].route = route /\ rules[r].dst = to}
  IN IF leading = {} \/ to \in seen THEN {<<>>}
     ELSE UNION {{Append(before, rules[r]) : before \in Chain(rules[r].src, route, seen \cup {to})}
                   : r \in leading}

Rounded(deficit) == ((deficit + Multiple - 1) \div Multiple) * Multiple

Decide(u) ==
  LET forecast == planning[u].sum
      direct == <<[src |-> Vendors, dst |-> Watched]>>  \* the Receipts operation, without a route
  IN /\ planning[u].op = "decide"
     /\ IF forecast >= MinQty THEN Plans(u, Idle)
        ELSE \E chain \in Chain(Watched, ApplicableRoute, {}) :
               Plans(u, [op |-> "order", qty |-> Rounded(MaxQty - forecast), first |-> TRUE,
                         legs |-> IF chain = <<>> THEN direct ELSE chain])
     /\ UNCHANGED <<assigned, rules, onShelf, transfers>>

\* create_with_moves for the next rule.
OrderLeg(u) ==
  LET c == planning[u]
      leg == Head(c.legs)
  IN /\ c.op = "order" /\ Len(transfers) < MaxOpen
     /\ transfers' = Append(transfers, [qty |-> c.qty, src |-> leg.src, dst |-> leg.dst])
     /\ Plans(u, IF Len(c.legs) = 1 THEN Idle ELSE [c EXCEPT !.legs = Tail(@), !.first = FALSE])
     /\ UNCHANGED <<assigned, rules, onShelf>>
-----------------------------------------------------------------------------
(* What goes on around it: sales, transfers that are done or cancelled, and *)
(* runs that end early.                                                     *)
Undisturbed == exclusive => \A u \in Planners : planning[u] = Idle
Sell(q) ==
  /\ Undisturbed /\ Len(transfers) < MaxOpen
  /\ transfers' = Append(transfers, [qty |-> q, src |-> Watched, dst |-> Clients])
  /\ UNCHANGED <<assigned, rules, onShelf, planning>>

MoveGoods(i) ==
  LET m == transfers[i]
  IN /\ Undisturbed
     /\ m.src \in Inside => onShelf[m.src] >= m.qty
     /\ onShelf' = [l \in Inside |-> onShelf[l] + (IF l = m.dst THEN m.qty ELSE 0)
                                                - (IF l = m.src THEN m.qty ELSE 0)]
     /\ transfers' = RemoveAt(transfers, i)
     /\ UNCHANGED <<assigned, rules, planning>>
CancelMove(i) ==
  /\ Undisturbed
  /\ transfers' = RemoveAt(transfers, i)
  /\ UNCHANGED <<assigned, rules, onShelf, planning>>

RunStops(u) ==
  /\ planning[u] # Idle
  /\ Plans(u, Idle)
  /\ UNCHANGED <<assigned, rules, onShelf, transfers>>

ReplenishmentNext ==
  /\ \/ \E u \in Planners :
          \/ \E route \in Routes, from, to \in Sites \ {Clients} : RuleBegin(u, route, from, to)
          \/ RuleInsert(u) \/ ReorderBegin(u) \/ Incoming(u) \/ Outgoing(u) \/ Decide(u)
          \/ OrderLeg(u) \/ RunStops(u)
     \/ \E q \in 1 .. 2 : Sell(q)
     \/ \E i \in DOMAIN transfers : MoveGoods(i) \/ CancelMove(i)
  /\ UNCHANGED workdayVars
ReplenishmentSpec == ReplenishmentInit /\ WorkdayInit /\ [][ReplenishmentNext]_<<replenishmentVars, workdayVars>>
-----------------------------------------------------------------------------
\* All that is there and to come, with what a run is about to order, exceeds the
\* maximum only by the rounding.
Covered(c) ==
  onShelf[Watched] + Between(Sites \ {Watched}, {Watched}) - Between({Watched}, Sites \ {Watched})
    + c.qty < MaxQty + Multiple
AboutToOrder(u) == planning[u].op = "order" /\ planning[u].first

\* A route ends: unless two of its rules leave one place, no rule leads back to
\* where it started, so every order begins where nothing leads to. And where
\* every rule starts outside the company, runs that do not overlap order once.
RoutesSound ==
  exclusive =>
    /\ \A route \in Routes :
         LET of == {r \in DOMAIN rules : rules[r].route = route}
             next == [s \in {rules[r].src : r \in of} |-> (CHOOSE r \in of : rules[r].src = s)]
             hop == [s \in DOMAIN next |-> rules[next[s]].dst]
         IN Cardinality(DOMAIN next) = Cardinality(of) =>
              \A s \in DOMAIN hop : ~Reaches(hop, s, s, {s})
    /\ (\A r \in DOMAIN rules : rules[r].src \notin Inside /\ rules[r].dst \in Inside) =>
         \A u \in Planners : AboutToOrder(u) => Covered(planning[u])
=============================================================================
