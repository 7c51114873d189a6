--------------------------------- MODULE Stock ---------------------------------
(***************************************************************************)
(* Quantities of one product (no lot, no package) at the locations of a    *)
(* warehouse: transfers with reservations and backorders, scraps, counts.  *)
(*                                                                         *)
(* A call is the list `ops' of transactions it has decided on, carried out *)
(* one by one; between two of them other calls run, and it may end early.  *)
(***************************************************************************)
EXTENDS Sums, Sequences, SequencesExt

CONSTANTS
  Internal, Outside,   \* locations by usage: stock of the company, and suppliers, customers, ..
  Loss,                \* the location of inventory losses
  Putaway,             \* destinations of the putaway rules of each location
  Transfers, Orders,   \* how many transfers clients have made, and their moves
  Stocked,             \* the quants of the beginning: quantities by location
  Scraps, Counts,      \* what is scrapped and what is counted: locations and quantities
  Requests,            \* calls in flight
  MaxMoves, MaxFails,  \* bounds
  Orderly              \* clients keep to Clear below

Locations == Internal \cup Outside
Specs == [demand : Nat \ {0}, src : Locations, dst : Locations]

ASSUME ConstantsOK ==
  /\ Internal \cap Outside = {} /\ Loss \in Outside
  /\ Putaway \in [Locations -> SUBSET Locations]
  /\ \E L \in SUBSET Locations : Stocked \in [L -> Nat]
  /\ Scraps \subseteq Internal \X (Nat \ {0}) /\ Counts \subseteq Internal \X Nat
  /\ MaxMoves \in Nat /\ MaxFails \in Nat /\ Orderly \in BOOLEAN
  /\ Transfers \in Nat /\ IsFiniteSet(Requests)
  /\ Orders \in Seq([pick : 1..Transfers, demand : Nat \ {0}, src : Locations, dst : Locations])

VARIABLES
  quant,      \* stock_quant rows by location: [qty, res]
  moves,      \* stock_move rows: [pick, demand, src, dst, state, lines], lines with their
              \* [qty, dst] (every caller gives a line the source of its move)
  pickings,   \* stock_picking.backorder_id of each picking, 0 for NULL
  req,        \* calls in flight
  \* history
  tried,      \* moves something was reserved for
  lost,       \* changes of quantity that calls which ended early left undone
  cut,        \* pickings of such calls
  promised,   \* pickings validated to the end with a backorder for the rest
  fails

vars == <<quant, moves, pickings, req, tried, lost, cut, promised, fails>>
rows == <<quant, moves, pickings>>
history == <<lost, cut, promised, fails>>

Open == {"draft", "waiting", "confirmed", "ready"}
Call(kind, p, todo, ops, rest, back) ==
  [kind |-> kind, pick |-> p, todo |-> todo, ops |-> ops, rest |-> rest, back |-> back]
Idle == Call("idle", 0, {}, <<>>, <<>>, FALSE)
None == "none"
Op(op, m, at, by, to) == [op |-> op, move |-> m, at |-> at, by |-> by, to |-> to]

Least(a, b) == IF a < b THEN a ELSE b
Most(a, b) == IF a > b THEN a ELSE b
Of(p) == {m \in DOMAIN moves : moves[m].pick = p}
OpenOf(p) == {m \in Of(p) : moves[m].state \in Open}
OnHand(l) == IF l \in DOMAIN quant THEN quant[l].qty ELSE 0
Reserved(l) == IF l \in DOMAIN quant THEN quant[l].res ELSE 0
Moved(m) == LET lines == moves[m].lines IN SumAll([i \in DOMAIN lines |-> lines[i].qty])

\* StockPicking.get_state
PickingState(p) ==
  LET s == {moves[m].state : m \in Of(p)} \ {"cancelled"}
  IN IF Of(p) = {} THEN "draft" ELSE IF s = {} THEN "cancelled"
     ELSE IF Cardinality(s) = 1 /\ s \subseteq {"done", "draft", "ready"} THEN CHOOSE x \in s : TRUE
     ELSE IF s \cap {"confirmed", "ready"} # {} THEN "confirmed" ELSE "waiting"

Draft(p, spec) ==
  [pick |-> p, demand |-> spec.demand, src |-> spec.src, dst |-> spec.dst, state |-> "draft",
   lines |-> <<>>]

Init ==
  /\ quant = [l \in DOMAIN Stocked |-> [qty |-> Stocked[l], res |-> 0]]
  /\ moves = [i \in DOMAIN Orders |-> Draft(Orders[i].pick, Orders[i])]
  /\ pickings = [p \in 1..Transfers |-> 0]
  /\ req = [r \in Requests |-> Idle]
  /\ lost = [l \in Locations |-> 0]
  /\ tried = {} /\ cut = {} /\ promised = {} /\ fails = 0
-----------------------------------------------------------------------------
(* What a call does to an internal location it takes from, before it has. *)
Takes(q) ==
  (IF q.kind = "validate" THEN {moves[m].src : m \in q.todo} ELSE {})
    \cup {q.ops[i].at : i \in {j \in DOMAIN q.ops : q.ops[j].op = "adjust" /\ q.ops[j].by < 0}}

\* What clients are assumed to keep to when Orderly, and the code does not enforce: one call
\* at a time per transfer, one that takes from a location, and counts when nothing moves
Clear(r, p, from) ==
  Orderly => \A o \in Requests \ {r} :
    /\ p # 0 => req[o].pick # p
    /\ Takes(req[o]) \cap from = {}
    /\ req[o].kind # "count"

\* A call takes up its moves in the order of their ids, each when it is done with the one before
Turn(r, kind, m) ==
  /\ req[r].kind = kind /\ req[r].ops = <<>>
  /\ m \in req[r].todo /\ \A x \in req[r].todo : m <= x
\* A call with nothing left to do is over, but for the backorder of a validation
Settle(q) == IF q.todo = {} /\ q.ops = <<>> /\ q.kind # "validate" THEN Idle ELSE q

Begin(r, call) == req[r] = Idle /\ req' = [req EXCEPT ![r] = Settle(call)]

\* The next move of a call is taken up, with what is to be done for it
TakeUp(r, m, ops, rest) ==
  LET q == req[r]
  IN req' = [req EXCEPT ![r] =
               Settle(Call(q.kind, q.pick, q.todo \ {m}, ops, q.rest \o rest, q.back))]

AddMoves(p, specs) ==
  /\ Len(moves) + Len(specs) <= MaxMoves
  /\ moves' = moves \o [i \in DOMAIN specs |-> Draft(p, specs[i])]

\* create_with_moves
AddPicking(of, specs) ==
  AddMoves(Len(pickings) + 1, specs) /\ pickings' = Append(pickings, of)
-----------------------------------------------------------------------------
(* action_confirm *)

ConfirmBegin(r, p) ==
  /\ Clear(r, p, {})
  /\ Orderly => \A m \in Of(p) : moves[m].state = "draft" /\ m \notin tried
  /\ Begin(r, Call("confirm", p, Of(p), <<>>, <<>>, FALSE))
  /\ UNCHANGED <<rows, tried, history>>

\* action_reserve up to the reservation
ConfirmMove(r, m) ==
  LET v == moves[m]
  IN /\ Turn(r, "confirm", m)
     /\ TakeUp(r, m, IF v.state \notin Open THEN <<>>
                     ELSE IF v.src \notin Internal THEN <<Op("state", m, v.src, 0, "ready")>>
                     ELSE <<Op("reserve", m, v.src, v.demand, None)>>, <<>>)
     /\ UNCHANGED <<rows, tried, history>>
-----------------------------------------------------------------------------
(* action_validate *)

ValidateBegin(r, p, back) ==
  /\ PickingState(p) \notin {"done", "cancelled"}
  /\ Clear(r, p, {moves[m].src : m \in Of(p)} \cap Internal)
  /\ Begin(r, Call("validate", p, OpenOf(p), <<>>, <<>>, back))
  /\ UNCHANGED <<rows, tried, history>>

\* Variant: the whole demand is moved
DoAll(v) == v.demand

DoQty(v) == IF v.src \in Internal THEN Most(0, Least(v.demand, OnHand(v.src))) ELSE v.demand

\* StockPutawayRule.resolve_destination: the first rule with room, or none
Dests(l) == Putaway[l] \cup {l}

\* Variant: the rest is the demand
RestAll(v, done) == <<[demand |-> v.demand, src |-> v.src, dst |-> v.dst]>>

Rest(v, done) ==
  IF done = v.demand THEN <<>> ELSE <<[demand |-> v.demand - done, src |-> v.src, dst |-> v.dst]>>

\* Reservations are at internal locations only: elsewhere there is nothing to release
Free(m, l, n) == IF l \in Internal /\ n > 0 THEN <<Op("release", m, l, n, None)>> ELSE <<>>

\* The move line, the quantities, the reservation and the state of one move
Transfer(m, v, done, to) ==
  (IF done = 0 THEN <<>>
   ELSE <<Op("line", m, v.src, done, to), Op("adjust", m, v.src, -done, None)>>
          \o Free(m, v.src, done) \o <<Op("adjust", m, to, done, None)>>)
  \o Free(m, v.src, v.demand - done)
  \o <<Op("state", m, v.src, 0, IF done > 0 THEN "done" ELSE "cancelled")>>

ValidateMove(r, m) ==
  LET v == moves[m]
  IN /\ Turn(r, "validate", m)
     /\ \E to \in Dests(v.dst) : TakeUp(r, m, Transfer(m, v, DoQty(v), to), Rest(v, DoQty(v)))
     /\ UNCHANGED <<rows, tried, history>>

ValidateEnd(r) ==
  LET q == req[r]
  IN /\ q.kind = "validate" /\ q.todo = {} /\ q.ops = <<>>
     /\ IF q.back /\ q.rest # <<>> THEN AddPicking(q.pick, q.rest) ELSE UNCHANGED <<moves, pickings>>
     /\ promised' = IF q.back THEN promised \cup {q.pick} ELSE promised
     /\ req' = [req EXCEPT ![r] = Idle]
     /\ UNCHANGED <<quant, tried, lost, cut, fails>>
-----------------------------------------------------------------------------
(* action_cancel, action_return *)

CancelBegin(r, p) ==
  /\ PickingState(p) # "done"
  /\ Clear(r, p, {})
  /\ Begin(r, Call("cancel", p, OpenOf(p), <<>>, <<>>, FALSE))
  /\ UNCHANGED <<rows, tried, history>>

\* Variant: a transfer is cancelled and keeps its reservation
CancelMoveOnly(r, m) ==
  /\ Turn(r, "cancel", m)
  /\ TakeUp(r, m, <<Op("state", m, moves[m].src, 0, "cancelled")>>, <<>>)
  /\ UNCHANGED <<rows, tried, history>>

CancelMove(r, m) ==
  LET v == moves[m]
  IN /\ Turn(r, "cancel", m)
     /\ TakeUp(r, m, Free(m, v.src, Least(Reserved(v.src), v.demand))
                       \o <<Op("state", m, v.src, 0, "cancelled")>>, <<>>)
     /\ UNCHANGED <<rows, tried, history>>

Return(p) ==
  LET done == SetToSeq({m \in Of(p) : Moved(m) > 0})
  IN /\ PickingState(p) = "done"
     /\ AddPicking(0, [i \in DOMAIN done |->
          [demand |-> Moved(done[i]), src |-> moves[done[i]].dst, dst |-> moves[done[i]].src]])
     /\ UNCHANGED <<quant, req, tried, history>>
-----------------------------------------------------------------------------
(* Scraps and counts: a move of their own, without a transfer *)

Alone(m, n, from, to, after) ==
  <<Op("line", m, from, n, to), Op("adjust", m, from, -n, None), Op("adjust", m, to, n, None),
    Op("state", m, from, 0, "done")>> \o after

Standalone(r, kind, n, from, to, after) ==
  /\ Begin(r, Call(kind, 0, {}, Alone(Len(moves) + 1, n, from, to, after), <<>>, FALSE))
  /\ AddMoves(0, <<[demand |-> n, src |-> from, dst |-> to]>>)
  /\ UNCHANGED <<quant, pickings, tried, history>>

\* StockScrap.action_confirm
Scrap(r, l, n) ==
  /\ n <= OnHand(l) - Reserved(l)
  /\ Clear(r, 0, {l})
  /\ Standalone(r, "scrap", n, l, Loss, <<>>)

\* apply_count of a quantity n entered at some time before
Count(r, l, n) ==
  LET d == n - OnHand(l)
      write == <<Op("overwrite", Len(moves) + 1, l, n, None)>>
  IN /\ l \in DOMAIN quant
     /\ Orderly => \A o \in Requests : req[o] = Idle
     /\ \/ d > 0 /\ Standalone(r, "count", d, Loss, l, write)
        \/ d < 0 /\ Standalone(r, "count", -d, l, Loss, write)
-----------------------------------------------------------------------------
(* The transactions *)

\* What the transactions of a call will change at a location, and what of that is owed to lines
Change(o, l) == IF o.op \in {"adjust", "insert"} /\ o.at = l THEN o.by ELSE 0
Plan(ops, l) == SumAll([i \in DOMAIN ops |-> Change(ops[i], l)])
Due(ops, l) == IF \E i \in DOMAIN ops : ops[i].op = "line" THEN 0 ELSE Plan(ops, l)

\* A call ends before its work is done
Stop(r) ==
  /\ req' = [req EXCEPT ![r] = Idle]
  /\ lost' = [l \in Locations |-> lost[l] + Due(req[r].ops, l)]
  /\ cut' = cut \cup {req[r].pick}

Next1(r, op) == req[r].ops # <<>> /\ Head(req[r].ops).op = op
\* The next operation of r is done, and `more' is to be done before the others
Done(r, more) == req' = [req EXCEPT ![r] = Settle([req[r] EXCEPT !.ops = more \o Tail(req[r].ops)])]

AddLine(r) ==
  LET o == Head(req[r].ops)
  IN /\ Next1(r, "line")
     /\ moves' = [moves EXCEPT ![o.move].lines = Append(@, [qty |-> o.by, dst |-> o.to])]
     /\ Done(r, <<>>)
     /\ UNCHANGED <<quant, pickings, tried, history>>

\* adjust_quantity: the row is locked and changed, or found missing
Adjust(r) ==
  LET o == Head(req[r].ops)
  IN /\ Next1(r, "adjust")
     /\ IF o.at \in DOMAIN quant
        THEN quant' = [quant EXCEPT ![o.at].qty = @ + o.by] /\ Done(r, <<>>)
        ELSE Done(r, <<[o EXCEPT !.op = "insert"]>>) /\ UNCHANGED quant
     /\ UNCHANGED <<moves, pickings, tried, history>>

\* Variant: a second row replaces the first, for want of the unique index
InsertOver(r) ==
  LET o == Head(req[r].ops)
  IN /\ Next1(r, "insert")
     /\ quant' = [l \in DOMAIN quant \cup {o.at} |->
                    IF l = o.at THEN [qty |-> o.by, res |-> 0] ELSE quant[l]]
     /\ Done(r, <<>>)
     /\ UNCHANGED <<moves, pickings, tried, history>>

\* .. and created; the unique index refuses a second row
Insert(r) ==
  LET o == Head(req[r].ops)
  IN /\ Next1(r, "insert")
     /\ IF o.at \in DOMAIN quant
        THEN Stop(r) /\ UNCHANGED quant
        ELSE /\ quant' = [l \in DOMAIN quant \cup {o.at} |->
                            IF l = o.at THEN [qty |-> o.by, res |-> 0] ELSE quant[l]]
             /\ Done(r, <<>>) /\ UNCHANGED <<lost, cut>>
     /\ UNCHANGED <<moves, pickings, tried, promised, fails>>

\* release_reservation
Release(r) ==
  LET o == Head(req[r].ops)
  IN /\ Next1(r, "release")
     /\ quant' = [l \in DOMAIN quant |->
                    IF l = o.at THEN [quant[l] EXCEPT !.res = Most(0, @ - o.by)] ELSE quant[l]]
     /\ Done(r, <<>>)
     /\ UNCHANGED <<moves, pickings, tried, history>>

\* StockQuant.reserve, and the state action_reserve derives from it
Reserve(r) ==
  LET o == Head(req[r].ops)
      take == Least(o.by, Most(0, OnHand(o.at) - Reserved(o.at)))
  IN /\ Next1(r, "reserve")
     /\ quant' = IF take = 0 THEN quant ELSE [quant EXCEPT ![o.at].res = @ + take]
     /\ Done(r, <<Op("state", o.move, o.at, 0,
                     IF take = 0 THEN "waiting" ELSE IF take < o.by THEN "confirmed" ELSE "ready")>>)
     /\ tried' = tried \cup {o.move}
     /\ UNCHANGED <<moves, pickings, history>>

\* action_set_state
SetState(r) ==
  LET o == Head(req[r].ops)
      now == moves[o.move].state
  IN /\ Next1(r, "state")
     /\ IF o.to # now /\ now \notin Open
        THEN Stop(r) /\ UNCHANGED moves
        ELSE /\ moves' = [moves EXCEPT ![o.move].state = o.to]
             /\ Done(r, <<>>) /\ UNCHANGED <<lost, cut>>
     /\ UNCHANGED <<quant, pickings, tried, promised, fails>>

Overwrite(r) ==
  LET o == Head(req[r].ops)
  IN /\ Next1(r, "overwrite")
     /\ quant' = [quant EXCEPT ![o.at].qty = o.by]
     /\ Done(r, <<>>)
     /\ UNCHANGED <<moves, pickings, tried, history>>

\* A call that fails before it takes up a move might as well fail right after, having read
Fails(r) ==
  /\ req[r] # Idle /\ fails < MaxFails
  /\ req[r].ops # <<>> \/ req[r].todo = {}
  /\ Stop(r)
  /\ fails' = fails + 1
  /\ UNCHANGED <<rows, tried, promised>>

Next ==
  \/ \E p \in DOMAIN pickings : Return(p)
  \/ \E r \in Requests :
       \/ \E p \in DOMAIN pickings :
            ConfirmBegin(r, p) \/ CancelBegin(r, p) \/ \E b \in BOOLEAN : ValidateBegin(r, p, b)
       \/ \E m \in DOMAIN moves : ConfirmMove(r, m) \/ ValidateMove(r, m) \/ CancelMove(r, m)
       \/ ValidateEnd(r)
       \/ \E c \in Counts : Count(r, c[1], c[2])
       \/ \E c \in Scraps : Scrap(r, c[1], c[2])
       \/ AddLine(r) \/ Adjust(r) \/ Insert(r) \/ Release(r) \/ Reserve(r) \/ SetState(r)
       \/ Overwrite(r) \/ Fails(r)

Spec == Init /\ [][Next]_vars
-----------------------------------------------------------------------------
\* Types of the rows; reservations and demands are never negative.
TypeOK ==
  /\ DOMAIN quant \subseteq Locations
  /\ \A l \in DOMAIN quant : quant[l].qty \in Int /\ quant[l].res \in Nat
  /\ \A m \in DOMAIN moves : /\ moves[m].demand \in Nat \ {0}
                             /\ moves[m].state \in Open \cup {"done", "cancelled"}
                             /\ moves[m].pick \in 0..Len(pickings)
  /\ \A r \in Requests : req[r].pick \in 0..Len(pickings)

\* What the lines of a move have carried to a location, less what they have taken from it
Carried(m, l) ==
  LET lines == moves[m].lines
  IN SumAll([i \in DOMAIN lines |-> IF lines[i].dst = l THEN lines[i].qty ELSE 0])
       - (IF moves[m].src = l THEN Moved(m) ELSE 0)

\* The quantity at a location is what the move lines carried there and away, but for what
\* calls in flight, or cut short, have not done yet: no order of transfers, scraps and counts
\* loses or makes a unit.
StockLedger ==
  \A l \in Locations :
    OnHand(l) = (IF l \in DOMAIN Stocked THEN Stocked[l] ELSE 0)
                  + SumAll([m \in DOMAIN moves |-> Carried(m, l)]) - lost[l]
                  - SumAll([r \in Requests |-> Due(req[r].ops, l)])

\* FR-029: validating never takes an internal location below zero, wherever calls were cut
\* short before and whatever was reserved, scrapped or counted since.
NeverNegative == \A l \in Internal : OnHand(l) >= 0

\* What is reserved at a location is wanted by an open move from there: validation, backorder,
\* cancellation and calls cut short leave no stock blocked for nobody.
ReservedIsWanted ==
  \A l \in Internal :
    LET wanted == {m \in tried : moves[m].src = l /\ moves[m].state \in Open}
    IN Reserved(l) <= SumAll([m \in wanted |-> moves[m].demand])

\* Every unit asked for is moved once: a transfer validated to the end has moved no more than
\* its demand, and its backorder asks for exactly what is missing.
EachUnitOnce ==
  \A p \in promised \ cut :
    LET back == UNION {Of(b) : b \in {b \in DOMAIN pickings : pickings[b] = p}}
    IN /\ \A m \in Of(p) : Moved(m) <= moves[m].demand
       /\ SumAll([m \in Of(p) |-> moves[m].demand - Moved(m)]) = SumAll([m \in back |-> moves[m].demand])
=============================================================================
