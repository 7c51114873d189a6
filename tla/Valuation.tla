----------------------------- MODULE Valuation -----------------------------
(***************************************************************************)
(* Valuation of the stock of one product (stock.valuation.layer): after a  *)
(* move is done, a layer is made at the cost its method gives, and an      *)
(* entry is posted for it. Whatever goes wrong is logged and forgotten:    *)
(* the move stays done. Each read and each write is a transaction.         *)
(***************************************************************************)
EXTENDS Workday, Sequences, SequencesExt, Sums

CONSTANTS
  Movers,       \* users whose moves are valued
  Methods,      \* costing methods tried
  Prices,       \* standard prices tried, in units so small that averages are whole
  MaxLayers,    \* bounds on the moves and on what they bring together
  MaxInStock

VARIABLES
  method,     \* costing_method of the product's category
  price,      \* standard_price of the template
  inStock,    \* quantity at internal locations
  avgCost,    \* stock_avg_cost of the product
  layers,     \* the stock_valuation_layer table
  booked,     \* balance of the valuation account
  valuing,    \* what each user's value_move has read and does next
  unvalued    \* history: a call ended early, its move is done all the same

valuationVars == <<method, price, inStock, avgCost, layers, booked, valuing, unvalued>>

ASSUME ValuationAssumption ==
  /\ IsFiniteSet(Movers) /\ Methods \subseteq {"standard", "average", "fifo"}
  /\ Prices \subseteq Nat /\ {MaxLayers, MaxInStock} \subseteq Nat

ValuationInit ==
  /\ method \in Methods /\ price \in Prices
  /\ inStock = 0 /\ avgCost = 0 /\ booked = 0 /\ unvalued = FALSE
  /\ layers = <<>>
  /\ valuing = [u \in Movers |-> Idle]

Goes(u, c) == valuing' = [valuing EXCEPT ![u] = c]
Add(qty, value, left, leftValue) ==
  layers' = Append(layers, [qty |-> qty, value |-> value, left |-> left, leftValue |-> leftValue, booked |-> 0])
Sum(f(_)) == SumAll([l \in DOMAIN layers |-> f(layers[l])])
-----------------------------------------------------------------------------
\* The price is an ordinary field.
SetPrice(p) ==
  /\ valuing = [u \in Movers |-> Idle] \/ ~exclusive
  /\ price # p /\ price' = p
  /\ UNCHANGED <<method, inStock, avgCost, layers, booked, valuing, unvalued>>

\* A move is done: the quantities have changed, its valuation begins.
MoveDone(u, by) ==
  /\ MayCall(valuing, u)
  /\ Len(layers) + Cardinality({v \in Movers : valuing[v] # Idle}) < MaxLayers
  /\ inStock + by \in 0 .. MaxInStock
  /\ inStock' = inStock + by
  /\ Goes(u, IF by > 0 THEN [op |-> "in", qty |-> by]
             ELSE IF method = "fifo" THEN [op |-> "search", qty |-> -by]
             ELSE [op |-> "out", qty |-> -by])
  /\ UNCHANGED <<method, price, avgCost, layers, booked, unvalued>>

\* _value_incoming: the layer at the standard price; under FIFO all of it remains.
LayerIn(u) ==
  LET c == valuing[u]
      worth == c.qty * price
      kept == IF method = "fifo" THEN 1 ELSE 0
  IN /\ c.op = "in"
     /\ Add(c.qty, worth, kept * c.qty, kept * worth)
     /\ Goes(u, [op |-> IF method = "average" THEN "count" ELSE "post", layer |-> Len(layers) + 1,
                 qty |-> c.qty, cost |-> price, before |-> 0, old |-> 0])
     /\ UNCHANGED <<method, price, inStock, avgCost, booked, unvalued>>

\* _recompute_average: what was on hand before is what is there now without the
\* move's own quantity.
BeforeCounted(now, in) == now
Before(now, in) == now - in
CountOnHand(u) ==
  /\ valuing[u].op = "count"
  /\ Goes(u, [valuing[u] EXCEPT !.op = "old", !.before = Before(inStock, valuing[u].qty)])
  /\ UNCHANGED <<method, price, inStock, avgCost, layers, booked, unvalued>>
OldAverage(u) ==
  /\ valuing[u].op = "old"
  /\ Goes(u, [valuing[u] EXCEPT !.op = "average", !.old = avgCost])
  /\ UNCHANGED <<method, price, inStock, avgCost, layers, booked, unvalued>>
NewAverage(u) ==
  LET c == valuing[u]
      all == c.before + c.qty
  IN /\ c.op = "average"
     /\ avgCost' = IF all > 0 THEN (c.before * c.old + c.qty * c.cost) \div all ELSE c.cost
     /\ Goes(u, [c EXCEPT !.op = "post"])
     /\ UNCHANGED <<method, price, inStock, layers, booked, unvalued>>

\* _consume_fifo searches the layers with something left, oldest first, and reads
\* them by id, which keeps no order; then it writes back one layer at a time.
FifoRead(u) ==
  LET c == valuing[u]
      open == {l \in DOMAIN layers : layers[l].left > 0}
  IN /\ c.op = "search"
     /\ \E order \in SetToSeqs(open) :
          Goes(u, [op |-> "take", qty |-> c.qty, wanted |-> c.qty, worth |-> 0,
                   rows |-> [i \in DOMAIN order |-> [id |-> order[i], left |-> layers[order[i]].left,
                                                     leftValue |-> layers[order[i]].leftValue]]])
     /\ UNCHANGED <<method, price, inStock, avgCost, layers, booked, unvalued>>
FifoTake(u) ==
  LET c == valuing[u]
      row == Head(c.rows)
      take == Min({row.left, c.wanted})
      worth == (take * row.leftValue) \div row.left
  IN /\ c.op = "take" /\ c.rows # <<>> /\ c.wanted > 0
     /\ layers' = [layers EXCEPT ![row.id].left = row.left - take,
                                 ![row.id].leftValue = row.leftValue - worth]
     /\ Goes(u, [c EXCEPT !.rows = Tail(@), !.wanted = @ - take, !.worth = @ + worth])
     /\ UNCHANGED <<method, price, inStock, avgCost, booked, unvalued>>

\* _value_outgoing: the layer at what FIFO took, at the average or at the price.
OutWorth(c) ==
  CASE method = "fifo" -> c.worth
    [] method = "average" -> c.qty * avgCost
    [] method = "standard" -> c.qty * price
LayerOut(u) ==
  LET c == valuing[u]
  IN /\ \/ c.op = "out"
        \/ c.op = "take" /\ (c.rows = <<>> \/ c.wanted <= 0)
     /\ Add(-c.qty, -OutWorth(c), 0, 0)
     /\ Goes(u, [op |-> "post", layer |-> Len(layers) + 1, qty |-> c.qty])
     /\ UNCHANGED <<method, price, inStock, avgCost, booked, unvalued>>

\* _post_journal_entry posts the amount of the layer on the valuation account and
\* against it; then the layer is given its entry.
PostEntry(u) ==
  LET c == valuing[u]
  IN /\ c.op = "post"
     /\ booked' = booked + layers[c.layer].value
     /\ Goes(u, [op |-> "link", layer |-> c.layer])
     /\ UNCHANGED <<method, price, inStock, avgCost, layers, unvalued>>
LinkEntry(u) ==
  /\ valuing[u].op = "link"
  /\ layers' = [layers EXCEPT ![valuing[u].layer].booked = 1]
  /\ Goes(u, Idle)
  /\ UNCHANGED <<method, price, inStock, avgCost, booked, unvalued>>

\* An exception anywhere is logged by the caller of value_move; or the process ends.
GiveUp(u) ==
  /\ valuing[u] # Idle
  /\ Goes(u, Idle) /\ unvalued' = TRUE
  /\ UNCHANGED <<method, price, inStock, avgCost, layers, booked>>

ValuationNext ==
  /\ \/ \E p \in Prices : SetPrice(p)
     \/ \E u \in Movers :
          \/ \E by \in {-2, -1, 1, 2} : MoveDone(u, by)
          \/ LayerIn(u) \/ CountOnHand(u) \/ OldAverage(u) \/ NewAverage(u)
          \/ FifoRead(u) \/ FifoTake(u) \/ LayerOut(u) \/ PostEntry(u) \/ LinkEntry(u) \/ GiveUp(u)
  /\ UNCHANGED workdayVars
ValuationSpec == ValuationInit /\ WorkdayInit /\ [][ValuationNext]_<<valuationVars, workdayVars>>
-----------------------------------------------------------------------------
\* An average comes out whole where calls do not overlap; in the code it is a
\* floating-point number.
AveragesWhole ==
  exclusive =>
    \A u \in Movers :
      LET c == valuing[u]
          all == c.before + c.qty
          worth == c.before * c.old + c.qty * c.cost
      IN c.op = "average" /\ all > 0 => all * (worth \div all) = worth

\* Stock reconciles to the ledger, whatever the costing method: once valuations
\* are all through, each layer has its entry, and their value is the balance of
\* the account; when the calls did not overlap it is also the value of what is in
\* stock: of what remains of the layers under FIFO, of the average otherwise.
Reconciles ==
  ~unvalued /\ (\A u \in Movers : valuing[u] = Idle) =>
    LET worth == Sum(LAMBDA l : l.value)
    IN /\ booked = worth
       /\ \A l \in DOMAIN layers : layers[l].booked = 1
       /\ Sum(LAMBDA l : l.qty) = inStock
       /\ exclusive /\ method = "fifo" =>
            /\ Sum(LAMBDA l : l.left) = inStock
            /\ Sum(LAMBDA l : l.leftValue) = worth
       /\ exclusive /\ method = "average" => inStock * avgCost = worth
=============================================================================
