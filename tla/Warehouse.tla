----------------------------- MODULE Warehouse -----------------------------
(***************************************************************************)
(* The locations and operation types of one warehouse (stock.warehouse):   *)
(* action_apply_steps makes what the steps of reception and delivery need  *)
(* and archives what they do not, in some twenty transactions, each of     *)
(* which finds out first whether it is still to be done. A call may end    *)
(* after any of them; steps may change and the call be made again.         *)
(***************************************************************************)
EXTENDS Workday, Sequences, SequencesExt

CONSTANTS
  Keepers,                       \* users that configure the warehouse
  ReceptionSteps, DeliverySteps, \* subsets of 1..3
  NoPlace,                       \* a location field that is not set
  MaxPlaces                      \* bound on the locations ever made

VARIABLES
  warehouse,  \* its row: [reception, delivery, view, stock]
  places,     \* stock_location rows [name, active], the id being the position
  types,      \* stock_picking_type rows by name: [from, to]
  stocked,    \* locations that have a quantity
  applying,   \* what each user's call has read and found, and what it does next
  applied     \* history: the steps of the row have been applied to the end

warehouseVars == <<warehouse, places, types, stocked, applying, applied>>

ASSUME WarehouseAssumption ==
  ReceptionSteps \cup DeliverySteps \subseteq 1 .. 3 /\ MaxPlaces \in Nat /\ NoPlace \notin Nat

\* create has stored the row.
WarehouseInit ==
  /\ warehouse \in [reception : ReceptionSteps, delivery : DeliverySteps,
                    view : {NoPlace}, stock : {NoPlace}]
  /\ places = <<>> /\ types = << >> /\ stocked = {} /\ applied = FALSE
  /\ applying = [u \in Keepers |-> Idle]

Applies(u, c) == applying' = [applying EXCEPT ![u] = c]
-----------------------------------------------------------------------------
\* What a call does, once it has read the row.
Root(name, field) == IF warehouse[field] # NoPlace THEN <<>>
                     ELSE << [do |-> "place", name |-> name], [do |-> "adopt", name |-> name, field |-> field] >>
Shared(name) == << [do |-> "find", name |-> name] >>
Child(needed, name) == IF needed THEN << [do |-> "child", name |-> name] >> ELSE <<>>
Type(needed, name, from, to) ==
  IF needed THEN << [do |-> "type", name |-> name, from |-> from, to |-> to] >> ELSE <<>>
Archive(needed, name) == IF needed THEN <<>> ELSE << [do |-> "archive", name |-> name] >>
Clear(needed, name) == IF needed THEN <<>> ELSE << [do |-> "clear", name |-> name] >>

Program(in, out) ==
  Root("View", "view") \o Root("Stock", "stock") \o Shared("Vendors") \o Shared("Customers")
  \o Child(in > 1, "Input") \o Child(in = 3, "Quality Control")
  \o Type(TRUE, "Receipts", "Vendors", IF in = 1 THEN "Stock" ELSE "Input")
  \o Type(in = 2, "Input to Stock", "Input", "Stock")
  \o Type(in = 3, "Input to Quality", "Input", "Quality Control")
  \o Type(in = 3, "Quality to Stock", "Quality Control", "Stock")
  \o Archive(in > 1, "Input") \o Archive(in = 3, "Quality Control")
  \o Clear(in = 2, "Input to Stock")
  \o Clear(in = 3, "Input to Quality") \o Clear(in = 3, "Quality to Stock")
  \o Child(out > 1, "Output") \o Child(out = 3, "Packing Zone")
  \o Type(TRUE, "Delivery Orders", (<<"Stock", "Output", "Packing Zone">>)[out], "Customers")
  \o Type(out > 1, "Pick", "Stock", "Output") \o Type(out = 3, "Pack", "Output", "Packing Zone")
  \o Archive(out > 1, "Output") \o Archive(out = 3, "Packing Zone")
  \o Type(TRUE, "Internal Transfers", "Stock", "Stock") \o Type(TRUE, "Returns", "Customers", "Stock")

\* write: the row, and then the call if the steps are among what is written.
Configure(u, in, out) ==
  /\ MayCall(applying, u)
  /\ <<in, out>> # <<warehouse.reception, warehouse.delivery>>
  /\ warehouse' = [warehouse EXCEPT !.reception = in, !.delivery = out]
  /\ applied' = FALSE
  /\ Applies(u, [op |-> "read"])
  /\ UNCHANGED <<places, types, stocked>>

\* action_apply_steps reads the row: after write, at the end of create, or alone.
ApplyBegin(u) ==
  /\ applying[u].op = "read" \/ (~applied /\ MayCall(applying, u))
  /\ Applies(u, [op |-> "run", todo |-> Program(warehouse.reception, warehouse.delivery),
                 got |-> [Stock |-> warehouse.stock]])
  /\ UNCHANGED <<warehouse, places, types, stocked, applied>>
-----------------------------------------------------------------------------
(* The transactions. `got' has the ids found for names so far.              *)
ToDo(u) == Head(applying[u].todo)
Doing(u, kinds) == applying[u].op = "run" /\ ToDo(u).do \in kinds
Done(u, found) ==
  LET c == applying[u]
      last == Len(c.todo) = 1
  IN /\ Applies(u, IF last THEN Idle ELSE [c EXCEPT !.todo = Tail(@), !.got = found @@ @])
     /\ applied' = (applied \/ last)

Named(name) == {i \in DOMAIN places : places[i].name = name}
Active(name) == {i \in Named(name) : places[i].active}
Make(u, name) ==
  /\ Len(places) < MaxPlaces
  /\ places' = Append(places, [name |-> name, active |-> TRUE])
  /\ Done(u, name :> Len(places) + 1)

\* The roots are made and then written in the row; a shared location is looked up
\* whether or not it is active, and one of the warehouse only if it is.
MakePlaceReviving(u) ==
  LET name == ToDo(u).name
  IN /\ Doing(u, {"place", "find", "child"})
     /\ IF ToDo(u).do = "place" \/ Named(name) = {} THEN Make(u, name)
        ELSE \E id \in Named(name) : Done(u, name :> id) /\ UNCHANGED places
     /\ UNCHANGED <<warehouse, types, stocked>>
MakePlace(u) ==
  LET name == ToDo(u).name
      there == IF ToDo(u).do = "find" THEN Named(name) ELSE Active(name)
  IN /\ Doing(u, {"place", "find", "child"})
     /\ IF ToDo(u).do = "place" \/ there = {} THEN Make(u, name)
        ELSE \E id \in there : Done(u, name :> id) /\ UNCHANGED places
     /\ UNCHANGED <<warehouse, types, stocked>>

Adopt(u) ==
  LET step == ToDo(u)
  IN /\ Doing(u, {"adopt"})
     /\ warehouse' = [warehouse EXCEPT ![step.field] = applying[u].got[step.name]]
     /\ Done(u, << >>)
     /\ UNCHANGED <<places, types, stocked>>

\* _ensure_picking_type writes the locations of a type that is there.
EnsureType(u) ==
  LET step == ToDo(u)
      got == applying[u].got
  IN /\ Doing(u, {"type"})
     /\ types' = (step.name :> [from |-> got[step.from], to |-> got[step.to]]) @@ types
     /\ Done(u, << >>)
     /\ UNCHANGED <<warehouse, places, stocked>>

ClearType(u) ==
  /\ Doing(u, {"clear"})
  /\ types' = [n \in DOMAIN types |->
                 IF n = ToDo(u).name THEN [from |-> NoPlace, to |-> NoPlace] ELSE types[n]]
  /\ Done(u, << >>)
  /\ UNCHANGED <<warehouse, places, stocked>>

\* _archive_unused_locations looks for a quantity and then archives.
ArchiveCheck(u) ==
  LET step == ToDo(u)
      free == Active(step.name) \ stocked
  IN /\ Doing(u, {"archive"})
     /\ IF free = {} THEN Done(u, << >>)
        ELSE /\ Applies(u, [applying[u] EXCEPT !.todo[1] = [do |-> "retire", ids |-> free]])
             /\ UNCHANGED applied
     /\ UNCHANGED <<warehouse, places, types, stocked>>
ArchiveWrite(u) ==
  /\ Doing(u, {"retire"})
  /\ places' = [i \in DOMAIN places |->
                  IF i \in ToDo(u).ids THEN [places[i] EXCEPT !.active = FALSE] ELSE places[i]]
  /\ Done(u, << >>)
  /\ UNCHANGED <<warehouse, types, stocked>>

\* Goods come to an active location and leave it; and a call ends early.
Goods(i) ==
  /\ exclusive => \A u \in Keepers : applying[u] = Idle
  /\ places[i].name \notin {"View", "Vendors", "Customers"}
  /\ i \in stocked \/ places[i].active
  /\ stocked' = SymDiff(stocked, {i})
  /\ UNCHANGED <<warehouse, places, types, applying, applied>>
ApplyStops(u) ==
  /\ applying[u] # Idle
  /\ Applies(u, Idle)
  /\ UNCHANGED <<warehouse, places, types, stocked, applied>>

WarehouseNext ==
  /\ \/ \E u \in Keepers :
          \/ \E in \in ReceptionSteps, out \in DeliverySteps : Configure(u, in, out)
          \/ ApplyBegin(u) \/ MakePlace(u) \/ Adopt(u) \/ EnsureType(u) \/ ClearType(u)
          \/ ArchiveCheck(u) \/ ArchiveWrite(u) \/ ApplyStops(u)
     \/ \E i \in DOMAIN places : Goods(i)
  /\ UNCHANGED workdayVars
WarehouseSpec == WarehouseInit /\ WorkdayInit /\ [][WarehouseNext]_<<warehouseVars, workdayVars>>
-----------------------------------------------------------------------------
\* Once the steps are applied, however often calls ended early and steps changed
\* before, the operation types lead from the vendors to stock and from stock to the
\* customers in as many transfers as there are steps, each through active places;
\* reception types that are not in use point nowhere; the roots are in the row; and
\* what holds stock was not archived.
Leads(from, to, steps) ==
  LET Hop(S) == {types[n].to : n \in {k \in DOMAIN types : types[k].from \in S /\ types[k].to \in Nat
                                        /\ k \notin {"Internal Transfers", "Returns"}}}
      live == {i \in DOMAIN places : places[i].active}
      after == [k \in 0 .. steps |-> FoldLeft(LAMBDA S, x : Hop(S) \cap live, {from}, [j \in 1 .. k |-> j])]
  IN to \in after[steps] /\ \A k \in 0 .. steps - 1 : to \notin after[k]
WellLaidOut ==
  applied /\ exclusive /\ (\A u \in Keepers : applying[u] = Idle) =>
    /\ places[warehouse.stock].name = "Stock" /\ places[warehouse.view].name = "View"
    /\ \E v \in Active("Vendors"), c \in Active("Customers") :
         /\ Leads(v, warehouse.stock, warehouse.reception)
         /\ Leads(warehouse.stock, c, warehouse.delivery)
    /\ \A n \in DOMAIN types \cap {"Receipts", "Input to Stock", "Input to Quality", "Quality to Stock"} :
         types[n].to # NoPlace => places[types[n].from].active /\ places[types[n].to].active
    /\ \A i \in stocked : places[i].active
=============================================================================
