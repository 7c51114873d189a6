---------------------------- MODULE MCOperations ----------------------------
\* The parts of inventory around transfers, and of the platform. Some of them share
\* whether calls overlap; a behaviour takes the steps of one of them.
EXTENDS TLC, Valuation, Replenishment, Warehouse, Settings, Deployment, AccessRules
CONSTANTS input, shelf
VARIABLE part

Symmetry == Permutations(Movers) \cup Permutations(Admins)

\* Four modules in two chains; the third version changes the type of a column.
MCDepends == [base |-> {}, account |-> {"base"}, web |-> {"base"}, stock |-> {"account"}]
MCEntryPoint == <<"web", "stock">>
MCDeclares(m, v) == [c \in 1 .. v |-> IF v = 3 /\ c = 1 /\ m = "web" THEN "text" ELSE "int"]
MCLevels == <<"employee", "officer">>
MCLeafSets == {{1, 2}, {2, 3}}

valuation == <<method, price, inStock, avgCost, layers, booked, valuing, unvalued>>
replenishment == <<assigned, rules, onShelf, transfers, planning>>
storage == <<warehouse, places, types, stocked, applying, applied>>
inventory == <<valuation, replenishment, storage>>
vars == <<part, inventory, settingsVars, deploymentVars, accessVars, workdayVars>>

\* Parts whose property is only about calls that do not overlap are run so, and one
\* of the three ways a route is found is used at a time.
Init ==
  /\ part \in {"valuation", "replenish", "warehouse", "settings", "deployment", "access"}
  /\ ValuationInit /\ ReplenishmentInit /\ WarehouseInit
  /\ SettingsInit /\ DeploymentInit /\ AccessInit /\ WorkdayInit
  /\ part \notin {"valuation", "settings"} => exclusive
  /\ part # "valuation" => method = "fifo" /\ price = Min(Prices)
  /\ part # "warehouse" => warehouse.reception = 1 /\ warehouse.delivery = 1
  /\ part # "settings" => company.lang = CHOOSE lang \in Languages : TRUE
  /\ part # "deployment" => code = Min(Versions)
  /\ IF part = "replenish" THEN Cardinality({by \in DOMAIN assigned : assigned[by] # NoRoute}) <= 1
     ELSE \A by \in DOMAIN assigned : assigned[by] = NoRoute

\* Two moves are enough to overlap.
ValuationSteps ==
  /\ part = "valuation" /\ ValuationNext
  /\ ~unvalued /\ (~exclusive => Len(layers') <= 2)
  /\ UNCHANGED <<part, replenishment, storage, settingsVars, deploymentVars, accessVars>>
\* A route that leads in a circle orders more every time: quantities are bounded.
ReplenishmentSteps ==
  /\ part = "replenish" /\ ReplenishmentNext
  /\ \A l \in Inside : onShelf'[l] <= 2
  /\ \A i \in DOMAIN transfers' : transfers'[i].qty <= 4
  /\ UNCHANGED <<part, valuation, storage, settingsVars, deploymentVars, accessVars>>
\* Receptions and deliveries take more than one step in turn.
WarehouseSteps ==
  /\ part = "warehouse" /\ WarehouseNext
  /\ 1 \in {warehouse'.reception, warehouse'.delivery}
  /\ UNCHANGED <<part, valuation, replenishment, settingsVars, deploymentVars, accessVars>>
SettingsSteps ==
  /\ part = "settings" /\ SettingsNext
  /\ ~exclusive => company'.version <= 1
  /\ UNCHANGED <<part, inventory, deploymentVars, accessVars>>
DeploymentSteps ==
  /\ part = "deployment" /\ DeploymentNext
  /\ UNCHANGED <<part, inventory, settingsVars, accessVars, workdayVars>>
\* The third rule is a simple one; a rule is global or for one group.
AccessSteps ==
  /\ part = "access" /\ AccessNext
  /\ \A i \in DOMAIN accessRules' :
       LET r == accessRules'[i]
       IN /\ Cardinality(r.groups) = IF r.global THEN 0 ELSE 1
          /\ Len(r.domain) = 3 => r.domain[2] # r.domain[3]
          /\ i > 2 => Len(r.domain) = 1
  /\ UNCHANGED <<part, inventory, settingsVars, deploymentVars, workdayVars>>

Next ==
  ValuationSteps \/ ReplenishmentSteps \/ WarehouseSteps \/ SettingsSteps \/ DeploymentSteps \/ AccessSteps

Spec == Init /\ [][Next]_vars
=============================================================================
