------------------------------- MODULE Fleet -------------------------------
(***************************************************************************)
(* One vehicle (fleet.vehicle) with its drivers, odometer readings and     *)
(* service contracts. Assigning a driver reads the vehicle, appends the    *)
(* previous driver to the history and then writes the new one, and a       *)
(* reading is compared with the highest before it is stored: three and two *)
(* transactions.                                                           *)
(***************************************************************************)
EXTENDS Workday, Sequences

CONSTANTS
  Drivers,     \* employees
  Dispatchers, \* users whose calls may overlap
  MaxReadings, \* bound on the readings made
  MaxValue,    \* bound on a reading's value
  Services,    \* service contracts of the vehicle
  AlertWindow, \* FLEET_ALERT_WINDOW_DAYS
  NoDriver     \* a driver that is not set (NULL)

ASSUME FleetAssumption ==
  /\ NoDriver \notin Drivers
  /\ MaxReadings \in Nat /\ MaxValue \in Nat /\ AlertWindow \in Nat

VARIABLES
  vehicle,  \* [driver, former, flagged]
  active,   \* employees that are not archived
  drove,    \* every driver the vehicle has had
  readings, \* sequence, by id, of [value, date, inconsistent]
  service,  \* [state, end] of each service contract
  dispatch  \* what each dispatcher's call has read and does next

fleetVars == <<vehicle, active, drove, readings, service, dispatch, workdayVars>>
NotSigned == [state |-> "none"]

FleetInit ==
  /\ vehicle = [driver |-> NoDriver, former |-> {}, flagged |-> FALSE]
  /\ active = Drivers
  /\ drove = {}
  /\ readings = <<>>
  /\ service = [s \in Services |-> NotSigned]
  /\ dispatch = [u \in Dispatchers |-> Idle]
  /\ WorkdayInit

Onward(u, call) == dispatch' = [dispatch EXCEPT ![u] = call]

AssignBeginSkips(u, d, clears) ==
  /\ MayCall(dispatch, u)
  /\ Onward(u, [op |-> "driver", driver |-> d, clears |-> clears])
  /\ UNCHANGED <<vehicle, active, drove, readings, service, workdayVars>>

\* write of driver_id; assign_driver also clears the flag (clears).
AssignBegin(u, d, clears) ==
  LET prev == vehicle.driver
  IN /\ MayCall(dispatch, u)
     /\ Onward(u, [op |-> IF prev \notin {NoDriver, d} THEN "history" ELSE "driver",
                  driver |-> d, clears |-> clears, former |-> vehicle.former \cup {prev}])
     /\ UNCHANGED <<vehicle, active, drove, readings, service, workdayVars>>
AssignHistory(u) ==
  /\ dispatch[u].op = "history"
  /\ vehicle' = [vehicle EXCEPT !.former = dispatch[u].former]
  /\ Onward(u, [dispatch[u] EXCEPT !.op = "driver"])
  /\ UNCHANGED <<active, drove, readings, service, workdayVars>>
AssignDriver(u) ==
  LET c == dispatch[u]
  IN /\ c.op = "driver"
     /\ vehicle' = [vehicle EXCEPT !.driver = c.driver,
                                   !.flagged = IF c.clears THEN FALSE ELSE @]
     /\ drove' = drove \cup ({c.driver} \ {NoDriver})
     /\ Onward(u, Idle)
     /\ UNCHANGED <<active, readings, service, workdayVars>>

\* An employee is archived or restored.
Archive(d) ==
  /\ active' = IF d \in active THEN active \ {d} ELSE active \cup {d}
  /\ UNCHANGED <<vehicle, drove, readings, service, dispatch, workdayVars>>
FlagArchived ==
  /\ vehicle.driver # NoDriver /\ vehicle.driver \notin active
  /\ vehicle' = [vehicle EXCEPT !.flagged = TRUE]
  /\ UNCHANGED <<active, drove, readings, service, dispatch, workdayVars>>

Below(value) == \E i \in DOMAIN readings : value < readings[i].value
ReadBegin(u, value, date) ==
  /\ MayCall(dispatch, u) /\ Len(readings) < MaxReadings
  /\ Onward(u, [op |-> "reading", value |-> value, date |-> date, inconsistent |-> Below(value)])
  /\ UNCHANGED <<vehicle, active, drove, readings, service, workdayVars>>
ReadStore(u) ==
  LET c == dispatch[u]
  IN /\ c.op = "reading"
     /\ readings' = Append(readings, [value |-> c.value, date |-> c.date, inconsistent |-> c.inconsistent])
     /\ Onward(u, Idle)
     /\ UNCHANGED <<vehicle, active, drove, service, workdayVars>>

DispatchFails(u) ==
  /\ dispatch[u] # Idle
  /\ Onward(u, Idle)
  /\ UNCHANGED <<vehicle, active, drove, readings, service, workdayVars>>

\* The odometer shown: the reading of the latest date, of those the last made.
Odometer ==
  LET latest == {i \in DOMAIN readings : \A j \in DOMAIN readings :
                   \/ readings[j].date < readings[i].date
                   \/ readings[j].date = readings[i].date /\ j <= i}
  IN {readings[i].value : i \in latest}

\* Service contracts: signed or renewed with a date, closed, expired on schedule.
Sign(s, end) ==
  /\ service[s].state \in {"none", "expired"}
  /\ service' = [service EXCEPT ![s] = [state |-> "open", end |-> end]]
  /\ UNCHANGED <<vehicle, active, drove, readings, dispatch, workdayVars>>
Close(s) ==
  /\ service[s].state \in {"open", "expired"}
  /\ service' = [service EXCEPT ![s].state = "closed"]
  /\ UNCHANGED <<vehicle, active, drove, readings, dispatch, workdayVars>>
ExpireServices ==
  /\ service' = [s \in Services |->
       IF service[s].state = "open" /\ service[s].end < today
       THEN [service[s] EXCEPT !.state = "expired"] ELSE service[s]]
  /\ UNCHANGED <<vehicle, active, drove, readings, dispatch, workdayVars>>
Alerts ==
  {s \in Services : /\ service[s].state \notin {"none", "closed"}
                    /\ service[s].end <= today + AlertWindow \/ service[s].state = "expired"}

FleetNext ==
  \/ \E u \in Dispatchers :
       \/ \E d \in Drivers \cup {NoDriver}, clears \in BOOLEAN : AssignBegin(u, d, clears)
       \/ AssignHistory(u) \/ AssignDriver(u)
       \/ \E value \in 1 .. MaxValue, date \in 0 .. today : ReadBegin(u, value, date)
       \/ ReadStore(u) \/ DispatchFails(u)
  \/ \E d \in Drivers : Archive(d)
  \/ FlagArchived
  \/ \E s \in Services : \/ \E end \in 0 .. LastDay : Sign(s, end)
                         \/ Close(s)
  \/ ExpireServices
  \/ NextDay /\ UNCHANGED <<vehicle, active, drove, readings, service, dispatch>>

FleetSpec == FleetInit /\ [][FleetNext]_fleetVars
-----------------------------------------------------------------------------
\* When calls do not overlap, nobody who has driven the vehicle is forgotten,
\* wherever a call ends (fleet_vehicle.py:83), and a reading below an earlier
\* one is marked although readings come in any order of dates
\* (fleet_vehicle_odometer.py:38): the odometer falls back only through a
\* marked reading, or one dated before readings made earlier. Whatever
\* overlaps, a contract that has run out is alerted until it is closed.
FleetKept ==
  /\ exclusive =>
       /\ drove \subseteq vehicle.former \cup {vehicle.driver}
       /\ \A i, j \in DOMAIN readings :
            i < j /\ readings[j].value < readings[i].value => readings[j].inconsistent
       /\ \A v \in Odometer : (\E i \in DOMAIN readings : readings[i].value > v) =>
            \/ \E i \in DOMAIN readings : readings[i].inconsistent /\ readings[i].value = v
            \/ \E i, j \in DOMAIN readings : i < j /\ readings[j].date < readings[i].date
  /\ \A s \in Services : service[s].state = "open" /\ service[s].end < today => s \in Alerts
=============================================================================
