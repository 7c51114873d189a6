----------------------------- MODULE Contracts -----------------------------
(***************************************************************************)
(* The employment contracts of one employee (hr.contract): their dates,    *)
(* their states, the rule that one of them runs, and the scheduled expiry. *)
(***************************************************************************)
EXTENDS Workday

CONSTANTS
  Contracts,
  Clerks,    \* users whose calls may overlap
  DateRange, \* bound on the dates of contracts
  NoDate     \* a date that is not set (NULL)

ASSUME ContractsAssumption == NoDate \notin Nat /\ DateRange \subseteq Nat

VARIABLES
  contract,    \* the hr_contract table
  contractCall \* what each clerk's call has read and does next

contractsVars == <<contract, contractCall, workdayVars>>

States == {"draft", "running", "expired", "cancelled"}
Transitions ==
  [draft |-> {"running", "cancelled"}, running |-> {"expired", "cancelled"},
   expired |-> {"draft"}, cancelled |-> {"draft"}]

NotMade == [state |-> "none"]
Running == {c \in Contracts : contract[c].state = "running"}
Dates == DateRange \cup {NoDate}

\* Both are set and the first is after the second.
After(a, b) == a # NoDate /\ b # NoDate /\ a > b
DatesInOrder(d) ==
  /\ ~After(d.start, d.end)
  /\ ~After(d.start, d.trial)
  /\ ~After(d.trial, d.end)

ContractsInit ==
  /\ contract = [c \in Contracts |-> NotMade]
  /\ contractCall = [u \in Clerks |-> Idle]
  /\ WorkdayInit

Enter(u, call) ==
  /\ MayCall(contractCall, u)
  /\ contractCall' = [contractCall EXCEPT ![u] = call]
  /\ UNCHANGED <<contract, workdayVars>>
Proceed(u, op) ==
  /\ contractCall' = [contractCall EXCEPT ![u] = IF op = "idle" THEN Idle ELSE [@ EXCEPT !.op = op]]
  /\ UNCHANGED <<contract, workdayVars>>
Store(u, c, record) ==
  /\ contract' = [contract EXCEPT ![c] = record]
  /\ contractCall' = [contractCall EXCEPT ![u] = Idle]
  /\ UNCHANGED workdayVars

CreateBegin(u, c, start, end, state) ==
  LET d == [start |-> start, end |-> end, trial |-> NoDate]
  IN /\ contract[c] = NotMade /\ DatesInOrder(d)
     /\ state = "running" => Running = {}
     /\ Enter(u, [op |-> "insert", contract |-> c, dates |-> d, state |-> state])
CreateInsert(u) ==
  LET k == contractCall[u]
  IN /\ k.op = "insert" /\ contract[k.contract] = NotMade
     /\ Store(u, k.contract, [state |-> k.state, start |-> k.dates.start, end |-> k.dates.end, trial |-> NoDate])

\* write checks the dates it is given with those it reads, and stores them.
DatesBegin(u, c, field, date) ==
  /\ contract[c] # NotMade
  /\ field = "start" => date # NoDate
  /\ date # NoDate => DatesInOrder([contract[c] EXCEPT ![field] = date])
  /\ Enter(u, [op |-> "dates", contract |-> c, field |-> field, date |-> date])
DatesStore(u) ==
  LET k == contractCall[u]
  IN /\ k.op = "dates"
     /\ Store(u, k.contract, [contract[k.contract] EXCEPT ![k.field] = k.date])

SetStateBegin(u, c, target) ==
  /\ contract[c] # NotMade
  /\ target \in Transitions[contract[c].state]
  /\ Enter(u, [op |-> IF target = "running" THEN "others" ELSE "state",
               contract |-> c, target |-> target])
SetStateOthersNot(u) ==
  /\ contractCall[u].op = "others"
  /\ Proceed(u, "state")
SetStateOthers(u) ==
  /\ contractCall[u].op = "others"
  /\ Proceed(u, IF Running \subseteq {contractCall[u].contract} THEN "state" ELSE "idle")
SetStateStore(u) ==
  LET k == contractCall[u]
  IN /\ k.op = "state"
     /\ Store(u, k.contract, [contract[k.contract] EXCEPT !.state = k.target])

ContractCallEnds(u) == contractCall[u] # Idle /\ Proceed(u, "idle")

\* run_contract_expiry: one statement.
Overdue(c) == c \in Running /\ contract[c].end # NoDate /\ contract[c].end < today
ExpireContracts ==
  /\ contract' = [c \in Contracts |-> IF Overdue(c) THEN [contract[c] EXCEPT !.state = "expired"]
                                      ELSE contract[c]]
  /\ UNCHANGED <<contractCall, workdayVars>>

\* What read shows, and the contract that get_running_contract pays.
EffectiveState(c) == IF Overdue(c) THEN "expired" ELSE contract[c].state
CoversToday(c) ==
  contract[c].start <= today /\ (contract[c].end = NoDate \/ contract[c].end >= today)
LatestOf(S) == {c \in S : \A o \in S : contract[o].start <= contract[c].start}
RunningContract ==
  LET covering == {c \in Running : CoversToday(c)}
  IN LatestOf(IF covering # {} THEN covering ELSE Running)

ContractsNext ==
  \/ \E u \in Clerks :
       \/ \E c \in Contracts :
            \/ \E start \in DateRange, end \in Dates, state \in States : CreateBegin(u, c, start, end, state)
            \/ \E field \in {"start", "end", "trial"}, date \in Dates : DatesBegin(u, c, field, date)
            \/ \E target \in States : SetStateBegin(u, c, target)
       \/ CreateInsert(u) \/ DatesStore(u)
       \/ SetStateOthers(u) \/ SetStateStore(u) \/ ContractCallEnds(u)
  \/ ExpireContracts
  \/ NextDay /\ UNCHANGED <<contract, contractCall>>

ContractsSpec == ContractsInit /\ [][ContractsNext]_contractsVars
-----------------------------------------------------------------------------
\* When calls do not overlap, dates stay in order although every call sets one
\* of them, and at most one contract runs, however contracts are created,
\* started, expired, taken back to draft and started again: the payroll finds
\* the only candidate (hr_contract.py:87 _assert_no_other_running, :176
\* get_running_contract). A contract that reads as expired is still the one
\* that runs until the scheduled expiry has written it (:151).
OneContractRuns ==
  exclusive =>
    /\ Cardinality(Running) <= 1
    /\ RunningContract = Running
    /\ \A c \in Contracts : contract[c] # NotMade =>
         /\ DatesInOrder(contract[c])
         /\ EffectiveState(c) = "running" => c \in RunningContract
=============================================================================
