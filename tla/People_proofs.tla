--------------------------- MODULE People_proofs ---------------------------
(***************************************************************************)
(* Theorems about the protocols of HR and fleet: contracts, recruitment,   *)
(* appraisals, the directory, the fleet, accruals and time off. In each, a *)
(* call checks in one transaction and writes in another. Where the         *)
(* property is about calls that do not overlap, the invariant says that    *)
(* what a call has checked still holds when it writes; where it is about   *)
(* all calls, that no other call can undo what it is about.                *)
(***************************************************************************)
EXTENDS Contracts, Recruitment, Appraisals, Directory, Fleet, TimeOff, Sums_proofs

LEMMA AtMostOne ==
  ASSUME NEW S, \A x, y \in S : x = y
  PROVE  IsFiniteSet(S) /\ Cardinality(S) <= 1
<1>1. CASE S = {} BY <1>1, FS_EmptySet
<1>2. ASSUME NEW x, S = {x} PROVE IsFiniteSet(S) /\ Cardinality(S) <= 1
  <2>1. IsFiniteSet(S) /\ Cardinality(S) = 1 BY <1>2, FS_Singleton
  <2> QED BY <2>1
<1>3. S # {} => \E x : S = {x} OBVIOUS
<1> QED BY <1>1, <1>2, <1>3
-----------------------------------------------------------------------------
(* Contracts.                                                              *)
ContractRows == [state : States, start : DateRange, end : Dates, trial : Dates]
ContractCalls ==
  [op : {"insert"}, contract : Contracts, state : States,
   dates : [start : DateRange, end : Dates, trial : {NoDate}]]
  \cup [op : {"dates"}, contract : Contracts, field : {"start", "end", "trial"}, date : Dates]
  \cup [op : {"others", "state"}, contract : Contracts, target : States]

ContractTypes ==
  /\ contract \in [Contracts -> {NotMade} \cup ContractRows]
  /\ contractCall \in [Clerks -> {Idle} \cup ContractCalls]

OnlyOne == \A c, d \in Running : c = d
InOrder == \A c \in Contracts : contract[c] # NotMade => DatesInOrder(contract[c])

\* What a call has checked.
ContractChecked(k) ==
  /\ k.op = "insert" => /\ contract[k.contract] = NotMade /\ DatesInOrder(k.dates)
                        /\ k.state = "running" => Running = {}
  /\ k.op = "dates" => /\ contract[k.contract] # NotMade
                       /\ k.field = "start" => k.date # NoDate
                       /\ DatesInOrder([contract[k.contract] EXCEPT ![k.field] = k.date])
  /\ k.op \in {"others", "state"} => contract[k.contract] # NotMade
  /\ k.op = "state" /\ k.target = "running" => Running \subseteq {k.contract}

ContractsInv ==
  exclusive =>
    /\ ContractTypes
    /\ OnlyOne
    /\ InOrder
    /\ \A u, v \in Clerks : u # v => contractCall[u] = Idle \/ contractCall[v] = Idle
    /\ \A u \in Clerks : contractCall[u] # Idle => ContractChecked(contractCall[u])

LEMMA ContractsInitInv == ContractsInit => ContractsInv
  BY DEF ContractsInit, ContractsInv, ContractTypes, OnlyOne, InOrder, Running, NotMade

\* A row is stored: no call is under way then.
LEMMA StoreKeeps ==
  ASSUME ContractsInv, NEW u \in Clerks, contractCall[u] # Idle, NEW c \in Contracts,
         NEW row \in ContractRows, Store(u, c, row),
         exclusive => /\ DatesInOrder(row)
                      /\ row.state = "running" => Running \subseteq {c}
  PROVE  ContractsInv'
<1> SUFFICES ASSUME exclusive
             PROVE  (/\ ContractTypes
                     /\ OnlyOne
                     /\ InOrder
                     /\ \A v \in Clerks : contractCall[v] = Idle)'
  BY DEF ContractsInv, Store, workdayVars
<1>1. contract' = [contract EXCEPT ![c] = row] /\ contractCall' = [contractCall EXCEPT ![u] = Idle]
  BY DEF Store
<1>2. ContractTypes BY DEF ContractsInv
<1>3. ContractTypes' BY <1>1, <1>2 DEF ContractTypes
<1>4. contract'[c] = row /\ \A d \in Contracts : d # c => contract'[d] = contract[d]
  BY <1>1, <1>2 DEF ContractTypes
<1>5. OnlyOne' BY <1>4 DEF ContractsInv, OnlyOne, Running
<1>6. InOrder' BY <1>4 DEF ContractsInv, InOrder
<1>7. (\A v \in Clerks : contractCall[v] = Idle)' BY <1>1, <1>2 DEF ContractsInv, ContractTypes
<1> QED BY <1>3, <1>5, <1>6, <1>7

\* A call takes its turn or its next step: nobody else is at work.
LEMMA CallKeeps ==
  ASSUME ContractsInv, NEW u \in Clerks, NEW k, contract' = contract, exclusive' = exclusive,
         contractCall' = [contractCall EXCEPT ![u] = k],
         exclusive => /\ \A v \in Clerks : v # u => contractCall[v] = Idle
                      /\ k = Idle \/ (k \in ContractCalls /\ ContractChecked(k))
  PROVE  ContractsInv'
<1> SUFFICES ASSUME exclusive PROVE ContractsInv'
  BY DEF ContractsInv
<1>1. contractCall'[u] = k /\ \A v \in Clerks : v # u => contractCall'[v] = Idle
  BY DEF ContractsInv, ContractTypes
<1>2. ContractTypes' BY DEF ContractsInv, ContractTypes
<1>3. OnlyOne' /\ InOrder' BY DEF ContractsInv, OnlyOne, InOrder, Running
<1>4. k # Idle => ContractChecked(k)'
  BY DEF ContractChecked, Running
<1>5. (\A v \in Clerks : contractCall[v] # Idle => ContractChecked(contractCall[v]))'
  <2> SUFFICES ASSUME NEW v \in Clerks, contractCall'[v] # Idle PROVE ContractChecked(contractCall[v])'
    OBVIOUS
  <2>1. contractCall'[v] = k BY <1>1
  <2> QED BY <1>4, <2>1 DEF ContractChecked, Running
<1> QED BY <1>1, <1>2, <1>3, <1>5 DEF ContractsInv

LEMMA ContractsStepInv == ContractsInv /\ [ContractsNext]_contractsVars => ContractsInv'
<1> SUFFICES ASSUME ContractsInv, [ContractsNext]_contractsVars PROVE ContractsInv'
  OBVIOUS
<1>1. CASE UNCHANGED <<contract, contractCall, exclusive>>
  BY <1>1 DEF ContractsInv, ContractTypes, OnlyOne, InOrder, Running, ContractChecked
<1>2. ASSUME NEW u \in Clerks, MayCall(contractCall, u) \/ contractCall[u] # Idle
      PROVE  exclusive => /\ ContractTypes
                          /\ \A v \in Clerks : v # u => contractCall[v] = Idle
                          /\ contractCall[u] # Idle => /\ contractCall[u] \in ContractCalls
                                                      /\ ContractChecked(contractCall[u])
  BY <1>2 DEF ContractsInv, MayCall, ContractTypes
<1>3. ASSUME NEW u \in Clerks, NEW c \in Contracts, NEW start \in DateRange, NEW end \in Dates,
             NEW state \in States, CreateBegin(u, c, start, end, state)
      PROVE  ContractsInv'
  <2>1. PICK d, k : /\ d = [start |-> start, end |-> end, trial |-> NoDate]
                    /\ k = [op |-> "insert", contract |-> c, dates |-> d, state |-> state]
                    /\ Enter(u, k)
    BY <1>3 DEF CreateBegin
  <2>2. d \in [start : DateRange, end : Dates, trial : {NoDate}] BY <2>1
  <2>3. k \in ContractCalls BY <2>1, <2>2 DEF ContractCalls
  <2>4. ContractChecked(k) BY <1>3, <2>1 DEF CreateBegin, ContractChecked
  <2> QED BY <1>2, <2>1, <2>3, <2>4, CallKeeps DEF Enter, workdayVars
<1>4. ASSUME NEW u \in Clerks, NEW c \in Contracts, NEW field \in {"start", "end", "trial"}, NEW date \in Dates,
             DatesBegin(u, c, field, date)
      PROVE  ContractsInv'
  <2>1. PICK k : /\ k = [op |-> "dates", contract |-> c, field |-> field, date |-> date]
                 /\ Enter(u, k)
    BY <1>4 DEF DatesBegin
  <2>2. k \in ContractCalls BY <2>1 DEF ContractCalls
  <2>3. exclusive => contract[c] \in ContractRows /\ DatesInOrder(contract[c])
    BY <1>4 DEF DatesBegin, ContractsInv, ContractTypes, InOrder
  <2>4. exclusive => DatesInOrder([contract[c] EXCEPT ![field] = date])
    <3>1. CASE date # NoDate BY <1>4, <3>1 DEF DatesBegin
    <3>2. CASE date = NoDate BY <2>3, <3>2 DEF DatesInOrder, After, ContractRows
    <3> QED BY <3>1, <3>2
  <2>5. exclusive => ContractChecked(k) BY <1>4, <2>1, <2>4 DEF DatesBegin, ContractChecked
  <2> QED BY <1>2, <2>1, <2>2, <2>5, CallKeeps DEF Enter, workdayVars
<1>5. ASSUME NEW u \in Clerks, NEW c \in Contracts, NEW target \in States, SetStateBegin(u, c, target)
      PROVE  ContractsInv'
  <2>1. PICK k : /\ k = [op |-> IF target = "running" THEN "others" ELSE "state",
                         contract |-> c, target |-> target]
                 /\ Enter(u, k)
    BY <1>5 DEF SetStateBegin
  <2>2. k \in ContractCalls BY <2>1 DEF ContractCalls
  <2>3. ContractChecked(k) BY <1>5, <2>1 DEF SetStateBegin, ContractChecked
  <2> QED BY <1>2, <2>1, <2>2, <2>3, CallKeeps DEF Enter, workdayVars
<1>6. ASSUME NEW u \in Clerks, SetStateOthers(u) PROVE ContractsInv'
  <2>1. contractCall[u].op = "others" /\ contractCall[u] # Idle BY <1>6 DEF SetStateOthers, Idle
  <2>2. PICK old : old = contractCall[u] OBVIOUS
  <2>3. PICK k : /\ k = IF Running \subseteq {old.contract} THEN [old EXCEPT !.op = "state"] ELSE Idle
                 /\ contractCall' = [contractCall EXCEPT ![u] = k]
                 /\ UNCHANGED <<contract, exclusive>>
    BY <1>6, <2>2 DEF SetStateOthers, Proceed, workdayVars
  <2>4. exclusive => old \in [op : {"others", "state"}, contract : Contracts, target : States]
    BY <1>2, <2>1, <2>2 DEF ContractCalls
  <2>5. exclusive => contract[old.contract] # NotMade
    BY <1>2, <2>1, <2>2 DEF ContractChecked
  <2>6. exclusive /\ k # Idle => k \in ContractCalls /\ ContractChecked(k)
    BY <2>3, <2>4, <2>5 DEF ContractCalls, ContractChecked
  <2> QED BY <1>2, <2>1, <2>3, <2>6, CallKeeps
<1>7. ASSUME NEW u \in Clerks, ContractCallEnds(u) PROVE ContractsInv'
  BY <1>2, <1>7, CallKeeps DEF ContractCallEnds, Proceed, workdayVars
<1>8. ASSUME NEW u \in Clerks, CreateInsert(u) PROVE ContractsInv'
  <2>1. contractCall[u].op = "insert" /\ contractCall[u] # Idle BY <1>8 DEF CreateInsert, Idle
  <2>2. PICK k : k = contractCall[u] OBVIOUS
  <2>3. PICK row : /\ row = [state |-> k.state, start |-> k.dates.start, end |-> k.dates.end, trial |-> NoDate]
                   /\ Store(u, k.contract, row)
    BY <1>8, <2>2 DEF CreateInsert
  <2>4. CASE exclusive
    <3>1. /\ k.contract \in Contracts /\ k.state \in States
          /\ k.dates \in [start : DateRange, end : Dates, trial : {NoDate}]
      BY <1>2, <2>1, <2>2, <2>4 DEF ContractCalls
    <3>2. row \in ContractRows BY <2>3, <3>1 DEF ContractRows, Dates
    <3>3. DatesInOrder(k.dates) /\ (k.state = "running" => Running = {})
      BY <1>2, <2>1, <2>2, <2>4 DEF ContractChecked
    <3>4. DatesInOrder(row) BY <2>3, <3>1, <3>3 DEF DatesInOrder
    <3> QED BY <2>1, <2>3, <3>1, <3>2, <3>3, <3>4, StoreKeeps
  <2>5. CASE ~exclusive BY <2>3, <2>5 DEF Store, workdayVars, ContractsInv
  <2> QED BY <2>4, <2>5
<1>9. ASSUME NEW u \in Clerks, DatesStore(u) PROVE ContractsInv'
  <2>1. contractCall[u].op = "dates" /\ contractCall[u] # Idle BY <1>9 DEF DatesStore, Idle
  <2>2. PICK k : k = contractCall[u] OBVIOUS
  <2>3. PICK row : row = [contract[k.contract] EXCEPT ![k.field] = k.date] /\ Store(u, k.contract, row)
    BY <1>9, <2>2 DEF DatesStore
  <2>4. CASE exclusive
    <3>1. k \in [op : {"dates"}, contract : Contracts, field : {"start", "end", "trial"}, date : Dates]
      BY <1>2, <2>1, <2>2, <2>4 DEF ContractCalls
    <3>2. /\ contract[k.contract] # NotMade /\ (k.field = "start" => k.date # NoDate)
          /\ DatesInOrder(row)
      BY <1>2, <2>1, <2>2, <2>3, <2>4 DEF ContractChecked
    <3>3. contract[k.contract] \in ContractRows
      BY <1>2, <2>1, <2>4, <3>1, <3>2 DEF ContractTypes
    <3>4. row \in ContractRows /\ row.state = contract[k.contract].state
      BY <2>3, <3>1, <3>2, <3>3 DEF ContractRows, Dates
    <3>5. row.state = "running" => Running \subseteq {k.contract}
      BY <2>4, <3>1, <3>4 DEF ContractsInv, OnlyOne, Running
    <3> QED BY <2>1, <2>3, <3>1, <3>2, <3>4, <3>5, StoreKeeps
  <2>5. CASE ~exclusive BY <2>3, <2>5 DEF Store, workdayVars, ContractsInv
  <2> QED BY <2>4, <2>5
<1>10. ASSUME NEW u \in Clerks, SetStateStore(u) PROVE ContractsInv'
  <2>1. contractCall[u].op = "state" /\ contractCall[u] # Idle BY <1>10 DEF SetStateStore, Idle
  <2>2. PICK k : k = contractCall[u] OBVIOUS
  <2>3. PICK row : row = [contract[k.contract] EXCEPT !.state = k.target] /\ Store(u, k.contract, row)
    BY <1>10, <2>2 DEF SetStateStore
  <2>4. CASE exclusive
    <3>1. k \in [op : {"others", "state"}, contract : Contracts, target : States]
      BY <1>2, <2>1, <2>2, <2>4 DEF ContractCalls
    <3>2. /\ contract[k.contract] # NotMade
          /\ k.target = "running" => Running \subseteq {k.contract}
      BY <1>2, <2>1, <2>2, <2>4 DEF ContractChecked
    <3>3. contract[k.contract] \in ContractRows /\ DatesInOrder(contract[k.contract])
      BY <1>2, <2>1, <2>4, <3>1, <3>2 DEF ContractTypes, ContractsInv, InOrder
    <3>4. row \in ContractRows /\ row.state = k.target BY <2>3, <3>1, <3>3 DEF ContractRows
    <3>5. DatesInOrder(row) BY <2>3, <3>3 DEF DatesInOrder, ContractRows
    <3> QED BY <2>1, <2>3, <3>1, <3>2, <3>4, <3>5, StoreKeeps
  <2>5. CASE ~exclusive BY <2>3, <2>5 DEF Store, workdayVars, ContractsInv
  <2> QED BY <2>4, <2>5
<1>11. CASE ExpireContracts
  <2> SUFFICES ASSUME exclusive PROVE ContractsInv'
    BY <1>11 DEF ExpireContracts, workdayVars, ContractsInv
  <2>1. ContractTypes BY DEF ContractsInv
  <2>2. \A c \in Contracts : IF Overdue(c) THEN /\ contract'[c] = [contract[c] EXCEPT !.state = "expired"]
                                               /\ contract[c] \in ContractRows
                            ELSE contract'[c] = contract[c]
    BY <1>11, <2>1 DEF ExpireContracts, ContractTypes, Overdue, Running, NotMade
  <2>3. \A c \in Contracts : Overdue(c) => /\ contract'[c] \in ContractRows /\ contract'[c].state = "expired"
                                          /\ \A f \in {"start", "end", "trial"} : contract'[c][f] = contract[c][f]
    BY <2>2 DEF ContractRows, States
  <2>4. Running' \subseteq Running BY <2>2, <2>3 DEF Running
  <2>5. ContractTypes' BY <1>11, <2>1, <2>2, <2>3 DEF ContractTypes, ExpireContracts
  <2>6. \A c \in Contracts : contract[c] = NotMade <=> contract'[c] = NotMade
    BY <2>2, <2>3 DEF ContractRows, NotMade, Overdue, Running
  <2>7. OnlyOne' BY <2>4 DEF ContractsInv, OnlyOne
  <2>8. InOrder'
    BY <2>2, <2>3, <2>6 DEF ContractsInv, InOrder, DatesInOrder
  <2>9. UNCHANGED <<contractCall, exclusive>> BY <1>11 DEF ExpireContracts, workdayVars
  <2>10. ASSUME NEW u \in Clerks, contractCall[u] # Idle PROVE ContractChecked(contractCall[u])'
    <3>1. PICK k : k = contractCall[u] OBVIOUS
    <3>2. k \in ContractCalls /\ ContractChecked(k) /\ contractCall'[u] = k
      BY <2>1, <2>9, <2>10, <3>1 DEF ContractsInv, ContractTypes
    <3>3. CASE k.op = "insert"
      <4>1. k.contract \in Contracts BY <3>2, <3>3 DEF ContractCalls
      <4> QED BY <2>4, <2>6, <3>2, <3>3, <4>1 DEF ContractChecked
    <3>4. CASE k.op = "dates"
      <4>1. k \in [op : {"dates"}, contract : Contracts, field : {"start", "end", "trial"}, date : Dates]
        BY <3>2, <3>4 DEF ContractCalls
      <4>2. PICK old, new : old = contract[k.contract] /\ new = contract'[k.contract] OBVIOUS
      <4>3. old # NotMade /\ DatesInOrder([old EXCEPT ![k.field] = k.date]) /\ (k.field = "start" => k.date # NoDate)
        BY <3>2, <3>4, <4>2 DEF ContractChecked
      <4>4. /\ old \in ContractRows /\ new \in ContractRows
            /\ \A f \in {"start", "end", "trial"} : new[f] = old[f]
        BY <2>1, <2>2, <2>3, <4>1, <4>2, <4>3 DEF ContractTypes
      <4>5. DatesInOrder([new EXCEPT ![k.field] = k.date])
        BY <4>1, <4>3, <4>4 DEF DatesInOrder, ContractRows
      <4> QED BY <2>6, <3>2, <3>4, <4>1, <4>2, <4>3, <4>5 DEF ContractChecked
    <3>5. CASE k.op \in {"others", "state"}
      <4>1. k.contract \in Contracts BY <3>2, <3>5 DEF ContractCalls
      <4> QED BY <2>4, <2>6, <3>2, <3>5, <4>1 DEF ContractChecked
    <3> QED BY <3>2, <3>3, <3>4, <3>5 DEF ContractCalls
  <2> QED BY <2>5, <2>7, <2>8, <2>9, <2>10 DEF ContractsInv
<1>12. CASE NextDay /\ UNCHANGED <<contract, contractCall>>
  BY <1>1, <1>12 DEF NextDay
<1> QED
  BY <1>1, <1>3, <1>4, <1>5, <1>6, <1>7, <1>8, <1>9, <1>10, <1>11, <1>12
  DEF ContractsNext, contractsVars, workdayVars

\* Whatever the contracts, dates and clerks: when calls do not overlap, at most
\* one contract runs, its dates are in order, and it is the only candidate of
\* get_running_contract (_assert_no_other_running, run_contract_expiry).
THEOREM OneRuns == ContractsSpec => []OneContractRuns
<1>1. ContractsSpec => []ContractsInv
  BY ContractsInitInv, ContractsStepInv, PTL DEF ContractsSpec
<1>2. ContractsInv => OneContractRuns
  <2> SUFFICES ASSUME ContractsInv, exclusive
               PROVE  /\ Cardinality(Running) <= 1
                      /\ RunningContract = Running
                      /\ \A c \in Contracts : contract[c] # NotMade =>
                           /\ DatesInOrder(contract[c])
                           /\ EffectiveState(c) = "running" => c \in RunningContract
    BY DEF OneContractRuns
  <2>1. OnlyOne /\ InOrder /\ ContractTypes BY DEF ContractsInv
  <2>2. Cardinality(Running) <= 1 BY <2>1, AtMostOne DEF OnlyOne
  <2>3. \A c \in Running : contract[c].start \in Int
    <3> SUFFICES ASSUME NEW c \in Running PROVE contract[c].start \in Int
      OBVIOUS
    <3>1. contract[c] \in ContractRows BY <2>1 DEF ContractTypes, Running, NotMade
    <3>2. contract[c].start \in DateRange BY <3>1 DEF ContractRows
    <3>3. DateRange \subseteq Nat BY ContractsAssumption
    <3>4. contract[c].start \in Nat BY <3>2, <3>3, Zenon
    <3> QED BY <3>4
  <2>4. RunningContract = Running
    BY <2>1, <2>3 DEF OnlyOne, RunningContract, LatestOf
  <2>5. \A c \in Contracts : EffectiveState(c) = "running" => c \in Running
    BY DEF EffectiveState, Running
  <2> QED BY <2>1, <2>2, <2>4, <2>5 DEF InOrder
<1> QED BY <1>1, <1>2, PTL
-----------------------------------------------------------------------------
(* Recruitment.                                                            *)
ApplicantRows ==
  [stage : Stages, refused : BOOLEAN, employee : Employees \cup {Unset}, referral : Referrals \cup {Unset}]
ReferralRows == [applicant : Applicants \cup {Unset}]
RecruitCalls ==
  [op : {"employee"}, applicant : Applicants]
  \cup [op : {"link"}, applicant : Applicants, employee : Employees]
  \cup [op : {"apply"}, referral : Referrals]
  \cup [op : {"back"}, referral : Referrals, applicant : Applicants]

RecruitmentTypes ==
  /\ applicant \in [Applicants -> {Unmade} \cup ApplicantRows]
  /\ hiredFrom \in [Employees -> Applicants \cup {Unset}]
  /\ referral \in [Referrals -> {Unmade} \cup ReferralRows]
  /\ recruit \in [Recruiters -> {Idle} \cup RecruitCalls]

\* What the rows say of one another, whatever overlaps and fails.
LinksHold ==
  /\ \A r \in MadeReferrals : LET a == referral[r].applicant
                              IN a # Unset => a \in MadeApplicants /\ applicant[a].referral = r
  /\ \A a \in MadeApplicants : LET e == applicant[a].employee
                               IN e # Unset => hiredFrom[e] = a
  /\ \A e \in MadeEmployees : hiredFrom[e] \in MadeApplicants
  /\ \A a \in MadeApplicants : applicant[a].referral # Unset => applicant[a].referral \in MadeReferrals

\* What a call has made so far.
CallMade(k) ==
  /\ k.op = "employee" => k.applicant \in MadeApplicants
  /\ k.op = "link" => k.applicant \in MadeApplicants /\ hiredFrom[k.employee] = k.applicant
  /\ k.op = "apply" => k.referral \in MadeReferrals
  /\ k.op = "back" => /\ k.referral \in MadeReferrals /\ k.applicant \in MadeApplicants
                      /\ applicant[k.applicant].referral = k.referral

RecruitmentInv ==
  /\ RecruitmentTypes
  /\ LinksHold
  /\ \A u \in Recruiters : CallMade(recruit[u])

LEMMA RowFacts ==
  ASSUME RecruitmentTypes
  PROVE  /\ \A a \in MadeApplicants : a \in Applicants /\ applicant[a] \in ApplicantRows
         /\ \A r \in MadeReferrals : r \in Referrals /\ referral[r] \in ReferralRows
         /\ \A a \in MadeApplicants : a # Unset
         /\ \A e \in Employees : e # Unset
         /\ \A r \in Referrals : r # Unset
  BY RecruitmentAssumption DEF RecruitmentTypes, MadeApplicants, MadeReferrals

LEMMA RecruitmentInitInv == RecruitmentInit => RecruitmentInv
  BY DEF RecruitmentInit, RecruitmentInv, RecruitmentTypes, LinksHold, CallMade, MadeApplicants,
     MadeReferrals, MadeEmployees, Idle

\* The call of one user changes, the rows do not.
LEMMA RecruitTurn ==
  ASSUME RecruitmentInv, NEW u \in Recruiters, NEW k \in {Idle} \cup RecruitCalls, CallMade(k), Then(u, k),
         UNCHANGED <<applicant, hiredFrom, referral>>
  PROVE  RecruitmentInv'
<1>1. \A v \in Recruiters : recruit'[v] = IF v = u THEN k ELSE recruit[v]
  BY DEF Then, RecruitmentInv, RecruitmentTypes
<1>2. RecruitmentTypes' BY DEF Then, RecruitmentInv, RecruitmentTypes
<1>3. LinksHold' BY DEF RecruitmentInv, LinksHold, MadeApplicants, MadeReferrals, MadeEmployees
<1>4. CallMade(k)' BY DEF CallMade, MadeApplicants, MadeReferrals
<1>5. (\A v \in Recruiters : CallMade(recruit[v]))'
  <2> SUFFICES ASSUME NEW v \in Recruiters PROVE CallMade(recruit[v])'
    OBVIOUS
  <2>1. CASE v = u BY <1>1, <1>4, <2>1 DEF CallMade
  <2>2. CASE v # u BY <1>1, <2>2 DEF RecruitmentInv, CallMade, MadeApplicants, MadeReferrals
  <2> QED BY <2>1, <2>2
<1> QED BY <1>2, <1>3, <1>5 DEF RecruitmentInv

LEMMA IdleMade == CallMade(Idle)
  BY DEF CallMade, Idle

\* A row changes: nothing that is made is unmade, no applicant changes its
\* referral.
LEMMA RecruitRow ==
  ASSUME RecruitmentInv, NEW u \in Recruiters, NEW k \in {Idle} \cup RecruitCalls, CallMade(k)',
         recruit' = [recruit EXCEPT ![u] = k], RecruitmentTypes', LinksHold',
         MadeApplicants \subseteq MadeApplicants', MadeReferrals \subseteq MadeReferrals',
         \A a \in MadeApplicants : applicant'[a].referral = applicant[a].referral,
         \A e \in MadeEmployees : hiredFrom'[e] = hiredFrom[e]
  PROVE  RecruitmentInv'
<1>1. \A v \in Recruiters : recruit'[v] = IF v = u THEN k ELSE recruit[v]
  BY DEF RecruitmentInv, RecruitmentTypes
<1>5. (\A v \in Recruiters : CallMade(recruit[v]))'
  <2> SUFFICES ASSUME NEW v \in Recruiters PROVE CallMade(recruit[v])'
    OBVIOUS
  <2>1. CASE v = u BY <1>1, <2>1 DEF CallMade
  <2>2. CASE v # u
    <3>1. PICK c : c = recruit[v] /\ recruit'[v] = c BY <1>1, <2>2
    <3>2. CallMade(c) /\ c \in {Idle} \cup RecruitCalls BY <3>1 DEF RecruitmentInv, RecruitmentTypes
    <3>3. c.op = "link" => c.employee \in MadeEmployees
      BY <3>2, RowFacts DEF CallMade, MadeEmployees, RecruitCalls, Idle, RecruitmentInv
    <3>4. CallMade(c)' BY <3>2, <3>3 DEF CallMade
    <3> QED BY <3>1, <3>4 DEF CallMade
  <2> QED BY <2>1, <2>2
<1> QED BY <1>5 DEF RecruitmentInv

LEMMA RecruitmentStepInv == RecruitmentInv /\ [RecruitmentNext]_recruitmentVars => RecruitmentInv'
<1> SUFFICES ASSUME RecruitmentInv, [RecruitmentNext]_recruitmentVars PROVE RecruitmentInv'
  OBVIOUS
<1> USE DEF RecruitmentInv
<1>1. CASE UNCHANGED recruitmentVars
  BY <1>1 DEF recruitmentVars, RecruitmentTypes, LinksHold, CallMade, MadeApplicants, MadeReferrals, MadeEmployees
<1> SUFFICES ASSUME NEW u \in Recruiters,
                    \/ \E a \in Applicants :
                         \/ Apply(u, a) \/ RefuseApplicant(u, a) \/ HireBegin(u, a) \/ SubmitApplicant(u, a)
                         \/ \E stage \in Stages : SetStage(u, a, stage)
                    \/ \E e \in Employees : HireCreate(u, e)
                    \/ \E r \in Referrals : SubmitReferral(u, r)
                    \/ HireLink(u) \/ SubmitLink(u) \/ RecruiterFails(u)
             PROVE  RecruitmentInv'
  BY <1>1 DEF RecruitmentNext
<1> DEFINE c == recruit[u]
<1>2. c \in {Idle} \cup RecruitCalls /\ CallMade(c) BY DEF RecruitmentTypes
<1>3. recruit' = recruit => recruit' = [recruit EXCEPT ![u] = c] BY DEF RecruitmentTypes
<1>4. ASSUME NEW a \in Applicants, Apply(u, a) PROVE RecruitmentInv'
  <2>1. PICK row : row = [stage |-> FirstStage, refused |-> FALSE, employee |-> Unset, referral |-> Unset]
    OBVIOUS
  <2>2. row \in ApplicantRows /\ row # Unmade BY <2>1, RecruitmentAssumption DEF ApplicantRows, Unmade
  <2>3. /\ a \notin MadeApplicants /\ applicant' = [applicant EXCEPT ![a] = row]
        /\ UNCHANGED <<hiredFrom, referral, recruit>>
    BY <1>4, <2>1 DEF Apply, Applied
  <2>4. \A b \in Applicants : applicant'[b] = IF b = a THEN row ELSE applicant[b] BY <2>3 DEF RecruitmentTypes
  <2>5. RecruitmentTypes' BY <2>2, <2>3 DEF RecruitmentTypes
  <2>6. MadeApplicants' = MadeApplicants \cup {a} BY <2>2, <2>4 DEF MadeApplicants
  <2>7. LinksHold' BY <2>1, <2>3, <2>4, <2>6, RowFacts DEF LinksHold, MadeReferrals, MadeEmployees
  <2>8. CallMade(c)' BY <1>2, <2>3, <2>4, <2>6, RowFacts DEF CallMade, MadeReferrals
  <2> QED BY <1>2, <1>3, <2>3, <2>4, <2>5, <2>6, <2>7, <2>8, RowFacts, RecruitRow DEF MadeReferrals, CallMade
<1>5. ASSUME NEW a \in Applicants, NEW row,
             a \in MadeApplicants, applicant' = [applicant EXCEPT ![a] = row], row \in ApplicantRows,
             row.referral = applicant[a].referral, row.employee = applicant[a].employee,
             UNCHANGED <<hiredFrom, referral, recruit>>
      PROVE  RecruitmentInv'
  <2>1. \A b \in Applicants : applicant'[b] = IF b = a THEN row ELSE applicant[b] BY <1>5 DEF RecruitmentTypes
  <2>2. RecruitmentTypes' BY <1>5 DEF RecruitmentTypes
  <2>3. row # Unmade BY <1>5 DEF ApplicantRows, Unmade
  <2>4. MadeApplicants' = MadeApplicants BY <1>5, <2>1, <2>3 DEF MadeApplicants
  <2>5. LinksHold' BY <1>5, <2>1, <2>4, RowFacts DEF LinksHold, MadeReferrals, MadeEmployees
  <2>6. CallMade(c)' BY <1>2, <1>5, <2>1, <2>4, RowFacts DEF CallMade, MadeReferrals
  <2> QED BY <1>2, <1>3, <1>5, <2>1, <2>2, <2>4, <2>5, <2>6, RowFacts, RecruitRow DEF MadeReferrals, CallMade
<1>6. ASSUME NEW a \in Applicants, NEW stage \in Stages, SetStage(u, a, stage) PROVE RecruitmentInv'
  <2>1. PICK row : row = [applicant[a] EXCEPT !.stage = stage] OBVIOUS
  <2>2. applicant[a] \in ApplicantRows BY <1>6, RowFacts DEF SetStage
  <2>3. row \in ApplicantRows /\ row.referral = applicant[a].referral /\ row.employee = applicant[a].employee
    BY <2>1, <2>2 DEF ApplicantRows
  <2> QED BY <1>5, <1>6, <2>1, <2>3 DEF SetStage
<1>7. ASSUME NEW a \in Applicants, RefuseApplicant(u, a) PROVE RecruitmentInv'
  <2>1. PICK row : row = [applicant[a] EXCEPT !.refused = TRUE] OBVIOUS
  <2>2. applicant[a] \in ApplicantRows BY <1>7, RowFacts DEF RefuseApplicant
  <2>3. row \in ApplicantRows /\ row.referral = applicant[a].referral /\ row.employee = applicant[a].employee
    BY <2>1, <2>2 DEF ApplicantRows
  <2> QED BY <1>5, <1>7, <2>1, <2>3 DEF RefuseApplicant
<1>8. ASSUME NEW a \in Applicants, HireBegin(u, a) PROVE RecruitmentInv'
  <2>1. PICK k : k = [op |-> "employee", applicant |-> a] OBVIOUS
  <2>2. k \in RecruitCalls /\ CallMade(k) BY <1>8, <2>1 DEF RecruitCalls, CallMade, HireBegin
  <2> QED BY <1>8, <2>1, <2>2, RecruitTurn DEF HireBegin
<1>9. CASE RecruiterFails(u) BY <1>9, IdleMade, RecruitTurn DEF RecruiterFails
<1>10. ASSUME NEW e \in Employees, HireCreate(u, e) PROVE RecruitmentInv'
  <2>1. PICK k : k = [op |-> "link", applicant |-> c.applicant, employee |-> e] OBVIOUS
  <2>2. c.op = "employee" /\ c.applicant \in Applicants /\ c.applicant \in MadeApplicants
    BY <1>2, <1>10, RowFacts DEF HireCreate, CallMade
  <2>3. /\ e \notin MadeEmployees /\ hiredFrom' = [hiredFrom EXCEPT ![e] = c.applicant]
        /\ recruit' = [recruit EXCEPT ![u] = k] /\ UNCHANGED <<applicant, referral>>
    BY <1>10, <2>1 DEF HireCreate, Then
  <2>4. k \in RecruitCalls BY <2>1, <2>2 DEF RecruitCalls
  <2>5. \A d \in Employees : hiredFrom'[d] = IF d = e THEN c.applicant ELSE hiredFrom[d] BY <2>3 DEF RecruitmentTypes
  <2>6. RecruitmentTypes' BY <2>2, <2>3, <2>4 DEF RecruitmentTypes
  <2>7. MadeApplicants' = MadeApplicants /\ MadeReferrals' = MadeReferrals BY <2>3 DEF MadeApplicants, MadeReferrals
  <2>8. MadeEmployees' \subseteq MadeEmployees \cup {e} BY <2>5 DEF MadeEmployees
  <2>9. LinksHold'
    <3>1. \A b \in MadeApplicants : applicant[b].employee # Unset =>
             applicant[b].employee \in MadeEmployees
      BY RowFacts DEF LinksHold, MadeEmployees, ApplicantRows
    <3> QED BY <2>2, <2>3, <2>5, <2>7, <2>8, <3>1 DEF LinksHold, MadeEmployees
  <2>10. CallMade(k)' BY <2>1, <2>2, <2>5, <2>7 DEF CallMade
  <2>11. \A d \in MadeEmployees : hiredFrom'[d] = hiredFrom[d] BY <2>3, <2>5 DEF MadeEmployees
  <2> QED BY <2>3, <2>4, <2>6, <2>7, <2>9, <2>10, <2>11, RecruitRow
<1>11. CASE HireLink(u)
  <2> DEFINE a == c.applicant
  <2>1. c \in [op : {"link"}, applicant : Applicants, employee : Employees] /\ CallMade(c)
    BY <1>2, <1>11 DEF HireLink, RecruitCalls, Idle
  <2>2. a \in MadeApplicants /\ hiredFrom[c.employee] = a /\ applicant[a] \in ApplicantRows
    BY <2>1, RowFacts DEF CallMade
  <2>3. PICK row : row = [applicant[a] EXCEPT !.employee = c.employee] OBVIOUS
  <2>4. /\ applicant' = [applicant EXCEPT ![a] = row] /\ recruit' = [recruit EXCEPT ![u] = Idle]
        /\ UNCHANGED <<hiredFrom, referral>>
    BY <1>11, <2>3 DEF HireLink, Then
  <2>5. row \in ApplicantRows /\ row.referral = applicant[a].referral /\ row.employee = c.employee /\ row # Unmade
    BY <2>1, <2>2, <2>3 DEF ApplicantRows, Unmade
  <2>6. \A b \in Applicants : applicant'[b] = IF b = a THEN row ELSE applicant[b] BY <2>4 DEF RecruitmentTypes
  <2>7. RecruitmentTypes' BY <2>4, <2>5 DEF RecruitmentTypes
  <2>8. MadeApplicants' = MadeApplicants BY <2>2, <2>5, <2>6 DEF MadeApplicants
  <2> HIDE DEF a
  <2>9. LinksHold' BY <2>2, <2>4, <2>5, <2>6, <2>8, RowFacts DEF LinksHold, MadeReferrals, MadeEmployees
  <2>10. CallMade(Idle)' BY DEF CallMade, Idle
  <2> QED BY <2>4, <2>5, <2>6, <2>7, <2>8, <2>9, <2>10, RowFacts, RecruitRow DEF MadeReferrals
<1>12. ASSUME NEW r \in Referrals, SubmitReferral(u, r) PROVE RecruitmentInv'
  <2>1. PICK k, row : k = [op |-> "apply", referral |-> r] /\ row = [applicant |-> Unset] OBVIOUS
  <2>2. /\ r \notin MadeReferrals /\ referral' = [referral EXCEPT ![r] = row]
        /\ recruit' = [recruit EXCEPT ![u] = k] /\ UNCHANGED <<applicant, hiredFrom>>
    BY <1>12, <2>1 DEF SubmitReferral, Then
  <2>3. k \in RecruitCalls /\ row \in ReferralRows /\ row # Unmade /\ row.applicant = Unset
    BY <2>1 DEF RecruitCalls, ReferralRows, Unmade
  <2>4. \A q \in Referrals : referral'[q] = IF q = r THEN row ELSE referral[q] BY <2>2 DEF RecruitmentTypes
  <2>5. RecruitmentTypes' BY <2>2, <2>3 DEF RecruitmentTypes
  <2>6. MadeReferrals' = MadeReferrals \cup {r} /\ MadeApplicants' = MadeApplicants /\ MadeEmployees' = MadeEmployees
    BY <2>2, <2>3, <2>4 DEF MadeReferrals, MadeApplicants, MadeEmployees
  <2>7. LinksHold' BY <2>2, <2>3, <2>4, <2>6, RowFacts DEF LinksHold
  <2>8. CallMade(k)' BY <2>1, <2>6 DEF CallMade
  <2> QED BY <2>2, <2>3, <2>5, <2>6, <2>7, <2>8, RecruitRow
<1>13. ASSUME NEW a \in Applicants, SubmitApplicant(u, a) PROVE RecruitmentInv'
  <2>1. c.op = "apply" /\ c.referral \in Referrals /\ c.referral \in MadeReferrals
    BY <1>2, <1>13, RowFacts DEF SubmitApplicant, CallMade
  <2>2. PICK k, row : /\ k = [op |-> "back", referral |-> c.referral, applicant |-> a]
                      /\ row = [stage |-> FirstStage, refused |-> FALSE, employee |-> Unset, referral |-> c.referral]
    OBVIOUS
  <2>3. /\ a \notin MadeApplicants /\ applicant' = [applicant EXCEPT ![a] = row]
        /\ recruit' = [recruit EXCEPT ![u] = k] /\ UNCHANGED <<hiredFrom, referral>>
    BY <1>13, <2>2 DEF SubmitApplicant, Applied, Then
  <2>4. k \in RecruitCalls /\ row \in ApplicantRows /\ row # Unmade /\ row.referral = c.referral /\ row.employee = Unset
    BY <2>1, <2>2, RecruitmentAssumption DEF RecruitCalls, ApplicantRows, Unmade
  <2>5. \A b \in Applicants : applicant'[b] = IF b = a THEN row ELSE applicant[b] BY <2>3 DEF RecruitmentTypes
  <2>6. RecruitmentTypes' BY <2>3, <2>4 DEF RecruitmentTypes
  <2>7. /\ MadeApplicants' = MadeApplicants \cup {a} /\ MadeReferrals' = MadeReferrals
        /\ MadeEmployees' = MadeEmployees
    BY <2>3, <2>4, <2>5 DEF MadeApplicants, MadeReferrals, MadeEmployees
  <2>8. LinksHold' BY <2>1, <2>3, <2>4, <2>5, <2>7, RowFacts DEF LinksHold
  <2>9. CallMade(k)' BY <2>1, <2>2, <2>4, <2>5, <2>7 DEF CallMade
  <2> QED BY <2>3, <2>4, <2>5, <2>6, <2>7, <2>8, <2>9, RowFacts, RecruitRow
<1>14. CASE SubmitLink(u)
  <2> DEFINE r == c.referral
  <2>1. c \in [op : {"back"}, referral : Referrals, applicant : Applicants] /\ CallMade(c)
    BY <1>2, <1>14 DEF SubmitLink, RecruitCalls, Idle
  <2>2. /\ r \in MadeReferrals /\ c.applicant \in MadeApplicants /\ applicant[c.applicant].referral = r
        /\ referral[r] \in ReferralRows
    BY <2>1, RowFacts DEF CallMade
  <2>3. PICK row : row = [referral[r] EXCEPT !.applicant = c.applicant] OBVIOUS
  <2>4. /\ referral' = [referral EXCEPT ![r] = row] /\ recruit' = [recruit EXCEPT ![u] = Idle]
        /\ UNCHANGED <<applicant, hiredFrom>>
    BY <1>14, <2>3 DEF SubmitLink, Then
  <2>5. row \in ReferralRows /\ row.applicant = c.applicant /\ row # Unmade
    BY <2>1, <2>2, <2>3 DEF ReferralRows, Unmade
  <2>6. \A q \in Referrals : referral'[q] = IF q = r THEN row ELSE referral[q] BY <2>4 DEF RecruitmentTypes
  <2>7. RecruitmentTypes' BY <2>4, <2>5 DEF RecruitmentTypes
  <2>8. MadeReferrals' = MadeReferrals /\ MadeApplicants' = MadeApplicants /\ MadeEmployees' = MadeEmployees
    BY <2>2, <2>4, <2>5, <2>6 DEF MadeReferrals, MadeApplicants, MadeEmployees
  <2> HIDE DEF r
  <2>9. LinksHold' BY <2>2, <2>4, <2>5, <2>6, <2>8, RowFacts DEF LinksHold
  <2>10. CallMade(Idle)' BY DEF CallMade, Idle
  <2> QED BY <2>4, <2>7, <2>8, <2>9, <2>10, RecruitRow
<1> QED BY <1>4, <1>6, <1>7, <1>8, <1>9, <1>10, <1>11, <1>12, <1>13, <1>14

\* What is whole between calls, when they neither overlap nor end early: what
\* is missing is what the call under way is about to write.
Linking(u, a, e) == recruit[u].op = "link" /\ recruit[u].applicant = a /\ recruit[u].employee = e
LinkingBack(u, r, a) == recruit[u].op = "back" /\ recruit[u].referral = r /\ recruit[u].applicant = a
WholeInv ==
  exclusive /\ ~broken =>
    /\ \A u, v \in Recruiters : u # v => recruit[u] = Idle \/ recruit[v] = Idle
    /\ \A d, e \in MadeEmployees : d # e => hiredFrom[d] # hiredFrom[e]
    /\ \A e \in MadeEmployees : \/ applicant[hiredFrom[e]].employee = e
                                \/ \E u \in Recruiters : Linking(u, hiredFrom[e], e)
    /\ \A a \in MadeApplicants : applicant[a].referral # Unset =>
         \/ referral[applicant[a].referral].applicant = a
         \/ \E u \in Recruiters : LinkingBack(u, applicant[a].referral, a)
    /\ \A u \in Recruiters :
         /\ recruit[u].op = "employee" => applicant[recruit[u].applicant].employee = Unset
         /\ recruit[u].op \in {"apply", "back"} => referral[recruit[u].referral].applicant = Unset

LEMMA WholeStepInv == RecruitmentInv /\ WholeInv /\ [RecruitmentNext]_recruitmentVars => WholeInv'
<1> SUFFICES ASSUME RecruitmentInv, WholeInv, [RecruitmentNext]_recruitmentVars PROVE WholeInv'
  OBVIOUS
<1>1. CASE UNCHANGED recruitmentVars
  BY <1>1 DEF recruitmentVars, workdayVars, WholeInv, Linking, LinkingBack, MadeApplicants, MadeReferrals, MadeEmployees
<1> SUFFICES ASSUME NEW u \in Recruiters,
                    \/ \E a \in Applicants :
                         \/ Apply(u, a) \/ RefuseApplicant(u, a) \/ HireBegin(u, a) \/ SubmitApplicant(u, a)
                         \/ \E stage \in Stages : SetStage(u, a, stage)
                    \/ \E e \in Employees : HireCreate(u, e)
                    \/ \E r \in Referrals : SubmitReferral(u, r)
                    \/ HireLink(u) \/ SubmitLink(u) \/ RecruiterFails(u),
                    exclusive', ~broken'
             PROVE  WholeInv'
  BY <1>1 DEF RecruitmentNext, WholeInv
<1>2. exclusive /\ ~broken
  <2>1. UNCHANGED workdayVars
    BY DEF Apply, RefuseApplicant, HireBegin, SubmitApplicant, SetStage, HireCreate, SubmitReferral,
       HireLink, SubmitLink, RecruiterFails
  <2>2. ~RecruiterFails(u) BY DEF RecruiterFails
  <2>3. broken' = broken
    BY <2>2 DEF Apply, RefuseApplicant, HireBegin, SubmitApplicant, SetStage, HireCreate, SubmitReferral,
       HireLink, SubmitLink
  <2> QED BY <2>1, <2>3 DEF workdayVars
<1>3. RecruitmentTypes /\ LinksHold BY DEF RecruitmentInv
<1> DEFINE c == recruit[u]
<1>4. c \in {Idle} \cup RecruitCalls /\ CallMade(c) BY DEF RecruitmentInv, RecruitmentTypes
<1>5. c # Idle => \A v \in Recruiters : v # u => recruit[v] = Idle BY <1>2 DEF WholeInv
<1>6. MayCall(recruit, u) => \A v \in Recruiters : recruit[v] = Idle
  BY <1>2, <1>3 DEF MayCall, RecruitmentTypes
<1>7. Idle.op = "idle" BY DEF Idle
<1>8. ASSUME NEW k, recruit' = [recruit EXCEPT ![u] = k], c # Idle \/ MayCall(recruit, u)
      PROVE  recruit'[u] = k /\ \A v \in Recruiters : v # u => recruit'[v] = Idle
  BY <1>3, <1>5, <1>6, <1>8 DEF RecruitmentTypes
<1>9. ASSUME NEW a \in Applicants, Apply(u, a) PROVE WholeInv'
  <2>1. PICK row : row = [stage |-> FirstStage, refused |-> FALSE, employee |-> Unset, referral |-> Unset]
    OBVIOUS
  <2>2. /\ a \notin MadeApplicants /\ applicant' = [applicant EXCEPT ![a] = row]
        /\ UNCHANGED <<hiredFrom, referral, recruit>>
    BY <1>9, <2>1 DEF Apply, Applied
  <2>3. \A b \in Applicants : applicant'[b] = IF b = a THEN row ELSE applicant[b]
    BY <1>3, <2>2 DEF RecruitmentTypes
  <2>4. \A v \in Recruiters : recruit'[v] = Idle BY <1>6, <1>9, <2>2 DEF Apply
  <2>5. MadeApplicants' \subseteq MadeApplicants \cup {a} /\ MadeEmployees' = MadeEmployees
    BY <2>2, <2>3 DEF MadeApplicants, MadeEmployees
  <2> QED
    BY <1>2, <1>3, <1>6, <1>7, <1>9, <2>1, <2>2, <2>3, <2>4, <2>5, RowFacts
    DEF WholeInv, Linking, LinkingBack, LinksHold, Apply
<1>10. ASSUME NEW a \in Applicants, NEW row, a \in MadeApplicants, applicant' = [applicant EXCEPT ![a] = row],
              row.referral = applicant[a].referral, row.employee = applicant[a].employee, row # Unmade,
              UNCHANGED <<hiredFrom, referral, recruit>>
       PROVE  WholeInv'
  <2>1. \A b \in Applicants : applicant'[b] = IF b = a THEN row ELSE applicant[b]
    BY <1>3, <1>10 DEF RecruitmentTypes
  <2>2. MadeApplicants' = MadeApplicants /\ MadeEmployees' = MadeEmployees
    BY <1>10, <2>1 DEF MadeApplicants, MadeEmployees
  <2>3. \A b \in MadeApplicants : /\ applicant'[b].referral = applicant[b].referral
                                  /\ applicant'[b].employee = applicant[b].employee
    BY <1>3, <1>10, <2>1, RowFacts
  <2>4. \A v \in Recruiters : recruit[v].op = "employee" => recruit[v].applicant \in MadeApplicants
    BY DEF RecruitmentInv, CallMade
  <2> QED
    BY <1>2, <1>3, <1>10, <2>2, <2>3, <2>4 DEF WholeInv, Linking, LinkingBack, LinksHold
<1>11. ASSUME NEW a \in Applicants, NEW stage \in Stages, SetStage(u, a, stage) PROVE WholeInv'
  <2>1. PICK row : row = [applicant[a] EXCEPT !.stage = stage] OBVIOUS
  <2>2. applicant[a] \in ApplicantRows BY <1>3, <1>11, RowFacts DEF SetStage
  <2>3. row.referral = applicant[a].referral /\ row.employee = applicant[a].employee /\ row # Unmade
    BY <2>1, <2>2 DEF ApplicantRows, Unmade
  <2> QED BY <1>10, <1>11, <2>1, <2>3 DEF SetStage
<1>12. ASSUME NEW a \in Applicants, RefuseApplicant(u, a) PROVE WholeInv'
  <2>1. PICK row : row = [applicant[a] EXCEPT !.refused = TRUE] OBVIOUS
  <2>2. applicant[a] \in ApplicantRows BY <1>3, <1>12, RowFacts DEF RefuseApplicant
  <2>3. row.referral = applicant[a].referral /\ row.employee = applicant[a].employee /\ row # Unmade
    BY <2>1, <2>2 DEF ApplicantRows, Unmade
  <2> QED BY <1>10, <1>12, <2>1, <2>3 DEF RefuseApplicant
<1>13. ASSUME NEW a \in Applicants, HireBegin(u, a) PROVE WholeInv'
  <2>1. PICK k : k = [op |-> "employee", applicant |-> a] OBVIOUS
  <2>2. /\ recruit' = [recruit EXCEPT ![u] = k] /\ UNCHANGED <<applicant, hiredFrom, referral>>
        /\ MayCall(recruit, u) /\ applicant[a].employee = Unset
    BY <1>13, <2>1 DEF HireBegin, Then
  <2>3. recruit'[u] = k /\ \A v \in Recruiters : v # u => recruit'[v] = Idle BY <1>8, <2>2
  <2>4. \A v \in Recruiters : recruit[v] = Idle BY <1>6, <2>2
  <2>5. MadeApplicants' = MadeApplicants /\ MadeEmployees' = MadeEmployees
    BY <2>2 DEF MadeApplicants, MadeEmployees
  <2>6. \A e \in MadeEmployees : applicant[hiredFrom[e]].employee = e
    BY <1>2, <1>7, <2>4 DEF WholeInv, Linking
  <2>7. \A b \in MadeApplicants : applicant[b].referral # Unset => referral[applicant[b].referral].applicant = b
    BY <1>2, <1>7, <2>4 DEF WholeInv, LinkingBack
  <2> QED BY <1>2, <1>7, <2>1, <2>2, <2>3, <2>5, <2>6, <2>7 DEF WholeInv
<1>14. ASSUME NEW e \in Employees, HireCreate(u, e) PROVE WholeInv'
  <2>1. PICK k : k = [op |-> "link", applicant |-> c.applicant, employee |-> e] OBVIOUS
  <2>2. /\ c.op = "employee" /\ e \notin MadeEmployees /\ hiredFrom' = [hiredFrom EXCEPT ![e] = c.applicant]
        /\ recruit' = [recruit EXCEPT ![u] = k] /\ UNCHANGED <<applicant, referral>>
    BY <1>14, <2>1 DEF HireCreate, Then
  <2>3. recruit'[u] = k /\ \A v \in Recruiters : v # u => recruit'[v] = Idle BY <1>7, <1>8, <2>2
  <2>4. \A d \in Employees : hiredFrom'[d] = IF d = e THEN c.applicant ELSE hiredFrom[d]
    BY <1>3, <2>2 DEF RecruitmentTypes
  <2>5. MadeApplicants' = MadeApplicants /\ MadeEmployees' \subseteq MadeEmployees \cup {e}
    BY <2>2, <2>4 DEF MadeApplicants, MadeEmployees
  <2>6. \A v \in Recruiters : recruit[v].op \notin {"link", "back"} BY <1>5, <1>7, <2>2
  <2>7. \A d \in MadeEmployees : d \in Employees /\ applicant[hiredFrom[d]].employee = d
    BY <1>2, <2>6 DEF WholeInv, Linking, MadeEmployees
  <2>8. \A b \in MadeApplicants : applicant[b].referral # Unset => referral[applicant[b].referral].applicant = b
    BY <1>2, <2>6 DEF WholeInv, LinkingBack
  <2>9. applicant[c.applicant].employee = Unset /\ c.applicant \in MadeApplicants BY <1>2, <1>4, <2>2 DEF WholeInv, CallMade
  <2>10. \A d \in MadeEmployees : hiredFrom[d] # c.applicant BY <1>3, <2>7, <2>9, RowFacts
  <2>11. Linking(u, c.applicant, e)' BY <2>1, <2>2, <2>3, <2>4 DEF Linking
  <2>12. (\A d \in MadeEmployees : applicant[hiredFrom[d]].employee = d \/ \E v \in Recruiters : Linking(v, hiredFrom[d], d))'
    <3> SUFFICES ASSUME NEW d \in MadeEmployees'
                 PROVE  (applicant[hiredFrom[d]].employee = d \/ \E v \in Recruiters : Linking(v, hiredFrom[d], d))'
      OBVIOUS
    <3>1. CASE d = e BY <2>1, <2>3, <2>4, <3>1 DEF Linking
    <3>2. CASE d # e BY <2>2, <2>4, <2>5, <2>7, <3>2
    <3> QED BY <3>1, <3>2
  <2>13. \A d, f \in MadeEmployees' : d # f => hiredFrom'[d] # hiredFrom'[f]
    BY <1>2, <2>4, <2>5, <2>7, <2>10 DEF WholeInv
  <2> QED BY <1>7, <2>1, <2>2, <2>3, <2>5, <2>8, <2>12, <2>13 DEF WholeInv
<1>15. CASE HireLink(u)
  <2> DEFINE a == c.applicant
  <2>1. c \in [op : {"link"}, applicant : Applicants, employee : Employees]
    BY <1>4, <1>15 DEF HireLink, RecruitCalls, Idle
  <2>2. a \in MadeApplicants /\ hiredFrom[c.employee] = a /\ applicant[a] \in ApplicantRows
    BY <1>3, <1>4, <2>1, RowFacts DEF CallMade
  <2>3. PICK row : row = [applicant[a] EXCEPT !.employee = c.employee] OBVIOUS
  <2>4. /\ applicant' = [applicant EXCEPT ![a] = row] /\ recruit' = [recruit EXCEPT ![u] = Idle]
        /\ UNCHANGED <<hiredFrom, referral>>
    BY <1>15, <2>3 DEF HireLink, Then
  <2>5. row.referral = applicant[a].referral /\ row.employee = c.employee
    BY <2>1, <2>2, <2>3 DEF ApplicantRows
  <2>6. \A b \in Applicants : applicant'[b] = IF b = a THEN row ELSE applicant[b]
    BY <1>3, <2>4 DEF RecruitmentTypes
  <2>7. MadeApplicants' \subseteq MadeApplicants /\ MadeEmployees' = MadeEmployees
    BY <2>2, <2>4, <2>6 DEF MadeApplicants, MadeEmployees
  <2>8. c # Idle /\ \A v \in Recruiters : v # u => recruit[v] = Idle BY <1>5, <1>7, <2>1
  <2>9. \A v \in Recruiters : recruit'[v] = Idle BY <1>8, <2>4, <2>8
  <2>10. \A e \in MadeEmployees : e # c.employee => applicant[hiredFrom[e]].employee = e /\ hiredFrom[e] # a
    <3>1. c.employee \in MadeEmployees BY <1>3, <2>1, <2>2, RowFacts DEF MadeEmployees
    <3> QED BY <1>2, <1>7, <2>1, <2>2, <2>8, <3>1 DEF WholeInv, Linking
  <2>11. \A b \in MadeApplicants : applicant[b].referral # Unset => referral[applicant[b].referral].applicant = b
    BY <1>2, <1>7, <2>1, <2>8 DEF WholeInv, LinkingBack
  <2>12. \A e \in MadeEmployees : hiredFrom[e] \in Applicants BY <1>3, RowFacts DEF LinksHold
  <2>13. \A e \in MadeEmployees : applicant'[hiredFrom[e]].employee = e
    BY <2>2, <2>5, <2>6, <2>10, <2>12
  <2>14. \A b \in MadeApplicants : b \in Applicants /\ applicant'[b].referral = applicant[b].referral
    BY <1>3, <2>5, <2>6, RowFacts
  <2> HIDE DEF a
  <2> QED BY <1>2, <1>7, <2>4, <2>7, <2>9, <2>11, <2>13, <2>14 DEF WholeInv
<1>16. ASSUME NEW r \in Referrals, SubmitReferral(u, r) PROVE WholeInv'
  <2>1. PICK k, row : k = [op |-> "apply", referral |-> r] /\ row = [applicant |-> Unset] OBVIOUS
  <2>2. /\ r \notin MadeReferrals /\ referral' = [referral EXCEPT ![r] = row] /\ MayCall(recruit, u)
        /\ recruit' = [recruit EXCEPT ![u] = k] /\ UNCHANGED <<applicant, hiredFrom>>
    BY <1>16, <2>1 DEF SubmitReferral, Then
  <2>3. recruit'[u] = k /\ \A v \in Recruiters : v # u => recruit'[v] = Idle BY <1>8, <2>2
  <2>4. \A v \in Recruiters : recruit[v] = Idle BY <1>6, <2>2
  <2>5. \A q \in Referrals : referral'[q] = IF q = r THEN row ELSE referral[q] BY <1>3, <2>2 DEF RecruitmentTypes
  <2>6. MadeApplicants' = MadeApplicants /\ MadeEmployees' = MadeEmployees
    BY <2>2 DEF MadeApplicants, MadeEmployees
  <2>7. \A e \in MadeEmployees : applicant[hiredFrom[e]].employee = e
    BY <1>2, <1>7, <2>4 DEF WholeInv, Linking
  <2>8. \A b \in MadeApplicants : applicant[b].referral # Unset => referral[applicant[b].referral].applicant = b
    BY <1>2, <1>7, <2>4 DEF WholeInv, LinkingBack
  <2>9. \A b \in MadeApplicants : applicant[b].referral # Unset => applicant[b].referral \in Referrals
    BY <1>3, RowFacts DEF ApplicantRows
  <2>10. referral[r] = Unmade BY <2>2 DEF MadeReferrals
  <2>11. \A b \in MadeApplicants : applicant[b].referral # r
    BY <1>3, <2>2, RowFacts DEF LinksHold
  <2> QED BY <1>2, <1>7, <2>1, <2>2, <2>3, <2>5, <2>6, <2>7, <2>8, <2>9, <2>11 DEF WholeInv
<1>17. ASSUME NEW a \in Applicants, SubmitApplicant(u, a) PROVE WholeInv'
  <2> DEFINE r == c.referral
  <2>1. c.op = "apply" /\ r \in MadeReferrals BY <1>4, <1>17 DEF SubmitApplicant, CallMade
  <2>2. PICK k, row : /\ k = [op |-> "back", referral |-> r, applicant |-> a]
                      /\ row = [stage |-> FirstStage, refused |-> FALSE, employee |-> Unset, referral |-> r]
    OBVIOUS
  <2>3. /\ a \notin MadeApplicants /\ applicant' = [applicant EXCEPT ![a] = row]
        /\ recruit' = [recruit EXCEPT ![u] = k] /\ UNCHANGED <<hiredFrom, referral>>
    BY <1>17, <2>2 DEF SubmitApplicant, Applied, Then
  <2>4. recruit'[u] = k /\ \A v \in Recruiters : v # u => recruit'[v] = Idle BY <1>7, <1>8, <2>1, <2>3
  <2>5. \A v \in Recruiters : recruit[v].op \notin {"link", "back"} BY <1>5, <1>7, <2>1
  <2>6. \A b \in Applicants : applicant'[b] = IF b = a THEN row ELSE applicant[b]
    BY <1>3, <2>3 DEF RecruitmentTypes
  <2>7. MadeApplicants' \subseteq MadeApplicants \cup {a} /\ MadeEmployees' = MadeEmployees
    BY <2>3, <2>6 DEF MadeApplicants, MadeEmployees
  <2>8. \A e \in MadeEmployees : applicant[hiredFrom[e]].employee = e
    BY <1>2, <2>5 DEF WholeInv, Linking
  <2>9. \A b \in MadeApplicants : applicant[b].referral # Unset => referral[applicant[b].referral].applicant = b
    BY <1>2, <2>5 DEF WholeInv, LinkingBack
  <2>10. referral[r].applicant = Unset BY <1>2, <2>1 DEF WholeInv
  <2>11. \A e \in MadeEmployees : hiredFrom[e] \in MadeApplicants BY <1>3 DEF LinksHold
  <2>12. \A e \in MadeEmployees : applicant'[hiredFrom[e]].employee = e
    BY <1>3, <2>3, <2>6, <2>8, <2>11, RowFacts
  <2>13. (\A b \in MadeApplicants : applicant[b].referral # Unset =>
            \/ referral[applicant[b].referral].applicant = b
            \/ \E v \in Recruiters : LinkingBack(v, applicant[b].referral, b))'
    <3> SUFFICES ASSUME NEW b \in MadeApplicants', applicant'[b].referral # Unset
                 PROVE  (\/ referral[applicant[b].referral].applicant = b
                         \/ \E v \in Recruiters : LinkingBack(v, applicant[b].referral, b))'
      OBVIOUS
    <3>1. CASE b = a
      <4>1. applicant'[a].referral = r BY <2>2, <2>6
      <4>2. LinkingBack(u, applicant[b].referral, b)' BY <2>2, <2>4, <3>1, <4>1 DEF LinkingBack
      <4> QED BY <4>2
    <3>2. CASE b # a BY <1>3, <2>3, <2>6, <2>7, <2>9, <3>2, RowFacts
    <3> QED BY <3>1, <3>2
  <2>14. (\A v \in Recruiters :
            /\ recruit[v].op = "employee" => applicant[recruit[v].applicant].employee = Unset
            /\ recruit[v].op \in {"apply", "back"} => referral[recruit[v].referral].applicant = Unset)'
    BY <1>7, <2>2, <2>3, <2>4, <2>10
  <2> QED BY <1>2, <2>3, <2>4, <2>7, <2>12, <2>13, <2>14 DEF WholeInv
<1>18. CASE SubmitLink(u)
  <2> DEFINE r == c.referral
             a == c.applicant
  <2>1. c \in [op : {"back"}, referral : Referrals, applicant : Applicants] /\ CallMade(c)
    BY <1>4, <1>18 DEF SubmitLink, RecruitCalls, Idle
  <2>2. /\ r \in MadeReferrals /\ a \in MadeApplicants /\ applicant[a].referral = r
        /\ referral[r] \in ReferralRows
    BY <1>3, <2>1, RowFacts DEF CallMade
  <2>3. PICK row : row = [referral[r] EXCEPT !.applicant = a] OBVIOUS
  <2>4. /\ referral' = [referral EXCEPT ![r] = row] /\ recruit' = [recruit EXCEPT ![u] = Idle]
        /\ UNCHANGED <<applicant, hiredFrom>>
    BY <1>18, <2>3 DEF SubmitLink, Then
  <2>5. row.applicant = a BY <2>2, <2>3 DEF ReferralRows
  <2>6. \A q \in Referrals : referral'[q] = IF q = r THEN row ELSE referral[q]
    BY <1>3, <2>4 DEF RecruitmentTypes
  <2>7. MadeApplicants' = MadeApplicants /\ MadeEmployees' = MadeEmployees
    BY <2>4 DEF MadeApplicants, MadeEmployees
  <2>8. c # Idle /\ \A v \in Recruiters : v # u => recruit[v] = Idle BY <1>5, <1>7, <2>1
  <2>9. \A v \in Recruiters : recruit'[v] = Idle BY <1>8, <2>4, <2>8
  <2>10. \A e \in MadeEmployees : applicant[hiredFrom[e]].employee = e
    BY <1>2, <1>7, <2>1, <2>8 DEF WholeInv, Linking
  <2>11. referral[r].applicant = Unset BY <1>2, <2>1 DEF WholeInv
  <2>12. \A b \in MadeApplicants : b # a /\ applicant[b].referral # Unset =>
            referral[applicant[b].referral].applicant = b
    BY <1>2, <1>7, <2>1, <2>8 DEF WholeInv, LinkingBack
  <2>13. \A b \in MadeApplicants : b # a => applicant[b].referral # r
    BY <1>3, <2>2, <2>11, <2>12, RowFacts
  <2>14. \A b \in MadeApplicants : applicant[b].referral # Unset => applicant[b].referral \in Referrals
    BY <1>3, RowFacts DEF ApplicantRows
  <2> HIDE DEF a, r
  <2>15. \A b \in MadeApplicants : applicant[b].referral # Unset => referral'[applicant[b].referral].applicant = b
    BY <2>2, <2>5, <2>6, <2>12, <2>13, <2>14
  <2> QED BY <1>2, <1>7, <2>4, <2>7, <2>9, <2>10, <2>15 DEF WholeInv
<1>19. CASE RecruiterFails(u) BY <1>19 DEF RecruiterFails
<1> QED BY <1>9, <1>11, <1>12, <1>13, <1>14, <1>15, <1>16, <1>17, <1>18, <1>19

\* A referral and its applicant name each other, and an applicant's employee
\* was made for it, for any number of each, whatever overlaps and wherever
\* calls end. When calls neither overlap nor end early, hiring again makes no
\* second employee, and status and count of hires agree (action_submit,
\* create_employee, _applicant_status, get_referrer_stats).
THEOREM Recruits == RecruitmentSpec => []RecruitsLinked
<1>1. RecruitmentSpec => []RecruitmentInv
  BY RecruitmentInitInv, RecruitmentStepInv, PTL DEF RecruitmentSpec
<1>2. RecruitmentInit => WholeInv
  BY DEF RecruitmentInit, WholeInv, MadeApplicants, MadeReferrals, MadeEmployees, Idle
<1>3. RecruitmentSpec => []WholeInv
  BY <1>1, <1>2, WholeStepInv, PTL DEF RecruitmentSpec
<1>4. RecruitmentInv /\ WholeInv => RecruitsLinked
  <2> SUFFICES ASSUME RecruitmentInv, WholeInv PROVE RecruitsLinked
    OBVIOUS
  <2>1. LinksHold /\ RecruitmentTypes BY DEF RecruitmentInv
  <2>2. ASSUME exclusive, ~broken, \A u \in Recruiters : recruit[u] = Idle
        PROVE  /\ \A d, e \in MadeEmployees : d # e => hiredFrom[d] # hiredFrom[e]
               /\ \A e \in MadeEmployees : applicant[hiredFrom[e]].employee = e
               /\ \A a \in MadeApplicants : applicant[a].referral # Unset =>
                    referral[applicant[a].referral].applicant = a
    BY <2>2 DEF WholeInv, Linking, LinkingBack, Idle
  <2>3. ASSUME "hired" \notin Stages, NEW r \in MadeReferrals
        PROVE  Status(r) = "hired" <=> r \in HiredReferrals /\ ~applicant[referral[r].applicant].refused
    <3> DEFINE a == referral[r].applicant
    <3>1. CASE a = Unset BY <3>1 DEF Status, HiredReferrals
    <3>2. CASE a # Unset
      <4>1. applicant[a] \in ApplicantRows BY <2>1, <3>2, RowFacts DEF LinksHold
      <4>2. applicant[a].stage # "hired" BY <2>3, <4>1 DEF ApplicantRows
      <4> QED BY <3>2, <4>2 DEF Status, HiredReferrals
    <3> QED BY <3>1, <3>2
  <2> QED BY <2>1, <2>2, <2>3 DEF LinksHold, RecruitsLinked
<1> QED BY <1>1, <1>3, <1>4, PTL
-----------------------------------------------------------------------------
(* Appraisals.                                                             *)
Targets == {"new", "pending_confirmation", "confirmed", "done", "cancelled"}
AppraisalRows == [state : Targets, close : Nat \cup {Never}, rows : Nat]
ReviewCalls ==
  [op : {"rows"}, appraisal : Appraisals]
  \cup [op : {"plan", "set"}, appraisal : Appraisals, target : Targets, close : Nat \cup {Never}]

AppraisalTypes ==
  /\ appraisal \in [Appraisals -> {NoAppraisal} \cup AppraisalRows]
  /\ nextDate \in Nat \cup {Never}
  /\ frequency \in [employee : Frequencies, department : Frequencies, template : Frequencies]
  /\ review \in [HRUsers -> {Idle} \cup ReviewCalls]
  /\ today \in Nat

\* A call that completes an appraisal does so today, and once it has planned
\* the next one, that is after today: any later plan of the day is too.
ReviewUnderWay(k) ==
  /\ k # Idle => appraisal[k.appraisal] # NoAppraisal
  /\ k.op = "plan" => k.target = "done" /\ k.close = today
  /\ k.op = "set" /\ k.target = "done" => k.close = today /\ nextDate # Never /\ nextDate > today

Planned ==
  \A a \in Appraisals : appraisal[a].state = "done" =>
    /\ appraisal[a].close # Never /\ appraisal[a].close <= today
    /\ nextDate # Never /\ nextDate > appraisal[a].close

AppraisalsInv ==
  /\ AppraisalTypes
  /\ Planned
  /\ \A u \in HRUsers : ReviewUnderWay(review[u])

LEMMA FrequencyIsSet == AppraisalTypes => ResolveFrequency \in Nat /\ ResolveFrequency >= 1
<1> SUFFICES ASSUME AppraisalTypes PROVE ResolveFrequency \in Nat /\ ResolveFrequency >= 1
  OBVIOUS
<1>1. /\ frequency.employee \in Frequencies /\ frequency.department \in Frequencies
      /\ frequency.template \in Frequencies
  BY DEF AppraisalTypes
<1>2. Frequencies \subseteq Nat BY AppraisalsAssumption
<1>3. frequency.employee \in Nat /\ frequency.department \in Nat /\ frequency.template \in Nat
  BY <1>1, <1>2, Zenon
<1> QED BY <1>3 DEF ResolveFrequency

LEMMA AppraisalsInitInv == AppraisalsInit => AppraisalsInv
  BY DEF AppraisalsInit, AppraisalsInv, AppraisalTypes, Planned, ReviewUnderWay, NoAppraisal, Idle, WorkdayInit

\* A call goes on; the date that is planned, if it changes, is after today.
LEMMA ReviewTurn ==
  ASSUME AppraisalsInv, NEW u \in HRUsers, NEW k \in {Idle} \cup ReviewCalls, On(u, k), ReviewUnderWay(k)',
         AppraisalTypes', Planned', today' = today,
         nextDate' = nextDate \/ (nextDate' # Never /\ nextDate' > today),
         \A a \in Appraisals : appraisal[a] # NoAppraisal => appraisal'[a] # NoAppraisal
  PROVE  AppraisalsInv'
<1>1. \A v \in HRUsers : review'[v] = IF v = u THEN k ELSE review[v]
  BY DEF On, AppraisalsInv, AppraisalTypes
<1>2. (\A v \in HRUsers : ReviewUnderWay(review[v]))'
  <2> SUFFICES ASSUME NEW v \in HRUsers PROVE ReviewUnderWay(review[v])'
    OBVIOUS
  <2>1. CASE v = u BY <1>1, <2>1 DEF ReviewUnderWay
  <2>2. CASE v # u
    <3>1. PICK c : c = review[v] /\ review'[v] = c BY <1>1, <2>2
    <3>2. ReviewUnderWay(c) /\ c \in {Idle} \cup ReviewCalls BY <3>1 DEF AppraisalsInv, AppraisalTypes
    <3>3. c # Idle => c.appraisal \in Appraisals BY <3>2 DEF ReviewCalls
    <3> QED BY <3>1, <3>2, <3>3 DEF ReviewUnderWay
  <2> QED BY <2>1, <2>2
<1> QED BY <1>2 DEF AppraisalsInv

LEMMA AppraisalsStepInv == AppraisalsInv /\ [AppraisalsNext]_appraisalsVars => AppraisalsInv'
<1> SUFFICES ASSUME AppraisalsInv, [AppraisalsNext]_appraisalsVars PROVE AppraisalsInv'
  OBVIOUS
<1>0. AppraisalTypes /\ Planned BY DEF AppraisalsInv
<1>1. CASE UNCHANGED appraisalsVars
  BY <1>1 DEF appraisalsVars, workdayVars, AppraisalsInv, AppraisalTypes, Planned, ReviewUnderWay
<1>2. ASSUME NEW u \in HRUsers, NEW a \in Appraisals, Launch(u, a) PROVE AppraisalsInv'
  <2>1. PICK k, row : /\ k = IF Sections = 0 THEN Idle ELSE [op |-> "rows", appraisal |-> a]
                      /\ row = [state |-> "new", close |-> Never, rows |-> 0]
    OBVIOUS
  <2>2. /\ appraisal' = [appraisal EXCEPT ![a] = row] /\ On(u, k)
        /\ UNCHANGED <<nextDate, frequency, today>>
    BY <1>2, <2>1 DEF Launch, workdayVars
  <2>3. k \in {Idle} \cup ReviewCalls /\ row \in AppraisalRows /\ row # NoAppraisal /\ row.state = "new"
    BY <2>1 DEF ReviewCalls, AppraisalRows, Targets, NoAppraisal
  <2>4. \A b \in Appraisals : appraisal'[b] = IF b = a THEN row ELSE appraisal[b]
    BY <1>0, <2>2 DEF AppraisalTypes
  <2>5. AppraisalTypes' BY <1>0, <2>2, <2>3 DEF AppraisalTypes, On
  <2>6. Planned' BY <1>0, <2>2, <2>3, <2>4 DEF Planned
  <2>7. ReviewUnderWay(k)' BY <2>1, <2>3, <2>4 DEF ReviewUnderWay, Idle
  <2> QED BY <2>2, <2>3, <2>4, <2>5, <2>6, <2>7, ReviewTurn
<1>3. ASSUME NEW u \in HRUsers, LaunchRow(u) PROVE AppraisalsInv'
  <2>1. PICK c : c = review[u] OBVIOUS
  <2>2. /\ c \in [op : {"rows"}, appraisal : Appraisals] /\ ReviewUnderWay(c) /\ c # Idle
    BY <1>3, <2>1 DEF LaunchRow, AppraisalsInv, AppraisalTypes, ReviewCalls, Idle
  <2>3. PICK a, k, row : /\ a = c.appraisal
                         /\ k = IF appraisal[a].rows + 1 = 2 * Sections THEN Idle ELSE c
                         /\ row = [appraisal[a] EXCEPT !.rows = @ + 1]
    OBVIOUS
  <2>4. /\ appraisal' = [appraisal EXCEPT ![a] = row] /\ On(u, k)
        /\ UNCHANGED <<nextDate, frequency, today>>
    BY <1>3, <2>1, <2>3 DEF LaunchRow, workdayVars
  <2>5. a \in Appraisals /\ appraisal[a] \in AppraisalRows
    BY <1>0, <2>2, <2>3 DEF ReviewUnderWay, AppraisalTypes
  <2>6. /\ row \in AppraisalRows /\ row # NoAppraisal
        /\ row.state = appraisal[a].state /\ row.close = appraisal[a].close
    BY <2>3, <2>5 DEF AppraisalRows, NoAppraisal
  <2>7. \A b \in Appraisals : appraisal'[b] = IF b = a THEN row ELSE appraisal[b]
    BY <1>0, <2>4 DEF AppraisalTypes
  <2>8. k \in {Idle} \cup ReviewCalls /\ (k = Idle \/ k = c) BY <2>2, <2>3 DEF ReviewCalls
  <2>9. AppraisalTypes' BY <1>0, <2>4, <2>6, <2>8 DEF AppraisalTypes, On
  <2>10. Planned' BY <1>0, <2>4, <2>5, <2>6, <2>7 DEF Planned
  <2>11. ReviewUnderWay(k)' BY <2>2, <2>3, <2>5, <2>6, <2>7, <2>8 DEF ReviewUnderWay, Idle
  <2> QED BY <2>4, <2>6, <2>7, <2>8, <2>9, <2>10, <2>11, ReviewTurn
<1>4. ASSUME NEW u \in HRUsers, NEW a \in Appraisals, NEW target \in DOMAIN Steps, SetBegin(u, a, target)
      PROVE  AppraisalsInv'
  <2>1. PICK k : k = [op |-> IF target = "done" THEN "plan" ELSE "set", appraisal |-> a,
                      target |-> target, close |-> IF target = "done" THEN today ELSE appraisal[a].close]
    OBVIOUS
  <2>2. /\ appraisal[a] # NoAppraisal /\ On(u, k)
        /\ UNCHANGED <<appraisal, nextDate, frequency, today>>
    BY <1>4, <2>1 DEF SetBegin, workdayVars
  <2>3. appraisal[a].close \in Nat \cup {Never} BY <1>0, <2>2 DEF AppraisalTypes, AppraisalRows
  <2>4. k \in ReviewCalls BY <1>0, <2>1, <2>3 DEF ReviewCalls, Targets, Steps, AppraisalTypes
  <2>5. AppraisalTypes' BY <1>0, <2>2, <2>4 DEF AppraisalTypes, On
  <2>6. Planned' BY <1>0, <2>2 DEF Planned
  <2>7. ReviewUnderWay(k)' BY <2>1, <2>2 DEF ReviewUnderWay
  <2> QED BY <2>2, <2>4, <2>5, <2>6, <2>7, ReviewTurn
<1>5. ASSUME NEW u \in HRUsers, Plan(u) PROVE AppraisalsInv'
  <2>1. PICK c : c = review[u] OBVIOUS
  <2>2. /\ c \in [op : {"plan", "set"}, appraisal : Appraisals, target : Targets, close : Nat \cup {Never}]
        /\ ReviewUnderWay(c) /\ c.op = "plan" /\ c # Idle
    BY <1>5, <2>1 DEF Plan, AppraisalsInv, AppraisalTypes, ReviewCalls, Idle
  <2>3. PICK k : k = [c EXCEPT !.op = "set"] OBVIOUS
  <2>4. /\ nextDate' = c.close + ResolveFrequency /\ On(u, k)
        /\ UNCHANGED <<appraisal, frequency, today>>
    BY <1>5, <2>1, <2>3 DEF Plan, workdayVars
  <2>5. c.close = today /\ c.target = "done" /\ appraisal[c.appraisal] # NoAppraisal
    BY <2>2 DEF ReviewUnderWay
  <2>6. today \in Nat BY <1>0 DEF AppraisalTypes
  <2>7. nextDate' \in Nat /\ nextDate' > today
    BY <1>0, <2>4, <2>5, <2>6, FrequencyIsSet
  <2>8. nextDate' # Never BY <2>7, AppraisalsAssumption
  <2>9. /\ k \in ReviewCalls /\ k.op = "set" /\ k.appraisal = c.appraisal
        /\ k.target = "done" /\ k.close = today
    BY <2>2, <2>3, <2>5 DEF ReviewCalls
  <2>10. AppraisalTypes' BY <1>0, <2>4, <2>7, <2>9 DEF AppraisalTypes, On
  <2>11. Planned'
    <3> SUFFICES ASSUME NEW a \in Appraisals, appraisal[a].state = "done"
                 PROVE  /\ appraisal[a].close # Never /\ appraisal[a].close <= today
                        /\ nextDate' > appraisal[a].close
      BY <2>4, <2>8 DEF Planned
    <3>1. appraisal[a].close # Never /\ appraisal[a].close <= today BY <1>0 DEF Planned
    <3>2. appraisal[a].close \in Nat BY <1>0, <3>1 DEF AppraisalTypes, AppraisalRows, NoAppraisal
    <3> QED BY <2>6, <2>7, <3>1, <3>2
  <2>12. ReviewUnderWay(k)' BY <2>4, <2>5, <2>7, <2>8, <2>9 DEF ReviewUnderWay
  <2> QED BY <2>4, <2>7, <2>8, <2>9, <2>10, <2>11, <2>12, ReviewTurn
<1>6. ASSUME NEW u \in HRUsers, SetWrite(u) PROVE AppraisalsInv'
  <2>1. PICK c : c = review[u] OBVIOUS
  <2>2. /\ c \in [op : {"plan", "set"}, appraisal : Appraisals, target : Targets, close : Nat \cup {Never}]
        /\ ReviewUnderWay(c) /\ c.op = "set" /\ c # Idle
    BY <1>6, <2>1 DEF SetWrite, AppraisalsInv, AppraisalTypes, ReviewCalls, Idle
  <2>3. PICK a, close, row : /\ a = c.appraisal
                             /\ close = IF c.target = "done" THEN c.close ELSE appraisal[a].close
                             /\ row = [appraisal[a] EXCEPT !.state = c.target, !.close = close]
    OBVIOUS
  <2>5. a \in Appraisals /\ appraisal[a] \in AppraisalRows
    BY <1>0, <2>2, <2>3 DEF ReviewUnderWay, AppraisalTypes
  <2>4. /\ appraisal' = [appraisal EXCEPT ![a] = row] /\ On(u, Idle)
        /\ UNCHANGED <<nextDate, frequency, today>>
    <3>1. appraisal' = [appraisal EXCEPT ![a].state = c.target,
                                         ![a].close = IF c.target = "done" THEN c.close ELSE @]
      BY <1>6, <2>1, <2>3 DEF SetWrite
    <3>2. On(u, Idle) /\ UNCHANGED <<nextDate, frequency, today>>
      BY <1>6 DEF SetWrite, workdayVars
    <3>3. appraisal' = [appraisal EXCEPT ![a] = row]
      BY <1>0, <2>3, <2>5, <3>1 DEF AppraisalTypes, AppraisalRows
    <3> QED BY <3>2, <3>3
  <2>6. close \in Nat \cup {Never} BY <2>2, <2>3, <2>5 DEF AppraisalRows
  <2>7. row \in AppraisalRows /\ row # NoAppraisal /\ row.state = c.target /\ row.close = close
    BY <2>2, <2>3, <2>5, <2>6 DEF AppraisalRows, NoAppraisal
  <2>8. \A b \in Appraisals : appraisal'[b] = IF b = a THEN row ELSE appraisal[b]
    BY <1>0, <2>4 DEF AppraisalTypes
  <2>9. AppraisalTypes' BY <1>0, <2>4, <2>7 DEF AppraisalTypes, On
  <2>10. today \in Nat /\ today # Never BY <1>0, AppraisalsAssumption DEF AppraisalTypes
  <2>11. c.target = "done" => close = today /\ nextDate # Never /\ nextDate > today
    BY <2>2, <2>3 DEF ReviewUnderWay
  <2>12. Planned'
    BY <1>0, <2>4, <2>7, <2>8, <2>10, <2>11 DEF Planned
  <2>13. ReviewUnderWay(Idle)' BY DEF ReviewUnderWay, Idle
  <2> QED BY <2>4, <2>7, <2>8, <2>9, <2>12, <2>13, ReviewTurn
<1>7. ASSUME NEW u \in HRUsers, ReviewFails(u) PROVE AppraisalsInv'
  <2>1. On(u, Idle) /\ UNCHANGED <<appraisal, nextDate, frequency, today>>
    BY <1>7 DEF ReviewFails, workdayVars
  <2>2. AppraisalTypes' BY <1>0, <2>1 DEF AppraisalTypes, On
  <2>3. Planned' /\ ReviewUnderWay(Idle)' BY <1>0, <2>1 DEF Planned, ReviewUnderWay, Idle
  <2> QED BY <2>1, <2>2, <2>3, ReviewTurn
<1>8. ASSUME NEW who \in {"employee", "department"}, NEW f \in Frequencies, SetFrequency(who, f)
      PROVE  AppraisalsInv'
  <2>1. /\ UNCHANGED <<appraisal, nextDate, review, today>>
        /\ frequency' \in [employee : Frequencies, department : Frequencies, template : Frequencies]
    BY <1>0, <1>8 DEF SetFrequency, workdayVars, AppraisalTypes
  <2> QED BY <2>1 DEF AppraisalsInv, AppraisalTypes, Planned, ReviewUnderWay
<1>9. CASE ReviewDayEnds
  <2>1. /\ \A u \in HRUsers : review[u] = Idle
        /\ today' = today + 1 /\ UNCHANGED <<appraisal, nextDate, frequency, review>>
    BY <1>9 DEF ReviewDayEnds, NextDay
  <2>2. AppraisalTypes' BY <1>0, <2>1 DEF AppraisalTypes
  <2>3. Planned'
    <3> SUFFICES ASSUME NEW a \in Appraisals, appraisal[a].state = "done"
                 PROVE  /\ appraisal[a].close # Never /\ appraisal[a].close <= today + 1
                        /\ nextDate # Never /\ nextDate > appraisal[a].close
      BY <2>1 DEF Planned
    <3>1. appraisal[a].close # Never /\ appraisal[a].close <= today BY <1>0 DEF Planned
    <3>2. appraisal[a].close \in Nat /\ today \in Nat
      BY <1>0, <3>1 DEF AppraisalTypes, AppraisalRows, NoAppraisal
    <3> QED BY <1>0, <3>1, <3>2 DEF Planned
  <2> QED BY <2>1, <2>2, <2>3 DEF AppraisalsInv, ReviewUnderWay, Idle
<1> QED
  BY <1>1, <1>2, <1>3, <1>4, <1>5, <1>6, <1>7, <1>8, <1>9 DEF AppraisalsNext

\* Whatever the appraisals, cadences and users: an appraisal that is done has
\* planned the next one after the day it was closed, although the plan is
\* written before the state, cadences change in between, and calls overlap
\* and end between the two writes (hr_appraisal.py, action_set_state).
THEOREM NextPlanned == AppraisalsSpec => []NextIsPlanned
<1>1. AppraisalsSpec => []AppraisalsInv
  BY AppraisalsInitInv, AppraisalsStepInv, PTL DEF AppraisalsSpec
<1>2. AppraisalsInv => NextIsPlanned BY DEF AppraisalsInv, Planned, NextIsPlanned
<1> QED BY <1>1, <1>2, PTL
-----------------------------------------------------------------------------
(* Directory: what the unique indexes and the checks of a call secure.     *)
SkillRows == [employee : Staff, skill : Skills, level : Levels, type : {TypeOf[s] : s \in Skills}]
SkillFits(h) == h \in SkillRows /\ h.type = TypeOf[h.skill]
Skilled(k) ==
  /\ k.op = "skill" => SkillFits(k.held)
  /\ k.op = "change" => k.given \in Givens

DirectoryInv ==
  /\ made \subseteq Nodes
  /\ login \in [Staff -> Accounts \cup {None}]
  /\ DOMAIN edit = Editors
  /\ \A u \in Editors : /\ edit[u].op = "new" => edit[u].node \in Nodes /\ edit[u].login \in Accounts \cup {None}
                        /\ edit[u].op = "link" => edit[u].node \in Staff /\ edit[u].login \in Accounts \cup {None}
                        /\ Skilled(edit[u])
  /\ skills \in Seq(SkillRows) /\ \A i \in DOMAIN skills : SkillFits(skills[i])
  /\ UsersApart
  /\ SkillsHeldOnce

\* The call of one editor changes.
LEMMA EditTurn ==
  ASSUME DirectoryInv, NEW u \in Editors, NEW k, Turn(u, k),
         k.op = "new" => k.node \in Nodes /\ k.login \in Accounts \cup {None},
         k.op = "link" => k.node \in Staff /\ k.login \in Accounts \cup {None},
         Skilled(k)
  PROVE  (/\ DOMAIN edit = Editors
          /\ \A v \in Editors : /\ edit[v].op = "new" => edit[v].node \in Nodes /\ edit[v].login \in Accounts \cup {None}
                                /\ edit[v].op = "link" => edit[v].node \in Staff /\ edit[v].login \in Accounts \cup {None}
                                /\ Skilled(edit[v]))'
<1>1. DOMAIN edit' = Editors /\ \A v \in Editors : edit'[v] = IF v = u THEN k ELSE edit[v]
  BY DEF Turn, DirectoryInv
<1>2. \A v \in Editors : v = u => Skilled(edit[v])'
  BY <1>1 DEF Skilled, SkillFits, SkillRows
<1>3. \A v \in Editors : v # u => Skilled(edit[v])'
  BY <1>1 DEF DirectoryInv, Skilled, SkillFits, SkillRows
<1> QED BY <1>1, <1>2, <1>3 DEF DirectoryInv

\* What a write gives makes a row of a row.
LEMMA MergedFits ==
  ASSUME NEW h, SkillFits(h), NEW given \in Givens
  PROVE  SkillFits(Merged(h, given))
<1>1. /\ h.employee \in Staff /\ h.skill \in Skills /\ h.level \in Levels /\ h.type = TypeOf[h.skill]
  BY DEF SkillFits, SkillRows
<1>2. /\ given.employee # None => given.employee \in Staff
      /\ given.skill # None => given.skill \in Skills
      /\ given.level # None => given.level \in Levels
  BY DEF Givens
<1>3. PICK g : g = Merged(h, given) OBVIOUS
<1>4. /\ g.employee \in Staff /\ g.skill \in Skills /\ g.level \in Levels /\ g.type = TypeOf[g.skill]
      /\ g = [employee |-> g.employee, skill |-> g.skill, level |-> g.level, type |-> g.type]
  BY <1>1, <1>2, <1>3 DEF Merged
<1>5. g \in SkillRows BY <1>4 DEF SkillRows
<1> QED BY <1>3, <1>4, <1>5 DEF SkillFits

\* The index lets a table of fitting rows through when every skill is held once.
LEMMA TableStored ==
  ASSUME NEW table, table \in Seq(SkillRows), \A i \in DOMAIN table : SkillFits(table[i]),
         HeldOnce(table), skills' = table, UNCHANGED <<made, login>>
  PROVE  /\ (skills \in Seq(SkillRows) /\ \A i \in DOMAIN skills : SkillFits(skills[i]))'
         /\ SkillsHeldOnce' /\ (UsersApart => UsersApart')
<1>1. (\A i \in DOMAIN skills : SkillFits(skills[i]))' BY DEF SkillFits, SkillRows
<1>2. SkillsHeldOnce'
  <2>1. \A i \in DOMAIN table : table[i].type = TypeOf[table[i].skill] BY DEF SkillFits
  <2>2. \A i, j \in DOMAIN table : i # j => <<table[i].employee, table[i].skill>> # <<table[j].employee, table[j].skill>>
    BY DEF HeldOnce, SameSkill
  <2> QED BY <2>1, <2>2 DEF SkillsHeldOnce
<1>3. UsersApart => UsersApart' BY DEF UsersApart
<1> QED BY <1>1, <1>2, <1>3

LEMMA DirectoryStepInv == DirectoryInv /\ [DirectoryNext]_directoryVars => DirectoryInv'
<1> SUFFICES ASSUME DirectoryInv, [DirectoryNext]_directoryVars PROVE DirectoryInv'
  OBVIOUS
<1> DEFINE Rows == /\ made \subseteq Nodes /\ login \in [Staff -> Accounts \cup {None}]
                   /\ skills \in Seq(SkillRows) /\ (\A i \in DOMAIN skills : SkillFits(skills[i]))
                   /\ UsersApart /\ SkillsHeldOnce
<1>1. Rows BY DEF DirectoryInv
<1>2. ASSUME UNCHANGED <<made, login, skills>> PROVE Rows'
  BY <1>1, <1>2 DEF UsersApart, SkillsHeldOnce, SkillFits, SkillRows
<1>3. Idle.op = "idle" /\ Skilled(Idle) BY DEF Idle, Skilled
<1>4. CASE UNCHANGED directoryVars
  <2>1. Rows' /\ edit' = edit BY <1>2, <1>4 DEF directoryVars
  <2> QED BY <2>1 DEF DirectoryInv, Skilled, SkillFits, SkillRows
<1>5. ASSUME NEW u \in Editors, NEW n \in Nodes, NEW p \in Nodes \cup {None}, NEW account \in Accounts \cup {None},
             NewBegin(u, n, p, account)
      PROVE  DirectoryInv'
  <2>1. PICK k : k = [op |-> "new", node |-> n, above |-> p, login |-> account] OBVIOUS
  <2>2. Turn(u, k) /\ UNCHANGED <<made, login, skills>> BY <1>5, <2>1 DEF NewBegin
  <2>3. Skilled(k) BY <2>1 DEF Skilled
  <2> QED BY <1>2, <2>1, <2>2, <2>3, EditTurn DEF DirectoryInv
<1>6. ASSUME NEW u \in Editors, NewInsert(u) PROVE DirectoryInv'
  <2>1. PICK c : c = edit[u] OBVIOUS
  <2>2. /\ c.op = "new" /\ c.node \in Nodes /\ c.node \notin made /\ c.login \in Accounts \cup {None}
        /\ UserFree(c.node, c.login) /\ Turn(u, Idle)
        /\ made' = made \cup {c.node} /\ skills' = skills
        /\ login' = IF c.node \in Staff THEN [login EXCEPT ![c.node] = c.login] ELSE login
    BY <1>6, <2>1 DEF NewInsert, IndexUserFree, DirectoryInv
  <2>3. \A n \in Staff : login'[n] = IF n = c.node THEN c.login ELSE login[n]
    BY <1>1, <2>2
  <2>4. UsersApart'
    BY <1>1, <2>2, <2>3 DEF UsersApart, UserFree
  <2>5. SkillsHeldOnce' /\ skills' \in Seq(SkillRows) /\ (\A i \in DOMAIN skills : SkillFits(skills[i]))'
    BY <1>1, <2>2 DEF SkillsHeldOnce, SkillFits, SkillRows
  <2>6. Rows' BY <1>1, <2>2, <2>4, <2>5
  <2> QED BY <1>3, <2>2, <2>6, EditTurn DEF DirectoryInv
<1>7. ASSUME NEW u \in Editors, NEW rows, NEW p, MoveBegin(u, rows, p) PROVE DirectoryInv'
  <2>1. PICK k : k = [op |-> "move", rows |-> rows, above |-> p] OBVIOUS
  <2>2. Turn(u, k) /\ UNCHANGED <<made, login, skills>> /\ k.op = "move" BY <1>7, <2>1 DEF MoveBegin
  <2>3. Skilled(k) BY <2>2 DEF Skilled
  <2> QED BY <1>2, <2>2, <2>3, EditTurn DEF DirectoryInv
<1>8. ASSUME NEW u \in Editors, MoveWrite(u) \/ EditFails(u) PROVE DirectoryInv'
  <2>1. Turn(u, Idle) /\ UNCHANGED <<made, login, skills>> BY <1>8 DEF MoveWrite, EditFails
  <2> QED BY <1>2, <1>3, <2>1, EditTurn DEF DirectoryInv
<1>9. ASSUME NEW u \in Editors, NEW n \in Staff, NEW account \in Accounts \cup {None}, LinkBegin(u, n, account)
      PROVE  DirectoryInv'
  <2>1. PICK k : k = [op |-> "link", node |-> n, login |-> account] OBVIOUS
  <2>2. Turn(u, k) /\ UNCHANGED <<made, login, skills>> BY <1>9, <2>1 DEF LinkBegin
  <2>3. Skilled(k) BY <2>1 DEF Skilled
  <2> QED BY <1>2, <2>1, <2>2, <2>3, EditTurn DEF DirectoryInv
<1>10. ASSUME NEW u \in Editors, LinkWrite(u) PROVE DirectoryInv'
  <2>1. PICK c : c = edit[u] OBVIOUS
  <2>2. /\ c.op = "link" /\ c.node \in Staff /\ c.login \in Accounts \cup {None}
        /\ UserFree(c.node, c.login) /\ Turn(u, Idle)
        /\ made' = made /\ skills' = skills /\ login' = [login EXCEPT ![c.node] = c.login]
    BY <1>10, <2>1 DEF LinkWrite, IndexUserFree, DirectoryInv
  <2>3. \A n \in Staff : login'[n] = IF n = c.node THEN c.login ELSE login[n] BY <1>1, <2>2
  <2>4. UsersApart' BY <1>1, <2>2, <2>3 DEF UsersApart, UserFree
  <2>5. SkillsHeldOnce' /\ skills' \in Seq(SkillRows) /\ (\A i \in DOMAIN skills : SkillFits(skills[i]))'
    BY <1>1, <2>2 DEF SkillsHeldOnce, SkillFits, SkillRows
  <2>6. Rows' BY <1>1, <2>2, <2>4, <2>5
  <2> QED BY <1>3, <2>2, <2>6, EditTurn DEF DirectoryInv
<1>11. ASSUME NEW u \in Editors, NEW n \in Staff, NEW s \in Skills, NEW l \in Levels, SkillBegin(u, n, s, l)
       PROVE  DirectoryInv'
  <2>1. PICK h, k : /\ h = [employee |-> n, skill |-> s, level |-> l, type |-> TypeOf[s]]
                    /\ k = [op |-> "skill", held |-> h]
    OBVIOUS
  <2>2. Turn(u, k) /\ UNCHANGED <<made, login, skills>> BY <1>11, <2>1 DEF SkillBegin
  <2>3. SkillFits(h) BY <2>1 DEF SkillFits, SkillRows
  <2>4. Skilled(k) BY <2>1, <2>3 DEF Skilled
  <2> QED BY <1>2, <2>1, <2>2, <2>4, EditTurn DEF DirectoryInv
<1>12. ASSUME NEW u \in Editors, SkillInsert(u) PROVE DirectoryInv'
  <2>1. PICK h, table : h = edit[u].held /\ table = Append(skills, h) OBVIOUS
  <2>2. /\ edit[u].op = "skill" /\ HeldOnce(table)
        /\ skills' = table /\ Turn(u, Idle) /\ UNCHANGED <<made, login>>
    BY <1>12, <2>1 DEF SkillInsert
  <2>3. SkillFits(h) BY <2>1, <2>2 DEF DirectoryInv, Skilled
  <2>4. h \in SkillRows BY <2>3 DEF SkillFits
  <2>5. table \in Seq(SkillRows) /\ \A i \in DOMAIN table : SkillFits(table[i])
    BY <1>1, <2>1, <2>3, <2>4
  <2>6. Rows' BY <1>1, <2>2, <2>5, TableStored
  <2> QED BY <1>3, <2>2, <2>6, EditTurn DEF DirectoryInv
<1>13. ASSUME NEW u \in Editors, NEW rows \in SUBSET DOMAIN skills, NEW given \in Givens, SkillChangeBegin(u, rows, given)
       PROVE  DirectoryInv'
  <2>1. PICK k : k = [op |-> "change", rows |-> rows, given |-> given] OBVIOUS
  <2>2. Turn(u, k) /\ UNCHANGED <<made, login, skills>> BY <1>13, <2>1 DEF SkillChangeBegin
  <2>3. Skilled(k) BY <2>1 DEF Skilled
  <2> QED BY <1>2, <2>1, <2>2, <2>3, EditTurn DEF DirectoryInv
<1>14. ASSUME NEW u \in Editors, SkillChangeWrite(u) PROVE DirectoryInv'
  <2>1. PICK c, g, table :
          /\ c = edit[u] /\ g = c.given
          /\ table = [i \in DOMAIN skills |-> IF i \in c.rows THEN Merged(skills[i], g) ELSE skills[i]]
    OBVIOUS
  <2>2. /\ c.op = "change" /\ HeldOnce(table)
        /\ skills' = table /\ Turn(u, Idle) /\ UNCHANGED <<made, login>>
    BY <1>14, <2>1 DEF SkillChangeWrite
  <2>3. g \in Givens BY <2>1, <2>2 DEF DirectoryInv, Skilled
  <2>4. \A i \in DOMAIN table : SkillFits(table[i])
    <3>1. \A i \in DOMAIN skills : SkillFits(Merged(skills[i], g)) BY <1>1, <2>3, MergedFits
    <3> QED BY <1>1, <2>1, <3>1
  <2>5. table \in Seq(SkillRows)
    <3>1. PICK m \in Nat : DOMAIN skills = 1 .. m BY <1>1
    <3>2. table \in [1 .. m -> SkillRows] BY <2>1, <2>4, <3>1 DEF SkillFits
    <3> QED BY <3>2 
  <2>6. Rows' BY <1>1, <2>2, <2>4, <2>5, TableStored
  <2> QED BY <1>3, <2>2, <2>6, EditTurn DEF DirectoryInv
<1> QED
  BY <1>4, <1>5, <1>6, <1>7, <1>8, <1>9, <1>10, <1>11, <1>12, <1>13, <1>14 DEF DirectoryNext
-----------------------------------------------------------------------------
(* Directory, trees: chains of superiors.                                  *)
Upward(A, n, s) ==
  s = [k \in 0 .. Height |-> IF k = 0 THEN n ELSE IF s[k - 1] = None THEN None ELSE A[s[k - 1]]]

LEMMA HeightIs == IsFiniteSet(Nodes) /\ Height \in Nat /\ None \notin Nodes
<1>1. IsFiniteSet(Nodes) BY DirectoryAssumption DEF Nodes
<1>2. None \notin Nodes BY DirectoryAssumption DEF Nodes
<1> QED BY <1>1, <1>2, FS_CardinalityType DEF Height

\* There is a chain, of any length; the longest is the one the model takes.
LEMMA ChainIs ==
  ASSUME NEW n
  PROVE  Upward(above, n, Chain(n))
<1>0. Height \in Nat BY HeightIs
<1> DEFINE Runs(s, m) ==
      s = [k \in 0 .. m |-> IF k = 0 THEN n ELSE IF s[k - 1] = None THEN None ELSE above[s[k - 1]]]
<1> DEFINE Short == {m \in 0 .. Height : ~\E s : Runs(s, m)}
<1>1. Short = {}
  <2>1. SUFFICES ASSUME Short # {} PROVE FALSE OBVIOUS
  <2>2. Short \subseteq 0 .. Height OBVIOUS
  <2>3. PICK m \in Short : \A y \in Short : m <= y
    <3> HIDE DEF Short
    <3> QED BY <1>0, <2>1, <2>2, Extremes
  <2>4. m \in Nat /\ m <= Height BY <1>0
  <2>5. m # 0
    <3>1. PICK s : s = [k \in 0 .. 0 |-> n] OBVIOUS
    <3>2. Runs(s, 0) BY <3>1
    <3> QED BY <2>3, <3>2
  <2>6. PICK h \in Nat : h = m - 1 BY <2>4, <2>5
  <2>7. h \in 0 .. Height /\ ~(m <= h) BY <1>0, <2>4, <2>6
  <2>12. h \notin Short
    <3> HIDE DEF Short
    <3> QED BY <2>3, <2>7
  <2>8. PICK s : Runs(s, h)
    <3> HIDE DEF Runs
    <3> QED BY <2>7, <2>12
  <2>9. PICK t : t = [k \in 0 .. m |-> IF k = m THEN IF s[h] = None THEN None ELSE above[s[h]] ELSE s[k]] OBVIOUS
  <2>10. \A k \in 0 .. m : t[k] = IF k = 0 THEN n ELSE IF t[k - 1] = None THEN None ELSE above[t[k - 1]]
    <3>1. TAKE k \in 0 .. m
    <3>2. CASE k = m
      <4>1. t[m] = (IF s[h] = None THEN None ELSE above[s[h]]) /\ t[h] = s[h] BY <2>4, <2>6, <2>9
      <4>2. m - 1 = h BY <2>4, <2>6
      <4> QED BY <2>5, <3>2, <4>1, <4>2
    <3>3. CASE k # m
      <4>1. k \in 0 .. h /\ k # 0 => k - 1 \in 0 .. h /\ k - 1 # m BY <2>4, <2>6, <3>3
      <4>2. k \in 0 .. h BY <2>4, <2>6, <3>3
      <4>3. \A j \in 0 .. h : t[j] = s[j] BY <2>4, <2>6, <2>9
      <4>4. s[k] = IF k = 0 THEN n ELSE IF s[k - 1] = None THEN None ELSE above[s[k - 1]] BY <2>8, <4>2
      <4>5. k # 0 => t[k - 1] = s[k - 1] BY <4>1, <4>2, <4>3
      <4> QED BY <4>2, <4>3, <4>4, <4>5
    <3> QED BY <3>2, <3>3
  <2>11. Runs(t, m)
    <3>1. t = [k \in 0 .. m |-> t[k]] BY <2>9
    <3> QED BY <2>10, <3>1
  <2> QED BY <2>3, <2>11
<1>2. \E s : Runs(s, Height)
  <2>1. Height \in 0 .. Height BY <1>0
  <2> HIDE DEF Runs
  <2> QED BY <1>1, <2>1
<1>3. Chain(n) = CHOOSE s : Runs(s, Height) BY DEF Chain
<1> QED BY <1>2, <1>3 DEF Upward

LEMMA UpwardAt ==
  ASSUME NEW A, NEW n, NEW s, Upward(A, n, s)
  PROVE  /\ s[0] = n
         /\ \A k \in 1 .. Height : s[k] = IF s[k - 1] = None THEN None ELSE A[s[k - 1]]
<1>1. \A k \in 0 .. Height : s[k] = IF k = 0 THEN n ELSE IF s[k - 1] = None THEN None ELSE A[s[k - 1]]
  BY DEF Upward
<1>2. 0 \in 0 .. Height BY HeightIs
<1>3. \A k \in 1 .. Height : k \in 0 .. Height /\ k # 0 BY HeightIs
<1> QED BY <1>1, <1>2, <1>3

\* What holds at the foot of a chain and passes on to the next holds all along.
LEMMA AllAlong ==
  ASSUME NEW s, NEW C, s[0] \in C, \A k \in 1 .. Height : s[k - 1] \in C => s[k] \in C
  PROVE  \A k \in 0 .. Height : s[k] \in C
<1> DEFINE Off == {k \in 0 .. Height : s[k] \notin C}
<1>1. SUFFICES ASSUME Off # {} PROVE FALSE OBVIOUS
<1>2. Height \in Nat /\ Off \subseteq 0 .. Height BY HeightIs
<1>3. PICK k \in Off : \A y \in Off : k <= y
  <2> HIDE DEF Off
  <2> QED BY <1>1, <1>2, Extremes
<1>4. k \in 1 .. Height /\ k \in Nat BY <1>2
<1>5. k - 1 \in 0 .. Height /\ ~(k <= k - 1) BY <1>2, <1>4
<1>6. s[k - 1] \in C BY <1>3, <1>5
<1> QED BY <1>4, <1>6

\* No set of them has all superiors within it.
Trees(A, M) == \A C \in SUBSET M : C # {} => \E x \in C : A[x] \notin C
Linked(A, M) == M \subseteq Nodes /\ \A x \in M : A[x] \in M \cup {None}

\* Then chains end: one that does not meets a node twice, and what is between has all its superiors.
LEMMA ChainsEnd ==
  ASSUME NEW A, NEW M, Linked(A, M), Trees(A, M), NEW n \in M, NEW s, Upward(A, n, s)
  PROVE  s[Height] = None
<1>1. SUFFICES ASSUME s[Height] # None PROVE FALSE OBVIOUS
<1>2. Height \in Nat /\ IsFiniteSet(Nodes) /\ None \notin Nodes BY HeightIs
<1>3. s[0] = n /\ \A k \in 1 .. Height : s[k] = IF s[k - 1] = None THEN None ELSE A[s[k - 1]] BY UpwardAt
<1>4. \A k \in 0 .. Height : s[k] \in M \cup {None}
  <2>1. s[0] \in M \cup {None} BY <1>3
  <2>2. \A k \in 1 .. Height : s[k - 1] \in M \cup {None} => s[k] \in M \cup {None} BY <1>3 DEF Linked
  <2> QED BY ONLY <2>1, <2>2, AllAlong
<1>5. \A k \in 0 .. Height : s[k] # None
  <2>1. SUFFICES ASSUME NEW k \in 0 .. Height, s[k] = None PROVE FALSE OBVIOUS
  <2>2. PICK S : S = {j \in k .. Height : s[j] # None} OBVIOUS
  <2>3. Height \in S /\ S \subseteq 0 .. Height BY <1>1, <1>2, <2>2
  <2>4. PICK j \in S : \A y \in S : j <= y BY <1>2, <2>3, Extremes
  <2>5. j \in Nat /\ k \in Nat /\ j <= Height /\ k <= j /\ s[j] # None BY <1>2, <2>2, <2>3
  <2>6. j # k BY <2>1, <2>5
  <2>7. PICK i \in Nat : i = j - 1 BY <2>5, <2>6
  <2>8. i \in k .. Height /\ i \notin S /\ j \in 1 .. Height BY <1>2, <2>4, <2>5, <2>6, <2>7
  <2>9. s[i] = None BY <2>2, <2>8
  <2> QED BY <1>3, <2>5, <2>7, <2>8, <2>9
<1>6. PICK f : f = [k \in 0 .. Height |-> s[k]] OBVIOUS
<1>7. f \in [0 .. Height -> Nodes] BY <1>4, <1>5, <1>6 DEF Linked
<1>8. PICK i, j \in 0 .. Height : i < j /\ s[i] = s[j]
  <2>1. IsFiniteSet(0 .. Height) /\ Cardinality(0 .. Height) = Height + 1
    <3>1. 0 \in Int /\ Height \in Int /\ ~(0 > Height) BY <1>2
    <3> QED BY <1>2, <3>1, FS_Interval
  <2>2. Cardinality(Nodes) < Cardinality(0 .. Height) BY <1>2, <2>1 DEF Height
  <2>3. PICK x, y \in 0 .. Height : x # y /\ f[x] = f[y]
    BY ONLY <1>2, <1>7, <2>1, <2>2, FS_PigeonHole
  <2>4. x < y \/ y < x BY <1>2, <2>3
  <2> QED BY <1>6, <2>3, <2>4
<1>9. PICK h \in Nat : h = j - 1 /\ i <= h BY <1>2, <1>8
<1>10. PICK C : C = {s[k] : k \in i .. h} OBVIOUS
<1>11. \A k \in i .. h : k \in 0 .. Height /\ k + 1 \in 1 .. Height /\ (k + 1) - 1 = k BY <1>2, <1>8, <1>9
<1>12. C \in SUBSET M /\ C # {}
  <2>1. i \in i .. h BY <1>2, <1>8, <1>9
  <2>2. \A k \in i .. h : s[k] \in M BY <1>4, <1>5, <1>11
  <2> QED BY <1>10, <2>1, <2>2
<1>13. ASSUME NEW k \in i .. h PROVE A[s[k]] \in C
  <2>1. A[s[k]] = s[k + 1] BY <1>3, <1>5, <1>11
  <2>2. CASE k = h
    <3>1. s[k + 1] = s[i] /\ i \in i .. h BY <1>2, <1>8, <1>9, <2>2
    <3> QED BY <1>10, <2>1, <3>1
  <2>3. CASE k # h
    <3>1. k + 1 \in i .. h BY <1>2, <1>8, <1>9, <2>3
    <3> QED BY <1>10, <2>1, <3>1
  <2> QED BY <2>2, <2>3
<1> QED BY <1>10, <1>12, <1>13 DEF Trees

\* Rows are hung under a node whose chain ends without them.
Clear(s, p, rows) == p # None => s[Height] = None /\ \A k \in 0 .. Height : s[k] \notin rows
Hang(A, B, M, p, rows) == \A x \in M : B[x] = IF x \in rows THEN p ELSE A[x]
LEMMA HangKeeps ==
  ASSUME NEW A, NEW B, NEW M, NEW rows, rows \subseteq M, Linked(A, M), Trees(A, M),
         NEW p \in M \cup {None}, NEW s, Upward(A, p, s),
         Clear(s, p, rows), Hang(A, B, M, p, rows)
  PROVE  Trees(B, M)
<1>1. SUFFICES ASSUME NEW C \in SUBSET M, C # {}, \A x \in C : B[x] \in C PROVE FALSE BY DEF Trees
<1>2. None \notin C /\ Height \in Nat BY HeightIs DEF Linked
<1>5. \A x \in M : B[x] = IF x \in rows THEN p ELSE A[x] BY DEF Hang
<1>6. p # None => s[Height] = None /\ \A k \in 0 .. Height : s[k] \notin rows BY DEF Clear
<1>3. CASE C \cap rows = {}
  <2>1. \A x \in C : A[x] \in C BY <1>1, <1>3, <1>5
  <2> QED BY <1>1, <2>1 DEF Trees
<1>4. CASE C \cap rows # {}
  <2>1. p \in C /\ p # None BY <1>1, <1>2, <1>4, <1>5
  <2>2. s[0] = p /\ \A k \in 1 .. Height : s[k] = IF s[k - 1] = None THEN None ELSE A[s[k - 1]] BY UpwardAt
  <2>3. ASSUME NEW k \in 1 .. Height, s[k - 1] \in C PROVE s[k] \in C
    <3>1. k - 1 \in 0 .. Height BY <1>2
    <3>2. s[k - 1] \notin rows /\ s[k - 1] # None /\ s[k - 1] \in M BY <1>1, <1>2, <1>6, <2>1, <2>3, <3>1
    <3>3. B[s[k - 1]] = s[k] BY <1>5, <2>2, <3>2
    <3> QED BY <1>1, <2>3, <3>3
  <2>4. s[0] \in C BY <2>1, <2>2
  <2>5. \A k \in 0 .. Height : s[k] \in C BY ONLY <2>3, <2>4, AllAlong
  <2>6. Height \in 0 .. Height BY <1>2
  <2> QED BY <1>2, <1>6, <2>1, <2>5, <2>6
<1> QED BY <1>3, <1>4

\* A new node is nobody's superior.
LEMMA NewKeeps ==
  ASSUME NEW A, NEW B, NEW M, NEW n, n \notin M, n # None, Linked(A, M), Trees(A, M),
         B[n] \in M \cup {None}, \A x \in M : B[x] = A[x]
  PROVE  Trees(B, M \cup {n})
<1>1. SUFFICES ASSUME NEW C \in SUBSET (M \cup {n}), C # {}, \A x \in C : B[x] \in C PROVE FALSE BY DEF Trees
<1>2. PICK D : D = C \ {n} OBVIOUS
<1>3. D \in SUBSET M BY <1>1, <1>2
<1>4. None \notin C BY HeightIs DEF Linked
<1>5. D # {} BY <1>1, <1>2, <1>4
<1>6. \A x \in D : A[x] \in D
  <2>1. TAKE x \in D
  <2>2. A[x] \in C /\ A[x] \in M \cup {None} BY <1>1, <1>2, <1>3 DEF Linked
  <2> QED BY <1>2, <2>2
<1> QED BY <1>3, <1>5, <1>6 DEF Trees

Tied(k) ==
  /\ k.op = "new" => k.node \in Nodes /\ k.above \in made \cup {None}
  /\ k.op = "move" => k.rows \subseteq made /\ k.above \in made \cup {None}
Hung(k) == k.op = "move" => \A n \in k.rows : MayHang(n, k.above)

\* Superiors are there; while calls do not overlap they form trees, and the one call that
\* may be under way will keep them so.
TreeInv ==
  /\ Linked(above, made) /\ above \in [Nodes -> made \cup {None}] /\ DOMAIN edit = Editors
  /\ \A u \in Editors : Tied(edit[u])
  /\ exclusive =>
       /\ Trees(above, made)
       /\ \A u \in Editors : Hung(edit[u])
       /\ \A u, v \in Editors : edit[u] # Idle /\ edit[v] # Idle => u = v

LEMMA HangSame ==
  ASSUME above' = above
  PROVE  \A n, p : MayHang(n, p)' <=> MayHang(n, p)
<1>1. \A n : Chain(n)' = Chain(n) BY DEF Chain, Height, Nodes
<1>2. \A n : Up(n)' = Up(n) /\ Loops(n)' = Loops(n) BY <1>1 DEF Up, Loops, Height, Nodes
<1> QED BY <1>2 DEF MayHang

\* One editor's call changes; when nothing overlaps, what a call has checked of the tree is
\* changed by none but its own last step.
LEMMA TreeTurn ==
  ASSUME TreeInv, NEW u \in Editors, NEW k, Turn(u, k), made \subseteq made', Linked(above, made)',
         (above \in [Nodes -> made \cup {None}])', Tied(k)', UNCHANGED exclusive,
         exclusive => Trees(above, made)' /\ Hung(k)',
         exclusive /\ edit[u] = Idle => \A v \in Editors : edit[v] = Idle,
         above' # above => edit[u] # Idle
  PROVE  TreeInv'
<1>1. DOMAIN edit' = Editors /\ \A v \in Editors : edit'[v] = IF v = u THEN k ELSE edit[v]
  BY DEF Turn, TreeInv
<1>2. ASSUME NEW v \in Editors PROVE Tied(edit[v])'
  <2>1. PICK e : e = edit'[v] OBVIOUS
  <2>2. v = u => e = k BY <1>1, <2>1
  <2>3. v # u => e = edit[v] BY <1>1, <2>1
  <2>4. v # u => Tied(e) BY <2>3 DEF TreeInv
  <2>5. v # u => Tied(e)' BY <2>4 DEF Tied
  <2>6. Tied(e)' BY <2>2, <2>5
  <2> QED BY <2>1, <2>6
<1>3. Idle.op # "move" BY DEF Idle
<1>4. ASSUME exclusive', NEW v \in Editors PROVE Hung(edit[v])'
  <2>1. PICK e : e = edit'[v] OBVIOUS
  <2>2. CASE v = u
    <3>1. e = k BY <1>1, <2>1, <2>2
    <3>2. Hung(e)' BY <1>4, <3>1
    <3> QED BY <2>1, <3>2
  <2>3. CASE v # u
    <3>1. e = edit[v] /\ Hung(e) BY <1>1, <1>4, <2>1, <2>3 DEF TreeInv
    <3>2. CASE above' = above
      <4>1. Hung(e)' BY <3>1, <3>2, HangSame DEF Hung
      <4> QED BY <2>1, <4>1
    <3>3. CASE above' # above
      <4>1. e = Idle BY <1>4, <2>3, <3>1, <3>3 DEF TreeInv
      <4>2. Hung(e)' BY <1>3, <4>1 DEF Hung
      <4> QED BY <2>1, <4>2
    <3> QED BY <3>2, <3>3
  <2> QED BY <2>2, <2>3
<1>5. ASSUME exclusive' PROVE \A v, w \in Editors : edit'[v] # Idle /\ edit'[w] # Idle => v = w
  <2>1. exclusive /\ \A v, w \in Editors : edit[v] # Idle /\ edit[w] # Idle => v = w BY <1>5 DEF TreeInv
  <2> QED BY <1>1, <2>1
<1> QED BY <1>1, <1>2, <1>4, <1>5 DEF TreeInv

LEMMA TreeStep == TreeInv /\ DirectoryInv /\ [DirectoryNext]_directoryVars => TreeInv'
<1> SUFFICES ASSUME TreeInv, DirectoryInv, [DirectoryNext]_directoryVars PROVE TreeInv'
  OBVIOUS
<1>1. /\ Linked(above, made) /\ above \in [Nodes -> made \cup {None}]
      /\ \A u \in Editors : Tied(edit[u])
      /\ exclusive => Trees(above, made) /\ \A u \in Editors : Hung(edit[u])
  BY DEF TreeInv
<1>2. Idle.op = "idle" /\ Tied(Idle)' /\ Hung(Idle)' BY DEF Idle, Tied, Hung
<1>3. None \notin Nodes /\ Height \in Nat BY HeightIs
<1>4. CASE UNCHANGED directoryVars
  <2>1. above' = above /\ made' = made /\ edit' = edit /\ exclusive' = exclusive BY <1>4 DEF directoryVars, workdayVars
  <2>2. \A k : (Tied(k) <=> Tied(k)') /\ (Hung(k) <=> Hung(k)') BY <2>1, HangSame DEF Tied, Hung
  <2> QED BY <2>1, <2>2 DEF TreeInv
\* Steps that touch neither tree nor nodes: a call begins, which no other runs beside, or ends.
<1>5. ASSUME NEW u \in Editors, NEW k, Turn(u, k), UNCHANGED <<made, above, workdayVars>>, Tied(k), Hung(k),
             k = Idle \/ MayCall(edit, u), exclusive /\ edit[u] = Idle => \A v \in Editors : edit[v] = Idle
      PROVE  TreeInv'
  <2>1. above' = above /\ made' = made /\ exclusive' = exclusive BY <1>5 DEF workdayVars
  <2>2. Tied(k)' /\ Hung(k)' BY <1>5, <2>1, HangSame DEF Tied, Hung
  <2>3. Linked(above, made)' /\ (above \in [Nodes -> made \cup {None}])' /\ (Trees(above, made) => Trees(above, made)')
    BY <1>1, <2>1 DEF Linked, Trees
  <2> QED BY <1>1, <1>5, <2>1, <2>2, <2>3, TreeTurn
<1>6. ASSUME NEW u \in Editors, MayCall(edit, u)
      PROVE  exclusive /\ edit[u] = Idle => \A v \in Editors : edit[v] = Idle
  BY <1>6 DEF MayCall, TreeInv
<1>7. ASSUME NEW u \in Editors, NEW n \in Nodes, NEW p \in Nodes \cup {None}, NEW account \in Accounts \cup {None},
             NewBegin(u, n, p, account)
      PROVE  TreeInv'
  <2>1. PICK k : k = [op |-> "new", node |-> n, above |-> p, login |-> account] OBVIOUS
  <2>2. Turn(u, k) /\ UNCHANGED <<made, above, workdayVars>> /\ MayCall(edit, u) /\ p \in Above(n)
    BY <1>7, <2>1 DEF NewBegin
  <2>3. Tied(k) /\ Hung(k) BY <2>1, <2>2 DEF Tied, Hung, Above
  <2> QED BY <1>5, <1>6, <2>2, <2>3
<1>8. ASSUME NEW u \in Editors, NEW rows, NEW p, MoveBegin(u, rows, p) PROVE TreeInv'
  <2>1. PICK k : k = [op |-> "move", rows |-> rows, above |-> p] OBVIOUS
  <2>2. /\ Turn(u, k) /\ UNCHANGED <<made, above, workdayVars>> /\ MayCall(edit, u)
        /\ rows # {} /\ rows \subseteq made /\ \A n \in rows : p \in Above(n) /\ MayHang(n, p)
    BY <1>8, <2>1 DEF MoveBegin
  <2>3. Tied(k) /\ Hung(k) BY <2>1, <2>2 DEF Tied, Hung, Above
  <2> QED BY <1>5, <1>6, <2>2, <2>3
<1>9. ASSUME NEW u \in Editors, NEW n, NEW account, LinkBegin(u, n, account) PROVE TreeInv'
  <2>1. PICK k : k = [op |-> "link", node |-> n, login |-> account] OBVIOUS
  <2>2. Turn(u, k) /\ UNCHANGED <<made, above, workdayVars>> /\ MayCall(edit, u) BY <1>9, <2>1 DEF LinkBegin
  <2>3. Tied(k) /\ Hung(k) BY <2>1 DEF Tied, Hung
  <2> QED BY <1>5, <1>6, <2>2, <2>3
<1>10. ASSUME NEW u \in Editors, NEW n, NEW s, NEW l, SkillBegin(u, n, s, l) PROVE TreeInv'
  <2>1. PICK k : k = [op |-> "skill", held |-> [employee |-> n, skill |-> s, level |-> l, type |-> TypeOf[s]]] OBVIOUS
  <2>2. Turn(u, k) /\ UNCHANGED <<made, above, workdayVars>> /\ MayCall(edit, u) BY <1>10, <2>1 DEF SkillBegin
  <2>3. Tied(k) /\ Hung(k) BY <2>1 DEF Tied, Hung
  <2> QED BY <1>5, <1>6, <2>2, <2>3
<1>11. ASSUME NEW u \in Editors, LinkWrite(u) \/ SkillInsert(u) \/ SkillChangeWrite(u) \/ EditFails(u) PROVE TreeInv'
  <2>1. Turn(u, Idle) /\ UNCHANGED <<made, above, workdayVars>> /\ edit[u] # Idle
    BY <1>2, <1>11 DEF LinkWrite, SkillInsert, SkillChangeWrite, EditFails
  <2>2. Tied(Idle) /\ Hung(Idle) BY <1>2 DEF Tied, Hung
  <2> QED BY <1>5, <2>1, <2>2
<1>12. ASSUME NEW u \in Editors, NEW rows, NEW given, SkillChangeBegin(u, rows, given) PROVE TreeInv'
  <2>1. PICK k : k = [op |-> "change", rows |-> rows, given |-> given] OBVIOUS
  <2>2. Turn(u, k) /\ UNCHANGED <<made, above, workdayVars>> /\ MayCall(edit, u) BY <1>12, <2>1 DEF SkillChangeBegin
  <2>3. Tied(k) /\ Hung(k) BY <2>1 DEF Tied, Hung
  <2> QED BY <1>5, <1>6, <2>2, <2>3
<1>13. ASSUME NEW u \in Editors, NewInsert(u) PROVE TreeInv'
  <2>1. PICK c : c = edit[u] OBVIOUS
  <2>2. PICK n, p : n = c.node /\ p = c.above OBVIOUS
  <2>3. /\ c.op = "new" /\ n \notin made /\ made' = made \cup {n} /\ above' = [above EXCEPT ![n] = p]
        /\ Turn(u, Idle) /\ exclusive' = exclusive
    BY <1>13, <2>1, <2>2 DEF NewInsert, workdayVars
  <2>4. n \in Nodes /\ p \in made \cup {None}
    <3>1. Tied(c) BY <1>1, <2>1
    <3> QED BY <2>2, <2>3, <3>1 DEF Tied
  <2>5. edit[u] # Idle BY <1>2, <2>1, <2>3
  <2>6. \A x \in Nodes : above'[x] = IF x = n THEN p ELSE above[x] BY <1>1, <2>3
  <2>7. made \subseteq Nodes /\ \A x \in made : above'[x] = above[x] /\ above[x] \in made \cup {None}
    BY <1>1, <2>3, <2>6 DEF Linked
  <2>8. Linked(above, made)' BY <2>3, <2>4, <2>6, <2>7 DEF Linked
  <2>9. above' \in [Nodes -> made' \cup {None}]
    <3>1. above' = [x \in Nodes |-> above'[x]] BY <1>1, <2>3
    <3>2. \A x \in Nodes : above'[x] \in made' \cup {None} BY <1>1, <2>3, <2>4, <2>6
    <3> QED BY <3>1, <3>2
  <2>10. exclusive => Trees(above, made)'
    <3>1. exclusive => Trees(above, made) BY <1>1
    <3>2. above'[n] \in made \cup {None} /\ n # None BY <1>3, <2>4, <2>6
    <3>3. \A x \in made : above'[x] = above[x] BY <2>7
    <3>4. exclusive => Trees(above', made \cup {n}) BY <1>1, <2>3, <3>1, <3>2, <3>3, NewKeeps
    <3> QED BY <2>3, <3>4
  <2> QED BY <1>2, <2>3, <2>5, <2>8, <2>9, <2>10, TreeTurn
<1>14. ASSUME NEW u \in Editors, MoveWrite(u) PROVE TreeInv'
  <2>1. PICK c : c = edit[u] OBVIOUS
  <2>2. PICK rows, p : rows = c.rows /\ p = c.above OBVIOUS
  <2>3. /\ c.op = "move" /\ made' = made /\ above' = [x \in Nodes |-> IF x \in rows THEN p ELSE above[x]]
        /\ Turn(u, Idle) /\ exclusive' = exclusive
    BY <1>14, <2>1, <2>2 DEF MoveWrite, workdayVars
  <2>4. rows \subseteq made /\ p \in made \cup {None}
    <3>1. Tied(c) BY <1>1, <2>1
    <3> QED BY <2>2, <2>3, <3>1 DEF Tied
  <2>5. edit[u] # Idle BY <1>2, <2>1, <2>3
  <2>6. \A x \in Nodes : above'[x] = IF x \in rows THEN p ELSE above[x] BY <2>3
  <2>7. Linked(above, made)' BY <1>1, <2>3, <2>4, <2>6 DEF Linked
  <2>8. above' \in [Nodes -> made' \cup {None}] BY <1>1, <2>3, <2>4
  <2>9. ASSUME exclusive PROVE Trees(above', made)
    <3>1. Trees(above, made) /\ Hung(c) BY <1>1, <2>1, <2>9
    <3>2. \A m \in rows : p # None => m \notin Up(p) /\ ~Loops(p) BY <2>2, <2>3, <3>1 DEF Hung, MayHang
    <3>3. PICK s : s = Chain(p) OBVIOUS
    <3>4. Upward(above, p, s) BY <3>3, ChainIs
    <3>5. ASSUME p # None, NEW m \in rows, NEW k \in 0 .. Height PROVE s[k] # m
      <4>1. m \notin Up(p) /\ m # None BY <1>1, <1>3, <2>4, <3>2, <3>5 DEF Linked
      <4>2. s[k] # None => s[k] \in Up(p) BY <3>3 DEF Up
      <4> QED BY <4>1, <4>2
    <3>6. CASE rows = {}
      <4>1. \A x \in made : above'[x] = above[x] BY <1>1, <2>6, <3>6 DEF Linked
      <4> QED BY <3>1, <4>1 DEF Trees
    <3>7. CASE rows # {}
      <4>1. p # None => s[Height] = None BY <3>2, <3>3, <3>7 DEF Loops
      <4>2. PICK A, B, M : A = above /\ B = above' /\ M = made OBVIOUS
      <4>3. Clear(s, p, rows) BY <3>5, <4>1 DEF Clear
      <4>4. Hang(A, B, M, p, rows) BY <1>1, <2>6, <4>2 DEF Hang, Linked
      <4>5. Linked(A, M) BY <1>1, <4>2
      <4>6. Trees(A, M) BY <3>1, <4>2
      <4>7. Upward(A, p, s) BY <3>4, <4>2
      <4>8. rows \subseteq M BY <2>4, <4>2
      <4>9. p \in M \cup {None} BY <2>4, <4>2
      <4>10. Trees(B, M) BY ONLY <4>3, <4>4, <4>5, <4>6, <4>7, <4>8, <4>9, HangKeeps
      <4> QED BY <4>2, <4>10
    <3> QED BY <3>6, <3>7
  <2> QED BY <1>2, <2>3, <2>5, <2>7, <2>8, <2>9, TreeTurn
<1> QED BY <1>4, <1>7, <1>8, <1>9, <1>10, <1>11, <1>12, <1>13, <1>14 DEF DirectoryNext

LEMMA TreesAre == TreeInv => (exclusive => \A n \in made : ~Loops(n))
<1> SUFFICES ASSUME TreeInv, exclusive, NEW n \in made PROVE Chain(n)[Height] = None BY DEF Loops
<1>1. Upward(above, n, Chain(n)) BY ChainIs
<1> QED BY <1>1, ChainsEnd DEF TreeInv

LEMMA TreeInit == DirectoryInit => TreeInv
<1> SUFFICES ASSUME DirectoryInit PROVE TreeInv OBVIOUS
<1>1. made = {} /\ above = [n \in Nodes |-> None] /\ edit = [u \in Editors |-> Idle] BY DEF DirectoryInit
<1>2. Idle.op = "idle" BY DEF Idle
<1>3. Linked(above, made) /\ Trees(above, made) BY <1>1 DEF Linked, Trees
<1>4. \A u \in Editors : Tied(edit[u]) /\ Hung(edit[u]) BY <1>1, <1>2 DEF Tied, Hung
<1> QED BY <1>1, <1>3, <1>4 DEF TreeInv

\* When nothing overlaps, what a call has checked of levels holds when it writes.
Graded(k, table) ==
  /\ k.op = "skill" => LevelFits(k.held)
  /\ k.op = "change" => \A i \in k.rows : LevelFits(Merged(table[i], k.given))
GradeInv ==
  exclusive => /\ \A i \in DOMAIN skills : LevelFits(skills[i])
               /\ \A u \in Editors : Graded(edit[u], skills)

LEMMA GradeTurn ==
  ASSUME TreeInv, GradeInv, NEW u \in Editors, NEW k, Turn(u, k), exclusive' = exclusive,
         MayCall(edit, u) \/ edit[u] # Idle,
         exclusive => /\ \A i \in DOMAIN skills' : LevelFits(skills'[i])
                      /\ Graded(k, skills')
  PROVE  GradeInv'
<1> SUFFICES ASSUME exclusive PROVE \A v \in Editors : Graded(edit'[v], skills')
  BY DEF GradeInv, LevelFits
<1>1. \A v \in Editors : v # u => edit[v] = Idle BY DEF MayCall, TreeInv
<1>2. \A v \in Editors : edit'[v] = IF v = u THEN k ELSE Idle BY <1>1 DEF Turn, TreeInv
<1>3. Graded(Idle, skills') BY DEF Graded, Idle
<1> QED BY <1>2, <1>3

LEMMA GradeStep == DirectoryInv /\ TreeInv /\ GradeInv /\ [DirectoryNext]_directoryVars => GradeInv'
<1> SUFFICES ASSUME DirectoryInv, TreeInv, GradeInv, [DirectoryNext]_directoryVars PROVE GradeInv'
  OBVIOUS
<1>1. Graded(Idle, skills) /\ Graded(Idle, skills') BY DEF Graded, Idle
<1>2. exclusive => \A i \in DOMAIN skills : LevelFits(skills[i]) BY DEF GradeInv
<1>3. CASE UNCHANGED directoryVars
  BY <1>3 DEF directoryVars, workdayVars, GradeInv, LevelFits, Graded, Merged
\* A call that has nothing to do with skills begins, or one ends.
<1>4. ASSUME NEW u \in Editors, NEW k, Turn(u, k), UNCHANGED <<skills, workdayVars>>,
             MayCall(edit, u) \/ edit[u] # Idle, k.op \notin {"skill", "change"}
      PROVE  GradeInv'
  BY <1>2, <1>4, GradeTurn DEF Graded, workdayVars
<1>5. ASSUME NEW u \in Editors, NEW n, NEW p, NEW account, NewBegin(u, n, p, account) PROVE GradeInv'
  BY <1>4, <1>5 DEF NewBegin
<1>6. ASSUME NEW u \in Editors, NEW rows, NEW p, MoveBegin(u, rows, p) PROVE GradeInv'
  BY <1>4, <1>6 DEF MoveBegin
<1>7. ASSUME NEW u \in Editors, NEW n, NEW account, LinkBegin(u, n, account) PROVE GradeInv'
  BY <1>4, <1>7 DEF LinkBegin
<1>8. ASSUME NEW u \in Editors, NewInsert(u) \/ MoveWrite(u) \/ LinkWrite(u) \/ EditFails(u) PROVE GradeInv'
  BY <1>4, <1>8 DEF NewInsert, MoveWrite, LinkWrite, EditFails, Idle
<1>9. ASSUME NEW u \in Editors, NEW n, NEW s, NEW l, SkillBegin(u, n, s, l) PROVE GradeInv'
  <2>1. PICK k, h : /\ h = [employee |-> n, skill |-> s, level |-> l, type |-> TypeOf[s]]
                    /\ k = [op |-> "skill", held |-> h]
    OBVIOUS
  <2>2. /\ Turn(u, k) /\ UNCHANGED <<skills, workdayVars>> /\ MayCall(edit, u) /\ LevelFits(h)
    BY <1>9, <2>1 DEF SkillBegin
  <2>3. Graded(k, skills') BY <2>1, <2>2 DEF Graded
  <2> QED BY <1>2, <2>2, <2>3, GradeTurn DEF workdayVars
<1>10. ASSUME NEW u \in Editors, NEW rows, NEW given, SkillChangeBegin(u, rows, given) PROVE GradeInv'
  <2>1. PICK k : k = [op |-> "change", rows |-> rows, given |-> given] OBVIOUS
  <2>2. /\ Turn(u, k) /\ UNCHANGED <<skills, workdayVars>> /\ MayCall(edit, u)
        /\ \A i \in rows : LevelFits(Merged(skills[i], given))
    BY <1>10, <2>1 DEF SkillChangeBegin
  <2>3. Graded(k, skills') BY <2>1, <2>2 DEF Graded
  <2> QED BY <1>2, <2>2, <2>3, GradeTurn DEF workdayVars
<1>11. ASSUME NEW u \in Editors, SkillInsert(u) PROVE GradeInv'
  <2>1. PICK h : h = edit[u].held OBVIOUS
  <2>2. /\ edit[u].op = "skill" /\ skills' = Append(skills, h) /\ Turn(u, Idle) /\ UNCHANGED workdayVars
    BY <1>11, <2>1 DEF SkillInsert
  <2>3. exclusive => LevelFits(h) BY <2>1, <2>2 DEF GradeInv, Graded
  <2>4. skills \in Seq(SkillRows) BY DEF DirectoryInv
  <2>5. exclusive => \A i \in DOMAIN skills' : LevelFits(skills'[i]) BY <1>2, <2>2, <2>3, <2>4
  <2>6. edit[u] # Idle BY <2>2 DEF Idle
  <2> QED BY <1>1, <2>2, <2>5, <2>6, GradeTurn DEF workdayVars
<1>12. ASSUME NEW u \in Editors, SkillChangeWrite(u) PROVE GradeInv'
  <2>1. PICK c, g : c = edit[u] /\ g = c.given OBVIOUS
  <2>2. /\ c.op = "change" /\ Turn(u, Idle) /\ UNCHANGED workdayVars
        /\ skills' = [i \in DOMAIN skills |-> IF i \in c.rows THEN Merged(skills[i], g) ELSE skills[i]]
    BY <1>12, <2>1 DEF SkillChangeWrite
  <2>3. exclusive => \A i \in c.rows : LevelFits(Merged(skills[i], g)) BY <2>1, <2>2 DEF GradeInv, Graded
  <2>4. exclusive => \A i \in DOMAIN skills' : LevelFits(skills'[i]) BY <1>2, <2>2, <2>3
  <2>5. edit[u] # Idle BY <2>1, <2>2 DEF Idle
  <2> QED BY <1>1, <2>2, <2>4, <2>5, GradeTurn DEF workdayVars
<1> QED BY <1>3, <1>5, <1>6, <1>7, <1>8, <1>9, <1>10, <1>11, <1>12 DEF DirectoryNext

\* Whatever the employees, departments, users, skills and editors: however calls overlap, a
\* user stands for one employee at most, and an employee holds a skill once and under its type
\* (the checks of hr_employee.py and hr_skill.py and the unique indexes behind them). When they
\* do not overlap, every level is one of the skill's type, whatever fields of whichever rows
\* are written, and departments and managers form trees, in any order of moves and with rows
\* moved together, so that every chain of superiors has an end.
THEOREM DirectoryHolds == DirectorySpec => []DirectorySound
<1>1. DirectoryInit => DirectoryInv /\ GradeInv
  <2> SUFFICES ASSUME DirectoryInit PROVE DirectoryInv /\ GradeInv
    OBVIOUS
  <2>1. skills = <<>> /\ DOMAIN skills = {} BY DEF DirectoryInit
  <2>2. \A u \in Editors : Skilled(edit[u]) /\ Graded(edit[u], skills)
    BY DEF DirectoryInit, Skilled, Graded, Idle
  <2> QED BY <2>1, <2>2 DEF DirectoryInit, DirectoryInv, GradeInv, UsersApart, SkillsHeldOnce, Idle
<1>2. DirectorySpec => []DirectoryInv BY <1>1, DirectoryStepInv, PTL DEF DirectorySpec
<1>3. DirectorySpec => []TreeInv BY <1>2, TreeInit, TreeStep, PTL DEF DirectorySpec
<1>4. DirectorySpec => []GradeInv BY <1>1, <1>2, <1>3, GradeStep, PTL DEF DirectorySpec
<1>5. DirectoryInv /\ TreeInv /\ GradeInv => DirectorySound
  <2> SUFFICES ASSUME DirectoryInv, TreeInv, GradeInv PROVE exclusive => SkillsGraded
    BY TreesAre DEF DirectoryInv, DirectorySound
  <2>1. \A i \in DOMAIN skills : skills[i].type = TypeOf[skills[i].skill] BY DEF DirectoryInv, SkillFits
  <2> QED BY <2>1 DEF GradeInv, LevelFits, SkillsGraded
<1> QED BY <1>2, <1>3, <1>4, <1>5, PTL
-----------------------------------------------------------------------------
(* Fleet.                                                                  *)
Readings == [value : Nat, date : Nat, inconsistent : BOOLEAN]
ServiceRows == [state : {"open", "expired", "closed"}, end : Nat]
People == Drivers \cup {NoDriver}
AssignCalls == [op : {"history", "driver"}, driver : People, clears : BOOLEAN, former : SUBSET People]
ReadCalls == [op : {"reading"}, value : Nat, date : Nat, inconsistent : BOOLEAN]

FleetTypes ==
  /\ vehicle \in [driver : People, former : SUBSET People, flagged : BOOLEAN]
  /\ drove \subseteq Drivers
  /\ readings \in Seq(Readings)
  /\ service \in [Services -> {NotSigned} \cup ServiceRows]
  /\ dispatch \in [Dispatchers -> {Idle} \cup AssignCalls \cup ReadCalls]
  /\ today \in Nat

\* Nobody is forgotten, also between the history that a call writes and the
\* driver: the previous driver is in the history before being replaced.
Remembered == drove \subseteq vehicle.former \cup {vehicle.driver}
Marked ==
  \A i, j \in DOMAIN readings : i < j /\ readings[j].value < readings[i].value => readings[j].inconsistent
DispatchUnderWay(c) ==
  /\ c.op = "history" => vehicle.former \cup {vehicle.driver} \subseteq c.former
  /\ c.op = "driver" => vehicle.driver \in vehicle.former \cup {NoDriver, c.driver}
  /\ c.op = "reading" => c.inconsistent = Below(c.value)

FleetInv ==
  /\ FleetTypes
  /\ exclusive =>
       /\ Remembered
       /\ Marked
       /\ \A u, v \in Dispatchers : u # v => dispatch[u] = Idle \/ dispatch[v] = Idle
       /\ \A u \in Dispatchers : DispatchUnderWay(dispatch[u])

LEMMA FleetInitInv == FleetInit => FleetInv
<1> SUFFICES ASSUME FleetInit PROVE FleetInv
  OBVIOUS
<1>1. FleetTypes BY DEF FleetInit, FleetTypes, People, WorkdayInit
<1>2. Remembered /\ Marked BY DEF FleetInit, Remembered, Marked
<1>3. \A u \in Dispatchers : DispatchUnderWay(dispatch[u]) BY DEF FleetInit, DispatchUnderWay, Idle
<1> QED BY <1>1, <1>2, <1>3 DEF FleetInv, FleetInit

\* A call begins, goes on or ends, and nobody else is at work.
LEMMA DispatchTurn ==
  ASSUME FleetInv, NEW u \in Dispatchers, NEW k \in {Idle} \cup AssignCalls \cup ReadCalls, Onward(u, k),
         exclusive' = exclusive, FleetTypes',
         exclusive => /\ \A v \in Dispatchers : v # u => dispatch[v] = Idle
                      /\ Remembered' /\ Marked' /\ DispatchUnderWay(k)'
  PROVE  FleetInv'
<1> SUFFICES ASSUME exclusive
             PROVE  (/\ \A v, w \in Dispatchers : v # w => dispatch[v] = Idle \/ dispatch[w] = Idle
                     /\ \A v \in Dispatchers : DispatchUnderWay(dispatch[v]))'
  BY DEF FleetInv
<1>1. dispatch'[u] = k /\ \A v \in Dispatchers : v # u => dispatch'[v] = Idle
  BY DEF Onward, FleetInv, FleetTypes
<1>2. (\A v \in Dispatchers : DispatchUnderWay(dispatch[v]))'
  <2> SUFFICES ASSUME NEW v \in Dispatchers PROVE DispatchUnderWay(dispatch[v])'
    OBVIOUS
  <2>1. CASE v = u BY <1>1, <2>1 DEF DispatchUnderWay
  <2>2. CASE v # u BY <1>1, <2>2 DEF DispatchUnderWay, Idle
  <2> QED BY <2>1, <2>2
<1> QED BY <1>1, <1>2

LEMMA FleetStepInv == FleetInv /\ [FleetNext]_fleetVars => FleetInv'
<1> SUFFICES ASSUME FleetInv, [FleetNext]_fleetVars PROVE FleetInv'
  OBVIOUS
<1>1. FleetTypes BY DEF FleetInv
<1>2. ASSUME NEW u \in Dispatchers, MayCall(dispatch, u) \/ dispatch[u] # Idle
      PROVE  exclusive => /\ \A v \in Dispatchers : v # u => dispatch[v] = Idle
                          /\ Remembered /\ Marked /\ DispatchUnderWay(dispatch[u])
  BY <1>1, <1>2 DEF FleetInv, FleetTypes, MayCall
<1>3. ASSUME NEW u \in Dispatchers, NEW d \in Drivers \cup {NoDriver}, NEW clears \in BOOLEAN, AssignBegin(u, d, clears)
      PROVE  FleetInv'
  <2>1. PICK prev, k : /\ prev = vehicle.driver
                       /\ k = [op |-> IF prev \notin {NoDriver, d} THEN "history" ELSE "driver",
                               driver |-> d, clears |-> clears, former |-> vehicle.former \cup {prev}]
    OBVIOUS
  <2>2. /\ MayCall(dispatch, u) /\ Onward(u, k)
        /\ UNCHANGED <<vehicle, drove, readings, service, today, exclusive>>
    BY <1>3, <2>1 DEF AssignBegin, workdayVars
  <2>3. k \in AssignCalls BY <1>1, <2>1 DEF AssignCalls, People, FleetTypes
  <2>4. FleetTypes' BY <1>1, <2>2, <2>3 DEF FleetTypes, Onward
  <2>5. DispatchUnderWay(k)' BY <2>1, <2>2 DEF DispatchUnderWay
  <2>6. (Remembered => Remembered') /\ (Marked => Marked') BY <2>2 DEF Remembered, Marked
  <2> QED BY <1>2, <2>2, <2>3, <2>4, <2>5, <2>6, DispatchTurn
<1>4. ASSUME NEW u \in Dispatchers, AssignHistory(u) PROVE FleetInv'
  <2>1. PICK c, k : c = dispatch[u] /\ k = [c EXCEPT !.op = "driver"] OBVIOUS
  <2>2. /\ c.op = "history" /\ vehicle' = [vehicle EXCEPT !.former = c.former] /\ Onward(u, k)
        /\ UNCHANGED <<drove, readings, service, today, exclusive>>
    BY <1>4, <2>1 DEF AssignHistory, workdayVars
  <2>3. c \in AssignCalls /\ c # Idle BY <1>1, <2>1, <2>2 DEF FleetTypes, AssignCalls, ReadCalls, Idle
  <2>4. k \in AssignCalls /\ k.op = "driver" /\ k.driver = c.driver BY <2>1, <2>3 DEF AssignCalls
  <2>5. /\ vehicle' \in [driver : People, former : SUBSET People, flagged : BOOLEAN]
        /\ vehicle'.driver = vehicle.driver /\ vehicle'.former = c.former
    BY <1>1, <2>2, <2>3 DEF FleetTypes, AssignCalls
  <2>6. FleetTypes' BY <1>1, <2>2, <2>4, <2>5 DEF FleetTypes, Onward
  <2>7. DispatchUnderWay(c) /\ Remembered => Remembered' /\ DispatchUnderWay(k)'
    BY <2>2, <2>4, <2>5 DEF DispatchUnderWay, Remembered
  <2>8. Marked => Marked' BY <2>2 DEF Marked
  <2> QED BY <1>2, <2>1, <2>2, <2>3, <2>4, <2>6, <2>7, <2>8, DispatchTurn
<1>5. ASSUME NEW u \in Dispatchers, AssignDriver(u) PROVE FleetInv'
  <2>1. PICK c, flagged : c = dispatch[u] /\ flagged = IF c.clears THEN FALSE ELSE vehicle.flagged OBVIOUS
  <2>2. /\ c.op = "driver" /\ vehicle' = [vehicle EXCEPT !.driver = c.driver, !.flagged = flagged]
        /\ drove' = drove \cup ({c.driver} \ {NoDriver}) /\ Onward(u, Idle)
        /\ UNCHANGED <<readings, service, today, exclusive>>
    BY <1>5, <2>1 DEF AssignDriver, workdayVars
  <2>3. c \in AssignCalls /\ c # Idle BY <1>1, <2>1, <2>2 DEF FleetTypes, AssignCalls, ReadCalls, Idle
  <2>4. flagged \in BOOLEAN /\ c.driver \in People BY <1>1, <2>1, <2>3 DEF FleetTypes, AssignCalls
  <2>5. /\ vehicle' \in [driver : People, former : SUBSET People, flagged : BOOLEAN]
        /\ vehicle'.driver = c.driver /\ vehicle'.former = vehicle.former
    BY <1>1, <2>2, <2>4 DEF FleetTypes
  <2>6. drove' \subseteq Drivers BY <1>1, <2>2, <2>4 DEF FleetTypes, People
  <2>7. FleetTypes' BY <1>1, <2>2, <2>5, <2>6 DEF FleetTypes, Onward
  <2>8. DispatchUnderWay(c) /\ Remembered => Remembered'
    <3>1. NoDriver \notin drove BY <1>1, FleetAssumption DEF FleetTypes
    <3> QED BY <2>2, <2>5, <3>1 DEF DispatchUnderWay, Remembered
  <2>9. (Marked => Marked') /\ DispatchUnderWay(Idle)' BY <2>2 DEF Marked, DispatchUnderWay, Idle
  <2> QED BY <1>2, <2>1, <2>2, <2>3, <2>7, <2>8, <2>9, DispatchTurn
<1>6. ASSUME NEW u \in Dispatchers, NEW value \in 1 .. MaxValue, NEW date \in 0 .. today, ReadBegin(u, value, date)
      PROVE  FleetInv'
  <2>1. PICK k : k = [op |-> "reading", value |-> value, date |-> date, inconsistent |-> Below(value)] OBVIOUS
  <2>2. /\ MayCall(dispatch, u) /\ Onward(u, k)
        /\ UNCHANGED <<vehicle, drove, readings, service, today, exclusive>>
    BY <1>6, <2>1 DEF ReadBegin, workdayVars
  <2>3. value \in Nat /\ date \in Nat BY <1>1, FleetAssumption DEF FleetTypes
  <2>4. k \in ReadCalls BY <2>1, <2>3 DEF ReadCalls, Below
  <2>5. FleetTypes' BY <1>1, <2>2, <2>4 DEF FleetTypes, Onward
  <2>6. DispatchUnderWay(k)' BY <2>1, <2>2 DEF DispatchUnderWay, Below
  <2>7. (Remembered => Remembered') /\ (Marked => Marked') BY <2>2 DEF Remembered, Marked
  <2> QED BY <1>2, <2>2, <2>4, <2>5, <2>6, <2>7, DispatchTurn
<1>7. ASSUME NEW u \in Dispatchers, ReadStore(u) PROVE FleetInv'
  <2>1. PICK c, row : /\ c = dispatch[u]
                      /\ row = [value |-> c.value, date |-> c.date, inconsistent |-> c.inconsistent]
    OBVIOUS
  <2>2. /\ c.op = "reading" /\ readings' = Append(readings, row) /\ Onward(u, Idle)
        /\ UNCHANGED <<vehicle, drove, service, today, exclusive>>
    BY <1>7, <2>1 DEF ReadStore, workdayVars
  <2>3. c \in ReadCalls /\ c # Idle BY <1>1, <2>1, <2>2 DEF FleetTypes, AssignCalls, ReadCalls, Idle
  <2>4. row \in Readings /\ row.value = c.value /\ row.inconsistent = c.inconsistent
    BY <2>1, <2>3 DEF Readings, ReadCalls
  <2>5. /\ readings' \in Seq(Readings) /\ Len(readings') = Len(readings) + 1
        /\ Len(readings) \in Nat
        /\ DOMAIN readings = 1 .. Len(readings) /\ DOMAIN readings' = 1 .. Len(readings) + 1
        /\ readings'[Len(readings) + 1] = row
        /\ \A i \in 1 .. Len(readings) : readings'[i] = readings[i]
    BY <1>1, <2>2, <2>4 DEF FleetTypes
  <2>6. FleetTypes' BY <1>1, <2>2, <2>5 DEF FleetTypes, Onward
  <2>7. DispatchUnderWay(c) /\ Marked => Marked'
    <3> SUFFICES ASSUME DispatchUnderWay(c), Marked,
                        NEW i \in 1 .. Len(readings) + 1, NEW j \in 1 .. Len(readings) + 1,
                        i < j, readings'[j].value < readings'[i].value
                 PROVE  readings'[j].inconsistent
      BY <2>5 DEF Marked
    <3>1. i \in 1 .. Len(readings) BY <2>5
    <3>2. CASE j = Len(readings) + 1
      <4>1. Below(c.value) BY <2>4, <2>5, <3>1, <3>2 DEF Below
      <4> QED BY <2>2, <2>4, <2>5, <3>2, <4>1 DEF DispatchUnderWay
    <3>3. CASE j # Len(readings) + 1
      <4>1. j \in 1 .. Len(readings) BY <2>5, <3>3
      <4> QED BY <2>5, <3>1, <4>1 DEF Marked
    <3> QED BY <3>2, <3>3
  <2>8. (Remembered => Remembered') /\ DispatchUnderWay(Idle)' BY <2>2 DEF Remembered, DispatchUnderWay, Idle
  <2> QED BY <1>2, <2>1, <2>2, <2>3, <2>6, <2>7, <2>8, DispatchTurn
<1>8. ASSUME NEW u \in Dispatchers, DispatchFails(u) PROVE FleetInv'
  <2>1. /\ dispatch[u] # Idle /\ Onward(u, Idle)
        /\ UNCHANGED <<vehicle, drove, readings, service, today, exclusive>>
    BY <1>8 DEF DispatchFails, workdayVars
  <2>2. FleetTypes' BY <1>1, <2>1 DEF FleetTypes, Onward
  <2>3. (Remembered => Remembered') /\ (Marked => Marked') /\ DispatchUnderWay(Idle)'
    BY <2>1 DEF Remembered, Marked, DispatchUnderWay, Idle
  <2> QED BY <1>2, <2>1, <2>2, <2>3, DispatchTurn
<1>9. ASSUME UNCHANGED <<drove, readings, dispatch, exclusive>>, FleetTypes',
             vehicle'.driver = vehicle.driver, vehicle'.former = vehicle.former
      PROVE  FleetInv'
  BY <1>9 DEF FleetInv, Remembered, Marked, DispatchUnderWay, Below
<1>10. CASE UNCHANGED fleetVars
  <2>1. FleetTypes' BY <1>1, <1>10 DEF fleetVars, workdayVars, FleetTypes
  <2> QED BY <1>9, <1>10, <2>1 DEF fleetVars, workdayVars
<1>11. ASSUME NEW d \in Drivers, Archive(d) PROVE FleetInv'
  <2>1. FleetTypes' BY <1>1, <1>11 DEF Archive, workdayVars, FleetTypes
  <2> QED BY <1>9, <1>11, <2>1 DEF Archive, workdayVars
<1>12. CASE FlagArchived
  <2>1. /\ vehicle' \in [driver : People, former : SUBSET People, flagged : BOOLEAN]
        /\ vehicle'.driver = vehicle.driver /\ vehicle'.former = vehicle.former
    BY <1>1, <1>12 DEF FlagArchived, FleetTypes
  <2>2. FleetTypes' BY <1>1, <1>12, <2>1 DEF FlagArchived, workdayVars, FleetTypes
  <2> QED BY <1>9, <1>12, <2>1, <2>2 DEF FlagArchived, workdayVars
<1>13. ASSUME NEW s \in Services, NEW end \in 0 .. LastDay, Sign(s, end) PROVE FleetInv'
  <2>1. PICK row : row = [state |-> "open", end |-> end] OBVIOUS
  <2>2. row \in ServiceRows BY <2>1, LastDayAssumption DEF ServiceRows
  <2>3. service' = [service EXCEPT ![s] = row] BY <1>13, <2>1 DEF Sign
  <2>4. FleetTypes' BY <1>1, <1>13, <2>2, <2>3 DEF Sign, workdayVars, FleetTypes
  <2> QED BY <1>9, <1>13, <2>4 DEF Sign, workdayVars
<1>14. ASSUME NEW s \in Services, Close(s) PROVE FleetInv'
  <2>1. PICK row : row = [service[s] EXCEPT !.state = "closed"] OBVIOUS
  <2>2. service[s] \in ServiceRows BY <1>1, <1>14 DEF Close, FleetTypes, NotSigned
  <2>3. row \in ServiceRows BY <2>1, <2>2 DEF ServiceRows
  <2>4. service' = [service EXCEPT ![s] = row] BY <1>14, <2>1 DEF Close
  <2>5. FleetTypes' BY <1>1, <1>14, <2>3, <2>4 DEF Close, workdayVars, FleetTypes
  <2> QED BY <1>9, <1>14, <2>5 DEF Close, workdayVars
<1>15. CASE ExpireServices
  <2>1. \A s \in Services : service[s] # NotSigned => [service[s] EXCEPT !.state = "expired"] \in ServiceRows
    BY <1>1 DEF FleetTypes, ServiceRows
  <2>2. service' \in [Services -> {NotSigned} \cup ServiceRows]
    BY <1>1, <1>15, <2>1 DEF ExpireServices, FleetTypes, NotSigned
  <2>3. FleetTypes' BY <1>1, <1>15, <2>2 DEF ExpireServices, workdayVars, FleetTypes
  <2> QED BY <1>9, <1>15, <2>3 DEF ExpireServices, workdayVars
<1>16. CASE NextDay /\ UNCHANGED <<vehicle, active, drove, readings, service, dispatch>>
  <2>1. FleetTypes' BY <1>1, <1>16 DEF NextDay, FleetTypes
  <2> QED BY <1>9, <1>16, <2>1 DEF NextDay
<1> QED
  BY <1>3, <1>4, <1>5, <1>6, <1>7, <1>8, <1>10, <1>11, <1>12, <1>13, <1>14, <1>15, <1>16 DEF FleetNext

\* Whatever the drivers, readings, dates and service contracts: when calls do
\* not overlap, nobody who has driven the vehicle is forgotten and the odometer
\* falls back only through a marked or back-dated reading; a service contract
\* that has run out is alerted until it is closed, whatever overlaps (write of
\* fleet_vehicle.py, create of fleet_vehicle_odometer.py, the alerts).
THEOREM Kept == FleetSpec => []FleetKept
<1>1. FleetSpec => []FleetInv BY FleetInitInv, FleetStepInv, PTL DEF FleetSpec
<1>2. FleetInv => FleetKept
  <2> SUFFICES ASSUME FleetInv PROVE FleetKept
    OBVIOUS
  <2>1. FleetTypes BY DEF FleetInv
  <2>2. \A i \in DOMAIN readings : readings[i] \in Readings BY <2>1 DEF FleetTypes
  <2>3. DOMAIN readings \subseteq Int BY <2>1 DEF FleetTypes
  <2>4. ASSUME exclusive, NEW v \in Odometer, NEW i \in DOMAIN readings, readings[i].value > v
        PROVE  \/ \E j \in DOMAIN readings : readings[j].inconsistent /\ readings[j].value = v
               \/ \E k, j \in DOMAIN readings : k < j /\ readings[j].date < readings[k].date
    <3>1. PICK j \in DOMAIN readings : /\ v = readings[j].value
                                      /\ \/ readings[i].date < readings[j].date
                                         \/ readings[i].date = readings[j].date /\ i <= j
      BY DEF Odometer
    <3>2. i # j BY <2>2, <2>4, <3>1 DEF Readings
    <3>3. CASE i < j
      <4>1. readings[j].inconsistent BY <2>4, <3>1, <3>3 DEF FleetInv, Marked
      <4> QED BY <3>1, <4>1
    <3>4. CASE j < i
      <4>1. readings[i].date < readings[j].date BY <2>2, <2>3, <3>1, <3>4 DEF Readings
      <4> QED BY <3>4, <4>1
    <3> QED BY <2>3, <3>2, <3>3, <3>4
  <2>5. \A s \in Services : service[s].state = "open" /\ service[s].end < today => s \in Alerts
    BY <2>1, FleetAssumption DEF FleetTypes, ServiceRows, NotSigned, Alerts
  <2> QED BY <2>4, <2>5 DEF FleetKept, FleetInv, Remembered, Marked
<1> QED BY <1>1, <1>2, PTL
-----------------------------------------------------------------------------
(* Division: whole periods added to a date add to its quotient.            *)
LEMMA Times ==
  ASSUME NEW P \in Nat \ {0}, NEW k \in Int, k >= 1
  PROVE  k * P >= P
  BY SMT

LEMMA Quotient ==
  ASSUME NEW P \in Nat \ {0}, NEW n \in Nat
  PROVE  /\ n \div P \in Nat
         /\ n % P \in 0 .. P - 1
         /\ n = (n \div P) * P + (n % P)
  BY SMT

LEMMA OneQuotient ==
  ASSUME NEW P \in Nat \ {0}, NEW k \in Nat, NEW q \in Nat, NEW r \in 0 .. P - 1, k * P = q * P + r
  PROVE  k = q /\ r = 0
<1>1. CASE k > q
  <2>1. (k - q) * P = r BY <1>1, SMT
  <2>2. (k - q) * P >= P BY <1>1, Times
  <2> QED BY <2>1, <2>2
<1>2. CASE k < q
  <2>1. (q - k) * P + r = 0 BY <1>2, SMT
  <2>2. (q - k) * P >= P BY <1>2, Times
  <2> QED BY <2>1, <2>2
<1> QED BY <1>1, <1>2

LEMMA Whole ==
  ASSUME NEW P \in Nat \ {0}, NEW n \in Nat, n % P = 0, NEW p \in Nat
  PROVE  /\ n + p * P \in Nat
         /\ (n + p * P) % P = 0
         /\ (n + p * P) \div P = (n \div P) + p
<1> DEFINE q == n \div P
           m == n + p * P
<1>1. q \in Nat /\ n = q * P BY Quotient
<1>2. p * P \in Nat BY SMT
<1>3. m \in Nat BY <1>2
<1>4. (q + p) * P = (m \div P) * P + (m % P)
  <2>1. m = (q + p) * P BY <1>1, SMT
  <2>2. m = (m \div P) * P + (m % P) BY <1>3, Quotient
  <2> QED BY <2>1, <2>2
<1>5. m \div P \in Nat /\ m % P \in 0 .. P - 1 BY <1>3, Quotient
<1> HIDE DEF m
<1>6. q + p = m \div P /\ m % P = 0 BY <1>1, <1>4, <1>5, OneQuotient
<1> QED BY <1>3, <1>6 DEF m
-----------------------------------------------------------------------------
(* Accrual.                                                                *)
Entitlements == [units : Nat, last : Nat, cap : AccrualCaps]
Due(a) == Capped((a.last \div AccrualPeriod) * AccrualRate, a.cap)

AccrualTypes ==
  /\ accrued \in Entitlements
  /\ today \in Nat
  /\ accrual \in [AccrualRuns -> {Idle} \cup [op : {"add"}, day : Nat, seen : Entitlements]]

\* What is stored, and what a run has read, is what its own date makes due, or
\* less under a cap.
NotMore(a) ==
  /\ a.last % AccrualPeriod = 0
  /\ a.units <= Due(a)
  /\ a.cap = 0 => a.units = Due(a)

AccrualInv ==
  /\ AccrualTypes
  /\ NotMore(accrued)
  /\ exclusive => accrued.units = Due(accrued)
  /\ \A r \in AccrualRuns : accrual[r] # Idle =>
       /\ NotMore(accrual[r].seen) /\ accrual[r].seen.cap = accrued.cap
       /\ exclusive => /\ accrual[r].seen = accrued
                       /\ \A s \in AccrualRuns : s # r => accrual[s] = Idle

LEMMA CappedFacts ==
  ASSUME NEW n \in Nat, NEW cap \in Nat
  PROVE  /\ Capped(n, cap) \in Nat
         /\ cap = 0 => Capped(n, cap) = n
         /\ cap # 0 => Capped(n, cap) <= cap
         /\ Capped(n, cap) <= n
         /\ cap # 0 /\ n >= cap => Capped(n, cap) = cap
  BY DEF Capped

LEMMA CappedSum ==
  ASSUME NEW units \in Nat, NEW due \in Nat, NEW n \in Nat, NEW cap \in Nat, units <= due
  PROVE  Capped(units + n, cap) <= Capped(due + n, cap)
  BY DEF Capped

LEMMA CappedAgain ==
  ASSUME NEW due \in Nat, NEW n \in Nat, NEW cap \in Nat
  PROVE  Capped(Capped(due, cap) + n, cap) = Capped(due + n, cap)
  BY DEF Capped

LEMMA DueIsNat ==
  ASSUME NEW a \in Entitlements
  PROVE  /\ a.last \div AccrualPeriod \in Nat
         /\ (a.last \div AccrualPeriod) * AccrualRate \in Nat
         /\ Due(a) \in Nat
<1>1. a.last \div AccrualPeriod \in Nat BY AccrualAssumption, Quotient DEF Entitlements
<1>2. (a.last \div AccrualPeriod) * AccrualRate \in Nat BY <1>1, AccrualAssumption, SMT
<1> QED BY <1>1, <1>2, CappedFacts, AccrualAssumption DEF Due, Entitlements

\* A commit: the periods that a run has counted make due what it writes.
LEMMA CommitKeeps ==
  ASSUME AccrualTypes, NEW r \in AccrualRuns, accrual[r].op = "add",
         NotMore(accrued), NotMore(accrual[r].seen), accrual[r].seen.cap = accrued.cap,
         NEW b, b = AccruedBy(accrual[r], accrual[r].seen.units)
  PROVE  /\ b \in Entitlements /\ b.cap = accrued.cap
         /\ NotMore(b)
         /\ accrual[r].seen = accrued /\ accrued.units = Due(accrued) => b.units = Due(b)
<1> DEFINE c == accrual[r]
           seen == c.seen
           p == Periods(c)
           q == seen.last \div AccrualPeriod
<1> USE AccrualAssumption
<1>1. c \in [op : {"add"}, day : Nat, seen : Entitlements]
  <2>1. Idle.op # "add" BY DEF Idle
  <2> QED BY <2>1 DEF AccrualTypes
<1>2. seen \in Entitlements /\ c.day \in Nat BY <1>1
<1>3. p \in Int BY <1>2 DEF Periods, Entitlements
<1>4. CASE p <= 0
  <2>1. b = accrued BY <1>4 DEF AccruedBy
  <2> QED BY <2>1 DEF AccrualTypes
<1>5. CASE ~(p <= 0)
  <2>1. p \in Nat /\ p >= 1 BY <1>3, <1>5
  <2> DEFINE last == seen.last + p * AccrualPeriod
             due == q * AccrualRate
             more == p * AccrualRate
  <2>2. /\ last \in Nat /\ last % AccrualPeriod = 0
        /\ last \div AccrualPeriod = q + p
    BY <1>2, <2>1, Whole DEF NotMore, Entitlements
  <2>3. q \in Nat /\ due \in Nat /\ Due(seen) \in Nat BY <1>2, DueIsNat
  <2>4. more \in Nat /\ more >= 1
    <3>1. more >= AccrualRate BY <2>1, Times
    <3>2. more \in Int BY <2>1, SMT
    <3> QED BY <3>1, <3>2
  <2>5. (q + p) * AccrualRate = due + more BY <2>1, <2>3, SMT
  <2>6. /\ seen.units \in Nat /\ seen.cap \in Nat /\ accrued.cap \in AccrualCaps
        /\ accrued \in Entitlements /\ accrued.units \in Nat
    BY <1>2 DEF AccrualTypes, Entitlements
  <2>7. b = [accrued EXCEPT !.units = IF Total(c) > seen.units THEN seen.units + Total(c) - seen.units ELSE @,
                            !.last = last]
    BY <1>5 DEF AccruedBy
  <2>8. Total(c) = Capped(seen.units + more, seen.cap) BY DEF Total
  <2> HIDE DEF p, q, due, more, last
  <2>9. Total(c) \in Nat
    <3>1. seen.units + more \in Nat BY <2>4, <2>6
    <3> QED BY <3>1, <2>6, <2>8 DEF Capped
  <2>10. b \in Entitlements /\ b.last = last /\ b.cap = accrued.cap
    <3>1. PICK u : /\ u = IF Total(c) > seen.units THEN seen.units + Total(c) - seen.units ELSE accrued.units
                  /\ b = [accrued EXCEPT !.units = u, !.last = last]
      BY <2>7
    <3>2. u \in Nat BY <3>1, <2>6, <2>9
    <3> QED BY <3>1, <3>2, <2>2, <2>6 DEF Entitlements
  <2>11. Due(b) = Capped(due + more, seen.cap)
    BY <2>10, <2>2, <2>5 DEF Due
  <2>12. seen.units <= due
    <3>1. Due(seen) = Capped(due, seen.cap) BY DEF Due, due, q
    <3>2. Capped(due, seen.cap) <= due /\ Capped(due, seen.cap) \in Nat BY <2>3, <2>6, CappedFacts
    <3> QED BY <3>1, <3>2, <2>3, <2>6 DEF NotMore
  <2>13. Total(c) <= Due(b) BY <2>8, <2>11, <2>12, <2>3, <2>4, <2>6, CappedSum
  <2>14. CASE Total(c) > seen.units
    <3>1. b.units = Total(c) BY <2>7, <2>14, <2>6, <2>9 DEF Entitlements
    <3>2. seen.units = Due(seen) => Total(c) = Due(b)
      <4>1. Due(seen) = Capped(due, seen.cap) BY DEF Due, due, q
      <4>2. Capped(Capped(due, seen.cap) + more, seen.cap) = Capped(due + more, seen.cap)
        <5>1. PICK x, y, z : x = due /\ y = more /\ z = seen.cap OBVIOUS
        <5>2. x \in Nat /\ y \in Nat /\ z \in Nat BY <2>3, <2>4, <2>6, <5>1, AccrualAssumption
        <5>3. Capped(Capped(x, z) + y, z) = Capped(x + y, z) BY ONLY <5>2, CappedAgain
        <5> QED BY <5>1, <5>3
      <4> QED BY <4>1, <4>2, <2>8, <2>11
    <3> QED BY <3>1, <3>2, <2>10, <2>13, <2>2 DEF NotMore
  <2>15. CASE ~(Total(c) > seen.units)
    <3>1. b.units = accrued.units BY <2>7, <2>15, <2>6 DEF Entitlements
    <3>2. seen.cap # 0 /\ seen.cap <= seen.units
      BY <2>15, <2>8, <2>4, <2>6 DEF Capped
    <3>3. Due(b) = seen.cap
      BY <3>2, <2>11, <2>12, <2>3, <2>4, <2>6 DEF Capped
    <3>4. accrued.units <= seen.cap
      <4>1. accrued.units <= Due(accrued) BY DEF NotMore
      <4>2. Due(accrued) <= accrued.cap /\ Due(accrued) \in Nat
        BY <3>2, <2>6, DueIsNat, CappedFacts DEF Due
      <4> QED BY <4>1, <4>2, <2>6
    <3>5. seen = accrued => accrued.units = seen.cap BY <3>2, <3>4, <2>6
    <3> QED BY <3>1, <3>2, <3>3, <3>4, <3>5, <2>10, <2>2 DEF NotMore
  <2> QED BY <2>14, <2>15
<1> QED BY <1>4, <1>5

LEMMA AccrualInitInv == AccrualInit => AccrualInv
<1> SUFFICES ASSUME AccrualInit PROVE AccrualInv
  OBVIOUS
<1>1. PICK cap \in AccrualCaps : accrued = [units |-> 0, last |-> 0, cap |-> cap] BY DEF AccrualInit
<1>2. AccrualTypes BY <1>1 DEF AccrualInit, AccrualTypes, WorkdayInit, Entitlements
<1>3. 0 % AccrualPeriod = 0 /\ 0 \div AccrualPeriod = 0
  BY AccrualAssumption, SMT
<1>4. Due(accrued) = 0
  <2>1. (accrued.last \div AccrualPeriod) * AccrualRate = 0 BY <1>1, <1>3, AccrualAssumption
  <2> QED BY <1>1, <2>1, AccrualAssumption DEF Due, Capped
<1>5. NotMore(accrued) BY <1>1, <1>3, <1>4 DEF NotMore
<1> QED BY <1>1, <1>2, <1>4, <1>5 DEF AccrualInv, AccrualInit

LEMMA AccrualStepInv == AccrualInv /\ [AccrualNext]_accrualVars => AccrualInv'
<1> SUFFICES ASSUME AccrualInv, [AccrualNext]_accrualVars PROVE AccrualInv'
  OBVIOUS
<1> USE DEF AccrualInv
<1>1. CASE UNCHANGED accrualVars
  BY <1>1 DEF accrualVars, workdayVars, AccrualTypes, NotMore, Due
<1>2. ASSUME NEW r \in AccrualRuns, AccrualRead(r) PROVE AccrualInv'
  <2>1. /\ accrual[r] = Idle /\ UNCHANGED <<accrued, today, exclusive>>
        /\ exclusive => \A s \in AccrualRuns : accrual[s] = Idle
    BY <1>2 DEF AccrualRead, MayCall, workdayVars, AccrualTypes
  <2>2. accrual' = [accrual EXCEPT ![r] = [op |-> "add", day |-> today, seen |-> accrued]]
    BY <1>2 DEF AccrualRead
  <2>3. AccrualTypes' BY <2>1, <2>2 DEF AccrualTypes
  <2>4. accrual'[r].seen = accrued BY <2>2 DEF AccrualTypes
  <2>5. \A s \in AccrualRuns : s # r => accrual'[s] = accrual[s] BY <2>2 DEF AccrualTypes
  <2>6. NotMore(accrued)' BY <2>1 DEF NotMore, Due
  <2>7. \A s \in AccrualRuns : NotMore(accrual[s].seen)' <=> NotMore(accrual'[s].seen)
    BY DEF NotMore, Due
  <2>8. (exclusive => accrued.units = Due(accrued))' BY <2>1 DEF Due
  <2> QED BY <2>1, <2>3, <2>4, <2>5, <2>6, <2>7, <2>8
<1>3. ASSUME NEW r \in AccrualRuns, AccrualCommit(r) PROVE AccrualInv'
  <2>1. PICK b : b = AccruedBy(accrual[r], accrual[r].seen.units) OBVIOUS
  <2>2. /\ accrual[r].op = "add" /\ accrual[r] # Idle /\ accrued' = b
        /\ accrual' = [accrual EXCEPT ![r] = Idle] /\ UNCHANGED <<today, exclusive>>
    BY <1>3, <2>1 DEF AccrualCommit, workdayVars, Idle
  <2>3. b \in Entitlements /\ b.cap = accrued.cap /\ NotMore(b)
    BY <2>1, <2>2, CommitKeeps
  <2>4. exclusive => b.units = Due(b) BY <2>1, <2>2, CommitKeeps
  <2>5. AccrualTypes' BY <2>2, <2>3 DEF AccrualTypes
  <2>6. NotMore(accrued)' /\ (exclusive => accrued.units = Due(accrued))'
    BY <2>2, <2>3, <2>4 DEF NotMore, Due
  <2>7. \A s \in AccrualRuns : accrual'[s] = IF s = r THEN Idle ELSE accrual[s]
    BY <2>2 DEF AccrualTypes
  <2>8. \A s \in AccrualRuns : NotMore(accrual[s].seen)' <=> NotMore(accrual'[s].seen)
    BY DEF NotMore, Due
  <2> QED BY <2>2, <2>3, <2>5, <2>6, <2>7, <2>8
<1>4. ASSUME NEW r \in AccrualRuns, AccrualFails(r) PROVE AccrualInv'
  <2>1. /\ accrual' = [accrual EXCEPT ![r] = Idle] /\ UNCHANGED <<accrued, today, exclusive>>
    BY <1>4 DEF AccrualFails, workdayVars
  <2>2. AccrualTypes' BY <2>1 DEF AccrualTypes
  <2>3. \A s \in AccrualRuns : accrual'[s] = IF s = r THEN Idle ELSE accrual[s]
    BY <2>1 DEF AccrualTypes
  <2>4. NotMore(accrued)' /\ (exclusive => accrued.units = Due(accrued))'
    BY <2>1 DEF NotMore, Due
  <2>5. \A s \in AccrualRuns : NotMore(accrual[s].seen)' <=> NotMore(accrual'[s].seen)
    BY DEF NotMore, Due
  <2> QED BY <2>1, <2>2, <2>3, <2>4, <2>5
<1>5. CASE NextDay /\ UNCHANGED <<accrued, accrual>>
  BY <1>5 DEF NextDay, AccrualTypes, NotMore, Due
<1> QED BY <1>1, <1>2, <1>3, <1>4, <1>5 DEF AccrualNext

\* Whatever the rate, the period, the caps and the number of scheduled runs,
\* the units of an allocation are never more than its last accrual date makes
\* due, and exactly those when runs do not overlap or nothing caps them
\* (run_leave_accrual).
THEOREM Accrues == AccrualSpec => []AccrualExact
<1>1. AccrualSpec => []AccrualInv BY AccrualInitInv, AccrualStepInv, PTL DEF AccrualSpec
<1>2. AccrualInv => AccrualExact BY DEF AccrualInv, NotMore, Due, AccrualExact
<1> QED BY <1>1, <1>2, PTL
-----------------------------------------------------------------------------
(* Time off. What a request holds, and what a user's call has read.        *)
Durations == {Duration(DayOf(from), DayOf(to), LeaveTypes[type].unit) :
                from \in Moments, to \in Moments, type \in DOMAIN LeaveTypes}
LeaveRows ==
  [state : {"to_approve", "second_approval", "approved", "refused"},
   from : Moments, to : Moments, type : DOMAIN LeaveTypes,
   units : Durations, first : Users \cup {Nobody}, second : Users \cup {Nobody}]
Asking == {"allocated", "taken", "pending", "insert"}

\* Moments and their days are numbers.
LEMMA MomentInt == \A t \in Moments : t \in Int /\ DayOf(t) \in Int
<1>1. DayParts \in Nat \ {0} BY TimeOffAssumption
<1> QED BY <1>1 DEF Moments, DayOf

IsAsking(c) ==
  c \in [op : Asking, from : Moments, to : Moments, type : DOMAIN LeaveTypes,
         units : Durations, left : {c.left}]
IsApproving(c) ==
  c \in [op : {"compare", "approve"}, leave : Leaves, seen : {"to_approve", "second_approval"}]
IsRefusing(c) == c \in [op : {"refuse"}, leave : Leaves]

TimeOffTypes ==
  /\ leave \in [Leaves -> {Absent} \cup LeaveRows]
  /\ DOMAIN leaveCall = Users
  /\ \A u \in Users : \/ leaveCall[u] = Idle
                      \/ u = Requester /\ IsAsking(leaveCall[u])
                      \/ IsApproving(leaveCall[u]) \/ IsRefusing(leaveCall[u])

\* An approver's call is about a request that is there; when it is to be the
\* second one, there is a first, and once compared it is somebody else: only
\* a call of the same user could make it that user afterwards.
ApprovalsUnderWay ==
  \A u \in Users : IsApproving(leaveCall[u]) =>
    LET c == leaveCall[u]
        row == leave[c.leave]
    IN /\ u \in Approvers /\ row # Absent
       /\ c.op = "compare" => c.seen = "second_approval"
       /\ c.seen = "second_approval" =>
            /\ row.first \in Approvers
            /\ LeaveTypes[row.type].mode = "both"
            /\ c.op = "approve" => row.first # u

RefusalsUnderWay ==
  \A u \in Users : IsRefusing(leaveCall[u]) => leave[leaveCall[u].leave] # Absent

SecondNeeds ==
  \A l \in Leaves : leave[l].state = "second_approval" => LeaveTypes[leave[l].type].mode = "both"

ApprovalInv ==
  /\ TimeOffTypes
  /\ ApprovalsUnderWay
  /\ RefusalsUnderWay
  /\ SecondNeeds
  /\ ApprovedByOthers

LEMMA ApproversAreUsers == Approvers \subseteq Users
  BY TimeOffAssumption DEF Approvers

LEMMA CallKinds ==
  ASSUME NEW c
  PROVE  /\ IsAsking(c) => c.op \in Asking
         /\ IsApproving(c) => c.op \in {"compare", "approve"} /\ c.leave \in Leaves
         /\ IsRefusing(c) => c.op = "refuse" /\ c.leave \in Leaves
         /\ c = Idle => c.op = "idle"
  BY DEF IsAsking, IsApproving, IsRefusing, Idle

LEMMA RowKinds ==
  ASSUME NEW row \in {Absent} \cup LeaveRows
  PROVE  /\ row.state = "none" <=> row = Absent
         /\ row # Absent => row \in LeaveRows
  BY DEF Absent, LeaveRows

LEMMA TimeOffInitInv == TimeOffInit => ApprovalInv
<1> SUFFICES ASSUME TimeOffInit PROVE ApprovalInv
  OBVIOUS
<1>1. /\ leave \in [Leaves -> {Absent}] /\ \A l \in Leaves : leave[l].state = "none"
      /\ DOMAIN leaveCall = Users /\ \A u \in Users : leaveCall[u] = Idle
  BY DEF TimeOffInit, Absent
<1>2. \A u \in Users : ~IsApproving(leaveCall[u]) /\ ~IsRefusing(leaveCall[u])
  BY <1>1, CallKinds
<1> QED BY <1>1, <1>2
        DEF ApprovalInv, TimeOffTypes, ApprovalsUnderWay, RefusalsUnderWay, SecondNeeds, ApprovedByOthers

\* Steps of the sums and of an ended call leave the requests alone, and turn a
\* call into one that approves nothing.
LEMMA OtherCall ==
  ASSUME ApprovalInv, NEW u \in Users, NEW c, Go(u, c), leave' = leave,
         \/ c = Idle \/ (u = Requester /\ IsAsking(c))
         \/ IsRefusing(c) /\ leave[c.leave] # Absent
  PROVE  ApprovalInv'
<1>1. leaveCall'[u] = c /\ DOMAIN leaveCall' = Users
  BY DEF Go, ApprovalInv, TimeOffTypes
<1>2. \A v \in Users : v # u => leaveCall'[v] = leaveCall[v]
  BY DEF Go, ApprovalInv, TimeOffTypes
<1>3. ~IsApproving(c) /\ (IsRefusing(c) => leave[c.leave] # Absent) BY CallKinds DEF Asking
<1>4. TimeOffTypes' BY <1>1, <1>2 DEF ApprovalInv, TimeOffTypes
<1>5. ApprovalsUnderWay' BY <1>1, <1>2, <1>3 DEF ApprovalInv, ApprovalsUnderWay
<1>6. RefusalsUnderWay' BY <1>1, <1>2, <1>3 DEF ApprovalInv, RefusalsUnderWay
<1> QED BY <1>4, <1>5, <1>6 DEF ApprovalInv, SecondNeeds, ApprovedByOthers

\* A request changes: the approvals under way about it still hold.
LEMMA RowChanges ==
  ASSUME ApprovalInv, NEW u \in Users, Go(u, Idle),
         NEW l \in Leaves, NEW row \in LeaveRows, leave' = [leave EXCEPT ![l] = row],
         \A v \in Users : v # u /\ IsApproving(leaveCall[v]) /\ leaveCall[v].leave = l =>
            /\ row.type = leave[l].type
            /\ row.first = leave[l].first \/ (row.first = u /\ u \in Approvers),
         row.state = "second_approval" => /\ row.first \in Approvers
                                          /\ LeaveTypes[row.type].mode = "both",
         row.state = "approved" =>
            CASE LeaveTypes[row.type].mode = "no_validation" -> TRUE
              [] LeaveTypes[row.type].mode = "both" -> row.first \in Approvers /\ row.second \in Approvers \ {row.first}
              [] OTHER -> row.first \in Approvers
  PROVE  ApprovalInv'
<1>1. /\ leaveCall'[u] = Idle /\ DOMAIN leaveCall' = Users
      /\ \A v \in Users : v # u => leaveCall'[v] = leaveCall[v]
  BY DEF Go, ApprovalInv, TimeOffTypes
<1>2. leave'[l] = row /\ \A k \in Leaves : k # l => leave'[k] = leave[k]
  BY DEF ApprovalInv, TimeOffTypes
<1>3. TimeOffTypes' BY <1>1, <1>2 DEF ApprovalInv, TimeOffTypes
<1>4. ApprovalsUnderWay'
  <2> SUFFICES ASSUME NEW v \in Users, IsApproving(leaveCall'[v])
               PROVE  LET c == leaveCall'[v]
                          r == leave'[c.leave]
                      IN /\ v \in Approvers /\ r # Absent
                         /\ c.op = "compare" => c.seen = "second_approval"
                         /\ c.seen = "second_approval" =>
                              /\ r.first \in Approvers
                              /\ LeaveTypes[r.type].mode = "both"
                              /\ c.op = "approve" => r.first # v
    BY DEF ApprovalsUnderWay, Approvers
  <2>1. v # u BY <1>1, CallKinds
  <2>2. leaveCall'[v] = leaveCall[v] /\ leaveCall[v].leave \in Leaves BY <1>1, <2>1, CallKinds
  <2>3. CASE leaveCall[v].leave # l BY <1>2, <2>2, <2>3 DEF ApprovalInv, ApprovalsUnderWay
  <2>4. CASE leaveCall[v].leave = l
    <3>1. row # Absent /\ leave'[leaveCall'[v].leave] = row BY <1>2, <2>2, <2>4 DEF LeaveRows, Absent
    <3> QED BY <2>1, <2>2, <2>4, <3>1 DEF ApprovalInv, ApprovalsUnderWay
  <2> QED BY <2>3, <2>4
<1>5. SecondNeeds' BY <1>2 DEF ApprovalInv, SecondNeeds
<1>6. ApprovedByOthers'
  <2> SUFFICES ASSUME NEW k \in Leaves
               PROVE  /\ leave'[k].state = "second_approval" => leave'[k].first \in Approvers
                      /\ leave'[k].state = "approved" =>
                           CASE LeaveTypes[leave'[k].type].mode = "no_validation" -> TRUE
                             [] LeaveTypes[leave'[k].type].mode = "both" ->
                                  leave'[k].first \in Approvers /\ leave'[k].second \in Approvers \ {leave'[k].first}
                             [] OTHER -> leave'[k].first \in Approvers
    BY DEF ApprovedByOthers, Approvers
  <2>1. CASE k = l BY <1>2, <2>1
  <2>2. CASE k # l BY <1>2, <2>2 DEF ApprovalInv, ApprovedByOthers
  <2> QED BY <2>1, <2>2
<1>7. RefusalsUnderWay'
  <2>1. row # Absent BY DEF LeaveRows, Absent
  <2>2. ~IsRefusing(leaveCall'[u]) BY <1>1, CallKinds
  <2> QED BY <1>1, <1>2, <2>1, <2>2 DEF ApprovalInv, RefusalsUnderWay
<1> QED BY <1>3, <1>4, <1>5, <1>6, <1>7 DEF ApprovalInv

\* An approval begins, or has compared: a call that approves.
LEMMA ApprovingCall ==
  ASSUME ApprovalInv, NEW u \in Users, NEW c, IsApproving(c), Go(u, c), leave' = leave,
         u \in Approvers, leave[c.leave] # Absent,
         c.op = "compare" => c.seen = "second_approval",
         c.seen = "second_approval" =>
            /\ leave[c.leave].first \in Approvers
            /\ LeaveTypes[leave[c.leave].type].mode = "both"
            /\ c.op = "approve" => leave[c.leave].first # u
  PROVE  ApprovalInv'
<1>1. leaveCall'[u] = c /\ DOMAIN leaveCall' = Users
  BY DEF Go, ApprovalInv, TimeOffTypes
<1>2. \A v \in Users : v # u => leaveCall'[v] = leaveCall[v]
  BY DEF Go, ApprovalInv, TimeOffTypes
<1>4. TimeOffTypes' BY <1>1, <1>2 DEF ApprovalInv, TimeOffTypes
<1>5. ApprovalsUnderWay' BY <1>1, <1>2 DEF ApprovalInv, ApprovalsUnderWay, Approvers
<1>6. RefusalsUnderWay' BY <1>1, <1>2, CallKinds DEF ApprovalInv, RefusalsUnderWay
<1> QED BY <1>4, <1>5, <1>6 DEF ApprovalInv, SecondNeeds, ApprovedByOthers

LEMMA AskingGoesOn ==
  ASSUME ApprovalInv, IsAsking(Asked), NEW op \in Asking, NEW next \in Asking, NEW left,
         Summed(op, next, left)
  PROVE  ApprovalInv'
<1>1. Requester \in Users BY TimeOffAssumption
<1>2. PICK c : c = [Asked EXCEPT !.op = next, !.left = left] OBVIOUS
<1>3. IsAsking(c) BY <1>2 DEF IsAsking
<1> QED BY <1>1, <1>2, <1>3, OtherCall DEF Summed

LEMMA AskingByRequester ==
  ASSUME TimeOffTypes, Asked.op \in Asking
  PROVE  IsAsking(Asked)
  BY TimeOffAssumption, CallKinds DEF TimeOffTypes, Asking, Asked

LEMMA SumsKeep == ApprovalInv /\ (SumAllocated \/ SumTaken \/ SumPending) => ApprovalInv'
<1> SUFFICES ASSUME ApprovalInv, SumAllocated \/ SumTaken \/ SumPending PROVE ApprovalInv'
  OBVIOUS
<1> USE DEF Asking
<1>1. Asked.op \in Asking BY DEF SumAllocated, SumTaken, SumPending, Summed
<1>2. IsAsking(Asked) BY <1>1, AskingByRequester DEF ApprovalInv
<1>3. CASE SumAllocated BY <1>2, <1>3, AskingGoesOn DEF SumAllocated
<1>4. CASE SumTaken BY <1>2, <1>4, AskingGoesOn DEF SumTaken
<1>5. CASE SumPending BY <1>2, <1>5, AskingGoesOn DEF SumPending
<1> QED BY <1>3, <1>4, <1>5

LEMMA RequestBeginKeeps ==
  ASSUME ApprovalInv, NEW from \in Moments, NEW to \in Moments,
         NEW type \in DOMAIN LeaveTypes, RequestBegin(from, to, type)
  PROVE  ApprovalInv'
<1>1. PICK units \in Durations : units = Duration(DayOf(from), DayOf(to), LeaveTypes[type].unit)
  BY DEF Durations
<1>2. PICK c : /\ c = [op |-> IF Checked(type) THEN "allocated" ELSE "insert",
                      from |-> from, to |-> to, type |-> type, units |-> units, left |-> 0]
               /\ Go(Requester, c) /\ leave' = leave
  BY <1>1 DEF RequestBegin
<1>3. IsAsking(c) BY <1>2 DEF IsAsking, Asking
<1> QED BY <1>2, <1>3, OtherCall, TimeOffAssumption

LEMMA RequestInsertKeeps ==
  ASSUME ApprovalInv, NEW l \in Leaves, RequestInsert(l)
  PROVE  ApprovalInv'
<1> DEFINE c == leaveCall[Requester]
           state == IF LeaveTypes[c.type].mode = "no_validation" THEN "approved" ELSE "to_approve"
<1>1. IsAsking(c) BY AskingByRequester DEF RequestInsert, ApprovalInv, Asking, Asked
<1>2. /\ c.from \in Moments /\ c.to \in Moments /\ c.type \in DOMAIN LeaveTypes
      /\ c.units \in Durations
  BY <1>1 DEF IsAsking
<1>3. PICK row : row = [state |-> state, from |-> c.from, to |-> c.to, type |-> c.type,
                        units |-> c.units, first |-> Nobody, second |-> Nobody]
  OBVIOUS
<1>4. row \in LeaveRows BY <1>2, <1>3 DEF LeaveRows
<1>5. /\ leave' = [leave EXCEPT ![l] = row] /\ Go(Requester, Idle) /\ leave[l] = Absent
  BY <1>3 DEF RequestInsert
<1>6. \A v \in Users : IsApproving(leaveCall[v]) => leaveCall[v].leave # l
  BY <1>5 DEF ApprovalInv, ApprovalsUnderWay
<1>7. /\ row.state # "second_approval"
      /\ row.state = "approved" => LeaveTypes[row.type].mode = "no_validation"
  BY <1>3
<1> HIDE DEF c, state
<1> QED BY <1>4, <1>5, <1>6, <1>7, RowChanges, TimeOffAssumption

LEMMA ApproveBeginKeeps ==
  ASSUME ApprovalInv, NEW u \in Users, NEW l \in Leaves, ApproveBegin(u, l)
  PROVE  ApprovalInv'
<1>1. PICK c : /\ c = [op |-> IF leave[l].state = "second_approval" THEN "compare" ELSE "approve",
                      leave |-> l, seen |-> leave[l].state]
               /\ Go(u, c) /\ leave' = leave
  BY DEF ApproveBegin
<1>2. /\ leave[l].state \in {"to_approve", "second_approval"} /\ u \in Approvers
  BY DEF ApproveBegin
<1>3. IsApproving(c) /\ c.leave = l /\ c.seen = leave[l].state BY <1>1, <1>2 DEF IsApproving
<1>4. leave[l] # Absent BY <1>2 DEF Absent
<1>5. c.seen = "second_approval" => /\ c.op = "compare"
                                    /\ leave[l].first \in Approvers
                                    /\ LeaveTypes[leave[l].type].mode = "both"
  BY <1>1, <1>3 DEF ApprovalInv, SecondNeeds, ApprovedByOthers
<1>6. c.op = "compare" => c.seen = "second_approval" BY <1>1
<1> QED BY <1>1, <1>2, <1>3, <1>4, <1>5, <1>6, ApprovingCall

LEMMA ApproveCompareKeeps ==
  ASSUME ApprovalInv, NEW u \in Users, ApproveCompare(u)
  PROVE  ApprovalInv'
<1> DEFINE c == leaveCall[u]
<1>1. IsApproving(c) /\ c.op = "compare"
  BY CallKinds DEF ApprovalInv, TimeOffTypes, ApproveCompare, Asking
<1>2. leave' = leave BY DEF ApproveCompare
<1>3. CASE leave[c.leave].first = u
  BY <1>2, <1>3, OtherCall DEF ApproveCompare
<1>4. CASE leave[c.leave].first # u
  <2>1. PICK d : d = [c EXCEPT !.op = "approve"] OBVIOUS
  <2>2. /\ Go(u, d) /\ d.op = "approve" /\ d.leave = c.leave /\ d.seen = c.seen /\ IsApproving(d)
    BY <1>1, <1>4, <2>1 DEF ApproveCompare, IsApproving
  <2>3. /\ u \in Approvers /\ leave[c.leave] # Absent
        /\ c.seen = "second_approval"
        /\ leave[c.leave].first \in Approvers
        /\ LeaveTypes[leave[c.leave].type].mode = "both"
    BY <1>1 DEF ApprovalInv, ApprovalsUnderWay
  <2> QED BY <1>2, <1>4, <2>2, <2>3, ApprovingCall
<1> QED BY <1>3, <1>4

LEMMA ApproveWriteKeeps ==
  ASSUME ApprovalInv, NEW u \in Users, ApproveWrite(u)
  PROVE  ApprovalInv'
<1> DEFINE c == leaveCall[u]
           l == c.leave
           old == leave[l]
<1>1. IsApproving(c) /\ c.op = "approve"
  <2>1. c.op = "approve" BY DEF ApproveWrite
  <2> QED BY <2>1, CallKinds DEF ApprovalInv, TimeOffTypes, Asking
<1>2. /\ l \in Leaves /\ u \in Approvers /\ old # Absent
      /\ c.seen = "second_approval" => /\ old.first \in Approvers /\ old.first # u
                                        /\ LeaveTypes[old.type].mode = "both"
  BY <1>1, CallKinds DEF ApprovalInv, ApprovalsUnderWay
<1>3. old \in LeaveRows BY <1>2 DEF ApprovalInv, TimeOffTypes
<1>4. PICK row : row = IF c.seen = "second_approval"
                       THEN [old EXCEPT !.state = "approved", !.second = u]
                       ELSE [old EXCEPT !.state = IF LeaveTypes[old.type].mode = "both" THEN "second_approval" ELSE "approved",
                                        !.first = u]
  OBVIOUS
<1>5. Go(u, Idle) /\ leave' = [leave EXCEPT ![l] = row] BY <1>4 DEF ApproveWrite
<1> HIDE DEF l, old
<1>6. CASE c.seen = "second_approval"
  <2>1. row = [old EXCEPT !.state = "approved", !.second = u] BY <1>4, <1>6
  <2>2. /\ row \in LeaveRows /\ row.type = old.type /\ row.first = old.first
        /\ row.second = u /\ row.state = "approved"
    BY <2>1, <1>3 DEF LeaveRows
  <2>3. leave' = [leave EXCEPT ![l] = row] /\ row.type = leave[l].type /\ row.first = leave[l].first
    BY <1>5, <2>2 DEF old
  <2>4. LeaveTypes[row.type].mode = "both" /\ row.first \in Approvers /\ row.second \in Approvers \ {row.first}
    BY <1>2, <1>6, <2>2
  <2>5. row.state # "second_approval" BY <2>2
  <2>6. l \in Leaves /\ row \in LeaveRows /\ Go(u, Idle) BY <1>2, <1>5, <2>2
  <2>7. \A v \in Users : v # u /\ IsApproving(leaveCall[v]) /\ leaveCall[v].leave = l =>
          /\ row.type = leave[l].type
          /\ row.first = leave[l].first \/ (row.first = u /\ u \in Approvers)
    BY <2>3
  <2>8. row.state = "second_approval" => /\ row.first \in Approvers
                                        /\ LeaveTypes[row.type].mode = "both"
    BY <2>5
  <2>9. row.state = "approved" =>
         CASE LeaveTypes[row.type].mode = "no_validation" -> TRUE
           [] LeaveTypes[row.type].mode = "both" -> row.first \in Approvers /\ row.second \in Approvers \ {row.first}
           [] OTHER -> row.first \in Approvers
    BY <2>4
  <2> HIDE DEF c
  <2> QED BY <2>3, <2>6, <2>7, <2>8, <2>9, RowChanges
<1>7. CASE c.seen # "second_approval"
  <2>1. PICK state : /\ state = IF LeaveTypes[old.type].mode = "both" THEN "second_approval" ELSE "approved"
                     /\ row = [old EXCEPT !.state = state, !.first = u]
    BY <1>4, <1>7
  <2>2. state \in {"second_approval", "approved"} BY <2>1
  <2>3. /\ row \in LeaveRows /\ row.type = old.type /\ row.first = u /\ row.state = state
    BY <2>1, <2>2, <1>3 DEF LeaveRows
  <2>4. row.state = "approved" => LeaveTypes[row.type].mode # "both" BY <2>1, <2>3
  <2>5. row.state = "second_approval" => LeaveTypes[row.type].mode = "both" BY <2>1, <2>3
  <2>6. leave' = [leave EXCEPT ![l] = row] /\ row.type = leave[l].type BY <1>5, <2>3 DEF old
  <2>7. l \in Leaves /\ row \in LeaveRows /\ Go(u, Idle) /\ row.first = u /\ u \in Approvers BY <1>2, <1>5, <2>3
  <2>8. \A v \in Users : v # u /\ IsApproving(leaveCall[v]) /\ leaveCall[v].leave = l =>
          /\ row.type = leave[l].type
          /\ row.first = leave[l].first \/ (row.first = u /\ u \in Approvers)
    BY <2>6, <2>7
  <2>9. row.state = "second_approval" => /\ row.first \in Approvers
                                        /\ LeaveTypes[row.type].mode = "both"
    BY <2>5, <2>7
  <2>10. row.state = "approved" =>
         CASE LeaveTypes[row.type].mode = "no_validation" -> TRUE
           [] LeaveTypes[row.type].mode = "both" -> row.first \in Approvers /\ row.second \in Approvers \ {row.first}
           [] OTHER -> row.first \in Approvers
    BY <2>4, <2>7
  <2> HIDE DEF c
  <2> QED BY <2>6, <2>7, <2>8, <2>9, <2>10, RowChanges
<1> QED BY <1>6, <1>7

LEMMA RefuseWriteKeeps ==
  ASSUME ApprovalInv, NEW u \in Users, RefuseWrite(u)
  PROVE  ApprovalInv'
<1> DEFINE l == leaveCall[u].leave
<1>1. IsRefusing(leaveCall[u])
  <2>1. leaveCall[u].op = "refuse" BY DEF RefuseWrite
  <2> QED BY <2>1, CallKinds DEF ApprovalInv, TimeOffTypes, Asking
<1>2. l \in Leaves BY <1>1, CallKinds
<1>3. Go(u, Idle) /\ leave' = [leave EXCEPT ![l].state = "refused"] BY DEF RefuseWrite
<1>4. PICK row : row = [leave[l] EXCEPT !.state = "refused"] OBVIOUS
<1>5. leave[l] \in LeaveRows BY <1>1, <1>2 DEF ApprovalInv, RefusalsUnderWay, TimeOffTypes
<1>6. /\ row \in LeaveRows /\ row.state = "refused" /\ row.type = leave[l].type
      /\ row.first = leave[l].first
  BY <1>4, <1>5 DEF LeaveRows
<1>7. leave' = [leave EXCEPT ![l] = row] BY <1>3, <1>4
<1> HIDE DEF l
<1> QED BY <1>2, <1>3, <1>6, <1>7, RowChanges

LEMMA RefuseBeginKeeps ==
  ASSUME ApprovalInv, NEW u \in Users, NEW l \in Leaves, RefuseBegin(u, l)
  PROVE  ApprovalInv'
<1>1. PICK c : c = [op |-> "refuse", leave |-> l] OBVIOUS
<1>2. IsRefusing(c) /\ c.leave = l BY <1>1 DEF IsRefusing
<1>3. leave[l] # Absent BY DEF RefuseBegin, Absent
<1> QED BY <1>1, <1>2, <1>3, OtherCall DEF RefuseBegin

LEMMA TimeOffStepInv == ApprovalInv /\ [TimeOffNext]_timeOffVars => ApprovalInv'
<1> SUFFICES ASSUME ApprovalInv, [TimeOffNext]_timeOffVars PROVE ApprovalInv'
  OBVIOUS
<1>1. CASE UNCHANGED <<leave, leaveCall>>
  BY <1>1 DEF ApprovalInv, TimeOffTypes, ApprovalsUnderWay, RefusalsUnderWay, SecondNeeds, ApprovedByOthers
<1>2. ASSUME NEW from \in Moments, NEW to \in Moments, NEW type \in DOMAIN LeaveTypes,
             RequestBegin(from, to, type)
      PROVE  ApprovalInv'
  BY <1>2, RequestBeginKeeps
<1>3. CASE SumAllocated \/ SumTaken \/ SumPending BY <1>3, SumsKeep
<1>4. ASSUME NEW l \in Leaves, RequestInsert(l) PROVE ApprovalInv'
  BY <1>4, RequestInsertKeeps
<1>5. ASSUME NEW u \in Users, NEW l \in Leaves, ApproveBegin(u, l) PROVE ApprovalInv'
  BY <1>5, ApproveBeginKeeps
<1>6. ASSUME NEW u \in Users, NEW l \in Leaves, RefuseBegin(u, l) PROVE ApprovalInv'
  BY <1>6, RefuseBeginKeeps
<1>7. ASSUME NEW u \in Users, ApproveCompare(u) PROVE ApprovalInv'
  BY <1>7, ApproveCompareKeeps
<1>8. ASSUME NEW u \in Users, ApproveWrite(u) PROVE ApprovalInv'
  BY <1>8, ApproveWriteKeeps
<1>9. ASSUME NEW u \in Users, RefuseWrite(u) PROVE ApprovalInv'
  BY <1>9, RefuseWriteKeeps
<1>10. ASSUME NEW u \in Users, LeaveCallEnds(u) PROVE ApprovalInv'
  BY <1>10, OtherCall DEF LeaveCallEnds
<1> QED
  BY <1>1, <1>2, <1>3, <1>4, <1>5, <1>6, <1>7, <1>8, <1>9, <1>10 DEF TimeOffNext, timeOffVars

\* Whatever the users, requests and types, and however approvals and refusals
\* of several people overlap, an approved request has been approved by as many
\* different people as its type asks for, none of them the requester
\* (action_approve, whose second approver is compared with a first one that is
\* read again).
THEOREM Approved == TimeOffSpec => []ApprovedByOthers
<1>1. TimeOffSpec => []ApprovalInv BY TimeOffInitInv, TimeOffStepInv, PTL DEF TimeOffSpec
<1>2. ApprovalInv => ApprovedByOthers BY DEF ApprovalInv
<1> QED BY <1>1, <1>2, PTL

\* A behaviour of time off is one of the accrual it extends: no request,
\* approval or refusal changes entitlement.
THEOREM AccrualRunsOn == TimeOffSpec => AccrualSpec
<1>1. TimeOffInit => AccrualInit BY DEF TimeOffInit
<1>2. [TimeOffNext]_timeOffVars => [AccrualNext]_accrualVars
  BY DEF TimeOffNext, timeOffVars, RequestBegin, SumAllocated, SumTaken, SumPending, Summed,
     RequestInsert, ApproveBegin, ApproveCompare, ApproveWrite, RefuseBegin, RefuseWrite, LeaveCallEnds
<1> QED BY <1>1, <1>2, PTL DEF TimeOffSpec, AccrualSpec
-----------------------------------------------------------------------------
(* Requests that are not refused are never for the same moment when calls  *)
(* do not overlap: what a call has checked still holds when it writes.     *)
ApartByCheck ==
  \A l, k \in Leaves : l # k /\ leave[k].state \notin {"none", "refused"} =>
                       ~Overlaps(l, leave[k].from, leave[k].to)

ApartInv ==
  exclusive =>
    /\ ApartByCheck
    /\ \A u, v \in Users : u # v => leaveCall[u] = Idle \/ leaveCall[v] = Idle
    /\ IsAsking(Asked) => \A l \in Leaves : ~Overlaps(l, Asked.from, Asked.to)
    /\ \A u \in Users : IsApproving(leaveCall[u]) => leave[leaveCall[u].leave].state = leaveCall[u].seen

\* Requests that pass the check of one another have no moment in common.
LEMMA CheckedIsApart == TimeOffTypes /\ ApartByCheck => LeavesApart
<1> SUFFICES ASSUME TimeOffTypes, ApartByCheck, NEW l \in Counted, NEW k \in Counted, l # k,
                    NEW t \in (leave[l].from .. leave[l].to) \cap (leave[k].from .. leave[k].to)
             PROVE  FALSE
  BY DEF LeavesApart
<1>1. /\ l \in Leaves /\ leave[l].state \notin {"none", "refused"}
      /\ k \in Leaves /\ leave[k].state \notin {"none", "refused"}
  BY DEF Counted
<1>2. leave[l] \in LeaveRows /\ leave[k] \in LeaveRows BY <1>1, RowKinds DEF TimeOffTypes
<1>3. /\ leave[l].from \in Int /\ leave[l].to \in Int
      /\ leave[k].from \in Int /\ leave[k].to \in Int
  BY <1>2, MomentInt DEF LeaveRows
<1>4. leave[l].from <= leave[k].to /\ leave[k].from <= leave[l].to BY <1>3
<1> QED BY <1>1, <1>4 DEF ApartByCheck, Overlaps

LEMMA OverlapsEitherWay ==
  ASSUME TimeOffTypes, NEW l \in Leaves, NEW k \in Leaves
  PROVE  leave[k].state \notin {"none", "refused"} =>
           (Overlaps(l, leave[k].from, leave[k].to) => Overlaps(k, leave[l].from, leave[l].to))
  BY DEF Overlaps, TimeOffTypes, LeaveRows

\* A call goes from one step to the next: only that user is at work.
LEMMA TurnKeepsApart ==
  ASSUME TimeOffTypes, ApartInv, NEW u \in Users, NEW c, Go(u, c), leave' = leave, exclusive' = exclusive,
         exclusive => /\ \A v \in Users : v # u => leaveCall[v] = Idle
                      /\ u = Requester /\ IsAsking(c) => \A l \in Leaves : ~Overlaps(l, c.from, c.to)
                      /\ IsApproving(c) => leave[c.leave].state = c.seen
  PROVE  ApartInv'
<1> SUFFICES ASSUME exclusive
             PROVE  /\ ApartByCheck'
                    /\ (\A v, w \in Users : v # w => leaveCall[v] = Idle \/ leaveCall[w] = Idle)'
                    /\ (IsAsking(Asked) => \A l \in Leaves : ~Overlaps(l, Asked.from, Asked.to))'
                    /\ (\A v \in Users : IsApproving(leaveCall[v]) => leave[leaveCall[v].leave].state = leaveCall[v].seen)'
  BY DEF ApartInv
<1>1. leaveCall'[u] = c /\ \A v \in Users : v # u => leaveCall'[v] = leaveCall[v]
  BY DEF Go, TimeOffTypes
<1>2. \A v \in Users : v # u => leaveCall'[v] = Idle BY <1>1
<1>3. ApartByCheck' BY DEF ApartInv, ApartByCheck, Overlaps
<1>4. (IsAsking(Asked) => \A l \in Leaves : ~Overlaps(l, Asked.from, Asked.to))'
  <2>1. CASE u = Requester
    <3>1. Asked' = c BY <2>1, <1>1 DEF Asked
    <3>2. IsAsking(Asked)' <=> IsAsking(c) BY <3>1 DEF IsAsking
    <3> QED BY <2>1, <3>1, <3>2 DEF Overlaps
  <2>2. CASE u # Requester
    <3>1. Asked' = Idle BY <2>2, <1>2, TimeOffAssumption DEF Asked
    <3>2. ~IsAsking(Asked)' BY <3>1 DEF Idle, Asking, IsAsking
    <3> QED BY <3>2
  <2> QED BY <2>1, <2>2
<1>5. (\A v \in Users : IsApproving(leaveCall[v]) => leave[leaveCall[v].leave].state = leaveCall[v].seen)'
  <2> SUFFICES ASSUME NEW v \in Users, IsApproving(leaveCall[v])'
               PROVE  (leave[leaveCall[v].leave].state = leaveCall[v].seen)'
    OBVIOUS
  <2>1. leaveCall'[v] # Idle BY DEF IsApproving, Idle
  <2>2. v = u BY <1>2, <2>1
  <2>3. IsApproving(c) BY <1>1, <2>2 DEF IsApproving
  <2> QED BY <1>1, <2>2, <2>3
<1> QED BY <1>2, <1>3, <1>4, <1>5

\* A call writes a request and ends: nobody else is at work.
LEMMA WriteKeepsApart ==
  ASSUME TimeOffTypes, ApartInv, NEW u \in Users, leaveCall[u] # Idle, Go(u, Idle), exclusive' = exclusive,
         NEW l \in Leaves, NEW row \in LeaveRows, leave' = [leave EXCEPT ![l] = row],
         exclusive /\ row.state # "refused" =>
           \A k \in Leaves : k # l => ~Overlaps(k, row.from, row.to)
  PROVE  ApartInv'
<1> SUFFICES ASSUME exclusive
             PROVE  /\ ApartByCheck'
                    /\ \A v \in Users : leaveCall'[v] = Idle
  <2>1. ASSUME \A v \in Users : leaveCall'[v] = Idle
        PROVE  /\ ~IsAsking(Asked)' /\ \A v \in Users : ~IsApproving(leaveCall[v])'
    <3>1. ~IsAsking(Asked)'
      BY <2>1, TimeOffAssumption DEF IsAsking, Asked, Idle, Asking
    <3>2. \A v \in Users : ~IsApproving(leaveCall[v])' BY <2>1 DEF IsApproving, Idle
    <3> QED BY <3>1, <3>2
  <2> QED BY <2>1 DEF ApartInv
<1>1. \A v \in Users : v # u => leaveCall[v] = Idle BY DEF ApartInv
<1>2. \A v \in Users : leaveCall'[v] = Idle BY <1>1 DEF Go, TimeOffTypes
<1>3. leave'[l] = row /\ \A k \in Leaves : k # l => leave'[k] = leave[k] BY DEF TimeOffTypes
<1>4. ApartByCheck'
  <2> SUFFICES ASSUME NEW j \in Leaves, NEW k \in Leaves, j # k,
                      leave'[k].state \notin {"none", "refused"},
                      leave'[j].state \notin {"none", "refused"},
                      leave'[j].from <= leave'[k].to, leave'[k].from <= leave'[j].to
               PROVE  FALSE
    BY DEF ApartByCheck, Overlaps
  <2>1. CASE j # l /\ k # l BY <2>1, <1>3 DEF ApartInv, ApartByCheck, Overlaps
  <2>2. CASE k = l BY <2>2, <1>3 DEF Overlaps
  <2>3. CASE j = l BY <2>3, <1>3 DEF Overlaps
  <2> QED BY <2>1, <2>2, <2>3
<1> QED BY <1>2, <1>4

LEMMA ApartStepInv == ApprovalInv /\ ApartInv /\ [TimeOffNext]_timeOffVars => ApartInv'
<1> SUFFICES ASSUME ApprovalInv, ApartInv, [TimeOffNext]_timeOffVars PROVE ApartInv'
  OBVIOUS
<1> USE TimeOffAssumption
<1>1. TimeOffTypes BY DEF ApprovalInv
<1>2. ASSUME NEW u \in Users, MayCall(leaveCall, u) \/ leaveCall[u] # Idle
      PROVE  exclusive => \A v \in Users : v # u => leaveCall[v] = Idle
  BY <1>1, <1>2 DEF ApartInv, MayCall, TimeOffTypes
<1>3. exclusive' = exclusive
  BY DEF TimeOffNext, timeOffVars, RequestBegin, SumAllocated, SumTaken, SumPending, Summed, RequestInsert,
     ApproveBegin, ApproveCompare, ApproveWrite, RefuseBegin, RefuseWrite, LeaveCallEnds, accrualVars,
     workdayVars, AccrualNext, AccrualRead, AccrualCommit, AccrualFails, NextDay
<1>4. CASE UNCHANGED <<leave, leaveCall>>
  BY <1>3, <1>4 DEF ApartInv, ApartByCheck, Overlaps, Asked, IsAsking, IsApproving
<1>5. ASSUME NEW from \in Moments, NEW to \in Moments, NEW type \in DOMAIN LeaveTypes,
             RequestBegin(from, to, type)
      PROVE  ApartInv'
  <2>1. PICK c : /\ c = [op |-> IF Checked(type) THEN "allocated" ELSE "insert", from |-> from, to |-> to,
                         type |-> type, units |-> Duration(DayOf(from), DayOf(to), LeaveTypes[type].unit), left |-> 0]
                 /\ Go(Requester, c) /\ leave' = leave
    BY <1>5 DEF RequestBegin
  <2>2. MayCall(leaveCall, Requester) BY <1>5 DEF RequestBegin, May
  <2>3. ~IsApproving(c) BY <2>1 DEF IsApproving
  <2>4. \A l \in Leaves : ~Overlaps(l, c.from, c.to) BY <1>5, <2>1 DEF RequestBegin
  <2> QED BY <1>1, <1>2, <1>3, <2>1, <2>2, <2>3, <2>4, TurnKeepsApart
<1>6. ASSUME NEW op \in Asking, NEW next \in Asking, NEW left, Summed(op, next, left) PROVE ApartInv'
  <2>1. IsAsking(Asked) BY <1>1, <1>6, AskingByRequester DEF Summed
  <2>2. PICK c : c = [Asked EXCEPT !.op = next, !.left = left] OBVIOUS
  <2>3. c.from = Asked.from /\ c.to = Asked.to /\ c.op = next BY <2>1, <2>2 DEF IsAsking
  <2>4. ~IsApproving(c) /\ Asked # Idle BY <2>1, <2>3, CallKinds DEF Asking
  <2>5. Go(Requester, c) /\ leave' = leave BY <1>6, <2>2 DEF Summed
  <2>6. exclusive => \A l \in Leaves : ~Overlaps(l, c.from, c.to) BY <2>1, <2>3 DEF ApartInv
  <2> QED BY <1>1, <1>2, <1>3, <2>4, <2>5, <2>6, TurnKeepsApart DEF Asked
<1>7. CASE SumAllocated \/ SumTaken \/ SumPending
  BY <1>6, <1>7 DEF SumAllocated, SumTaken, SumPending, Asking
<1>8. ASSUME NEW l \in Leaves, RequestInsert(l) PROVE ApartInv'
  <2>1. Asked.op = "insert" /\ IsAsking(Asked)
    BY <1>1, <1>8, AskingByRequester DEF RequestInsert, Asked, Asking
  <2>2. PICK state, row : /\ state = IF LeaveTypes[Asked.type].mode = "no_validation" THEN "approved" ELSE "to_approve"
                          /\ row = [state |-> state, from |-> Asked.from, to |-> Asked.to, type |-> Asked.type,
                                    units |-> Asked.units, first |-> Nobody, second |-> Nobody]
    OBVIOUS
  <2>3. row \in LeaveRows /\ row.from = Asked.from /\ row.to = Asked.to
    BY <2>1, <2>2 DEF IsAsking, LeaveRows
  <2>4. leave' = [leave EXCEPT ![l] = row] /\ Go(Requester, Idle) BY <1>8, <2>2 DEF RequestInsert, Asked
  <2>5. leaveCall[Requester] # Idle BY <2>1 DEF Asked, Idle
  <2>6. exclusive => \A k \in Leaves : ~Overlaps(k, row.from, row.to) BY <2>1, <2>3 DEF ApartInv
  <2> QED BY <1>1, <1>3, <2>3, <2>4, <2>5, <2>6, WriteKeepsApart
<1>9. ASSUME NEW u \in Users, NEW l \in Leaves, ApproveBegin(u, l) PROVE ApartInv'
  <2>1. PICK c : /\ c = [op |-> IF leave[l].state = "second_approval" THEN "compare" ELSE "approve",
                         leave |-> l, seen |-> leave[l].state]
                 /\ Go(u, c) /\ leave' = leave
    BY <1>9 DEF ApproveBegin
  <2>2. c.leave = l /\ c.seen = leave[l].state /\ ~IsAsking(c) BY <2>1, CallKinds DEF Asking
  <2> QED BY <1>1, <1>2, <1>3, <1>9, <2>1, <2>2, TurnKeepsApart DEF ApproveBegin, May
<1>10. ASSUME NEW u \in Users, NEW l \in Leaves, RefuseBegin(u, l) PROVE ApartInv'
  <2>1. PICK c : c = [op |-> "refuse", leave |-> l] /\ Go(u, c) /\ leave' = leave
    BY <1>10 DEF RefuseBegin
  <2>2. ~IsAsking(c) /\ ~IsApproving(c) BY <2>1, CallKinds DEF Asking
  <2> QED BY <1>1, <1>2, <1>3, <1>10, <2>1, <2>2, TurnKeepsApart DEF RefuseBegin, May
<1>11. ASSUME NEW u \in Users, LeaveCallEnds(u) PROVE ApartInv'
  <2>1. ~IsAsking(Idle) /\ ~IsApproving(Idle) BY CallKinds DEF Asking
  <2> QED BY <1>1, <1>2, <1>3, <1>11, <2>1, TurnKeepsApart DEF LeaveCallEnds
<1>12. ASSUME NEW u \in Users, ApproveCompare(u) PROVE ApartInv'
  <2>1. leaveCall[u].op = "compare" BY <1>12 DEF ApproveCompare
  <2>2. IsApproving(leaveCall[u]) /\ leaveCall[u] # Idle BY <1>1, <2>1, CallKinds DEF TimeOffTypes, Asking
  <2>3. PICK c : /\ c = IF leave[leaveCall[u].leave].first = u THEN Idle
                        ELSE [leaveCall[u] EXCEPT !.op = "approve"]
                 /\ Go(u, c) /\ leave' = leave
    BY <1>12 DEF ApproveCompare
  <2>4. c = Idle \/ (c.op = "approve" /\ c.leave = leaveCall[u].leave /\ c.seen = leaveCall[u].seen)
    BY <2>2, <2>3 DEF IsApproving
  <2>5. ~IsAsking(c) BY <2>4, CallKinds DEF Asking
  <2>6. exclusive /\ IsApproving(c) => leave[c.leave].state = c.seen
    BY <2>2, <2>4, CallKinds DEF ApartInv
  <2> QED BY <1>1, <1>2, <1>3, <2>2, <2>3, <2>5, <2>6, TurnKeepsApart
<1>13. ASSUME NEW u \in Users, ApproveWrite(u) PROVE ApartInv'
  <2> DEFINE l == leaveCall[u].leave
             old == leave[l]
  <2>1. leaveCall[u].op = "approve" BY <1>13 DEF ApproveWrite
  <2>2. IsApproving(leaveCall[u]) /\ leaveCall[u] # Idle BY <1>1, <2>1, CallKinds DEF TimeOffTypes, Asking
  <2>3. l \in Leaves /\ old \in LeaveRows /\ u \in Users \cup {Nobody}
    BY <1>1, <2>2, CallKinds DEF ApprovalInv, ApprovalsUnderWay, TimeOffTypes
  <2>4. exclusive => old.state \notin {"none", "refused"}
    BY <2>2, <2>3 DEF ApartInv, IsApproving
  <2>5. PICK row :
          /\ row = IF leaveCall[u].seen = "second_approval"
                   THEN [old EXCEPT !.state = "approved", !.second = u]
                   ELSE [old EXCEPT !.state = IF LeaveTypes[old.type].mode = "both" THEN "second_approval" ELSE "approved",
                                    !.first = u]
          /\ leave' = [leave EXCEPT ![l] = row] /\ Go(u, Idle)
    BY <1>13 DEF ApproveWrite
  <2> HIDE DEF l, old
  <2>6. row \in LeaveRows /\ row.from = old.from /\ row.to = old.to
    <3>1. PICK state : state = IF LeaveTypes[old.type].mode = "both" THEN "second_approval" ELSE "approved"
      OBVIOUS
    <3>2. state \in {"second_approval", "approved"} BY <3>1
    <3>3. CASE row = [old EXCEPT !.state = "approved", !.second = u]
      BY <2>3, <3>3 DEF LeaveRows
    <3>4. CASE row = [old EXCEPT !.state = state, !.first = u]
      BY <2>3, <3>2, <3>4 DEF LeaveRows
    <3> QED BY <2>5, <3>1, <3>3, <3>4
  <2>7. exclusive => \A k \in Leaves : k # l => ~Overlaps(k, row.from, row.to)
    BY <2>3, <2>4, <2>6 DEF ApartInv, ApartByCheck, old
  <2> QED BY <1>1, <1>3, <2>2, <2>3, <2>5, <2>6, <2>7, WriteKeepsApart DEF l
<1>14. ASSUME NEW u \in Users, RefuseWrite(u) PROVE ApartInv'
  <2> DEFINE l == leaveCall[u].leave
  <2>1. leaveCall[u].op = "refuse" BY <1>14 DEF RefuseWrite
  <2>2. IsRefusing(leaveCall[u]) /\ leaveCall[u] # Idle BY <1>1, <2>1, CallKinds DEF TimeOffTypes, Asking
  <2>3. l \in Leaves /\ leave[l] \in LeaveRows
    BY <1>1, <2>2, CallKinds DEF ApprovalInv, RefusalsUnderWay, TimeOffTypes
  <2>4. PICK row : row = [leave[l] EXCEPT !.state = "refused"] /\ leave' = [leave EXCEPT ![l] = row] /\ Go(u, Idle)
    BY <1>14 DEF RefuseWrite
  <2>5. row \in LeaveRows /\ row.state = "refused" BY <2>3, <2>4 DEF LeaveRows
  <2> HIDE DEF l
  <2> QED BY <1>1, <1>3, <2>2, <2>3, <2>4, <2>5, WriteKeepsApart
<1> QED
  BY <1>4, <1>5, <1>7, <1>8, <1>9, <1>10, <1>11, <1>12, <1>13, <1>14 DEF TimeOffNext, timeOffVars
-----------------------------------------------------------------------------
(* What is asked for fits what is allocated when calls do not overlap: the *)
(* three sums of get_balance, read one after the other, are still what is  *)
(* left when the request is stored.                                        *)
Waiting == {"to_approve", "second_approval"}
Held == {"to_approve", "second_approval", "approved"}
Table == [Leaves -> {Absent} \cup LeaveRows]
Rows(table, type, states) == {l \in Leaves : table[l].state \in states /\ table[l].type = type}
UnitsOf(table) == [l \in Leaves |-> table[l].units]

FitInv ==
  exclusive =>
    /\ \A l \in Leaves : leave[l] # Absent => leave[l].units > 0
    /\ \A type \in DOMAIN LeaveTypes : Checked(type) => Units(type, Held) <= Allocated(type)
    /\ IsAsking(Asked) =>
         /\ Asked.units > 0
         /\ Asked.op = "allocated" => Checked(Asked.type)
         /\ Checked(Asked.type) =>
              CASE Asked.op = "allocated" -> TRUE
                [] Asked.op = "taken" -> Asked.left = Allocated(Asked.type)
                [] Asked.op = "pending" -> Asked.left = Allocated(Asked.type) - Units(Asked.type, {"approved"})
                [] OTHER -> Asked.left = Allocated(Asked.type) - Units(Asked.type, {"approved"})
                                                               - Units(Asked.type, Waiting)

LEMMA DurationType ==
  ASSUME NEW from \in Int, NEW to \in Int, NEW unit
  PROVE  Duration(from, to, unit) \in Int
<1> USE TimeOffAssumption
<1> DEFINE worked == {d \in from .. to : Shifts(d) # {} /\ ~Holiday(d)}
           Hours(d) == SumOf([s \in Shifts(d) |-> s.to - s.from], Shifts(d))
<1>1. IsFiniteSet(worked)
  <2>1. from \in Int /\ to \in Int OBVIOUS
  <2>2. IsFiniteSet(from .. to) BY <2>1, FS_Interval
  <2>3. worked \subseteq from .. to OBVIOUS
  <2> HIDE DEF worked
  <2> QED BY <2>2, <2>3, FS_Subset
<1>2. Cardinality(worked) \in Int BY <1>1, FS_CardinalityType
<1>3. ASSUME NEW d PROVE Hours(d) \in Int
  <2>1. IsFiniteSet(Shifts(d)) /\ \A s \in Shifts(d) : s.from \in Int /\ s.to \in Int
    <3>1. CASE Calendar = {}
      <4>1. \A s \in Shifts(d) : s = [weekday |-> Weekday(d), from |-> 8, to |-> 16] BY <3>1 DEF Shifts
      <4>2. Shifts(d) \subseteq {[weekday |-> Weekday(d), from |-> 8, to |-> 16]} BY <4>1
      <4>3. IsFiniteSet({[weekday |-> Weekday(d), from |-> 8, to |-> 16]}) BY FS_Singleton
      <4>4. IsFiniteSet(Shifts(d)) BY <4>2, <4>3, FS_Subset
      <4> QED BY <4>1, <4>4
    <3>2. CASE Calendar # {}
      <4>1. Shifts(d) \subseteq Calendar BY <3>2 DEF Shifts
      <4> QED BY <4>1, FS_Subset
    <3> QED BY <3>1, <3>2
  <2>2. PICK S, h : S = Shifts(d) /\ h = [s \in S |-> s.to - s.from] OBVIOUS
  <2>3. \A s \in S : h[s] \in Int BY <2>1, <2>2
  <2>4. SumOf(h, S) \in Int BY <2>1, <2>2, <2>3, SumType
  <2> QED BY <2>2, <2>4
<1>4. SumOf([d \in worked |-> Hours(d)], worked) \in Int
  <2>1. PICK W, h : W = worked /\ h = [d \in W |-> Hours(d)] OBVIOUS
  <2>2. \A d \in W : h[d] \in Int BY <1>3, <2>1
  <2>3. SumOf(h, W) \in Int BY <1>1, <2>1, <2>2, SumType
  <2> QED BY <2>1, <2>3
<1> QED BY <1>2, <1>4 DEF Duration

LEMMA UnitsAre ==
  ASSUME NEW table \in Table, NEW type, NEW states, "none" \notin states
  PROVE  /\ IsFiniteSet(Rows(table, type, states))
         /\ \A l \in Rows(table, type, states) : UnitsOf(table)[l] = table[l].units /\ UnitsOf(table)[l] \in Int
         /\ SumOf(UnitsOf(table), Rows(table, type, states)) \in Int
<1>1. IsFiniteSet(Rows(table, type, states)) BY TimeOffAssumption, FS_Subset DEF Rows
<1>2. ASSUME NEW l \in Rows(table, type, states)
      PROVE  UnitsOf(table)[l] = table[l].units /\ UnitsOf(table)[l] \in Int
  <2>1. table[l] \in LeaveRows BY RowKinds DEF Rows, Table
  <2>2. UnitsOf(table)[l] = table[l].units BY DEF UnitsOf, Rows
  <2>3. table[l].units \in Int BY <2>1, DurationType, MomentInt DEF LeaveRows, Durations
  <2> QED BY <2>2, <2>3
<1> QED BY <1>1, <1>2, SumType

LEMMA UnitsSum ==
  /\ \A type, states : Units(type, states) = SumOf(UnitsOf(leave), Rows(leave, type, states))
  /\ \A type, states : Units(type, states)' = SumOf(UnitsOf(leave'), Rows(leave', type, states))
BY DEF Units, UnitsOf, Rows

LEMMA UnitsType ==
  ASSUME TimeOffTypes, NEW type, NEW states, "none" \notin states
  PROVE  Units(type, states) \in Int
BY UnitsSum, UnitsAre DEF TimeOffTypes, Table

\* What is waiting and what is approved come to what is held.
LEMMA UnitsSplit ==
  ASSUME TimeOffTypes, NEW type
  PROVE  Units(type, Held) = Units(type, {"approved"}) + Units(type, Waiting)
<1> DEFINE A == Rows(leave, type, {"approved"})
           W == Rows(leave, type, Waiting)
<1>1. Rows(leave, type, Held) = A \cup W /\ A \cap W = {}
  BY DEF Rows, Held, Waiting
<1>2. leave \in Table BY DEF Table, TimeOffTypes
<1>3. "none" \notin Waiting /\ "none" \notin {"approved"} BY DEF Waiting
<1>4. IsFiniteSet(A) /\ \A l \in A : UnitsOf(leave)[l] \in Int BY <1>2, <1>3, UnitsAre
<1>5. IsFiniteSet(W) /\ \A l \in W : UnitsOf(leave)[l] \in Int BY <1>2, <1>3, UnitsAre
<1> HIDE DEF A, W
<1>6. SumOf(UnitsOf(leave), A \cup W) = SumOf(UnitsOf(leave), A) + SumOf(UnitsOf(leave), W)
  BY <1>1, <1>4, <1>5, SumUnion
<1> QED BY <1>1, <1>6, UnitsSum DEF A, W

\* One request is stored, approved or refused.
LEMMA RowUnits ==
  ASSUME TimeOffTypes, NEW l \in Leaves, NEW row \in LeaveRows,
         leave' = [leave EXCEPT ![l] = row], NEW type
  PROVE  /\ leave[l] = Absent /\ row.state \in Held =>
              Units(type, Held)' = Units(type, Held) + (IF row.type = type THEN row.units ELSE 0)
         /\ /\ leave[l].state \in Held /\ row.state \in Held
            /\ row.type = leave[l].type /\ row.units = leave[l].units
            => Units(type, Held)' = Units(type, Held)
         /\ leave[l] # Absent /\ row.state = "refused" /\ leave[l].units > 0
            => Units(type, Held)' <= Units(type, Held)
<1>1. leave \in Table /\ leave' \in Table BY DEF TimeOffTypes, Table
<1>2. leave'[l] = row /\ \A k \in Leaves : k # l => leave'[k] = leave[k] BY DEF TimeOffTypes
<1>3. PICK S, f, T, g : /\ S = Rows(leave, type, Held) /\ f = UnitsOf(leave)
                        /\ T = Rows(leave', type, Held) /\ g = UnitsOf(leave')
  OBVIOUS
<1> DEFINE R == S \ {l}
<1>4. "none" \notin Held BY DEF Held
<1>5. /\ IsFiniteSet(S) /\ \A k \in S : f[k] \in Int /\ f[k] = leave[k].units
      /\ Units(type, Held) = SumOf(f, S) /\ SumOf(f, S) \in Int
  BY <1>1, <1>3, <1>4, UnitsAre, UnitsSum
<1>6. /\ IsFiniteSet(T) /\ \A k \in T : g[k] \in Int
      /\ Units(type, Held)' = SumOf(g, T) /\ SumOf(g, T) \in Int
  BY <1>1, <1>3, <1>4, UnitsAre, UnitsSum
<1>7. /\ l \in T <=> row.state \in Held /\ row.type = type
      /\ l \in S <=> leave[l].state \in Held /\ leave[l].type = type
      /\ T \ {l} = R
  BY <1>2, <1>3 DEF Rows
<1>8. \A k \in R : g[k] = f[k] BY <1>2, <1>3 DEF UnitsOf, Rows
<1>9. g[l] = row.units BY <1>2, <1>3 DEF UnitsOf
<1>10. IsFiniteSet(R) /\ \A k \in R : f[k] \in Int BY <1>5, FS_RemoveElement
<1> HIDE DEF R
<1>11. SumOf(g, R) = SumOf(f, R) /\ SumOf(f, R) \in Int BY <1>8, <1>10, SumSame, SumType
<1>12. l \in S => SumOf(f, S) = f[l] + SumOf(f, R) BY <1>5, SumRemove DEF R
<1>13. l \in T => SumOf(g, T) = g[l] + SumOf(g, R) BY <1>6, <1>7, SumRemove
<1>14. (l \notin S => S = R) /\ (l \notin T => T = R) BY <1>7 DEF R
<1>15. row.units \in Int BY DurationType, MomentInt DEF LeaveRows, Durations
<1>16. leave[l] = Absent => leave[l].state \notin Held BY DEF Absent, Held
<1>17. row.state = "refused" => row.state \notin Held BY DEF Held
<1>18. l \in S => f[l] = leave[l].units /\ f[l] \in Int BY <1>5
<1> QED BY <1>5, <1>6, <1>7, <1>9, <1>11, <1>12, <1>13, <1>14, <1>15, <1>16, <1>17, <1>18

\* A call goes from one step to the next: the books stay, and what the asking
\* call has summed up is what they say.
LEMMA TurnKeepsFit ==
  ASSUME TimeOffTypes, FitInv, NEW u \in Users, NEW c, Go(u, c),
         UNCHANGED <<leave, accrued, exclusive>>,
         exclusive => \A v \in Users : v # u => leaveCall[v] = Idle,
         exclusive /\ IsAsking(c) =>
           /\ c.units > 0
           /\ c.op = "allocated" => Checked(c.type)
           /\ Checked(c.type) =>
                CASE c.op = "allocated" -> TRUE
                  [] c.op = "taken" -> c.left = Allocated(c.type)
                  [] c.op = "pending" -> c.left = Allocated(c.type) - Units(c.type, {"approved"})
                  [] OTHER -> c.left = Allocated(c.type) - Units(c.type, {"approved"}) - Units(c.type, Waiting)
  PROVE  FitInv'
<1>1. leaveCall'[u] = c /\ \A v \in Users : v # u => leaveCall'[v] = leaveCall[v]
  BY DEF Go, TimeOffTypes
<1>2. \A type : Allocated(type)' = Allocated(type) BY DEF Allocated
<1>3. \A type, states : Units(type, states)' = Units(type, states) BY DEF Units
<1>4. SUFFICES ASSUME exclusive, IsAsking(Asked)' PROVE Asked' = c
  <2>1. IsAsking(Asked)' /\ Asked' = c => IsAsking(c) BY DEF IsAsking
  <2>2. ASSUME Asked' = c PROVE IsAsking(Asked)' => IsAsking(c) /\ Asked' = c BY <2>1, <2>2
  <2>3. \A type : Checked(type)' = Checked(type) BY DEF Checked
  <2> QED BY <1>2, <1>3, <2>1, <2>2, <2>3 DEF FitInv
<1>5. Asked' = leaveCall'[Requester] BY DEF Asked
<1>6. CASE u # Requester
  <2>1. Asked' = Idle BY <1>1, <1>4, <1>5, <1>6, TimeOffAssumption
  <2>2. ~IsAsking(Idle) BY CallKinds DEF Asking
  <2> QED BY <1>4, <2>1, <2>2 DEF IsAsking
<1> QED BY <1>1, <1>5, <1>6

\* A call writes a request and ends.
LEMMA WriteKeepsFit ==
  ASSUME TimeOffTypes, ApartInv, FitInv, NEW u \in Users, leaveCall[u] # Idle, Go(u, Idle),
         NEW l \in Leaves, NEW row \in LeaveRows, leave' = [leave EXCEPT ![l] = row],
         UNCHANGED <<accrued, exclusive>>,
         exclusive => /\ row.units > 0
                      /\ \A type \in DOMAIN LeaveTypes : Checked(type) => Units(type, Held)' <= Allocated(type)
  PROVE  FitInv'
<1>1. ASSUME exclusive PROVE \A v \in Users : leaveCall'[v] = Idle
  BY <1>1 DEF ApartInv, Go, TimeOffTypes
<1>2. exclusive => ~IsAsking(Asked)'
  <2> SUFFICES ASSUME exclusive PROVE ~IsAsking(Asked)' OBVIOUS
  <2>1. Asked' = Idle BY <1>1, TimeOffAssumption DEF Asked
  <2>2. ~IsAsking(Idle) BY CallKinds DEF Asking
  <2> QED BY <2>1, <2>2 DEF IsAsking
<1>3. leave'[l] = row /\ \A k \in Leaves : k # l => leave'[k] = leave[k] BY DEF TimeOffTypes
<1>4. \A type : Allocated(type)' = Allocated(type) /\ Checked(type)' = Checked(type)
  BY DEF Allocated, Checked
<1>5. exclusive => (\A k \in Leaves : leave[k] # Absent => leave[k].units > 0)'
  BY <1>3 DEF FitInv
<1> QED BY <1>2, <1>4, <1>5 DEF FitInv

\* A run adds and never takes away, as long as runs do not overlap.
LEMMA AccruedGrows ==
  ASSUME AccrualInv, [AccrualNext]_accrualVars, exclusive
  PROVE  accrued'.units \in Nat /\ accrued'.units >= accrued.units /\ accrued.units \in Nat
<1>1. accrued \in Entitlements /\ accrued.units \in Nat BY DEF AccrualInv, AccrualTypes, Entitlements
<1>2. ASSUME NEW r \in AccrualRuns, AccrualCommit(r)
      PROVE  accrued'.units \in Nat /\ accrued'.units >= accrued.units
  <2>1. accrual[r].seen = accrued /\ accrual[r].op = "add"
    BY <1>2 DEF AccrualInv, AccrualCommit, Idle
  <2>2. accrued' \in Entitlements
    <3>1. PICK b : b = AccruedBy(accrual[r], accrual[r].seen.units) OBVIOUS
    <3>2. accrual[r] # Idle BY <2>1 DEF Idle
    <3>3. NotMore(accrued) /\ NotMore(accrual[r].seen) /\ AccrualTypes
          /\ accrual[r].seen.cap = accrued.cap
      BY <3>2 DEF AccrualInv
    <3>4. b \in Entitlements BY <2>1, <3>1, <3>3, CommitKeeps
    <3> QED BY <1>2, <3>1, <3>4 DEF AccrualCommit
  <2>3. accrued' = AccruedBy(accrual[r], accrued.units) BY <1>2, <2>1 DEF AccrualCommit
  <2>4. accrued'.units \in Nat BY <2>2 DEF Entitlements
  <2>5. CASE accrued' = accrued BY <2>5, <1>1
  <2>6. PICK n, d : /\ n = IF Total(accrual[r]) > accrued.units THEN accrued.units + Total(accrual[r]) - accrued.units ELSE accrued.units
                    /\ accrued' = accrued \/ accrued' = [accrued EXCEPT !.units = n, !.last = d]
    BY <2>1, <2>3 DEF AccruedBy
  <2>7. CASE accrued' = [accrued EXCEPT !.units = n, !.last = d]
    <3>1. accrued'.units = n BY <1>1, <2>7 DEF Entitlements
    <3>2. CASE ~(Total(accrual[r]) > accrued.units) BY <1>1, <2>4, <2>6, <3>1, <3>2
    <3>3. CASE Total(accrual[r]) > accrued.units
      <4>1. Total(accrual[r]) \in Int
        <5>1. accrual[r] # Idle BY <2>1 DEF Idle
        <5>2. accrual[r].day \in Nat BY <5>1 DEF AccrualInv, AccrualTypes
        <5>3. accrued.last \in Nat /\ accrued.cap \in Nat BY <1>1, AccrualAssumption DEF Entitlements
        <5>4. Periods(accrual[r]) \in Int BY <2>1, <5>2, <5>3, AccrualAssumption DEF Periods
        <5>5. Periods(accrual[r]) * AccrualRate \in Int BY <5>4, AccrualAssumption, SMT
        <5> QED BY <1>1, <2>1, <5>3, <5>5 DEF Total, Capped
      <4> QED BY <1>1, <2>4, <2>6, <3>1, <3>3, <4>1
    <3> QED BY <3>2, <3>3
  <2> QED BY <2>4, <2>5, <2>6, <2>7
<1>3. CASE accrued' = accrued BY <1>1, <1>3
<1> QED BY <1>1, <1>2, <1>3 DEF AccrualNext, accrualVars, AccrualRead, AccrualFails

LEMMA FitStepInv ==
  AccrualInv /\ ApprovalInv /\ ApartInv /\ FitInv /\ [TimeOffNext]_timeOffVars => FitInv'
<1> SUFFICES ASSUME AccrualInv, ApprovalInv, ApartInv, FitInv, [TimeOffNext]_timeOffVars PROVE FitInv'
  OBVIOUS
<1> USE TimeOffAssumption
<1>1. TimeOffTypes BY DEF ApprovalInv
<1>2. ASSUME NEW u \in Users, MayCall(leaveCall, u) \/ leaveCall[u] # Idle
      PROVE  exclusive => \A v \in Users : v # u => leaveCall[v] = Idle
  BY <1>1, <1>2 DEF ApartInv, MayCall, TimeOffTypes
<1>3. \A type : \A states : "none" \notin states => Units(type, states) \in Int
  BY <1>1, UnitsType
<1>4. \A type \in DOMAIN LeaveTypes : Allocated(type) \in Int
  BY DEF Allocated, AccrualInv, AccrualTypes, Entitlements
<1>5. "none" \notin Waiting /\ "none" \notin Held /\ "none" \notin {"approved"} BY DEF Waiting, Held
<1>6. UNCHANGED accrualVars => UNCHANGED <<accrued, exclusive>> BY DEF accrualVars, workdayVars
<1>7. CASE UNCHANGED timeOffVars
  <2>1. UNCHANGED <<leave, leaveCall, accrued, exclusive>> BY <1>6, <1>7 DEF timeOffVars
  <2>2. \A type, states : Units(type, states)' = Units(type, states) /\ Allocated(type)' = Allocated(type)
    BY <2>1 DEF Units, Allocated
  <2>3. Asked' = Asked BY <2>1 DEF Asked
  <2> QED BY <2>1, <2>2, <2>3 DEF FitInv, IsAsking, Checked
<1>8. ASSUME NEW from \in Moments, NEW to \in Moments, NEW type \in DOMAIN LeaveTypes,
             RequestBegin(from, to, type)
      PROVE  FitInv'
  <2>1. PICK c : /\ c = [op |-> IF Checked(type) THEN "allocated" ELSE "insert", from |-> from, to |-> to,
                         type |-> type, units |-> Duration(DayOf(from), DayOf(to), LeaveTypes[type].unit), left |-> 0]
                 /\ Go(Requester, c) /\ leave' = leave
    BY <1>8 DEF RequestBegin
  <2>2. MayCall(leaveCall, Requester) BY <1>8 DEF RequestBegin, May
  <2>3. c.units > 0 /\ c.type = type /\ c.op = IF Checked(type) THEN "allocated" ELSE "insert"
    BY <1>8, <2>1 DEF RequestBegin
  <2>4. UNCHANGED <<leave, accrued, exclusive>> BY <1>6, <1>8 DEF RequestBegin
  <2> QED BY <1>1, <1>2, <2>1, <2>2, <2>3, <2>4, TurnKeepsFit
<1>9. ASSUME NEW op \in Asking, NEW next \in {"taken", "pending", "insert"}, NEW left, Summed(op, next, left),
             exclusive /\ Checked(Asked.type) =>
               CASE next = "taken" -> left = Allocated(Asked.type)
                 [] next = "pending" -> left = Allocated(Asked.type) - Units(Asked.type, {"approved"})
                 [] OTHER -> left = Allocated(Asked.type) - Units(Asked.type, {"approved"}) - Units(Asked.type, Waiting)
      PROVE  FitInv'
  <2>1. IsAsking(Asked) /\ Asked # Idle BY <1>1, <1>9, AskingByRequester DEF Summed, Asking, Idle
  <2>2. PICK c : c = [Asked EXCEPT !.op = next, !.left = left] OBVIOUS
  <2>3. c.op = next /\ c.left = left /\ c.type = Asked.type /\ c.units = Asked.units
    BY <2>1, <2>2 DEF IsAsking
  <2>4. Go(Requester, c) /\ UNCHANGED <<leave, accrued, exclusive>> BY <1>6, <1>9, <2>2 DEF Summed
  <2>5. exclusive => c.units > 0 BY <2>1, <2>3 DEF FitInv
  <2>6. \A v \in Users : exclusive /\ v # Requester => leaveCall[v] = Idle BY <1>2, <2>1 DEF Asked
  <2>7. next # "allocated" BY <1>9
  <2> QED BY <1>1, <1>9, <2>3, <2>4, <2>5, <2>6, <2>7, TurnKeepsFit
<1>10. ASSUME NEW op \in Asking, Asked.op = op
       PROVE  /\ IsAsking(Asked) /\ Asked # Idle /\ Asked.type \in DOMAIN LeaveTypes
              /\ exclusive /\ Checked(Asked.type) =>
                   CASE op = "allocated" -> TRUE
                     [] op = "taken" -> Asked.left = Allocated(Asked.type)
                     [] op = "pending" -> Asked.left = Allocated(Asked.type) - Units(Asked.type, {"approved"})
                     [] OTHER -> Asked.left = Allocated(Asked.type) - Units(Asked.type, {"approved"})
                                                                    - Units(Asked.type, Waiting)
  <2>1. IsAsking(Asked) BY <1>1, <1>10, AskingByRequester
  <2>2. Asked # Idle BY <1>10 DEF Asking, Idle
  <2>3. Asked.type \in DOMAIN LeaveTypes BY <2>1 DEF IsAsking
  <2> QED BY <1>10, <2>1, <2>2, <2>3 DEF FitInv
<1>11. CASE SumAllocated BY <1>9, <1>11 DEF SumAllocated, Asking
<1>12. CASE SumTaken
  <2>1. Asked.op = "taken" BY <1>12 DEF SumTaken, Summed
  <2>2. exclusive /\ Checked(Asked.type) => Asked.left = Allocated(Asked.type)
    BY <1>10, <2>1 DEF Asking
  <2> QED BY <1>9, <1>12, <2>2 DEF SumTaken, Asking
<1>13. CASE SumPending
  <2>1. Asked.op = "pending" BY <1>13 DEF SumPending, Summed
  <2>2. exclusive /\ Checked(Asked.type) => Asked.left = Allocated(Asked.type) - Units(Asked.type, {"approved"})
    BY <1>10, <2>1 DEF Asking
  <2> QED BY <1>9, <1>13, <2>2 DEF SumPending, Asking, Waiting
<1>14. ASSUME NEW l \in Leaves, RequestInsert(l) PROVE FitInv'
  <2>1. Asked.op = "insert" BY <1>14 DEF RequestInsert, Asked
  <2>2. /\ IsAsking(Asked) /\ Asked # Idle /\ Asked.type \in DOMAIN LeaveTypes
        /\ exclusive /\ Checked(Asked.type) =>
             Asked.left = Allocated(Asked.type) - Units(Asked.type, {"approved"}) - Units(Asked.type, Waiting)
    BY <1>10, <2>1 DEF Asking
  <2>3. PICK state, row : /\ state = IF LeaveTypes[Asked.type].mode = "no_validation" THEN "approved" ELSE "to_approve"
                          /\ row = [state |-> state, from |-> Asked.from, to |-> Asked.to, type |-> Asked.type,
                                    units |-> Asked.units, first |-> Nobody, second |-> Nobody]
    OBVIOUS
  <2>4. row \in LeaveRows /\ row.type = Asked.type /\ row.units = Asked.units /\ row.state \in Held
    BY <2>2, <2>3 DEF IsAsking, LeaveRows, Held
  <2>5. /\ leave' = [leave EXCEPT ![l] = row] /\ Go(Requester, Idle) /\ leave[l] = Absent
        /\ UNCHANGED <<accrued, exclusive>> /\ (Checked(Asked.type) => Asked.left >= Asked.units)
    BY <1>6, <1>14, <2>3 DEF RequestInsert, Asked
  <2>6. \A type : Units(type, Held)' = Units(type, Held) + (IF row.type = type THEN row.units ELSE 0)
    BY <1>1, <2>4, <2>5, RowUnits
  <2>7. exclusive => row.units > 0 BY <2>2, <2>4 DEF FitInv
  <2>8. row.units \in Int BY <2>4, DurationType, MomentInt DEF LeaveRows, Durations
  <2>9. ASSUME exclusive, NEW type \in DOMAIN LeaveTypes, Checked(type)
        PROVE  Units(type, Held)' <= Allocated(type)
    <3>1. Units(type, Held) <= Allocated(type) /\ Units(type, Held) \in Int /\ Allocated(type) \in Int
      BY <1>3, <1>4, <1>5, <2>9 DEF FitInv
    <3>2. CASE type # row.type BY <2>6, <3>1, <3>2
    <3>3. CASE type = row.type
      <4>1. Units(type, Held) = Units(type, {"approved"}) + Units(type, Waiting)
            /\ Units(type, {"approved"}) \in Int /\ Units(type, Waiting) \in Int
        BY <1>1, <1>3, <1>5, UnitsSplit
      <4>2. Asked.left = Allocated(type) - Units(type, {"approved"}) - Units(type, Waiting) /\ Asked.left >= row.units
        BY <2>2, <2>4, <2>5, <2>9, <3>3
      <4>3. Units(type, Held)' = Units(type, Held) + row.units BY <2>6, <3>3
      <4> QED BY <2>8, <3>1, <4>1, <4>2, <4>3
    <3> QED BY <3>2, <3>3
  <2> QED BY <1>1, <2>2, <2>4, <2>5, <2>7, <2>9, WriteKeepsFit DEF Asked
<1>15. ASSUME NEW u \in Users, NEW c, Go(u, c), MayCall(leaveCall, u) \/ leaveCall[u] # Idle,
              UNCHANGED <<leave, accrualVars>>, ~IsAsking(c)
       PROVE  FitInv'
  BY <1>1, <1>2, <1>6, <1>15, TurnKeepsFit
<1>16. ASSUME NEW u \in Users, NEW l \in Leaves, ApproveBegin(u, l) \/ RefuseBegin(u, l) PROVE FitInv'
  <2>1. PICK c : /\ \/ c = [op |-> IF leave[l].state = "second_approval" THEN "compare" ELSE "approve",
                            leave |-> l, seen |-> leave[l].state]
                    \/ c = [op |-> "refuse", leave |-> l]
                 /\ Go(u, c) /\ MayCall(leaveCall, u) /\ UNCHANGED <<leave, accrualVars>>
    BY <1>16 DEF ApproveBegin, RefuseBegin, May
  <2>2. ~IsAsking(c) BY <2>1, CallKinds DEF Asking
  <2> QED BY <1>15, <2>1, <2>2
<1>17. ASSUME NEW u \in Users, LeaveCallEnds(u) PROVE FitInv'
  BY <1>15, <1>17, CallKinds DEF LeaveCallEnds, Asking
<1>18. ASSUME NEW u \in Users, ApproveCompare(u) PROVE FitInv'
  <2>1. leaveCall[u].op = "compare" BY <1>18 DEF ApproveCompare
  <2>2. leaveCall[u] # Idle /\ IsApproving(leaveCall[u])
    BY <1>1, <2>1, CallKinds DEF TimeOffTypes, Asking, Idle
  <2>3. PICK c : /\ c = IF leave[leaveCall[u].leave].first = u THEN Idle
                        ELSE [leaveCall[u] EXCEPT !.op = "approve"]
                 /\ Go(u, c) /\ UNCHANGED <<leave, accrualVars>>
    BY <1>18 DEF ApproveCompare
  <2>4. c = Idle \/ c.op = "approve" BY <2>2, <2>3 DEF IsApproving
  <2>5. ~IsAsking(c) BY <2>4, CallKinds DEF Asking
  <2> QED BY <1>15, <2>2, <2>3, <2>5
<1>19. ASSUME NEW u \in Users, ApproveWrite(u) PROVE FitInv'
  <2> DEFINE l == leaveCall[u].leave
             old == leave[l]
  <2>1. leaveCall[u].op = "approve" BY <1>19 DEF ApproveWrite
  <2>2. IsApproving(leaveCall[u]) /\ leaveCall[u] # Idle BY <1>1, <2>1, CallKinds DEF TimeOffTypes, Asking
  <2>3. l \in Leaves /\ old \in LeaveRows /\ old # Absent /\ u \in Users \cup {Nobody}
    BY <1>1, <2>2, CallKinds DEF ApprovalInv, ApprovalsUnderWay, TimeOffTypes
  <2>4. exclusive => old.state \in Held
    BY <2>2, <2>3 DEF ApartInv, IsApproving, Held
  <2>5. PICK row, state :
          /\ state = IF LeaveTypes[old.type].mode = "both" THEN "second_approval" ELSE "approved"
          /\ row = IF leaveCall[u].seen = "second_approval"
                   THEN [old EXCEPT !.state = "approved", !.second = u]
                   ELSE [old EXCEPT !.state = state, !.first = u]
          /\ leave' = [leave EXCEPT ![l] = row] /\ Go(u, Idle)
    BY <1>19 DEF ApproveWrite
  <2>6. UNCHANGED <<accrued, exclusive>> BY <1>6, <1>19 DEF ApproveWrite
  <2> HIDE DEF l, old
  <2>7. row \in LeaveRows /\ row.type = old.type /\ row.units = old.units /\ row.state \in Held
    <3>1. state \in {"second_approval", "approved"} BY <2>5
    <3>2. CASE row = [old EXCEPT !.state = "approved", !.second = u]
      BY <2>3, <3>2 DEF LeaveRows, Held
    <3>3. CASE row = [old EXCEPT !.state = state, !.first = u]
      BY <2>3, <3>1, <3>3 DEF LeaveRows, Held
    <3> QED BY <2>5, <3>2, <3>3
  <2>8. exclusive => \A type : Units(type, Held)' = Units(type, Held)
    BY <1>1, <2>3, <2>4, <2>5, <2>7, RowUnits DEF old
  <2>9. exclusive => row.units > 0 BY <2>3, <2>7 DEF FitInv, old
  <2>10. exclusive => \A type \in DOMAIN LeaveTypes : Checked(type) => Units(type, Held)' <= Allocated(type)
    BY <2>8 DEF FitInv
  <2> QED BY <1>1, <2>2, <2>3, <2>5, <2>6, <2>7, <2>9, <2>10, WriteKeepsFit
<1>20. ASSUME NEW u \in Users, RefuseWrite(u) PROVE FitInv'
  <2> DEFINE l == leaveCall[u].leave
  <2>1. leaveCall[u].op = "refuse" BY <1>20 DEF RefuseWrite
  <2>2. IsRefusing(leaveCall[u]) /\ leaveCall[u] # Idle BY <1>1, <2>1, CallKinds DEF TimeOffTypes, Asking
  <2>3. l \in Leaves /\ leave[l] \in LeaveRows /\ leave[l] # Absent
    BY <1>1, <2>2, CallKinds DEF ApprovalInv, RefusalsUnderWay, TimeOffTypes
  <2>4. PICK row : row = [leave[l] EXCEPT !.state = "refused"] /\ leave' = [leave EXCEPT ![l] = row] /\ Go(u, Idle)
    BY <1>20 DEF RefuseWrite
  <2>5. row \in LeaveRows /\ row.state = "refused" /\ row.units = leave[l].units BY <2>3, <2>4 DEF LeaveRows
  <2>6. UNCHANGED <<accrued, exclusive>> BY <1>6, <1>20 DEF RefuseWrite
  <2> HIDE DEF l
  <2>7. exclusive => row.units > 0 /\ leave[l].units > 0 BY <2>3, <2>5 DEF FitInv
  <2>8. \A type : exclusive => Units(type, Held)' <= Units(type, Held)
    BY <1>1, <2>3, <2>4, <2>5, <2>7, RowUnits
  <2>9. TimeOffTypes'
    BY <1>1, <2>4, <2>3, <2>5 DEF TimeOffTypes, Go
  <2>10. \A type : Units(type, Held)' \in Int
    BY <1>5, <2>9, UnitsSum, UnitsAre DEF TimeOffTypes, Table
  <2>11. ASSUME exclusive, NEW type \in DOMAIN LeaveTypes, Checked(type)
         PROVE  Units(type, Held)' <= Allocated(type)
    <3>1. Units(type, Held) <= Allocated(type) BY <2>11 DEF FitInv
    <3> QED BY <1>3, <1>4, <1>5, <2>8, <2>10, <2>11, <3>1
  <2> QED BY <1>1, <2>2, <2>3, <2>4, <2>5, <2>6, <2>7, <2>11, WriteKeepsFit
<1>21. CASE /\ exclusive => \A u \in Users : leaveCall[u] = Idle
            /\ AccrualNext /\ UNCHANGED <<leave, leaveCall>>
  <2>1. exclusive' = exclusive
    BY <1>21 DEF AccrualNext, AccrualRead, AccrualCommit, AccrualFails, NextDay, workdayVars
  <2>2. SUFFICES ASSUME exclusive PROVE FitInv'
    BY <2>1 DEF FitInv
  <2>3. accrued'.units >= accrued.units /\ accrued'.units \in Nat /\ accrued.units \in Nat
    BY <1>21, <2>2, AccruedGrows
  <2>4. \A type \in DOMAIN LeaveTypes : Allocated(type)' >= Allocated(type) /\ Allocated(type)' \in Int
    BY <2>3 DEF Allocated
  <2>5. \A type, states : Units(type, states)' = Units(type, states) BY <1>21 DEF Units
  <2>6. ~IsAsking(Asked)'
    <3>1. Asked' = Idle BY <1>21, <2>2 DEF Asked
    <3>2. ~IsAsking(Idle) BY CallKinds DEF Asking
    <3> QED BY <3>1, <3>2 DEF IsAsking
  <2>7. (\A l \in Leaves : leave[l] # Absent => leave[l].units > 0)' BY <1>21, <2>2 DEF FitInv
  <2>8. ASSUME NEW type \in DOMAIN LeaveTypes, Checked(type)'
        PROVE  (Units(type, Held) <= Allocated(type))'
    <3>1. Units(type, Held) <= Allocated(type) BY <2>2, <2>8 DEF FitInv, Checked
    <3> QED BY <1>3, <1>4, <1>5, <2>4, <2>5, <3>1
  <2> QED BY <2>6, <2>7, <2>8 DEF FitInv
<1> QED
  BY <1>7, <1>8, <1>11, <1>12, <1>13, <1>14, <1>16, <1>17, <1>18, <1>19, <1>20, <1>21 DEF TimeOffNext

\* When calls about an employee do not overlap, requests that are not refused
\* are never for the same moment and use no more than is allocated, whatever is
\* asked, approved, refused and accrued in between (_assert_no_overlap, get_balance).
THEOREM Fits == TimeOffSpec => []LeavesFit
<1>1. TimeOffInit => ApartInv /\ FitInv
  <2> SUFFICES ASSUME TimeOffInit PROVE ApartInv /\ FitInv
    OBVIOUS
  <2>1. \A u \in Users : leaveCall[u] = Idle BY DEF TimeOffInit
  <2>2. ~IsAsking(Idle) /\ ~IsApproving(Idle) BY CallKinds DEF Asking
  <2>3. \A l \in Leaves : leave[l] = Absent /\ leave[l].state = "none" BY DEF TimeOffInit, Absent
  <2>4. ApartInv BY <2>1, <2>2, <2>3, TimeOffAssumption DEF ApartInv, ApartByCheck, Asked
  <2>5. \A type : Units(type, Held) = 0
    <3>1. \A type : Rows(leave, type, Held) = {} BY <2>3 DEF Rows, Held
    <3> QED BY <3>1, UnitsSum, SumEmpty
  <2>6. \A type \in DOMAIN LeaveTypes : Allocated(type) \in Nat
    BY TimeOffAssumption DEF Allocated, TimeOffInit, AccrualInit
  <2> QED BY <2>1, <2>2, <2>3, <2>4, <2>5, <2>6, TimeOffAssumption DEF FitInv, Asked
<1>2. TimeOffSpec => []ApprovalInv BY TimeOffInitInv, TimeOffStepInv, PTL DEF TimeOffSpec
<1>3. AccrualSpec => []AccrualInv BY AccrualInitInv, AccrualStepInv, PTL DEF AccrualSpec
<1>4. TimeOffSpec => [](AccrualInv /\ ApprovalInv /\ ApartInv)
  BY <1>1, <1>2, <1>3, AccrualRunsOn, ApartStepInv, PTL DEF TimeOffSpec
<1>6. TimeOffSpec => []FitInv BY <1>1, <1>4, FitStepInv, PTL DEF TimeOffSpec
<1>7. ApprovalInv /\ ApartInv /\ FitInv => LeavesFit
  BY CheckedIsApart DEF ApprovalInv, ApartInv, FitInv, LeavesFit, Held
<1> QED BY <1>4, <1>6, <1>7, PTL
=============================================================================
