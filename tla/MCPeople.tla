------------------------------ MODULE MCPeople ------------------------------
\* The HR and fleet modules side by side. They share only the date and whether
\* calls overlap, so a behaviour takes the steps of one of them.
EXTENDS TLC, TimeOff, Contracts, Recruitment, Appraisals, Directory, Fleet
CONSTANTS Mia, Otto, Olga, Rita
VARIABLE part

\* One type asks for two approvals and entitlement, one for neither; the second
\* of three days is a holiday of every company, the third one of another company.
MCTypes == [annual |-> [unit |-> "day", required |-> TRUE, negative |-> FALSE, mode |-> "both"],
            sick |-> [unit |-> "hour", required |-> FALSE, negative |-> FALSE, mode |-> "no_validation"]]
MCGranted == [annual |-> 1, sick |-> 0]
MCCalendar == {[weekday |-> w, from |-> 8, to |-> 12] : w \in 1 .. 5}
MCHolidays == {[company |-> Everywhere, from |-> 2, to |-> 2], [company |-> "other", from |-> 3, to |-> 3]}
MCTypeOf == [cooking |-> "craft", piano |-> "art", apprentice |-> "craft", pianist |-> "art"]

Symmetry == Permutations(Departments) \cup Permutations(Appraisals)

timeOff == <<leave, leaveCall>>
accruals == <<accrued, accrual>>
contracts == <<contract, contractCall>>
recruiting == <<applicant, hiredFrom, referral, recruit, broken>>
appraisals == <<appraisal, nextDate, frequency, review>>
directory == <<made, above, login, skills, edit>>
fleet == <<vehicle, active, drove, readings, service, dispatch>>
vars == <<part, timeOff, accruals, contracts, recruiting, appraisals, directory, fleet, workdayVars>>

\* Parts whose property is only about calls that do not overlap are run so.
Init ==
  /\ part \in {"leave", "accrual", "contract", "recruit", "review", "directory", "fleet"}
  /\ TimeOffInit /\ ContractsInit /\ RecruitmentInit /\ DirectoryInit /\ FleetInit /\ AppraisalsInit
  /\ part \in {"contract", "fleet"} => exclusive
  /\ part = "review" => ~exclusive
  /\ part # "accrual" => accrued.cap = 2
  /\ frequency = [who \in DOMAIN frequency |-> 0]

\* Approvals overlap about one request; entitlement accrues when calls do not, and
\* requests are for parts of the first day, to the end of the second, to the third.
LeaveSteps ==
  LET first(S) == CHOOSE x \in S : TRUE
      AsksWithin(M) == "from" \in DOMAIN Asked' => {Asked'.from, Asked'.to} \subseteq M
  IN /\ part = "leave" /\ TimeOffNext /\ today' <= 1
     /\ IF exclusive THEN leaveCall'[Olga] = Idle /\ accrual'[first(AccrualRuns)] = Idle /\ AsksWithin({1, 2, 4, 5})
        ELSE UNCHANGED <<accruals, today>> /\ leave'[first(Leaves)] = Absent /\ AsksWithin({1})
     /\ UNCHANGED <<part, contracts, recruiting, appraisals, directory, fleet>>
AccrualSteps ==
  /\ part = "accrual" /\ AccrualNext
  /\ UNCHANGED <<part, timeOff, contracts, recruiting, appraisals, directory, fleet>>
ContractSteps ==
  /\ part = "contract" /\ ContractsNext /\ today' <= 2
  /\ UNCHANGED <<part, timeOff, accruals, recruiting, appraisals, directory, fleet>>
RecruitSteps ==
  /\ part = "recruit" /\ RecruitmentNext
  /\ UNCHANGED <<part, timeOff, accruals, contracts, appraisals, directory, fleet>>
ReviewSteps ==
  /\ part = "review" /\ AppraisalsNext /\ today' <= 1
  /\ frequency'.department = 0
  /\ UNCHANGED <<part, timeOff, accruals, contracts, recruiting, directory, fleet>>
\* Trees grow when calls do not overlap, users are linked when they do, and
\* skills, two rows at most, are of employees without either, in both cases.
DirectorySteps ==
  /\ part = "directory" /\ DirectoryNext
  /\ IF exclusive THEN UNCHANGED login ELSE UNCHANGED above
  /\ Len(skills') <= 2
  /\ skills' # <<>> => /\ made' \subseteq Staff /\ UNCHANGED <<above, login>>
                       /\ \A n \in Staff : above[n] = None /\ login[n] = None
                       /\ \A u \in Editors : edit'[u].op \in {"idle", "skill", "change"}
  /\ UNCHANGED <<part, timeOff, accruals, contracts, recruiting, appraisals, fleet>>
\* Readings and service contracts have nothing to do with one another.
FleetSteps ==
  /\ part = "fleet" /\ FleetNext /\ today' <= 1
  /\ \A s \in Services : service'[s] # NotSigned => readings' = <<>> /\ service'[s].end <= 2
  /\ UNCHANGED <<part, timeOff, accruals, contracts, recruiting, appraisals, directory>>

Next == LeaveSteps \/ AccrualSteps \/ ContractSteps \/ RecruitSteps \/ ReviewSteps \/ DirectorySteps \/ FleetSteps

Spec == Init /\ [][Next]_vars
=============================================================================
