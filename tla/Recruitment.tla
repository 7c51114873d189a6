---------------------------- MODULE Recruitment ----------------------------
(***************************************************************************)
(* Applicants of one job (hr.applicant) on their way through the stages,   *)
(* the employees made of them, and the referrals that brought them         *)
(* (hr.referral). Submitting a referral and hiring are several             *)
(* transactions, and either call can end between two of them.              *)
(***************************************************************************)
EXTENDS Workday

CONSTANTS
  Applicants, Employees, Referrals, \* ids
  Recruiters,                       \* users whose calls may overlap
  Stages, FirstStage,               \* hr.recruitment.stage, the first by sequence
  Unset                             \* a link that is not set (NULL)

ASSUME RecruitmentAssumption ==
  /\ FirstStage \in Stages
  /\ Unset \notin Applicants \cup Employees \cup Referrals

VARIABLES
  applicant, \* [stage, refused, employee, referral]
  hiredFrom, \* for each employee made by create_employee, the applicant
  referral,  \* [applicant] of each referral row
  recruit,   \* what each recruiter's call has read and does next
  broken     \* has a call ended before its last write?

recruitmentVars == <<applicant, hiredFrom, referral, recruit, broken, workdayVars>>

Unmade == [state |-> "none"]
MadeApplicants == {a \in Applicants : applicant[a] # Unmade}
MadeReferrals == {r \in Referrals : referral[r] # Unmade}
MadeEmployees == {e \in Employees : hiredFrom[e] # Unset}

RecruitmentInit ==
  /\ applicant = [a \in Applicants |-> Unmade]
  /\ hiredFrom = [e \in Employees |-> Unset]
  /\ referral = [r \in Referrals |-> Unmade]
  /\ recruit = [u \in Recruiters |-> Idle]
  /\ broken = FALSE
  /\ WorkdayInit

Then(u, call) == recruit' = [recruit EXCEPT ![u] = call]

Applied(a, r) ==
  /\ a \notin MadeApplicants
  /\ applicant' = [applicant EXCEPT ![a] =
       [stage |-> FirstStage, refused |-> FALSE, employee |-> Unset, referral |-> r]]

\* HrApplicant.create without a stage takes the first one.
Apply(u, a) ==
  /\ MayCall(recruit, u) /\ Applied(a, Unset)
  /\ UNCHANGED <<hiredFrom, referral, recruit, broken, workdayVars>>

\* action_set_stage and action_refuse: one write, whatever the applicant's state.
SetStage(u, a, stage) ==
  /\ MayCall(recruit, u) /\ a \in MadeApplicants
  /\ applicant' = [applicant EXCEPT ![a].stage = stage]
  /\ UNCHANGED <<hiredFrom, referral, recruit, broken, workdayVars>>
RefuseApplicant(u, a) ==
  /\ MayCall(recruit, u) /\ a \in MadeApplicants
  /\ applicant' = [applicant EXCEPT ![a].refused = TRUE]
  /\ UNCHANGED <<hiredFrom, referral, recruit, broken, workdayVars>>

HireBeginAgain(u, a) ==
  /\ MayCall(recruit, u) /\ a \in MadeApplicants
  /\ Then(u, [op |-> "employee", applicant |-> a])
  /\ UNCHANGED <<applicant, hiredFrom, referral, broken, workdayVars>>

\* create_employee: look for the employee, create it, link it.
HireBegin(u, a) ==
  /\ MayCall(recruit, u) /\ a \in MadeApplicants
  /\ applicant[a].employee = Unset
  /\ Then(u, [op |-> "employee", applicant |-> a])
  /\ UNCHANGED <<applicant, hiredFrom, referral, broken, workdayVars>>
HireCreate(u, e) ==
  /\ recruit[u].op = "employee" /\ e \notin MadeEmployees
  /\ hiredFrom' = [hiredFrom EXCEPT ![e] = recruit[u].applicant]
  /\ Then(u, [op |-> "link", applicant |-> recruit[u].applicant, employee |-> e])
  /\ UNCHANGED <<applicant, referral, broken, workdayVars>>
HireLink(u) ==
  /\ recruit[u].op = "link"
  /\ applicant' = [applicant EXCEPT ![recruit[u].applicant].employee = recruit[u].employee]
  /\ Then(u, Idle)
  /\ UNCHANGED <<hiredFrom, referral, broken, workdayVars>>

\* action_submit: the referral, its applicant, and the link back.
SubmitReferral(u, r) ==
  /\ MayCall(recruit, u) /\ r \notin MadeReferrals
  /\ referral' = [referral EXCEPT ![r] = [applicant |-> Unset]]
  /\ Then(u, [op |-> "apply", referral |-> r])
  /\ UNCHANGED <<applicant, hiredFrom, broken, workdayVars>>
SubmitApplicant(u, a) ==
  /\ recruit[u].op = "apply"
  /\ Applied(a, recruit[u].referral)
  /\ Then(u, [op |-> "back", referral |-> recruit[u].referral, applicant |-> a])
  /\ UNCHANGED <<hiredFrom, referral, broken, workdayVars>>
SubmitLink(u) ==
  /\ recruit[u].op = "back"
  /\ referral' = [referral EXCEPT ![recruit[u].referral].applicant = recruit[u].applicant]
  /\ Then(u, Idle)
  /\ UNCHANGED <<applicant, hiredFrom, broken, workdayVars>>

RecruiterFails(u) ==
  /\ recruit[u] # Idle
  /\ Then(u, Idle)
  /\ broken' = TRUE
  /\ UNCHANGED <<applicant, hiredFrom, referral, workdayVars>>

\* What the referrer is shown, and the count of the referrer's hires.
Status(r) ==
  LET a == referral[r].applicant
  IN IF a = Unset THEN "submitted"
     ELSE IF applicant[a].refused THEN "refused"
     ELSE IF applicant[a].employee # Unset THEN "hired" ELSE applicant[a].stage
HiredReferrals ==
  {r \in MadeReferrals : referral[r].applicant # Unset /\ applicant[referral[r].applicant].employee # Unset}

RecruitmentNext ==
  \E u \in Recruiters :
    \/ \E a \in Applicants :
         \/ Apply(u, a) \/ RefuseApplicant(u, a) \/ HireBegin(u, a) \/ SubmitApplicant(u, a)
         \/ \E stage \in Stages : SetStage(u, a, stage)
    \/ \E e \in Employees : HireCreate(u, e)
    \/ \E r \in Referrals : SubmitReferral(u, r)
    \/ HireLink(u) \/ SubmitLink(u) \/ RecruiterFails(u)

RecruitmentSpec == RecruitmentInit /\ [][RecruitmentNext]_recruitmentVars
-----------------------------------------------------------------------------
\* A referral and its applicant name each other, and an applicant's employee
\* was made for that applicant, whatever overlaps and wherever a call ends.
\* When calls neither overlap nor end early, hiring twice makes one employee
\* (hr_applicant.py:163) and a referral's status and its count among the hires
\* agree unless a hired applicant is refused (hr_referral.py:155, :190) or a
\* stage has the name that stands for hired, which nothing forbids.
RecruitsLinked ==
  LET whole == exclusive /\ ~broken /\ \A u \in Recruiters : recruit[u] = Idle
  IN /\ \A r \in MadeReferrals : LET a == referral[r].applicant
                                 IN a # Unset => a \in MadeApplicants /\ applicant[a].referral = r
     /\ \A a \in MadeApplicants : LET e == applicant[a].employee
                                  IN e # Unset => hiredFrom[e] = a
     /\ whole =>
          /\ \A d, e \in MadeEmployees : d # e => hiredFrom[d] # hiredFrom[e]
          /\ \A e \in MadeEmployees : applicant[hiredFrom[e]].employee = e
          /\ \A a \in MadeApplicants : LET r == applicant[a].referral
                                       IN r # Unset => referral[r].applicant = a
          /\ "hired" \notin Stages => \A r \in MadeReferrals :
               Status(r) = "hired" <=> r \in HiredReferrals /\ ~applicant[referral[r].applicant].refused
=============================================================================
