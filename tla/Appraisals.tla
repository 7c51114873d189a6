---------------------------- MODULE Appraisals ----------------------------
(***************************************************************************)
(* The appraisals of one employee (hr.appraisal) and their feedback, a row *)
(* for each section and side. Launching writes the rows one transaction    *)
(* after the other; completing writes the employee's next date first and   *)
(* the appraisal's state in a second transaction.                          *)
(***************************************************************************)
EXTENDS Workday

CONSTANTS
  Appraisals,
  Sections,           \* number of sections of the template
  HRUsers,            \* users whose calls may overlap
  Frequencies,        \* employee -> department -> template, 0: not set
  Never               \* a next date that is not set (NULL)

ASSUME AppraisalsAssumption == Never \notin Nat /\ Frequencies \subseteq Nat /\ Sections \in Nat

VARIABLES
  appraisal,  \* [state, close, rows]; rows: feedback rows written so far
  nextDate,   \* the employee's next_appraisal_date
  frequency,  \* appraisal_frequency_months of employee, department, template
  review      \* what each user's call has read and does next

appraisalsVars == <<appraisal, nextDate, frequency, review, workdayVars>>

NoAppraisal == [state |-> "none"]
Steps ==
  [new |-> {"pending_confirmation", "cancelled"}, pending_confirmation |-> {"confirmed", "cancelled"},
   confirmed |-> {"done", "cancelled"}, done |-> {}, cancelled |-> {}]

\* The employee's cadence, else the department's, else the template's, else 12.
ResolveFrequency ==
  IF frequency.employee # 0 THEN frequency.employee
  ELSE IF frequency.department # 0 THEN frequency.department
  ELSE IF frequency.template # 0 THEN frequency.template ELSE 12

AppraisalsInit ==
  /\ appraisal = [a \in Appraisals |-> NoAppraisal]
  /\ nextDate = Never
  /\ frequency \in [employee : Frequencies, department : Frequencies, template : Frequencies]
  /\ review = [u \in HRUsers |-> Idle]
  /\ WorkdayInit

On(u, call) == review' = [review EXCEPT ![u] = call]

Launch(u, a) ==
  /\ MayCall(review, u) /\ appraisal[a] = NoAppraisal
  /\ appraisal' = [appraisal EXCEPT ![a] = [state |-> "new", close |-> Never, rows |-> 0]]
  /\ On(u, IF Sections = 0 THEN Idle ELSE [op |-> "rows", appraisal |-> a])
  /\ UNCHANGED <<nextDate, frequency, workdayVars>>
\* For each section, the employee's row and then the manager's.
LaunchRow(u) ==
  LET c == review[u]
  IN /\ c.op = "rows"
     /\ appraisal' = [appraisal EXCEPT ![c.appraisal].rows = @ + 1]
     /\ On(u, IF appraisal[c.appraisal].rows + 1 = 2 * Sections THEN Idle ELSE c)
     /\ UNCHANGED <<nextDate, frequency, workdayVars>>

SetBeginUnplanned(u, a, target) ==
  /\ MayCall(review, u) /\ appraisal[a] # NoAppraisal
  /\ target \in Steps[appraisal[a].state]
  /\ On(u, [op |-> "set", appraisal |-> a,
            target |-> target, close |-> IF target = "done" THEN today ELSE appraisal[a].close])
  /\ UNCHANGED <<appraisal, nextDate, frequency, workdayVars>>

SetBegin(u, a, target) ==
  /\ MayCall(review, u) /\ appraisal[a] # NoAppraisal
  /\ target \in Steps[appraisal[a].state]
  /\ On(u, [op |-> IF target = "done" THEN "plan" ELSE "set", appraisal |-> a,
            target |-> target, close |-> IF target = "done" THEN today ELSE appraisal[a].close])
  /\ UNCHANGED <<appraisal, nextDate, frequency, workdayVars>>
Plan(u) ==
  /\ review[u].op = "plan"
  /\ nextDate' = review[u].close + ResolveFrequency
  /\ On(u, [review[u] EXCEPT !.op = "set"])
  /\ UNCHANGED <<appraisal, frequency, workdayVars>>
SetWrite(u) ==
  LET c == review[u]
  IN /\ c.op = "set"
     /\ appraisal' = [appraisal EXCEPT ![c.appraisal].state = c.target,
                                       ![c.appraisal].close = IF c.target = "done" THEN c.close ELSE @]
     /\ On(u, Idle)
     /\ UNCHANGED <<nextDate, frequency, workdayVars>>

ReviewFails(u) ==
  /\ review[u] # Idle
  /\ On(u, Idle)
  /\ UNCHANGED <<appraisal, nextDate, frequency, workdayVars>>

\* A cadence is changed on the employee or the department.
SetFrequency(who, f) ==
  /\ frequency' = [frequency EXCEPT ![who] = f]
  /\ UNCHANGED <<appraisal, nextDate, review, workdayVars>>

\* A call ends on the day on which it began.
ReviewDayEnds ==
  /\ \A u \in HRUsers : review[u] = Idle
  /\ NextDay
  /\ UNCHANGED <<appraisal, nextDate, frequency, review>>

AppraisalsNext ==
  \/ \E u \in HRUsers :
       \/ \E a \in Appraisals : \/ Launch(u, a)
                                \/ \E target \in DOMAIN Steps : SetBegin(u, a, target)
       \/ LaunchRow(u) \/ Plan(u) \/ SetWrite(u) \/ ReviewFails(u)
  \/ \E who \in {"employee", "department"}, f \in Frequencies : SetFrequency(who, f)
  \/ ReviewDayEnds

AppraisalsSpec == AppraisalsInit /\ [][AppraisalsNext]_appraisalsVars
-----------------------------------------------------------------------------
\* An appraisal that is done has planned the next one, after the day it was
\* closed, however cadences change, calls of several users overlap and calls
\* end between their two writes (hr_appraisal.py:155).
NextIsPlanned ==
  \A a \in Appraisals : appraisal[a].state = "done" =>
    /\ appraisal[a].close # Never
    /\ nextDate # Never /\ nextDate > appraisal[a].close
=============================================================================
