------------------------------ MODULE Accrual ------------------------------
(***************************************************************************)
(* An accrual allocation of time off (hr.leave.allocation) and the         *)
(* scheduled run that adds to it. A run reads the allocation and writes a  *)
(* new total and date, absolute values, in one transaction; two runs may   *)
(* both read before either commits, on different days.                     *)
(***************************************************************************)
EXTENDS Workday

CONSTANTS
  AccrualRate, AccrualPeriod, \* units per period, days of a period
  AccrualCaps,                \* values of accrual_max; 0: none
  AccrualRuns                 \* scheduled calls of run_leave_accrual

ASSUME AccrualAssumption ==
  /\ AccrualRate \in Nat \ {0} /\ AccrualPeriod \in Nat \ {0}
  /\ AccrualCaps \subseteq Nat

VARIABLES
  accrued, \* number_of_units, last_accrual_date and accrual_max
  accrual  \* what each run has read

accrualVars == <<accrued, accrual, workdayVars>>

\* create dates the allocation, and write keeps rate and period set.
AccrualInit ==
  /\ accrued \in [units : {0}, last : {0}, cap : AccrualCaps]
  /\ accrual = [r \in AccrualRuns |-> Idle]
  /\ WorkdayInit

AccrualRead(r) ==
  /\ MayCall(accrual, r)
  /\ accrual' = [accrual EXCEPT ![r] = [op |-> "add", day |-> today, seen |-> accrued]]
  /\ UNCHANGED <<accrued, workdayVars>>

Periods(c) == (c.day - c.seen.last) \div AccrualPeriod
Capped(units, cap) == IF cap = 0 \/ units <= cap THEN units ELSE cap
Total(c) == Capped(c.seen.units + Periods(c) * AccrualRate, c.seen.cap)

\* Without units to add only the date is written.
AccruedBy(c, base) ==
  IF Periods(c) <= 0 THEN accrued
  ELSE [accrued EXCEPT !.units = IF Total(c) > c.seen.units THEN base + Total(c) - c.seen.units ELSE @,
                       !.last = c.seen.last + Periods(c) * AccrualPeriod]

AccrualCommitAdding(r) ==
  /\ accrual[r].op = "add"
  /\ accrued' = AccruedBy(accrual[r], accrued.units)
  /\ accrual' = [accrual EXCEPT ![r] = Idle]
  /\ UNCHANGED workdayVars
AccrualCommit(r) ==
  /\ accrual[r].op = "add"
  /\ accrued' = AccruedBy(accrual[r], accrual[r].seen.units)
  /\ accrual' = [accrual EXCEPT ![r] = Idle]
  /\ UNCHANGED workdayVars

AccrualFails(r) ==
  /\ accrual[r] # Idle
  /\ accrual' = [accrual EXCEPT ![r] = Idle]
  /\ UNCHANGED <<accrued, workdayVars>>

AccrualNext ==
  \/ \E r \in AccrualRuns : AccrualRead(r) \/ AccrualCommit(r) \/ AccrualFails(r)
  \/ NextDay /\ UNCHANGED <<accrued, accrual>>

AccrualSpec == AccrualInit /\ [][AccrualNext]_accrualVars
-----------------------------------------------------------------------------
\* The units are those of the periods up to last_accrual_date, up to the cap
\* (hr_leave_allocation.py:72 run_leave_accrual: "Idempotently add"), never
\* more however often and concurrently it runs, and exactly those when runs do
\* not overlap or nothing caps them. Under a cap, overlapping runs may leave
\* fewer until the next period: of two runs, one that has read the cap as
\* reached writes the date only, after the other has written fewer units back.
AccrualExact ==
  LET due == Capped((accrued.last \div AccrualPeriod) * AccrualRate, accrued.cap)
  IN /\ accrued.last % AccrualPeriod = 0
     /\ accrued.units <= due
     /\ exclusive \/ accrued.cap = 0 => accrued.units = due
=============================================================================
