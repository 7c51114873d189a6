------------------------------ MODULE TimeOff ------------------------------
(***************************************************************************)
(* Time off of one employee (hr.leave, hr.leave.allocation): requests that *)
(* are checked against the calendar, the other requests and the balance,   *)
(* their approval by one or two people, against entitlement that accrues.  *)
(* Every read and every write of the code is a transaction of its own, so  *)
(* a call is several steps and other calls fall between them; a call can   *)
(* also end at any step with its request.                                  *)
(***************************************************************************)
EXTENDS Accrual, Sums

CONSTANTS
  Leaves,         \* ids of requests
  Users,          \* users that ask, approve and refuse
  Requester,      \* the employee's own user
  Manager,        \* the user of the employee's manager
  Officers,       \* members of HR Officer and HR Administrator
  LeaveTypes,     \* type -> [unit, required, negative, mode]
  LeaveDays,      \* number of days requests lie in, day 1 a Monday
  DayParts,       \* number of moments of a day at which requests start and end
  Calendar,       \* attendances [weekday, from, to]; none: no calendar
  PublicHolidays, \* [company, from, to]
  Company,        \* the employee's company
  Everywhere,     \* the company of a holiday without company (NULL)
  Nobody,         \* an approver that is not set
  Granted,        \* type -> units of regular, confirmed allocations
  AccruedType     \* the type of the accrual allocation

VARIABLES
  leave,      \* the hr_leave table
  leaveCall   \* what each user's call has read and does next

timeOffVars == <<leave, leaveCall, accrualVars>>

ASSUME TimeOffAssumption ==
  /\ Requester \in Users /\ Manager \in Users /\ Officers \subseteq Users
  /\ Nobody \notin Users
  /\ LeaveDays \in Nat /\ DayParts \in Nat \ {0} /\ IsFiniteSet(Leaves)
  /\ IsFiniteSet(Calendar) /\ \A s \in Calendar : s.from \in Int /\ s.to \in Int
  /\ AccruedType \in DOMAIN LeaveTypes /\ Granted \in [DOMAIN LeaveTypes -> Nat]
-----------------------------------------------------------------------------
\* Requests are from a moment to a moment; what they take is counted by days.
Moments == 1 .. LeaveDays * DayParts
DayOf(t) == ((t - 1) \div DayParts) + 1
Weekday(d) == ((d - 1) % 7) + 1

\* Without a calendar a company works eight hours from Monday to Friday.
Shifts(d) ==
  IF Calendar = {} THEN {s \in {[weekday |-> Weekday(d), from |-> 8, to |-> 16]} : s.weekday < 6}
  ELSE {s \in Calendar : s.weekday = Weekday(d)}

Holiday(d) == \E h \in PublicHolidays : h.company \in {Company, Everywhere} /\ d \in h.from .. h.to

Duration(from, to, unit) ==
  LET worked == {d \in from .. to : Shifts(d) # {} /\ ~Holiday(d)}
      Hours(d) == SumOf([s \in Shifts(d) |-> s.to - s.from], Shifts(d))
  IN IF unit = "day" THEN Cardinality(worked) ELSE SumOf([d \in worked |-> Hours(d)], worked)

\* Manager and officers approve, never the requester.
Approvers == (Officers \cup {Manager}) \ {Requester}

Absent == [state |-> "none"]
Units(type, states) ==
  SumOf([l \in Leaves |-> leave[l].units],
        {l \in Leaves : leave[l].state \in states /\ leave[l].type = type})
Allocated(type) == Granted[type] + IF type = AccruedType THEN accrued.units ELSE 0
Checked(type) == LeaveTypes[type].required /\ ~LeaveTypes[type].negative
Overlaps(l, from, to) ==
  leave[l].state \notin {"none", "refused"} /\ leave[l].from <= to /\ from <= leave[l].to

\* A call of a user; the scheduled accrual is one more call to keep apart.
May(u) == MayCall(leaveCall, u) /\ (exclusive => \A r \in AccrualRuns : accrual[r] = Idle)
Go(u, c) == leaveCall' = [leaveCall EXCEPT ![u] = c]

TimeOffInit ==
  /\ leave = [l \in Leaves |-> Absent]
  /\ leaveCall = [u \in Users |-> Idle]
  /\ AccrualInit
-----------------------------------------------------------------------------
(* create: duration, overlap, then the three sums of get_balance, which are *)
(* three statements that each see what is committed when they run. A range  *)
(* that ends before it starts fails, at the latest in tsrange.              *)
RequestBegin(from, to, type) ==
  LET units == Duration(DayOf(from), DayOf(to), LeaveTypes[type].unit)
  IN /\ May(Requester)
     /\ units > 0 /\ from <= to
     /\ \A l \in Leaves : ~Overlaps(l, from, to)
     /\ Go(Requester, [op |-> IF Checked(type) THEN "allocated" ELSE "insert",
                       from |-> from, to |-> to, type |-> type, units |-> units, left |-> 0])
     /\ UNCHANGED <<leave, accrualVars>>

\* One of the sums: the next step of the request, with what is left so far.
Asked == leaveCall[Requester]
Summed(op, next, left) ==
  /\ Asked.op = op
  /\ Go(Requester, [Asked EXCEPT !.op = next, !.left = left])
  /\ UNCHANGED <<leave, accrualVars>>
SumAllocated == Summed("allocated", "taken", Allocated(Asked.type))
SumTakenOnly == Summed("taken", "insert", Asked.left - Units(Asked.type, {"approved"}))
SumTaken == Summed("taken", "pending", Asked.left - Units(Asked.type, {"approved"}))
SumPending ==
  Summed("pending", "insert", Asked.left - Units(Asked.type, {"to_approve", "second_approval"}))

RequestInsert(l) ==
  LET c == leaveCall[Requester]
      mode == LeaveTypes[c.type].mode
  IN /\ c.op = "insert" /\ leave[l] = Absent
     /\ Checked(c.type) => c.left >= c.units
     /\ leave' = [leave EXCEPT ![l] =
          [state |-> IF mode = "no_validation" THEN "approved" ELSE "to_approve",
           from |-> c.from, to |-> c.to, type |-> c.type, units |-> c.units,
           first |-> Nobody, second |-> Nobody]]
     /\ Go(Requester, Idle)
     /\ UNCHANGED accrualVars
-----------------------------------------------------------------------------
(* action_approve and action_refuse read the request, check, and write.     *)
ApproveBegin(u, l) ==
  LET seen == leave[l].state
  IN /\ May(u)
     /\ seen \in {"to_approve", "second_approval"}
     /\ u \in Approvers
     /\ Go(u, [op |-> IF seen = "second_approval" THEN "compare" ELSE "approve",
               leave |-> l, seen |-> seen])
     /\ UNCHANGED <<leave, accrualVars>>

ApproveCompareNot(u) ==
  /\ leaveCall[u].op = "compare"
  /\ Go(u, [leaveCall[u] EXCEPT !.op = "approve"])
  /\ UNCHANGED <<leave, accrualVars>>

\* The second approver must not be the first, who is read again.
ApproveCompare(u) ==
  LET c == leaveCall[u]
  IN /\ c.op = "compare"
     /\ Go(u, IF leave[c.leave].first = u THEN Idle ELSE [c EXCEPT !.op = "approve"])
     /\ UNCHANGED <<leave, accrualVars>>
ApproveWrite(u) ==
  LET c == leaveCall[u]
      type == LeaveTypes[leave[c.leave].type]
  IN /\ c.op = "approve"
     /\ leave' = [leave EXCEPT ![c.leave] =
          IF c.seen = "second_approval" THEN [@ EXCEPT !.state = "approved", !.second = u]
          ELSE [@ EXCEPT !.state = IF type.mode = "both" THEN "second_approval" ELSE "approved",
                         !.first = u]]
     /\ Go(u, Idle)
     /\ UNCHANGED accrualVars

RefuseBegin(u, l) ==
  /\ May(u)
  /\ leave[l].state \notin {"none", "refused"}
  /\ u \in Approvers
  /\ Go(u, [op |-> "refuse", leave |-> l])
  /\ UNCHANGED <<leave, accrualVars>>

RefuseWrite(u) ==
  /\ leaveCall[u].op = "refuse"
  /\ leave' = [leave EXCEPT ![leaveCall[u].leave].state = "refused"]
  /\ Go(u, Idle)
  /\ UNCHANGED accrualVars

\* Any error ends a call: what it has committed stays.
LeaveCallEnds(u) ==
  /\ leaveCall[u] # Idle
  /\ Go(u, Idle)
  /\ UNCHANGED <<leave, accrualVars>>
-----------------------------------------------------------------------------
TimeOffNext ==
  \/ \E from, to \in Moments, type \in DOMAIN LeaveTypes : RequestBegin(from, to, type)
  \/ SumAllocated \/ SumTaken \/ SumPending
  \/ \E l \in Leaves : RequestInsert(l)
  \/ \E u \in Users : \/ \E l \in Leaves : ApproveBegin(u, l) \/ RefuseBegin(u, l)
                      \/ ApproveCompare(u) \/ ApproveWrite(u) \/ RefuseWrite(u)
                      \/ LeaveCallEnds(u)
  \/ /\ exclusive => \A u \in Users : leaveCall[u] = Idle
     /\ AccrualNext
     /\ UNCHANGED <<leave, leaveCall>>

TimeOffSpec == TimeOffInit /\ [][TimeOffNext]_timeOffVars
-----------------------------------------------------------------------------
LeaveRecords ==
  {Absent} \cup [state : {"to_approve", "second_approval", "approved", "refused"},
                 from : Moments, to : Moments, type : DOMAIN LeaveTypes,
                 units : Nat, first : Users \cup {Nobody}, second : Users \cup {Nobody}]
TimeOffTypeOK ==
  /\ \A l \in Leaves : leave[l] = Absent \/ leave[l] \in LeaveRecords
  /\ accrued \in [units : Nat, last : 0 .. today, cap : AccrualCaps]
  /\ DOMAIN leaveCall = Users /\ DOMAIN accrual = AccrualRuns
  /\ today \in 0 .. LastDay /\ exclusive \in BOOLEAN

Counted == {l \in Leaves : leave[l].state \notin {"none", "refused"}}
LeavesApart ==
  \A l, k \in Counted : l # k => (leave[l].from .. leave[l].to) \cap (leave[k].from .. leave[k].to) = {}

\* When the calls about an employee do not overlap, the requests that are not
\* refused are never for the same moment, though two may be for parts of one day,
\* each of which takes all of it, and never use more than is allocated
\* (hr_leave.py:207 _assert_no_overlap, hr_leave.py:120 get_balance), whatever
\* is approved, refused, asked for again and accrued in between.
LeavesFit ==
  exclusive =>
    /\ LeavesApart
    /\ \A type \in DOMAIN LeaveTypes : Checked(type) =>
          Units(type, {"to_approve", "second_approval", "approved"}) <= Allocated(type)

\* A request has been approved by as many different people as its type asks
\* for, none of them the requester (hr_leave.py:235 action_approve), also when
\* approvals and refusals of several people overlap, each person having one
\* call under way.
ApprovedByOthers ==
  \A l \in Leaves :
    LET r == leave[l]
    IN /\ r.state = "second_approval" => r.first \in Approvers
       /\ r.state = "approved" =>
            CASE LeaveTypes[r.type].mode = "no_validation" -> TRUE
              [] LeaveTypes[r.type].mode = "both" -> r.first \in Approvers /\ r.second \in Approvers \ {r.first}
              [] OTHER -> r.first \in Approvers
=============================================================================
