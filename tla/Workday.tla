------------------------------ MODULE Workday ------------------------------
(***************************************************************************)
(* What modules share: the date, and whether calls of several users about  *)
(* the same records overlap. A call of these modules reads in one          *)
(* transaction and writes in another; the code neither locks what it read  *)
(* nor checks it again, so some properties hold only when calls do not     *)
(* overlap: exclusive says so, and is chosen once, at the start.           *)
(***************************************************************************)
EXTENDS Integers, FiniteSetsExt

CONSTANT LastDay \* bound on the date
ASSUME LastDayAssumption == LastDay \in Nat

VARIABLES today, exclusive
workdayVars == <<today, exclusive>>

WorkdayInit == today = 0 /\ exclusive \in BOOLEAN

NextDay == today < LastDay /\ today' = today + 1 /\ UNCHANGED exclusive

\* A caller that does nothing; what a call has read and does next otherwise.
Idle == [op |-> "idle"]
MayCall(calls, u) ==
  /\ calls[u] = Idle
  /\ exclusive => \A v \in DOMAIN calls : calls[v] = Idle
=============================================================================
