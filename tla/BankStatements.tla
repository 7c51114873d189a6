--------------------------- MODULE BankStatements ---------------------------
(***************************************************************************)
(* The statements of one bank journal and the matching of their lines with *)
(* posted move lines (account.bank.statement). Each call reads and checks  *)
(* in one transaction and writes in another.                               *)
(***************************************************************************)
EXTENDS Workday, Sums, Sequences, SequencesExt

CONSTANTS
  Tellers,                   \* users whose calls match and confirm
  MoveLines, LineResidual,   \* posted move lines, and the residual of each
  StatementBalances,         \* balances that statements report
  RowsFit,                   \* is a row only matched with lines that make it up? (not checked)
  MaxStatements, MaxRows     \* bounds

VARIABLES
  statements,  \* account_bank_statement rows, in the order they were entered
  rows,        \* account_bank_statement_line rows [of, amount, link], of being 0 once deleted
  telling,     \* what each user's call has read and does next
  reported     \* history: total of the lines entered for each statement

bankVars == <<statements, rows, telling, reported>>

NoLink == "none"
ASSUME BankAssumption ==
  /\ IsFiniteSet(MoveLines) /\ LineResidual \in [MoveLines -> Int] /\ NoLink \notin MoveLines
  /\ StatementBalances \subseteq Int /\ RowsFit \in BOOLEAN /\ {MaxStatements, MaxRows} \subseteq Nat

BankInit ==
  /\ statements = <<>> /\ rows = <<>> /\ reported = <<>>
  /\ telling = [u \in Tellers |-> Idle]

Tells(u, c) == telling' = [telling EXCEPT ![u] = c]
NobodyTells == exclusive => \A u \in Tellers : telling[u] = Idle
RowsOf(s) == {r \in DOMAIN rows : rows[r].of = s}
RowTotal(s) == SumOf([r \in DOMAIN rows |-> rows[r].amount], RowsOf(s))
-----------------------------------------------------------------------------
EnterStatement(start, end) ==
  /\ NobodyTells /\ Len(statements) < MaxStatements
  /\ statements' = Append(statements, [date |-> today, start |-> start, end |-> end, state |-> "open"])
  /\ reported' = Append(reported, 0)
  /\ UNCHANGED <<rows, telling>>
EnterRow(s, amount) ==
  /\ NobodyTells /\ Len(rows) < MaxRows
  /\ rows' = Append(rows, [of |-> s, amount |-> amount, link |-> NoLink])
  /\ reported' = [reported EXCEPT ![s] = @ + amount]
  /\ UNCHANGED <<statements, telling>>

\* get_status
Complete(s) == statements[s].start + RowTotal(s) = statements[s].end

\* action_confirm: the statement of the latest date before this one must end where
\* this one starts.
Priors(s) ==
  LET before == {p \in DOMAIN statements : statements[p].date < statements[s].date}
  IN {p \in before : \A q \in before : statements[q].date <= statements[p].date}
ConfirmBegin(u, s) ==
  /\ MayCall(telling, u)
  /\ statements[s].state # "confirmed"
  /\ Priors(s) # {} => \E p \in Priors(s) : statements[p].end = statements[s].start
  /\ Tells(u, [op |-> "confirm", at |-> s])
  /\ UNCHANGED <<statements, rows, reported>>
ConfirmWrite(u) ==
  /\ telling[u].op = "confirm"
  /\ statements' = [statements EXCEPT ![telling[u].at].state = "confirmed"]
  /\ Tells(u, Idle)
  /\ UNCHANGED <<rows, reported>>

\* reconcile_against: one move line is linked, whatever its amount; of several each
\* gets a row of its own, and the row they stand for is deleted.
LinkBegin(u, r, with) ==
  /\ MayCall(telling, u) /\ rows[r].of # 0
  /\ RowsFit => SumOf(LineResidual, with) = rows[r].amount
  /\ Tells(u, [op |-> IF Cardinality(with) = 1 THEN "link" ELSE "split", row |-> r, of |-> rows[r].of, with |-> with])
  /\ UNCHANGED <<statements, rows, reported>>
LinkWrite(u) ==
  LET c == telling[u]
  IN /\ c.op = "link"
     /\ \E l \in c.with : rows' = IF rows[c.row].of = 0 THEN rows ELSE [rows EXCEPT ![c.row].link = l]
     /\ Tells(u, Idle)
     /\ UNCHANGED <<statements, reported>>
Parts(of, with) ==
  LET order == SetToSeq(with)
  IN [i \in DOMAIN order |-> [of |-> of, amount |-> LineResidual[order[i]], link |-> order[i]]]
SplitWriteKeeps(u) ==
  LET c == telling[u]
  IN /\ c.op = "split" /\ Len(rows) + Cardinality(c.with) <= MaxRows
     /\ rows' = rows \o Parts(c.of, c.with)
     /\ Tells(u, Idle)
     /\ UNCHANGED <<statements, reported>>
SplitWrite(u) ==
  LET c == telling[u]
  IN /\ c.op = "split" /\ Len(rows) + Cardinality(c.with) <= MaxRows
     /\ rows' = [rows EXCEPT ![c.row].of = 0] \o Parts(c.of, c.with)
     /\ Tells(u, Idle)
     /\ UNCHANGED <<statements, reported>>
TellingStops(u) ==
  /\ telling[u] # Idle
  /\ Tells(u, Idle)
  /\ UNCHANGED <<statements, rows, reported>>

BankNext ==
  \/ /\ \/ \E start, end \in StatementBalances : EnterStatement(start, end)
        \/ \E s \in DOMAIN statements, l \in SUBSET MoveLines :
             l # {} /\ EnterRow(s, SumOf(LineResidual, l))
        \/ \E u \in Tellers :
             \/ \E s \in DOMAIN statements : ConfirmBegin(u, s)
             \/ \E r \in DOMAIN rows, with \in SUBSET MoveLines \ {{}} : LinkBegin(u, r, with)
             \/ ConfirmWrite(u) \/ LinkWrite(u) \/ SplitWrite(u) \/ TellingStops(u)
     /\ UNCHANGED workdayVars
  \/ NextDay /\ UNCHANGED bankVars
BankSpec == BankInit /\ WorkdayInit /\ [][BankNext]_<<bankVars, workdayVars>>
-----------------------------------------------------------------------------
\* As long as calls do not overlap and each row is matched with move lines that add
\* up to it: splitting rows never changes what a statement's rows add up to; and
\* statements that are the only ones of their days, confirmed one after the other and
\* all complete, run on without a break from the first balance to the last.
Lone(s) == \A q \in DOMAIN statements : q # s => statements[q].date # statements[s].date
BankAgrees ==
  exclusive =>
    /\ \A s \in DOMAIN statements : RowTotal(s) = reported[s]
    /\ \A s, t \in DOMAIN statements :
         s < t /\ (\A q \in s .. t : Lone(q) /\ statements[q].state = "confirmed" /\ Complete(q)) =>
           statements[t].end = statements[s].start + SumOf(reported, s .. t)
=============================================================================
