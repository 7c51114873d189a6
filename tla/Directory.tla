----------------------------- MODULE Directory -----------------------------
(***************************************************************************)
(* The directory of a company: the tree of departments (hr.department),    *)
(* employees with their managers and users (hr.employee), and their skills *)
(* (hr.employee.skill). A call checks what it sets in transactions of its  *)
(* own, row after row, and writes in another; the database adds two unique *)
(* indexes, on (user, company) and on (employee, skill).                   *)
(***************************************************************************)
EXTENDS Workday, Sequences

CONSTANTS
  Departments, Staff, \* ids; a record exists once it is made
  Accounts,           \* users to link employees with
  Skills, Levels, TypeOf, \* skill or level -> its skill type
  Editors,            \* users whose calls may overlap
  None                \* a link that is not set (NULL)

ASSUME DirectoryAssumption ==
  /\ None \notin Departments \cup Staff \cup Accounts \cup Skills \cup Levels /\ IsFiniteSet(Departments \cup Staff)
  /\ DOMAIN TypeOf = Skills \cup Levels

VARIABLES
  made,   \* departments and employees that exist
  above,  \* parent_id of departments, manager_id of employees
  login,  \* user_id of employees
  skills, \* rows of hr_employee_skill in the order of their ids: [employee, skill, level, type]
  edit    \* what each editor's call has read and does next

directoryVars == <<made, above, login, skills, edit, workdayVars>>

Nodes == Departments \cup Staff
Alike(n, m) == n \in Departments <=> m \in Departments

\* The chain from a node upward, None above the top: one that is longer than there
\* are nodes has met a node twice.
Height == Cardinality(Nodes)
Chain(n) ==
  LET step[k \in 0 .. Height] ==
        IF k = 0 THEN n ELSE IF step[k - 1] = None THEN None ELSE above[step[k - 1]]
  IN step
Up(n) == LET step == Chain(n) IN {step[k] : k \in 0 .. Height} \ {None}
Loops(n) == Chain(n)[Height] # None

MayHangDirect(n, p) == p # None => n # p /\ above[p] # n

\* _assert_no_cycle and _assert_manager_no_cycle.
MayHang(n, p) == p # None => n \notin Up(p) /\ ~Loops(p)
\* _assert_user_unique, and the index behind it.
UserFree(n, account) == account # None => \A m \in (made \cap Staff) \ {n} : login[m] # account
IndexUserFree(n, account) == UserFree(n, account)

DirectoryInit ==
  /\ made = {}
  /\ above = [n \in Nodes |-> None]
  /\ login = [n \in Staff |-> None]
  /\ skills = <<>>
  /\ edit = [u \in Editors |-> Idle]
  /\ WorkdayInit

Turn(u, call) == edit' = [edit EXCEPT ![u] = call]

Above(n) == {p \in made : Alike(n, p)} \cup {None}

\* create: the checks, then the insert, which the index may refuse.
NewBegin(u, n, p, account) ==
  /\ MayCall(edit, u) /\ n \notin made
  /\ p \in Above(n) /\ ~(p # None /\ Loops(p))
  /\ n \in Departments => account = None
  /\ UserFree(n, account)
  /\ Turn(u, [op |-> "new", node |-> n, above |-> p, login |-> account])
  /\ UNCHANGED <<made, above, login, skills, workdayVars>>
NewInsert(u) ==
  LET c == edit[u]
  IN /\ c.op = "new" /\ c.node \notin made
     /\ IndexUserFree(c.node, c.login)
     /\ made' = made \cup {c.node}
     /\ above' = [above EXCEPT ![c.node] = c.above]
     /\ login' = IF c.node \in Staff THEN [login EXCEPT ![c.node] = c.login] ELSE login
     /\ Turn(u, Idle)
     /\ UNCHANGED <<skills, workdayVars>>

\* write of one or several rows: each is checked, one statement sets them all.
MoveBegin(u, rows, p) ==
  /\ MayCall(edit, u) /\ rows # {} /\ rows \subseteq made
  /\ \A n \in rows : p \in Above(n) /\ MayHang(n, p)
  /\ Turn(u, [op |-> "move", rows |-> rows, above |-> p])
  /\ UNCHANGED <<made, above, login, skills, workdayVars>>
MoveWrite(u) ==
  LET c == edit[u]
  IN /\ c.op = "move"
     /\ above' = [n \in Nodes |-> IF n \in c.rows THEN c.above ELSE above[n]]
     /\ Turn(u, Idle)
     /\ UNCHANGED <<made, login, skills, workdayVars>>
LinkBegin(u, n, account) ==
  /\ MayCall(edit, u) /\ n \in made \cap Staff
  /\ UserFree(n, account)
  /\ Turn(u, [op |-> "link", node |-> n, login |-> account])
  /\ UNCHANGED <<made, above, login, skills, workdayVars>>
LinkWrite(u) ==
  LET c == edit[u]
  IN /\ c.op = "link" /\ IndexUserFree(c.node, c.login)
     /\ login' = [login EXCEPT ![c.node] = c.login]
     /\ Turn(u, Idle)
     /\ UNCHANGED <<made, above, skills, workdayVars>>

\* hr.employee.skill: rows that passed the check of levels and of duplicates.
LevelFits(h) == TypeOf[h.skill] = TypeOf[h.level]
SameSkill(h, o) == h.employee = o.employee /\ h.skill = o.skill
\* The unique index.
HeldOnce(table) == \A i, j \in DOMAIN table : i # j => ~SameSkill(table[i], table[j])

SkillBegin(u, n, s, l) ==
  LET h == [employee |-> n, skill |-> s, level |-> l, type |-> TypeOf[s]]
  IN /\ MayCall(edit, u) /\ n \in made \cap Staff
     /\ LevelFits(h) /\ \A i \in DOMAIN skills : ~SameSkill(skills[i], h)
     /\ Turn(u, [op |-> "skill", held |-> h])
     /\ UNCHANGED <<made, above, login, skills, workdayVars>>
SkillInsert(u) ==
  LET table == Append(skills, edit[u].held)
  IN /\ edit[u].op = "skill" /\ HeldOnce(table)
     /\ skills' = table
     /\ Turn(u, Idle)
     /\ UNCHANGED <<made, above, login, workdayVars>>

\* A row with the fields that a write gives, None for one that it does not.
Merged(h, given) ==
  LET Or(value, old) == IF value = None THEN old ELSE value
  IN [employee |-> Or(given.employee, h.employee), skill |-> Or(given.skill, h.skill),
      level |-> Or(given.level, h.level),
      type |-> IF given.skill = None THEN h.type ELSE TypeOf[given.skill]]
\* write of one or several rows: each is read and checked with what is given, and
\* one statement sets the fields that are given on what the rows are by then.
SkillChangeBegin(u, rows, given) ==
  /\ MayCall(edit, u) /\ rows # {} /\ rows \subseteq DOMAIN skills
  /\ given.employee \in made \cup {None}
  /\ \A i \in rows : LET h == Merged(skills[i], given)
                     IN LevelFits(h) /\ \A j \in DOMAIN skills \ {i} : ~SameSkill(skills[j], h)
  /\ Turn(u, [op |-> "change", rows |-> rows, given |-> given])
  /\ UNCHANGED <<made, above, login, skills, workdayVars>>
SkillChangeWrite(u) ==
  LET c == edit[u]
      table == [i \in DOMAIN skills |-> IF i \in c.rows THEN Merged(skills[i], c.given) ELSE skills[i]]
  IN /\ c.op = "change" /\ HeldOnce(table)
     /\ skills' = table
     /\ Turn(u, Idle)
     /\ UNCHANGED <<made, above, login, workdayVars>>

EditFails(u) ==
  /\ edit[u] # Idle
  /\ Turn(u, Idle)
  /\ UNCHANGED <<made, above, login, skills, workdayVars>>

\* At least one of the fields is given.
Givens ==
  [employee : Staff \cup {None}, skill : Skills \cup {None}, level : Levels \cup {None}]
    \ {[employee |-> None, skill |-> None, level |-> None]}

DirectoryNext ==
  \E u \in Editors :
    \/ \E n \in Nodes, p \in Nodes \cup {None}, account \in Accounts \cup {None} : NewBegin(u, n, p, account)
    \/ \E rows \in SUBSET Departments \cup SUBSET Staff, p \in Nodes \cup {None} : MoveBegin(u, rows, p)
    \/ \E n \in Staff, account \in Accounts \cup {None} : LinkBegin(u, n, account)
    \/ \E n \in Staff, s \in Skills, l \in Levels : SkillBegin(u, n, s, l)
    \/ \E rows \in SUBSET DOMAIN skills, given \in Givens : SkillChangeBegin(u, rows, given)
    \/ NewInsert(u) \/ MoveWrite(u) \/ LinkWrite(u) \/ SkillInsert(u) \/ SkillChangeWrite(u)
    \/ EditFails(u)

DirectorySpec == DirectoryInit /\ [][DirectoryNext]_directoryVars
-----------------------------------------------------------------------------
UsersApart == \A n, m \in made \cap Staff : n # m /\ login[n] # None => login[n] # login[m]
SkillsHeldOnce ==
  /\ \A i, j \in DOMAIN skills : i # j => <<skills[i].employee, skills[i].skill>> # <<skills[j].employee, skills[j].skill>>
  /\ \A i \in DOMAIN skills : skills[i].type = TypeOf[skills[i].skill]
SkillsGraded == \A i \in DOMAIN skills : TypeOf[skills[i].level] = skills[i].type

\* A user stands for one employee, whom resolve_current finds, and an employee
\* holds a skill once and under its type, also when calls overlap. When they do
\* not, every level is one of the skill's type, whichever fields of which rows
\* are changed (hr_skill.py:76), and departments and managers form trees although
\* rows are moved together and in any order (hr_department.py:29,
\* hr_employee.py:104), so that every chain of names and managers is complete.
DirectorySound ==
  /\ UsersApart
  /\ SkillsHeldOnce
  /\ exclusive => SkillsGraded /\ \A n \in made : ~Loops(n)
=============================================================================
