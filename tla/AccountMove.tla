----------------------------- MODULE AccountMove -----------------------------
(***************************************************************************)
(* The life cycle of an accounting document (account.move): creation,      *)
(* header and line edits, posting, reset to draft, cancellation, deletion  *)
(* and matching of its lines, as requests that run concurrently in one     *)
(* asyncio server over PostgreSQL in READ COMMITTED.                       *)
(*                                                                         *)
(* A request is a sequence of short transactions: what it read in one      *)
(* (its `seen` header) is used in the next without being read again, and   *)
(* the UPDATEs are by id, with no condition on the state.  One action is   *)
(* one transaction, or one part of a transaction between two row locks.    *)
(*                                                                         *)
(* The lock modelled is the numbering row (account_sequence), which orders *)
(* postings.  Waits for the row of a document itself are left out: they    *)
(* only take interleavings away, and a cycle of the two locks ends with    *)
(* PostgreSQL failing one of the requests.                                 *)
(***************************************************************************)
EXTENDS Integers, FiniteSets

CONSTANTS
  Moves,        \* ids the account_move table can give out
  NoMove,       \* "no document" in a request
  Workers,      \* requests in flight at the same time
  NoWorker,     \* holder of a numbering row nobody has locked
  Journals,     \* journal codes, as their alphabetical ranks
  MoveTypes,    \* "entry" and "invoice": without or with a generated AR/AP line
  MaxDate,      \* calendar 1..MaxDate
  NewYear,      \* first date of the second year
  Amounts,      \* balances the entered lines of a document can have
  MaxDraws,     \* bound: sequence numbers drawn in a behaviour
  Calls,        \* the API calls the clients make
  OneAtATime,   \* clients never have two requests open on one document
  FrozenLines   \* clients add and delete lines of drafts only

ASSUME ConstantsOK ==
  /\ NoMove \notin Moves /\ NoWorker \notin Workers
  /\ Journals \subseteq Nat \ {0} /\ Amounts \subseteq Int
  /\ MoveTypes \subseteq {"entry", "invoice"}
  /\ MaxDate \in Nat \ {0} /\ NewYear \in Nat /\ MaxDraws \in Nat
  /\ OneAtATime \in BOOLEAN /\ FrozenLines \in BOOLEAN

VARIABLES
  state,     \* account_move.state; "absent" before INSERT, "deleted" after DELETE
  head,      \* the header columns a request reads
  lines,     \* the accounting lines, by what posting asks of them
  matched,   \* is a line of the document in an account_partial_reconcile?
  lastNo,    \* account_sequence.last_no, committed
  rowLock,   \* the request that has written an account_sequence row, uncommitted
  lockDate,  \* strictest effective lock date, 0 for none
  req,       \* the requests in flight
  drawn      \* history: <<number, document it was committed for>>

vars == <<state, head, lines, matched, lastNo, rowLock, lockDate, req, drawn>>

-----------------------------------------------------------------------------
Dates == 1..MaxDate
Years == {1, 2}
YearOf(d) == IF d < NewYear THEN 1 ELSE 2
Keys == Journals \X Years              \* primary key of account_sequence

NoName == [key |-> <<0, 0>>, no |-> 0]
Name == [key : Keys, no : Nat \ {0}]
NullableName == Name \cup {NoName}

\* Names compare as strings "<code>/<year>/<0000>"
NameLess(a, b) ==
  \/ a.key[1] < b.key[1]
  \/ a.key[1] = b.key[1] /\ a.key[2] < b.key[2]
  \/ a.key = b.key /\ a.no < b.no

Header == [journal : Journals, type : MoveTypes, date : Dates,
           name : NullableName, postedBefore : BOOLEAN]
NoHeader == [journal |-> 0, type |-> "none", date |-> 0,
             name |-> NoName, postedBefore |-> FALSE]

Lines == [any : BOOLEAN, entered : Int, term : Int]
NoLines == [any |-> FALSE, entered |-> 0, term |-> 0]

WithTerm(l, t) == [any |-> l.any, entered |-> l.entered, term |-> t]
WithEntered(l, a) == [any |-> TRUE, entered |-> a, term |-> l.term]
WithoutEntered(l) == [any |-> FALSE, entered |-> 0, term |-> l.term]

Exists(m) == state[m] \in {"draft", "posted", "cancel"}
Balanced(l) == l.entered + l.term = 0
HasLines(l) == l.any \/ l.term # 0

PostSteps == {"prepare", "check", "number", "commit"}
Steps == PostSteps \cup {"guard", "reset", "cancel", "header", "line", "unlink", "match"}

Idle == [step |-> "idle", move |-> NoMove, seen |-> NoHeader,
         date |-> 0, name |-> NoName, amount |-> 0, floor |-> 0]

At(w, step) == req[w].step = step
Doc(w) == req[w].move

\* The operators' discipline the code leaves to its users: see README.
Free(m) == OneAtATime => \A v \in Workers : Doc(v) # m

Goto(w, step) == req' = [req EXCEPT ![w].step = step]
Advance(w, step, d, name) ==
  req' = [req EXCEPT ![w] = [step |-> step, move |-> @.move, seen |-> @.seen, date |-> d,
                             name |-> name, amount |-> @.amount, floor |-> @.floor]]
Finish(w) == req' = [req EXCEPT ![w] = Idle]

Ask(step, m, seen, amount) ==
  [step |-> step, move |-> m, seen |-> seen, date |-> 0, name |-> NoName,
   amount |-> amount, floor |-> lockDate]

\* The first read of a call, and the new amount it brings for a line
Begin(w, m, call, step, seen, amount) ==
  /\ call \in Calls /\ At(w, "idle") /\ Free(m)
  /\ req' = [req EXCEPT ![w] = Ask(step, m, seen, amount)]
  /\ UNCHANGED <<state, head, lines, matched, lastNo, rowLock, lockDate, drawn>>

Init ==
  /\ state = [m \in Moves |-> "absent"]
  /\ head = [m \in Moves |-> NoHeader]
  /\ lines = [m \in Moves |-> NoLines]
  /\ matched = [m \in Moves |-> FALSE]
  /\ lastNo = [k \in Keys |-> 0]
  /\ rowLock = [k \in Keys |-> NoWorker]
  /\ lockDate = 0
  /\ req = [w \in Workers |-> Idle]
  /\ drawn = {}
-----------------------------------------------------------------------------
(* Calls of one transaction *)

CreateMove(m, j, t, d) ==
  /\ "create" \in Calls /\ state[m] = "absent"
  /\ state' = [state EXCEPT ![m] = "draft"]
  /\ head' = [head EXCEPT ![m] = [journal |-> j, type |-> t, date |-> d,
                                    name |-> NoName, postedBefore |-> FALSE]]
  /\ UNCHANGED <<lines, matched, lastNo, rowLock, lockDate, req, drawn>>

MayTouchLines(m, call) ==
  /\ call \in Calls /\ Exists(m) /\ Free(m)
  /\ FrozenLines => state[m] = "draft"

\* account.move.line create: no look at the state of the document
LineCreate(m, a) ==
  /\ MayTouchLines(m, "line_create")
  /\ lines[m].entered + a \in Amounts
  /\ lines' = [lines EXCEPT ![m] = WithEntered(@, @.entered + a)]
  /\ UNCHANGED <<state, head, matched, lastNo, rowLock, lockDate, req, drawn>>

\* unlink of the entered lines, or of the generated one: BaseModel.unlink
LineUnlink(m) ==
  /\ MayTouchLines(m, "line_unlink")
  /\ \/ lines' = [lines EXCEPT ![m] = WithoutEntered(@)]
     \/ lines' = [lines EXCEPT ![m] = WithTerm(@, 0)]
  /\ UNCHANGED <<state, head, matched, lastNo, rowLock, lockDate, req, drawn>>

Unmatch(m) ==
  /\ "match" \in Calls /\ Free(m)
  /\ matched[m]
  /\ matched' = [matched EXCEPT ![m] = FALSE]
  /\ UNCHANGED <<state, head, lines, lastNo, rowLock, lockDate, req, drawn>>

\* A new lock date, or a lock exception granted or expired, moves the effective
\* date either way; `floor` records the least one a request has lived through.
SetLock(d) ==
  /\ "lock" \in Calls /\ d # lockDate
  /\ lockDate' = d
  /\ req' = [w \in Workers |-> IF d < req[w].floor THEN [req[w] EXCEPT !.floor = d]
                                                   ELSE req[w]]
  /\ UNCHANGED <<state, head, lines, matched, lastNo, rowLock, drawn>>
-----------------------------------------------------------------------------
(* action_post *)

PostBegin(w, m) ==
  /\ state[m] = "draft"
  /\ Cardinality(drawn) + Cardinality({v \in Workers : req[v].step \in PostSteps}) < MaxDraws
  /\ Begin(w, m, "post", "prepare", head[m], 0)

\* What the currency conversion makes of the entered lines; of an invoice also the
\* tax lines, the cash rounding and the down payments, which may be its only line.
Recomputed(type, l) ==
  {l} \cup {WithEntered(l, a) : a \in IF l.any \/ type = "invoice" THEN Amounts ELSE {}}

\* First transaction, committed whatever happens next: the lines are recomputed, and
\* the AR/AP line of an invoice is deleted and, unless they balance, generated again.
PostPrepare(w) ==
  LET type == req[w].seen.type
  IN /\ At(w, "prepare")
     /\ \E l \in Recomputed(type, lines[Doc(w)]) :
          lines' = [lines EXCEPT ![Doc(w)] = IF type = "entry" THEN l
                                             ELSE WithTerm(l, - l.entered)]
     /\ Goto(w, "check")
     /\ UNCHANGED <<state, head, matched, lastNo, rowLock, lockDate, drawn>>

\* Variant: the lock date itself is still open
AfterLockExclusive(d) == IF d < lockDate THEN lockDate + 1 ELSE d

AfterLock(d) == IF d <= lockDate THEN lockDate + 1 ELSE d

Reordered(m, seen, d) ==
  \E o \in Moves \ {m} :
    /\ Exists(o) /\ head[o].journal = seen.journal /\ head[o].name # NoName
    /\ NameLess(head[o].name, seen.name) /\ head[o].date > d

KeepsName(m, seen, d) ==
  seen.postedBefore /\ seen.name # NoName /\ ~Reordered(m, seen, d)

\* Variant: the balance is trusted to the generated line
PostCheckLinesOnly(w) ==
  /\ At(w, "check")
  /\ HasLines(lines[Doc(w)])
  /\ LET seen == req[w].seen
         d == AfterLock(seen.date)
     IN IF KeepsName(Doc(w), seen, d) THEN Advance(w, "commit", d, seen.name)
                                      ELSE Advance(w, "number", d, NoName)
  /\ UNCHANGED <<state, head, lines, matched, lastNo, rowLock, lockDate, drawn>>

\* Second transaction, up to the numbering row
PostCheck(w) ==
  /\ At(w, "check")
  /\ HasLines(lines[Doc(w)]) /\ Balanced(lines[Doc(w)])
  /\ LET seen == req[w].seen
         d == AfterLock(seen.date)
         keeps == KeepsName(Doc(w), seen, d)
     IN IF keeps THEN Advance(w, "commit", d, seen.name)
                 ELSE Advance(w, "number", d, NoName)
  /\ UNCHANGED <<state, head, lines, matched, lastNo, rowLock, lockDate, drawn>>

\* Variant: the counter is returned as it was before the upsert
PostNumberOld(w) ==
  LET key == <<req[w].seen.journal, YearOf(req[w].date)>>
  IN /\ At(w, "number")
     /\ rowLock[key] = NoWorker
     /\ rowLock' = [rowLock EXCEPT ![key] = w]
     /\ Advance(w, "commit", req[w].date, [key |-> key, no |-> lastNo[key]])
     /\ UNCHANGED <<state, head, lines, matched, lastNo, lockDate, drawn>>

\* Variant: SELECT, then UPDATE: nobody waits for the row
PostNumberUnlocked(w) ==
  LET key == <<req[w].seen.journal, YearOf(req[w].date)>>
  IN /\ At(w, "number")
     /\ rowLock' = [rowLock EXCEPT ![key] = w]
     /\ Advance(w, "commit", req[w].date, [key |-> key, no |-> lastNo[key] + 1])
     /\ UNCHANGED <<state, head, lines, matched, lastNo, lockDate, drawn>>

\* get_next_sequence: the upsert locks the row until the transaction ends
PostNumber(w) ==
  LET key == <<req[w].seen.journal, YearOf(req[w].date)>>
  IN /\ At(w, "number")
     /\ rowLock[key] = NoWorker
     /\ rowLock' = [rowLock EXCEPT ![key] = w]
     /\ Advance(w, "commit", req[w].date, [key |-> key, no |-> lastNo[key] + 1])
     /\ UNCHANGED <<state, head, lines, matched, lastNo, lockDate, drawn>>

ReleaseRows(w) == rowLock' = [k \in Keys |-> IF rowLock[k] = w THEN NoWorker ELSE rowLock[k]]

\* The UPDATE of the document and COMMIT; an UPDATE of a deleted row changes nothing
PostCommit(w) ==
  LET m == Doc(w)
      r == req[w]
  IN /\ At(w, "commit")
     /\ IF Exists(m)
        THEN /\ state' = [state EXCEPT ![m] = "posted"]
             /\ head' = [head EXCEPT ![m] = [journal |-> @.journal, type |-> @.type,
                               date |-> r.date, name |-> r.name, postedBefore |-> TRUE]]
        ELSE UNCHANGED <<state, head>>
     /\ lastNo' = [k \in Keys |-> IF rowLock[k] = w THEN lastNo[k] + 1 ELSE lastNo[k]]
     /\ ReleaseRows(w)
     /\ drawn' = drawn \cup {<<r.name, m>>}
     /\ Finish(w)
     /\ UNCHANGED <<lines, matched, lockDate>>
-----------------------------------------------------------------------------
(* action_reset_to_draft *)

ResetBegin(w, m) ==
  /\ state[m] = "posted"
  /\ Begin(w, m, "reset", "guard", head[m], 0)

ResetGuard(w) ==
  /\ At(w, "guard")
  /\ req[w].seen.date > lockDate
  /\ Goto(w, "reset")
  /\ UNCHANGED <<state, head, lines, matched, lastNo, rowLock, lockDate, drawn>>

Overwrite(w, s) ==
  state' = IF Exists(Doc(w)) THEN [state EXCEPT ![Doc(w)] = s] ELSE state

\* Variant: no look at the partial reconciles
ResetCommitMatched(w) ==
  /\ At(w, "reset")
  /\ Overwrite(w, "draft")
  /\ Finish(w)
  /\ UNCHANGED <<head, lines, matched, lastNo, rowLock, lockDate, drawn>>

ResetCommit(w) ==
  /\ At(w, "reset")
  /\ ~matched[Doc(w)]
  /\ Overwrite(w, "draft")
  /\ Finish(w)
  /\ UNCHANGED <<head, lines, matched, lastNo, rowLock, lockDate, drawn>>
-----------------------------------------------------------------------------
(* action_cancel, write and unlink of the header *)

CancelBegin(w, m) ==
  /\ state[m] = "draft"
  /\ Begin(w, m, "cancel", "cancel", head[m], 0)

CancelCommit(w) ==
  /\ At(w, "cancel")
  /\ Overwrite(w, "cancel")
  /\ Finish(w)
  /\ UNCHANGED <<head, lines, matched, lastNo, rowLock, lockDate, drawn>>

\* write of the fields a posted document locks: its new date and journal
Redated(h, j, d) == [journal |-> j, type |-> h.type, date |-> d,
                     name |-> h.name, postedBefore |-> h.postedBefore]

HeaderBegin(w, m, j, d) ==
  /\ state[m] \in {"draft", "cancel"}
  /\ Begin(w, m, "write", "header", Redated(head[m], j, d), 0)

HeaderCommit(w) ==
  /\ At(w, "header")
  /\ head' = IF Exists(Doc(w))
             THEN [head EXCEPT ![Doc(w)] = Redated(@, req[w].seen.journal, req[w].seen.date)]
             ELSE head
  /\ Finish(w)
  /\ UNCHANGED <<state, lines, matched, lastNo, rowLock, lockDate, drawn>>

UnlinkBegin(w, m) ==
  /\ state[m] \in {"draft", "cancel"}
  /\ Begin(w, m, "unlink", "unlink", head[m], 0)

UnlinkCommit(w) ==
  /\ At(w, "unlink")
  /\ Overwrite(w, "deleted")
  /\ Finish(w)
  /\ UNCHANGED <<head, lines, matched, lastNo, rowLock, lockDate, drawn>>
-----------------------------------------------------------------------------
(* write of a line, and reconcile_lines as far as the document sees it *)

LineWriteBegin(w, m, a) ==
  /\ state[m] \notin {"posted", "cancel"} /\ lines[m].any
  /\ Begin(w, m, "line_write", "line", head[m], a)

LineWriteCommit(w) ==
  /\ At(w, "line")
  /\ lines' = IF lines[Doc(w)].any THEN [lines EXCEPT ![Doc(w)] = WithEntered(@, req[w].amount)]
                                   ELSE lines
  /\ Finish(w)
  /\ UNCHANGED <<state, head, matched, lastNo, rowLock, lockDate, drawn>>

MatchBegin(w, m) ==
  /\ state[m] = "posted"
  /\ Begin(w, m, "match", "match", head[m], 0)

MatchCommit(w) ==
  /\ At(w, "match")
  /\ matched' = [matched EXCEPT ![Doc(w)] = TRUE]
  /\ Finish(w)
  /\ UNCHANGED <<state, head, lines, lastNo, rowLock, lockDate, drawn>>
-----------------------------------------------------------------------------
(* A DodooError of a guard, and any other end of a request before its COMMIT:
   the open transaction is rolled back, the committed ones stay. *)

\* Variant: the number was drawn in a transaction of its own
RollbackKeepsNumber(w) ==
  /\ lastNo' = [k \in Keys |-> IF rowLock[k] = w THEN lastNo[k] + 1 ELSE lastNo[k]]
  /\ ReleaseRows(w)
  /\ Finish(w)
  /\ UNCHANGED <<state, head, lines, matched, lockDate, drawn>>

\* Variant: the connection goes back to the pool with its transaction open
RollbackKeepsRows(w) ==
  /\ Finish(w)
  /\ UNCHANGED <<state, head, lines, matched, lastNo, rowLock, lockDate, drawn>>

Rollback(w) ==
  /\ ReleaseRows(w)
  /\ Finish(w)
  /\ UNCHANGED <<state, head, lines, matched, lastNo, lockDate, drawn>>

Refused(w) ==
  /\ \/ At(w, "check") /\ ~(HasLines(lines[Doc(w)]) /\ Balanced(lines[Doc(w)]))
     \/ At(w, "guard") /\ req[w].seen.date <= lockDate
     \/ At(w, "reset") /\ matched[Doc(w)]
  /\ Rollback(w)

RequestFails(w) ==
  /\ ~At(w, "idle")
  /\ Rollback(w)
-----------------------------------------------------------------------------
Step(w) ==
  \/ PostPrepare(w) \/ PostCheck(w) \/ PostNumber(w) \/ PostCommit(w)
  \/ ResetGuard(w) \/ ResetCommit(w) \/ CancelCommit(w) \/ HeaderCommit(w)
  \/ UnlinkCommit(w) \/ LineWriteCommit(w) \/ MatchCommit(w) \/ Refused(w)

Request(w, m) ==
  \/ PostBegin(w, m) \/ ResetBegin(w, m) \/ CancelBegin(w, m)
  \/ UnlinkBegin(w, m) \/ MatchBegin(w, m)
  \/ \E j \in Journals, d \in Dates : HeaderBegin(w, m, j, d)
  \/ \E a \in Amounts : LineWriteBegin(w, m, a)

Client(m) ==
  \/ \E j \in Journals, t \in MoveTypes, d \in Dates : CreateMove(m, j, t, d)
  \/ \E a \in Amounts : LineCreate(m, a)
  \/ LineUnlink(m) \/ Unmatch(m)

Next ==
  \/ \E w \in Workers : Step(w) \/ RequestFails(w) \/ \E m \in Moves : Request(w, m)
  \/ \E m \in Moves : Client(m)
  \/ \E d \in 0..(MaxDate - 1) : SetLock(d)

Spec == Init /\ [][Next]_vars

\* The event loop keeps running every request, and PostgreSQL serves the waiters
\* of a row lock in turn.
Fairness == \A w \in Workers : WF_vars(Step(w)) /\ SF_vars(PostNumber(w))

FairSpec == Spec /\ Fairness
-----------------------------------------------------------------------------
\* Types of the columns and of what the requests carry between their transactions.
TypeOK ==
  /\ state \in [Moves -> {"absent", "draft", "posted", "cancel", "deleted"}]
  /\ head \in [Moves -> Header \cup {NoHeader}]
  /\ lines \in [Moves -> Lines]
  /\ matched \in [Moves -> BOOLEAN]
  /\ lastNo \in [Keys -> Nat]
  /\ rowLock \in [Keys -> Workers \cup {NoWorker}]
  /\ lockDate \in 0..(MaxDate - 1)
  /\ req \in [Workers -> [step : Steps \cup {"idle"}, move : Moves \cup {NoMove},
                          seen : Header \cup {NoHeader}, date : Nat,
                          name : NullableName, amount : Int, floor : Nat]]
  /\ drawn \subseteq Name \X Moves

\* Posting checks debit = credit on lines it rebuilt in an earlier transaction, and
\* the line guards look at the state in another one: a posted document still has
\* lines, and they balance.
PostedBalanced ==
  \A m \in Moves : state[m] = "posted" => HasLines(lines[m]) /\ Balanced(lines[m])

\* No order of reconcile, reset, cancel and delete takes a document with matched
\* lines out of the ledger.
MatchedIsPosted == \A m \in Moves : matched[m] => state[m] = "posted"

\* Posting and resetting respect every lock date that was in force from the start
\* of the request: neither adds an entry to a closed period nor takes one out of it.
ClosedPeriodKept ==
  [][\A w \in Workers :
       LET m == Doc(w) IN
       m # NoMove =>
         /\ state[m] # "posted" /\ state'[m] = "posted" => head'[m].date > req[w].floor
         /\ state[m] = "posted" /\ state'[m] # "posted" => head[m].date > req[w].floor]_vars

\* A posted document leaves the ledger through reset to draft only; action_cancel:
\* "a posted move must be reversed, never cancelled directly".
PostedNotCancelled ==
  [][\A m \in Moves : state[m] = "posted" => state'[m] \in {"posted", "draft"}]_vars

\* Posted documents are numbered, and no two documents carry one number, whatever
\* requests overlap, fail, re-post under the old number or change the journal.
NamesUnique ==
  /\ \A m \in Moves : state[m] = "posted" => head[m].name # NoName
  /\ \A m, n \in Moves :
       m # n /\ Exists(m) /\ Exists(n) /\ head[m].name # NoName
         => head[m].name # head[n].name

\* Numbering implements the register: a number goes out with the commit that uses
\* it, to one document for ever; a rolled-back posting returns it.
Register == INSTANCE NumberRegister WITH Docs <- Moves, last <- lastNo, owner <- drawn
ImplementsRegister == Register!Spec

\* No request waits for ever for a numbering row.
RequestsEnd == \A w \in Workers : ~At(w, "idle") ~> At(w, "idle")
=============================================================================
