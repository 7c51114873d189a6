------------------------- MODULE AccountMove_proofs -------------------------
(***************************************************************************)
(* Proofs about AccountMove for any number of documents, requests and      *)
(* journals: type correctness; that numbering under full concurrency       *)
(* implements NumberRegister, from which the uniqueness of names follows;  *)
(* and, as long as nobody has two requests open on one document, that what *)
(* is posted balances, stays while it is matched and leaves closed periods *)
(* alone.                                                                  *)
(***************************************************************************)
EXTENDS AccountMove, TLAPS

\* What TypeOK needs to be inductive: a request at work is about a document that
\* was created, and carries the date and the number its step has computed.
Shape ==
  /\ \A m \in Moves : state[m] # "absent" => head[m] \in Header
  /\ \A m \in Moves : lines[m].any => state[m] # "absent"
  /\ \A w \in Workers : req[w].step # "idle" =>
       /\ req[w].move \in Moves /\ state[req[w].move] # "absent"
       /\ req[w].seen \in Header
  /\ \A w \in Workers : req[w].step \in {"number", "commit"} => req[w].date \in Dates
  /\ \A w \in Workers : req[w].step = "commit" => req[w].name \in Name

TypeInv == TypeOK /\ Shape

LEMMA InitTypeInv == Init => TypeInv
<1> SUFFICES ASSUME Init PROVE TypeInv
  OBVIOUS
<1> USE ConstantsOK DEF Init
<1>1. NoHeader.name \in NullableName /\ NoLines \in Lines
  BY DEF NoHeader, NullableName, NoLines, Lines
<1>2. Idle \in [step : Steps \cup {"idle"}, move : Moves \cup {NoMove},
                seen : Header \cup {NoHeader}, date : Nat,
                name : NullableName, amount : Int, floor : Nat]
  BY DEF Idle, NullableName
<1>3. TypeOK
  BY <1>1, <1>2 DEF TypeOK
<1>4. Shape
  BY DEF Shape, Idle, NoLines
<1>5. QED
  BY <1>3, <1>4 DEF TypeInv

LEMMA CreateMoveTypeInv ==
  ASSUME NEW m \in Moves, NEW j \in Journals, NEW t \in MoveTypes, NEW d \in Dates,
         TypeInv, CreateMove(m, j, t, d)
  PROVE  TypeInv'
<1> USE ConstantsOK DEF TypeInv, CreateMove
<1> DEFINE h == [journal |-> j, type |-> t, date |-> d,
                 name |-> NoName, postedBefore |-> FALSE]
<1>1. h \in Header
  BY DEF Header, NoHeader, NullableName
<1>2. TypeOK'
  BY <1>1 DEF TypeOK
<1>3. Shape'
  BY <1>1 DEF TypeOK, Shape
<1>4. QED
  BY <1>2, <1>3

\* A request record as TypeInv wants it, for an update of one request
ReqType == [step : Steps \cup {"idle"}, move : Moves \cup {NoMove},
            seen : Header \cup {NoHeader}, date : Nat,
            name : NullableName, amount : Int, floor : Nat]

ReqShape(r) ==
  /\ r.step # "idle" => /\ r.move \in Moves /\ state[r.move] # "absent"
                        /\ r.seen \in Header
  /\ r.step \in {"number", "commit"} => r.date \in Dates
  /\ r.step = "commit" => r.name \in Name

LEMMA OneRequestTypeInv ==
  ASSUME NEW w \in Workers, NEW r \in ReqType, TypeInv, ReqShape(r),
         req' = [req EXCEPT ![w] = r],
         UNCHANGED <<state, head, lines, matched, lockDate>>,
         lastNo' \in [Keys -> Nat], rowLock' \in [Keys -> Workers \cup {NoWorker}],
         drawn' \subseteq Name \X Moves
  PROVE  TypeInv'
<1>1. req' \in [Workers -> ReqType]
  BY DEF TypeInv, TypeOK, ReqType
<1>2. TypeOK'
  BY <1>1 DEF TypeInv, TypeOK, ReqType
<1>3. ASSUME NEW v \in Workers PROVE ReqShape(req'[v])
  <2>1. CASE v = w
    BY <2>1 DEF TypeInv, TypeOK
  <2>2. CASE v # w
    BY <2>2 DEF TypeInv, TypeOK, Shape, ReqShape
  <2>3. QED
    BY <2>1, <2>2
<1>4. Shape'
  BY <1>3 DEF TypeInv, Shape, ReqShape
<1>5. QED
  BY <1>2, <1>4 DEF TypeInv

LEMMA IdleType == Idle \in ReqType /\ ReqShape(Idle)
BY DEF Idle, ReqType, ReqShape, NullableName

LEMMA BeginTypeInv ==
  ASSUME NEW w \in Workers, NEW m \in Moves, NEW c,
         NEW s \in Steps \ {"number", "commit"}, NEW h \in Header, NEW a \in Int,
         TypeInv, state[m] # "absent", Begin(w, m, c, s, h, a)
  PROVE  TypeInv'
<1> USE ConstantsOK
<1>1. Ask(s, m, h, a) \in ReqType
  BY DEF Ask, TypeInv, TypeOK, ReqType, NullableName
<1>2. ReqShape(Ask(s, m, h, a))
  BY DEF Ask, ReqShape, Steps, PostSteps
<1>3. QED
  BY <1>1, <1>2, OneRequestTypeInv DEF Begin, TypeInv, TypeOK

LEMMA EditTypeInv ==
  ASSUME NEW m \in Moves, TypeInv,
         \/ \E a \in Amounts : LineCreate(m, a)
         \/ LineUnlink(m)
         \/ Unmatch(m)
  PROVE  TypeInv'
<1> USE ConstantsOK
<1>1. CASE \E a \in Amounts : LineCreate(m, a)
  <2>1. PICK a \in Amounts : LineCreate(m, a)
    BY <1>1
  <2>2. lines' \in [Moves -> Lines]
    BY <2>1 DEF LineCreate, WithEntered, TypeInv, TypeOK, Lines
  <2>3. TypeOK'
    BY <2>1, <2>2 DEF LineCreate, TypeInv, TypeOK
  <2>4. Shape'
    BY <2>1 DEF LineCreate, WithEntered, MayTouchLines, Exists, TypeInv, TypeOK, Shape, Lines
  <2>5. QED
    BY <2>3, <2>4 DEF TypeInv
<1>2. CASE LineUnlink(m)
  <2>0. /\ lines[m] \in Lines
        /\ WithoutEntered(lines[m]) \in Lines /\ WithTerm(lines[m], 0) \in Lines
    BY DEF WithoutEntered, WithTerm, TypeInv, TypeOK, Lines
  <2>1. lines' \in [Moves -> Lines]
    BY <1>2, <2>0 DEF LineUnlink, TypeInv, TypeOK
  <2>2. TypeOK'
    BY <1>2, <2>1 DEF LineUnlink, TypeInv, TypeOK
  <2>3. Shape'
    BY <1>2 DEF LineUnlink, WithoutEntered, WithTerm, MayTouchLines, Exists, TypeInv, TypeOK, Shape, Lines
  <2>4. QED
    BY <2>2, <2>3 DEF TypeInv
<1>3. CASE Unmatch(m)
  BY <1>3 DEF Unmatch, TypeInv, TypeOK, Shape
<1>4. QED
  BY <1>1, <1>2, <1>3

LEMMA SetLockTypeInv ==
  ASSUME NEW d \in 0..(MaxDate - 1), TypeInv, SetLock(d)
  PROVE  TypeInv'
<1> USE ConstantsOK
<1>1. req' = [w \in Workers |-> IF d < req[w].floor THEN [req[w] EXCEPT !.floor = d]
                                                     ELSE req[w]]
  BY DEF SetLock
<1>2. ASSUME NEW w \in Workers
      PROVE  /\ req'[w] \in ReqType
             /\ req'[w].step = req[w].step /\ req'[w].move = req[w].move
             /\ req'[w].seen = req[w].seen /\ req'[w].date = req[w].date
             /\ req'[w].name = req[w].name
  <2>1. req[w] \in ReqType
    BY DEF TypeInv, TypeOK, ReqType
  <2>2. QED
    BY <1>1, <2>1 DEF ReqType
<1>3. req' \in [Workers -> ReqType]
  BY <1>1, <1>2
<1>4. TypeOK'
  BY <1>3 DEF SetLock, TypeInv, TypeOK, ReqType
<1>5. Shape'
  BY <1>2 DEF SetLock, TypeInv, Shape
<1>6. QED
  BY <1>4, <1>5 DEF TypeInv

LEMMA PostTypeInv ==
  ASSUME NEW w \in Workers, TypeInv,
         \/ PostPrepare(w) \/ PostCheck(w) \/ PostNumber(w) \/ PostCommit(w)
  PROVE  TypeInv'
<1> USE ConstantsOK
<1> DEFINE m == Doc(w)
<1>0. /\ req[w] \in ReqType
      /\ req[w].step # "idle" => m \in Moves
      /\ req[w].step # "idle" => req[w].seen \in Header
  BY DEF Doc, TypeInv, TypeOK, ReqType, Shape
<1>1. CASE PostPrepare(w)
  <2>1. m \in Moves
    BY <1>0, <1>1 DEF PostPrepare, At
  <2>a. Recomputed(req[w].seen.type, lines[m]) \subseteq Lines
    <3>1. lines[m] \in Lines
      BY <2>1 DEF TypeInv, TypeOK
    <3>2. \A a \in Amounts : WithEntered(lines[m], a) \in Lines
      BY <3>1, ConstantsOK DEF WithEntered, Lines
    <3>3. QED
      BY <3>1, <3>2 DEF Recomputed
  <2>b. PICK l \in Recomputed(req[w].seen.type, lines[m]) :
          lines' = [lines EXCEPT ![m] = IF req[w].seen.type = "entry" THEN l
                                        ELSE WithTerm(l, - l.entered)]
    BY <1>1 DEF PostPrepare
  <2>2. lines' \in [Moves -> Lines]
    BY <2>1, <2>a, <2>b DEF WithTerm, TypeInv, TypeOK, Lines
  <2>3. \A n \in Moves : n # m => lines'[n].any = lines[n].any
    BY <2>1, <2>b DEF TypeInv, TypeOK
  <2>4. req' \in [Workers -> ReqType]
    BY <1>0, <1>1 DEF PostPrepare, Goto, TypeInv, TypeOK, ReqType, Steps, PostSteps
  <2>5. TypeOK'
    BY <1>1, <2>2, <2>4 DEF PostPrepare, TypeInv, TypeOK, ReqType
  <2>6. \A v \in Workers : ReqShape(req'[v])
    BY <1>0, <1>1 DEF PostPrepare, At, Goto, TypeInv, TypeOK, Shape, ReqShape, ReqType
  <2>7. Shape'
    BY <1>0, <1>1, <2>3, <2>6 DEF PostPrepare, At, Doc, TypeInv, Shape, ReqShape
  <2>8. QED
    BY <2>5, <2>7 DEF TypeInv
<1>2. CASE PostCheck(w)
  <2> DEFINE d == AfterLock(req[w].seen.date)
             r(s, nm) == [step |-> s, move |-> req[w].move, seen |-> req[w].seen, date |-> d,
                          name |-> nm, amount |-> req[w].amount, floor |-> req[w].floor]
  <2>1. req[w].seen \in Header
    BY <1>0, <1>2 DEF PostCheck, At
  <2>2. d \in Dates
    BY <2>1 DEF AfterLock, Header, Dates, TypeInv, TypeOK
  <2>3. m \in Moves /\ state[m] # "absent" /\ m = req[w].move
    BY <1>0, <1>2 DEF PostCheck, At, TypeInv, Shape, Doc
  <2>4. CASE KeepsName(m, req[w].seen, d)
    <3>1. req' = [req EXCEPT ![w] = r("commit", req[w].seen.name)]
      BY <1>2, <2>4 DEF PostCheck, Advance, TypeInv, TypeOK
    <3>2. req[w].seen.name \in Name
      BY <2>1, <2>4 DEF KeepsName, Header, NullableName
    <3>3. r("commit", req[w].seen.name) \in ReqType
      BY <1>0, <2>2, <3>2 DEF ReqType, Steps, PostSteps, NullableName, Dates
    <3>4. ReqShape(r("commit", req[w].seen.name))
      BY <2>1, <2>2, <2>3, <3>2 DEF ReqShape
    <3>5. QED
      BY <1>2, <3>1, <3>3, <3>4, OneRequestTypeInv DEF PostCheck, TypeInv, TypeOK
  <2>5. CASE ~KeepsName(m, req[w].seen, d)
    <3>1. req' = [req EXCEPT ![w] = r("number", NoName)]
      BY <1>2, <2>5 DEF PostCheck, Advance, TypeInv, TypeOK
    <3>2. r("number", NoName) \in ReqType
      BY <1>0, <2>2 DEF ReqType, Steps, PostSteps, NullableName, Dates
    <3>3. ReqShape(r("number", NoName))
      BY <2>1, <2>2, <2>3 DEF ReqShape
    <3>4. QED
      BY <1>2, <3>1, <3>2, <3>3, OneRequestTypeInv DEF PostCheck, TypeInv, TypeOK
  <2>6. QED
    BY <2>4, <2>5
<1>3. CASE PostNumber(w)
  <2> DEFINE key == <<req[w].seen.journal, YearOf(req[w].date)>>
             nm == [key |-> key, no |-> lastNo[key] + 1]
             r == [step |-> "commit", move |-> req[w].move, seen |-> req[w].seen,
                   date |-> req[w].date, name |-> nm, amount |-> req[w].amount,
                   floor |-> req[w].floor]
  <2>1. key \in Keys
    BY <1>0, <1>3 DEF PostNumber, At, Keys, Years, YearOf, Header
  <2>2. nm \in Name
    BY <2>1 DEF Name, TypeInv, TypeOK
  <2>3. req' = [req EXCEPT ![w] = r]
    BY <1>3 DEF PostNumber, Advance, TypeInv, TypeOK
  <2>4. r \in ReqType
    BY <1>0, <2>2 DEF ReqType, Steps, PostSteps, NullableName
  <2>5. ReqShape(r)
    BY <1>0, <1>3, <2>2 DEF PostNumber, At, Doc, ReqShape, TypeInv, Shape
  <2>6. rowLock' \in [Keys -> Workers \cup {NoWorker}]
    BY <1>3, <2>1 DEF PostNumber, TypeInv, TypeOK
  <2>7. QED
    BY <1>3, <2>3, <2>4, <2>5, <2>6, OneRequestTypeInv DEF PostNumber, TypeInv, TypeOK
<1>4. CASE PostCommit(w)
  <2>1. m \in Moves /\ state[m] # "absent" /\ req[w].date \in Dates /\ req[w].name \in Name
    BY <1>0, <1>4 DEF PostCommit, At, Doc, TypeInv, Shape
  <2>2. req' \in [Workers -> ReqType]
    BY <1>4, IdleType DEF PostCommit, Finish, TypeInv, TypeOK, ReqType
  <2>3. lastNo' \in [Keys -> Nat] /\ rowLock' \in [Keys -> Workers \cup {NoWorker}]
    BY <1>4 DEF PostCommit, ReleaseRows, TypeInv, TypeOK
  <2>4. drawn' \subseteq Name \X Moves
    BY <1>4, <2>1 DEF PostCommit, TypeInv, TypeOK
  <2> DEFINE h == [journal |-> head[m].journal, type |-> head[m].type,
                   date |-> req[w].date, name |-> req[w].name, postedBefore |-> TRUE]
  <2>0. h \in Header
    BY <2>1 DEF Header, TypeInv, Shape, NullableName
  <2>a. /\ state' = IF Exists(m) THEN [state EXCEPT ![m] = "posted"] ELSE state
        /\ head' = IF Exists(m) THEN [head EXCEPT ![m] = h] ELSE head
    BY <1>4, <2>1 DEF PostCommit, TypeInv, TypeOK
  <2>5. \A n \in Moves : /\ state[n] # "absent" <=> state'[n] # "absent"
                         /\ state[n] # "absent" => head'[n] \in Header
    BY <2>0, <2>1, <2>a DEF TypeInv, TypeOK, Shape
  <2>6. /\ state' \in [Moves -> {"absent", "draft", "posted", "cancel", "deleted"}]
        /\ head' \in [Moves -> Header \cup {NoHeader}]
    BY <2>0, <2>1, <2>a DEF TypeInv, TypeOK
  <2>7. TypeOK'
    BY <1>4, <2>2, <2>3, <2>4, <2>6 DEF PostCommit, TypeInv, TypeOK, ReqType
  <2>8. \A v \in Workers : req'[v] = req[v] \/ req'[v] = Idle
    BY <1>4 DEF PostCommit, Finish, TypeInv, TypeOK
  <2>9. Shape'
    BY <1>4, <2>5, <2>8 DEF PostCommit, TypeInv, Shape, Idle
  <2>10. QED
    BY <2>7, <2>9 DEF TypeInv
<1>5. QED
  BY <1>1, <1>2, <1>3, <1>4

LEMMA FinishTypeInv ==
  ASSUME NEW w \in Workers, TypeInv, Finish(w),
         UNCHANGED <<matched, lastNo, lockDate, drawn>>,
         state' \in [Moves -> {"absent", "draft", "posted", "cancel", "deleted"}],
         head' \in [Moves -> Header \cup {NoHeader}], lines' \in [Moves -> Lines],
         rowLock' \in [Keys -> Workers \cup {NoWorker}],
         \A n \in Moves : /\ state[n] # "absent" <=> state'[n] # "absent"
                          /\ state[n] # "absent" => head'[n] \in Header
                          /\ lines'[n].any => lines[n].any
  PROVE  TypeInv'
<1>1. req' \in [Workers -> ReqType]
  BY IdleType DEF Finish, TypeInv, TypeOK, ReqType
<1>2. TypeOK'
  BY <1>1 DEF TypeInv, TypeOK, ReqType
<1>3. \A v \in Workers : req'[v] = req[v] \/ req'[v] = Idle
  BY DEF Finish, TypeInv, TypeOK
<1>4. Shape'
  BY <1>3 DEF TypeInv, Shape, Idle
<1>5. QED
  BY <1>2, <1>4 DEF TypeInv

LEMMA OtherTypeInv ==
  ASSUME NEW w \in Workers, TypeInv,
         \/ ResetGuard(w) \/ ResetCommit(w) \/ CancelCommit(w) \/ HeaderCommit(w)
         \/ UnlinkCommit(w) \/ LineWriteCommit(w) \/ MatchCommit(w)
         \/ Refused(w) \/ RequestFails(w)
  PROVE  TypeInv'
<1> USE ConstantsOK
<1> DEFINE m == Doc(w)
<1>0. /\ req[w] \in ReqType
      /\ req[w].step # "idle" => m \in Moves
      /\ req[w].step # "idle" => req[w].seen \in Header
      /\ req[w].step # "idle" => state[m] # "absent"
  BY DEF Doc, TypeInv, TypeOK, ReqType, Shape
<1>1. CASE ResetGuard(w)
  <2> DEFINE r == [req[w] EXCEPT !.step = "reset"]
  <2>1. r \in ReqType
    BY <1>0 DEF ReqType, Steps
  <2>2. ReqShape(r)
    BY <1>0, <1>1 DEF ResetGuard, At, Doc, ReqShape, ReqType
  <2>3. req' = [req EXCEPT ![w] = r]
    BY <1>1 DEF ResetGuard, Goto
  <2>4. QED
    BY <1>1, <2>1, <2>2, <2>3, OneRequestTypeInv DEF ResetGuard, TypeInv, TypeOK
<1>2. CASE ResetCommit(w) \/ CancelCommit(w) \/ UnlinkCommit(w)
  <2>1. m \in Moves /\ state[m] # "absent"
    BY <1>0, <1>2 DEF ResetCommit, CancelCommit, UnlinkCommit, At
  <2>2. PICK s \in {"draft", "cancel", "deleted"} : Overwrite(w, s)
    BY <1>2 DEF ResetCommit, CancelCommit, UnlinkCommit
  <2>3. /\ Finish(w) /\ UNCHANGED <<head, lines, matched, lastNo, rowLock, lockDate, drawn>>
    BY <1>2 DEF ResetCommit, CancelCommit, UnlinkCommit
  <2>4. state' \in [Moves -> {"absent", "draft", "posted", "cancel", "deleted"}]
    BY <2>1, <2>2 DEF Overwrite, TypeInv, TypeOK
  <2>5. \A n \in Moves : state[n] # "absent" <=> state'[n] # "absent"
    BY <2>1, <2>2 DEF Overwrite, TypeInv, TypeOK
  <2>6. QED
    BY <2>3, <2>4, <2>5, FinishTypeInv DEF TypeInv, TypeOK, Shape
<1>3. CASE HeaderCommit(w)
  <2> DEFINE h == Redated(head[m], req[w].seen.journal, req[w].seen.date)
  <2>1. m \in Moves /\ state[m] # "absent" /\ req[w].seen \in Header
    BY <1>0, <1>3 DEF HeaderCommit, At
  <2>2. h \in Header
    BY <2>1 DEF Redated, Header, TypeInv, Shape
  <2>3. head' = IF Exists(m) THEN [head EXCEPT ![m] = h] ELSE head
    BY <1>3, <2>1 DEF HeaderCommit, TypeInv, TypeOK
  <2>4. /\ head' \in [Moves -> Header \cup {NoHeader}]
        /\ \A n \in Moves : state[n] # "absent" => head'[n] \in Header
    BY <2>1, <2>2, <2>3 DEF TypeInv, TypeOK, Shape
  <2>5. QED
    BY <1>3, <2>4, FinishTypeInv DEF HeaderCommit, TypeInv, TypeOK
<1>4. CASE LineWriteCommit(w)
  <2>1. m \in Moves
    BY <1>0, <1>4 DEF LineWriteCommit, At
  <2>2. WithEntered(lines[m], req[w].amount) \in Lines
    BY <1>0, <2>1 DEF WithEntered, Lines, TypeInv, TypeOK, ReqType
  <2>3. /\ lines' \in [Moves -> Lines]
        /\ \A n \in Moves : lines'[n].any => lines[n].any
    BY <1>4, <2>1, <2>2 DEF LineWriteCommit, WithEntered, TypeInv, TypeOK
  <2>4. QED
    BY <1>4, <2>3, FinishTypeInv DEF LineWriteCommit, TypeInv, TypeOK, Shape
<1>5. CASE MatchCommit(w)
  <2>1. matched' \in [Moves -> BOOLEAN]
    BY <1>5 DEF MatchCommit, TypeInv, TypeOK
  <2>2. req' \in [Workers -> ReqType]
    BY <1>5, IdleType DEF MatchCommit, Finish, TypeInv, TypeOK, ReqType
  <2>3. TypeOK'
    BY <1>5, <2>1, <2>2 DEF MatchCommit, TypeInv, TypeOK, ReqType
  <2>4. \A v \in Workers : req'[v] = req[v] \/ req'[v] = Idle
    BY <1>5 DEF MatchCommit, Finish, TypeInv, TypeOK
  <2>5. Shape'
    BY <1>5, <2>4 DEF MatchCommit, TypeInv, Shape, Idle
  <2>6. QED
    BY <2>3, <2>5 DEF TypeInv
<1>6. CASE Refused(w) \/ RequestFails(w)
  <2>1. Rollback(w)
    BY <1>6 DEF Refused, RequestFails
  <2>2. rowLock' \in [Keys -> Workers \cup {NoWorker}]
    BY <2>1 DEF Rollback, ReleaseRows, TypeInv, TypeOK
  <2>3. QED
    BY <2>1, <2>2, FinishTypeInv DEF Rollback, TypeInv, TypeOK, Shape
<1>7. QED
  BY <1>1, <1>2, <1>3, <1>4, <1>5, <1>6

LEMMA RequestTypeInv ==
  ASSUME NEW w \in Workers, NEW m \in Moves, TypeInv, Request(w, m)
  PROVE  TypeInv'
<1> USE ConstantsOK
<1>1. CASE PostBegin(w, m) \/ ResetBegin(w, m) \/ CancelBegin(w, m)
           \/ UnlinkBegin(w, m) \/ MatchBegin(w, m)
  <2>1. state[m] # "absent" /\ head[m] \in Header
    BY <1>1 DEF PostBegin, ResetBegin, CancelBegin, UnlinkBegin, MatchBegin, TypeInv, Shape
  <2>2. {"prepare", "guard", "cancel", "unlink", "match"} \subseteq Steps \ {"number", "commit"}
    BY DEF Steps, PostSteps
  <2>3. CASE PostBegin(w, m)
    BY <2>1, <2>2, <2>3, BeginTypeInv DEF PostBegin
  <2>4. CASE ResetBegin(w, m)
    BY <2>1, <2>2, <2>4, BeginTypeInv DEF ResetBegin
  <2>5. CASE CancelBegin(w, m)
    BY <2>1, <2>2, <2>5, BeginTypeInv DEF CancelBegin
  <2>6. CASE UnlinkBegin(w, m)
    BY <2>1, <2>2, <2>6, BeginTypeInv DEF UnlinkBegin
  <2>7. CASE MatchBegin(w, m)
    BY <2>1, <2>2, <2>7, BeginTypeInv DEF MatchBegin
  <2>8. QED
    BY <1>1, <2>3, <2>4, <2>5, <2>6, <2>7
<1>2. CASE \E j \in Journals, d \in Dates : HeaderBegin(w, m, j, d)
  <2>1. PICK j \in Journals, d \in Dates : HeaderBegin(w, m, j, d)
    BY <1>2
  <2>2. state[m] # "absent" /\ Redated(head[m], j, d) \in Header
    BY <2>1 DEF HeaderBegin, Redated, Header, TypeInv, Shape
  <2>3. "header" \in Steps \ {"number", "commit"} /\ 0 \in Int
    BY DEF Steps
  <2>4. QED
    BY <2>1, <2>2, <2>3, BeginTypeInv DEF HeaderBegin
<1>3. CASE \E a \in Amounts : LineWriteBegin(w, m, a)
  <2>1. PICK a \in Amounts : LineWriteBegin(w, m, a)
    BY <1>3
  <2>2. state[m] # "absent" /\ head[m] \in Header /\ a \in Int
    BY <2>1 DEF LineWriteBegin, TypeInv, Shape
  <2>3. "line" \in Steps \ {"number", "commit"}
    BY DEF Steps
  <2>4. QED
    BY <2>1, <2>2, <2>3, BeginTypeInv DEF LineWriteBegin
<1>4. QED
  BY <1>1, <1>2, <1>3 DEF Request

LEMMA NextTypeInv == TypeInv /\ [Next]_vars => TypeInv'
<1> SUFFICES ASSUME TypeInv, [Next]_vars PROVE TypeInv'
  OBVIOUS
<1>1. ASSUME NEW w \in Workers, Step(w) \/ RequestFails(w) PROVE TypeInv'
  BY <1>1, PostTypeInv, OtherTypeInv DEF Step
<1>2. ASSUME NEW w \in Workers, NEW m \in Moves, Request(w, m) PROVE TypeInv'
  BY <1>2, RequestTypeInv
<1>3. ASSUME NEW m \in Moves, Client(m) PROVE TypeInv'
  BY <1>3, CreateMoveTypeInv, EditTypeInv DEF Client
<1>4. ASSUME NEW d \in 0..(MaxDate - 1), SetLock(d) PROVE TypeInv'
  BY <1>4, SetLockTypeInv
<1>5. CASE UNCHANGED vars
  BY <1>5 DEF vars, TypeInv, TypeOK, Shape
<1>6. QED
  BY <1>1, <1>2, <1>3, <1>4, <1>5 DEF Next

\* Every variable keeps its type, for any instance of the constants.
THEOREM TypeCorrect == Spec => []TypeOK
<1>1. Spec => []TypeInv
  BY InitTypeInv, NextTypeInv, PTL DEF Spec
<1>2. TypeInv => TypeOK
  BY DEF TypeInv
<1>3. QED
  BY <1>1, <1>2, PTL
-----------------------------------------------------------------------------
(* Numbering.  The inductive invariant says where a number in use comes from:
   it was given out to the document that carries it, or it is the next one of a
   row that the request about to commit it still has locked. *)

NumbersCounted == \A p \in drawn : p[1].no <= lastNo[p[1].key]
OneOwner == \A p, q \in drawn : p[1] = q[1] => p[2] = q[2]
NamesDrawn == \A m \in Moves : head[m].name # NoName => <<head[m].name, m>> \in drawn
SeenDrawn ==
  \A w \in Workers : req[w].seen.name # NoName => <<req[w].seen.name, req[w].move>> \in drawn
RowOwned ==
  \A k \in Keys, w \in Workers :
    rowLock[k] = w => /\ req[w].step = "commit"
                      /\ req[w].name = [key |-> k, no |-> lastNo[k] + 1]
CommitNumbered ==
  \A w \in Workers : req[w].step = "commit" =>
    \/ rowLock[req[w].name.key] = w
    \/ <<req[w].name, req[w].move>> \in drawn
PostedNamed == \A m \in Moves : state[m] = "posted" => head[m].name # NoName

NumInv == /\ NumbersCounted /\ OneOwner /\ NamesDrawn /\ SeenDrawn
          /\ RowOwned /\ CommitNumbered /\ PostedNamed

LEMMA InitNumInv == Init => NumInv
<1> SUFFICES ASSUME Init PROVE NumInv
  OBVIOUS
<1> USE ConstantsOK DEF Init
<1>1. NumbersCounted /\ OneOwner /\ NamesDrawn /\ PostedNamed
  BY DEF NumbersCounted, OneOwner, NamesDrawn, PostedNamed, NoHeader
<1>2. SeenDrawn /\ RowOwned /\ CommitNumbered
  BY DEF SeenDrawn, RowOwned, CommitNumbered, Idle, NoHeader
<1>3. QED
  BY <1>1, <1>2 DEF NumInv

\* What a step that gives out no number may do to the names and to a request.
QuietHeads ==
  \A m \in Moves :
    /\ head'[m].name = NoName \/ head'[m].name = head[m].name
    /\ state'[m] = "posted" => state[m] = "posted" /\ head'[m].name = head[m].name

HoldsNone(w) == \A k \in Keys : rowLock'[k] # w

QuietSeen(w) ==
  \/ req'[w].seen.name = NoName
  \/ req'[w].move = req[w].move /\ req'[w].seen.name = req[w].seen.name
  \/ req'[w].move \in Moves /\ req'[w].seen.name = head[req'[w].move].name

QuietCommit(w) ==
  \/ req'[w].step # "commit" /\ HoldsNone(w)
  \/ /\ req'[w].step = "commit" /\ <<req'[w].name, req'[w].move>> \in drawn
     /\ HoldsNone(w)
  \/ /\ req[w].step = "commit" /\ req'[w].step = "commit"
     /\ req'[w].name = req[w].name /\ req'[w].move = req[w].move
     /\ \A k \in Keys : rowLock'[k] = w <=> rowLock[k] = w

LEMMA QuietNumInv ==
  ASSUME TypeInv, NumInv, UNCHANGED <<lastNo, drawn>>, QuietHeads,
         \A w \in Workers : QuietSeen(w) /\ QuietCommit(w)
  PROVE  NumInv'
<1>1. NumbersCounted' /\ OneOwner'
  BY DEF NumInv, NumbersCounted, OneOwner
<1>2. NamesDrawn' /\ PostedNamed'
  BY DEF NumInv, NamesDrawn, PostedNamed, QuietHeads
<1>3. SeenDrawn'
  BY DEF NumInv, SeenDrawn, NamesDrawn, QuietSeen
<1>4. RowOwned'
  BY DEF NumInv, RowOwned, QuietCommit, HoldsNone
<1>5. CommitNumbered'
  <2> SUFFICES ASSUME NEW w \in Workers, req'[w].step = "commit",
                      <<req'[w].name, req'[w].move>> \notin drawn
               PROVE  rowLock'[req'[w].name.key] = w
    BY DEF CommitNumbered
  <2>1. /\ req[w].step = "commit" /\ req'[w].name = req[w].name
        /\ req'[w].move = req[w].move
        /\ \A k \in Keys : rowLock'[k] = w <=> rowLock[k] = w
    BY DEF QuietCommit
  <2>2. req[w].name \in Name
    BY <2>1 DEF TypeInv, Shape
  <2>3. req[w].name.key \in Keys
    BY <2>2 DEF Name
  <2>4. rowLock[req[w].name.key] = w
    BY <2>1 DEF NumInv, CommitNumbered
  <2>5. QED
    BY <2>1, <2>3, <2>4
<1>6. QED
  BY <1>1, <1>2, <1>3, <1>4, <1>5 DEF NumInv

\* A request that a step does not touch, and one that ends
LEMMA UntouchedQuiet ==
  ASSUME TypeInv, NumInv, NEW w \in Workers,
         req'[w].step = req[w].step, req'[w].move = req[w].move,
         req'[w].seen = req[w].seen, req'[w].name = req[w].name,
         \A k \in Keys : rowLock'[k] = w <=> rowLock[k] = w
  PROVE  QuietSeen(w) /\ QuietCommit(w)
<1>1. QuietSeen(w)
  BY DEF QuietSeen
<1>2. QuietCommit(w)
  BY DEF QuietCommit, HoldsNone, NumInv, RowOwned
<1>3. QED
  BY <1>1, <1>2

LEMMA ClientNumInv ==
  ASSUME TypeInv, NumInv, QuietHeads, UNCHANGED <<lastNo, drawn, rowLock>>,
         \A w \in Workers : /\ req'[w].step = req[w].step /\ req'[w].move = req[w].move
                            /\ req'[w].seen = req[w].seen /\ req'[w].name = req[w].name
  PROVE  NumInv'
BY QuietNumInv, UntouchedQuiet

\* A step of one request, the others untouched
LEMMA OneRequestNumInv ==
  ASSUME TypeInv, NumInv, NEW w \in Workers, NEW r, QuietHeads,
         UNCHANGED <<lastNo, drawn>>, req' = [req EXCEPT ![w] = r],
         \A k \in Keys : rowLock'[k] = rowLock[k] \/ (rowLock[k] = w /\ rowLock'[k] = NoWorker),
         QuietSeen(w), QuietCommit(w)
  PROVE  NumInv'
<1> USE ConstantsOK
<1>1. ASSUME NEW v \in Workers PROVE QuietSeen(v) /\ QuietCommit(v)
  <2>1. CASE v = w
    BY <2>1
  <2>2. CASE v # w
    <3>1. req'[v] = req[v]
      BY <2>2 DEF TypeInv, TypeOK
    <3>2. \A k \in Keys : rowLock'[k] = v <=> rowLock[k] = v
      BY <2>2
    <3>3. QED
      BY <3>1, <3>2, UntouchedQuiet
  <2>3. QED
    BY <2>1, <2>2
<1>2. QED
  BY <1>1, QuietNumInv
LEMMA BeginNumInv ==
  ASSUME TypeInv, NumInv, NEW w \in Workers, NEW m \in Moves, NEW c,
         NEW s \in Steps \ {"commit"}, NEW h, NEW a,
         h.name = head[m].name, Begin(w, m, c, s, h, a)
  PROVE  NumInv'
<1>1. req'[w] = Ask(s, m, h, a)
  BY DEF Begin, TypeInv, TypeOK
<1>2. QuietSeen(w)
  BY <1>1 DEF QuietSeen, Ask
<1>3. \A k \in Keys : rowLock[k] # w
  BY DEF Begin, At, NumInv, RowOwned
<1>4. QuietCommit(w)
  BY <1>1, <1>3 DEF QuietCommit, Ask, HoldsNone, Begin
<1>5. QuietHeads
  BY DEF QuietHeads, Begin
<1>6. QED
  BY <1>2, <1>4, <1>5, OneRequestNumInv DEF Begin

LEMMA RequestNumInv ==
  ASSUME TypeInv, NumInv, NEW w \in Workers, NEW m \in Moves, Request(w, m)
  PROVE  NumInv'
<1>0. {"prepare", "guard", "cancel", "unlink", "match", "header", "line"}
        \subseteq Steps \ {"commit"}
  BY DEF Steps, PostSteps
<1>1. CASE PostBegin(w, m)
  BY <1>0, <1>1, BeginNumInv DEF PostBegin
<1>2. CASE ResetBegin(w, m)
  BY <1>0, <1>2, BeginNumInv DEF ResetBegin
<1>3. CASE CancelBegin(w, m)
  BY <1>0, <1>3, BeginNumInv DEF CancelBegin
<1>4. CASE UnlinkBegin(w, m)
  BY <1>0, <1>4, BeginNumInv DEF UnlinkBegin
<1>5. CASE MatchBegin(w, m)
  BY <1>0, <1>5, BeginNumInv DEF MatchBegin
<1>6. CASE \E j \in Journals, d \in Dates : HeaderBegin(w, m, j, d)
  <2>1. PICK j \in Journals, d \in Dates : HeaderBegin(w, m, j, d)
    BY <1>6
  <2>2. Redated(head[m], j, d).name = head[m].name
    BY DEF Redated
  <2>3. QED
    BY <1>0, <2>1, <2>2, BeginNumInv DEF HeaderBegin
<1>7. CASE \E a \in Amounts : LineWriteBegin(w, m, a)
  BY <1>0, <1>7, BeginNumInv DEF LineWriteBegin
<1>8. QED
  BY <1>1, <1>2, <1>3, <1>4, <1>5, <1>6, <1>7 DEF Request

\* The end of a request that commits no number, whatever it does to the documents
LEMMA FinishNumInv ==
  ASSUME TypeInv, NumInv, NEW w \in Workers, QuietHeads, Finish(w),
         UNCHANGED <<lastNo, drawn>>,
         \/ UNCHANGED rowLock /\ ~At(w, "commit")
         \/ ReleaseRows(w)
  PROVE  NumInv'
<1> USE ConstantsOK
<1>1. req'[w] = Idle
  BY DEF Finish, TypeInv, TypeOK
<1>2. QuietSeen(w)
  BY <1>1 DEF QuietSeen, Idle, NoHeader
<1>3. /\ HoldsNone(w)
      /\ \A k \in Keys : rowLock'[k] = rowLock[k]
                         \/ (rowLock[k] = w /\ rowLock'[k] = NoWorker)
  BY DEF HoldsNone, ReleaseRows, At, NumInv, RowOwned
<1>4. QuietCommit(w)
  BY <1>1, <1>3 DEF QuietCommit, Idle
<1>5. QED
  BY <1>2, <1>3, <1>4, OneRequestNumInv DEF Finish

\* The steps of a request other than PostNumber and PostCommit
LEMMA QuietStepNumInv ==
  ASSUME TypeInv, NumInv, NEW w \in Workers,
         \/ PostPrepare(w) \/ PostCheck(w) \/ ResetGuard(w) \/ ResetCommit(w)
         \/ CancelCommit(w) \/ HeaderCommit(w) \/ UnlinkCommit(w)
         \/ LineWriteCommit(w) \/ MatchCommit(w) \/ Refused(w) \/ RequestFails(w)
  PROVE  NumInv'
<1> USE ConstantsOK
<1>1. CASE PostPrepare(w) \/ ResetGuard(w)
  <2>1. PICK s \in {"check", "reset"} : req' = [req EXCEPT ![w].step = s]
    BY <1>1 DEF PostPrepare, ResetGuard, Goto
  <2> DEFINE r == [req[w] EXCEPT !.step = s]
  <2>2. req' = [req EXCEPT ![w] = r]
    BY <2>1
  <2>3. /\ req'[w].step = s /\ req'[w].seen = req[w].seen /\ req'[w].move = req[w].move
    BY <2>1 DEF TypeInv, TypeOK
  <2>4. \A k \in Keys : rowLock'[k] # w
    BY <1>1 DEF PostPrepare, ResetGuard, At, NumInv, RowOwned
  <2>5. QuietSeen(w) /\ QuietCommit(w)
    BY <2>3, <2>4 DEF QuietSeen, QuietCommit, HoldsNone
  <2>6. QuietHeads /\ UNCHANGED <<lastNo, drawn, rowLock>>
    BY <1>1 DEF PostPrepare, ResetGuard, QuietHeads
  <2>7. QED
    BY <2>2, <2>5, <2>6, OneRequestNumInv
<1>2. CASE PostCheck(w)
  <2> DEFINE seen == req[w].seen
             d == AfterLock(seen.date)
  <2>1. \/ Advance(w, "commit", d, seen.name) /\ KeepsName(Doc(w), seen, d)
        \/ Advance(w, "number", d, NoName)
    BY <1>2 DEF PostCheck
  <2>2. /\ req' = [req EXCEPT ![w] = req'[w]]
        /\ req'[w].move = req[w].move /\ req'[w].seen = seen
        /\ \/ req'[w].step = "commit" /\ req'[w].name = seen.name /\ seen.name # NoName
           \/ req'[w].step = "number"
    BY <2>1 DEF Advance, KeepsName, TypeInv, TypeOK
  <2>3. HoldsNone(w)
    BY <1>2 DEF PostCheck, At, HoldsNone, NumInv, RowOwned
  <2>4. QuietSeen(w) /\ QuietCommit(w)
    BY <2>2, <2>3 DEF QuietSeen, QuietCommit, NumInv, SeenDrawn
  <2>5. QuietHeads
    BY <1>2 DEF PostCheck, QuietHeads
  <2>6. QED
    BY <1>2, <2>2, <2>4, <2>5, OneRequestNumInv DEF PostCheck
<1>3. CASE ResetCommit(w) \/ CancelCommit(w) \/ UnlinkCommit(w)
  <2>1. PICK s \in {"draft", "cancel", "deleted"} : Overwrite(w, s)
    BY <1>3 DEF ResetCommit, CancelCommit, UnlinkCommit
  <2>2. /\ Finish(w) /\ ~At(w, "commit")
        /\ UNCHANGED <<head, lines, matched, lastNo, rowLock, lockDate, drawn>>
    BY <1>3 DEF ResetCommit, CancelCommit, UnlinkCommit, At
  <2>3. \A m \in Moves : state'[m] = "posted" => state[m] = "posted"
    BY <2>1 DEF Overwrite, TypeInv, TypeOK
  <2>4. QuietHeads
    BY <2>2, <2>3 DEF QuietHeads
  <2>5. QED
    BY <2>2, <2>4, FinishNumInv
<1>4. CASE HeaderCommit(w)
  <2>1. /\ Finish(w) /\ ~At(w, "commit") /\ UNCHANGED <<state, rowLock, lastNo, drawn>>
    BY <1>4 DEF HeaderCommit, At
  <2>2. \A m \in Moves : head'[m].name = head[m].name
    BY <1>4 DEF HeaderCommit, Redated, TypeInv, TypeOK
  <2>3. QuietHeads
    BY <2>1, <2>2 DEF QuietHeads
  <2>4. QED
    BY <2>1, <2>3, FinishNumInv
<1>5. CASE LineWriteCommit(w) \/ MatchCommit(w)
  <2>1. /\ Finish(w) /\ ~At(w, "commit")
        /\ UNCHANGED <<state, head, rowLock, lastNo, drawn>>
    BY <1>5 DEF LineWriteCommit, MatchCommit, At
  <2>2. QED
    BY <2>1, FinishNumInv DEF QuietHeads
<1>6. CASE Refused(w) \/ RequestFails(w)
  <2>1. Rollback(w)
    BY <1>6 DEF Refused, RequestFails
  <2>2. QED
    BY <2>1, FinishNumInv DEF Rollback, QuietHeads
<1>7. QED
  BY <1>1, <1>2, <1>3, <1>4, <1>5, <1>6

LEMMA PostNumberNumInv ==
  ASSUME TypeInv, NumInv, NEW w \in Workers, PostNumber(w)
  PROVE  NumInv'
<1> USE ConstantsOK
<1> DEFINE key == <<req[w].seen.journal, YearOf(req[w].date)>>
           name == [key |-> key, no |-> lastNo[key] + 1]
<1>1. /\ rowLock[key] = NoWorker
      /\ rowLock' = [rowLock EXCEPT ![key] = w]
      /\ Advance(w, "commit", req[w].date, name)
      /\ UNCHANGED <<state, head, lines, matched, lastNo, lockDate, drawn>>
  BY DEF PostNumber
<1>2. key \in Keys
  BY DEF PostNumber, At, TypeInv, Shape, Header, Keys, Years, YearOf
<1>3. /\ req'[w].step = "commit" /\ req'[w].name = name
      /\ req'[w].move = req[w].move /\ req'[w].seen = req[w].seen
      /\ \A v \in Workers \ {w} : req'[v] = req[v]
  BY <1>1 DEF Advance, TypeInv, TypeOK
<1>4. rowLock'[key] = w /\ \A k \in Keys \ {key} : rowLock'[k] = rowLock[k]
  BY <1>1, <1>2 DEF TypeInv, TypeOK
<1>5. NumbersCounted' /\ OneOwner' /\ NamesDrawn' /\ PostedNamed'
  BY <1>1 DEF NumInv, NumbersCounted, OneOwner, NamesDrawn, PostedNamed
<1>6. SeenDrawn'
  BY <1>1, <1>3 DEF NumInv, SeenDrawn
<1>7. RowOwned'
  <2>1. \A k \in Keys : rowLock[k] # w
    BY DEF PostNumber, At, NumInv, RowOwned
  <2> SUFFICES ASSUME NEW k \in Keys, NEW v \in Workers, rowLock'[k] = v
               PROVE  /\ req'[v].step = "commit"
                      /\ req'[v].name = [key |-> k, no |-> lastNo[k] + 1]
    BY <1>1 DEF RowOwned
  <2>2. CASE k = key
    BY <1>3, <1>4, <2>2
  <2>3. CASE k # key
    <3>1. rowLock[k] = v /\ v # w
      BY <1>4, <2>1, <2>3
    <3>2. QED
      BY <1>3, <3>1 DEF NumInv, RowOwned
  <2>4. QED
    BY <2>2, <2>3
<1>8. CommitNumbered'
  <2> SUFFICES ASSUME NEW v \in Workers, req'[v].step = "commit"
               PROVE  \/ rowLock'[req'[v].name.key] = v
                      \/ <<req'[v].name, req'[v].move>> \in drawn
    BY <1>1 DEF CommitNumbered
  <2>1. CASE v = w
    BY <1>3, <1>4, <2>1
  <2>2. CASE v # w
    <3>1. req'[v] = req[v] /\ req[v].name \in Name
      BY <1>3, <2>2 DEF TypeInv, Shape
    <3>2. req[v].name.key \in Keys
      BY <3>1 DEF Name
    <3>3. rowLock[req[v].name.key] = v => rowLock'[req[v].name.key] = v
      BY <1>1, <1>4, <3>2
    <3>4. QED
      BY <3>1, <3>3 DEF NumInv, CommitNumbered
  <2>3. QED
    BY <2>1, <2>2
<1>9. QED
  BY <1>5, <1>6, <1>7, <1>8 DEF NumInv
\* A commit gives out the next number of the row it has locked, or writes again a
\* number its document already has.
LEMMA CommitDraws ==
  ASSUME TypeInv, NumInv, NEW w \in Workers, PostCommit(w)
  PROVE  LET r == req[w]
             k == r.name.key
         IN /\ r.name \in Name /\ k \in Keys /\ r.move \in Moves
            /\ \A n \in Keys : n # k => rowLock[n] # w
            /\ \/ /\ rowLock[k] = w /\ r.name = [key |-> k, no |-> lastNo[k] + 1]
                  /\ lastNo' = [lastNo EXCEPT ![k] = @ + 1]
                  /\ drawn' = drawn \cup {<<r.name, r.move>>}
               \/ /\ <<r.name, r.move>> \in drawn /\ \A n \in Keys : rowLock[n] # w
                  /\ UNCHANGED <<lastNo, drawn>>
<1> DEFINE r == req[w]
           k == r.name.key
<1>1. r.step = "commit" /\ r.name \in Name /\ r.move \in Moves
  BY DEF PostCommit, At, TypeInv, Shape
<1>2. k \in Keys
  BY <1>1 DEF Name
<1>3. ASSUME NEW n \in Keys, rowLock[n] = w PROVE n = k
  <2>1. r.name = [key |-> n, no |-> lastNo[n] + 1]
    BY <1>3 DEF NumInv, RowOwned
  <2>2. QED
    BY <2>1
<1>4. /\ lastNo \in [Keys -> Nat]
      /\ lastNo' = [n \in Keys |-> IF rowLock[n] = w THEN lastNo[n] + 1 ELSE lastNo[n]]
      /\ drawn' = drawn \cup {<<r.name, r.move>>}
  BY DEF PostCommit, Doc, TypeInv, TypeOK
<1>5. CASE rowLock[k] = w
  <2>1. r.name = [key |-> k, no |-> lastNo[k] + 1]
    BY <1>2, <1>5 DEF NumInv, RowOwned
  <2>2. lastNo' = [lastNo EXCEPT ![k] = @ + 1]
    BY <1>2, <1>3, <1>4, <1>5
  <2>3. QED
    BY <1>1, <1>2, <1>3, <1>4, <1>5, <2>1, <2>2
<1>6. CASE rowLock[k] # w
  <2>1. <<r.name, r.move>> \in drawn
    BY <1>1, <1>6 DEF NumInv, CommitNumbered
  <2>2. \A n \in Keys : rowLock[n] # w
    BY <1>3, <1>6
  <2>3. UNCHANGED <<lastNo, drawn>>
    BY <1>4, <2>1, <2>2
  <2>4. QED
    BY <1>1, <1>2, <1>3, <2>1, <2>2, <2>3
<1>7. QED
  BY <1>5, <1>6

LEMMA PostCommitNumInv ==
  ASSUME TypeInv, NumInv, NEW w \in Workers, PostCommit(w)
  PROVE  NumInv'
<1> USE ConstantsOK
<1> DEFINE r == req[w]
           k == r.name.key
<1>1. /\ r.name \in Name /\ k \in Keys /\ r.move \in Moves
      /\ \A n \in Keys : n # k => rowLock[n] # w
  BY CommitDraws
<1>2. <<r.name, r.move>> \in drawn'
  BY DEF PostCommit, Doc
<1>3. /\ req'[w] = Idle
      /\ \A v \in Workers \ {w} : req'[v] = req[v]
      /\ \A n \in Keys : rowLock'[n] = IF rowLock[n] = w THEN NoWorker ELSE rowLock[n]
  BY DEF PostCommit, Finish, ReleaseRows, TypeInv, TypeOK
<1>4. drawn \subseteq drawn'
  BY DEF PostCommit
<1>5. r.name # NoName
  BY <1>1 DEF Name, NoName
<1>6. \A m \in Moves :
        \/ head'[m] = head[m] /\ state'[m] = state[m]
        \/ m = r.move /\ head'[m].name = r.name
  BY DEF PostCommit, Doc, TypeInv, TypeOK
<1>7. NamesDrawn' /\ PostedNamed'
  BY <1>2, <1>4, <1>5, <1>6 DEF NumInv, NamesDrawn, PostedNamed
<1>8. SeenDrawn'
  BY <1>3, <1>4 DEF NumInv, SeenDrawn, Idle, NoHeader
<1>9. CommitNumbered'
  <2> SUFFICES ASSUME NEW v \in Workers, req'[v].step = "commit"
               PROVE  \/ rowLock'[req'[v].name.key] = v
                      \/ <<req'[v].name, req'[v].move>> \in drawn'
    BY DEF CommitNumbered
  <2>1. v # w /\ req'[v] = req[v]
    BY <1>3 DEF Idle
  <2>2. req[v].name \in Name
    BY <2>1 DEF TypeInv, Shape
  <2>3. req[v].name.key \in Keys
    BY <2>2 DEF Name
  <2>4. QED
    BY <1>3, <1>4, <2>1, <2>3 DEF NumInv, CommitNumbered
<1>10. CASE UNCHANGED <<lastNo, drawn>>
  <2>1. NumbersCounted' /\ OneOwner'
    BY <1>10 DEF NumInv, NumbersCounted, OneOwner
  <2>2. RowOwned'
    BY <1>3, <1>10 DEF NumInv, RowOwned
  <2>3. QED
    BY <1>7, <1>8, <1>9, <2>1, <2>2 DEF NumInv
<1>11. CASE /\ rowLock[k] = w /\ r.name = [key |-> k, no |-> lastNo[k] + 1]
            /\ lastNo' = [lastNo EXCEPT ![k] = @ + 1]
            /\ drawn' = drawn \cup {<<r.name, r.move>>}
  <2>1. /\ lastNo \in [Keys -> Nat] /\ lastNo'[k] = lastNo[k] + 1
        /\ \A n \in Keys \ {k} : lastNo'[n] = lastNo[n]
        /\ \A p \in drawn : p[1].key \in Keys /\ p[1].no \in Nat
    BY <1>1, <1>11 DEF TypeInv, TypeOK, Name
  <2>2. r.name.no = lastNo[k] + 1
    BY <1>11
  <2>3. \A p \in drawn : p[1].no <= lastNo[p[1].key]
    BY DEF NumInv, NumbersCounted
  <2>4. NumbersCounted'
    <3> SUFFICES ASSUME NEW p \in drawn' PROVE p[1].no <= lastNo'[p[1].key]
      BY DEF NumbersCounted
    <3>1. CASE p = <<r.name, r.move>>
      BY <1>1, <2>1, <2>2, <3>1
    <3>2. CASE p \in drawn /\ p[1].key = k
      BY <1>1, <2>1, <2>3, <3>2
    <3>3. CASE p \in drawn /\ p[1].key # k
      BY <2>1, <2>3, <3>3
    <3>4. QED
      BY <1>11, <3>1, <3>2, <3>3
  <2>5. \A p \in drawn : p[1] # r.name
    <3>1. SUFFICES ASSUME NEW p \in drawn, p[1] = r.name PROVE FALSE
      OBVIOUS
    <3>2. lastNo[k] + 1 <= lastNo[k]
      BY <2>2, <2>3, <3>1
    <3>3. QED
      BY <1>1, <2>1, <3>2
  <2>6. OneOwner'
    BY <1>11, <2>5 DEF NumInv, OneOwner
  <2>7. RowOwned'
    <3> SUFFICES ASSUME NEW n \in Keys, NEW v \in Workers, rowLock'[n] = v
                 PROVE  /\ req'[v].step = "commit"
                        /\ req'[v].name = [key |-> n, no |-> lastNo'[n] + 1]
      BY DEF RowOwned
    <3>1. rowLock[n] = v /\ v # w
      BY <1>3
    <3>2. n # k
      BY <1>11, <3>1
    <3>3. QED
      BY <1>3, <2>1, <3>1, <3>2 DEF NumInv, RowOwned
  <2>8. QED
    BY <1>7, <1>8, <1>9, <2>4, <2>6, <2>7 DEF NumInv
<1>12. QED
  BY <1>10, <1>11, CommitDraws

LEMMA NextNumInv == TypeInv /\ NumInv /\ [Next]_vars => NumInv'
<1> SUFFICES ASSUME TypeInv, NumInv, [Next]_vars PROVE NumInv'
  OBVIOUS
<1>1. ASSUME NEW w \in Workers, Step(w) \/ RequestFails(w) PROVE NumInv'
  BY <1>1, QuietStepNumInv, PostNumberNumInv, PostCommitNumInv DEF Step
<1>2. ASSUME NEW w \in Workers, NEW m \in Moves, Request(w, m) PROVE NumInv'
  BY <1>2, RequestNumInv
<1>3. ASSUME NEW m \in Moves, Client(m) PROVE NumInv'
  <2>1. CASE \E j \in Journals, t \in MoveTypes, d \in Dates : CreateMove(m, j, t, d)
    <3>1. \A n \in Moves : /\ head'[n].name = NoName \/ head'[n] = head[n]
                           /\ state'[n] = "posted" => state[n] = "posted" /\ head'[n] = head[n]
      BY <2>1 DEF CreateMove, TypeInv, TypeOK
    <3>2. QED
      BY <2>1, <3>1, ClientNumInv DEF CreateMove, QuietHeads
  <2>2. CASE (\E a \in Amounts : LineCreate(m, a)) \/ LineUnlink(m) \/ Unmatch(m)
    BY <2>2, ClientNumInv DEF LineCreate, LineUnlink, Unmatch, QuietHeads
  <2>3. QED
    BY <1>3, <2>1, <2>2 DEF Client
<1>4. ASSUME NEW d \in 0..(MaxDate - 1), SetLock(d) PROVE NumInv'
  <2>1. \A w \in Workers : /\ req'[w].step = req[w].step /\ req'[w].move = req[w].move
                           /\ req'[w].seen = req[w].seen /\ req'[w].name = req[w].name
    BY <1>4 DEF SetLock, TypeInv, TypeOK
  <2>2. QED
    BY <1>4, <2>1, ClientNumInv DEF SetLock, QuietHeads
<1>5. CASE UNCHANGED vars
  BY <1>5, ClientNumInv DEF vars, QuietHeads
<1>6. QED
  BY <1>1, <1>2, <1>3, <1>4, <1>5 DEF Next

\* However requests overlap, fail, re-post under an old number or move a document
\* to another journal, posted documents are numbered and never share a number.
THEOREM Numbering == Spec => []NamesUnique
<1>1. TypeInv /\ NumInv => NamesUnique
  <2> SUFFICES ASSUME TypeInv, NumInv PROVE NamesUnique
    OBVIOUS
  <2>1. \A m \in Moves : state[m] = "posted" => head[m].name # NoName
    BY DEF NumInv, PostedNamed
  <2>2. ASSUME NEW m \in Moves, NEW n \in Moves, m # n, head[m].name # NoName,
               head[m].name = head[n].name
        PROVE  FALSE
    <3>1. <<head[m].name, m>> \in drawn /\ <<head[m].name, n>> \in drawn
      BY <2>2 DEF NumInv, NamesDrawn
    <3>2. <<head[m].name, m>>[2] = <<head[m].name, n>>[2]
      BY <3>1 DEF NumInv, OneOwner
    <3>3. QED
      BY <2>2, <3>2
  <2>3. QED
    BY <2>1, <2>2 DEF NamesUnique
<1>2. Spec => [](TypeInv /\ NumInv)
  BY InitTypeInv, InitNumInv, NextTypeInv, NextNumInv, PTL DEF Spec
<1>3. QED
  BY <1>1, <1>2, PTL

\* A step gives out one number in its place in the register, or none.
LEMMA StepIssues ==
  TypeInv /\ NumInv /\ [Next]_vars => [Register!Next]_<<lastNo, drawn>>
<1> SUFFICES ASSUME TypeInv, NumInv, [Next]_vars
             PROVE  [Register!Next]_<<lastNo, drawn>>
  OBVIOUS
<1>1. ASSUME NEW w \in Workers, PostCommit(w) PROVE [Register!Next]_<<lastNo, drawn>>
  <2> DEFINE r == req[w]
             k == r.name.key
  <2>1. k \in Keys /\ r.move \in Moves
    BY <1>1, CommitDraws
  <2>2. CASE UNCHANGED <<lastNo, drawn>>
    BY <2>2
  <2>3. CASE /\ r.name = [key |-> k, no |-> lastNo[k] + 1]
             /\ lastNo' = [lastNo EXCEPT ![k] = @ + 1]
             /\ drawn' = drawn \cup {<<r.name, r.move>>}
    <3>1. Register!Issue(k, r.move)
      BY <2>3 DEF Register!Issue
    <3>2. QED
      BY <2>1, <3>1 DEF Register!Next
  <2>4. QED
    BY <1>1, <2>2, <2>3, CommitDraws
<1>2. ASSUME NEW w \in Workers,
             \/ PostPrepare(w) \/ PostCheck(w) \/ PostNumber(w) \/ ResetGuard(w)
             \/ ResetCommit(w) \/ CancelCommit(w) \/ HeaderCommit(w) \/ UnlinkCommit(w)
             \/ LineWriteCommit(w) \/ MatchCommit(w) \/ Refused(w) \/ RequestFails(w)
      PROVE  UNCHANGED <<lastNo, drawn>>
  BY <1>2 DEF PostPrepare, PostCheck, PostNumber, ResetGuard, ResetCommit, CancelCommit,
              HeaderCommit, UnlinkCommit, LineWriteCommit, MatchCommit, Refused,
              RequestFails, Rollback
<1>3. ASSUME NEW w \in Workers, NEW m \in Moves, Request(w, m)
      PROVE  UNCHANGED <<lastNo, drawn>>
  BY <1>3 DEF Request, PostBegin, ResetBegin, CancelBegin, UnlinkBegin, MatchBegin,
              HeaderBegin, LineWriteBegin, Begin
<1>4. ASSUME NEW m \in Moves, Client(m) PROVE UNCHANGED <<lastNo, drawn>>
  BY <1>4 DEF Client, CreateMove, LineCreate, LineUnlink, Unmatch
<1>5. ASSUME NEW d \in 0..(MaxDate - 1), SetLock(d) PROVE UNCHANGED <<lastNo, drawn>>
  BY <1>5 DEF SetLock
<1>6. CASE UNCHANGED vars
  BY <1>6 DEF vars
<1>7. QED
  BY <1>1, <1>2, <1>3, <1>4, <1>5, <1>6 DEF Next, Step

\* Posting, with its reads, waits, failures and re-posts, implements the register:
\* numbers go out in order, with the commit that uses them, to one document for ever.
THEOREM Implements == Spec => ImplementsRegister
<1>1. Init => Register!Init
  BY DEF Init, Register!Init
<1>2. Spec => [](TypeInv /\ NumInv)
  BY InitTypeInv, InitNumInv, NextTypeInv, NextNumInv, PTL DEF Spec
<1>3. QED
  BY <1>1, <1>2, StepIssues, PTL DEF Spec, ImplementsRegister, Register!Spec
-----------------------------------------------------------------------------
(* The rules of the ledger. When nobody has two requests open on one       *)
(* document, posted documents balance, matched ones stay posted and closed *)
(* periods stay as they are, for any number of documents and of requests   *)
(* that interleave, fail and end anywhere.                                 *)
\* No two requests are open on one document.
Apart ==
  /\ \A w \in Workers : At(w, "idle") => Doc(w) = NoMove
  /\ \A v, w \in Workers : v # w /\ Doc(v) # NoMove => Doc(v) # Doc(w)

\* What a request has read of its document is still so: the state it asked for, the
\* date it checked against the lock date, the lines it found balanced. The date it
\* will post at or reset from is open by all the lock dates it has lived through.
StillSo(w) ==
  LET r == req[w]
      m == Doc(w)
  IN /\ ~At(w, "idle") => r.floor <= lockDate
     /\ r.step \in PostSteps \cup {"cancel", "header", "line", "unlink"} => state[m] # "posted"
     /\ r.step \in {"guard", "reset", "match"} => state[m] = "posted"
     /\ r.step \in {"guard", "reset"} => r.seen.date = head[m].date
     /\ At(w, "reset") => r.seen.date > r.floor
     /\ r.step \in {"number", "commit"} =>
          r.date > r.floor /\ (FrozenLines => HasLines(lines[m]) /\ Balanced(lines[m]))

BalancedKept == FrozenLines => PostedBalanced

LedgerInv ==
  /\ Apart
  /\ \A w \in Workers : StillSo(w)
  /\ BalancedKept
  /\ MatchedIsPosted

LEMMA InitLedgerInv == Init => LedgerInv
<1> SUFFICES ASSUME Init PROVE LedgerInv
  OBVIOUS
<1>1. \A w \in Workers : req[w] = Idle
  BY DEF Init
<1>2. Apart /\ \A w \in Workers : StillSo(w)
  BY <1>1 DEF Apart, StillSo, At, Doc, Idle, PostSteps
<1>3. BalancedKept /\ MatchedIsPosted
  BY DEF Init, BalancedKept, PostedBalanced, MatchedIsPosted
<1>4. QED
  BY <1>2, <1>3 DEF LedgerInv

\* A step of one request on its document, which no other request is about.
LEMMA StepLedgerInv ==
  ASSUME TypeInv, LedgerInv, NEW w \in Workers, NEW m \in Moves,
         \A v \in Workers \ {w} : req'[v] = req[v] /\ Doc(v) # m,
         \A n \in Moves \ {m} : /\ state'[n] = state[n] /\ head'[n] = head[n]
                                /\ lines'[n] = lines[n] /\ matched'[n] = matched[n],
         UNCHANGED lockDate,
         StillSo(w)', Doc(w)' \in {m, NoMove}, (At(w, "idle") => Doc(w) = NoMove)',
         FrozenLines => (state'[m] = "posted" => HasLines(lines'[m]) /\ Balanced(lines'[m])),
         matched'[m] => state'[m] = "posted"
  PROVE  LedgerInv'
<1> USE ConstantsOK
<1>1. Apart'
  BY DEF LedgerInv, Apart, At, Doc
<1>2. ASSUME NEW v \in Workers \ {w} PROVE StillSo(v)'
  <2>1. CASE At(v, "idle")
    BY <2>1 DEF StillSo, At, PostSteps
  <2>2. CASE ~At(v, "idle")
    <3>1. Doc(v) \in Moves \ {m}
      BY <2>2 DEF TypeInv, Shape, At, Doc
    <3>2. StillSo(v)
      BY DEF LedgerInv
    <3>3. QED
      BY <3>1, <3>2 DEF StillSo, At, Doc
  <2>3. QED
    BY <2>1, <2>2
<1>3. BalancedKept' /\ MatchedIsPosted'
  BY DEF LedgerInv, BalancedKept, PostedBalanced, MatchedIsPosted
<1>4. QED
  BY <1>1, <1>2, <1>3 DEF LedgerInv

\* A call of one transaction on a document no request is about.
LEMMA EditLedgerInv ==
  ASSUME TypeInv, LedgerInv, NEW m \in Moves,
         \A v \in Workers : Doc(v) # m,
         \A n \in Moves \ {m} : /\ state'[n] = state[n] /\ head'[n] = head[n]
                                /\ lines'[n] = lines[n] /\ matched'[n] = matched[n],
         UNCHANGED <<lockDate, req>>,
         FrozenLines => (state'[m] = "posted" => HasLines(lines'[m]) /\ Balanced(lines'[m])),
         matched'[m] => state'[m] = "posted"
  PROVE  LedgerInv'
<1> USE ConstantsOK
<1>1. Apart'
  BY DEF LedgerInv, Apart, At, Doc
<1>2. ASSUME NEW v \in Workers PROVE StillSo(v)'
  <2>1. CASE At(v, "idle")
    BY <2>1 DEF StillSo, At, PostSteps
  <2>2. CASE ~At(v, "idle")
    <3>1. Doc(v) \in Moves \ {m}
      BY <2>2 DEF TypeInv, Shape, At, Doc
    <3>2. StillSo(v)
      BY DEF LedgerInv
    <3>3. QED
      BY <3>1, <3>2 DEF StillSo, At, Doc
  <2>3. QED
    BY <2>1, <2>2
<1>3. BalancedKept' /\ MatchedIsPosted'
  BY DEF LedgerInv, BalancedKept, PostedBalanced, MatchedIsPosted
<1>4. QED
  BY <1>1, <1>2, <1>3 DEF LedgerInv

LEMMA BeginLedgerInv ==
  ASSUME TypeInv, LedgerInv, OneAtATime, NEW w \in Workers, NEW m \in Moves, Request(w, m)
  PROVE  LedgerInv'
<1> USE ConstantsOK
<1>1. PICK step, seen, a, c :
        /\ step \in Steps /\ seen \in Header \cup {NoHeader}
        /\ Begin(w, m, c, step, seen, a)
        /\ step \in {"prepare", "cancel", "header", "unlink", "line"} => state[m] # "posted"
        /\ step \in {"guard", "match"} => state[m] = "posted" /\ seen = head[m]
        /\ step \in {"prepare", "cancel", "header", "unlink", "line", "guard", "match"}
  <2>0. head[m] \in Header \cup {NoHeader}
    BY DEF TypeInv, TypeOK
  <2>1. CASE \E j \in Journals, d \in Dates : HeaderBegin(w, m, j, d)
    <3>1. PICK j \in Journals, d \in Dates : HeaderBegin(w, m, j, d)
      BY <2>1
    <3>2. Redated(head[m], j, d) \in Header
      BY <3>1 DEF HeaderBegin, Redated, TypeInv, Shape, Header
    <3>3. QED
      BY <3>1, <3>2 DEF HeaderBegin, Steps
  <2>2. CASE ~\E j \in Journals, d \in Dates : HeaderBegin(w, m, j, d)
    BY <2>0, <2>2 DEF Request, PostBegin, ResetBegin, CancelBegin, UnlinkBegin,
          MatchBegin, LineWriteBegin, Steps, PostSteps
  <2>3. QED
    BY <2>1, <2>2
<1>2. /\ req' = [req EXCEPT ![w] = Ask(step, m, seen, a)]
      /\ UNCHANGED <<state, head, lines, matched, lockDate>>
      /\ \A v \in Workers : Doc(v) # m
  BY <1>1 DEF Begin, Free
<1>3. req'[w] = Ask(step, m, seen, a) /\ \A v \in Workers \ {w} : req'[v] = req[v]
  BY <1>2 DEF TypeInv, TypeOK
<1>4. lockDate \in Nat
  BY DEF TypeInv, TypeOK
<1>5. StillSo(w)'
  BY <1>1, <1>2, <1>3, <1>4 DEF StillSo, Ask, At, Doc, PostSteps
<1>6. Doc(w)' = m /\ ~At(w, "idle")'
  BY <1>1, <1>3 DEF Ask, At, Doc
<1>7. QED
  BY <1>2, <1>3, <1>5, <1>6, StepLedgerInv
     DEF LedgerInv, BalancedKept, PostedBalanced, MatchedIsPosted

LEMMA AtWork ==
  ASSUME TypeInv, LedgerInv, NEW w \in Workers, ~At(w, "idle")
  PROVE  /\ Doc(w) \in Moves /\ req[w] \in ReqType /\ req[w].seen \in Header
         /\ StillSo(w) /\ lockDate \in Nat
         /\ \A v \in Workers \ {w} : Doc(v) # Doc(w)
<1> USE ConstantsOK
<1>1. Doc(w) \in Moves /\ req[w] \in ReqType /\ req[w].seen \in Header /\ lockDate \in Nat
  BY DEF TypeInv, TypeOK, Shape, ReqType, At, Doc
<1>2. QED
  BY <1>1 DEF LedgerInv, Apart

\* A request goes on to its next step: what it now relies on is all there is to show.
LEMMA GoOnLedgerInv ==
  ASSUME TypeInv, LedgerInv, NEW w \in Workers, NEW r \in ReqType,
         ~At(w, "idle"), req' = [req EXCEPT ![w] = r], r.move = Doc(w), r.step # "idle",
         \A n \in Moves \ {Doc(w)} : lines'[n] = lines[n],
         UNCHANGED <<state, head, matched, lockDate>>,
         state[Doc(w)] = "posted" => lines' = lines,
         StillSo(w)'
  PROVE  LedgerInv'
<1> DEFINE m == Doc(w)
<1>1. m \in Moves /\ \A v \in Workers \ {w} : Doc(v) # m
  BY AtWork
<1>2. req'[w] = r /\ \A v \in Workers \ {w} : req'[v] = req[v]
  BY DEF TypeInv, TypeOK
<1>3. /\ FrozenLines => (state'[m] = "posted" => HasLines(lines'[m]) /\ Balanced(lines'[m]))
      /\ matched'[m] => state'[m] = "posted"
  BY <1>1 DEF LedgerInv, BalancedKept, PostedBalanced, MatchedIsPosted
<1>4. Doc(w)' = m /\ ~At(w, "idle")'
  BY <1>2 DEF Doc, At
<1>5. QED
  BY <1>1, <1>2, <1>3, <1>4, StepLedgerInv

\* A request ends: what it leaves in the tables is all there is to show.
LEMMA FinishLedgerInv ==
  ASSUME TypeInv, LedgerInv, NEW w \in Workers, ~At(w, "idle"), Finish(w),
         \A n \in Moves \ {Doc(w)} :
           /\ state'[n] = state[n] /\ head'[n] = head[n]
           /\ lines'[n] = lines[n] /\ matched'[n] = matched[n],
         UNCHANGED lockDate,
         FrozenLines => (state'[Doc(w)] = "posted"
                           => HasLines(lines'[Doc(w)]) /\ Balanced(lines'[Doc(w)])),
         matched'[Doc(w)] => state'[Doc(w)] = "posted"
  PROVE  LedgerInv'
<1> DEFINE m == Doc(w)
<1>1. m \in Moves /\ \A v \in Workers \ {w} : Doc(v) # m
  BY AtWork
<1>2. req'[w] = Idle /\ \A v \in Workers \ {w} : req'[v] = req[v]
  BY DEF TypeInv, TypeOK, Finish
<1>3. StillSo(w)'
  BY <1>2 DEF StillSo, Idle, At, PostSteps
<1>4. Doc(w)' = NoMove
  BY <1>2 DEF Doc, Idle
<1>5. QED
  BY <1>1, <1>2, <1>3, <1>4, StepLedgerInv

LEMMA PostLedgerInv ==
  ASSUME TypeInv, LedgerInv, NEW w \in Workers,
         PostPrepare(w) \/ PostCheck(w) \/ PostNumber(w) \/ PostCommit(w)
  PROVE  LedgerInv'
<1> USE ConstantsOK
<1> DEFINE m == Doc(w)
           r == req[w]
<1>1. ~At(w, "idle") /\ r.step \in PostSteps
  BY DEF PostPrepare, PostCheck, PostNumber, PostCommit, At, PostSteps
<1>2. /\ m \in Moves /\ r \in ReqType /\ r.seen \in Header /\ lockDate \in Nat
      /\ StillSo(w) /\ r.floor \in Nat /\ r.floor <= lockDate /\ state[m] # "posted"
  BY <1>1, AtWork DEF StillSo, ReqType
<1>3. ~matched[m]
  BY <1>2 DEF LedgerInv, MatchedIsPosted
<1>4. CASE PostPrepare(w)
  <2> DEFINE q == [r EXCEPT !.step = "check"]
  <2>1. /\ q \in ReqType /\ q.step = "check" /\ q.move = m /\ q.floor = r.floor
        /\ req' = [req EXCEPT ![w] = q]
    BY <1>2, <1>4 DEF PostPrepare, Goto, ReqType, Steps, PostSteps, Doc
  <2>2. req'[w] = q
    BY <2>1 DEF TypeInv, TypeOK
  <2>3. \A n \in Moves \ {m} : lines'[n] = lines[n]
    BY <1>2, <1>4 DEF PostPrepare, TypeInv, TypeOK
  <2>4. UNCHANGED <<state, head, matched, lockDate>>
    BY <1>4 DEF PostPrepare
  <2>5. StillSo(w)'
    BY <1>2, <2>1, <2>2, <2>4 DEF StillSo, At, Doc, PostSteps
  <2>6. QED
    BY <1>1, <1>2, <2>1, <2>3, <2>4, <2>5, GoOnLedgerInv
<1>5. CASE PostCheck(w)
  <2> DEFINE d == AfterLock(r.seen.date)
             q(s, nm) == [step |-> s, move |-> r.move, seen |-> r.seen, date |-> d,
                          name |-> nm, amount |-> r.amount, floor |-> r.floor]
  <2>1. d \in Nat /\ d > lockDate
    BY <1>2 DEF AfterLock, Header, Dates
  <2>2. PICK s \in {"number", "commit"}, nm \in NullableName : req' = [req EXCEPT ![w] = q(s, nm)]
    <3>1. r.seen.name \in NullableName /\ NoName \in NullableName
      BY <1>2 DEF Header, NullableName
    <3>2. QED
      BY <1>5, <3>1 DEF PostCheck, Advance, TypeInv, TypeOK
  <2>3. q(s, nm) \in ReqType /\ q(s, nm).step = s /\ q(s, nm).move = m
    BY <1>2, <2>1 DEF ReqType, Steps, PostSteps, Doc
  <2>4. req'[w] = q(s, nm)
    BY <2>2 DEF TypeInv, TypeOK
  <2>5. /\ UNCHANGED <<state, head, lines, matched, lockDate>>
        /\ HasLines(lines[m]) /\ Balanced(lines[m])
    BY <1>5 DEF PostCheck
  <2>6. StillSo(w)'
    BY <1>2, <2>1, <2>3, <2>4, <2>5 DEF StillSo, At, Doc, PostSteps
  <2>7. QED
    BY <1>1, <2>2, <2>3, <2>5, <2>6, GoOnLedgerInv
<1>6. CASE PostNumber(w)
  <2> DEFINE key == <<r.seen.journal, YearOf(r.date)>>
             nm == [key |-> key, no |-> lastNo[key] + 1]
             q == [step |-> "commit", move |-> r.move, seen |-> r.seen, date |-> r.date,
                   name |-> nm, amount |-> r.amount, floor |-> r.floor]
  <2>1. req' = [req EXCEPT ![w] = q] /\ UNCHANGED <<state, head, lines, matched, lockDate>>
    BY <1>6 DEF PostNumber, Advance, TypeInv, TypeOK
  <2>2. key \in Keys
    BY <1>2 DEF Keys, Years, YearOf, Header
  <2>3. nm \in NullableName
    BY <2>2 DEF Name, NullableName, TypeInv, TypeOK
  <2>4. q \in ReqType /\ q.step = "commit" /\ q.move = m
    BY <1>2, <2>3 DEF ReqType, Steps, PostSteps, Doc
  <2>5. req'[w] = q
    BY <2>1 DEF TypeInv, TypeOK
  <2>6. r.step = "number"
    BY <1>6 DEF PostNumber, At
  <2>7. StillSo(w)'
    BY <1>2, <2>1, <2>5, <2>6 DEF StillSo, At, Doc, PostSteps
  <2>8. QED
    BY <1>1, <2>1, <2>4, <2>7, GoOnLedgerInv
<1>7. CASE PostCommit(w)
  <2>1. FrozenLines => HasLines(lines[m]) /\ Balanced(lines[m])
    BY <1>2, <1>7 DEF PostCommit, At, StillSo
  <2>2. \A n \in Moves \ {m} : state'[n] = state[n] /\ head'[n] = head[n]
    BY <1>7 DEF PostCommit, TypeInv, TypeOK
  <2>3. Finish(w) /\ UNCHANGED <<lines, matched, lockDate>>
    BY <1>7 DEF PostCommit
  <2>4. QED
    BY <1>1, <1>3, <2>1, <2>2, <2>3, FinishLedgerInv
<1>8. QED
  BY <1>4, <1>5, <1>6, <1>7

LEMMA OtherLedgerInv ==
  ASSUME TypeInv, LedgerInv, NEW w \in Workers,
         \/ ResetGuard(w) \/ ResetCommit(w) \/ CancelCommit(w) \/ HeaderCommit(w)
         \/ UnlinkCommit(w) \/ LineWriteCommit(w) \/ MatchCommit(w)
         \/ Refused(w) \/ RequestFails(w)
  PROVE  LedgerInv'
<1> USE ConstantsOK
<1> DEFINE m == Doc(w)
           r == req[w]
<1>1. ~At(w, "idle")
  BY DEF ResetGuard, ResetCommit, CancelCommit, HeaderCommit, UnlinkCommit,
         LineWriteCommit, MatchCommit, Refused, RequestFails, At
<1>2. /\ m \in Moves /\ r \in ReqType /\ r.seen \in Header /\ lockDate \in Nat
      /\ StillSo(w) /\ r.floor \in Nat /\ r.floor <= lockDate
      /\ FrozenLines => (state[m] = "posted" => HasLines(lines[m]) /\ Balanced(lines[m]))
      /\ matched[m] => state[m] = "posted"
  BY <1>1, AtWork DEF StillSo, ReqType, LedgerInv, BalancedKept, PostedBalanced, MatchedIsPosted
<1>3. CASE ResetGuard(w)
  <2> DEFINE q == [r EXCEPT !.step = "reset"]
  <2>1. /\ q \in ReqType /\ q.step = "reset" /\ q.move = m /\ q.floor = r.floor
        /\ q.seen = r.seen /\ req' = [req EXCEPT ![w] = q]
    BY <1>2, <1>3 DEF ResetGuard, Goto, ReqType, Steps, Doc
  <2>2. req'[w] = q
    BY <2>1 DEF TypeInv, TypeOK
  <2>3. UNCHANGED <<state, head, lines, matched, lockDate>> /\ r.step = "guard"
    BY <1>3 DEF ResetGuard, At
  <2>4. q.seen.date > q.floor
    BY <1>2, <1>3, <2>1 DEF ResetGuard, Header, Dates
  <2>5. StillSo(w)'
    BY <1>2, <2>1, <2>2, <2>3, <2>4 DEF StillSo, At, Doc, PostSteps
  <2>6. QED
    BY <1>1, <2>1, <2>3, <2>5, GoOnLedgerInv
<1>4. CASE ResetCommit(w) \/ CancelCommit(w) \/ UnlinkCommit(w)
  <2>1. PICK s \in {"draft", "cancel", "deleted"} : Overwrite(w, s)
    BY <1>4 DEF ResetCommit, CancelCommit, UnlinkCommit
  <2>2. Finish(w) /\ UNCHANGED <<head, lines, matched, lockDate>>
    BY <1>4 DEF ResetCommit, CancelCommit, UnlinkCommit
  <2>3. ~matched[m]
    BY <1>2, <1>4 DEF ResetCommit, CancelCommit, UnlinkCommit, At, StillSo
  <2>4. state'[m] # "posted" \/ state' = state
    BY <1>2, <2>1 DEF Overwrite, TypeInv, TypeOK
  <2>5. \A n \in Moves \ {m} : state'[n] = state[n]
    BY <2>1 DEF Overwrite, TypeInv, TypeOK
  <2>6. QED
    BY <1>1, <1>2, <2>2, <2>3, <2>4, <2>5, FinishLedgerInv
<1>5. CASE HeaderCommit(w)
  <2>1. \A n \in Moves \ {m} : head'[n] = head[n]
    BY <1>5 DEF HeaderCommit, TypeInv, TypeOK
  <2>2. Finish(w) /\ UNCHANGED <<state, lines, matched, lockDate>>
    BY <1>5 DEF HeaderCommit
  <2>3. QED
    BY <1>1, <1>2, <2>1, <2>2, FinishLedgerInv
<1>6. CASE LineWriteCommit(w)
  <2>1. state[m] # "posted"
    BY <1>2, <1>6 DEF LineWriteCommit, At, StillSo
  <2>2. \A n \in Moves \ {m} : lines'[n] = lines[n]
    BY <1>6 DEF LineWriteCommit, TypeInv, TypeOK
  <2>3. Finish(w) /\ UNCHANGED <<state, head, matched, lockDate>>
    BY <1>6 DEF LineWriteCommit
  <2>4. QED
    BY <1>1, <1>2, <2>1, <2>2, <2>3, FinishLedgerInv
<1>7. CASE MatchCommit(w)
  <2>1. state[m] = "posted"
    BY <1>2, <1>7 DEF MatchCommit, At, StillSo
  <2>2. \A n \in Moves \ {m} : matched'[n] = matched[n]
    BY <1>7 DEF MatchCommit, TypeInv, TypeOK
  <2>3. Finish(w) /\ UNCHANGED <<state, head, lines, lockDate>>
    BY <1>7 DEF MatchCommit
  <2>4. QED
    BY <1>1, <1>2, <2>1, <2>2, <2>3, FinishLedgerInv
<1>8. CASE Refused(w) \/ RequestFails(w)
  <2>1. Finish(w) /\ UNCHANGED <<state, head, lines, matched, lockDate>>
    BY <1>8 DEF Refused, RequestFails, Rollback
  <2>2. QED
    BY <1>1, <1>2, <2>1, FinishLedgerInv
<1>9. QED
  BY <1>3, <1>4, <1>5, <1>6, <1>7, <1>8

LEMMA ClientLedgerInv ==
  ASSUME TypeInv, LedgerInv, OneAtATime, NEW m \in Moves, Client(m)
  PROVE  LedgerInv'
<1> USE ConstantsOK
<1>0. /\ FrozenLines => (state[m] = "posted" => HasLines(lines[m]) /\ Balanced(lines[m]))
      /\ matched[m] => state[m] = "posted"
  BY DEF LedgerInv, BalancedKept, PostedBalanced, MatchedIsPosted
<1>1. CASE \E j \in Journals, t \in MoveTypes, d \in Dates : CreateMove(m, j, t, d)
  <2>1. /\ state[m] = "absent" /\ state'[m] = "draft"
        /\ \A n \in Moves \ {m} : state'[n] = state[n] /\ head'[n] = head[n]
        /\ UNCHANGED <<lines, matched, lockDate, req>>
    BY <1>1 DEF CreateMove, TypeInv, TypeOK
  <2>2. \A v \in Workers : Doc(v) # m
    BY <2>1 DEF LedgerInv, Apart, TypeInv, Shape, At, Doc
  <2>3. QED
    BY <1>0, <2>1, <2>2, EditLedgerInv
<1>2. CASE (\E a \in Amounts : LineCreate(m, a)) \/ LineUnlink(m)
  <2>1. /\ Free(m)
        /\ FrozenLines => state[m] = "draft"
        /\ UNCHANGED <<state, head, matched, lockDate, req>>
    BY <1>2 DEF LineCreate, LineUnlink, MayTouchLines
  <2>2. \A n \in Moves \ {m} : lines'[n] = lines[n]
    BY <1>2 DEF LineCreate, LineUnlink, TypeInv, TypeOK
  <2>3. QED
    BY <1>0, <2>1, <2>2, EditLedgerInv DEF Free
<1>3. CASE Unmatch(m)
  <2>1. /\ Free(m) /\ ~matched'[m]
        /\ \A n \in Moves \ {m} : matched'[n] = matched[n]
        /\ UNCHANGED <<state, head, lines, lockDate, req>>
    BY <1>3 DEF Unmatch, TypeInv, TypeOK
  <2>2. QED
    BY <1>0, <2>1, EditLedgerInv DEF Free
<1>4. QED
  BY <1>1, <1>2, <1>3 DEF Client

LEMMA SetLockLedgerInv ==
  ASSUME TypeInv, LedgerInv, NEW d \in 0..(MaxDate - 1), SetLock(d)
  PROVE  LedgerInv'
<1> USE ConstantsOK
<1>1. UNCHANGED <<state, head, lines, matched>> /\ lockDate' = d
  BY DEF SetLock
<1>2. ASSUME NEW w \in Workers
      PROVE  /\ req'[w].step = req[w].step /\ req'[w].move = req[w].move
             /\ req'[w].seen = req[w].seen /\ req'[w].date = req[w].date
             /\ req'[w].floor \in Nat
             /\ req'[w].floor <= req[w].floor /\ req'[w].floor <= d
  <2>1. req[w] \in ReqType
    BY DEF TypeInv, TypeOK, ReqType
  <2>2. CASE d < req[w].floor
    BY <2>1, <2>2 DEF SetLock, ReqType
  <2>3. CASE ~(d < req[w].floor)
    BY <2>1, <2>3 DEF SetLock, ReqType
  <2>4. QED
    BY <2>2, <2>3
<1>3. Apart'
  BY <1>2 DEF LedgerInv, Apart, At, Doc
<1>4. ASSUME NEW w \in Workers PROVE StillSo(w)'
  <2>1. StillSo(w)
    BY DEF LedgerInv
  <2>2. /\ req[w].floor \in Nat /\ req[w].date \in Nat /\ req[w].seen \in Header \cup {NoHeader}
    BY DEF TypeInv, TypeOK
  <2>3. req[w].seen.date \in Nat
    BY <2>2 DEF Header, NoHeader, Dates
  <2>4. /\ At(w, "reset") => req[w].seen.date > req'[w].floor
        /\ req[w].step \in {"number", "commit"} => req[w].date > req'[w].floor
    BY <1>2, <2>1, <2>2, <2>3 DEF StillSo
  <2>5. QED
    BY <1>1, <1>2, <2>1, <2>4 DEF StillSo, At, Doc
<1>5. BalancedKept' /\ MatchedIsPosted'
  BY <1>1 DEF LedgerInv, BalancedKept, PostedBalanced, MatchedIsPosted
<1>6. QED
  BY <1>3, <1>4, <1>5 DEF LedgerInv

LEMMA NextLedgerInv ==
  ASSUME OneAtATime
  PROVE  TypeInv /\ LedgerInv /\ [Next]_vars => LedgerInv'
<1> SUFFICES ASSUME TypeInv, LedgerInv, [Next]_vars PROVE LedgerInv'
  OBVIOUS
<1>1. ASSUME NEW w \in Workers, Step(w) \/ RequestFails(w) PROVE LedgerInv'
  BY <1>1, PostLedgerInv, OtherLedgerInv DEF Step
<1>2. ASSUME NEW w \in Workers, NEW m \in Moves, Request(w, m) PROVE LedgerInv'
  BY <1>2, BeginLedgerInv
<1>3. ASSUME NEW m \in Moves, Client(m) PROVE LedgerInv'
  BY <1>3, ClientLedgerInv
<1>4. ASSUME NEW d \in 0..(MaxDate - 1), SetLock(d) PROVE LedgerInv'
  BY <1>4, SetLockLedgerInv
<1>5. CASE UNCHANGED vars
  BY <1>5 DEF vars, LedgerInv, Apart, StillSo, At, Doc, BalancedKept, PostedBalanced, MatchedIsPosted
<1>6. QED
  BY <1>1, <1>2, <1>3, <1>4, <1>5 DEF Next

\* The state of a document changes by its creation, or by the last transaction of the
\* request about it.
LEMMA StateChanges ==
  ASSUME TypeInv, [Next]_vars, NEW m \in Moves, state'[m] # state[m]
  PROVE  \/ state[m] = "absent"
         \/ \E w \in Workers :
              /\ Doc(w) = m
              /\ \/ At(w, "commit") /\ state'[m] = "posted" /\ head'[m].date = req[w].date
                 \/ At(w, "reset") /\ state'[m] = "draft"
                 \/ (At(w, "cancel") \/ At(w, "unlink")) /\ state'[m] # "posted"
<1> USE ConstantsOK
<1>1. ASSUME NEW w \in Workers, PostCommit(w)
      PROVE  Doc(w) = m /\ At(w, "commit") /\ state'[m] = "posted" /\ head'[m].date = req[w].date
  BY <1>1 DEF PostCommit, TypeInv, TypeOK
<1>2. ASSUME NEW w \in Workers, ResetCommit(w)
      PROVE  Doc(w) = m /\ At(w, "reset") /\ state'[m] = "draft"
  BY <1>2 DEF ResetCommit, Overwrite, TypeInv, TypeOK
<1>3. ASSUME NEW w \in Workers, CancelCommit(w) \/ UnlinkCommit(w)
      PROVE  Doc(w) = m /\ (At(w, "cancel") \/ At(w, "unlink")) /\ state'[m] # "posted"
  BY <1>3 DEF CancelCommit, UnlinkCommit, Overwrite, TypeInv, TypeOK
<1>4. ASSUME NEW w \in Workers,
             \/ PostPrepare(w) \/ PostCheck(w) \/ PostNumber(w) \/ ResetGuard(w)
             \/ HeaderCommit(w) \/ LineWriteCommit(w) \/ MatchCommit(w)
             \/ Refused(w) \/ RequestFails(w) \/ \E n \in Moves : Request(w, n)
      PROVE  FALSE
  BY <1>4 DEF PostPrepare, PostCheck, PostNumber, ResetGuard, HeaderCommit,
       LineWriteCommit, MatchCommit, Refused, RequestFails, Rollback, Request, PostBegin,
       ResetBegin, CancelBegin, UnlinkBegin, MatchBegin, HeaderBegin, LineWriteBegin, Begin
<1>5. ASSUME NEW n \in Moves, Client(n) PROVE state[m] = "absent"
  BY <1>5 DEF Client, CreateMove, LineCreate, LineUnlink, Unmatch, TypeInv, TypeOK
<1>6. ~\E d \in 0..(MaxDate - 1) : SetLock(d)
  BY DEF SetLock
<1>7. CASE \E w \in Workers : Step(w) \/ RequestFails(w) \/ \E n \in Moves : Request(w, n)
  BY <1>1, <1>2, <1>3, <1>4, <1>7 DEF Step
<1>8. QED
  BY <1>5, <1>6, <1>7 DEF Next, vars

LEMMA SpecLedgerInv ==
  ASSUME OneAtATime
  PROVE  Spec => [](TypeInv /\ LedgerInv)
<1>1. TypeInv /\ LedgerInv /\ [Next]_vars => LedgerInv'
  BY NextLedgerInv
<1>2. QED
  BY <1>1, InitTypeInv, InitLedgerInv, NextTypeInv, PTL DEF Spec

\* Clients that open one request at a time on a document and add lines to drafts only
\* have books that balance: what action_post has checked still holds when it writes.
THEOREM Balance ==
  ASSUME OneAtATime, FrozenLines
  PROVE  Spec => []PostedBalanced
<1>1. LedgerInv => PostedBalanced
  BY DEF LedgerInv, BalancedKept
<1>2. Spec => [](TypeInv /\ LedgerInv)
  BY SpecLedgerInv
<1>3. QED
  BY <1>1, <1>2, PTL

\* One request at a time on a document is enough for the matches: no order of
\* reconcile, reset, cancel and delete takes a matched document out of the ledger.
THEOREM Matched ==
  ASSUME OneAtATime
  PROVE  Spec => []MatchedIsPosted
<1>1. LedgerInv => MatchedIsPosted
  BY DEF LedgerInv
<1>2. Spec => [](TypeInv /\ LedgerInv)
  BY SpecLedgerInv
<1>3. QED
  BY <1>1, <1>2, PTL

\* A posting lands after every lock date its request has lived through, and a reset
\* takes nothing out of a period closed all that time, however lock dates move
\* between the check and the write.
THEOREM ClosedPeriods ==
  ASSUME OneAtATime
  PROVE  Spec => ClosedPeriodKept
<1> DEFINE Kept ==
      \A w \in Workers :
        LET m == Doc(w) IN
        m # NoMove =>
          /\ state[m] # "posted" /\ state'[m] = "posted" => head'[m].date > req[w].floor
          /\ state[m] = "posted" /\ state'[m] # "posted" => head[m].date > req[w].floor
<1>1. TypeInv /\ LedgerInv /\ [Next]_vars => [Kept]_vars
  <2> SUFFICES ASSUME TypeInv, LedgerInv, [Next]_vars, NEW w \in Workers, Doc(w) # NoMove
               PROVE  LET m == Doc(w) IN
                      /\ state[m] # "posted" /\ state'[m] = "posted" => head'[m].date > req[w].floor
                      /\ state[m] = "posted" /\ state'[m] # "posted" => head[m].date > req[w].floor
    OBVIOUS
  <2> DEFINE m == Doc(w)
  <2>1. ~At(w, "idle")
    BY DEF LedgerInv, Apart
  <2>2. m \in Moves /\ StillSo(w) /\ \A v \in Workers \ {w} : Doc(v) # m
    BY <2>1, AtWork
  <2>3. state[m] # "absent"
    BY <2>1 DEF TypeInv, Shape, At, Doc
  <2>4. CASE state'[m] # state[m]
    <3>1. \/ At(w, "commit") /\ state'[m] = "posted" /\ head'[m].date = req[w].date
          \/ At(w, "reset") /\ state'[m] = "draft"
          \/ (At(w, "cancel") \/ At(w, "unlink")) /\ state'[m] # "posted"
      BY <2>2, <2>3, <2>4, StateChanges
    <3>2. CASE At(w, "commit") /\ state'[m] = "posted" /\ head'[m].date = req[w].date
      BY <2>2, <3>2 DEF StillSo, At, Doc, PostSteps
    <3>3. CASE At(w, "reset") /\ state'[m] = "draft"
      BY <2>2, <3>3 DEF StillSo, At, Doc
    <3>4. CASE (At(w, "cancel") \/ At(w, "unlink")) /\ state'[m] # "posted"
      BY <2>2, <3>4 DEF StillSo, At, Doc
    <3>5. QED
      BY <3>1, <3>2, <3>3, <3>4
  <2>5. QED
    BY <2>4
<1>2. Spec => [](TypeInv /\ LedgerInv)
  BY SpecLedgerInv
<1>3. QED
  BY <1>1, <1>2, PTL DEF Spec, ClosedPeriodKept

\* With one request at a time on a document, the rule action_cancel states holds: a
\* posted document leaves the ledger through reset to draft only. MCCancelRace shows
\* that two requests on one document break it.
THEOREM NotCancelled ==
  ASSUME OneAtATime
  PROVE  Spec => PostedNotCancelled
<1> DEFINE Kept == \A m \in Moves : state[m] = "posted" => state'[m] \in {"posted", "draft"}
<1>1. TypeInv /\ LedgerInv /\ [Next]_vars => [Kept]_vars
  <2> SUFFICES ASSUME TypeInv, LedgerInv, [Next]_vars, NEW m \in Moves, state[m] = "posted",
                      state'[m] # state[m]
               PROVE  state'[m] = "draft"
    OBVIOUS
  <2>1. PICK w \in Workers :
          /\ Doc(w) = m
          /\ \/ At(w, "commit") \/ At(w, "cancel") \/ At(w, "unlink")
             \/ At(w, "reset") /\ state'[m] = "draft"
    BY StateChanges
  <2>2. QED
    BY <2>1 DEF LedgerInv, StillSo, At, Doc, PostSteps
<1>2. Spec => [](TypeInv /\ LedgerInv)
  BY SpecLedgerInv
<1>3. QED
  BY <1>1, <1>2, PTL DEF Spec, PostedNotCancelled
=============================================================================
