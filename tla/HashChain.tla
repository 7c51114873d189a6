------------------------------ MODULE HashChain ------------------------------
(***************************************************************************)
(* The hash chain of one journal with restrict_mode_hash_table: the part   *)
(* of action_post that runs from the numbering row to the commit, the      *)
(* reset that a hash forbids, and what verify_hash_chain recomputes.       *)
(*                                                                         *)
(* SHA-256 is injective here: a hash is the sequence of the contents that  *)
(* it covers, so two hashes are equal exactly when they cover the same     *)
(* documents with the same contents in the same order.                     *)
(***************************************************************************)
EXTENDS Integers, Sequences, FiniteSets

CONSTANTS
  Docs,         \* documents of the journal
  NoDoc,
  Workers,      \* postings in flight at the same time
  NoWorker,
  Years,        \* years documents are dated in
  Payloads,     \* what lines and total of a document can be
  MaxNo,        \* bound: numbers drawn per year
  LoneReposts   \* a document is posted again only while nothing else is posted

ASSUME ConstantsOK ==
  /\ IsFiniteSet(Docs) /\ NoDoc \notin Docs /\ NoWorker \notin Workers
  /\ MaxNo \in Nat /\ LoneReposts \in BOOLEAN

VARIABLES
  doc,       \* per document: state, year of its date, lines, number, posted_before
  hash,      \* account_move.inalterable_hash, <<>> for NULL
  secureNo,  \* account_move.secure_sequence_number, 0 for NULL
  secureOn,  \* account_journal.restrict_mode_hash_table
  lastNo,    \* account_sequence rows <code>/<year> and HASH/<code>/<year>, committed
  rowLock,   \* the posting that has written such a row, uncommitted
  req        \* postings in flight

vars == <<doc, hash, secureNo, secureOn, lastNo, rowLock, req>>

Counters == {"name", "hash"} \X Years

Doc == [state : {"draft", "posted"}, year : Years, payload : Payloads,
        no : Nat, postedBefore : BOOLEAN]
Absent == [state |-> "absent", no |-> 0, postedBefore |-> FALSE]
Entry == [no : Nat, year : Years, payload : Payloads]

\* The digest covers name, date, total and lines.
Content(d, no) == [no |-> no, year |-> doc[d].year, payload |-> doc[d].payload]

Posting(step, d, no, prev, h, s) ==
  [step |-> step, doc |-> d, no |-> no, prev |-> prev, hash |-> h, secureNo |-> s]
Idle == Posting("idle", NoDoc, 0, <<>>, <<>>, 0)

Init ==
  /\ doc = [d \in Docs |-> Absent]
  /\ hash = [d \in Docs |-> <<>>]
  /\ secureNo = [d \in Docs |-> 0]
  /\ secureOn \in BOOLEAN
  /\ lastNo = [c \in Counters |-> 0]
  /\ rowLock = [c \in Counters |-> NoWorker]
  /\ req = [w \in Workers |-> Idle]

At(w, step) == req[w].step = step
Free(d) == \A w \in Workers : req[w].doc # d
Secured == {d \in Docs : hash[d] # <<>>}
-----------------------------------------------------------------------------
\* Creation, and the edits of its lines while it is a draft
Write(d, y, p) ==
  /\ Free(d) /\ doc[d].state # "posted"
  /\ doc' = [doc EXCEPT ![d] = [state |-> "draft", year |-> y, payload |-> p,
                               no |-> @.no, postedBefore |-> @.postedBefore]]
  /\ UNCHANGED <<hash, secureNo, secureOn, lastNo, rowLock, req>>

\* The journal's option is an ordinary field.
SwitchMode ==
  /\ secureOn' = ~secureOn
  /\ UNCHANGED <<doc, hash, secureNo, lastNo, rowLock, req>>

\* Variant: the option is looked at, not the hash of the document
ResetOpenJournal(d) ==
  /\ Free(d) /\ doc[d].state = "posted"
  /\ ~secureOn
  /\ doc' = [doc EXCEPT ![d].state = "draft"]
  /\ UNCHANGED <<hash, secureNo, secureOn, lastNo, rowLock, req>>

\* action_reset_to_draft: a secured document stays posted.
Reset(d) ==
  /\ Free(d) /\ doc[d].state = "posted"
  /\ hash[d] = <<>>
  /\ doc' = [doc EXCEPT ![d].state = "draft"]
  /\ UNCHANGED <<hash, secureNo, secureOn, lastNo, rowLock, req>>

Alone(w) == \A v \in Workers \ {w} : At(v, "idle")
Repost(v) == ~At(v, "idle") /\ doc[req[v].doc].postedBefore

PostBegin(w, d) ==
  /\ At(w, "idle") /\ Free(d) /\ doc[d].state = "draft"
  /\ LoneReposts => IF doc[d].postedBefore THEN Alone(w)
                                           ELSE \A v \in Workers : ~Repost(v)
  /\ req' = [req EXCEPT ![w] = Posting("number", d, 0, <<>>, <<>>, 0)]
  /\ UNCHANGED <<doc, hash, secureNo, secureOn, lastNo, rowLock>>

Goto(w, step, no, prev) ==
  req' = [req EXCEPT ![w] = Posting(step, @.doc, no, prev, <<>>, 0)]

\* Variant: the number is drawn in a transaction of its own, and nobody waits
DrawUnlocked(w, c) ==
  /\ lastNo[c] < MaxNo
  /\ rowLock' = [rowLock EXCEPT ![c] = w]

\* get_next_sequence: the upsert holds the row until the transaction ends.
Draw(w, c) ==
  /\ rowLock[c] = NoWorker /\ lastNo[c] < MaxNo
  /\ rowLock' = [rowLock EXCEPT ![c] = w]

\* A document posted before keeps its number unless later ones were dated before it.
PostNumber(w) ==
  LET d == req[w].doc
      c == <<"name", doc[d].year>>
  IN /\ At(w, "number")
     /\ \/ /\ doc[d].postedBefore
           /\ Goto(w, "link", doc[d].no, <<>>)
           /\ UNCHANGED rowLock
        \/ /\ Draw(w, c)
           /\ Goto(w, "link", lastNo[c] + 1, <<>>)
     /\ UNCHANGED <<doc, hash, secureNo, secureOn, lastNo>>

\* Variant: ORDER BY secure_sequence_number without DESC
LatestAscending(d) ==
  {p \in Secured \ {d} : \A q \in Secured \ {d} : secureNo[q] >= secureNo[p]}

\* The journal's latest secured documents, this one excluded
Latest(d) ==
  {p \in Secured \ {d} : \A q \in Secured \ {d} : secureNo[q] <= secureNo[p]}

\* The UPDATE of the header, the option, and the previous hash
PostLink(w) ==
  LET d == req[w].doc
  IN /\ At(w, "link")
     /\ \/ ~secureOn /\ Goto(w, "commit", req[w].no, <<>>)
        \/ secureOn /\ Latest(d) = {} /\ Goto(w, "secure", req[w].no, <<>>)
        \/ secureOn /\ \E p \in Latest(d) : Goto(w, "secure", req[w].no, hash[p])
     /\ UNCHANGED <<doc, hash, secureNo, secureOn, lastNo, rowLock>>

\* The digest, and its own number
PostSecure(w) ==
  LET r == req[w]
      c == <<"hash", doc[r.doc].year>>
  IN /\ At(w, "secure")
     /\ Draw(w, c)
     /\ req' = [req EXCEPT ![w] = Posting("commit", r.doc, r.no, r.prev,
                    Append(r.prev, Content(r.doc, r.no)), lastNo[c] + 1)]
     /\ UNCHANGED <<doc, hash, secureNo, secureOn, lastNo>>

Release(w) ==
  /\ rowLock' = [c \in Counters |-> IF rowLock[c] = w THEN NoWorker ELSE rowLock[c]]
  /\ req' = [req EXCEPT ![w] = Idle]

PostCommit(w) ==
  LET r == req[w]
  IN /\ At(w, "commit")
     /\ doc' = [doc EXCEPT ![r.doc] = [state |-> "posted", year |-> @.year,
                             payload |-> @.payload, no |-> r.no, postedBefore |-> TRUE]]
     /\ hash' = [hash EXCEPT ![r.doc] = IF r.secureNo = 0 THEN @ ELSE r.hash]
     /\ secureNo' = [secureNo EXCEPT ![r.doc] = IF r.secureNo = 0 THEN @ ELSE r.secureNo]
     /\ lastNo' = [c \in Counters |-> IF rowLock[c] = w THEN lastNo[c] + 1 ELSE lastNo[c]]
     /\ Release(w)
     /\ UNCHANGED secureOn

PostFails(w) ==
  /\ ~At(w, "idle")
  /\ Release(w)
  /\ UNCHANGED <<doc, hash, secureNo, secureOn, lastNo>>

Next ==
  \/ SwitchMode
  \/ \E d \in Docs : Reset(d) \/ \E y \in Years, p \in Payloads : Write(d, y, p)
  \/ \E w \in Workers : \/ \E d \in Docs : PostBegin(w, d)
                        \/ PostNumber(w) \/ PostLink(w) \/ PostSecure(w)
                        \/ PostCommit(w) \/ PostFails(w)

Spec == Init /\ [][Next]_vars
-----------------------------------------------------------------------------
\* verify_hash_chain: the secured documents in the order of their secure numbers
\* (an arbitrary one among equals), each hashed over its predecessor's hash
Orders ==
  {s \in [1..Cardinality(Secured) -> Secured] :
     \A i, j \in DOMAIN s : i < j => s[i] # s[j] /\ secureNo[s[i]] <= secureNo[s[j]]}

Verifies(s) ==
  \A i \in DOMAIN s :
    hash[s[i]] = Append(IF i = 1 THEN <<>> ELSE hash[s[i - 1]],
                        Content(s[i], doc[s[i]].no))

\* Types; at most MaxNo numbers of each counter are given out.
TypeOK ==
  /\ doc \in [Docs -> Doc \cup {Absent}]
  /\ hash \in [Docs -> Seq(Entry)]
  /\ secureNo \in [Docs -> Nat]
  /\ secureOn \in BOOLEAN
  /\ lastNo \in [Counters -> 0..MaxNo]
  /\ rowLock \in [Counters -> Workers \cup {NoWorker}]
  /\ \A w \in Workers : req[w].no \in Nat /\ req[w].prev \in Seq(Entry)

\* An untampered journal verifies.  compute and verify agree on the predecessor only
\* because the numbering row, locked before the previous hash is read, makes the
\* postings of a year take turns.
ChainVerifies == \A s \in Orders : Verifies(s)

\* A secured document is never touched again, and the record of the journal - the
\* contents its latest hash covers - only grows at its end.
LastHash ==
  IF Secured = {} THEN <<>>
  ELSE hash[CHOOSE d \in Secured : \A q \in Secured : secureNo[q] <= secureNo[d]]
Log == INSTANCE AppendLog WITH log <- LastHash
ImplementsLog == Log!Spec

SecuredForGood ==
  [][\A d \in Secured : /\ doc'[d] = doc[d] /\ hash'[d] = hash[d]
                        /\ secureNo'[d] = secureNo[d]]_vars

\* _compute_hash_chain: the secure number is "a per-journal counter", so the order
\* verify_hash_chain recomputes in is the order of posting.  Weaker than
\* ChainVerifies: some order among equal numbers verifies.
JournalVerifies == \E s \in Orders : Verifies(s)
=============================================================================
