-------------------------- MODULE HashChain_proofs --------------------------
(***************************************************************************)
(* Proofs about HashChain for any number of documents and postings.  That  *)
(* a secured document is never touched again needs nothing; that the chain *)
(* verifies and only grows at its end needs the postings to take turns:    *)
(* one year, and nothing posted again while others post.                   *)
(***************************************************************************)
EXTENDS HashChain, FiniteSetTheorems, SequenceTheorems, TLAPS

ReqType == [step : {"idle", "number", "link", "secure", "commit"},
            doc : Docs \cup {NoDoc}, no : Nat, prev : Seq(Entry),
            hash : Seq(Entry), secureNo : Nat]

Types ==
  /\ doc \in [Docs -> Doc \cup {Absent}]
  /\ hash \in [Docs -> Seq(Entry)]
  /\ secureNo \in [Docs -> Nat]
  /\ secureOn \in BOOLEAN
  /\ lastNo \in [Counters -> Nat]
  /\ rowLock \in [Counters -> Workers \cup {NoWorker}]
  /\ req \in [Workers -> ReqType]

\* A posting has a draft of its own, and drafts are not secured.
DraftsOwned ==
  /\ \A w \in Workers :
       /\ At(w, "idle") => req[w].doc = NoDoc
       /\ ~At(w, "idle") => req[w].doc \in Docs /\ doc[req[w].doc].state = "draft"
  /\ \A v, w \in Workers : v # w /\ req[w].doc # NoDoc => req[v].doc # req[w].doc
  /\ \A d \in Docs : doc[d].state # "posted" => hash[d] = <<>>

DocInv == Types /\ DraftsOwned

LEMMA InitDocInv == Init => DocInv
<1> SUFFICES ASSUME Init PROVE DocInv
  OBVIOUS
<1> USE ConstantsOK DEF Init
<1>1. <<>> \in Seq(Entry)
  OBVIOUS
<1>2. Idle \in ReqType
  BY <1>1 DEF Idle, Posting, ReqType
<1>3. Types
  BY <1>1, <1>2 DEF Types
<1>4. DraftsOwned
  BY DEF DraftsOwned, At, Idle, Posting, Absent
<1>5. QED
  BY <1>3, <1>4 DEF DocInv

\* A request record of a posting
LEMMA PostingType ==
  ASSUME NEW s \in {"idle", "number", "link", "secure", "commit"}, NEW d \in Docs \cup {NoDoc},
         NEW n \in Nat, NEW p \in Seq(Entry), NEW h \in Seq(Entry), NEW k \in Nat
  PROVE  /\ Posting(s, d, n, p, h, k) \in ReqType
         /\ Posting(s, d, n, p, h, k).step = s /\ Posting(s, d, n, p, h, k).doc = d
         /\ Posting(s, d, n, p, h, k).no = n /\ Posting(s, d, n, p, h, k).prev = p
         /\ Posting(s, d, n, p, h, k).hash = h /\ Posting(s, d, n, p, h, k).secureNo = k
BY DEF Posting, ReqType

LEMMA ContentType ==
  ASSUME DocInv, NEW d \in Docs, doc[d].state \in {"draft", "posted"}, NEW n \in Nat
  PROVE  Content(d, n) \in Entry
BY DEF DocInv, Types, Doc, Absent, Content, Entry

\* A posting goes on with its document and changes no document.
LEMMA GoOnDocInv ==
  ASSUME DocInv, NEW w \in Workers, NEW r \in ReqType, ~At(w, "idle"),
         req' = [req EXCEPT ![w] = r], r.doc = req[w].doc, r.step # "idle",
         rowLock' \in [Counters -> Workers \cup {NoWorker}],
         UNCHANGED <<doc, hash, secureNo, secureOn, lastNo>>
  PROVE  DocInv'
<1>1. Types'
  BY DEF DocInv, Types
<1>2. req'[w] = r /\ \A v \in Workers \ {w} : req'[v] = req[v]
  BY DEF DocInv, Types
<1>3. DraftsOwned'
  BY <1>2 DEF DocInv, DraftsOwned, At
<1>4. QED
  BY <1>1, <1>3 DEF DocInv

\* A document that no posting has is written.
LEMMA WriteDocInv ==
  ASSUME DocInv, NEW d \in Docs, Free(d), NEW r \in Doc, r.state = "draft", hash[d] = <<>>,
         doc' = [doc EXCEPT ![d] = r], UNCHANGED <<hash, secureNo, secureOn, lastNo, rowLock, req>>
  PROVE  DocInv'
<1>1. Types'
  BY DEF DocInv, Types
<1>2. DraftsOwned'
  BY DEF DocInv, Types, DraftsOwned, Free, At
<1>3. QED
  BY <1>1, <1>2 DEF DocInv

LEMMA ReleaseFacts ==
  ASSUME DocInv, NEW w \in Workers, Release(w)
  PROVE  /\ req' \in [Workers -> ReqType]
         /\ rowLock' \in [Counters -> Workers \cup {NoWorker}]
         /\ req'[w] = Idle /\ \A v \in Workers \ {w} : req'[v] = req[v]
         /\ \A c \in Counters : rowLock'[c] = IF rowLock[c] = w THEN NoWorker ELSE rowLock[c]
<1>1. Idle \in ReqType
  BY DEF Idle, Posting, ReqType
<1>2. QED
  BY <1>1 DEF DocInv, Types, Release

LEMMA AtWork ==
  ASSUME DocInv, NEW w \in Workers, ~At(w, "idle")
  PROVE  /\ req[w] \in ReqType /\ req[w].doc \in Docs
         /\ doc[req[w].doc] \in Doc /\ doc[req[w].doc].state = "draft"
         /\ hash[req[w].doc] = <<>>
         /\ \A v \in Workers \ {w} : req[v].doc # req[w].doc
<1>1. /\ req[w] \in ReqType /\ req[w].doc \in Docs /\ doc[req[w].doc].state = "draft"
      /\ doc[req[w].doc] \in Doc \cup {Absent}
      /\ hash[req[w].doc] = <<>>
  BY DEF DocInv, Types, DraftsOwned
<1>2. doc[req[w].doc] \in Doc
  BY <1>1 DEF Absent
<1>3. QED
  BY <1>1, <1>2, ConstantsOK DEF DocInv, DraftsOwned

\* What the steps of a posting make of its request
LEMMA PostSteps ==
  ASSUME DocInv, NEW w \in Workers
  PROVE  /\ PostNumber(w) => \E n \in Nat :
              /\ Posting("link", req[w].doc, n, <<>>, <<>>, 0) \in ReqType
              /\ req' = [req EXCEPT ![w] = Posting("link", req[w].doc, n, <<>>, <<>>, 0)]
              /\ rowLock' \in [Counters -> Workers \cup {NoWorker}]
         /\ PostLink(w) => \E s \in {"secure", "commit"}, p \in Seq(Entry) :
              /\ Posting(s, req[w].doc, req[w].no, p, <<>>, 0) \in ReqType
              /\ req' = [req EXCEPT ![w] = Posting(s, req[w].doc, req[w].no, p, <<>>, 0)]
         /\ PostSecure(w) => \E n \in Nat, h \in Seq(Entry) :
              /\ Posting("commit", req[w].doc, req[w].no, req[w].prev, h, n) \in ReqType
              /\ req' = [req EXCEPT ![w] = Posting("commit", req[w].doc, req[w].no, req[w].prev, h, n)]
              /\ rowLock' \in [Counters -> Workers \cup {NoWorker}]
<1> USE ConstantsOK
<1>0. <<>> \in Seq(Entry)
  OBVIOUS
<1>1. ASSUME PostNumber(w)
      PROVE  \E n \in Nat :
              /\ Posting("link", req[w].doc, n, <<>>, <<>>, 0) \in ReqType
              /\ req' = [req EXCEPT ![w] = Posting("link", req[w].doc, n, <<>>, <<>>, 0)]
              /\ rowLock' \in [Counters -> Workers \cup {NoWorker}]
  <2>1. ~At(w, "idle")
    BY <1>1 DEF PostNumber, At
  <2> DEFINE d == req[w].doc
             c == <<"name", doc[d].year>>
  <2>2. d \in Docs /\ doc[d] \in Doc /\ doc[d].no \in Nat
    BY <2>1, AtWork DEF Doc
  <2>3. c \in Counters
    BY <2>2 DEF Doc, Counters
  <2>4. lastNo[c] + 1 \in Nat
    BY <2>3 DEF DocInv, Types
  <2>5. PICK n \in Nat : Goto(w, "link", n, <<>>)
    BY <1>1, <2>2, <2>4 DEF PostNumber
  <2>6. req' = [req EXCEPT ![w] = Posting("link", d, n, <<>>, <<>>, 0)]
    BY <2>5 DEF Goto, DocInv, Types
  <2>7. rowLock' \in [Counters -> Workers \cup {NoWorker}]
    BY <1>1, <2>3 DEF PostNumber, Draw, DocInv, Types
  <2>8. QED
    BY <1>0, <2>2, <2>6, <2>7, PostingType
<1>2. ASSUME PostLink(w)
      PROVE  \E s \in {"secure", "commit"}, p \in Seq(Entry) :
              /\ Posting(s, req[w].doc, req[w].no, p, <<>>, 0) \in ReqType
              /\ req' = [req EXCEPT ![w] = Posting(s, req[w].doc, req[w].no, p, <<>>, 0)]
  <2>1. ~At(w, "idle")
    BY <1>2 DEF PostLink, At
  <2>2. req[w].doc \in Docs /\ req[w].no \in Nat
    BY <2>1, AtWork DEF ReqType
  <2>3. \A p \in Latest(req[w].doc) : hash[p] \in Seq(Entry)
    BY DEF Latest, Secured, DocInv, Types
  <2>4. PICK s \in {"secure", "commit"}, p \in Seq(Entry) : Goto(w, s, req[w].no, p)
    BY <1>0, <1>2, <2>3 DEF PostLink
  <2>5. req' = [req EXCEPT ![w] = Posting(s, req[w].doc, req[w].no, p, <<>>, 0)]
    BY <2>4 DEF Goto, DocInv, Types
  <2>6. QED
    BY <1>0, <2>2, <2>5, PostingType
<1>3. ASSUME PostSecure(w)
      PROVE  \E n \in Nat, h \in Seq(Entry) :
              /\ Posting("commit", req[w].doc, req[w].no, req[w].prev, h, n) \in ReqType
              /\ req' = [req EXCEPT ![w] = Posting("commit", req[w].doc, req[w].no, req[w].prev, h, n)]
              /\ rowLock' \in [Counters -> Workers \cup {NoWorker}]
  <2> DEFINE r == req[w]
             c == <<"hash", doc[r.doc].year>>
             h == Append(r.prev, Content(r.doc, r.no))
  <2>1. ~At(w, "idle")
    BY <1>3 DEF PostSecure, At
  <2>2. /\ r.doc \in Docs /\ r.no \in Nat /\ r.prev \in Seq(Entry) /\ doc[r.doc] \in Doc
        /\ doc[r.doc].state = "draft"
    BY <2>1, AtWork DEF ReqType
  <2>3. c \in Counters
    BY <2>2 DEF Doc, Counters
  <2>4. lastNo[c] + 1 \in Nat
    BY <2>3 DEF DocInv, Types
  <2>5. Content(r.doc, r.no) \in Entry
    BY <2>2, ContentType
  <2>6. h \in Seq(Entry)
    BY <2>2, <2>5
  <2>7. /\ req' = [req EXCEPT ![w] = Posting("commit", r.doc, r.no, r.prev, h, lastNo[c] + 1)]
        /\ rowLock' \in [Counters -> Workers \cup {NoWorker}]
    BY <1>3, <2>3 DEF PostSecure, Draw, DocInv, Types
  <2>8. Posting("commit", r.doc, r.no, r.prev, h, lastNo[c] + 1) \in ReqType
    BY <2>2, <2>4, <2>6, PostingType
  <2> HIDE DEF h, c
  <2>9. QED
    BY <2>4, <2>6, <2>7, <2>8
<1>4. QED
  BY <1>1, <1>2, <1>3

LEMMA NextDocInv == DocInv /\ [Next]_vars => DocInv'
<1> SUFFICES ASSUME DocInv, [Next]_vars PROVE DocInv'
  OBVIOUS
<1> USE ConstantsOK
<1>1. CASE SwitchMode
  BY <1>1 DEF SwitchMode, DocInv, Types, DraftsOwned, At
<1>2. ASSUME NEW d \in Docs, Reset(d) PROVE DocInv'
  <2> DEFINE r == [doc[d] EXCEPT !.state = "draft"]
  <2>1. doc[d] \in Doc
    BY <1>2 DEF Reset, DocInv, Types, Absent
  <2>2. r \in Doc /\ r.state = "draft"
    BY <2>1 DEF Doc
  <2>3. QED
    BY <1>2, <2>2, WriteDocInv DEF Reset
<1>3. ASSUME NEW d \in Docs, NEW y \in Years, NEW p \in Payloads, Write(d, y, p) PROVE DocInv'
  <2> DEFINE r == [state |-> "draft", year |-> y, payload |-> p,
                   no |-> doc[d].no, postedBefore |-> doc[d].postedBefore]
  <2>0. doc[d] \in Doc \cup {Absent}
    BY DEF DocInv, Types
  <2>1. r \in Doc /\ r.state = "draft"
    <3>1. doc[d].no \in Nat /\ doc[d].postedBefore \in BOOLEAN
      <4>1. CASE doc[d] \in Doc
        BY <4>1 DEF Doc
      <4>2. CASE doc[d] = Absent
        BY <4>2 DEF Absent
      <4>3. QED
        BY <2>0, <4>1, <4>2
    <3>2. QED
      BY <3>1 DEF Doc
  <2>2. doc' = [doc EXCEPT ![d] = r]
    BY <1>3 DEF Write, DocInv, Types
  <2>3. hash[d] = <<>>
    BY <1>3 DEF Write, DocInv, DraftsOwned
  <2>4. QED
    BY <1>3, <2>1, <2>2, <2>3, WriteDocInv DEF Write
<1>4. ASSUME NEW w \in Workers, NEW d \in Docs, PostBegin(w, d) PROVE DocInv'
  <2> DEFINE r == Posting("number", d, 0, <<>>, <<>>, 0)
  <2>1. r \in ReqType /\ r.doc = d /\ r.step = "number"
    BY DEF Posting, ReqType
  <2>2. req' = [req EXCEPT ![w] = r] /\ UNCHANGED <<doc, hash, secureNo, secureOn, lastNo, rowLock>>
    BY <1>4 DEF PostBegin
  <2>3. Types'
    BY <2>1, <2>2 DEF DocInv, Types
  <2>4. req'[w] = r /\ \A v \in Workers \ {w} : req'[v] = req[v]
    BY <2>2 DEF DocInv, Types
  <2>5. Free(d) /\ doc[d].state = "draft"
    BY <1>4 DEF PostBegin
  <2>6. DraftsOwned'
    BY <2>1, <2>2, <2>4, <2>5 DEF DocInv, DraftsOwned, Free, At
  <2>7. QED
    BY <2>3, <2>6 DEF DocInv
<1>5. ASSUME NEW w \in Workers, PostNumber(w) \/ PostLink(w) \/ PostSecure(w) PROVE DocInv'
  <2>1. /\ ~At(w, "idle")
        /\ UNCHANGED <<doc, hash, secureNo, secureOn, lastNo>>
        /\ PostLink(w) => UNCHANGED rowLock
    BY <1>5 DEF PostNumber, PostLink, PostSecure, At
  <2>2. rowLock' \in [Counters -> Workers \cup {NoWorker}]
    BY <1>5, <2>1, PostSteps DEF DocInv, Types
  <2>3. PICK r \in ReqType : /\ req' = [req EXCEPT ![w] = r]
                             /\ r.doc = req[w].doc /\ r.step # "idle"
    BY <1>5, PostSteps DEF Posting
  <2>4. QED
    BY <2>1, <2>2, <2>3, GoOnDocInv
<1>6. ASSUME NEW w \in Workers, PostCommit(w) PROVE DocInv'
  <2> DEFINE r == req[w]
             d == r.doc
             new == [state |-> "posted", year |-> doc[d].year, payload |-> doc[d].payload,
                     no |-> r.no, postedBefore |-> TRUE]
  <2>1. /\ d \in Docs /\ r \in ReqType /\ doc[d] \in Doc
        /\ \A v \in Workers \ {w} : req[v].doc # d
    BY <1>6, AtWork DEF PostCommit, At
  <2>2. new \in Doc
    BY <2>1 DEF Doc, ReqType
  <2>3. /\ doc' = [doc EXCEPT ![d] = new] /\ secureOn' = secureOn
        /\ hash' \in [Docs -> Seq(Entry)] /\ secureNo' \in [Docs -> Nat]
        /\ lastNo' \in [Counters -> Nat]
        /\ \A e \in Docs \ {d} : hash'[e] = hash[e]
    BY <1>6, <2>1 DEF PostCommit, DocInv, Types, ReqType
  <2>4. Types'
    BY <1>6, <2>1, <2>2, <2>3, ReleaseFacts DEF PostCommit, DocInv, Types
  <2>5. /\ req'[w] = Idle /\ \A v \in Workers \ {w} : req'[v] = req[v]
        /\ doc'[d].state = "posted" /\ \A e \in Docs \ {d} : doc'[e] = doc[e]
    BY <1>6, <2>1, <2>3, ReleaseFacts DEF PostCommit, DocInv, Types
  <2>6. DraftsOwned'
    <3>1. \A v \in Workers : /\ At(v, "idle")' => req'[v].doc = NoDoc
                             /\ ~At(v, "idle")' => v # w /\ req'[v] = req[v] /\ ~At(v, "idle")
      BY <2>5 DEF DocInv, DraftsOwned, At, Idle, Posting
    <3>2. \A v \in Workers : ~At(v, "idle")' => req'[v].doc \in Docs /\ doc'[req'[v].doc].state = "draft"
      BY <2>1, <2>5, <3>1 DEF DocInv, DraftsOwned
    <3>3. \A u, v \in Workers : u # v /\ req'[v].doc # NoDoc => req'[u].doc # req'[v].doc
      BY <2>5 DEF DocInv, DraftsOwned, Idle, Posting
    <3>4. \A e \in Docs : doc'[e].state # "posted" => hash'[e] = <<>>
      BY <2>3, <2>5 DEF DocInv, DraftsOwned
    <3>5. QED
      BY <3>1, <3>2, <3>3, <3>4 DEF DraftsOwned
  <2>7. QED
    BY <2>4, <2>6 DEF DocInv
<1>7. ASSUME NEW w \in Workers, PostFails(w) PROVE DocInv'
  <2>1. Types'
    BY <1>7, ReleaseFacts DEF PostFails, DocInv, Types
  <2>2. /\ req'[w] = Idle /\ \A v \in Workers \ {w} : req'[v] = req[v]
        /\ UNCHANGED <<doc, hash>>
    BY <1>7, ReleaseFacts DEF PostFails
  <2>3. DraftsOwned'
    BY <2>2 DEF DocInv, DraftsOwned, At, Idle, Posting
  <2>4. QED
    BY <2>1, <2>3 DEF DocInv
<1>8. CASE UNCHANGED vars
  BY <1>8 DEF vars, DocInv, Types, DraftsOwned, At
<1>9. QED
  BY <1>1, <1>2, <1>3, <1>4, <1>5, <1>6, <1>7, <1>8 DEF Next

\* A secured document is never touched again, however postings of it and of others,
\* resets, edits and the journal's option interleave.
THEOREM SecuredStays == Spec => SecuredForGood
<1> DEFINE Kept == \A d \in Secured : /\ doc'[d] = doc[d] /\ hash'[d] = hash[d]
                                      /\ secureNo'[d] = secureNo[d]
<1>1. DocInv /\ [Next]_vars => [Kept]_vars
  <2> SUFFICES ASSUME DocInv, [Next]_vars, NEW d \in Docs, hash[d] # <<>>
               PROVE  doc'[d] = doc[d] /\ hash'[d] = hash[d] /\ secureNo'[d] = secureNo[d]
    BY DEF Secured
  <2>0. doc[d].state = "posted"
    BY DEF DocInv, DraftsOwned
  <2>1. ASSUME NEW w \in Workers, PostCommit(w) PROVE req[w].doc # d
    BY <2>0, <2>1, AtWork DEF PostCommit, At
  <2>2. ASSUME NEW e \in Docs, Reset(e) \/ \E y \in Years, p \in Payloads : Write(e, y, p)
        PROVE  e # d
    BY <2>0, <2>2 DEF Reset, Write
  <2>3. QED
    BY <2>1, <2>2 DEF Next, vars, SwitchMode, Reset, Write, PostBegin, PostNumber, PostLink,
       PostSecure, PostCommit, PostFails, DocInv, Types
<1>2. QED
  BY <1>1, InitDocInv, NextDocInv, PTL DEF Spec, SecuredForGood
-----------------------------------------------------------------------------
Late(w) == req[w].step \in {"link", "secure", "commit"}

\* The rows a posting has written: the one of the name, from its number on, unless it
\* keeps its number; the one of the secure number at its commit.
TurnsInv ==
  /\ \A c \in Counters, w \in Workers :
       rowLock[c] = w => Late(w) /\ (c[1] = "hash" => At(w, "commit"))
  /\ \A w \in Workers :
       Late(w) /\ ~Repost(w) => rowLock[<<"name", doc[req[w].doc].year>>] = w
  /\ LoneReposts => \A w \in Workers : Repost(w) => Alone(w)

LEMMA InitTurnsInv == Init => TurnsInv
BY ConstantsOK DEF Init, TurnsInv, Late, Repost, At, Idle, Posting

\* A call that keeps the year and the past of every document some posting has
LEMMA KeepTurnsInv ==
  ASSUME DocInv, TurnsInv, UNCHANGED <<rowLock, req>>,
         \A w \in Workers : ~At(w, "idle") =>
           /\ doc'[req[w].doc].year = doc[req[w].doc].year
           /\ doc'[req[w].doc].postedBefore = doc[req[w].doc].postedBefore
  PROVE  TurnsInv'
BY DEF TurnsInv, Late, Repost, Alone, At

LEMMA NextTurnsInv == DocInv /\ TurnsInv /\ [Next]_vars => TurnsInv'
<1> SUFFICES ASSUME DocInv, TurnsInv, [Next]_vars PROVE TurnsInv'
  OBVIOUS
<1> USE ConstantsOK
<1>1. CASE SwitchMode \/ UNCHANGED vars
  BY <1>1, KeepTurnsInv DEF SwitchMode, vars
<1>2. ASSUME NEW d \in Docs, Reset(d) \/ \E y \in Years, p \in Payloads : Write(d, y, p)
      PROVE  TurnsInv'
  <2>1. /\ Free(d) /\ UNCHANGED <<rowLock, req>>
        /\ \A e \in Docs \ {d} : doc'[e] = doc[e]
    BY <1>2 DEF Reset, Write, DocInv, Types
  <2>2. \A w \in Workers : ~At(w, "idle") => req[w].doc \in Docs \ {d}
    BY <2>1 DEF Free, DocInv, DraftsOwned
  <2>3. QED
    BY <2>1, <2>2, KeepTurnsInv
<1>3. ASSUME NEW w \in Workers, NEW d \in Docs, PostBegin(w, d) PROVE TurnsInv'
  <2>1. /\ req'[w] = Posting("number", d, 0, <<>>, <<>>, 0)
        /\ \A v \in Workers \ {w} : req'[v] = req[v]
        /\ At(w, "idle") /\ UNCHANGED <<doc, rowLock>>
        /\ LoneReposts => IF doc[d].postedBefore THEN Alone(w)
                                                 ELSE \A v \in Workers : ~Repost(v)
    BY <1>3 DEF PostBegin, DocInv, Types
  <2>2. /\ \A v \in Workers : Late(v)' => v # w /\ Late(v) /\ (Repost(v)' <=> Repost(v))
        /\ \A v \in Workers : Late(v) => v # w
        /\ Repost(w)' => doc[d].postedBefore
    BY <2>1 DEF Late, At, Repost, Posting
  <2>3. \A c \in Counters, v \in Workers :
          rowLock'[c] = v => Late(v)' /\ (c[1] = "hash" => At(v, "commit")')
    BY <2>1, <2>2 DEF TurnsInv, Late, At
  <2>4. \A v \in Workers :
          Late(v)' /\ ~Repost(v)' => rowLock'[<<"name", doc'[req'[v].doc].year>>] = v
    BY <2>1, <2>2 DEF TurnsInv
  <2>5. LoneReposts => \A v \in Workers : Repost(v)' => Alone(v)'
    BY <2>1, <2>2 DEF TurnsInv, Alone, Repost, At
  <2>6. QED
    BY <2>3, <2>4, <2>5 DEF TurnsInv
<1>4. ASSUME NEW w \in Workers, PostNumber(w) \/ PostLink(w) \/ PostSecure(w) PROVE TurnsInv'
  <2> DEFINE d == req[w].doc
  <2>1. PICK r \in ReqType :
          /\ req' = [req EXCEPT ![w] = r] /\ r.doc = d
          /\ PostNumber(w) => r.step = "link"
          /\ PostLink(w) => r.step \in {"secure", "commit"}
          /\ PostSecure(w) => r.step = "commit"
    <3>1. PostNumber(w) /\ PostLink(w) => FALSE
      BY DEF PostNumber, PostLink, At
    <3>2. PostNumber(w) /\ PostSecure(w) => FALSE
      BY DEF PostNumber, PostSecure, At
    <3>3. PostLink(w) /\ PostSecure(w) => FALSE
      BY DEF PostLink, PostSecure, At
    <3>4. QED
      BY <1>4, <3>1, <3>2, <3>3, PostSteps DEF Posting
  <2>2. req'[w] = r /\ \A v \in Workers \ {w} : req'[v] = req[v]
    BY <2>1 DEF DocInv, Types
  <2>3. ~At(w, "idle") /\ r.step \in {"link", "secure", "commit"} /\ UNCHANGED doc
    BY <1>4, <2>1 DEF PostNumber, PostLink, PostSecure, At
  <2>4. /\ Late(w)' /\ (Repost(w)' <=> Repost(w))
        /\ \A v \in Workers \ {w} : (Late(v)' <=> Late(v)) /\ (Repost(v)' <=> Repost(v))
    BY <2>1, <2>2, <2>3 DEF Late, Repost, At
  <2>5. doc[d] \in Doc
    BY <2>3, AtWork
  <2>6. \A c \in Counters :
          \/ rowLock'[c] = rowLock[c]
          \/ rowLock[c] = NoWorker /\ rowLock'[c] = w /\ (c[1] = "hash" => PostSecure(w))
    <3>1. ASSUME NEW k \in Counters, Draw(w, k), NEW c \in Counters
          PROVE  \/ rowLock'[c] = rowLock[c]
                 \/ rowLock[c] = NoWorker /\ rowLock'[c] = w /\ c = k
      BY <3>1 DEF Draw, DocInv, Types
    <3>2. /\ <<"name", doc[d].year>> \in Counters /\ <<"name", doc[d].year>>[1] # "hash"
          /\ <<"hash", doc[d].year>> \in Counters
      BY <2>5 DEF Doc, Counters
    <3>3. CASE PostNumber(w)
      BY <3>1, <3>2, <3>3 DEF PostNumber
    <3>4. CASE PostLink(w)
      BY <3>4 DEF PostLink
    <3>5. CASE PostSecure(w)
      BY <3>1, <3>2, <3>5 DEF PostSecure
    <3>6. QED
      BY <1>4, <3>3, <3>4, <3>5
  <2>7. /\ PostNumber(w) /\ ~Repost(w) => rowLock'[<<"name", doc[d].year>>] = w
        /\ PostLink(w) \/ PostSecure(w) => Late(w)
    <3>1. ASSUME PostNumber(w), ~Repost(w) PROVE rowLock'[<<"name", doc[d].year>>] = w
      <4>1. Draw(w, <<"name", doc[d].year>>)
        BY <2>3, <3>1 DEF PostNumber, Repost
      <4>2. <<"name", doc[d].year>> \in Counters
        BY <2>5 DEF Doc, Counters
      <4>3. QED
        BY <4>1, <4>2 DEF Draw, DocInv, Types
    <3>2. QED
      BY <3>1 DEF PostLink, PostSecure, Late, At
  <2>8. ASSUME NEW c \in Counters, NEW v \in Workers, rowLock'[c] = v
        PROVE  Late(v)' /\ (c[1] = "hash" => At(v, "commit")')
    <3>1. CASE rowLock[c] = v
      <4>1. Late(v) /\ (c[1] = "hash" => At(v, "commit"))
        BY <3>1 DEF TurnsInv
      <4>2. v = w => ~At(w, "commit")
        BY <1>4 DEF PostNumber, PostLink, PostSecure, At
      <4>3. QED
        BY <2>2, <2>4, <4>1, <4>2 DEF At
    <3>2. CASE rowLock[c] # v
      BY <2>1, <2>2, <2>4, <2>6, <2>8, <3>2 DEF At
    <3>3. QED
      BY <3>1, <3>2
  <2>9. ASSUME NEW v \in Workers, Late(v)', ~Repost(v)'
        PROVE  rowLock'[<<"name", doc'[req'[v].doc].year>>] = v
    <3>1. req'[v].doc = req[v].doc /\ ~At(v, "idle") /\ ~Repost(v)
      BY <2>1, <2>2, <2>3, <2>4, <2>9 DEF Late, At
    <3>2. <<"name", doc[req[v].doc].year>> \in Counters
      BY <3>1, AtWork DEF Doc, Counters
    <3>3. CASE Late(v)
      <4>1. rowLock[<<"name", doc[req[v].doc].year>>] = v
        BY <3>1, <3>3 DEF TurnsInv
      <4>2. QED
        BY <2>3, <2>6, <3>1, <3>2, <4>1
    <3>4. CASE ~Late(v)
      BY <1>4, <2>3, <2>4, <2>7, <2>9, <3>1, <3>4
    <3>5. QED
      BY <3>3, <3>4
  <2>10. LoneReposts => \A v \in Workers : Repost(v)' => Alone(v)'
    BY <2>2, <2>3, <2>4 DEF TurnsInv, Alone, At
  <2>11. QED
    BY <2>8, <2>9, <2>10 DEF TurnsInv
<1>5. ASSUME NEW w \in Workers, PostCommit(w) \/ PostFails(w) PROVE TurnsInv'
  <2>1. /\ req'[w] = Idle /\ \A v \in Workers \ {w} : req'[v] = req[v]
        /\ \A c \in Counters : rowLock'[c] = IF rowLock[c] = w THEN NoWorker ELSE rowLock[c]
    BY <1>5, ReleaseFacts DEF PostCommit, PostFails
  <2>2. ~At(w, "idle") /\ \A e \in Docs \ {req[w].doc} : doc'[e] = doc[e]
    BY <1>5 DEF PostCommit, PostFails, At, DocInv, Types
  <2>3. \A v \in Workers : ~At(v, "idle")' =>
          v # w /\ req'[v] = req[v] /\ ~At(v, "idle") /\ doc'[req[v].doc] = doc[req[v].doc]
    BY <2>1, <2>2, AtWork DEF At, Idle, Posting
  <2>4. \A v \in Workers :
          /\ Late(v)' => v # w /\ Late(v) /\ (Repost(v)' <=> Repost(v)) /\ ~At(v, "idle")'
          /\ Repost(v)' => v # w /\ Repost(v)
    BY <2>3 DEF Late, Repost, At
  <2>5. ASSUME NEW c \in Counters, NEW v \in Workers, rowLock'[c] = v
        PROVE  Late(v)' /\ (c[1] = "hash" => At(v, "commit")')
    <3>1. rowLock[c] = v /\ v # w
      BY <2>1, <2>5
    <3>2. QED
      BY <2>1, <3>1 DEF TurnsInv, Late, At
  <2>6. ASSUME NEW v \in Workers, Late(v)', ~Repost(v)'
        PROVE  rowLock'[<<"name", doc'[req'[v].doc].year>>] = v
    <3>1. v # w /\ Late(v) /\ ~Repost(v) /\ ~At(v, "idle") /\ req'[v] = req[v] /\ doc'[req[v].doc] = doc[req[v].doc]
      BY <2>3, <2>4, <2>6
    <3>2. <<"name", doc[req[v].doc].year>> \in Counters
      BY <3>1, AtWork DEF Doc, Counters
    <3>3. QED
      BY <2>1, <3>1, <3>2 DEF TurnsInv
  <2>7. LoneReposts => \A v \in Workers : Repost(v)' => Alone(v)'
    BY <2>1, <2>4 DEF TurnsInv, Alone, At, Idle, Posting
  <2>8. QED
    BY <2>5, <2>6, <2>7 DEF TurnsInv
<1>6. QED
  BY <1>1, <1>2, <1>3, <1>4, <1>5 DEF Next

\* In one year, postings that have their number take turns.
LEMMA OneLate ==
  ASSUME DocInv, TurnsInv, LoneReposts, \A y, z \in Years : y = z,
         NEW v \in Workers, NEW w \in Workers, Late(v), Late(w)
  PROVE  v = w
<1>1. CASE Repost(v) \/ Repost(w)
  BY <1>1 DEF TurnsInv, Alone, Late, At
<1>2. CASE ~Repost(v) /\ ~Repost(w)
  <2>1. doc[req[v].doc].year = doc[req[w].doc].year
    BY AtWork DEF Late, At, Doc
  <2>2. QED
    BY <1>2, <2>1 DEF TurnsInv
<1>3. QED
  BY <1>1, <1>2
-----------------------------------------------------------------------------
Top(p) == p \in Secured /\ \A q \in Secured : secureNo[q] <= secureNo[p]

\* The hash the next secured document goes on from
Tip(h) == \/ Secured = {} /\ h = <<>>
          \/ \E p \in Docs : Top(p) /\ h = hash[p]

\* A secured document covers itself and what the one before it covers.
Linked(d) ==
  \/ /\ \A q \in Secured : secureNo[q] >= secureNo[d]
     /\ hash[d] = Append(<<>>, Content(d, doc[d].no))
  \/ \E p \in Secured :
       /\ secureNo[p] < secureNo[d]
       /\ \A q \in Secured : secureNo[q] < secureNo[d] => secureNo[q] <= secureNo[p]
       /\ hash[d] = Append(hash[p], Content(d, doc[d].no))

\* What a posting has read and computed is what its commit will need.
Prepared(w) ==
  LET r == req[w]
      c == <<"hash", doc[r.doc].year>>
  IN /\ At(w, "secure") => Tip(r.prev)
     /\ At(w, "commit") /\ r.secureNo # 0 =>
          /\ Tip(r.prev) /\ r.hash = Append(r.prev, Content(r.doc, r.no))
          /\ rowLock[c] = w /\ r.secureNo = lastNo[c] + 1

RecordInv ==
  /\ \A d \in Secured : \A y \in Years : secureNo[d] <= lastNo[<<"hash", y>>]
  /\ \A d, e \in Secured : secureNo[d] = secureNo[e] => d = e
  /\ Secured # {} => \E p \in Docs : Top(p)
  /\ \A d \in Secured : Linked(d)
  /\ \A w \in Workers : Prepared(w)

LEMMA InitRecordInv == Init => RecordInv
<1> SUFFICES ASSUME Init PROVE RecordInv
  OBVIOUS
<1>1. Secured = {}
  BY DEF Init, Secured
<1>2. \A w \in Workers : Prepared(w)
  BY DEF Init, Prepared, At, Idle, Posting
<1>3. QED
  BY <1>1, <1>2 DEF RecordInv

\* A step that secures nothing and does not touch what is secured
LEMMA KeepRecordInv ==
  ASSUME DocInv, RecordInv, UNCHANGED <<hash, secureNo, lastNo>>,
         \A d \in Secured : doc'[d] = doc[d],
         \A w \in Workers : Prepared(w)'
  PROVE  RecordInv'
<1>1. Secured' = Secured
  BY DEF Secured
<1>2. \A d \in Secured : Content(d, doc[d].no)' = Content(d, doc[d].no)
  BY DEF Content
<1>3. \A d \in Secured : Linked(d)'
  BY <1>1, <1>2 DEF RecordInv, Linked
<1>4. QED
  BY <1>1, <1>3 DEF RecordInv, Top

LEMMA KeepTip ==
  ASSUME UNCHANGED <<hash, secureNo>>, NEW h
  PROVE  Tip(h)' <=> Tip(h)
BY DEF Tip, Top, Secured

\* A posting is as prepared as it was when neither it nor its document changes.
LEMMA KeepPrepared ==
  ASSUME DocInv, NEW w \in Workers, Prepared(w), UNCHANGED <<hash, secureNo, lastNo>>,
         req'[w] = req[w], ~At(w, "idle") => doc'[req[w].doc] = doc[req[w].doc],
         \A c \in Counters : rowLock[c] = w => rowLock'[c] = w
  PROVE  Prepared(w)'
<1>1. CASE At(w, "commit") /\ req[w].secureNo # 0
  <2>1. <<"hash", doc[req[w].doc].year>> \in Counters
    BY <1>1, AtWork DEF At, Doc, Counters
  <2>2. doc'[req[w].doc] = doc[req[w].doc]
    BY <1>1 DEF At
  <2>3. /\ Tip(req[w].prev) /\ req[w].hash = Append(req[w].prev, Content(req[w].doc, req[w].no))
        /\ rowLock[<<"hash", doc[req[w].doc].year>>] = w
        /\ req[w].secureNo = lastNo[<<"hash", doc[req[w].doc].year>>] + 1
    BY <1>1 DEF Prepared
  <2>4. Content(req[w].doc, req[w].no)' = Content(req[w].doc, req[w].no)
    BY <2>2 DEF Content
  <2>5. Tip(req[w].prev)'
    BY <2>3, KeepTip
  <2>6. QED
    BY <1>1, <2>1, <2>2, <2>3, <2>4, <2>5 DEF Prepared, At
<1>2. CASE ~(At(w, "commit") /\ req[w].secureNo # 0)
  BY <1>2, KeepTip DEF Prepared, At
<1>3. QED
  BY <1>1, <1>2

\* Commit of a posting of a secured journal: it becomes the end of the record.
LEMMA SecureRecordInv ==
  ASSUME DocInv, TurnsInv, RecordInv, LoneReposts, \A y, z \in Years : y = z,
         NEW w \in Workers, PostCommit(w), NEW r, NEW d, r = req[w], d = r.doc, r.secureNo # 0
  PROVE  /\ RecordInv' /\ Top(d)'
         /\ Tip(r.prev) /\ hash'[d] = Append(r.prev, Content(d, r.no))
<1> USE ConstantsOK
<1>0. PICK c : c = <<"hash", doc[d].year>>
  OBVIOUS
<1>1. At(w, "commit") /\ Late(w)
  BY DEF PostCommit, At, Late
<1>2. /\ d \in Docs /\ r \in ReqType /\ doc[d] \in Doc /\ hash[d] = <<>> /\ doc[d].state = "draft"
      /\ \A v \in Workers \ {w} : req[v].doc # d
  BY <1>1, AtWork DEF At
<1>3. c \in Counters /\ \A y \in Years : <<"hash", y>> = c
  BY <1>0, <1>2 DEF Doc, Counters
<1>4. /\ Tip(r.prev) /\ r.hash = Append(r.prev, Content(d, r.no))
      /\ rowLock[c] = w /\ r.secureNo = lastNo[c] + 1 /\ lastNo[c] \in Nat
  BY <1>0, <1>1, <1>3 DEF RecordInv, Prepared, DocInv, Types
<1>5. /\ hash'[d] = r.hash /\ secureNo'[d] = r.secureNo
      /\ doc'[d].no = r.no /\ doc'[d].year = doc[d].year /\ doc'[d].payload = doc[d].payload
      /\ \A e \in Docs \ {d} : hash'[e] = hash[e] /\ secureNo'[e] = secureNo[e] /\ doc'[e] = doc[e]
      /\ lastNo'[c] = lastNo[c] + 1
  BY <1>2, <1>3, <1>4 DEF PostCommit, DocInv, Types
<1>6. r.hash # <<>> /\ r.prev \in Seq(Entry) /\ Content(d, r.no) \in Entry
  <2>1. r.prev \in Seq(Entry) /\ Content(d, r.no) \in Entry
    BY <1>2, ContentType DEF ReqType
  <2>2. Append(r.prev, Content(d, r.no)) # <<>>
    BY <2>1, AppendProperties
  <2>3. QED
    BY <1>4, <2>1, <2>2
<1>7. Secured' = Secured \cup {d} /\ d \notin Secured
  BY <1>2, <1>5, <1>6 DEF Secured
<1>8. \A q \in Secured : /\ q \in Docs \ {d} /\ secureNo[q] \in Nat
                         /\ secureNo[q] <= lastNo[c] /\ secureNo'[q] = secureNo[q]
                         /\ secureNo'[q] < secureNo'[d]
  <2>1. \A q \in Secured : q \in Docs \ {d} /\ secureNo[q] \in Nat
    BY <1>2 DEF Secured, DocInv, Types
  <2>2. \A q \in Secured : secureNo[q] <= lastNo[c]
    BY <1>2, <1>3 DEF RecordInv, Doc
  <2>3. QED
    BY <1>4, <1>5, <2>1, <2>2
<1>9. Top(d)'
  BY <1>4, <1>5, <1>7, <1>8 DEF Top
<1>10. Content(d, doc[d].no)' = Content(d, r.no)
  BY <1>5 DEF Content
<1>11. Linked(d)'
  <2>1. CASE Secured = {} /\ r.prev = <<>>
    BY <1>4, <1>5, <1>7, <1>10, <2>1 DEF Linked
  <2>2. CASE \E p \in Docs : Top(p) /\ r.prev = hash[p]
    <3>1. PICK p \in Secured : Top(p) /\ r.prev = hash[p]
      BY <2>2 DEF Top
    <3>2. p \in Secured' /\ secureNo'[p] < secureNo'[d] /\ hash'[p] = hash[p]
      BY <1>5, <1>7, <1>8
    <3>3. \A q \in Secured' : secureNo'[q] < secureNo'[d] => secureNo'[q] <= secureNo'[p]
      BY <1>5, <1>7, <1>8, <3>1, <1>4 DEF Top
    <3>4. hash'[d] = Append(hash'[p], Content(d, doc[d].no)')
      BY <1>4, <1>5, <1>10, <3>1, <3>2
    <3>5. QED
      BY <3>2, <3>3, <3>4 DEF Linked
  <2>3. QED
    BY <1>4, <2>1, <2>2 DEF Tip
<1>12. ASSUME NEW e \in Secured PROVE Linked(e)'
  <2>1. Content(e, doc[e].no)' = Content(e, doc[e].no) /\ hash'[e] = hash[e]
    BY <1>5, <1>8 DEF Content
  <2>2. CASE /\ \A q \in Secured : secureNo[q] >= secureNo[e]
             /\ hash[e] = Append(<<>>, Content(e, doc[e].no))
    <3>1. \A q \in Secured' : secureNo'[q] >= secureNo'[e]
      BY <1>4, <1>5, <1>7, <1>8, <2>2
    <3>2. QED
      BY <2>1, <2>2, <3>1 DEF Linked
  <2>3. CASE \E p \in Secured :
               /\ secureNo[p] < secureNo[e]
               /\ \A q \in Secured : secureNo[q] < secureNo[e] => secureNo[q] <= secureNo[p]
               /\ hash[e] = Append(hash[p], Content(e, doc[e].no))
    <3>1. PICK p \in Secured :
               /\ secureNo[p] < secureNo[e]
               /\ \A q \in Secured : secureNo[q] < secureNo[e] => secureNo[q] <= secureNo[p]
               /\ hash[e] = Append(hash[p], Content(e, doc[e].no))
      BY <2>3
    <3>2. p \in Secured' /\ secureNo'[p] < secureNo'[e] /\ hash'[p] = hash[p]
      BY <1>5, <1>7, <1>8, <3>1
    <3>3. \A q \in Secured' : secureNo'[q] < secureNo'[e] => secureNo'[q] <= secureNo'[p]
      BY <1>4, <1>5, <1>7, <1>8, <3>1
    <3>4. hash'[e] = Append(hash'[p], Content(e, doc[e].no)')
      BY <2>1, <3>1, <3>2
    <3>5. QED
      BY <3>2, <3>3, <3>4 DEF Linked
  <2>4. QED
    BY <2>2, <2>3 DEF RecordInv, Linked
<1>13. ASSUME NEW v \in Workers PROVE Prepared(v)'
  <2>1. req'[w] = Idle /\ \A u \in Workers \ {w} : req'[u] = req[u]
    BY ReleaseFacts DEF PostCommit
  <2>2. v # w => ~Late(v)
    BY <1>1, OneLate
  <2>3. ~At(v, "secure")' /\ ~At(v, "commit")'
    BY <2>1, <2>2 DEF At, Late, Idle, Posting
  <2>4. QED
    BY <2>3 DEF Prepared
<1>14. \A e \in Secured' : \A y \in Years : secureNo'[e] <= lastNo'[<<"hash", y>>]
  <2>1. \A e \in Secured' : secureNo'[e] <= lastNo'[c]
    BY <1>4, <1>5, <1>7, <1>8
  <2>2. QED
    BY <1>3, <2>1
<1>15. \A e, f \in Secured' : secureNo'[e] = secureNo'[f] => e = f
  BY <1>4, <1>5, <1>7, <1>8 DEF RecordInv
<1>16. QED
  BY <1>2, <1>4, <1>5, <1>7, <1>9, <1>11, <1>12, <1>13, <1>14, <1>15 DEF RecordInv

\* Any other commit leaves the record as it is.
LEMMA PlainRecordInv ==
  ASSUME DocInv, TurnsInv, RecordInv, LoneReposts, \A y, z \in Years : y = z,
         NEW w \in Workers, PostCommit(w), req[w].secureNo = 0
  PROVE  RecordInv' /\ UNCHANGED <<hash, secureNo>>
<1> USE ConstantsOK
<1>0. PICK d : d = req[w].doc
  OBVIOUS
<1>1. At(w, "commit") /\ Late(w) /\ d \in Docs /\ hash[d] = <<>>
  BY <1>0, AtWork DEF PostCommit, At, Late
<1>2. /\ UNCHANGED <<hash, secureNo>>
      /\ \A e \in Docs \ {d} : doc'[e] = doc[e]
      /\ \A c \in Counters : lastNo[c] \in Nat /\ lastNo'[c] \in {lastNo[c], lastNo[c] + 1}
  BY <1>0, <1>1 DEF PostCommit, DocInv, Types
<1>3. Secured' = Secured /\ d \notin Secured
  BY <1>1, <1>2 DEF Secured
<1>4. ASSUME NEW v \in Workers PROVE Prepared(v)'
  <2>1. req'[w] = Idle /\ \A u \in Workers \ {w} : req'[u] = req[u]
    BY ReleaseFacts DEF PostCommit
  <2>2. v # w => ~Late(v)
    BY <1>1, OneLate
  <2>3. ~At(v, "secure")' /\ ~At(v, "commit")'
    BY <2>1, <2>2 DEF At, Late, Idle, Posting
  <2>4. QED
    BY <2>3 DEF Prepared
<1>5. ASSUME NEW e \in Secured PROVE Linked(e)'
  <2>1. e \in Docs /\ Content(e, doc[e].no)' = Content(e, doc[e].no)
    BY <1>2, <1>3 DEF Secured, Content
  <2>2. QED
    BY <1>2, <1>3, <2>1 DEF RecordInv, Linked
<1>6. ASSUME NEW e \in Secured, NEW y \in Years PROVE secureNo'[e] <= lastNo'[<<"hash", y>>]
  <2>1. <<"hash", y>> \in Counters /\ secureNo[e] \in Nat /\ secureNo[e] <= lastNo[<<"hash", y>>]
    BY DEF RecordInv, Counters, Secured, DocInv, Types
  <2>2. QED
    BY <1>2, <2>1
<1>7. QED
  BY <1>2, <1>3, <1>4, <1>5, <1>6 DEF RecordInv, Top

LEMMA NextRecordInv ==
  ASSUME LoneReposts, \A y, z \in Years : y = z
  PROVE  DocInv /\ TurnsInv /\ RecordInv /\ [Next]_vars => RecordInv'
<1> SUFFICES ASSUME DocInv, TurnsInv, RecordInv, [Next]_vars PROVE RecordInv'
  OBVIOUS
<1> USE ConstantsOK
<1>0. \A w \in Workers : Prepared(w)
  BY DEF RecordInv
<1>1. CASE SwitchMode \/ UNCHANGED vars
  BY <1>0, <1>1, KeepPrepared, KeepRecordInv DEF SwitchMode, vars
<1>2. ASSUME NEW d \in Docs, Reset(d) \/ \E y \in Years, p \in Payloads : Write(d, y, p)
      PROVE  RecordInv'
  <2>1. /\ Free(d) /\ UNCHANGED <<hash, secureNo, lastNo, rowLock, req>>
        /\ \A e \in Docs \ {d} : doc'[e] = doc[e]
    BY <1>2 DEF Reset, Write, DocInv, Types
  <2>2. d \notin Secured
    BY <1>2 DEF Reset, Write, DocInv, DraftsOwned, Secured
  <2>3. \A w \in Workers : ~At(w, "idle") => req[w].doc \in Docs \ {d}
    BY <2>1 DEF Free, DocInv, DraftsOwned
  <2>4. \A w \in Workers : Prepared(w)'
    BY <1>0, <2>1, <2>3, KeepPrepared
  <2>5. \A e \in Secured : doc'[e] = doc[e]
    BY <2>1, <2>2 DEF Secured
  <2>6. QED
    BY <2>1, <2>4, <2>5, KeepRecordInv
<1>3. ASSUME NEW w \in Workers, NEW d \in Docs, PostBegin(w, d) PROVE RecordInv'
  <2>1. /\ req'[w] = Posting("number", d, 0, <<>>, <<>>, 0)
        /\ \A v \in Workers \ {w} : req'[v] = req[v]
        /\ UNCHANGED <<doc, hash, secureNo, lastNo, rowLock>>
    BY <1>3 DEF PostBegin, DocInv, Types
  <2>2. Prepared(w)'
    BY <2>1 DEF Prepared, At, Posting
  <2>3. \A v \in Workers \ {w} : Prepared(v)'
    BY <1>0, <2>1, KeepPrepared
  <2>4. QED
    BY <2>1, <2>2, <2>3, KeepRecordInv
<1>4. ASSUME NEW w \in Workers, PostNumber(w) \/ PostLink(w) \/ PostSecure(w) PROVE RecordInv'
  <2>0. PICK d : d = req[w].doc
    OBVIOUS
  <2>1. /\ ~At(w, "idle") /\ UNCHANGED <<doc, hash, secureNo, lastNo>>
        /\ \A v \in Workers \ {w} : req'[v] = req[v]
        /\ \A v \in Workers, c \in Counters : rowLock[c] = v => rowLock'[c] = v
    BY <1>4 DEF PostNumber, PostLink, PostSecure, Draw, Goto, At, DocInv, Types
  <2>2. \A v \in Workers \ {w} : Prepared(v)'
    BY <1>0, <2>1, KeepPrepared
  <2>3. d \in Docs /\ doc[d] \in Doc /\ hash[d] = <<>> /\ d \notin Secured
    BY <2>0, <2>1, AtWork DEF Secured
  <2>4. CASE PostNumber(w)
    <3>1. req'[w].step = "link"
      <4>1. PICK n \in Nat : req' = [req EXCEPT ![w] = Posting("link", req[w].doc, n, <<>>, <<>>, 0)]
        BY <2>4, PostSteps
      <4>2. QED
        BY <4>1 DEF Posting, DocInv, Types
    <3>2. Prepared(w)'
      BY <3>1 DEF Prepared, At
    <3>3. QED
      BY <2>1, <2>2, <3>2, KeepRecordInv
  <2>5. CASE PostLink(w)
    <3>1. Latest(d) = {} => Secured = {}
      BY <2>3 DEF Latest, Top, RecordInv
    <3>2. \A p \in Latest(d) : p \in Docs /\ Top(p)
      BY <2>3 DEF Latest, Top, Secured
    <3>3. \/ Goto(w, "commit", req[w].no, <<>>)
          \/ \E h : Tip(h) /\ Goto(w, "secure", req[w].no, h)
      BY <2>0, <2>5, <3>1, <3>2 DEF PostLink, Tip
    <3>4. \/ req'[w].step = "commit" /\ req'[w].secureNo = 0
          \/ req'[w].step = "secure" /\ Tip(req'[w].prev)
      BY <3>3 DEF Goto, Posting, DocInv, Types
    <3>5. PICK h : h = req'[w].prev
      OBVIOUS
    <3>6. Tip(h) => Tip(h)'
      BY <2>1, KeepTip
    <3>7. req'[w].step = "secure" => Tip(req[w].prev)'
      BY <3>4, <3>5, <3>6
    <3>8. Prepared(w)'
      BY <3>4, <3>7 DEF Prepared, At
    <3>9. QED
      BY <2>1, <2>2, <3>8, KeepRecordInv
  <2>6. CASE PostSecure(w)
    <3>1. PICK r, c : r = req[w] /\ c = <<"hash", doc[d].year>>
      OBVIOUS
    <3>2. Tip(r.prev)
      BY <1>0, <2>6, <3>1 DEF PostSecure, Prepared
    <3>3. /\ rowLock'[c] = w /\ lastNo'[c] = lastNo[c]
          /\ req'[w] = Posting("commit", d, r.no, r.prev, Append(r.prev, Content(d, r.no)), lastNo[c] + 1)
      <4>1. c \in Counters
        BY <2>3, <3>1 DEF Doc, Counters
      <4>2. QED
        BY <2>0, <2>1, <2>6, <3>1, <4>1 DEF PostSecure, Draw, DocInv, Types
    <3>4. /\ req'[w].step = "commit" /\ req'[w].doc = d /\ req'[w].prev = r.prev
          /\ req'[w].hash = Append(r.prev, Content(d, r.no))
          /\ req'[w].no = r.no /\ req'[w].secureNo = lastNo[c] + 1
      BY <3>3 DEF Posting
    <3>5. Tip(r.prev)' /\ Content(d, r.no)' = Content(d, r.no) /\ c = <<"hash", doc'[d].year>>
      BY <2>1, <3>1, <3>2, KeepTip DEF Content
    <3>6. Tip(req[w].prev)' /\ Content(req[w].doc, req[w].no)' = Content(d, r.no)
      BY <3>4, <3>5
    <3>7. Prepared(w)'
      BY <2>1, <3>3, <3>4, <3>5, <3>6 DEF Prepared, At
    <3>8. QED
      BY <2>1, <2>2, <3>7, KeepRecordInv
  <2>7. QED
    BY <1>4, <2>4, <2>5, <2>6
<1>5. ASSUME NEW w \in Workers, PostCommit(w) PROVE RecordInv'
  BY <1>5, SecureRecordInv, PlainRecordInv
<1>6. ASSUME NEW w \in Workers, PostFails(w) PROVE RecordInv'
  <2>1. /\ req'[w] = Idle /\ \A v \in Workers \ {w} : req'[v] = req[v]
        /\ \A c \in Counters : rowLock'[c] = IF rowLock[c] = w THEN NoWorker ELSE rowLock[c]
        /\ UNCHANGED <<doc, hash, secureNo, lastNo>>
    BY <1>6, ReleaseFacts DEF PostFails
  <2>2. Prepared(w)'
    BY <2>1 DEF Prepared, At, Idle, Posting
  <2>3. \A v \in Workers \ {w} : Prepared(v)'
    BY <1>0, <2>1, KeepPrepared
  <2>4. QED
    BY <2>1, <2>2, <2>3, KeepRecordInv
<1>7. QED
  BY <1>1, <1>2, <1>3, <1>4, <1>5, <1>6 DEF Next

LEMMA SpecRecordInv ==
  ASSUME LoneReposts, \A y, z \in Years : y = z
  PROVE  Spec => [](DocInv /\ TurnsInv /\ RecordInv)
<1>1. DocInv /\ TurnsInv /\ RecordInv /\ [Next]_vars => RecordInv'
  BY NextRecordInv
<1>2. QED
  BY <1>1, InitDocInv, InitTurnsInv, InitRecordInv, NextDocInv, NextTurnsInv, PTL DEF Spec
-----------------------------------------------------------------------------
\* An order of the secured documents is an order of all of them.
LEMMA OrderComplete ==
  ASSUME NEW s \in Orders
  PROVE  \A d \in Secured : \E i \in DOMAIN s : s[i] = d
<1>1. IsFiniteSet(Secured)
  BY ConstantsOK, FS_Subset DEF Secured
<1>2. PICK n \in Nat : n = Cardinality(Secured)
  BY <1>1, FS_CardinalityType
<1>3. IsFiniteSet(1..n) /\ Cardinality(1..n) = n
  BY <1>2, FS_Interval
<1>4. s \in [1..n -> Secured] /\ \A i, j \in 1..n : i < j => s[i] # s[j]
  BY <1>2 DEF Orders
<1>5. \A i, j \in 1..n : i # j => s[i] # s[j]
  BY <1>4
<1>6. s \in Injection(1..n, Secured)
  BY <1>4, <1>5 DEF Injection, IsInjective
<1>7. s \in Surjection(1..n, Secured)
  BY <1>1, <1>2, <1>3, <1>6, FS_Injection
<1>8. QED
  BY <1>4, <1>7 DEF Surjection

LEMMA RecordVerifies == DocInv /\ RecordInv => ChainVerifies
<1> SUFFICES ASSUME DocInv, RecordInv, NEW s \in Orders, NEW i \in DOMAIN s
             PROVE  hash[s[i]] = Append(IF i = 1 THEN <<>> ELSE hash[s[i - 1]],
                                        Content(s[i], doc[s[i]].no))
  BY DEF ChainVerifies, Verifies
<1>0. PICK n \in Nat : DOMAIN s = 1..n
  <2>1. IsFiniteSet(Secured)
    BY ConstantsOK, FS_Subset DEF Secured
  <2>2. QED
    BY <2>1, FS_CardinalityType DEF Orders
<1>1. \A k \in 1..n : s[k] \in Secured /\ secureNo[s[k]] \in Nat
  BY <1>0 DEF Orders, Secured, DocInv, Types
<1>2. \A j, k \in 1..n : j < k => secureNo[s[j]] < secureNo[s[k]]
  <2> SUFFICES ASSUME NEW j \in 1..n, NEW k \in 1..n, j < k PROVE secureNo[s[j]] < secureNo[s[k]]
    OBVIOUS
  <2>1. s[j] # s[k] /\ secureNo[s[j]] <= secureNo[s[k]]
    BY <1>0 DEF Orders
  <2>2. secureNo[s[j]] # secureNo[s[k]]
    BY <1>1, <2>1 DEF RecordInv
  <2>3. QED
    BY <1>1, <2>1, <2>2
<1>3. i \in 1..n /\ Linked(s[i])
  BY <1>0, <1>1 DEF RecordInv
<1>4. CASE /\ \A q \in Secured : secureNo[q] >= secureNo[s[i]]
           /\ hash[s[i]] = Append(<<>>, Content(s[i], doc[s[i]].no))
  <2>1. ASSUME i # 1 PROVE FALSE
    <3>1. i - 1 \in 1..n /\ i - 1 < i
      BY <1>3, <2>1
    <3>2. secureNo[s[i - 1]] < secureNo[s[i]] /\ secureNo[s[i - 1]] >= secureNo[s[i]]
      BY <1>1, <1>2, <1>3, <1>4, <3>1
    <3>3. QED
      BY <1>1, <1>3, <3>1, <3>2
  <2>2. QED
    BY <1>4, <2>1
<1>5. CASE \E p \in Secured :
             /\ secureNo[p] < secureNo[s[i]]
             /\ \A q \in Secured : secureNo[q] < secureNo[s[i]] => secureNo[q] <= secureNo[p]
             /\ hash[s[i]] = Append(hash[p], Content(s[i], doc[s[i]].no))
  <2>1. PICK p \in Secured :
             /\ secureNo[p] < secureNo[s[i]]
             /\ \A q \in Secured : secureNo[q] < secureNo[s[i]] => secureNo[q] <= secureNo[p]
             /\ hash[s[i]] = Append(hash[p], Content(s[i], doc[s[i]].no))
    BY <1>5
  <2>2. PICK k \in 1..n : s[k] = p
    BY <1>0, OrderComplete
  <2>3. k < i
    <3>1. ~(i < k)
      BY <1>1, <1>2, <1>3, <2>1, <2>2
    <3>2. k # i
      BY <1>1, <1>3, <2>1, <2>2
    <3>3. QED
      BY <1>3, <3>1, <3>2
  <2>4. i - 1 \in 1..n /\ i # 1
    BY <1>3, <2>3
  <2>5. secureNo[s[i - 1]] <= secureNo[s[k]]
    <3>1. i - 1 < i /\ i \in 1..n
      BY <1>3, <2>4
    <3>2. secureNo[s[i - 1]] < secureNo[s[i]] /\ s[i - 1] \in Secured
      BY <1>1, <1>2, <2>4, <3>1
    <3>3. QED
      BY <2>1, <2>2, <3>2
  <2>6. ~(k < i - 1)
    BY <1>1, <1>2, <2>4, <2>5
  <2>7. k = i - 1
    BY <1>3, <2>3, <2>6
  <2>8. QED
    BY <2>1, <2>2, <2>4, <2>7
<1>6. QED
  BY <1>3, <1>4, <1>5 DEF Linked

\* Within one year, and with documents posted again only while nothing else is posted,
\* verify_hash_chain never cries wolf: an untampered journal verifies in every order of
\* its numbers, because the numbering row makes the postings take turns.
THEOREM Chain ==
  ASSUME LoneReposts, \A y, z \in Years : y = z
  PROVE  Spec => []ChainVerifies
<1>1. Spec => [](DocInv /\ TurnsInv /\ RecordInv)
  BY SpecRecordInv
<1>2. QED
  BY <1>1, RecordVerifies, PTL

\* There is one latest secured document, and its hash is the record.
LEMMA RecordOfTop ==
  ASSUME DocInv, RecordInv
  PROVE  /\ Secured = {} => LastHash = <<>>
         /\ \A p \in Docs : Top(p) => LastHash = hash[p]
         /\ \A h : Tip(h) => LastHash = h
<1>1. ASSUME NEW p \in Docs, NEW q \in Docs, Top(p), Top(q) PROVE p = q
  <2>1. /\ p \in Secured /\ q \in Secured /\ secureNo[p] \in Nat /\ secureNo[q] \in Nat
        /\ secureNo[p] <= secureNo[q] /\ secureNo[q] <= secureNo[p]
    BY <1>1 DEF Top, DocInv, Types
  <2>2. secureNo[p] = secureNo[q]
    BY <2>1
  <2>3. QED
    BY <2>1, <2>2 DEF RecordInv
<1>2. ASSUME NEW p \in Docs, Top(p) PROVE LastHash = hash[p]
  <2> DEFINE c == CHOOSE d \in Secured : \A q \in Secured : secureNo[q] <= secureNo[d]
  <2>1. p \in Secured /\ \A q \in Secured : secureNo[q] <= secureNo[p]
    BY <1>2 DEF Top
  <2>2. c \in Secured /\ \A q \in Secured : secureNo[q] <= secureNo[c]
    BY <2>1
  <2>3. c \in Docs /\ Top(c)
    BY <2>2 DEF Top, Secured
  <2>4. c = p
    BY <1>1, <1>2, <2>3
  <2>5. Secured # {} /\ LastHash = hash[c]
    BY <2>1 DEF LastHash
  <2>6. QED
    BY <2>4, <2>5
<1>3. Secured = {} => LastHash = <<>>
  BY DEF LastHash
<1>4. QED
  BY <1>2, <1>3 DEF Tip

\* The record of the journal - what its latest hash covers - grows by one document at a
\* time, at its end: the postings of a journal implement an append-only log.
THEOREM ChainIsLog ==
  ASSUME LoneReposts, \A y, z \in Years : y = z
  PROVE  Spec => ImplementsLog
<1>1. Init => Log!Init
  BY DEF Init, Log!Init, LastHash, Secured
<1>2. ASSUME DocInv, TurnsInv, RecordInv, RecordInv', DocInv', [Next]_vars
      PROVE  [Log!Write]_LastHash
  <2>1. CASE UNCHANGED <<hash, secureNo>>
    BY <2>1 DEF LastHash, Secured
  <2>2. ASSUME NEW w \in Workers, PostCommit(w) PROVE [Log!Write]_LastHash
    <3>1. PICK r, d : r = req[w] /\ d = r.doc
      OBVIOUS
    <3>2. CASE r.secureNo = 0
      BY <1>2, <2>1, <2>2, <3>1, <3>2, PlainRecordInv
    <3>3. CASE r.secureNo # 0
      <4>1. /\ Top(d)' /\ Tip(r.prev)
            /\ hash'[d] = Append(r.prev, Content(d, r.no))
        BY <1>2, <2>2, <3>1, <3>3, SecureRecordInv
      <4>2. r \in ReqType /\ d \in Docs /\ doc[d].state = "draft"
        BY <1>2, <2>2, <3>1, AtWork DEF PostCommit, At
      <4>3. r.prev \in Seq(Entry) /\ Content(d, r.no) \in Entry
        BY <1>2, <4>2, ContentType DEF ReqType
      <4>4. LastHash = r.prev
        BY <1>2, <4>1, RecordOfTop
      <4>5. LastHash' = hash'[d]
        <5>1. (DocInv /\ RecordInv => \A p \in Docs : Top(p) => LastHash = hash[p])'
          BY RecordOfTop, PTL
        <5>2. QED
          BY <1>2, <4>1, <4>2, <5>1
      <4>6. /\ LastHash' = Append(LastHash, Content(d, r.no)) /\ LastHash' # <<>>
            /\ LastHash'[Len(LastHash')] = Content(d, r.no)
        BY <4>1, <4>3, <4>4, <4>5, AppendProperties
      <4>7. QED
        BY <4>6 DEF Log!Write
    <3>4. QED
      BY <3>2, <3>3
  <2>3. (\E w \in Workers : PostCommit(w)) \/ UNCHANGED <<hash, secureNo>>
    BY <1>2 DEF Next, vars, SwitchMode, Reset, Write, PostBegin, PostNumber, PostLink,
       PostSecure, PostFails
  <2>4. QED
    BY <2>1, <2>2, <2>3
<1>3. Spec => [](DocInv /\ TurnsInv /\ RecordInv)
  BY SpecRecordInv
<1>4. QED
  BY <1>1, <1>2, <1>3, PTL DEF Spec, ImplementsLog, Log!Spec
=============================================================================
