-------------------------- MODULE Operations_proofs --------------------------
(***************************************************************************)
(* Theorems about the platform and the valuation of stock: saving the      *)
(* settings of the company, installing modules and starting the server,    *)
(* and valuing moves. What a save has read holds until it writes when      *)
(* requests do not overlap; what an installation has been through is       *)
(* complete although the process may end at any point; what a valuation    *)
(* has still to post is what the account is short of.                      *)
(***************************************************************************)
EXTENDS Settings, Deployment, Valuation, Sums_proofs, FiniteSetTheorems, FunctionTheorems, TLAPS
-----------------------------------------------------------------------------
(* Settings.                                                               *)
Companies == [lang : Languages, country : Countries, currency : {"USD", PackCurrency}, version : Nat]
TaxRows == [name : {GenericTax, PackTax}, active : BOOLEAN]
Journals == [lines : BOOLEAN, generic : BOOLEAN]
Saves == [op : {"apply", "lang"}, lang : Languages, country : Countries, confirm : BOOLEAN, version : Nat]
Commits == [op : {"commit"}, lang : Languages, country : Countries, confirm : BOOLEAN, version : Nat,
            pack : BOOLEAN, found : BOOLEAN, switches : BOOLEAN]
Fills == [op : {"fill"}, lang : Languages]
Served == {Idle} \cup Saves \cup Commits \cup Fills \cup [op : {"invalidate"}]

SettingsTypes ==
  /\ company \in Companies
  /\ taxes \in Seq(TaxRows)
  /\ journal \in Journals
  /\ serving \in [Callers -> Served]

\* What the request has read is still so.
StillTrue(c) ==
  /\ c.op \in {"apply", "lang", "commit"} => c.version = company.version
  /\ c.op = "commit" => /\ c.found = Found(PackTax)
                        /\ ~(c.switches /\ ~c.confirm /\ journal.lines)
  /\ c.op = "fill" => c.lang = company.lang

SettingsInv ==
  exclusive =>
    /\ \A i, j \in DOMAIN taxes : taxes[i].name = taxes[j].name => i = j
    /\ mishaps = {}
    /\ \A u, v \in Callers : u # v => serving[u] = Idle \/ serving[v] = Idle
    /\ \A u \in Callers : StillTrue(serving[u])
    /\ (\A u \in Callers : serving[u].op # "invalidate") => langCache \in {NotCached, company.lang}

LEMMA ServedKinds ==
  ASSUME NEW c \in Served
  PROVE  /\ c.op \in {"apply", "lang"} => c \in Saves
         /\ c.op = "commit" => c \in Commits
         /\ c.op = "fill" => c \in Fills
         /\ c.op = "invalidate" => c # Idle
         /\ c = Idle => c.op = "idle"
  BY DEF Served, Saves, Commits, Fills, Idle

LEMMA SettingsTypesHold ==
  ASSUME SettingsTypes, [SettingsNext]_<<settingsVars, workdayVars>>
  PROVE  SettingsTypes'
<1>1. ASSUME NEW u \in Callers, NEW c \in Served, Serves(u, c) PROVE serving' \in [Callers -> Served]
  BY <1>1 DEF Serves, SettingsTypes
<1>2. ASSUME NEW u \in Admins PROVE u \in Callers BY DEF Callers
<1>3. Idle \in Served BY DEF Served
<1>4. ASSUME NEW u \in Admins, NEW lang \in Languages, NEW country \in Countries, NEW confirm \in BOOLEAN,
             SaveBegin(u, lang, country, confirm)
      PROVE  SettingsTypes'
  <2>1. PICK c : /\ c = [op |-> IF country # company.country THEN "apply" ELSE "lang",
                         lang |-> lang, country |-> country, confirm |-> confirm, version |-> company.version]
                 /\ Serves(u, c)
    BY <1>4 DEF SaveBegin
  <2>2. c \in Served BY <2>1 DEF Served, Saves, SettingsTypes, Companies
  <2> QED BY <1>1, <1>2, <1>4, <2>1, <2>2 DEF SaveBegin, SettingsTypes
<1>5. ASSUME NEW u \in Admins, LoadSettings(u) PROVE SettingsTypes'
  BY <1>5 DEF LoadSettings, SettingsTypes
<1>6. ASSUME NEW u \in Admins, ApplyRead(u) PROVE SettingsTypes'
  <2>1. PICK c, pack, found, switches, d :
          /\ c = serving[u] /\ pack = (c.country = "EG") /\ found = Found(PackTax)
          /\ switches = (pack /\ company.currency # PackCurrency)
          /\ d = [op |-> "commit", lang |-> c.lang, country |-> c.country, confirm |-> c.confirm,
                  version |-> c.version, pack |-> pack, found |-> found, switches |-> switches]
          /\ c.op = "apply"
          /\ Serves(u, Idle) \/ Serves(u, d)
    BY <1>6 DEF ApplyRead
  <2>2. c \in Saves BY <1>2, <2>1, ServedKinds DEF SettingsTypes
  <2>3. pack \in BOOLEAN /\ found \in BOOLEAN /\ switches \in BOOLEAN BY <2>1 DEF Found
  <2>4. d \in Served BY <2>1, <2>2, <2>3 DEF Saves, Commits, Served
  <2> QED BY <1>1, <1>2, <1>3, <1>6, <2>1, <2>4 DEF ApplyRead, SettingsTypes
<1>7. ASSUME NEW u \in Admins, ApplyCommit(u) PROVE SettingsTypes'
  <2>1. serving[u] \in Commits BY <1>2, <1>7, ServedKinds DEF ApplyCommit, SettingsTypes
  <2>2. company' \in Companies BY <1>7, <2>1 DEF ApplyCommit, Commits, Companies, SettingsTypes
  <2>3. taxes' \in Seq(TaxRows)
    <3>1. PICK kept : kept = [i \in DOMAIN taxes |->
                                IF taxes[i].name = GenericTax THEN [taxes[i] EXCEPT !.active = @ /\ journal.generic]
                                ELSE [taxes[i] EXCEPT !.active = TRUE]]
      OBVIOUS
    <3>2. \A i \in DOMAIN taxes : kept[i] \in TaxRows
      <4> SUFFICES ASSUME NEW i \in DOMAIN taxes PROVE kept[i] \in TaxRows
        OBVIOUS
      <4>1. taxes[i] \in TaxRows BY DEF SettingsTypes
      <4>2. PICK b : b = (taxes[i].active /\ journal.generic) OBVIOUS
      <4>3. b \in BOOLEAN BY <4>2
      <4>4. kept[i] = [taxes[i] EXCEPT !.active = b] \/ kept[i] = [taxes[i] EXCEPT !.active = TRUE]
        BY <3>1, <4>2
      <4> QED BY <4>1, <4>3, <4>4 DEF TaxRows
    <3>3. kept \in Seq(TaxRows)
      <4>1. DOMAIN taxes = 1 .. Len(taxes) /\ Len(taxes) \in Nat BY DEF SettingsTypes
      <4>2. kept \in [1 .. Len(taxes) -> TaxRows] BY <3>1, <3>2, <4>1
      <4> QED BY <4>1, <4>2
    <3>4. [name |-> PackTax, active |-> TRUE] \in TaxRows BY DEF TaxRows
    <3>5. Append(kept, [name |-> PackTax, active |-> TRUE]) \in Seq(TaxRows) BY <3>3, <3>4
    <3>6. taxes' = taxes \/ taxes' = kept \/ taxes' = Append(kept, [name |-> PackTax, active |-> TRUE])
      BY <1>7, <3>1 DEF ApplyCommit, WithPack
    <3> QED BY <3>3, <3>5, <3>6 DEF SettingsTypes
  <2>4. PICK d : d = [op |-> "invalidate"] /\ Serves(u, d) BY <1>7 DEF ApplyCommit
  <2>5. d \in Served BY <2>4 DEF Served
  <2> QED BY <1>1, <1>2, <1>7, <2>2, <2>3, <2>4, <2>5 DEF ApplyCommit, SettingsTypes
<1>8. ASSUME NEW u \in Admins, SaveLang(u) PROVE SettingsTypes'
  <2>1. serving[u] \in Saves BY <1>2, <1>8, ServedKinds DEF SaveLang, SettingsTypes
  <2>2. company' \in Companies
    <3>1. company \in Companies /\ company.version \in Nat BY DEF SettingsTypes, Companies
    <3>2. PICK lang, n : lang = serving[u].lang /\ n = company.version + 1 /\ company' = [company EXCEPT !.lang = lang, !.version = n]
      BY <1>8 DEF SaveLang
    <3>3. lang \in Languages /\ n \in Nat BY <2>1, <3>1, <3>2 DEF Saves
    <3> QED BY <3>1, <3>2, <3>3 DEF Companies
  <2>3. PICK d : d = [op |-> "invalidate"] /\ Serves(u, d) BY <1>8 DEF SaveLang
  <2>4. d \in Served BY <2>3 DEF Served
  <2> QED BY <1>1, <1>2, <1>8, <2>2, <2>3, <2>4 DEF SaveLang, SettingsTypes
<1>9. ASSUME NEW u \in Admins, Invalidate(u) PROVE SettingsTypes'
  BY <1>1, <1>2, <1>3, <1>9 DEF Invalidate, SettingsTypes
<1>10. ASSUME NEW u \in Callers, Resolve(u) PROVE SettingsTypes'
  <2>1. PICK d : d = [op |-> "fill", lang |-> company.lang] /\ Serves(u, d) BY <1>10 DEF Resolve
  <2>2. d \in Served BY <2>1 DEF Served, Fills, SettingsTypes, Companies
  <2> QED BY <1>1, <1>10, <2>1, <2>2 DEF Resolve, SettingsTypes
<1>11. ASSUME NEW u \in Callers, FillCache(u) PROVE SettingsTypes'
  BY <1>1, <1>3, <1>11 DEF FillCache, SettingsTypes
<1>12. CASE Restart BY <1>3, <1>12 DEF Restart, SettingsTypes
<1>13. ASSUME NEW generic \in BOOLEAN, PostLines(generic) PROVE SettingsTypes'
  BY <1>13 DEF PostLines, SettingsTypes, Journals
<1>14. ASSUME NEW i \in DOMAIN taxes, ArchiveTax(i) PROVE SettingsTypes'
  <2>1. taxes[i] \in TaxRows BY DEF SettingsTypes
  <2>2. PICK row : row = [taxes[i] EXCEPT !.active = FALSE] /\ taxes' = [taxes EXCEPT ![i] = row]
    BY <1>14 DEF ArchiveTax
  <2>3. row \in TaxRows BY <2>1, <2>2 DEF TaxRows
  <2>4. taxes' \in Seq(TaxRows) BY <2>2, <2>3 DEF SettingsTypes
  <2> QED BY <1>14, <2>4 DEF ArchiveTax, SettingsTypes
<1>15. CASE UNCHANGED <<settingsVars, workdayVars>> BY <1>15 DEF settingsVars, SettingsTypes
<1> QED
  BY <1>4, <1>5, <1>6, <1>7, <1>8, <1>9, <1>10, <1>11, <1>12, <1>13, <1>14, <1>15 DEF SettingsNext

\* Nobody else is served, and a step leaves what is asked of the call it serves.
LEMMA ServedAlone ==
  ASSUME SettingsTypes, SettingsInv, exclusive, NEW u \in Callers, NEW c,
         serving[u] # Idle \/ MayCall(serving, u), Serves(u, c)
  PROVE  \A v \in Callers : serving'[v] = IF v = u THEN c ELSE Idle
<1>1. DOMAIN serving = Callers BY DEF SettingsTypes
<1>2. \A v \in Callers : v # u => serving[v] = Idle
  BY <1>1 DEF SettingsInv, MayCall
<1> QED BY <1>1, <1>2 DEF Serves

LEMMA OneNameStays ==
  ASSUME \A i, j \in DOMAIN taxes : taxes[i].name = taxes[j].name => i = j,
         SettingsTypes, NEW found \in BOOLEAN, found = Found(PackTax), taxes' = WithPack(found)
  PROVE  \A i, j \in DOMAIN taxes' : taxes'[i].name = taxes'[j].name => i = j
<1>1. PICK n : n = Len(taxes) /\ n \in Nat /\ DOMAIN taxes = 1 .. n BY DEF SettingsTypes
<1>2. PICK kept : kept = [i \in DOMAIN taxes |->
                            IF taxes[i].name = GenericTax THEN [taxes[i] EXCEPT !.active = @ /\ journal.generic]
                            ELSE [taxes[i] EXCEPT !.active = TRUE]]
  OBVIOUS
<1>3. DOMAIN kept = 1 .. n /\ \A i \in 1 .. n : kept[i].name = taxes[i].name
  <2> SUFFICES ASSUME NEW i \in 1 .. n PROVE kept[i].name = taxes[i].name
    BY <1>1, <1>2
  <2>1. taxes[i] \in TaxRows BY <1>1 DEF SettingsTypes
  <2>2. PICK b : b = (taxes[i].active /\ journal.generic) OBVIOUS
  <2>3. kept[i] = [taxes[i] EXCEPT !.active = b] \/ kept[i] = [taxes[i] EXCEPT !.active = TRUE]
    BY <1>1, <1>2, <2>2
  <2> QED BY <2>1, <2>3 DEF TaxRows
<1>4. CASE found
  <2>1. taxes' = kept BY <1>2, <1>4 DEF WithPack
  <2> QED BY <1>1, <1>3, <2>1
<1>5. CASE ~found
  <2>1. PICK row : row = [name |-> PackTax, active |-> TRUE] OBVIOUS
  <2>2. taxes' = Append(kept, row) BY <1>2, <1>5, <2>1 DEF WithPack
  <2>3. kept \in [1 .. n -> {kept[i] : i \in 1 .. n}] BY <1>2, <1>3
  <2>4. kept \in Seq({kept[i] : i \in 1 .. n}) /\ Len(kept) = n BY <1>1, <1>3, <2>3
  <2>5. DOMAIN taxes' = 1 .. n + 1 /\ \A i \in 1 .. n + 1 : taxes'[i] = IF i = n + 1 THEN row ELSE kept[i]
    BY <1>1, <2>2, <2>4
  <2>6. \A i \in 1 .. n : taxes[i].name # row.name BY <1>1, <1>5, <2>1 DEF Found
  <2> QED BY <1>1, <1>3, <2>5, <2>6
<1> QED BY <1>4, <1>5

LEMMA SettingsStart ==
  ASSUME SettingsInit
  PROVE  SettingsTypes /\ SettingsInv
<1>1. Idle \in Served BY DEF Served
<1>2. serving \in [Callers -> Served] /\ \A u \in Callers : serving[u] = Idle BY <1>1 DEF SettingsInit
<1>3. PICK row : row = [name |-> GenericTax, active |-> TRUE] /\ taxes = <<row>> BY DEF SettingsInit
<1>4. taxes \in Seq(TaxRows) /\ DOMAIN taxes = {1} BY <1>3 DEF TaxRows
<1>5. company \in Companies BY DEF SettingsInit, Companies, Countries
<1>6. journal \in Journals BY DEF SettingsInit, Journals
<1>7. SettingsTypes BY <1>2, <1>4, <1>5, <1>6 DEF SettingsTypes
<1>8. \A u \in Callers : StillTrue(serving[u]) BY <1>2 DEF StillTrue, Idle
<1>9. SettingsInv BY <1>2, <1>4, <1>8 DEF SettingsInv, SettingsInit
<1> QED BY <1>7, <1>9

\* As long as requests do not overlap: no tax twice, no mishap, one call at a time,
\* what it has read still so, and the cache right unless the call is about to empty it.
LEMMA SettingsStep ==
  ASSUME SettingsTypes, SettingsInv, [SettingsNext]_<<settingsVars, workdayVars>>
  PROVE  SettingsInv'
<1>0. CASE ~exclusive
  <2>1. exclusive' = exclusive BY DEF SettingsNext, workdayVars
  <2> QED BY <1>0, <2>1 DEF SettingsInv
<1> SUFFICES ASSUME exclusive PROVE SettingsInv'
  BY <1>0
<1> DEFINE Unique == \A i, j \in DOMAIN taxes : taxes[i].name = taxes[j].name => i = j
           Cached == langCache \in {NotCached, company.lang}
<1>1. Unique /\ mishaps = {} BY DEF SettingsInv
<1>2. ASSUME NEW u \in Admins PROVE u \in Callers BY DEF Callers
<1>3. \A u \in Callers : serving[u] = Idle => serving[u].op = "idle" BY DEF Idle
<1>4. ASSUME NEW u \in Callers, NEW c, serving[u] # Idle \/ MayCall(serving, u), Serves(u, c),
             Unique', mishaps' = {}, StillTrue(c)', c.op = "invalidate" \/ Cached'
      PROVE  SettingsInv'
  <2>1. \A v \in Callers : serving'[v] = IF v = u THEN c ELSE Idle BY <1>4, ServedAlone
  <2>2. StillTrue(Idle)' BY DEF StillTrue, Idle
  <2>3. \A v \in Callers : StillTrue(serving[v])'
    <3> SUFFICES ASSUME NEW v \in Callers PROVE StillTrue(serving[v])'
      OBVIOUS
    <3>1. serving'[v] = c \/ serving'[v] = Idle BY <2>1
    <3> QED BY <1>4, <2>2, <3>1 DEF StillTrue
  <2>4. \A v, w \in Callers : v # w => serving'[v] = Idle \/ serving'[w] = Idle BY <2>1
  <2>5. (\A v \in Callers : serving'[v].op # "invalidate") => langCache' \in {NotCached, company'.lang}
    BY <1>4, <2>1
  <2> QED BY <1>4, <2>3, <2>4, <2>5 DEF SettingsInv
<1>5. ASSUME NEW u \in Callers, serving[u] # Idle \/ MayCall(serving, u), serving[u].op # "invalidate" PROVE Cached
  <2>1. \A v \in Callers : v # u => serving[v] = Idle BY <1>5 DEF SettingsInv, MayCall, SettingsTypes
  <2> QED BY <1>3, <1>5, <2>1 DEF SettingsInv
<1>6. ASSUME NEW u \in Callers PROVE StillTrue(serving[u]) BY DEF SettingsInv
<1>7. ASSUME NEW u \in Admins, NEW lang \in Languages, NEW country \in Countries, NEW confirm \in BOOLEAN,
             SaveBegin(u, lang, country, confirm)
      PROVE  SettingsInv'
  <2>1. PICK c : /\ c = [op |-> IF country # company.country THEN "apply" ELSE "lang",
                         lang |-> lang, country |-> country, confirm |-> confirm, version |-> company.version]
                 /\ Serves(u, c)
    BY <1>7 DEF SaveBegin
  <2>2. MayCall(serving, u) /\ UNCHANGED <<company, taxes, langCache, mishaps>> BY <1>7 DEF SaveBegin
  <2>3. StillTrue(c)' BY <2>1, <2>2 DEF StillTrue
  <2>4. serving[u].op # "invalidate" BY <1>2, <1>3, <1>7, <2>2 DEF MayCall
  <2> QED BY <1>1, <1>2, <1>4, <1>5, <1>7, <2>1, <2>2, <2>3, <2>4
<1>8. ASSUME NEW u \in Admins, LoadSettings(u) PROVE SettingsInv'
  BY <1>8 DEF LoadSettings, SettingsInv, StillTrue, Found
<1>9. ASSUME NEW u \in Admins, ApplyRead(u) PROVE SettingsInv'
  <2>1. PICK c, pack, found, switches, d :
          /\ c = serving[u] /\ pack = (c.country = "EG") /\ found = Found(PackTax)
          /\ switches = (pack /\ company.currency # PackCurrency)
          /\ d = [op |-> "commit", lang |-> c.lang, country |-> c.country, confirm |-> c.confirm,
                  version |-> c.version, pack |-> pack, found |-> found, switches |-> switches]
          /\ c.op = "apply"
          /\ IF switches /\ ~c.confirm /\ journal.lines THEN Serves(u, Idle) ELSE Serves(u, d)
    BY <1>9 DEF ApplyRead
  <2>2. UNCHANGED <<company, taxes, journal, langCache, mishaps>> BY <1>9 DEF ApplyRead
  <2>3. serving[u] # Idle /\ serving[u].op # "invalidate" BY <1>2, <1>3, <1>9, <2>1
  <2>4. Cached' /\ Unique' /\ mishaps' = {} BY <1>1, <1>2, <1>5, <1>9, <2>2, <2>3
  <2>5. CASE switches /\ ~c.confirm /\ journal.lines
    <3>1. StillTrue(Idle)' BY DEF StillTrue, Idle
    <3> QED BY <1>2, <1>4, <1>9, <2>1, <2>3, <2>4, <2>5, <3>1
  <2>6. CASE ~(switches /\ ~c.confirm /\ journal.lines)
    <3>1. c.version = company.version BY <1>2, <1>6, <1>9, <2>1 DEF StillTrue
    <3>2. d.found = Found(PackTax)' BY <2>1, <2>2 DEF Found
    <3>3. ~(d.switches /\ ~d.confirm /\ journal'.lines) BY <2>1, <2>2, <2>6
    <3>4. StillTrue(d)' BY <2>1, <2>2, <3>1, <3>2, <3>3 DEF StillTrue
    <3> QED BY <1>2, <1>4, <1>9, <2>1, <2>3, <2>4, <2>6, <3>4
  <2> QED BY <2>5, <2>6
<1>10. ASSUME NEW u \in Admins, ApplyCommit(u) PROVE SettingsInv'
  <2>1. serving[u] \in Commits /\ serving[u].op = "commit" /\ serving[u] # Idle
    BY <1>2, <1>3, <1>10, ServedKinds DEF ApplyCommit, SettingsTypes
  <2>2. mishaps' = {}
    <3>1. /\ serving[u].version = company.version
          /\ ~(serving[u].switches /\ ~serving[u].confirm /\ journal.lines)
      BY <1>2, <1>6, <1>10, <2>1 DEF StillTrue
    <3> QED BY <1>1, <1>10, <3>1 DEF ApplyCommit, Mishaps
  <2>3. Unique'
    <3>1. PICK found \in BOOLEAN : found = Found(PackTax) /\ found = serving[u].found
      BY <1>2, <1>6, <1>10, <2>1 DEF StillTrue, Commits
    <3>2. taxes' = WithPack(found) \/ taxes' = taxes BY <1>10, <3>1 DEF ApplyCommit
    <3>3. CASE taxes' = WithPack(found)
      <4>1. Unique BY <1>1
      <4> HIDE DEF Cached
      <4> QED BY <3>1, <3>3, <4>1, OneNameStays
    <3> QED BY <1>1, <3>2, <3>3
  <2>4. PICK d : d = [op |-> "invalidate"] /\ Serves(u, d) BY <1>10 DEF ApplyCommit
  <2>5. StillTrue(d)' BY <2>4 DEF StillTrue
  <2> QED BY <1>2, <1>4, <1>10, <2>1, <2>2, <2>3, <2>4, <2>5
<1>11. ASSUME NEW u \in Admins, SaveLang(u) PROVE SettingsInv'
  <2>1. serving[u].op = "lang" /\ serving[u] # Idle BY <1>2, <1>3, <1>11 DEF SaveLang
  <2>2. mishaps' = {}
    <3>1. serving[u].version = company.version BY <1>2, <1>6, <1>11, <2>1 DEF StillTrue
    <3> QED BY <1>1, <1>11, <2>1, <3>1 DEF SaveLang, Mishaps
  <2>3. PICK d : d = [op |-> "invalidate"] /\ Serves(u, d) BY <1>11 DEF SaveLang
  <2>4. StillTrue(d)' BY <2>3 DEF StillTrue
  <2>5. taxes' = taxes BY <1>11 DEF SaveLang
  <2> QED BY <1>1, <1>2, <1>4, <1>11, <2>1, <2>2, <2>3, <2>4, <2>5
<1>12. ASSUME NEW u \in Admins, Invalidate(u) PROVE SettingsInv'
  <2>1. serving[u] # Idle BY <1>2, <1>3, <1>12 DEF Invalidate
  <2>2. StillTrue(Idle)' BY DEF StillTrue, Idle
  <2>3. Serves(u, Idle) /\ Cached' /\ UNCHANGED <<taxes, mishaps>> BY <1>12 DEF Invalidate
  <2> QED BY <1>1, <1>2, <1>4, <1>12, <2>1, <2>2, <2>3
<1>13. ASSUME NEW u \in Callers, Resolve(u) PROVE SettingsInv'
  <2>1. PICK d : d = [op |-> "fill", lang |-> company.lang] /\ Serves(u, d) BY <1>13 DEF Resolve
  <2>2. MayCall(serving, u) /\ UNCHANGED <<company, taxes, langCache, mishaps>> BY <1>13 DEF Resolve
  <2>3. serving[u].op # "invalidate" BY <1>3, <1>13, <2>2 DEF MayCall
  <2>4. StillTrue(d)' BY <2>1, <2>2 DEF StillTrue
  <2> QED BY <1>1, <1>4, <1>5, <1>13, <2>1, <2>2, <2>3, <2>4
<1>14. ASSUME NEW u \in Callers, FillCache(u) PROVE SettingsInv'
  <2>1. serving[u].op = "fill" /\ serving[u] # Idle BY <1>3, <1>14 DEF FillCache
  <2>2. serving[u].lang = company.lang BY <1>6, <1>14, <2>1 DEF StillTrue
  <2>3. StillTrue(Idle)' BY DEF StillTrue, Idle
  <2>4. Serves(u, Idle) /\ Cached' /\ UNCHANGED <<taxes, mishaps>> BY <1>14, <2>2 DEF FillCache
  <2> QED BY <1>1, <1>4, <1>14, <2>1, <2>3, <2>4
<1>15. CASE Restart
  <2>1. \A u \in Callers : serving'[u] = Idle BY <1>15 DEF Restart
  <2>2. \A u \in Callers : StillTrue(serving[u])' BY <2>1 DEF StillTrue, Idle
  <2> QED BY <1>1, <1>15, <2>1, <2>2 DEF Restart, SettingsInv
<1>16. ASSUME NEW generic \in BOOLEAN, PostLines(generic) PROVE SettingsInv'
  <2>1. \A u \in Callers : serving[u] = Idle BY <1>16 DEF PostLines, NobodyServed
  <2>2. \A u \in Callers : StillTrue(serving[u])' BY <1>16, <2>1 DEF PostLines, StillTrue, Idle
  <2> QED BY <1>16, <2>2 DEF PostLines, SettingsInv
<1>17. ASSUME NEW i \in DOMAIN taxes, ArchiveTax(i) PROVE SettingsInv'
  <2>1. \A u \in Callers : serving[u] = Idle BY <1>17 DEF ArchiveTax, NobodyServed
  <2>2. \A u \in Callers : StillTrue(serving[u])' BY <1>17, <2>1 DEF ArchiveTax, StillTrue, Idle
  <2>3. Unique'
    <3>1. PICK row : row = [taxes[i] EXCEPT !.active = FALSE] /\ taxes' = [taxes EXCEPT ![i] = row]
      BY <1>17 DEF ArchiveTax
    <3>2. taxes[i] \in TaxRows BY DEF SettingsTypes
    <3>3. row.name = taxes[i].name BY <3>1, <3>2 DEF TaxRows
    <3>4. DOMAIN taxes' = DOMAIN taxes /\ \A j \in DOMAIN taxes : taxes'[j].name = taxes[j].name BY <3>1, <3>3
    <3> QED BY <1>1, <3>4
  <2> QED BY <1>17, <2>2, <2>3 DEF ArchiveTax, SettingsInv
<1>18. CASE UNCHANGED <<settingsVars, workdayVars>>
  BY <1>18 DEF settingsVars, workdayVars, SettingsInv, StillTrue, Found
<1>19. exclusive' = exclusive BY DEF SettingsNext, workdayVars
<1> QED
  BY <1>7, <1>8, <1>9, <1>10, <1>11, <1>12, <1>13, <1>14, <1>15, <1>16, <1>17, <1>18 DEF SettingsNext

\* As long as requests do not overlap, whoever saves the settings and however often the
\* country changes: no tax of a package is made twice, no save overwrites one its
\* administrator has not seen, the currency changes under posted entries only when that
\* was confirmed, and between requests the cached language is the company's.
THEOREM SavesSoundly == SettingsSpec => []SavesSound
<1>1. SettingsInit => SettingsTypes /\ SettingsInv BY SettingsStart
<1>2. SettingsTypes /\ SettingsInv /\ [SettingsNext]_<<settingsVars, workdayVars>> => (SettingsTypes /\ SettingsInv)'
  BY SettingsTypesHold, SettingsStep
<1>3. SettingsInv => SavesSound
  <2> SUFFICES ASSUME SettingsInv, exclusive PROVE SavesSound
    BY DEF SavesSound
  <2>1. (\A u \in Callers : serving[u] = Idle) => \A u \in Callers : serving[u].op # "invalidate" BY DEF Idle
  <2> QED BY <2>1 DEF SettingsInv, SavesSound
<1> QED BY <1>1, <1>2, <1>3, PTL DEF SettingsSpec
-----------------------------------------------------------------------------
(* Deployment. What this run has been through is closed under what modules *)
(* depend on, so it has the closure of each of its modules.                *)
LEMMA ClosureIsClosed ==
  ASSUME NEW m \in Addons
  PROVE  m \in Closure(m) /\ Closed(Closure(m)) /\ Closure(m) \subseteq Addons
<1>1. ASSUME NEW x \in Closure(m), NEW d \in Depends[x] PROVE d \in Closure(m)
  <2>1. x \in Addons BY DEF Closure
  <2>2. d \in Addons BY <1>1, <2>1, DeploymentAssumption
  <2>3. ASSUME NEW S \in SUBSET Addons, m \in S, Closed(S) PROVE d \in S
    BY <1>1, <2>3 DEF Closure, Closed
  <2> QED BY <2>2, <2>3 DEF Closure
<1> QED BY <1>1 DEF Closure, Closed

LEMMA ClosureWithin ==
  ASSUME NEW m \in Addons, NEW S \in SUBSET Addons, m \in S, Closed(S)
  PROVE  Closure(m) \subseteq S
  BY DEF Closure

\* An order has the whole closure, each module after those it depends on.
InTurn(order, through) ==
  \A i \in DOMAIN order : \A d \in Depends[order[i]] :
    d \in through \/ \E j \in DOMAIN order : j < i /\ order[j] = d
LEMMA OrdersComplete ==
  ASSUME NEW m \in Addons, NEW order \in Orders(m), NEW through
  PROVE  /\ order \in Seq(Addons)
         /\ InTurn(order, through)
         /\ \E i \in DOMAIN order : order[i] = m
<1> DEFINE S == Closure(m)
           n == Cardinality(S)
<1>1. S \subseteq Addons /\ m \in S /\ Closed(S) BY ClosureIsClosed
<1>2. IsFiniteSet(S) BY <1>1, DeploymentAssumption, FS_Subset
<1>3. n \in Nat BY <1>2, FS_CardinalityType
<1>4. order \in [1 .. n -> S] /\ \A i, j \in 1 .. n : i # j => order[i] # order[j]
  BY DEF Orders, SetToSeqs
<1>5. order \in Injection(1 .. n, S) BY <1>4, Fun_IsInj
<1>6. Cardinality(1 .. n) = n BY <1>3, FS_Interval
<1>7. order \in Surjection(1 .. n, S) BY <1>2, <1>5, <1>6, FS_Injection
<1> HIDE DEF n
<1>8. \A x \in S : \E i \in 1 .. n : order[i] = x BY <1>7 DEF Surjection
<1>9. DOMAIN order = 1 .. n BY <1>4
<1>10. ASSUME NEW i \in 1 .. n, NEW d \in Depends[order[i]] PROVE \E j \in 1 .. n : j < i /\ order[j] = d
  <2>1. d \in S BY <1>1, <1>4, <1>10 DEF Closed
  <2>2. PICK j \in 1 .. n : order[j] = d BY <1>8, <2>1
  <2>3. j < i BY <1>9, <1>10, <2>2 DEF Orders
  <2> QED BY <2>2, <2>3
<1>11. order \in Seq(Addons) BY <1>1, <1>3, <1>4
<1> QED BY <1>1, <1>8, <1>9, <1>10, <1>11 DEF InTurn

Holds(s, x) == \E i \in DOMAIN s : s[i] = x
LEMMA HeadThenTail ==
  ASSUME NEW order \in Seq(Addons), order # <<>>, NEW through, InTurn(order, through)
  PROVE  /\ Head(order) \in Addons /\ Tail(order) \in Seq(Addons)
         /\ Depends[Head(order)] \subseteq through
         /\ InTurn(Tail(order), through \cup {Head(order)})
         /\ \A x : Holds(order, x) => x = Head(order) \/ Holds(Tail(order), x)
<1>1. PICK n \in Nat : n = Len(order) /\ n > 0 /\ DOMAIN order = 1 .. n OBVIOUS
<1>2. /\ Tail(order) \in Seq(Addons) /\ Len(Tail(order)) = n - 1
      /\ \A i \in 1 .. n - 1 : Tail(order)[i] = order[i + 1]
  BY <1>1
<1>3. Head(order) = order[1] /\ order[1] \in Addons BY <1>1
<1>4. DOMAIN Tail(order) = 1 .. n - 1 BY <1>1, <1>2
<1>5. Depends[Head(order)] \subseteq through BY <1>1, <1>3 DEF InTurn
<1>6. ASSUME NEW j \in 1 .. n, j # 1 PROVE order[j] = Tail(order)[j - 1] /\ j - 1 \in 1 .. n - 1
  BY <1>1, <1>2, <1>6
<1>7. InTurn(Tail(order), through \cup {Head(order)})
  <2> SUFFICES ASSUME NEW i \in 1 .. n - 1, NEW d \in Depends[order[i + 1]]
               PROVE  \/ d \in through \cup {Head(order)}
                      \/ \E j \in 1 .. n - 1 : j < i /\ Tail(order)[j] = d
    BY <1>2, <1>4 DEF InTurn
  <2>1. i + 1 \in 1 .. n BY <1>1
  <2>2. d \in through \/ \E j \in 1 .. n : j < i + 1 /\ order[j] = d BY <1>1, <2>1 DEF InTurn
  <2>3. ASSUME NEW j \in 1 .. n, j < i + 1, order[j] = d, j # 1 PROVE \E k \in 1 .. n - 1 : k < i /\ Tail(order)[k] = d
    <3>1. j - 1 \in 1 .. n - 1 /\ Tail(order)[j - 1] = d BY <1>6, <2>3
    <3>2. j - 1 < i BY <2>3
    <3> QED BY <3>1, <3>2
  <2> QED BY <1>3, <2>2, <2>3
<1>8. \A x : Holds(order, x) => x = Head(order) \/ Holds(Tail(order), x)
  BY <1>1, <1>3, <1>4, <1>6 DEF Holds
<1> QED BY <1>2, <1>3, <1>5, <1>7, <1>8

\* While modules are installed; what has been gone through is there.
Installing == [op : {"next", "migrate", "record", "seed"}, batch : Seq(Addons), order : Seq(Addons),
               through : SUBSET Addons, migrated : SUBSET Addons, serves : BOOLEAN]
Up == [op : {"up"}, models : SUBSET Addons]
AsDeclared(m) ==
  \A c \in DOMAIN Declares(m, code) : c \in DOMAIN tables[m] /\ tables[m][c] = Declares(m, code)[c]
There(m) == m \in DOMAIN installed /\ seeded[m] = code /\ AsDeclared(m)

DeploymentTypes ==
  /\ code \in Versions
  /\ tables = [m \in Addons |-> tables[m]]
  /\ DOMAIN installed \subseteq Addons
  /\ seeded = [m \in Addons |-> seeded[m]]
  /\ process \in {Down} \cup Installing \cup Up
Recorded ==
  \A m \in DOMAIN installed :
    /\ tables[m] # NoColumns
    /\ \A d \in Closure(m) \ {m} : d \in DOMAIN installed /\ seeded[d] # 0
Advance(p) ==
  /\ InTurn(p.order, p.through) /\ Closed(p.through)
  /\ \A m \in p.through : There(m)
  /\ p.serves => \A i \in DOMAIN EntryPoint :
       EntryPoint[i] \in p.through \/ Holds(p.order, EntryPoint[i]) \/ Holds(p.batch, EntryPoint[i])
  /\ p.op # "next" => p.order # <<>>
  /\ p.op \in {"record", "seed"} => AsDeclared(Head(p.order))
  /\ p.op = "seed" => Head(p.order) \in DOMAIN installed
Serving(p) ==
  \A i \in DOMAIN EntryPoint : \A m \in Closure(EntryPoint[i]) :
    m \in p.models /\ seeded[m] = code /\ AsDeclared(m)
DeploymentInv ==
  /\ DeploymentTypes /\ Recorded
  /\ process \in Installing => Advance(process)
  /\ process \in Up => Serving(process)

LEMMA ProcessKinds ==
  ASSUME NEW p \in {Down} \cup Installing \cup Up
  PROVE  /\ p.op \in {"next", "migrate", "record", "seed"} <=> p \in Installing
         /\ p.op = "up" <=> p \in Up
         /\ p = Down <=> p.op = "down"
  BY DEF Down, Installing, Up

LEMMA DeploymentStart ==
  ASSUME DeploymentInit
  PROVE  DeploymentInv
<1>1. process = Down /\ process \notin Installing /\ process \notin Up BY DEF DeploymentInit, Down, Installing, Up
<1>2. DOMAIN installed = {} BY DEF DeploymentInit
<1>3. /\ code \in Versions /\ tables = [m \in Addons |-> tables[m]] /\ seeded = [m \in Addons |-> seeded[m]]
  BY DEF DeploymentInit
<1> QED BY <1>1, <1>2, <1>3 DEF DeploymentInv, DeploymentTypes, Recorded

LEMMA DeploymentStep ==
  ASSUME DeploymentInv, [DeploymentNext]_deploymentVars
  PROVE  DeploymentInv'
<1> DEFINE p == process
<1>types. DeploymentTypes /\ Recorded BY DEF DeploymentInv
<1>k. /\ p.op \in {"next", "migrate", "record", "seed"} <=> p \in Installing
      /\ p.op = "up" <=> p \in Up
      /\ p = Down <=> p.op = "down"
  BY <1>types, ProcessKinds DEF DeploymentTypes
<1>d. Down \in {Down} \cup Installing \cup Up /\ Down \notin Installing /\ Down \notin Up
  BY DEF Down, Installing, Up
<1>p. p \in Installing => Advance(p) BY DEF DeploymentInv
<1>h. p \in Installing /\ p.op # "next" =>
        /\ p.order \in Seq(Addons) /\ p.order # <<>>
        /\ Head(p.order) \in Addons /\ Depends[Head(p.order)] \subseteq p.through
  <2> SUFFICES ASSUME p \in Installing, p.op # "next"
               PROVE  /\ p.order \in Seq(Addons) /\ p.order # <<>>
                      /\ Head(p.order) \in Addons /\ Depends[Head(p.order)] \subseteq p.through
    OBVIOUS
  <2>1. p.order \in Seq(Addons) /\ p.order # <<>> /\ InTurn(p.order, p.through)
    BY <1>p DEF Advance, Installing
  <2> QED BY <2>1, HeadThenTail
\* A step that changes the process and nothing else.
<1>e. ASSUME UNCHANGED <<code, tables, installed, seeded>>, NEW q \in {Down} \cup Installing \cup Up, process' = q,
             q \in Installing => Advance(q), q \in Up => Serving(q)
      PROVE  DeploymentInv'
  <2>1. Recorded' /\ DeploymentTypes' BY <1>e, <1>types DEF DeploymentTypes, Recorded
  <2>2. q \in Installing => Advance(q)' BY <1>e DEF Advance, There, AsDeclared
  <2>3. q \in Up => Serving(q)' BY <1>e DEF Serving, AsDeclared
  <2>4. (process \in Installing => Advance(process))' BY <1>e, <2>2 DEF Advance, There, AsDeclared
  <2>5. (process \in Up => Serving(process))' BY <1>e, <2>3 DEF Serving, AsDeclared
  <2> QED BY <2>1, <2>4, <2>5 DEF DeploymentInv
<1>1. ASSUME NEW batch \in Seq(Addons), Start(batch) PROVE DeploymentInv'
  <2>1. PICK q : /\ q = [op |-> "next", batch |-> batch, order |-> <<>>, through |-> {}, migrated |-> {},
                         serves |-> batch = EntryPoint]
                 /\ process' = q
    BY <1>1 DEF Start
  <2>2. q \in Installing BY <2>1 DEF Installing
  <2>3. q \notin Up BY <2>1 DEF Up
  <2>4. q.op = "next" /\ q.order = <<>> /\ q.through = {} /\ q.batch = batch /\ (q.serves => batch = EntryPoint)
    BY <2>1
  <2>5. InTurn(q.order, q.through) /\ Closed(q.through) BY <2>4 DEF InTurn, Closed
  <2>6. q.serves => \A i \in DOMAIN EntryPoint : Holds(q.batch, EntryPoint[i]) BY <2>4 DEF Holds
  <2>7. Advance(q) BY <2>4, <2>5, <2>6 DEF Advance
  <2> QED BY <1>e, <1>1, <2>1, <2>2, <2>3, <2>7 DEF Start
<1>2. CASE Install
  <2>0. PICK order \in Orders(Head(p.batch)) : process' = [p EXCEPT !.batch = Tail(@), !.order = order]
    BY <1>2 DEF Install
  <2>1. PICK batch, q : batch = Tail(p.batch) /\ q = [p EXCEPT !.batch = batch, !.order = order] /\ process' = q
    BY <2>0
  <2>2. p \in Installing /\ p.order = <<>> /\ p.batch # <<>> /\ p.op = "next" BY <1>k, <1>2 DEF Install
  <2>3. p.batch \in Seq(Addons) /\ Head(p.batch) \in Addons /\ batch \in Seq(Addons)
    BY <2>1, <2>2 DEF Installing
  <2>4. /\ order \in Seq(Addons) /\ InTurn(order, p.through) /\ Holds(order, Head(p.batch))
    BY <2>3, OrdersComplete DEF Holds
  <2>5. q \in Installing /\ q \notin Up BY <2>1, <2>2, <2>3, <2>4 DEF Installing, Up
  <2>6. /\ q.op = "next" /\ q.order = order /\ q.batch = batch /\ q.through = p.through /\ q.serves = p.serves
    BY <2>1, <2>2 DEF Installing
  <2>7. \A x : Holds(p.batch, x) => x = Head(p.batch) \/ Holds(batch, x)
    <3>1. PICK n \in Nat : n = Len(p.batch) /\ n > 0 /\ DOMAIN p.batch = 1 .. n BY <2>2, <2>3
    <3>2. Len(batch) = n - 1 /\ \A i \in 1 .. n - 1 : batch[i] = p.batch[i + 1] BY <2>1, <2>3, <3>1
    <3>3. DOMAIN batch = 1 .. n - 1 BY <2>3, <3>2
    <3>4. Head(p.batch) = p.batch[1] BY <2>3, <3>1
    <3>5. ASSUME NEW i \in 1 .. n, i # 1 PROVE i - 1 \in 1 .. n - 1 /\ batch[i - 1] = p.batch[i]
      BY <3>1, <3>2, <3>5
    <3> QED BY <3>1, <3>3, <3>4, <3>5 DEF Holds
  <2>8. \A x : ~Holds(p.order, x) BY <2>2 DEF Holds
  <2>9. Advance(q)
    <3>1. \A m \in q.through : There(m) BY <1>p, <2>2, <2>6 DEF Advance
    <3>2. q.serves => \A i \in DOMAIN EntryPoint :
             EntryPoint[i] \in q.through \/ Holds(q.order, EntryPoint[i]) \/ Holds(q.batch, EntryPoint[i])
      BY <1>p, <2>2, <2>4, <2>6, <2>7, <2>8 DEF Advance
    <3> QED BY <1>p, <2>2, <2>4, <2>6, <3>1, <3>2 DEF Advance
  <2> QED BY <1>e, <1>2, <2>1, <2>5, <2>9 DEF Install

<1>3. CASE InstallSingle
  <2>1. p \in Installing /\ p.order # <<>> /\ p.op = "next" BY <1>k, <1>3 DEF InstallSingle
  <2>2. PICK m, order : m = Head(p.order) /\ order = Tail(p.order) OBVIOUS
  <2>3. p.order \in Seq(Addons) /\ InTurn(p.order, p.through) BY <1>p, <2>1 DEF Advance, Installing
  <2>4. /\ m \in Addons /\ order \in Seq(Addons) /\ InTurn(order, p.through \cup {m})
        /\ \A x : Holds(p.order, x) => x = m \/ Holds(order, x)
    BY <2>1, <2>2, <2>3, HeadThenTail
  <2>5. CASE Skip(m)
    <3>1. PICK q : q = [p EXCEPT !.order = order] /\ process' = q BY <1>3, <2>2, <2>5 DEF InstallSingle
    <3>2. q \in Installing /\ q \notin Up BY <2>1, <2>4, <3>1 DEF Installing, Up
    <3>3. /\ q.op = "next" /\ q.order = order /\ q.batch = p.batch /\ q.through = p.through /\ q.serves = p.serves
      BY <2>1, <3>1 DEF Installing
    <3>4. p.through \cup {m} = p.through BY <2>5 DEF Skip
    <3>5. q.serves => \A i \in DOMAIN EntryPoint :
             EntryPoint[i] \in q.through \/ Holds(q.order, EntryPoint[i]) \/ Holds(q.batch, EntryPoint[i])
      BY <1>p, <2>1, <2>4, <3>3, <3>4 DEF Advance
    <3>6. Advance(q) BY <1>p, <2>1, <2>4, <3>3, <3>4, <3>5 DEF Advance
    <3> QED BY <1>e, <1>3, <3>1, <3>2, <3>6 DEF InstallSingle
  <2>6. CASE ~Skip(m)
    <3>1. PICK q : q = [p EXCEPT !.op = "migrate"] /\ process' = q BY <1>3, <2>2, <2>6 DEF InstallSingle
    <3>2. q \in Installing /\ q \notin Up BY <2>1, <3>1 DEF Installing, Up
    <3>3. /\ q.op = "migrate" /\ q.order = p.order /\ q.batch = p.batch /\ q.through = p.through /\ q.serves = p.serves
      BY <2>1, <3>1 DEF Installing
    <3>4. Advance(q) BY <1>p, <2>1, <3>3 DEF Advance
    <3> QED BY <1>e, <1>3, <3>1, <3>2, <3>4 DEF InstallSingle
  <2> QED BY <2>5, <2>6
<1>4. CASE Migrate
  <2>1. p \in Installing /\ p.op = "migrate" BY <1>k, <1>4 DEF Migrate
  <2>2. PICK m : m = Head(p.order) OBVIOUS
  <2>3. PICK declared : declared = Declares(m, code) OBVIOUS
  <2>4. m \in Addons BY <1>h, <2>1, <2>2
  <2>5. CASE \E c \in DOMAIN declared \cap DOMAIN tables[m] : declared[c] # tables[m][c]
    <3>1. UNCHANGED <<code, tables, installed, seeded>> /\ process' = Down BY <1>4, <2>2, <2>3, <2>5 DEF Migrate
    <3> QED BY <1>d, <1>e, <3>1
  <2>6. CASE ~\E c \in DOMAIN declared \cap DOMAIN tables[m] : declared[c] # tables[m][c]
    <3>1. PICK table, migrated, q :
            /\ table = AddColumns(tables[m], declared) /\ tables' = [tables EXCEPT ![m] = table]
            /\ migrated = p.migrated \cup {m} /\ q = [p EXCEPT !.op = "record", !.migrated = migrated]
            /\ process' = q /\ UNCHANGED <<code, installed, seeded>>
      BY <1>4, <2>2, <2>3, <2>6 DEF Migrate
    <3>2. /\ DOMAIN table = DOMAIN tables[m] \cup DOMAIN declared
          /\ \A c \in DOMAIN declared : table[c] = declared[c]
      BY <2>6, <3>1 DEF AddColumns
    <3>3. tables' = [d \in Addons |-> IF d = m THEN table ELSE tables[d]]
      BY <1>types, <3>1 DEF DeploymentTypes
    <3>4. q \in Installing /\ q \notin Up BY <2>1, <2>4, <3>1 DEF Installing, Up
    <3>5. /\ q.op = "record" /\ q.order = p.order /\ q.batch = p.batch /\ q.through = p.through /\ q.serves = p.serves
      BY <2>1, <3>1 DEF Installing
    <3>6. table # NoColumns
      <4>1. DOMAIN declared # {} BY <1>types, <2>3, <2>4, DeploymentAssumption DEF DeploymentTypes
      <4> QED BY <3>2, <4>1 DEF NoColumns
    <3>7. AsDeclared(m)' BY <2>3, <2>4, <3>1, <3>2, <3>3 DEF AsDeclared
    <3>8. ASSUME NEW d \in Addons, AsDeclared(d) PROVE AsDeclared(d)'
      BY <3>1, <3>3, <3>7, <3>8 DEF AsDeclared
    <3>9. DeploymentTypes' /\ Recorded'
      <4>1. DeploymentTypes' BY <1>types, <3>1, <3>3, <3>4 DEF DeploymentTypes
      <4>2. Recorded' BY <1>types, <3>1, <3>3, <3>6 DEF DeploymentTypes, Recorded
      <4> QED BY <4>1, <4>2
    <3>10. Advance(q)'
      <4>1. \A d \in p.through : There(d)'
        <5> SUFFICES ASSUME NEW d \in p.through PROVE There(d)'
          OBVIOUS
        <5>1. There(d) /\ d \in Addons BY <1>p, <2>1 DEF Advance, Installing
        <5> QED BY <3>1, <3>8, <5>1 DEF There
      <4>2. Advance(p) BY <1>p, <2>1
      <4> QED BY <2>1, <2>2, <3>5, <3>7, <4>1, <4>2 DEF Advance
    <3>11. Advance(process)' BY <3>1, <3>10 DEF Advance, There, AsDeclared
    <3> QED BY <3>1, <3>4, <3>9, <3>11 DEF DeploymentInv
  <2> QED BY <2>5, <2>6
<1>5. CASE Record
  <2>1. p \in Installing /\ p.op = "record" BY <1>k, <1>5 DEF Record
  <2>2. PICK m : m = Head(p.order) OBVIOUS
  <2>3. m \in Addons /\ Depends[m] \subseteq p.through BY <1>h, <2>1, <2>2
  <2>4. Advance(p) /\ p.through \subseteq Addons BY <1>p, <2>1 DEF Installing
  <2>5. PICK q : q = [p EXCEPT !.op = "seed"] /\ process' = q BY <1>5 DEF Record
  <2>6. /\ DOMAIN installed' = DOMAIN installed \cup {m}
        /\ UNCHANGED <<code, tables, seeded>>
    BY <1>5, <2>2 DEF Record
  <2>7. q \in Installing /\ q \notin Up BY <2>1, <2>5 DEF Installing, Up
  <2>8. /\ q.op = "seed" /\ q.order = p.order /\ q.batch = p.batch /\ q.through = p.through /\ q.serves = p.serves
    BY <2>1, <2>5 DEF Installing
  <2>9. AsDeclared(m) BY <2>1, <2>2, <2>4 DEF Advance
  <2>10. tables[m] # NoColumns
    <3>1. DOMAIN Declares(m, code) # {} BY <1>types, <2>3, DeploymentAssumption DEF DeploymentTypes
    <3> QED BY <2>9, <3>1 DEF AsDeclared, NoColumns
  <2>11. \A d \in Closure(m) \ {m} : d \in DOMAIN installed /\ seeded[d] # 0
    <3>1. Closed(p.through \cup {m}) BY <2>3, <2>4 DEF Advance, Closed
    <3>2. Closure(m) \subseteq p.through \cup {m} BY <2>3, <2>4, <3>1, ClosureWithin
    <3>3. code # 0 BY <1>types, DeploymentAssumption DEF DeploymentTypes
    <3> QED BY <2>4, <3>2, <3>3 DEF Advance, There
  <2>12. DeploymentTypes' /\ Recorded'
    <3>1. DeploymentTypes' BY <1>types, <2>3, <2>5, <2>6, <2>7 DEF DeploymentTypes
    <3>2. Recorded' BY <1>types, <2>6, <2>10, <2>11 DEF Recorded
    <3> QED BY <3>1, <3>2
  <2>13. Advance(q)'
    <3>1. AsDeclared(m)' BY <2>6, <2>9 DEF AsDeclared
    <3>2. \A d \in p.through : There(d)' BY <2>4, <2>6 DEF Advance, There, AsDeclared
    <3> QED BY <2>1, <2>2, <2>4, <2>6, <2>8, <3>1, <3>2 DEF Advance
  <2>14. Advance(process)' BY <2>5, <2>13 DEF Advance, There, AsDeclared
  <2> QED BY <2>5, <2>7, <2>12, <2>14 DEF DeploymentInv
<1>6. CASE PostInstall
  <2>1. p \in Installing /\ p.op = "seed" BY <1>k, <1>6 DEF PostInstall
  <2>2. PICK m, order : m = Head(p.order) /\ order = Tail(p.order) OBVIOUS
  <2>3. Advance(p) /\ p.through \subseteq Addons /\ p.order \in Seq(Addons) /\ p.order # <<>>
    BY <1>p, <2>1 DEF Advance, Installing
  <2>4. /\ m \in Addons /\ Depends[m] \subseteq p.through
        /\ order \in Seq(Addons) /\ InTurn(order, p.through \cup {m})
        /\ \A x : Holds(p.order, x) => x = m \/ Holds(order, x)
    BY <2>2, <2>3, HeadThenTail DEF Advance
  <2>5. PICK through, q :
          /\ through = p.through \cup {m}
          /\ q = [p EXCEPT !.op = "next", !.order = order, !.through = through] /\ process' = q
    BY <1>6, <2>2 DEF PostInstall
  <2>6. UNCHANGED <<code, tables, installed>> /\ seeded' = [d \in Addons |-> IF d = m THEN code ELSE seeded[d]]
    BY <1>6, <1>types, <2>2 DEF PostInstall, DeploymentTypes
  <2>7. q \in Installing /\ q \notin Up BY <2>1, <2>3, <2>4, <2>5 DEF Installing, Up
  <2>8. /\ q.op = "next" /\ q.order = order /\ q.batch = p.batch /\ q.through = through /\ q.serves = p.serves
    BY <2>1, <2>5 DEF Installing
  <2>9. DeploymentTypes' /\ Recorded'
    <3>1. DeploymentTypes' BY <1>types, <2>5, <2>6, <2>7 DEF DeploymentTypes
    <3>2. code # 0 BY <1>types, DeploymentAssumption DEF DeploymentTypes
    <3>3. \A d \in Addons : seeded[d] # 0 => seeded'[d] # 0 BY <2>6, <3>2
    <3>4. \A d \in DOMAIN installed : Closure(d) \subseteq Addons BY <1>types, ClosureIsClosed DEF DeploymentTypes
    <3>5. Recorded' BY <1>types, <2>6, <3>3, <3>4 DEF Recorded
    <3> QED BY <3>1, <3>5
  <2>10. \A d \in through : There(d)'
    <3>1. m \in DOMAIN installed /\ AsDeclared(m) BY <2>1, <2>2, <2>3 DEF Advance
    <3>2. There(m)' BY <2>4, <2>6, <3>1 DEF There, AsDeclared
    <3>3. \A d \in p.through : There(d)' BY <2>3, <2>6 DEF Advance, There, AsDeclared
    <3> QED BY <2>5, <3>2, <3>3
  <2>11. Closed(through) BY <2>3, <2>4, <2>5 DEF Advance, Closed
  <2>12. q.serves => \A i \in DOMAIN EntryPoint :
           EntryPoint[i] \in through \/ Holds(order, EntryPoint[i]) \/ Holds(p.batch, EntryPoint[i])
    BY <2>3, <2>4, <2>5, <2>8 DEF Advance
  <2>13. Advance(q)' BY <2>4, <2>5, <2>8, <2>10, <2>11, <2>12 DEF Advance
  <2>14. Advance(process)' BY <2>5, <2>13 DEF Advance, There, AsDeclared
  <2> QED BY <2>5, <2>7, <2>9, <2>14 DEF DeploymentInv
<1>7. CASE LoadInstalled
  <2>1. p \in Installing /\ p.order = <<>> /\ p.batch = <<>> BY <1>k, <1>7 DEF LoadInstalled
  <2>2. CASE ~p.serves BY <1>d, <1>e, <1>7, <2>2 DEF LoadInstalled
  <2>3. CASE p.serves
    <3>1. PICK q : q = [op |-> "up", models |-> DOMAIN installed] /\ process' = q BY <1>7, <2>3 DEF LoadInstalled
    <3>2. q \in Up /\ q \notin Installing BY <1>types, <3>1 DEF Up, Installing, DeploymentTypes
    <3>3. Advance(p) /\ p.through \subseteq Addons BY <1>p, <2>1 DEF Installing
    <3>4. \A x : ~Holds(p.order, x) /\ ~Holds(p.batch, x) BY <2>1 DEF Holds
    <3>5. ASSUME NEW i \in DOMAIN EntryPoint, NEW m \in Closure(EntryPoint[i])
          PROVE  m \in q.models /\ seeded[m] = code /\ AsDeclared(m)
      <4>1. EntryPoint[i] \in p.through BY <2>3, <3>3, <3>4 DEF Advance
      <4>2. Closure(EntryPoint[i]) \subseteq p.through BY <3>3, <4>1, ClosureWithin DEF Advance
      <4> QED BY <3>1, <3>3, <3>5, <4>2 DEF Advance, There
    <3>6. Serving(q) BY <3>5 DEF Serving
    <3> QED BY <1>e, <1>7, <3>1, <3>2, <3>6 DEF LoadInstalled
  <2> QED BY <2>2, <2>3
<1>8. CASE ProcessEnds BY <1>d, <1>e, <1>8 DEF ProcessEnds
<1>9. ASSUME NEW v \in Versions, Deploy(v) PROVE DeploymentInv'
  <2>1. process = Down /\ process' = Down /\ code' = v /\ UNCHANGED <<tables, installed, seeded>> BY <1>9 DEF Deploy
  <2>2. DeploymentTypes' /\ Recorded' BY <1>types, <2>1 DEF DeploymentTypes, Recorded
  <2> QED BY <1>d, <2>1, <2>2 DEF DeploymentInv
<1>10. CASE UNCHANGED deploymentVars
  BY <1>10 DEF deploymentVars, DeploymentInv, DeploymentTypes, Recorded, Advance, Serving, There, AsDeclared
<1>11. ASSUME NEW m \in Addons PROVE <<m>> \in Seq(Addons) OBVIOUS
<1> QED
  BY <1>1, <1>2, <1>3, <1>4, <1>5, <1>6, <1>7, <1>8, <1>9, <1>10, <1>11, DeploymentAssumption DEF DeploymentNext

\* Whatever batches were installed, and wherever the process ended before: a module that
\* is recorded as installed has its table, and all it depends on is installed and was
\* given its data; and when the server is up, all of its batch is there as the deployed
\* code declares it, with its data.
THEOREM Complete == DeploymentSpec => []ServesComplete
<1>1. DeploymentInit => DeploymentInv BY DeploymentStart
<1>2. DeploymentInv /\ [DeploymentNext]_deploymentVars => DeploymentInv' BY DeploymentStep
<1>3. DeploymentInv => ServesComplete
  <2> SUFFICES ASSUME DeploymentInv PROVE ServesComplete
    OBVIOUS
  <2>1. process.op = "up" => process \in Up BY ProcessKinds DEF DeploymentInv, DeploymentTypes
  <2> QED BY <2>1 DEF DeploymentInv, Recorded, Serving, AsDeclared, ServesComplete
<1> QED BY <1>1, <1>2, <1>3, PTL DEF DeploymentSpec
-----------------------------------------------------------------------------
(* Valuation.                                                              *)
LayerRows == [qty : Int, value : Int, left : Nat, leftValue : Int, booked : {0, 1}]
FifoRows == [id : Nat, left : Nat \ {0}, leftValue : Int]
Layered == {"count", "old", "average", "post"}
Averaging == [op : {"count", "old", "average"}, layer : Nat, qty : Nat, cost : Nat, before : Int, old : Int]
Taking == [op : {"take"}, qty : Nat, wanted : Int, worth : Int, rows : Seq(FifoRows)]
ValuingTyped(c) ==
  \/ c = Idle
  \/ c.op \in {"in", "out", "search"} /\ c.qty \in Nat \ {0} /\ (c.op = "out" <=> c.op # "in" /\ method # "fifo")
  \/ c \in Averaging /\ c.layer \in DOMAIN layers /\ c.qty # 0 /\ method = "average"
  \/ c.op \in {"post", "link"} /\ c.layer \in DOMAIN layers
  \/ c \in Taking /\ c.qty # 0 /\ method = "fifo" /\ \A i \in DOMAIN c.rows : c.rows[i].id \in DOMAIN layers
ValuationTypes ==
  /\ method \in {"standard", "average", "fifo"} /\ price \in Nat /\ inStock \in Nat /\ avgCost \in Int /\ booked \in Int
  /\ layers \in Seq(LayerRows) /\ DOMAIN valuing = Movers /\ \A u \in Movers : ValuingTyped(valuing[u])

\* The columns of the table, and what each call still owes to the sums over them.
Values == [l \in DOMAIN layers |-> layers[l].value]
Quantities == [l \in DOMAIN layers |-> layers[l].qty]
Lefts == [l \in DOMAIN layers |-> layers[l].left]
LeftValues == [l \in DOMAIN layers |-> layers[l].leftValue]
Unposted(c) == IF c.op \in Layered THEN layers[c.layer].value ELSE 0
Unlayered(c) == IF c.op = "in" THEN c.qty ELSE IF c.op \in {"out", "search", "take"} THEN -c.qty ELSE 0
Untaken(c) == IF c.op = "in" THEN c.qty ELSE IF c.op = "search" THEN -c.qty ELSE IF c.op = "take" THEN 0 - c.wanted ELSE 0
Taken(c) == IF c.op = "take" THEN c.worth ELSE 0
AllUnposted == [u \in Movers |-> Unposted(valuing[u])]
AllUnlayered == [u \in Movers |-> Unlayered(valuing[u])]
AllUntaken == [u \in Movers |-> Untaken(valuing[u])]
AllTaken == [u \in Movers |-> Taken(valuing[u])]

\* The account and the stock, whatever calls overlap.
Account == booked + SumOf(AllUnposted, Movers) = SumAll(Values)
Counted == SumAll(Quantities) + SumOf(AllUnlayered, Movers) = inStock
Entered ==
  \A l \in DOMAIN layers :
    layers[l].booked = 1 \/ \E u \in Movers : valuing[u].op \in Layered \cup {"link"} /\ valuing[u].layer = l

\* One call at a time: what FIFO has read is so still, and averages are of what is there.
OneValues == \A u, v \in Movers : u # v => valuing[u] = Idle \/ valuing[v] = Idle
Fresh(c) ==
  c.op = "take" =>
    /\ c.wanted >= 0
    /\ \A i \in DOMAIN c.rows : c.rows[i].left = layers[c.rows[i].id].left /\ c.rows[i].leftValue = layers[c.rows[i].id].leftValue
    /\ \A i, j \in DOMAIN c.rows : c.rows[i].id = c.rows[j].id => i = j
    /\ c.wanted > 0 => \A l \in DOMAIN layers : layers[l].left > 0 => \E i \in DOMAIN c.rows : c.rows[i].id = l
FifoHolds ==
  /\ SumAll(Lefts) + SumOf(AllUntaken, Movers) = inStock
  /\ SumAll(LeftValues) + SumOf(AllTaken, Movers) = SumAll(Values)
  /\ \A u \in Movers : Fresh(valuing[u])
Averaged(c) ==
  IF c.op = "in" THEN inStock - c.qty >= 0 /\ (inStock - c.qty) * avgCost = SumAll(Values)
  ELSE IF c.op \in {"count", "old", "average"}
       THEN /\ inStock - c.qty >= 0 /\ (inStock - c.qty) * avgCost + c.qty * c.cost = SumAll(Values)
            /\ c.op # "count" => c.before = inStock - c.qty
            /\ c.op = "average" => c.old = avgCost
  ELSE IF c.op = "out" THEN (inStock + c.qty) * avgCost = SumAll(Values)
  ELSE inStock * avgCost = SumAll(Values)
AverageHolds ==
  /\ \A u \in Movers : valuing[u] # Idle => Averaged(valuing[u])
  /\ (\A u \in Movers : valuing[u] = Idle) => Averaged(Idle)
ValuationInv ==
  /\ ValuationTypes
  /\ ~unvalued =>
       /\ Account /\ Counted /\ Entered
       /\ exclusive => /\ OneValues
                       /\ method = "fifo" => FifoHolds
                       /\ method = "average" => AverageHolds

-----------------------------------------------------------------------------
(* Columns.                                                                *)

\* The sum over a column is that of any table of the same values.
Columns(L, V, Q, N, W) ==
  /\ IsFiniteSet(DOMAIN L)
  /\ SumAll(V) = SumOf(V, DOMAIN L) /\ SumAll(Q) = SumOf(Q, DOMAIN L)
  /\ SumAll(N) = SumOf(N, DOMAIN L) /\ SumAll(W) = SumOf(W, DOMAIN L)
  /\ \A l \in DOMAIN L : /\ L[l] \in LayerRows
                         /\ V[l] = L[l].value /\ V[l] \in Int /\ Q[l] = L[l].qty /\ Q[l] \in Int
                         /\ N[l] = L[l].left /\ N[l] \in Nat /\ W[l] = L[l].leftValue /\ W[l] \in Int
LEMMA ColumnFacts ==
  ASSUME NEW L \in Seq(LayerRows), NEW V, NEW Q, NEW N, NEW W,
         V = [l \in DOMAIN L |-> L[l].value], Q = [l \in DOMAIN L |-> L[l].qty],
         N = [l \in DOMAIN L |-> L[l].left], W = [l \in DOMAIN L |-> L[l].leftValue]
  PROVE  Columns(L, V, Q, N, W)
<1>1. IsFiniteSet(DOMAIN L)
  <2>1. DOMAIN L = 1 .. Len(L) /\ Len(L) \in Nat OBVIOUS
  <2>2. IsFiniteSet(1 .. Len(L)) BY <2>1, FS_Interval
  <2> QED BY <2>1, <2>2
<1>2. \A l \in DOMAIN L : L[l] \in LayerRows OBVIOUS
<1>3. \A l \in DOMAIN L : L[l].value \in Int /\ L[l].qty \in Int /\ L[l].left \in Nat /\ L[l].leftValue \in Int
  BY <1>2 DEF LayerRows
<1>4. DOMAIN V = DOMAIN L /\ DOMAIN Q = DOMAIN L /\ DOMAIN N = DOMAIN L /\ DOMAIN W = DOMAIN L OBVIOUS
<1>5. \A l \in DOMAIN L : V[l] = L[l].value /\ Q[l] = L[l].qty /\ N[l] = L[l].left /\ W[l] = L[l].leftValue OBVIOUS
<1>6. /\ SumAll(V) = SumOf(V, DOMAIN L) /\ SumAll(Q) = SumOf(Q, DOMAIN L)
      /\ SumAll(N) = SumOf(N, DOMAIN L) /\ SumAll(W) = SumOf(W, DOMAIN L)
  BY <1>4 DEF SumAll
<1>7. \A l \in DOMAIN L : V[l] \in Int /\ Q[l] \in Int /\ N[l] \in Nat /\ W[l] \in Int BY <1>3, <1>5
<1> QED BY <1>1, <1>2, <1>5, <1>6, <1>7 DEF Columns

LEMMA ColumnsNow == ASSUME ValuationTypes PROVE Columns(layers, Values, Quantities, Lefts, LeftValues)
<1>1. layers \in Seq(LayerRows) BY DEF ValuationTypes
<1> QED BY <1>1, ColumnFacts DEF Values, Quantities, Lefts, LeftValues
LEMMA ColumnsNext == ASSUME ValuationTypes' PROVE Columns(layers', Values', Quantities', Lefts', LeftValues')
<1>1. layers' \in Seq(LayerRows) BY DEF ValuationTypes
<1> QED BY <1>1, ColumnFacts DEF Values, Quantities, Lefts, LeftValues

LEMMA ColumnsTyped ==
  ASSUME ValuationTypes
  PROVE  SumAll(Values) \in Int /\ SumAll(Quantities) \in Int /\ SumAll(Lefts) \in Nat /\ SumAll(LeftValues) \in Int
<1>1. SumOf(Values, DOMAIN layers) \in Int
  <2>1. \A l \in DOMAIN layers : Values[l] \in Int BY ColumnsNow DEF Columns
  <2> QED BY <2>1, ColumnsNow, SumType DEF Columns
<1>2. SumOf(Quantities, DOMAIN layers) \in Int
  <2>1. \A l \in DOMAIN layers : Quantities[l] \in Int BY ColumnsNow DEF Columns
  <2> QED BY <2>1, ColumnsNow, SumType DEF Columns
<1>3. SumOf(Lefts, DOMAIN layers) \in Nat
  <2>1. \A l \in DOMAIN layers : Lefts[l] \in Nat BY ColumnsNow DEF Columns
  <2> QED BY <2>1, ColumnsNow, SumNat DEF Columns
<1>4. SumOf(LeftValues, DOMAIN layers) \in Int
  <2>1. \A l \in DOMAIN layers : LeftValues[l] \in Int BY ColumnsNow DEF Columns
  <2> QED BY <2>1, ColumnsNow, SumType DEF Columns
<1> QED BY <1>1, <1>2, <1>3, <1>4, ColumnsNow DEF Columns

LEMMA ColumnsTypedNext ==
  ASSUME ValuationTypes'
  PROVE  SumAll(Values)' \in Int /\ SumAll(Quantities)' \in Int /\ SumAll(Lefts)' \in Nat /\ SumAll(LeftValues)' \in Int
<1>1. SumOf(Values', DOMAIN layers') \in Int
  <2>1. \A l \in DOMAIN layers' : Values'[l] \in Int BY ColumnsNext DEF Columns
  <2> QED BY <2>1, ColumnsNext, SumType DEF Columns
<1>2. SumOf(Quantities', DOMAIN layers') \in Int
  <2>1. \A l \in DOMAIN layers' : Quantities'[l] \in Int BY ColumnsNext DEF Columns
  <2> QED BY <2>1, ColumnsNext, SumType DEF Columns
<1>3. SumOf(Lefts', DOMAIN layers') \in Nat
  <2>1. \A l \in DOMAIN layers' : Lefts'[l] \in Nat BY ColumnsNext DEF Columns
  <2> QED BY <2>1, ColumnsNext, SumNat DEF Columns
<1>4. SumOf(LeftValues', DOMAIN layers') \in Int
  <2>1. \A l \in DOMAIN layers' : LeftValues'[l] \in Int BY ColumnsNext DEF Columns
  <2> QED BY <2>1, ColumnsNext, SumType DEF Columns
<1> QED BY <1>1, <1>2, <1>3, <1>4, ColumnsNext DEF Columns

\* The same layers.
LEMMA ColumnsStay ==
  ASSUME UNCHANGED layers
  PROVE  /\ SumAll(Values)' = SumAll(Values) /\ SumAll(Quantities)' = SumAll(Quantities)
         /\ SumAll(Lefts)' = SumAll(Lefts) /\ SumAll(LeftValues)' = SumAll(LeftValues)
BY DEF Values, Quantities, Lefts, LeftValues

\* A layer more.
Layer(q, v, n, w) == [qty |-> q, value |-> v, left |-> n, leftValue |-> w, booked |-> 0]
LEMMA Adds ==
  ASSUME ValuationTypes, NEW q \in Int, NEW v \in Int, NEW n \in Nat, NEW w \in Int, Add(q, v, n, w)
  PROVE  /\ layers' \in Seq(LayerRows) /\ Len(layers) \in Nat /\ DOMAIN layers = 1 .. Len(layers)
         /\ DOMAIN layers' = 1 .. (Len(layers) + 1)
         /\ layers'[Len(layers) + 1] = Layer(q, v, n, w) /\ \A l \in DOMAIN layers : layers'[l] = layers[l]
<1>1. layers \in Seq(LayerRows) BY DEF ValuationTypes
<1>2. PICK r : r = Layer(q, v, n, w) OBVIOUS
<1>3. r \in LayerRows BY <1>2 DEF Layer, LayerRows
<1>4. layers' = Append(layers, r) BY <1>2 DEF Add, Layer
<1>5. /\ Append(layers, r) \in Seq(LayerRows) /\ Len(layers) \in Nat /\ DOMAIN layers = 1 .. Len(layers)
      /\ DOMAIN Append(layers, r) = 1 .. (Len(layers) + 1)
      /\ Append(layers, r)[Len(layers) + 1] = r /\ \A l \in DOMAIN layers : Append(layers, r)[l] = layers[l]
  BY <1>1, <1>3
<1> QED BY <1>2, <1>4, <1>5

LEMMA ColumnsGrow ==
  ASSUME ValuationTypes, ValuationTypes', NEW q \in Int, NEW v \in Int, NEW n \in Nat, NEW w \in Int, Add(q, v, n, w)
  PROVE  /\ SumAll(Values)' = SumAll(Values) + v /\ SumAll(Quantities)' = SumAll(Quantities) + q
         /\ SumAll(Lefts)' = SumAll(Lefts) + n /\ SumAll(LeftValues)' = SumAll(LeftValues) + w
<1>1. PICK m : m = Len(layers) OBVIOUS
<1>2. /\ m \in Nat /\ DOMAIN layers = 1 .. m /\ DOMAIN layers' = 1 .. (m + 1)
      /\ layers'[m + 1] = Layer(q, v, n, w) /\ \A l \in 1 .. m : layers'[l] = layers[l] /\ l \in 1 .. (m + 1)
  <2>1. /\ Len(layers) \in Nat /\ DOMAIN layers = 1 .. Len(layers) /\ DOMAIN layers' = 1 .. (Len(layers) + 1)
        /\ layers'[Len(layers) + 1] = Layer(q, v, n, w) /\ \A l \in DOMAIN layers : layers'[l] = layers[l]
    BY Adds
  <2>2. \A l \in 1 .. m : l \in 1 .. (m + 1) BY <1>1, <2>1
  <2> QED BY <1>1, <2>1, <2>2
<1>3. m + 1 \in 1 .. (m + 1) BY <1>2
<1>4. \A l \in 1 .. (m + 1) : /\ Values'[l] = layers'[l].value /\ Values'[l] \in Int
                              /\ Quantities'[l] = layers'[l].qty /\ Quantities'[l] \in Int
                              /\ Lefts'[l] = layers'[l].left /\ Lefts'[l] \in Nat
                              /\ LeftValues'[l] = layers'[l].leftValue /\ LeftValues'[l] \in Int
  BY <1>2, ColumnsNext DEF Columns
<1>5. /\ SumAll(Values)' = SumOf(Values', 1 .. (m + 1)) /\ SumAll(Quantities)' = SumOf(Quantities', 1 .. (m + 1))
      /\ SumAll(Lefts)' = SumOf(Lefts', 1 .. (m + 1)) /\ SumAll(LeftValues)' = SumOf(LeftValues', 1 .. (m + 1))
  BY <1>2, ColumnsNext DEF Columns
<1>6. \A l \in 1 .. m : /\ Values[l] \in Int /\ Values'[l] = Values[l]
                        /\ Quantities[l] \in Int /\ Quantities'[l] = Quantities[l]
                        /\ Lefts[l] \in Int /\ Lefts'[l] = Lefts[l]
                        /\ LeftValues[l] \in Int /\ LeftValues'[l] = LeftValues[l]
  <2>1. \A l \in 1 .. m : /\ Values[l] = layers[l].value /\ Values[l] \in Int
                          /\ Quantities[l] = layers[l].qty /\ Quantities[l] \in Int
                          /\ Lefts[l] = layers[l].left /\ Lefts[l] \in Nat /\ LeftValues[l] = layers[l].leftValue /\ LeftValues[l] \in Int
    BY <1>2, ColumnsNow DEF Columns
  <2> SUFFICES ASSUME NEW l \in 1 .. m
               PROVE  /\ Values[l] \in Int /\ Values'[l] = Values[l]
                      /\ Quantities[l] \in Int /\ Quantities'[l] = Quantities[l]
                      /\ Lefts[l] \in Int /\ Lefts'[l] = Lefts[l]
                      /\ LeftValues[l] \in Int /\ LeftValues'[l] = LeftValues[l]
    OBVIOUS
  <2>2. layers'[l] = layers[l] /\ l \in 1 .. (m + 1) BY <1>2
  <2>3. /\ Values[l] = layers[l].value /\ Values[l] \in Int /\ Quantities[l] = layers[l].qty /\ Quantities[l] \in Int
        /\ Lefts[l] = layers[l].left /\ Lefts[l] \in Int /\ LeftValues[l] = layers[l].leftValue /\ LeftValues[l] \in Int
    BY <2>1
  <2>4. /\ Values'[l] = layers'[l].value /\ Quantities'[l] = layers'[l].qty
        /\ Lefts'[l] = layers'[l].left /\ LeftValues'[l] = layers'[l].leftValue
    BY <1>4, <2>2
  <2> QED BY <2>2, <2>3, <2>4
<1>7. Values'[m + 1] = v /\ Quantities'[m + 1] = q /\ Lefts'[m + 1] = n /\ LeftValues'[m + 1] = w
  BY <1>2, <1>3, <1>4 DEF Layer
<1>8. SumOf(Values', 1 .. (m + 1)) = SumOf(Values, 1 .. m) + v
  <2>1. (\A l \in 1 .. m : Values[l] \in Int /\ Values'[l] = Values[l]) /\ Values'[m + 1] \in Int BY <1>6, <1>7
  <2> QED BY <1>2, <1>7, <2>1, SumLast
<1>9. SumOf(Quantities', 1 .. (m + 1)) = SumOf(Quantities, 1 .. m) + q
  <2>1. (\A l \in 1 .. m : Quantities[l] \in Int /\ Quantities'[l] = Quantities[l]) /\ Quantities'[m + 1] \in Int BY <1>6, <1>7
  <2> QED BY <1>2, <1>7, <2>1, SumLast
<1>10. SumOf(Lefts', 1 .. (m + 1)) = SumOf(Lefts, 1 .. m) + n
  <2>1. (\A l \in 1 .. m : Lefts[l] \in Int /\ Lefts'[l] = Lefts[l]) /\ Lefts'[m + 1] \in Int BY <1>6, <1>7
  <2> QED BY <1>2, <1>7, <2>1, SumLast
<1>11. SumOf(LeftValues', 1 .. (m + 1)) = SumOf(LeftValues, 1 .. m) + w
  <2>1. (\A l \in 1 .. m : LeftValues[l] \in Int /\ LeftValues'[l] = LeftValues[l]) /\ LeftValues'[m + 1] \in Int BY <1>6, <1>7
  <2> QED BY <1>2, <1>7, <2>1, SumLast
<1>12. /\ SumAll(Values) = SumOf(Values, 1 .. m) /\ SumAll(Quantities) = SumOf(Quantities, 1 .. m)
       /\ SumAll(Lefts) = SumOf(Lefts, 1 .. m) /\ SumAll(LeftValues) = SumOf(LeftValues, 1 .. m)
  BY <1>2, ColumnsNow DEF Columns
<1> QED BY <1>5, <1>8, <1>9, <1>10, <1>11, <1>12

\* Something is taken from a layer, or it is given its entry.
Rewrites(k, n, w) ==
  /\ DOMAIN layers' = DOMAIN layers /\ \A l \in DOMAIN layers : l # k => layers'[l] = layers[l]
  /\ layers'[k].value = layers[k].value /\ layers'[k].qty = layers[k].qty
  /\ layers'[k].left = n /\ layers'[k].leftValue = w
LEMMA ColumnsChange ==
  ASSUME ValuationTypes, ValuationTypes', NEW k \in DOMAIN layers, NEW n \in Nat, NEW w \in Int, Rewrites(k, n, w)
  PROVE  /\ SumAll(Values)' = SumAll(Values) /\ SumAll(Quantities)' = SumAll(Quantities)
         /\ SumAll(Lefts)' = SumAll(Lefts) + n - layers[k].left
         /\ SumAll(LeftValues)' = SumAll(LeftValues) + w - layers[k].leftValue
<1>1. PICK S : S = DOMAIN layers OBVIOUS
<1>2. IsFiniteSet(S) /\ DOMAIN layers' = S /\ k \in S BY <1>1, ColumnsNow DEF Columns, Rewrites
<1>3. \A l \in S : /\ Values'[l] = layers'[l].value /\ Values'[l] \in Int
                   /\ Quantities'[l] = layers'[l].qty /\ Quantities'[l] \in Int
                   /\ Lefts'[l] = layers'[l].left /\ Lefts'[l] \in Nat
                   /\ LeftValues'[l] = layers'[l].leftValue /\ LeftValues'[l] \in Int
  BY <1>2, ColumnsNext DEF Columns
<1>4. /\ SumAll(Values)' = SumOf(Values', S) /\ SumAll(Quantities)' = SumOf(Quantities', S)
      /\ SumAll(Lefts)' = SumOf(Lefts', S) /\ SumAll(LeftValues)' = SumOf(LeftValues', S)
  BY <1>2, ColumnsNext DEF Columns
<1>5. /\ SumAll(Values) = SumOf(Values, S) /\ SumAll(Quantities) = SumOf(Quantities, S)
      /\ SumAll(Lefts) = SumOf(Lefts, S) /\ SumAll(LeftValues) = SumOf(LeftValues, S)
  BY <1>1, ColumnsNow DEF Columns
<1>6. \A l \in S : /\ Values[l] = layers[l].value /\ Values[l] \in Int
                   /\ Quantities[l] = layers[l].qty /\ Quantities[l] \in Int
                   /\ Lefts[l] = layers[l].left /\ Lefts[l] \in Int
                   /\ LeftValues[l] = layers[l].leftValue /\ LeftValues[l] \in Int
  BY <1>1, ColumnsNow DEF Columns
<1>7. \A l \in S : l # k => layers'[l] = layers[l] BY <1>1 DEF Rewrites
<1>8. layers'[k].value = layers[k].value /\ layers'[k].qty = layers[k].qty /\ layers'[k].left = n /\ layers'[k].leftValue = w
  BY DEF Rewrites
<1>9. SumOf(Values', S) = SumOf(Values, S)
  <2>1. \A l \in S : Values[l] = Values'[l] BY <1>3, <1>6, <1>7, <1>8
  <2> QED BY <1>2, <2>1, SumSame
<1>10. SumOf(Quantities', S) = SumOf(Quantities, S)
  <2>1. \A l \in S : Quantities[l] = Quantities'[l] BY <1>3, <1>6, <1>7, <1>8
  <2> QED BY <1>2, <2>1, SumSame
<1>11. SumOf(Lefts', S) = SumOf(Lefts, S) + n - layers[k].left
  <2>1. \A l \in S : Lefts[l] \in Int /\ Lefts'[l] \in Int BY <1>3, <1>6
  <2>2. \A l \in S \ {k} : Lefts[l] = Lefts'[l] BY <1>3, <1>6, <1>7
  <2>3. SumOf(Lefts', S) = SumOf(Lefts, S) + Lefts'[k] - Lefts[k] BY <1>2, <2>1, <2>2, SumChange
  <2> QED BY <1>2, <1>3, <1>6, <1>8, <2>3
<1>12. SumOf(LeftValues', S) = SumOf(LeftValues, S) + w - layers[k].leftValue
  <2>1. \A l \in S : LeftValues[l] \in Int /\ LeftValues'[l] \in Int BY <1>3, <1>6
  <2>2. \A l \in S \ {k} : LeftValues[l] = LeftValues'[l] BY <1>3, <1>6, <1>7
  <2>3. SumOf(LeftValues', S) = SumOf(LeftValues, S) + LeftValues'[k] - LeftValues[k] BY <1>2, <2>1, <2>2, SumChange
  <2> QED BY <1>2, <1>3, <1>6, <1>8, <2>3
<1> QED BY <1>4, <1>5, <1>9, <1>10, <1>11, <1>12
-----------------------------------------------------------------------------
(* Calls.                                                                  *)

\* One call goes on, the others are where they were.
ValuingTurned(u, c) ==
  /\ DOMAIN valuing' = Movers /\ valuing'[u] = c
  /\ \A v \in Movers : v # u => valuing'[v] = valuing[v]
LEMMA ValuingTurns ==
  ASSUME ValuationTypes, NEW u \in Movers, NEW c, Goes(u, c) PROVE ValuingTurned(u, c)
<1>1. DOMAIN valuing = Movers BY DEF ValuationTypes
<1> QED BY <1>1 DEF Goes, ValuingTurned

\* No layer goes away, and none changes its value.
ValuesKept == DOMAIN layers \subseteq DOMAIN layers' /\ \A l \in DOMAIN layers : layers'[l].value = layers[l].value

LEMMA OwedTyped ==
  ASSUME ValuationTypes, NEW c, ValuingTyped(c)
  PROVE  Unposted(c) \in Int /\ Unlayered(c) \in Int /\ Untaken(c) \in Int /\ Taken(c) \in Int
<1>1. c.op \in Layered => c.layer \in DOMAIN layers BY DEF ValuingTyped, Averaging, Taking, Idle, Layered
<1>2. Unposted(c) \in Int
  <2>1. \A l \in DOMAIN layers : layers[l].value \in Int BY ColumnsNow DEF Columns
  <2> QED BY <1>1, <2>1 DEF Unposted
<1>3. c.op \in {"in", "out", "search", "take"} => c.qty \in Nat BY DEF ValuingTyped, Averaging, Taking, Idle
<1>4. c.op = "take" => c.wanted \in Int /\ c.worth \in Int BY DEF ValuingTyped, Averaging, Taking, Idle
<1> QED BY <1>2, <1>3, <1>4 DEF Unlayered, Untaken, Taken

LEMMA OwedTypedNext ==
  ASSUME ValuationTypes', NEW v \in Movers
  PROVE  (/\ Unposted(valuing[v]) \in Int /\ Unlayered(valuing[v]) \in Int
          /\ Untaken(valuing[v]) \in Int /\ Taken(valuing[v]) \in Int)'
<1>0. PICK c : c = valuing'[v] OBVIOUS
<1>1. c.op \in Layered => c.layer \in DOMAIN layers' BY <1>0 DEF ValuationTypes, ValuingTyped, Averaging, Taking, Idle, Layered
<1>2. Unposted(valuing[v])' \in Int
  <2>1. \A l \in DOMAIN layers' : layers'[l].value \in Int BY ColumnsNext DEF Columns
  <2> QED BY <1>0, <1>1, <2>1 DEF Unposted
<1>3. c.op \in {"in", "out", "search", "take"} => c.qty \in Nat BY <1>0 DEF ValuationTypes, ValuingTyped, Averaging, Taking, Idle
<1>4. c.op = "take" => c.wanted \in Int /\ c.worth \in Int BY <1>0 DEF ValuationTypes, ValuingTyped, Averaging, Taking, Idle
<1> QED BY <1>0, <1>2, <1>3, <1>4 DEF Unlayered, Untaken, Taken

\* What the calls owe changes by what the one that goes on does.
LEMMA OwedTurns ==
  ASSUME ValuationTypes, ValuationTypes', ValuesKept, NEW u \in Movers, NEW c, ValuingTurned(u, c)
  PROVE  /\ SumOf(AllUnposted, Movers)' = SumOf(AllUnposted, Movers) + Unposted(c)' - Unposted(valuing[u])
         /\ SumOf(AllUnlayered, Movers)' = SumOf(AllUnlayered, Movers) + Unlayered(c) - Unlayered(valuing[u])
         /\ SumOf(AllUntaken, Movers)' = SumOf(AllUntaken, Movers) + Untaken(c) - Untaken(valuing[u])
         /\ SumOf(AllTaken, Movers)' = SumOf(AllTaken, Movers) + Taken(c) - Taken(valuing[u])
         /\ SumOf(AllUnposted, Movers) \in Int /\ SumOf(AllUnlayered, Movers) \in Int
         /\ SumOf(AllUntaken, Movers) \in Int /\ SumOf(AllTaken, Movers) \in Int
<1>1. IsFiniteSet(Movers) BY ValuationAssumption
<1>2. \A v \in Movers : ValuingTyped(valuing[v]) BY DEF ValuationTypes
<1>3. \A v \in Movers : ValuingTyped(valuing[v])' BY DEF ValuationTypes
<1>4. \A v \in Movers : /\ Unposted(valuing[v]) \in Int /\ Unlayered(valuing[v]) \in Int
                        /\ Untaken(valuing[v]) \in Int /\ Taken(valuing[v]) \in Int
  BY <1>2, OwedTyped
<1>5. \A v \in Movers : (/\ Unposted(valuing[v]) \in Int /\ Unlayered(valuing[v]) \in Int
                         /\ Untaken(valuing[v]) \in Int /\ Taken(valuing[v]) \in Int)'
  BY OwedTypedNext
<1>6. \A v \in Movers : v # u => valuing'[v] = valuing[v] BY DEF ValuingTurned
<1>7. \A v \in Movers : v # u => Unposted(valuing[v])' = Unposted(valuing[v])
  <2> SUFFICES ASSUME NEW v \in Movers, v # u PROVE Unposted(valuing[v])' = Unposted(valuing[v]) OBVIOUS
  <2>1. valuing[v].op \in Layered => valuing[v].layer \in DOMAIN layers BY <1>2 DEF ValuingTyped, Averaging, Taking, Idle, Layered
  <2> QED BY <1>6, <2>1 DEF Unposted, ValuesKept
<1>8. \A v \in Movers : /\ AllUnposted[v] = Unposted(valuing[v]) /\ AllUnposted'[v] = Unposted(valuing[v])'
                        /\ AllUnlayered[v] = Unlayered(valuing[v]) /\ AllUnlayered'[v] = Unlayered(valuing[v])'
                        /\ AllUntaken[v] = Untaken(valuing[v]) /\ AllUntaken'[v] = Untaken(valuing[v])'
                        /\ AllTaken[v] = Taken(valuing[v]) /\ AllTaken'[v] = Taken(valuing[v])'
  BY DEF AllUnposted, AllUnlayered, AllUntaken, AllTaken
<1>9. /\ Unposted(valuing[u])' = Unposted(c)' /\ Unlayered(valuing[u])' = Unlayered(c)
      /\ Untaken(valuing[u])' = Untaken(c) /\ Taken(valuing[u])' = Taken(c)
  BY DEF ValuingTurned, Unposted, Unlayered, Untaken, Taken
<1>10. /\ SumOf(AllUnposted', Movers) = SumOf(AllUnposted, Movers) + AllUnposted'[u] - AllUnposted[u]
       /\ SumOf(AllUnposted, Movers) \in Int
  <2>1. \A v \in Movers : AllUnposted[v] \in Int /\ AllUnposted'[v] \in Int BY <1>4, <1>5, <1>8
  <2>2. \A v \in Movers \ {u} : AllUnposted[v] = AllUnposted'[v] BY <1>7, <1>8
  <2> QED BY <1>1, <2>1, <2>2, SumChange, SumType
<1>11. /\ SumOf(AllUnlayered', Movers) = SumOf(AllUnlayered, Movers) + AllUnlayered'[u] - AllUnlayered[u]
       /\ SumOf(AllUnlayered, Movers) \in Int
  <2>1. \A v \in Movers : AllUnlayered[v] \in Int /\ AllUnlayered'[v] \in Int BY <1>4, <1>5, <1>8
  <2>2. \A v \in Movers \ {u} : AllUnlayered[v] = AllUnlayered'[v] BY <1>6, <1>8 DEF Unlayered
  <2> QED BY <1>1, <2>1, <2>2, SumChange, SumType
<1>12. /\ SumOf(AllUntaken', Movers) = SumOf(AllUntaken, Movers) + AllUntaken'[u] - AllUntaken[u]
       /\ SumOf(AllUntaken, Movers) \in Int
  <2>1. \A v \in Movers : AllUntaken[v] \in Int /\ AllUntaken'[v] \in Int BY <1>4, <1>5, <1>8
  <2>2. \A v \in Movers \ {u} : AllUntaken[v] = AllUntaken'[v] BY <1>6, <1>8 DEF Untaken
  <2> QED BY <1>1, <2>1, <2>2, SumChange, SumType
<1>13. /\ SumOf(AllTaken', Movers) = SumOf(AllTaken, Movers) + AllTaken'[u] - AllTaken[u]
       /\ SumOf(AllTaken, Movers) \in Int
  <2>1. \A v \in Movers : AllTaken[v] \in Int /\ AllTaken'[v] \in Int BY <1>4, <1>5, <1>8
  <2>2. \A v \in Movers \ {u} : AllTaken[v] = AllTaken'[v] BY <1>6, <1>8 DEF Taken
  <2> QED BY <1>1, <2>1, <2>2, SumChange, SumType
<1> QED BY <1>8, <1>9, <1>10, <1>11, <1>12, <1>13

\* No other call is under way.
Alone(u) == \A v \in Movers : v # u => valuing[v] = Idle
LEMMA OneGoesOn ==
  ASSUME OneValues, NEW u \in Movers, valuing[u] # Idle PROVE Alone(u)
BY DEF OneValues, Alone
LEMMA NoneCalls ==
  ASSUME ValuationTypes, exclusive, NEW u \in Movers, MayCall(valuing, u) PROVE Alone(u) /\ valuing[u] = Idle
BY DEF MayCall, Alone, ValuationTypes

\* A call only adds layers and keeps the product as it is.
LayersKept ==
  /\ layers' \in Seq(LayerRows) /\ DOMAIN layers \subseteq DOMAIN layers'
  /\ method' = method
LEMMA TypedTurn ==
  ASSUME ValuationTypes, NEW u \in Movers, NEW c, ValuingTurned(u, c), LayersKept, ValuingTyped(c)',
         price' = price, inStock' \in Nat, avgCost' \in Int, booked' \in Int
  PROVE  ValuationTypes'
<1>1. ASSUME NEW v \in Movers PROVE ValuingTyped(valuing[v])'
  <2>1. CASE v = u
    <3>1. valuing'[v] = c BY <2>1 DEF ValuingTurned
    <3> QED BY <3>1 DEF ValuingTyped
  <2>2. CASE v # u
    <3>1. valuing'[v] = valuing[v] BY <2>2 DEF ValuingTurned
    <3>2. ValuingTyped(valuing[v]) BY DEF ValuationTypes
    <3>3. PICK d : d = valuing[v] OBVIOUS
    <3>4. ValuingTyped(d)'
      <4>1. ValuingTyped(d) BY <3>2, <3>3
      <4>2. DOMAIN layers \subseteq DOMAIN layers' /\ method' = method BY DEF LayersKept
      <4> QED BY <4>1, <4>2 DEF ValuingTyped
    <3> QED BY <3>1, <3>3, <3>4 DEF ValuingTyped
  <2> QED BY <2>1, <2>2
<1>2. layers' \in Seq(LayerRows) /\ method' = method BY DEF LayersKept
<1>3. DOMAIN valuing' = Movers BY DEF ValuingTurned
<1> QED BY <1>1, <1>2, <1>3 DEF ValuationTypes

\* What is there and what is owed together follow what there should be.
LEMMA Follows ==
  ASSUME NEW s \in Int, NEW t \in Int, NEW a \in Int, NEW b, NEW d \in Int, NEW e \in Int, NEW r \in Int, NEW q \in Int,
         s + a = r, b = a + e - d, t + e - d = s + q - r
  PROVE  t + b = q
OBVIOUS

\* What a call does to the account and to the count is what it owes less.
Pays(u, c) ==
  /\ booked' + Unposted(c)' - Unposted(valuing[u]) = booked + SumAll(Values)' - SumAll(Values)
  /\ SumAll(Quantities)' + Unlayered(c) - Unlayered(valuing[u]) = SumAll(Quantities) + inStock' - inStock
LEMMA PaysKeeps ==
  ASSUME ValuationTypes, ValuationTypes', ValuesKept, NEW u \in Movers, NEW c, ValuingTurned(u, c), Pays(u, c),
         Account, Counted
  PROVE  Account' /\ Counted'
<1>1. /\ booked \in Int /\ booked' \in Int /\ inStock \in Int /\ inStock' \in Int
  BY DEF ValuationTypes
<1>2. SumAll(Values) \in Int /\ SumAll(Quantities) \in Int BY ColumnsTyped
<1>3. SumAll(Values)' \in Int /\ SumAll(Quantities)' \in Int BY ColumnsTypedNext
<1>4. Unposted(c)' \in Int /\ Unlayered(c) \in Int
  <2>1. valuing'[u] = c BY DEF ValuingTurned
  <2>2. Unposted(valuing[u])' \in Int /\ Unlayered(valuing[u])' \in Int BY OwedTypedNext
  <2> QED BY <2>1, <2>2 DEF Unposted, Unlayered
<1>5. Unposted(valuing[u]) \in Int /\ Unlayered(valuing[u]) \in Int
  <2>1. ValuingTyped(valuing[u]) BY DEF ValuationTypes
  <2> QED BY <2>1, OwedTyped
<1>7. /\ SumOf(AllUnposted, Movers)' = SumOf(AllUnposted, Movers) + Unposted(c)' - Unposted(valuing[u])
      /\ SumOf(AllUnlayered, Movers)' = SumOf(AllUnlayered, Movers) + Unlayered(c) - Unlayered(valuing[u])
      /\ SumOf(AllUnposted, Movers) \in Int /\ SumOf(AllUnlayered, Movers) \in Int
  BY OwedTurns
<1>9. Account'
  <2>1. PICK s, t, a, b, d, e, r, q :
          /\ s = booked /\ t = booked' /\ a = SumOf(AllUnposted, Movers) /\ b = SumOf(AllUnposted, Movers)'
          /\ d = Unposted(valuing[u]) /\ e = Unposted(c)' /\ r = SumAll(Values) /\ q = SumAll(Values)'
    OBVIOUS
  <2>2. s + a = r BY <2>1 DEF Account
  <2>3. b = a + e - d /\ a \in Int BY <1>7, <2>1
  <2>4. t + e - d = s + q - r BY <2>1 DEF Pays
  <2>5. s \in Int /\ t \in Int /\ d \in Int /\ e \in Int /\ r \in Int /\ q \in Int BY <1>1, <1>2, <1>3, <1>4, <1>5, <2>1
  <2>6. t + b = q BY <2>2, <2>3, <2>4, <2>5, Follows
  <2> QED BY <2>1, <2>6 DEF Account
<1>10. Counted'
  <2>1. PICK s, t, a, b, d, e, r, q :
          /\ s = SumAll(Quantities) /\ t = SumAll(Quantities)'
          /\ a = SumOf(AllUnlayered, Movers) /\ b = SumOf(AllUnlayered, Movers)'
          /\ d = Unlayered(valuing[u]) /\ e = Unlayered(c) /\ r = inStock /\ q = inStock'
    OBVIOUS
  <2>2. s + a = r BY <2>1 DEF Counted
  <2>3. b = a + e - d /\ a \in Int BY <1>7, <2>1
  <2>4. t + e - d = s + q - r BY <2>1 DEF Pays
  <2>5. s \in Int /\ t \in Int /\ d \in Int /\ e \in Int /\ r \in Int /\ q \in Int BY <1>1, <1>2, <1>3, <1>4, <1>5, <2>1
  <2>6. t + b = q BY <2>2, <2>3, <2>4, <2>5, Follows
  <2> QED BY <2>1, <2>6 DEF Counted
<1> QED BY <1>9, <1>10

\* Every layer has its entry, or a call that will give it one.
HasLayer(c, l) == c.op \in Layered \cup {"link"} /\ c.layer = l
EntryKept(u, c) ==
  \A l \in DOMAIN layers' :
    \/ layers'[l].booked = 1
    \/ HasLayer(c, l)
    \/ l \in DOMAIN layers /\ layers'[l].booked = layers[l].booked /\ ~HasLayer(valuing[u], l)
LEMMA EntryKeeps ==
  ASSUME Entered, NEW u \in Movers, NEW c, ValuingTurned(u, c), EntryKept(u, c) PROVE Entered'
<1> SUFFICES ASSUME NEW l \in DOMAIN layers', layers'[l].booked # 1
             PROVE  \E v \in Movers : HasLayer(valuing'[v], l)
  BY DEF Entered, HasLayer
<1>1. CASE HasLayer(c, l)
  <2>1. valuing'[u] = c BY DEF ValuingTurned
  <2> QED BY <1>1, <2>1
<1>2. CASE ~HasLayer(c, l)
  <2>1. l \in DOMAIN layers /\ layers[l].booked # 1 /\ ~HasLayer(valuing[u], l) BY <1>2 DEF EntryKept
  <2>2. PICK v \in Movers : HasLayer(valuing[v], l) BY <2>1 DEF Entered, HasLayer
  <2>3. valuing'[v] = valuing[v] BY <2>1, <2>2 DEF ValuingTurned
  <2> QED BY <2>2, <2>3
<1> QED BY <1>1, <1>2

\* With one call at a time, only that call's work is to be followed.
FifoKept(u, c) ==
  /\ SumAll(Lefts)' + Untaken(c) - Untaken(valuing[u]) = SumAll(Lefts) + inStock' - inStock
  /\ SumAll(LeftValues)' + Taken(c) - Taken(valuing[u]) = SumAll(LeftValues) + SumAll(Values)' - SumAll(Values)
  /\ Fresh(c)'
LEMMA FifoKeeps ==
  ASSUME ValuationTypes, ValuationTypes', ValuesKept, NEW u \in Movers, NEW c, ValuingTurned(u, c), Alone(u),
         FifoKept(u, c), FifoHolds
  PROVE  FifoHolds'
<1>1. inStock \in Int /\ inStock' \in Int BY DEF ValuationTypes
<1>2. SumAll(Values) \in Int /\ SumAll(Lefts) \in Int /\ SumAll(LeftValues) \in Int BY ColumnsTyped
<1>3. SumAll(Values)' \in Int /\ SumAll(Lefts)' \in Int /\ SumAll(LeftValues)' \in Int BY ColumnsTypedNext
<1>4. Untaken(c) \in Int /\ Taken(c) \in Int
  <2>1. valuing'[u] = c BY DEF ValuingTurned
  <2>2. Untaken(valuing[u])' \in Int /\ Taken(valuing[u])' \in Int BY OwedTypedNext
  <2> QED BY <2>1, <2>2 DEF Untaken, Taken
<1>5. Untaken(valuing[u]) \in Int /\ Taken(valuing[u]) \in Int
  <2>1. ValuingTyped(valuing[u]) BY DEF ValuationTypes
  <2> QED BY <2>1, OwedTyped
<1>7. /\ SumOf(AllUntaken, Movers)' = SumOf(AllUntaken, Movers) + Untaken(c) - Untaken(valuing[u])
      /\ SumOf(AllTaken, Movers)' = SumOf(AllTaken, Movers) + Taken(c) - Taken(valuing[u])
      /\ SumOf(AllUntaken, Movers) \in Int /\ SumOf(AllTaken, Movers) \in Int
  BY OwedTurns
<1>9. SumAll(Lefts)' + SumOf(AllUntaken, Movers)' = inStock'
  <2>1. PICK s, t, a, b, d, e, r, q :
          /\ s = SumAll(Lefts) /\ t = SumAll(Lefts)' /\ a = SumOf(AllUntaken, Movers) /\ b = SumOf(AllUntaken, Movers)'
          /\ d = Untaken(valuing[u]) /\ e = Untaken(c) /\ r = inStock /\ q = inStock'
    OBVIOUS
  <2>2. s + a = r BY <2>1 DEF FifoHolds
  <2>3. b = a + e - d /\ a \in Int BY <1>7, <2>1
  <2>4. t + e - d = s + q - r BY <2>1 DEF FifoKept
  <2>5. s \in Int /\ t \in Int /\ d \in Int /\ e \in Int /\ r \in Int /\ q \in Int BY <1>1, <1>2, <1>3, <1>4, <1>5, <2>1
  <2>6. t + b = q BY <2>2, <2>3, <2>4, <2>5, Follows
  <2> QED BY <2>1, <2>6
<1>10. SumAll(LeftValues)' + SumOf(AllTaken, Movers)' = SumAll(Values)'
  <2>1. PICK s, t, a, b, d, e, r, q :
          /\ s = SumAll(LeftValues) /\ t = SumAll(LeftValues)' /\ a = SumOf(AllTaken, Movers) /\ b = SumOf(AllTaken, Movers)'
          /\ d = Taken(valuing[u]) /\ e = Taken(c) /\ r = SumAll(Values) /\ q = SumAll(Values)'
    OBVIOUS
  <2>2. s + a = r BY <2>1 DEF FifoHolds
  <2>3. b = a + e - d /\ a \in Int BY <1>7, <2>1
  <2>4. t + e - d = s + q - r BY <2>1 DEF FifoKept
  <2>5. s \in Int /\ t \in Int /\ d \in Int /\ e \in Int /\ r \in Int /\ q \in Int BY <1>1, <1>2, <1>3, <1>4, <1>5, <2>1
  <2>6. t + b = q BY <2>2, <2>3, <2>4, <2>5, Follows
  <2> QED BY <2>1, <2>6
<1>11. ASSUME NEW v \in Movers PROVE Fresh(valuing[v])'
  <2>1. CASE v = u
    <3>1. valuing'[v] = c /\ Fresh(c)' BY <2>1 DEF ValuingTurned, FifoKept
    <3> QED BY <3>1 DEF Fresh
  <2>2. CASE v # u
    <3>1. valuing'[v] = Idle BY <2>2 DEF ValuingTurned, Alone
    <3>2. valuing'[v].op # "take" BY <3>1 DEF Idle
    <3> QED BY <3>2 DEF Fresh
  <2> QED BY <2>1, <2>2
<1> QED BY <1>9, <1>10, <1>11 DEF FifoHolds

LEMMA AverageNow ==
  ASSUME AverageHolds, NEW u \in Movers, Alone(u) PROVE Averaged(valuing[u])
<1>1. CASE valuing[u] # Idle BY <1>1 DEF AverageHolds
<1>2. CASE valuing[u] = Idle
  <2>1. \A v \in Movers : valuing[v] = Idle BY <1>2 DEF Alone
  <2> QED BY <1>2, <2>1 DEF AverageHolds
<1> QED BY <1>1, <1>2
LEMMA AverageKeeps ==
  ASSUME NEW u \in Movers, NEW c, ValuingTurned(u, c), Alone(u), Averaged(c)' PROVE AverageHolds'
<1>1. valuing'[u] = c /\ \A v \in Movers : v # u => valuing'[v] = Idle BY DEF ValuingTurned, Alone
<1>2. Averaged(valuing[u])' BY <1>1 DEF Averaged
<1>3. ASSUME NEW v \in Movers, valuing'[v] # Idle PROVE Averaged(valuing[v])'
  <2>1. v = u BY <1>1, <1>3
  <2> QED BY <1>2, <2>1
<1>4. ASSUME \A v \in Movers : valuing'[v] = Idle PROVE Averaged(Idle)'
  <2>1. valuing'[u] = Idle BY <1>4
  <2> QED BY <1>2, <2>1 DEF Averaged
<1> QED BY <1>3, <1>4 DEF AverageHolds

\* All of it.
LEMMA Turn ==
  ASSUME ValuationInv, NEW u \in Movers, NEW c, ValuingTurned(u, c), ValuationTypes', ValuesKept,
         exclusive' = exclusive, method' = method, unvalued' = unvalued,
         Pays(u, c), EntryKept(u, c),
         exclusive => valuing[u] # Idle \/ MayCall(valuing, u),
         ~unvalued /\ exclusive /\ method = "fifo" /\ Alone(u) /\ FifoHolds => FifoKept(u, c),
         ~unvalued /\ exclusive /\ method = "average" /\ Alone(u) /\ Averaged(valuing[u]) => Averaged(c)'
  PROVE  ValuationInv'
<1>1. ValuationTypes BY DEF ValuationInv
<1>2. ASSUME ~unvalued PROVE Account' /\ Counted' /\ Entered'
  <2>1. Account /\ Counted /\ Entered BY <1>2 DEF ValuationInv
  <2> QED BY <1>1, <2>1, PaysKeeps, EntryKeeps
<1>3. ASSUME ~unvalued, exclusive PROVE Alone(u) /\ OneValues'
  <2>1. OneValues BY <1>3 DEF ValuationInv
  <2>2. Alone(u) BY <1>1, <1>3, <2>1, OneGoesOn, NoneCalls
  <2>3. \A v \in Movers : v # u => valuing'[v] = Idle BY <2>2 DEF ValuingTurned, Alone
  <2> QED BY <2>2, <2>3 DEF OneValues
<1>4. ASSUME ~unvalued, exclusive, method = "fifo" PROVE FifoHolds'
  <2>1. FifoHolds BY <1>4 DEF ValuationInv
  <2> QED BY <1>1, <1>3, <1>4, <2>1, FifoKeeps
<1>5. ASSUME ~unvalued, exclusive, method = "average" PROVE AverageHolds'
  <2>1. AverageHolds BY <1>5 DEF ValuationInv
  <2>2. Averaged(valuing[u]) BY <1>3, <1>5, <2>1, AverageNow
  <2> QED BY <1>3, <1>5, <2>2, AverageKeeps
<1> QED BY <1>2, <1>3, <1>4, <1>5 DEF ValuationInv

\* A call goes on and the layers stay as they are.
LEMMA StillTurn ==
  ASSUME ValuationInv, NEW u \in Movers, NEW c, Goes(u, c), ValuingTyped(c),
         layers' = layers, method' = method, price' = price, exclusive' = exclusive, unvalued' = unvalued,
         inStock' \in Nat, avgCost' \in Int, booked' \in Int,
         booked' + Unposted(c) - Unposted(valuing[u]) = booked,
         Unlayered(c) - Unlayered(valuing[u]) = inStock' - inStock,
         \A l \in DOMAIN layers : HasLayer(valuing[u], l) => HasLayer(c, l),
         exclusive => valuing[u] # Idle \/ MayCall(valuing, u),
         ~unvalued /\ exclusive /\ method = "fifo" /\ Alone(u) /\ FifoHolds =>
           Untaken(c) - Untaken(valuing[u]) = inStock' - inStock /\ Taken(c) = Taken(valuing[u]) /\ Fresh(c),
         ~unvalued /\ exclusive /\ method = "average" /\ Alone(u) /\ Averaged(valuing[u]) => Averaged(c)'
  PROVE  ValuationInv'
<1>1. ValuationTypes BY DEF ValuationInv
<1>2. ValuingTurned(u, c) BY <1>1, ValuingTurns
<1>3. LayersKept /\ ValuesKept BY <1>1 DEF LayersKept, ValuesKept, ValuationTypes
<1>4. ValuingTyped(c)' BY DEF ValuingTyped
<1>5. ValuationTypes' BY <1>1, <1>2, <1>3, <1>4, TypedTurn
<1>6. /\ SumAll(Values)' = SumAll(Values) /\ SumAll(Quantities)' = SumAll(Quantities)
      /\ SumAll(Lefts)' = SumAll(Lefts) /\ SumAll(LeftValues)' = SumAll(LeftValues)
  BY ColumnsStay
<1>7. SumAll(Values) \in Int /\ SumAll(Quantities) \in Int /\ SumAll(Lefts) \in Int /\ SumAll(LeftValues) \in Int
  BY <1>1, ColumnsTyped
<1>8. /\ Unposted(c) \in Int /\ Unlayered(c) \in Int /\ Untaken(c) \in Int /\ Taken(c) \in Int
      /\ Unposted(valuing[u]) \in Int /\ Unlayered(valuing[u]) \in Int /\ Untaken(valuing[u]) \in Int /\ Taken(valuing[u]) \in Int
  <2>1. ValuingTyped(valuing[u]) BY <1>1 DEF ValuationTypes
  <2> QED BY <1>1, <2>1, OwedTyped
<1>9. inStock \in Int /\ inStock' \in Int /\ booked \in Int BY <1>1 DEF ValuationTypes
<1>10. Unposted(c)' = Unposted(c) BY DEF Unposted
<1>11. Pays(u, c)
  <2>1. booked' + Unposted(c)' - Unposted(valuing[u]) = booked + SumAll(Values)' - SumAll(Values)
    BY <1>6, <1>7, <1>8, <1>9, <1>10
  <2>2. SumAll(Quantities)' + Unlayered(c) - Unlayered(valuing[u]) = SumAll(Quantities) + inStock' - inStock
    BY <1>6, <1>7, <1>8, <1>9
  <2> QED BY <2>1, <2>2 DEF Pays
<1>12. EntryKept(u, c) BY DEF EntryKept
<1>13. ASSUME ~unvalued, exclusive, method = "fifo", Alone(u), FifoHolds PROVE FifoKept(u, c)
  <2>1. Untaken(c) - Untaken(valuing[u]) = inStock' - inStock /\ Taken(c) = Taken(valuing[u]) /\ Fresh(c) BY <1>13
  <2>2. SumAll(Lefts)' + Untaken(c) - Untaken(valuing[u]) = SumAll(Lefts) + inStock' - inStock
    BY <1>6, <1>7, <1>8, <1>9, <2>1
  <2>3. SumAll(LeftValues)' + Taken(c) - Taken(valuing[u]) = SumAll(LeftValues) + SumAll(Values)' - SumAll(Values)
    BY <1>6, <1>7, <1>8, <2>1
  <2>4. Fresh(c)' BY <2>1 DEF Fresh
  <2> QED BY <2>2, <2>3, <2>4 DEF FifoKept
<1> QED BY <1>2, <1>3, <1>5, <1>11, <1>12, <1>13, Turn
-----------------------------------------------------------------------------
(* The steps.                                                              *)
LEMMA MoveDoneKeeps ==
  ASSUME ValuationInv, NEW u \in Movers, NEW by \in {-2, -1, 1, 2}, MoveDone(u, by), UNCHANGED workdayVars
  PROVE  ValuationInv'
<1>1. ValuationTypes BY DEF ValuationInv
<1>2. PICK c : c = IF by > 0 THEN [op |-> "in", qty |-> by]
                   ELSE IF method = "fifo" THEN [op |-> "search", qty |-> -by]
                   ELSE [op |-> "out", qty |-> -by]
  OBVIOUS
<1>3. PICK was : was = valuing[u] OBVIOUS
<1>4. /\ Goes(u, c) /\ was = Idle /\ MayCall(valuing, u) /\ by \in Int /\ by # 0
      /\ layers' = layers /\ method' = method /\ price' = price /\ exclusive' = exclusive /\ unvalued' = unvalued
      /\ avgCost' = avgCost /\ booked' = booked /\ inStock' = inStock + by
  BY <1>2, <1>3 DEF MoveDone, MayCall, workdayVars
<1>5. inStock \in Nat /\ inStock' \in Nat /\ avgCost \in Int /\ booked \in Int
  <2>1. inStock \in Nat /\ avgCost \in Int /\ booked \in Int BY <1>1 DEF ValuationTypes
  <2>2. inStock + by \in 0 .. MaxInStock BY DEF MoveDone
  <2>3. MaxInStock \in Nat BY ValuationAssumption
  <2> QED BY <1>4, <2>1, <2>2, <2>3
<1>6. ValuingTyped(c)
  <2>1. CASE by > 0 BY <1>2, <1>4, <2>1 DEF ValuingTyped
  <2>2. CASE ~(by > 0)
    <3>1. -by \in Nat \ {0} BY <1>4, <2>2
    <3>2. CASE method = "fifo" BY <1>2, <2>2, <3>1, <3>2 DEF ValuingTyped
    <3>3. CASE method # "fifo" BY <1>2, <2>2, <3>1, <3>3 DEF ValuingTyped
    <3> QED BY <3>2, <3>3
  <2> QED BY <2>1, <2>2
<1>7. Unposted(c) = 0 /\ Unposted(was) = 0 BY <1>2, <1>4 DEF Unposted, Layered, Idle
<1>8. Unlayered(c) = by /\ Unlayered(was) = 0
  <2>1. CASE by > 0 BY <1>2, <1>4, <2>1 DEF Unlayered, Idle
  <2>2. CASE ~(by > 0)
    <3>1. c.op \in {"out", "search"} /\ c.qty = -by BY <1>2, <2>2
    <3> QED BY <1>4, <3>1 DEF Unlayered, Idle
  <2> QED BY <2>1, <2>2
<1>9. \A l : ~HasLayer(was, l) BY <1>4 DEF HasLayer, Layered, Idle
<1>10. ASSUME method = "fifo" PROVE Untaken(c) = by /\ Untaken(was) = 0 /\ Taken(c) = 0 /\ Taken(was) = 0 /\ Fresh(c)
  <2>1. CASE by > 0 BY <1>2, <1>4, <2>1 DEF Untaken, Taken, Fresh, Idle
  <2>2. CASE ~(by > 0)
    <3>1. c.op = "search" /\ c.qty = -by BY <1>2, <1>10, <2>2
    <3> QED BY <1>4, <3>1 DEF Untaken, Taken, Fresh, Idle
  <2> QED BY <2>1, <2>2
<1>11. ASSUME method = "average", Averaged(was) PROVE Averaged(c)'
  <2>1. inStock * avgCost = SumAll(Values) BY <1>4, <1>11 DEF Averaged, Idle
  <2>2. SumAll(Values)' = SumAll(Values) BY <1>4, ColumnsStay
  <2>3. CASE by > 0
    <3>1. c.op = "in" /\ c.qty = by BY <1>2, <2>3
    <3>2. inStock' - by = inStock BY <1>4, <1>5
    <3> QED BY <1>4, <1>5, <2>1, <2>2, <3>1, <3>2 DEF Averaged
  <2>4. CASE ~(by > 0)
    <3>1. c.op = "out" /\ c.qty = -by BY <1>2, <1>11, <2>4
    <3>2. inStock' + -by = inStock BY <1>4, <1>5
    <3> QED BY <1>4, <2>1, <2>2, <3>1, <3>2 DEF Averaged
  <2> QED BY <2>3, <2>4
<1>12. booked' + Unposted(c) - Unposted(valuing[u]) = booked BY <1>3, <1>4, <1>5, <1>7
<1>13. by = inStock' - inStock BY <1>4, <1>5
<1>14. Unlayered(c) - Unlayered(valuing[u]) = inStock' - inStock BY <1>3, <1>4, <1>8, <1>13
<1>15. ASSUME method = "fifo"
       PROVE  Untaken(c) - Untaken(valuing[u]) = inStock' - inStock /\ Taken(c) = Taken(valuing[u]) /\ Fresh(c)
  BY <1>3, <1>4, <1>10, <1>13, <1>15
<1> QED BY <1>3, <1>4, <1>5, <1>6, <1>9, <1>11, <1>12, <1>14, <1>15, StillTurn

\* What is known of a call at each point of it.
LEMMA CallKinds ==
  ASSUME NEW c, ValuingTyped(c)
  PROVE  /\ c.op \in {"count", "old", "average"} =>
              c \in Averaging /\ c.layer \in DOMAIN layers /\ c.qty \in Nat \ {0} /\ method = "average"
         /\ c.op = "take" =>
              /\ c \in Taking /\ c.qty \in Nat \ {0} /\ method = "fifo"
              /\ \A i \in DOMAIN c.rows : c.rows[i].id \in DOMAIN layers
         /\ c.op \in {"post", "link"} => c.layer \in DOMAIN layers
         /\ c.op \in {"in", "out", "search"} => c.qty \in Nat \ {0}
         /\ c.op = "search" => method = "fifo"
         /\ c.op = "out" => method # "fifo"
<1>1. CASE c = Idle BY <1>1 DEF Idle
<1>2. CASE c \in Averaging /\ c.layer \in DOMAIN layers /\ c.qty # 0 /\ method = "average" BY <1>2 DEF Averaging
<1>3. CASE c \in Taking /\ c.qty # 0 /\ method = "fifo" /\ \A i \in DOMAIN c.rows : c.rows[i].id \in DOMAIN layers
  BY <1>3 DEF Taking
<1>4. CASE c.op \in {"in", "out", "search"} /\ c.qty \in Nat \ {0} /\ (c.op = "out" <=> c.op # "in" /\ method # "fifo")
  BY <1>4
<1>5. CASE c.op \in {"post", "link"} /\ c.layer \in DOMAIN layers BY <1>5
<1> QED BY <1>1, <1>2, <1>3, <1>4, <1>5 DEF ValuingTyped

\* Where the average is counted nothing is posted or taken.
LEMMA AverageGoesOn ==
  ASSUME ValuationInv, NEW u \in Movers, NEW c, Goes(u, c), c \in Averaging, valuing[u] \in Averaging,
         valuing[u].op \in {"count", "old", "average"}, c.layer = valuing[u].layer, c.qty = valuing[u].qty,
         layers' = layers, method' = method, price' = price, exclusive' = exclusive, unvalued' = unvalued,
         inStock' = inStock, avgCost' = avgCost, booked' = booked,
         ~unvalued /\ exclusive /\ Averaged(valuing[u]) => Averaged(c)'
  PROVE  ValuationInv'
<1>1. ValuationTypes BY DEF ValuationInv
<1>2. PICK was : was = valuing[u] OBVIOUS
<1>3. ValuingTyped(was) BY <1>1, <1>2 DEF ValuationTypes
<1>4. was.layer \in DOMAIN layers /\ was.qty # 0 /\ method = "average" BY <1>2, <1>3, CallKinds
<1>5. ValuingTyped(c) BY <1>2, <1>4 DEF ValuingTyped
<1>6. c.op \in {"count", "old", "average"} /\ was.op \in {"count", "old", "average"} BY <1>2 DEF Averaging
<1>7. /\ Unposted(c) = layers[c.layer].value /\ Unposted(was) = layers[c.layer].value
      /\ Unlayered(c) = 0 /\ Unlayered(was) = 0
  BY <1>2, <1>6 DEF Unposted, Unlayered, Layered
<1>8. Unposted(c) \in Int BY <1>1, <1>5, OwedTyped
<1>9. inStock \in Nat /\ avgCost \in Int /\ booked \in Int BY <1>1 DEF ValuationTypes
<1>10. booked' + Unposted(c) - Unposted(valuing[u]) = booked BY <1>2, <1>7, <1>8, <1>9
<1>11. Unlayered(c) - Unlayered(valuing[u]) = inStock' - inStock BY <1>2, <1>7, <1>9
<1>12. \A l \in DOMAIN layers : HasLayer(valuing[u], l) => HasLayer(c, l) BY <1>6 DEF HasLayer, Layered
<1>13. valuing[u] # Idle BY <1>2, <1>6 DEF Idle
<1> QED BY <1>4, <1>5, <1>9, <1>10, <1>11, <1>12, <1>13, StillTurn

LEMMA CountOnHandKeeps ==
  ASSUME ValuationInv, NEW u \in Movers, CountOnHand(u), UNCHANGED workdayVars PROVE ValuationInv'
<1>1. PICK was : was = valuing[u] OBVIOUS
<1>2. PICK c : c = [was EXCEPT !.op = "old", !.before = Before(inStock, was.qty)] OBVIOUS
<1>3. /\ was.op = "count" /\ Goes(u, c)
      /\ layers' = layers /\ method' = method /\ price' = price /\ exclusive' = exclusive /\ unvalued' = unvalued
      /\ inStock' = inStock /\ avgCost' = avgCost /\ booked' = booked
  BY <1>1, <1>2 DEF CountOnHand, workdayVars
<1>4. ValuationTypes /\ ValuingTyped(was) /\ inStock \in Nat BY <1>1 DEF ValuationInv, ValuationTypes
<1>5. was \in Averaging BY <1>3, <1>4, CallKinds
<1>6. Before(inStock, was.qty) = inStock - was.qty /\ inStock - was.qty \in Int
  <2>1. was.qty \in Nat BY <1>5 DEF Averaging
  <2> QED BY <1>4, <2>1 DEF Before
<1>7. /\ c \in Averaging /\ c.op = "old" /\ c.layer = was.layer /\ c.qty = was.qty /\ c.cost = was.cost
      /\ c.before = inStock - c.qty
  BY <1>2, <1>5, <1>6 DEF Averaging
<1>8. ASSUME Averaged(was) PROVE Averaged(c)'
  <2>1. SumAll(Values)' = SumAll(Values) BY <1>3, ColumnsStay
  <2>2. inStock - was.qty >= 0 /\ (inStock - was.qty) * avgCost + was.qty * was.cost = SumAll(Values)
    BY <1>3, <1>8 DEF Averaged
  <2> QED BY <1>3, <1>7, <2>1, <2>2 DEF Averaged
<1> QED BY <1>1, <1>3, <1>5, <1>7, <1>8, AverageGoesOn

LEMMA OldAverageKeeps ==
  ASSUME ValuationInv, NEW u \in Movers, OldAverage(u), UNCHANGED workdayVars PROVE ValuationInv'
<1>1. PICK was : was = valuing[u] OBVIOUS
<1>2. PICK c : c = [was EXCEPT !.op = "average", !.old = avgCost] OBVIOUS
<1>3. /\ was.op = "old" /\ Goes(u, c)
      /\ layers' = layers /\ method' = method /\ price' = price /\ exclusive' = exclusive /\ unvalued' = unvalued
      /\ inStock' = inStock /\ avgCost' = avgCost /\ booked' = booked
  BY <1>1, <1>2 DEF OldAverage, workdayVars
<1>4. ValuationTypes /\ ValuingTyped(was) /\ avgCost \in Int BY <1>1 DEF ValuationInv, ValuationTypes
<1>5. was \in Averaging BY <1>3, <1>4, CallKinds
<1>6. /\ c \in Averaging /\ c.op = "average" /\ c.layer = was.layer /\ c.qty = was.qty /\ c.cost = was.cost
      /\ c.before = was.before /\ c.old = avgCost
  BY <1>2, <1>4, <1>5 DEF Averaging
<1>7. ASSUME Averaged(was) PROVE Averaged(c)'
  <2>1. SumAll(Values)' = SumAll(Values) BY <1>3, ColumnsStay
  <2>2. /\ inStock - was.qty >= 0 /\ (inStock - was.qty) * avgCost + was.qty * was.cost = SumAll(Values)
        /\ was.before = inStock - was.qty
    BY <1>3, <1>7 DEF Averaged
  <2> QED BY <1>3, <1>6, <2>1, <2>2 DEF Averaged
<1> QED BY <1>1, <1>3, <1>5, <1>6, <1>7, AverageGoesOn

LEMMA QuotientType == ASSUME NEW a \in Int, NEW b \in Nat, b # 0 PROVE a \div b \in Int
OBVIOUS
LEMMA NewAverageKeeps ==
  ASSUME ValuationInv, AveragesWhole, NEW u \in Movers, NewAverage(u), UNCHANGED workdayVars PROVE ValuationInv'
<1>1. PICK was : was = valuing[u] OBVIOUS
<1>2. PICK all, worth, c : /\ all = was.before + was.qty /\ worth = was.before * was.old + was.qty * was.cost
                           /\ c = [was EXCEPT !.op = "post"]
  OBVIOUS
<1>3. /\ was.op = "average" /\ Goes(u, c)
      /\ layers' = layers /\ method' = method /\ price' = price /\ exclusive' = exclusive /\ unvalued' = unvalued
      /\ inStock' = inStock /\ booked' = booked
      /\ avgCost' = IF all > 0 THEN worth \div all ELSE was.cost
  BY <1>1, <1>2 DEF NewAverage, workdayVars
<1>4. ValuationTypes /\ ValuingTyped(was) /\ inStock \in Nat /\ booked \in Int /\ avgCost \in Int
  BY <1>1 DEF ValuationInv, ValuationTypes
<1>5. was \in Averaging /\ was.layer \in DOMAIN layers /\ was.qty \in Nat \ {0} /\ method = "average" BY <1>3, <1>4, CallKinds
<1>6. was.before \in Int /\ was.old \in Int /\ was.cost \in Nat /\ all \in Int /\ worth \in Int BY <1>2, <1>5 DEF Averaging
<1>7. avgCost' \in Int
  <2>1. CASE all > 0
    <3>1. all \in Nat /\ all # 0 BY <1>6, <2>1
    <3>2. worth \div all \in Int BY <1>6, <3>1, QuotientType
    <3> QED BY <1>3, <2>1, <3>2
  <2>2. CASE ~(all > 0) BY <1>3, <1>6, <2>2
  <2> QED BY <2>1, <2>2
<1>8. c.op = "post" /\ c.layer = was.layer BY <1>2, <1>5 DEF Averaging
<1>9. ValuingTyped(c) BY <1>5, <1>8 DEF ValuingTyped
<1>10. /\ Unposted(c) = layers[c.layer].value /\ Unposted(was) = layers[c.layer].value
       /\ Unlayered(c) = 0 /\ Unlayered(was) = 0
  BY <1>3, <1>8 DEF Unposted, Unlayered, Layered
<1>11. Unposted(c) \in Int BY <1>4, <1>9, OwedTyped
<1>12. booked' + Unposted(c) - Unposted(valuing[u]) = booked BY <1>1, <1>3, <1>4, <1>10, <1>11
<1>13. Unlayered(c) - Unlayered(valuing[u]) = inStock' - inStock BY <1>1, <1>3, <1>4, <1>10
<1>14. \A l \in DOMAIN layers : HasLayer(valuing[u], l) => HasLayer(c, l) BY <1>1, <1>8 DEF HasLayer, Layered
<1>15. ASSUME exclusive, Averaged(was) PROVE Averaged(c)'
  <2>1. SumAll(Values)' = SumAll(Values) BY <1>3, ColumnsStay
  <2>2. /\ inStock - was.qty >= 0 /\ (inStock - was.qty) * avgCost + was.qty * was.cost = SumAll(Values)
        /\ was.before = inStock - was.qty /\ was.old = avgCost
    BY <1>3, <1>15 DEF Averaged
  <2>3. all = inStock /\ all > 0 BY <1>2, <1>4, <1>5, <1>6, <2>2
  <2>4. worth = SumAll(Values) BY <1>2, <2>2
  <2>5. all * (worth \div all) = worth BY <1>1, <1>2, <1>3, <1>15, <2>3 DEF AveragesWhole
  <2>6. inStock' * avgCost' = SumAll(Values)' BY <1>3, <2>1, <2>3, <2>4, <2>5
  <2> QED BY <1>8, <2>6 DEF Averaged
<1>16. valuing[u] # Idle BY <1>1, <1>3 DEF Idle
<1> QED BY <1>1, <1>3, <1>4, <1>5, <1>7, <1>9, <1>12, <1>13, <1>14, <1>15, <1>16, StillTurn

LEMMA PostEntryKeeps ==
  ASSUME ValuationInv, NEW u \in Movers, PostEntry(u), UNCHANGED workdayVars PROVE ValuationInv'
<1>1. PICK was : was = valuing[u] OBVIOUS
<1>2. PICK c : c = [op |-> "link", layer |-> was.layer] OBVIOUS
<1>3. /\ was.op = "post" /\ Goes(u, c)
      /\ layers' = layers /\ method' = method /\ price' = price /\ exclusive' = exclusive /\ unvalued' = unvalued
      /\ inStock' = inStock /\ avgCost' = avgCost /\ booked' = booked + layers[was.layer].value
  BY <1>1, <1>2 DEF PostEntry, workdayVars
<1>4. ValuationTypes /\ ValuingTyped(was) /\ inStock \in Nat /\ booked \in Int /\ avgCost \in Int
  BY <1>1 DEF ValuationInv, ValuationTypes
<1>5. was.layer \in DOMAIN layers BY <1>3, <1>4, CallKinds
<1>6. layers[was.layer].value \in Int BY <1>4, <1>5, ColumnsNow DEF Columns
<1>7. c.op = "link" /\ c.layer = was.layer BY <1>2
<1>8. ValuingTyped(c) BY <1>5, <1>7 DEF ValuingTyped
<1>9. /\ Unposted(c) = 0 /\ Unposted(was) = layers[was.layer].value
      /\ Unlayered(c) = 0 /\ Unlayered(was) = 0 /\ Untaken(c) = 0 /\ Untaken(was) = 0
      /\ Taken(c) = 0 /\ Taken(was) = 0 /\ Fresh(c)
  BY <1>3, <1>7 DEF Unposted, Unlayered, Layered, Untaken, Taken, Fresh
<1>10. booked' \in Int BY <1>3, <1>4, <1>6
<1>11. booked' + Unposted(c) - Unposted(valuing[u]) = booked BY <1>1, <1>3, <1>4, <1>6, <1>9
<1>12. Unlayered(c) - Unlayered(valuing[u]) = inStock' - inStock BY <1>1, <1>3, <1>4, <1>9
<1>13. \A l \in DOMAIN layers : HasLayer(valuing[u], l) => HasLayer(c, l) BY <1>1, <1>7 DEF HasLayer, Layered
<1>14. Untaken(c) - Untaken(valuing[u]) = inStock' - inStock /\ Taken(c) = Taken(valuing[u]) /\ Fresh(c)
  BY <1>1, <1>3, <1>4, <1>9
<1>15. ASSUME Averaged(was) PROVE Averaged(c)'
  <2>1. SumAll(Values)' = SumAll(Values) BY <1>3, ColumnsStay
  <2>2. inStock * avgCost = SumAll(Values) BY <1>3, <1>15 DEF Averaged
  <2>3. inStock' * avgCost' = SumAll(Values)' BY <1>3, <2>1, <2>2
  <2> QED BY <1>7, <2>3 DEF Averaged
<1>16. valuing[u] # Idle BY <1>1, <1>3 DEF Idle
<1> QED BY <1>1, <1>3, <1>4, <1>8, <1>10, <1>11, <1>12, <1>13, <1>14, <1>15, <1>16, StillTurn

LEMMA LinkEntryKeeps ==
  ASSUME ValuationInv, NEW u \in Movers, LinkEntry(u), UNCHANGED workdayVars PROVE ValuationInv'
<1>1. PICK was, k : was = valuing[u] /\ k = was.layer OBVIOUS
<1>2. /\ was.op = "link" /\ Goes(u, Idle) /\ layers' = [layers EXCEPT ![k].booked = 1]
      /\ method' = method /\ price' = price /\ exclusive' = exclusive /\ unvalued' = unvalued
      /\ inStock' = inStock /\ avgCost' = avgCost /\ booked' = booked
  BY <1>1 DEF LinkEntry, workdayVars
<1>3. ValuationTypes /\ ValuingTyped(was) /\ inStock \in Nat /\ booked \in Int /\ avgCost \in Int
  BY <1>1 DEF ValuationInv, ValuationTypes
<1>4. k \in DOMAIN layers BY <1>1, <1>2, <1>3, CallKinds
<1>5. layers \in Seq(LayerRows) /\ layers[k] \in LayerRows BY <1>3, <1>4 DEF ValuationTypes
<1>6. PICK r : r = [layers[k] EXCEPT !.booked = 1] OBVIOUS
<1>7. /\ r \in LayerRows /\ r.value = layers[k].value /\ r.qty = layers[k].qty
      /\ r.left = layers[k].left /\ r.leftValue = layers[k].leftValue /\ r.booked = 1
  BY <1>5, <1>6 DEF LayerRows
<1>8. layers' = [layers EXCEPT ![k] = r] BY <1>2, <1>6
<1>9. /\ layers' \in Seq(LayerRows) /\ DOMAIN layers' = DOMAIN layers /\ layers'[k] = r
      /\ \A l \in DOMAIN layers : l # k => layers'[l] = layers[l]
  BY <1>4, <1>5, <1>7, <1>8
<1>10. LayersKept /\ ValuesKept BY <1>2, <1>7, <1>9 DEF LayersKept, ValuesKept
<1>11. Rewrites(k, layers[k].left, layers[k].leftValue) BY <1>4, <1>7, <1>9 DEF Rewrites
<1>12. ValuingTurned(u, Idle) BY <1>2, <1>3, ValuingTurns
<1>13. ValuationTypes'
  <2>1. ValuingTyped(Idle)' BY DEF ValuingTyped
  <2> QED BY <1>2, <1>3, <1>10, <1>12, <2>1, TypedTurn
<1>14. layers[k].left \in Nat /\ layers[k].leftValue \in Int BY <1>5 DEF LayerRows
<1>15. /\ SumAll(Values)' = SumAll(Values) /\ SumAll(Quantities)' = SumAll(Quantities)
       /\ SumAll(Lefts)' = SumAll(Lefts) /\ SumAll(LeftValues)' = SumAll(LeftValues)
       /\ SumAll(Values) \in Int /\ SumAll(Quantities) \in Int /\ SumAll(Lefts) \in Int /\ SumAll(LeftValues) \in Int
  <2>1. SumAll(Values) \in Int /\ SumAll(Quantities) \in Int /\ SumAll(Lefts) \in Int /\ SumAll(LeftValues) \in Int
    BY <1>3, ColumnsTyped
  <2>2. /\ SumAll(Values)' = SumAll(Values) /\ SumAll(Quantities)' = SumAll(Quantities)
        /\ SumAll(Lefts)' = SumAll(Lefts) + layers[k].left - layers[k].left
        /\ SumAll(LeftValues)' = SumAll(LeftValues) + layers[k].leftValue - layers[k].leftValue
    BY <1>3, <1>4, <1>11, <1>13, <1>14, ColumnsChange
  <2> QED BY <1>14, <2>1, <2>2
<1>16. /\ Unposted(Idle)' = 0 /\ Unlayered(Idle) = 0 /\ Untaken(Idle) = 0 /\ Taken(Idle) = 0 /\ Fresh(Idle)'
       /\ Unposted(was) = 0 /\ Unlayered(was) = 0 /\ Untaken(was) = 0 /\ Taken(was) = 0
  BY <1>2 DEF Unposted, Unlayered, Layered, Untaken, Taken, Fresh, Idle
<1>17. Pays(u, Idle) BY <1>1, <1>2, <1>3, <1>15, <1>16 DEF Pays
<1>18. FifoKept(u, Idle) BY <1>1, <1>2, <1>3, <1>15, <1>16 DEF FifoKept
<1>19. EntryKept(u, Idle)
  <2> SUFFICES ASSUME NEW l \in DOMAIN layers'
               PROVE  \/ layers'[l].booked = 1
                      \/ l \in DOMAIN layers /\ layers'[l].booked = layers[l].booked /\ ~HasLayer(valuing[u], l)
    BY DEF EntryKept
  <2>0. layers'[k] = r BY <1>9
  <2>1. CASE l = k
    <3>1. layers'[l].booked = 1 BY <1>7, <2>0, <2>1
    <3> QED BY <3>1
  <2>2. CASE l # k BY <1>1, <1>9, <2>2 DEF HasLayer
  <2> QED BY <2>1, <2>2
<1>20. ASSUME Averaged(was) PROVE Averaged(Idle)'
  <2>1. inStock * avgCost = SumAll(Values) BY <1>2, <1>20 DEF Averaged
  <2>2. inStock' * avgCost' = SumAll(Values)' BY <1>2, <1>15, <2>1
  <2> QED BY <2>2 DEF Averaged, Idle
<1>21. valuing[u] # Idle BY <1>1, <1>2 DEF Idle
<1> QED BY <1>1, <1>2, <1>10, <1>12, <1>13, <1>17, <1>18, <1>19, <1>20, <1>21, Turn

LEMMA GiveUpKeeps ==
  ASSUME ValuationInv, NEW u \in Movers, GiveUp(u) PROVE ValuationInv'
<1>1. ValuationTypes BY DEF ValuationInv
<1>2. /\ Goes(u, Idle) /\ unvalued' = TRUE /\ layers' = layers /\ method' = method /\ price' = price
      /\ inStock' = inStock /\ avgCost' = avgCost /\ booked' = booked
  BY DEF GiveUp
<1>3. LayersKept BY <1>1, <1>2 DEF LayersKept, ValuationTypes
<1>4. ValuingTurned(u, Idle) BY <1>1, <1>2, ValuingTurns
<1>5. ValuingTyped(Idle)' BY DEF ValuingTyped
<1>6. inStock \in Nat /\ avgCost \in Int /\ booked \in Int BY <1>1 DEF ValuationTypes
<1>7. ValuationTypes' BY <1>1, <1>2, <1>3, <1>4, <1>5, <1>6, TypedTurn
<1> QED BY <1>2, <1>7 DEF ValuationInv

LEMMA SetPriceKeeps ==
  ASSUME ValuationInv, NEW p \in Prices, SetPrice(p), UNCHANGED workdayVars PROVE ValuationInv'
<1>1. /\ price' = p /\ UNCHANGED <<method, inStock, avgCost, layers, booked, valuing, unvalued, exclusive>>
  BY DEF SetPrice, workdayVars
<1>2. p \in Nat BY ValuationAssumption
<1>3. ValuationTypes' BY <1>1, <1>2 DEF ValuationInv, ValuationTypes, ValuingTyped
<1>4. Account' = Account /\ Counted' = Counted /\ Entered' = Entered /\ OneValues' = OneValues
  BY <1>1 DEF Account, Counted, Entered, OneValues, AllUnposted, AllUnlayered, Unposted, Unlayered, Values, Quantities
<1>5. FifoHolds' = FifoHolds
  BY <1>1 DEF FifoHolds, Fresh, AllUntaken, AllTaken, Untaken, Taken, Values, Lefts, LeftValues
<1>6. AverageHolds' = AverageHolds
  BY <1>1 DEF AverageHolds, Averaged, Values
<1> QED BY <1>1, <1>3, <1>4, <1>5, <1>6 DEF ValuationInv

\* A call adds its layer.
LEMMA AddTurn ==
  ASSUME ValuationInv, NEW u \in Movers, NEW c, Goes(u, c),
         NEW q \in Int, NEW v \in Int, NEW n \in Nat, NEW w \in Int, Add(q, v, n, w),
         method' = method, price' = price, exclusive' = exclusive, unvalued' = unvalued,
         inStock' = inStock, avgCost' = avgCost, booked' = booked,
         ValuingTyped(c)', c.op \in {"count", "post"}, c.layer = Len(layers) + 1,
         valuing[u].op \in {"in", "out", "take"}, Unlayered(valuing[u]) = q,
         method = "fifo" /\ Alone(u) /\ FifoHolds => Untaken(valuing[u]) = n /\ v = w - Taken(valuing[u]),
         method = "average" /\ Averaged(valuing[u]) => Averaged(c)'
  PROVE  ValuationInv'
<1>1. PICK was, k : was = valuing[u] /\ k = Len(layers) + 1 OBVIOUS
<1>2. ValuationTypes /\ ValuingTyped(was) /\ inStock \in Nat /\ booked \in Int /\ avgCost \in Int
  BY <1>1 DEF ValuationInv, ValuationTypes
<1>3. /\ layers' \in Seq(LayerRows) /\ DOMAIN layers' = DOMAIN layers \cup {k} /\ k \notin DOMAIN layers
      /\ layers'[k] = Layer(q, v, n, w) /\ \A l \in DOMAIN layers : layers'[l] = layers[l]
  <2>1. /\ layers' \in Seq(LayerRows) /\ Len(layers) \in Nat /\ DOMAIN layers = 1 .. Len(layers)
        /\ DOMAIN layers' = 1 .. (Len(layers) + 1)
        /\ layers'[Len(layers) + 1] = Layer(q, v, n, w) /\ \A l \in DOMAIN layers : layers'[l] = layers[l]
    BY <1>2, Adds
  <2> QED BY <1>1, <2>1
<1>4. LayersKept /\ ValuesKept BY <1>3 DEF LayersKept, ValuesKept
<1>5. ValuingTurned(u, c) BY <1>2, ValuingTurns
<1>6. ValuationTypes' BY <1>2, <1>4, <1>5, TypedTurn
<1>7. /\ SumAll(Values)' = SumAll(Values) + v /\ SumAll(Quantities)' = SumAll(Quantities) + q
      /\ SumAll(Lefts)' = SumAll(Lefts) + n /\ SumAll(LeftValues)' = SumAll(LeftValues) + w
  BY <1>2, <1>6, ColumnsGrow
<1>8. SumAll(Values) \in Int /\ SumAll(Quantities) \in Int /\ SumAll(Lefts) \in Int /\ SumAll(LeftValues) \in Int
  BY <1>2, ColumnsTyped
<1>9. Unposted(c)' = v
  <2>1. layers'[k].value = v BY <1>3 DEF Layer
  <2>2. c.op \in Layered /\ c.layer = k BY <1>1 DEF Layered
  <2> QED BY <2>1, <2>2 DEF Unposted
<1>10. Unlayered(c) = 0 /\ Untaken(c) = 0 /\ Taken(c) = 0 /\ Fresh(c)'
  BY DEF Unlayered, Untaken, Taken, Fresh
<1>11. Unposted(was) = 0 /\ (\A l : ~HasLayer(was, l)) /\ was # Idle
  BY <1>1 DEF Unposted, Layered, HasLayer, Idle
<1>12. Untaken(was) \in Int /\ Taken(was) \in Int BY <1>2, OwedTyped
<1>13. Pays(u, c)
  <2>1. booked' + Unposted(c)' - Unposted(valuing[u]) = booked + SumAll(Values)' - SumAll(Values)
    <3>1. PICK x, y : x = SumAll(Values) /\ y = SumAll(Values)' OBVIOUS
    <3>2. x \in Int /\ y = x + v BY <1>7, <1>8, <3>1
    <3>3. booked + v - 0 = booked + y - x BY <1>2, <3>2
    <3> QED BY <1>1, <1>9, <1>11, <3>1, <3>3
  <2>2. SumAll(Quantities)' + Unlayered(c) - Unlayered(valuing[u]) = SumAll(Quantities) + inStock' - inStock
    <3>1. PICK x, y : x = SumAll(Quantities) /\ y = SumAll(Quantities)' OBVIOUS
    <3>2. x \in Int /\ y = x + q BY <1>7, <1>8, <3>1
    <3>3. y + 0 - q = x + inStock - inStock BY <1>2, <3>2
    <3> QED BY <1>10, <3>1, <3>3
  <2> QED BY <2>1, <2>2 DEF Pays
<1>14. ASSUME method = "fifo", Alone(u), FifoHolds PROVE FifoKept(u, c)
  <2>1. Untaken(was) = n /\ v = w - Taken(was) BY <1>1, <1>14
  <2>2. SumAll(Lefts)' + Untaken(c) - Untaken(was) = SumAll(Lefts) + inStock' - inStock
    <3>1. PICK x, y : x = SumAll(Lefts) /\ y = SumAll(Lefts)' OBVIOUS
    <3>2. x \in Int /\ y = x + n BY <1>7, <1>8, <3>1
    <3>3. y + 0 - n = x + inStock - inStock BY <1>2, <3>2
    <3> QED BY <1>10, <2>1, <3>1, <3>3
  <2>3. SumAll(LeftValues)' + Taken(c) - Taken(was) = SumAll(LeftValues) + SumAll(Values)' - SumAll(Values)
    <3>1. PICK x, y, a, b, s, t : /\ x = SumAll(LeftValues) /\ y = SumAll(LeftValues)' /\ a = Taken(was) /\ b = Taken(c)
                                  /\ s = SumAll(Values) /\ t = SumAll(Values)'
      OBVIOUS
    <3>2. x \in Int /\ s \in Int /\ a \in Int /\ b = 0 /\ y = x + w /\ t = s + v /\ v = w - a
      BY <1>7, <1>8, <1>10, <1>12, <2>1, <3>1
    <3>3. y + b - a = x + t - s BY <3>2
    <3> QED BY <3>1, <3>3
  <2> QED BY <1>1, <1>10, <2>2, <2>3 DEF FifoKept
<1>15. EntryKept(u, c)
  <2> SUFFICES ASSUME NEW l \in DOMAIN layers'
               PROVE  \/ HasLayer(c, l)
                      \/ l \in DOMAIN layers /\ layers'[l].booked = layers[l].booked /\ ~HasLayer(valuing[u], l)
    BY DEF EntryKept
  <2>1. CASE l = k BY <1>1, <2>1 DEF HasLayer, Layered
  <2>2. CASE l # k BY <1>1, <1>3, <1>11, <2>2
  <2> QED BY <2>1, <2>2
<1> QED BY <1>1, <1>4, <1>5, <1>6, <1>11, <1>13, <1>14, <1>15, Turn

LEMMA LayerInKeeps ==
  ASSUME ValuationInv, NEW u \in Movers, LayerIn(u), UNCHANGED workdayVars PROVE ValuationInv'
<1>1. PICK was, worth, kept, c :
        /\ was = valuing[u] /\ worth = was.qty * price /\ kept = IF method = "fifo" THEN 1 ELSE 0
        /\ c = [op |-> IF method = "average" THEN "count" ELSE "post", layer |-> Len(layers) + 1,
                qty |-> was.qty, cost |-> price, before |-> 0, old |-> 0]
  OBVIOUS
<1>2. /\ was.op = "in" /\ Goes(u, c) /\ Add(was.qty, worth, kept * was.qty, kept * worth)
      /\ method' = method /\ price' = price /\ exclusive' = exclusive /\ unvalued' = unvalued
      /\ inStock' = inStock /\ avgCost' = avgCost /\ booked' = booked
  BY <1>1 DEF LayerIn, workdayVars
<1>3. ValuationTypes /\ ValuingTyped(was) /\ inStock \in Nat /\ avgCost \in Int /\ price \in Nat
  BY <1>1 DEF ValuationInv, ValuationTypes
<1>4. was.qty \in Nat \ {0} BY <1>2, <1>3, CallKinds
<1>5. worth \in Nat /\ kept \in Nat /\ kept * was.qty \in Nat /\ kept * worth \in Int
  <2>1. worth \in Nat
    <3>1. \A x, y \in Nat : x * y \in Nat OBVIOUS
    <3>2. was.qty * price \in Nat BY <1>3, <1>4, <3>1
    <3> QED BY <1>1, <3>2
  <2>2. CASE kept = 0 BY <1>4, <2>1, <2>2
  <2>3. CASE kept = 1 BY <1>4, <2>1, <2>3
  <2> QED BY <1>1, <2>1, <2>2, <2>3
<1>6. /\ c.op = (IF method = "average" THEN "count" ELSE "post") /\ c.layer = Len(layers) + 1
      /\ c.qty = was.qty /\ c.cost = price
  BY <1>1
<1>7. Len(layers) \in Nat /\ DOMAIN layers' = 1 .. (Len(layers) + 1) BY <1>2, <1>3, <1>4, <1>5, Adds
<1>8. ValuingTyped(c)'
  <2>1. c.layer \in DOMAIN layers' BY <1>6, <1>7
  <2>2. CASE method = "average"
    <3>1. c \in Averaging BY <1>1, <1>3, <1>4, <1>7, <2>2 DEF Averaging
    <3> QED BY <1>2, <1>4, <1>6, <2>1, <2>2, <3>1 DEF ValuingTyped
  <2>3. CASE method # "average" BY <1>6, <2>1, <2>3 DEF ValuingTyped
  <2> QED BY <2>2, <2>3
<1>9. Unlayered(was) = was.qty /\ Untaken(was) = was.qty /\ Taken(was) = 0 BY <1>2 DEF Unlayered, Untaken, Taken
<1>10. ASSUME method = "fifo" PROVE Untaken(was) = kept * was.qty /\ worth = kept * worth - Taken(was)
  BY <1>1, <1>4, <1>5, <1>9, <1>10
<1>11. ASSUME method = "average", Averaged(was) PROVE Averaged(c)'
  <2>1. inStock - was.qty >= 0 /\ (inStock - was.qty) * avgCost = SumAll(Values) BY <1>2, <1>11 DEF Averaged
  <2>2. SumAll(Values)' = SumAll(Values) + worth
    <3>1. ValuationTypes'
      <4>1. ValuingTurned(u, c) BY <1>2, <1>3, ValuingTurns
      <4>2. layers' \in Seq(LayerRows) /\ DOMAIN layers \subseteq DOMAIN layers'
        <5>1. was.qty \in Int /\ worth \in Int BY <1>4, <1>5
        <5>2. layers' \in Seq(LayerRows) /\ DOMAIN layers = 1 .. Len(layers) BY <1>2, <1>3, <1>5, <5>1, Adds
        <5> QED BY <1>7, <5>2
      <4>4. LayersKept BY <1>2, <4>2 DEF LayersKept
      <4>3. booked \in Int BY <1>3 DEF ValuationTypes
      <4> QED BY <1>2, <1>3, <1>8, <4>1, <4>3, <4>4, TypedTurn
    <3> QED BY <1>2, <1>3, <1>4, <1>5, <3>1, ColumnsGrow
  <2>3. (inStock' - c.qty) * avgCost' + c.qty * c.cost = SumAll(Values)' BY <1>1, <1>2, <1>6, <2>1, <2>2
  <2>4. inStock' - c.qty >= 0 BY <1>2, <1>6, <2>1
  <2>5. c.op = "count" BY <1>6, <1>11
  <2> QED BY <2>3, <2>4, <2>5 DEF Averaged
<1>12. c.op \in {"count", "post"} BY <1>6
<1>13. was.op \in {"in", "out", "take"} BY <1>2
<1> QED BY <1>1, <1>2, <1>4, <1>5, <1>6, <1>8, <1>9, <1>10, <1>11, <1>12, <1>13, AddTurn

\* FIFO has taken all that was wanted when it ends: there was enough of it in stock.
LEMMA TakenInFull ==
  ASSUME ValuationTypes, FifoHolds, NEW u \in Movers, Alone(u),
         valuing[u].op = "take", valuing[u].rows = <<>> \/ valuing[u].wanted <= 0
  PROVE  valuing[u].wanted = 0
<1>1. PICK was : was = valuing[u] OBVIOUS
<1>2. ValuingTyped(was) /\ inStock \in Nat BY <1>1 DEF ValuationTypes
<1>3. was \in Taking BY <1>1, <1>2, CallKinds
<1>4. was.wanted \in Int BY <1>3 DEF Taking
<1>5. Fresh(was) /\ SumAll(Lefts) + SumOf(AllUntaken, Movers) = inStock BY <1>1 DEF FifoHolds
<1>6. was.wanted >= 0 BY <1>1, <1>5 DEF Fresh
<1>7. ASSUME was.wanted > 0 PROVE FALSE
  <2>1. was.rows = <<>> BY <1>1, <1>4, <1>7
  <2>2. \A l \in DOMAIN layers : ~(layers[l].left > 0)
    <3>1. \A l \in DOMAIN layers : layers[l].left > 0 => \E i \in DOMAIN was.rows : was.rows[i].id = l
      BY <1>1, <1>5, <1>7 DEF Fresh
    <3> QED BY <2>1, <3>1
  <2>3. SumAll(Lefts) = 0
    <3>1. \A l \in DOMAIN layers : Lefts[l] = layers[l].left /\ Lefts[l] \in Nat BY ColumnsNow DEF Columns
    <3>2. \A l \in DOMAIN layers : Lefts[l] = 0 BY <2>2, <3>1
    <3> QED BY <3>2, ColumnsNow, SumZero DEF Columns
  <2>4. SumOf(AllUntaken, Movers) = 0 - was.wanted
    <3>1. IsFiniteSet(Movers) BY ValuationAssumption
    <3>2. \A v \in Movers : v # u => AllUntaken[v] = 0 BY DEF AllUntaken, Untaken, Alone, Idle
    <3>3. AllUntaken[u] = 0 - was.wanted BY <1>1 DEF AllUntaken, Untaken
    <3>4. \A v \in Movers : AllUntaken[v] \in Int BY <1>4, <3>2, <3>3
    <3>5. PICK R : R = Movers \ {u} OBVIOUS
    <3>6. IsFiniteSet(R) BY <3>1, <3>5, FS_RemoveElement
    <3>7. SumOf(AllUntaken, R) = 0 BY <3>2, <3>5, <3>6, SumZero
    <3>8. SumOf(AllUntaken, Movers) = AllUntaken[u] + SumOf(AllUntaken, R) BY <3>1, <3>4, <3>5, SumRemove
    <3> QED BY <1>4, <3>3, <3>7, <3>8
  <2> QED BY <1>2, <1>4, <1>5, <1>7, <2>3, <2>4
<1> QED BY <1>1, <1>4, <1>6, <1>7

LEMMA Distributes == ASSUME NEW a \in Int, NEW b \in Int, NEW c \in Int PROVE (a + b) * c = a * c + b * c
OBVIOUS
LEMMA LayerOutKeeps ==
  ASSUME ValuationInv, NEW u \in Movers, LayerOut(u), UNCHANGED workdayVars PROVE ValuationInv'
<1>1. PICK was, worth, c :
        /\ was = valuing[u] /\ worth = OutWorth(was)
        /\ c = [op |-> "post", layer |-> Len(layers) + 1, qty |-> was.qty]
  OBVIOUS
<1>2. /\ \/ was.op = "out"
         \/ was.op = "take" /\ (was.rows = <<>> \/ was.wanted <= 0)
      /\ Goes(u, c) /\ Add(-was.qty, -worth, 0, 0)
      /\ method' = method /\ price' = price /\ exclusive' = exclusive /\ unvalued' = unvalued
      /\ inStock' = inStock /\ avgCost' = avgCost /\ booked' = booked
  <2>1. \/ was.op = "out"
        \/ was.op = "take" /\ (was.rows = <<>> \/ was.wanted <= 0)
    BY <1>1 DEF LayerOut
  <2>2. Goes(u, c) BY <1>1 DEF LayerOut
  <2>3. Add(-was.qty, -worth, 0, 0) BY <1>1 DEF LayerOut
  <2>4. /\ method' = method /\ price' = price /\ exclusive' = exclusive /\ unvalued' = unvalued
        /\ inStock' = inStock /\ avgCost' = avgCost /\ booked' = booked
    BY DEF LayerOut, workdayVars
  <2> QED BY <2>1, <2>2, <2>3, <2>4
<1>3. /\ ValuationTypes /\ ValuingTyped(was) /\ inStock \in Nat /\ avgCost \in Int /\ price \in Nat /\ booked \in Int
      /\ method \in {"standard", "average", "fifo"}
  BY <1>1 DEF ValuationInv, ValuationTypes
<1>4. was.qty \in Nat \ {0} BY <1>2, <1>3, CallKinds
<1>5. /\ was.op = "take" => method = "fifo" /\ was.worth \in Int /\ worth = was.worth
      /\ was.op = "out" => method # "fifo"
  <2>1. was.op = "take" => was \in Taking /\ method = "fifo" BY <1>3, CallKinds
  <2>2. was.op = "take" => was.worth \in Int BY <2>1 DEF Taking
  <2>3. was.op = "out" => method # "fifo" BY <1>3, CallKinds
  <2>4. method = "fifo" => worth = was.worth BY <1>1 DEF OutWorth
  <2> QED BY <2>1, <2>2, <2>3, <2>4
<1>6. worth \in Int
  <2>1. CASE was.op = "take" BY <1>5, <2>1
  <2>2. CASE was.op = "out"
    <3>1. method # "fifo" BY <1>5, <2>2
    <3>2. CASE method = "average"
      <4>1. worth = was.qty * avgCost BY <1>1, <3>2 DEF OutWorth
      <4> QED BY <1>3, <1>4, <4>1
    <3>3. CASE method = "standard"
      <4>1. worth = was.qty * price BY <1>1, <3>3 DEF OutWorth
      <4> QED BY <1>3, <1>4, <4>1
    <3> QED BY <1>3, <3>1, <3>2, <3>3
  <2> QED BY <1>2, <2>1, <2>2
<1>7. PICK q, v : q = -was.qty /\ v = -worth OBVIOUS
<1>8. q \in Int /\ v \in Int /\ 0 \in Nat /\ 0 \in Int /\ Add(q, v, 0, 0) BY <1>2, <1>4, <1>6, <1>7
<1>9. c.op = "post" /\ c.layer = Len(layers) + 1 BY <1>1
<1>10. /\ layers' \in Seq(LayerRows) /\ Len(layers) \in Nat
       /\ DOMAIN layers = 1 .. Len(layers) /\ DOMAIN layers' = 1 .. (Len(layers) + 1)
  BY <1>3, <1>8, Adds
<1>11. ValuingTyped(c)' BY <1>9, <1>10 DEF ValuingTyped
<1>12. Unlayered(was) = q BY <1>2, <1>7 DEF Unlayered
<1>13. ASSUME method = "fifo", Alone(u), FifoHolds PROVE Untaken(was) = 0 /\ v = 0 - Taken(was)
  <2>1. was.op = "take" /\ (was.rows = <<>> \/ was.wanted <= 0) BY <1>2, <1>5, <1>13
  <2>2. was.wanted = 0 BY <1>1, <1>3, <1>13, <2>1, TakenInFull
  <2>3. Untaken(was) = 0
    <3>1. Untaken(was) = 0 - was.wanted BY <2>1 DEF Untaken
    <3> QED BY <2>2, <3>1
  <2>4. Taken(was) = worth BY <1>5, <2>1 DEF Taken
  <2> QED BY <1>6, <1>7, <2>3, <2>4
<1>14. ASSUME method = "average", Averaged(was) PROVE Averaged(c)'
  <2>1. was.op = "out" BY <1>2, <1>5, <1>14
  <2>2. (inStock + was.qty) * avgCost = SumAll(Values) BY <1>14, <2>1 DEF Averaged
  <2>3. (inStock + was.qty) * avgCost = inStock * avgCost + was.qty * avgCost BY <1>3, <1>4, Distributes
  <2>4. worth = was.qty * avgCost BY <1>1, <1>14 DEF OutWorth
  <2>5. SumAll(Values)' = SumAll(Values) + v
    <3>1. ValuingTurned(u, c) BY <1>2, <1>3, ValuingTurns
    <3>2. LayersKept BY <1>2, <1>10 DEF LayersKept
    <3>3. ValuationTypes' BY <1>2, <1>3, <1>11, <3>1, <3>2, TypedTurn
    <3> QED BY <1>3, <1>8, <3>3, ColumnsGrow
  <2>6. inStock * avgCost \in Int BY <1>3
  <2>7. SumAll(Values)' = inStock * avgCost BY <1>6, <1>7, <2>2, <2>3, <2>4, <2>5, <2>6
  <2>8. inStock' * avgCost' = SumAll(Values)' BY <1>2, <2>7
  <2> QED BY <1>9, <2>8 DEF Averaged
<1>15. was.op \in {"in", "out", "take"} /\ c.op \in {"count", "post"} BY <1>2, <1>9
<1> QED BY <1>1, <1>2, <1>8, <1>9, <1>11, <1>12, <1>13, <1>14, <1>15, AddTurn

\* An order of a set goes through all of it, and through each member once.
LEMMA OrderOf ==
  ASSUME NEW S, IsFiniteSet(S), NEW order \in SetToSeqs(S)
  PROVE  \E n \in Nat : /\ order \in [1 .. n -> S]
                        /\ \A i, j \in 1 .. n : order[i] = order[j] => i = j
                        /\ \A x \in S : \E i \in 1 .. n : order[i] = x
<1>1. PICK n \in Nat : n = Cardinality(S) BY FS_CardinalityType
<1>2. IsFiniteSet(1 .. n) /\ Cardinality(1 .. n) = n BY <1>1, FS_Interval
<1>3. order \in [1 .. n -> S] /\ \A i, j \in 1 .. n : i # j => order[i] # order[j] BY <1>1 DEF SetToSeqs
<1>4. order \in Injection(1 .. n, S) BY <1>3 DEF Injection, IsInjective
<1>5. order \in Surjection(1 .. n, S) BY <1>1, <1>2, <1>4, FS_Injection
<1>6. \A x \in S : \E i \in 1 .. n : order[i] = x BY <1>5 DEF Surjection
<1> QED BY <1>1, <1>3, <1>6

LEMMA FifoReadKeeps ==
  ASSUME ValuationInv, NEW u \in Movers, FifoRead(u), UNCHANGED workdayVars PROVE ValuationInv'
<1>1. PICK was, open : was = valuing[u] /\ open = {l \in DOMAIN layers : layers[l].left > 0} OBVIOUS
<1>2. PICK order \in SetToSeqs(open) :
        Goes(u, [op |-> "take", qty |-> was.qty, wanted |-> was.qty, worth |-> 0,
                 rows |-> [i \in DOMAIN order |-> [id |-> order[i], left |-> layers[order[i]].left,
                                                   leftValue |-> layers[order[i]].leftValue]]])
  BY <1>1 DEF FifoRead
<1>3. /\ was.op = "search"
      /\ layers' = layers /\ method' = method /\ price' = price /\ exclusive' = exclusive /\ unvalued' = unvalued
      /\ inStock' = inStock /\ avgCost' = avgCost /\ booked' = booked
  BY <1>1 DEF FifoRead, workdayVars
<1>4. ValuationTypes /\ ValuingTyped(was) /\ inStock \in Nat /\ avgCost \in Int /\ booked \in Int
  BY <1>1 DEF ValuationInv, ValuationTypes
<1>5. was.qty \in Nat \ {0} /\ method = "fifo" BY <1>3, <1>4, CallKinds
<1>6. IsFiniteSet(open) /\ open \subseteq DOMAIN layers
  <2>1. IsFiniteSet(DOMAIN layers) BY <1>4, ColumnsNow DEF Columns
  <2> QED BY <1>1, <2>1, FS_Subset
<1>7. PICK n \in Nat : /\ order \in [1 .. n -> open]
                       /\ \A i, j \in 1 .. n : order[i] = order[j] => i = j
                       /\ \A x \in open : \E i \in 1 .. n : order[i] = x
  <2>1. order \in SetToSeqs(open) OBVIOUS
  <2>2. IsFiniteSet(open) BY <1>6
  <2>3. \E n \in Nat : /\ order \in [1 .. n -> open]
                       /\ \A i, j \in 1 .. n : order[i] = order[j] => i = j
                       /\ \A x \in open : \E i \in 1 .. n : order[i] = x
    BY ONLY <2>1, <2>2, OrderOf
  <2> QED BY <2>3
<1>8. PICK rows : rows = [i \in 1 .. n |-> [id |-> order[i], left |-> layers[order[i]].left,
                                            leftValue |-> layers[order[i]].leftValue]]
  OBVIOUS
<1>9. PICK c : c = [op |-> "take", qty |-> was.qty, wanted |-> was.qty, worth |-> 0, rows |-> rows] OBVIOUS
<1>10. Goes(u, c) BY <1>2, <1>7, <1>8, <1>9
<1>11. DOMAIN rows = 1 .. n /\ \A i \in 1 .. n :
         /\ rows[i].id = order[i] /\ rows[i].id \in open
         /\ rows[i].left = layers[rows[i].id].left /\ rows[i].leftValue = layers[rows[i].id].leftValue
  BY <1>7, <1>8
<1>12. rows \in Seq(FifoRows)
  <2>1. ASSUME NEW i \in 1 .. n PROVE rows[i] \in FifoRows
    <3>1. order[i] \in open /\ order[i] \in DOMAIN layers BY <1>6, <1>7
    <3>2. layers[order[i]] \in LayerRows /\ order[i] \in Nat BY <1>4, <3>1 DEF ValuationTypes
    <3>3. layers[order[i]].left \in Nat \ {0} /\ layers[order[i]].leftValue \in Int BY <1>1, <3>1, <3>2 DEF LayerRows
    <3> QED BY <1>8, <3>2, <3>3 DEF FifoRows
  <2>2. rows \in [1 .. n -> FifoRows] BY <1>8, <2>1
  <2> QED BY <2>2
<1>13. /\ c.op = "take" /\ c.qty = was.qty /\ c.wanted = was.qty /\ c.worth = 0 /\ c.rows = rows /\ c \in Taking
  BY <1>5, <1>9, <1>12 DEF Taking
<1>14. ValuingTyped(c) BY <1>5, <1>6, <1>11, <1>13 DEF ValuingTyped
<1>15. /\ Unposted(c) = 0 /\ Unposted(was) = 0 /\ Unlayered(c) = -was.qty /\ Unlayered(was) = -was.qty
       /\ Untaken(c) = 0 - was.qty /\ Untaken(was) = -was.qty /\ Taken(c) = 0 /\ Taken(was) = 0
  BY <1>3, <1>13 DEF Unposted, Layered, Unlayered, Untaken, Taken
<1>16. Fresh(c)
  <2>1. c.wanted >= 0 BY <1>5, <1>13
  <2>2. \A i, j \in DOMAIN c.rows : c.rows[i].id = c.rows[j].id => i = j BY <1>7, <1>11, <1>13
  <2>3. \A l \in DOMAIN layers : layers[l].left > 0 => \E i \in DOMAIN c.rows : c.rows[i].id = l
    <3> SUFFICES ASSUME NEW l \in DOMAIN layers, layers[l].left > 0 PROVE \E i \in DOMAIN c.rows : c.rows[i].id = l
      OBVIOUS
    <3>1. PICK i \in 1 .. n : order[i] = l BY <1>1, <1>7
    <3> QED BY <1>11, <1>13, <3>1
  <2> QED BY <1>11, <1>13, <2>1, <2>2, <2>3 DEF Fresh
<1>17. booked' + Unposted(c) - Unposted(valuing[u]) = booked BY <1>1, <1>3, <1>4, <1>15
<1>18. Unlayered(c) - Unlayered(valuing[u]) = inStock' - inStock BY <1>1, <1>3, <1>4, <1>5, <1>15
<1>19. Untaken(c) - Untaken(valuing[u]) = inStock' - inStock /\ Taken(c) = Taken(valuing[u])
  BY <1>1, <1>3, <1>4, <1>5, <1>15
<1>20. \A l \in DOMAIN layers : HasLayer(valuing[u], l) => HasLayer(c, l) BY <1>1, <1>3 DEF HasLayer, Layered
<1>21. valuing[u] # Idle BY <1>1, <1>3 DEF Idle
<1> QED BY <1>3, <1>4, <1>5, <1>10, <1>14, <1>16, <1>17, <1>18, <1>19, <1>20, <1>21, StillTurn

LEMMA LesserOfTwo ==
  ASSUME NEW a \in Nat, NEW b \in Nat PROVE Min({a, b}) \in {a, b} /\ Min({a, b}) <= a /\ Min({a, b}) <= b
<1>1. \E x \in {a, b} : \A y \in {a, b} : x <= y
  <2>1. CASE a <= b BY <2>1
  <2>2. CASE b <= a BY <2>2
  <2> QED BY <2>1, <2>2
<1> QED BY <1>1 DEF Min
LEMMA RowsThenRest ==
  ASSUME NEW s \in Seq(FifoRows), s # <<>>
  PROVE  /\ 1 \in DOMAIN s /\ Head(s) = s[1] /\ Tail(s) \in Seq(FifoRows)
         /\ \A i \in DOMAIN Tail(s) : i # 0 /\ i + 1 \in DOMAIN s /\ i + 1 # 1 /\ Tail(s)[i] = s[i + 1]
         /\ \A i, j \in DOMAIN Tail(s) : i + 1 = j + 1 => i = j
         /\ \A i \in DOMAIN s : i # 1 => \E j \in DOMAIN Tail(s) : Tail(s)[j] = s[i]
<1>1. PICK n \in Nat : n = Len(s) OBVIOUS
<1>2. DOMAIN s = 1 .. n /\ n # 0 BY <1>1
<1>3. Tail(s) \in Seq(FifoRows) /\ DOMAIN Tail(s) = 1 .. (n - 1) /\ \A i \in 1 .. (n - 1) : Tail(s)[i] = s[i + 1] BY <1>1, <1>2
<1>4. 1 \in DOMAIN s /\ Head(s) = s[1] BY <1>2
<1>5. ASSUME NEW i \in DOMAIN s, i # 1 PROVE \E j \in DOMAIN Tail(s) : Tail(s)[j] = s[i]
  <2>1. i - 1 \in 1 .. (n - 1) /\ (i - 1) + 1 = i BY <1>2, <1>5
  <2>2. Tail(s)[i - 1] = s[i] BY <1>3, <2>1
  <2> QED BY <1>3, <2>1, <2>2
<1>6. \A i \in 1 .. (n - 1) : i # 0 /\ i + 1 \in 1 .. n /\ i + 1 # 1 OBVIOUS
<1>7. \A i, j \in 1 .. (n - 1) : i + 1 = j + 1 => i = j OBVIOUS
<1> QED BY <1>2, <1>3, <1>4, <1>5, <1>6, <1>7

LEMMA TakesOff ==
  ASSUME NEW x \in Int, NEW y, NEW n, NEW z \in Int, NEW t \in Int, NEW a \in Int, NEW b, NEW s \in Int,
         y = x + n - z, n = z - t, b = a + t
  PROVE  y + b - a = x + s - s
OBVIOUS
\* What is taken of a layer is no more than is left of it and is wanted.
LEMMA FifoTakeKeeps ==
  ASSUME ValuationInv, NEW u \in Movers, FifoTake(u), UNCHANGED workdayVars PROVE ValuationInv'
<1>1. PICK was, row, take, worth :
        /\ was = valuing[u] /\ row = Head(was.rows) /\ take = Min({row.left, was.wanted})
        /\ worth = (take * row.leftValue) \div row.left
  OBVIOUS
<1>2. PICK c, k : c = [was EXCEPT !.rows = Tail(was.rows), !.wanted = was.wanted - take, !.worth = was.worth + worth] /\ k = row.id
  OBVIOUS
<1>3. /\ was.op = "take" /\ was.rows # <<>> /\ was.wanted > 0
      /\ layers' = [layers EXCEPT ![k].left = row.left - take, ![k].leftValue = row.leftValue - worth]
      /\ Goes(u, c)
      /\ method' = method /\ price' = price /\ exclusive' = exclusive /\ unvalued' = unvalued
      /\ inStock' = inStock /\ avgCost' = avgCost /\ booked' = booked
  <2>1. was.op = "take" /\ was.rows # <<>> /\ was.wanted > 0 BY <1>1 DEF FifoTake
  <2>2. layers' = [layers EXCEPT ![k].left = row.left - take, ![k].leftValue = row.leftValue - worth] BY <1>1, <1>2 DEF FifoTake
  <2>3. Goes(u, c) BY <1>1, <1>2 DEF FifoTake
  <2>4. /\ method' = method /\ price' = price /\ exclusive' = exclusive /\ unvalued' = unvalued
        /\ inStock' = inStock /\ avgCost' = avgCost /\ booked' = booked
    BY DEF FifoTake, workdayVars
  <2> QED BY <2>1, <2>2, <2>3, <2>4
<1>4. ValuationTypes /\ ValuingTyped(was) /\ inStock \in Nat /\ avgCost \in Int /\ booked \in Int
  BY <1>1 DEF ValuationInv, ValuationTypes
<1>5. was \in Taking /\ was.qty \in Nat \ {0} /\ method = "fifo" /\ \A i \in DOMAIN was.rows : was.rows[i].id \in DOMAIN layers
  BY <1>3, <1>4, CallKinds
<1>6. was.rows \in Seq(FifoRows) /\ was.wanted \in Int /\ was.worth \in Int BY <1>5 DEF Taking
<1>7. PICK rest : rest = Tail(was.rows) OBVIOUS
<1>8. /\ 1 \in DOMAIN was.rows /\ row = was.rows[1] /\ rest \in Seq(FifoRows)
      /\ \A i \in DOMAIN rest : i + 1 \in DOMAIN was.rows /\ i + 1 # 1 /\ rest[i] = was.rows[i + 1]
      /\ \A i, j \in DOMAIN rest : i + 1 = j + 1 => i = j
      /\ \A i \in DOMAIN was.rows : i # 1 => \E j \in DOMAIN rest : rest[j] = was.rows[i]
  <2>1. PICK s : s = was.rows OBVIOUS
  <2>2. s \in Seq(FifoRows) /\ s # <<>> /\ rest = Tail(s) /\ row = Head(s) BY <1>1, <1>3, <1>6, <1>7, <2>1
  <2>3. /\ 1 \in DOMAIN s /\ Head(s) = s[1] /\ Tail(s) \in Seq(FifoRows)
        /\ \A i \in DOMAIN Tail(s) : i # 0 /\ i + 1 \in DOMAIN s /\ i + 1 # 1 /\ Tail(s)[i] = s[i + 1]
        /\ \A i, j \in DOMAIN Tail(s) : i + 1 = j + 1 => i = j
        /\ \A i \in DOMAIN s : i # 1 => \E j \in DOMAIN Tail(s) : Tail(s)[j] = s[i]
    BY <2>2, RowsThenRest
  <2> QED BY <2>1, <2>2, <2>3
<1>9. row \in FifoRows /\ k \in DOMAIN layers BY <1>2, <1>5, <1>6, <1>8
<1>10. row.left \in Nat \ {0} /\ row.leftValue \in Int BY <1>9 DEF FifoRows
<1>11. take \in Nat /\ take # 0 /\ take <= row.left /\ take <= was.wanted /\ take \in {row.left, was.wanted}
  <2>1. was.wanted \in Nat /\ was.wanted # 0 BY <1>3, <1>6
  <2> QED BY <1>1, <1>10, <2>1, LesserOfTwo
<1>12. worth \in Int
  <2>1. take * row.leftValue \in Int BY <1>10, <1>11
  <2> QED BY <1>1, <1>10, <2>1, QuotientType
<1>13. PICK n, w : n = row.left - take /\ w = row.leftValue - worth OBVIOUS
<1>14. n \in Nat /\ w \in Int BY <1>10, <1>11, <1>12, <1>13
<1>15. layers \in Seq(LayerRows) /\ layers[k] \in LayerRows BY <1>4, <1>9 DEF ValuationTypes
<1>16. PICK r : r = [layers[k] EXCEPT !.left = n, !.leftValue = w] OBVIOUS
<1>17. /\ r \in LayerRows /\ r.value = layers[k].value /\ r.qty = layers[k].qty /\ r.left = n /\ r.leftValue = w
       /\ r.booked = layers[k].booked
  BY <1>14, <1>15, <1>16 DEF LayerRows
<1>18. layers' = [layers EXCEPT ![k] = r] BY <1>3, <1>9, <1>13, <1>15, <1>16
<1>19. /\ layers' \in Seq(LayerRows) /\ DOMAIN layers' = DOMAIN layers /\ layers'[k] = r
       /\ \A l \in DOMAIN layers : l # k => layers'[l] = layers[l]
  BY <1>9, <1>15, <1>17, <1>18
<1>20. LayersKept /\ ValuesKept BY <1>3, <1>17, <1>19 DEF LayersKept, ValuesKept
<1>21. Rewrites(k, n, w) BY <1>9, <1>17, <1>19 DEF Rewrites
<1>22. ValuingTurned(u, c) BY <1>3, <1>4, ValuingTurns
<1>23. /\ c \in Taking /\ c.op = "take" /\ c.qty = was.qty /\ c.rows = rest /\ c.wanted = was.wanted - take
       /\ c.worth = was.worth + worth
  <2>1. was.wanted - take \in Nat /\ was.worth + worth \in Int BY <1>3, <1>6, <1>11, <1>12
  <2>2. PICK a, b : a = was.wanted - take /\ b = was.worth + worth OBVIOUS
  <2>3. c = [was EXCEPT !.rows = rest, !.wanted = a, !.worth = b] BY <1>2, <1>7, <2>2
  <2>4. a \in Int /\ b \in Int /\ rest \in Seq(FifoRows) BY <1>8, <2>1, <2>2
  <2>5. c \in Taking /\ c.op = "take" /\ c.qty = was.qty /\ c.rows = rest /\ c.wanted = a /\ c.worth = b
    BY <1>5, <2>3, <2>4 DEF Taking
  <2> QED BY <2>2, <2>5
<1>24. ValuationTypes'
  <2>1. ASSUME NEW i \in DOMAIN c.rows PROVE c.rows[i].id \in DOMAIN layers'
    <3>1. i \in DOMAIN rest /\ c.rows[i] = rest[i] BY <1>23
    <3>2. i + 1 \in DOMAIN was.rows /\ rest[i] = was.rows[i + 1] BY <1>8, <3>1
    <3>3. was.rows[i + 1].id \in DOMAIN layers BY <1>5, <3>2
    <3> QED BY <1>19, <3>1, <3>2, <3>3
  <2>2. ValuingTyped(c)' BY <1>3, <1>5, <1>23, <2>1 DEF ValuingTyped
  <2> QED BY <1>3, <1>4, <1>20, <1>22, <2>2, TypedTurn
<1>25. /\ SumAll(Values)' = SumAll(Values) /\ SumAll(Quantities)' = SumAll(Quantities)
       /\ SumAll(Lefts)' = SumAll(Lefts) + n - layers[k].left
       /\ SumAll(LeftValues)' = SumAll(LeftValues) + w - layers[k].leftValue
  BY <1>4, <1>9, <1>14, <1>21, <1>24, ColumnsChange
<1>26. SumAll(Values) \in Int /\ SumAll(Quantities) \in Int /\ SumAll(Lefts) \in Int /\ SumAll(LeftValues) \in Int
  BY <1>4, ColumnsTyped
<1>27. /\ Unposted(c)' = 0 /\ Unposted(was) = 0 /\ Unlayered(c) = -was.qty /\ Unlayered(was) = -was.qty
       /\ Untaken(c) = 0 - (was.wanted - take) /\ Untaken(was) = 0 - was.wanted
       /\ Taken(c) = was.worth + worth /\ Taken(was) = was.worth
  BY <1>3, <1>23 DEF Unposted, Layered, Unlayered, Untaken, Taken
<1>28. Pays(u, c)
  <2>1. booked' + Unposted(c)' - Unposted(valuing[u]) = booked + SumAll(Values)' - SumAll(Values)
    <3>1. PICK x, y : x = SumAll(Values) /\ y = SumAll(Values)' OBVIOUS
    <3>2. x \in Int /\ y = x BY <1>25, <1>26, <3>1
    <3>3. booked + 0 - 0 = booked + y - x BY <1>4, <3>2
    <3> QED BY <1>1, <1>3, <1>27, <3>1, <3>3
  <2>2. SumAll(Quantities)' + Unlayered(c) - Unlayered(valuing[u]) = SumAll(Quantities) + inStock' - inStock
    <3>1. PICK x, y, q : x = SumAll(Quantities) /\ y = SumAll(Quantities)' /\ q = -was.qty OBVIOUS
    <3>2. x \in Int /\ y = x /\ q \in Int BY <1>5, <1>25, <1>26, <3>1
    <3>3. y + q - q = x + inStock - inStock BY <1>4, <3>2
    <3> QED BY <1>1, <1>3, <1>27, <3>1, <3>3
  <2> QED BY <2>1, <2>2 DEF Pays
<1>29. EntryKept(u, c)
  <2> SUFFICES ASSUME NEW l \in DOMAIN layers'
               PROVE  l \in DOMAIN layers /\ layers'[l].booked = layers[l].booked /\ ~HasLayer(valuing[u], l)
    BY DEF EntryKept
  <2>1. layers'[l].booked = layers[l].booked
    <3>1. CASE l = k BY <1>17, <1>19, <3>1
    <3>2. CASE l # k BY <1>19, <3>2
    <3> QED BY <3>1, <3>2
  <2> QED BY <1>1, <1>3, <1>19, <2>1 DEF HasLayer, Layered
<1>30. ASSUME FifoHolds PROVE FifoKept(u, c)
  <2>1. Fresh(was) BY <1>1, <1>30 DEF FifoHolds
  <2>2. row.left = layers[k].left /\ row.leftValue = layers[k].leftValue BY <1>2, <1>3, <1>8, <2>1 DEF Fresh
  <2>3. SumAll(Lefts)' + Untaken(c) - Untaken(was) = SumAll(Lefts) + inStock' - inStock
    <3>1. PICK x, y, a, b : x = SumAll(Lefts) /\ y = SumAll(Lefts)' /\ a = Untaken(was) /\ b = Untaken(c) OBVIOUS
    <3>2. b = a + take /\ a \in Int BY <1>6, <1>11, <1>27, <3>1
    <3>3. y = x + n - row.left /\ x \in Int BY <1>25, <1>26, <2>2, <3>1
    <3>4. n = row.left - take /\ row.left \in Int /\ take \in Int BY <1>10, <1>11, <1>13
    <3>5. y + b - a = x + inStock - inStock BY <1>4, <3>2, <3>3, <3>4, TakesOff
    <3> QED BY <1>3, <3>1, <3>5
  <2>4. SumAll(LeftValues)' + Taken(c) - Taken(was) = SumAll(LeftValues) + SumAll(Values)' - SumAll(Values)
    <3>1. PICK x, y, a, b, s : x = SumAll(LeftValues) /\ y = SumAll(LeftValues)' /\ a = Taken(was) /\ b = Taken(c) /\ s = SumAll(Values)
      OBVIOUS
    <3>2. b = a + worth /\ a \in Int BY <1>6, <1>12, <1>27, <3>1
    <3>3. y = x + w - row.leftValue /\ x \in Int /\ s \in Int BY <1>25, <1>26, <2>2, <3>1
    <3>4. w = row.leftValue - worth /\ row.leftValue \in Int BY <1>10, <1>13
    <3>5. y + b - a = x + s - s BY <1>12, <3>2, <3>3, <3>4, TakesOff
    <3> QED BY <1>25, <3>1, <3>5
  <2>5. \A i, j \in DOMAIN was.rows : was.rows[i].id = was.rows[j].id => i = j BY <1>3, <2>1 DEF Fresh
  <2>6. \A i \in DOMAIN rest : rest[i].id # k BY <1>2, <1>8, <2>5
  <2>7. Fresh(c)'
    <3>1. c.wanted >= 0 BY <1>6, <1>11, <1>23
    <3>2. \A i \in DOMAIN rest : rest[i].left = layers'[rest[i].id].left /\ rest[i].leftValue = layers'[rest[i].id].leftValue
      <4> SUFFICES ASSUME NEW i \in DOMAIN rest
                   PROVE  rest[i].left = layers'[rest[i].id].left /\ rest[i].leftValue = layers'[rest[i].id].leftValue
        OBVIOUS
      <4>1. i + 1 \in DOMAIN was.rows /\ rest[i] = was.rows[i + 1] BY <1>8
      <4>2. rest[i].left = layers[rest[i].id].left /\ rest[i].leftValue = layers[rest[i].id].leftValue
        BY <1>3, <2>1, <4>1 DEF Fresh
      <4>3. rest[i].id \in DOMAIN layers /\ rest[i].id # k BY <1>5, <2>6, <4>1
      <4> QED BY <1>19, <4>2, <4>3
    <3>3. \A i, j \in DOMAIN rest : rest[i].id = rest[j].id => i = j BY <1>8, <2>5
    <3>4. ASSUME c.wanted > 0, NEW l \in DOMAIN layers', layers'[l].left > 0 PROVE \E i \in DOMAIN rest : rest[i].id = l
      <4>1. take = row.left BY <1>6, <1>11, <1>23, <3>4
      <4>2. n = 0 BY <1>10, <1>13, <4>1
      <4>3. l # k BY <1>17, <1>19, <3>4, <4>2
      <4>4. l \in DOMAIN layers /\ layers[l].left > 0 BY <1>19, <3>4, <4>3
      <4>5. PICK i \in DOMAIN was.rows : was.rows[i].id = l BY <1>3, <2>1, <4>4 DEF Fresh
      <4>6. i # 1 BY <1>2, <1>8, <4>3, <4>5
      <4> QED BY <1>8, <4>5, <4>6
    <3> QED BY <1>23, <3>1, <3>2, <3>3, <3>4 DEF Fresh
  <2> QED BY <1>1, <2>3, <2>4, <2>7 DEF FifoKept
<1>31. valuing[u] # Idle BY <1>1, <1>3 DEF Idle
<1> QED BY <1>3, <1>5, <1>20, <1>22, <1>24, <1>28, <1>29, <1>30, <1>31, Turn

LEMMA ValuationStart == ValuationInit /\ WorkdayInit => ValuationInv
<1> SUFFICES ASSUME ValuationInit PROVE ValuationInv OBVIOUS
<1>1. /\ method \in {"standard", "average", "fifo"} /\ price \in Nat /\ inStock = 0 /\ avgCost = 0 /\ booked = 0
      /\ layers = <<>> /\ valuing = [u \in Movers |-> Idle]
  BY ValuationAssumption DEF ValuationInit
<1>2. DOMAIN valuing = Movers /\ \A u \in Movers : valuing[u] = Idle BY <1>1
<1>3. ValuationTypes
  <2>1. layers \in Seq(LayerRows) BY <1>1
  <2>2. \A u \in Movers : ValuingTyped(valuing[u]) BY <1>2 DEF ValuingTyped
  <2> QED BY <1>1, <1>2, <2>1, <2>2 DEF ValuationTypes
<1>4. DOMAIN layers = {} BY <1>1
<1>5. SumAll(Values) = 0 /\ SumAll(Quantities) = 0 /\ SumAll(Lefts) = 0 /\ SumAll(LeftValues) = 0
  <2>1. /\ SumAll(Values) = SumOf(Values, {}) /\ SumAll(Quantities) = SumOf(Quantities, {})
        /\ SumAll(Lefts) = SumOf(Lefts, {}) /\ SumAll(LeftValues) = SumOf(LeftValues, {})
    BY <1>3, <1>4, ColumnsNow DEF Columns
  <2> QED BY <2>1, SumEmpty
<1>6. /\ SumOf(AllUnposted, Movers) = 0 /\ SumOf(AllUnlayered, Movers) = 0
      /\ SumOf(AllUntaken, Movers) = 0 /\ SumOf(AllTaken, Movers) = 0
  <2>1. IsFiniteSet(Movers) BY ValuationAssumption
  <2>2. \A u \in Movers : AllUnposted[u] = 0 /\ AllUnlayered[u] = 0 /\ AllUntaken[u] = 0 /\ AllTaken[u] = 0
    BY <1>2 DEF AllUnposted, AllUnlayered, AllUntaken, AllTaken, Unposted, Unlayered, Untaken, Taken, Layered, Idle
  <2> QED BY <2>1, <2>2, SumZero
<1>7. Account /\ Counted /\ Entered BY <1>1, <1>4, <1>5, <1>6 DEF Account, Counted, Entered
<1>8. OneValues BY <1>2 DEF OneValues
<1>9. FifoHolds
  <2>1. \A u \in Movers : Fresh(valuing[u]) BY <1>2 DEF Fresh, Idle
  <2> QED BY <1>1, <1>5, <1>6, <2>1 DEF FifoHolds
<1>10. AverageHolds
  <2>1. inStock * avgCost = SumAll(Values) BY <1>1, <1>5
  <2> QED BY <1>2, <2>1 DEF AverageHolds, Averaged, Idle
<1> QED BY <1>3, <1>7, <1>8, <1>9, <1>10 DEF ValuationInv

LEMMA ValuationStep ==
  ValuationInv /\ AveragesWhole /\ [ValuationNext]_<<valuationVars, workdayVars>> => ValuationInv'
<1> SUFFICES ASSUME ValuationInv, AveragesWhole, [ValuationNext]_<<valuationVars, workdayVars>> PROVE ValuationInv'
  OBVIOUS
<1>1. CASE ValuationNext
  <2>1. UNCHANGED workdayVars BY <1>1 DEF ValuationNext
  <2>2. ASSUME NEW p \in Prices, SetPrice(p) PROVE ValuationInv' BY <2>1, <2>2, SetPriceKeeps
  <2>3. ASSUME NEW u \in Movers, NEW by \in {-2, -1, 1, 2}, MoveDone(u, by) PROVE ValuationInv' BY <2>1, <2>3, MoveDoneKeeps
  <2>4. ASSUME NEW u \in Movers, LayerIn(u) PROVE ValuationInv' BY <2>1, <2>4, LayerInKeeps
  <2>5. ASSUME NEW u \in Movers, CountOnHand(u) PROVE ValuationInv' BY <2>1, <2>5, CountOnHandKeeps
  <2>6. ASSUME NEW u \in Movers, OldAverage(u) PROVE ValuationInv' BY <2>1, <2>6, OldAverageKeeps
  <2>7. ASSUME NEW u \in Movers, NewAverage(u) PROVE ValuationInv' BY <2>1, <2>7, NewAverageKeeps
  <2>8. ASSUME NEW u \in Movers, FifoRead(u) PROVE ValuationInv' BY <2>1, <2>8, FifoReadKeeps
  <2>9. ASSUME NEW u \in Movers, FifoTake(u) PROVE ValuationInv' BY <2>1, <2>9, FifoTakeKeeps
  <2>10. ASSUME NEW u \in Movers, LayerOut(u) PROVE ValuationInv' BY <2>1, <2>10, LayerOutKeeps
  <2>11. ASSUME NEW u \in Movers, PostEntry(u) PROVE ValuationInv' BY <2>1, <2>11, PostEntryKeeps
  <2>12. ASSUME NEW u \in Movers, LinkEntry(u) PROVE ValuationInv' BY <2>1, <2>12, LinkEntryKeeps
  <2>13. ASSUME NEW u \in Movers, GiveUp(u) PROVE ValuationInv' BY <2>13, GiveUpKeeps
  <2> QED
    BY <1>1, <2>2, <2>3, <2>4, <2>5, <2>6, <2>7, <2>8, <2>9, <2>10, <2>11, <2>12, <2>13 DEF ValuationNext
<1>2. CASE UNCHANGED <<valuationVars, workdayVars>>
  <2>1. UNCHANGED <<method, price, inStock, avgCost, layers, booked, valuing, unvalued, exclusive>>
    BY <1>2 DEF valuationVars, workdayVars
  <2>2. ValuationTypes' BY <2>1 DEF ValuationInv, ValuationTypes, ValuingTyped
  <2>3. Account' = Account /\ Counted' = Counted /\ Entered' = Entered /\ OneValues' = OneValues
    BY <2>1 DEF Account, Counted, Entered, OneValues, AllUnposted, AllUnlayered, Unposted, Unlayered, Values, Quantities
  <2>4. FifoHolds' = FifoHolds
    BY <2>1 DEF FifoHolds, Fresh, AllUntaken, AllTaken, Untaken, Taken, Values, Lefts, LeftValues
  <2>5. AverageHolds' = AverageHolds BY <2>1 DEF AverageHolds, Averaged, Values
  <2> QED BY <2>1, <2>2, <2>3, <2>4, <2>5 DEF ValuationInv
<1> QED BY <1>1, <1>2

\* What the property says of a moment when no call is under way.
LEMMA NothingOwed == ValuationInv => Reconciles
<1> SUFFICES ASSUME ValuationInv, ~unvalued, \A u \in Movers : valuing[u] = Idle
             PROVE  /\ booked = Sum(LAMBDA l : l.value)
                    /\ \A l \in DOMAIN layers : layers[l].booked = 1
                    /\ Sum(LAMBDA l : l.qty) = inStock
                    /\ exclusive /\ method = "fifo" =>
                         Sum(LAMBDA l : l.left) = inStock /\ Sum(LAMBDA l : l.leftValue) = Sum(LAMBDA l : l.value)
                    /\ exclusive /\ method = "average" => inStock * avgCost = Sum(LAMBDA l : l.value)
  BY DEF Reconciles
<1>1. /\ Sum(LAMBDA l : l.value) = SumAll(Values) /\ Sum(LAMBDA l : l.qty) = SumAll(Quantities)
      /\ Sum(LAMBDA l : l.left) = SumAll(Lefts) /\ Sum(LAMBDA l : l.leftValue) = SumAll(LeftValues)
  BY DEF Sum, Values, Quantities, Lefts, LeftValues
<1>2. ValuationTypes /\ Account /\ Counted /\ Entered BY DEF ValuationInv
<1>3. /\ SumOf(AllUnposted, Movers) = 0 /\ SumOf(AllUnlayered, Movers) = 0
      /\ SumOf(AllUntaken, Movers) = 0 /\ SumOf(AllTaken, Movers) = 0
  <2>1. IsFiniteSet(Movers) BY ValuationAssumption
  <2>2. \A u \in Movers : AllUnposted[u] = 0 /\ AllUnlayered[u] = 0 /\ AllUntaken[u] = 0 /\ AllTaken[u] = 0
    BY DEF AllUnposted, AllUnlayered, AllUntaken, AllTaken, Unposted, Unlayered, Untaken, Taken, Layered, Idle
  <2> QED BY <2>1, <2>2, SumZero
<1>4. /\ booked \in Int /\ SumAll(Values) \in Int /\ SumAll(Quantities) \in Int /\ SumAll(Lefts) \in Int
      /\ SumAll(LeftValues) \in Int
  BY <1>2, ColumnsTyped DEF ValuationTypes
<1>5. booked = SumAll(Values) /\ SumAll(Quantities) = inStock BY <1>2, <1>3, <1>4 DEF Account, Counted
<1>6. \A l \in DOMAIN layers : layers[l].booked = 1 BY <1>2 DEF Entered, Layered, Idle
<1>7. ASSUME exclusive, method = "fifo" PROVE SumAll(Lefts) = inStock /\ SumAll(LeftValues) = SumAll(Values)
  <2>1. FifoHolds BY <1>7 DEF ValuationInv
  <2> QED BY <1>3, <1>4, <2>1 DEF FifoHolds
<1>8. ASSUME exclusive, method = "average" PROVE inStock * avgCost = SumAll(Values)
  <2>1. AverageHolds BY <1>8 DEF ValuationInv
  <2> QED BY <2>1 DEF AverageHolds, Averaged, Idle
<1> QED BY <1>1, <1>5, <1>6, <1>7, <1>8

\* The stock reconciles to the ledger, whatever the costing method and however the calls
\* overlap: what a call has still to post and to count is what the account and the layers
\* are short of; where calls take turns, what FIFO left and what the average says are
\* worth what the layers came to, where averages come out whole.
THEOREM ReconcilesHolds == ValuationSpec /\ []AveragesWhole => []Reconciles
<1>1. ValuationInit /\ WorkdayInit => ValuationInv BY ValuationStart
<1>2. ValuationInv /\ AveragesWhole /\ [ValuationNext]_<<valuationVars, workdayVars>> => ValuationInv' BY ValuationStep
<1>3. ValuationInv => Reconciles BY NothingOwed
<1> QED BY <1>1, <1>2, <1>3, PTL DEF ValuationSpec
=============================================================================
