------------------------------ MODULE Settings ------------------------------
(***************************************************************************)
(* The settings of the company: saving them (res.config.settings) applies  *)
(* the package of a country in one transaction (localization.service), and *)
(* requests keep the company's language in a cache of the server process   *)
(* (LanguageMiddleware), which a save empties after it has committed. The  *)
(* one package there is stands for any; one of its taxes for all of them.  *)
(***************************************************************************)
EXTENDS Workday, Sequences, SequencesExt

CONSTANTS
  Admins, Visitors,   \* callers that save, and callers that just send requests
  Languages,          \* active languages
  NotCached,          \* the cache when it is empty
  MaxSaves            \* bound on the versions of the company row

VARIABLES
  company,     \* the res_company row [lang, country, currency, version]
  taxes,       \* account_tax rows [name, active]
  journal,     \* what is posted: [lines: any, generic: any with a generic tax]
  langCache,   \* _company_lang_cache
  loaded,      \* version of the settings on each administrator's screen
  serving,     \* what each caller's request has read and does next
  mishaps      \* history: what a save overwrote or switched without asking

settingsVars == <<company, taxes, journal, langCache, loaded, serving, mishaps>>

Callers == Admins \cup Visitors
Countries == {"EG", "FR"}   \* one with a package, one without
PackCurrency == "EGP"
PackTax == "VAT 14%"
GenericTax == "Tax 20.00%"
ASSUME SettingsAssumption == Admins \cap Visitors = {} /\ NotCached \notin Languages /\ MaxSaves \in Nat

SettingsInit ==
  /\ company \in [lang : Languages, country : {"FR"}, currency : {"USD"}, version : {0}]
  /\ taxes = << [name |-> GenericTax, active |-> TRUE] >>
  /\ journal = [lines |-> FALSE, generic |-> FALSE]
  /\ langCache = NotCached /\ mishaps = {}
  /\ loaded = [u \in Admins |-> 0]
  /\ serving = [u \in Callers |-> Idle]

Serves(u, c) == serving' = [serving EXCEPT ![u] = c]
NobodyServed == exclusive => \A u \in Callers : serving[u] = Idle
-----------------------------------------------------------------------------
\* get_values, and set_values with what was loaded: stale settings are refused.
LoadSettings(u) ==
  /\ loaded[u] # company.version
  /\ loaded' = [loaded EXCEPT ![u] = company.version]
  /\ UNCHANGED <<company, taxes, journal, langCache, serving, mishaps>>

SaveBegin(u, lang, country, confirm) ==
  /\ MayCall(serving, u) /\ company.version < MaxSaves
  /\ loaded[u] = company.version
  /\ Serves(u, [op |-> IF country # company.country THEN "apply" ELSE "lang",
                lang |-> lang, country |-> country, confirm |-> confirm, version |-> company.version])
  /\ UNCHANGED <<company, taxes, journal, langCache, loaded, mishaps>>

\* apply_country_localization, up to its commit: what it finds there already.
FoundActive(name) == \E i \in DOMAIN taxes : taxes[i].name = name /\ taxes[i].active
Found(name) == \E i \in DOMAIN taxes : taxes[i].name = name
ApplyRead(u) ==
  LET c == serving[u]
      pack == c.country = "EG"
      switches == pack /\ company.currency # PackCurrency
  IN /\ c.op = "apply"
     /\ Serves(u, IF switches /\ ~c.confirm /\ journal.lines THEN Idle
                  ELSE [op |-> "commit", lang |-> c.lang, country |-> c.country, confirm |-> c.confirm,
                        version |-> c.version, pack |-> pack, found |-> Found(PackTax), switches |-> switches])
     /\ UNCHANGED <<company, taxes, journal, langCache, loaded, mishaps>>

\* The tax is made, or made active; the generic one is archived, unless it is used;
\* and the row is written, once.
WithPack(found) ==
  LET kept == [i \in DOMAIN taxes |->
                 IF taxes[i].name = GenericTax THEN [taxes[i] EXCEPT !.active = @ /\ journal.generic]
                 ELSE [taxes[i] EXCEPT !.active = TRUE]]
  IN IF found THEN kept ELSE Append(kept, [name |-> PackTax, active |-> TRUE])
Mishaps(c) ==
  mishaps \cup (IF company.version # c.version THEN {"overwritten"} ELSE {})
          \cup (IF c.op = "commit" /\ c.switches /\ ~c.confirm /\ journal.lines THEN {"switched"} ELSE {})
ApplyCommit(u) ==
  LET c == serving[u]
  IN /\ c.op = "commit"
     /\ taxes' = IF c.pack THEN WithPack(c.found) ELSE taxes
     /\ company' = [lang |-> c.lang, country |-> c.country, version |-> company.version + 1,
                    currency |-> IF c.pack THEN PackCurrency ELSE company.currency]
     /\ mishaps' = Mishaps(c)
     /\ Serves(u, [op |-> "invalidate"])
     /\ UNCHANGED <<journal, langCache, loaded>>

\* A change of the language alone.
SaveLang(u) ==
  LET c == serving[u]
  IN /\ c.op = "lang"
     /\ company' = [company EXCEPT !.lang = c.lang, !.version = @ + 1]
     /\ mishaps' = Mishaps(c)
     /\ Serves(u, [op |-> "invalidate"])
     /\ UNCHANGED <<taxes, journal, langCache, loaded>>
Invalidate(u) ==
  /\ serving[u].op = "invalidate"
  /\ langCache' = NotCached
  /\ Serves(u, Idle)
  /\ UNCHANGED <<company, taxes, journal, loaded, mishaps>>
-----------------------------------------------------------------------------
\* Any request: the language is read when it is not cached, and then kept.
Resolve(u) ==
  /\ MayCall(serving, u) /\ langCache = NotCached
  /\ Serves(u, [op |-> "fill", lang |-> company.lang])
  /\ UNCHANGED <<company, taxes, journal, langCache, loaded, mishaps>>
FillCache(u) ==
  /\ serving[u].op = "fill"
  /\ langCache' = serving[u].lang
  /\ Serves(u, Idle)
  /\ UNCHANGED <<company, taxes, journal, loaded, mishaps>>

\* The server starts again; documents are posted; a tax is archived by hand.
Restart ==
  /\ langCache' = NotCached /\ serving' = [u \in Callers |-> Idle]
  /\ UNCHANGED <<company, taxes, journal, loaded, mishaps>>
PostLines(generic) ==
  /\ NobodyServed
  /\ journal' = [lines |-> TRUE, generic |-> journal.generic \/ generic]
  /\ UNCHANGED <<company, taxes, langCache, loaded, serving, mishaps>>
ArchiveTax(i) ==
  /\ NobodyServed /\ taxes[i].active
  /\ taxes' = [taxes EXCEPT ![i].active = FALSE]
  /\ UNCHANGED <<company, journal, langCache, loaded, serving, mishaps>>

SettingsNext ==
  /\ \/ \E u \in Admins :
          \/ \E lang \in Languages, country \in Countries, confirm \in BOOLEAN : SaveBegin(u, lang, country, confirm)
          \/ LoadSettings(u) \/ ApplyRead(u) \/ ApplyCommit(u) \/ SaveLang(u) \/ Invalidate(u)
     \/ \E u \in Callers : Resolve(u) \/ FillCache(u)
     \/ Restart
     \/ \E generic \in BOOLEAN : PostLines(generic)
     \/ \E i \in DOMAIN taxes : ArchiveTax(i)
  /\ UNCHANGED workdayVars
SettingsSpec == SettingsInit /\ WorkdayInit /\ [][SettingsNext]_<<settingsVars, workdayVars>>
-----------------------------------------------------------------------------
\* As long as requests do not overlap: however often the country changes back and
\* forth, and whatever was archived between, no tax of a package is made twice; no
\* save overwrites one that its administrator has not seen; the currency changes
\* under posted entries only when that was confirmed; and between requests the cached
\* language is the company's.
SavesSound ==
  exclusive =>
    /\ \A i, j \in DOMAIN taxes : taxes[i].name = taxes[j].name => i = j
    /\ mishaps = {}
    /\ (\A u \in Callers : serving[u] = Idle) => langCache \in {NotCached, company.lang}
=============================================================================
