---------------------------- MODULE AccessRules ----------------------------
(***************************************************************************)
(* Searching: a domain is a list of tokens in Polish notation, compiled to *)
(* a condition (query.compile_domain); the rules that apply to the caller  *)
(* are merged into one more domain (AccessEnforcer), whose condition is    *)
(* added (BaseModel.search). A leaf is abstracted to the records it holds  *)
(* for; rules are those of one model and one operation.                    *)
(***************************************************************************)
EXTENDS Integers, Sequences, SequencesExt, FiniteSetsExt

CONSTANTS
  Rows,          \* records of the model
  Users, Levels, \* levels: groups, each granted with the ones before it
  Superusers,    \* the group Administrator
  LeafSets,      \* sets of records a leaf may hold for
  MaxRuleCount   \* bound on rules

VARIABLES
  accessRules,   \* ir_rule rows [global, groups, domain]
  memberOf       \* user -> groups

accessVars == <<accessRules, memberOf>>

And == [tok |-> "and"]
Or == [tok |-> "or"]
Not == [tok |-> "not"]
Unknown == [tok |-> "unknown"]   \* a leaf that names no field: DomainError
Leaf(S) == [tok |-> "leaf", holds |-> S]
LevelGroups == ToSet(Levels)
ASSUME AccessAssumption == Superusers \notin LevelGroups /\ LeafSets \subseteq SUBSET Rows

AnyLeaf == {Leaf(S) : S \in LeafSets}
WholeDomains ==
  {<<l>> : l \in AnyLeaf} \cup {<<Not, l>> : l \in AnyLeaf}
    \cup {<<Or, l, m>> : l, m \in AnyLeaf} \cup {<<And, l, m>> : l, m \in AnyLeaf}
OtherDomains == {<<>>, <<Unknown>>}

AccessInit == accessRules = <<>> /\ memberOf = [u \in Users |-> {}]
-----------------------------------------------------------------------------
\* _parse: one expression from a position on, what it holds for and where it ends.
Parsed(d) ==
  LET end == Len(d) + 1
      at[p \in 1 .. end] ==
        IF p = end \/ d[p] = Unknown THEN [ok |-> FALSE, holds |-> {}, next |-> end]
        ELSE IF d[p].tok = "leaf" THEN [ok |-> TRUE, holds |-> d[p].holds, next |-> p + 1]
        ELSE LET left == at[p + 1]
                 right == at[left.next]
             IN CASE d[p] = Not -> [left EXCEPT !.holds = Rows \ @]
                  [] d[p] = And -> [ok |-> left.ok /\ right.ok, next |-> right.next,
                                    holds |-> left.holds \cap right.holds]
                  [] d[p] = Or  -> [ok |-> left.ok /\ right.ok, next |-> right.next,
                                    holds |-> left.holds \cup right.holds]
  IN at[1]

\* compile_domain: no domain is no condition, and what does not compile finds nothing.
Compile(d) == IF d = <<>> THEN Rows ELSE IF Parsed(d).ok THEN Parsed(d).holds ELSE {}

\* Domains joined by an operator for each after the first.
OrJoinOnce(op, domains) == <<op>> \o FlattenSeq(domains)
OrJoin(op, domains) == [i \in 1 .. Len(domains) - 1 |-> op] \o FlattenSeq(domains)

\* get_merged_domain: all global rules, and one of the rules of the caller's groups.
NoneOfThem == <<Leaf({})>>
MergedDomain(u) ==
  LET domainsOf(S) == [i \in DOMAIN S |-> S[i].domain]
      globals == domainsOf(SelectSeq(accessRules, LAMBDA r : r.global))
      granted == domainsOf(SelectSeq(accessRules, LAMBDA r : ~r.global /\ r.groups \cap memberOf[u] # {}))
      gated == \E i \in DOMAIN accessRules : ~accessRules[i].global
      parts == IF gated THEN Append(globals, OrJoin(Or, granted)) ELSE globals
  IN IF Superusers \in memberOf[u] \/ parts = <<>> THEN <<>>
     ELSE IF gated /\ granted = <<>> THEN NoneOfThem
     ELSE OrJoin(And, parts)

\* search: what the caller asked for, with the condition of the rules added.
SearchedBy(u, asked) == Compile(asked) \cap Compile(MergedDomain(u))

\* Rules come and go; a level is granted with its ancestors (assign_hr_group).
CreateRule(global, groups, domain) ==
  /\ Len(accessRules) < MaxRuleCount
  /\ accessRules' = Append(accessRules, [global |-> global, groups |-> groups, domain |-> domain])
  /\ UNCHANGED memberOf
UnlinkRule(i) == accessRules' = RemoveAt(accessRules, i) /\ UNCHANGED memberOf
AssignLevel(u, n) ==
  /\ memberOf' = [memberOf EXCEPT ![u] = @ \cup {Levels[i] : i \in 1 .. n}]
  /\ UNCHANGED accessRules
WriteGroups(u, groups) == memberOf' = [memberOf EXCEPT ![u] = groups] /\ UNCHANGED accessRules

AccessNext ==
  \/ \E global \in BOOLEAN, groups \in SUBSET LevelGroups, d \in WholeDomains \cup OtherDomains :
       CreateRule(global, groups, d)
  \/ \E i \in DOMAIN accessRules : UnlinkRule(i)
  \/ \E u \in Users :
       \/ \E n \in DOMAIN Levels : AssignLevel(u, n)
       \/ \E groups \in SUBSET (LevelGroups \cup {Superusers}) : WriteGroups(u, groups)
AccessSpec == AccessInit /\ [][AccessNext]_accessVars
-----------------------------------------------------------------------------
\* However rules are combined, and however each is nested, a search finds what all the
\* global rules hold for and one rule of the caller's groups, and where there are rules
\* for groups, nothing without one of them. "A malformed rule must fail closed": one
\* that applies to the caller lets nothing through, whatever it is combined with.
RulesMerge ==
  (\A i \in DOMAIN accessRules : accessRules[i].domain # <<>>) =>
    \A u \in Users :
      LET granted == {i \in DOMAIN accessRules :
                        ~accessRules[i].global /\ accessRules[i].groups \cap memberOf[u] # {}}
          globals == {i \in DOMAIN accessRules : accessRules[i].global}
          Holds(i, x) == x \in Compile(accessRules[i].domain)
          allowed == {x \in Rows :
                        /\ \A i \in globals : Holds(i, x)
                        /\ DOMAIN accessRules # globals => \E i \in granted : Holds(i, x)}
      IN Superusers \notin memberOf[u] =>
           SearchedBy(u, <<>>) = IF \E i \in globals \cup granted : accessRules[i].domain = <<Unknown>>
                            THEN {} ELSE allowed
=============================================================================
