-------------------------- MODULE RuleMatcherProofs --------------------------
(***************************************************************************)
(* Theorems about the rules: that what a rule file detects depends on that *)
(* file alone, for all files, any of which may fail to load, all events,   *)
(* and every order in which the conditions of a rule are checked.          *)
(***************************************************************************)
EXTENDS RuleMatcher, SequenceTheorems, TLAPS

USE FilesAssumption

-----------------------------------------------------------------------------
(* Loading.                                                                *)

AllRules == UNION {RulesOf(f) : f \in DOMAIN Files}

(* The rules are those of the files loaded, and the table has their groups *)
(* and no others.                                                          *)
TableInv ==
  /\ next \in 1 .. Len(Files) + 1
  /\ rules \in Seq(AllRules)
  /\ loaded \subseteq 1 .. next - 1
  /\ Range(rules) = UNION {RulesOf(f) : f \in loaded}
  /\ DOMAIN groups = UNION {DOMAIN Files[f].groups : f \in loaded}
  /\ \A f \in loaded : \A name \in DOMAIN Files[f].groups :
       groups[name] = Files[f].groups[name]
  /\ matcher = "none" <=> loaded = {}

(* Files and rules come in sequence.                                       *)
LEMMA FilesAre ==
  /\ Len(Files) \in Nat /\ DOMAIN Files = 1 .. Len(Files)
  /\ \A f \in 1 .. Len(Files) : Files[f].rules \in Seq(AllRules)
<1>1. Len(Files) \in Nat /\ DOMAIN Files = 1 .. Len(Files)
  OBVIOUS
<1>2. ASSUME NEW f \in 1 .. Len(Files)
      PROVE  Files[f].rules \in Seq(AllRules)
  <2>1. Files[f].rules \in Seq(RulesOf(f))
    BY <1>1
  <2>2. RulesOf(f) \subseteq AllRules
    BY <1>1 DEF AllRules
  <2> QED
    BY <2>1, <2>2
<1> QED
  BY <1>1, <1>2

(* Joining two sequences joins their elements.                             *)
LEMMA RangeJoined ==
  ASSUME NEW S, NEW s \in Seq(S), NEW t \in Seq(S)
  PROVE  Range(s \o t) = Range(s) \cup Range(t)
<1>1. /\ s \o t \in Seq(S) /\ Len(s \o t) = Len(s) + Len(t)
      /\ \A i \in 1 .. Len(s) + Len(t) :
           (s \o t)[i] = IF i <= Len(s) THEN s[i] ELSE t[i - Len(s)]
  BY ConcatProperties
<1>2. /\ Len(s) \in Nat /\ Len(t) \in Nat
      /\ DOMAIN s = 1 .. Len(s) /\ DOMAIN t = 1 .. Len(t)
      /\ DOMAIN (s \o t) = 1 .. Len(s) + Len(t)
  BY <1>1
<1>3. \A i \in 1 .. Len(s) : i \in 1 .. Len(s) + Len(t) /\ (s \o t)[i] = s[i]
  BY <1>1, <1>2
<1>4. \A i \in 1 .. Len(t) : /\ Len(s) + i \in 1 .. Len(s) + Len(t)
                             /\ (s \o t)[Len(s) + i] = t[i]
  <2> SUFFICES ASSUME NEW i \in 1 .. Len(t)
               PROVE  /\ Len(s) + i \in 1 .. Len(s) + Len(t)
                      /\ (s \o t)[Len(s) + i] = t[i]
    OBVIOUS
  <2>1. /\ Len(s) + i \in 1 .. Len(s) + Len(t) /\ ~(Len(s) + i <= Len(s))
        /\ (Len(s) + i) - Len(s) = i
    BY <1>2
  <2> QED
    BY <1>1, <2>1
<1>5. \A i \in 1 .. Len(s) + Len(t) :
        \/ i \in 1 .. Len(s) /\ (s \o t)[i] = s[i]
        \/ i - Len(s) \in 1 .. Len(t) /\ (s \o t)[i] = t[i - Len(s)]
  BY <1>1, <1>2
<1> HIDE <1>1
<1>6. Range(s \o t) \subseteq Range(s) \cup Range(t)
  BY <1>2, <1>5 DEF Range
<1>7. Range(s) \subseteq Range(s \o t)
  BY <1>2, <1>3 DEF Range
<1>8. Range(t) \subseteq Range(s \o t)
  BY <1>2, <1>4 DEF Range
<1> QED
  BY <1>6, <1>7, <1>8

(* Initially nothing is loaded. *)
LEMMA InitTable == Init => TableInv
<1> SUFFICES ASSUME Init PROVE TableInv
  OBVIOUS
<1>1. /\ next = 1 /\ matcher = "none" /\ rules = <<>> /\ loaded = {}
      /\ groups = [name \in {} |-> 0]
  BY DEF Init
<1>2. Range(<<>>) = {} /\ DOMAIN groups = {} /\ <<>> \in Seq(AllRules)
  BY <1>1 DEF Range
<1>3. 1 \in 1 .. Len(Files) + 1
  BY FilesAre
<1> QED
  BY <1>1, <1>2, <1>3 DEF TableInv

(* A file that is loaded adds its rules and its groups; none of another    *)
(* file changes, since a group of the same name is the same.               *)
LEMMA StepTable ==
  ASSUME TableInv, [Next]_vars
  PROVE  TableInv'
<1>2. CASE LoadFails
  <2>1. /\ next' = next + 1 /\ next <= Len(Files)
        /\ UNCHANGED <<matcher, groups, rules, loaded>>
    BY <1>2 DEF LoadFails
  <2>2. next' \in 1 .. Len(Files) + 1 /\ 1 .. next - 1 \subseteq 1 .. next' - 1
    BY <2>1, FilesAre DEF TableInv
  <2> QED
    BY <2>1, <2>2 DEF TableInv
<1>3. ASSUME next <= Len(Files), LoadNext,
             DOMAIN groups' = DOMAIN groups \cup DOMAIN Files[next].groups,
             \A name \in DOMAIN groups' :
               groups'[name] = IF name \in DOMAIN Files[next].groups
                               THEN Files[next].groups[name] ELSE groups[name],
             matcher' # "none"
      PROVE  TableInv'
  <2>1. /\ rules' = rules \o Files[next].rules /\ loaded' = loaded \cup {next}
        /\ next' = next + 1
    BY <1>3 DEF LoadNext
  <2>2. /\ next \in 1 .. Len(Files) /\ next' \in 1 .. Len(Files) + 1
        /\ 1 .. next' - 1 = (1 .. next - 1) \cup {next}
    BY <1>3, <2>1, FilesAre DEF TableInv
  <2>3. rules \in Seq(AllRules) /\ Files[next].rules \in Seq(AllRules)
    BY <2>2, FilesAre DEF TableInv
  <2>4. /\ rules' \in Seq(AllRules)
        /\ Range(rules') = Range(rules) \cup RulesOf(next)
    BY <2>1, <2>3, RangeJoined, ConcatProperties DEF RulesOf
  <2>5. Range(rules') = UNION {RulesOf(f) : f \in loaded'}
    BY <2>1, <2>4 DEF TableInv
  <2>6. DOMAIN groups' = UNION {DOMAIN Files[f].groups : f \in loaded'}
    BY <1>3, <2>1 DEF TableInv
  <2>7. ASSUME NEW f \in loaded', NEW name \in DOMAIN Files[f].groups
        PROVE  groups'[name] = Files[f].groups[name]
    <3>1. name \in DOMAIN groups'
      BY <2>6, <2>7
    <3>2. CASE name \in DOMAIN Files[next].groups
      <4>1. f \in DOMAIN Files /\ next \in DOMAIN Files
        BY <2>1, <2>2, FilesAre DEF TableInv
      <4>2. Files[next].groups[name] = Files[f].groups[name]
        BY <4>1, <3>2, <2>7, GroupsAssumption
      <4> QED
        BY <1>3, <3>1, <3>2, <4>2
    <3>3. CASE name \notin DOMAIN Files[next].groups
      <4>1. f \in loaded
        BY <2>1, <2>7, <3>3
      <4> QED
        BY <1>3, <3>1, <3>3, <4>1, <2>7 DEF TableInv
    <3> QED
      BY <3>2, <3>3
  <2>8. loaded' \subseteq 1 .. next' - 1 /\ loaded' # {}
    BY <2>1, <2>2 DEF TableInv
  <2> QED
    BY <1>3, <2>2, <2>4, <2>5, <2>6, <2>7, <2>8 DEF TableInv
<1>4. CASE LoadFirst
  <2>1. /\ next <= Len(Files) /\ LoadNext /\ groups' = Files[next].groups
        /\ matcher' # "none" /\ DOMAIN groups = {}
    BY <1>4 DEF LoadFirst, TableInv
  <2> QED
    BY <1>3, <2>1
<1>5. CASE LoadMore
  <2>1. /\ next <= Len(Files) /\ LoadNext /\ matcher' # "none"
        /\ groups' = [name \in DOMAIN groups \cup DOMAIN Files[next].groups |->
                       IF name \in DOMAIN Files[next].groups
                       THEN Files[next].groups[name] ELSE groups[name]]
    BY <1>5 DEF LoadMore
  <2> QED
    BY <1>3, <2>1
<1>6. CASE LoadPanics
  <2>1. /\ UNCHANGED <<next, groups, rules, loaded>>
        /\ matcher = "nil" /\ matcher' = "panicked"
    BY <1>6 DEF LoadPanics
  <2> QED
    BY <2>1 DEF TableInv
<1>7. CASE UNCHANGED table
  BY <1>7 DEF table, TableInv
<1> QED
  BY <1>2, <1>4, <1>5, <1>6, <1>7
  DEF Next, Load, EvaluateEvent, PassOver, BeginRule, RuleMatched, Judged,
      CheckCondition, ReceiveEvent, vars

-----------------------------------------------------------------------------
(* Judging.                                                                *)

(* What the file with the groups own means by one condition of rule r.     *)
Accepts(own, r, e, key) ==
  /\ key \in DOMAIN FieldOf
  /\ \E v \in Alternatives(own, r.conditions[key]) :
       CompareValue(key, v, GetEventField(e, key))

(* A value is one of the four kinds. *)
Kinds == {{"text"}, {"num"}, {"list"}, {"map"}}

(* MatchCondition finds a condition to hold exactly if the event's field   *)
(* may have the value it has.                                              *)
LEMMA HoldsAsMeant ==
  ASSUME NEW r, NEW key, DOMAIN r.conditions[key] \in Kinds
  PROVE  Holds(r, key) <=> Accepts(groups, r, event[1], key)
<1> DEFINE cond == r.conditions[key]
           val == GetEventField(event[1], key)
           Passes(v) == CompareValue(key, v, val)
           InGroup(v) == /\ IsText(v) /\ v.text \in DOMAIN groups
                         /\ CheckValueInGroup(key, groups[v.text], val)
           In(v) == IF IsText(v) /\ v.text \in DOMAIN groups
                    THEN Leaves(groups[v.text]) ELSE {}
           Met == \E v \in Alternatives(groups, cond) : Passes(v)
<1>1. \A v : InGroup(v) <=> \E item \in In(v) : Passes(item)
  BY DEF CheckValueInGroup
<1>2. MatchCondition(key, cond, val) <=>
        \/ /\ IsText(cond)
           /\ IF cond.text \in DOMAIN groups THEN InGroup(cond) ELSE Passes(cond)
        \/ /\ IsList(cond)
           /\ \E k \in DOMAIN cond.list :
                IsText(cond.list[k]) /\ (InGroup(cond.list[k]) \/ Passes(cond.list[k]))
        \/ IsMap(cond) /\ \E k \in DOMAIN cond.map : InGroup(cond.map[k])
  BY DEF MatchCondition
<1>3. Alternatives(groups, cond) =
        CASE IsText(cond) -> IF cond.text \in DOMAIN groups THEN In(cond) ELSE {cond}
          [] IsList(cond) -> UNION {In(v) \cup {v} : v \in {w \in Range(cond.list) : IsText(w)}}
          [] IsMap(cond)  -> UNION {In(v) : v \in Range(cond.map)}
          [] OTHER        -> {}
  BY DEF Alternatives
<1> HIDE DEF val, cond, InGroup, In, Passes
<1>4. CASE DOMAIN cond = {"text"}
  <2>1. IsText(cond) /\ ~IsList(cond) /\ ~IsMap(cond)
    BY <1>4 DEF IsText, IsList, IsMap
  <2> QED
    BY <1>1, <1>2, <1>3, <2>1 DEF Holds, Accepts, val, cond, Passes
<1>5. CASE DOMAIN cond = {"list"}
  <2>1. ~IsText(cond) /\ IsList(cond) /\ ~IsMap(cond)
    BY <1>5 DEF IsText, IsList, IsMap
  <2> QED
    BY <1>1, <1>2, <1>3, <2>1 DEF Holds, Accepts, val, cond, Passes, Range
<1>6. CASE DOMAIN cond = {"map"}
  <2>1. ~IsText(cond) /\ ~IsList(cond) /\ IsMap(cond)
    BY <1>6 DEF IsText, IsList, IsMap
  <2> QED
    BY <1>1, <1>2, <1>3, <2>1 DEF Holds, Accepts, val, cond, Passes, Range
<1>7. CASE DOMAIN cond = {"num"}
  <2>1. ~IsText(cond) /\ ~IsList(cond) /\ ~IsMap(cond)
    BY <1>7 DEF IsText, IsList, IsMap
  <2> QED
    BY <1>2, <1>3, <2>1 DEF Holds, Accepts, val, cond, Passes
<1> QED
  BY <1>4, <1>5, <1>6, <1>7 DEF Kinds, cond

(* Rules loaded have such conditions.                                      *)
LEMMA LoadedRule ==
  ASSUME TableInv, NEW k \in 1 .. Len(rules)
  PROVE  \A key \in DOMAIN rules[k].conditions :
           Holds(rules[k], key) <=> Accepts(groups, rules[k], event[1], key)
<1>1. rules[k] \in AllRules
  BY DEF TableInv
<1>2. \A key \in DOMAIN rules[k].conditions : DOMAIN rules[k].conditions[key] \in Kinds
  BY <1>1 DEF AllRules, Kinds
<1> QED
  BY <1>2, HoldsAsMeant

(* Means is a conjunction of its conditions.                               *)
LEMMA MeansAll ==
  ASSUME NEW own, NEW r, NEW e
  PROVE  Means(own, r, e) <=> /\ IsAbout(r, e)
                              /\ \A key \in DOMAIN r.conditions : Accepts(own, r, e, key)
BY DEF Means, Accepts

(* Of the rules before the one that is next the ones detected are the ones *)
(* that match; of that one the conditions that were checked hold.          *)
JudgeInv ==
  /\ checking => event # <<>>
  /\ event # <<>> =>
       /\ next > Len(Files)
       /\ rule \in 1 .. Len(rules) + 1
       /\ detected = {k \in 1 .. rule - 1 : Means(groups, rules[k], event[1])}
  /\ checking =>
       /\ rule <= Len(rules)
       /\ IsAbout(rules[rule], event[1])
       /\ unchecked \subseteq DOMAIN rules[rule].conditions
       /\ \A key \in DOMAIN rules[rule].conditions \ unchecked :
            Accepts(groups, rules[rule], event[1], key)

(* Nothing is judged initially. *)
LEMMA InitJudge == Init => JudgeInv
BY DEF Init, JudgeInv

(* The rule in turn is detected exactly if it matches.                     *)
LEMMA NextRuleJudged ==
  ASSUME JudgeInv, event # <<>>, rule <= Len(rules), Len(rules) \in Nat,
         UNCHANGED <<groups, event, rules, next>>, rule' = rule + 1,
         ~checking',
         \/ Means(groups, rules[rule], event[1]) /\ detected' = detected \cup {rule}
         \/ ~Means(groups, rules[rule], event[1]) /\ detected' = detected
  PROVE  JudgeInv'
<1>1. /\ next > Len(Files) /\ rule \in 1 .. Len(rules) + 1
      /\ detected = {k \in 1 .. rule - 1 : Means(groups, rules[k], event[1])}
  BY DEF JudgeInv
<1>2. rule \in 1 .. Len(rules) /\ rule' \in 1 .. Len(rules) + 1
      /\ 1 .. rule' - 1 = (1 .. rule - 1) \cup {rule}
  BY <1>1
<1>3. detected' = {k \in 1 .. rule' - 1 : Means(groups, rules[k], event[1])}
  BY <1>1, <1>2
<1> QED
  BY <1>1, <1>2, <1>3 DEF JudgeInv

(* The conditions may be checked in any order: the rule is given up at the *)
(* first that does not hold, and matches when none is left.                *)
LEMMA StepJudge ==
  ASSUME TableInv, JudgeInv, [Next]_vars
  PROVE  JudgeInv'
<1>1. Len(rules) \in Nat /\ Len(Files) \in Nat /\ next \in Nat
  BY FilesAre DEF TableInv
<1>2. CASE Load
  <2>1. next <= Len(Files) /\ UNCHANGED judgment
    BY <1>2 DEF Load, LoadFails, LoadFirst, LoadMore, LoadPanics, LoadNext
  <2>2. event = <<>> /\ ~checking
    BY <1>1, <2>1 DEF JudgeInv
  <2> QED
    BY <2>1, <2>2 DEF JudgeInv, judgment
<1>3. ASSUME NEW e \in Event, ReceiveEvent(e)
      PROVE  JudgeInv'
  <2>1. /\ next > Len(Files) /\ event = <<>> /\ rule' = 1 /\ detected' = {}
        /\ UNCHANGED <<next, rules, checking>>
    BY <1>3 DEF ReceiveEvent, table
  <2>2. ~checking
    BY <2>1 DEF JudgeInv
  <2>3. 1 .. rule' - 1 = {} /\ rule' \in 1 .. Len(rules) + 1
    BY <1>1, <2>1
  <2> QED
    BY <2>1, <2>2, <2>3 DEF JudgeInv
<1>4. CASE PassOver
  <2>1. /\ event # <<>> /\ rule <= Len(rules) /\ ~checking'
        /\ UNCHANGED <<groups, event, rules, next>> /\ rule' = rule + 1
        /\ ~IsAbout(rules[rule], event[1]) /\ detected' = detected
    BY <1>4 DEF PassOver, Judging, table
  <2>2. ~Means(groups, rules[rule], event[1])
    BY <2>1, MeansAll
  <2> QED
    BY <1>1, <2>1, <2>2, NextRuleJudged
<1>5. CASE BeginRule
  <2>1. /\ event # <<>> /\ rule <= Len(rules) /\ checking'
        /\ IsAbout(rules[rule], event[1])
        /\ unchecked' = DOMAIN rules[rule].conditions
        /\ UNCHANGED <<groups, event, rules, next, rule, detected>>
    BY <1>5 DEF BeginRule, Judging, table
  <2> QED
    BY <2>1 DEF JudgeInv
<1>6. ASSUME NEW key \in unchecked, CheckCondition(key)
      PROVE  JudgeInv'
  <2>1. checking /\ UNCHANGED <<groups, event, rules, next, detected>>
    BY <1>6 DEF CheckCondition, table
  <2>2. /\ event # <<>> /\ rule <= Len(rules) /\ rule \in 1 .. Len(rules)
        /\ key \in DOMAIN rules[rule].conditions
    BY <1>1, <2>1, <1>6 DEF JudgeInv
  <2>3. Holds(rules[rule], key) <=> Accepts(groups, rules[rule], event[1], key)
    BY <2>2, LoadedRule
  <2>4. CASE Holds(rules[rule], key)
    <3>1. unchecked' = unchecked \ {key} /\ UNCHANGED <<rule, checking>>
      BY <1>6, <2>4 DEF CheckCondition
    <3> QED
      BY <2>1, <2>2, <2>3, <2>4, <3>1 DEF JudgeInv
  <2>5. CASE ~Holds(rules[rule], key)
    <3>1. rule' = rule + 1 /\ ~checking'
      BY <1>6, <2>5 DEF CheckCondition
    <3>2. ~Means(groups, rules[rule], event[1])
      BY <2>2, <2>3, <2>5, MeansAll
    <3> QED
      BY <1>1, <2>1, <2>2, <3>1, <3>2, NextRuleJudged
  <2> QED
    BY <2>4, <2>5
<1>7. CASE RuleMatched
  <2>1. /\ checking /\ unchecked = {} /\ ~checking' /\ rule' = rule + 1
        /\ detected' = detected \cup {rule}
        /\ UNCHANGED <<groups, event, rules, next>>
    BY <1>7 DEF RuleMatched, table
  <2>2. /\ event # <<>> /\ rule <= Len(rules)
        /\ IsAbout(rules[rule], event[1])
        /\ \A key \in DOMAIN rules[rule].conditions :
             Accepts(groups, rules[rule], event[1], key)
    BY <2>1 DEF JudgeInv
  <2>3. Means(groups, rules[rule], event[1])
    BY <2>2, MeansAll
  <2> QED
    BY <1>1, <2>1, <2>2, <2>3, NextRuleJudged
<1>8. CASE Judged
  <2>1. /\ event # <<>> /\ rule > Len(rules) /\ event' = <<>>
        /\ checking' = checking
    BY <1>8 DEF Judged
  <2>2. ~checking
    <3>1. rule \in 1 .. Len(rules) + 1 /\ (checking => rule <= Len(rules))
      BY <2>1 DEF JudgeInv
    <3> QED
      BY <1>1, <2>1, <3>1
  <2> QED
    BY <2>1, <2>2 DEF JudgeInv
<1>9. CASE UNCHANGED vars
  BY <1>9 DEF vars, table, judgment, JudgeInv
<1> QED
  BY <1>2, <1>3, <1>4, <1>5, <1>6, <1>7, <1>8, <1>9 DEF Next, EvaluateEvent

-----------------------------------------------------------------------------
(* The files are independent.                                              *)

(* With the table a rule of a loaded file means what it means with the     *)
(* groups of the file.                                                     *)
LEMMA MeansAlone ==
  ASSUME TableInv, NEW f \in loaded, NEW r \in RulesOf(f), NEW e
  PROVE  Means(groups, r, e) <=> Means(Files[f].groups, r, e)
<1> DEFINE own == Files[f].groups
<1>1. f \in DOMAIN Files /\ loaded \subseteq DOMAIN Files
  BY FilesAre DEF TableInv
<1>2. ASSUME NEW key \in DOMAIN r.conditions
      PROVE  Accepts(groups, r, e, key) <=> Accepts(own, r, e, key)
  <2> DEFINE cond == r.conditions[key]
  <2>1. DOMAIN cond \in Kinds
    BY <1>1, <1>2 DEF Kinds
  <2>2. \A v \in TextsOf(cond) :
          /\ v.text \in DOMAIN groups <=> v.text \in DOMAIN own
          /\ v.text \in DOMAIN own => groups[v.text] = own[v.text]
    <3>1. \A v \in TextsOf(cond), g \in DOMAIN Files :
            v.text \in DOMAIN Files[g].groups => v.text \in DOMAIN own
      BY <1>1, <1>2, GroupsAssumption
    <3>2. /\ DOMAIN groups = UNION {DOMAIN Files[g].groups : g \in loaded}
          /\ \A name \in DOMAIN own : groups[name] = own[name]
      BY DEF TableInv
    <3> QED
      BY <1>1, <3>1, <3>2
  <2> HIDE DEF own, cond
  <2>3. Alternatives(groups, cond) = Alternatives(own, cond)
    <3> DEFINE InTable(v) == IF IsText(v) /\ v.text \in DOMAIN groups
                             THEN Leaves(groups[v.text]) ELSE {}
               InFile(v) == IF IsText(v) /\ v.text \in DOMAIN own
                            THEN Leaves(own[v.text]) ELSE {}
    <3>1. \A v \in TextsOf(cond) : InTable(v) = InFile(v)
      BY <2>2
    <3>2. CASE DOMAIN cond = {"text"}
      <4>1. IsText(cond) /\ ~IsList(cond) /\ ~IsMap(cond) /\ cond \in TextsOf(cond)
        BY <3>2 DEF IsText, IsList, IsMap, TextsOf
      <4> QED
        BY <2>2, <4>1 DEF Alternatives
    <3>3. CASE DOMAIN cond = {"list"}
      <4>1. ~IsText(cond) /\ IsList(cond) /\ ~IsMap(cond)
        BY <3>3 DEF IsText, IsList, IsMap
      <4>2. \A v \in Range(cond.list) : IsText(v) => v \in TextsOf(cond)
        BY <4>1 DEF TextsOf
      <4>3. Alternatives(groups, cond) =
              UNION {InTable(v) \cup {v} : v \in {w \in Range(cond.list) : IsText(w)}}
        BY <4>1 DEF Alternatives
      <4>4. Alternatives(own, cond) =
              UNION {InFile(v) \cup {v} : v \in {w \in Range(cond.list) : IsText(w)}}
        BY <4>1 DEF Alternatives
      <4> HIDE DEF InTable, InFile
      <4> QED
        BY <3>1, <4>2, <4>3, <4>4
    <3>4. CASE DOMAIN cond = {"map"}
      <4>1. ~IsText(cond) /\ ~IsList(cond) /\ IsMap(cond)
        BY <3>4 DEF IsText, IsList, IsMap
      <4>2. \A v \in Range(cond.map) : IsText(v) => v \in TextsOf(cond)
        BY <4>1 DEF TextsOf
      <4>3. \A v \in Range(cond.map) : InTable(v) = InFile(v)
        BY <3>1, <4>2
      <4>4. Alternatives(groups, cond) = UNION {InTable(v) : v \in Range(cond.map)}
        BY <4>1 DEF Alternatives
      <4>5. Alternatives(own, cond) = UNION {InFile(v) : v \in Range(cond.map)}
        BY <4>1 DEF Alternatives
      <4> HIDE DEF InTable, InFile
      <4> QED
        BY <4>3, <4>4, <4>5
    <3>5. CASE DOMAIN cond = {"num"}
      <4>1. ~IsText(cond) /\ ~IsList(cond) /\ ~IsMap(cond)
        BY <3>5 DEF IsText, IsList, IsMap
      <4> QED
        BY <4>1 DEF Alternatives
    <3> QED
      BY <2>1, <3>2, <3>3, <3>4, <3>5 DEF Kinds
  <2> QED
    BY <2>3 DEF Accepts, cond
<1> HIDE DEF own
<1>3. Means(groups, r, e) <=> Means(own, r, e)
  BY <1>2, MeansAll
<1> QED
  BY <1>3 DEF own

(* Whatever order the conditions are checked in and whichever files failed *)
(* to load, each loaded file's rules detect the events that file alone     *)
(* says they detect.                                                       *)
THEOREM FilesAreIndependent == Spec => []FilesIndependent
<1>1. TableInv /\ JudgeInv => FilesIndependent
  <2> SUFFICES ASSUME TableInv, JudgeInv, event # <<>>, rule > Len(rules),
                      NEW f \in loaded, NEW r \in RulesOf(f)
               PROVE  (\E k \in detected : rules[k] = r)
                        <=> Means(Files[f].groups, r, event[1])
    BY DEF FilesIndependent
  <2>1. Len(rules) \in Nat /\ DOMAIN rules = 1 .. Len(rules)
    BY DEF TableInv
  <2>2. rule = Len(rules) + 1
    BY <2>1 DEF JudgeInv
  <2>3. detected = {k \in DOMAIN rules : Means(groups, rules[k], event[1])}
    BY <2>1, <2>2 DEF JudgeInv
  <2>4. \E k \in DOMAIN rules : rules[k] = r
    BY DEF TableInv, Range
  <2>5. Means(groups, r, event[1]) <=> Means(Files[f].groups, r, event[1])
    BY MeansAlone
  <2> QED
    BY <2>3, <2>4, <2>5
<1>2. TableInv /\ JudgeInv /\ [Next]_vars => TableInv' /\ JudgeInv'
  BY StepTable, StepJudge
<1> QED
  BY <1>1, <1>2, InitTable, InitJudge, PTL DEF Spec
=============================================================================
