----------------------------- MODULE RuleMatcher -----------------------------
(***************************************************************************)
(* What the rules mean: main loads the rule files one after the other into *)
(* one engine (rule/engine.go, LoadRuleFile), and each event is then       *)
(* judged by every rule, condition by condition (evaluateEvent,            *)
(* rule/accessor.go, rule/matcher.go).  RuleEngine models the goroutines   *)
(* around this; here nothing runs beside the judging, but Go ranges over a *)
(* map in any order, so the conditions are checked in any order.           *)
(*                                                                         *)
(* A JSON value is [text |-> t], [num |-> n], [list |-> sequence of        *)
(* values] or [map |-> function from names to values].  Texts are opaque:  *)
(* what the string functions of the Go library say of them is given by     *)
(* constants.                                                              *)
(***************************************************************************)
EXTENDS Integers, Sequences, Functions

CONSTANTS
  Files,     (* the rule files of main, in order: [groups, rules]           *)
  Event,     (* the events to judge                                         *)
  Starred,   (* the texts that contain "*"                                  *)
  Globs,     (* <<pattern, text>>: filepath.Match                           *)
  Contains,  (* <<text, part>>: strings.Contains, both in lower case        *)
  Fields,    (* for each text its words in lower case: strings.Fields       *)
  Base,      (* for each text its last path element: filepath.Base          *)
  Lower,     (* for each text the same in lower case: strings.ToLower       *)
  NumberOf,  (* the numbers of the texts strconv.ParseInt accepts           *)
  Depth      (* how deep the groups nest one map in another                 *)

VARIABLES
  next,       (* the rule file loaded next                                  *)
  matcher,    (* the group table: not yet made, nil, made; or panicked      *)
  groups,     (* what it holds: a function from names to values             *)
  rules,      (* the rules loaded, in order                                 *)
  loaded,     (* history: the files loaded                                  *)
  event,      (* the event being judged: none or one                        *)
  rule,       (* the rule it is judged by                                   *)
  checking,   (* its conditions are being checked                           *)
  unchecked,  (* the conditions still to check                              *)
  detected    (* history: the rules found to match the event                *)

table == <<next, matcher, groups, rules, loaded>>
judgment == <<event, rule, checking, unchecked, detected>>
vars == <<table, judgment>>

(* The rules of file f. *)
RulesOf(f) == Range(Files[f].rules)

IsText(v) == "text" \in DOMAIN v
IsNumber(v) == "num" \in DOMAIN v
IsList(v) == "list" \in DOMAIN v
IsMap(v) == "map" \in DOMAIN v

Text(t) == [text |-> t]
Number(n) == [num |-> n]

-----------------------------------------------------------------------------
(* GetEventField: the field of the event a condition key stands for.       *)

FieldOf ==
  [exe       |-> "ImagePath",
   ppid_exe  |-> "ParentImage",
   argv      |-> "CommandLine",
   path      |-> "PathName",
   pathname  |-> "PathName",
   request   |-> "Request",
   euid      |-> "EUID",
   egid      |-> "EGID",
   protocol  |-> "Protocol",
   dest_ip   |-> "DstIP",
   dest_port |-> "DstPort"]

GetEventField(e, key) ==
  IF FieldOf[key] = "PathName" /\ e.PathName = Text("")
  THEN e.TargetFile
  ELSE e[FieldOf[key]]

-----------------------------------------------------------------------------
(* The matcher.                                                            *)

(* A word of the command line is the command or option the rule names.     *)
MatchCommandToken(ruleVal, commandLine) ==
  Lower[Base[ruleVal]] \in {Base[token] : token \in Fields[commandLine]}

(* toInt64: the number a value stands for, if any. *)
ToInt64(v) ==
  IF IsNumber(v) THEN {v.num}
  ELSE IF IsText(v) /\ v.text \in DOMAIN NumberOf THEN {NumberOf[v.text]}
  ELSE {}

CompareValue(condKey, ruleVal, eventVal) ==
  IF IsText(ruleVal) /\ IsText(eventVal)
  THEN \/ ruleVal.text \in Starred /\ <<ruleVal.text, eventVal.text>> \in Globs
       \/ IF condKey = "argv"
          THEN MatchCommandToken(ruleVal.text, eventVal.text)
          ELSE <<eventVal.text, ruleVal.text>> \in Contains
  ELSE ToInt64(ruleVal) \cap ToInt64(eventVal) # {}

(* The group is descended into, map by map; its leaves are the items of    *)
(* the lists that are reached.                                             *)
Within(group) ==
  LET reached[n \in Nat] ==
        IF n = 0 THEN {group}
        ELSE reached[n - 1]
             \cup UNION {Range(v.map) : v \in {w \in reached[n - 1] : IsMap(w)}}
  IN  reached[Depth]

Leaves(group) == UNION {Range(v.list) : v \in {w \in Within(group) : IsList(w)}}

CheckValueInGroup(condKey, group, eventVal) ==
  \E item \in Leaves(group) : CompareValue(condKey, item, eventVal)

(* A condition is the name of a group or a text; or a list of these, of    *)
(* which one must match; or a map to the names of groups, of which one     *)
(* must match.  In a list the name of a group is also compared as a text.  *)
MatchCondition(condKey, cond, eventVal) ==
  LET InGroup(v) == /\ IsText(v)
                    /\ v.text \in DOMAIN groups
                    /\ CheckValueInGroup(condKey, groups[v.text], eventVal)
  IN  \/ /\ IsText(cond)
         /\ IF cond.text \in DOMAIN groups
            THEN InGroup(cond)
            ELSE CompareValue(condKey, cond, eventVal)
      \/ /\ IsList(cond)
         /\ \E k \in DOMAIN cond.list :
              /\ IsText(cond.list[k])
              /\ InGroup(cond.list[k]) \/ CompareValue(condKey, cond.list[k], eventVal)
      \/ /\ IsMap(cond)
         /\ \E k \in DOMAIN cond.map : InGroup(cond.map[k])

(* The texts of a condition.                                               *)
TextsOf(cond) ==
  {v \in {cond} \cup (IF IsList(cond) THEN Range(cond.list) ELSE {})
               \cup (IF IsMap(cond) THEN Range(cond.map) ELSE {}) : IsText(v)}

(* Files have a sequence of rules, whose conditions are JSON values.       *)
ASSUME FilesAssumption ==
  /\ Files \in Seq(Range(Files))
  /\ \A f \in DOMAIN Files :
       /\ Files[f].rules \in Seq(RulesOf(f))
       /\ \A r \in RulesOf(f) : \A key \in DOMAIN r.conditions :
            DOMAIN r.conditions[key] \in {{"text"}, {"num"}, {"list"}, {"map"}}

(* No two files give different groups the same name, and no condition has  *)
(* a text that is the name of a group of another file only, as is so of    *)
(* the eight files main loads.                                             *)
ASSUME GroupsAssumption ==
  \A f, g \in DOMAIN Files :
    /\ \A name \in DOMAIN Files[f].groups \cap DOMAIN Files[g].groups :
         Files[f].groups[name] = Files[g].groups[name]
    /\ \A r \in RulesOf(f) : \A key \in DOMAIN r.conditions :
         \A v \in TextsOf(r.conditions[key]) :
           v.text \in DOMAIN Files[g].groups => v.text \in DOMAIN Files[f].groups

(* No map is nested deeper than Depth.                                     *)
ASSUME DepthAssumption ==
  /\ Depth \in Nat
  /\ \A f \in DOMAIN Files : \A name \in DOMAIN Files[f].groups :
       \A v \in Within(Files[f].groups[name]) :
         IsMap(v) => Range(v.map) \subseteq Within(Files[f].groups[name])

(* strings.EqualFold of the event types. *)
IsAbout(r, e) == Lower[r.eventType] = Lower[e.Type]

(* One turn of evaluateEvent's loop over the conditions.                   *)
Holds(r, key) ==
  /\ key \in DOMAIN FieldOf
  /\ MatchCondition(key, r.conditions[key], GetEventField(event[1], key))

-----------------------------------------------------------------------------
Init ==
  /\ next = 1 /\ matcher = "none" /\ groups = [name \in {} |-> 0]
  /\ rules = <<>> /\ loaded = {}
  /\ event = <<>> /\ rule = 0 /\ checking = FALSE /\ unchecked = {}
  /\ detected = {}

(* A file that cannot be opened or decoded is skipped by main.             *)
LoadFails ==
  /\ next <= Len(Files) /\ matcher # "panicked"
  /\ next' = next + 1
  /\ UNCHANGED <<matcher, groups, rules, loaded, judgment>>

LoadNext ==
  /\ rules' = rules \o Files[next].rules
  /\ loaded' = loaded \cup {next}
  /\ next' = next + 1
  /\ UNCHANGED judgment

(* The first file's groups become the table, nil when it has no "groups".  *)
(* Those of a later file are written into it, over any of the same name.   *)
LoadFirst ==
  /\ next <= Len(Files) /\ matcher = "none"
  /\ matcher' = IF DOMAIN Files[next].groups = {} THEN "nil" ELSE "made"
  /\ groups' = Files[next].groups
  /\ LoadNext

(* Fault: every file makes a new table.                                    *)
LoadReplaces ==
  /\ next <= Len(Files) /\ matcher = "made"
  /\ groups' = Files[next].groups
  /\ UNCHANGED matcher
  /\ LoadNext

LoadMore ==
  /\ next <= Len(Files)
  /\ matcher = "made" \/ (matcher = "nil" /\ DOMAIN Files[next].groups = {})
  /\ groups' = [name \in DOMAIN groups \cup DOMAIN Files[next].groups |->
                  IF name \in DOMAIN Files[next].groups
                  THEN Files[next].groups[name]
                  ELSE groups[name]]
  /\ UNCHANGED matcher
  /\ LoadNext

(* A group is written into a nil table. *)
LoadPanics ==
  /\ next <= Len(Files) /\ matcher = "nil" /\ DOMAIN Files[next].groups # {}
  /\ matcher' = "panicked"
  /\ UNCHANGED <<next, groups, rules, loaded, judgment>>

-----------------------------------------------------------------------------
(* evaluateEvent. *)

ReceiveEvent(e) ==
  /\ next > Len(Files)
  /\ event = <<>>
  /\ event' = <<e>>
  /\ rule' = 1
  /\ detected' = {}
  /\ UNCHANGED <<table, checking, unchecked>>

Judging == event # <<>> /\ rule <= Len(rules)

PassOver ==
  /\ Judging /\ ~checking
  /\ ~IsAbout(rules[rule], event[1])
  /\ rule' = rule + 1
  /\ UNCHANGED <<table, event, checking, unchecked, detected>>

BeginRule ==
  /\ Judging /\ ~checking
  /\ IsAbout(rules[rule], event[1])
  /\ checking' = TRUE
  /\ unchecked' = DOMAIN rules[rule].conditions
  /\ UNCHANGED <<table, event, rule, detected>>

(* A condition that holds leaves the others to check; one that does not,   *)
(* or is not supported, ends the rule.                                    *)
CheckCondition(key) ==
  /\ checking
  /\ key \in unchecked
  /\ IF Holds(rules[rule], key)
     THEN unchecked' = unchecked \ {key} /\ UNCHANGED <<rule, checking>>
     ELSE unchecked' = {} /\ rule' = rule + 1 /\ checking' = FALSE
  /\ UNCHANGED <<table, event, detected>>

RuleMatched ==
  /\ checking
  /\ unchecked = {}
  /\ detected' = detected \cup {rule}
  /\ rule' = rule + 1
  /\ checking' = FALSE
  /\ UNCHANGED <<table, event, unchecked>>

Judged ==
  /\ event # <<>>
  /\ rule > Len(rules)
  /\ event' = <<>>
  /\ UNCHANGED <<table, rule, checking, unchecked, detected>>

-----------------------------------------------------------------------------
Load == LoadFails \/ LoadFirst \/ LoadMore \/ LoadPanics

EvaluateEvent ==
  \/ PassOver \/ BeginRule \/ RuleMatched \/ Judged
  \/ \E key \in unchecked : CheckCondition(key)

Next == Load \/ EvaluateEvent \/ \E e \in Event : ReceiveEvent(e)

Spec == Init /\ [][Next]_vars

-----------------------------------------------------------------------------
(* Properties.                                                             *)

(* What a rule file means by a condition: the values any one of which the  *)
(* event's field may have, with the groups of the file itself.             *)
Alternatives(own, cond) ==
  LET In(v) == IF IsText(v) /\ v.text \in DOMAIN own THEN Leaves(own[v.text]) ELSE {}
  IN  CASE IsText(cond) -> IF cond.text \in DOMAIN own THEN In(cond) ELSE {cond}
        [] IsList(cond) -> UNION {In(v) \cup {v} : v \in {w \in Range(cond.list) : IsText(w)}}
        [] IsMap(cond)  -> UNION {In(v) : v \in Range(cond.map)}
        [] OTHER        -> {}

Means(own, r, e) ==
  /\ IsAbout(r, e)
  /\ \A key \in DOMAIN r.conditions :
       /\ key \in DOMAIN FieldOf
       /\ \E v \in Alternatives(own, r.conditions[key]) :
            CompareValue(key, v, GetEventField(e, key))

(* Whatever order the conditions are checked in, whichever files failed to *)
(* load and whatever was loaded before or after it, each file's rules      *)
(* detect exactly the events the file alone says they detect: the files    *)
(* are independent of each other (engine.go:34).  They share one table of  *)
(* groups, so this rests on GroupsAssumption.                              *)
FilesIndependent ==
  event # <<>> /\ rule > Len(rules) =>
    \A f \in loaded : \A r \in RulesOf(f) :
      (\E k \in detected : rules[k] = r) <=> Means(Files[f].groups, r, event[1])

=============================================================================
