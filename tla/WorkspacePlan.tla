--------------------------- MODULE WorkspacePlan ----------------------------
(***************************************************************************)
(* The workspace plan of a profile: which display each workspace is on     *)
(* (profile/workspaces.go), the planner of the terminal interface that     *)
(* edits it (tui/model.go), and its way to the compositor and back.        *)
(*                                                                         *)
(* A generated plan deals the workspaces out to the displays in an order,  *)
(* in groups or one by one; a manual one has a rule for each workspace.    *)
(* The compositor only knows rules, so what is read back must be guessed.  *)
(***************************************************************************)
EXTENDS Integers, Sequences, FiniteSets, SequencesExt

CONSTANTS
  ByPosition,                  \* the displays, from left to right, all connected
  NoDisplay,                   \* the display of a rule that has none
  DefaultCount, DefaultGroup,  \* 9 workspaces in groups of 3
  MaxCount,                    \* counts and group sizes that are tried
  FoundRules,                  \* rules the compositor may start with
  MaxPlanEdits

VARIABLES
  role,       \* what the draft does with each display: "on", "off" or "mirror"
  planner,    \* the draft's plan: the planner's rows and what it remembers
  stored,     \* the profile that was saved last: its roles and its plan
  liveRole,   \* what the compositor does with each display
  assigned,   \* the compositor's workspace rules, in the order of the workspaces
  planEdits

planVars == <<role, planner, stored, liveRole, assigned, planEdits>>

Shown == ToSet(ByPosition)

Roles == {"on", "off", "mirror"}

Rules == [space : Nat, on : Shown \cup {NoDisplay}, default : BOOLEAN, persistent : BOOLEAN]

\* Counts and groups are numbers, and the compositor starts with rules.
ASSUME PlanAssumption ==
  /\ ByPosition \in Seq(Shown) /\ NoDisplay \notin Shown
  /\ DefaultCount \in Nat /\ DefaultGroup \in Nat \ {0} /\ MaxCount \in Nat
  /\ \A rules \in FoundRules : rules \in Seq(Rules)

\* The settings a profile stores.
Settings(p) ==
  [enabled |-> p.enabled, strategy |-> p.strategy, count |-> p.count, group |-> p.group,
   persist |-> p.persist, order |-> p.order, rules |-> p.rules]

Targets(rules) == [i \in DOMAIN rules |-> rules[i].on]

\* What a sequence has at the places K, and every member of S that it has, once.
Nth(K, n) == CHOOSE i \in K : Cardinality({j \in K : j <= i}) = n

AtPlaces(seq, K) == [n \in 1..Cardinality(K) |-> seq[Nth(K, n)]]

Once(seq, S) ==
  AtPlaces(seq, {i \in DOMAIN seq : seq[i] \in S /\ \A j \in 1..(i - 1) : seq[j] # seq[i]})

-----------------------------------------------------------------------------
\* What a plan comes to (ResolveWorkspaceRules). The displays that may have
\* workspaces, in the plan's order, then its rules', then from left to right.
On(roles) == {d \in Shown : roles[d] = "on"}

OrderedKeys(s, on) ==
  LET ruled == ToSet(Targets(s.rules))
  IN Once(s.order, on) \o Once(Targets(s.rules), on \ ToSet(s.order))
       \o Once(ByPosition, (on \ ToSet(s.order)) \ ruled)

\* The first workspace of a display is its default, and always persistent.
Generated(s, on) ==
  LET order == OrderedKeys(s, on)
      n == Len(order)
      Place(i) == IF s.strategy = "interleave" THEN i - 1 ELSE (i - 1) \div s.group
      dealt == [i \in 1..s.count |-> order[1 + (Place(i) % n)]]
      First(i) == \A j \in 1..(i - 1) : dealt[j] # dealt[i]
  IN IF n = 0 THEN <<>>
     ELSE [i \in 1..s.count |->
             [space |-> i, on |-> dealt[i], default |-> First(i), persistent |-> s.persist \/ First(i)]]

\* normalizeManualRules
ManualRules(s) == AtPlaces(s.rules, {i \in DOMAIN s.rules : s.rules[i].on # NoDisplay})

Resolved(s, roles) ==
  CASE ~s.enabled -> <<>>
    [] s.enabled /\ s.strategy = "manual" -> ManualRules(s)
    [] OTHER -> Generated(s, On(roles))

-----------------------------------------------------------------------------
\* What rules are taken for (WorkspaceSettingsFromHypr).
GuessedPersist(rules) ==
  /\ \A i \in DOMAIN rules : rules[i].persistent
  /\ \E i \in DOMAIN rules : ~rules[i].default

Guess(rules, strategy, group) ==
  [enabled |-> TRUE, strategy |-> strategy, count |-> Len(rules), group |-> group,
   persist |-> GuessedPersist(rules), order |-> Once(Targets(rules), Shown), rules |-> <<>>]

\* Plausible bug: which workspaces are persistent is not compared.
ReproducesTargets(s, rules) ==
  Targets(Generated(s, ToSet(Targets(rules)))) = Targets(rules)

\* rulesMatchGeneratedRules: with only the displays that have rules.
Reproduces(s, rules) ==
  Generated(s, ToSet(Targets(rules))) = rules

\* Groups of three come first for one display, and otherwise one by one.
Guesses(rules) ==
  (IF Len(Once(Targets(rules), Shown)) = 1 THEN <<Guess(rules, "sequential", DefaultGroup)>> ELSE <<>>)
    \o <<Guess(rules, "interleave", 1)>>
    \o [g \in DOMAIN rules |-> Guess(rules, "sequential", g)]

\* inferGeneratedWorkspaceSettings: the first guess that holds, 0 for none.
Inferred(rules) ==
  IF \A i \in DOMAIN rules : rules[i].space = i
  THEN SelectInSeq(Guesses(rules), LAMBDA s : Reproduces(s, rules))
  ELSE 0

FromHypr(rules, roles) ==
  LET imported == [enabled |-> rules # <<>>, strategy |-> IF rules = <<>> THEN "sequential" ELSE "manual",
                   count |-> DefaultCount, group |-> DefaultGroup, persist |-> FALSE,
                   order |-> Once(ByPosition, {d \in Shown : roles[d] # "mirror"}), rules |-> rules]
  IN IF rules = <<>> \/ Inferred(rules) = 0 THEN imported
     ELSE [Guesses(rules)[Inferred(rules)] EXCEPT !.rules = rules]

-----------------------------------------------------------------------------
\* The planner. workspaceEditorFromSettings: every display that is no mirror has a
\* place in the order, and a manual plan counts up to its last workspace.
EditorOf(s, roles) ==
  LET first == IF s.order = <<>> THEN Targets(s.rules) ELSE s.order
      last == IF s.strategy = "manual" /\ s.rules # <<>> THEN s.rules[Len(s.rules)].space ELSE 0
  IN [enabled |-> s.enabled, strategy |-> s.strategy, count |-> IF last > 0 THEN last ELSE s.count,
      group |-> s.group, persist |-> s.persist, rules |-> s.rules,
      order |-> Once(first \o ByPosition, {d \in Shown : roles[d] # "mirror"}),
      lastGroup |-> IF s.strategy # "sequential" /\ s.group <= 1 THEN DefaultGroup ELSE s.group,
      started |-> s.strategy = "manual" /\ s.rules # <<>>]

\* normalizeManualWorkspaceDefaults, of rules in the order of their workspaces.
WithDefaults(rules) ==
  LET First(i) == rules[i].on # NoDisplay /\ \A j \in 1..(i - 1) : rules[j].on # rules[i].on
  IN [i \in DOMAIN rules |->
        [rules[i] EXCEPT !.default = First(i), !.persistent = @ \/ First(i)]]

Materialized ==
  WithDefaults(Generated([Settings(planner) EXCEPT
                            !.strategy = IF @ = "manual" THEN "sequential" ELSE @], On(role)))

\* manualWorkspaceOutputKeys
Assignable == Once(planner.order \o ByPosition, On(role))

ChangesPlan(p) == planner' = p /\ UNCHANGED <<role, stored, liveRole, assigned>>

Strategies == <<"off", "manual", "sequential", "interleave">>

\* The Strategy row. Rules that were made once are kept for the next time.
ChangesStrategy(next) ==
  LET row == IF planner.enabled THEN planner.strategy ELSE "off"
      at(choice) == CHOOSE i \in 1..4 : Strategies[i] = choice
      kept == IF planner.strategy = "sequential" THEN planner.group ELSE planner.lastGroup
      made == next = "manual" /\ ~planner.started
  IN /\ (at(next) - at(row)) % 4 \in {1, 3}
     /\ ChangesPlan(
          IF next = "off" THEN [planner EXCEPT !.enabled = FALSE, !.lastGroup = kept]
          ELSE [planner EXCEPT
                  !.enabled = TRUE, !.strategy = next, !.lastGroup = kept,
                  !.group = IF next = "sequential" THEN kept ELSE @,
                  !.rules = IF made THEN Materialized ELSE @,
                  !.started = IF made THEN Materialized # <<>> ELSE @])

\* resizeManualWorkspaceRules: workspaces that are new or missing go to the first.
Resized(count) ==
  LET old(i) == {r \in ToSet(planner.rules) : r.space = i}
      new(i) == [space |-> i, on |-> IF Assignable = <<>> THEN NoDisplay ELSE Assignable[1],
                 default |-> FALSE, persistent |-> FALSE]
  IN WithDefaults([i \in 1..count |-> IF old(i) = {} THEN new(i) ELSE CHOOSE r \in old(i) : TRUE])

\* The Max workspaces and Group size rows, one at a time or typed.
ChangesCount(n) ==
  /\ planner.enabled
  /\ ChangesPlan([planner EXCEPT !.count = n,
                                 !.rules = IF planner.strategy = "manual" THEN Resized(n) ELSE @])

ChangesGroup(n) ==
  /\ planner.enabled /\ planner.strategy = "sequential"
  /\ ChangesPlan([planner EXCEPT !.group = n, !.lastGroup = n])

TogglesPersistence ==
  /\ planner.enabled /\ planner.strategy # "manual"
  /\ ChangesPlan([planner EXCEPT !.persist = ~@])

\* A rule moves to the next or previous display, and one whose display cannot have
\* workspaces any more to the first or the last.
MovesRule(i, step) ==
  LET n == Len(Assignable)
      at == {k \in 1..n : Assignable[k] = planner.rules[i].on}
      to == IF at = {} THEN IF step < 0 THEN n ELSE 1
            ELSE 1 + (((CHOOSE k \in at : TRUE) - 1 + step) % n)
  IN /\ planner.enabled /\ planner.strategy = "manual" /\ n > 0
     /\ ChangesPlan([planner EXCEPT !.rules = WithDefaults([@ EXCEPT ![i].on = Assignable[to]])])

MovesOrder(i) ==
  /\ planner.enabled /\ planner.strategy # "manual"
  /\ ChangesPlan([planner EXCEPT !.order = [@ EXCEPT ![i] = planner.order[i + 1],
                                                     ![i + 1] = planner.order[i]]])

\* A manual plan without rules gets them when its tab is opened.
OpensTab ==
  /\ planner.strategy = "manual" /\ ~planner.started
  /\ ChangesPlan([planner EXCEPT !.rules = Materialized, !.started = Materialized # <<>>])

PlansKey ==
  \/ \E c \in ToSet(Strategies) : ChangesStrategy(c)
  \/ \E n \in 1..MaxCount : ChangesCount(n) \/ ChangesGroup(n)
  \/ TogglesPersistence
  \/ \E i \in DOMAIN planner.rules, step \in {1, -1} : MovesRule(i, step)
  \/ \E i \in 1..(Len(planner.order) - 1) : MovesOrder(i)
  \/ OpensTab

-----------------------------------------------------------------------------
\* The layout tab turns a display on or off or makes it a mirror: the plan stays.
ChangesRole(d, r) ==
  /\ r # role[d] /\ (r = "mirror" => \E e \in Shown \ {d} : role[e] = "on")
  /\ \E e \in Shown : (IF e = d THEN r ELSE role[e]) = "on"
  /\ role' = [role EXCEPT ![d] = r]
  /\ UNCHANGED <<planner, stored, liveRole, assigned>>

\* The draft is saved, or applied with its rules.
SavesPlan ==
  /\ stored' = [role |-> role, plan |-> Settings(planner)]
  /\ UNCHANGED <<role, planner, liveRole, assigned>>

AppliesPlan ==
  /\ liveRole' = role /\ assigned' = Resolved(Settings(planner), role)
  /\ UNCHANGED <<role, planner, stored>>

\* profilesShareEffectiveState, of the saved profile and what is live.
IsActive ==
  /\ stored.role = liveRole
  /\ Resolved(stored.plan, liveRole) = Resolved(FromHypr(assigned, liveRole), liveRole)

\* loadLiveState: the draft becomes what is live, with the plan of the saved profile
\* if that is active.
RereadsPlan ==
  /\ role' = liveRole
  /\ planner' = EditorOf(IF IsActive THEN stored.plan ELSE FromHypr(assigned, liveRole), liveRole)
  /\ UNCHANGED <<stored, liveRole, assigned>>

\* The saved profile is loaded into the draft.
LoadsPlan ==
  /\ role' = stored.role /\ planner' = EditorOf(stored.plan, stored.role)
  /\ UNCHANGED <<stored, liveRole, assigned>>

PlanInit ==
  /\ liveRole = [d \in Shown |-> "on"] /\ role = liveRole
  /\ assigned \in FoundRules
  /\ planner = EditorOf(FromHypr(assigned, liveRole), liveRole)
  /\ stored = [role |-> role, plan |-> Settings(planner)]
  /\ planEdits = 0

PlanNext ==
  /\ planEdits < MaxPlanEdits /\ planEdits' = planEdits + 1
  /\ \/ PlansKey
     \/ \E d \in Shown, r \in Roles : ChangesRole(d, r)
     \/ SavesPlan \/ AppliesPlan \/ RereadsPlan \/ LoadsPlan

PlanSpec == PlanInit /\ [][PlanNext]_planVars

-----------------------------------------------------------------------------
PlanSettings ==
  [enabled : BOOLEAN, strategy : {"manual", "sequential", "interleave"}, count : Nat,
   group : Nat \ {0}, persist : BOOLEAN, order : Seq(Shown), rules : Seq(Rules)]

PlannerState ==
  [enabled : BOOLEAN, strategy : {"manual", "sequential", "interleave"}, count : Nat,
   group : Nat \ {0}, persist : BOOLEAN, order : Seq(Shown), rules : Seq(Rules),
   lastGroup : Nat \ {0}, started : BOOLEAN]

\* Draft, saved profile and compositor have a plan each.
PlanTypeOK ==
  /\ role \in [Shown -> Roles] /\ liveRole \in [Shown -> Roles]
  /\ planner \in PlannerState
  /\ stored \in [role : [Shown -> Roles], plan : PlanSettings]
  /\ assigned \in Seq(Rules)

\* The displays of the rules are those that may have workspaces.
EveryDisplayHasRules ==
  ToSet(Targets(assigned)) = On(liveRole)

\* Assignments that were applied survive being read back: the plan that is guessed
\* from the rules comes to these very rules, whatever plan they are from, so that the
\* profile they are from is active and saving the draft moves no workspace. It fails
\* for plans that leave a display out, which EveryDisplayHasRules excepts.
PlanIsReadBack ==
  EveryDisplayHasRules => Resolved(FromHypr(assigned, liveRole), liveRole) = assigned

=============================================================================
