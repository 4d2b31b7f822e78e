-------------------------- MODULE ProfileMatching ---------------------------
(***************************************************************************)
(* Which saved profile is for the displays that are connected, and which   *)
(* display each of its outputs is for (profile/match.go, identity.go,      *)
(* hotplug.go, clamshell.go, as a pass of the daemon uses them).           *)
(*                                                                         *)
(* A laptop: its panel is on connector 0, and displays are plugged into    *)
(* the other connectors, which are numbered in the order of their names.   *)
(* Those of an MST hub get their names as displays are plugged in, and     *)
(* have a path, the place in the hub, that does not change with the name.  *)
(* A display is its hardware key, its make, model and serial number, which *)
(* all units of a model without serial numbers share.                      *)
(* Of an output's settings a profile keeps whether it is on and its place  *)
(* in a row of displays of one width.                                      *)
(***************************************************************************)
EXTENDS Integers, Sequences, FiniteSets, FiniteSetsExt

CONSTANTS
  Hardware,               \* what displays report: make, model and serial
  BuiltIn, NoUnit,        \* the built-in display, none
  Ports, Hub,             \* connectors, and those of the hub
  Paths, NoPath,          \* places in the hub, none
  NameOrder, NoProfile,   \* profile names, as numbers in their order
  Earlier,                \* profiles by name, as they were saved before
  MaxPlugs, MaxSaves

VARIABLES
  fitted,     \* the display at each connector
  path,       \* where in the hub it is
  shown,      \* how the compositor shows it
  profiles,   \* saved profiles
  wake,       \* outputs of displays not connected that the generated file has rules for
  plugs, saves

matchVars == <<fitted, path, shown, profiles, wake, plugs, saves>>

PanelPort == 0

AllPorts == {PanelPort} \cup Ports

Off == [on |-> FALSE, at |-> 0]

\* The keys that an output can have: its hardware's, with the place in the hub or the
\* connector it was saved on if there were others like it.
KeysOf(match, name) == {<<match>>, <<match, name>>} \cup {<<match, p>> : p \in Paths}

Outputs ==
  [key : UNION {KeysOf(k, c) : k \in Hardware, c \in AllPorts},
   match : Hardware, name : AllPorts, on : BOOLEAN, at : Nat]

WellFormed(outputs) ==
  /\ IsFiniteSet(outputs)
  /\ \A o \in outputs : o \in Outputs /\ o.key \in KeysOf(o.match, o.name)

\* UniqueOutputKey
UniqueKey(match, place, count) == IF count <= 1 THEN <<match>> ELSE <<match, place>>

\* outputDisambiguator: an old key's place, or else the saved name.
Disambiguator(o) == IF Len(o.key) = 2 THEN o.key[2] ELSE o.name

\* Normalize gives every output the key its profile's outputs call for.
Normalized(outputs) ==
  {[o EXCEPT !.key = UniqueKey(o.match, Disambiguator(o),
                               Cardinality({q \in outputs : q.match = o.match}))] : o \in outputs}

\* A profile is saved with the keys it calls for.
IsProfile(p) ==
  WellFormed(p.outputs) /\ Normalized(p.outputs) = p.outputs /\ p.strict \in BOOLEAN

\* The laptop has a panel and finitely many connectors, and its profiles are profiles.
ASSUME MatchAssumption ==
  /\ Ports \subseteq Nat /\ IsFiniteSet(Ports)
  /\ Paths \cap AllPorts = {} /\ NoPath \notin Paths
  /\ BuiltIn \in Hardware /\ NoUnit \notin Hardware
  /\ \A saved \in Earlier :
       /\ DOMAIN saved = NameOrder
       /\ \A n \in NameOrder : saved[n] = NoProfile \/ IsProfile(saved[n])

-----------------------------------------------------------------------------
\* Identities. A key is the hardware key, with the place if it is not alone.

Connected == {c \in AllPorts : fitted[c] # NoUnit}

Key(c) == fitted[c]

Alike(match) == {c \in Connected : Key(c) = match}

\* OutputDisambiguator: the path, which is read for displays that are alike, and the
\* connector's name where there is none.
Stable(c) == IF path[c] # NoPath THEN path[c] ELSE c

LiveKey(c) == UniqueKey(Key(c), Stable(c), Cardinality(Alike(Key(c))))

\* MonitorResolver.Resolve: the only display with that hardware key, of several the one
\* at that connector, and whatever is at the connector when there is none.
ByIdentity(match, name) ==
  LET alike == Alike(match)
  IN IF alike = {} THEN {name} \cap Connected
     ELSE IF Cardinality(alike) = 1 THEN alike
     ELSE alike \cap {name}

\* ResolveOutput
Display(o) ==
  LET byKey == {c \in Connected : LiveKey(c) = o.key}
  IN IF byKey # {} THEN byKey ELSE ByIdentity(o.match, o.name)

Claimed(outputs) == UNION {Display(o) : o \in outputs}

\* OmittedMonitors
Omitted(outputs) == Connected \ Claimed(Normalized(outputs))

Output(c, set) ==
  [key |-> LiveKey(c), match |-> Key(c), name |-> c, on |-> set.on, at |-> set.at]

\* FromState
FromState(state) == Normalized({Output(c, state[c]) : c \in Connected})

-----------------------------------------------------------------------------
\* Scores.

\* EvaluateMatchWith, by hardware key: what it turns on first, then what it keeps off.
Points(k, outputs, lidRule) ==
  LET here == Cardinality(Alike(k))
      known == Cardinality({o \in outputs : o.match = k})
      enabled == Cardinality({o \in outputs : o.match = k /\ o.on})
      on == Min({here, enabled})
      off == Min({here - on, known - enabled})
      found == IF lidRule /\ k = BuiltIn THEN 50 * on + 100 * off ELSE 100 * on + 50 * off
  IN found - 30 * (enabled - on) - 10 * (known - enabled - off) - 20 * Max({0, here - known})

Score(outputs, closed) ==
  LET keys == {o.match : o \in outputs} \cup {Key(c) : c \in Connected}
      points(k) == Points(k, outputs, closed /\ Connected # {PanelPort})
  IN IF \E o \in outputs : o.on /\ Alike(o.match) # {} THEN MapThenSumSet(points, keys) ELSE 0

Saved == {n \in NameOrder : profiles[n] # NoProfile}

Scores(closed) == [n \in Saved |-> Score(profiles[n].outputs, closed)]

\* BestMatchWith: the best of those with points, if any; the name breaks a tie.
Best(closed) ==
  LET score == Scores(closed)
  IN {n \in Saved : /\ score[n] > 0
                    /\ \A m \in Saved : score[m] < score[n] \/ (score[m] = score[n] /\ n <= m)}

\* Mutant: what the profile does not name is not compared.
AsNamed(outputs) == Normalized(outputs)

\* withOmittedMonitorsDisabled
WithOmittedOff(outputs) ==
  Normalized(outputs \cup {Output(c, Off) : c \in Omitted(outputs)})

\* profilesShareEffectiveState, its workspace rules apart.
SameState(outputs, others) ==
  LET A == WithOmittedOff(outputs)
      B == WithOmittedOff(others)
  IN /\ Cardinality(A) = Cardinality(B)
     /\ \A b \in B : \E a \in A : a.key = b.key /\ a.on = b.on /\ (a.on => a.at = b.at)

\* The profiles that could be active: an extended layout is a draft.
Matching(state) ==
  {n \in Saved : /\ profiles[n].strict \/ Omitted(profiles[n].outputs) = {}
                 /\ SameState(profiles[n].outputs, FromState(state))}

-----------------------------------------------------------------------------
\* Layouts.

\* Mutant: as many places to the right as there are displays.
DisplayCount(outputs) == Cardinality({q \in outputs : q.on /\ Display(q) # {}})

RightEnd(outputs) ==
  Max({0} \cup {o.at + 1 : o \in {q \in outputs : q.on /\ Display(q) # {}}})

\* ExtendConnected: unknown displays are added on the right, the panel first.
Kept(outputs) == {o \in outputs : Display(o) # {}}

Added(outputs) ==
  LET omitted == Omitted(outputs)
      Rank(c) == Cardinality({d \in omitted : d < c})
  IN {Output(c, [on |-> TRUE, at |-> RightEnd(outputs) + Rank(c)]) : c \in omitted}

Extended(p) ==
  IF p.strict \/ Omitted(p.outputs) = {} THEN p.outputs
  ELSE Normalized(Kept(p.outputs) \cup Added(p.outputs))

\* hasUsableExternalOutput
ExternalShows(outputs) ==
  \E o \in outputs : o.on /\ \E c \in Display(o) : c # PanelPort /\ shown[c].on

\* ApplyClosedLidPolicy
ClosedLid(outputs) ==
  LET panels == {o \in Normalized(outputs) : PanelPort \in Display(o)}
  IN IF ~ExternalShows(outputs) THEN Normalized(outputs)
     ELSE (Normalized(outputs) \ panels)
          \cup {[o EXCEPT !.on = FALSE] : o \in panels}
          \cup (IF panels = {} THEN {Output(PanelPort, [shown[PanelPort] EXCEPT !.on = FALSE])} ELSE {})

\* KeepBuiltInPanelOn: to the right of all that is on, connected or not.
PanelKeptOn(outputs) ==
  LET panels == {o \in Normalized(outputs) : PanelPort \in Display(o)}
      right == Max({0} \cup {o.at + 1 : o \in {q \in outputs : q.on}})
      lit == [on |-> TRUE, at |-> right]
  IN IF ExternalShows(outputs) \/ (\E o \in panels : o.on) THEN outputs
     ELSE IF panels = {} THEN Normalized(outputs) \cup {Output(PanelPort, lit)}
     ELSE (Normalized(outputs) \ panels) \cup {[o EXCEPT !.on = TRUE, !.at = right] : o \in panels}

\* What a pass of the daemon applies.
Layout(n, closed) ==
  LET extended == Extended(profiles[n])
  IN PanelKeptOn(IF closed THEN ClosedLid(extended) ELSE extended)

\* The compositor can show it and the check after the apply passes: nothing overlaps,
\* and the rules of one display agree.
CanHold(outputs) ==
  /\ \A o, q \in outputs : o # q /\ o.on /\ q.on => o.at # q.at
  /\ \A o, q \in outputs : Display(o) \cap Display(q) # {} =>
       o.on = q.on /\ (o.on => o.at = q.at)

Showing(outputs) ==
  [c \in AllPorts |->
     IF \E o \in outputs : c \in Display(o)
       THEN LET o == CHOOSE q \in outputs : c \in Display(q)
            IN [on |-> o.on, at |-> IF o.on THEN o.at ELSE 0]
     ELSE Off]

\* disconnectedOutputs: only what its description alone tells apart.
WakeRules(outputs) ==
  {o \in outputs : /\ Display(o) = {} /\ o.on /\ o.name # PanelPort
                   /\ Alike(o.match) = {} /\ Cardinality({q \in outputs : q.match = o.match}) = 1}

-----------------------------------------------------------------------------
MatchInit ==
  /\ fitted = [c \in AllPorts |-> IF c = PanelPort THEN BuiltIn ELSE NoUnit]
  /\ path = [c \in AllPorts |-> NoPath]
  /\ shown = [c \in AllPorts |-> IF c = PanelPort THEN [on |-> TRUE, at |-> 0] ELSE Off]
  /\ profiles \in Earlier
  /\ wake = {}
  /\ plugs = 0
  /\ saves = 0

\* Where a display on a connector can be.
FreePaths(c) == IF c \in Hub THEN Paths \ {path[d] : d \in Connected} ELSE {NoPath}

\* A display comes up as its rule says, or at the right.
Plugs(k, c, p) ==
  /\ plugs < MaxPlugs
  /\ k # BuiltIn /\ fitted[c] = NoUnit
  /\ plugs' = plugs + 1
  /\ fitted' = [fitted EXCEPT ![c] = k]
  /\ path' = [path EXCEPT ![c] = p]
  /\ LET rules == {o \in wake : o.match = k}
         right == Max({shown[d].at + 1 : d \in Connected})
         at == IF rules = {} THEN right ELSE (CHOOSE o \in rules : TRUE).at
     IN shown' = [shown EXCEPT ![c] = [on |-> TRUE, at |-> at]]
  /\ UNCHANGED <<profiles, wake, saves>>

Unplugs(c) ==
  /\ c # PanelPort /\ c \in Connected
  /\ fitted' = [fitted EXCEPT ![c] = NoUnit]
  /\ path' = [path EXCEPT ![c] = NoPath]
  /\ shown' = [shown EXCEPT ![c] = Off]
  /\ UNCHANGED <<profiles, wake, plugs, saves>>

FreePlaces ==
  {at \in 0..Cardinality(Ports) : \A c \in Connected : shown[c].on => shown[c].at # at}

\* A draft is the live state, perhaps with one display elsewhere or off.
Drafts ==
  {shown} \cup {[shown EXCEPT ![c] = Off] : c \in {d \in Connected : \E e \in Connected \ {d} : shown[e].on}}
  \cup {[shown EXCEPT ![c] = [on |-> TRUE, at |-> at]] : c \in Connected, at \in FreePlaces}

\* A draft is saved and applied, with a policy for displays it does not know.
SavesDraft(n, strict, draft) ==
  /\ saves < MaxSaves
  /\ saves' = saves + 1
  /\ shown' = draft
  /\ profiles' = [profiles EXCEPT ![n] = [outputs |-> FromState(draft), strict |-> strict]]
  /\ UNCHANGED <<fitted, path, wake, plugs>>

\* A pass of the daemon, which puts back what cannot hold.
Passes(closed) ==
  /\ \E n \in Best(closed) :
       LET layout == Layout(n, closed)
       IN /\ CanHold(layout)
          /\ shown' = Showing(layout)
          /\ wake' = WakeRules(layout)
  /\ UNCHANGED <<fitted, path, profiles, plugs, saves>>

MatchNext ==
  \/ \E k \in Hardware, c \in Ports : \E p \in FreePaths(c) : Plugs(k, c, p)
  \/ \E c \in AllPorts : Unplugs(c)
  \/ \E n \in NameOrder, strict \in BOOLEAN : \E draft \in Drafts : SavesDraft(n, strict, draft)
  \/ \E closed \in BOOLEAN : Passes(closed)

MatchSpec == MatchInit /\ [][MatchNext]_matchVars

-----------------------------------------------------------------------------
\* No two displays are at one place of the hub.
PathsDiffer == \A c, d \in Connected : path[c] = path[d] => c = d \/ path[c] = NoPath

\* The panel is always there, displays are at places of their own, and every profile is
\* one.
MatchTypeOK ==
  /\ fitted \in [AllPorts -> Hardware \cup {NoUnit}] /\ fitted[PanelPort] # NoUnit
  /\ path \in [AllPorts -> Paths \cup {NoPath}]
  /\ PathsDiffer
  /\ shown \in [AllPorts -> [on : BOOLEAN, at : Nat]]
  /\ DOMAIN profiles = NameOrder /\ \A n \in Saved : IsProfile(profiles[n])
  /\ \A o \in wake : o \in Outputs

\* No output is for a display of other hardware, which it is by connector name alone.
ByHardware(outputs) == \A o \in outputs : \A c \in Display(o) : Key(c) = o.match

\* Whatever is plugged in, an extended layout has a place for every display, and it can
\* be shown when the part of it that is known, by its hardware, can: what is added lies
\* on nothing, and the keys renewed with it move no output to another display
\* (ExtendConnected).
ExtensionFits ==
  \A n \in Saved :
    LET known == Kept(profiles[n].outputs)
        extended == Extended(profiles[n])
    IN ~profiles[n].strict /\ Omitted(profiles[n].outputs) # {} /\ ByHardware(known) /\ CanHold(known) =>
         Claimed(extended) = Connected /\ CanHold(extended)

\* Every output is for a display of its own, by its hardware, and all of them are.
Complete(p) ==
  /\ \A o \in p.outputs : Display(o) # {}
  /\ ByHardware(p.outputs)
  /\ \A o, q \in p.outputs : o # q => Display(o) \cap Display(q) = {}
  /\ p.strict \/ Claimed(p.outputs) = Connected

\* Of displays that are alike, one was saved with the key of another place than it has
\* now, or alone, with a key without a place, and is in the hub now. Its output finds it
\* by the connector's name, but its key does not become the display's.
Displaced(outputs) ==
  \E o \in outputs : \E c \in Display(o) :
    /\ Cardinality(Alike(Key(c))) > 1
    /\ o.key # <<Key(c), Stable(c)>>
    /\ o.key = <<Key(c)>> => path[c] # NoPath

\* A profile whose displays are all there, on whichever connectors, is known again
\* when it is shown, unless one is displaced: what status reports as active is what was
\* applied (docs/_guide/daemon.md: the layout survives when monitors swap connectors).
AppliedIsRecognised ==
  \A n \in Saved :
    Complete(profiles[n]) /\ ~Displaced(profiles[n].outputs) /\ CanHold(profiles[n].outputs) =>
      n \in Matching(Showing(profiles[n].outputs))

\* A rule is only ever for the display it was saved for (docs/_guide/daemon.md:
\* profiles are matched by hardware identity, not connector name, and a unit with
\* another serial number is a new display).
RulesFollowHardware ==
  \A closed \in BOOLEAN : \A n \in Best(closed) : ByHardware(Layout(n, closed))

=============================================================================
