-------------------------- MODULE WorkspaceMemory --------------------------
(***************************************************************************)
(* internal/daemon/workspace_memory.go: a display that comes back shows    *)
(* the workspace it last showed.  Hyprland gives it a default one, which   *)
(* must not be remembered as its choice.                                   *)
(*                                                                         *)
(* Every query of the monitors is observed (query.go), by the probes of    *)
(* Service.Run and by its passes, as soon as it is answered.  A pass that  *)
(* has applied a layout reads it back and gives workspaces back, while     *)
(* displays come and go and the user picks workspaces.  What displays show *)
(* is external: it is up to Hyprland and the user.                         *)
(***************************************************************************)
EXTENDS Integers, FiniteSets

CONSTANTS
  Screens, Spaces,
  FirstSpace,   \* the workspace each screen shows at start
  HardwareKey,  \* what tells screens apart, where anything does
  Plans,        \* workspace plans: [enabled, home], home the screen of a workspace
  NoSpace,
  MaxChanges    \* bound on what users and displays do, and on failing calls

Keys == {HardwareKey[s] : s \in Screens}

VARIABLES
  here, dark,     \* screens that are connected, and of those the ones without a mode
  shows,          \* the workspace each screen shows
  plan,
  last, connected, returning,  \* workspaceMemory
  restores,       \* what a pass is about to give back: <<screen, workspace>>
  owesPass, phase, laidOut,    \* a pass is owed, how far one is, the last layout's screens
  \* history: screens whose workspace the memory has seen, the workspace owed to a
  \* screen that left, and the screens seen to be gone
  seen, debt, noticed,
  changes

desk == <<here, dark, shows, plan>>
memory == <<last, connected, returning>>
passing == <<restores, owesPass, phase, laidOut>>
owed == <<seen, debt, noticed>>
memoryVars == <<desk, memory, passing, owed, changes>>

\* What a query answers.
Answer == [here |-> here, dark |-> dark, shows |-> shows]

\* showsWorkspace
ShowsOne(s, v) == s \in v.here \ v.dark /\ v.shows[s] # NoSpace

\* rememberableKeys: the screens that can be told apart.
Distinct(v) == {s \in v.here : \A t \in v.here \ {s} : HardwareKey[t] # HardwareKey[s]}

Free == Spaces \ {shows[s] : s \in here}

-----------------------------------------------------------------------------
Init ==
  /\ here \in SUBSET Screens /\ dark = {}
  /\ shows = [s \in Screens |-> IF s \in here THEN FirstSpace[s] ELSE NoSpace]
  /\ plan \in Plans
  /\ last = [k \in Keys |-> NoSpace] /\ connected = {} /\ returning = {}
  /\ restores = {}
  /\ owesPass = TRUE /\ phase = "idle" /\ laidOut = {}
  /\ seen = {} /\ debt = [s \in Screens |-> NoSpace] /\ noticed = {}
  /\ changes = 0

Changes == changes < MaxChanges /\ changes' = changes + 1

\* History: these screens are owed nothing any more.
GivesUp(ss) == debt' = [s \in Screens |-> IF s \in ss THEN NoSpace ELSE debt[s]]

-----------------------------------------------------------------------------
(* Displays and people.                                                    *)

\* A screen goes; what it showed is owed to it if the memory had seen it.
Leaves(s) ==
  /\ s \in here /\ Changes
  /\ here' = here \ {s} /\ dark' = dark \ {s} /\ shows' = [shows EXCEPT ![s] = NoSpace]
  /\ debt' = [debt EXCEPT ![s] = IF @ = NoSpace /\ s \in seen THEN shows[s] ELSE @]
  /\ seen' = seen \ {s} /\ noticed' = noticed \ {s}
  /\ owesPass' = TRUE
  /\ UNCHANGED <<plan, memory, restores, phase, laidOut>>

\* It comes back, with a default workspace and perhaps without a mode; if nobody saw
\* it go there is nothing to give back.
Returns(s) ==
  /\ s \notin here /\ here' = here \cup {s} /\ dark' \in {dark, dark \cup {s}}
  /\ \E w \in Free : shows' = [shows EXCEPT ![s] = w]
  /\ IF s \in noticed THEN UNCHANGED debt ELSE GivesUp({s})
  /\ owesPass' = TRUE
  /\ UNCHANGED <<plan, memory, restores, phase, laidOut, seen, noticed, changes>>

\* The user shows another workspace.
Picks(s) ==
  /\ s \in here \ dark /\ Changes
  /\ \E w \in Free : shows' = [shows EXCEPT ![s] = w]
  /\ GivesUp({s}) /\ seen' = seen \ {s}
  /\ UNCHANGED <<here, dark, plan, memory, passing, noticed>>

-----------------------------------------------------------------------------
(* workspaceMemory.                                                        *)

\* observe: whether a screen's workspace is its choice.
Remembers(s, v, back) == ShowsOne(s, v) /\ HardwareKey[s] \notin back

\* observe: screens that were not connected are returning, and those not seen now
\* are not; the first answer of all is how things are.
Observed(v) ==
  LET keys == {HardwareKey[s] : s \in Distinct(v)}
      initial == connected = {} /\ \A k \in Keys : last[k] = NoSpace
      back == returning \cup IF initial THEN {} ELSE keys \ connected
      chosen(k) == {v.shows[s] : s \in {t \in Distinct(v) :
                                          HardwareKey[t] = k /\ Remembers(t, v, back)}}
  IN [returning |-> back \cap keys,
      connected |-> keys,
      last |-> [k \in Keys |-> IF chosen(k) = {} THEN last[k]
                               ELSE CHOOSE w \in chosen(k) : TRUE]]

\* History: what the memory has seen, and who it has seen to be gone.
Notes ==
  /\ seen' = {s \in here : /\ HardwareKey[s] \in connected' \ returning'
                           /\ last'[HardwareKey[s]] = shows[s]}
  /\ noticed' = {s \in Screens \ here : HardwareKey[s] \notin connected'}

\* queryMonitors, for a probe.
Probes ==
  /\ LET m == Observed(Answer) IN
     last' = m.last /\ connected' = m.connected /\ returning' = m.returning
  /\ Notes
  /\ UNCHANGED <<desk, passing, debt, changes>>

ShownElsewhere(s, w, v) == \E t \in v.here \ {s} : ShowsOne(t, v) /\ v.shows[t] = w

\* assignedWorkspaceMonitors
AssignedElsewhere(s, w, v) == plan.home[w] \in v.here \ {s}

Back(v, m) == {s \in Distinct(v) : ShowsOne(s, v) /\ HardwareKey[s] \in m.returning}

\* due: the workspace each returning screen that works gets back.
Due(v, m) ==
  {<<s, m.last[HardwareKey[s]]>> : s \in {t \in Back(v, m) :
     LET w == m.last[HardwareKey[t]] IN
     /\ w \notin {NoSpace, v.shows[t]}
     /\ ~ShownElsewhere(t, w, v) /\ ~AssignedElsewhere(t, w, v)}}

-----------------------------------------------------------------------------
(* A pass: reads the monitors, applies the layout, reads them back, and    *)
(* gives workspaces back if the profile plans them.                        *)

\* The layout is on screen already: the pass ends, and gives nothing back.
AlreadyApplied ==
  /\ phase = "idle" /\ owesPass /\ owesPass' = FALSE
  /\ laidOut = here /\ dark = {}
  /\ GivesUp(here)
  /\ UNCHANGED <<desk, memory, restores, phase, laidOut, seen, noticed, changes>>

Applies ==
  /\ phase = "idle" /\ owesPass /\ owesPass' = FALSE
  /\ ~(laidOut = here /\ dark = {})
  /\ phase' = "applied" /\ dark' = {}
  /\ UNCHANGED <<here, shows, plan, memory, restores, laidOut, owed, changes>>

\* The readback fails: nothing is given back, nor remembered as applied.
ReadBackFails ==
  /\ phase = "applied" /\ Changes /\ phase' = "idle" /\ laidOut' = {}
  /\ GivesUp(here)
  /\ UNCHANGED <<desk, memory, restores, owesPass, seen, noticed>>

\* The monitors are read back and observed, and the screens that work are waited for
\* no more.  History: a workspace that is not to move is owed no more.
ReadsBack ==
  /\ phase = "applied" /\ laidOut' = here
  /\ LET v == Answer
         m == Observed(v)
     IN /\ last' = m.last /\ connected' = m.connected
        /\ returning' = m.returning \ {HardwareKey[s] : s \in Back(v, m)}
        /\ restores' = IF plan.enabled THEN Due(v, m) ELSE {}
        /\ GivesUp({s \in here : \/ ~plan.enabled \/ shows[s] = debt[s]
                                 \/ ShownElsewhere(s, debt[s], v)
                                 \/ debt[s] # NoSpace /\ AssignedElsewhere(s, debt[s], v)})
  /\ phase' = IF restores' = {} THEN "idle" ELSE "restoring"
  /\ Notes
  /\ UNCHANGED <<desk, owesPass, changes>>

\* The batch takes a workspace from a screen that shows it by now; what it asks of a
\* screen that has left comes to nothing.
ShowsWorkspaces ==
  /\ phase = "restoring" /\ phase' = "idle" /\ restores' = {}
  /\ LET given == {r \in restores : r[1] \in here}
         gets(s) == {r[2] : r \in {q \in given : q[1] = s}}
         loses(s) == s \in here /\ gets(s) = {} /\ \E r \in given : r[2] = shows[s]
     IN \E w \in Free : shows' = [s \in Screens |->
          CASE gets(s) # {} -> CHOOSE x \in gets(s) : TRUE
            [] loses(s) -> w
            [] OTHER -> shows[s]]
  /\ GivesUp({s \in here : shows'[s] = debt[s]} \cup ({r[1] : r \in restores} \ here))
  /\ seen' = {s \in seen : shows'[s] = shows[s]}
  /\ UNCHANGED <<here, dark, plan, memory, owesPass, laidOut, noticed, changes>>

\* The compositor refuses the batch: nobody asks again.
BatchFails ==
  /\ phase = "restoring" /\ Changes /\ phase' = "idle" /\ restores' = {}
  /\ GivesUp(here)
  /\ UNCHANGED <<desk, memory, owesPass, laidOut, seen, noticed>>

-----------------------------------------------------------------------------
PassSteps ==
  AlreadyApplied \/ Applies \/ ReadsBack \/ ShowsWorkspaces

Next ==
  \/ \E s \in Screens : Leaves(s) \/ Returns(s) \/ Picks(s)
  \/ Probes
  \/ PassSteps \/ ReadBackFails \/ BatchFails

\* A pass that is owed is taken and goes on.
FairSpec == Init /\ [][Next]_memoryVars /\ WF_memoryVars(PassSteps)

-----------------------------------------------------------------------------
\* "When it comes back ... the daemon shows the workspace that display last showed
\* instead, after applying the layout" (daemon.md:111): in the end a screen that
\* was seen to go is not left with Hyprland's default.  Excused are a workspace
\* shown by or assigned to another screen, a plan that is off, calls that fail, and
\* a pass that found the layout applied already.
Restored == \A s \in here : debt[s] = NoSpace

=============================================================================
