------------------------------ MODULE MCParts -------------------------------
(***************************************************************************)
(* The smaller components of the daemon and its clients, one at a time:    *)
(* "part" says which of them a behaviour is about, and the others keep     *)
(* their first state.                                                      *)
(***************************************************************************)
EXTENDS WriterOwnership, ProfileStore, ProfileMatching, WorkspacePlan, TLC

CONSTANTS
  Parts,
  Displays, Rates, NoSetting, NotRestoring, MaxFaults, MaxCalls,
  Connectors, MaxMishaps,
  Screens, Spaces, NoSpace, MaxChanges,
  Flat, MaxTurns, MaxFlips,
  Callers, Panels, MaxRequests, MaxDials,
  Laptop, Twin, Other, SavedBefore, Ordered

VARIABLES part

VARIABLES
  plugged, usable, events, power, mem, saved, wanted, rule, timer, trigger, pass, asked,
  does, inMind, rejected, trying, failed, sinceFailure, untimed, unlit, faults, calls

VARIABLES
  attached, routed, lit, clamshell, attempts, next, reported, console, stage, stopping,
  switches, sinceSwitch, mishaps

VARIABLES
  here, dark, shows, plan, last, connected, returning, restores, owesPass, phase,
  laidOut, seen, debt, noticed, changes

VARIABLES
  device, proxy, tablet, signals, sensorClaimed, retrying, readings, rotation,
  turnDue, turned, showing, before, setting, declined, slighted, unread, turns

VARIABLES
  lidAt, upowerAt, readable, lidSignals, listening, lastSent, states, watching,
  lidTold, flips

VARIABLES
  link, pending, lastID, spoiled, outcome, informed, requests, wire, serving,
  subscribed, status, token, publisher, missed, service, dials

fallbackVars ==
  <<plugged, usable, events, power, mem, saved, wanted, rule, timer, trigger, pass, asked,
    does, inMind, rejected, trying, failed, sinceFailure, untimed, unlit, faults, calls>>

consoleVars ==
  <<attached, routed, lit, clamshell, attempts, next, reported, console, stage, stopping,
    switches, sinceSwitch, mishaps>>

memoryVars ==
  <<here, dark, shows, plan, last, connected, returning, restores, owesPass, phase,
    laidOut, seen, debt, noticed, changes>>

rotationVars ==
  <<device, proxy, tablet, signals, sensorClaimed, retrying, readings, rotation,
    turnDue, turned, showing, before, setting, declined, slighted, unread, turns>>

lidVars ==
  <<lidAt, upowerAt, readable, lidSignals, listening, lastSent, states, watching,
    lidTold, flips>>

channelVars ==
  <<link, pending, lastID, spoiled, outcome, informed, requests, wire, serving,
    subscribed, status, token, publisher, missed, service, dials>>

\* Settings of two rates, of which the first is saved at the start, and a display
\* that starts with nothing remembered or stepped all the way down.
At144 == [hz |-> 144, vrr |-> TRUE]

At120 == [hz |-> 120, vrr |-> FALSE]

SteppedDown == [step |-> 2, saved |-> At144, gentle |-> TRUE]

F == INSTANCE DisplayFallbacks WITH
       Saved <- {At144, At120}, SavedFirst <- {At144},
       StateFiles <- {[step |-> 0, saved |-> NoSetting, gentle |-> FALSE], SteppedDown},
       Bounce <- 0, Short <- 1, Settle <- 2, MaxWait <- 3, MaxFailures <- 1

C == INSTANCE ConsoleRecovery WITH RetryWait <- 1, RetryMaxWait <- 4, MaxAttempts <- 3

ASSUME WaitsAreSound == F!Thresholds /\ C!Waits

\* Workspace 3 belongs on the first screen, or plans are off.
Home(s) == [enabled |-> TRUE, home |-> [w \in Spaces |-> IF w = 3 THEN s ELSE NoSpace]]

Homeless == [enabled |-> FALSE, home |-> [w \in Spaces |-> NoSpace]]

One == CHOOSE s \in Screens : TRUE

FirstShown == [s \in Screens |-> IF s = One THEN 1 ELSE 2]

W == INSTANCE WorkspaceMemory WITH
       FirstSpace <- FirstShown, HardwareKey <- FirstShown, Plans <- {Home(One), Homeless}

R == INSTANCE AutoRotation WITH Turns <- {0, 1}, ReadingCap <- 1

L == INSTANCE LidWatch WITH StateCap <- 1

I == INSTANCE IpcChannel WITH MaxStatus <- 1, WireCap <- 1

\* Three names, of which two share the file that is a link into a dotfile repository.
ListedNames == <<"A", "a", "b">>

FileOf == [n \in {"A", "a", "b"} |-> IF n = "b" THEN "fb" ELSE "fa"]

\* Displays of a model without serial numbers, and perhaps another. One of them may have
\* been saved on a connector before, and two on the hub.
Models == {Laptop, Twin, Other}

Docked ==
  LET Beside(u, c, at) == [key |-> <<u>>, match |-> u, name |-> c, on |-> TRUE, at |-> at]
  IN [outputs |-> {Beside(Laptop, 0, 1), Beside(Twin, 1, 0)}, strict |-> FALSE]

DockedTwice ==
  LET AtPlace(p, c, at) == [key |-> <<Twin, p>>, match |-> Twin, name |-> c, on |-> TRUE, at |-> at]
      panel == [key |-> <<Laptop>>, match |-> Laptop, name |-> 0, on |-> TRUE, at |-> 0]
  IN [outputs |-> {panel, AtPlace(11, 2, 2), AtPlace(12, 3, 1)}, strict |-> FALSE]

FirstProfiles ==
  {[n \in NameOrder |-> IF n \notin SavedBefore THEN NoProfile ELSE IF n = 1 THEN Docked ELSE DockedTwice]}

\* A compositor without workspace rules, or with one the user has written.
OneRule == <<[space |-> 2, on |-> Ordered, default |-> FALSE, persistent |-> TRUE]>>

NoneOrOne == {<<>>, OneRule}

Side == [i \in 1..Ordered |-> i]

-----------------------------------------------------------------------------
\* A part that is not looked at has one first state.
Init ==
  /\ part \in Parts
  /\ F!Init /\ faults + calls = 1
  /\ (part = "F" => \A d \in Displays : plugged[d] \/ mem[d].active = SteppedDown)
  /\ (part # "F" => faults = 1 /\ ~\E d \in Displays : plugged[d] \/ mem[d].active = SteppedDown)
  /\ C!Init /\ (part # "C" => ~clamshell /\ ~\E c \in Connectors : attached[c] \/ routed[c])
  /\ W!Init /\ here = Screens /\ (part # "W" => plan = Homeless)
  /\ R!Init /\ (part # "R" => device = 0 /\ proxy = "gone" /\ tablet = "none")
  /\ L!Init /\ (part # "L" => lidAt = "open" /\ readable = {})
  /\ I!Init
  /\ OwnershipInit
  /\ StoreInit /\ losses = 0 /\ ops = (IF refresh.kind = "off" THEN 0 ELSE 1)
  /\ (part # "S" => refresh.kind = "off")
  /\ MatchInit
  /\ PlanInit /\ (part # "P" => assigned = <<>>)

Only(p, A) ==
  /\ part = p /\ A /\ UNCHANGED part
  /\ IF p = "F" THEN TRUE ELSE UNCHANGED fallbackVars
  /\ IF p = "C" THEN TRUE ELSE UNCHANGED consoleVars
  /\ IF p = "W" THEN TRUE ELSE UNCHANGED memoryVars
  /\ IF p = "R" THEN TRUE ELSE UNCHANGED rotationVars
  /\ IF p = "L" THEN TRUE ELSE UNCHANGED lidVars
  /\ IF p = "I" THEN TRUE ELSE UNCHANGED channelVars
  /\ IF p = "O" THEN TRUE ELSE UNCHANGED ownershipVars
  /\ IF p = "S" THEN TRUE ELSE UNCHANGED storeVars
  /\ IF p = "M" THEN TRUE ELSE UNCHANGED matchVars
  /\ IF p = "P" THEN TRUE ELSE UNCHANGED planVars

vars ==
  <<part, fallbackVars, consoleVars, memoryVars, rotationVars, lidVars,
    channelVars, ownershipVars, storeVars, matchVars, planVars>>

Clients == Callers \cup Panels

Next ==
  \/ Only("F", F!Next)
  \/ Only("C", C!Next)
  \/ Only("W", W!Next)
  \/ Only("R", R!Next)
  \/ Only("L", L!Next)
  \/ \E c \in Clients : Only("I", I!Dials(c) \/ I!HangsUp(c) \/ I!Serves(c))
  \/ \E c \in Callers : Only("I", I!Caller(c))
  \/ \E c \in Panels : Only("I", I!Panel(c))
  \/ Only("I", I!Changes \/ I!Publishes \/ I!Stops \/ I!Exits \/ I!Restarts)
  \/ Only("O", OwnershipNext)
  \/ Only("S", StoreNext)
  \/ Only("M", MatchNext)
  \/ Only("P", PlanNext)

At(p, A) == part = p /\ A

\* The fairness each component's module states.
Fairness ==
  /\ WF_fallbackVars(At("F", F!Tick)) /\ WF_fallbackVars(At("F", F!TimerFires)) /\ WF_fallbackVars(At("F", F!LoopPassBegins))
  /\ WF_fallbackVars(At("F", F!PassEnds))
  /\ WF_consoleVars(At("C", C!Tick)) /\ WF_consoleVars(At("C", C!PassFails)) /\ WF_consoleVars(At("C", C!Recovers))
  /\ WF_memoryVars(At("W", W!PassSteps))
  /\ WF_rotationVars(At("R", R!Follows)) /\ WF_rotationVars(At("R", R!TakesReading)) /\ WF_rotationVars(At("R", R!PollsSwitch))
  /\ WF_rotationVars(At("R", R!TurnPass \/ R!TurnRejected \/ R!TurnPaused))
  /\ WF_rotationVars(At("R", R!PreviewEnds))
  /\ WF_rotationVars(At("R", R!SettingApplied \/ R!SettingNotApplied))
  /\ WF_lidVars(At("L", L!UPowerLearns)) /\ WF_lidVars(At("L", L!TakesSignal)) /\ WF_lidVars(At("L", L!Polls))
  /\ WF_lidVars(At("L", L!RunTakesState))
  /\ WF_channelVars(At("I", I!Publishes)) /\ WF_channelVars(At("I", I!Exits))
  /\ \A c \in Clients : WF_channelVars(At("I", I!Serves(c)))
  /\ \A c \in Panels : WF_channelVars(At("I", I!Panel(c)))
  /\ \A d \in Daemons : /\ WF_ownershipVars(At("O", Release(d))) /\ WF_ownershipVars(At("O", PollRecords(d)))
                        /\ WF_ownershipVars(At("O", PollStops(d))) /\ WF_ownershipVars(At("O", ManageClaims(d)))
  /\ WF_storeVars(At("S", DoesStep)) /\ WF_storeVars(At("S", Ends)) /\ WF_storeVars(At("S", Reads))
  /\ WF_storeVars(At("S", TakesRefresh)) /\ WF_storeVars(At("S", TakesAnswer)) /\ WF_storeVars(At("S", Ticks))

Spec == Init /\ [][Next]_vars /\ Fairness

-----------------------------------------------------------------------------
\* A retry of a display's settings that failed, and a console switch, both of which
\* blank displays, are followed by longer and longer waits.
BackoffsHold ==
  [][(part = "F" => F!RetryBacksOff) /\ (part = "C" => C!SwitchBacksOff)]_vars

\* A display that stays connected with a picture ends up with its saved settings, and
\* one the kernel keeps stuck is freed, with the seat back on its console.
DisplaysRecover ==
  []<>((part = "F" => \A d \in Displays : F!HasItsSettings(d)) /\ (part = "C" => C!Freed))

\* What was taken is given back in the end: the workspace to a display that returns,
\* and the watcher once nobody manages the displays.
TakenIsReturned ==
  []<>((part = "W" => W!Restored) /\ (part = "O" => WatcherIsBack))

\* The panel comes to stand as the device, the switch and the settings say, and the
\* daemon to know how the lid stands.
SensorsAreHeard ==
  []<>((part = "R" => R!AsDeviceStands) /\ (part = "L" => L!Told))

\* Subscribers come to know the newest status, and a daemon told to stop does.
ClientsAreServed == []<>(part = "I" => I!AllTold /\ I!Stopped)

\* A call that was answered in time does not fail for an earlier one's delay.
LateReplyIsHarmless == I!LateReplyIsHarmless

=============================================================================
