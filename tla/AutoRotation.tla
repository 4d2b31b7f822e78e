--------------------------- MODULE AutoRotation ---------------------------
(***************************************************************************)
(* internal/orientation/orientation.go and internal/daemon/rotation.go:    *)
(* the built-in panel turns with the device.                               *)
(*                                                                         *)
(* One goroutine claims the accelerometer of iio-sensor-proxy and sends    *)
(* its readings; Service.Run observes them, polls the tablet-mode switch   *)
(* and owes a pass for each turn; people lock, reverse and calibrate       *)
(* through calls of their own.  A pass is one step here: it reads the turn *)
(* under writeMu and puts it on the screen.  The sensor service, which may *)
(* be gone, or refuse a session that is not active yet, is external.       *)
(***************************************************************************)
EXTENDS Integers, Sequences

CONSTANTS
  Turns,        \* orientations with a quarter turn that the device takes, in 0 .. 3
  Flat,         \* "undefined": the device lies flat
  ReadingCap,   \* capacity of the channel of readings
  MaxTurns      \* bound on what device, services and people do

Claimable == {"gone", "refuses", "grants"}
Switches == {"none", "folded", "unfolded", "unreadable"}

VARIABLES
  device, proxy, tablet,       \* the device, its sensor service, its switch
  signals,                     \* D-Bus signals on their way to follow
  sensorClaimed, retrying,           \* follow
  readings,
  rotation,                    \* autoRotation
  turnDue, turned,             \* a pass is owed; the turn on screen
  showing, before,             \* a preview is on screen, and what it replaced
  setting,                     \* where SetRotation is
  declined,                    \* s.rejected: the turn whose layout was rejected, if any
  slighted,                    \* history: the apply of a SetRotation did not happen
  unread,                      \* history: the last reading of a claimed sensor failed
  turns

sensor == <<signals, sensorClaimed, retrying, readings, unread>>
setup == <<device, proxy, tablet>>
onScreen == <<turnDue, turned, showing, before, setting, declined, slighted>>
rotationVars == <<setup, sensor, rotation, onScreen, turns>>

-----------------------------------------------------------------------------
(* autoRotation.                                                           *)

\* newAutoRotation, of what rotation.json says.
Loaded(file) ==
  [available |-> FALSE, orientation |-> Flat, quarters |-> 0,
   tabletSwitch |-> FALSE, tabletMode |-> FALSE,
   locked |-> file.locked, lockedQuarters |-> file.lockedQuarters,
   reversed |-> file.reversed, upright |-> file.upright]

\* turnLocked
Turn(r) ==
  CASE ~r.available -> 0
    [] r.available /\ r.locked -> r.lockedQuarters
    [] r.available /\ ~r.locked /\ r.tabletSwitch /\ ~r.tabletMode -> 0
    [] OTHER -> (IF r.reversed THEN r.upright - r.quarters ELSE r.quarters - r.upright) % 4

\* observe: lying flat keeps the last turn.
Observed(r, reading) ==
  [r EXCEPT !.available = reading.available,
            !.orientation = IF reading.available THEN reading.orientation ELSE Flat,
            !.quarters = IF reading.available /\ reading.orientation \in 0 .. 3
                           THEN reading.orientation ELSE @]

\* observeTabletMode: a switch that cannot be read must not stop rotation.
SwitchObserved(r) ==
  IF tablet \in {"folded", "unfolded"}
    THEN [r EXCEPT !.tabletSwitch = TRUE, !.tabletMode = (tablet = "folded")]
    ELSE [r EXCEPT !.tabletSwitch = FALSE]

\* configure: a lock holds the turn of the moment.
Locked(r, lock) ==
  [r EXCEPT !.locked = lock, !.lockedQuarters = IF lock /\ ~r.locked THEN Turn(r) ELSE @]
Calibrated(r) == [r EXCEPT !.upright = r.quarters, !.locked = FALSE]

-----------------------------------------------------------------------------
Unlocked == [locked |-> FALSE, lockedQuarters |-> 0, reversed |-> FALSE, upright |-> 0]

Init ==
  /\ device \in Turns /\ proxy \in Claimable /\ tablet \in Switches
  /\ signals = <<"start">> /\ sensorClaimed = FALSE /\ retrying = FALSE /\ readings = <<>>
  /\ rotation = SwitchObserved(Loaded(Unlocked))
  /\ turnDue = TRUE /\ turned = 0 /\ showing = FALSE /\ before = 0 /\ setting = "none" /\ slighted = FALSE
  /\ declined = {} /\ unread = FALSE
  /\ turns = 0

Takes == turns < MaxTurns /\ turns' = turns + 1

-----------------------------------------------------------------------------
(* The device and its services.                                            *)

DeviceTurns ==
  /\ Takes /\ device' \in (Turns \cup {Flat}) \ {device}
  /\ signals' = IF proxy = "gone" THEN signals ELSE Append(signals, "moved")
  /\ UNCHANGED <<proxy, tablet, sensorClaimed, retrying, readings, unread, rotation, onScreen>>

\* Only its coming and going is announced.
ProxyChanges ==
  /\ Takes /\ proxy' \in Claimable \ {proxy}
  /\ signals' = CASE proxy' = "gone" -> Append(signals, "gone")
                  [] proxy = "gone" -> Append(signals, "owner")
                  [] OTHER -> signals
  /\ UNCHANGED <<device, tablet, sensorClaimed, retrying, readings, unread, rotation, onScreen>>

Folds ==
  /\ tablet \in {"folded", "unfolded"} /\ Takes
  /\ tablet' \in {"folded", "unfolded"} \ {tablet}
  /\ UNCHANGED <<device, proxy, sensor, rotation, onScreen>>

-----------------------------------------------------------------------------
(* follow                                                                  *)

Sends(reading) == Len(readings) < ReadingCap /\ readings' = Append(readings, reading)

Unavailable == [available |-> FALSE, orientation |-> Flat]

SendsNothing == Sends(Unavailable) /\ unread' = FALSE /\ UNCHANGED turns

\* current: a property that cannot be read, or a service without an accelerometer,
\* reads as unavailable.
Current(fails) ==
  IF fails \/ proxy = "gone" THEN Unavailable ELSE [available |-> TRUE, orientation |-> device]

SendsCurrent ==
  \E fails \in BOOLEAN :
    /\ Sends(Current(fails)) /\ unread' = fails
    /\ IF fails THEN Takes ELSE UNCHANGED turns

\* Mutant of Claims: the timer of a first refusal is the only one.
ClaimsTwice(rearms) ==
  /\ sensorClaimed' = (proxy = "grants")
  /\ retrying' = (proxy = "refuses" /\ ~rearms)
  /\ IF sensorClaimed' THEN SendsCurrent ELSE SendsNothing

\* claim: a refusal is retried, a missing service announces itself.
Claims(rearms) ==
  /\ sensorClaimed' = (proxy = "grants")
  /\ retrying' = (proxy = "refuses")
  /\ IF sensorClaimed' THEN SendsCurrent ELSE SendsNothing

RetriesClaim ==
  /\ retrying /\ Claims(TRUE)
  /\ UNCHANGED <<setup, signals, rotation, onScreen>>

Hears(signal) ==
  /\ signals # <<>> /\ Head(signals) = signal /\ signals' = Tail(signals)
  /\ UNCHANGED <<setup, rotation, onScreen>>

HearsOwner == (Hears("start") \/ Hears("owner")) /\ Claims(FALSE)

HearsGone ==
  /\ Hears("gone") /\ sensorClaimed' = FALSE /\ retrying' = FALSE
  /\ SendsNothing

\* Another client's claim moves the properties too.
HearsMoved ==
  /\ Hears("moved") /\ UNCHANGED <<sensorClaimed, retrying>>
  /\ IF sensorClaimed THEN SendsCurrent ELSE UNCHANGED <<readings, unread, turns>>

Follows == RetriesClaim \/ HearsOwner \/ HearsGone \/ HearsMoved

-----------------------------------------------------------------------------
(* Service.Run                                                             *)

\* A change of the turn owes a pass.
Becomes(r) == rotation' = r /\ turnDue' = (turnDue \/ Turn(r) # Turn(rotation))

TakesReading ==
  /\ readings # <<>> /\ readings' = Tail(readings)
  /\ Becomes(Observed(rotation, Head(readings)))
  /\ UNCHANGED <<setup, signals, sensorClaimed, retrying, unread, turned, showing, before, setting>>
  /\ UNCHANGED <<declined, slighted, turns>>

PollsSwitch ==
  /\ SwitchObserved(rotation) # rotation /\ Becomes(SwitchObserved(rotation))
  /\ UNCHANGED <<setup, sensor, turned, showing, before, setting, declined, slighted, turns>>

\* A pass that finds its turn on screen applies nothing, if the daemon remembers
\* that; any other leaves nothing rejected.
TurnShown ==
  /\ turned' = Turn(rotation)
  /\ \/ declined' = {}
     \/ turned = Turn(rotation) /\ UNCHANGED declined

\* A rejected layout is applied no more, until another one is.
Paused == Turn(rotation) \in declined /\ Turn(rotation) # turned

PassBegins == turnDue /\ ~showing /\ setting # "calibrated" /\ turnDue' = FALSE

\* A pass that stands down for a preview, or fails with the displays or the old
\* configuration in doubt, stays owed (Run's recovery).
TurnPass ==
  /\ PassBegins /\ ~Paused /\ TurnShown /\ slighted' = FALSE
  /\ UNCHANGED <<setup, sensor, rotation, showing, before, setting, turns>>

\* The layout fails its verification and the old one is back: Run's recovery stops.
TurnRejected ==
  /\ PassBegins /\ ~Paused /\ Turn(rotation) # turned /\ Takes
  /\ declined' = {Turn(rotation)}
  /\ UNCHANGED <<setup, sensor, rotation, turned, showing, before, setting, slighted>>

TurnPaused ==
  /\ PassBegins /\ Paused
  /\ UNCHANGED <<setup, sensor, rotation, turned, showing, before, setting, declined, slighted, turns>>

\* A preview shows a layout turned as the device is; a commit keeps it and forgets
\* what was rejected, a revert brings back the screen that was there.
PreviewBegins ==
  /\ Takes /\ ~showing /\ setting # "calibrated" /\ showing' = TRUE
  /\ turned' = Turn(rotation) /\ before' = turned
  /\ UNCHANGED <<setup, sensor, rotation, turnDue, setting, declined, slighted>>
PreviewEnds ==
  /\ showing /\ showing' = FALSE /\ before' = 0
  /\ \/ declined' = {} /\ UNCHANGED turned
     \/ turned' = before /\ UNCHANGED declined
  /\ UNCHANGED <<setup, sensor, rotation, turnDue, setting, slighted, turns>>

-----------------------------------------------------------------------------
(* SetRotation: the setting is written, then applied.                      *)

Sets(r, stage) ==
  /\ setting = "none" /\ Takes /\ rotation' = r
  /\ setting' = IF Turn(r) # Turn(rotation) THEN stage ELSE "none"
  /\ UNCHANGED <<setup, sensor, turnDue, turned, showing, before, declined, slighted>>

Locks == \E lock \in BOOLEAN : Sets(Locked(rotation, lock), "set")
Reverses == Sets([rotation EXCEPT !.reversed = ~@], "set")

\* It holds writeMu until the end, and needs a reading and no preview.
Calibrates ==
  /\ ~showing /\ rotation.available /\ rotation.orientation # Flat
  /\ Sets(Calibrated(rotation), "calibrated")

SettingApplied ==
  /\ setting # "none" /\ ~showing /\ ~Paused /\ setting' = "none"
  /\ TurnShown /\ slighted' = FALSE
  /\ UNCHANGED <<setup, sensor, rotation, turnDue, showing, before, turns>>

\* The apply stands down for a preview, is paused, is rejected or fails: nobody
\* applies the turn later.
SettingNotApplied ==
  /\ setting # "none" /\ setting' = "none" /\ slighted' = TRUE
  /\ \/ (showing \/ Paused) /\ UNCHANGED <<declined, turns>>
     \/ ~showing /\ ~Paused /\ Takes /\ declined' \in {{}, {Turn(rotation)}}
  /\ UNCHANGED <<setup, sensor, rotation, turnDue, turned, showing, before>>

\* The daemon starts anew, with what configure wrote, and reconciles; the proxy
\* forgets the claim.
RotationRestarts ==
  /\ Takes
  /\ rotation' = SwitchObserved(Loaded(rotation))
  /\ signals' = <<"start">> /\ sensorClaimed' = FALSE /\ retrying' = FALSE /\ readings' = <<>>
  /\ turnDue' = TRUE /\ showing' = FALSE /\ before' = 0 /\ setting' = "none"
  /\ declined' = {} /\ slighted' = FALSE /\ unread' = FALSE
  /\ UNCHANGED <<setup, turned>>

-----------------------------------------------------------------------------
Next ==
  \/ DeviceTurns \/ ProxyChanges \/ Folds
  \/ Follows \/ TakesReading \/ PollsSwitch
  \/ TurnPass \/ TurnRejected \/ TurnPaused
  \/ PreviewBegins \/ PreviewEnds
  \/ Locks \/ Reverses \/ Calibrates \/ SettingApplied \/ SettingNotApplied
  \/ RotationRestarts

\* follow runs on, Run takes its readings, polls the switch and takes the pass it
\* owes; previews end and calls return.
FairSpec ==
  /\ Init /\ [][Next]_rotationVars
  /\ WF_rotationVars(Follows) /\ WF_rotationVars(TakesReading) /\ WF_rotationVars(PollsSwitch)
  /\ WF_rotationVars(TurnPass \/ TurnRejected \/ TurnPaused) /\ WF_rotationVars(PreviewEnds)
  /\ WF_rotationVars(SettingApplied \/ SettingNotApplied)

-----------------------------------------------------------------------------
\* What the panel should be turned by, from the device as it is.
Wanted ==
  LET r == [rotation EXCEPT !.available = (proxy = "grants"),
                            !.quarters = IF device = Flat THEN @ ELSE device]
  IN Turn(SwitchObserved(r))

\* However readings, refused claims, rejected layouts, previews, locks and passes
\* interleave, the panel in the end stands as device, switch and settings say.
\* Excused are a service that has come to refuse, a reading that failed, which
\* nobody repeats, a turn whose layout was rejected, and a SetRotation whose apply
\* did not happen.
AsDeviceStands ==
  proxy = "refuses" \/ unread \/ slighted \/ Wanted \in declined \/ turned = Wanted

=============================================================================
