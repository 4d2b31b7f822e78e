--------------------------- MODULE DisplayFallbacks ---------------------------
(***************************************************************************)
(* internal/daemon/fallback.go and internal/profile/fallback.go: displays  *)
(* that do not come up at their saved settings.  One that drops right      *)
(* after connecting is woken gently from then on; one that keeps dropping, *)
(* or keeps coming back without a mode, is stepped down, and gets retries  *)
(* of its saved settings at growing intervals.                             *)
(*                                                                         *)
(* Displays plug, drop, lose their mode and sleep; Service.Run observes    *)
(* their events between its passes and arms the settle timer; clients run  *)
(* passes too and apply layouts by hand.  Times are ages, which stop       *)
(* counting where no comparison can tell them apart any more.              *)
(***************************************************************************)
EXTENDS Integers, Sequences, FiniteSetsExt

CONSTANTS
  Displays, Rates,    \* displays, and the refresh rates each of them offers
  Saved, SavedFirst,  \* settings a profile may save, and may hold at start: [hz, vrr]
  NoSetting, NotRestoring,
  Bounce, Short, Settle, MaxWait,  \* the thresholds of fallback.go, in ticks
  StateFiles,         \* what display-fallbacks.json may say of a display at start
  MaxFailures,        \* restoreFailures counts no further: the wait is MaxWait
  MaxFaults, MaxCalls \* bounds on what displays and people do

Never == -1           \* an age: it has not happened, or is forgotten
Ages == Never .. MaxWait
Steps == 0 .. 3       \* None, VRROff, LowerRefresh, SafeRefresh
SafeRate == 60

VARIABLES
  plugged, usable,    \* of each display: connected, showing a picture
  events,             \* connections and disconnections Run has not taken yet
  power,              \* "on", "idle" (displays asleep), "suspended"
  mem,                \* of each display: what displayFallbacks remembers
  saved, wanted, rule,\* settings saved, those the last pass read, those applied
  timer, trigger,     \* settleCh of Run, and a reconciliation it owes
  pass, asked,        \* who runs a pass, and the settings it asks for
  does,               \* what that pass does about them: "apply", or nothing, as they
                      \* are the "same" or were "refused"
  inMind, rejected,   \* the displays connected when it last applied any, and the
                      \* layout not to be tried again: sets of at most one
  \* history: a retry is on, retries that failed since one held, age of the last
  \* failure, whether a client's pass may have left a display that nobody times,
  \* and the displays that the last pass found without a picture
  trying, failed, sinceFailure, untimed, unlit,
  faults, calls

hardware == <<plugged, usable, events, power>>
passes == <<wanted, rule, pass, asked, does, inMind, rejected>>
tries == <<trying, failed, sinceFailure>>
history == <<tries, untimed, unlit>>
vars == <<hardware, mem, saved, passes, timer, trigger, history, faults, calls>>

\* displayFallback: a display's entry in the state file.
Fallback == [step : Steps, saved : Saved \cup {NoSetting}, gentle : BOOLEAN]

SteppedFrom(entry) == entry.step > 0 => entry.saved # NoSetting

\* The constants of fallback.go, and a file it has written.  The last conjunct is a
\* fact of arithmetic.
Thresholds ==
  /\ {Bounce, Short, Settle, MaxWait, MaxFailures, MaxFaults, MaxCalls} \subseteq Nat
  /\ Settle <= MaxWait
  /\ SavedFirst \subseteq Saved /\ NoSetting \notin Saved
  /\ StateFiles \subseteq Fallback /\ \A entry \in StateFiles : SteppedFrom(entry)
  /\ NotRestoring \notin Fallback
  /\ \A n \in 0 .. MaxFailures :
       2^n \in Nat /\ \A m \in 0 .. n : 2^m <= 2^n

-----------------------------------------------------------------------------
(* internal/profile/fallback.go                                            *)

\* safeRefreshBetter: at most 60 Hz before above it, then the closest.
Safer(r, s) ==
  IF (r > SafeRate) # (s > SafeRate) THEN r <= SafeRate
  ELSE IF r > SafeRate THEN r < s ELSE r > s

Safest == CHOOSE r \in Rates : \A s \in Rates \ {r} : Safer(r, s)

\* OutputWithFallback
WithFallback(out, step) ==
  LET slower == {r \in Rates : r < out.hz}
      hz == CASE step = 2 /\ slower # {} -> Max(slower)
              [] step = 3 /\ Safest < out.hz -> Safest
              [] OTHER -> out.hz
  IN IF step = 0 THEN out ELSE [hz |-> hz, vrr |-> FALSE]

\* NextFallback: the steps after one that change what is applied.
Gentler(out, step) ==
  {s \in Steps : s > step /\ WithFallback(out, s) # WithFallback(out, step)}

-----------------------------------------------------------------------------
(* displayFallbacks, for one display.                                      *)

Fresh == [step |-> 0, saved |-> NoSetting, gentle |-> FALSE]

\* What a daemon that starts knows: the steps of its state file.
Started(active) ==
  [known |-> FALSE, connected |-> Never, switched |-> Never, healthy |-> Never,
   settled |-> FALSE, fired |-> FALSE, strikes |-> 0, due |-> FALSE,
   active |-> active, restoring |-> NotRestoring, failures |-> 0]

\* Mutant of Wait: the wait does not grow.
WaitAlways(failures) == Settle

\* restoreWait
Wait(failures) == Min({MaxWait, Settle * 2^failures})

CountFailure(m) == [m EXCEPT !.failures = Min({@ + 1, MaxFailures})]

Connects(m) == [m EXCEPT !.connected = 0, !.switched = Never, !.settled = FALSE]

Within(age, limit) == age # Never /\ age <= limit

\* A retry of the saved settings knocked it off.
KnockedOff(m) ==
  Within(m.switched, Short) /\ m.active.step = 0 /\ m.active.saved # NoSetting

\* observeEvent, for a display that went away.
Drops(m) ==
  LET gone == [(IF KnockedOff(m) THEN CountFailure(m) ELSE m) EXCEPT
                 !.healthy = Never, !.fired = FALSE, !.connected = Never,
                 !.switched = Never, !.settled = FALSE]
  IN CASE ~m.active.gentle /\ Within(m.connected, Bounce) ->
            [gone EXCEPT !.active.gentle = TRUE]
       [] m.active.gentle /\ Within(m.switched, Short) -> [gone EXCEPT !.due = TRUE]
       [] OTHER -> gone

\* apply: a different saved setting means that the step no longer applies.
Renewed(m, out) ==
  IF m.active.saved \in {NoSetting, out} THEN m
  ELSE [m EXCEPT !.active = [Fresh EXCEPT !.gentle = m.active.gentle], !.healthy = Never]

\* apply: the saved settings held after a retry.
Held(m) ==
  IF /\ m.switched > Short /\ m.active.step = 0 /\ m.active.saved # NoSetting
     /\ m.restoring = NotRestoring
    THEN [m EXCEPT !.failures = 0] ELSE m

\* apply: takes a step that has become due.
StepsDown(m, out) ==
  LET next == Gentler(out, m.active.step) IN
  IF ~(m.due /\ m.known) THEN m
  ELSE IF next = {} THEN [m EXCEPT !.due = FALSE]
  ELSE [m EXCEPT !.due = FALSE, !.active.step = Min(next), !.active.saved = out]

\* A gently woken display is still too young for its settings.
TooYoung(m) == m.active.gentle /\ m.connected # Never /\ m.connected < Settle

\* Mutant of Retries: a new clock keeps the tick of the old one.
RetriesAlreadyFired(m, out, lit) ==
  LET may == m.known /\ m.active.step > 0 /\ lit /\ ~TooYoung(m) IN
  CASE ~may -> [m EXCEPT !.healthy = Never]
    [] may /\ m.healthy = Never -> [m EXCEPT !.healthy = 0]
    [] may /\ m.healthy >= Wait(m.failures) ->
         [m EXCEPT !.restoring = m.active, !.active.step = 0, !.active.saved = out,
            !.healthy = Never, !.strikes = 0, !.due = FALSE, !.switched = 0]
    [] OTHER -> m

\* apply: a display at a fallback that has shown a picture for long enough gets
\* its saved settings back.
Retries(m, out, lit) ==
  LET may == m.known /\ m.active.step > 0 /\ lit /\ ~TooYoung(m) IN
  IF ~m.known THEN m
  ELSE IF ~may THEN [m EXCEPT !.healthy = Never]
  ELSE IF m.healthy = Never THEN [m EXCEPT !.healthy = 0, !.fired = FALSE]
  ELSE IF m.healthy < Wait(m.failures) THEN m
  ELSE [m EXCEPT !.restoring = m.active, !.active.step = 0, !.active.saved = out,
          !.healthy = Never, !.strikes = 0, !.due = FALSE, !.switched = 0]

\* apply: whether a gently woken display has been up long enough.
Settled(m, lit) == lit /\ ~TooYoung(m)

\* apply: the moment a gently woken display gets its settings.
Switches(m, lit) ==
  IF m.known /\ m.active.gentle /\ Settled(m, lit) /\ m.switched = Never /\ m.connected # Never
    THEN [m EXCEPT !.switched = 0] ELSE m

\* apply, for one display with a picture or not (lit).
Passed(m, out, lit, seen) ==
  LET known == [m EXCEPT !.known = @ \/ seen, !.healthy = IF lit THEN @ ELSE Never]
      r == Retries(StepsDown(Held(Renewed(known, out)), out), out, lit)
  IN Switches(r, lit)

\* apply: the settings a display is to get.
Rule(m, out, lit) ==
  CASE ~m.known -> out
    [] m.known /\ m.active.gentle /\ ~Settled(m, lit) -> WithFallback(out, 3)
    [] OTHER -> WithFallback(out, m.active.step)

\* restoreFailed
RestoreFailed(m) ==
  IF m.restoring = NotRestoring THEN m
  ELSE [CountFailure(m) EXCEPT !.active = m.restoring, !.restoring = NotRestoring,
          !.healthy = Never, !.fired = FALSE, !.strikes = 0, !.due = FALSE]

\* observeApplied
Forgiven(m) == [m EXCEPT !.strikes = 0, !.restoring = NotRestoring]

\* observeFailedApply: the second strike makes a step due.
Struck(m) ==
  IF m.strikes = 0 THEN [m EXCEPT !.strikes = 1]
  ELSE [m EXCEPT !.strikes = 0, !.due = TRUE]

\* reset: a gentle wake stays.
ResetByHand(m) ==
  [m EXCEPT !.strikes = 0, !.due = FALSE, !.healthy = Never, !.fired = FALSE,
     !.restoring = NotRestoring, !.failures = 0,
     !.active = [Fresh EXCEPT !.gentle = m.active.gentle]]

\* pauseRestoration
Paused(m) == [m EXCEPT !.healthy = Never, !.fired = FALSE]

\* settleDelay still waits for the connection of this gently woken display.
Awaited(m) == m.connected # Never /\ m.switched = Never /\ ~m.settled

\* settleDelay: how long the displays still have to wait.
Delays(ms) ==
  UNION {{Max({0, Wait(ms[d].failures) - ms[d].healthy}) :
            x \in {y \in {1} : ms[d].healthy # Never /\ ~ms[d].fired}}
         \cup
         {Max({0, Settle - ms[d].connected}) :
            x \in {y \in {1} : ms[d].active.gentle /\ Awaited(ms[d])}} : d \in Displays}

\* armSettle
Arms(ms) == timer' = IF Delays(ms) = {} THEN Never ELSE Min(Delays(ms))

\* settleFired
TickDelivered(m) ==
  [m EXCEPT !.fired = @ \/ (m.healthy # Never /\ m.healthy >= Wait(m.failures)),
            !.settled = @ \/ (m.active.gentle /\ m.connected >= Settle)]

-----------------------------------------------------------------------------
NoFailure == [d \in Displays |-> 0]
NoneYet == [d \in Displays |-> Never]

Init ==
  /\ plugged \in [Displays -> BOOLEAN] /\ usable = plugged /\ events = <<>> /\ power = "on"
  /\ saved \in [Displays -> SavedFirst] /\ wanted = saved /\ rule = saved
  /\ \E file \in [Displays -> StateFiles] : mem = [d \in Displays |-> Started(file[d])]
  /\ timer = Never /\ trigger = TRUE /\ pass = "none" /\ asked = rule
  /\ does = "none" /\ inMind = {} /\ rejected = {}
  /\ trying = {} /\ failed = NoFailure /\ sinceFailure = NoneYet
  /\ untimed = FALSE /\ unlit = {}
  /\ faults \in 0 .. MaxFaults /\ calls \in 0 .. MaxCalls

Age(a, cap) == IF a = Never THEN a ELSE Min({a + 1, cap})

-----------------------------------------------------------------------------
(* History: retries of saved settings, and how they end.                   *)

\* A display with a step behind it was switched to its saved settings, has not gone
\* since, and is still to run them.
RunsSaved(m) == m.switched # Never /\ m.active.step = 0 /\ m.active.saved # NoSetting

\* They held.
Holds(m) == RunsSaved(m) /\ m.switched > Short /\ m.restoring = NotRestoring

\* The retries of these displays fail, at ages that others have had so far.
Retried(ds, ages) ==
  /\ trying' = {d \in trying \ ds : RunsSaved(mem'[d]) /\ ~Holds(mem'[d])}
  /\ failed' = [d \in Displays |->
       IF d \in ds THEN Min({failed[d] + 1, MaxFailures})
       ELSE IF Holds(mem'[d]) THEN 0 ELSE failed[d]]
  /\ sinceFailure' = [d \in Displays |->
       IF d \in ds THEN 0 ELSE IF Holds(mem'[d]) THEN Never ELSE ages[d]]

Fails(ds) == Retried(ds, sinceFailure)

-----------------------------------------------------------------------------
(* Displays and time.                                                      *)

Tick ==
  /\ mem' = [d \in Displays |-> [mem[d] EXCEPT
       !.connected = Age(@, Settle), !.switched = Age(@, Short + 1),
       !.healthy = Age(@, MaxWait)]]
  /\ timer' = IF timer > 0 THEN timer - 1 ELSE timer
  /\ Retried({}, [d \in Displays |-> Age(sinceFailure[d], MaxWait)])
  /\ UNCHANGED <<hardware, saved, passes, trigger, untimed, unlit, faults, calls>>

Fault == faults < MaxFaults /\ faults' = faults + 1 /\ UNCHANGED <<saved, calls>>

\* A display connects, with or without a mode.
Plug(d) ==
  /\ ~plugged[d] /\ plugged' = [plugged EXCEPT ![d] = TRUE]
  /\ \E u \in BOOLEAN : usable' = [usable EXCEPT ![d] = u]
  /\ events' = Append(events, [display |-> d, added |-> TRUE])
  /\ UNCHANGED <<power, mem, saved, passes, timer, trigger, history, faults, calls>>

\* A display disconnects, by itself or by hand.
Drop(d) ==
  /\ plugged[d] /\ Fault
  /\ plugged' = [plugged EXCEPT ![d] = FALSE] /\ usable' = [usable EXCEPT ![d] = FALSE]
  /\ events' = Append(events, [display |-> d, added |-> FALSE])
  /\ UNCHANGED <<power, mem, passes, timer, trigger, history>>

\* <-events: the loop takes an event between its passes, and a suspended one
\* ignores it.  A display that comes back is not the one a retry was for.
HearsEvent ==
  /\ pass # "loop" /\ events # <<>> /\ events' = Tail(events)
  /\ UNCHANGED <<plugged, usable, power, saved, passes, untimed, unlit, faults, calls>>
  /\ LET d == Head(events).display IN
     \/ power = "suspended" /\ UNCHANGED <<mem, timer, trigger, tries>>
     \/ /\ power # "suspended" /\ Head(events).added
        /\ mem' = [mem EXCEPT ![d] = Connects(@)] /\ Fails({})
        /\ Arms(mem') /\ trigger' = TRUE
     \/ /\ power # "suspended" /\ ~Head(events).added
        /\ mem' = [mem EXCEPT ![d] = Drops(@)]
        /\ Fails(IF Within(mem[d].switched, Short) THEN {d} \cap trying ELSE {})
        /\ Arms(mem') /\ trigger' = TRUE

\* A connected display loses its mode; a poll notices the change.
LosesMode(d) ==
  /\ usable[d] /\ Fault /\ usable' = [usable EXCEPT ![d] = FALSE]
  /\ trigger' = TRUE
  /\ UNCHANGED <<plugged, events, power, mem, passes, timer, history>>

\* The loop learns that displays go to sleep, or the machine does.
Sleeps ==
  /\ power = "on" /\ pass # "loop" /\ Fault /\ power' \in {"idle", "suspended"}
  /\ mem' = [d \in Displays |-> Paused(mem[d])]
  /\ UNCHANGED <<plugged, usable, events, passes, timer, trigger, history>>

\* They wake up, and the loop reconciles.
Wakes ==
  /\ power # "on" /\ power' = "on" /\ trigger' = TRUE
  /\ UNCHANGED <<plugged, usable, events, mem, saved, passes, timer, history, faults, calls>>

\* <-settleCh: a suspended loop forgets the tick it delivered.
TimerFires ==
  /\ timer = 0 /\ pass # "loop" /\ timer' = Never
  /\ mem' = [d \in Displays |-> TickDelivered(mem[d])]
  /\ trigger' = (trigger \/ power # "suspended")
  /\ UNCHANGED <<hardware, saved, passes, history, faults, calls>>

-----------------------------------------------------------------------------
(* A pass: applyBestLocked, from fallbacks.apply to its end.               *)

\* The saved settings are tried again: by the books, or after a step that a refused
\* layout has left half taken back.
RetryBegins(d) ==
  \/ mem[d].restoring = NotRestoring /\ mem'[d].restoring # NotRestoring
  \/ mem[d].active.step # 0 /\ mem'[d].active.step = 0 /\ mem'[d].active.saved # NoSetting

\* Every connected display shows a picture.
Lit == usable = plugged

\* applied.matches: what is asked for was applied to these displays, and is there.
InPlace(known) == asked' = rule /\ plugged \in known /\ Lit

\* rejected.matches: asked for again, with a picture on every display of the layout.
Matches(refused) == asked' \in refused /\ Lit /\ \A d \in Displays : plugged[d]

Begins(who, known, refused) ==
  /\ pass = "none" /\ power = "on" /\ pass' = who
  /\ mem' = [d \in Displays |-> Passed(mem[d], saved[d], usable[d], plugged[d])]
  /\ asked' = [d \in Displays |-> Rule(mem'[d], saved[d], usable[d])]
  /\ does' = CASE InPlace(known) -> "same" [] ~InPlace(known) /\ Matches(refused) -> "refused"
              [] OTHER -> "apply"
  /\ inMind' = known /\ rejected' = IF does' = "apply" THEN {} ELSE refused
  /\ wanted' = saved
  /\ trying' = {d \in Displays : (d \in trying \/ RetryBegins(d)) /\ RunsSaved(mem'[d])}
  /\ unlit' = {d \in Displays : ~usable[d]}
  /\ UNCHANGED <<hardware, saved, rule, timer, failed, sinceFailure, untimed, faults>>

LoopPassBegins ==
  trigger /\ Begins("loop", inMind, rejected) /\ trigger' = FALSE /\ UNCHANGED calls

\* Manage and SetProfileAuto reconcile too, and try a refused layout again; the latter
\* applies even what is there.
ClientPassBegins ==
  /\ calls < MaxCalls /\ calls' = calls + 1 /\ UNCHANGED trigger
  /\ \E known \in {inMind, {}} : Begins("client", known, {})

\* What every end of a pass does: only the loop arms the settle timer, and only
\* the loop tries again after a failure.
Ends(failure) ==
  /\ pass' = "none" /\ does' = "none" /\ asked' = rule'
  /\ UNCHANGED <<plugged, events, power, saved, wanted, unlit, calls>>
  /\ IF pass = "loop"
       THEN Arms(mem') /\ untimed' = FALSE /\ trigger' = (trigger \/ failure)
       ELSE untimed' = TRUE /\ UNCHANGED <<timer, trigger>>

\* The layout is there already, or was rejected before: nothing is applied.
PassAppliesNothing ==
  /\ does \in {"same", "refused"}
  /\ \/ does = "same" /\ mem' = [d \in Displays |-> Forgiven(mem[d])] /\ Fails({})
     \/ does = "refused" /\ UNCHANGED <<mem, tries>>
  /\ UNCHANGED <<rule, usable, inMind, rejected, faults>> /\ Ends(FALSE)

Applies == does = "apply"

\* rememberApplied, unless the readback fails.
Remembers ==
  \/ inMind' = {plugged} /\ UNCHANGED faults
  \/ inMind' = {} /\ faults < MaxFaults /\ faults' = faults + 1

\* The layout was applied and verified: what is connected shows a picture.
PassSucceeds ==
  /\ Applies
  /\ rule' = asked /\ usable' = plugged /\ Remembers
  /\ mem' = [d \in Displays |-> Forgiven(mem[d])]
  /\ Fails({}) /\ UNCHANGED rejected /\ Ends(FALSE)

\* The saved settings were rejected: back to the fallback.
RetryRejected ==
  /\ Applies /\ faults < MaxFaults /\ faults' = faults + 1
  /\ \E d \in Displays : mem[d].restoring # NotRestoring
  /\ mem' = [d \in Displays |-> RestoreFailed(mem[d])]
  /\ Fails({d \in trying : mem[d].restoring # NotRestoring})
  /\ UNCHANGED <<rule, usable, inMind, rejected>> /\ Ends(TRUE)

\* The verification rejected another layout, and the rollback brought every display
\* of it back: it is not tried again.
LayoutRejected ==
  /\ Applies /\ faults < MaxFaults /\ faults' = faults + 1
  /\ \A d \in Displays : mem[d].restoring = NotRestoring /\ plugged[d]
  /\ usable' = plugged /\ rejected' = {asked}
  /\ UNCHANGED <<rule, inMind, mem, tries>> /\ Ends(FALSE)

\* The apply failed otherwise, and the readback is counted against the displays
\* without a mode, unless nothing else is lit or a stale CRTC explains it.
PassFails ==
  /\ Applies /\ faults < MaxFaults /\ faults' = faults + 1
  /\ \A d \in Displays : mem[d].restoring = NotRestoring
  /\ \E off \in SUBSET Displays, blamed \in BOOLEAN :
       /\ usable' = [d \in Displays |-> plugged[d] /\ d \notin off]
       /\ mem' = [d \in Displays |->
            IF blamed /\ plugged[d] /\ ~usable'[d] THEN Struck(mem[d]) ELSE mem[d]]
  /\ UNCHANGED <<rule, inMind, rejected, tries>> /\ Ends(TRUE)

-----------------------------------------------------------------------------
(* People.                                                                 *)

Call == calls < MaxCalls /\ calls' = calls + 1

\* Preview and Commit of a saved layout: it is applied as it is.
AppliesByHand ==
  /\ pass = "none" /\ power = "on" /\ Call
  /\ rule' = saved /\ wanted' = saved /\ asked' = saved /\ usable' = plugged
  /\ Remembers /\ rejected' = {}
  /\ mem' = [d \in Displays |-> ResetByHand(mem[d])]
  /\ trying' = {} /\ failed' = NoFailure /\ sinceFailure' = NoneYet
  /\ UNCHANGED <<plugged, events, power, saved, timer, trigger, pass, does, untimed,
                 unlit>>

\* The profile is saved with other settings.
Edits ==
  /\ Call /\ UNCHANGED faults /\ pass = "none"
  /\ \E d \in Displays, s \in Saved : saved' = [saved EXCEPT ![d] = s]
  /\ UNCHANGED <<hardware, mem, passes, timer, trigger, history>>

\* The daemon restarts: active is what its file holds, the rest is gone.
Restart ==
  /\ Fault /\ pass' = "none" /\ does' = "none" /\ trigger' = TRUE /\ timer' = Never
  /\ mem' = [d \in Displays |-> Started(mem[d].active)]
  /\ trying' = {} /\ failed' = NoFailure /\ sinceFailure' = NoneYet
  /\ untimed' = FALSE /\ unlit' = {} /\ events' = <<>>
  /\ asked' = rule /\ inMind' = {} /\ rejected' = {}
  /\ UNCHANGED <<plugged, usable, power, wanted, rule>>

-----------------------------------------------------------------------------
Next ==
  \/ Tick \/ TimerFires \/ HearsEvent
  \/ \E d \in Displays : Plug(d) \/ Drop(d) \/ LosesMode(d)
  \/ Sleeps \/ Wakes
  \/ LoopPassBegins \/ ClientPassBegins
  \/ PassAppliesNothing \/ PassSucceeds \/ RetryRejected \/ LayoutRejected \/ PassFails
  \/ AppliesByHand \/ Edits \/ Restart

PassEnds ==
  PassAppliesNothing \/ PassSucceeds \/ RetryRejected \/ LayoutRejected \/ PassFails

Spec == Init /\ [][Next]_vars

\* Time passes, the timer fires, the loop takes what is owed to it and a pass ends;
\* that it takes its events too is not needed.
Fairness ==
  WF_vars(Tick) /\ WF_vars(TimerFires) /\ WF_vars(LoopPassBegins) /\ WF_vars(PassEnds)

FairSpec == Spec /\ Fairness

-----------------------------------------------------------------------------
Memory ==
  [known : BOOLEAN, connected : Never .. Settle, switched : Never .. Short + 1,
   healthy : Ages, settled : BOOLEAN, fired : BOOLEAN, strikes : {0, 1},
   due : BOOLEAN, active : Fallback, restoring : Fallback \cup {NotRestoring},
   failures : 0 .. MaxFailures]

\* What a retry goes back to is a step, and a step has settings it was taken from.
TypeOK ==
  /\ plugged \in [Displays -> BOOLEAN] /\ usable \in [Displays -> BOOLEAN]
  /\ events \in Seq([display : Displays, added : BOOLEAN])
  /\ power \in {"on", "idle", "suspended"} /\ pass \in {"none", "loop", "client"}
  /\ does \in {"none", "apply", "same", "refused"} /\ (does = "none" <=> pass = "none")
  /\ inMind \subseteq [Displays -> BOOLEAN]
  /\ saved \in [Displays -> Saved] /\ trigger \in BOOLEAN /\ untimed \in BOOLEAN
  /\ mem \in [Displays -> Memory]
  /\ \A d \in Displays :
       /\ SteppedFrom(mem[d].active)
       /\ mem[d].restoring # NotRestoring
            => mem[d].restoring.step > 0 /\ SteppedFrom(mem[d].restoring)
  /\ trying \subseteq Displays
  /\ failed \in [Displays -> 0 .. MaxFailures] /\ sinceFailure \in [Displays -> Ages]

\* A retry blanks the display (fallback.go:53).  After a retry that was rejected or
\* that the display was seen to drop out of, the next one waits for as long as a
\* first one, doubled for each such failure, up to the maximum, until one holds or
\* a person asks for the saved settings.
RetryBacksOff ==
  \A d \in Displays :
    RetryBegins(d) /\ failed[d] > 0 => sinceFailure[d] >= Min({MaxWait, Settle * 2^failed[d]})

\* A layout that was rejected, and that nothing changes any more, asks for other
\* settings than the display runs.
Refused(d) == \E layout \in rejected : layout[d] # rule[d]

\* A display that stays connected with a picture in the end runs what the profile
\* saved for it, whatever it was stepped down to: each wait is timed, each tick
\* reaches a pass, and one that fails is tried again.  It takes a pass that sees
\* the picture, and a loop's pass after a client's, to start the clock; and a layout
\* whose rejection left every display usable is not tried again (daemon.go:1161).
HasItsSettings(d) ==
  (plugged[d] /\ usable[d] /\ power = "on" /\ ~untimed /\ d \notin unlit /\ ~Refused(d))
    => rule[d] = wanted[d]

=============================================================================
