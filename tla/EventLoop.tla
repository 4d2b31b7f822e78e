------------------------------ MODULE EventLoop ------------------------------
(***************************************************************************)
(* Service.Run of internal/daemon/daemon.go: the goroutine that turns      *)
(* hotplug, lid, suspend and sensor events into reconciliations, with its  *)
(* probe worker, its trigger channel, its debounce and recovery timers and *)
(* its two guards, against displays, a lid and a machine that move at any  *)
(* time and clients that hold the writer mutex or preview a layout.        *)
(*                                                                         *)
(* A layout is the situation it was made for: the displays connected, the  *)
(* lid and the turn of the device.  Time is left out: an armed timer may   *)
(* fire at any moment, and delays only order what may happen anyway.       *)
(***************************************************************************)
EXTENDS Integers, Sequences

CONSTANTS
  Setups,          \* sets of displays that can be connected
  NoDisplays,      \* the one with none, a member of Setups if that can happen
  TurnValues,      \* readings of the orientation sensor
  NoLayout, NoProbe, NoView, Nobody, Loop, Client,
  UPower,          \* whether lid changes are signalled, or polled
  TriggerCap,      \* capacity of the trigger channel, 8 in the code
  AnswerCap,       \* answers waiting: one in probeResults, one with the worker
  WakeRetryLimit,  \* wakeRetryLimit, 3 in the code
  MaxMoves,        \* bound on what displays, lid, device, user and machine do
  MaxFaults,       \* bound on failing reads, applies and event sockets
  MaxCalls         \* bound on client operations

ASSUME LoopAssumption ==
  /\ Nobody \notin {Loop, Client} /\ Loop # Client
  /\ UPower \in BOOLEAN
  /\ TriggerCap \in Nat \ {0} /\ AnswerCap \in Nat \ {0}
  /\ WakeRetryLimit \in Nat \ {0}
  /\ MaxMoves \in Nat \ {0} /\ MaxFaults \in Nat /\ MaxCalls \in Nat

Lids == {"open", "closed"}
Powers == {"awake", "partial", "dark"}  \* all, some or no displays lit

VARIABLES
  \* the machine
  setup, power, lid, machine,
  \* what its watchers have yet to deliver
  events, socket, lidEvents, lidLast, sleepEvents,
  \* what the service shares with its clients
  shown, rejected, lastSeen, lidState, turn, writer, view, preview,
  wakeRequested,
  \* locals of Run and its channels
  triggers, request, answers, suspended, pending, pendingFresh, probing,
  guard, wakeRetries, recovery, timer,
  \* history: since the last pass of the loop began, a trigger was dropped, a
  \* hotplug was missed that no poll will notice, a lid event was ignored, or a
  \* lid change a pass had read was undone before the next poll of the switch; or
  \* that pass could not read the switch, and took it to be where it is not
  lost,
  \* bounds
  moves, faults, calls

world    == <<setup, power, lid, machine>>
streams  == <<events, socket, lidEvents, lidLast, sleepEvents>>
screen   == <<shown, rejected, lastSeen>>
service  == <<screen, lidState, turn, writer, view, preview, wakeRequested>>
probes   == <<request, answers>>
debounce == <<pending, pendingFresh, timer>>
wake     == <<guard, wakeRetries>>
queue    == <<triggers, lost>>
loop     == <<queue, probes, suspended, debounce, probing, wake, recovery>>
bounds   == <<moves, faults, calls>>
vars     == <<world, streams, service, loop, bounds>>

\* What an apply puts on screen for the displays it saw.
Target(s) == [setup |-> s, lid |-> lidState, turn |-> turn]

\* The monitor state hash: which displays there are and how they are set.
Hash(s) == [setup |-> s, shown |-> shown]

\* WakeDisplays: none, some or all of the displays light up.
Lights(p) == power' \in (IF p = "awake" THEN {p} ELSE {p, "partial", "awake"})

Fault == faults < MaxFaults /\ faults' = faults + 1

\* probeGeneration is only ever compared with the generation a trigger, a probe
\* or a debounce carries, so each of them has instead whether it is fresh, and
\* a new generation makes all of them stale; so is a debounce that is over.
Stale(t) == [stale |-> t.stale + t.fresh, fresh |-> 0]

\* What becomes of a request and of an answer nobody will look at.
OldRequest == [fresh |-> FALSE, poll |-> FALSE]
OldAnswer == [fresh |-> FALSE, poll |-> FALSE, ok |-> FALSE, power |-> "awake",
              hash |-> NoLayout]

StaleProbes ==
  /\ request' = IF request = NoProbe THEN NoProbe ELSE OldRequest
  /\ answers' = [k \in DOMAIN answers |-> OldAnswer]

\* Mutant of Push: one trigger more than the channel holds.
PushBeyond(t) == triggers' = [t EXCEPT !.fresh = @ + 1] /\ UNCHANGED lost

\* pushTrigger: a full channel drops the trigger.
Push(t) ==
  IF t.stale + t.fresh < TriggerCap
    THEN triggers' = [t EXCEPT !.fresh = @ + 1] /\ UNCHANGED lost
    ELSE triggers' = t /\ lost' = TRUE

\* requestProbe: the newest request replaces one the worker has not taken.
Request(poll) == request' = [fresh |-> TRUE, poll |-> poll]

\* Mutant of ReadsLid: a pass trusts the cached lid.
TrustsCachedLid == UNCHANGED <<lidState, faults>>

\* refreshLidState: a switch that cannot be read leaves the cached state.
ReadsLid ==
  \/ lidState' = lid /\ UNCHANGED faults
  \/ Fault /\ UNCHANGED lidState

-----------------------------------------------------------------------------
\* The daemon may start when the machine has just said that it will sleep, which
\* counts as its first move.
Init ==
  /\ setup \in Setups /\ power = "awake" /\ lid \in Lids
  /\ machine \in {"on", "asleep"}
  /\ events = 0 /\ socket = TRUE /\ lidEvents = <<>> /\ lidLast = lid
  /\ sleepEvents = <<>>
  /\ shown = NoLayout /\ rejected = NoLayout /\ lastSeen = NoLayout
  /\ lidState = lid /\ turn \in TurnValues
  /\ writer = Nobody /\ view = NoView /\ preview = FALSE /\ wakeRequested = FALSE
  /\ triggers = [stale |-> 0, fresh |-> 1] /\ lost = FALSE
  /\ request = NoProbe /\ answers = <<>>
  /\ suspended = FALSE /\ pending = FALSE /\ pendingFresh = FALSE /\ timer = FALSE
  /\ probing = FALSE /\ guard = FALSE /\ wakeRetries = 0 /\ recovery = FALSE
  /\ moves = (IF machine = "asleep" THEN 1 ELSE 0) /\ faults = 0 /\ calls = 0

-----------------------------------------------------------------------------
(* Displays, lid, user and machine, and the watchers that report them.     *)

Moves == moves < MaxMoves /\ moves' = moves + 1 /\ UNCHANGED <<faults, calls>>

Hotplug ==
  /\ Moves
  /\ setup' \in Setups /\ power' \in Powers
  /\ setup' = NoDisplays => power' = power
  /\ events' = IF socket THEN events + 1 ELSE events
  /\ lost' = (lost \/ (~socket /\ (writer # Nobody \/ Hash(setup') = lastSeen)))
  /\ UNCHANGED <<lid, machine, socket, lidEvents, lidLast, sleepEvents, service,
                 triggers, probes, suspended, debounce, probing, wake, recovery>>

UserIdles ==
  /\ Moves /\ power' = "dark"
  /\ UNCHANGED <<setup, lid, machine, streams, service, loop>>

UserStirs ==
  /\ power # "awake" /\ power' = "awake"
  /\ UNCHANGED <<setup, lid, machine, streams, service, loop, bounds>>

\* UPower signals every change; without it the switch is polled.
LidMoves ==
  /\ Moves /\ lid' \in Lids \ {lid}
  /\ IF UPower
       THEN lidEvents' = Append(lidEvents, lid') /\ lidLast' = lid' /\ UNCHANGED lost
       ELSE /\ UNCHANGED <<lidEvents, lidLast>>
            /\ lost' = (lost \/ (lid' = lidLast /\ lidState # lid'))
  /\ UNCHANGED <<setup, power, machine, events, socket, sleepEvents, service,
                 triggers, probes, suspended, debounce, probing, wake, recovery>>

LidPolled ==
  /\ lid # lidLast /\ lidLast' = lid
  /\ lidEvents' = Append(lidEvents, lid)
  /\ UNCHANGED <<world, events, socket, sleepEvents, service, loop, bounds>>

Sleeps ==
  /\ Moves /\ machine = "on" /\ machine' = "asleep"
  /\ power' \in {power, "dark"}
  /\ sleepEvents' = Append(sleepEvents, TRUE)
  /\ UNCHANGED <<setup, lid, events, socket, lidEvents, lidLast, service, loop>>

Resumes ==
  /\ machine = "asleep" /\ machine' = "on"
  /\ sleepEvents' = Append(sleepEvents, FALSE)
  /\ UNCHANGED <<setup, power, lid, events, socket, lidEvents, lidLast,
                 service, loop, bounds>>

\* The socket closes, with the events in it; eventRetry subscribes again.
SocketCloses ==
  /\ Fault /\ socket /\ socket' = FALSE /\ events' = 0
  /\ lost' = (lost \/ events > 0)
  /\ UNCHANGED <<world, lidEvents, lidLast, sleepEvents, service, triggers, probes,
                 suspended, debounce, probing, wake, recovery, moves, calls>>

Resubscribe ==
  /\ ~socket /\ socket' = TRUE
  /\ UNCHANGED <<world, events, lidEvents, lidLast, sleepEvents, service, loop, bounds>>

-----------------------------------------------------------------------------
(* The probe worker: one query at a time, its answer waiting in            *)
(* probeResults or, while that is full, with the worker.                   *)

ProbeWorker ==
  /\ request # NoProbe /\ Len(answers) < AnswerCap
  /\ request' = NoProbe
  /\ \E ok \in BOOLEAN :
       /\ IF ok THEN UNCHANGED faults ELSE Fault
       /\ answers' = Append(answers,
            IF request.fresh
              THEN [fresh |-> TRUE, poll |-> request.poll, ok |-> ok,
                    power |-> power, hash |-> Hash(setup)]
              ELSE OldAnswer)
  /\ UNCHANGED <<world, streams, service, queue, suspended, debounce,
                 probing, wake, recovery, moves, calls>>

-----------------------------------------------------------------------------
(* The cases of Run's select.  The loop takes the next one when the pass   *)
(* it runs inside a case has ended.                                        *)

Selects == writer # Loop /\ UNCHANGED calls

\* Nothing of an earlier generation is still to be debounced.
StopsDebounce == pending' = FALSE /\ pendingFresh' = FALSE /\ timer' = FALSE

\* Mutant of DeferForDisplaySleep: a recovery under way goes on.
DeferAlone ==
  pending' = TRUE /\ pendingFresh' = FALSE /\ timer' = FALSE /\ UNCHANGED recovery

DeferForDisplaySleep ==
  pending' = TRUE /\ pendingFresh' = FALSE /\ timer' = FALSE /\ recovery' = FALSE

HotplugEvent ==
  /\ Selects /\ events > 0 /\ events' = events - 1
  /\ IF suspended
       THEN UNCHANGED loop
       ELSE /\ triggers' = Stale(triggers) /\ StopsDebounce
            /\ probing' = TRUE
            /\ answers' = [k \in DOMAIN answers |-> OldAnswer] /\ Request(FALSE)
            /\ UNCHANGED <<lost, suspended, wake, recovery>>
  /\ UNCHANGED <<world, socket, lidEvents, lidLast, sleepEvents, service, moves, faults>>

SuspendEvent ==
  /\ Selects /\ sleepEvents # <<>> /\ Head(sleepEvents)
  /\ sleepEvents' = Tail(sleepEvents)
  /\ suspended' = TRUE /\ triggers' = Stale(triggers) /\ StaleProbes
  /\ StopsDebounce /\ probing' = FALSE
  /\ recovery' = FALSE /\ wakeRetries' = 0 /\ wakeRequested' = FALSE
  /\ UNCHANGED <<world, events, socket, lidEvents, lidLast, screen, lidState,
                 turn, writer, view, preview, lost, guard, moves, faults>>

\* Mutant of WakesUp: the guard keeps sleeping.
WakesUpGuarded ==
  /\ Lights(power)
  /\ wakeRetries' = WakeRetryLimit /\ wakeRequested' = TRUE
  /\ UNCHANGED <<setup, lid, machine, guard>>

\* requestWake, and the guard that it releases.
WakesUp ==
  /\ Lights(power)
  /\ wakeRetries' = WakeRetryLimit /\ wakeRequested' = TRUE /\ guard' = FALSE
  /\ UNCHANGED <<setup, lid, machine>>

ResumeEvent ==
  /\ Selects /\ sleepEvents # <<>> /\ ~Head(sleepEvents)
  /\ sleepEvents' = Tail(sleepEvents)
  /\ suspended' = FALSE /\ StaleProbes /\ probing' = FALSE /\ pendingFresh' = FALSE
  /\ ReadsLid /\ WakesUp
  /\ Push(Stale(triggers))
  /\ UNCHANGED <<events, socket, lidEvents, lidLast, screen, turn, writer, view,
                 preview, pending, timer, recovery, moves>>

TakesLidEvent(state) ==
  /\ Selects /\ lidEvents # <<>> /\ Head(lidEvents) = state
  /\ lidEvents' = Tail(lidEvents)
  /\ UNCHANGED <<events, socket, lidLast, sleepEvents, screen, turn, writer, view,
                 preview, moves, faults>>

\* While suspended, and when a pass has read the switch first, nothing is new.
LidEventIgnored ==
  /\ \E state \in Lids : TakesLidEvent(state) /\ (suspended \/ state = lidState)
  /\ lost' = (lost \/ (~suspended /\ shown # Target(setup)))
  /\ UNCHANGED <<world, lidState, wakeRequested, triggers, probes, suspended,
                 debounce, probing, wake, recovery>>

LidOpened ==
  /\ TakesLidEvent("open") /\ ~suspended /\ lidState # "open"
  /\ lidState' = "open" /\ WakesUp /\ StopsDebounce
  /\ IF probing
       THEN /\ answers' = [k \in DOMAIN answers |-> OldAnswer] /\ Request(FALSE)
            /\ triggers' = Stale(triggers) /\ UNCHANGED lost
       ELSE StaleProbes /\ Push(Stale(triggers))
  /\ UNCHANGED <<suspended, probing, recovery>>

LidClosed ==
  /\ TakesLidEvent("closed") /\ ~suspended /\ lidState # "closed"
  /\ lidState' = "closed" /\ wakeRetries' = 0 /\ wakeRequested' = FALSE
  /\ IF guard
       THEN DeferForDisplaySleep /\ UNCHANGED queue
       ELSE Push(triggers) /\ UNCHANGED <<debounce, recovery>>
  /\ UNCHANGED <<world, probes, suspended, probing, guard>>

RotationReading ==
  /\ Selects /\ moves < MaxMoves /\ moves' = moves + 1
  /\ turn' \in TurnValues \ {turn} /\ Push(triggers)
  /\ UNCHANGED <<world, streams, screen, lidState, writer, view, preview,
                 wakeRequested, probes, suspended, debounce, probing, wake,
                 recovery, faults>>

Poll ==
  /\ Selects /\ ~suspended
  /\ Request(TRUE)
  /\ UNCHANGED <<world, streams, service, queue, answers, suspended,
                 debounce, probing, wake, recovery, moves, faults>>

Answer == answers[1]

TakesAnswer ==
  /\ Selects /\ answers # <<>> /\ answers' = Tail(answers)
  /\ UNCHANGED <<world, streams, shown, rejected, lidState, turn, writer, view,
                 preview, wakeRequested, request, suspended, wakeRetries, moves,
                 faults>>

Current == ~suspended /\ Answer.fresh

ProbeStale ==
  /\ TakesAnswer /\ ~Current
  /\ UNCHANGED <<lastSeen, queue, debounce, probing, guard, recovery>>

\* The answer a hotplug waited for ends the debounce of anything earlier.
Probed ==
  /\ TakesAnswer /\ Current
  /\ probing' = FALSE

Settles == IF probing THEN StopsDebounce ELSE UNCHANGED debounce

\* Mutant of ForTopology: a poll that replaced an event's request owes nothing.
AskedForTopology == ~Answer.poll

ForTopology == probing \/ ~Answer.poll

ProbeFailed ==
  /\ Probed /\ ~Answer.ok /\ Settles
  /\ IF ForTopology THEN Push(triggers) ELSE UNCHANGED queue
  /\ UNCHANGED <<lastSeen, guard, recovery>>

\* displayPowerState: with no display enabled, power is unknown.
SeesDark == Answer.hash.setup # NoDisplays /\ Answer.power = "dark"
SeesLight == Answer.hash.setup # NoDisplays /\ Answer.power # "dark"

\* displaySleepEntered: sleep, unless a wake was just asked for.
Sleepy == SeesDark /\ ~guard

ProbeFindsSleep ==
  /\ Probed /\ Answer.ok /\ Sleepy
  /\ IF wakeRetries > 0
       THEN Settles /\ UNCHANGED <<guard, recovery>>
       ELSE guard' = TRUE /\ DeferForDisplaySleep
  /\ UNCHANGED <<lastSeen, queue>>

\* displaySleepExited.
ProbeFindsWake ==
  /\ Probed /\ Answer.ok /\ SeesLight /\ guard /\ Settles
  /\ guard' = FALSE /\ Push(triggers)
  /\ UNCHANGED <<lastSeen, recovery>>

ProbeWhileAsleep ==
  /\ Probed /\ Answer.ok /\ guard /\ ~SeesLight /\ Settles
  /\ UNCHANGED <<lastSeen, queue, guard, recovery>>

ProbeForTopology ==
  /\ Probed /\ Answer.ok /\ ~guard /\ ~SeesDark /\ ForTopology /\ Settles
  /\ Push(triggers)
  /\ UNCHANGED <<lastSeen, guard, recovery>>

\* A poll compares the displays with what was last seen, unless the writer is
\* busy.
ProbeForPoll ==
  /\ Probed /\ Answer.ok /\ ~guard /\ ~SeesDark /\ ~ForTopology
  /\ IF writer = Nobody
       THEN /\ lastSeen' = Answer.hash
            /\ IF Answer.hash # lastSeen THEN Push(triggers) ELSE UNCHANGED queue
       ELSE UNCHANGED <<lastSeen, queue>>
  /\ UNCHANGED <<debounce, guard, recovery>>

\* The channel delivers what is stale first.
TakesTrigger ==
  /\ Selects /\ triggers.stale + triggers.fresh > 0
  /\ triggers' = IF triggers.stale > 0 THEN [triggers EXCEPT !.stale = @ - 1]
                                       ELSE [triggers EXCEPT !.fresh = @ - 1]
  /\ UNCHANGED <<world, streams, service, lost, probes, suspended, probing, wake,
                 moves, faults>>

Counts == ~suspended /\ triggers.stale = 0 /\ ~probing

TriggerDropped ==
  /\ TakesTrigger /\ ~Counts
  /\ UNCHANGED <<debounce, recovery>>

TriggerDeferred ==
  /\ TakesTrigger /\ Counts /\ guard
  /\ DeferForDisplaySleep

TriggerDebounced ==
  /\ TakesTrigger /\ Counts /\ ~guard
  /\ pending' = TRUE /\ pendingFresh' = TRUE /\ timer' = TRUE
  /\ UNCHANGED recovery

\* Behind the sleep guard and during a suspend the timer is stopped, so that it
\* never finds them (TimersRest).
TakesRecovery ==
  /\ Selects /\ recovery /\ ~guard /\ ~suspended
  /\ UNCHANGED <<world, streams, service, probes, suspended, debounce, probing, wake,
                 moves, faults>>

\* Mutant of RecoveryWaits: a preview ends the recovery.
RecoveryGivesUp ==
  TakesRecovery /\ preview /\ recovery' = FALSE /\ UNCHANGED queue

RecoveryWaits ==
  TakesRecovery /\ preview /\ UNCHANGED <<recovery, queue>>

RecoveryTriggers ==
  TakesRecovery /\ ~preview /\ recovery' = FALSE /\ Push(triggers)

-----------------------------------------------------------------------------
(* A pass: applyBestLocked, for the debounce timer or for a client.        *)

\* The pass reads the lid and the displays, and then works with that view; the
\* lid in it, "unread" if the switch could not be read, is history.
PassBegins(p) ==
  /\ writer' = p
  /\ ReadsLid
  /\ view' = [setup |-> setup, power |-> power, hash |-> Hash(setup),
              lid |-> IF faults' = faults THEN lid ELSE "unread"]

Debounced ==
  /\ Selects /\ timer
  /\ UNCHANGED <<world, streams, screen, turn, preview, wakeRequested, triggers,
                 probes, suspended, probing, wake, moves>>

Due == ~suspended /\ pending /\ pendingFresh /\ ~probing

DebounceStale ==
  /\ Debounced /\ ~Due /\ timer' = FALSE
  /\ UNCHANGED <<lidState, writer, view, lost, pending, pendingFresh, recovery, faults>>

\* errWriterBusy: the timer runs again.
DebounceBusy ==
  /\ Debounced /\ Due /\ writer # Nobody
  /\ UNCHANGED <<lidState, writer, view, lost, debounce, recovery, faults>>

\* errPreviewActive.
DebouncePreviewing ==
  /\ Debounced /\ Due /\ writer = Nobody /\ preview
  /\ StopsDebounce /\ recovery' = TRUE
  /\ UNCHANGED <<lidState, writer, view, lost, faults>>

DebounceApplies ==
  /\ Debounced /\ Due /\ writer = Nobody /\ ~preview
  /\ PassBegins(Loop)
  /\ timer' = FALSE /\ lost' = (lidState' # lid)
  /\ UNCHANGED <<pending, pendingFresh, recovery>>

\* restoresPanelAfterWake: the panel went off for a closed lid.
RestoresPanel ==
  /\ wakeRequested /\ lidState # "closed"
  /\ shown # NoLayout /\ shown.lid = "closed"

Asleep == view.power = "dark" /\ ~RestoresPanel

WakeResult(p) == IF wakeRequested /\ p # "awake" THEN "incomplete" ELSE "done"

\* What the pass does to the screen, the power it leaves and what it reports.
NothingToDo(result, after) ==
  /\ view.setup = NoDisplays /\ result = "done"
  /\ after = power /\ UNCHANGED <<screen, faults>>

FindsSleep(result, after) ==
  /\ view.setup # NoDisplays /\ Asleep /\ result = "sleeping"
  /\ after = power /\ UNCHANGED <<screen, faults>>

ReadFails(result, after) ==
  /\ Fault /\ result \in {"busy", "error"}
  /\ after = power /\ UNCHANGED screen

Works == view.setup # NoDisplays /\ ~Asleep

AlreadyApplied(result, after) ==
  /\ Works /\ shown = Target(view.setup)
  /\ lastSeen' = view.hash /\ result = WakeResult(view.power)
  /\ after = power /\ UNCHANGED <<shown, rejected, faults>>

StillRejected(result, after) ==
  /\ Works /\ shown # Target(view.setup) /\ rejected = Target(view.setup)
  /\ result = "rejected"
  /\ after = power /\ UNCHANGED <<screen, faults>>

Attempts ==
  Works /\ shown # Target(view.setup) /\ rejected # Target(view.setup)

\* The monitors read after the apply are the ones remembered; if they cannot
\* be read, the ones before it are.
Applied(result, after) ==
  /\ Attempts
  /\ shown' = Target(view.setup) /\ rejected' = NoLayout
  /\ after = IF power = "dark" /\ RestoresPanel THEN "partial" ELSE power
  /\ \/ /\ lastSeen' = [setup |-> setup, shown |-> shown']
        /\ result = WakeResult(after) /\ UNCHANGED faults
     \/ /\ lastSeen' = view.hash /\ Fault
        /\ result = WakeResult("dark")

\* An apply that failed was rolled back; one that failed its verification is
\* not tried again for the same situation.
ApplyFails(result, after) ==
  /\ Attempts /\ Fault
  /\ \/ result \in {"busy", "error"} /\ rejected' = NoLayout
     \/ result = "rejected" /\ rejected' = Target(view.setup)
  /\ after = power /\ UNCHANGED <<shown, lastSeen>>

Pass(result, after) ==
  \/ NothingToDo(result, after) \/ FindsSleep(result, after)
  \/ ReadFails(result, after) \/ AlreadyApplied(result, after)
  \/ StillRejected(result, after) \/ Applied(result, after)
  \/ ApplyFails(result, after)

PassEnds(p) ==
  /\ writer = p /\ writer' = Nobody /\ view' = NoView
  /\ UNCHANGED <<setup, lid, machine, streams, lidState, turn, preview,
                 queue, probes, suspended, probing, moves>>

PassBusy ==
  /\ PassEnds(Loop)
  /\ \E after \in Powers : Pass("busy", after) /\ power' = after
  /\ timer' = TRUE
  /\ UNCHANGED <<wakeRequested, pending, pendingFresh, wake, recovery, calls>>

\* The displays are still asleep after a wake request: it is repeated.
RepeatsWake ==
  /\ PassEnds(Loop)
  /\ wakeRetries > 0 /\ wakeRetries' = wakeRetries - 1
  /\ \E after \in Powers, result \in {"sleeping", "incomplete"} :
       Pass(result, after) /\ Lights(after)
  /\ timer' = TRUE
  /\ UNCHANGED <<wakeRequested, pending, pendingFresh, guard, recovery, calls>>

EndsWake == wakeRetries' = 0 /\ wakeRequested' = FALSE

PassAsleep ==
  /\ PassEnds(Loop) /\ wakeRetries = 0
  /\ \E after \in Powers : Pass("sleeping", after) /\ power' = after
  /\ EndsWake /\ guard' = TRUE /\ DeferForDisplaySleep
  /\ UNCHANGED calls

\* A wake that stays incomplete leaves the awake displays usable.
Succeeds(result) ==
  result \in {"done", "rejected"} \/ (result = "incomplete" /\ wakeRetries = 0)

PassDone ==
  /\ PassEnds(Loop)
  /\ \E after \in Powers, result \in {"done", "incomplete", "rejected", "error"} :
       /\ Pass(result, after) /\ power' = after
       /\ Succeeds(result) \/ result = "error"
       /\ recovery' = IF Succeeds(result) THEN FALSE ELSE TRUE
  /\ EndsWake /\ StopsDebounce
  /\ UNCHANGED <<guard, calls>>

-----------------------------------------------------------------------------
(* Clients: an operation holds writeMu, may begin or end a preview, or     *)
(* reconciles (SetProfileAuto, Manage, Rename) and reports its own errors. *)

ClientLocks ==
  /\ writer = Nobody /\ calls < MaxCalls /\ calls' = calls + 1
  /\ writer' = Client
  /\ UNCHANGED <<world, streams, screen, lidState, turn, view, preview, wakeRequested,
                 loop, moves, faults>>

ClientPreviews ==
  /\ writer = Client /\ view = NoView /\ writer' = Nobody
  /\ preview' = ~preview
  /\ UNCHANGED <<world, streams, screen, lidState, turn, view, wakeRequested, loop,
                 bounds>>

\* A preview ends by itself when its deadline passes or its client is gone.
PreviewEnds ==
  /\ writer = Nobody /\ preview /\ preview' = FALSE
  /\ UNCHANGED <<world, streams, screen, lidState, turn, writer, view, wakeRequested,
                 loop, bounds>>

ClientPassBegins ==
  /\ writer = Client /\ view = NoView /\ ~preview
  /\ PassBegins(Client)
  /\ UNCHANGED <<world, streams, screen, turn, preview, wakeRequested, loop, moves,
                 calls>>

ClientPassEnds ==
  /\ PassEnds(Client) /\ view # NoView
  /\ \E after \in Powers,
        result \in {"done", "incomplete", "sleeping", "rejected", "error", "busy"} :
       Pass(result, after) /\ power' = after
  /\ UNCHANGED <<wakeRequested, debounce, wake, recovery, calls>>

-----------------------------------------------------------------------------
Environment ==
  \/ Hotplug \/ UserIdles \/ UserStirs \/ LidMoves \/ Sleeps
  \/ SocketCloses \/ ClientLocks \/ RotationReading

Watchers == LidPolled \/ Resumes \/ Resubscribe

TakesProbe ==
  \/ ProbeStale \/ ProbeFailed \/ ProbeFindsSleep \/ ProbeFindsWake
  \/ ProbeWhileAsleep \/ ProbeForTopology \/ ProbeForPoll

TakesDebounce ==
  DebounceStale \/ DebounceBusy \/ DebouncePreviewing \/ DebounceApplies

TakesTriggers == TriggerDropped \/ TriggerDeferred \/ TriggerDebounced

Recovers == RecoveryWaits \/ RecoveryTriggers

TakesLid == LidEventIgnored \/ LidOpened \/ LidClosed

TakesEvent == HotplugEvent \/ SuspendEvent \/ ResumeEvent \/ TakesLid

LoopPassEnds == PassBusy \/ RepeatsWake \/ PassAsleep \/ PassDone

ClientSteps == ClientPreviews \/ PreviewEnds \/ ClientPassBegins \/ ClientPassEnds

Next ==
  \/ Environment \/ Watchers \/ ProbeWorker
  \/ TakesEvent \/ Poll \/ TakesProbe \/ TakesTriggers \/ Recovers
  \/ TakesDebounce \/ LoopPassEnds \/ ClientSteps

Spec == Init /\ [][Next]_vars

\* Go's select takes every case that stays ready, timers and tickers run out,
\* and goroutines that can run do.  Of events it is enough that one of those
\* waiting is taken, as they are finitely many.  Users and displays owe nothing.
FairSpec ==
  /\ Spec
  /\ WF_vars(Watchers) /\ WF_vars(ProbeWorker) /\ WF_vars(TakesEvent)
  /\ WF_vars(Poll) /\ WF_vars(TakesProbe) /\ WF_vars(TakesTriggers)
  /\ WF_vars(Recovers) /\ WF_vars(TakesDebounce) /\ WF_vars(LoopPassEnds)
  /\ WF_vars(ClientSteps)

-----------------------------------------------------------------------------
Layout == [setup : Setups, lid : Lids, turn : TurnValues] \cup {NoLayout}
HashOf == [setup : Setups, shown : Layout]
Asked  == [fresh : BOOLEAN, poll : BOOLEAN]
Answered == [fresh : BOOLEAN, poll : BOOLEAN, ok : BOOLEAN, power : Powers,
             hash : HashOf \cup {NoLayout}]
Views  == [setup : Setups, power : Powers, hash : HashOf, lid : Lids \cup {"unread"}]

WorldTyped ==
  /\ setup \in Setups /\ power \in Powers /\ lid \in Lids /\ machine \in {"on", "asleep"}
  /\ events \in Nat /\ socket \in BOOLEAN /\ lidLast \in Lids
  /\ lidEvents \in Seq(Lids) /\ sleepEvents \in Seq(BOOLEAN)

ServiceTyped ==
  /\ shown \in Layout /\ rejected \in Layout /\ lastSeen \in HashOf \cup {NoLayout}
  /\ lidState \in Lids /\ turn \in TurnValues /\ preview \in BOOLEAN
  /\ writer \in {Nobody, Loop, Client} /\ view \in Views \cup {NoView}
  /\ wakeRequested \in BOOLEAN

QueuesTyped ==
  /\ triggers \in [stale : 0..TriggerCap, fresh : 0..TriggerCap] /\ lost \in BOOLEAN
  /\ request \in Asked \cup {NoProbe} /\ answers \in Seq(Answered)

LoopTyped ==
  /\ suspended \in BOOLEAN /\ pending \in BOOLEAN /\ pendingFresh \in BOOLEAN
  /\ timer \in BOOLEAN /\ probing \in BOOLEAN /\ guard \in BOOLEAN
  /\ wakeRetries \in 0..WakeRetryLimit /\ recovery \in BOOLEAN

BoundsTyped ==
  /\ moves \in 0..MaxMoves /\ faults \in 0..MaxFaults /\ calls \in 0..MaxCalls

TypeOK == WorldTyped /\ ServiceTyped /\ QueuesTyped /\ LoopTyped /\ BoundsTyped

\* The sleep guard and a wake request exclude each other: while the daemon
\* owes the user light it never takes dark displays for sleep.
GuardExcludesWake == guard => wakeRetries = 0

\* While the displays sleep, or the machine, no timer of the loop is armed: a
\* debounce or a recovery left over would apply a layout to dark displays, or on
\* resume the one from before.
TimersRest == guard \/ suspended => ~timer /\ ~recovery

\* What is to be reconciled: the screen is not what an apply would now make it,
\* and no such apply was rejected.
Wanted == [setup |-> setup, lid |-> lid, turn |-> turn]
Unreconciled ==
  /\ setup # NoDisplays /\ shown # Wanted /\ rejected # Wanted

\* A pass will run: something on its way to the loop, or in it, leads to one.
PassAhead ==
  \/ events > 0 \/ lidEvents # <<>> \/ lid # lidLast
  \/ sleepEvents # <<>> \/ machine = "asleep" \/ suspended
  \/ probing
  \/ triggers.fresh > 0
  \/ (pending /\ pendingFresh /\ timer)
  \/ writer # Nobody
  \/ recovery

\* A change of the displays, the lid or the device is never forgotten, whatever
\* generations, guards and failures it meets on its way: a pass is ahead, or the
\* displays sleep and a poll will see them wake, or a poll will see them differ.
\* (Two exceptions: what was lost, and a wake that was asked for and not seen
\* to, see below.)
NothingForgotten ==
  Unreconciled => PassAhead \/ guard \/ Hash(setup) # lastSeen \/ lost
                  \/ wakeRetries > 0

\* As long as a requested wake may have to be repeated, a pass that repeats it is
\* ahead.
WakeIsSeenTo == wakeRetries > 0 => PassAhead

\* The panel never goes off in the user's face: the loop puts a layout for a
\* closed lid on the screen only when the switch, read for this very pass, said
\* closed or nothing; not for a close left from before a suspend.
ClosedLidIsReal ==
  [][writer = Loop /\ shown' # shown /\ shown'.lid = "closed"
       => view.lid # "open"]_vars

\* Once users, displays, faults and clients come to rest, the screen shows what
\* the displays, the lid and the device call for, and goes on doing so, unless
\* the displays sleep; with the two exceptions of NothingForgotten.
Reconciles ==
  <>[](Unreconciled => guard \/ lost \/ wakeRetries > 0)
=============================================================================
