--------------------------- MODULE EventLoopProofs ---------------------------
(***************************************************************************)
(* Theorems about EventLoop, for every value of its constants.             *)
(***************************************************************************)
EXTENDS EventLoop, TLAPS

\* A trigger finds room only while the channel is not full, whatever is stale.
TriggersFit == triggers.stale + triggers.fresh <= TriggerCap

\* While the loop's pass runs, nobody but the pass itself changes the lid it
\* works with.
PassKnowsLid == writer = Loop => view \in Views /\ view.lid \in {lidState, "unread"}

LoopInv == TypeOK /\ TriggersFit /\ PassKnowsLid

-----------------------------------------------------------------------------
(* What the parts of a step yield.                                         *)

\* Making the triggers stale neither adds nor loses one.
LEMMA StaleFits ==
  ASSUME LoopAssumption, TypeOK, TriggersFit
  PROVE  /\ Stale(triggers) \in [stale : 0..TriggerCap, fresh : 0..TriggerCap]
         /\ Stale(triggers).stale + Stale(triggers).fresh <= TriggerCap
         /\ triggers \in [stale : 0..TriggerCap, fresh : 0..TriggerCap]
         /\ triggers.stale \in Nat /\ triggers.fresh \in Nat
BY DEF LoopAssumption, TypeOK, QueuesTyped, TriggersFit, Stale

\* pushTrigger never overfills the channel, whether it sends or drops.
LEMMA PushFits ==
  ASSUME LoopAssumption, TypeOK,
         NEW t \in [stale : 0..TriggerCap, fresh : 0..TriggerCap],
         t.stale + t.fresh <= TriggerCap, Push(t)
  PROVE  /\ triggers' \in [stale : 0..TriggerCap, fresh : 0..TriggerCap]
         /\ TriggersFit' /\ lost' \in BOOLEAN
<1>1. CASE t.stale + t.fresh < TriggerCap
  <2>1. triggers' = [t EXCEPT !.fresh = t.fresh + 1] /\ lost' = lost
    BY <1>1 DEF Push
  <2>2. t.fresh + 1 \in 0..TriggerCap
    BY <1>1 DEF LoopAssumption
  <2>3. triggers'.stale = t.stale /\ triggers'.fresh = t.fresh + 1
    BY <2>1
  <2>4. triggers' \in [stale : 0..TriggerCap, fresh : 0..TriggerCap]
    BY <2>1, <2>2
  <2>5. TriggersFit'
    BY <1>1, <2>3 DEF LoopAssumption, TriggersFit
  <2> QED BY <2>1, <2>4, <2>5 DEF TypeOK, QueuesTyped
<1>2. CASE ~(t.stale + t.fresh < TriggerCap)
  BY <1>2 DEF Push, TriggersFit
<1> QED BY <1>1, <1>2

\* Requests and answers stay what they are, used, replaced or outdated.
LEMMA AnswersTyped ==
  ASSUME TypeOK
  PROVE  /\ OldAnswer \in Answered /\ OldRequest \in Asked
         /\ [k \in DOMAIN answers |-> OldAnswer] \in Seq(Answered)
         /\ \A poll \in BOOLEAN : Request(poll) => request' \in Asked
         /\ answers # <<>> => Answer \in Answered /\ Tail(answers) \in Seq(Answered)
         /\ StaleProbes => request' \in Asked \cup {NoProbe} /\ answers' \in Seq(Answered)
<1>1. OldAnswer \in Answered /\ OldRequest \in Asked
  BY DEF OldAnswer, Answered, OldRequest, Asked, Powers
<1>2. [k \in DOMAIN answers |-> OldAnswer] \in Seq(Answered)
  <2>1. answers \in Seq(Answered) /\ DOMAIN answers = 1..Len(answers)
    BY DEF TypeOK, QueuesTyped
  <2>2. [k \in 1..Len(answers) |-> OldAnswer] \in Seq(Answered)
    BY <1>1, <2>1
  <2> QED BY <2>1, <2>2
<1>3. answers # <<>> => Answer \in Answered /\ Tail(answers) \in Seq(Answered)
  BY DEF TypeOK, QueuesTyped, Answer
<1>4. StaleProbes => request' \in Asked \cup {NoProbe} /\ answers' \in Seq(Answered)
  BY <1>1, <1>2 DEF StaleProbes, TypeOK, QueuesTyped
<1>5. \A poll \in BOOLEAN : Request(poll) => request' \in Asked
  BY DEF Request, Asked
<1> QED BY <1>1, <1>2, <1>3, <1>4, <1>5

\* What an apply would put on screen is a layout, and its hash is one.
LEMMA LayoutsTyped ==
  ASSUME TypeOK
  PROVE  /\ \A s \in Setups : Target(s) \in Layout /\ Hash(s) \in HashOf
         /\ NoLayout \in Layout
BY DEF TypeOK, WorldTyped, ServiceTyped, Target, Hash, Layout, HashOf

\* A failing read counts against the bound and leaves a lid behind.
LEMMA FaultTyped ==
  ASSUME LoopAssumption, TypeOK
  PROVE  /\ Fault => faults' \in 0..MaxFaults /\ faults' # faults
         /\ ReadsLid => faults' \in 0..MaxFaults /\ lidState' \in Lids
BY DEF LoopAssumption, TypeOK, BoundsTyped, WorldTyped, ServiceTyped, Fault, ReadsLid

\* WakeDisplays leaves the displays in a power state.
LEMMA LightsTyped ==
  ASSUME NEW p \in Powers, Lights(p)
  PROVE  power' \in Powers
BY DEF Lights, Powers

\* However a pass ends, what it leaves on screen and in memory is well-typed.
LEMMA PassTyped ==
  ASSUME LoopAssumption, TypeOK, NEW result, NEW after \in Powers, Pass(result, after),
         view \in Views
  PROVE  /\ faults' \in 0..MaxFaults
         /\ shown' \in Layout /\ rejected' \in Layout
         /\ lastSeen' \in HashOf \cup {NoLayout}
<1>1. /\ view.setup \in Setups /\ view.hash \in HashOf
      /\ Target(view.setup) \in Layout /\ NoLayout \in Layout
  BY LayoutsTyped DEF Views
<1>2. faults' \in 0..MaxFaults
  BY FaultTyped DEF TypeOK, BoundsTyped, Pass, NothingToDo, FindsSleep,
   ReadFails, AlreadyApplied, StillRejected, Applied, ApplyFails
<1>3. shown' \in Layout /\ rejected' \in Layout
  BY <1>1 DEF TypeOK, ServiceTyped, Pass, NothingToDo, FindsSleep, screen,
   ReadFails, AlreadyApplied, StillRejected, Applied, ApplyFails
<1>4. setup \in Setups BY DEF TypeOK, WorldTyped
<1>5. lastSeen' \in HashOf \cup {NoLayout}
  BY <1>1, <1>3, <1>4 DEF TypeOK, ServiceTyped, Pass, NothingToDo, FindsSleep, screen, HashOf,
   ReadFails, AlreadyApplied, StillRejected, Applied, ApplyFails
<1> QED BY <1>2, <1>3, <1>5

\* A pass begins with a well-typed view, and with the lid it has just read.
LEMMA PassBeginsTyped ==
  ASSUME LoopAssumption, TypeOK, NEW p \in {Loop, Client}, PassBegins(p)
  PROVE  /\ writer' = p /\ lidState' \in Lids
         /\ view' \in Views /\ view'.lid \in {lidState', "unread"}
<1>1. lidState' \in Lids /\ (faults' = faults => lidState' = lid)
  BY FaultTyped DEF PassBegins, ReadsLid
<1>2. Hash(setup) \in HashOf /\ setup \in Setups /\ power \in Powers /\ lid \in Lids
  BY LayoutsTyped DEF TypeOK, WorldTyped
<1> QED BY <1>1, <1>2 DEF PassBegins, Views

\* The two values wakeRetries is set to are in its range.
LEMMA RetriesTyped ==
  ASSUME LoopAssumption
  PROVE  0 \in 0..WakeRetryLimit /\ WakeRetryLimit \in 0..WakeRetryLimit
BY DEF LoopAssumption

-----------------------------------------------------------------------------
(* Every step of Next keeps LoopInv.                                       *)

\* What displays, lid, user, machine and new clients do keeps LoopInv.
LEMMA EnvironmentKeeps ==
  ASSUME LoopAssumption, LoopInv, Environment
  PROVE  LoopInv'
<1> USE DEF Environment, Hotplug, UserIdles, UserStirs, LidMoves, Sleeps,
           SocketCloses, ClientLocks, RotationReading, Moves, Fault, Selects
<1>1. WorldTyped'
  <2>1. CASE Hotplug \/ UserIdles \/ UserStirs \/ ClientLocks \/ RotationReading
    BY <2>1 DEF LoopInv, TypeOK, WorldTyped, world, streams, Powers
  <2>2. CASE LidMoves
    <3>1. lid' \in Lids /\ UNCHANGED <<setup, power, machine, events, socket, sleepEvents>>
      BY <2>2
    <3>2. \/ lidEvents' = Append(lidEvents, lid') /\ lidLast' = lid'
          \/ lidEvents' = lidEvents /\ lidLast' = lidLast
      BY <2>2
    <3> HIDE DEF Environment, LidMoves
    <3> QED BY <3>1, <3>2 DEF LoopInv, TypeOK, WorldTyped
  <2>3. CASE Sleeps
    <3>1. sleepEvents' = Append(sleepEvents, TRUE)
          /\ machine' = "asleep" /\ power' \in {power, "dark"}
          /\ UNCHANGED <<setup, lid, events, socket, lidEvents, lidLast>>
      BY <2>3
    <3>2. sleepEvents' \in Seq(BOOLEAN)
      BY <3>1 DEF LoopInv, TypeOK, WorldTyped
    <3> HIDE DEF Environment, Sleeps
    <3> QED BY <3>1, <3>2 DEF LoopInv, TypeOK, WorldTyped, Powers
  <2>4. CASE SocketCloses
    BY <2>4 DEF LoopInv, TypeOK, WorldTyped, world
  <2> QED BY <2>1, <2>2, <2>3, <2>4
<1>2. ServiceTyped' /\ PassKnowsLid'
  BY DEF LoopInv, TypeOK, ServiceTyped, PassKnowsLid, service, screen,
     Lids, LoopAssumption
<1>3. QueuesTyped' /\ TriggersFit'
  BY PushFits, StaleFits DEF LoopInv, TypeOK, QueuesTyped, TriggersFit, loop, queue, probes
<1>4. LoopTyped'
  BY DEF LoopInv, TypeOK, LoopTyped, loop, debounce, wake
<1>5. BoundsTyped'
  <2>1. CASE SocketCloses
    BY <2>1, FaultTyped DEF LoopInv, TypeOK, BoundsTyped
  <2>2. CASE Hotplug \/ UserIdles \/ LidMoves \/ Sleeps
    <3>1. moves < MaxMoves /\ moves' = moves + 1 /\ UNCHANGED <<faults, calls>>
      BY <2>2
    <3> HIDE DEF Environment
    <3> QED BY <3>1 DEF LoopInv, TypeOK, BoundsTyped, LoopAssumption
  <2>4. CASE RotationReading
    BY <2>4 DEF LoopInv, TypeOK, BoundsTyped, LoopAssumption
  <2>3. CASE UserStirs \/ ClientLocks
    BY <2>3 DEF LoopInv, TypeOK, BoundsTyped, LoopAssumption, bounds
  <2> QED BY <2>1, <2>2, <2>3, <2>4
<1> QED BY <1>1, <1>2, <1>3, <1>4, <1>5 DEF LoopInv, TypeOK

\* So does what the watchers deliver,
LEMMA WatchersKeeps ==
  ASSUME LoopAssumption, LoopInv, Watchers
  PROVE  LoopInv'
<1> USE DEF Watchers, LidPolled, Resumes, Resubscribe
<1>1. WorldTyped'
  <2>1. CASE LidPolled
    BY <2>1 DEF LoopInv, TypeOK, WorldTyped, world
  <2>2. CASE Resumes
    <3>1. sleepEvents' = Append(sleepEvents, FALSE) /\ machine' = "on"
          /\ UNCHANGED <<setup, power, lid, events, socket, lidEvents, lidLast>>
      BY <2>2
    <3>2. sleepEvents' \in Seq(BOOLEAN)
      BY <3>1 DEF LoopInv, TypeOK, WorldTyped
    <3> QED BY <3>1, <3>2 DEF LoopInv, TypeOK, WorldTyped
  <2>3. CASE Resubscribe
    BY <2>3 DEF LoopInv, TypeOK, WorldTyped, world
  <2> QED BY <2>1, <2>2, <2>3
<1>2. ServiceTyped' /\ PassKnowsLid'
  BY DEF LoopInv, TypeOK, ServiceTyped, PassKnowsLid, service, screen,
     Lids, LoopAssumption
<1>3. QueuesTyped' /\ TriggersFit'
  BY DEF LoopInv, TypeOK, QueuesTyped, TriggersFit, loop, queue, probes
<1>4. LoopTyped'
  BY DEF LoopInv, TypeOK, LoopTyped, loop, debounce, wake
<1>5. BoundsTyped'
  BY DEF LoopInv, TypeOK, BoundsTyped, bounds
<1> QED BY <1>1, <1>2, <1>3, <1>4, <1>5 DEF LoopInv, TypeOK

\* an answer of the probe worker,
LEMMA ProbeWorkerKeeps ==
  ASSUME LoopAssumption, LoopInv, ProbeWorker
  PROVE  LoopInv'
<1> USE DEF ProbeWorker, Fault, Hash, HashOf, Answered, Asked
<1>1. WorldTyped'
  BY DEF LoopInv, TypeOK, WorldTyped, world, streams
<1>2. ServiceTyped' /\ PassKnowsLid'
  BY AnswersTyped DEF LoopInv, TypeOK, ServiceTyped, PassKnowsLid, service, screen,
     Lids, LoopAssumption
<1>3. QueuesTyped' /\ TriggersFit'
  <2>1. request' = NoProbe /\ UNCHANGED <<triggers, lost>>
    BY DEF queue
  <2>2. PICK ok \in BOOLEAN : answers' = Append(answers,
            IF request.fresh
              THEN [fresh |-> TRUE, poll |-> request.poll, ok |-> ok,
                    power |-> power, hash |-> Hash(setup)]
              ELSE OldAnswer)
    OBVIOUS
  <2>3. request \in [fresh : BOOLEAN, poll : BOOLEAN]
    BY DEF LoopInv, TypeOK, QueuesTyped
  <2>4. [fresh |-> TRUE, poll |-> request.poll, ok |-> ok,
         power |-> power, hash |-> Hash(setup)] \in Answered
    BY <2>3, LayoutsTyped DEF LoopInv, TypeOK, WorldTyped
  <2>5. answers' \in Seq(Answered)
    BY <2>2, <2>4, AnswersTyped DEF LoopInv, TypeOK, QueuesTyped
  <2> QED BY <2>1, <2>5 DEF LoopInv, TypeOK, QueuesTyped, TriggersFit
<1>4. LoopTyped'
  BY DEF LoopInv, TypeOK, LoopTyped, loop, debounce, wake
<1>5. BoundsTyped'
  BY DEF LoopInv, TypeOK, BoundsTyped, bounds
<1> QED BY <1>1, <1>2, <1>3, <1>4, <1>5 DEF LoopInv, TypeOK

\* a hotplug taken by the loop,
LEMMA HotplugEventKeeps ==
  ASSUME LoopAssumption, LoopInv, HotplugEvent
  PROVE  LoopInv'
<1> USE DEF HotplugEvent, Selects, StopsDebounce
<1>1. WorldTyped'
  BY DEF LoopInv, TypeOK, WorldTyped, world, streams
<1>2. ServiceTyped' /\ PassKnowsLid'
  BY AnswersTyped DEF LoopInv, TypeOK, ServiceTyped, PassKnowsLid, service, screen,
     Lids, LoopAssumption
<1>3. QueuesTyped' /\ TriggersFit'
  BY StaleFits, AnswersTyped DEF LoopInv, TypeOK, QueuesTyped, TriggersFit, loop, queue, probes
<1>4. LoopTyped'
  BY DEF LoopInv, TypeOK, LoopTyped, loop, debounce, wake
<1>5. BoundsTyped'
  BY DEF LoopInv, TypeOK, BoundsTyped, bounds
<1> QED BY <1>1, <1>2, <1>3, <1>4, <1>5 DEF LoopInv, TypeOK

\* the machine going to sleep,
LEMMA SuspendEventKeeps ==
  ASSUME LoopAssumption, LoopInv, SuspendEvent
  PROVE  LoopInv'
<1> USE DEF SuspendEvent, Selects, StopsDebounce
<1>1. WorldTyped'
  <2>1. sleepEvents # <<>> /\ sleepEvents' = Tail(sleepEvents)
        /\ UNCHANGED <<world, events, socket, lidEvents, lidLast>>
    OBVIOUS
  <2> HIDE DEF SuspendEvent
  <2> QED BY <2>1 DEF LoopInv, TypeOK, WorldTyped, world
<1>2. ServiceTyped' /\ PassKnowsLid'
  BY AnswersTyped DEF LoopInv, TypeOK, ServiceTyped, PassKnowsLid, service, screen,
     Lids, LoopAssumption
<1>3. QueuesTyped' /\ TriggersFit'
  BY StaleFits, AnswersTyped DEF LoopInv, TypeOK, QueuesTyped, TriggersFit, loop, queue, probes
<1>4. LoopTyped'
  BY RetriesTyped DEF LoopInv, TypeOK, LoopTyped, loop, debounce, wake
<1>5. BoundsTyped'
  BY DEF LoopInv, TypeOK, BoundsTyped, bounds
<1> QED BY <1>1, <1>2, <1>3, <1>4, <1>5 DEF LoopInv, TypeOK

\* and resuming,
LEMMA ResumeEventKeeps ==
  ASSUME LoopAssumption, LoopInv, ResumeEvent
  PROVE  LoopInv'
<1> USE DEF ResumeEvent, Selects, WakesUp
<1>1. WorldTyped'
  <2>1. sleepEvents # <<>> /\ sleepEvents' = Tail(sleepEvents) /\ Lights(power)
        /\ UNCHANGED <<setup, lid, machine, events, socket, lidEvents, lidLast>>
    OBVIOUS
  <2> HIDE DEF ResumeEvent
  <2>2. power' \in Powers
    BY <2>1, LightsTyped DEF LoopInv, TypeOK, WorldTyped
  <2> QED BY <2>1, <2>2 DEF LoopInv, TypeOK, WorldTyped
<1>2. ServiceTyped' /\ PassKnowsLid'
  BY AnswersTyped, FaultTyped DEF LoopInv, TypeOK, ServiceTyped, PassKnowsLid, service, screen,
     Lids, LoopAssumption
<1>3. QueuesTyped' /\ TriggersFit'
  BY StaleFits, PushFits, AnswersTyped DEF LoopInv, TypeOK, QueuesTyped, TriggersFit, loop, queue, probes
<1>4. LoopTyped'
  BY RetriesTyped DEF LoopInv, TypeOK, LoopTyped, loop, debounce, wake
<1>5. BoundsTyped'
  BY FaultTyped DEF LoopInv, TypeOK, BoundsTyped, bounds
<1> QED BY <1>1, <1>2, <1>3, <1>4, <1>5 DEF LoopInv, TypeOK

\* a lid event taken or ignored,
LEMMA TakesLidKeeps ==
  ASSUME LoopAssumption, LoopInv, TakesLid
  PROVE  LoopInv'
<1> USE DEF TakesLid, LidEventIgnored, LidOpened, LidClosed, TakesLidEvent,
           Selects, WakesUp, StopsDebounce, DeferForDisplaySleep
<1>1. WorldTyped'
  <2>1. lidEvents # <<>> /\ lidEvents' = Tail(lidEvents)
        /\ UNCHANGED <<setup, lid, machine, events, socket, lidLast, sleepEvents>>
    BY DEF world
  <2>2. lidEvents' \in Seq(Lids)
    BY <2>1 DEF LoopInv, TypeOK, WorldTyped
  <2>3. power' \in Powers
    BY LightsTyped DEF LoopInv, TypeOK, WorldTyped, world
  <2> QED BY <2>1, <2>2, <2>3 DEF LoopInv, TypeOK, WorldTyped
<1>2. ServiceTyped' /\ PassKnowsLid'
  BY AnswersTyped DEF LoopInv, TypeOK, ServiceTyped, PassKnowsLid, service, screen,
     Lids, LoopAssumption
<1>3. QueuesTyped' /\ TriggersFit'
  BY PushFits, StaleFits, AnswersTyped DEF LoopInv, TypeOK, QueuesTyped, TriggersFit, loop, queue, probes
<1>4. LoopTyped'
  BY RetriesTyped DEF LoopInv, TypeOK, LoopTyped, loop, debounce, wake
<1>5. BoundsTyped'
  BY DEF LoopInv, TypeOK, BoundsTyped, bounds
<1> QED BY <1>1, <1>2, <1>3, <1>4, <1>5 DEF LoopInv, TypeOK

\* the poll ticker,
LEMMA PollKeeps ==
  ASSUME LoopAssumption, LoopInv, Poll
  PROVE  LoopInv'
<1> USE DEF Poll, Selects
<1>1. WorldTyped'
  BY DEF LoopInv, TypeOK, WorldTyped, world, streams
<1>2. ServiceTyped' /\ PassKnowsLid'
  BY AnswersTyped DEF LoopInv, TypeOK, ServiceTyped, PassKnowsLid, service, screen,
     Lids, LoopAssumption
<1>3. QueuesTyped' /\ TriggersFit'
  BY AnswersTyped DEF LoopInv, TypeOK, QueuesTyped, TriggersFit, loop, queue, probes
<1>4. LoopTyped'
  BY DEF LoopInv, TypeOK, LoopTyped, loop, debounce, wake
<1>5. BoundsTyped'
  BY DEF LoopInv, TypeOK, BoundsTyped, bounds
<1> QED BY <1>1, <1>2, <1>3, <1>4, <1>5 DEF LoopInv, TypeOK

\* an answer taken from probeResults,
LEMMA TakesProbeKeeps ==
  ASSUME LoopAssumption, LoopInv, TakesProbe
  PROVE  LoopInv'
<1> USE DEF TakesProbe, ProbeStale, ProbeFailed, ProbeFindsSleep,
           ProbeFindsWake, ProbeWhileAsleep, ProbeForTopology, ProbeForPoll,
           TakesAnswer, Selects, Probed, Settles, StopsDebounce,
           DeferForDisplaySleep, Answered
<1>1. WorldTyped'
  BY DEF LoopInv, TypeOK, WorldTyped, world, streams
<1>2. ServiceTyped' /\ PassKnowsLid'
  BY AnswersTyped DEF LoopInv, TypeOK, ServiceTyped, PassKnowsLid, service, screen,
     Lids, LoopAssumption
<1>3. QueuesTyped' /\ TriggersFit'
  BY PushFits, StaleFits, AnswersTyped DEF LoopInv, TypeOK, QueuesTyped, TriggersFit, loop, queue, probes
<1>4. LoopTyped'
  BY DEF LoopInv, TypeOK, LoopTyped, loop, debounce, wake
<1>5. BoundsTyped'
  BY DEF LoopInv, TypeOK, BoundsTyped, bounds
<1> QED BY <1>1, <1>2, <1>3, <1>4, <1>5 DEF LoopInv, TypeOK

\* a trigger taken from the channel,
LEMMA TakesTriggersKeeps ==
  ASSUME LoopAssumption, LoopInv, TakesTriggers
  PROVE  LoopInv'
<1> USE DEF TakesTriggers, TriggerDropped, TriggerDeferred, TriggerDebounced, TakesTrigger, Selects
<1>1. WorldTyped'
  BY DEF LoopInv, TypeOK, WorldTyped, world, streams
<1>2. ServiceTyped' /\ PassKnowsLid'
  BY DEF LoopInv, TypeOK, ServiceTyped, PassKnowsLid, service, screen
<1>3. QueuesTyped' /\ TriggersFit'
  <2>1. triggers.stale \in 0..TriggerCap /\ triggers.fresh \in 0..TriggerCap
        /\ triggers.stale + triggers.fresh \in 1..TriggerCap
    BY StaleFits DEF LoopInv, TypeOK, TriggersFit, LoopAssumption
  <2>2. CASE triggers.stale > 0
    <3>1. triggers' = [triggers EXCEPT !.stale = triggers.stale - 1]
      BY <2>2
    <3>2. triggers.stale - 1 \in 0..TriggerCap
      BY <2>1, <2>2 DEF LoopAssumption
    <3>3. triggers' \in [stale : 0..TriggerCap, fresh : 0..TriggerCap]
      BY <3>1, <3>2 DEF LoopInv, TypeOK, QueuesTyped
    <3>4. triggers'.stale = triggers.stale - 1 /\ triggers'.fresh = triggers.fresh
      BY <3>1, StaleFits DEF LoopInv
    <3> QED BY <2>1, <3>3, <3>4 DEF LoopInv, TypeOK, QueuesTyped, TriggersFit, probes, LoopAssumption
  <2>3. CASE ~(triggers.stale > 0)
    <3>1. triggers' = [triggers EXCEPT !.fresh = triggers.fresh - 1]
      BY <2>3
    <3>2. triggers.fresh - 1 \in 0..TriggerCap
      BY <2>1, <2>3 DEF LoopAssumption
    <3>3. triggers' \in [stale : 0..TriggerCap, fresh : 0..TriggerCap]
      BY <3>1, <3>2 DEF LoopInv, TypeOK, QueuesTyped
    <3>4. triggers'.fresh = triggers.fresh - 1 /\ triggers'.stale = triggers.stale
      BY <3>1, StaleFits DEF LoopInv
    <3> QED BY <2>1, <3>3, <3>4 DEF LoopInv, TypeOK, QueuesTyped, TriggersFit, probes, LoopAssumption
  <2> QED BY <2>2, <2>3
<1>4. LoopTyped'
  BY DEF LoopInv, TypeOK, LoopTyped, debounce, wake, DeferForDisplaySleep
<1>5. BoundsTyped'
  BY DEF LoopInv, TypeOK, BoundsTyped, bounds
<1> QED BY <1>1, <1>2, <1>3, <1>4, <1>5 DEF LoopInv, TypeOK

\* the recovery timer,
LEMMA RecoversKeeps ==
  ASSUME LoopAssumption, LoopInv, Recovers
  PROVE  LoopInv'
<1> USE DEF Recovers, RecoveryWaits, RecoveryTriggers,
           TakesRecovery, Selects
<1>1. WorldTyped'
  BY DEF LoopInv, TypeOK, WorldTyped, world, streams
<1>2. ServiceTyped' /\ PassKnowsLid'
  BY DEF LoopInv, TypeOK, ServiceTyped, PassKnowsLid, service, screen,
     Lids, LoopAssumption
<1>3. QueuesTyped' /\ TriggersFit'
  BY PushFits, StaleFits DEF LoopInv, TypeOK, QueuesTyped, TriggersFit, loop, queue, probes
<1>4. LoopTyped'
  BY DEF LoopInv, TypeOK, LoopTyped, loop, debounce, wake
<1>5. BoundsTyped'
  BY DEF LoopInv, TypeOK, BoundsTyped, bounds
<1> QED BY <1>1, <1>2, <1>3, <1>4, <1>5 DEF LoopInv, TypeOK

\* the debounce timer and a pass it begins,
LEMMA TakesDebounceKeeps ==
  ASSUME LoopAssumption, LoopInv, TakesDebounce
  PROVE  LoopInv'
<1> USE DEF TakesDebounce, DebounceStale, DebounceBusy, DebouncePreviewing,
           DebounceApplies, Debounced, Selects, StopsDebounce, PassBegins
<1>1. WorldTyped'
  BY DEF LoopInv, TypeOK, WorldTyped, world, streams
<1>2. ServiceTyped' /\ PassKnowsLid'
  <2>1. CASE DebounceStale \/ DebounceBusy \/ DebouncePreviewing
    BY <2>1 DEF LoopInv, TypeOK, ServiceTyped, PassKnowsLid, screen
  <2>2. CASE DebounceApplies
    BY <2>2, PassBeginsTyped DEF LoopInv, TypeOK, ServiceTyped, PassKnowsLid, screen
  <2> QED BY <2>1, <2>2
<1>3. QueuesTyped' /\ TriggersFit'
  BY DEF LoopInv, TypeOK, QueuesTyped, TriggersFit, loop, queue, probes
<1>4. LoopTyped'
  BY DEF LoopInv, TypeOK, LoopTyped, loop, debounce, wake
<1>5. BoundsTyped'
  BY FaultTyped DEF LoopInv, TypeOK, BoundsTyped, bounds
<1> QED BY <1>1, <1>2, <1>3, <1>4, <1>5 DEF LoopInv, TypeOK

\* the end of that pass,
LEMMA LoopPassEndsKeeps ==
  ASSUME LoopAssumption, LoopInv, LoopPassEnds
  PROVE  LoopInv'
<1> USE DEF LoopPassEnds, PassBusy, RepeatsWake, PassAsleep, PassDone,
           PassEnds, EndsWake, StopsDebounce, DeferForDisplaySleep, Lights
<1>1. WorldTyped'
  BY LightsTyped DEF LoopInv, TypeOK, WorldTyped, world, streams
<1>2. ServiceTyped' /\ PassKnowsLid'
  BY PassTyped DEF LoopInv, TypeOK, ServiceTyped, PassKnowsLid, service, screen,
     Lids, LoopAssumption
<1>3. QueuesTyped' /\ TriggersFit'
  BY DEF LoopInv, TypeOK, QueuesTyped, TriggersFit, loop, queue, probes
<1>4. LoopTyped'
  <2>1. CASE PassBusy \/ PassAsleep \/ PassDone
    BY <2>1, RetriesTyped DEF LoopInv, TypeOK, LoopTyped, wake
  <2>2. CASE RepeatsWake
    <3>1. wakeRetries' \in 0..WakeRetryLimit
      BY <2>2 DEF LoopInv, TypeOK, LoopTyped, LoopAssumption
    <3> QED BY <2>2, <3>1 DEF LoopInv, TypeOK, LoopTyped
  <2> QED BY <2>1, <2>2
<1>5. BoundsTyped'
  <2>0. PICK after \in Powers : \E result : Pass(result, after)
    OBVIOUS
  <2>1. PICK result : Pass(result, after)
    BY <2>0
  <2>2. view \in Views /\ UNCHANGED <<moves, calls>>
    BY DEF LoopInv, PassKnowsLid
  <2>3. faults' \in 0..MaxFaults
    BY <2>1, <2>2, PassTyped DEF LoopInv
  <2> QED BY <2>2, <2>3 DEF LoopInv, TypeOK, BoundsTyped
<1> QED BY <1>1, <1>2, <1>3, <1>4, <1>5 DEF LoopInv, TypeOK

\* and what clients do under the writer mutex.
LEMMA ClientStepsKeeps ==
  ASSUME LoopAssumption, LoopInv, ClientSteps
  PROVE  LoopInv'
<1> USE DEF ClientSteps, ClientPreviews, PreviewEnds, ClientPassBegins,
           ClientPassEnds, PassBegins, PassEnds
<1>1. WorldTyped'
  BY DEF LoopInv, TypeOK, WorldTyped, world, streams
<1>2. ServiceTyped' /\ PassKnowsLid'
  <2>1. CASE ClientPreviews \/ PreviewEnds
    BY <2>1 DEF LoopInv, TypeOK, ServiceTyped, PassKnowsLid, screen, LoopAssumption
  <2>2. CASE ClientPassBegins
    BY <2>2, PassBeginsTyped DEF LoopInv, TypeOK, ServiceTyped, PassKnowsLid, screen,
       LoopAssumption
  <2>3. CASE ClientPassEnds
    <3>0. PICK after \in Powers : \E result : Pass(result, after)
      BY <2>3
    <3>1. PICK result : Pass(result, after)
      BY <3>0
    <3>2. view \in Views
      BY <2>3 DEF LoopInv, TypeOK, ServiceTyped
    <3> QED BY <2>3, <3>1, <3>2, PassTyped
            DEF LoopInv, TypeOK, ServiceTyped, PassKnowsLid, LoopAssumption
  <2> QED BY <2>1, <2>2, <2>3
<1>3. QueuesTyped' /\ TriggersFit'
  BY DEF LoopInv, TypeOK, QueuesTyped, TriggersFit, loop, queue, probes
<1>4. LoopTyped'
  BY DEF LoopInv, TypeOK, LoopTyped, loop, debounce, wake
<1>5. BoundsTyped'
  <2>1. CASE ClientPreviews \/ PreviewEnds
    BY <2>1 DEF LoopInv, TypeOK, BoundsTyped, bounds
  <2>2. CASE ClientPassBegins
    BY <2>2, FaultTyped DEF LoopInv, TypeOK, BoundsTyped
  <2>3. CASE ClientPassEnds
    <3>0. PICK after \in Powers : \E result : Pass(result, after)
      BY <2>3
    <3>1. PICK result : Pass(result, after)
      BY <3>0
    <3>2. view \in Views
      BY <2>3 DEF LoopInv, TypeOK, ServiceTyped
    <3> QED BY <2>3, <3>1, <3>2, PassTyped DEF LoopInv, TypeOK, BoundsTyped
  <2> QED BY <2>1, <2>2, <2>3
<1> QED BY <1>1, <1>2, <1>3, <1>4, <1>5 DEF LoopInv, TypeOK

\* LoopInv holds when Run starts.
LEMMA InitEstablishes == LoopAssumption /\ Init => LoopInv
<1> SUFFICES ASSUME LoopAssumption, Init PROVE LoopInv
  OBVIOUS
<1>1. TriggersFit /\ PassKnowsLid
  BY DEF Init, LoopAssumption, TriggersFit, PassKnowsLid
<1>2. WorldTyped
  <2>1. lidEvents \in Seq(Lids) /\ sleepEvents \in Seq(BOOLEAN)
    BY DEF Init
  <2> QED BY <2>1 DEF Init, WorldTyped, Powers
<1>3. ServiceTyped
  BY DEF Init, ServiceTyped, Layout
<1>4. QueuesTyped
  <2>1. triggers \in [stale : 0..TriggerCap, fresh : 0..TriggerCap]
    BY DEF Init, LoopAssumption
  <2>2. answers \in Seq(Answered)
    BY DEF Init
  <2> QED BY <2>1, <2>2 DEF Init, QueuesTyped
<1>5. LoopTyped
  BY RetriesTyped DEF Init, LoopTyped
<1>6. BoundsTyped
  BY DEF Init, BoundsTyped, LoopAssumption
<1> QED BY <1>1, <1>2, <1>3, <1>4, <1>5, <1>6 DEF LoopInv, TypeOK

\* Nothing happening keeps LoopInv.
LEMMA StutterKeeps == LoopInv /\ UNCHANGED vars => LoopInv'
<1> SUFFICES ASSUME LoopInv, UNCHANGED vars PROVE LoopInv'
  OBVIOUS
<1>1. UNCHANGED <<world, streams, service, loop, bounds>>
  BY DEF vars
<1>2. WorldTyped' /\ BoundsTyped'
  BY <1>1 DEF LoopInv, TypeOK, WorldTyped, BoundsTyped, world, streams, bounds
<1>3. ServiceTyped' /\ PassKnowsLid'
  BY <1>1 DEF LoopInv, TypeOK, ServiceTyped, PassKnowsLid, service, screen
<1>4. QueuesTyped' /\ TriggersFit' /\ LoopTyped'
  BY <1>1 DEF LoopInv, TypeOK, QueuesTyped, TriggersFit, LoopTyped, loop, queue, probes,
     debounce, wake
<1> QED BY <1>2, <1>3, <1>4 DEF LoopInv, TypeOK

\* A step of Next keeps LoopInv.
LEMMA LoopInvInductive == LoopInv /\ [Next]_vars => LoopInv'
<1> SUFFICES ASSUME LoopInv, [Next]_vars PROVE LoopInv'
  OBVIOUS
<1>0. LoopAssumption
  BY LoopAssumption
<1>1. CASE Environment \/ Watchers \/ ProbeWorker
  BY <1>0, <1>1, EnvironmentKeeps, WatchersKeeps, ProbeWorkerKeeps
<1>2. CASE TakesEvent
  BY <1>0, <1>2, HotplugEventKeeps, SuspendEventKeeps, ResumeEventKeeps, TakesLidKeeps
     DEF TakesEvent
<1>3. CASE Poll \/ TakesProbe \/ TakesTriggers \/ Recovers
  BY <1>0, <1>3, PollKeeps, TakesProbeKeeps, TakesTriggersKeeps, RecoversKeeps
<1>4. CASE TakesDebounce \/ LoopPassEnds \/ ClientSteps
  BY <1>0, <1>4, TakesDebounceKeeps, LoopPassEndsKeeps, ClientStepsKeeps
<1>5. CASE UNCHANGED vars
  BY <1>5, StutterKeeps
<1> QED BY <1>1, <1>2, <1>3, <1>4, <1>5 DEF Next

\* LoopInv holds in every reachable state: the channel is never overfull, and
\* while a pass of the loop runs lidState is what the pass has read.
THEOREM LoopInvHolds == Spec => []LoopInv
<1>1. Init => LoopInv
  BY LoopAssumption, InitEstablishes
<1> QED BY <1>1, LoopInvInductive, PTL DEF Spec

\* Type correctness: whatever arrives in whatever order, the channels stay within
\* their capacity and every counter within its bound.
THEOREM LoopTypeCorrect == Spec => []TypeOK
<1>1. LoopInv => TypeOK
  BY DEF LoopInv
<1> QED BY <1>1, LoopInvHolds, PTL

\* The sleep guard is set only when no wake has to be repeated, and a wake that
\* is requested releases it (daemon.go, requestWake and displaySleepEntered).
THEOREM GuardAndWakeExclude == Spec => []GuardExcludesWake
<1>1. Init => GuardExcludesWake
  BY DEF Init, GuardExcludesWake
<1>2. LoopInv /\ GuardExcludesWake /\ [Next]_vars => GuardExcludesWake'
  <2> SUFFICES ASSUME LoopInv, GuardExcludesWake, [Next]_vars PROVE GuardExcludesWake'
    OBVIOUS
  <2> USE DEF GuardExcludesWake
  <2>1. CASE Environment \/ Watchers \/ ProbeWorker
    BY <2>1 DEF Environment, Hotplug, UserIdles, UserStirs, LidMoves, Sleeps, SocketCloses,
       ClientLocks, RotationReading, Watchers, LidPolled, Resumes, Resubscribe,
       ProbeWorker, loop, wake
  <2>2. CASE HotplugEvent \/ ResumeEvent \/ SuspendEvent
    BY <2>2 DEF HotplugEvent, ResumeEvent, SuspendEvent, WakesUp, loop, wake
  <2>3. CASE TakesLid
    BY <2>3 DEF TakesLid, LidEventIgnored, LidOpened, LidClosed, WakesUp, loop, wake
  <2>4. CASE Poll \/ TakesTriggers \/ Recovers
    BY <2>4 DEF Poll, TakesTriggers, TriggerDropped, TriggerDeferred, TriggerDebounced,
       TakesTrigger, Recovers, RecoveryWaits, RecoveryTriggers,
       TakesRecovery, wake
  <2>5. CASE TakesProbe
    <3>1. wakeRetries' = wakeRetries
      BY <2>5 DEF TakesProbe, ProbeStale, ProbeFailed, ProbeFindsSleep, ProbeFindsWake,
         ProbeWhileAsleep, ProbeForTopology, ProbeForPoll, Probed, TakesAnswer
    <3>2. CASE ProbeFindsSleep
      <4>1. wakeRetries \in Nat
        BY LoopAssumption DEF LoopInv, TypeOK, LoopTyped, LoopAssumption
      <4>2. CASE wakeRetries > 0
        BY <3>1, <3>2, <4>2 DEF ProbeFindsSleep
      <4>3. CASE wakeRetries = 0
        BY <3>1, <4>3
      <4> QED BY <4>1, <4>2, <4>3
    <3>3. CASE ~ProbeFindsSleep
      BY <2>5, <3>1, <3>3 DEF TakesProbe, ProbeStale, ProbeFailed, ProbeFindsWake,
         ProbeWhileAsleep, ProbeForTopology, ProbeForPoll
    <3> QED BY <3>2, <3>3
  <2>6. CASE TakesDebounce \/ ClientSteps
    BY <2>6 DEF TakesDebounce, DebounceStale, DebounceBusy, DebouncePreviewing,
       DebounceApplies, Debounced, ClientSteps, ClientPreviews, PreviewEnds,
       ClientPassBegins, ClientPassEnds, loop, wake
  <2>7. CASE LoopPassEnds
    <3>1. CASE RepeatsWake
      BY <3>1, LoopAssumption DEF RepeatsWake, LoopInv, TypeOK, LoopTyped, LoopAssumption
    <3>2. CASE PassBusy \/ PassAsleep \/ PassDone
      BY <3>2 DEF PassBusy, PassAsleep, PassDone, EndsWake, wake
    <3> QED BY <2>7, <3>1, <3>2 DEF LoopPassEnds
  <2>8. CASE UNCHANGED vars
    BY <2>8 DEF vars, loop, wake
  <2> QED BY <2>1, <2>2, <2>3, <2>4, <2>5, <2>6, <2>7, <2>8 DEF Next, TakesEvent
<1> QED BY <1>1, <1>2, LoopInvHolds, PTL DEF Spec

\* A pass of the loop begins for the debounce timer, hence awake, and the loop
\* takes no event before it ends.
PassAwake == writer = Loop => ~guard /\ ~suspended

\* No timer is armed behind the sleep guard or during a suspend: what sets either
\* stops both timers, and both are armed only without them (daemon.go,
\* deferForDisplaySleep and the suspend event).
THEOREM TimersAlwaysRest == Spec => []TimersRest
<1> DEFINE Inv == TimersRest /\ PassAwake
<1>1. Init => Inv
  BY LoopAssumption DEF Init, TimersRest, PassAwake, LoopAssumption
<1>2. Inv /\ [Next]_vars => Inv'
  <2> SUFFICES ASSUME Inv, [Next]_vars PROVE Inv'
    OBVIOUS
  <2> USE DEF TimersRest, PassAwake
  <2>0. Loop # Client /\ Loop # Nobody
    BY LoopAssumption DEF LoopAssumption
  <2>1. CASE Environment \/ Watchers \/ ProbeWorker
    <3>1. UNCHANGED <<timer, recovery, guard, suspended>>
      BY <2>1 DEF Environment, Hotplug, UserIdles, UserStirs, LidMoves, Sleeps,
         SocketCloses, ClientLocks, RotationReading, Watchers, LidPolled, Resumes,
         Resubscribe, ProbeWorker, loop, wake, debounce
    <3>2. writer' = writer \/ writer' = Client
      BY <2>1 DEF Environment, Hotplug, UserIdles, UserStirs, LidMoves, Sleeps,
         SocketCloses, ClientLocks, RotationReading, Watchers, LidPolled, Resumes,
         Resubscribe, ProbeWorker, service
    <3> QED BY <2>0, <3>1, <3>2
  <2>2. CASE HotplugEvent \/ Poll
    <3>1. /\ UNCHANGED <<recovery, guard, suspended, writer>>
          /\ (timer' = timer \/ timer' = FALSE)
      BY <2>2 DEF HotplugEvent, Poll, StopsDebounce, service, loop, wake, debounce
    <3> QED BY <3>1
  <2>3. CASE SuspendEvent \/ ResumeEvent
    BY <2>3 DEF SuspendEvent, ResumeEvent, StopsDebounce, WakesUp, Selects
  <2>4. CASE TakesLid
    <3>1. writer # Loop /\ writer' = writer
      BY <2>4 DEF TakesLid, LidEventIgnored, LidOpened, LidClosed, TakesLidEvent, Selects
    <3>2. UNCHANGED suspended /\ (guard' = guard \/ guard' = FALSE)
      BY <2>4 DEF TakesLid, LidEventIgnored, LidOpened, LidClosed, WakesUp, wake
    <3>3. (timer' = timer \/ timer' = FALSE) /\ (recovery' = recovery \/ recovery' = FALSE)
      BY <2>4 DEF TakesLid, LidEventIgnored, LidOpened, LidClosed, StopsDebounce,
         DeferForDisplaySleep, debounce
    <3> QED BY <3>1, <3>2, <3>3
  <2>5. CASE TakesProbe
    BY <2>5 DEF TakesProbe, ProbeStale, ProbeFailed, ProbeFindsSleep, ProbeFindsWake,
       ProbeWhileAsleep, ProbeForTopology, ProbeForPoll, Probed, TakesAnswer, Selects,
       Settles, StopsDebounce, DeferForDisplaySleep, debounce
  <2>6. CASE TakesTriggers \/ Recovers
    BY <2>6 DEF TakesTriggers, TriggerDropped, TriggerDeferred, TriggerDebounced, Counts,
       TakesTrigger, DeferForDisplaySleep, Recovers, RecoveryWaits, RecoveryTriggers,
       TakesRecovery, Selects, service, wake, debounce
  <2>7. CASE TakesDebounce
    BY <2>7 DEF TakesDebounce, DebounceStale, DebounceBusy, DebouncePreviewing,
       DebounceApplies, Debounced, Due, Selects, StopsDebounce, wake, debounce
  <2>8. CASE LoopPassEnds
    <3>1. writer = Loop /\ writer' = Nobody /\ UNCHANGED suspended
      BY <2>8 DEF LoopPassEnds, PassBusy, RepeatsWake, PassAsleep, PassDone, PassEnds
    <3>2. CASE PassAsleep
      BY <2>0, <3>1, <3>2 DEF PassAsleep, DeferForDisplaySleep
    <3>3. CASE PassBusy \/ RepeatsWake \/ PassDone
      <4>1. guard' = guard
        BY <3>3 DEF PassBusy, RepeatsWake, PassDone, wake
      <4> QED BY <2>0, <3>1, <4>1
    <3> QED BY <2>8, <3>2, <3>3 DEF LoopPassEnds
  <2>9. CASE ClientSteps
    BY <2>0, <2>9 DEF ClientSteps, ClientPreviews, PreviewEnds, ClientPassBegins,
       ClientPassEnds, PassBegins, PassEnds, loop, wake, debounce
  <2>10. CASE UNCHANGED vars
    BY <2>10 DEF vars, service, loop, wake, debounce
  <2> QED BY <2>1, <2>2, <2>3, <2>4, <2>5, <2>6, <2>7, <2>8, <2>9, <2>10
          DEF Next, TakesEvent
<1>3. Inv => TimersRest
  OBVIOUS
<1> QED BY <1>1, <1>2, <1>3, PTL DEF Spec

\* A layout for a closed lid comes from Target, which takes the lid from lidState;
\* and what the pass that applies it has read of the switch is either that state
\* or nothing (daemon.go, refreshLidState and applyBestLocked).
THEOREM ClosedLidsAreReal == Spec => ClosedLidIsReal
<1> DEFINE Step == writer = Loop /\ shown' # shown /\ shown'.lid = "closed"
                     => view.lid # "open"
<1>1. LoopInv /\ [Next]_vars => [Step]_vars
  <2> SUFFICES ASSUME LoopInv, Next, writer = Loop, shown' # shown, shown'.lid = "closed"
               PROVE  view.lid # "open"
    BY DEF vars, service, screen
  <2>1. LoopPassEnds \/ ClientPassEnds
    BY DEF Next, Environment, Hotplug, UserIdles, UserStirs, LidMoves, Sleeps, SocketCloses,
       ClientLocks, RotationReading, Watchers, LidPolled, Resumes, Resubscribe, ProbeWorker,
       TakesEvent, HotplugEvent, ResumeEvent, SuspendEvent, TakesLid, LidEventIgnored,
       LidOpened, LidClosed, TakesLidEvent, Poll, TakesTriggers, TriggerDropped,
       TriggerDeferred, TriggerDebounced, TakesTrigger, Recovers, 
       RecoveryWaits, RecoveryTriggers, TakesRecovery, TakesProbe, ProbeStale, ProbeFailed,
       ProbeFindsSleep, ProbeFindsWake, ProbeWhileAsleep, ProbeForTopology, ProbeForPoll,
       Probed, TakesAnswer, TakesDebounce, DebounceStale, DebounceBusy, DebouncePreviewing,
       DebounceApplies, Debounced, ClientSteps, ClientPreviews, PreviewEnds,
       ClientPassBegins, service, screen
  <2>2. PICK result, after : Pass(result, after)
    BY <2>1 DEF LoopPassEnds, PassBusy, RepeatsWake, PassAsleep, PassDone, ClientPassEnds
  <2>3. shown' = Target(view.setup)
    BY <2>2 DEF Pass, NothingToDo, FindsSleep, ReadFails, AlreadyApplied, StillRejected,
       Applied, ApplyFails, screen
  <2>4. lidState = "closed"
    BY <2>3 DEF Target
  <2> QED BY <2>4 DEF LoopInv, PassKnowsLid
<1>2. [][Step]_vars <=> ClosedLidIsReal
  BY DEF ClosedLidIsReal
<1> QED BY <1>1, <1>2, LoopInvHolds, PTL DEF Spec

-----------------------------------------------------------------------------
(* Nothing is forgotten: NothingForgotten is far from inductive, and        *)
(* MemoryInv says how the loop remembers: a change is either assured of a   *)
(* pass by something that only a pass ends, or still to be noticed by a     *)
(* poll or a lid event, and a pass that works with an old view leaves a     *)
(* notice of what it missed.                                                *)

\* What leads to a pass, or to a poll that sees the displays wake, and which no
\* step ends but a pass of the loop; or the change is counted as lost.
Assured ==
  \/ events > 0 \/ sleepEvents # <<>> \/ machine = "asleep" \/ suspended \/ probing
  \/ triggers.fresh > 0 \/ (pending /\ pendingFresh /\ timer) \/ recovery
  \/ guard \/ lost \/ wakeRetries > 0

\* A layout that an apply would change is assured of a pass, or will be noticed.
ChangeRemembered ==
  setup # NoDisplays /\ shown # Target(setup) /\ rejected # Target(setup)
    => \/ Assured \/ writer = Loop
       \/ Hash(setup) # lastSeen \/ lidEvents # <<>>
       \/ (lid # lidLast /\ lidState = lid)

\* A pass whose view is not of these displays is followed by another.
OldViewFollowed ==
  /\ writer = Loop /\ view.setup # setup => events > 0 \/ lost
  /\ writer = Client /\ view # NoView /\ view.setup # setup => Assured

\* A lid the service has not read will be announced, polled or read by a pass.
LidRemembered ==
  lid # lidState
    => lidEvents # <<>> \/ lid # lidLast \/ lost \/ (writer # Loop /\ Assured)

\* The last lid event on its way is the state last announced.
LastLidEvent == lidEvents # <<>> => lidEvents[Len(lidEvents)] = lidLast

\* A view belongs to the pass that has the writer mutex.
ViewHeld == writer = Nobody => view = NoView

\* The debounce that began a pass is there to be run again until the pass ends.
DebounceKept == writer = Loop => pending /\ pendingFresh

MemoryInv ==
  /\ ChangeRemembered /\ OldViewFollowed /\ LidRemembered
  /\ LastLidEvent /\ ViewHeld /\ DebounceKept

-----------------------------------------------------------------------------
(* Kinds of steps: those that assure a pass, those that leave all that a   *)
(* change depends on as it is, and the others.                             *)

Assuring ==
  \/ Sleeps \/ Resumes \/ RotationReading
  \/ HotplugEvent \/ SuspendEvent \/ ResumeEvent \/ LidOpened \/ LidClosed
  \/ ProbeFindsSleep \/ ProbeFindsWake \/ ProbeWhileAsleep \/ ProbeForTopology
  \/ TriggerDeferred \/ TriggerDebounced \/ RecoveryTriggers \/ DebouncePreviewing

Resting ==
  \/ UserIdles \/ UserStirs \/ SocketCloses \/ ClientLocks \/ Resubscribe
  \/ ProbeWorker \/ Poll \/ ProbeStale \/ ProbeFailed \/ TriggerDropped
  \/ RecoveryWaits \/ DebounceStale \/ DebounceBusy \/ ClientPreviews \/ PreviewEnds

Noticing == Hotplug \/ LidMoves \/ LidPolled \/ LidEventIgnored \/ ProbeForPoll

Passing == DebounceApplies \/ LoopPassEnds \/ ClientPassBegins \/ ClientPassEnds

LEMMA StepKinds == Next => Assuring \/ Resting \/ Noticing \/ Passing
BY DEF Next, Environment, Watchers, TakesEvent, TakesLid, TakesProbe, TakesTriggers,
   Recovers, TakesDebounce, ClientSteps, Assuring, Resting, Noticing, Passing

\* A trigger that is pushed is in the channel, or lost.
LEMMA PushAssures ==
  ASSUME NEW t, t.fresh \in Nat, t = [stale |-> t.stale, fresh |-> t.fresh], Push(t)
  PROVE  /\ triggers'.fresh > 0 \/ lost'
         /\ t.fresh > 0 => triggers'.fresh > 0
         /\ lost => lost'
BY DEF Push

\* The triggers as Push finds them.
LEMMA TriggersShape ==
  ASSUME LoopAssumption, LoopInv
  PROVE  /\ triggers.fresh \in Nat /\ triggers.stale \in Nat
         /\ triggers = [stale |-> triggers.stale, fresh |-> triggers.fresh]
         /\ Stale(triggers).fresh \in Nat
         /\ Stale(triggers)
              = [stale |-> Stale(triggers).stale, fresh |-> Stale(triggers).fresh]
BY DEF LoopInv, TypeOK, QueuesTyped, Stale, LoopAssumption

\* Each step of the first kind leads to a pass, whatever was there before: the
\* hotplug is probed, the suspend is waited out, the resume and the opened lid
\* ask for light, the closed lid waits for the guard or is triggered.
LEMMA AssuringSteps ==
  ASSUME LoopAssumption, LoopInv, Assuring
  PROVE  Assured'
<1> USE TriggersShape, PushAssures DEF Assured
<1>1. CASE Sleeps \/ Resumes
  <2>1. sleepEvents \in Seq(BOOLEAN)
    BY DEF LoopInv, TypeOK, WorldTyped
  <2>2. sleepEvents' # <<>>
    <3>1. \E asleep \in BOOLEAN : sleepEvents' = Append(sleepEvents, asleep)
      BY <1>1 DEF Sleeps, Resumes
    <3>2. Len(sleepEvents') = Len(sleepEvents) + 1 /\ Len(sleepEvents) \in Nat
      BY <2>1, <3>1
    <3> QED BY <3>2
  <2> QED BY <2>2
<1>2. CASE RotationReading
  BY <1>2 DEF RotationReading
<1>3. CASE HotplugEvent
  BY <1>3 DEF HotplugEvent, loop
<1>4. CASE SuspendEvent
  BY <1>4 DEF SuspendEvent
<1>5. CASE ResumeEvent \/ LidOpened
  <2>1. wakeRetries' = WakeRetryLimit
    BY <1>5 DEF ResumeEvent, LidOpened, WakesUp
  <2>2. WakeRetryLimit > 0
    BY DEF LoopAssumption
  <2> QED BY <2>1, <2>2
<1>6. CASE LidClosed
  BY <1>6 DEF LidClosed
<1>7. CASE ProbeFindsSleep
  BY <1>7 DEF ProbeFindsSleep, Probed, TakesAnswer
<1>8. CASE ProbeFindsWake \/ ProbeForTopology
  BY <1>8 DEF ProbeFindsWake, ProbeForTopology
<1>9. CASE ProbeWhileAsleep
  BY <1>9 DEF ProbeWhileAsleep
<1>10. CASE TriggerDeferred \/ TriggerDebounced
  BY <1>10 DEF TriggerDeferred, TriggerDebounced, TakesTrigger, wake
<1>11. CASE RecoveryTriggers
  BY <1>11 DEF RecoveryTriggers
<1>12. CASE DebouncePreviewing
  BY <1>12 DEF DebouncePreviewing
<1> QED BY <1>1, <1>2, <1>3, <1>4, <1>5, <1>6, <1>7, <1>8, <1>9, <1>10, <1>11, <1>12
        DEF Assuring

\* They do not end or begin a pass, and leave its view alone.
LEMMA AssuringLeaves ==
  ASSUME Assuring
  PROVE  UNCHANGED <<setup, lid, lidLast, writer, view>>
BY DEF Assuring, Sleeps, Resumes, RotationReading, HotplugEvent, SuspendEvent, ResumeEvent,
   LidOpened, LidClosed, WakesUp, TakesLidEvent, ProbeFindsSleep, ProbeFindsWake,
   ProbeWhileAsleep, ProbeForTopology, Probed, TakesAnswer, TriggerDeferred,
   TriggerDebounced, TakesTrigger, RecoveryTriggers, TakesRecovery, DebouncePreviewing,
   Debounced, world, streams, service, loop

\* The second kind changes nothing a change depends on.
LEMMA RestingLeaves ==
  ASSUME Resting \/ UNCHANGED vars
  PROVE  /\ UNCHANGED <<setup, lid, lidEvents, lidLast, screen, lidState, turn, view>>
         /\ writer' = writer \/ {writer, writer'} = {Nobody, Client}
<1>1. CASE UserIdles \/ UserStirs \/ SocketCloses \/ ClientLocks \/ Resubscribe \/ ProbeWorker
           \/ Poll \/ UNCHANGED vars
  BY <1>1 DEF UserIdles, UserStirs, SocketCloses, ClientLocks, Resubscribe, ProbeWorker,
     Poll, vars, world, streams, service, screen
<1>2. CASE ProbeStale \/ ProbeFailed
  BY <1>2 DEF ProbeStale, ProbeFailed, Probed, TakesAnswer, world, streams, screen
<1>3. CASE TriggerDropped \/ RecoveryWaits \/ DebounceStale \/ DebounceBusy
  BY <1>3 DEF TriggerDropped, TakesTrigger, RecoveryWaits, TakesRecovery, DebounceStale,
     DebounceBusy, Debounced, world, streams, service, screen
<1>4. CASE ClientPreviews \/ PreviewEnds
  BY <1>4 DEF ClientPreviews, PreviewEnds, world, streams, screen
<1> QED BY <1>1, <1>2, <1>3, <1>4 DEF Resting

\* Only a pass of the loop ends what assures one.
LEMMA AssuredStays ==
  ASSUME LoopAssumption, LoopInv, Assured,
         Resting \/ Noticing \/ ClientPassBegins \/ ClientPassEnds \/ UNCHANGED vars
  PROVE  Assured'
<1> USE TriggersShape, PushAssures DEF Assured
<1>0. events \in Nat
  BY DEF LoopInv, TypeOK, WorldTyped
<1>1. CASE UserIdles \/ UserStirs \/ ClientLocks \/ Resubscribe \/ ProbeWorker \/ Poll
           \/ UNCHANGED vars
  BY <1>1 DEF UserIdles, UserStirs, ClientLocks, Resubscribe, ProbeWorker, Poll,
     vars, world, streams, loop, queue, debounce, wake
<1>2. CASE SocketCloses
  BY <1>2 DEF SocketCloses, world, debounce, wake
<1>3. CASE ProbeStale
  BY <1>3 DEF ProbeStale, TakesAnswer, world, streams, queue, debounce
<1>4. CASE ProbeFailed
  <2>1. UNCHANGED <<world, streams, suspended, wakeRetries, guard, recovery>>
    BY <1>4 DEF ProbeFailed, Probed, TakesAnswer
  <2>2. CASE ForTopology
    BY <1>4, <2>2 DEF ProbeFailed
  <2>3. CASE ~ForTopology
    <3>1. UNCHANGED <<triggers, lost, pending, pendingFresh, timer>> /\ ~probing
      BY <1>4, <2>3 DEF ProbeFailed, Settles, ForTopology, queue, debounce
    <3> QED BY <2>1, <3>1 DEF world, streams
  <2> QED BY <2>2, <2>3
<1>5. CASE TriggerDropped
  <2>1. UNCHANGED <<world, streams, lost, suspended, probing, wake, debounce, recovery>>
    BY <1>5 DEF TriggerDropped, TakesTrigger
  <2>2. CASE suspended \/ probing
    BY <2>1, <2>2
  <2>3. CASE triggers.stale # 0
    <3>1. triggers'.fresh = triggers.fresh
      BY <1>5, <2>3 DEF TriggerDropped, TakesTrigger
    <3> QED BY <2>1, <3>1 DEF world, streams, wake, debounce
  <2> QED BY <1>5, <2>2, <2>3 DEF TriggerDropped, Counts
<1>6. CASE RecoveryWaits
  BY <1>6 DEF RecoveryWaits, TakesRecovery, world, streams, queue, debounce, wake
<1>7. CASE DebounceStale
  <2>1. /\ UNCHANGED <<world, streams, triggers, lost, suspended, probing, wake, recovery>>
        /\ ~(~suspended /\ pending /\ pendingFresh /\ ~probing)
    BY <1>7 DEF DebounceStale, Debounced, Due
  <2> QED BY <2>1 DEF world, streams, wake
<1>8. CASE DebounceBusy
  BY <1>8 DEF DebounceBusy, Debounced, world, streams, debounce, wake
<1>9. CASE ClientPreviews \/ PreviewEnds \/ ClientPassBegins
  BY <1>9 DEF ClientPreviews, PreviewEnds, ClientPassBegins, world, streams, loop, queue,
     debounce, wake
<1>10. CASE ClientPassEnds
  BY <1>10 DEF ClientPassEnds, PassEnds, streams, queue, debounce, wake
<1>11. CASE Hotplug
  <2>1. /\ UNCHANGED <<machine, sleepEvents, triggers, suspended, debounce, probing, wake,
                       recovery>>
        /\ lost => lost'
        /\ events' = events \/ events' = events + 1
    BY <1>11 DEF Hotplug
  <2> QED BY <1>0, <2>1 DEF debounce, wake
<1>12. CASE LidMoves \/ LidPolled
  BY <1>12 DEF LidMoves, LidPolled, world, loop, queue, debounce, wake
<1>13. CASE LidEventIgnored
  BY <1>13 DEF LidEventIgnored, TakesLidEvent, world, debounce, wake
<1>14. CASE ProbeForPoll
  <2>1. /\ UNCHANGED <<world, streams, suspended, wakeRetries, debounce, guard, recovery>>
        /\ ~probing
    BY <1>14 DEF ProbeForPoll, Probed, TakesAnswer, ForTopology
  <2>2. Push(triggers) \/ UNCHANGED queue
    BY <1>14 DEF ProbeForPoll
  <2> QED BY <2>1, <2>2 DEF world, streams, queue, debounce
<1> QED BY <1>1, <1>2, <1>3, <1>4, <1>5, <1>6, <1>7, <1>8, <1>9, <1>10, <1>11, <1>12,
           <1>13, <1>14 DEF Resting, Noticing

-----------------------------------------------------------------------------
(* The parts of MemoryInv.                                                 *)

\* While a pass of the loop runs nothing touches its debounce.
LEMMA DebounceStays ==
  ASSUME LoopAssumption, LoopInv, DebounceKept, [Next]_vars
  PROVE  DebounceKept'
<1> SUFFICES ASSUME writer' = Loop PROVE (pending /\ pendingFresh)'
  BY DEF DebounceKept
<1>0. Loop # Client /\ Loop # Nobody
  BY DEF LoopAssumption
<1>1. CASE DebounceApplies
  BY <1>1 DEF DebounceApplies, Due
<1>2. CASE ~DebounceApplies
  <2>1. writer = Loop
    BY <1>0, <1>2, StepKinds, AssuringLeaves, RestingLeaves DEF Noticing, Passing,
       Hotplug, LidMoves, LidPolled, LidEventIgnored, ProbeForPoll, Probed, TakesAnswer,
       TakesLidEvent, LoopPassEnds, PassBusy, RepeatsWake, PassAsleep, PassDone, PassEnds,
       ClientPassBegins, PassBegins, ClientPassEnds, service
  <2>2. UNCHANGED <<pending, pendingFresh>>
    BY <1>0, <1>2, <2>1 DEF Next, Environment, Hotplug, UserIdles, UserStirs, LidMoves, Sleeps,
       SocketCloses, ClientLocks, RotationReading, Watchers, LidPolled, Resumes, Resubscribe,
       ProbeWorker, TakesEvent, HotplugEvent, SuspendEvent, ResumeEvent, TakesLid,
       LidEventIgnored, LidOpened, LidClosed, TakesLidEvent, Poll, TakesProbe, ProbeStale,
       ProbeFailed, ProbeFindsSleep, ProbeFindsWake, ProbeWhileAsleep, ProbeForTopology,
       ProbeForPoll, Probed, TakesAnswer, TakesTriggers, TriggerDropped, TriggerDeferred,
       TriggerDebounced, TakesTrigger, Recovers, RecoveryWaits, RecoveryTriggers,
       TakesRecovery, TakesDebounce, DebounceStale, DebounceBusy, DebouncePreviewing,
       Debounced, LoopPassEnds, PassBusy, RepeatsWake, PassAsleep, PassDone, PassEnds,
       ClientSteps, ClientPreviews, PreviewEnds, ClientPassBegins, PassBegins,
       ClientPassEnds, Selects, vars, loop, debounce
  <2> QED BY <2>1, <2>2 DEF DebounceKept
<1> QED BY <1>1, <1>2

\* The mutex is released with the view of the pass that held it.
LEMMA ViewStaysHeld ==
  ASSUME LoopAssumption, ViewHeld, [Next]_vars
  PROVE  ViewHeld'
<1>0. Loop # Nobody /\ Client # Nobody
  BY DEF LoopAssumption
<1>1. CASE Assuring
  BY <1>1, AssuringLeaves DEF ViewHeld
<1>2. CASE ClientPreviews
  BY <1>2 DEF ClientPreviews, ViewHeld
<1>3. CASE (Resting \/ UNCHANGED vars) /\ ~ClientPreviews
  BY <1>0, <1>3, RestingLeaves DEF ViewHeld, Resting, UserIdles, UserStirs, SocketCloses,
     ClientLocks, Resubscribe, ProbeWorker, Poll, ProbeStale, ProbeFailed, Probed, TakesAnswer,
     TriggerDropped, TakesTrigger, RecoveryWaits, TakesRecovery, DebounceStale, DebounceBusy,
     Debounced, PreviewEnds, service, vars
<1>4. CASE Noticing
  BY <1>4 DEF Noticing, Hotplug, LidMoves, LidPolled, LidEventIgnored, TakesLidEvent,
     ProbeForPoll, Probed, TakesAnswer, service, ViewHeld
<1>5. CASE Passing
  BY <1>0, <1>5 DEF Passing, DebounceApplies, ClientPassBegins, PassBegins, LoopPassEnds,
     PassBusy, RepeatsWake, PassAsleep, PassDone, PassEnds, ClientPassEnds, ViewHeld
<1> QED BY <1>1, <1>2, <1>3, <1>4, <1>5, StepKinds

\* Lid events are delivered in the order they were announced.
LEMMA LastLidEventStays ==
  ASSUME LoopInv, LastLidEvent, [Next]_vars
  PROVE  LastLidEvent'
<1>0. lidEvents \in Seq(Lids)
  BY DEF LoopInv, TypeOK, WorldTyped
<1>1. CASE lidEvents' = lidEvents /\ lidLast' = lidLast
  BY <1>1 DEF LastLidEvent
<1>2. CASE lidEvents' = Append(lidEvents, lidLast') /\ lidLast' \in Lids
  <2>1. lidEvents'[Len(lidEvents')] = lidLast'
    BY <1>0, <1>2
  <2> QED BY <2>1 DEF LastLidEvent
<1>3. CASE lidEvents # <<>> /\ lidEvents' = Tail(lidEvents) /\ lidLast' = lidLast
  <2>1. lidEvents' # <<>> => lidEvents'[Len(lidEvents')] = lidEvents[Len(lidEvents)]
    BY <1>0, <1>3
  <2> QED BY <1>3, <2>1 DEF LastLidEvent
<1>4. CASE LidMoves \/ LidPolled
  BY <1>1, <1>2, <1>4 DEF LidMoves, LidPolled, LoopInv, TypeOK, WorldTyped
<1>5. CASE LidEventIgnored \/ LidOpened \/ LidClosed
  BY <1>3, <1>5 DEF LidEventIgnored, LidOpened, LidClosed, TakesLidEvent
<1>6. CASE ~(LidMoves \/ LidPolled \/ LidEventIgnored \/ LidOpened \/ LidClosed)
  BY <1>1, <1>6, RestingLeaves, StepKinds DEF Assuring, Noticing, Passing, Sleeps, Resumes,
     RotationReading, HotplugEvent, SuspendEvent, ResumeEvent, ProbeFindsSleep,
     ProbeFindsWake, ProbeWhileAsleep, ProbeForTopology, Probed, TakesAnswer,
     TriggerDeferred, TriggerDebounced, TakesTrigger, RecoveryTriggers, TakesRecovery,
     DebouncePreviewing, Debounced, Hotplug, ProbeForPoll, DebounceApplies, LoopPassEnds,
     PassBusy, RepeatsWake, PassAsleep, PassDone, PassEnds, ClientPassBegins,
     ClientPassEnds, streams
<1> QED BY <1>4, <1>5, <1>6

\* What happens while a pass of the loop runs: it takes no event, and what changes
\* the displays leaves a hotplug to take, or is counted as lost.
LEMMA LoopViewFollowed ==
  ASSUME LoopAssumption, LoopInv, OldViewFollowed, [Next]_vars
  PROVE  writer' = Loop /\ view'.setup # setup' => events' > 0 \/ lost'
<1> SUFFICES ASSUME writer' = Loop, view'.setup # setup' PROVE events' > 0 \/ lost'
  OBVIOUS
<1>0. Loop # Client /\ Loop # Nobody /\ events \in Nat
  BY DEF LoopAssumption, LoopInv, TypeOK, WorldTyped
<1>1. CASE Assuring
  <2>1. writer = Loop /\ view.setup # setup
    BY <1>1, AssuringLeaves
  <2>2. events > 0 \/ lost
    BY <2>1 DEF OldViewFollowed
  <2>3. Sleeps \/ Resumes
    BY <1>1, <2>1 DEF Assuring, RotationReading, HotplugEvent, SuspendEvent, ResumeEvent,
       LidOpened, LidClosed, TakesLidEvent, ProbeFindsSleep, ProbeFindsWake,
       ProbeWhileAsleep, ProbeForTopology, Probed, TakesAnswer, TriggerDeferred,
       TriggerDebounced, TakesTrigger, RecoveryTriggers, TakesRecovery,
       DebouncePreviewing, Debounced, Selects
  <2> QED BY <2>2, <2>3 DEF Sleeps, Resumes, loop, queue
<1>2. CASE Resting \/ UNCHANGED vars
  <2>1. writer = Loop /\ view.setup # setup
    BY <1>0, <1>2, RestingLeaves
  <2>2. events > 0 \/ lost
    BY <2>1 DEF OldViewFollowed
  <2>3. UserIdles \/ UserStirs \/ SocketCloses \/ Resubscribe \/ ProbeWorker \/ UNCHANGED vars
    BY <1>0, <1>2, <2>1 DEF Resting, ClientLocks, Poll, ProbeStale, ProbeFailed, Probed,
       TakesAnswer, TriggerDropped, TakesTrigger, RecoveryWaits, TakesRecovery,
       DebounceStale, DebounceBusy, Debounced, ClientPreviews, PreviewEnds, Selects
  <2>4. CASE SocketCloses
    <3>1. lost' = (lost \/ events > 0)
      BY <2>4 DEF SocketCloses
    <3> QED BY <2>2, <3>1
  <2>5. CASE ~SocketCloses
    <3>1. events' = events /\ lost' = lost
      BY <2>3, <2>5 DEF UserIdles, UserStirs, Resubscribe, ProbeWorker, vars, streams, loop,
         queue
    <3> QED BY <2>2, <3>1
  <2> QED BY <2>4, <2>5
<1>3. CASE Hotplug
  <2>1. writer = Loop
    BY <1>3 DEF Hotplug, service
  <2>2. CASE socket
    <3>1. events' = events + 1
      BY <1>3, <2>2 DEF Hotplug
    <3> QED BY <1>0, <3>1
  <2>3. CASE ~socket
    BY <1>0, <1>3, <2>1, <2>3 DEF Hotplug
  <2> QED BY <2>2, <2>3
<1>4. CASE LidMoves \/ LidPolled
  BY <1>4 DEF LidMoves, LidPolled, OldViewFollowed, world, service, loop, queue
<1>5. CASE LidEventIgnored \/ ProbeForPoll
  BY <1>5 DEF LidEventIgnored, TakesLidEvent, ProbeForPoll, Probed, TakesAnswer, Selects
<1>6. CASE Passing
  <2>1. CASE DebounceApplies
    <3>1. view'.setup = setup /\ setup' = setup
      BY <2>1 DEF DebounceApplies, Debounced, PassBegins, world
    <3> QED BY <3>1
  <2>2. CASE ClientPassBegins \/ LoopPassEnds \/ ClientPassEnds
    BY <1>0, <2>2 DEF ClientPassBegins, PassBegins, LoopPassEnds, PassBusy, RepeatsWake,
       PassAsleep, PassDone, PassEnds, ClientPassEnds
  <2> QED BY <1>6, <2>1, <2>2 DEF Passing
<1> QED BY <1>1, <1>2, <1>3, <1>4, <1>5, <1>6, StepKinds DEF Noticing

\* A client's pass that works with an old view is followed, too: the mutex tells a
\* hotplug that a pass is under way, and what assures the loop's pass stays.
LEMMA OldViewStaysFollowed ==
  ASSUME LoopAssumption, LoopInv, OldViewFollowed, ViewHeld, [Next]_vars
  PROVE  OldViewFollowed'
<1> SUFFICES ASSUME writer' = Client, view' # NoView, view'.setup # setup' PROVE Assured'
  BY LoopViewFollowed DEF OldViewFollowed
<1>0. Client # Loop /\ Client # Nobody /\ events \in Nat
  BY DEF LoopAssumption, LoopInv, TypeOK, WorldTyped
<1>1. CASE Assuring
  BY <1>1, AssuringSteps
<1>2. CASE ClientLocks
  <2>1. writer = Nobody /\ view' = view
    BY <1>2 DEF ClientLocks
  <2> QED BY <2>1 DEF ViewHeld
<1>3. CASE (Resting /\ ~ClientLocks) \/ UNCHANGED vars
  <2>1. writer = Client
    BY <1>0, <1>3 DEF Resting, UserIdles, UserStirs, SocketCloses, Resubscribe,
       ProbeWorker, Poll, ProbeStale, ProbeFailed, Probed, TakesAnswer, TriggerDropped,
       TakesTrigger, RecoveryWaits, TakesRecovery, DebounceStale, DebounceBusy, Debounced,
       ClientPreviews, PreviewEnds, service, vars
  <2>2. view = view' /\ setup = setup'
    BY <1>3, RestingLeaves
  <2>3. Assured
    BY <2>1, <2>2 DEF OldViewFollowed
  <2>4. Resting \/ UNCHANGED vars
    BY <1>3
  <2> QED BY <2>3, <2>4, AssuredStays
<1>4. CASE Hotplug
  <2>1. writer = Client
    BY <1>4 DEF Hotplug, service
  <2>2. events' > 0 \/ lost'
    <3>1. CASE socket
      <4>1. events' = events + 1
        BY <1>4, <3>1 DEF Hotplug
      <4> QED BY <1>0, <4>1
    <3>2. CASE ~socket
      BY <1>0, <1>4, <2>1, <3>2 DEF Hotplug
    <3> QED BY <3>1, <3>2
  <2> QED BY <2>2 DEF Assured
<1>5. CASE LidMoves \/ LidPolled \/ LidEventIgnored \/ ProbeForPoll
  <2>1. UNCHANGED <<writer, view, setup>>
    BY <1>5 DEF LidMoves, LidPolled, LidEventIgnored, TakesLidEvent, ProbeForPoll, Probed,
       TakesAnswer, world, service
  <2>2. Assured
    BY <2>1 DEF OldViewFollowed
  <2> QED BY <1>5, <2>2, AssuredStays DEF Noticing
<1>6. CASE Passing
  <2>1. CASE ClientPassBegins
    <3>1. view'.setup = setup /\ setup' = setup
      BY <2>1 DEF ClientPassBegins, PassBegins, world
    <3> QED BY <3>1
  <2>2. CASE DebounceApplies \/ LoopPassEnds \/ ClientPassEnds
    BY <1>0, <2>2 DEF DebounceApplies, PassBegins, LoopPassEnds, PassBusy, RepeatsWake,
       PassAsleep, PassDone, PassEnds, ClientPassEnds
  <2> QED BY <1>6, <2>1, <2>2 DEF Passing
<1> QED BY <1>1, <1>2, <1>3, <1>4, <1>5, <1>6, StepKinds DEF Noticing

\* The switch moves, is announced, polled and read at any time: what the service
\* has not read of it is on its way, or counted as lost.
LEMMA LidStaysRemembered ==
  ASSUME LoopAssumption, LoopInv, MemoryInv, [Next]_vars
  PROVE  LidRemembered'
<1> SUFFICES ASSUME lid' # lidState'
             PROVE  lidEvents' # <<>> \/ lid' # lidLast' \/ lost' \/ (writer' # Loop /\ Assured')
  BY DEF LidRemembered
<1>0. /\ Loop # Client /\ Loop # Nobody /\ lidEvents \in Seq(Lids)
      /\ lid \in Lids /\ lidLast \in Lids /\ lidState \in Lids
  BY DEF LoopAssumption, LoopInv, TypeOK, WorldTyped, ServiceTyped
<1>1. CASE Assuring
  <2>1. CASE writer = Loop
    <3>1. Sleeps \/ Resumes
      BY <1>1, <2>1 DEF Assuring, RotationReading, HotplugEvent, SuspendEvent, ResumeEvent,
         LidOpened, LidClosed, TakesLidEvent, ProbeFindsSleep, ProbeFindsWake,
         ProbeWhileAsleep, ProbeForTopology, Probed, TakesAnswer, TriggerDeferred,
         TriggerDebounced, TakesTrigger, RecoveryTriggers, TakesRecovery,
         DebouncePreviewing, Debounced, Selects
    <3>2. UNCHANGED <<lid, lidState, lidEvents, lidLast, lost>>
      BY <3>1 DEF Sleeps, Resumes, service, loop, queue
    <3> QED BY <2>1, <3>2 DEF MemoryInv, LidRemembered
  <2>2. CASE writer # Loop
    BY <1>1, <2>2, AssuringSteps, AssuringLeaves
  <2> QED BY <2>1, <2>2
<1>2. CASE Resting \/ UNCHANGED vars
  <2>1. UNCHANGED <<lid, lidState, lidEvents, lidLast>> /\ (writer' = Loop => writer = Loop)
    BY <1>0, <1>2, RestingLeaves
  <2>2. lost => lost'
    BY <1>2 DEF Resting, UserIdles, UserStirs, SocketCloses, ClientLocks, Resubscribe,
       ProbeWorker, Poll, ProbeStale, ProbeFailed, Probed, TakesAnswer, Push, TriggerDropped,
       TakesTrigger, RecoveryWaits, TakesRecovery, DebounceStale, DebounceBusy,
       ClientPreviews, PreviewEnds, vars, loop, queue
  <2> QED BY <1>2, <2>1, <2>2, AssuredStays DEF MemoryInv, LidRemembered
<1>3. CASE LidMoves
  <2>1. CASE UPower
    <3>1. lidEvents' = Append(lidEvents, lid') /\ lid' \in Lids
      BY <1>3, <2>1 DEF LidMoves
    <3>2. Len(lidEvents') = Len(lidEvents) + 1 /\ Len(lidEvents) \in Nat
      BY <1>0, <3>1
    <3> QED BY <3>2
  <2>2. CASE ~UPower
    BY <1>3, <2>2 DEF LidMoves, service
  <2> QED BY <2>1, <2>2
<1>4. CASE LidPolled
  <2>1. Len(lidEvents') = Len(lidEvents) + 1 /\ Len(lidEvents) \in Nat
    BY <1>0, <1>4 DEF LidPolled
  <2> QED BY <2>1
<1>5. CASE LidEventIgnored
  <2>1. writer' # Loop /\ UNCHANGED <<lid, lidState, lidLast, suspended>>
    BY <1>5 DEF LidEventIgnored, TakesLidEvent, Selects, world
  <2>2. CASE suspended
    BY <2>1, <2>2 DEF Assured
  <2>3. CASE ~suspended
    <3>1. lidEvents # <<>> /\ Head(lidEvents) = lidState /\ lidEvents' = Tail(lidEvents)
      BY <1>5, <2>3 DEF LidEventIgnored, TakesLidEvent
    <3>2. lidEvents' = <<>> => Len(lidEvents) = 1
      <4>1. Len(Tail(lidEvents)) = Len(lidEvents) - 1 /\ Len(lidEvents) \in Nat
        BY <1>0, <3>1
      <4> QED BY <3>1, <4>1
    <3>3. lidEvents[Len(lidEvents)] = lidLast /\ Head(lidEvents) = lidEvents[1]
      BY <1>0, <3>1 DEF MemoryInv, LastLidEvent
    <3>4. lidEvents' = <<>> => lidLast = lidState
      BY <3>1, <3>2, <3>3
    <3> QED BY <2>1, <3>4
  <2> QED BY <2>2, <2>3
<1>6. CASE Hotplug \/ ProbeForPoll
  <2>1. UNCHANGED <<lid, lidState, lidEvents, lidLast, writer>> /\ (lost => lost')
    BY <1>6 DEF Hotplug, ProbeForPoll, Probed, TakesAnswer, Push, world, streams, service, queue
  <2> QED BY <1>6, <2>1, AssuredStays DEF Noticing, MemoryInv, LidRemembered
<1>7. CASE DebounceApplies
  BY <1>7 DEF DebounceApplies, Debounced, world
<1>8. CASE ClientPassBegins
  <2>1. lidState' = lidState
    BY <1>8 DEF ClientPassBegins, PassBegins, ReadsLid, world
  <2>2. UNCHANGED <<lid, lidEvents, lidLast, lost>> /\ writer' = Client
    BY <1>8 DEF ClientPassBegins, PassBegins, world, streams, loop, queue
  <2> QED BY <1>0, <1>8, <2>1, <2>2, AssuredStays DEF MemoryInv, LidRemembered
<1>9. CASE LoopPassEnds
  <2>1. writer = Loop /\ UNCHANGED <<lid, lidState, lidEvents, lidLast, lost>>
    BY <1>9 DEF LoopPassEnds, PassBusy, RepeatsWake, PassAsleep, PassDone, PassEnds, streams,
       queue
  <2> QED BY <2>1 DEF MemoryInv, LidRemembered
<1>10. CASE ClientPassEnds
  <2>1. writer' = Nobody /\ UNCHANGED <<lid, lidState, lidEvents, lidLast, lost>>
    BY <1>10 DEF ClientPassEnds, PassEnds, streams, queue
  <2> QED BY <1>0, <1>10, <2>1, AssuredStays DEF MemoryInv, LidRemembered
<1> QED BY <1>1, <1>2, <1>3, <1>4, <1>5, <1>6, <1>7, <1>8, <1>9, <1>10, StepKinds
        DEF Noticing, Passing

\* A pass of the loop that ends has put the displays' layout on screen, or had it
\* rejected, or leaves what leads to another pass.
LEMMA LoopPassRemembers ==
  ASSUME LoopAssumption, LoopInv, MemoryInv, LoopPassEnds
  PROVE  ChangeRemembered'
<1> SUFFICES ASSUME setup' # NoDisplays, shown' # Target(setup)', rejected' # Target(setup)'
             PROVE  Assured'
  BY DEF ChangeRemembered
<1>0. /\ writer = Loop /\ UNCHANGED <<setup, lidState, turn, events, lost>>
      /\ Target(setup)' = Target(setup)
  BY DEF LoopPassEnds, PassBusy, RepeatsWake, PassAsleep, PassDone, PassEnds, streams, queue,
     Target
<1>1. CASE PassBusy \/ RepeatsWake
  BY <1>0, <1>1 DEF PassBusy, RepeatsWake, MemoryInv, DebounceKept, Assured
<1>2. CASE PassAsleep
  BY <1>2 DEF PassAsleep, Assured
<1>3. CASE PassDone
  <2>1. PICK after \in Powers, result \in {"done", "incomplete", "rejected", "error"} :
          /\ Pass(result, after)
          /\ recovery' = IF Succeeds(result) THEN FALSE ELSE TRUE
    BY <1>3 DEF PassDone
  <2>2. CASE view.setup # setup
    BY <1>0, <2>2 DEF MemoryInv, OldViewFollowed, Assured
  <2>3. CASE view.setup = setup /\ result = "error"
    BY <2>1, <2>3 DEF Succeeds, Assured
  <2>4. CASE view.setup = setup /\ result # "error"
    <3>1. setup # NoDisplays /\ shown' # Target(view.setup) /\ rejected' # Target(view.setup)
      BY <1>0, <2>4
    <3>2. /\ ~NothingToDo(result, after) /\ ~FindsSleep(result, after)
          /\ ~ReadFails(result, after) /\ ~AlreadyApplied(result, after)
          /\ ~StillRejected(result, after) /\ ~Applied(result, after)
          /\ ~ApplyFails(result, after)
      BY <2>1, <2>4, <3>1 DEF NothingToDo, FindsSleep, ReadFails, AlreadyApplied,
         StillRejected, Applied, ApplyFails, screen
    <3> QED BY <2>1, <3>2 DEF Pass
  <2> QED BY <2>2, <2>3, <2>4
<1> QED BY <1>1, <1>2, <1>3 DEF LoopPassEnds

\* So has a client's, except that what it could not do is remembered as before.
LEMMA ClientPassRemembers ==
  ASSUME LoopAssumption, LoopInv, MemoryInv, ClientPassEnds
  PROVE  ChangeRemembered'
<1> SUFFICES ASSUME setup' # NoDisplays, shown' # Target(setup)', rejected' # Target(setup)',
                    ~Assured'
             PROVE  \/ Hash(setup)' # lastSeen' \/ lidEvents' # <<>>
                    \/ (lid' # lidLast' /\ lidState' = lid')
  BY DEF ChangeRemembered
<1>0. /\ writer = Client /\ view # NoView /\ writer # Loop
      /\ UNCHANGED <<setup, lid, lidState, turn, lidEvents, lidLast>>
      /\ Target(setup)' = Target(setup)
  BY DEF ClientPassEnds, PassEnds, streams, Target, LoopAssumption
<1>1. ~Assured
  BY AssuredStays
<1>2. view.setup = setup
  BY <1>0, <1>1 DEF MemoryInv, OldViewFollowed
<1>3. PICK after, result : Pass(result, after)
  BY DEF ClientPassEnds
<1>4. shown' = shown /\ lastSeen' = lastSeen /\ rejected # Target(setup)
  <2>0. shown' # Target(view.setup) /\ rejected' # Target(view.setup)
    BY <1>0, <1>2
  <2>1. ~AlreadyApplied(result, after) /\ ~StillRejected(result, after)
        /\ ~Applied(result, after)
    BY <2>0 DEF AlreadyApplied, StillRejected, Applied, screen
  <2>2. CASE ApplyFails(result, after)
    BY <1>2, <2>2 DEF ApplyFails, Attempts
  <2>3. CASE NothingToDo(result, after) \/ FindsSleep(result, after) \/ ReadFails(result, after)
    BY <1>0, <2>3 DEF NothingToDo, FindsSleep, ReadFails, screen
  <2> QED BY <1>3, <2>1, <2>2, <2>3 DEF Pass
<1> QED BY <1>0, <1>1, <1>4 DEF MemoryInv, ChangeRemembered, Hash

\* A layout that an apply would change stays remembered.
LEMMA ChangeStaysRemembered ==
  ASSUME LoopAssumption, LoopInv, MemoryInv, [Next]_vars
  PROVE  ChangeRemembered'
<1> SUFFICES ASSUME setup' # NoDisplays, shown' # Target(setup)', rejected' # Target(setup)',
                    ~Assured', writer' # Loop
             PROVE  \/ Hash(setup)' # lastSeen' \/ lidEvents' # <<>>
                    \/ (lid' # lidLast' /\ lidState' = lid')
  BY DEF ChangeRemembered
<1>0. /\ Loop # Client /\ Loop # Nobody /\ lidEvents \in Seq(Lids)
      /\ lid \in Lids /\ lidLast \in Lids /\ lidState \in Lids /\ events \in Nat
  BY DEF LoopAssumption, LoopInv, TypeOK, WorldTyped, ServiceTyped
<1>1. CASE Assuring
  BY <1>1, AssuringSteps
<1>2. CASE Resting \/ UNCHANGED vars
  <2>1. /\ UNCHANGED <<setup, lid, lidEvents, lidLast, screen, lidState, turn>>
        /\ writer # Loop /\ ~Assured
    BY <1>0, <1>2, RestingLeaves, AssuredStays
  <2> QED BY <2>1 DEF MemoryInv, ChangeRemembered, Target, Hash, screen
<1>3. CASE Hotplug
  <2>1. ~socket
    <3>1. socket => events' = events + 1
      BY <1>3 DEF Hotplug
    <3> QED BY <1>0, <3>1 DEF Assured
  <2>2. Hash(setup') # lastSeen /\ lastSeen' = lastSeen /\ shown' = shown
    BY <1>3, <2>1 DEF Hotplug, service, screen, Assured
  <2> QED BY <2>2 DEF Hash
<1>4. CASE LidMoves
  <2>1. ~Assured /\ writer # Loop
        /\ UNCHANGED <<setup, shown, rejected, lastSeen, lidState, turn>>
        /\ lid' \in Lids /\ lid' # lid
    BY <1>4, AssuredStays DEF Noticing, LidMoves, service, screen
  <2>2. CASE UPower
    <3>1. lidEvents' = Append(lidEvents, lid')
      BY <1>4, <2>2 DEF LidMoves
    <3>2. Len(lidEvents') = Len(lidEvents) + 1 /\ Len(lidEvents) \in Nat
      BY <1>0, <2>1, <3>1
    <3> QED BY <3>2
  <2>3. CASE ~UPower
    <3>1. UNCHANGED <<lidEvents, lidLast>> /\ lost' = (lost \/ (lid' = lidLast /\ lidState # lid'))
      BY <1>4, <2>3 DEF LidMoves
    <3>2. ~(lid # lidLast /\ lidState = lid)
      BY <1>0, <2>1, <3>1 DEF Assured, Lids
    <3> QED BY <2>1, <3>1, <3>2 DEF MemoryInv, ChangeRemembered, Target, Hash
  <2> QED BY <2>2, <2>3
<1>5. CASE LidPolled
  <2>1. Len(lidEvents') = Len(lidEvents) + 1 /\ Len(lidEvents) \in Nat
    BY <1>0, <1>5 DEF LidPolled
  <2> QED BY <2>1
<1>6. CASE LidEventIgnored
  <2>1. UNCHANGED <<setup, shown, lidState, turn, suspended>>
    BY <1>6 DEF LidEventIgnored, TakesLidEvent, world, screen
  <2>2. Target(setup)' = Target(setup)
    BY <2>1 DEF Target
  <2>3. shown # Target(setup) /\ ~suspended
    BY <2>1, <2>2 DEF Assured
  <2>4. lost'
    BY <1>6, <2>3 DEF LidEventIgnored
  <2> QED BY <2>4 DEF Assured
<1>7. CASE ProbeForPoll
  <2>1. /\ UNCHANGED <<setup, lid, lidEvents, lidLast, shown, rejected, lidState, turn, writer>>
        /\ ~Assured
    BY <1>7, AssuredStays DEF Noticing, ProbeForPoll, Probed, TakesAnswer, world, streams
  <2>2. lastSeen' = lastSeen
    <3>1. Push(triggers) => Assured'
      BY TriggersShape, PushAssures DEF Assured
    <3> QED BY <1>7, <3>1 DEF ProbeForPoll
  <2> QED BY <2>1, <2>2 DEF MemoryInv, ChangeRemembered, Target, Hash
<1>8. CASE DebounceApplies
  BY <1>8 DEF DebounceApplies, PassBegins
<1>9. CASE LoopPassEnds
  BY <1>9, LoopPassRemembers DEF ChangeRemembered
<1>10. CASE ClientPassBegins
  <2>1. /\ UNCHANGED <<setup, lid, lidEvents, lidLast, shown, rejected, lastSeen, turn>>
        /\ ~Assured /\ writer = Client
    BY <1>10, AssuredStays DEF ClientPassBegins, world, streams, screen
  <2>2. CASE lidState' = lidState
    BY <1>0, <2>1, <2>2 DEF MemoryInv, ChangeRemembered, Target, Hash
  <2>3. CASE lidState' # lidState
    <3>1. lidState' = lid
      BY <1>10, <2>3 DEF ClientPassBegins, PassBegins, ReadsLid
    <3> QED BY <2>1, <2>3, <3>1 DEF MemoryInv, LidRemembered, Assured
  <2> QED BY <2>2, <2>3
<1>11. CASE ClientPassEnds
  BY <1>11, ClientPassRemembers DEF ChangeRemembered
<1> QED BY <1>1, <1>2, <1>3, <1>4, <1>5, <1>6, <1>7, <1>8, <1>9, <1>10, <1>11, StepKinds
        DEF Noticing, Passing

\* When Run starts, its own first trigger is in the channel.
LEMMA InitRemembers == LoopAssumption /\ Init => MemoryInv
BY DEF LoopAssumption, Init, MemoryInv, ChangeRemembered, Assured, OldViewFollowed,
   LidRemembered, LastLidEvent, ViewHeld, DebounceKept

\* A change that the screen does not show is assured of a pass, or a poll or lid event
\* will notice it, in every state of the loop (daemon.go, Run).
THEOREM MemoryInvHolds == Spec => []MemoryInv
<1>1. LoopInv /\ MemoryInv /\ [Next]_vars => MemoryInv'
  BY LoopAssumption, ChangeStaysRemembered, OldViewStaysFollowed, LidStaysRemembered,
     LastLidEventStays, ViewStaysHeld, DebounceStays DEF MemoryInv
<1>2. Init => MemoryInv
  BY LoopAssumption, InitRemembers
<1> QED BY <1>1, <1>2, LoopInvHolds, PTL DEF Spec

\* A change of the displays, the lid or the device is never forgotten: what the
\* service has read of the lid, ChangeRemembered follows, and what it has not read
\* LidRemembered.
THEOREM NothingIsForgotten == Spec => []NothingForgotten
<1>1. LoopInv /\ MemoryInv => NothingForgotten
  <2> SUFFICES ASSUME LoopInv, MemoryInv, Unreconciled
               PROVE  PassAhead \/ guard \/ Hash(setup) # lastSeen \/ lost \/ wakeRetries > 0
    BY DEF NothingForgotten
  <2>1. Assured => PassAhead \/ guard \/ lost \/ wakeRetries > 0
    BY DEF Assured, PassAhead
  <2>2. CASE lid = lidState
    <3>1. Wanted = Target(setup)
      BY <2>2 DEF Wanted, Target
    <3>2. writer = Loop => PassAhead
      BY LoopAssumption DEF PassAhead, LoopAssumption
    <3> QED BY <2>1, <3>1, <3>2 DEF Unreconciled, MemoryInv, ChangeRemembered, PassAhead
  <2>3. CASE lid # lidState
    BY <2>1, <2>3 DEF MemoryInv, LidRemembered, PassAhead
  <2> QED BY <2>2, <2>3
<1> QED BY <1>1, LoopInvHolds, MemoryInvHolds, PTL
=============================================================================
