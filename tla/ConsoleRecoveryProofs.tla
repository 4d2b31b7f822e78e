------------------------ MODULE ConsoleRecoveryProofs ------------------------
(***************************************************************************)
(* The console is switched at growing intervals, however many connectors   *)
(* there are and however long the first wait is: the wait that is left,    *)
(* added to the time since the last switch, is a full one.                 *)
(***************************************************************************)
EXTENDS ConsoleRecovery, TLAPS

\* What counts the failures never counts fewer than there were switches, and the
\* wait for the next one is measured from the last.
BackoffInv ==
  /\ switches <= attempts
  /\ switches > 0 => sinceSwitch + next >= SwitchWait(switches - 1)

-----------------------------------------------------------------------------
(* The wait.                                                               *)

LEMMA MinOfTwo ==
  ASSUME NEW a \in Int, NEW b \in Int
  PROVE  /\ Min({a, b}) \in {a, b} /\ Min({a, b}) <= a /\ Min({a, b}) <= b
BY DEF Min

LEMMA MaxOfTwo ==
  ASSUME NEW a \in Int, NEW b \in Int
  PROVE  /\ Max({a, b}) \in {a, b} /\ Max({a, b}) >= a /\ Max({a, b}) >= b
BY DEF Max

\* A wait is at most the longest, and no shorter than after fewer switches.
LEMMA WaitsGrow ==
  ASSUME Waits, NEW n \in 0 .. MaxAttempts, NEW m \in 0 .. n
  PROVE  /\ SwitchWait(n) \in 0 .. RetryMaxWait
         /\ SwitchWait(m) <= SwitchWait(n)
<1>1. /\ 2^n \in Nat /\ 2^m \in Nat /\ 2^m <= 2^n
      /\ RetryWait \in Nat /\ RetryMaxWait \in Nat
  BY DEF Waits
<1>2. /\ RetryWait * 2^m \in Nat /\ RetryWait * 2^n \in Nat
      /\ RetryWait * 2^m <= RetryWait * 2^n
  <2> DEFINE p == 2^m
             q == 2^n
  <2>1. p \in Nat /\ q \in Nat /\ p <= q
    BY <1>1
  <2> HIDE DEF p, q
  <2>2. RetryWait * p \in Nat /\ RetryWait * q \in Nat /\ RetryWait * p <= RetryWait * q
    BY <1>1, <2>1
  <2> QED
    BY <2>2 DEF p, q
<1> DEFINE u == RetryWait * 2^m
           w == RetryWait * 2^n
<1> HIDE DEF u, w
<1>3. u \in Nat /\ w \in Nat /\ u <= w
  BY <1>2 DEF u, w
<1>4. RetryMaxWait \in Int /\ u \in Int /\ w \in Int
  BY <1>1, <1>3
<1>5. /\ Min({RetryMaxWait, u}) \in 0 .. RetryMaxWait
      /\ Min({RetryMaxWait, w}) \in 0 .. RetryMaxWait
      /\ Min({RetryMaxWait, u}) <= Min({RetryMaxWait, w})
  <2>1. /\ Min({RetryMaxWait, u}) \in {RetryMaxWait, u}
        /\ Min({RetryMaxWait, u}) <= RetryMaxWait /\ Min({RetryMaxWait, u}) <= u
    BY <1>4, MinOfTwo
  <2>2. /\ Min({RetryMaxWait, w}) \in {RetryMaxWait, w}
        /\ Min({RetryMaxWait, w}) <= RetryMaxWait /\ Min({RetryMaxWait, w}) <= w
    BY <1>4, MinOfTwo
  <2> QED
    BY <1>1, <1>3, <2>1, <2>2
<1> QED
  BY <1>5 DEF SwitchWait, u, w

-----------------------------------------------------------------------------
(* The steps.                                                              *)

LEMMA InitBacksOff == Waits /\ Init => TypeOK /\ BackoffInv
<1> SUFFICES ASSUME Waits, Init PROVE TypeOK /\ BackoffInv
  OBVIOUS
<1>1. /\ attached \in [Connectors -> BOOLEAN] /\ routed \in [Connectors -> BOOLEAN]
      /\ lit \in [Connectors -> BOOLEAN] /\ clamshell \in BOOLEAN
  BY Zenon DEF Init
<1>2. RetryMaxWait \in Nat /\ MaxAttempts \in Nat
  BY DEF Waits
<1>3. /\ attempts = 0 /\ next = 0 /\ reported = FALSE /\ mishaps = 0
      /\ console = "home" /\ stage = "idle" /\ stopping = FALSE
      /\ switches = 0 /\ sinceSwitch = RetryMaxWait
  BY DEF Init
<1>4. TypeOK
  <2>1. /\ attempts \in 0 .. MaxAttempts /\ next \in 0 .. RetryMaxWait
        /\ switches \in 0 .. MaxAttempts /\ sinceSwitch \in 0 .. RetryMaxWait
        /\ mishaps \in Nat
    BY <1>2, <1>3
  <2>2. reported \in BOOLEAN /\ stopping \in BOOLEAN
    BY <1>3, Zenon
  <2> QED
    BY <1>1, <1>3, <2>1, <2>2, Zenon DEF TypeOK
<1> QED
  BY <1>3, <1>4 DEF BackoffInv

\* Whatever is unplugged or switched, the counters are as they were.
LEMMA UncountedSteps ==
  ASSUME TypeOK, BackoffInv,
         UNCHANGED <<attempts, next, switches, sinceSwitch>>
  PROVE  BackoffInv'
BY DEF BackoffInv, SwitchWait

LEMMA TicksBackOff ==
  ASSUME Waits, TypeOK, BackoffInv, Tick
  PROVE  TypeOK' /\ BackoffInv'
<1>1. /\ next \in 0 .. RetryMaxWait /\ sinceSwitch \in 0 .. RetryMaxWait
      /\ switches \in 0 .. MaxAttempts /\ RetryMaxWait \in Nat /\ MaxAttempts \in Nat
  BY DEF TypeOK, Waits
<1>2. /\ next' = Max({0, next - 1}) /\ sinceSwitch' = Min({sinceSwitch + 1, RetryMaxWait})
      /\ UNCHANGED <<clamshell, kernel, attempts, reported, console, stage, stopping, switches, mishaps>>
  BY DEF Tick
<1>3. /\ next' \in {0, next - 1} /\ next' >= 0 /\ next' >= next - 1
      /\ sinceSwitch' \in {sinceSwitch + 1, RetryMaxWait} /\ sinceSwitch' <= RetryMaxWait
  <2>1. 0 \in Int /\ next - 1 \in Int /\ sinceSwitch + 1 \in Int /\ RetryMaxWait \in Int
    BY <1>1
  <2>2. /\ Max({0, next - 1}) \in {0, next - 1}
        /\ Max({0, next - 1}) >= 0 /\ Max({0, next - 1}) >= next - 1
    BY <2>1, MaxOfTwo
  <2>3. /\ Min({sinceSwitch + 1, RetryMaxWait}) \in {sinceSwitch + 1, RetryMaxWait}
        /\ Min({sinceSwitch + 1, RetryMaxWait}) <= RetryMaxWait
    BY <2>1, MinOfTwo
  <2> QED
    BY <1>2, <2>2, <2>3
<1>4. TypeOK'
  BY <1>1, <1>2, <1>3 DEF TypeOK, kernel
<1>5. ASSUME switches > 0
      PROVE  sinceSwitch' + next' >= SwitchWait(switches - 1)
  <2>1. SwitchWait(switches - 1) \in 0 .. RetryMaxWait
    BY <1>1, <1>5, WaitsGrow
  <2>2. sinceSwitch + next >= SwitchWait(switches - 1)
    BY <1>5 DEF BackoffInv
  <2> QED
    BY <1>1, <1>3, <2>1, <2>2
<1> QED
  BY <1>2, <1>4, <1>5 DEF BackoffInv, SwitchWait

\* A failure either forgets everything, or counts itself and, if it leads to a
\* switch, waits for as long as all the failures before it ask for.
LEMMA FailuresBackOff ==
  ASSUME Waits, TypeOK, BackoffInv, PassFails
  PROVE  TypeOK' /\ BackoffInv' /\ SwitchBacksOff
<1>1. /\ attempts \in 0 .. MaxAttempts /\ next \in 0 .. RetryMaxWait
      /\ sinceSwitch \in 0 .. RetryMaxWait /\ switches \in 0 .. MaxAttempts
      /\ RetryMaxWait \in Nat /\ MaxAttempts \in Nat /\ mishaps \in Nat
      /\ stage = "idle" /\ reported \in BOOLEAN
  BY DEF TypeOK, Waits, PassFails
<1>2. /\ switches <= attempts
      /\ switches > 0 => sinceSwitch + next >= SwitchWait(switches - 1)
  BY DEF BackoffInv
<1>3. SwitchWait(attempts) \in 0 .. RetryMaxWait
      /\ SwitchWait(switches) <= SwitchWait(attempts)
      /\ (switches > 0 => /\ SwitchWait(switches - 1) <= SwitchWait(attempts)
                          /\ SwitchWait(switches - 1) \in 0 .. RetryMaxWait)
      /\ SwitchWait(switches) \in 0 .. RetryMaxWait
  BY <1>1, <1>2, WaitsGrow
<1>4. UNCHANGED <<clamshell, kernel, console, stopping>> /\ mishaps' \in Nat
  BY <1>1 DEF PassFails, Mishap
<1>5. CASE Stuck = {} \/ Evidence = {}
  <2>1. attempts' = 0 /\ next' = 0 /\ reported' = FALSE
    BY <1>5 DEF PassFails, Observes
  <2>2. stage' = "idle" /\ UNCHANGED sinceSwitch /\ switches' = 0
    BY <1>5 DEF PassFails, Evidence
  <2> QED
    <3>1. TypeOK'
      <4>1. reported' \in BOOLEAN
        BY <2>1, Zenon
      <4>2. /\ attempts' \in 0 .. MaxAttempts /\ next' \in 0 .. RetryMaxWait
            /\ switches' \in 0 .. MaxAttempts /\ sinceSwitch' \in 0 .. RetryMaxWait
        BY <1>1, <2>1, <2>2
      <4> QED
        BY <1>4, <2>2, <4>1, <4>2 DEF TypeOK, kernel
    <3>2. BackoffInv'
      BY <2>1, <2>2 DEF BackoffInv
    <3> QED
      BY <2>2, <3>1, <3>2 DEF SwitchBacksOff
<1>6. CASE ~(Stuck = {} \/ Evidence = {}) /\ next > 0
  <2>1. UNCHANGED <<attempts, next>> /\ reported' = TRUE
    BY <1>6 DEF PassFails, Observes
  <2>2. stage' = "idle" /\ UNCHANGED <<sinceSwitch, switches>>
    BY <1>1, <1>6 DEF PassFails
  <2>3. TypeOK' /\ SwitchBacksOff
    BY <1>1, <1>4, <2>1, <2>2 DEF TypeOK, SwitchBacksOff, kernel
  <2> QED
    BY <2>1, <2>2, <2>3, UncountedSteps
<1>7. CASE ~(Stuck = {} \/ Evidence = {}) /\ ~(next > 0)
  <2>1. next = 0
    BY <1>1, <1>7
  <2>2. reported' = TRUE /\ attempts' = Min({attempts + 1, MaxAttempts}) /\ next' = SwitchWait(attempts)
    BY <1>7 DEF PassFails, Observes
  <2>3. attempts' \in {attempts + 1, MaxAttempts} /\ attempts' <= MaxAttempts
        /\ attempts' <= attempts + 1
    <3>1. attempts + 1 \in Int /\ MaxAttempts \in Int
      BY <1>1
    <3> QED
      BY <2>2, <3>1, MinOfTwo
  <2>4. CASE Released # {}
    <3>1. /\ stage' = "switching" /\ sinceSwitch' = 0
          /\ switches' = Min({switches + 1, MaxAttempts})
      BY <1>7, <2>1, <2>4 DEF PassFails
    <3>2. switches' \in {switches + 1, MaxAttempts} /\ switches' <= MaxAttempts
          /\ switches' <= switches + 1
      <4>1. switches + 1 \in Int /\ MaxAttempts \in Int
        BY <1>1
      <4> QED
        BY <3>1, <4>1, MinOfTwo
    <3>3. switches' <= attempts'
      BY <1>1, <1>2, <2>3, <3>2
    <3>4. switches' > 0 => SwitchWait(switches' - 1) <= SwitchWait(attempts)
      BY <1>1, <1>3, <3>2
    <3>5. TypeOK'
      BY <1>1, <1>3, <1>4, <2>2, <2>3, <3>1, <3>2 DEF TypeOK, kernel
    <3>6. BackoffInv'
      <4>1. switches' > 0 => sinceSwitch' + next' >= SwitchWait(switches' - 1)
        BY <1>1, <1>3, <2>2, <3>1, <3>4
      <4> QED
        BY <3>3, <4>1 DEF BackoffInv, SwitchWait
    <3>7. SwitchBacksOff
      BY <1>1, <1>2, <2>1 DEF SwitchBacksOff
    <3> QED
      BY <3>5, <3>6, <3>7
  <2>5. CASE Released = {}
    <3>1. stage' = "idle" /\ UNCHANGED sinceSwitch /\ switches' = switches
      BY <1>7, <2>5 DEF PassFails
    <3>2. TypeOK' /\ SwitchBacksOff
      BY <1>1, <1>3, <1>4, <2>2, <2>3, <3>1 DEF TypeOK, SwitchBacksOff, kernel
    <3>3. switches' <= attempts'
      BY <1>1, <1>2, <2>3, <3>1
    <3>4. switches' > 0 => sinceSwitch' + next' >= SwitchWait(switches' - 1)
      BY <1>1, <1>2, <1>3, <2>1, <2>2, <3>1
    <3> QED
      BY <3>2, <3>3, <3>4 DEF BackoffInv, SwitchWait
  <2> QED
    BY <2>4, <2>5
<1> QED
  BY <1>5, <1>6, <1>7

LEMMA StepsBackOff ==
  ASSUME Waits, TypeOK, BackoffInv, [Next]_consoleVars
  PROVE  TypeOK' /\ BackoffInv' /\ SwitchBacksOff
<1> DEFINE Calm == /\ UNCHANGED <<attempts, next, reported, switches, sinceSwitch>>
                   /\ stage' # "switching" \/ stage # "idle"
<1>1. ASSUME Calm, TypeOK' PROVE TypeOK' /\ BackoffInv' /\ SwitchBacksOff
  BY <1>1, UncountedSteps DEF SwitchBacksOff
<1>2. ASSUME NEW c \in Connectors, Unplug(c)
      PROVE  Calm /\ TypeOK'
  BY <1>2 DEF Unplug, Mishap, TypeOK, recovery, told
<1>3. ASSUME NEW c \in Connectors, Replug(c)
      PROVE  Calm /\ TypeOK'
  BY <1>3 DEF Replug, TypeOK, recovery, told
<1>4. CASE Tick
  BY <1>4, TicksBackOff DEF Tick, SwitchBacksOff
<1>5. CASE PassFails
  BY <1>5, FailuresBackOff
<1>6. ASSUME SwitchRefused \/ SwitchBackFails \/ Stops
      PROVE  Calm /\ TypeOK'
  <2>1. Calm
    BY <1>6 DEF SwitchRefused, SwitchBackFails, Stops, recovery, told
  <2>2. mishaps' \in Nat
    BY <1>6 DEF SwitchRefused, SwitchBackFails, Stops, Mishap, TypeOK
  <2> HIDE DEF Calm
  <2> QED
    BY <1>6, <2>1, <2>2 DEF SwitchRefused, SwitchBackFails, Stops, TypeOK, kernel,
                            recovery, told
<1>7. ASSUME SwitchesAway \/ SwitchesBack \/ UserReturns
      PROVE  Calm /\ TypeOK'
  BY <1>7 DEF SwitchesAway, SwitchesBack, UserReturns, ComesHome, TypeOK, kernel,
              recovery, told
<1>8. ASSUME Reloads \/ ReloadFails
      PROVE  Calm /\ TypeOK'
  <2>1. Calm
    BY <1>8 DEF Reloads, ReloadFails, recovery, told
  <2>2. mishaps' \in Nat
    BY <1>8 DEF Reloads, ReloadFails, Mishap, TypeOK
  <2>3. routed' \in [Connectors -> BOOLEAN] /\ lit' \in [Connectors -> BOOLEAN]
    BY <1>8 DEF Reloads, ReloadFails, kernel, TypeOK
  <2> HIDE DEF Calm
  <2> QED
    BY <1>8, <2>1, <2>2, <2>3 DEF Reloads, ReloadFails, TypeOK, kernel, recovery, told
<1>9. ASSUME UNCHANGED consoleVars
      PROVE  Calm /\ TypeOK'
  BY <1>9 DEF consoleVars, kernel, recovery, told, TypeOK
<1> HIDE DEF Calm
<1> QED
  BY <1>1, <1>2, <1>3, <1>4, <1>5, <1>6, <1>7, <1>8, <1>9 DEF Next, Recovers

-----------------------------------------------------------------------------
\* The waits of the console recovery count from the last switch and grow with the
\* failures (stalecrtc.go:95), in every state.
THEOREM ConsoleInvHolds == ASSUME Waits PROVE Spec => [](TypeOK /\ BackoffInv)
<1>1. Init => TypeOK /\ BackoffInv
  BY InitBacksOff
<1>2. TypeOK /\ BackoffInv /\ [Next]_consoleVars => (TypeOK /\ BackoffInv)'
  BY StepsBackOff
<1> QED
  BY <1>1, <1>2, PTL DEF Spec

\* Switching consoles blanks every display (stalecrtc.go:27): after each switch the
\* next one waits for as long as the first wait, doubled for each switch since the
\* last failure of another kind, and no longer than the longest.
THEOREM SwitchesBackOff == ASSUME Waits PROVE Spec => [][SwitchBacksOff]_consoleVars
<1>1. TypeOK /\ BackoffInv /\ [Next]_consoleVars => [SwitchBacksOff]_consoleVars
  BY StepsBackOff
<1> QED
  BY <1>1, ConsoleInvHolds, PTL DEF Spec

=============================================================================
