------------------------ MODULE DisplayFallbacksProofs ------------------------
(***************************************************************************)
(* However many displays there are, however often they drop and whatever   *)
(* the thresholds: a display that could not hold its saved settings is not *)
(* tried again before the wait that its failures ask for is over.          *)
(***************************************************************************)
EXTENDS DisplayFallbacks, SequenceTheorems, TLAPS

\* What is remembered of a display, with what its steps say.
Remembered(m) ==
  /\ m \in Memory /\ SteppedFrom(m.active)
  /\ m.restoring # NotRestoring => m.restoring.step > 0 /\ SteppedFrom(m.restoring)

\* A display is to run its saved settings although it has had a step.
AtSaved(m) == m.active.step = 0 /\ m.active.saved # NoSetting

\* A retry is on only at the saved settings; failures are forgotten no sooner than the
\* settings hold; and the clock of the next retry is never older than the last failure.
BacksOff(d) ==
  /\ d \in trying => RunsSaved(mem[d])
  /\ failed[d] <= mem[d].failures
  /\ Holds(mem[d]) => failed[d] = 0
  /\ failed[d] > 0 => sinceFailure[d] >= 0 /\ mem[d].healthy <= sinceFailure[d]

BackoffInv == \A d \in Displays : BacksOff(d)

-----------------------------------------------------------------------------
(* Numbers.                                                                *)

LEMMA MinOfTwo ==
  ASSUME NEW a \in Int, NEW b \in Int
  PROVE  Min({a, b}) \in {a, b} /\ Min({a, b}) <= a /\ Min({a, b}) <= b
BY DEF Min

LEMMA ThresholdsAreNumbers ==
  ASSUME Thresholds
  PROVE  /\ Short \in Nat /\ Settle \in Nat /\ MaxWait \in Nat /\ MaxFailures \in Nat
         /\ Settle <= MaxWait
BY DEF Thresholds

\* Numbers that memories are set to.
LEMMA Resets ==
  ASSUME Thresholds
  PROVE  /\ Never \in Never .. Settle /\ 0 \in Never .. Settle
         /\ Never \in Never .. Short + 1 /\ 0 \in Never .. Short + 1
         /\ Never \in Ages /\ 0 \in Ages /\ 0 \in 0 .. MaxFailures
         /\ 0 \in Steps /\ 0 \in {0, 1} /\ 1 \in {0, 1}
BY ThresholdsAreNumbers DEF Never, Ages, Steps

\* A wait is at most the longest, and no shorter than after fewer failures.
LEMMA WaitsGrow ==
  ASSUME Thresholds, NEW n \in 0 .. MaxFailures, NEW m \in 0 .. n
  PROVE  Wait(n) \in 0 .. MaxWait /\ Wait(m) <= Wait(n)
<1> DEFINE p == 2^m
           q == 2^n
<1>1. /\ p \in Nat /\ q \in Nat /\ p <= q
      /\ Settle \in Nat /\ MaxWait \in Nat
  BY DEF Thresholds
<1> HIDE DEF p, q
<1> DEFINE u == Settle * p
           w == Settle * q
<1>2. u \in Nat /\ w \in Nat /\ u <= w
  BY <1>1
<1> HIDE DEF u, w
<1>3. MaxWait \in Int /\ u \in Int /\ w \in Int
  BY <1>1, <1>2
<1>4. /\ Min({MaxWait, u}) \in {MaxWait, u}
      /\ Min({MaxWait, u}) <= MaxWait /\ Min({MaxWait, u}) <= u
  BY <1>3, MinOfTwo
<1>5. /\ Min({MaxWait, w}) \in {MaxWait, w}
      /\ Min({MaxWait, w}) <= MaxWait /\ Min({MaxWait, w}) <= w
  BY <1>3, MinOfTwo
<1>6. /\ Min({MaxWait, w}) \in 0 .. MaxWait
      /\ Min({MaxWait, u}) <= Min({MaxWait, w})
  BY <1>1, <1>2, <1>4, <1>5
<1> QED
  BY <1>6 DEF Wait, u, w, p, q

\* An age grows to where it stops.
LEMMA AgesGrow ==
  ASSUME NEW cap \in Nat, NEW a \in Never .. cap
  PROVE  /\ Age(a, cap) \in Never .. cap /\ Age(a, cap) >= a
         /\ a >= 0 => Age(a, cap) >= 0
         /\ a = Never <=> Age(a, cap) = Never
         /\ \A b \in Never .. cap : b <= a => Age(b, cap) <= Age(a, cap)
<1>1. \A b \in 0 .. cap : /\ Min({b + 1, cap}) \in {b + 1, cap}
                          /\ Min({b + 1, cap}) <= b + 1 /\ Min({b + 1, cap}) <= cap
  <2> TAKE b \in 0 .. cap
  <2>1. b + 1 \in Int /\ cap \in Int
    OBVIOUS
  <2> QED
    BY <2>1, MinOfTwo
<1>2. \A b \in Never .. cap : b # Never => b \in 0 .. cap
  BY DEF Never
<1> QED
  BY <1>1, <1>2 DEF Age, Never

-----------------------------------------------------------------------------
(* displayFallbacks: what each operation leaves of a display's memory.     *)

LEMMA StartedRemembered ==
  ASSUME Thresholds, NEW file \in StateFiles
  PROVE  /\ Remembered(Started(file))
         /\ Started(file).restoring = NotRestoring /\ ~Holds(Started(file))
         /\ Started(file).healthy = Never
BY DEF Thresholds, Started, Remembered, Memory, Fallback, SteppedFrom, Steps, Ages, Never,
       Holds, RunsSaved

LEMMA RestartRemembered ==
  ASSUME Thresholds, NEW m, Remembered(m)
  PROVE  /\ Remembered(Started(m.active))
         /\ Started(m.active).restoring = NotRestoring /\ ~Holds(Started(m.active))
         /\ Started(m.active).active = m.active
BY ThresholdsAreNumbers
   DEF Started, Remembered, Memory, Fallback, SteppedFrom, Steps, Ages, Never,
       Holds, RunsSaved

LEMMA CountsFailure ==
  ASSUME Thresholds, NEW n \in 0 .. MaxFailures
  PROVE  /\ Min({n + 1, MaxFailures}) \in 0 .. MaxFailures
         /\ Min({n + 1, MaxFailures}) >= n
         /\ \A k \in 0 .. n : Min({k + 1, MaxFailures}) <= Min({n + 1, MaxFailures})
<1>1. \A k \in 0 .. MaxFailures :
        /\ Min({k + 1, MaxFailures}) \in {k + 1, MaxFailures}
        /\ Min({k + 1, MaxFailures}) <= k + 1 /\ Min({k + 1, MaxFailures}) <= MaxFailures
  <2> TAKE k \in 0 .. MaxFailures
  <2>1. k + 1 \in Int /\ MaxFailures \in Int
    BY ThresholdsAreNumbers
  <2> QED
    BY <2>1, MinOfTwo
<1> QED
  BY <1>1, ThresholdsAreNumbers

LEMMA ConnectsRemembered ==
  ASSUME Thresholds, NEW m, Remembered(m)
  PROVE  LET r == Connects(m) IN
         /\ Remembered(r) /\ ~RunsSaved(r)
         /\ r.failures = m.failures /\ r.healthy = m.healthy /\ r.restoring = m.restoring
         /\ r.active = m.active
<1> DEFINE r == Connects(m)
<1>1. m \in Memory
  BY DEF Remembered
<1>2. r \in Memory
  BY <1>1, Resets, Zenon DEF Connects, Memory
<1>3. /\ r.failures = m.failures /\ r.healthy = m.healthy /\ r.restoring = m.restoring
      /\ r.active = m.active /\ r.switched = Never
  BY <1>1 DEF Connects, Memory
<1> HIDE DEF r
<1>4. Remembered(r) /\ ~RunsSaved(r)
  BY <1>2, <1>3 DEF Remembered, RunsSaved
<1> QED
  BY <1>3, <1>4 DEF r

\* A drop right after a retry is counted, and any drop stops the clock.
LEMMA DropsRemembered ==
  ASSUME Thresholds, NEW m, Remembered(m)
  PROVE  LET r == Drops(m) IN
         /\ Remembered(r) /\ ~RunsSaved(r) /\ (AtSaved(r) => AtSaved(m))
         /\ r.healthy = Never /\ r.restoring = m.restoring
         /\ r.failures = IF KnockedOff(m) THEN Min({m.failures + 1, MaxFailures}) ELSE m.failures
<1> DEFINE n == IF KnockedOff(m) THEN Min({m.failures + 1, MaxFailures}) ELSE m.failures
           gone == [m EXCEPT !.failures = n, !.healthy = Never, !.fired = FALSE,
                      !.connected = Never, !.switched = Never, !.settled = FALSE]
<1>1. m \in Memory /\ m.failures \in 0 .. MaxFailures
  BY DEF Remembered, Memory
<1>2. n \in 0 .. MaxFailures
  BY <1>1, CountsFailure
<1>3. Drops(m) \in {gone, [gone EXCEPT !.active.gentle = TRUE], [gone EXCEPT !.due = TRUE]}
  BY <1>1 DEF Drops, CountFailure, Memory
<1> HIDE DEF n
<1>4. gone \in Memory
  BY <1>1, <1>2, Resets, Zenon DEF Memory
<1>5. \A r \in {gone, [gone EXCEPT !.active.gentle = TRUE], [gone EXCEPT !.due = TRUE]} :
        r \in Memory
  <2>1. [gone EXCEPT !.due = TRUE] \in Memory
    BY <1>4, Zenon DEF Memory
  <2>2. [gone EXCEPT !.active.gentle = TRUE] \in Memory
    BY <1>4, Zenon DEF Memory, Fallback
  <2> QED
    BY <1>4, <2>1, <2>2
<1>6. \A r \in {gone, [gone EXCEPT !.active.gentle = TRUE], [gone EXCEPT !.due = TRUE]} :
        /\ r.healthy = Never /\ r.restoring = m.restoring /\ r.failures = n
        /\ r.switched = Never
        /\ r.active.step = m.active.step /\ r.active.saved = m.active.saved
  <2>1. /\ gone.healthy = Never /\ gone.restoring = m.restoring /\ gone.failures = n
        /\ gone.switched = Never /\ gone.active = m.active
    BY <1>1 DEF Memory
  <2> HIDE DEF gone
  <2>2. LET r == [gone EXCEPT !.due = TRUE] IN
        /\ r.healthy = gone.healthy /\ r.restoring = gone.restoring
        /\ r.failures = gone.failures /\ r.switched = gone.switched /\ r.active = gone.active
    BY <1>4 DEF Memory
  <2>3. LET r == [gone EXCEPT !.active.gentle = TRUE] IN
        /\ r.healthy = gone.healthy /\ r.restoring = gone.restoring
        /\ r.failures = gone.failures /\ r.switched = gone.switched
        /\ r.active.step = gone.active.step /\ r.active.saved = gone.active.saved
    BY <1>4 DEF Memory, Fallback
  <2> QED
    BY <2>1, <2>2, <2>3
<1>7. \A r \in {gone, [gone EXCEPT !.active.gentle = TRUE], [gone EXCEPT !.due = TRUE]} :
        Remembered(r) /\ ~RunsSaved(r) /\ (AtSaved(r) => AtSaved(m))
  BY <1>5, <1>6 DEF Remembered, RunsSaved, SteppedFrom, AtSaved
<1> QED
  BY <1>3, <1>6, <1>7 DEF n

\* What the earlier stages of a pass do to a memory: failures are forgotten only if
\* the settings held, and the clock goes on or stops.
Follows(m, r) ==
  /\ Remembered(r) /\ r.restoring = m.restoring
  /\ Holds(r) => Holds(m)
  /\ AtSaved(r) => AtSaved(m)
  /\ r.failures = m.failures \/ (r.failures = 0 /\ Holds(m))
  /\ r.healthy \in {m.healthy, Never}

LEMMA FollowsOn ==
  ASSUME NEW m, NEW r, NEW t, Follows(m, r), Follows(r, t)
  PROVE  Follows(m, t)
BY DEF Follows

LEMMA KnownFollows ==
  ASSUME Thresholds, NEW m, Remembered(m), NEW seen \in BOOLEAN, NEW lit \in BOOLEAN
  PROVE  Follows(m, [m EXCEPT !.known = @ \/ seen, !.healthy = IF lit THEN @ ELSE Never])
<1> DEFINE r == [m EXCEPT !.known = @ \/ seen, !.healthy = IF lit THEN @ ELSE Never]
<1>1. m \in Memory /\ m.healthy \in Ages
  BY DEF Remembered, Memory
<1>2. (IF lit THEN m.healthy ELSE Never) \in Ages
  BY <1>1, Resets, Zenon
<1>3. r \in Memory
  BY <1>1, <1>2, Zenon DEF Memory
<1>4. /\ r.healthy \in {m.healthy, Never} /\ r.failures = m.failures
      /\ r.active = m.active /\ r.restoring = m.restoring /\ r.switched = m.switched
  BY <1>1 DEF Memory
<1> HIDE DEF r
<1>5. Follows(m, r)
  BY <1>3, <1>4 DEF Follows, Remembered, Holds, RunsSaved, AtSaved
<1> QED
  BY <1>5 DEF r

LEMMA RenewedFollows ==
  ASSUME Thresholds, NEW m, Remembered(m), NEW out \in Saved
  PROVE  Follows(m, Renewed(m, out))
<1> DEFINE entry == [Fresh EXCEPT !.gentle = m.active.gentle]
           r == [m EXCEPT !.active = entry, !.healthy = Never]
<1>1. m \in Memory /\ m.active \in Fallback
  BY DEF Remembered, Memory
<1>2. entry \in Fallback /\ entry.step = 0 /\ entry.saved = NoSetting
  <2>1. entry = [step |-> 0, saved |-> NoSetting, gentle |-> m.active.gentle]
    BY DEF Fresh
  <2>2. m.active.gentle \in BOOLEAN
    BY <1>1 DEF Fallback
  <2> QED
    BY <2>1, <2>2, Resets, Zenon DEF Fallback
<1> HIDE DEF entry
<1>3. r \in Memory
  BY <1>1, <1>2, Resets, Zenon DEF Memory
<1>4. /\ r.healthy = Never /\ r.failures = m.failures /\ r.active = entry
      /\ r.restoring = m.restoring /\ r.switched = m.switched
  BY <1>1 DEF Memory
<1> HIDE DEF r
<1>5. Follows(m, r)
  BY <1>2, <1>3, <1>4 DEF Follows, Remembered, SteppedFrom, Holds, RunsSaved, AtSaved
<1>6. Follows(m, m)
  BY DEF Follows
<1> QED
  BY <1>5, <1>6 DEF Renewed, entry, r

LEMMA HeldFollows ==
  ASSUME Thresholds, NEW m, Remembered(m)
  PROVE  Follows(m, Held(m))
<1> DEFINE r == [m EXCEPT !.failures = 0]
<1>1. m \in Memory /\ m.switched \in Never .. Short + 1
  BY DEF Remembered, Memory
<1>2. r \in Memory
  BY <1>1, Resets, Zenon DEF Memory
<1>3. /\ r.healthy = m.healthy /\ r.failures = 0 /\ r.active = m.active
      /\ r.restoring = m.restoring /\ r.switched = m.switched
  BY <1>1 DEF Memory
<1> HIDE DEF r
<1>4. CASE /\ m.switched > Short /\ m.active.step = 0 /\ m.active.saved # NoSetting
           /\ m.restoring = NotRestoring
  <2>1. Holds(m)
    BY <1>1, <1>4, ThresholdsAreNumbers DEF Holds, RunsSaved, Never
  <2>2. Follows(m, r)
    BY <1>2, <1>3, <2>1 DEF Follows, Remembered, AtSaved
  <2> QED
    BY <1>4, <2>2 DEF Held, r
<1>5. Follows(m, m)
  BY DEF Follows
<1> QED
  BY <1>4, <1>5 DEF Held

LEMMA LeastStep ==
  ASSUME NEW S \in SUBSET Steps, S # {}
  PROVE  Min(S) \in S
<1>1. S \subseteq {0, 1, 2, 3}
  BY DEF Steps
<1>2. \E x \in S : \A y \in S : x <= y
  <2>1. CASE 0 \in S
    BY <1>1, <2>1
  <2>2. CASE 0 \notin S /\ 1 \in S
    BY <1>1, <2>2
  <2>3. CASE 0 \notin S /\ 1 \notin S /\ 2 \in S
    BY <1>1, <2>3
  <2>4. CASE 0 \notin S /\ 1 \notin S /\ 2 \notin S
    <3>1. S = {3}
      BY <1>1, <2>4
    <3> QED
      BY <3>1
  <2> QED
    BY <2>1, <2>2, <2>3, <2>4
<1> QED
  BY <1>2 DEF Min

LEMMA StepsDownFollows ==
  ASSUME Thresholds, NEW m, Remembered(m), NEW out \in Saved
  PROVE  Follows(m, StepsDown(m, out))
<1> DEFINE next == Gentler(out, m.active.step)
           still == [m EXCEPT !.due = FALSE]
           entry == [m.active EXCEPT !.step = Min(next), !.saved = out]
           r == [still EXCEPT !.active = entry]
<1>1. m \in Memory /\ m.active \in Fallback /\ m.active.step \in Steps
  BY DEF Remembered, Memory, Fallback
<1>2. still \in Memory
  BY <1>1, Zenon DEF Memory
<1>3. /\ still.healthy = m.healthy /\ still.failures = m.failures
      /\ still.active = m.active /\ still.restoring = m.restoring
      /\ still.switched = m.switched
  BY <1>1 DEF Memory
<1>4. Follows(m, still)
  <2> HIDE DEF still
  <2> QED
    BY <1>2, <1>3 DEF Follows, Remembered, Holds, RunsSaved, AtSaved
<1>5. ASSUME next # {} PROVE Follows(m, r)
  <2>1. next \subseteq Steps /\ \A s \in next : s > m.active.step
    BY DEF Gentler
  <2>2. Min(next) \in Steps /\ Min(next) > 0
    BY <1>1, <1>5, <2>1, LeastStep DEF Steps
  <2> HIDE DEF next
  <2>3. entry \in Fallback
    BY <1>1, <2>2, Zenon DEF Fallback
  <2>4. entry.step = Min(next) /\ entry.saved = out
    BY <1>1 DEF Fallback
  <2>5. out # NoSetting
    BY DEF Thresholds
  <2> HIDE DEF entry
  <2>6. r \in Memory
    BY <1>2, <2>3, Zenon DEF Memory
  <2>7. /\ r.healthy = still.healthy /\ r.failures = still.failures /\ r.active = entry
        /\ r.restoring = still.restoring /\ r.switched = still.switched
    BY <1>2 DEF Memory
  <2> HIDE DEF still, r
  <2>8. SteppedFrom(r.active) /\ r.active.step # 0
    BY <2>2, <2>4, <2>5, <2>7 DEF SteppedFrom
  <2> QED
    BY <1>3, <2>6, <2>7, <2>8 DEF Follows, Remembered, Holds, RunsSaved, AtSaved
<1>6. Follows(m, m)
  BY DEF Follows
<1>7. ASSUME m.due /\ m.known /\ next # {} PROVE StepsDown(m, out) = r
  <2>1. StepsDown(m, out) =
          [m EXCEPT !.due = FALSE, !.active.step = Min(next), !.active.saved = out]
    BY <1>7 DEF StepsDown
  <2> HIDE DEF next
  <2> QED
    BY <1>1, <2>1 DEF Memory, Fallback
<1> QED
  BY <1>4, <1>5, <1>6, <1>7 DEF StepsDown

\* A retry begins when the clock has run for the wait that the failures ask for.
LEMMA RetriesWait ==
  ASSUME Thresholds, NEW m, Remembered(m), NEW out \in Saved, NEW lit \in BOOLEAN
  PROVE  LET r == Retries(m, out, lit) IN
         /\ Remembered(r) /\ r.failures = m.failures
         /\ Holds(r) => Holds(m)
         /\ r.healthy \in {m.healthy, Never, 0}
         /\ \/ m.healthy >= Wait(m.failures)
            \/ r.restoring = m.restoring /\ (AtSaved(r) => AtSaved(m))
<1> DEFINE Goal(r) ==
             /\ Remembered(r) /\ r.failures = m.failures
             /\ Holds(r) => Holds(m)
             /\ r.healthy \in {m.healthy, Never, 0}
             /\ \/ m.healthy >= Wait(m.failures)
                \/ r.restoring = m.restoring /\ (AtSaved(r) => AtSaved(m))
           may == m.known /\ m.active.step > 0 /\ lit /\ ~TooYoung(m)
           ends == [m EXCEPT !.healthy = Never]
           starts == [m EXCEPT !.healthy = 0, !.fired = FALSE]
           entry == [m.active EXCEPT !.step = 0, !.saved = out]
           again == [m EXCEPT !.restoring = m.active, !.active = entry, !.healthy = Never,
                       !.strikes = 0, !.due = FALSE, !.switched = 0]
<1>1. m \in Memory /\ m.active \in Fallback /\ SteppedFrom(m.active)
  BY DEF Remembered, Memory
<1>2. Goal(m)
  OBVIOUS
<1>3. Goal(ends)
  <2>1. ends \in Memory
    BY <1>1, Resets, Zenon DEF Memory
  <2>2. /\ ends.healthy = Never /\ ends.failures = m.failures /\ ends.active = m.active
        /\ ends.restoring = m.restoring /\ ends.switched = m.switched
    BY <1>1 DEF Memory
  <2> HIDE DEF ends
  <2> QED
    BY <1>1, <2>1, <2>2 DEF Remembered, Holds, RunsSaved, AtSaved
<1>4. Goal(starts)
  <2>1. starts \in Memory
    BY <1>1, Resets, Zenon DEF Memory
  <2>2. /\ starts.healthy = 0 /\ starts.failures = m.failures /\ starts.active = m.active
        /\ starts.restoring = m.restoring /\ starts.switched = m.switched
    BY <1>1 DEF Memory
  <2> HIDE DEF starts
  <2> QED
    BY <1>1, <2>1, <2>2 DEF Remembered, Holds, RunsSaved, AtSaved
<1>5. ASSUME m.healthy >= Wait(m.failures), m.active.step > 0 PROVE Goal(again)
  <2>1. entry \in Fallback
    BY <1>1, Resets, Zenon DEF Fallback
  <2>2. entry.step = 0
    BY <1>1 DEF Fallback
  <2> HIDE DEF entry
  <2>3. again \in Memory
    BY <1>1, <2>1, Resets, Zenon DEF Memory
  <2>4. /\ again.healthy = Never /\ again.failures = m.failures /\ again.active = entry
        /\ again.restoring = m.active /\ again.switched = 0
    BY <1>1 DEF Memory
  <2> HIDE DEF again
  <2>5. Remembered(again)
    BY <1>1, <1>5, <2>2, <2>3, <2>4 DEF Remembered, SteppedFrom
  <2>6. ~Holds(again)
    BY <2>4, ThresholdsAreNumbers DEF Holds
  <2> QED
    BY <1>5, <2>4, <2>5, <2>6
<1>6. m.known \in BOOLEAN
  BY <1>1 DEF Memory
<1>7. \/ Retries(m, out, lit) \in {m, ends, starts}
      \/ /\ m.healthy >= Wait(m.failures) /\ m.active.step > 0
         /\ Retries(m, out, lit) = again
  <2>1. m.healthy \in Int /\ Wait(m.failures) \in Int
    <3>1. m.healthy \in Ages /\ m.failures \in 0 .. MaxFailures
      BY <1>1 DEF Memory
    <3> QED
      BY <3>1, WaitsGrow, ThresholdsAreNumbers DEF Ages, Never
  <2>2. CASE may /\ m.healthy # Never /\ ~(m.healthy < Wait(m.failures))
    <3>1. Retries(m, out, lit) =
            [m EXCEPT !.restoring = m.active, !.active.step = 0, !.active.saved = out,
               !.healthy = Never, !.strikes = 0, !.due = FALSE, !.switched = 0]
      BY <2>2, Zenon DEF Retries
    <3>2. Retries(m, out, lit) = again
      BY <1>1, <3>1 DEF Memory, Fallback
    <3>3. m.healthy >= Wait(m.failures) /\ m.active.step > 0
      BY <2>1, <2>2
    <3> QED
      BY <3>2, <3>3, Zenon
  <2>3. CASE ~(may /\ m.healthy # Never /\ ~(m.healthy < Wait(m.failures)))
    BY <2>3, Zenon DEF Retries
  <2> QED
    BY <2>2, <2>3
<1> HIDE DEF Goal, ends, starts, again
<1>8. Goal(Retries(m, out, lit))
  BY <1>2, <1>3, <1>4, <1>5, <1>7
<1> QED
  BY <1>8 DEF Goal

LEMMA SwitchesRemembered ==
  ASSUME Thresholds, NEW m, Remembered(m), NEW lit \in BOOLEAN
  PROVE  LET r == Switches(m, lit) IN
         /\ Remembered(r) /\ r.failures = m.failures /\ r.healthy = m.healthy
         /\ r.restoring = m.restoring /\ r.active = m.active
         /\ Holds(r) => Holds(m)
<1> DEFINE r == [m EXCEPT !.switched = 0]
<1>1. m \in Memory
  BY DEF Remembered
<1>2. r \in Memory
  BY <1>1, Resets, Zenon DEF Memory
<1>3. /\ r.healthy = m.healthy /\ r.failures = m.failures /\ r.active = m.active
      /\ r.restoring = m.restoring /\ r.switched = 0
  BY <1>1 DEF Memory
<1> HIDE DEF r
<1>4. Remembered(r) /\ ~Holds(r)
  BY <1>2, <1>3, ThresholdsAreNumbers DEF Remembered, Holds
<1>5. Switches(m, lit) \in {m, r}
  BY DEF Switches, r
<1> QED
  BY <1>3, <1>4, <1>5

\* What a pass does to a memory, and when it begins a retry.
LEMMA PassesWait ==
  ASSUME Thresholds, NEW m, Remembered(m),
         NEW out \in Saved, NEW lit \in BOOLEAN, NEW seen \in BOOLEAN
  PROVE  LET r == Passed(m, out, lit, seen) IN
         /\ Remembered(r)
         /\ Holds(r) => Holds(m)
         /\ r.failures = m.failures \/ (r.failures = 0 /\ Holds(m))
         /\ r.healthy \in {m.healthy, Never, 0}
         /\ \/ Holds(m) \/ m.healthy >= Wait(m.failures)
            \/ r.restoring = m.restoring /\ (AtSaved(r) => AtSaved(m))
<1> DEFINE k == [m EXCEPT !.known = @ \/ seen, !.healthy = IF lit THEN @ ELSE Never]
           s == StepsDown(Held(Renewed(k, out)), out)
           t == Retries(s, out, lit)
<1>1. Follows(m, k)
  BY KnownFollows
<1> HIDE DEF k
<1>2. Follows(m, Renewed(k, out))
  BY <1>1, RenewedFollows, FollowsOn DEF Follows
<1>3. Follows(m, Held(Renewed(k, out)))
  BY <1>2, HeldFollows, FollowsOn DEF Follows
<1>4. Follows(m, s)
  BY <1>3, StepsDownFollows, FollowsOn DEF Follows
<1> HIDE DEF s
<1>5. Remembered(s) /\ s.restoring = m.restoring /\ (AtSaved(s) => AtSaved(m))
  BY <1>4 DEF Follows
<1>6. /\ Remembered(t) /\ t.failures = s.failures
      /\ Holds(t) => Holds(s)
      /\ t.healthy \in {s.healthy, Never, 0}
      /\ \/ s.healthy >= Wait(s.failures)
         \/ t.restoring = s.restoring /\ (AtSaved(t) => AtSaved(s))
  BY <1>5, RetriesWait
<1> HIDE DEF t
<1>7. /\ Remembered(Switches(t, lit)) /\ Switches(t, lit).failures = t.failures
      /\ Switches(t, lit).healthy = t.healthy
      /\ Switches(t, lit).restoring = t.restoring /\ Switches(t, lit).active = t.active
      /\ Holds(Switches(t, lit)) => Holds(t)
  BY <1>6, SwitchesRemembered
<1>8. Passed(m, out, lit, seen) = Switches(t, lit)
  BY DEF Passed, k, s, t
<1>9. s.healthy >= Wait(s.failures) => Holds(m) \/ m.healthy >= Wait(m.failures)
  <2>1. ASSUME s.failures = m.failures, s.healthy = Never PROVE ~(s.healthy >= Wait(s.failures))
    <3>1. m.failures \in 0 .. MaxFailures
      BY DEF Remembered, Memory
    <3>2. Wait(m.failures) \in 0 .. MaxWait
      BY <3>1, WaitsGrow, ThresholdsAreNumbers
    <3> QED
      BY <2>1, <3>2, ThresholdsAreNumbers DEF Never
  <2> QED
    BY <1>4, <2>1 DEF Follows
<1> QED
  BY <1>4, <1>5, <1>6, <1>7, <1>8, <1>9 DEF Follows, AtSaved

\* The ends of a pass, and what people and sleep do, stop clocks and take retries
\* back, and leave what has held and the failures so far.
Settles(m, r) ==
  /\ Remembered(r)
  /\ r.healthy \in {m.healthy, Never}
  /\ r.restoring \in {m.restoring, NotRestoring}

LEMMA ForgivenSettles ==
  ASSUME Thresholds, NEW m, Remembered(m)
  PROVE  LET r == Forgiven(m) IN
         /\ Settles(m, r) /\ r.restoring = NotRestoring
         /\ r.failures = m.failures /\ r.active = m.active /\ r.switched = m.switched
<1> DEFINE r == Forgiven(m)
<1>1. m \in Memory
  BY DEF Remembered
<1>2. r \in Memory
  BY <1>1, Resets, Zenon DEF Memory, Forgiven
<1>3. /\ r.healthy = m.healthy /\ r.failures = m.failures /\ r.active = m.active
      /\ r.restoring = NotRestoring /\ r.switched = m.switched
  BY <1>1 DEF Memory, Forgiven
<1> HIDE DEF r
<1>4. Settles(m, r) /\ r.restoring = NotRestoring
      /\ r.failures = m.failures /\ r.active = m.active /\ r.switched = m.switched
  BY <1>2, <1>3 DEF Settles, Remembered
<1> QED
  BY <1>4 DEF r

\* A rejected retry is counted, and goes back to its step with the clock stopped.
LEMMA RestoreFailedSettles ==
  ASSUME Thresholds, NEW m, Remembered(m)
  PROVE  LET r == RestoreFailed(m) IN
         /\ Remembered(r) /\ r.restoring = NotRestoring
         /\ m.restoring = NotRestoring => r = m
         /\ m.restoring # NotRestoring =>
              /\ r.failures = Min({m.failures + 1, MaxFailures})
              /\ r.healthy = Never /\ ~RunsSaved(r) /\ ~AtSaved(r)
<1> DEFINE n == Min({m.failures + 1, MaxFailures})
           r == [m EXCEPT !.failures = n, !.active = m.restoring, !.restoring = NotRestoring,
                   !.healthy = Never, !.fired = FALSE, !.strikes = 0, !.due = FALSE]
<1>1. /\ m \in Memory /\ m.failures \in 0 .. MaxFailures
      /\ m.restoring \in Fallback \cup {NotRestoring}
  BY DEF Remembered, Memory
<1>2. n \in 0 .. MaxFailures
  BY <1>1, CountsFailure
<1> HIDE DEF n
<1>3. ASSUME m.restoring # NotRestoring
      PROVE  /\ Remembered(r) /\ r.restoring = NotRestoring
             /\ r.failures = n /\ r.healthy = Never /\ ~RunsSaved(r) /\ ~AtSaved(r)
  <2>1. m.restoring \in Fallback /\ m.restoring.step > 0 /\ SteppedFrom(m.restoring)
    BY <1>1, <1>3 DEF Remembered
  <2>2. r \in Memory
    BY <1>1, <1>2, <2>1, Resets, Zenon DEF Memory
  <2>3. /\ r.healthy = Never /\ r.failures = n /\ r.active = m.restoring
        /\ r.restoring = NotRestoring
    BY <1>1 DEF Memory
  <2> HIDE DEF r
  <2> QED
    BY <2>1, <2>2, <2>3 DEF Remembered, RunsSaved, AtSaved
<1>4. ASSUME m.restoring # NotRestoring PROVE RestoreFailed(m) = r
  BY <1>1, <1>4 DEF RestoreFailed, CountFailure, Memory, n
<1>5. m.restoring = NotRestoring => RestoreFailed(m) = m
  BY DEF RestoreFailed
<1> HIDE DEF r
<1> QED
  BY <1>3, <1>4, <1>5 DEF n

LEMMA StruckSettles ==
  ASSUME Thresholds, NEW m, Remembered(m)
  PROVE  LET r == Struck(m) IN
         /\ Settles(m, r) /\ r.restoring = m.restoring
         /\ r.failures = m.failures /\ r.active = m.active /\ r.switched = m.switched
<1> DEFINE one == [m EXCEPT !.strikes = 1]
           two == [m EXCEPT !.strikes = 0, !.due = TRUE]
<1>1. m \in Memory
  BY DEF Remembered
<1>2. one \in Memory /\ two \in Memory
  BY <1>1, Resets, Zenon DEF Memory
<1>3. /\ one.healthy = m.healthy /\ one.failures = m.failures /\ one.active = m.active
      /\ one.restoring = m.restoring /\ one.switched = m.switched
  BY <1>1 DEF Memory
<1>4. /\ two.healthy = m.healthy /\ two.failures = m.failures /\ two.active = m.active
      /\ two.restoring = m.restoring /\ two.switched = m.switched
  BY <1>1 DEF Memory
<1>5. Struck(m) \in {one, two}
  BY DEF Struck
<1> HIDE DEF one, two
<1> QED
  BY <1>2, <1>3, <1>4, <1>5 DEF Settles, Remembered

LEMMA PausedSettles ==
  ASSUME Thresholds, NEW m, Remembered(m)
  PROVE  LET r == Paused(m) IN
         /\ Settles(m, r) /\ r.restoring = m.restoring
         /\ r.failures = m.failures /\ r.active = m.active /\ r.switched = m.switched
<1> DEFINE r == Paused(m)
<1>1. m \in Memory
  BY DEF Remembered
<1>2. r \in Memory
  BY <1>1, Resets, Zenon DEF Memory, Paused
<1>3. /\ r.healthy = Never /\ r.failures = m.failures /\ r.active = m.active
      /\ r.restoring = m.restoring /\ r.switched = m.switched
  BY <1>1 DEF Memory, Paused
<1> HIDE DEF r
<1>4. Settles(m, r) /\ r.restoring = m.restoring
      /\ r.failures = m.failures /\ r.active = m.active /\ r.switched = m.switched
  BY <1>2, <1>3 DEF Settles, Remembered
<1> QED
  BY <1>4 DEF r

LEMMA TicksSettle ==
  ASSUME Thresholds, NEW m, Remembered(m)
  PROVE  LET r == TickDelivered(m) IN
         /\ Settles(m, r) /\ r.restoring = m.restoring
         /\ r.failures = m.failures /\ r.active = m.active /\ r.switched = m.switched
<1> DEFINE r == TickDelivered(m)
<1>1. m \in Memory
  BY DEF Remembered
<1>2. r \in Memory
  BY <1>1, Zenon DEF Memory, TickDelivered
<1>3. /\ r.healthy = m.healthy /\ r.failures = m.failures /\ r.active = m.active
      /\ r.restoring = m.restoring /\ r.switched = m.switched
  BY <1>1 DEF Memory, TickDelivered
<1> HIDE DEF r
<1>4. Settles(m, r) /\ r.restoring = m.restoring
      /\ r.failures = m.failures /\ r.active = m.active /\ r.switched = m.switched
  BY <1>2, <1>3 DEF Settles, Remembered
<1> QED
  BY <1>4 DEF r

LEMMA ResetRemembered ==
  ASSUME Thresholds, NEW m, Remembered(m)
  PROVE  LET r == ResetByHand(m) IN
         Remembered(r) /\ r.restoring = NotRestoring /\ ~RunsSaved(r) /\ ~AtSaved(r)
<1> DEFINE entry == [Fresh EXCEPT !.gentle = m.active.gentle]
           r == [m EXCEPT !.strikes = 0, !.due = FALSE, !.healthy = Never, !.fired = FALSE,
                   !.restoring = NotRestoring, !.failures = 0, !.active = entry]
<1>1. m \in Memory /\ m.active.gentle \in BOOLEAN
  BY DEF Remembered, Memory, Fallback
<1>2. entry \in Fallback /\ entry.step = 0 /\ entry.saved = NoSetting
  <2>1. entry = [step |-> 0, saved |-> NoSetting, gentle |-> m.active.gentle]
    BY DEF Fresh
  <2> QED
    BY <1>1, <2>1, Resets, Zenon DEF Fallback
<1> HIDE DEF entry
<1>3. r \in Memory
  BY <1>1, <1>2, Resets, Zenon DEF Memory
<1>4. r.active = entry /\ r.restoring = NotRestoring
  BY <1>1 DEF Memory
<1>5. ResetByHand(m) = r
  BY DEF ResetByHand, entry
<1> HIDE DEF r
<1> QED
  BY <1>2, <1>3, <1>4, <1>5 DEF Remembered, RunsSaved, SteppedFrom, AtSaved

-----------------------------------------------------------------------------
(* The steps: what they leave of the displays and of the passes.           *)

WorldOK ==
  /\ plugged \in [Displays -> BOOLEAN] /\ usable \in [Displays -> BOOLEAN]
  /\ events \in Seq([display : Displays, added : BOOLEAN])
  /\ power \in {"on", "idle", "suspended"} /\ pass \in {"none", "loop", "client"}
  /\ does \in {"none", "apply", "same", "refused"} /\ (does = "none" <=> pass = "none")
  /\ inMind \subseteq [Displays -> BOOLEAN]
  /\ saved \in [Displays -> Saved] /\ trigger \in BOOLEAN /\ untimed \in BOOLEAN

HistoryOK ==
  /\ trying \subseteq Displays
  /\ failed \in [Displays -> 0 .. MaxFailures] /\ sinceFailure \in [Displays -> Ages]

MemoryOK ==
  /\ DOMAIN mem = Displays /\ mem = [d \in Displays |-> mem[d]]
  /\ \A d \in Displays : Remembered(mem[d])

LEMMA TypesInParts == TypeOK <=> WorldOK /\ HistoryOK /\ MemoryOK
<1>1. mem \in [Displays -> Memory] <=>
        /\ DOMAIN mem = Displays /\ mem = [d \in Displays |-> mem[d]]
        /\ \A d \in Displays : mem[d] \in Memory
  OBVIOUS
<1> QED
  BY <1>1 DEF TypeOK, WorldOK, HistoryOK, MemoryOK, Remembered

LEMMA WorldSteps ==
  ASSUME WorldOK, [Next]_vars
  PROVE  WorldOK'
<1> USE DEF hardware, passes
<1>1. ASSUME NEW d \in Displays, Plug(d) \/ Drop(d) PROVE WorldOK'
  <2>1. events' \in Seq([display : Displays, added : BOOLEAN])
    <3> DEFINE comes == [display |-> d, added |-> TRUE]
               goes == [display |-> d, added |-> FALSE]
               E == [display : Displays, added : BOOLEAN]
    <3>1. events' = Append(events, comes) \/ events' = Append(events, goes)
      BY <1>1 DEF Plug, Drop
    <3>2. comes \in E /\ goes \in E
      BY Zenon
    <3>3. events \in Seq(E)
      BY DEF WorldOK
    <3> HIDE DEF comes, goes, E
    <3>4. events' \in Seq(E)
      BY <3>1, <3>2, <3>3, AppendProperties
    <3> QED
      BY <3>4 DEF E
  <2> QED
    BY <1>1, <2>1 DEF Plug, Drop, Fault, history, WorldOK
<1>2. ASSUME NEW d \in Displays, LosesMode(d) PROVE WorldOK'
  BY <1>2 DEF LosesMode, Fault, history, WorldOK
<1>3. CASE HearsEvent
  <2>1. events' \in Seq([display : Displays, added : BOOLEAN])
    BY <1>3 DEF HearsEvent, WorldOK
  <2>2. trigger' \in BOOLEAN
    BY <1>3 DEF HearsEvent, WorldOK
  <2> QED
    BY <1>3, <2>1, <2>2 DEF HearsEvent, WorldOK
<1>4. CASE Tick \/ UNCHANGED vars
  BY <1>4 DEF Tick, vars, history, WorldOK
<1>5. CASE TimerFires
  <2>1. trigger' \in BOOLEAN
    BY <1>5, Zenon DEF TimerFires
  <2> QED
    BY <1>5, <2>1 DEF TimerFires, history, WorldOK
<1>6. CASE Sleeps \/ Wakes
  BY <1>6 DEF Sleeps, Wakes, Fault, history, WorldOK
<1>7. CASE LoopPassBegins \/ ClientPassBegins
  <2>1. PICK who \in {"loop", "client"}, known \in {inMind, {}}, refused \in {rejected, {}} :
          Begins(who, known, refused)
    BY <1>7 DEF LoopPassBegins, ClientPassBegins
  <2>2. does' \in {"apply", "same", "refused"} /\ inMind' \subseteq [Displays -> BOOLEAN]
    BY <2>1 DEF Begins, WorldOK
  <2> QED
    BY <1>7, <2>1, <2>2 DEF LoopPassBegins, ClientPassBegins, Begins, WorldOK
<1>8. CASE PassEnds
  <2> USE DEF PassEnds, PassAppliesNothing, PassSucceeds, RetryRejected, LayoutRejected, PassFails
  <2>1. trigger' \in BOOLEAN /\ untimed' \in BOOLEAN
    BY <1>8 DEF Ends, WorldOK
  <2>2. usable' \in [Displays -> BOOLEAN] /\ inMind' \subseteq [Displays -> BOOLEAN]
    BY <1>8 DEF Ends, Remembers, WorldOK
  <2>3. /\ plugged' = plugged /\ events' = events /\ power' = power /\ saved' = saved
        /\ pass' = "none" /\ does' = "none"
    BY <1>8 DEF Ends
  <2> QED
    BY <2>1, <2>2, <2>3, Zenon DEF WorldOK
<1>9. CASE AppliesByHand \/ Restart
  <2>1. CASE AppliesByHand
    BY <2>1 DEF AppliesByHand, Call, Remembers, WorldOK
  <2>2. CASE Restart
    <3>1. /\ plugged' = plugged /\ usable' = usable /\ power' = power /\ saved' = saved
          /\ pass' = "none" /\ trigger' = TRUE /\ untimed' = FALSE /\ events' = <<>>
          /\ does' = "none" /\ inMind' = {}
      BY <2>2 DEF Restart, Fault
    <3>2. <<>> \in Seq([display : Displays, added : BOOLEAN])
      OBVIOUS
    <3> QED
      BY <3>1, <3>2, Zenon DEF WorldOK
  <2> QED
    BY <1>9, <2>1, <2>2
<1>10. CASE Edits
  BY <1>10 DEF Edits, Call, history, WorldOK
<1> QED
  BY <1>1, <1>2, <1>3, <1>4, <1>5, <1>6, <1>7, <1>8, <1>9, <1>10 DEF Next, PassEnds

-----------------------------------------------------------------------------
(* The steps: memories, and the history of failures.                       *)

BackoffOK == HistoryOK /\ MemoryOK /\ BackoffInv

\* What a step must leave of a display if the retries of ds fail in it and the last
\* failures of the others are as old as ages says.
Counts(d, ds, ages) ==
  /\ Remembered(mem'[d])
  /\ d \in ds => /\ ~RunsSaved(mem'[d]) /\ mem'[d].healthy = Never
                 /\ mem'[d].failures = Min({mem[d].failures + 1, MaxFailures})
  /\ d \notin ds => /\ failed[d] <= mem'[d].failures \/ Holds(mem'[d])
                    /\ failed[d] > 0 => ages[d] >= 0 /\ mem'[d].healthy <= ages[d]

LEMMA RetriedCounts ==
  ASSUME Thresholds, BackoffOK, NEW ds, NEW ages \in [Displays -> Ages],
         Retried(ds, ages), mem' = [d \in Displays |-> mem'[d]], DOMAIN mem' = Displays,
         \A d \in Displays : Counts(d, ds, ages)
  PROVE  BackoffOK'
<1>1. \A d \in Displays :
        /\ failed[d] \in 0 .. MaxFailures /\ sinceFailure[d] \in Ages
        /\ mem[d].failures \in 0 .. MaxFailures /\ failed[d] <= mem[d].failures
        /\ Min({failed[d] + 1, MaxFailures}) \in 0 .. MaxFailures
        /\ Min({failed[d] + 1, MaxFailures}) <= Min({mem[d].failures + 1, MaxFailures})
  <2> TAKE d \in Displays
  <2>1. /\ failed[d] \in 0 .. MaxFailures /\ sinceFailure[d] \in Ages
        /\ mem[d].failures \in 0 .. MaxFailures /\ failed[d] <= mem[d].failures
    BY DEF BackoffOK, HistoryOK, MemoryOK, Remembered, Memory, BackoffInv, BacksOff
  <2>2. failed[d] \in 0 .. mem[d].failures
    BY <2>1
  <2> QED
    BY <2>1, <2>2, CountsFailure
<1>2. MemoryOK'
  BY DEF MemoryOK, Counts
<1>3. /\ trying' = {d \in trying \ ds : RunsSaved(mem'[d]) /\ ~Holds(mem'[d])}
      /\ failed' = [d \in Displays |->
           IF d \in ds THEN Min({failed[d] + 1, MaxFailures})
           ELSE IF Holds(mem'[d]) THEN 0 ELSE failed[d]]
      /\ sinceFailure' = [d \in Displays |->
           IF d \in ds THEN 0 ELSE IF Holds(mem'[d]) THEN Never ELSE ages[d]]
  BY DEF Retried
<1>4. HistoryOK'
  <2>1. trying' \subseteq Displays
    BY <1>3 DEF BackoffOK, HistoryOK
  <2>2. failed' \in [Displays -> 0 .. MaxFailures]
    BY <1>1, <1>3, Resets
  <2>3. sinceFailure' \in [Displays -> Ages]
    BY <1>3, Resets
  <2> QED
    BY <2>1, <2>2, <2>3 DEF HistoryOK
<1>5. ASSUME NEW d \in Displays PROVE BacksOff(d)'
  <2>1. Counts(d, ds, ages)
    OBVIOUS
  <2>2. /\ mem'[d].failures \in 0 .. MaxFailures /\ mem'[d].healthy \in Ages
        /\ ages[d] \in Ages
    BY <2>1 DEF Counts, Remembered, Memory
  <2>3. d \in trying' => RunsSaved(mem'[d])
    BY <1>3
  <2>4. CASE d \in ds
    <3>1. failed'[d] = Min({failed[d] + 1, MaxFailures}) /\ sinceFailure'[d] = 0
      BY <1>3, <2>4
    <3>2. ~Holds(mem'[d]) /\ mem'[d].healthy = Never /\ failed'[d] <= mem'[d].failures
      BY <1>1, <2>1, <2>4, <3>1 DEF Counts, Holds
    <3> QED
      BY <2>1, <2>3, <3>1, <3>2 DEF BacksOff, Counts, Never
  <2>5. CASE d \notin ds /\ Holds(mem'[d])
    <3>1. failed'[d] = 0
      BY <1>3, <2>5
    <3> QED
      BY <2>1, <2>2, <2>3, <3>1 DEF BacksOff, Counts
  <2>6. CASE d \notin ds /\ ~Holds(mem'[d])
    <3>1. failed'[d] = failed[d] /\ sinceFailure'[d] = ages[d]
      BY <1>3, <2>6
    <3> QED
      BY <2>1, <2>3, <2>6, <3>1 DEF BacksOff, Counts
  <2> QED
    BY <2>4, <2>5, <2>6
<1> QED
  BY <1>2, <1>4, <1>5 DEF BackoffOK, BackoffInv

\* A step that leaves the history alone, and of each memory what the history is about.
LEMMA SettledCounts ==
  ASSUME Thresholds, BackoffOK, UNCHANGED tries,
         mem' = [d \in Displays |-> mem'[d]], DOMAIN mem' = Displays,
         \A d \in Displays :
           /\ Settles(mem[d], mem'[d])
           /\ mem'[d].failures = mem[d].failures /\ mem'[d].active = mem[d].active
           /\ mem'[d].switched = mem[d].switched /\ mem'[d].restoring = mem[d].restoring
  PROVE  BackoffOK'
<1>1. UNCHANGED <<trying, failed, sinceFailure>>
  BY DEF tries
<1>2. HistoryOK'
  BY <1>1 DEF BackoffOK, HistoryOK
<1>3. MemoryOK'
  BY DEF MemoryOK, Settles
<1>4. ASSUME NEW d \in Displays PROVE BacksOff(d)'
  <2>1. BacksOff(d)
    BY DEF BackoffOK, BackoffInv
  <2>2. sinceFailure[d] \in Ages /\ mem[d].healthy \in Ages
    BY DEF BackoffOK, HistoryOK, MemoryOK, Remembered, Memory
  <2>3. failed[d] > 0 => mem'[d].healthy <= sinceFailure[d]
    BY <2>1, <2>2 DEF Settles, BacksOff, Ages, Never
  <2> QED
    BY <1>1, <2>1, <2>3 DEF BacksOff, Holds, RunsSaved
<1> QED
  BY <1>2, <1>3, <1>4 DEF BackoffOK, BackoffInv

\* A step that has nothing to do with the memories.
LEMMA UnheardCounts ==
  ASSUME BackoffOK, UNCHANGED <<mem, tries>>
  PROVE  BackoffOK'
<1>1. UNCHANGED <<trying, failed, sinceFailure>>
  BY DEF tries
<1> QED
  BY <1>1 DEF BackoffOK, HistoryOK, MemoryOK, BackoffInv, BacksOff

\* No other step than the beginning of a pass begins a retry.
Calm ==
  \A d \in Displays :
    /\ mem'[d].restoring \in {mem[d].restoring, NotRestoring}
    /\ AtSaved(mem'[d]) => AtSaved(mem[d])

LEMMA CalmBacksOff ==
  ASSUME Calm
  PROVE  RetryBacksOff
<1>1. ASSUME NEW d \in Displays PROVE ~RetryBegins(d)
  BY DEF Calm, RetryBegins, AtSaved
<1> QED
  BY <1>1 DEF RetryBacksOff

LEMMA TimeCounts ==
  ASSUME Thresholds, BackoffOK, Tick
  PROVE  BackoffOK' /\ Calm
<1> DEFINE ages == [d \in Displays |-> Age(sinceFailure[d], MaxWait)]
           older(m) == [m EXCEPT !.connected = Age(@, Settle), !.switched = Age(@, Short + 1),
                          !.healthy = Age(@, MaxWait)]
<1>1. /\ mem' = [d \in Displays |-> older(mem[d])] /\ Retried({}, ages) /\ pass' = pass
  BY DEF Tick, passes
<1>2. Short + 1 \in Nat /\ Settle \in Nat /\ MaxWait \in Nat
  BY ThresholdsAreNumbers
<1>3. ages \in [Displays -> Ages]
  BY <1>2, AgesGrow DEF BackoffOK, HistoryOK, Ages
<1>4. ASSUME NEW m, Remembered(m)
      PROVE  /\ Remembered(older(m))
             /\ older(m).failures = m.failures /\ older(m).restoring = m.restoring
             /\ older(m).active = m.active
             /\ older(m).healthy = Age(m.healthy, MaxWait)
  <2>1. /\ m \in Memory /\ m.connected \in Never .. Settle
        /\ m.switched \in Never .. Short + 1 /\ m.healthy \in Never .. MaxWait
    BY <1>4 DEF Remembered, Memory, Ages
  <2>2. /\ Age(m.connected, Settle) \in Never .. Settle
        /\ Age(m.switched, Short + 1) \in Never .. Short + 1
        /\ Age(m.healthy, MaxWait) \in Ages
    BY <1>2, <2>1, AgesGrow DEF Ages
  <2>3. older(m) \in Memory
    BY <2>1, <2>2, Zenon DEF Memory
  <2>4. /\ older(m).failures = m.failures /\ older(m).restoring = m.restoring
        /\ older(m).active = m.active /\ older(m).healthy = Age(m.healthy, MaxWait)
    BY <2>1 DEF Memory
  <2> HIDE DEF older
  <2> QED
    BY <1>4, <2>3, <2>4 DEF Remembered
<1> HIDE DEF older
<1>5. ASSUME NEW d \in Displays PROVE Counts(d, {}, ages)
  <2>1. mem'[d] = older(mem[d]) /\ Remembered(mem[d]) /\ BacksOff(d)
    BY <1>1 DEF BackoffOK, MemoryOK, BackoffInv
  <2>2. /\ Remembered(mem'[d])
        /\ mem'[d].failures = mem[d].failures /\ mem'[d].restoring = mem[d].restoring
        /\ mem'[d].healthy = Age(mem[d].healthy, MaxWait)
    BY <1>4, <2>1
  <2>3. /\ mem[d].healthy \in Never .. MaxWait /\ sinceFailure[d] \in Never .. MaxWait
        /\ ages[d] = Age(sinceFailure[d], MaxWait)
    BY <2>1 DEF BackoffOK, HistoryOK, Remembered, Memory, Ages
  <2>4. failed[d] > 0 => ages[d] >= 0 /\ mem'[d].healthy <= ages[d]
    BY <1>2, <2>1, <2>2, <2>3, AgesGrow DEF BacksOff
  <2> QED
    BY <1>1, <2>1, <2>2, <2>4 DEF Counts, BacksOff
<1>6. Calm
  BY <1>1, <1>4 DEF Calm, BackoffOK, MemoryOK, AtSaved
<1>7. mem' = [d \in Displays |-> mem'[d]] /\ DOMAIN mem' = Displays
  BY <1>1
<1> HIDE DEF ages
<1> QED
  BY <1>1, <1>3, <1>5, <1>6, <1>7, RetriedCounts

\* A display that a step has not touched.
LEMMA UntouchedCounts ==
  ASSUME BackoffOK, NEW d \in Displays, NEW ds, d \notin ds,
         mem'[d] = mem[d]
  PROVE  Counts(d, ds, sinceFailure)
BY DEF BackoffOK, MemoryOK, BackoffInv, BacksOff, Counts

LEMMA AgesAreAges == BackoffOK => sinceFailure \in [Displays -> Ages]
BY DEF BackoffOK, HistoryOK

LEMMA EventsCount ==
  ASSUME Thresholds, WorldOK, BackoffOK, HearsEvent
  PROVE  BackoffOK' /\ Calm
<1> DEFINE e == Head(events).display
<1>1. pass' = pass
  BY DEF HearsEvent, passes
<1>2. e \in Displays
  <2>1. Head(events) \in [display : Displays, added : BOOLEAN]
    BY HeadTailProperties DEF HearsEvent, WorldOK
  <2> QED
    BY <2>1
<1>3. Remembered(mem[e]) /\ BacksOff(e) /\ mem[e].healthy \in Ages /\ sinceFailure[e] \in Ages
  BY <1>2 DEF BackoffOK, HistoryOK, MemoryOK, BackoffInv, Remembered, Memory
<1>4. CASE UNCHANGED <<mem, tries>>
  BY <1>1, <1>4, UnheardCounts DEF Calm
<1>5. CASE mem' = [mem EXCEPT ![e] = Connects(@)] /\ Fails({})
  <2>1. /\ \A d \in Displays : d # e => mem'[d] = mem[d]
        /\ mem'[e] = Connects(mem[e])
        /\ mem' = [d \in Displays |-> mem'[d]] /\ DOMAIN mem' = Displays
    BY <1>2, <1>5 DEF BackoffOK, MemoryOK
  <2>2. /\ Remembered(mem'[e]) /\ mem'[e].failures = mem[e].failures
        /\ mem'[e].healthy = mem[e].healthy /\ mem'[e].restoring = mem[e].restoring
        /\ mem'[e].active = mem[e].active
    BY <1>3, <2>1, ConnectsRemembered
  <2>3. Counts(e, {}, sinceFailure)
    BY <1>1, <1>3, <2>2 DEF Counts, BacksOff
  <2>4. \A d \in Displays : Counts(d, {}, sinceFailure)
    BY <1>1, <2>1, <2>3, UntouchedCounts
  <2>5. BackoffOK'
    BY <1>5, <2>1, <2>4, AgesAreAges, RetriedCounts DEF Fails
  <2> QED
    BY <2>1, <2>2, <2>5 DEF Calm, AtSaved
<1>6. CASE /\ mem' = [mem EXCEPT ![e] = Drops(@)]
           /\ Fails(IF Within(mem[e].switched, Short) THEN {e} \cap trying ELSE {})
  <2> DEFINE ds == IF Within(mem[e].switched, Short) THEN {e} \cap trying ELSE {}
  <2>1. /\ \A d \in Displays : d # e => mem'[d] = mem[d]
        /\ mem'[e] = Drops(mem[e])
        /\ mem' = [d \in Displays |-> mem'[d]] /\ DOMAIN mem' = Displays
    BY <1>2, <1>6 DEF BackoffOK, MemoryOK
  <2>2. /\ Remembered(mem'[e]) /\ ~RunsSaved(mem'[e])
        /\ AtSaved(mem'[e]) => AtSaved(mem[e])
        /\ mem'[e].healthy = Never /\ mem'[e].restoring = mem[e].restoring
        /\ mem'[e].failures = IF KnockedOff(mem[e]) THEN Min({mem[e].failures + 1, MaxFailures})
                              ELSE mem[e].failures
    BY <1>3, <2>1, DropsRemembered
  <2>3. e \in ds => KnockedOff(mem[e])
    BY <1>3 DEF BacksOff, RunsSaved, KnockedOff
  <2>4. mem[e].failures \in 0 .. MaxFailures /\ failed[e] \in 0 .. MaxFailures
    BY <1>2, <1>3 DEF Remembered, Memory, BackoffOK, HistoryOK
  <2>5. mem[e].failures <= mem'[e].failures /\ mem'[e].failures \in 0 .. MaxFailures
    <3>1. /\ Min({mem[e].failures + 1, MaxFailures}) \in 0 .. MaxFailures
          /\ Min({mem[e].failures + 1, MaxFailures}) >= mem[e].failures
      BY <2>4, CountsFailure
    <3> HIDE DEF e
    <3> QED
      BY <2>2, <2>4, <3>1
  <2>6. Counts(e, ds, sinceFailure)
    <3>2. e \in ds => mem'[e].failures = Min({mem[e].failures + 1, MaxFailures})
      BY <2>2, <2>3
    <3>3. failed[e] <= mem'[e].failures
      BY <1>3, <2>4, <2>5 DEF BacksOff
    <3>4. failed[e] > 0 => sinceFailure[e] >= 0 /\ mem'[e].healthy <= sinceFailure[e]
      <4>1. failed[e] > 0 => sinceFailure[e] >= 0
        BY <1>3 DEF BacksOff
      <4> HIDE DEF e
      <4> QED
        BY <1>3, <2>2, <4>1, ThresholdsAreNumbers DEF Ages, Never
    <3> HIDE DEF ds
    <3> QED
      BY <2>2, <3>2, <3>3, <3>4 DEF Counts
  <2>7. \A d \in Displays : Counts(d, ds, sinceFailure)
    BY <1>1, <2>1, <2>6, UntouchedCounts
  <2>8. Retried(ds, sinceFailure)
    BY <1>6 DEF Fails
  <2> HIDE DEF ds
  <2>9. BackoffOK'
    BY <2>1, <2>7, <2>8, AgesAreAges, RetriedCounts
  <2> QED
    BY <2>1, <2>2, <2>9 DEF Calm
<1> QED
  BY <1>4, <1>5, <1>6 DEF HearsEvent

\* A pass begins a retry only when the clock says so, and the clock is never older
\* than the last failure.
LEMMA BeginningsCount ==
  ASSUME Thresholds, WorldOK, BackoffOK, NEW who \in {"loop", "client"}, NEW known, NEW refused,
         Begins(who, known, refused)
  PROVE  BackoffOK' /\ RetryBacksOff
<1>1. /\ UNCHANGED <<failed, sinceFailure>>
      /\ mem' = [d \in Displays |-> Passed(mem[d], saved[d], usable[d], plugged[d])]
      /\ trying' = {d \in Displays : (d \in trying \/ RetryBegins(d)) /\ RunsSaved(mem'[d])}
  BY DEF Begins
<1>2. ASSUME NEW d \in Displays
      PROVE  /\ Remembered(mem'[d])
             /\ Holds(mem'[d]) => Holds(mem[d])
             /\ mem'[d].failures = mem[d].failures \/ (mem'[d].failures = 0 /\ Holds(mem[d]))
             /\ mem'[d].healthy \in {mem[d].healthy, Never, 0}
             /\ RetryBegins(d) => Holds(mem[d]) \/ mem[d].healthy >= Wait(mem[d].failures)
  <2>1. Remembered(mem[d])
    BY <1>1 DEF BackoffOK, MemoryOK
  <2>2. saved[d] \in Saved /\ usable[d] \in BOOLEAN /\ plugged[d] \in BOOLEAN
    BY DEF WorldOK
  <2>3. mem'[d] = Passed(mem[d], saved[d], usable[d], plugged[d])
    BY <1>1
  <2> QED
    BY <2>1, <2>2, <2>3, PassesWait DEF RetryBegins, AtSaved
<1>3. HistoryOK' /\ MemoryOK'
  BY <1>1, <1>2 DEF BackoffOK, HistoryOK, MemoryOK
<1>4. ASSUME NEW d \in Displays PROVE BacksOff(d)'
  <2>1. /\ BacksOff(d) /\ mem[d].healthy \in Ages /\ sinceFailure[d] \in Ages
        /\ failed[d] \in 0 .. MaxFailures
    BY DEF BackoffOK, HistoryOK, BackoffInv, MemoryOK, Remembered, Memory
  <2>2. failed'[d] <= mem'[d].failures
    BY <1>1, <1>2, <2>1 DEF BacksOff
  <2>3. d \in trying' => RunsSaved(mem'[d])
    BY <1>1
  <2>4. failed'[d] > 0 => sinceFailure'[d] >= 0 /\ mem'[d].healthy <= sinceFailure'[d]
    BY <1>1, <1>2, <2>1 DEF BacksOff, Ages, Never
  <2> QED
    BY <1>1, <1>2, <2>1, <2>2, <2>3, <2>4 DEF BacksOff
<1>5. ASSUME NEW d \in Displays, RetryBegins(d), failed[d] > 0
      PROVE  sinceFailure[d] >= Min({MaxWait, Settle * 2^failed[d]})
  <2>1. /\ BacksOff(d) /\ mem[d].healthy \in Ages /\ sinceFailure[d] \in Ages
        /\ mem[d].failures \in 0 .. MaxFailures /\ failed[d] \in 0 .. mem[d].failures
    BY DEF BackoffOK, HistoryOK, BackoffInv, BacksOff, MemoryOK, Remembered, Memory
  <2>2. ~Holds(mem[d])
    BY <1>5, <2>1 DEF BacksOff
  <2>3. mem[d].healthy >= Wait(mem[d].failures) /\ mem[d].healthy <= sinceFailure[d]
    BY <1>2, <1>5, <2>1, <2>2 DEF BacksOff
  <2>4. /\ Wait(mem[d].failures) \in Int /\ Wait(failed[d]) \in Int
        /\ Wait(failed[d]) <= Wait(mem[d].failures)
    BY <2>1, WaitsGrow, ThresholdsAreNumbers
  <2>5. sinceFailure[d] >= Wait(failed[d])
    BY <2>1, <2>3, <2>4, ThresholdsAreNumbers DEF Ages, Never
  <2> QED
    BY <2>5 DEF Wait
<1> QED
  BY <1>3, <1>4, <1>5 DEF BackoffOK, BackoffInv, RetryBacksOff

\* Sleep and the settle timer.
LEMMA PausesCount ==
  ASSUME Thresholds, BackoffOK, Sleeps \/ TimerFires
  PROVE  BackoffOK' /\ Calm
<1>1. UNCHANGED tries
  BY DEF Sleeps, TimerFires, history
<1>2. \/ mem' = [d \in Displays |-> Paused(mem[d])]
      \/ mem' = [d \in Displays |-> TickDelivered(mem[d])]
  BY DEF Sleeps, TimerFires
<1>3. mem' = [d \in Displays |-> mem'[d]] /\ DOMAIN mem' = Displays
  BY <1>2
<1>4. ASSUME NEW d \in Displays
      PROVE  /\ Settles(mem[d], mem'[d])
             /\ mem'[d].failures = mem[d].failures /\ mem'[d].active = mem[d].active
             /\ mem'[d].switched = mem[d].switched /\ mem'[d].restoring = mem[d].restoring
  <2>1. Remembered(mem[d])
    BY DEF BackoffOK, MemoryOK
  <2>2. mem'[d] = Paused(mem[d]) \/ mem'[d] = TickDelivered(mem[d])
    BY <1>2
  <2> QED
    BY <2>1, <2>2, PausedSettles, TicksSettle
<1> QED
  BY <1>1, <1>3, <1>4, SettledCounts DEF Calm, Settles, AtSaved

LEMMA SuccessCounts ==
  ASSUME Thresholds, BackoffOK, mem' = [d \in Displays |-> Forgiven(mem[d])], Fails({})
  PROVE  BackoffOK' /\ Calm
<1>1. mem' = [d \in Displays |-> Forgiven(mem[d])] /\ Retried({}, sinceFailure)
  BY DEF Fails
<1>2. ASSUME NEW d \in Displays
      PROVE  /\ Counts(d, {}, sinceFailure) /\ mem'[d].restoring = NotRestoring
             /\ mem'[d].active = mem[d].active
  <2>1. /\ Remembered(mem[d]) /\ BacksOff(d) /\ mem[d].healthy \in Ages
        /\ sinceFailure[d] \in Ages
    BY DEF BackoffOK, HistoryOK, MemoryOK, BackoffInv, Remembered, Memory
  <2>2. mem'[d] = Forgiven(mem[d])
    BY <1>1
  <2>3. /\ Remembered(mem'[d]) /\ mem'[d].healthy \in {mem[d].healthy, Never}
        /\ mem'[d].restoring = NotRestoring /\ mem'[d].failures = mem[d].failures
        /\ mem'[d].active = mem[d].active
    BY <2>1, <2>2, ForgivenSettles DEF Settles
  <2>4. failed[d] > 0 => sinceFailure[d] >= 0 /\ mem'[d].healthy <= sinceFailure[d]
    BY <2>1, <2>3 DEF BacksOff, Ages, Never
  <2> QED
    BY <2>1, <2>3, <2>4 DEF Counts, BacksOff
<1>3. mem' = [d \in Displays |-> mem'[d]] /\ DOMAIN mem' = Displays
  BY <1>1
<1> QED
  BY <1>1, <1>2, <1>3, AgesAreAges, RetriedCounts DEF Calm, AtSaved

LEMMA RejectionCounts ==
  ASSUME Thresholds, BackoffOK, RetryRejected
  PROVE  BackoffOK' /\ Calm
<1> DEFINE ds == {d \in trying : mem[d].restoring # NotRestoring}
<1>1. mem' = [d \in Displays |-> RestoreFailed(mem[d])] /\ Retried(ds, sinceFailure)
  BY DEF RetryRejected, Fails
<1>2. \A d \in ds : mem[d].restoring # NotRestoring
  OBVIOUS
<1> HIDE DEF ds
<1>3. ASSUME NEW d \in Displays
      PROVE  /\ Counts(d, ds, sinceFailure) /\ mem'[d].restoring = NotRestoring
             /\ AtSaved(mem'[d]) => AtSaved(mem[d])
  <2>1. /\ Remembered(mem[d]) /\ BacksOff(d) /\ mem[d].healthy \in Ages
        /\ sinceFailure[d] \in Ages
        /\ mem[d].failures \in 0 .. MaxFailures /\ failed[d] \in 0 .. MaxFailures
    BY DEF BackoffOK, HistoryOK, MemoryOK, BackoffInv, Remembered, Memory
  <2>2. mem'[d] = RestoreFailed(mem[d])
    BY <1>1
  <2>3. /\ Remembered(mem'[d]) /\ mem'[d].restoring = NotRestoring
        /\ mem[d].restoring = NotRestoring => mem'[d] = mem[d]
        /\ mem[d].restoring # NotRestoring =>
             /\ mem'[d].failures = Min({mem[d].failures + 1, MaxFailures})
             /\ mem'[d].healthy = Never /\ ~RunsSaved(mem'[d]) /\ ~AtSaved(mem'[d])
    BY <2>1, <2>2, RestoreFailedSettles
  <2>4. Min({mem[d].failures + 1, MaxFailures}) \in 0 .. MaxFailures
        /\ Min({mem[d].failures + 1, MaxFailures}) >= mem[d].failures
    BY <2>1, CountsFailure
  <2>5. failed[d] <= mem'[d].failures
    BY <2>1, <2>3, <2>4 DEF BacksOff
  <2>6. failed[d] > 0 => sinceFailure[d] >= 0 /\ mem'[d].healthy <= sinceFailure[d]
    BY <2>1, <2>3 DEF BacksOff, Ages, Never
  <2> QED
    BY <1>2, <2>3, <2>5, <2>6 DEF Counts
<1>4. mem' = [d \in Displays |-> mem'[d]] /\ DOMAIN mem' = Displays
  BY <1>1
<1> QED
  BY <1>1, <1>3, <1>4, AgesAreAges, RetriedCounts DEF Calm

LEMMA StrikesCount ==
  ASSUME Thresholds, BackoffOK, PassFails
  PROVE  BackoffOK' /\ Calm
<1>1. UNCHANGED tries
  BY DEF PassFails
<1>2. /\ \A d \in Displays : mem'[d] \in {Struck(mem[d]), mem[d]}
      /\ mem' = [d \in Displays |-> mem'[d]] /\ DOMAIN mem' = Displays
  BY DEF PassFails
<1>3. ASSUME NEW d \in Displays
      PROVE  /\ Settles(mem[d], mem'[d])
             /\ mem'[d].failures = mem[d].failures /\ mem'[d].active = mem[d].active
             /\ mem'[d].switched = mem[d].switched /\ mem'[d].restoring = mem[d].restoring
  <2>1. Remembered(mem[d])
    BY DEF BackoffOK, MemoryOK
  <2> QED
    BY <1>2, <2>1, StruckSettles DEF Settles
<1> QED
  BY <1>1, <1>2, <1>3, SettledCounts DEF Calm, Settles, AtSaved

\* A person, and a daemon that starts, forget the retries that failed.
LEMMA ForgettingCounts ==
  ASSUME Thresholds, BackoffOK, AppliesByHand \/ Restart
  PROVE  BackoffOK' /\ Calm
<1>1. trying' = {} /\ failed' = NoFailure /\ sinceFailure' = NoneYet
  BY DEF AppliesByHand, Restart
<1>2. \/ mem' = [d \in Displays |-> ResetByHand(mem[d])]
      \/ mem' = [d \in Displays |-> Started(mem[d].active)]
  BY DEF AppliesByHand, Restart
<1>3. ASSUME NEW d \in Displays
      PROVE  /\ Remembered(mem'[d]) /\ mem'[d].restoring = NotRestoring
             /\ AtSaved(mem'[d]) => AtSaved(mem[d])
  <2>1. Remembered(mem[d])
    BY DEF BackoffOK, MemoryOK
  <2>2. mem'[d] = ResetByHand(mem[d]) \/ mem'[d] = Started(mem[d].active)
    BY <1>2
  <2> QED
    BY <2>1, <2>2, ResetRemembered, RestartRemembered DEF AtSaved
<1>4. MemoryOK'
  BY <1>2, <1>3 DEF MemoryOK
<1>5. HistoryOK'
  BY <1>1, Resets DEF HistoryOK, NoFailure, NoneYet
<1>6. ASSUME NEW d \in Displays PROVE BacksOff(d)'
  <2>1. failed'[d] = 0 /\ d \notin trying'
    BY <1>1 DEF NoFailure
  <2>2. mem'[d].failures \in 0 .. MaxFailures
    BY <1>3 DEF Remembered, Memory
  <2> QED
    BY <1>3, <2>1, <2>2, ThresholdsAreNumbers DEF BacksOff
<1> QED
  BY <1>3, <1>4, <1>5, <1>6 DEF BackoffOK, BackoffInv, Calm

LEMMA BackoffSteps ==
  ASSUME Thresholds, WorldOK, BackoffOK, [Next]_vars
  PROVE  BackoffOK' /\ RetryBacksOff
<1>1. CASE Tick
  BY <1>1, TimeCounts, CalmBacksOff
<1>2. CASE TimerFires \/ Sleeps
  BY <1>2, PausesCount, CalmBacksOff
<1>3. CASE HearsEvent
  BY <1>3, EventsCount, CalmBacksOff
<1>4. CASE \/ \E d \in Displays : Plug(d) \/ Drop(d) \/ LosesMode(d)
           \/ Wakes \/ Edits \/ LayoutRejected \/ UNCHANGED vars
  <2>1. UNCHANGED <<mem, tries>>
    BY <1>4 DEF Plug, Drop, LosesMode, Wakes, Edits, LayoutRejected, vars, history
  <2>2. BackoffOK'
    BY <2>1, UnheardCounts
  <2> QED
    BY <2>1, <2>2, CalmBacksOff DEF Calm
<1>5. CASE LoopPassBegins \/ ClientPassBegins
  BY <1>5, BeginningsCount DEF LoopPassBegins, ClientPassBegins
<1>6. CASE PassSucceeds \/ PassAppliesNothing
  <2>1. CASE UNCHANGED <<mem, tries>>
    BY <2>1, UnheardCounts, CalmBacksOff DEF Calm
  <2>2. CASE mem' = [d \in Displays |-> Forgiven(mem[d])] /\ Fails({})
    BY <2>2, SuccessCounts, CalmBacksOff
  <2> QED
    BY <1>6, <2>1, <2>2 DEF PassSucceeds, PassAppliesNothing
<1>7. CASE RetryRejected
  BY <1>7, RejectionCounts, CalmBacksOff
<1>8. CASE PassFails
  BY <1>8, StrikesCount, CalmBacksOff
<1>9. CASE AppliesByHand \/ Restart
  BY <1>9, ForgettingCounts, CalmBacksOff
<1> QED
  BY <1>1, <1>2, <1>3, <1>4, <1>5, <1>6, <1>7, <1>8, <1>9 DEF Next

LEMMA StartsBackedOff ==
  ASSUME Thresholds, Init
  PROVE  WorldOK /\ BackoffOK
<1>1. WorldOK
  <2>1. saved \in [Displays -> Saved]
    BY DEF Init, Thresholds
  <2>2. <<>> \in Seq([display : Displays, added : BOOLEAN])
    OBVIOUS
  <2> QED
    BY <2>1, <2>2 DEF Init, WorldOK
<1>2. PICK file \in [Displays -> StateFiles] : mem = [d \in Displays |-> Started(file[d])]
  BY DEF Init
<1>3. ASSUME NEW d \in Displays
      PROVE  Remembered(mem[d]) /\ mem[d].restoring = NotRestoring
  BY <1>2, StartedRemembered
<1>4. MemoryOK
  BY <1>2, <1>3 DEF MemoryOK
<1>5. trying = {} /\ failed = NoFailure /\ sinceFailure = NoneYet
  BY DEF Init
<1>6. HistoryOK
  BY <1>5, Resets DEF HistoryOK, NoFailure, NoneYet
<1>7. ASSUME NEW d \in Displays PROVE BacksOff(d)
  <2>1. failed[d] = 0 /\ d \notin trying
    BY <1>5 DEF NoFailure
  <2>2. mem[d].failures \in 0 .. MaxFailures
    BY <1>3 DEF Remembered, Memory
  <2> QED
    BY <1>3, <2>1, <2>2, ThresholdsAreNumbers DEF BacksOff
<1> QED
  BY <1>1, <1>4, <1>6, <1>7 DEF BackoffOK, BackoffInv

\* Of every display the daemon remembers what displayFallbacks can hold, a retry is
\* on only at the saved settings, and neither the failures counted nor the clock of the
\* next retry forgets a failure that no success has answered.
THEOREM FallbacksInvHolds ==
  ASSUME Thresholds
  PROVE  Spec => [](TypeOK /\ BackoffInv)
<1>1. Init => WorldOK /\ BackoffOK
  BY StartsBackedOff
<1>2. WorldOK /\ BackoffOK /\ [Next]_vars => (WorldOK /\ BackoffOK)'
  BY WorldSteps, BackoffSteps
<1>3. WorldOK /\ BackoffOK => TypeOK /\ BackoffInv
  BY TypesInParts DEF BackoffOK
<1> QED
  BY <1>1, <1>2, <1>3, PTL DEF Spec

\* A display that could not hold its saved settings is not switched to them again
\* before the wait of restoreWait for that many failures is over, whoever runs the
\* pass and whatever drops, wakes, edits and ticks came between.
THEOREM RetriesBackOff ==
  ASSUME Thresholds
  PROVE  Spec => [][RetryBacksOff]_vars
<1>1. Init => WorldOK /\ BackoffOK
  BY StartsBackedOff
<1>2. WorldOK /\ BackoffOK /\ [Next]_vars => (WorldOK /\ BackoffOK)' /\ RetryBacksOff
  BY WorldSteps, BackoffSteps
<1> QED
  BY <1>1, <1>2, PTL DEF Spec

=============================================================================
