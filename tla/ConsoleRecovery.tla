-------------------------- MODULE ConsoleRecovery --------------------------
(***************************************************************************)
(* internal/daemon/stalecrtc.go, internal/hypr/drm_stale.go and            *)
(* internal/console/console.go: a display that was handed a display pipe   *)
(* the kernel still drives for another connector fails every modeset.      *)
(* Switching to another console and back frees the pipes of connectors     *)
(* that are gone; it blanks every display, so it is repeated at growing    *)
(* intervals only.                                                         *)
(*                                                                         *)
(* The kernel and the compositor are external: they do what the comments   *)
(* of stalecrtc.go say that aquamarine 0.15.0 does.                        *)
(***************************************************************************)
EXTENDS Integers, FiniteSetsExt

CONSTANTS
  Connectors,
  RetryWait, RetryMaxWait, \* staleCRTCRetryWait and its maximum, in ticks
  MaxAttempts,             \* attempts counts no further: the wait is the maximum
  MaxMishaps               \* bound on unplugged displays and on failing calls

VARIABLES
  attached, routed,  \* sysfs, of each connector: status and enabled
  lit,               \* of each connector: the compositor gave it a mode
  clamshell,         \* the layout has a built-in panel off; the connectors are the others
  attempts, next, reported,  \* staleCRTCRecovery; next counts down to the time
  console,           \* "home", "away", or "lost" on the other one
  stage,             \* what recoverStaleCRTC is doing
  stopping,          \* the service's context has ended
  \* history: the switches begun since a failure without the signature, and the
  \* age of the last one
  switches, sinceSwitch,
  mishaps

kernel == <<attached, routed, lit>>
recovery == <<attempts, next, reported>>
told == <<switches, sinceSwitch>>
consoleVars == <<kernel, clamshell, recovery, console, stage, stopping, told, mishaps>>

\* The constants of stalecrtc.go.  The last conjunct is a fact of arithmetic.
Waits ==
  /\ {RetryWait, RetryMaxWait, MaxAttempts, MaxMishaps} \subseteq Nat
  /\ RetryWait <= RetryMaxWait
  /\ \A n \in 0 .. MaxAttempts :
       2^n \in Nat /\ \A m \in 0 .. n : 2^m <= 2^n

\* staleCRTCStuck, of displays that are awake and enabled.
Stuck == {c \in Connectors : attached[c] /\ ~lit[c]}

\* staleCRTCEvidence
Released == {c \in Connectors : routed[c] /\ ~attached[c]}
Swapped == {c \in Stuck : routed[c]}

\* observe: the wait after so many earlier attempts.
SwitchWait(earlier) == Min({RetryMaxWait, RetryWait * 2^earlier})

-----------------------------------------------------------------------------
\* The daemon may start while a display is gone or stuck.
Init ==
  /\ attached \in [Connectors -> BOOLEAN] /\ routed \in [Connectors -> BOOLEAN]
  /\ lit = [c \in Connectors |-> attached[c] /\ routed[c]]
  /\ clamshell \in BOOLEAN
  /\ attempts = 0 /\ next = 0 /\ reported = FALSE
  /\ console = "home" /\ stage = "idle" /\ stopping = FALSE
  /\ switches = 0 /\ sinceSwitch = RetryMaxWait
  /\ mishaps = 0

Mishap == mishaps < MaxMishaps /\ mishaps' = mishaps + 1

\* A display goes, and the kernel may keep its pipe.
Unplug(c) ==
  /\ attached[c] /\ Mishap
  /\ attached' = [attached EXCEPT ![c] = FALSE] /\ lit' = [lit EXCEPT ![c] = FALSE]
  /\ \E kept \in BOOLEAN : routed' = [routed EXCEPT ![c] = @ /\ kept]
  /\ UNCHANGED <<clamshell, recovery, console, stage, stopping, told>>

\* A display comes back; while a pipe is kept for nobody it may be handed that
\* one, and get no mode, whether or not its own connector is driven.
Replug(c) ==
  /\ ~attached[c] /\ attached' = [attached EXCEPT ![c] = TRUE]
  /\ \/ lit' = [lit EXCEPT ![c] = TRUE] /\ routed' = [routed EXCEPT ![c] = TRUE]
     \/ Released # {} /\ lit' = lit /\ UNCHANGED routed
  /\ UNCHANGED <<clamshell, recovery, console, stage, stopping, told, mishaps>>

Tick ==
  /\ next' = Max({0, next - 1}) /\ sinceSwitch' = Min({sinceSwitch + 1, RetryMaxWait})
  /\ <<next, sinceSwitch>>' # <<next, sinceSwitch>>
  /\ UNCHANGED <<clamshell, kernel, attempts, reported, console, stage, stopping, switches, mishaps>>

\* observe, of a failure with these stale connectors: none is not the signature.
Observes(stale) ==
  IF Stuck = {} \/ stale = {}
    THEN attempts' = 0 /\ next' = 0 /\ reported' = FALSE
    ELSE /\ reported' = TRUE
         /\ IF next > 0 THEN UNCHANGED <<attempts, next>>
            ELSE attempts' = Min({attempts + 1, MaxAttempts}) /\ next' = SwitchWait(attempts)

Evidence == IF Released # {} THEN Released ELSE Swapped

\* KeepBuiltInPanelOn and TolerateModeless: while no other display shows a picture
\* the panel is lit, and the apply succeeds beside the stuck displays.
Tolerated == clamshell /\ ~\E c \in Connectors : lit[c]

\* recoverStaleCRTC, after an apply that failed: because a display is stuck, or
\* for another reason.
PassFails ==
  /\ stage = "idle" /\ console = "home" /\ ~stopping
  /\ IF Stuck # {} /\ ~Tolerated THEN UNCHANGED mishaps ELSE Mishap
  /\ Observes(Evidence)
  /\ IF Stuck # {} /\ Released # {} /\ next = 0
       THEN /\ stage' = "switching"
            /\ switches' = Min({switches + 1, MaxAttempts}) /\ sinceSwitch' = 0
       ELSE /\ stage' = "idle" /\ UNCHANGED sinceSwitch
            /\ switches' = IF Stuck = {} \/ Evidence = {} THEN 0 ELSE switches
  /\ UNCHANGED <<clamshell, kernel, console, stopping>>

\* SwitchAwayAndBack refuses: another session, no free console; or the context ends
\* while logind is asked, which may have switched by then.
SwitchRefused ==
  /\ stage = "switching" /\ stage' = "idle" /\ console' \in {"home", "lost"}
  /\ IF stopping THEN UNCHANGED mishaps ELSE Mishap
  /\ UNCHANGED <<clamshell, kernel, recovery, stopping, told>>

SwitchesAway ==
  /\ stage = "switching" /\ stage' = "away" /\ console' = "away"
  /\ UNCHANGED <<clamshell, kernel, recovery, stopping, told, mishaps>>

\* Back on its console, the compositor has given up the pipes of what is gone.
ComesHome == console' = "home" /\ routed' = [c \in Connectors |-> routed[c] /\ attached[c]]

\* It returns even when the context has ended since.
SwitchesBack ==
  /\ stage = "away" /\ ComesHome
  /\ stage' = IF stopping THEN "idle" ELSE "returned"
  /\ UNCHANGED <<clamshell, attached, lit, recovery, stopping, told, mishaps>>

SwitchBackFails ==
  /\ stage = "away" /\ Mishap /\ stage' = "idle" /\ console' = "lost"
  /\ UNCHANGED <<clamshell, kernel, recovery, stopping, told>>

\* The user switches back by hand.
UserReturns ==
  /\ console = "lost" /\ ComesHome
  /\ UNCHANGED <<clamshell, attached, lit, recovery, stage, stopping, told, mishaps>>

\* The reload lights what nothing keeps from a pipe.
Reloads ==
  /\ stage = "returned" /\ ~stopping /\ stage' = "idle"
  /\ LET freed == {c \in Stuck : ~routed[c]} IN
     /\ lit' = [c \in Connectors |-> lit[c] \/ c \in freed]
     /\ routed' = [c \in Connectors |-> routed[c] \/ c \in freed]
  /\ UNCHANGED <<clamshell, attached, recovery, console, stopping, told, mishaps>>

ReloadFails ==
  /\ stage = "returned" /\ stage' = "idle"
  /\ IF stopping THEN UNCHANGED mishaps ELSE Mishap
  /\ UNCHANGED <<clamshell, kernel, recovery, console, stopping, told>>

Stops ==
  /\ ~stopping /\ Mishap /\ stopping' = TRUE
  /\ UNCHANGED <<clamshell, kernel, recovery, console, stage, told>>

Recovers == SwitchesAway \/ SwitchesBack \/ Reloads \/ ReloadFails

Next ==
  \/ \E c \in Connectors : Unplug(c) \/ Replug(c)
  \/ Tick \/ PassFails \/ SwitchRefused \/ SwitchBackFails \/ UserReturns \/ Stops
  \/ Recovers

Spec == Init /\ [][Next]_consoleVars

\* Time passes, a layout that fails is tried again (Run's recovery), and what
\* recoverStaleCRTC has begun goes on.
FairSpec ==
  /\ Spec
  /\ WF_consoleVars(Tick) /\ WF_consoleVars(PassFails) /\ WF_consoleVars(Recovers)

-----------------------------------------------------------------------------
TypeOK ==
  /\ attached \in [Connectors -> BOOLEAN] /\ routed \in [Connectors -> BOOLEAN]
  /\ lit \in [Connectors -> BOOLEAN] /\ clamshell \in BOOLEAN
  /\ attempts \in 0 .. MaxAttempts /\ next \in 0 .. RetryMaxWait /\ reported \in BOOLEAN
  /\ console \in {"home", "away", "lost"}
  /\ stage \in {"idle", "switching", "away", "returned"} /\ stopping \in BOOLEAN
  /\ switches \in 0 .. MaxAttempts /\ sinceSwitch \in 0 .. RetryMaxWait
  /\ mishaps \in Nat

\* "Each one blanks every display" (stalecrtc.go:27): a switch waits for as long
\* as the first wait, doubled for each switch since the last failure that was not
\* of this kind.
SwitchBacksOff ==
  switches > 0 /\ stage = "idle" /\ stage' = "switching"
    => sinceSwitch >= SwitchWait(switches - 1)

\* A display that is stuck because the kernel drives a connector that is gone is
\* freed in the end, and no switch that logind has answered leaves the seat on the
\* other console, even if the daemon is told to stop meanwhile.  Excused are a call
\* of logind that failed, and a built-in panel lit in the display's place.
Freed ==
  \/ console = "lost"
  \/ console = "home" /\ (stopping \/ Stuck = {} \/ Released = {} \/ Tolerated)

=============================================================================
