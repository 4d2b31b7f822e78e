--------------------------- MODULE PreviewService ---------------------------
(***************************************************************************)
(* The daemon's interactive service (internal/daemon/ipc.go) next to the   *)
(* automatic reconciliation that shares its state                          *)
(* (applyBestLocked in internal/daemon/daemon.go).                         *)
(*                                                                         *)
(* Each IPC connection runs its requests one at a time on a goroutine of   *)
(* its own; the event loop reconciles on another; the safety timer of a    *)
(* preview runs on a third.  Three locks order them: writeMu around every  *)
(* change of the displays, pendingMu around the pending transaction and    *)
(* manualMu around the manual choice.  A handler is split where another    *)
(* goroutine can get in between: before it takes writeMu, and, under       *)
(* writeMu, between a check of state that other goroutines change without  *)
(* it (the unmanaged marker, the lid) and the use of that check.           *)
(*                                                                         *)
(* A layout is reduced to what the properties tell apart: its name, the    *)
(* quarter turns of its built-in panel and whether that panel is on.  An   *)
(* apply is one step here with every outcome ApplyEngine.tla shows it has, *)
(* for a root config that is the daemon's to write.                        *)
(***************************************************************************)
EXTENDS Integers, FiniteSets

CONSTANTS
  Clients,      \* connections that may be open at the same time
  Loop,         \* the event loop's goroutine
  Nobody,       \* the zero value of an owner: no connection, no lock holder
  Names,        \* profile names
  NoName,       \* the zero value of a profile name
  Sets,         \* connected monitor sets, as MonitorSetHash tells them apart
  NoSet,        \* the zero value of a monitor set hash
  Docked,       \* the sets with an external display that shows a picture
  Requests,     \* upright layouts a client may ask to preview or to save
  LidStates,    \* positions the lid takes: TRUE is closed
  TurnValues,   \* quarter turns the orientation sensor takes
  Methods,      \* IPC methods the clients of an instance call
  MaxPreviews,  \* bound on previews started
  MaxFaults     \* bound on reverts and rollbacks that fail

Layout == [name : Names \cup {NoName}, turn : 0..3, panel : BOOLEAN]

ASSUME ConstantsAssumption ==
  /\ Nobody \notin Clients \cup {Loop} /\ Loop \notin Clients
  /\ NoName \notin Names
  /\ NoSet \notin Sets /\ Sets # {} /\ Docked \subseteq Sets
  /\ Requests \subseteq Layout /\ \A l \in Requests : l.name \in Names
  /\ LidStates \subseteq BOOLEAN /\ LidStates # {}
  /\ TurnValues \subseteq 0..3 /\ TurnValues # {}
  /\ MaxPreviews \in Nat /\ MaxFaults \in Nat

VARIABLES
  \* the world: the lid switch, the sensor's turn, the connected displays
  lid, turn, set,
  \* on disk and on screen: outlives the daemon
  file, screen, included, managed, store,
  \* read by properties alone: the last hand-back could not take the include out
  left,
  \* the daemon
  up, writer, pc, plan, pending, fired, manual, lidState, suppressing, seen,
  \* bounds
  nextId, faults

world   == <<lid, turn, set>>
shown   == <<file, screen, included>>
daemon  == <<up, writer, pc, plan, pending, fired, manual, lidState,
             suppressing, seen>>
vars    == <<world, shown, managed, left, store, daemon, nextId, faults>>

-----------------------------------------------------------------------------
(* Layouts.                                                                *)

Blank == [name |-> NoName, turn |-> 0, panel |-> TRUE]

\* The sensor's turns add to the saved ones of a panel that is on.
OrientedUnwrapped(l, quarters) ==
  IF l.panel THEN [l EXCEPT !.turn = @ + quarters] ELSE l
Oriented(l, quarters) ==
  IF l.panel THEN [l EXCEPT !.turn = (@ + quarters) % 4] ELSE l

\* ApplyClosedLidPolicy turns built-in panels off, but only while some
\* external display shows a picture.
ClosedLidPolicy(l, closed, displays) ==
  IF closed /\ displays \in Docked THEN [l EXCEPT !.panel = FALSE] ELSE l

\* KeepBuiltInPanelOn: without such a display the panel must be lit.
KeepPanelOn(l, displays) ==
  IF displays \in Docked THEN l ELSE [l EXCEPT !.panel = TRUE]

\* What a preview puts on screen for a requested layout.
PreviewLayout(l, closed) == Oriented(ClosedLidPolicy(l, closed, set), turn)

\* What a reconciliation puts on screen for its target.
AutoLayout(l, closed) == KeepPanelOn(PreviewLayout(l, closed), set)

\* Without a matching profile the target is a draft of what is on screen.  Its
\* outputs do not rotate automatically, so no sensor turns it a second time; it
\* is extended to a panel that is dark.
LiveDraft(closed) ==
  KeepPanelOn(ClosedLidPolicy([screen EXCEPT !.panel = TRUE], closed, set), set)

Saved == {store[n] : n \in Names} \ {Blank}

NoPin == [set |-> NoSet, profile |-> Blank]

\* manualOverride(s): the pin seen for set s; a pin for another set is dropped.
PinFor(s) == IF manual.set = s THEN manual ELSE NoPin

NoPreview ==
  [id |-> 0, owner |-> Nobody, requested |-> Blank, profile |-> Blank,
   snapFile |-> Blank, snapScreen |-> Blank, snapIncluded |-> FALSE,
   set |-> NoSet, save |-> FALSE, wasManual |-> FALSE, past |-> FALSE,
   rang |-> FALSE]

Previewing == pending.id # 0

-----------------------------------------------------------------------------
(* What an apply and a revert do to the file, the screen and the include.  *)

\* Engine.Apply of layout l: it succeeds, or fails with the previous state
\* restored, or fails with a rollback that stopped somewhere.
ApplySucceeds(l) ==
  /\ file' = l /\ screen' = l /\ included' = TRUE
  /\ UNCHANGED faults

ApplyRolledBack == UNCHANGED <<shown, faults>>

PartlyApplied(l) ==
  /\ file' \in {file, l} /\ screen' \in {screen, l}
  /\ included' \in {included, TRUE}

ApplyRollbackFails(l) ==
  /\ faults < MaxFaults /\ faults' = faults + 1
  /\ PartlyApplied(l)

\* restorePending: Engine.Revert puts back the root config, the generated
\* file and then the live state, and only then is the preview cleared.
RestoreSucceeds ==
  /\ file' = pending.snapFile /\ screen' = pending.snapScreen
  /\ included' = pending.snapIncluded
  /\ pending' = NoPreview
  /\ UNCHANGED faults

\* It may stop after any of those.
PartlyRestored ==
  \E reached \in 0..3 :
    /\ included' = IF reached >= 1 THEN pending.snapIncluded ELSE included
    /\ file' = IF reached >= 2 THEN pending.snapFile ELSE file
    /\ screen' = IF reached = 3 THEN pending.snapScreen ELSE screen

RestoreStops ==
  /\ faults < MaxFaults /\ faults' = faults + 1
  /\ PartlyRestored

\* The preview then stays pending, with the owner who asked.
RestoreFails(owner) ==
  /\ RestoreStops
  /\ pending' = [pending EXCEPT !.owner = owner]

RestorePending(owner) == RestoreSucceeds \/ RestoreFails(owner)

-----------------------------------------------------------------------------
Init ==
  /\ lid \in LidStates /\ turn \in TurnValues /\ set \in Sets
  /\ store \in [Names -> Requests \cup {Blank}]
  /\ \A n \in Names : store[n] = Blank \/ store[n].name = n
  /\ file = Blank /\ screen = Blank /\ included = FALSE /\ managed = TRUE
  /\ left = FALSE
  /\ up = "running" /\ writer = Nobody /\ plan = Blank
  /\ pc = [p \in Clients \cup {Loop} |-> "idle"]
  /\ pending = NoPreview /\ fired = {} /\ manual = NoPin
  /\ lidState = lid /\ suppressing = TRUE
  /\ seen = [c \in Clients |-> NoSet]
  /\ nextId = 1 /\ faults = 0

Calls(c, method) == up = "running" /\ pc[c] = "idle" /\ method \in Methods

-----------------------------------------------------------------------------
(* Preview, Confirm, Commit, Revert, Disconnect.  Each of the first four   *)
(* runs under writeMu from its first look at the pending transaction on.   *)

\* Preview: refused while another one is active; pending is published only
\* after the apply was verified.  The lid switch may be unreadable.
Preview(c) ==
  /\ Calls(c, "preview") /\ writer = Nobody
  /\ ~Previewing /\ nextId <= MaxPreviews
  /\ \E l \in Requests \cup Saved, save \in BOOLEAN, closed \in {lid, FALSE} :
       \/ /\ ApplySucceeds(PreviewLayout(l, closed))
          /\ manual' = PinFor(set)
          /\ pending' = [id |-> nextId, owner |-> c, requested |-> l,
                         profile |-> PreviewLayout(l, closed),
                         snapFile |-> file,
                         snapScreen |-> screen, snapIncluded |-> included,
                         set |-> set, save |-> save,
                         wasManual |-> PinFor(set) # NoPin, past |-> FALSE,
                         rang |-> FALSE]
          /\ nextId' = nextId + 1
       \/ /\ ApplyRollbackFails(PreviewLayout(l, closed))
          /\ UNCHANGED <<manual, pending, nextId>>
  /\ UNCHANGED <<world, managed, left, store, up, writer, pc, plan, fired,
                 lidState, suppressing, seen>>

\* ownedPending: the transaction exists and is the caller's, or nobody's, in
\* which case the caller takes it over.
OwnedBy(c) == Previewing /\ pending.owner \in {c, Nobody}

\* The deadline is looked at under writeMu, not only by the timer.
InTimeUnchecked == TRUE
InTime == ~pending.past

\* commitPreview after the deadline: the layout goes back instead.
CommitTooLate(c) ==
  /\ Calls(c, "commit") /\ writer = Nobody
  /\ OwnedBy(c) /\ ~InTime
  /\ RestorePending(c)
  /\ UNCHANGED <<world, managed, left, store, up, writer, pc, plan, fired,
                 manual, lidState, suppressing, seen, nextId>>

\* The pin a commit leaves behind, never the layout lid and sensor adjusted:
\* activating a profile pins it; saving an edit keeps the selection mode from
\* before the preview.
PinAfterCommitAdjusted == [set |-> pending.set, profile |-> pending.profile]
PinAfterCommit ==
  IF ~pending.save \/ pending.wasManual
    THEN [set |-> pending.set, profile |-> pending.requested]
    ELSE NoPin

\* commitPreview before the deadline: Confirm saves only if the preview was
\* started to be saved, Commit also if its caller asks.
Commit(c) ==
  /\ Calls(c, "commit") /\ writer = Nobody
  /\ OwnedBy(c) /\ InTime
  /\ \E save \in BOOLEAN :
       store' = IF save \/ pending.save
                  THEN [store EXCEPT ![pending.requested.name] = pending.requested]
                  ELSE store
  /\ pending' = NoPreview
  /\ manual' = PinAfterCommit
  /\ UNCHANGED <<world, shown, managed, left, up, writer, pc, plan, fired,
                 lidState, suppressing, seen, nextId, faults>>

\* A save that fails returns before the transaction is cleared; the caller
\* keeps the transaction it may just have taken over.
CommitSaveFails(c) ==
  /\ Calls(c, "commit") /\ writer = Nobody
  /\ OwnedBy(c) /\ InTime
  /\ pending' = [pending EXCEPT !.owner = c]
  /\ UNCHANGED <<world, shown, managed, left, store, up, writer, pc, plan,
                 fired, manual, lidState, suppressing, seen, nextId, faults>>

\* Revert on request of the owner.
Revert(c) ==
  /\ Calls(c, "revert") /\ writer = Nobody
  /\ OwnedBy(c)
  /\ RestorePending(c)
  /\ UNCHANGED <<world, managed, left, store, up, writer, pc, plan, fired,
                 manual, lidState, suppressing, seen, nextId>>

\* Disconnect takes pendingMu only: the preview outlives its connection and
\* waits, reclaimable, for a replacement, its safety timer still armed.
ReleasedWithTimerStopped == [pending EXCEPT !.owner = Nobody, !.rang = TRUE]
Released == [pending EXCEPT !.owner = Nobody]

Disconnect(c) ==
  /\ pc[c] = "idle"
  /\ Previewing /\ pending.owner = c
  /\ pending' = Released
  /\ UNCHANGED <<world, shown, managed, left, store, up, writer, pc, plan,
                 fired, manual, lidState, suppressing, seen, nextId, faults>>

-----------------------------------------------------------------------------
(* The safety timer.                                                       *)

DeadlinePasses ==
  /\ Previewing /\ ~pending.past
  /\ pending' = [pending EXCEPT !.past = TRUE]
  /\ UNCHANGED <<world, shown, managed, left, store, up, writer, pc, plan,
                 fired, manual, lidState, suppressing, seen, nextId, faults>>

\* time.AfterFunc starts expirePreview(id) on a goroutine of its own, once.
\* clearPending stops the timer, not a goroutine that already waits.
TimerFires ==
  /\ Previewing /\ pending.past /\ ~pending.rang
  /\ fired' = fired \cup {pending.id}
  /\ pending' = [pending EXCEPT !.rang = TRUE]
  /\ UNCHANGED <<world, shown, managed, left, store, up, writer, pc, plan,
                 manual, lidState, suppressing, seen, nextId, faults>>

\* expirePreview(id) once it holds writeMu: by then another preview may have
\* taken the place of the one it was armed for.
ExpiresAny(id) == Previewing
Expires(id) == pending.id = id

Expire(id) ==
  /\ id \in fired /\ writer = Nobody
  /\ fired' = fired \ {id}
  /\ IF Expires(id)
       THEN RestorePending(pending.owner)
       ELSE UNCHANGED <<shown, pending, faults>>
  /\ UNCHANGED <<world, managed, left, store, up, writer, pc, plan, manual,
                 lidState, suppressing, seen, nextId>>

-----------------------------------------------------------------------------
(* The automatic pass: the event loop's, which starts at any time, and the  *)
(* one Manage and SetProfileAuto end with.                                 *)

MayReconcile(p) == pc[p] = IF p = Loop THEN "idle" ELSE "auto"

\* applyBestLocked stands down for a preview and for someone who handed the
\* displays back.
MayApplyInPreview == managed
MayApplyUnmanaged == ~Previewing
MayApply == ~Previewing /\ managed

AutoStandsDown(p) ==
  /\ up = "running" /\ p # Loop /\ MayReconcile(p) /\ writer = Nobody
  /\ ~MayApply
  /\ pc' = [pc EXCEPT ![p] = "idle"]
  /\ UNCHANGED <<world, shown, managed, left, store, up, writer, plan,
                 pending, fired, manual, lidState, suppressing, seen, nextId,
                 faults>>

\* Otherwise it re-reads the lid, dropping the pin when it moved, and settles
\* on a layout: the pin's, a saved profile's, or a draft of the screen.
AutoBegin(p) ==
  /\ up = "running" /\ MayReconcile(p) /\ writer = Nobody
  /\ MayApply
  /\ lidState' \in {lid, lidState}
  /\ manual' = IF lidState' # lidState THEN NoPin ELSE PinFor(set)
  /\ IF manual' # NoPin
       THEN plan' = AutoLayout(manual'.profile, lidState')
       ELSE \/ plan' = LiveDraft(lidState')
            \/ \E l \in Saved : plan' = AutoLayout(l, lidState')
  /\ writer' = p /\ pc' = [pc EXCEPT ![p] = "applying"]
  /\ UNCHANGED <<world, shown, managed, left, store, up, pending, fired,
                 suppressing, seen, nextId, faults>>

ReturnsLocked(p) == pc' = [pc EXCEPT ![p] = "idle"] /\ plan' = Blank /\ UNCHANGED writer
Returns(p) == pc' = [pc EXCEPT ![p] = "idle"] /\ plan' = Blank /\ writer' = Nobody

\* It applies that layout, or finds it applied already or rejected before.
AutoFinish(p) ==
  /\ writer = p /\ pc[p] = "applying"
  /\ ApplySucceeds(plan) \/ ApplyRolledBack \/ ApplyRollbackFails(plan)
  /\ Returns(p)
  /\ UNCHANGED <<world, managed, left, store, up, pending, fired, manual,
                 lidState, suppressing, seen, nextId>>

-----------------------------------------------------------------------------
(* Manage, Unmanage, SetProfileAuto.                                       *)

\* Manage removes the unmanaged marker and claims Omarchy's watcher, neither
\* under a lock, and then reconciles.
Manage(c) ==
  /\ Calls(c, "manage")
  /\ managed' = TRUE
  /\ pc' = [pc EXCEPT ![c] = "claim"]
  /\ UNCHANGED <<world, shown, left, store, up, writer, plan, pending, fired,
                 manual, lidState, suppressing, seen, nextId, faults>>

ClaimWatcher(c) ==
  /\ pc[c] = "claim"
  /\ suppressing' = TRUE
  /\ pc' = [pc EXCEPT ![c] = "auto"]
  /\ UNCHANGED <<world, shown, managed, left, store, up, writer, plan,
                 pending, fired, manual, lidState, seen, nextId, faults>>

\* Unmanage records the choice first, without the lock, so that an apply
\* racing it stands down.
UnmanageMarks(c) ==
  /\ Calls(c, "unmanage")
  /\ managed' = FALSE
  /\ pc' = [pc EXCEPT ![c] = "unmanage"]
  /\ UNCHANGED <<world, shown, left, store, up, writer, plan, pending, fired,
                 manual, lidState, suppressing, seen, nextId, faults>>

\* What Hyprland shows after it has read its configuration again.
Loaded(f, inc) == IF inc THEN f ELSE Blank

\* Then, under writeMu, it ends a preview, takes the include out, gives the
\* watcher back and reloads.  Each of these three may fail, a root config that
\* cannot be resolved, read or written among the reasons: that is logged, the
\* next is tried all the same and the call succeeds.
UnmanageHandsBack(c) ==
  /\ pc[c] = "unmanage" /\ writer = Nobody
  /\ file' = IF Previewing THEN pending.snapFile ELSE file
  /\ included' \in {FALSE,
                   IF Previewing THEN pending.snapIncluded ELSE included}
  /\ left' = included'
  /\ screen' \in {IF Previewing THEN pending.snapScreen ELSE screen,
                  Loaded(file', included')}
  /\ suppressing' \in {FALSE, suppressing}
  /\ pending' = NoPreview
  /\ pc' = [pc EXCEPT ![c] = "idle"]
  /\ UNCHANGED <<world, managed, store, up, writer, plan, fired, manual,
                 lidState, seen, nextId, faults>>

\* A preview that cannot be restored ends the call: the marker stays.
UnmanageFails(c) ==
  /\ pc[c] = "unmanage" /\ writer = Nobody
  /\ Previewing /\ RestoreFails(pending.owner)
  /\ pc' = [pc EXCEPT ![c] = "idle"]
  /\ UNCHANGED <<world, managed, left, store, up, writer, plan, fired,
                 manual, lidState, suppressing, seen, nextId>>

\* SetProfileAuto looks for a preview under pendingMu alone.
SetProfileAuto(c) ==
  /\ Calls(c, "set_profile_auto")
  /\ ~Previewing
  /\ \E enabled \in BOOLEAN :
       pc' = [pc EXCEPT ![c] = IF enabled THEN "autoOn" ELSE "autoOff"]
  /\ UNCHANGED <<world, shown, managed, left, store, up, writer, plan,
                 pending, fired, manual, lidState, suppressing, seen, nextId,
                 faults>>

AutoOn(c) ==
  /\ pc[c] = "autoOn" /\ writer = Nobody
  /\ manual' = NoPin
  /\ pc' = [pc EXCEPT ![c] = "auto"]
  /\ UNCHANGED <<world, shown, managed, left, store, up, writer, plan,
                 pending, fired, lidState, suppressing, seen, nextId, faults>>

\* The saved profiles whose turned layout is what is on screen.
ActiveProfiles == {l \in Saved : Oriented(l, turn) = screen}

\* Turning automatic selection off pins the profile on screen, if there is one.
AutoOff(c) ==
  /\ pc[c] = "autoOff" /\ writer = Nobody
  /\ \/ \E l \in ActiveProfiles : manual' = [set |-> set, profile |-> l]
     \/ ActiveProfiles = {} /\ UNCHANGED manual
  /\ pc' = [pc EXCEPT ![c] = "idle"]
  /\ UNCHANGED <<world, shown, managed, left, store, up, writer, plan,
                 pending, fired, lidState, suppressing, seen, nextId, faults>>

-----------------------------------------------------------------------------
(* Save, Delete, Status.                                                   *)

Save(c) ==
  /\ Calls(c, "save") /\ writer = Nobody
  /\ \E l \in Requests : store' = [store EXCEPT ![l.name] = l]
  /\ UNCHANGED <<world, shown, managed, left, daemon, nextId, faults>>

Delete(c) ==
  /\ Calls(c, "delete") /\ writer = Nobody
  /\ \E l \in Saved : store' = [store EXCEPT ![l.name] = Blank]
  /\ UNCHANGED <<world, shown, managed, left, daemon, nextId, faults>>

\* Status takes no writeMu: the displays it read may have changed by the time
\* it asks for the pin of their set, which drops a pin of any other.
StatusReads(c) ==
  /\ Calls(c, "status")
  /\ seen' = [seen EXCEPT ![c] = set]
  /\ pc' = [pc EXCEPT ![c] = "status"]
  /\ UNCHANGED <<world, shown, managed, left, store, up, writer, plan,
                 pending, fired, manual, lidState, suppressing, nextId,
                 faults>>

StatusAnswers(c) ==
  /\ pc[c] = "status"
  /\ manual' = PinFor(seen[c])
  /\ seen' = [seen EXCEPT ![c] = NoSet]
  /\ pc' = [pc EXCEPT ![c] = "idle"]
  /\ UNCHANGED <<world, shown, managed, left, store, up, writer, plan,
                 pending, fired, lidState, suppressing, nextId, faults>>

-----------------------------------------------------------------------------
(* The world, and the daemon's life.                                       *)

LidMoves ==
  /\ lid' \in LidStates \ {lid}
  /\ UNCHANGED <<turn, set, shown, managed, left, store, daemon, nextId,
                 faults>>

DeviceTurns ==
  /\ turn' \in TurnValues \ {turn}
  /\ UNCHANGED <<lid, set, shown, managed, left, store, daemon, nextId,
                 faults>>

Hotplug ==
  /\ set' \in Sets \ {set}
  /\ UNCHANGED <<lid, turn, shown, managed, left, store, daemon, nextId,
                 faults>>

\* The event loop notes a lid change without any of the locks but manualMu.
LidEvent ==
  /\ up = "running" /\ pc[Loop] = "idle"
  /\ lidState # lid
  /\ lidState' = lid /\ manual' = NoPin
  /\ UNCHANGED <<world, shown, managed, left, store, up, writer, pc, plan,
                 pending, fired, suppressing, seen, nextId, faults>>

\* What a process takes with it when it ends.
Forget ==
  /\ writer' = Nobody /\ plan' = Blank
  /\ pc' = [p \in Clients \cup {Loop} |-> "idle"]
  /\ pending' = NoPreview /\ fired' = {} /\ manual' = NoPin
  /\ seen' = [c \in Clients |-> NoSet]

\* A graceful stop waits for the handlers, restores a pending preview, whether
\* or not that works, and gives the watcher back.
Shutdown ==
  /\ up = "running" /\ writer = Nobody
  /\ \A p \in Clients \cup {Loop} : pc[p] = "idle"
  /\ up' = "stopped"
  /\ \/ ~Previewing /\ UNCHANGED <<shown, faults>>
     \/ /\ Previewing
        /\ file' = pending.snapFile /\ screen' = pending.snapScreen
        /\ included' = pending.snapIncluded
        /\ UNCHANGED faults
     \/ Previewing /\ RestoreStops
  /\ suppressing' = FALSE
  /\ Forget
  /\ UNCHANGED <<world, managed, left, store, lidState, nextId>>

\* A killed process stops suppressing the watcher; an apply or a restore it was
\* in the middle of stays half done.
LeftHalfDone ==
  IF writer # Nobody THEN PartlyApplied(plan)
  ELSE IF Previewing THEN PartlyRestored
  ELSE \E l \in Requests : PartlyApplied(PreviewLayout(l, lid))

Crash ==
  /\ "crash" \in Methods /\ up = "running"
  /\ UNCHANGED shown \/ LeftHalfDone
  /\ up' = "crashed" /\ suppressing' = FALSE
  /\ Forget
  /\ UNCHANGED <<world, managed, left, store, lidState, nextId, faults>>

Start ==
  /\ "restart" \in Methods /\ up # "running"
  /\ up' = "running" /\ suppressing' = managed /\ lidState' = lid
  /\ pc' = [pc EXCEPT ![Loop] = "start"]
  /\ UNCHANGED <<world, shown, managed, left, store, writer, plan, pending,
                 fired, manual, seen, nextId, faults>>

\* Run puts the include of an existing generated file in place before the first
\* pass, without the lock; it looks at the marker a moment earlier.
StartChecks ==
  /\ pc[Loop] = "start"
  /\ pc' = [pc EXCEPT ![Loop] = IF managed /\ file # Blank THEN "include"
                                                          ELSE "idle"]
  /\ UNCHANGED <<world, shown, managed, left, store, up, writer, plan,
                 pending, fired, manual, lidState, suppressing, seen, nextId,
                 faults>>

StartIncludes ==
  /\ pc[Loop] = "include"
  /\ included' \in {included, TRUE}
  /\ pc' = [pc EXCEPT ![Loop] = "idle"]
  /\ UNCHANGED <<world, file, screen, managed, left, store, up, writer, plan,
                 pending, fired, manual, lidState, suppressing, seen, nextId,
                 faults>>

-----------------------------------------------------------------------------
Request(c) ==
  \/ Preview(c) \/ Commit(c) \/ CommitSaveFails(c) \/ CommitTooLate(c)
  \/ Revert(c) \/ Disconnect(c)
  \/ Manage(c) \/ ClaimWatcher(c) \/ UnmanageMarks(c)
  \/ UnmanageHandsBack(c) \/ UnmanageFails(c)
  \/ SetProfileAuto(c) \/ AutoOn(c) \/ AutoOff(c)
  \/ Save(c) \/ Delete(c) \/ StatusReads(c) \/ StatusAnswers(c)

Reconcile(p) == AutoStandsDown(p) \/ AutoBegin(p) \/ AutoFinish(p)

Timer == DeadlinePasses \/ TimerFires \/ \E id \in fired : Expire(id)

World == LidMoves \/ DeviceTurns \/ Hotplug

Lifecycle == Shutdown \/ Crash \/ Start \/ StartChecks \/ StartIncludes

Next ==
  \/ \E c \in Clients : Request(c)
  \/ \E p \in Clients \cup {Loop} : Reconcile(p)
  \/ Timer \/ LidEvent \/ World \/ Lifecycle

Spec == Init /\ [][Next]_vars

\* A started handler runs on: a goroutine is not starved by the scheduler, and
\* a Go mutex hands itself to a waiter it has kept waiting (strong fairness).
\* Time passes.  Nothing makes a client call or the world change.
Continues(c) ==
  ClaimWatcher(c) \/ UnmanageHandsBack(c) \/ AutoOn(c) \/ AutoOff(c)
    \/ StatusAnswers(c) \/ AutoStandsDown(c) \/ AutoBegin(c)

Fairness ==
  /\ WF_vars(DeadlinePasses) /\ WF_vars(TimerFires)
  /\ \A id \in 1..MaxPreviews : SF_vars(Expire(id))
  /\ \A p \in Clients \cup {Loop} : WF_vars(AutoFinish(p))
  /\ \A c \in Clients : SF_vars(Continues(c))

FairSpec == Spec /\ Fairness

-----------------------------------------------------------------------------
(* Properties.                                                             *)

Transaction ==
  [id : 0..MaxPreviews, owner : Clients \cup {Nobody},
   requested : Requests \cup {Blank}, profile : Layout,
   snapFile : Layout, snapScreen : Layout,
   snapIncluded : BOOLEAN, set : Sets \cup {NoSet}, save : BOOLEAN,
   wasManual : BOOLEAN, past : BOOLEAN, rang : BOOLEAN]

Pin == [set : Sets \cup {NoSet}, profile : Layout]

Stages == {"idle", "claim", "auto", "applying", "unmanage", "autoOn", "autoOff",
           "status", "start", "include"}

\* Every variable has its type.
TypeOK ==
  /\ lid \in LidStates /\ turn \in TurnValues /\ set \in Sets
  /\ file \in Layout /\ screen \in Layout /\ plan \in Layout
  /\ included \in BOOLEAN /\ managed \in BOOLEAN /\ left \in BOOLEAN
  /\ suppressing \in BOOLEAN
  /\ store \in [Names -> Requests \cup {Blank}]
  /\ up \in {"running", "stopped", "crashed"}
  /\ writer \in Clients \cup {Loop, Nobody}
  /\ pc \in [Clients \cup {Loop} -> Stages]
  /\ pending \in Transaction
  /\ fired \subseteq 1..MaxPreviews
  /\ manual \in Pin
  /\ lidState \in LidStates
  /\ seen \in [Clients -> Sets \cup {NoSet}]
  /\ nextId \in 1..(MaxPreviews + 1) /\ faults \in 0..MaxFaults

\* While a preview waits for its answer, the layout on screen, the generated
\* file and the include are the preview's own: no automatic pass, of the event
\* loop or of another connection's Manage or SetProfileAuto, has put another
\* layout there.  Only a restore that stopped half way leaves a mixture.
PreviewOwnsScreen ==
  Previewing /\ faults = 0 =>
    screen = pending.profile /\ file = pending.profile /\ included

\* What makes it so: an apply in flight and a preview exclude each other.
NoPassDuringPreview == writer # Nobody => ~Previewing

PreviewInv == TypeOK /\ NoPassDuringPreview /\ PreviewOwnsScreen

\* A preview ends in one of three ways.  It is put back (and, on Unmanage, the
\* include taken out and the configuration loaded again, as far as that works);
\* it is kept before its deadline; or the process dies, or exits although the
\* restore failed.
EndedByRestore ==
  /\ file' = pending.snapFile
  /\ \/ screen' = pending.snapScreen /\ included' = pending.snapIncluded
     \/ /\ included' \in {FALSE, pending.snapIncluded}
        /\ screen' \in {pending.snapScreen, Loaded(file', included')}

EndedByCommit == ~pending.past /\ UNCHANGED <<shown, up, suppressing, managed>>

EndedByExit == up' = "crashed" \/ (up' = "stopped" /\ faults' > faults)

PreviewEndsProperly ==
  [][Previewing /\ pending'.id # pending.id =>
       EndedByRestore \/ EndedByCommit \/ EndedByExit]_vars

\* The goroutine of a timer that was stopped too late, or that outlived its
\* preview, never ends a preview whose own deadline has not passed.
StaleTimerIsHarmless ==
  [][fired' # fired /\ up' = up /\ ~pending.past => UNCHANGED pending]_vars

\* Keeping a preview leaves a pin whose next automatic pass finds nothing to
\* change as long as the lid, the orientation and the displays stay: the pin is
\* the layout that was asked for, and lid and rotation adjust it again.  (A
\* restore that stopped halfway may have taken the layout off the screen; one
\* that put back what was there is no commit, nor is the end of an Unmanage,
\* which moves its caller on.)
Unchanged == pending.profile = PreviewLayout(pending.requested, lid)

CommittedLayoutIsStable ==
  [][Previewing /\ pending'.id # pending.id /\ manual'.set = set /\ Unchanged
       /\ screen = pending.profile /\ screen # pending.snapScreen
       /\ UNCHANGED <<shown, world, pc>>
     => AutoLayout(manual'.profile, lid) = KeepPanelOn(screen, set)]_vars

\* After Unmanage the generated rules stay out of the user's configuration, no
\* matter which automatic pass was under way: once nothing is in progress the
\* include is gone, and it stays gone until someone calls Manage.  It is there
\* only when that Unmanage itself found it and could not take it out, which it
\* logs and does not report.  (A restart breaks it too: StartIncludes acts on a
\* marker it saw before Unmanage.)
Unmanaging == \E c \in Clients : pc[c] = "unmanage"

HandedBack ==
  ~managed /\ writer = Nobody /\ ~Unmanaging => ~included \/ left

\* What makes it so: a pass that found the displays managed and is still
\* applying has an Unmanage call waiting behind it.
HandBackInv ==
  ~managed /\ ~Unmanaging => writer = Nobody /\ (~included \/ left)

\* What handing the displays back leaves in force, from what was before: the
\* user's own configuration, or, with an include that could not be taken out,
\* the generated file.
Handed(old) ==
  {s \in Layout \X Layout \X BOOLEAN : ~s[3]} \cup {<<old[1], old[1], old[3]>>}

\* Seen from outside, with nothing failing, the service is SafePreview: one
\* preview at a time, kept in time or put back, and nothing else on screen
\* meanwhile.
PreviewSeen ==
  IF Previewing
    THEN [active |-> TRUE, expired |-> pending.past,
          old |-> <<pending.snapFile, pending.snapScreen, pending.snapIncluded>>]
    ELSE [active |-> FALSE, expired |-> FALSE, old |-> <<>>]

Safe == INSTANCE SafePreview WITH
  States <- Layout \X Layout \X BOOLEAN,
  HandedBack <- Handed,
  shown <- shown, alive <- (up # "crashed"),
  preview <- PreviewSeen

SafelyPreviewed == Safe!Spec

\* A preview does not outlive its deadline for ever: someone keeps it, or it is
\* put back, or the daemon goes away.
PreviewIsResolved == Previewing ~> ~Previewing

\* Every call a client makes returns.
CallsReturn == \A c \in Clients : pc[c] # "idle" ~> pc[c] = "idle"

=============================================================================
