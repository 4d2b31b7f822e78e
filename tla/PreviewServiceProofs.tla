------------------------ MODULE PreviewServiceProofs ------------------------
(***************************************************************************)
(* Theorems about PreviewService, for every value of its constants.        *)
(***************************************************************************)
EXTENDS PreviewService, TLAPS

USE DEF Layout

LEMMA BlankIsLayout == Blank \in Layout
  BY DEF Blank

LEMMA OrientedType ==
  ASSUME NEW l \in Layout, NEW q \in 0..3
  PROVE  Oriented(l, q) \in Layout
  BY DEF Oriented

LEMMA ClosedLidPolicyType ==
  ASSUME NEW l \in Layout, NEW closed, NEW s
  PROVE  ClosedLidPolicy(l, closed, s) \in Layout
  BY DEF ClosedLidPolicy

LEMMA KeepPanelOnType ==
  ASSUME NEW l \in Layout, NEW s
  PROVE  KeepPanelOn(l, s) \in Layout
  BY DEF KeepPanelOn

\* Whatever the lid, every layout the daemon computes is a layout.
LEMMA ComputedLayouts ==
  ASSUME ConstantsAssumption, TypeOK, NEW closed, NEW l \in Layout
  PROVE  /\ PreviewLayout(l, closed) \in Layout
         /\ AutoLayout(l, closed) \in Layout
         /\ LiveDraft(closed) \in Layout
<1>1. turn \in 0..3 /\ screen \in Layout
  BY DEF TypeOK, ConstantsAssumption
<1>2. PreviewLayout(l, closed) \in Layout
  BY <1>1, OrientedType, ClosedLidPolicyType DEF PreviewLayout
<1>3. AutoLayout(l, closed) \in Layout
  BY <1>2, KeepPanelOnType DEF AutoLayout
<1>4. [screen EXCEPT !.panel = TRUE] \in Layout
  BY <1>1
<1>5. LiveDraft(closed) \in Layout
  BY <1>4, ClosedLidPolicyType, KeepPanelOnType DEF LiveDraft
<1> QED BY <1>2, <1>3, <1>5

LEMMA SavedAreLayouts ==
  ASSUME ConstantsAssumption, TypeOK
  PROVE  Saved \subseteq Requests /\ Requests \subseteq Layout
  BY BlankIsLayout DEF Saved, TypeOK, ConstantsAssumption

LEMMA PinTypes ==
  ASSUME ConstantsAssumption, TypeOK, NEW s
  PROVE  NoPin \in Pin /\ PinFor(s) \in Pin /\ PinAfterCommit \in Pin
  BY BlankIsLayout DEF NoPin, PinFor, PinAfterCommit, Pin, TypeOK, Transaction

LEMMA NoPreviewType ==
  ASSUME ConstantsAssumption
  PROVE  NoPreview \in Transaction
  BY BlankIsLayout DEF NoPreview, Transaction, ConstantsAssumption

-----------------------------------------------------------------------------
(* Type correctness.                                                       *)

LEMMA InitTyped == ConstantsAssumption /\ Init => TypeOK
<1> SUFFICES ASSUME ConstantsAssumption, Init PROVE TypeOK
  OBVIOUS
<1>1. NoPreview \in Transaction
  BY NoPreviewType
<1>2. NoPin \in Pin
  BY BlankIsLayout DEF NoPin, Pin
<1>3. /\ pc \in [Clients \cup {Loop} -> Stages]
      /\ seen \in [Clients -> Sets \cup {NoSet}]
  BY DEF Init, Stages
<1>4. nextId \in 1..(MaxPreviews + 1) /\ faults \in 0..MaxFaults
  BY DEF Init, ConstantsAssumption
<1> QED
  BY <1>1, <1>2, <1>3, <1>4, BlankIsLayout DEF Init, TypeOK

\* What an apply, a restore and a restore that stops leave behind is typed.
LEMMA EffectsTyped ==
  ASSUME ConstantsAssumption, TypeOK, NEW l \in Layout
  PROVE  /\ ApplySucceeds(l) \/ ApplyRolledBack \/ ApplyRollbackFails(l)
              \/ RestoreStops
            => /\ file' \in Layout /\ screen' \in Layout /\ included' \in BOOLEAN
               /\ faults' \in 0..MaxFaults
         /\ \A c \in Clients \cup {Nobody} : RestorePending(c)
            => /\ file' \in Layout /\ screen' \in Layout /\ included' \in BOOLEAN
               /\ faults' \in 0..MaxFaults /\ pending' \in Transaction
<1>1. ASSUME ApplySucceeds(l) \/ ApplyRolledBack \/ ApplyRollbackFails(l)
      PROVE  /\ file' \in Layout /\ screen' \in Layout /\ included' \in BOOLEAN
             /\ faults' \in 0..MaxFaults
  <2>1. /\ file \in Layout /\ screen \in Layout /\ included \in BOOLEAN
        /\ faults \in 0..MaxFaults /\ MaxFaults \in Nat
    BY DEF TypeOK, ConstantsAssumption
  <2>2. CASE ApplySucceeds(l)
    BY <2>1, <2>2 DEF ApplySucceeds
  <2>3. CASE ApplyRolledBack
    BY <2>1, <2>3 DEF ApplyRolledBack, shown
  <2>4. CASE ApplyRollbackFails(l)
    <3>1. /\ file' \in {file, l} /\ screen' \in {screen, l}
          /\ included' \in {included, TRUE}
      BY <2>4 DEF ApplyRollbackFails, PartlyApplied
    <3>2. faults' \in 0..MaxFaults
      BY <2>1, <2>4 DEF ApplyRollbackFails
    <3> HIDE DEF Layout
    <3> QED BY <2>1, <3>1, <3>2
  <2> QED BY <1>1, <2>2, <2>3, <2>4
<1>2. ASSUME RestoreStops
      PROVE  /\ file' \in Layout /\ screen' \in Layout /\ included' \in BOOLEAN
             /\ faults' \in 0..MaxFaults
  BY <1>2 DEF RestoreStops, PartlyRestored, TypeOK, Transaction, ConstantsAssumption
<1>3. ASSUME NEW c \in Clients \cup {Nobody}, RestorePending(c)
      PROVE  /\ file' \in Layout /\ screen' \in Layout /\ included' \in BOOLEAN
             /\ faults' \in 0..MaxFaults /\ pending' \in Transaction
  <2>1. CASE RestoreSucceeds
    BY <2>1, NoPreviewType DEF RestoreSucceeds, TypeOK, Transaction
  <2>2. CASE RestoreFails(c)
    BY <2>2, <1>2 DEF RestoreFails, TypeOK, Transaction
  <2> QED BY <1>3, <2>1, <2>2 DEF RestorePending
<1> QED BY <1>1, <1>2, <1>3

LEMMA PreviewTyped ==
  ASSUME ConstantsAssumption, TypeOK, NEW c \in Clients, Preview(c)
  PROVE  TypeOK'
<1> PICK l \in Requests \cup Saved, save \in BOOLEAN, closed \in {lid, FALSE} :
       \/ /\ ApplySucceeds(PreviewLayout(l, closed))
          /\ manual' = PinFor(set)
          /\ pending' = [id |-> nextId, owner |-> c, requested |-> l,
                         profile |-> PreviewLayout(l, closed),
                         snapFile |-> file,
                         snapScreen |-> screen, snapIncluded |-> included,
                         set |-> set, save |-> save,
                         wasManual |-> PinFor(set) # NoPin, past |-> FALSE,
                         rang |-> FALSE]
          /\ nextId' = nextId + 1
       \/ /\ ApplyRollbackFails(PreviewLayout(l, closed))
          /\ UNCHANGED <<manual, pending, nextId>>
  BY DEF Preview
<1>1. l \in Requests /\ l \in Layout /\ PreviewLayout(l, closed) \in Layout
  BY SavedAreLayouts, ComputedLayouts
<1>2. /\ file' \in Layout /\ screen' \in Layout /\ included' \in BOOLEAN
      /\ faults' \in 0..MaxFaults
  BY <1>1, EffectsTyped
<1>3. nextId' \in 1..(MaxPreviews + 1) /\ pending' \in Transaction
  <2>1. /\ nextId \in 1..(MaxPreviews + 1) /\ nextId <= MaxPreviews
        /\ MaxPreviews \in Nat
    BY DEF Preview, TypeOK, ConstantsAssumption
  <2>2. /\ file \in Layout /\ screen \in Layout /\ included \in BOOLEAN
        /\ set \in Sets /\ pending \in Transaction
    BY DEF TypeOK
  <2>3. nextId \in 0..MaxPreviews
    BY <2>1
  <2> HIDE DEF Layout
  <2>4. CASE UNCHANGED <<pending, nextId>>
    BY <2>1, <2>2, <2>4
  <2>5. CASE ~UNCHANGED <<pending, nextId>>
    <3> DEFINE held == PinFor(set) # NoPin
    <3>1. held \in BOOLEAN /\ nextId' = nextId + 1
      BY <2>5
    <3>2. pending' = [id |-> nextId, owner |-> c, requested |-> l,
                      profile |-> PreviewLayout(l, closed), snapFile |-> file,
                      snapScreen |-> screen, snapIncluded |-> included,
                      set |-> set, save |-> save, wasManual |-> held,
                      past |-> FALSE, rang |-> FALSE]
      BY <2>5
    <3> HIDE DEF held
    <3> QED BY <1>1, <2>1, <2>2, <2>3, <3>1, <3>2 DEF Transaction
  <2> QED BY <2>4, <2>5
<1>4. manual' \in Pin
  BY PinTypes DEF TypeOK
<1> QED BY <1>2, <1>3, <1>4 DEF Preview, TypeOK, world

\* The answers to a preview.
LEMMA AnswersTyped ==
  ASSUME ConstantsAssumption, TypeOK, NEW c \in Clients,
         Commit(c) \/ CommitSaveFails(c) \/ CommitTooLate(c) \/ Revert(c)
           \/ Disconnect(c)
  PROVE  TypeOK'
<1>1. CASE Commit(c)
  <2>1. store' \in [Names -> Requests \cup {Blank}]
    <3>1. /\ store \in [Names -> Requests \cup {Blank}]
          /\ pending.requested \in Requests \cup {Blank}
      BY DEF TypeOK, Transaction
    <3> HIDE DEF Layout
    <3> QED BY <1>1, <3>1 DEF Commit
  <2> QED
    BY <1>1, <2>1, PinTypes, NoPreviewType DEF Commit, TypeOK, world, shown
<1>2. CASE CommitSaveFails(c)
  BY <1>2 DEF CommitSaveFails, TypeOK, Transaction, world, shown
<1>3. CASE CommitTooLate(c)
  BY <1>3, EffectsTyped, BlankIsLayout DEF CommitTooLate, TypeOK, world
<1>4. CASE Revert(c)
  BY <1>4, EffectsTyped, BlankIsLayout DEF Revert, TypeOK, world
<1>5. CASE Disconnect(c)
  BY <1>5 DEF Disconnect, Released, TypeOK, Transaction, world, shown
<1> QED BY <1>1, <1>2, <1>3, <1>4, <1>5

\* The safety timer.
LEMMA TimerTyped ==
  ASSUME ConstantsAssumption, TypeOK, Timer
  PROVE  TypeOK'
<1>1. CASE DeadlinePasses
  <2>1. pending' \in Transaction
    BY <1>1 DEF DeadlinePasses, TypeOK, Transaction
  <2> QED BY <1>1, <2>1 DEF DeadlinePasses, TypeOK, world, shown
<1>2. CASE TimerFires
  <2>1. pending.id \in 1..MaxPreviews
    BY <1>2 DEF TimerFires, Previewing, TypeOK, Transaction
  <2>2. pending' \in Transaction
    BY <1>2 DEF TimerFires, TypeOK, Transaction
  <2> QED BY <1>2, <2>1, <2>2 DEF TimerFires, TypeOK, world, shown
<1>3. CASE \E id \in fired : Expire(id)
  <2> PICK id \in fired : Expire(id)
    BY <1>3
  <2>1. pending.owner \in Clients \cup {Nobody}
    BY DEF TypeOK, Transaction
  <2>2. /\ file' \in Layout /\ screen' \in Layout /\ included' \in BOOLEAN
        /\ faults' \in 0..MaxFaults /\ pending' \in Transaction
    <3>1. CASE RestorePending(pending.owner)
      BY <2>1, <3>1, EffectsTyped, BlankIsLayout
    <3>2. CASE UNCHANGED <<shown, pending, faults>>
      BY <3>2 DEF TypeOK, shown
    <3> QED BY <3>1, <3>2 DEF Expire
  <2> QED BY <2>2 DEF Expire, TypeOK, world
<1> QED BY <1>1, <1>2, <1>3 DEF Timer

\* The automatic pass.
LEMMA ReconcileTyped ==
  ASSUME ConstantsAssumption, TypeOK, NEW p \in Clients \cup {Loop}, Reconcile(p)
  PROVE  TypeOK'
<1>1. CASE AutoStandsDown(p)
  BY <1>1 DEF AutoStandsDown, TypeOK, Stages, world, shown
<1>2. CASE AutoBegin(p)
  <2>1. plan' \in Layout
    <3>1. CASE manual' # NoPin
      <4>1. manual'.profile \in Layout
        BY <1>2, <3>1, PinTypes DEF AutoBegin, Pin
      <4> QED BY <1>2, <3>1, <4>1, ComputedLayouts DEF AutoBegin
    <3>2. CASE manual' = NoPin
      BY <1>2, <3>2, BlankIsLayout, ComputedLayouts, SavedAreLayouts DEF AutoBegin
    <3> QED BY <3>1, <3>2
  <2>2. manual' \in Pin /\ lidState' \in LidStates
    BY <1>2, PinTypes DEF AutoBegin, TypeOK
  <2>3. writer' \in Clients \cup {Loop, Nobody}
        /\ pc' \in [Clients \cup {Loop} -> Stages]
    BY <1>2 DEF AutoBegin, TypeOK, Stages
  <2> QED BY <1>2, <2>1, <2>2, <2>3 DEF AutoBegin, TypeOK, shown, world
<1>3. CASE AutoFinish(p)
  <2>1. /\ file' \in Layout /\ screen' \in Layout /\ included' \in BOOLEAN
        /\ faults' \in 0..MaxFaults
    BY <1>3, EffectsTyped DEF AutoFinish, TypeOK
  <2> QED
    BY <1>3, <2>1, BlankIsLayout DEF AutoFinish, Returns, TypeOK, Stages, world
<1> QED BY <1>1, <1>2, <1>3 DEF Reconcile

\* Manage, Unmanage, SetProfileAuto.
LEMMA ManagementTyped ==
  ASSUME ConstantsAssumption, TypeOK, NEW c \in Clients,
         \/ Manage(c) \/ ClaimWatcher(c) \/ UnmanageMarks(c)
         \/ UnmanageHandsBack(c) \/ UnmanageFails(c)
         \/ SetProfileAuto(c) \/ AutoOn(c) \/ AutoOff(c)
  PROVE  TypeOK'
<1>1. CASE Manage(c)
  BY <1>1 DEF Manage, TypeOK, Stages, world, shown
<1>2. CASE ClaimWatcher(c)
  BY <1>2 DEF ClaimWatcher, TypeOK, Stages, world, shown
<1>3. CASE UnmanageMarks(c)
  <2>1. pc' \in [Clients \cup {Loop} -> Stages]
    BY <1>3 DEF UnmanageMarks, TypeOK, Stages
  <2>2. /\ managed' \in BOOLEAN /\ included' \in BOOLEAN /\ left' \in BOOLEAN
        /\ suppressing' \in BOOLEAN
    BY <1>3 DEF UnmanageMarks, TypeOK, shown
  <2> QED BY <1>3, <2>1, <2>2 DEF UnmanageMarks, TypeOK, world, shown
<1>4. CASE UnmanageHandsBack(c)
  <2>1. file' \in Layout /\ included' \in BOOLEAN
    BY <1>4 DEF UnmanageHandsBack, TypeOK, Transaction
  <2>2. screen' \in Layout
    BY <1>4, <2>1, BlankIsLayout
       DEF UnmanageHandsBack, Loaded, TypeOK, Transaction
  <2>3. pending' \in Transaction
    BY <1>4, NoPreviewType DEF UnmanageHandsBack
  <2>4. left' \in BOOLEAN /\ suppressing' \in BOOLEAN
    BY <1>4, <2>1 DEF UnmanageHandsBack, TypeOK
  <2>5. pc' \in [Clients \cup {Loop} -> Stages]
    BY <1>4 DEF UnmanageHandsBack, TypeOK, Stages
  <2> QED
    BY <1>4, <2>1, <2>2, <2>3, <2>4, <2>5 DEF UnmanageHandsBack, TypeOK, world
<1>5. CASE UnmanageFails(c)
  <2>1. pending' \in Transaction
    BY <1>5 DEF UnmanageFails, RestoreFails, TypeOK, Transaction
  <2>2. /\ file' \in Layout /\ screen' \in Layout /\ included' \in BOOLEAN
        /\ faults' \in 0..MaxFaults
    BY <1>5, EffectsTyped, BlankIsLayout DEF UnmanageFails, RestoreFails
  <2> QED BY <1>5, <2>1, <2>2 DEF UnmanageFails, TypeOK, Stages, world
<1>6. CASE SetProfileAuto(c)
  BY <1>6 DEF SetProfileAuto, TypeOK, Stages, world, shown
<1>7. CASE AutoOn(c)
  BY <1>7, PinTypes DEF AutoOn, TypeOK, Stages, world, shown
<1>8. CASE AutoOff(c)
  <2>1. manual' \in Pin
    BY <1>8, SavedAreLayouts DEF AutoOff, ActiveProfiles, Pin, TypeOK
  <2> QED BY <1>8, <2>1 DEF AutoOff, TypeOK, Stages, world, shown
<1> QED BY <1>1, <1>2, <1>3, <1>4, <1>5, <1>6, <1>7, <1>8

\* The store, status, the world and the daemon's life.
LEMMA OthersTyped ==
  ASSUME ConstantsAssumption, TypeOK,
         \/ \E c \in Clients : \/ Save(c) \/ Delete(c)
                               \/ StatusReads(c) \/ StatusAnswers(c)
         \/ LidEvent \/ World \/ Lifecycle
  PROVE  TypeOK'
<1>1. ASSUME NEW c \in Clients, Save(c) \/ Delete(c) PROVE TypeOK'
  <2>1. store' \in [Names -> Requests \cup {Blank}]
    <3> HIDE DEF Layout
    <3> QED BY <1>1 DEF Save, Delete, TypeOK
  <2> QED BY <1>1, <2>1 DEF Save, Delete, TypeOK, world, shown, daemon
<1>2. ASSUME NEW c \in Clients, StatusReads(c) \/ StatusAnswers(c) PROVE TypeOK'
  <2>1. CASE StatusReads(c)
    <3>1. /\ seen' \in [Clients -> Sets \cup {NoSet}]
          /\ pc' \in [Clients \cup {Loop} -> Stages]
      BY <2>1 DEF StatusReads, TypeOK, Stages
    <3> QED BY <2>1, <3>1 DEF StatusReads, TypeOK, world, shown
  <2>2. CASE StatusAnswers(c)
    <3>1. /\ seen' \in [Clients -> Sets \cup {NoSet}]
          /\ pc' \in [Clients \cup {Loop} -> Stages]
      BY <2>2 DEF StatusAnswers, TypeOK, Stages
    <3> QED BY <2>2, <3>1, PinTypes DEF StatusAnswers, TypeOK, world, shown
  <2> QED BY <1>2, <2>1, <2>2
<1>3. CASE LidEvent
  BY <1>3, PinTypes DEF LidEvent, TypeOK, world, shown
<1>4. CASE World
  BY <1>4 DEF World, LidMoves, DeviceTurns, Hotplug, TypeOK, shown, daemon
<1>5. ASSUME Forget
      PROVE  /\ writer' \in Clients \cup {Loop, Nobody} /\ plan' \in Layout
             /\ pc' \in [Clients \cup {Loop} -> Stages]
             /\ pending' \in Transaction /\ fired' \subseteq 1..MaxPreviews
             /\ manual' \in Pin /\ seen' \in [Clients -> Sets \cup {NoSet}]
  BY <1>5, BlankIsLayout, NoPreviewType, PinTypes DEF Forget, Stages
<1>6. CASE Shutdown
  <2>1. /\ file' \in Layout /\ screen' \in Layout /\ included' \in BOOLEAN
        /\ faults' \in 0..MaxFaults
    <3>1. CASE UNCHANGED <<shown, faults>>
      BY <3>1 DEF TypeOK, shown
    <3>2. CASE /\ file' = pending.snapFile /\ screen' = pending.snapScreen
               /\ included' = pending.snapIncluded /\ UNCHANGED faults
      BY <3>2 DEF TypeOK, Transaction
    <3>3. CASE RestoreStops
      BY <3>3, EffectsTyped, BlankIsLayout
    <3> QED BY <1>6, <3>1, <3>2, <3>3 DEF Shutdown
  <2> QED BY <1>5, <1>6, <2>1 DEF Shutdown, TypeOK, world
<1>7. CASE Crash
  <2>1. /\ file \in Layout /\ screen \in Layout /\ included \in BOOLEAN
        /\ plan \in Layout
    BY DEF TypeOK
  <2>2. ASSUME NEW l \in Layout, PartlyApplied(l)
        PROVE  file' \in Layout /\ screen' \in Layout /\ included' \in BOOLEAN
    <3> HIDE DEF Layout
    <3> QED BY <2>1, <2>2 DEF PartlyApplied
  <2>3. ASSUME PartlyRestored
        PROVE  file' \in Layout /\ screen' \in Layout /\ included' \in BOOLEAN
    BY <2>3 DEF PartlyRestored, TypeOK, Transaction
  <2>4. ASSUME NEW l \in Requests, PartlyApplied(PreviewLayout(l, lid))
        PROVE  file' \in Layout /\ screen' \in Layout /\ included' \in BOOLEAN
    <3>1. l \in Layout
      BY DEF ConstantsAssumption
    <3>2. PreviewLayout(l, lid) \in Layout
      BY <3>1, ComputedLayouts
    <3> QED BY <2>2, <2>4, <3>2
  <2>5. file' \in Layout /\ screen' \in Layout /\ included' \in BOOLEAN
    <3>1. CASE UNCHANGED shown
      BY <2>1, <3>1 DEF shown
    <3>2. CASE LeftHalfDone
      <4>1. CASE writer # Nobody
        <5>1. PartlyApplied(plan)
          BY <3>2, <4>1 DEF LeftHalfDone
        <5> QED BY <2>1, <2>2, <5>1
      <4>2. CASE writer = Nobody /\ Previewing
        BY <2>3, <3>2, <4>2 DEF LeftHalfDone
      <4>3. CASE writer = Nobody /\ ~Previewing
        BY <2>4, <3>2, <4>3 DEF LeftHalfDone
      <4> QED BY <4>1, <4>2, <4>3
    <3> QED BY <1>7, <3>1, <3>2 DEF Crash
  <2>6. faults' \in 0..MaxFaults
    BY <1>7 DEF Crash, TypeOK
  <2> QED BY <1>5, <1>7, <2>5, <2>6 DEF Crash, TypeOK, world
<1>8. CASE Start
  BY <1>8 DEF Start, TypeOK, world, shown, Stages
<1>9. CASE StartChecks
  <2>1. pc' \in [Clients \cup {Loop} -> Stages]
    BY <1>9 DEF StartChecks, TypeOK, Stages
  <2> QED BY <1>9, <2>1 DEF StartChecks, TypeOK, world, shown
<1>10. CASE StartIncludes
  <2>1. pc' \in [Clients \cup {Loop} -> Stages] /\ included' \in BOOLEAN
    BY <1>10 DEF StartIncludes, TypeOK, Stages
  <2> QED BY <1>10, <2>1 DEF StartIncludes, TypeOK, world
<1> QED BY <1>1, <1>2, <1>3, <1>4, <1>6, <1>7, <1>8, <1>9, <1>10 DEF Lifecycle

LEMMA StepTyped == ConstantsAssumption /\ TypeOK /\ [Next]_vars => TypeOK'
<1> SUFFICES ASSUME ConstantsAssumption, TypeOK, [Next]_vars PROVE TypeOK'
  OBVIOUS
<1>1. ASSUME NEW c \in Clients, Request(c) PROVE TypeOK'
  BY <1>1, PreviewTyped, AnswersTyped, ManagementTyped, OthersTyped DEF Request
<1>2. ASSUME NEW p \in Clients \cup {Loop}, Reconcile(p) PROVE TypeOK'
  BY <1>2, ReconcileTyped
<1>3. CASE UNCHANGED vars
  BY <1>3 DEF vars, world, shown, daemon, TypeOK
<1> QED
  BY <1>1, <1>2, <1>3, TimerTyped, OthersTyped DEF Next

\* Every variable of the service keeps its type.
THEOREM TypeCorrect == Spec => []TypeOK
<1>1. Init => TypeOK
  BY InitTyped, ConstantsAssumption
<1>2. TypeOK /\ [Next]_vars => TypeOK'
  BY StepTyped, ConstantsAssumption
<1> QED BY <1>1, <1>2, PTL DEF Spec

-----------------------------------------------------------------------------
(* A preview owns the screen.                                              *)

\* A step that fails counts its fault; one that counts none leaves a restore
\* complete.
LEMMA RestoresOrCounts ==
  ASSUME ConstantsAssumption, TypeOK, NEW c
  PROVE  /\ RestorePending(c) => pending'.id = 0 \/ faults' # 0
         /\ RestoreStops => faults' # 0
         /\ \A l : ApplyRollbackFails(l) => faults' # 0
<1>1. faults \in Nat
  BY DEF TypeOK, ConstantsAssumption
<1>2. faults' = faults + 1 => faults' # 0
  BY <1>1
<1>3. RestoreStops => faults' # 0
  BY <1>2 DEF RestoreStops
<1>4. \A l : ApplyRollbackFails(l) => faults' # 0
  BY <1>2 DEF ApplyRollbackFails
<1>5. RestoreSucceeds => pending'.id = 0
  BY DEF RestoreSucceeds, NoPreview
<1> QED BY <1>3, <1>4, <1>5 DEF RestorePending, RestoreFails

\* The client's own calls.
LEMMA RequestOwns ==
  ASSUME ConstantsAssumption, PreviewInv, NEW c \in Clients, Request(c)
  PROVE  NoPassDuringPreview' /\ PreviewOwnsScreen'
<1> USE DEF PreviewInv, NoPassDuringPreview, PreviewOwnsScreen, Previewing
<1>1. CASE Preview(c)
  BY <1>1, RestoresOrCounts DEF Preview, ApplySucceeds
<1>2. CASE Commit(c)
  BY <1>2 DEF Commit, NoPreview
<1>3. CASE CommitSaveFails(c)
  BY <1>3 DEF CommitSaveFails, shown, TypeOK, Transaction
<1>4. CASE CommitTooLate(c) \/ Revert(c)
  <2>1. RestorePending(c) /\ UNCHANGED writer /\ writer = Nobody
    BY <1>4 DEF CommitTooLate, Revert
  <2> QED BY <2>1, RestoresOrCounts
<1>5. CASE Disconnect(c)
  BY <1>5 DEF Disconnect, Released, shown, TypeOK, Transaction
<1>6. CASE Manage(c) \/ ClaimWatcher(c) \/ UnmanageMarks(c)
  BY <1>6 DEF Manage, ClaimWatcher, UnmanageMarks, shown
<1>7. CASE UnmanageHandsBack(c)
  BY <1>7 DEF UnmanageHandsBack, NoPreview
<1>8. CASE UnmanageFails(c)
  <2>1. RestoreStops /\ UNCHANGED writer /\ writer = Nobody
    BY <1>8 DEF UnmanageFails, RestoreFails
  <2> QED BY <2>1, RestoresOrCounts
<1>9. CASE SetProfileAuto(c) \/ AutoOn(c) \/ AutoOff(c)
  BY <1>9 DEF SetProfileAuto, AutoOn, AutoOff, shown
<1>10. CASE Save(c) \/ Delete(c)
  BY <1>10 DEF Save, Delete, shown, daemon
<1>11. CASE StatusReads(c) \/ StatusAnswers(c)
  BY <1>11 DEF StatusReads, StatusAnswers, shown
<1> QED
  BY <1>1, <1>2, <1>3, <1>4, <1>5, <1>6, <1>7, <1>8, <1>9, <1>10, <1>11
     DEF Request

LEMMA StepOwns ==
  ASSUME ConstantsAssumption, PreviewInv, [Next]_vars
  PROVE  NoPassDuringPreview' /\ PreviewOwnsScreen'
<1> USE DEF PreviewInv, NoPassDuringPreview, PreviewOwnsScreen, Previewing
<1>1. ASSUME NEW p \in Clients \cup {Loop}, Reconcile(p)
      PROVE  NoPassDuringPreview' /\ PreviewOwnsScreen'
  <2>1. p # Nobody
    BY DEF ConstantsAssumption
  <2>2. CASE AutoStandsDown(p)
    BY <2>2 DEF AutoStandsDown, shown
  <2>3. CASE AutoBegin(p)
    BY <2>3 DEF AutoBegin, MayApply, shown
  <2>4. CASE AutoFinish(p)
    BY <2>1, <2>4 DEF AutoFinish, Returns
  <2> QED BY <1>1, <2>2, <2>3, <2>4 DEF Reconcile
<1>2. CASE Timer
  <2>1. CASE DeadlinePasses
    BY <2>1 DEF DeadlinePasses, shown, TypeOK, Transaction
  <2>2. CASE TimerFires
    BY <2>2 DEF TimerFires, shown, TypeOK, Transaction
  <2>3. ASSUME NEW id \in fired, Expire(id)
        PROVE  NoPassDuringPreview' /\ PreviewOwnsScreen'
    BY <2>3, RestoresOrCounts DEF Expire, shown
  <2> QED BY <1>2, <2>1, <2>2, <2>3 DEF Timer
<1>3. CASE LidEvent
  BY <1>3 DEF LidEvent, shown
<1>4. CASE World
  BY <1>4 DEF World, LidMoves, DeviceTurns, Hotplug, shown, daemon
<1>5. CASE Shutdown \/ Crash
  BY <1>5 DEF Shutdown, Crash, Forget, NoPreview
<1>6. CASE Start \/ StartChecks \/ StartIncludes
  BY <1>6 DEF Start, StartChecks, StartIncludes, shown
<1>7. CASE UNCHANGED vars
  BY <1>7 DEF vars, shown, daemon
<1> QED
  BY <1>1, <1>2, <1>3, <1>4, <1>5, <1>6, <1>7, RequestOwns DEF Next, Lifecycle

LEMMA PreviewInvariant == Spec => []PreviewInv
<1>1. Init => PreviewInv
  BY InitTyped, ConstantsAssumption
     DEF Init, PreviewInv, NoPassDuringPreview, PreviewOwnsScreen, Previewing,
         NoPreview
<1>2. PreviewInv /\ [Next]_vars => PreviewInv'
  BY StepTyped, StepOwns, ConstantsAssumption DEF PreviewInv
<1> QED BY <1>1, <1>2, PTL DEF Spec

\* Whatever the number of connections and however their calls, the event loop,
\* the safety timers, the lid and hotplug interleave, what is on screen, in the
\* generated file and included while a preview is pending is the preview.
THEOREM PreviewAlwaysOwnsScreen == Spec => []PreviewOwnsScreen
<1>1. PreviewInv => PreviewOwnsScreen
  BY DEF PreviewInv
<1> QED BY <1>1, PreviewInvariant, PTL

\* A restore of the whole snapshot, or a fault.
LEMMA RestoreOutcome ==
  ASSUME pending \in Transaction, NEW c, RestorePending(c)
  PROVE  EndedByRestore \/ pending'.id = pending.id
<1>1. CASE RestoreSucceeds
  BY <1>1 DEF RestoreSucceeds, EndedByRestore
<1>2. CASE RestoreFails(c)
  BY <1>2 DEF RestoreFails, Transaction
<1> QED BY <1>1, <1>2 DEF RestorePending

LEMMA StepEndsProperly ==
  ASSUME ConstantsAssumption, PreviewInv, [Next]_vars,
         Previewing, pending'.id # pending.id
  PROVE  EndedByRestore \/ EndedByCommit \/ EndedByExit
<1>1. ASSUME NEW c \in Clients, Request(c)
      PROVE  EndedByRestore \/ EndedByCommit \/ EndedByExit
  <2>1. CASE Commit(c)
    BY <2>1 DEF Commit, InTime, EndedByCommit, shown
  <2>2. CASE CommitTooLate(c) \/ Revert(c)
    <3>1. RestorePending(c)
      BY <2>2 DEF CommitTooLate, Revert
    <3> QED BY <3>1, RestoreOutcome DEF PreviewInv, TypeOK
  <2>3. CASE UnmanageHandsBack(c)
    BY <2>3 DEF UnmanageHandsBack, EndedByRestore
  <2>4. CASE Preview(c)
    BY <2>4 DEF Preview
  <2>5. CASE CommitSaveFails(c) \/ Disconnect(c) \/ UnmanageFails(c)
    BY <2>5 DEF CommitSaveFails, Disconnect, Released, UnmanageFails,
                RestoreFails, PreviewInv, TypeOK, Transaction
  <2>6. ASSUME UNCHANGED pending PROVE FALSE
    BY <2>6
  <2>7. CASE \/ Manage(c) \/ ClaimWatcher(c) \/ UnmanageMarks(c)
             \/ SetProfileAuto(c) \/ AutoOn(c) \/ AutoOff(c)
             \/ Save(c) \/ Delete(c) \/ StatusReads(c) \/ StatusAnswers(c)
    BY <2>6, <2>7 DEF Manage, ClaimWatcher, UnmanageMarks, SetProfileAuto, AutoOn,
                AutoOff, Save, Delete, StatusReads, StatusAnswers, daemon
  <2> QED
    BY <1>1, <2>1, <2>2, <2>3, <2>4, <2>5, <2>7 DEF Request
<1>2. ASSUME NEW p \in Clients \cup {Loop}, Reconcile(p) PROVE FALSE
  BY <1>2 DEF Reconcile, AutoStandsDown, AutoBegin, AutoFinish
<1>3. CASE DeadlinePasses \/ TimerFires
  BY <1>3 DEF DeadlinePasses, TimerFires, PreviewInv, TypeOK, Transaction
<1>4. ASSUME NEW id \in fired, Expire(id) PROVE EndedByRestore
  BY <1>4, RestoreOutcome DEF Expire, PreviewInv, TypeOK
<1>5. CASE LidEvent \/ World \/ Start \/ StartChecks \/ StartIncludes
           \/ UNCHANGED vars
  BY <1>5 DEF LidEvent, World, LidMoves, DeviceTurns, Hotplug, Start,
              StartChecks, StartIncludes, vars, daemon
<1>6. CASE Shutdown
  <2>1. CASE RestoreStops
    <3>1. faults \in Nat /\ faults' = faults + 1
      BY <2>1 DEF RestoreStops, PreviewInv, TypeOK, ConstantsAssumption
    <3> QED BY <1>6, <3>1 DEF Shutdown, EndedByExit
  <2>2. CASE ~RestoreStops
    BY <1>6, <2>2 DEF Shutdown, EndedByRestore
  <2> QED BY <2>1, <2>2
<1>7. CASE Crash
  BY <1>7 DEF Crash, EndedByExit
<1> QED
  BY <1>1, <1>2, <1>3, <1>4, <1>5, <1>6, <1>7 DEF Next, Timer, Lifecycle

\* No interleaving and no failure ends a preview without its answer: a restore
\* that fails leaves it pending.
THEOREM PreviewsEndProperly == Spec => PreviewEndsProperly
<1>1. PreviewInv /\ [Next]_vars =>
        [Previewing /\ pending'.id # pending.id =>
           EndedByRestore \/ EndedByCommit \/ EndedByExit]_vars
  BY StepEndsProperly, ConstantsAssumption
<1> QED BY <1>1, PreviewInvariant, PTL DEF Spec, PreviewEndsProperly

-----------------------------------------------------------------------------
(* The service implements SafePreview as long as nothing fails.            *)

LEMMA ShownTyped ==
  ASSUME TypeOK
  PROVE  shown \in Layout \X Layout \X BOOLEAN
  BY DEF TypeOK, shown

\* What the abstraction sees of a step: nothing, a preview that begins, ends in
\* one of its ways, or a change outside a preview.
Stutters == UNCHANGED <<shown, PreviewSeen>> /\ (up' # "crashed") = (up # "crashed")

SameSnapshot ==
  /\ pending'.snapFile = pending.snapFile
  /\ pending'.snapScreen = pending.snapScreen
  /\ pending'.snapIncluded = pending.snapIncluded

LEMMA RestoreMaps ==
  ASSUME Previewing, RestoreSucceeds, UNCHANGED up
  PROVE  Safe!PutBack
  BY DEF RestoreSucceeds, Safe!PutBack, Safe!Active, Safe!None, PreviewSeen,
         Previewing, NoPreview, shown

LEMMA RequestMaps ==
  ASSUME ConstantsAssumption, MaxFaults = 0, PreviewInv, TypeOK',
         NEW c \in Clients, Request(c)
  PROVE  Stutters \/ Safe!Next
<1> USE DEF Previewing
<1>0. ~RestoreStops /\ \A l : ~ApplyRollbackFails(l)
  BY DEF RestoreStops, ApplyRollbackFails, PreviewInv, TypeOK
<1>1. CASE Preview(c)
  <2>1. /\ ~Previewing /\ nextId \in Nat \ {0} /\ UNCHANGED up
        /\ up = "running"
    BY <1>1 DEF Preview, Calls, PreviewInv, TypeOK
  <2>2. /\ pending'.id = nextId /\ pending'.past = FALSE
        /\ pending'.snapFile = file /\ pending'.snapScreen = screen
        /\ pending'.snapIncluded = included
    BY <1>0, <1>1 DEF Preview
  <2>3. PreviewSeen' = [active |-> TRUE, expired |-> FALSE, old |-> shown]
    BY <2>1, <2>2 DEF PreviewSeen, shown
  <2>4. shown' \in Layout \X Layout \X BOOLEAN
    BY DEF TypeOK, shown
  <2>5. Safe!Begin
    BY <2>1, <2>3, <2>4 DEF Safe!Begin, Safe!Active, PreviewSeen
  <2> QED BY <2>5 DEF Safe!Next
<1>2. CASE Commit(c)
  <2>1. Safe!Keep
    BY <1>2 DEF Commit, OwnedBy, InTime, Safe!Keep, Safe!Active, Safe!None,
                PreviewSeen, NoPreview
  <2> QED BY <2>1 DEF Safe!Next
<1>3. CASE CommitSaveFails(c) \/ Disconnect(c)
  <2>1. /\ pending'.id = pending.id /\ pending'.past = pending.past
        /\ SameSnapshot /\ UNCHANGED <<shown, up>>
    BY <1>3 DEF CommitSaveFails, Disconnect, Released, PreviewInv, TypeOK,
                Transaction, SameSnapshot
  <2>2. Stutters
    BY <2>1 DEF Stutters, PreviewSeen, SameSnapshot
  <2> QED BY <2>2
<1>4. CASE CommitTooLate(c) \/ Revert(c)
  <2>1. RestoreSucceeds
    BY <1>0, <1>4 DEF CommitTooLate, Revert, RestorePending, RestoreFails
  <2>2. Safe!PutBack
    BY <1>4, <2>1, RestoreMaps DEF CommitTooLate, Revert, OwnedBy
  <2> QED BY <2>2 DEF Safe!Next
<1>5. CASE UnmanageHandsBack(c)
  <2>1. pending' = NoPreview /\ UNCHANGED up
        /\ shown' \in Layout \X Layout \X BOOLEAN
    BY <1>5, ShownTyped DEF UnmanageHandsBack, TypeOK, shown
  <2>2. CASE Previewing
    <3>1. /\ file' = pending.snapFile
          /\ included' \in {FALSE, pending.snapIncluded}
          /\ screen' \in {pending.snapScreen, Loaded(file', included')}
      BY <1>5, <2>2 DEF UnmanageHandsBack
    <3>2. CASE included' = FALSE
      <4>1. shown' \in Handed(PreviewSeen.old)
        BY <2>1, <3>2 DEF Handed, shown
      <4>2. Safe!HandBack
        BY <2>1, <2>2, <4>1
           DEF Safe!HandBack, Safe!None, Safe!Active, PreviewSeen, NoPreview
      <4> QED BY <4>2 DEF Safe!Next
    <3>3. CASE included' # FALSE /\ screen' = pending.snapScreen
      <4>1. shown' = PreviewSeen.old
        BY <2>2, <3>1, <3>3 DEF PreviewSeen, shown
      <4>2. Safe!PutBack
        BY <2>1, <2>2, <4>1
           DEF Safe!PutBack, Safe!None, Safe!Active, PreviewSeen, NoPreview
      <4> QED BY <4>2 DEF Safe!Next
    <3>4. CASE included' # FALSE /\ screen' # pending.snapScreen
      <4>1. /\ screen' = pending.snapFile
            /\ included' = pending.snapIncluded
        BY <2>1, <3>1, <3>4 DEF Loaded, shown
      <4>2. shown' \in Handed(PreviewSeen.old)
        BY <2>2, <3>1, <4>1 DEF Handed, PreviewSeen, shown
      <4>3. Safe!HandBack
        BY <2>1, <2>2, <4>2
           DEF Safe!HandBack, Safe!None, Safe!Active, PreviewSeen, NoPreview
      <4> QED BY <4>3 DEF Safe!Next
    <3> QED BY <3>2, <3>3, <3>4
  <2>3. CASE ~Previewing
    <3>1. Safe!Change
      BY <2>1, <2>3
         DEF Safe!Change, Safe!Active, PreviewSeen, NoPreview
    <3> QED BY <3>1 DEF Safe!Next
  <2> QED BY <2>2, <2>3
<1>6. CASE UnmanageFails(c)
  BY <1>0, <1>6 DEF UnmanageFails, RestoreFails
<1>7. CASE \/ Manage(c) \/ ClaimWatcher(c) \/ UnmanageMarks(c)
           \/ SetProfileAuto(c) \/ AutoOn(c) \/ AutoOff(c)
           \/ Save(c) \/ Delete(c) \/ StatusReads(c) \/ StatusAnswers(c)
  <2>1. UNCHANGED <<shown, pending, up>>
    BY <1>7 DEF Manage, ClaimWatcher, UnmanageMarks, SetProfileAuto, AutoOn,
                AutoOff, Save, Delete, StatusReads, StatusAnswers, daemon
  <2>2. Stutters
    BY <2>1 DEF Stutters, PreviewSeen
  <2> QED BY <2>2
<1> QED
  BY <1>1, <1>2, <1>3, <1>4, <1>5, <1>6, <1>7 DEF Request

LEMMA StepMaps ==
  ASSUME ConstantsAssumption, MaxFaults = 0, PreviewInv, PreviewInv', [Next]_vars
  PROVE  Stutters \/ Safe!Next
<1> USE DEF Previewing
<1>0. ~RestoreStops /\ TypeOK /\ TypeOK'
  BY DEF RestoreStops, PreviewInv, TypeOK
<1>1. ASSUME NEW p \in Clients \cup {Loop}, Reconcile(p)
      PROVE  Stutters \/ Safe!Next
  <2>1. CASE AutoStandsDown(p) \/ AutoBegin(p)
    <3>1. UNCHANGED <<shown, pending, up>>
      BY <2>1 DEF AutoStandsDown, AutoBegin
    <3> QED BY <3>1 DEF Stutters, PreviewSeen
  <2>2. CASE AutoFinish(p)
    <3>1. ~Previewing /\ UNCHANGED <<pending, up>>
      BY <2>2 DEF AutoFinish, PreviewInv, NoPassDuringPreview, ConstantsAssumption
    <3>2. shown' \in Layout \X Layout \X BOOLEAN
      BY <1>0 DEF TypeOK, shown
    <3>3. Safe!Change
      BY <3>1, <3>2 DEF Safe!Change, Safe!Active, PreviewSeen
    <3> QED BY <3>3 DEF Safe!Next
  <2> QED BY <1>1, <2>1, <2>2 DEF Reconcile
<1>2. CASE DeadlinePasses
  <2>1. /\ pending'.id = pending.id /\ pending'.past = TRUE
        /\ SameSnapshot
    BY <1>0, <1>2 DEF DeadlinePasses, TypeOK, Transaction, SameSnapshot
  <2>2. /\ Previewing /\ Previewing'
        /\ UNCHANGED <<shown, up>>
    BY <1>2, <2>1 DEF DeadlinePasses
  <2>3. /\ PreviewSeen.active
        /\ PreviewSeen' = [active |-> TRUE, expired |-> TRUE, old |-> PreviewSeen.old]
    BY <2>1, <2>2 DEF PreviewSeen, SameSnapshot
  <2>4. Safe!Expire
    BY <2>2, <2>3 DEF Safe!Expire, Safe!Active
  <2> QED BY <2>4 DEF Safe!Next
<1>3. CASE TimerFires
  <2>1. Stutters
    BY <1>0, <1>3 DEF TimerFires, Stutters, PreviewSeen, TypeOK, Transaction
  <2> QED BY <2>1
<1>4. ASSUME NEW id \in fired, Expire(id) PROVE Stutters \/ Safe!Next
  <2>1. CASE Expires(id)
    <3>1. RestoreSucceeds
      BY <1>0, <1>4, <2>1 DEF Expire, RestorePending, RestoreFails
    <3>2. Previewing
      BY <2>1, <1>0 DEF Expires, TypeOK
    <3>3. Safe!PutBack
      BY <1>4, <3>1, <3>2, RestoreMaps DEF Expire
    <3> QED BY <3>3 DEF Safe!Next
  <2>2. CASE ~Expires(id)
    BY <1>4, <2>2 DEF Expire, Stutters, PreviewSeen
  <2> QED BY <2>1, <2>2
<1>5. CASE LidEvent \/ World \/ UNCHANGED vars
  <2>1. UNCHANGED <<shown, pending, up>>
    BY <1>5 DEF LidEvent, World, LidMoves, DeviceTurns, Hotplug, vars, daemon
  <2> QED BY <2>1 DEF Stutters, PreviewSeen
<1>6. CASE Shutdown
  <2>1. up = "running" /\ up' = "stopped" /\ pending' = NoPreview
    BY <1>6 DEF Shutdown, Forget
  <2>2. CASE Previewing
    <3>1. Safe!PutBack
      BY <1>0, <1>6, <2>1, <2>2
         DEF Shutdown, Safe!PutBack, Safe!Active, Safe!None, PreviewSeen,
             NoPreview, shown
    <3> QED BY <3>1 DEF Safe!Next
  <2>3. CASE ~Previewing
    BY <1>6, <1>0, <2>1, <2>3 DEF Shutdown, Stutters, PreviewSeen, NoPreview
  <2> QED BY <2>2, <2>3
<1>7. CASE Crash
  <2>1. Safe!Die
    <3>1. shown' \in Layout \X Layout \X BOOLEAN
      BY <1>0 DEF TypeOK, shown
    <3> QED
      BY <3>1, <1>7 DEF Crash, Forget, Safe!Die, Safe!None, PreviewSeen, Previewing,
         NoPreview
  <2> QED BY <2>1 DEF Safe!Next
<1>8. CASE Start
  <2>1. CASE up = "crashed"
    <3>1. Safe!Restart
      BY <1>8, <2>1 DEF Start, Safe!Restart, PreviewSeen
    <3> QED BY <3>1 DEF Safe!Next
  <2>2. CASE up # "crashed"
    BY <1>8, <2>2 DEF Start, Stutters, PreviewSeen
  <2> QED BY <2>1, <2>2
<1>9. CASE StartChecks
  BY <1>9 DEF StartChecks, Stutters, PreviewSeen
<1>10. CASE StartIncludes
  <2>1. CASE Previewing
    <3>1. included /\ included' \in BOOLEAN
      BY <1>0, <1>10, <2>1
         DEF StartIncludes, PreviewInv, PreviewOwnsScreen, TypeOK
    <3> QED
      BY <1>10, <2>1, <3>1 DEF StartIncludes, Stutters, PreviewSeen, shown
  <2>2. CASE ~Previewing
    <3>1. UNCHANGED <<pending, up>>
      BY <1>10 DEF StartIncludes
    <3>2. shown' \in Layout \X Layout \X BOOLEAN
      BY <1>0 DEF TypeOK, shown
    <3>3. Safe!Change
      BY <2>2, <3>1, <3>2 DEF Safe!Change, Safe!Active, PreviewSeen, Previewing
    <3> QED BY <3>3 DEF Safe!Next
  <2> QED BY <2>1, <2>2
<1> QED
  BY <1>0, <1>1, <1>2, <1>3, <1>4, <1>5, <1>6, <1>7, <1>8, <1>9, <1>10,
     RequestMaps
     DEF Next, Timer, Lifecycle

\* With no failing restore or rollback, the service with all its connections,
\* locks, timers and automatic passes implements SafePreview.
THEOREM ServiceIsSafe ==
  ASSUME MaxFaults = 0
  PROVE  Spec => SafelyPreviewed
<1>1. Init => Safe!Init
  <2> SUFFICES ASSUME Init PROVE Safe!Init
    OBVIOUS
  <2>1. TypeOK
    BY InitTyped, ConstantsAssumption
  <2> QED
    BY <2>1, ShownTyped
       DEF Init, Safe!Init, Safe!None, PreviewSeen, Previewing, NoPreview
<1>2. PreviewInv /\ PreviewInv' /\ [Next]_vars => [Safe!Next]_(Safe!vars)
  BY StepMaps, ConstantsAssumption DEF Stutters, Safe!vars
<1> QED
  BY <1>1, <1>2, PreviewInvariant, PTL DEF Spec, SafelyPreviewed, Safe!Spec

-----------------------------------------------------------------------------
(* Handing the displays back.                                              *)

\* A daemon that is not restarted never puts the include of a start in place.
NotStarting == pc[Loop] \notin {"start", "include"}

LEMMA StepNeverStarts ==
  ASSUME ConstantsAssumption, "restart" \notin Methods, TypeOK, NotStarting,
         [Next]_vars
  PROVE  NotStarting'
<1> USE DEF NotStarting
<1>0. Loop \notin Clients /\ pc \in [Clients \cup {Loop} -> Stages]
  BY DEF ConstantsAssumption, TypeOK
<1>1. ASSUME NEW c \in Clients, Request(c) PROVE NotStarting'
  <2>1. pc'[Loop] = pc[Loop]
    BY <1>0, <1>1
       DEF Request, Preview, Commit, CommitSaveFails, CommitTooLate, Revert,
           Disconnect, Manage, ClaimWatcher, UnmanageMarks, UnmanageHandsBack,
           UnmanageFails, SetProfileAuto, AutoOn, AutoOff, Save, Delete,
           StatusReads, StatusAnswers, daemon
  <2> QED BY <2>1
<1>2. ASSUME NEW p \in Clients \cup {Loop}, Reconcile(p) PROVE NotStarting'
  BY <1>0, <1>2 DEF Reconcile, AutoStandsDown, AutoBegin, AutoFinish, Returns
<1>3. CASE Timer \/ LidEvent \/ World \/ UNCHANGED vars
  BY <1>3 DEF Timer, DeadlinePasses, TimerFires, Expire, LidEvent, World,
              LidMoves, DeviceTurns, Hotplug, vars, daemon
<1>4. CASE Lifecycle
  BY <1>4 DEF Lifecycle, Shutdown, Crash, Start, StartChecks, StartIncludes,
              Forget
<1> QED BY <1>1, <1>2, <1>3, <1>4 DEF Next

\* Requests other than Unmanage's second half keep its callers waiting.
LEMMA StepHandsBack ==
  ASSUME ConstantsAssumption, {"preview", "crash", "restart"} \cap Methods = {},
         NotStarting, TypeOK, ~Previewing, HandBackInv, [Next]_vars
  PROVE  ~Previewing' /\ HandBackInv'
<1> USE DEF Previewing, HandBackInv, Unmanaging
<1>1. ASSUME NEW c \in Clients, Request(c)
      PROVE  ~Previewing' /\ HandBackInv'
  <2>1. CASE Manage(c) \/ ClaimWatcher(c) \/ SetProfileAuto(c) \/ AutoOn(c)
             \/ AutoOff(c) \/ StatusReads(c) \/ StatusAnswers(c)
    <3>1. \A d \in Clients : pc'[d] = "unmanage" <=> pc[d] = "unmanage"
      BY <2>1 DEF Manage, ClaimWatcher, SetProfileAuto, AutoOn, AutoOff,
                  StatusReads, StatusAnswers, Calls, TypeOK
    <3> QED
      BY <2>1, <3>1 DEF Manage, ClaimWatcher, SetProfileAuto, AutoOn, AutoOff,
                  StatusReads, StatusAnswers, shown
  <2>2. CASE Save(c) \/ Delete(c)
    BY <2>2 DEF Save, Delete, shown, daemon
  <2>3. CASE UnmanageMarks(c)
    BY <2>3 DEF UnmanageMarks, TypeOK
  <2>4. CASE UnmanageHandsBack(c)
    BY <2>4 DEF UnmanageHandsBack, NoPreview
  <2>5. ~UnmanageFails(c) /\ ~Preview(c) /\ ~Commit(c) /\ ~CommitSaveFails(c)
        /\ ~CommitTooLate(c) /\ ~Revert(c) /\ ~Disconnect(c)
    BY DEF UnmanageFails, Preview, Calls, Commit, CommitSaveFails, CommitTooLate,
           Revert, Disconnect, OwnedBy
  <2> QED BY <1>1, <2>1, <2>2, <2>3, <2>4, <2>5 DEF Request
<1>2. ASSUME NEW p \in Clients \cup {Loop}, Reconcile(p)
      PROVE  ~Previewing' /\ HandBackInv'
  <2>0. p # Nobody
    BY DEF ConstantsAssumption
  <2>1. CASE AutoStandsDown(p)
    <3>1. \A d \in Clients : pc'[d] = "unmanage" <=> pc[d] = "unmanage"
      BY <2>1 DEF AutoStandsDown, MayReconcile, TypeOK
    <3> QED BY <2>1, <3>1 DEF AutoStandsDown, shown
  <2>2. CASE AutoBegin(p)
    BY <2>2 DEF AutoBegin, MayApply
  <2>3. CASE AutoFinish(p)
    <3>1. \A d \in Clients : pc[d] = "unmanage" => pc'[d] = "unmanage"
      BY <2>3 DEF AutoFinish, Returns, TypeOK
    <3>2. managed \/ Unmanaging
      BY <2>0, <2>3 DEF AutoFinish
    <3> QED BY <2>3, <3>1, <3>2 DEF AutoFinish
  <2> QED BY <1>2, <2>1, <2>2, <2>3 DEF Reconcile
<1>3. CASE Timer
  <2>1. ASSUME NEW id \in fired, Expire(id)
        PROVE  UNCHANGED <<pending, included, left, managed, writer, pc>>
    <3>1. id # 0
      BY DEF TypeOK
    <3> QED BY <2>1, <3>1 DEF Expire, Expires, shown
  <2>2. UNCHANGED <<pending, included, left, managed, writer, pc>>
    BY <1>3, <2>1 DEF Timer, DeadlinePasses, TimerFires
  <2> QED BY <2>2
<1>4. CASE LidEvent \/ World \/ Start \/ UNCHANGED vars
  <2>1. UNCHANGED <<pending, included, left, managed, writer, pc>>
    BY <1>4 DEF LidEvent, World, LidMoves, DeviceTurns, Hotplug, Start, vars,
                daemon, shown
  <2> QED BY <2>1
<1>5. CASE Shutdown
  <2>1. ~Unmanaging /\ UNCHANGED <<included, left, managed>> /\ writer' = Nobody
        /\ pending' = NoPreview
    BY <1>5 DEF Shutdown, Forget, shown
  <2> QED BY <2>1 DEF NoPreview
<1>6. ~Crash /\ ~StartChecks /\ ~StartIncludes
  BY DEF Crash, NotStarting, StartChecks, StartIncludes
<1> QED BY <1>1, <1>2, <1>3, <1>4, <1>5, <1>6 DEF Next, Lifecycle

\* As long as nobody previews a layout while management is off, and the process
\* is neither killed between the two halves of Unmanage nor starting, displays
\* that were handed back stay handed back: no pass re-adds the include, and it
\* is there only if the Unmanage that should have taken it out could not.
THEOREM DisplaysStayHandedBack ==
  ASSUME {"preview", "crash", "restart"} \cap Methods = {}
  PROVE  Spec => []HandedBack
<1> DEFINE Inv == TypeOK /\ ~Previewing /\ HandBackInv /\ NotStarting
<1>1. Init => Inv
  BY InitTyped, ConstantsAssumption
     DEF Init, Previewing, NoPreview, HandBackInv, NotStarting
<1>2. Inv /\ [Next]_vars => Inv'
  BY StepTyped, StepHandsBack, StepNeverStarts, ConstantsAssumption
<1>3. Inv => HandedBack
  BY DEF HandBackInv, HandedBack
<1> QED BY <1>1, <1>2, <1>3, PTL DEF Spec
-----------------------------------------------------------------------------
(* The safety timer and the pin of a commit.                               *)

\* What any step does to the pending transaction: it begins one, clears it, or
\* keeps its identity and its request and never takes its deadline back.
Kept ==
  /\ pending'.id = pending.id /\ pending'.requested = pending.requested
  /\ pending.past => pending'.past

Begins ==
  /\ ~Previewing /\ nextId' = nextId + 1 /\ UNCHANGED fired
  /\ pending'.id = nextId /\ pending'.requested \in Requests

LEMMA RestoreMoves ==
  ASSUME TypeOK, NEW c \in Clients \cup {Nobody}, RestorePending(c)
  PROVE  pending' = NoPreview \/ Kept
  BY DEF RestorePending, RestoreSucceeds, RestoreFails, Kept, TypeOK, Transaction

LEMMA PendingMoves ==
  ASSUME ConstantsAssumption, TypeOK, [Next]_vars
  PROVE  pending' = NoPreview \/ Kept \/ Begins
<1>0. pending \in Transaction /\ pending.owner \in Clients \cup {Nobody}
  BY DEF TypeOK, Transaction
<1>1. UNCHANGED pending => Kept
  BY DEF Kept
<1>2. ASSUME NEW c \in Clients, Request(c)
      PROVE  pending' = NoPreview \/ Kept \/ Begins
  <2>1. CASE Preview(c)
    <3>1. CASE UNCHANGED <<manual, pending, nextId>>
      BY <1>1, <3>1
    <3>2. CASE ~UNCHANGED <<manual, pending, nextId>>
      BY <2>1, <3>2, SavedAreLayouts DEF Preview, Begins
    <3> QED BY <3>1, <3>2
  <2>2. CASE Commit(c) \/ UnmanageHandsBack(c)
    BY <2>2 DEF Commit, UnmanageHandsBack
  <2>3. CASE CommitTooLate(c) \/ Revert(c)
    <3>1. RestorePending(c)
      BY <2>3 DEF CommitTooLate, Revert
    <3> QED BY <3>1, RestoreMoves
  <2>4. CASE CommitSaveFails(c) \/ Disconnect(c) \/ UnmanageFails(c)
    BY <1>0, <2>4 DEF CommitSaveFails, Disconnect, Released, UnmanageFails,
                      RestoreFails, Transaction, Kept
  <2>5. CASE \/ Manage(c) \/ ClaimWatcher(c) \/ UnmanageMarks(c)
             \/ SetProfileAuto(c) \/ AutoOn(c) \/ AutoOff(c)
             \/ Save(c) \/ Delete(c) \/ StatusReads(c) \/ StatusAnswers(c)
    BY <1>1, <2>5 DEF Manage, ClaimWatcher, UnmanageMarks, SetProfileAuto, AutoOn,
                      AutoOff, Save, Delete, StatusReads, StatusAnswers, daemon
  <2> QED BY <1>2, <2>1, <2>2, <2>3, <2>4, <2>5 DEF Request
<1>3. ASSUME NEW p \in Clients \cup {Loop}, Reconcile(p) PROVE Kept
  BY <1>1, <1>3 DEF Reconcile, AutoStandsDown, AutoBegin, AutoFinish
<1>4. CASE DeadlinePasses \/ TimerFires
  BY <1>0, <1>4 DEF DeadlinePasses, TimerFires, Transaction, Kept
<1>5. ASSUME NEW id \in fired, Expire(id) PROVE pending' = NoPreview \/ Kept
  BY <1>0, <1>1, <1>5, RestoreMoves DEF Expire
<1>6. CASE LidEvent \/ World \/ Start \/ StartChecks \/ StartIncludes
           \/ UNCHANGED vars
  BY <1>1, <1>6 DEF LidEvent, World, LidMoves, DeviceTurns, Hotplug, Start,
                    StartChecks, StartIncludes, vars, daemon
<1>7. CASE Shutdown \/ Crash
  BY <1>7 DEF Shutdown, Crash, Forget
<1> QED
  BY <1>2, <1>3, <1>4, <1>5, <1>6, <1>7 DEF Next, Timer, Lifecycle

\* What any step does to the timers that wait for the lock: a process that ends
\* takes them along; otherwise one may ring, past its deadline, or run.
Rings == pending.past /\ fired' = fired \cup {pending.id} /\ UNCHANGED up

LEMMA TimersMove ==
  ASSUME TypeOK, [Next]_vars
  PROVE  /\ nextId' \in {nextId, nextId + 1}
         /\ \/ fired' = {} /\ pending' = NoPreview /\ up' # up
            \/ Rings
            \/ \E id \in fired : Expire(id)
            \/ UNCHANGED fired
<1> DEFINE Goal == /\ nextId' \in {nextId, nextId + 1}
                   /\ \/ fired' = {} /\ pending' = NoPreview /\ up' # up
                      \/ Rings
                      \/ \E id \in fired : Expire(id)
                      \/ UNCHANGED fired
<1>1. ASSUME NEW c \in Clients, Request(c) PROVE Goal
  <2>1. UNCHANGED fired /\ (UNCHANGED nextId \/ nextId' = nextId + 1)
    BY <1>1
       DEF Request, Preview, Commit, CommitSaveFails, CommitTooLate, Revert,
           Disconnect, Manage, ClaimWatcher, UnmanageMarks, UnmanageHandsBack,
           UnmanageFails, SetProfileAuto, AutoOn, AutoOff, Save, Delete,
           StatusReads, StatusAnswers, daemon
  <2> QED BY <2>1
<1>2. ASSUME NEW p \in Clients \cup {Loop}, Reconcile(p) PROVE Goal
  BY <1>2 DEF Reconcile, AutoStandsDown, AutoBegin, AutoFinish
<1>3. CASE DeadlinePasses
  BY <1>3 DEF DeadlinePasses
<1>4. CASE TimerFires
  BY <1>4 DEF TimerFires, Rings
<1>5. ASSUME NEW id \in fired, Expire(id) PROVE Goal
  BY <1>5 DEF Expire
<1>6. CASE LidEvent \/ World \/ Start \/ StartChecks \/ StartIncludes
           \/ UNCHANGED vars
  BY <1>6 DEF LidEvent, World, LidMoves, DeviceTurns, Hotplug, Start,
              StartChecks, StartIncludes, vars, daemon
<1>7. CASE Shutdown \/ Crash
  BY <1>7 DEF Shutdown, Crash, Forget
<1> QED
  BY <1>1, <1>2, <1>3, <1>4, <1>5, <1>6, <1>7 DEF Next, Timer, Lifecycle

\* Every timer that rang, and the preview that is pending, took its number
\* before the next one to be given out: a number is never given out twice.
NumbersAreFresh == \A id \in fired \cup {pending.id} : id < nextId

\* A timer only ever rings past the deadline it was armed for.
RungIsPast == pending.id \in fired => pending.past

\* A preview was asked for: it shows a request or a saved profile.
RequestIsKept == Previewing => pending.requested \in Requests

TransactionInv == TypeOK /\ NumbersAreFresh /\ RungIsPast /\ RequestIsKept

LEMMA TransactionStep ==
  ASSUME ConstantsAssumption, TransactionInv, [Next]_vars
  PROVE  TransactionInv'
<1> USE DEF TransactionInv
<1>1. TypeOK'
  BY StepTyped
<1>2. /\ nextId \in Nat \ {0} /\ nextId' \in Nat \ {0} /\ nextId <= nextId'
      /\ \A id \in fired : id \in Nat \ {0}
      /\ \A id \in fired' : id \in Nat \ {0}
      /\ pending.id \in Nat /\ pending'.id \in Nat
  BY <1>1, TimersMove DEF TypeOK, Transaction, ConstantsAssumption
<1>3. fired' \subseteq fired \cup {pending.id}
  BY TimersMove DEF Rings, Expire
<1>4. pending' = NoPreview \/ Kept \/ Begins
  BY PendingMoves
<1>5. NumbersAreFresh'
  <2>1. pending'.id < nextId'
    BY <1>2, <1>4 DEF NumbersAreFresh, Kept, Begins, NoPreview
  <2> QED BY <1>2, <1>3, <2>1 DEF NumbersAreFresh
<1>6. RungIsPast'
  <2>1. CASE pending' = NoPreview
    BY <1>2, <2>1 DEF RungIsPast, NoPreview
  <2>2. CASE Kept
    <3>1. CASE pending.id \in fired
      BY <2>2, <3>1 DEF RungIsPast, Kept
    <3>2. CASE pending.id \notin fired /\ Rings
      BY <2>2, <3>2 DEF RungIsPast, Kept, Rings
    <3>3. CASE pending.id \notin fired /\ ~Rings
      <4>1. fired' \subseteq fired
        BY <3>3, TimersMove DEF Expire
      <4> QED BY <2>2, <3>3, <4>1 DEF RungIsPast, Kept
    <3> QED BY <3>1, <3>2, <3>3
  <2>3. CASE Begins
    <3>1. nextId \notin fired
      BY <1>2 DEF NumbersAreFresh
    <3> QED BY <2>3, <3>1 DEF RungIsPast, Begins
  <2> QED BY <1>4, <2>1, <2>2, <2>3
<1>7. RequestIsKept'
  BY <1>4 DEF RequestIsKept, Previewing, Kept, Begins, NoPreview
<1> QED BY <1>1, <1>5, <1>6, <1>7

LEMMA TransactionInvariant == Spec => []TransactionInv
<1>1. Init => TransactionInv
  <2> SUFFICES ASSUME Init PROVE TransactionInv
    OBVIOUS
  <2>1. TypeOK
    BY InitTyped, ConstantsAssumption
  <2> QED
    BY <2>1 DEF Init, TransactionInv, NumbersAreFresh, RungIsPast,
                RequestIsKept, Previewing, NoPreview
<1>2. TransactionInv /\ [Next]_vars => TransactionInv'
  BY TransactionStep, ConstantsAssumption
<1> QED BY <1>1, <1>2, PTL DEF Spec

\* A timer that was stopped too late, or that outlived its preview, finds
\* another number pending, or none, when it gets the lock: it never ends a
\* preview whose own deadline has not passed.
THEOREM StaleTimersAreHarmless == Spec => StaleTimerIsHarmless
<1>1. TransactionInv /\ [Next]_vars =>
        [fired' # fired /\ up' = up /\ ~pending.past => UNCHANGED pending]_vars
  <2> SUFFICES ASSUME TransactionInv, [Next]_vars,
                      fired' # fired, up' = up, ~pending.past
               PROVE  UNCHANGED pending
    OBVIOUS
  <2>1. PICK id \in fired : Expire(id)
    BY TimersMove DEF TransactionInv, Rings
  <2>2. ~Expires(id)
    BY DEF Expires, TransactionInv, RungIsPast
  <2> QED BY <2>1, <2>2 DEF Expire
<1> QED BY <1>1, TransactionInvariant, PTL DEF Spec, StaleTimerIsHarmless

\* What a preview shows keeps the name it was asked for.
LEMMA PreviewKeepsName ==
  ASSUME ConstantsAssumption, NEW l \in Layout, NEW closed
  PROVE  PreviewLayout(l, closed).name = l.name
<1>1. ClosedLidPolicy(l, closed, set) \in Layout
      /\ ClosedLidPolicy(l, closed, set).name = l.name
  BY DEF ClosedLidPolicy
<1>2. \A k \in Layout : Oriented(k, turn).name = k.name
  BY DEF Oriented
<1> QED BY <1>1, <1>2 DEF PreviewLayout

\* A restore that ends the preview leaves the screen alone only if the preview
\* showed what was there before.
LEMMA RestoreShows ==
  ASSUME TypeOK, NEW c, RestorePending(c), pending'.id # pending.id,
         UNCHANGED screen
  PROVE  screen = pending.snapScreen
  BY DEF RestorePending, RestoreSucceeds, RestoreFails, TypeOK, Transaction

LEMMA StepIsStable ==
  ASSUME ConstantsAssumption, TransactionInv, [Next]_vars,
         Previewing, pending'.id # pending.id, manual'.set = set, Unchanged,
         screen = pending.profile, screen # pending.snapScreen,
         UNCHANGED <<shown, world, pc>>
  PROVE  AutoLayout(manual'.profile, lid) = KeepPanelOn(screen, set)
<1>0. /\ NoSet # set /\ UNCHANGED screen /\ TypeOK
      /\ pending.requested \in Requests
      /\ screen # Blank
  <2>1. pending.requested \in Requests /\ pending.requested \in Layout
    BY DEF TransactionInv, RequestIsKept, ConstantsAssumption
  <2>2. screen.name = pending.requested.name /\ screen.name # NoName
    BY <2>1, PreviewKeepsName DEF Unchanged, ConstantsAssumption
  <2> QED
    BY <2>1, <2>2 DEF TransactionInv, TypeOK, ConstantsAssumption, shown, Blank
<1>1. CASE manual' = PinAfterCommit
  <2>1. manual'.profile = pending.requested
    BY <1>0, <1>1 DEF PinAfterCommit, NoPin
  <2> QED BY <2>1 DEF AutoLayout, Unchanged
<1>2. ASSUME NEW c \in Clients, Request(c) PROVE manual' = PinAfterCommit
  <2>1. CASE Commit(c)
    BY <2>1 DEF Commit
  <2>2. CASE CommitTooLate(c) \/ Revert(c)
    <3>1. RestorePending(c)
      BY <2>2 DEF CommitTooLate, Revert
    <3> QED BY <1>0, <3>1, RestoreShows
  <2>3. ~UnmanageHandsBack(c)
    <3>1. pc[c] = pc'[c] /\ c \in DOMAIN pc
      BY <1>0 DEF TypeOK
    <3> QED BY <3>1 DEF UnmanageHandsBack
  <2>4. CASE Preview(c)
    BY <2>4 DEF Preview
  <2>5. CASE CommitSaveFails(c) \/ Disconnect(c) \/ UnmanageFails(c)
    BY <1>0, <2>5 DEF CommitSaveFails, Disconnect, Released, UnmanageFails,
                      RestoreFails, TypeOK, Transaction
  <2>6. CASE \/ Manage(c) \/ ClaimWatcher(c) \/ UnmanageMarks(c)
             \/ SetProfileAuto(c) \/ AutoOn(c) \/ AutoOff(c)
             \/ Save(c) \/ Delete(c) \/ StatusReads(c) \/ StatusAnswers(c)
    <3>1. UNCHANGED pending
      BY <2>6 DEF Manage, ClaimWatcher, UnmanageMarks, SetProfileAuto, AutoOn,
                  AutoOff, Save, Delete, StatusReads, StatusAnswers, daemon
    <3> QED BY <3>1
  <2> QED BY <1>2, <2>1, <2>2, <2>3, <2>4, <2>5, <2>6 DEF Request
<1>3. ASSUME NEW p \in Clients \cup {Loop}, Reconcile(p) PROVE FALSE
  BY <1>3 DEF Reconcile, AutoStandsDown, AutoBegin, AutoFinish
<1>4. ~DeadlinePasses /\ ~TimerFires
  BY <1>0 DEF DeadlinePasses, TimerFires, TypeOK, Transaction
<1>5. ASSUME NEW id \in fired, Expire(id) PROVE FALSE
  BY <1>0, <1>5, RestoreShows DEF Expire
<1>6. CASE LidEvent \/ World \/ Start \/ StartChecks \/ StartIncludes
           \/ UNCHANGED vars
  BY <1>6 DEF LidEvent, World, LidMoves, DeviceTurns, Hotplug, Start,
              StartChecks, StartIncludes, vars, daemon
<1>7. ~Shutdown /\ ~Crash
  BY <1>0 DEF Shutdown, Crash, Forget, NoPin
<1> QED
  BY <1>1, <1>2, <1>3, <1>4, <1>5, <1>6, <1>7 DEF Next, Timer, Lifecycle

\* Whatever was previewed and however it was kept, the pin a commit leaves makes
\* the next automatic pass settle on the very layout that was confirmed.
THEOREM CommitsAreStable == Spec => CommittedLayoutIsStable
<1>1. TransactionInv /\ [Next]_vars =>
        [Previewing /\ pending'.id # pending.id /\ manual'.set = set /\ Unchanged
           /\ screen = pending.profile /\ screen # pending.snapScreen
           /\ UNCHANGED <<shown, world, pc>>
         => AutoLayout(manual'.profile, lid) = KeepPanelOn(screen, set)]_vars
  BY StepIsStable, ConstantsAssumption
<1> QED BY <1>1, TransactionInvariant, PTL DEF Spec, CommittedLayoutIsStable
=============================================================================
