-------------------------- MODULE TerminalSession --------------------------
(***************************************************************************)
(* The terminal interface (internal/tui): one Update handler takes keys    *)
(* and messages one at a time; the commands it returns run beside it and   *)
(* answer with messages, in any order.  Both sides share the guard that    *)
(* says which preview must be reverted when the program ends.              *)
(*                                                                         *)
(* Layouts are numbers: 0 is on screen at the start, the n-th apply shows  *)
(* layout n.  Tabs, panes, values, names and drawing are left out: a key   *)
(* that changes the draft is Edits, whether a profile exists is either,    *)
(* and a refresh is always under way.  The refreshes, the list of profiles *)
(* and the commands on them are in ProfileStore.  Equal commands under *)
(* way are one.                                                            *)
(***************************************************************************)
EXTENDS Naturals

CONSTANTS
    Daemons,      \* with the daemon (TRUE), without it (FALSE), or either
    NoPreview, NoDialog,
    MaxApplies,   \* applies asked for with a key of the main screen
    MaxReverts,   \* reverts asked for with a key
    MaxSaves,     \* saves asked for
    MaxFaults     \* commands that fail

ASSUME NoPreviewAssumption == NoPreview \notin [n : Nat, back : Nat]
ASSUME DaemonsAssumption == Daemons \in (SUBSET BOOLEAN) \ {{}}
ASSUME BoundsAssumption ==
    /\ MaxApplies \in Nat /\ MaxReverts \in Nat
    /\ MaxSaves \in Nat /\ MaxFaults \in Nat

VARIABLES
    ui,      \* the dialogs and flags of Model that decide what a key does
    dirty,   \* the draft has changes
    clock,   \* the tick chains, and whether the deadline passed
    guard,   \* pendingRevertGuard or pendingRemoteGuard
    jobs,    \* commands that run
    mail,    \* answers of applies and reverts not yet taken
    world,   \* the screen, what was kept, and the daemon's preview
    run,     \* "running", "quitting" (RevertPending), "ended" or "failed"
    spent,   \* what the bounds count
    overlap  \* history: an apply was begun while another preview was open or
             \* ending, or a preview was kept while its revert was under way

vars == <<ui, dirty, clock, guard, jobs, mail, world, run, spent, overlap>>

-----------------------------------------------------------------------------
Layouts == 0 .. MaxApplies + MaxSaves

\* "edit" is the picker or input of a value, or a dialog of the Profiles tab.
Modes == {"main", "save", "overwrite", "confirm", "edit", "keys"}

\* saveActionsForPurpose, defaultSaveAction
SaveActions(purpose) ==
    IF purpose = "quit" THEN {"savequit", "discard", "cancel"}
                        ELSE {"only", "apply", "cancel"}
DefaultAction(purpose) == IF purpose = "quit" THEN "savequit" ELSE "apply"

Preview(n, back) == [n |-> n, back |-> back]
Dialog(purpose) == [purpose |-> purpose, action |-> DefaultAction(purpose)]

Job(kind) == [kind |-> kind]
Message(kind, ok) == [kind |-> kind, ok |-> ok]

\* Commands that change the screen.
Changing == {j \in jobs : j.kind \in {"apply", "revert"}}

Init ==
    /\ ui = [mode |-> "main", saving |-> NoDialog, pending |-> NoPreview,
             applying |-> FALSE, quitAfterApply |-> FALSE,
             quitAfterRevert |-> FALSE]
    /\ dirty = FALSE
    /\ clock = [chains |-> 1, late |-> FALSE]
    /\ guard = [armed |-> FALSE, of |-> Preview(0, 0)]
    /\ jobs = {}
    /\ mail = {}
    /\ \E remote \in Daemons :
          world = [remote |-> remote, shown |-> 0, kept |-> 0, tx |-> 0, back |-> 0]
    /\ run = "running"
    /\ spent = [applies |-> 0, reverts |-> 0, saves |-> 0, faults |-> 0, layouts |-> 0]
    /\ overlap = FALSE

Running == run = "running"
Remote == world.remote
In(mode) == Running /\ ui.mode = mode

Counts(what) == spent' = [spent EXCEPT ![what] = @ + 1]
Fails == spent.faults < MaxFaults /\ Counts("faults")

\* applyCmd: the guard counts the command as under way before it runs.
Applying == [kind |-> "apply", n |-> spent.layouts + 1, begun |-> FALSE, back |-> 0]

\* revertCmd
Reverting(p) == [kind |-> "revert", of |-> p]

Asks(J) == jobs' = jobs \union J
UnderWay(kinds) == \E x \in jobs \union mail : x.kind \in kinds
Overlaps(kinds) == overlap' = (overlap \/ UnderWay(kinds))
Begins == overlap' = (overlap \/ UnderWay({"apply", "revert"}) \/ ui.pending # NoPreview)

\* saveCmd, saveProfileCmd
AsksSave(kind) ==
    /\ spent.saves < MaxSaves /\ Counts("saves")
    /\ Asks({Job(kind)})

\* tea.Quit: no message is taken any more.
Quits == run' = "quitting"

Shows(mode) == ui' = [ui EXCEPT !.mode = mode]
Closes == ui' = [ui EXCEPT !.mode = "main", !.saving = NoDialog]

\* A key that asks for nothing.
Quiet == UNCHANGED <<clock, guard, jobs, mail, world, run, spent, overlap>>

-----------------------------------------------------------------------------
(* Keys of the main screen (updateMainKeys, updateProfileKeys)             *)

QuitKey ==
    /\ In("main")
    /\ \/ /\ ui.applying
          /\ ui' = [ui EXCEPT !.quitAfterRevert = TRUE]
          /\ UNCHANGED run
       \/ /\ ~ui.applying /\ dirty
          /\ ui' = [ui EXCEPT !.mode = "save", !.saving = Dialog("quit")]
          /\ UNCHANGED run
       \/ ~ui.applying /\ ~dirty /\ Quits /\ UNCHANGED ui
    /\ UNCHANGED <<dirty, clock, guard, jobs, mail, world, spent, overlap>>

\* a, and Enter on a profile
ApplyKey ==
    /\ In("main") /\ ~ui.applying
    /\ spent.applies < MaxApplies
    /\ spent' = [spent EXCEPT !.applies = @ + 1, !.layouts = @ + 1]
    /\ ui' = [ui EXCEPT !.applying = TRUE]
    /\ Asks({Applying})
    /\ Begins
    /\ UNCHANGED <<dirty, clock, guard, mail, world, run>>

OpensSave ==
    /\ In("main")
    /\ ui' = [ui EXCEPT !.mode = "save", !.saving = Dialog("profile")]
    /\ UNCHANGED dirty /\ Quiet

\* s on a profile
SavesSelected ==
    /\ In("main")
    /\ AsksSave("tabsave")
    /\ UNCHANGED <<ui, dirty, clock, guard, mail, world, run, overlap>>

\* r: the draft counts as clean; a refresh will replace it.
Resets == In("main") /\ dirty' = FALSE /\ UNCHANGED ui /\ Quiet

\* Any change of the draft; l loads a profile into it.
Edits == In("main") /\ dirty' = TRUE /\ UNCHANGED ui /\ Quiet

\* Enter on a value, e, d or r on a profile, ?
OpensDialog ==
    /\ In("main")
    /\ \E mode \in {"edit", "keys"} : Shows(mode)
    /\ UNCHANGED dirty /\ Quiet

MainKeys ==
    \/ QuitKey \/ ApplyKey \/ OpensSave \/ SavesSelected
    \/ Resets \/ Edits \/ OpensDialog

-----------------------------------------------------------------------------
(* Keys of the dialogs                                                     *)

InterruptKey ==
    /\ Running /\ ui.mode \in {"save", "overwrite", "keys"}
    /\ Quits
    /\ UNCHANGED <<ui, dirty, clock, guard, jobs, mail, world, spent, overlap>>

\* updateSaveKeys, other than Enter
SaveKeys ==
    /\ In("save")
    /\ \/ Closes
       \/ \E a \in SaveActions(ui.saving.purpose) : ui' = [ui EXCEPT !.saving.action = a]
    /\ UNCHANGED dirty /\ Quiet

\* The dialog stays open until the answer comes, or asks whether to overwrite.
SaveEnter ==
    /\ In("save")
    /\ \/ /\ ui.saving.action = "discard"
          /\ Quits /\ UNCHANGED <<ui, jobs, spent>>
       \/ /\ ui.saving.action = "cancel"
          /\ Closes /\ UNCHANGED <<run, jobs, spent>>
       \/ /\ ui.saving.action \in {"only", "apply", "savequit"}
          /\ Shows("overwrite") /\ UNCHANGED <<run, jobs, spent>>
       \/ /\ ui.saving.action \in {"only", "apply", "savequit"}
          /\ AsksSave("save") /\ UNCHANGED <<ui, run>>
    /\ UNCHANGED <<dirty, clock, guard, mail, world, overlap>>

SaveConfirmKeys ==
    /\ In("overwrite")
    /\ \/ Shows("save") /\ UNCHANGED <<jobs, spent>>
       \/ AsksSave("save") /\ UNCHANGED ui
    /\ UNCHANGED <<dirty, clock, guard, mail, world, run, overlap>>

\* updateModePickerKeys, updateNumericInputKeys, updateProfileExecInputKeys
EditKeys ==
    /\ In("edit")
    /\ Shows("main")
    /\ \/ \E changed \in BOOLEAN : dirty' = (dirty \/ changed) /\ UNCHANGED <<jobs, spent>>
       \/ AsksSave("tabsave") /\ UNCHANGED dirty
    /\ UNCHANGED <<clock, guard, mail, world, run, overlap>>

\* Any key closes the list of keys.
KeysKey == In("keys") /\ Shows("main") /\ UNCHANGED dirty /\ Quiet

DialogKeys ==
    InterruptKey \/ SaveKeys \/ SaveEnter \/ SaveConfirmKeys \/ EditKeys \/ KeysKey

-----------------------------------------------------------------------------
(* Keep or revert (updateConfirmKeys)                                      *)

Asked == In("confirm") /\ ui.pending # NoPreview

ConfirmNothing ==
    /\ In("confirm") /\ ui.pending = NoPreview
    /\ Shows("main")
    /\ UNCHANGED dirty /\ Quiet

RevertKey ==
    /\ Asked
    /\ spent.reverts < MaxReverts /\ Counts("reverts")
    /\ \E quit \in BOOLEAN : ui' = [ui EXCEPT !.quitAfterRevert = @ \/ quit]
    /\ Asks({Reverting(ui.pending)})
    /\ Overlaps({"apply"})
    /\ UNCHANGED <<dirty, clock, guard, mail, world, run>>

Kept == [world EXCEPT !.kept = ui.pending.n, !.tx = 0]

\* Mutant: a preview that is gone counts as kept.
KeepsBlindly ==
    /\ Asked
    /\ world' = Kept
    /\ ui' = [ui EXCEPT !.mode = "main", !.pending = NoPreview, !.quitAfterApply = FALSE]
    /\ guard' = [guard EXCEPT !.armed = FALSE]
    /\ dirty' = FALSE
    /\ IF ui.quitAfterApply THEN Quits ELSE UNCHANGED run
    /\ Overlaps({"apply", "revert"})
    /\ UNCHANGED <<clock, jobs, mail, spent>>

\* The handler waits for the daemon's answer.  A failed post-apply command
\* keeps the layout all the same.
KeepKey ==
    /\ Asked
    /\ Remote => world.tx = ui.pending.n
    /\ world' = Kept
    /\ ui' = [ui EXCEPT !.mode = "main", !.pending = NoPreview, !.quitAfterApply = FALSE]
    /\ guard' = [guard EXCEPT !.armed = FALSE]
    /\ dirty' = FALSE
    /\ IF ui.quitAfterApply THEN Quits ELSE UNCHANGED run
    /\ Overlaps({"apply", "revert"})
    /\ UNCHANGED <<clock, jobs, mail, spent>>

\* ErrTransactionUnavailable: the preview timed out at the daemon.
KeepTooLate ==
    /\ Asked /\ Remote /\ world.tx # ui.pending.n
    /\ ui' = [ui EXCEPT !.mode = "main", !.pending = NoPreview]
    /\ guard' = [guard EXCEPT !.armed = FALSE]
    /\ dirty' = FALSE
    /\ Overlaps({"apply", "revert"})
    /\ UNCHANGED <<clock, jobs, mail, world, run, spent>>

\* The call failed, on the way to the daemon or on the way back: the dialog
\* stays.
KeepFails ==
    /\ Asked /\ Remote /\ Fails
    /\ \/ UNCHANGED world
       \/ world.tx = ui.pending.n /\ world' = Kept
    /\ UNCHANGED <<ui, dirty, clock, guard, jobs, mail, run, overlap>>

ConfirmKeys == ConfirmNothing \/ RevertKey \/ KeepKey \/ KeepTooLate \/ KeepFails

-----------------------------------------------------------------------------
(* Messages                                                                *)

Takes(m) == Running /\ m \in mail /\ mail' = mail \ {m}

\* refreshMsg: loadLiveState replaces the draft on other displays, or when
\* the refresh was asked for and the draft is clean.  The mode stays.
TakesRefresh == Running /\ dirty' = FALSE /\ UNCHANGED ui /\ Quiet

\* saveMsg of the dialog: what happens next is what its buttons say by now.
TakesSave ==
    /\ Running /\ Job("save") \in jobs
    /\ LET action == IF ui.saving = NoDialog THEN "only" ELSE ui.saving.action
           applies == action \in {"apply", "savequit"}
       IN /\ ui' = [ui EXCEPT !.mode = "main", !.saving = NoDialog,
                              !.quitAfterApply = (action = "savequit"),
                              !.applying = @ \/ applies]
          /\ jobs' = (jobs \ {Job("save")}) \union (IF applies THEN {Applying} ELSE {})
          /\ IF applies THEN Counts("layouts") /\ Begins ELSE UNCHANGED <<spent, overlap>>
    /\ UNCHANGED <<dirty, clock, guard, mail, world, run>>

\* saveMsg with an error, of the dialog or of the Profiles tab
TakesSaveError == \E kind \in {"save", "tabsave"} :
    /\ Running /\ Job(kind) \in jobs /\ Fails
    /\ jobs' = jobs \ {Job(kind)}
    /\ ui' = [ui EXCEPT !.mode = "main", !.quitAfterApply = FALSE]
    /\ UNCHANGED <<dirty, clock, guard, mail, world, run, overlap>>

\* saveMsg of the Profiles tab
TakesTabSave ==
    /\ Running /\ Job("tabsave") \in jobs
    /\ jobs' = jobs \ {Job("tabsave")}
    /\ UNCHANGED <<ui, dirty, clock, guard, mail, world, run, spent, overlap>>

\* applyMsg: the preview becomes pending whatever the mode, and a tick chain
\* of its own is started.
TakesApplied == \E m \in mail :
    /\ m.kind = "apply" /\ m.ok /\ Takes(m)
    /\ LET p == Preview(m.n, m.back) IN
       /\ ui' = [ui EXCEPT !.applying = FALSE, !.pending = p, !.mode = "confirm"]
       /\ guard' = [armed |-> TRUE, of |-> p]
       /\ IF ui.quitAfterRevert
          THEN /\ Asks({Reverting(p)})
               /\ clock' = [clock EXCEPT !.late = FALSE]
          ELSE /\ clock' = [clock EXCEPT !.late = FALSE, !.chains = @ + 1]
               /\ UNCHANGED jobs
    /\ UNCHANGED <<dirty, world, run, spent, overlap>>

TakesApplyError == \E m \in mail :
    /\ m.kind = "apply" /\ ~m.ok /\ Takes(m)
    /\ IF ui.quitAfterRevert
       THEN /\ Quits
            /\ ui' = [ui EXCEPT !.applying = FALSE, !.quitAfterRevert = FALSE,
                                !.quitAfterApply = FALSE]
       ELSE /\ UNCHANGED run
            /\ ui' = [ui EXCEPT !.applying = FALSE, !.quitAfterApply = FALSE, !.mode = "main"]
    /\ UNCHANGED <<dirty, clock, guard, jobs, world, spent, overlap>>

TakesReverted ==
    /\ Takes(Message("revert", TRUE))
    /\ ui' = [ui EXCEPT !.mode = "main", !.pending = NoPreview,
                        !.quitAfterApply = FALSE, !.quitAfterRevert = FALSE]
    /\ guard' = [guard EXCEPT !.armed = FALSE]
    /\ dirty' = FALSE
    /\ IF ui.quitAfterRevert THEN Quits ELSE UNCHANGED run
    /\ UNCHANGED <<clock, jobs, world, spent, overlap>>

\* The preview is given a new window, and the quit is forgotten.
TakesRevertError ==
    /\ Takes(Message("revert", FALSE))
    /\ ui' = [ui EXCEPT !.mode = "confirm", !.quitAfterRevert = FALSE]
    /\ clock' = [clock EXCEPT !.late = @ /\ ui.pending = NoPreview]
    /\ UNCHANGED <<dirty, guard, jobs, world, run, spent, overlap>>

\* Mutant: the deadline counts only while the program is to stay.
TicksUnlessQuitting ==
    /\ Asked /\ clock.chains > 0 /\ clock.late /\ ~ui.quitAfterApply
    /\ clock' = [clock EXCEPT !.chains = @ - 1]
    /\ Asks({Reverting(ui.pending)})
    /\ Overlaps({"apply"})
    /\ UNCHANGED <<ui, dirty, guard, mail, world, run, spent>>

\* tickMsg: past the deadline the chain ends with the revert it starts.
TicksLate ==
    /\ Asked /\ clock.chains > 0 /\ clock.late
    /\ clock' = [clock EXCEPT !.chains = @ - 1]
    /\ Asks({Reverting(ui.pending)})
    /\ Overlaps({"apply"})
    /\ UNCHANGED <<ui, dirty, guard, mail, world, run, spent>>

Messages ==
    \/ TakesRefresh \/ TakesSave \/ TakesSaveError \/ TakesTabSave
    \/ TakesApplied \/ TakesApplyError \/ TakesReverted \/ TakesRevertError
    \/ TicksLate

-----------------------------------------------------------------------------
(* The commands, and the daemon's side of them                             *)

Answers(j, m) ==
    /\ j \in jobs
    /\ jobs' = jobs \ {j}
    /\ mail' = mail \union {m}

Applied(j, back, ok) == [kind |-> "apply", n |-> j.n, back |-> back, ok |-> ok]

\* Without the daemon Engine.Apply takes its snapshot ...
ApplyBegins == \E j \in jobs :
    /\ ~Remote /\ j.kind = "apply" /\ ~j.begun
    /\ jobs' = (jobs \ {j}) \union {[j EXCEPT !.begun = TRUE, !.back = world.shown]}
    /\ UNCHANGED <<ui, dirty, clock, guard, mail, world, run, spent, overlap>>

\* ... and shows the layout; the command arms the guard before it answers.
ApplyEnds == \E j \in jobs :
    /\ ~Remote /\ j.kind = "apply" /\ j.begun
    /\ world' = [world EXCEPT !.shown = j.n]
    /\ guard' = [armed |-> TRUE, of |-> Preview(j.n, j.back)]
    /\ Answers(j, Applied(j, j.back, TRUE))
    /\ UNCHANGED <<ui, dirty, clock, run, spent, overlap>>

Previewed(n) == [world EXCEPT !.shown = n, !.tx = n, !.back = world.shown]

\* Through the daemon: one preview at a time.
RemotePreview == \E j \in jobs :
    /\ Remote /\ j.kind = "apply" /\ world.tx = 0
    /\ world' = Previewed(j.n)
    /\ guard' = [armed |-> TRUE, of |-> Preview(j.n, 0)]
    /\ Answers(j, Applied(j, 0, TRUE))
    /\ UNCHANGED <<ui, dirty, clock, run, spent, overlap>>

\* A refusal, a failure, or an answer of the daemon that is lost.
ApplyFails == \E j \in jobs :
    /\ j.kind = "apply"
    /\ \/ Remote /\ world.tx # 0 /\ UNCHANGED <<spent, world>>
       \/ Fails /\ UNCHANGED world
       \/ Remote /\ world.tx = 0 /\ Fails /\ world' = Previewed(j.n)
    /\ Answers(j, Applied(j, 0, FALSE))
    /\ UNCHANGED <<ui, dirty, clock, guard, run, overlap>>

\* A preview the daemon no longer has counts as reverted.
Undone(p) ==
    IF Remote
    THEN IF world.tx = p.n THEN [world EXCEPT !.shown = world.back, !.tx = 0] ELSE world
    ELSE [world EXCEPT !.shown = p.back]

RevertRuns == \E j \in jobs :
    /\ j.kind = "revert"
    /\ world' = Undone(j.of)
    /\ guard' = [guard EXCEPT !.armed = FALSE]
    /\ Answers(j, Message("revert", TRUE))
    /\ UNCHANGED <<ui, dirty, clock, run, spent, overlap>>

\* Mutant: the guard is disarmed before the revert is known to have worked.
RevertDisarmsFirst == \E j \in jobs :
    /\ j.kind = "revert"
    /\ Fails
    /\ guard' = [guard EXCEPT !.armed = FALSE]
    /\ Answers(j, Message("revert", FALSE))
    /\ UNCHANGED <<ui, dirty, clock, world, run, overlap>>

RevertFails == \E j \in jobs :
    /\ j.kind = "revert"
    /\ Fails
    /\ UNCHANGED world \/ (Remote /\ world' = Undone(j.of))
    /\ Answers(j, Message("revert", FALSE))
    /\ UNCHANGED <<ui, dirty, clock, guard, run, overlap>>

Runs ==
    \/ ApplyBegins \/ ApplyEnds \/ RemotePreview \/ ApplyFails
    \/ RevertRuns \/ RevertFails

DeadlinePasses ==
    /\ Running /\ ui.pending # NoPreview /\ ~clock.late
    /\ clock' = [clock EXCEPT !.late = TRUE]
    /\ UNCHANGED <<ui, dirty, guard, jobs, mail, world, run, spent, overlap>>

\* The daemon reverts a preview nobody answered.
DaemonExpires ==
    /\ Remote /\ world.tx # 0
    /\ world' = Undone(Preview(world.tx, 0))
    /\ UNCHANGED <<ui, dirty, clock, guard, jobs, mail, run, spent, overlap>>

\* Mutant: the guard is read while commands run.
RevertsAtOnce ==
    /\ run = "quitting"
    /\ IF guard.armed
       THEN /\ world' = Undone(guard.of)
            /\ guard' = [guard EXCEPT !.armed = FALSE]
       ELSE UNCHANGED <<world, guard>>
    /\ run' = "ended"
    /\ mail' = {}
    /\ UNCHANGED <<ui, dirty, clock, jobs, spent, overlap>>

\* RevertPending waits for the commands the guard counts, then reverts what
\* is armed; its error is the program's.  The commands end with the process.
RevertPending ==
    /\ run = "quitting" /\ Changing = {}
    /\ IF guard.armed
       THEN \/ /\ world' = Undone(guard.of)
               /\ guard' = [guard EXCEPT !.armed = FALSE]
               /\ run' = "ended" /\ UNCHANGED spent
            \/ Fails /\ run' = "failed" /\ UNCHANGED <<world, guard>>
       ELSE run' = "ended" /\ UNCHANGED <<world, guard, spent>>
    /\ jobs' = {} /\ mail' = {}
    /\ UNCHANGED <<ui, dirty, clock, overlap>>

Next ==
    \/ MainKeys \/ DialogKeys \/ ConfirmKeys \/ Messages \/ Runs
    \/ DeadlinePasses \/ DaemonExpires \/ RevertPending

Spec == Init /\ [][Next]_vars

\* Bubble Tea takes every message, commands end (each has a time limit), time
\* passes and the daemon keeps its deadlines.  No key need ever be pressed.
Fairness ==
    /\ WF_vars(TakesSave \/ TakesSaveError) /\ WF_vars(TakesTabSave)
    /\ WF_vars(TakesApplied) /\ WF_vars(TakesApplyError)
    /\ WF_vars(TakesReverted) /\ WF_vars(TakesRevertError) /\ WF_vars(TicksLate)
    /\ WF_vars(Runs) /\ WF_vars(DeadlinePasses) /\ WF_vars(DaemonExpires)
    /\ WF_vars(RevertPending)

FairSpec == Spec /\ Fairness

-----------------------------------------------------------------------------
(* What the session promises                                               *)

\* The values the variables take (Model, model.go).
TypeOK ==
    /\ ui.mode \in Modes
    /\ ui.mode \in {"save", "overwrite"} => ui.saving # NoDialog
    /\ ui.saving # NoDialog => ui.saving.action \in SaveActions(ui.saving.purpose)
    /\ clock.chains \in 0 .. MaxApplies + MaxSaves + 1
    /\ {world.shown, world.kept, world.tx, world.back} \subseteq Layouts
    /\ run \in {"running", "quitting", "ended", "failed"}

\* A layout nobody kept is watched: its command still runs, the guard that
\* RevertPending reads is armed, or the daemon counts its deadline (the
\* guards of model.go, against every order of answers, keys and failures).
UnkeptIsWatched ==
    overlap \/ world.shown = world.kept \/ world.tx # 0 \/ guard.armed \/ Changing # {}

\* When the program ended without an error the screen shows what was kept,
\* or the daemon will bring it back, whichever dialog it was left from and
\* whatever it was doing (runTUI and RevertPending).
QuitLeavesNothing ==
    run = "ended" /\ ~overlap => world.shown = world.kept \/ world.tx # 0

\* What is kept is what is on screen at that moment, also when the daemon's
\* deadline passes while the question is open (confirmPending).
KeptWasShown ==
    [][world'.kept # world.kept /\ ~overlap' => world'.kept = world.shown]_vars

\* A preview with its dialog ends without any key, unless a command failed
\* (tickMsg, the revert it starts, and revertMsg).
PreviewsEnd == Asked ~> (~Asked \/ spent.faults > 0 \/ overlap)

=============================================================================
