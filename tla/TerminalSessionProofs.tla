----------------------- MODULE TerminalSessionProofs -----------------------
(***************************************************************************)
(* Theorems about TerminalSession: whatever keys are pressed, in whatever  *)
(* order the answers come and whatever fails, no layout that nobody kept   *)
(* is left behind without something that will take it back.                *)
(***************************************************************************)
EXTENDS TerminalSession, TLAPS

-----------------------------------------------------------------------------
(* The shape of the session's state.                                       *)

Previews == [n : Nat \ {0}, back : Nat]
Dialogs == [purpose : {"quit", "profile"},
            action : {"savequit", "discard", "cancel", "only", "apply"}]
Views == [mode : Modes, saving : Dialogs \cup {NoDialog},
          pending : Previews \cup {NoPreview}, applying : BOOLEAN,
          quitAfterApply : BOOLEAN, quitAfterRevert : BOOLEAN]
Guards == [armed : BOOLEAN, of : [n : Nat, back : Nat]]
ApplyJobs == [kind : {"apply"}, n : Nat \ {0}, begun : BOOLEAN, back : Nat]
RevertJobs == [kind : {"revert"}, of : Previews]
SaveJobs == [kind : {"save", "tabsave"}]
Mails == [kind : {"apply"}, n : Nat \ {0}, back : Nat, ok : BOOLEAN]
           \cup [kind : {"revert"}, ok : BOOLEAN]
Worlds == [remote : BOOLEAN, shown : Nat, kept : Nat, tx : Nat, back : Nat]
Tallies == [applies : Nat, reverts : Nat, saves : Nat, faults : Nat, layouts : Nat]

SessionTyped ==
    /\ ui \in Views /\ (ui.mode \in {"save", "overwrite"} => ui.saving \in Dialogs)
    /\ guard \in Guards /\ (guard.armed => guard.of \in Previews)
    /\ jobs \subseteq ApplyJobs \cup RevertJobs \cup SaveJobs
    /\ mail \subseteq Mails
    /\ world \in Worlds
    /\ run \in {"running", "quitting", "ended", "failed"}
    /\ spent \in Tallies

LEMMA DialogType ==
    ASSUME NEW purpose \in {"quit", "profile"}
    PROVE  Dialog(purpose) \in Dialogs
    BY DEF Dialog, Dialogs, DefaultAction

LEMMA DialogActions ==
    ASSUME NEW d \in Dialogs, NEW a \in SaveActions(d.purpose)
    PROVE  [d EXCEPT !.action = a] \in Dialogs
    BY DEF Dialogs, SaveActions

LEMMA JobTypes ==
    ASSUME SessionTyped
    PROVE  /\ Applying \in ApplyJobs
           /\ \A p \in Previews : Reverting(p) \in RevertJobs
           /\ \A kind \in {"save", "tabsave"} : Job(kind) \in SaveJobs
           /\ \A j \in ApplyJobs : [j EXCEPT !.begun = TRUE, !.back = world.shown] \in ApplyJobs
<1>1. spent.layouts \in Nat /\ spent.layouts + 1 \in Nat \ {0} /\ world.shown \in Nat
    BY DEF SessionTyped, Tallies, Worlds
<1> QED BY <1>1 DEF Applying, Reverting, Job, ApplyJobs, RevertJobs, SaveJobs

LEMMA MailTypes ==
    /\ \A kind \in {"revert"}, ok \in BOOLEAN : Message(kind, ok) \in Mails
    /\ \A j \in ApplyJobs, back \in Nat, ok \in BOOLEAN : Applied(j, back, ok) \in Mails
    BY DEF Message, Applied, Mails, ApplyJobs

LEMMA TallyTypes ==
    ASSUME SessionTyped
    PROVE  /\ \A what \in {"applies", "reverts", "saves", "faults", "layouts"} :
                Counts(what) => spent' \in Tallies
           /\ Fails => spent' \in Tallies
<1>1. \A what \in {"applies", "reverts", "saves", "faults", "layouts"} :
        Counts(what) => spent' \in Tallies
    BY DEF Counts, SessionTyped, Tallies
<1> QED BY <1>1 DEF Fails

LEMMA AsksSaveTypes ==
    ASSUME SessionTyped, NEW kind \in {"save", "tabsave"}, AsksSave(kind)
    PROVE  /\ jobs' \subseteq ApplyJobs \cup RevertJobs \cup SaveJobs
           /\ spent' \in Tallies
<1>1. Job(kind) \in SaveJobs
    BY JobTypes
<1> QED BY <1>1, TallyTypes DEF AsksSave, Asks, SessionTyped

LEMMA WorldTypes ==
    ASSUME SessionTyped
    PROVE  /\ ui.pending \in Previews => Kept \in Worlds
           /\ \A n \in Nat : Previewed(n) \in Worlds
           /\ \A p \in [n : Nat, back : Nat] : Undone(p) \in Worlds
    BY DEF SessionTyped, Kept, Previewed, Undone, Worlds, Previews

LEMMA MainKeysTyped == ASSUME SessionTyped, MainKeys PROVE SessionTyped'
<1> USE DEF SessionTyped
<1>1. CASE QuitKey
    BY <1>1, DialogType DEF QuitKey, In, Running, Views, Modes, Quits
<1>2. CASE ApplyKey
    <2>1. spent' \in Tallies
        <3> DEFINE a == spent.applies + 1
                   l == spent.layouts + 1
        <3>1. spent \in Tallies /\ a \in Nat /\ l \in Nat
            BY DEF Tallies
        <3>2. spent' = [spent EXCEPT !.applies = a, !.layouts = l]
            BY <1>2 DEF ApplyKey
        <3> HIDE DEF SessionTyped, a, l
        <3> QED BY <3>1, <3>2 DEF Tallies
    <2>2. jobs' \subseteq ApplyJobs \cup RevertJobs \cup SaveJobs
        BY <1>2, JobTypes DEF ApplyKey, Asks
    <2> QED BY <1>2, <2>1, <2>2 DEF ApplyKey, In, Views
<1>3. CASE OpensSave
    BY <1>3, DialogType DEF OpensSave, Quiet, Views, Modes
<1>4. CASE SavesSelected
    BY <1>4, AsksSaveTypes DEF SavesSelected
<1>5. CASE Resets \/ Edits
    BY <1>5 DEF Resets, Edits, Quiet
<1>6. CASE OpensDialog
    BY <1>6 DEF OpensDialog, Shows, Quiet, Views, Modes
<1> QED BY <1>1, <1>2, <1>3, <1>4, <1>5, <1>6 DEF MainKeys

LEMMA DialogKeysTyped == ASSUME SessionTyped, DialogKeys PROVE SessionTyped'
<1> USE DEF SessionTyped
<1>0. Closes => ui' \in Views /\ ui'.mode = "main"
    BY DEF Closes, Views, Modes
<1>1. CASE InterruptKey
    BY <1>1 DEF InterruptKey, Quits
<1>2. CASE SaveKeys
    <2>1. CASE Closes
        BY <1>0, <1>2, <2>1 DEF SaveKeys, Quiet
    <2>2. ASSUME NEW a \in SaveActions(ui.saving.purpose), ui' = [ui EXCEPT !.saving.action = a]
          PROVE  SessionTyped'
        <3>1. [ui.saving EXCEPT !.action = a] \in Dialogs
            BY <1>2, <2>2, DialogActions DEF SaveKeys, In
        <3>2. ui' = [ui EXCEPT !.saving = [ui.saving EXCEPT !.action = a]]
            BY <2>2 DEF Views
        <3> QED BY <1>2, <3>1, <3>2 DEF SaveKeys, Quiet, Views
    <2> QED BY <1>2, <2>1, <2>2 DEF SaveKeys
<1>3. CASE SaveEnter
    <2>1. CASE UNCHANGED <<jobs, spent>>
        BY <1>0, <1>3, <2>1 DEF SaveEnter, In, Shows, Quits, Views, Modes, AsksSave
    <2>2. CASE AsksSave("save") /\ UNCHANGED <<ui, run>>
        BY <1>3, <2>2, AsksSaveTypes DEF SaveEnter
    <2> QED BY <1>3, <2>1, <2>2 DEF SaveEnter
<1>4. CASE SaveConfirmKeys
    <2>1. CASE Shows("save") /\ UNCHANGED <<jobs, spent>>
        BY <1>4, <2>1 DEF SaveConfirmKeys, In, Shows, Views, Modes
    <2>2. CASE AsksSave("save") /\ UNCHANGED ui
        BY <1>4, <2>2, AsksSaveTypes DEF SaveConfirmKeys
    <2> QED BY <1>4, <2>1, <2>2 DEF SaveConfirmKeys
<1>5. CASE EditKeys
    <2>1. ui' \in Views /\ ui'.mode = "main"
        BY <1>5 DEF EditKeys, Shows, Views, Modes
    <2>2. /\ jobs' \subseteq ApplyJobs \cup RevertJobs \cup SaveJobs
          /\ spent' \in Tallies
        BY <1>5, AsksSaveTypes DEF EditKeys
    <2> QED BY <1>5, <2>1, <2>2 DEF EditKeys
<1>6. CASE KeysKey
    BY <1>6 DEF KeysKey, Shows, Quiet, Views, Modes
<1> QED BY <1>1, <1>2, <1>3, <1>4, <1>5, <1>6 DEF DialogKeys

LEMMA ConfirmKeysTyped == ASSUME SessionTyped, ConfirmKeys PROVE SessionTyped'
<1> USE DEF SessionTyped
<1>1. Asked => ui.pending \in Previews
    BY DEF Asked, Views
<1>2. CASE ConfirmNothing
    BY <1>2 DEF ConfirmNothing, Shows, Quiet, Views, Modes
<1>3. CASE RevertKey
    <2>1. ui' \in Views /\ ui'.mode = ui.mode /\ ui'.saving = ui.saving
        BY <1>3 DEF RevertKey, Views
    <2>2. jobs' \subseteq ApplyJobs \cup RevertJobs \cup SaveJobs
        BY <1>1, <1>3, JobTypes DEF RevertKey, Asks
    <2> QED BY <1>3, <2>1, <2>2, TallyTypes DEF RevertKey
<1>4. CASE KeepKey
    <2>1. ui' \in Views /\ ui'.mode = "main" /\ guard' \in Guards
        BY <1>4 DEF KeepKey, Views, Modes, Guards
    <2> QED BY <1>1, <1>4, <2>1, WorldTypes DEF KeepKey, Quits
<1>5. CASE KeepTooLate
    BY <1>5 DEF KeepTooLate, Views, Modes, Guards
<1>6. CASE KeepFails
    BY <1>1, <1>6, WorldTypes, TallyTypes DEF KeepFails
<1> QED BY <1>2, <1>3, <1>4, <1>5, <1>6 DEF ConfirmKeys

LEMMA MessagesTyped == ASSUME SessionTyped, Messages PROVE SessionTyped'
<1> USE DEF SessionTyped
<1>1. CASE TakesRefresh \/ TakesTabSave
    BY <1>1 DEF TakesRefresh, TakesTabSave, Quiet
<1>2. CASE TakesSave
    <2>1. /\ ui' \in Views /\ ui'.mode = "main"
        BY <1>2 DEF TakesSave, Views, Modes
    <2>2. /\ jobs' \subseteq ApplyJobs \cup RevertJobs \cup SaveJobs
        BY <1>2, JobTypes DEF TakesSave
    <2>3. spent' \in Tallies
        BY <1>2, TallyTypes DEF TakesSave
    <2> QED BY <1>2, <2>1, <2>2, <2>3 DEF TakesSave
<1>3. CASE TakesSaveError
    <2>1. ui' \in Views /\ ui'.mode = "main" /\ spent' \in Tallies
        BY <1>3, TallyTypes DEF TakesSaveError, Views, Modes
    <2> QED BY <1>3, <2>1 DEF TakesSaveError
<1>4. CASE TakesApplied
    <2> PICK m \in mail :
          /\ m.kind = "apply" /\ m.ok /\ Takes(m)
          /\ LET p == Preview(m.n, m.back) IN
             /\ ui' = [ui EXCEPT !.applying = FALSE, !.pending = p, !.mode = "confirm"]
             /\ guard' = [armed |-> TRUE, of |-> p]
             /\ jobs' \subseteq jobs \cup {Reverting(p)}
        BY <1>4 DEF TakesApplied, Asks
    <2> DEFINE p == Preview(m.n, m.back)
    <2>1. p \in Previews /\ p \in [n : Nat, back : Nat]
        BY DEF Mails, Preview, Previews
    <2> HIDE DEF p
    <2>2. ui' \in Views /\ ui'.mode = "confirm" /\ guard' \in Guards /\ guard'.of \in Previews
        BY <2>1 DEF Views, Modes, Guards, p
    <2>3. jobs' \subseteq ApplyJobs \cup RevertJobs \cup SaveJobs
        BY <2>1, JobTypes DEF p
    <2> QED BY <1>4, <2>2, <2>3 DEF TakesApplied, Takes
<1>5. CASE TakesApplyError
    <2>1. CASE ui.quitAfterRevert
        <3>1. ui' \in Views /\ ui'.mode = ui.mode /\ ui'.saving = ui.saving
            BY <1>5, <2>1 DEF TakesApplyError, Views
        <3> QED BY <1>5, <2>1, <3>1 DEF TakesApplyError, Takes, Quits
    <2>2. CASE ~ui.quitAfterRevert
        <3>1. ui' \in Views /\ ui'.mode = "main"
            BY <1>5, <2>2 DEF TakesApplyError, Views, Modes
        <3> QED BY <1>5, <2>2, <3>1 DEF TakesApplyError, Takes
    <2> QED BY <2>1, <2>2
<1>6. CASE TakesReverted
    BY <1>6 DEF TakesReverted, Takes, Quits, Views, Modes, Guards
<1>7. CASE TakesRevertError
    BY <1>7 DEF TakesRevertError, Takes, Views, Modes
<1>8. CASE TicksLate
    <2>1. ui.pending \in Previews
        BY <1>8 DEF TicksLate, Asked, Views
    <2> QED BY <1>8, <2>1, JobTypes DEF TicksLate, Asks
<1> QED BY <1>1, <1>2, <1>3, <1>4, <1>5, <1>6, <1>7, <1>8 DEF Messages

LEMMA RunsTyped == ASSUME SessionTyped, Runs PROVE SessionTyped'
<1> USE DEF SessionTyped
<1>0. \A j \in jobs : /\ j.kind = "apply" => j \in ApplyJobs /\ j.n \in Nat \ {0} /\ j.back \in Nat
                      /\ j.kind = "revert" => j \in RevertJobs /\ j.of \in [n : Nat, back : Nat]
    BY DEF ApplyJobs, RevertJobs, SaveJobs, Previews
<1>1. CASE ApplyBegins
    <2> PICK j \in jobs :
          /\ j.kind = "apply"
          /\ jobs' = (jobs \ {j}) \union {[j EXCEPT !.begun = TRUE, !.back = world.shown]}
        BY <1>1 DEF ApplyBegins
    <2>1. [j EXCEPT !.begun = TRUE, !.back = world.shown] \in ApplyJobs
        BY <1>0, JobTypes
    <2> QED BY <1>1, <2>1 DEF ApplyBegins
<1>2. CASE ApplyEnds
    <2> PICK j \in jobs :
          /\ j.kind = "apply"
          /\ world' = [world EXCEPT !.shown = j.n]
          /\ guard' = [armed |-> TRUE, of |-> Preview(j.n, j.back)]
          /\ Answers(j, Applied(j, j.back, TRUE))
        BY <1>2 DEF ApplyEnds
    <2>1. world' \in Worlds /\ guard' \in Guards /\ guard'.of \in Previews
        BY <1>0 DEF Worlds, Guards, Preview, Previews
    <2>2. Applied(j, j.back, TRUE) \in Mails
        BY <1>0, MailTypes
    <2> QED BY <1>2, <2>1, <2>2 DEF ApplyEnds, Answers
<1>3. CASE RemotePreview
    <2> PICK j \in jobs :
          /\ j.kind = "apply"
          /\ world' = Previewed(j.n)
          /\ guard' = [armed |-> TRUE, of |-> Preview(j.n, 0)]
          /\ Answers(j, Applied(j, 0, TRUE))
        BY <1>3 DEF RemotePreview
    <2>1. world' \in Worlds /\ guard' \in Guards /\ guard'.of \in Previews
        BY <1>0, WorldTypes DEF Guards, Preview, Previews
    <2>2. Applied(j, 0, TRUE) \in Mails
        BY <1>0, MailTypes
    <2> QED BY <1>3, <2>1, <2>2 DEF RemotePreview, Answers
<1>4. CASE ApplyFails
    <2> PICK j \in jobs :
          /\ j.kind = "apply"
          /\ spent' = spent \/ Fails
          /\ world' = world \/ world' = Previewed(j.n)
          /\ Answers(j, Applied(j, 0, FALSE))
        BY <1>4 DEF ApplyFails
    <2>1. world' \in Worlds /\ spent' \in Tallies
        BY <1>0, WorldTypes, TallyTypes
    <2>2. Applied(j, 0, FALSE) \in Mails
        BY <1>0, MailTypes
    <2> QED BY <1>4, <2>1, <2>2 DEF ApplyFails, Answers
<1>5. CASE RevertRuns
    <2> PICK j \in jobs :
          /\ j.kind = "revert" /\ world' = Undone(j.of)
          /\ guard' = [guard EXCEPT !.armed = FALSE]
          /\ Answers(j, Message("revert", TRUE))
        BY <1>5 DEF RevertRuns
    <2>1. world' \in Worlds
        BY <1>0, WorldTypes
    <2>2. guard' \in Guards /\ ~guard'.armed
        BY DEF Guards
    <2> QED BY <1>5, <2>1, <2>2, MailTypes DEF RevertRuns, Answers
<1>6. CASE RevertFails
    BY <1>0, <1>6, WorldTypes, MailTypes, TallyTypes DEF RevertFails, Answers
<1> QED BY <1>1, <1>2, <1>3, <1>4, <1>5, <1>6 DEF Runs

LEMMA StepTyped == ASSUME SessionTyped, [Next]_vars PROVE SessionTyped'
<1> USE DEF SessionTyped
<1>1. CASE DeadlinePasses
    BY <1>1 DEF DeadlinePasses
<1>2. CASE DaemonExpires
    <2>1. Preview(world.tx, 0) \in [n : Nat, back : Nat]
        BY DEF Preview, Worlds
    <2> QED BY <1>2, <2>1, WorldTypes DEF DaemonExpires
<1>3. CASE RevertPending
    <2>1. guard.of \in [n : Nat, back : Nat]
        BY DEF Guards
    <2>2. /\ world' \in Worlds /\ guard' \in Guards /\ spent' \in Tallies
          /\ guard' = guard \/ ~guard'.armed
        BY <1>3, <2>1, WorldTypes, TallyTypes DEF RevertPending, Guards
    <2> QED BY <1>3, <2>2 DEF RevertPending
<1>4. CASE UNCHANGED vars
    BY <1>4 DEF vars
<1> QED
    BY <1>1, <1>2, <1>3, <1>4, MainKeysTyped, DialogKeysTyped, ConfirmKeysTyped,
       MessagesTyped, RunsTyped DEF Next

LEMMA InitTyped == Init => SessionTyped
<1> SUFFICES ASSUME Init PROVE SessionTyped
    OBVIOUS
<1>1. world \in Worlds
    BY DaemonsAssumption DEF Init, Worlds
<1> QED
    BY <1>1 DEF Init, SessionTyped, Views, Modes, Guards, Preview, Tallies

-----------------------------------------------------------------------------
(* What makes it so.                                                       *)

Live == run \in {"running", "quitting"}

\* With the daemon, its transaction alone is enough, whatever overlaps: what is
\* on screen is kept or is its preview, and it goes back to what was kept.
RemoteInv ==
    Remote =>
        IF world.tx = 0 THEN world.shown = world.kept
                        ELSE world.shown = world.tx /\ world.back = world.kept

\* Without it an apply runs alone, and before it ended nothing changed.
ApplyAlone ==
    \A j \in Changing : j.kind = "apply" =>
        /\ Changing = {j} /\ mail = {} /\ ui.pending = NoPreview
        /\ world.shown = world.kept /\ ~guard.armed
        /\ j.begun => j.back = world.kept

\* So does its answer, and then the guard knows the way back.
AnswerAlone ==
    \A m \in mail : m.kind = "apply" =>
        /\ Changing = {} /\ mail = {m} /\ ui.pending = NoPreview
        /\ IF m.ok
           THEN /\ world.shown = m.n /\ m.back = world.kept
                /\ guard.armed /\ guard.of = Preview(m.n, m.back)
           ELSE world.shown = world.kept /\ ~guard.armed

\* However many reverts are asked for, each leads to what was kept.
RevertsBack ==
    /\ \A j \in Changing : j.kind = "revert" => j.of.back = world.kept
    /\ Message("revert", TRUE) \in mail => world.shown = world.kept /\ ~guard.armed

\* The guard is armed whenever something was changed, by what is pending or
\* about to be.
GuardWatches ==
    /\ world.shown # world.kept => guard.armed
    /\ guard.armed => guard.of.back = world.kept
    /\ guard.armed /\ Live =>
          ui.pending # NoPreview \/ \E m \in mail : m.kind = "apply" /\ m.ok

\* A preview that is pending is on screen until a revert of it has answered.
PendingIsShown ==
    ui.pending # NoPreview =>
        /\ ui.pending.back = world.kept
        /\ Live /\ Message("revert", TRUE) \notin mail =>
              world.shown = ui.pending.n /\ guard.armed

\* The end leaves no command, and after a revert that worked no change.
EndsClean ==
    /\ ~Live => jobs = {} /\ mail = {}
    /\ run = "ended" => world.shown = world.kept

LocalInv ==
    ~overlap /\ ~Remote =>
        /\ world.tx = 0
        /\ ApplyAlone /\ AnswerAlone /\ RevertsBack
        /\ GuardWatches /\ PendingIsShown /\ EndsClean

SessionInv == SessionTyped /\ RemoteInv /\ LocalInv

-----------------------------------------------------------------------------
(* With the daemon.                                                        *)

\* The steps that leave the screen and the transaction alone, those of the
\* daemon, and those of a terminal without one.
WorldMoves ==
    \/ UNCHANGED world
    \/ Remote /\ \E n \in Nat \ {0} : world.tx = 0 /\ world' = Previewed(n)
    \/ Remote /\ \E p \in Previews : world' = Undone(p)
    \/ /\ Asked /\ ui.pending \in Previews /\ (Remote => world.tx = ui.pending.n)
       /\ world' = Kept
    \/ ~Remote /\ world'.remote = world.remote

LEMMA StepMovesWorld == ASSUME SessionTyped, [Next]_vars PROVE WorldMoves
<1>0. /\ Asked => ui.pending \in Previews
      /\ \A j \in jobs : /\ j.kind = "apply" => j.n \in Nat \ {0}
                         /\ j.kind = "revert" => j.of \in Previews
      /\ guard.armed => guard.of \in Previews
      /\ world.tx # 0 => Preview(world.tx, 0) \in Previews
    BY DEF SessionTyped, Asked, Views, ApplyJobs, RevertJobs, SaveJobs, Previews,
           Guards, Worlds, Preview
<1>r. \A p \in Previews : Undone(p).remote = world.remote
    BY DEF SessionTyped, Undone, Worlds
<1>1. CASE MainKeys \/ DialogKeys \/ ConfirmNothing \/ RevertKey \/ KeepTooLate
             \/ DeadlinePasses \/ UNCHANGED vars
    <2>1. UNCHANGED world
        BY <1>1 DEF MainKeys, QuitKey, ApplyKey, OpensSave, SavesSelected, Resets,
                    Edits, OpensDialog, DialogKeys, InterruptKey, SaveKeys,
                    SaveEnter, SaveConfirmKeys, EditKeys, KeysKey, ConfirmNothing,
                    RevertKey, KeepTooLate, DeadlinePasses, Quiet, vars
    <2> QED BY <2>1 DEF WorldMoves
<1>2. CASE KeepKey \/ KeepFails
    BY <1>0, <1>2 DEF KeepKey, KeepFails, WorldMoves
<1>3. CASE Messages
    <2>1. UNCHANGED world
        BY <1>3 DEF Messages, TakesRefresh, TakesSave, TakesSaveError, TakesTabSave,
                    TakesApplied, TakesApplyError, TakesReverted, TakesRevertError,
                    TicksLate, Quiet
    <2> QED BY <2>1 DEF WorldMoves
<1>4. CASE ApplyBegins
    BY <1>4 DEF ApplyBegins, WorldMoves
<1>5. CASE ApplyEnds
    BY <1>5 DEF ApplyEnds, WorldMoves, SessionTyped, Worlds
<1>6. CASE RemotePreview
    BY <1>0, <1>6 DEF RemotePreview, WorldMoves
<1>7. CASE ApplyFails
    BY <1>0, <1>7 DEF ApplyFails, WorldMoves
<1>8. CASE RevertRuns
    BY <1>0, <1>r, <1>8 DEF RevertRuns, WorldMoves
<1>9. CASE RevertFails
    BY <1>0, <1>9 DEF RevertFails, WorldMoves
<1>10. CASE DaemonExpires
    BY <1>0, <1>10 DEF DaemonExpires, WorldMoves
<1>11. CASE RevertPending
    BY <1>0, <1>r, <1>11 DEF RevertPending, WorldMoves
<1> QED
    BY <1>1, <1>2, <1>3, <1>4, <1>5, <1>6, <1>7, <1>8, <1>9, <1>10, <1>11
       DEF Next, ConfirmKeys, Runs

LEMMA RemoteStep ==
    ASSUME SessionTyped, RemoteInv, WorldMoves
    PROVE  world'.remote = world.remote /\ RemoteInv'
<1>0. world \in Worlds
    BY DEF SessionTyped
<1>1. CASE UNCHANGED world
    BY <1>1 DEF RemoteInv, Remote
<1>2. ASSUME NEW n \in Nat \ {0}, Remote, world.tx = 0, world' = Previewed(n)
      PROVE  world'.remote = world.remote /\ RemoteInv'
    BY <1>0, <1>2 DEF RemoteInv, Remote, Previewed, Worlds
<1>3. ASSUME NEW p \in Previews, Remote, world' = Undone(p)
      PROVE  world'.remote = world.remote /\ RemoteInv'
    BY <1>0, <1>3 DEF RemoteInv, Remote, Undone, Worlds, Previews
<1>4. ASSUME ui.pending \in Previews, Remote => world.tx = ui.pending.n, world' = Kept
      PROVE  world'.remote = world.remote /\ RemoteInv'
    BY <1>0, <1>4 DEF RemoteInv, Remote, Kept, Worlds, Previews
<1>5. CASE ~Remote /\ world'.remote = world.remote
    BY <1>5 DEF RemoteInv, Remote
<1> QED BY <1>1, <1>2, <1>3, <1>4, <1>5 DEF WorldMoves

-----------------------------------------------------------------------------
(* Without the daemon.                                                     *)

\* A step that concerns no preview.
Idles ==
    /\ Running /\ run' \in {"running", "quitting"}
    /\ Changing' = Changing /\ UNCHANGED <<guard, mail, world, overlap>>
    /\ ui'.pending = ui.pending

\* A command is asked for: an apply, or a revert of what is pending.
BeginsApply ==
    /\ Running /\ UNCHANGED <<run, guard, mail, world>>
    /\ ui'.pending = ui.pending
    /\ Changing' = Changing \cup {Applying} /\ Begins

AsksRevert ==
    /\ Asked /\ UNCHANGED <<run, guard, mail, world>>
    /\ ui'.pending = ui.pending
    /\ Changing' = Changing \cup {Reverting(ui.pending)} /\ Overlaps({"apply"})

LEMMA SavesDoNotChange ==
    \A kind \in {"save", "tabsave"} : Job(kind).kind \notin {"apply", "revert"}
    BY DEF Job

LEMMA ChangingMoves ==
    /\ UNCHANGED jobs => Changing' = Changing
    /\ \A kind \in {"save", "tabsave"} :
         /\ jobs' = jobs \cup {Job(kind)} => Changing' = Changing
         /\ jobs' = jobs \ {Job(kind)} => Changing' = Changing
         /\ jobs' = (jobs \ {Job(kind)}) \cup {Applying} => Changing' = Changing \cup {Applying}
    /\ jobs' = jobs \cup {Applying} => Changing' = Changing \cup {Applying}
    /\ \A p : jobs' = jobs \cup {Reverting(p)} => Changing' = Changing \cup {Reverting(p)}
    /\ jobs' = {} => Changing' = {}
<1>1. Applying.kind = "apply" /\ \A p : Reverting(p).kind = "revert"
    BY DEF Applying, Reverting
<1> QED BY <1>1, SavesDoNotChange DEF Changing

LEMMA KeysIdle ==
    ASSUME SessionTyped, MainKeys \/ DialogKeys \/ ConfirmNothing
    PROVE  Idles \/ BeginsApply
<1>0. ui \in Views
    BY DEF SessionTyped
<1>1. CASE ApplyKey
    <2>1. Changing' = Changing \cup {Applying}
        BY <1>1, ChangingMoves DEF ApplyKey, Asks
    <2>2. ui'.pending = ui.pending
        BY <1>0, <1>1 DEF ApplyKey, Views
    <2> QED BY <1>1, <2>1, <2>2 DEF ApplyKey, BeginsApply, In
<1>2. CASE MainKeys /\ ~ApplyKey
    <2>1. Running /\ run' \in {"running", "quitting"} /\ UNCHANGED <<guard, mail, world, overlap>>
        BY <1>2 DEF MainKeys, QuitKey, OpensSave, SavesSelected, Resets, Edits,
                    OpensDialog, In, Running, Quits, Quiet
    <2>2. Changing' = Changing
        BY <1>2, ChangingMoves
           DEF MainKeys, QuitKey, OpensSave, SavesSelected, Resets, Edits,
               OpensDialog, Quiet, AsksSave, Asks
    <2>3. ui'.pending = ui.pending
        BY <1>0, <1>2 DEF MainKeys, QuitKey, OpensSave, SavesSelected, Resets, Edits,
                          OpensDialog, Shows, Views
    <2> QED BY <2>1, <2>2, <2>3 DEF Idles
<1>3. CASE DialogKeys \/ ConfirmNothing
    <2>1. Running /\ run' \in {"running", "quitting"} /\ UNCHANGED <<guard, mail, world, overlap>>
        BY <1>3 DEF DialogKeys, InterruptKey, SaveKeys, SaveEnter, SaveConfirmKeys,
                    EditKeys, KeysKey, ConfirmNothing, In, Running, Quits, Quiet
    <2>2. Changing' = Changing
        BY <1>3, ChangingMoves
           DEF DialogKeys, InterruptKey, SaveKeys, SaveEnter, SaveConfirmKeys,
               EditKeys, KeysKey, ConfirmNothing, Quiet, AsksSave, Asks
    <2>3. ui'.pending = ui.pending
        BY <1>0, <1>3 DEF DialogKeys, InterruptKey, SaveKeys, SaveEnter, SaveConfirmKeys,
                          EditKeys, KeysKey, ConfirmNothing, Shows, Closes, Views
    <2> QED BY <2>1, <2>2, <2>3 DEF Idles
<1> QED BY <1>1, <1>2, <1>3

LEMMA StepKinds ==
    ASSUME SessionTyped, [Next]_vars
    PROVE  \/ UNCHANGED vars \/ Idles \/ BeginsApply \/ AsksRevert
           \/ KeepKey \/ TakesApplied \/ TakesApplyError \/ TakesReverted \/ TakesRevertError
           \/ Remote \/ ApplyBegins \/ ApplyEnds \/ ApplyFails \/ RevertRuns \/ RevertFails
           \/ RevertPending
<1>0. ui \in Views
    BY DEF SessionTyped
<1>1. CASE RevertKey
    <2>1. Changing' = Changing \cup {Reverting(ui.pending)}
        BY <1>1, ChangingMoves DEF RevertKey, Asks
    <2>2. ui'.pending = ui.pending
        BY <1>0, <1>1 DEF RevertKey, Views
    <2>3. AsksRevert
        BY <1>1, <2>1, <2>2 DEF RevertKey, AsksRevert
    <2> QED BY <2>3
<1>2. CASE TicksLate
    <2>1. Changing' = Changing \cup {Reverting(ui.pending)}
        BY <1>2, ChangingMoves DEF TicksLate, Asks
    <2>2. AsksRevert
        BY <1>2, <2>1 DEF TicksLate, AsksRevert
    <2> QED BY <2>2
<1>3. CASE TakesSave
    <2>1. Running /\ UNCHANGED <<run, guard, mail, world>> /\ ui'.pending = ui.pending
        BY <1>0, <1>3 DEF TakesSave, Views
    <2>2. \/ jobs' = jobs \ {Job("save")} /\ UNCHANGED overlap
          \/ jobs' = (jobs \ {Job("save")}) \cup {Applying} /\ Begins
        BY <1>3 DEF TakesSave
    <2>3. BeginsApply \/ (Changing' = Changing /\ UNCHANGED overlap)
        BY <2>1, <2>2, ChangingMoves DEF BeginsApply
    <2>4. BeginsApply \/ Idles
        BY <2>1, <2>3 DEF Idles, Running
    <2> QED BY <2>4
<1>4. CASE TakesSaveError \/ TakesTabSave \/ TakesRefresh \/ DeadlinePasses
    <2>1. Running /\ UNCHANGED <<run, guard, mail, world, overlap>>
        BY <1>4 DEF TakesSaveError, TakesTabSave, TakesRefresh, DeadlinePasses, Quiet
    <2>2. Changing' = Changing
        BY <1>4, ChangingMoves DEF TakesSaveError, TakesTabSave, TakesRefresh, DeadlinePasses, Quiet
    <2>3. ui'.pending = ui.pending
        BY <1>0, <1>4 DEF TakesSaveError, TakesTabSave, TakesRefresh, DeadlinePasses, Views
    <2>4. Idles
        BY <2>1, <2>2, <2>3 DEF Idles, Running
    <2> QED BY <2>4
<1>5. CASE KeepTooLate \/ KeepFails \/ RemotePreview \/ DaemonExpires
    BY <1>5 DEF KeepTooLate, KeepFails, RemotePreview, DaemonExpires
<1> QED
    BY <1>1, <1>2, <1>3, <1>4, <1>5, KeysIdle DEF Next, ConfirmKeys, Messages, Runs

\* What is under way that concerns a preview.
LEMMA UnderWayIs ==
    ASSUME SessionTyped
    PROVE  /\ UnderWay({"apply", "revert"}) <=> Changing # {} \/ mail # {}
           /\ UnderWay({"apply"}) <=> \/ \E j \in Changing : j.kind = "apply"
                                      \/ \E m \in mail : m.kind = "apply"
<1>1. \A m \in mail : m.kind \in {"apply", "revert"}
    BY DEF SessionTyped, Mails
<1> QED BY <1>1 DEF UnderWay, Changing

LEMMA IdleStep ==
    ASSUME SessionTyped, LocalInv, Idles PROVE LocalInv'
<1>1. Live /\ Live' /\ run' # "ended"
    BY DEF Idles, Running, Live
<1> QED
    BY <1>1 DEF Idles, LocalInv, Remote, ApplyAlone, AnswerAlone, RevertsBack,
                GuardWatches, PendingIsShown, EndsClean

LEMMA BeginStep ==
    ASSUME SessionTyped, LocalInv, BeginsApply PROVE LocalInv'
<1> SUFFICES ASSUME ~overlap', ~Remote PROVE LocalInv'
    BY DEF LocalInv, Remote, BeginsApply
<1>1. /\ ~overlap /\ Changing = {} /\ mail = {} /\ ui.pending = NoPreview
    BY UnderWayIs DEF BeginsApply, Begins
<1>2. Live /\ Live' /\ run' # "ended" /\ run # "ended"
    BY DEF BeginsApply, Running, Live
<1>3. world.shown = world.kept /\ ~guard.armed /\ world.tx = 0
    BY <1>1, <1>2 DEF LocalInv, GuardWatches
<1>4. /\ Changing' = {Applying} /\ mail' = {} /\ ui'.pending = NoPreview
      /\ UNCHANGED <<world, guard>>
      /\ Applying.kind = "apply" /\ ~Applying.begun
    BY <1>1 DEF BeginsApply, Applying
<1> QED
    BY <1>1, <1>2, <1>3, <1>4
       DEF LocalInv, ApplyAlone, AnswerAlone, RevertsBack, GuardWatches,
           PendingIsShown, EndsClean, Remote

LEMMA AskStep ==
    ASSUME SessionTyped, LocalInv, AsksRevert PROVE LocalInv'
<1> SUFFICES ASSUME ~overlap', ~Remote PROVE LocalInv'
    BY DEF LocalInv, Remote, AsksRevert
<1>1. ~overlap /\ ui.pending # NoPreview
    BY DEF AsksRevert, Overlaps, Asked
<1>2. Live /\ Live' /\ run' # "ended" /\ run # "ended"
    BY DEF AsksRevert, Asked, In, Running, Live
<1>3. /\ Changing' = Changing \cup {Reverting(ui.pending)}
      /\ ui'.pending = ui.pending
      /\ UNCHANGED <<world, guard, mail>>
      /\ Reverting(ui.pending).kind = "revert"
      /\ Reverting(ui.pending).of = ui.pending
    BY DEF AsksRevert, Reverting
<1>4. /\ world.tx = 0 /\ RevertsBack /\ GuardWatches /\ PendingIsShown
      /\ \A j \in Changing : j.kind # "apply"
      /\ \A m \in mail : m.kind # "apply"
    BY <1>1 DEF LocalInv, ApplyAlone, AnswerAlone
<1>5. RevertsBack'
    BY <1>1, <1>3, <1>4 DEF RevertsBack, PendingIsShown
<1>6. ApplyAlone' /\ AnswerAlone' /\ EndsClean'
    BY <1>2, <1>3, <1>4 DEF ApplyAlone, AnswerAlone, EndsClean
<1>7. GuardWatches' /\ PendingIsShown'
    BY <1>2, <1>3, <1>4 DEF GuardWatches, PendingIsShown
<1> QED BY <1>3, <1>4, <1>5, <1>6, <1>7 DEF LocalInv

LEMMA KeepStep ==
    ASSUME SessionTyped, LocalInv, KeepKey PROVE LocalInv'
<1> SUFFICES ASSUME ~overlap', ~Remote' PROVE LocalInv'
    BY DEF LocalInv
<1>0. world \in Worlds /\ ui \in Views /\ guard \in Guards
    BY DEF SessionTyped
<1>1. /\ ~overlap /\ Changing = {} /\ mail = {} /\ ui.pending # NoPreview
    BY UnderWayIs DEF KeepKey, Overlaps, Asked
<1>2. /\ world'.tx = 0 /\ world'.shown = world.shown /\ world'.kept = ui.pending.n
      /\ world'.remote = world.remote
    BY <1>0 DEF KeepKey, Kept, Worlds
<1>3. Live /\ Live' /\ run' # "ended" /\ run # "ended"
    BY DEF KeepKey, Asked, In, Running, Live, Quits
<1>4. ui'.pending = NoPreview /\ ~guard'.armed /\ Changing' = {} /\ mail' = {}
    BY <1>0, <1>1, ChangingMoves DEF KeepKey, Views, Guards
<1>5. world.shown = ui.pending.n
    BY <1>1, <1>2, <1>3 DEF LocalInv, PendingIsShown, Remote
<1> QED
    BY <1>2, <1>3, <1>4, <1>5
       DEF LocalInv, ApplyAlone, AnswerAlone, RevertsBack, GuardWatches,
           PendingIsShown, EndsClean

\* The answers.
LEMMA AppliedStep ==
    ASSUME SessionTyped, LocalInv, TakesApplied PROVE LocalInv'
<1> SUFFICES ASSUME ~overlap, ~Remote PROVE LocalInv'
    BY DEF LocalInv, Remote, TakesApplied
<1> PICK m \in mail :
      /\ m.kind = "apply" /\ m.ok /\ Takes(m)
      /\ LET p == Preview(m.n, m.back) IN
         /\ ui' = [ui EXCEPT !.applying = FALSE, !.pending = p, !.mode = "confirm"]
         /\ guard' = [armed |-> TRUE, of |-> p]
         /\ UNCHANGED jobs \/ jobs' = jobs \cup {Reverting(p)}
    BY DEF TakesApplied, Asks
<1> DEFINE p == Preview(m.n, m.back)
<1>0. ui \in Views
    BY DEF SessionTyped
<1>1. /\ Changing = {} /\ mail = {m} /\ world.shown = m.n /\ m.back = world.kept
      /\ world.tx = 0
    BY DEF LocalInv, AnswerAlone
<1>2. p.n = world.shown /\ p.back = world.kept
    BY <1>1 DEF Preview
<1>3. ui'.pending = p /\ guard' = [armed |-> TRUE, of |-> p] /\ UNCHANGED world
    BY <1>0 DEF Views, TakesApplied
<1>4. /\ \A j \in Changing' : j = Reverting(p)
      /\ Reverting(p).kind = "revert" /\ Reverting(p).of = p
    BY <1>1, ChangingMoves DEF Reverting
<1>5. mail' = {} /\ Live /\ Live' /\ run' # "ended" /\ run # "ended"
    BY <1>1 DEF Takes, Running, Live, TakesApplied
<1>p. p # NoPreview
    <2>1. p \in [n : Nat, back : Nat]
        BY DEF Preview, SessionTyped, Mails
    <2> QED BY <2>1, NoPreviewAssumption
<1> HIDE DEF p
<1>6. ApplyAlone' /\ AnswerAlone' /\ RevertsBack'
    BY <1>2, <1>3, <1>4, <1>5 DEF ApplyAlone, AnswerAlone, RevertsBack
<1>7. GuardWatches' /\ PendingIsShown' /\ EndsClean'
    BY <1>2, <1>3, <1>5, <1>p DEF GuardWatches, PendingIsShown, EndsClean
<1> QED BY <1>1, <1>3, <1>6, <1>7 DEF LocalInv

LEMMA ApplyErrorStep ==
    ASSUME SessionTyped, LocalInv, TakesApplyError PROVE LocalInv'
<1> SUFFICES ASSUME ~overlap, ~Remote PROVE LocalInv'
    BY DEF LocalInv, Remote, TakesApplyError
<1> PICK m \in mail : m.kind = "apply" /\ ~m.ok /\ Takes(m)
    BY DEF TakesApplyError
<1>0. ui \in Views
    BY DEF SessionTyped
<1>1. /\ Changing = {} /\ mail = {m} /\ ui.pending = NoPreview
      /\ world.shown = world.kept /\ ~guard.armed /\ world.tx = 0
    BY DEF LocalInv, AnswerAlone
<1>2. /\ ui'.pending = NoPreview /\ Changing' = {} /\ mail' = {}
      /\ UNCHANGED <<world, guard>>
    BY <1>0, <1>1, ChangingMoves DEF TakesApplyError, Takes, Views
<1>3. Live' /\ run' # "ended"
    BY DEF TakesApplyError, Takes, Running, Live, Quits
<1> QED
    BY <1>1, <1>2, <1>3
       DEF LocalInv, ApplyAlone, AnswerAlone, RevertsBack, GuardWatches,
           PendingIsShown, EndsClean

\* An answer to a revert is no answer to an apply.
LEMMA RevertAnswers ==
    ASSUME NEW ok \in BOOLEAN
    PROVE  /\ Message("revert", ok).kind = "revert"
           /\ Message("revert", TRUE) # Message("revert", FALSE)
    BY DEF Message

LEMMA RevertedStep ==
    ASSUME SessionTyped, LocalInv, TakesReverted PROVE LocalInv'
<1> SUFFICES ASSUME ~overlap, ~Remote PROVE LocalInv'
    BY DEF LocalInv, Remote, TakesReverted
<1>0. ui \in Views /\ guard \in Guards
    BY DEF SessionTyped
<1>1. /\ Message("revert", TRUE) \in mail /\ mail' = mail \ {Message("revert", TRUE)}
      /\ Changing' = Changing /\ UNCHANGED world
      /\ ui'.pending = NoPreview /\ ~guard'.armed
    BY <1>0, ChangingMoves DEF TakesReverted, Takes, Views, Guards
<1>2. /\ world.shown = world.kept /\ world.tx = 0
      /\ \A j \in Changing : j.kind # "apply" /\ (j.kind = "revert" => j.of.back = world.kept)
      /\ \A x \in mail : x.kind # "apply"
    BY <1>1, RevertAnswers DEF LocalInv, RevertsBack, ApplyAlone, AnswerAlone
<1>3. Live' /\ run' # "ended"
    BY DEF TakesReverted, Takes, Running, Live, Quits
<1> QED
    BY <1>1, <1>2, <1>3
       DEF LocalInv, ApplyAlone, AnswerAlone, RevertsBack, GuardWatches,
           PendingIsShown, EndsClean

LEMMA RevertErrorStep ==
    ASSUME SessionTyped, LocalInv, TakesRevertError PROVE LocalInv'
<1> SUFFICES ASSUME ~overlap, ~Remote PROVE LocalInv'
    BY DEF LocalInv, Remote, TakesRevertError
<1>0. ui \in Views
    BY DEF SessionTyped
<1>1. /\ Message("revert", FALSE) \in mail /\ mail' = mail \ {Message("revert", FALSE)}
      /\ Changing' = Changing /\ UNCHANGED <<world, guard>>
      /\ ui'.pending = ui.pending
    BY <1>0, ChangingMoves DEF TakesRevertError, Takes, Views
<1>2. /\ world.tx = 0 /\ RevertsBack /\ GuardWatches /\ PendingIsShown
      /\ \A j \in Changing : j.kind # "apply"
      /\ \A x \in mail : x.kind # "apply"
    BY <1>1, RevertAnswers DEF LocalInv, ApplyAlone, AnswerAlone
<1>3. /\ Live /\ Live' /\ run' # "ended" /\ run # "ended"
      /\ Message("revert", TRUE) \in mail' <=> Message("revert", TRUE) \in mail
    BY <1>1, RevertAnswers DEF TakesRevertError, Takes, Running, Live
<1>4. RevertsBack' /\ ApplyAlone' /\ AnswerAlone' /\ EndsClean'
    BY <1>1, <1>2, <1>3 DEF RevertsBack, ApplyAlone, AnswerAlone, EndsClean
<1>5. GuardWatches' /\ PendingIsShown'
    BY <1>1, <1>2, <1>3 DEF GuardWatches, PendingIsShown
<1> QED BY <1>1, <1>2, <1>4, <1>5 DEF LocalInv

\* The commands.
LEMMA AppliedIs ==
    ASSUME NEW j, NEW back, NEW ok \in BOOLEAN
    PROVE  /\ Applied(j, back, ok).kind = "apply"
           /\ Applied(j, back, ok).ok <=> ok
           /\ Applied(j, back, ok).n = j.n
           /\ Applied(j, back, ok).back = back
           /\ Message("revert", TRUE) # Applied(j, back, ok)
<1>1. /\ Applied(j, back, ok).kind = "apply"
      /\ Applied(j, back, ok).ok <=> ok
      /\ Applied(j, back, ok).n = j.n
      /\ Applied(j, back, ok).back = back
    BY DEF Applied
<1>2. Message("revert", TRUE).kind = "revert"
    BY DEF Message
<1> QED BY <1>1, <1>2

LEMMA RunKeepsRemote ==
    ASSUME SessionTyped, Runs
    PROVE  Remote' <=> Remote
<1>0. world \in Worlds
    BY DEF SessionTyped
<1>1. \A n : Previewed(n).remote = world.remote /\ [world EXCEPT !.shown = n].remote = world.remote
    BY <1>0 DEF Previewed, Worlds
<1>2. \A p : Undone(p).remote = world.remote
    BY <1>0 DEF Undone, Worlds
<1> QED
    BY <1>1, <1>2 DEF Runs, ApplyBegins, ApplyEnds, RemotePreview, ApplyFails,
                      RevertRuns, RevertFails, Remote

LEMMA ApplyRunSteps ==
    ASSUME SessionTyped, LocalInv, ApplyBegins \/ ApplyEnds \/ ApplyFails
    PROVE  LocalInv'
<1> SUFFICES ASSUME ~overlap, ~Remote, ~Remote' PROVE LocalInv'
    <2>1. UNCHANGED overlap /\ (Remote' <=> Remote)
        BY RunKeepsRemote DEF Runs, ApplyBegins, ApplyEnds, ApplyFails
    <2> QED BY <2>1 DEF LocalInv
<1>0. /\ world \in Worlds
      /\ \A j \in jobs : j.kind = "apply" => j \in ApplyJobs
      /\ UNCHANGED <<ui, run, overlap>>
    BY DEF SessionTyped, RevertJobs, SaveJobs, ApplyBegins, ApplyEnds, ApplyFails
<1>1. ASSUME NEW j \in jobs, j.kind = "apply"
      PROVE  /\ Changing = {j} /\ mail = {} /\ ui.pending = NoPreview /\ world.tx = 0
             /\ world.shown = world.kept /\ ~guard.armed /\ (j.begun => j.back = world.kept)
             /\ Live /\ run # "ended"
    BY <1>1 DEF LocalInv, ApplyAlone, Changing, EndsClean, Live
<1>2. CASE ApplyBegins
    <2> PICK j \in jobs :
          /\ j.kind = "apply"
          /\ jobs' = (jobs \ {j}) \union {[j EXCEPT !.begun = TRUE, !.back = world.shown]}
        BY <1>2 DEF ApplyBegins
    <2> DEFINE k == [j EXCEPT !.begun = TRUE, !.back = world.shown]
    <2>1. k.kind = "apply" /\ k.back = world.shown
        BY <1>0 DEF ApplyJobs
    <2> HIDE DEF k
    <2>2. Changing' = {k} /\ UNCHANGED <<mail, world, guard>>
        BY <1>1, <1>2, <2>1 DEF Changing, ApplyBegins, k
    <2> QED
        BY <1>0, <1>1, <2>1, <2>2
           DEF LocalInv, ApplyAlone, AnswerAlone, RevertsBack, GuardWatches,
               PendingIsShown, EndsClean, Live
<1>3. CASE ApplyEnds
    <2> PICK j \in jobs :
          /\ j.kind = "apply" /\ j.begun
          /\ world' = [world EXCEPT !.shown = j.n]
          /\ guard' = [armed |-> TRUE, of |-> Preview(j.n, j.back)]
          /\ Answers(j, Applied(j, j.back, TRUE))
        BY <1>3 DEF ApplyEnds
    <2> DEFINE m == Applied(j, j.back, TRUE)
    <2>1. /\ m.kind = "apply" /\ m.ok /\ m.n = j.n /\ m.back = j.back
          /\ Message("revert", TRUE) # m
        BY AppliedIs
    <2>2. Changing' = {} /\ mail' = {m}
        BY <1>1 DEF Answers, Changing
    <2> HIDE DEF m
    <2>3. /\ world'.shown = j.n /\ world'.kept = world.kept /\ world'.tx = 0
          /\ guard'.of = Preview(j.n, j.back) /\ guard'.armed
          /\ guard'.of.back = j.back /\ j.back = world.kept
        BY <1>0, <1>1 DEF Worlds, Preview
    <2>4. Live' /\ run' # "ended" /\ ui'.pending = NoPreview
        BY <1>0, <1>1 DEF Live
    <2>5. ApplyAlone' /\ AnswerAlone' /\ RevertsBack'
        BY <2>1, <2>2, <2>3, <2>4 DEF ApplyAlone, AnswerAlone, RevertsBack
    <2>6. GuardWatches' /\ PendingIsShown' /\ EndsClean'
        BY <2>1, <2>2, <2>3, <2>4 DEF GuardWatches, PendingIsShown, EndsClean
    <2> QED BY <2>3, <2>5, <2>6 DEF LocalInv
<1>4. CASE ApplyFails
    <2> PICK j \in jobs : j.kind = "apply" /\ Answers(j, Applied(j, 0, FALSE))
        BY <1>4 DEF ApplyFails
    <2>0. UNCHANGED <<world, guard>>
        BY <1>4 DEF ApplyFails
    <2> DEFINE m == Applied(j, 0, FALSE)
    <2>1. m.kind = "apply" /\ ~m.ok /\ Message("revert", TRUE) # m
        BY AppliedIs
    <2>2. Changing' = {} /\ mail' = {m}
        BY <1>1 DEF Answers, Changing
    <2> HIDE DEF m
    <2> QED
        BY <1>0, <1>1, <2>0, <2>1, <2>2
           DEF LocalInv, ApplyAlone, AnswerAlone, RevertsBack, GuardWatches,
               PendingIsShown, EndsClean, Live
<1> QED BY <1>2, <1>3, <1>4

LEMMA RevertRunSteps ==
    ASSUME SessionTyped, LocalInv, RevertRuns \/ RevertFails
    PROVE  LocalInv'
<1> SUFFICES ASSUME ~overlap, ~Remote, ~Remote' PROVE LocalInv'
    <2>1. UNCHANGED overlap /\ (Remote' <=> Remote)
        BY RunKeepsRemote DEF Runs, RevertRuns, RevertFails
    <2> QED BY <2>1 DEF LocalInv
<1>0. world \in Worlds /\ guard \in Guards /\ UNCHANGED <<ui, run, overlap>>
    BY DEF SessionTyped, RevertRuns, RevertFails
<1>1. ASSUME NEW j \in jobs, j.kind = "revert"
      PROVE  /\ \A k \in Changing : k.kind # "apply"
             /\ \A m \in mail : m.kind # "apply"
             /\ j.of.back = world.kept /\ world.tx = 0
             /\ RevertsBack /\ GuardWatches /\ PendingIsShown
             /\ Live /\ run # "ended"
    <2>1. j \in Changing
        BY <1>1 DEF Changing
    <2> QED
        BY <1>1, <2>1 DEF LocalInv, ApplyAlone, AnswerAlone, RevertsBack,
                          EndsClean, Live
<1>2. CASE RevertRuns
    <2> PICK j \in jobs :
          /\ j.kind = "revert" /\ world' = Undone(j.of)
          /\ guard' = [guard EXCEPT !.armed = FALSE]
          /\ Answers(j, Message("revert", TRUE))
        BY <1>2 DEF RevertRuns
    <2>1. Changing' = Changing \ {j} /\ mail' = mail \cup {Message("revert", TRUE)}
        BY DEF Answers, Changing
    <2>2. /\ world'.shown = world.kept /\ world'.kept = world.kept /\ world'.tx = 0
          /\ ~guard'.armed
        BY <1>0, <1>1 DEF Undone, Worlds, Guards
    <2> QED
        BY <1>0, <1>1, <2>1, <2>2, RevertAnswers
           DEF LocalInv, ApplyAlone, AnswerAlone, RevertsBack, GuardWatches,
               PendingIsShown, EndsClean, Live
<1>3. CASE RevertFails
    <2> PICK j \in jobs : j.kind = "revert" /\ Answers(j, Message("revert", FALSE))
        BY <1>3 DEF RevertFails
    <2>1. Changing' = Changing \ {j} /\ mail' = mail \cup {Message("revert", FALSE)}
        BY DEF Answers, Changing
    <2>2. UNCHANGED <<world, guard>>
        BY <1>3 DEF RevertFails
    <2>3. Message("revert", TRUE) \in mail' => Message("revert", TRUE) \in mail
        BY <2>1, RevertAnswers
    <2>4. RevertsBack' /\ ApplyAlone' /\ AnswerAlone' /\ EndsClean'
        BY <1>0, <1>1, <2>1, <2>2, <2>3, RevertAnswers
           DEF RevertsBack, ApplyAlone, AnswerAlone, EndsClean, Live
    <2>5. Message("revert", TRUE) \in mail <=> Message("revert", TRUE) \in mail'
        BY <2>1, <2>3
    <2>6. GuardWatches' /\ PendingIsShown'
        BY <1>0, <1>1, <2>1, <2>2, <2>5 DEF GuardWatches, PendingIsShown, Live
    <2> QED BY <1>1, <2>2, <2>4, <2>6 DEF LocalInv
<1> QED BY <1>2, <1>3

LEMMA EndStep ==
    ASSUME SessionTyped, LocalInv, RevertPending PROVE LocalInv'
<1> SUFFICES ASSUME ~overlap, ~Remote, ~Remote' PROVE LocalInv'
    <2>1. world'.remote = world.remote /\ UNCHANGED overlap
        BY DEF RevertPending, Undone, SessionTyped, Worlds
    <2> QED BY <2>1 DEF LocalInv, Remote
<1>0. world \in Worlds /\ guard \in Guards
    BY DEF SessionTyped
<1>1. /\ jobs' = {} /\ mail' = {} /\ Changing' = {} /\ UNCHANGED ui
      /\ Changing = {}
    BY ChangingMoves DEF RevertPending
<1>2. world.tx = 0 /\ GuardWatches /\ PendingIsShown
    BY DEF LocalInv
<1>3. ~Live'
    BY DEF RevertPending, Live
<1>4. CASE UNCHANGED <<world, guard>> /\ (run' = "ended" => ~guard.armed)
    BY <1>1, <1>2, <1>3, <1>4
       DEF LocalInv, ApplyAlone, AnswerAlone, RevertsBack, GuardWatches,
           PendingIsShown, EndsClean
<1>5. CASE /\ guard.armed /\ world' = Undone(guard.of)
           /\ guard' = [guard EXCEPT !.armed = FALSE]
    <2>1. /\ world'.shown = world.kept /\ world'.kept = world.kept /\ world'.tx = 0
          /\ ~guard'.armed
        BY <1>0, <1>2, <1>5 DEF Undone, Worlds, Guards, GuardWatches
    <2> QED
        BY <1>1, <1>2, <1>3, <2>1
           DEF LocalInv, ApplyAlone, AnswerAlone, RevertsBack, GuardWatches,
               PendingIsShown, EndsClean
<1> QED BY <1>4, <1>5 DEF RevertPending

-----------------------------------------------------------------------------
(* The session.                                                            *)

LEMMA SessionStep ==
    ASSUME SessionInv, [Next]_vars PROVE SessionInv'
<1> USE DEF SessionInv
<1>1. SessionTyped'
    BY StepTyped
<1>2. RemoteInv' /\ world'.remote = world.remote
    BY StepMovesWorld, RemoteStep
<1>3. LocalInv'
    <2>1. CASE UNCHANGED vars
        BY <2>1 DEF vars, LocalInv, Remote, ApplyAlone, AnswerAlone, RevertsBack,
                    GuardWatches, PendingIsShown, EndsClean, Changing, Live
    <2>2. CASE Remote
        BY <1>2, <2>2 DEF Remote, LocalInv
    <2> QED
        BY <2>1, <2>2, StepKinds, IdleStep, BeginStep, AskStep, KeepStep, AppliedStep,
           ApplyErrorStep, RevertedStep, RevertErrorStep, ApplyRunSteps,
           RevertRunSteps, EndStep
<1> QED BY <1>1, <1>2, <1>3

\* Through every order of keys, answers, failures and deadlines, the guard, the
\* command under way and the daemon's transaction agree about what was kept and
\* what is to be taken back: the invariant the results below rest on.
THEOREM SessionInvHolds == Spec => []SessionInv
<1>1. Init => SessionInv
  <2> SUFFICES ASSUME Init PROVE SessionInv
      OBVIOUS
  <2>1. /\ jobs = {} /\ mail = {} /\ Changing = {} /\ ui.pending = NoPreview
        /\ world.shown = 0 /\ world.kept = 0 /\ world.tx = 0 /\ ~guard.armed
        /\ run = "running"
      BY DEF Init, Changing
  <2>2. SessionTyped
      BY InitTyped
  <2> QED
      BY <2>1, <2>2
         DEF SessionInv, RemoteInv, LocalInv, ApplyAlone, AnswerAlone, RevertsBack,
             GuardWatches, PendingIsShown, EndsClean, Live
<1>2. SessionInv /\ [Next]_vars => SessionInv'
    BY SessionStep
<1> QED BY <1>1, <1>2, PTL DEF Spec

\* A layout that nobody kept is always watched by something: its command, the
\* guard, or the daemon's deadline.
THEOREM UnkeptIsAlwaysWatched == Spec => []UnkeptIsWatched
<1>1. SessionInv => UnkeptIsWatched
    BY DEF SessionInv, RemoteInv, LocalInv, GuardWatches, UnkeptIsWatched
<1> QED BY <1>1, SessionInvHolds, PTL

\* However the program was left, from whichever dialog and with whatever under
\* way, an end without an error leaves what was kept, or the daemon's preview.
THEOREM QuitsLeaveNothing == Spec => []QuitLeavesNothing
<1>1. SessionInv => QuitLeavesNothing
    BY DEF SessionInv, RemoteInv, LocalInv, EndsClean, QuitLeavesNothing
<1> QED BY <1>1, SessionInvHolds, PTL

LEMMA KeepsShown ==
    ASSUME SessionInv, [Next]_vars, world'.kept # world.kept, ~overlap'
    PROVE  world'.kept = world.shown
<1> USE DEF SessionInv
<1>0. world \in Worlds
    BY DEF SessionTyped
<1>1. CASE Remote
    <2>1. /\ Asked /\ ui.pending \in Previews /\ world.tx = ui.pending.n /\ world' = Kept
        BY <1>0, <1>1, StepMovesWorld DEF WorldMoves, Previewed, Undone, Worlds
    <2> QED BY <1>0, <1>1, <2>1 DEF RemoteInv, Kept, Worlds, Previews
<1>2. CASE ~Remote
    <2>1. KeepKey
        <3>1. \A p : world' = Undone(p) => world'.kept = world.kept
            BY <1>0, <1>2 DEF Undone, Worlds
        <3>2. \A n : world' = [world EXCEPT !.shown = n] => world'.kept = world.kept
            BY <1>0 DEF Worlds
        <3>3. ~UNCHANGED world
            OBVIOUS
        <3>4. ~UNCHANGED vars
            BY <3>3 DEF vars
        <3>5. ~Idles /\ ~BeginsApply /\ ~AsksRevert /\ ~TakesApplied /\ ~TakesApplyError
              /\ ~TakesReverted /\ ~TakesRevertError /\ ~ApplyBegins
            BY <3>3 DEF Idles, BeginsApply, AsksRevert, TakesApplied, TakesApplyError,
                        TakesReverted, TakesRevertError, ApplyBegins
        <3>6. ~ApplyEnds /\ ~RevertRuns /\ ~RevertFails /\ ~RevertPending /\ ~ApplyFails
            BY <1>2, <3>1, <3>2, <3>3 DEF ApplyEnds, ApplyFails, RevertRuns,
                                          RevertFails, RevertPending
        <3> QED BY <1>2, <3>4, <3>5, <3>6, StepKinds
    <2>2. /\ ~overlap /\ Changing = {} /\ mail = {} /\ ui.pending # NoPreview /\ Live
        BY <2>1, UnderWayIs DEF KeepKey, Overlaps, Asked, In, Running, Live
    <2>3. world.shown = ui.pending.n
        BY <1>2, <2>2 DEF LocalInv, PendingIsShown
    <2>4. world'.kept = ui.pending.n
        BY <1>0, <2>1 DEF KeepKey, Kept, Worlds
    <2> QED BY <2>3, <2>4
<1> QED BY <1>1, <1>2

\* What is kept is what was on screen, whether the terminal keeps it itself or
\* asks a daemon whose deadline may pass in the same moment.
THEOREM KeepsWhatWasShown == Spec => KeptWasShown
<1>1. SessionInv /\ [Next]_vars =>
        [world'.kept # world.kept /\ ~overlap' => world'.kept = world.shown]_vars
    BY KeepsShown
<1> QED BY <1>1, SessionInvHolds, PTL DEF Spec, KeptWasShown

=============================================================================
