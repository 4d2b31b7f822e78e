----------------------------- MODULE ApplyEngine -----------------------------
(***************************************************************************)
(* Engine.Apply and Engine.Revert (internal/apply/apply.go), step by step,  *)
(* with the files they change: the generated monitor file, the root config  *)
(* that includes it, Omarchy's laptop toggle, its wake block, and the file  *)
(* an older version generated.                                              *)
(*                                                                          *)
(* Every file is replaced by a rename, so a file is the unit of a step; a   *)
(* step may fail, and the process may die between any two.  Meanwhile the   *)
(* user edits the root config and the wake block, the compositor reloads    *)
(* files it sees change, and displays come and go.  One call runs at a      *)
(* time: its callers hold writeMu, and the writer lock between processes.   *)
(*                                                                          *)
(* A root config is reduced to the user's text, counted in edits, whether   *)
(* that text stops a Lua reload, and where the include stands in it.        *)
(***************************************************************************)
EXTENDS Integers

CONSTANTS
  Layouts,     \* layouts a profile renders to
  Own,         \* the layout the user's own configuration gives
  NoFile,      \* no such file
  NoCopy,      \* nothing was read, or nothing was changed
  Edited,      \* a wake block the user has written in
  Clamshell,   \* the layouts that turn the built-in panel off
  Lua,         \* the root config is Lua, not hyprlang
  Omarchy,     \* Omarchy's toggle and wake configuration are there
  Upgraded,    \* an older version has generated a file of its own
  MaxCalls,    \* bound on applies
  MaxEdits,    \* bound on edits of the root config
  EditsInclude \* those edits may remove the include or bury it

Root == [text : 0..MaxEdits, bad : BOOLEAN, include : {"none", "last", "buried"},
         writable : BOOLEAN]

GeneratedFile == [layout : Layouts \cup {Own}, by : 0..MaxCalls, probe : 0..MaxCalls]

ASSUME EngineAssumption ==
  /\ NoFile \notin Layouts \cup {Own} \cup GeneratedFile
  /\ Edited \notin Layouts \cup {NoFile}
  /\ NoCopy \notin Root \cup Layouts \cup {NoFile, Edited, TRUE, FALSE}
                    \cup [file : Layouts \cup {Own, NoFile}, included : BOOLEAN]
  /\ Own \notin Layouts
  /\ Clamshell \subseteq Layouts
  /\ Lua \in BOOLEAN /\ Omarchy \in BOOLEAN /\ Upgraded \in BOOLEAN
  /\ MaxCalls \in Nat /\ MaxEdits \in Nat

VARIABLES
  \* files
  root, target, toggle, block, old,
  \* the compositor: the configuration it runs, the displays, and whether it has
  \* run the file of the call under way
  running, screen, ran,
  \* the call under way: its stage, its locals, its RevertState, the root
  \* config it read last
  pc, job, snap, read,
  \* what the last call reported, the files it found, and how many there were
  report, call, calls

files      == <<root, target, toggle, block, old>>
compositor == <<running, screen, ran>>
local      == <<job, snap, read, report, call>>
vars       == <<files, compositor, pc, local, calls>>

-----------------------------------------------------------------------------
\* A generated file: its layout, the apply that wrote it, and the Lua marker in
\* it (0 for none).
Generated(l, n, marker) == [layout |-> l, by |-> n, probe |-> marker]

\* A fresh marker each time: a reload that fails leaves the previous Lua state,
\* and the markers in it, alive.
ProbeConstant(n) == IF Lua THEN 1 ELSE 0
Probe(n) == IF Lua THEN n ELSE 0

\* What the compositor runs after a reload.  A Lua error keeps the old state;
\* an include that is not last may be overridden by what follows it.
Loads ==
  IF Lua /\ root.bad THEN {running}
  ELSE IF root.include = "none" \/ target = NoFile THEN {Generated(Own, 0, 0)}
  ELSE IF root.include = "last" THEN {target}
  ELSE {target, [target EXCEPT !.layout = Own]}

NoJob == [n |-> 0, layout |-> Own, interactive |-> FALSE, unchanged |-> FALSE,
          written |-> FALSE, saw |-> "nothing", reverting |-> FALSE,
          wakeErr |-> FALSE, cause |-> "none"]

Reloaded ==
  /\ running' \in Loads
  /\ ran' = (ran \/ (job.n # 0 /\ running'.by = job.n))

NoSnap == [target |-> NoFile, toggle |-> NoCopy, root |-> NoCopy,
           written |-> NoCopy, wake |-> NoCopy, wakeWritten |-> NoCopy,
           screen |-> Own]

\* What a call finds, whether it ever sees the displays differ, and what the
\* operation under way on its behalf, apply or revert, began with.
Seen == [file |-> IF target = NoFile THEN NoFile ELSE target.layout,
         included |-> root.include # "none"]

Found == [target |-> target, toggle |-> toggle, block |-> block, root |-> root,
          differed |-> FALSE, from |-> Seen]

NoCall == [target |-> NoFile, toggle |-> FALSE, block |-> NoFile, root |-> NoCopy,
           differed |-> FALSE, from |-> NoCopy]

Init ==
  /\ root \in [text : {0}, bad : {FALSE}, include : {"none", "last", "buried"},
               writable : BOOLEAN]
  /\ target \in {NoFile} \cup {Generated(l, 0, 0) : l \in Layouts}
  /\ root.include # "none" => target # NoFile
  /\ toggle \in {FALSE, Omarchy} /\ block = NoFile /\ old = IF Upgraded THEN "ours" ELSE "none"
  /\ \E loaded \in Loads : running = loaded
  /\ screen = running.layout /\ ran = FALSE
  /\ pc = "idle" /\ job = NoJob /\ snap = NoSnap /\ read = NoCopy
  /\ report = "none" /\ calls = 0
  /\ call = NoCall

-----------------------------------------------------------------------------
(* How a step goes on, and how it fails.                                   *)

GoTo(stage) == pc' = stage

\* rollback: every failure after the first write reverts.
Fails(cause) ==
  /\ GoTo("revRoot") /\ job' = [job EXCEPT !.cause = cause] /\ read' = NoCopy
  /\ UNCHANGED <<files, snap, report, call>>

Ends(stage, result) ==
  /\ GoTo(stage)
  /\ job' = NoJob
  /\ report' = result
  /\ call' = IF stage = "idle" THEN NoCall ELSE call

\* Revert returned an error: a failed apply ends there, while a preview keeps
\* its snapshot to try again.
Stops ==
  /\ IF job.reverting THEN Ends("applied", "stopped") /\ UNCHANGED snap
                      ELSE Ends("idle", "stopped") /\ snap' = NoSnap
  /\ read' = NoCopy
  /\ UNCHANGED files

-----------------------------------------------------------------------------
(* Apply.                                                                  *)

\* The file would not change and the displays already run it.
AlreadyThere(l) ==
  target # NoFile /\ target.layout = l /\ target.probe = 0 /\ screen = l

\* The target is written first, so that the include never names a missing file.
FirstStageLater(l) == "toggle"
FirstStage(l) == IF AlreadyThere(l) THEN "toggle" ELSE "write"

Apply(l, interactive) ==
  /\ pc = "idle" /\ calls < MaxCalls
  /\ calls' = calls + 1
  /\ job' = [NoJob EXCEPT !.n = calls', !.layout = l, !.interactive = interactive,
                          !.unchanged = AlreadyThere(l)]
  /\ snap' = [NoSnap EXCEPT !.target = target, !.screen = screen]
  /\ GoTo(FirstStage(l))
  /\ call' = Found
  /\ report' = "none" /\ ran' = FALSE
  /\ UNCHANGED <<files, running, screen, read>>

WriteTarget ==
  /\ pc = "write"
  /\ \/ /\ target' = Generated(job.layout, job.n, Probe(job.n))
        /\ job' = [job EXCEPT !.written = TRUE]
        /\ GoTo("toggle")
        /\ UNCHANGED <<root, toggle, block, old, snap, report, call>>
     \/ /\ Ends("idle", "restored") /\ snap' = NoSnap
        /\ UNCHANGED files
  /\ UNCHANGED <<compositor, read, calls>>

ToggleBeforeLate == job.layout \in Clamshell
ToggleBefore == toggle

SyncToggle ==
  /\ pc = "toggle"
  /\ \/ /\ Omarchy
        /\ toggle' = (job.layout \in Clamshell)
        /\ snap' = [snap EXCEPT !.toggle = ToggleBefore]
        /\ job' = [job EXCEPT !.unchanged = @ /\ toggle' = toggle]
        /\ GoTo("read")
        /\ UNCHANGED <<root, target, block, old, read, report, call>>
     \/ ~Omarchy /\ GoTo("read") /\ UNCHANGED <<files, local>>
     \/ Omarchy /\ Fails("error")
  /\ UNCHANGED <<compositor, calls>>

\* What follows the include: nothing to reload, a reload, or first a write
\* that was skipped while nothing seemed to change.
AfterInclude(unchanged) ==
  IF unchanged THEN "verify" ELSE IF job.written THEN "reload" ELSE "rewrite"

\* EnsureIncluded reads the root config, and leaves it if it is not ours to
\* write or ends with the include already ...
ReadRoot ==
  /\ pc = "read"
  /\ \/ /\ root.writable /\ root.include # "last"
        /\ read' = root /\ GoTo("include")
        /\ UNCHANGED <<files, job, snap, report, call>>
     \/ /\ ~root.writable \/ root.include = "last"
        /\ GoTo(AfterInclude(job.unchanged))
        /\ UNCHANGED <<files, local>>
     \/ root.writable /\ Fails("error")
  /\ UNCHANGED <<compositor, calls>>

\* ... and otherwise writes back what it read, with the include at the end.
WriteRoot ==
  /\ pc = "include"
  /\ \/ /\ root' = [read EXCEPT !.include = "last"]
        /\ snap' = [snap EXCEPT !.root = read, !.written = root']
        /\ job' = [job EXCEPT !.unchanged = FALSE]
        /\ GoTo(AfterInclude(FALSE))
        /\ read' = NoCopy
        /\ UNCHANGED <<target, toggle, block, old, report, call>>
     \/ Fails("error")
  /\ UNCHANGED <<compositor, calls>>

RewriteTarget ==
  /\ pc = "rewrite"
  /\ \/ /\ target' = Generated(job.layout, job.n, Probe(job.n))
        /\ GoTo("reload")
        /\ UNCHANGED <<root, toggle, block, old, local>>
     \/ Fails("error")
  /\ UNCHANGED <<compositor, calls>>

\* A reload that reports an error may have happened all the same.
Reload ==
  /\ pc = "reload"
  /\ Reloaded \/ UNCHANGED <<running, ran>>
  /\ \/ /\ Reloaded
        /\ GoTo(IF Lua THEN "probe" ELSE "verify")
        /\ UNCHANGED <<files, local>>
     \/ Fails("error")
  /\ UNCHANGED <<screen, calls>>

\* verifyLuaExecutionProbe: the marker tells whether the file just written ran.
CheckProbe ==
  /\ pc = "probe"
  /\ \/ /\ running.probe = Probe(job.n)
        /\ GoTo("clean")
        /\ UNCHANGED <<files, local>>
     \/ running.probe # Probe(job.n) /\ Fails("error")
     \/ Fails("busy")
  /\ UNCHANGED <<compositor, calls>>

RemoveProbe ==
  /\ pc = "clean"
  /\ \/ /\ target' = Generated(job.layout, job.n, 0)
        /\ GoTo("verify")
        /\ UNCHANGED <<root, toggle, block, old, local>>
     \/ Fails("error")
  /\ UNCHANGED <<compositor, calls>>

-----------------------------------------------------------------------------
(* waitForAppliedProfile reads the displays until they match or time is up. *)

\* An answered mismatch is definitive; a later unanswered read must not turn
\* it back into a busy compositor.
AfterNoAnswerLast(saw) == "silence"
AfterNoAnswer(saw) == IF saw = "mismatch" THEN saw ELSE "silence"

OutOfTimeNever == FALSE
OutOfTime == pc = "verify"

Matches ==
  /\ pc = "verify" /\ screen = job.layout
  /\ GoTo("live")
  /\ UNCHANGED <<files, compositor, local, calls>>

Differs ==
  /\ pc = "verify" /\ screen # job.layout
  /\ job' = [job EXCEPT !.saw = "mismatch"]
  /\ call' = [call EXCEPT !.differed = TRUE]
  /\ UNCHANGED <<files, compositor, pc, snap, read, report, calls>>

NoAnswer ==
  /\ pc = "verify"
  /\ job' = [job EXCEPT !.saw = AfterNoAnswer(@)]
  /\ UNCHANGED <<files, compositor, pc, snap, read, report, call, calls>>

\* The time is up, or the caller cancelled.
TimeOut ==
  /\ OutOfTime
  /\ \/ Fails(IF job.saw = "mismatch" THEN "mismatch" ELSE "busy")
     \/ Fails("error")
  /\ UNCHANGED <<compositor, calls>>

-----------------------------------------------------------------------------
(* The end of an apply.                                                    *)

MoveWorkspaces ==
  /\ pc = "live"
  /\ \/ GoTo("retire") /\ UNCHANGED <<files, local>>
     \/ Fails("error")
  /\ UNCHANGED <<compositor, calls>>

\* The file of an older version is emptied once its rules are served from the
\* new one, and not before a preview of them was kept.
RetiresAlways == TRUE
Retires == ~job.interactive

RetireLegacyFile ==
  /\ pc = "retire"
  /\ old' \in {old, IF Retires /\ old = "ours" THEN "notice" ELSE old}
  /\ GoTo("wake")
  /\ UNCHANGED <<root, target, toggle, block, compositor, local, calls>>

\* The wake block's file is, with Lua, the one an older version generated: no
\* block goes into it before it is retired.
WakeFileIsOld == Lua /\ old = "ours"

\* Wake settings that cannot be written do not fail the apply.  An interactive
\* one hands its RevertState to the caller, who holds it.
SyncWake ==
  /\ pc = "wake"
  /\ \/ /\ Omarchy /\ block # job.layout /\ ~WakeFileIsOld
        /\ block' = job.layout
        /\ snap' = IF job.interactive
                     THEN [snap EXCEPT !.wake = block, !.wakeWritten = block']
                     ELSE NoSnap
     \/ block' = block /\ snap' = IF job.interactive THEN snap ELSE NoSnap
  /\ Ends(IF job.interactive THEN "applied" ELSE "idle", "ok")
  /\ UNCHANGED <<root, target, toggle, old, compositor, read, calls>>

Confirm ==
  /\ pc = "applied"
  /\ GoTo("idle") /\ snap' = NoSnap /\ call' = NoCall
  /\ UNCHANGED <<files, compositor, job, read, report, calls>>

-----------------------------------------------------------------------------
(* Revert, of a preview by its owner or of an apply by itself.             *)

Revert ==
  /\ pc = "applied"
  /\ GoTo("revRoot") /\ job' = [NoJob EXCEPT !.reverting = TRUE]
  /\ call' = [call EXCEPT !.from = Seen]
  /\ UNCHANGED <<files, compositor, snap, read, report, calls>>

\* The root config is put back only if it is as this call left it, or back
\* already; an edit is kept, and with it the target it may still include.
ConflictsNever == FALSE
Conflicts == root \notin {snap.written, snap.root}

RevertReadsRoot ==
  /\ pc = "revRoot"
  /\ \/ /\ snap.root = NoCopy
        /\ GoTo("revTarget") /\ UNCHANGED <<files, local>>
     \/ /\ snap.root = root
        /\ GoTo("revTarget") /\ UNCHANGED <<files, local>>
     \/ /\ snap.root \notin {NoCopy, root} /\ ~Conflicts
        /\ read' = root /\ GoTo("revInclude")
        /\ UNCHANGED <<files, job, snap, report, call>>
     \/ snap.root # NoCopy /\ Stops
  /\ UNCHANGED <<compositor, calls>>

\* The include goes before the target it names.
RevertWritesRoot ==
  /\ pc = "revInclude"
  /\ \/ /\ root' = snap.root /\ read' = NoCopy
        /\ GoTo("revTarget")
        /\ UNCHANGED <<target, toggle, block, old, job, snap, report, call>>
     \/ Stops
  /\ UNCHANGED <<compositor, calls>>

RevertTarget ==
  /\ pc = "revTarget"
  /\ \/ /\ target' = snap.target
        /\ GoTo("revToggle")
        /\ UNCHANGED <<root, toggle, block, old, local>>
     \/ Stops
  /\ UNCHANGED <<compositor, calls>>

RestoredToggle == IF snap.toggle = NoCopy THEN toggle ELSE snap.toggle

RevertToggle ==
  /\ pc = "revToggle"
  /\ \/ /\ toggle' = RestoredToggle
        /\ GoTo("revWake")
        /\ UNCHANGED <<root, target, block, old, local>>
     \/ snap.toggle # NoCopy /\ Stops
  /\ UNCHANGED <<compositor, calls>>

\* A wake block the user wrote in meanwhile stays; the conflict is reported
\* after the displays are back.
RevertWake ==
  /\ pc = "revWake"
  /\ LET ours == snap.wakeWritten # NoCopy /\ block # snap.wake IN
       \/ /\ ours /\ block = snap.wakeWritten
          /\ block' = snap.wake /\ UNCHANGED job
       \/ /\ ours
          /\ job' = [job EXCEPT !.wakeErr = TRUE] /\ UNCHANGED block
       \/ ~ours /\ UNCHANGED <<block, job>>
  /\ GoTo("revReload")
  /\ UNCHANGED <<root, target, toggle, old, compositor, snap, read, report,
                 call, calls>>

RevertReloads ==
  /\ pc = "revReload"
  /\ Reloaded \/ UNCHANGED <<running, ran>>
  /\ \/ /\ Reloaded
        /\ GoTo("revLive") /\ UNCHANGED <<files, local>>
     \/ Stops
  /\ UNCHANGED <<screen, calls>>

\* Without Lua the displays are set back one by one; Lua has only its reload.
RevertLive ==
  /\ pc = "revLive"
  /\ screen' = IF Lua THEN screen ELSE snap.screen
  /\ \/ /\ ~job.wakeErr
        /\ Ends("idle", "restored") /\ snap' = NoSnap
        /\ UNCHANGED <<files, read>>
     \/ Stops
  /\ UNCHANGED <<running, ran, calls>>

-----------------------------------------------------------------------------
(* RemoveInclude and a reload, for Unmanage.                               *)

HandBackReads ==
  /\ pc = "idle"
  /\ root.writable /\ root.include # "none"
  /\ read' = root /\ GoTo("exclude")
  /\ UNCHANGED <<files, compositor, job, snap, report, call, calls>>

HandBackWrites ==
  /\ pc = "exclude"
  /\ \/ root' = [read EXCEPT !.include = "none"]
     \/ UNCHANGED root
  /\ GoTo("idle") /\ read' = NoCopy
  /\ UNCHANGED <<target, toggle, block, old, compositor, job, snap, report,
                 call, calls>>

-----------------------------------------------------------------------------
(* The others.                                                             *)

\* The process dies; a preview it held is not reverted by the next one.
Crash ==
  /\ pc # "idle"
  /\ GoTo("idle") /\ job' = NoJob /\ snap' = NoSnap
  /\ read' = NoCopy /\ call' = NoCall /\ report' = "none"
  /\ UNCHANGED <<files, compositor, calls>>

\* The user edits the root config: above the include, after it, or taking it
\* out; an edit may break the configuration or mend it.
EditRoot ==
  /\ root.text < MaxEdits
  /\ \E where \in {root.include}
                  \cup (IF EditsInclude THEN {"none"} ELSE {})
                  \cup (IF EditsInclude /\ root.include = "last" THEN {"buried"} ELSE {}),
        broken \in BOOLEAN :
       root' = [root EXCEPT !.text = @ + 1, !.include = where, !.bad = broken]
  /\ UNCHANGED <<target, toggle, block, old, compositor, pc, local, calls>>

EditWake ==
  /\ MaxEdits > 0 /\ Omarchy /\ block \in Layouts
  /\ block' = Edited
  /\ UNCHANGED <<root, target, toggle, old, compositor, pc, local, calls>>

\* The compositor reloads when it sees a file change, or when asked to.
CompositorReloads ==
  /\ Reloaded
  /\ UNCHANGED <<files, screen, pc, local, calls>>

\* The displays take up what the compositor runs, or show something of their
\* own: a mode is refused, a cable is pulled, another program moves them.
DisplaysChange ==
  /\ screen' \in {running.layout, Own}
  /\ UNCHANGED <<files, running, ran, pc, local, calls>>

-----------------------------------------------------------------------------
EngineStep ==
  \/ WriteTarget \/ SyncToggle \/ ReadRoot \/ WriteRoot \/ RewriteTarget
  \/ Reload \/ CheckProbe \/ RemoveProbe
  \/ Matches \/ Differs \/ NoAnswer \/ TimeOut
  \/ MoveWorkspaces \/ RetireLegacyFile \/ SyncWake
  \/ RevertReadsRoot \/ RevertWritesRoot \/ RevertTarget \/ RevertToggle
  \/ RevertWake \/ RevertReloads \/ RevertLive \/ HandBackWrites

Caller ==
  \/ \E l \in Layouts, interactive \in BOOLEAN : Apply(l, interactive)
  \/ Confirm \/ Revert \/ HandBackReads \/ Crash

Others == EditRoot \/ EditWake \/ CompositorReloads \/ DisplaysChange

Next == EngineStep \/ Caller \/ Others

Spec == Init /\ [][Next]_vars

\* A call under way goes on: each of its steps has a timeout of its own.
FairSpec == Spec /\ WF_vars(EngineStep)

-----------------------------------------------------------------------------
(* Properties.                                                             *)

Stages ==
  {"idle", "write", "toggle", "read", "include", "rewrite", "reload", "probe",
   "clean", "verify", "live", "retire", "wake", "applied", "revRoot",
   "revInclude", "revTarget", "revToggle", "revWake", "revReload", "revLive",
   "exclude"}

Applying ==
  pc \in {"write", "toggle", "read", "include", "rewrite", "reload", "probe",
          "clean", "verify", "live", "retire", "wake"}

File == GeneratedFile \cup {NoFile}

Job == [n : 0..MaxCalls, layout : Layouts \cup {Own}, interactive : BOOLEAN,
        unchanged : BOOLEAN, written : BOOLEAN,
        saw : {"nothing", "mismatch", "silence"}, reverting : BOOLEAN,
        wakeErr : BOOLEAN, cause : {"none", "error", "busy", "mismatch"}]

Snapshot == [target : File, toggle : BOOLEAN \cup {NoCopy}, root : Root \cup {NoCopy},
             written : Root \cup {NoCopy},
             wake : Layouts \cup {NoFile, Edited, NoCopy},
             wakeWritten : Layouts \cup {NoCopy}, screen : Layouts \cup {Own}]

Call == [target : File, toggle : BOOLEAN, block : Layouts \cup {NoFile, Edited},
         root : Root \cup {NoCopy}, differed : BOOLEAN,
         from : [file : Layouts \cup {Own, NoFile}, included : BOOLEAN]
                  \cup {NoCopy}]

FilesTyped ==
  /\ root \in Root /\ target \in File /\ toggle \in BOOLEAN
  /\ block \in Layouts \cup {NoFile, Edited} /\ old \in {"ours", "notice", "none"}

CompositorTyped ==
  running \in GeneratedFile /\ screen \in Layouts \cup {Own} /\ ran \in BOOLEAN

CallTyped ==
  /\ pc \in Stages /\ job \in Job /\ snap \in Snapshot /\ read \in Root \cup {NoCopy}
  /\ report \in {"none", "ok", "restored", "stopped"}
  /\ call \in Call

\* What a stage uses is there.
Defined ==
  /\ pc \in {"include", "exclude"} => read # NoCopy
  /\ pc = "revInclude" => snap.root # NoCopy
  /\ Applying => job.layout # Own
  /\ snap.wakeWritten # NoCopy => snap.wake # NoCopy

\* Every variable has its type.
TypeOK ==
  FilesTyped /\ CompositorTyped /\ CallTyped /\ Defined /\ calls \in 0..MaxCalls

Resting == pc \in {"idle", "applied"}

\* The root config includes the generated file only while that file exists:
\* no order of writes, failure, crash, edit or revert leaves a dangling include.
IncludeHasTarget == root.include # "none" => target # NoFile

\* A failed apply, and a reverted preview, that report the old state restored
\* have restored it: the generated file and the toggle, the wake block unless
\* the user wrote in it, and the root config unless the user edited it.
RestoresWhatItFound ==
  [][/\ pc \notin {"idle", "applied", "exclude"}
     /\ pc' = "idle" /\ report' = "restored"
     =>
       /\ target' = call.target /\ toggle' = call.toggle
       /\ block' \in {call.block, Edited}
       /\ root'.text = call.root.text => root' = call.root]_vars

\* An edit of the root config is lost only if it falls between the read and the
\* write of one rewrite: no rewrite starts from an older copy than the last.
EditsSurvive == [][root'.text < root.text => read # root]_vars

\* A Lua apply that reloads and then reports success has run the file it wrote:
\* a marker that an earlier file left in the Lua state never passes for its own.
SuccessMeansItRan ==
  [][Lua /\ pc = "wake" /\ ~job.unchanged /\ report' = "ok" => ran]_vars

\* The rules of the older version's file are not dropped before the file that
\* takes their place is there to stay.
RulesAreSomewhere == old = "notice" => target # NoFile

\* A call that ran out of time reports a mismatch if it ever saw one, and a busy
\* compositor, which the daemon asks again, only if it never did.
CauseIsHonest ==
  /\ job.cause = "mismatch" => call.differed
  /\ job.cause = "busy" => ~call.differed

\* Between calls the engine is AtomicApply: a call changes all it should, or
\* nothing, unless its rollback stopped or the process died in it.
Between == Resting \/ pc = "exclude"
NowSeen == IF Between THEN Seen ELSE call.from

\* The snapshot a caller holds, as it would be put back.
Held ==
  IF pc = "applied" \/ job.reverting
    THEN [file |-> IF snap.target = NoFile THEN NoFile ELSE snap.target.layout,
          included |-> (IF snap.root = NoCopy THEN root ELSE snap.root).include # "none"]
    ELSE NoCopy

Atomic == INSTANCE AtomicApply WITH
  file <- NowSeen.file, included <- NowSeen.included, held <- Held, None <- NoCopy

AtomicallyApplied == Atomic!Spec

\* Every call returns.
CallsReturn == ~Resting ~> Resting
=============================================================================
