-------------------------- MODULE ApplyEngineProofs --------------------------
(***************************************************************************)
(* Theorems about ApplyEngine, for every value of its constants.           *)
(***************************************************************************)
EXTENDS ApplyEngine, TLAPS

-----------------------------------------------------------------------------
(* Type correctness.                                                       *)

LEMMA EmptyTyped ==
  ASSUME EngineAssumption
  PROVE  NoJob \in Job /\ NoSnap \in Snapshot /\ NoCall \in Call
<1>1. NoJob \in Job
  BY DEF NoJob, Job, EngineAssumption
<1>2. NoSnap \in Snapshot
  BY DEF NoSnap, Snapshot, File
<1>3. NoCall \in Call
  BY DEF NoCall, Call, File
<1> QED BY <1>1, <1>2, <1>3

\* What a call writes and records is typed.
LEMMA WrittenTyped ==
  ASSUME EngineAssumption, TypeOK
  PROVE  /\ \A l \in Layouts \cup {Own}, n \in 0..MaxCalls, m \in 0..MaxCalls :
              Generated(l, n, m) \in GeneratedFile
         /\ \A n \in 0..MaxCalls : Probe(n) \in 0..MaxCalls
         /\ Found \in Call
         /\ Seen \in [file : Layouts \cup {Own, NoFile}, included : BOOLEAN]
<1>1. Seen \in [file : Layouts \cup {Own, NoFile}, included : BOOLEAN]
  BY DEF Seen, TypeOK, FilesTyped, File, GeneratedFile
<1>2. Found \in Call
  BY <1>1 DEF Found, Call, TypeOK, FilesTyped
<1>3. \A n \in 0..MaxCalls : Probe(n) \in 0..MaxCalls
  BY DEF Probe, EngineAssumption
<1> QED BY <1>1, <1>2, <1>3 DEF Generated, GeneratedFile

LEMMA WriteTyped ==
  ASSUME EngineAssumption, TypeOK
  PROVE  /\ Generated(job.layout, job.n, Probe(job.n)) \in GeneratedFile
         /\ Generated(job.layout, job.n, 0) \in GeneratedFile
<1>1. job.layout \in Layouts \cup {Own} /\ job.n \in 0..MaxCalls
  BY DEF TypeOK, CallTyped, Job
<1>2. Probe(job.n) \in 0..MaxCalls /\ 0 \in 0..MaxCalls
  BY <1>1 DEF Probe, EngineAssumption
<1> QED BY <1>1, <1>2, WrittenTyped

LEMMA LoadsTyped ==
  ASSUME EngineAssumption, TypeOK
  PROVE  Loads \subseteq GeneratedFile
<1>1. Generated(Own, 0, 0) \in GeneratedFile
  BY DEF Generated, GeneratedFile, EngineAssumption
<1>2. target # NoFile => /\ target \in GeneratedFile
                         /\ [target EXCEPT !.layout = Own] \in GeneratedFile
  BY DEF TypeOK, FilesTyped, File, GeneratedFile
<1>3. running \in GeneratedFile
  BY DEF TypeOK, CompositorTyped
<1> QED BY <1>1, <1>2, <1>3 DEF Loads

LEMMA ReloadedTyped ==
  ASSUME EngineAssumption, TypeOK, Reloaded
  PROVE  running' \in GeneratedFile /\ ran' \in BOOLEAN
BY LoadsTyped DEF Reloaded, TypeOK, CompositorTyped

\* Setting one field of a record of the call keeps it typed.
LEMMA FieldsTyped ==
  ASSUME TypeOK
  PROVE  /\ \A x \in BOOLEAN : /\ [job EXCEPT !.written = x] \in Job
                               /\ [job EXCEPT !.unchanged = x] \in Job
                               /\ [job EXCEPT !.wakeErr = x] \in Job
                               /\ [snap EXCEPT !.toggle = x] \in Snapshot
                               /\ [call EXCEPT !.differed = x] \in Call
         /\ \A x \in {"nothing", "mismatch", "silence"} : [job EXCEPT !.saw = x] \in Job
         /\ \A r, w \in Root : [snap EXCEPT !.root = r, !.written = w] \in Snapshot
         /\ \A x \in Layouts \cup {NoFile, Edited}, w \in Layouts :
              [snap EXCEPT !.wake = x, !.wakeWritten = w] \in Snapshot
<1>1. job \in Job /\ snap \in Snapshot /\ call \in Call
  BY DEF TypeOK, CallTyped
<1>2. \A x \in BOOLEAN : /\ [job EXCEPT !.written = x] \in Job
                         /\ [job EXCEPT !.unchanged = x] \in Job
                         /\ [job EXCEPT !.wakeErr = x] \in Job
  BY <1>1 DEF Job
<1>3. \A x \in {"nothing", "mismatch", "silence"} : [job EXCEPT !.saw = x] \in Job
  BY <1>1 DEF Job
<1>4. \A x \in BOOLEAN : [snap EXCEPT !.toggle = x] \in Snapshot
  BY <1>1 DEF Snapshot
<1>5. \A r, w \in Root : [snap EXCEPT !.root = r, !.written = w] \in Snapshot
  BY <1>1 DEF Snapshot
<1>6. \A x \in Layouts \cup {NoFile, Edited}, w \in Layouts :
        [snap EXCEPT !.wake = x, !.wakeWritten = w] \in Snapshot
  BY <1>1 DEF Snapshot
<1>7. \A x \in BOOLEAN : [call EXCEPT !.differed = x] \in Call
  BY <1>1 DEF Call
<1> QED BY <1>2, <1>3, <1>4, <1>5, <1>6, <1>7

\* Its fields are typed.
LEMMA PartsTyped ==
  ASSUME TypeOK
  PROVE  /\ job.layout \in Layouts \cup {Own} /\ job.n \in 0..MaxCalls
         /\ job.saw \in {"nothing", "mismatch", "silence"}
         /\ snap.target \in File /\ snap.toggle \in BOOLEAN \cup {NoCopy}
         /\ snap.root \in Root \cup {NoCopy}
         /\ snap.wake \in Layouts \cup {NoFile, Edited, NoCopy}
         /\ snap.screen \in Layouts \cup {Own}
BY DEF TypeOK, CallTyped, Job, Snapshot

LEMMA FailsTyped ==
  ASSUME TypeOK, NEW cause \in {"error", "busy", "mismatch"}, Fails(cause)
  PROVE  FilesTyped' /\ CallTyped'
<1>1. job' \in Job
  BY DEF Fails, TypeOK, CallTyped, Job
<1> QED BY <1>1 DEF Fails, GoTo, files, TypeOK, FilesTyped, CallTyped, Stages

LEMMA EndsTyped ==
  ASSUME EngineAssumption, TypeOK, NEW stage \in {"idle", "applied"},
         NEW result \in {"ok", "restored", "stopped"}, Ends(stage, result)
  PROVE  /\ pc' \in Stages /\ job' \in Job /\ call' \in Call
         /\ report' \in {"none", "ok", "restored", "stopped"}
BY EmptyTyped DEF Ends, GoTo, TypeOK, CallTyped, Stages

LEMMA StopsTyped ==
  ASSUME EngineAssumption, TypeOK, Stops
  PROVE  FilesTyped' /\ CallTyped'
<1>1. /\ pc' \in Stages /\ job' \in Job /\ call' \in Call
      /\ report' \in {"none", "ok", "restored", "stopped"}
  BY EndsTyped DEF Stops
<1>2. snap' \in Snapshot
  BY EmptyTyped DEF Stops, TypeOK, CallTyped
<1> QED BY <1>1, <1>2 DEF Stops, files, TypeOK, FilesTyped, CallTyped

LEMMA InitTyped == EngineAssumption /\ Init => TypeOK
<1> SUFFICES ASSUME EngineAssumption, Init PROVE TypeOK
  OBVIOUS
<1>1. FilesTyped
  <2>1. root \in Root
    <3>1. 0 \in 0..MaxEdits
      BY DEF EngineAssumption
    <3>2. root \in [text : {0}, bad : {FALSE}, include : {"none", "last", "buried"},
                    writable : BOOLEAN]
      BY DEF Init
    <3> QED BY <3>1, <3>2 DEF Root
  <2>2. target \in File
    BY DEF Init, File, Generated, GeneratedFile, EngineAssumption
  <2>3. toggle \in BOOLEAN
    BY DEF Init, EngineAssumption
  <2> QED BY <2>1, <2>2, <2>3 DEF Init, FilesTyped
<1>2. running \in GeneratedFile
  <2>1. ~root.bad
    BY DEF Init
  <2>2. Generated(Own, 0, 0) \in GeneratedFile
    BY DEF Generated, GeneratedFile, EngineAssumption
  <2>3. target # NoFile => /\ target \in GeneratedFile
                           /\ [target EXCEPT !.layout = Own] \in GeneratedFile
    BY <1>1 DEF FilesTyped, File, GeneratedFile
  <2> QED BY <2>1, <2>2, <2>3 DEF Init, Loads
<1>3. CompositorTyped
  BY <1>2 DEF Init, CompositorTyped, GeneratedFile
<1>4. CallTyped
  BY EmptyTyped DEF Init, CallTyped, Stages
<1>5. Defined
  BY DEF Init, Defined, Applying, NoSnap
<1> QED BY <1>1, <1>3, <1>4, <1>5 DEF Init, TypeOK, EngineAssumption

\* A step that leaves the compositor alone.
LEMMA CompositorKept ==
  ASSUME TypeOK, UNCHANGED <<compositor, calls>>
  PROVE  CompositorTyped' /\ calls' \in 0..MaxCalls
BY DEF TypeOK, CompositorTyped, compositor

LEMMA NextTyped ==
  ASSUME EngineAssumption, TypeOK, [Next]_vars
  PROVE  TypeOK'
<1>1. CASE WriteTarget
  <2>1. FilesTyped' /\ CallTyped'
    <3>1. FilesTyped'
      BY <1>1, WriteTyped DEF WriteTarget, Ends, files, TypeOK, FilesTyped, File
    <3>2. pc' \in Stages /\ job' \in Job /\ snap' \in Snapshot
      BY <1>1, FieldsTyped, EmptyTyped
         DEF WriteTarget, Ends, GoTo, Stages, TypeOK, CallTyped
    <3>3. /\ read' \in Root \cup {NoCopy} /\ call' \in Call
          /\ report' \in {"none", "ok", "restored", "stopped"}
      BY <1>1, EmptyTyped DEF WriteTarget, Ends, TypeOK, CallTyped
    <3> QED BY <3>1, <3>2, <3>3 DEF CallTyped
  <2>2. CompositorTyped' /\ calls' \in 0..MaxCalls
    BY <1>1, CompositorKept DEF WriteTarget
  <2>3. Defined'
    BY <1>1, EmptyTyped DEF WriteTarget, Ends, NoJob, NoSnap, TypeOK, CallTyped,
       Defined, Applying, GoTo, Job, Snapshot, local
  <2> QED BY <2>1, <2>2, <2>3 DEF TypeOK
<1>2. CASE SyncToggle
  <2>1. FilesTyped' /\ CallTyped'
    <3>1. CASE Fails("error")
      BY <3>1, FailsTyped
    <3>2. CASE ~Fails("error")
      <4>1. toggle \in BOOLEAN /\ toggle' \in BOOLEAN
        <5>1. toggle \in BOOLEAN
          BY DEF TypeOK, FilesTyped
        <5>2. toggle' = toggle \/ toggle' = (job.layout \in Clamshell)
          BY <1>2, <3>2 DEF SyncToggle, files
        <5>3. CASE job.layout \in Clamshell
          <6>1. (job.layout \in Clamshell) = TRUE
            BY <5>3
          <6>2. toggle' \in {toggle, TRUE}
            BY <5>2, <6>1
          <6> QED BY <5>1, <6>2
        <5>4. CASE job.layout \notin Clamshell
          <6>1. (job.layout \in Clamshell) = FALSE
            BY <5>4
          <6>2. toggle' \in {toggle, FALSE}
            BY <5>2, <6>1
          <6> QED BY <5>1, <6>2
        <5> QED BY <5>3, <5>4
      <4>2. job.unchanged \in BOOLEAN
        BY DEF TypeOK, CallTyped, Job
      <4>3. job' \in Job /\ snap' \in Snapshot
        <5>1. (job.unchanged /\ toggle' = toggle) \in BOOLEAN
          BY <4>2
        <5>2. CASE UNCHANGED <<files, local>>
          BY <5>2 DEF local, TypeOK, CallTyped
        <5>3. CASE /\ job' = [job EXCEPT !.unchanged = @ /\ toggle' = toggle]
                   /\ snap' = [snap EXCEPT !.toggle = ToggleBefore]
          BY <4>1, <5>1, <5>3, FieldsTyped DEF ToggleBefore
        <5> QED BY <1>2, <3>2, <5>2, <5>3 DEF SyncToggle
      <4> QED BY <1>2, <3>2, <4>1, <4>3
              DEF SyncToggle, TypeOK, FilesTyped, CallTyped, GoTo, Stages, files, local
    <3> QED BY <3>1, <3>2
  <2>2. CompositorTyped' /\ calls' \in 0..MaxCalls
    BY <1>2, CompositorKept DEF SyncToggle
  <2>3. Defined'
    BY <1>2, EmptyTyped DEF SyncToggle, Fails, TypeOK, CallTyped, Defined, Applying,
       GoTo, Job, Snapshot, local
  <2> QED BY <2>1, <2>2, <2>3 DEF TypeOK
<1>3. CASE ReadRoot
  <2>1. FilesTyped' /\ CallTyped'
    <3>1. CASE Fails("error")
      BY <3>1, FailsTyped
    <3>2. CASE ~Fails("error")
      BY <1>3, <3>2, FieldsTyped, PartsTyped DEF ReadRoot, TypeOK, FilesTyped,
         CallTyped, GoTo, Stages, files, local, AfterInclude
    <3> QED BY <3>1, <3>2
  <2>2. CompositorTyped' /\ calls' \in 0..MaxCalls
    BY <1>3, CompositorKept DEF ReadRoot
  <2>3. Defined'
    BY <1>3 DEF ReadRoot, Fails, AfterInclude, TypeOK, EngineAssumption,
       FilesTyped, CallTyped, files, Defined, Applying, GoTo, Job, Snapshot, local
  <2> QED BY <2>1, <2>2, <2>3 DEF TypeOK
<1>4. CASE WriteRoot
  <2>1. FilesTyped' /\ CallTyped'
    <3>1. CASE Fails("error")
      BY <3>1, FailsTyped
    <3>2. CASE ~Fails("error")
      <4>1. read \in Root
        BY <1>4 DEF WriteRoot, TypeOK, CallTyped, Defined
      <4>2. root' \in Root
        BY <1>4, <3>2, <4>1 DEF WriteRoot, Root
      <4>3. job' \in Job /\ snap' \in Snapshot
        <5>1. /\ job' = [job EXCEPT !.unchanged = FALSE]
              /\ snap' = [snap EXCEPT !.root = read, !.written = root']
          BY <1>4, <3>2 DEF WriteRoot
        <5>2. [job EXCEPT !.unchanged = FALSE] \in Job
          BY FieldsTyped
        <5>3. [snap EXCEPT !.root = read, !.written = root'] \in Snapshot
          BY <4>1, <4>2, FieldsTyped
        <5> QED BY <5>1, <5>2, <5>3
      <4> QED BY <1>4, <3>2, <4>1, <4>2, <4>3 DEF WriteRoot, TypeOK,
         FilesTyped, CallTyped, GoTo, Stages, AfterInclude
    <3> QED BY <3>1, <3>2
  <2>2. CompositorTyped' /\ calls' \in 0..MaxCalls
    BY <1>4, CompositorKept DEF WriteRoot
  <2>3. Defined'
    <3>1. snap \in Snapshot /\ job \in Job
      BY DEF TypeOK, CallTyped
    <3>2. /\ snap'.wake = snap.wake /\ snap'.wakeWritten = snap.wakeWritten
          /\ job'.layout = job.layout
      BY <1>4, <3>1 DEF WriteRoot, Fails, Snapshot, Job
    <3>3. pc' \in {"reload", "rewrite", "revRoot"} /\ pc = "include"
      BY <1>4 DEF WriteRoot, Fails, GoTo, AfterInclude
    <3> QED BY <3>2, <3>3 DEF TypeOK, Defined, Applying
  <2> QED BY <2>1, <2>2, <2>3 DEF TypeOK
<1>5. CASE RewriteTarget
  <2>1. FilesTyped' /\ CallTyped'
    <3>1. CASE Fails("error")
      BY <3>1, FailsTyped
    <3>2. CASE ~Fails("error")
      BY <1>5, <3>2, WriteTyped DEF RewriteTarget, TypeOK,
         FilesTyped, CallTyped, GoTo, Stages, files, local, File
    <3> QED BY <3>1, <3>2
  <2>2. CompositorTyped' /\ calls' \in 0..MaxCalls
    BY <1>5, CompositorKept DEF RewriteTarget
  <2>3. Defined'
    BY <1>5, EmptyTyped DEF RewriteTarget, Fails, TypeOK, CallTyped, Defined,
       Applying, GoTo, Job, Snapshot, local
  <2> QED BY <2>1, <2>2, <2>3 DEF TypeOK
<1>6. CASE Reload
  <2>1. FilesTyped' /\ CallTyped'
    <3>1. CASE Fails("error")
      BY <3>1, FailsTyped
    <3>2. CASE ~Fails("error")
      BY <1>6, <3>2 DEF Reload, TypeOK, FilesTyped, CallTyped, GoTo, Stages,
         files, local
    <3> QED BY <3>1, <3>2
  <2>2. CompositorTyped' /\ calls' \in 0..MaxCalls
    BY <1>6, ReloadedTyped DEF Reload, TypeOK, CompositorTyped, compositor
  <2>3. Defined'
    BY <1>6, EmptyTyped DEF Reload, Fails, TypeOK, CallTyped, Defined, Applying,
       GoTo, Job, Snapshot, local
  <2> QED BY <2>1, <2>2, <2>3 DEF TypeOK
<1>7. CASE CheckProbe
  <2>1. FilesTyped' /\ CallTyped'
    <3>1. CASE Fails("error") \/ Fails("busy")
      BY <3>1, FailsTyped
    <3>2. CASE ~(Fails("error") \/ Fails("busy"))
      BY <1>7, <3>2 DEF CheckProbe, TypeOK, FilesTyped, CallTyped, GoTo, Stages,
         files, local
    <3> QED BY <3>1, <3>2
  <2>2. CompositorTyped' /\ calls' \in 0..MaxCalls
    BY <1>7, CompositorKept DEF CheckProbe
  <2>3. Defined'
    BY <1>7, EmptyTyped DEF CheckProbe, Fails, TypeOK, CallTyped, Defined, Applying,
       GoTo, Job, Snapshot, local
  <2> QED BY <2>1, <2>2, <2>3 DEF TypeOK
<1>8. CASE RemoveProbe
  <2>1. FilesTyped' /\ CallTyped'
    <3>1. CASE Fails("error")
      BY <3>1, FailsTyped
    <3>2. CASE ~Fails("error")
      BY <1>8, <3>2, WriteTyped DEF RemoveProbe, TypeOK,
         FilesTyped, CallTyped, GoTo, Stages, files, local, File
    <3> QED BY <3>1, <3>2
  <2>2. CompositorTyped' /\ calls' \in 0..MaxCalls
    BY <1>8, CompositorKept DEF RemoveProbe
  <2>3. Defined'
    BY <1>8, EmptyTyped DEF RemoveProbe, Fails, TypeOK, CallTyped, Defined,
       Applying, GoTo, Job, Snapshot, local
  <2> QED BY <2>1, <2>2, <2>3 DEF TypeOK
<1>9. CASE Matches
  <2>1. FilesTyped' /\ CallTyped'
    BY <1>9 DEF Matches, TypeOK, FilesTyped, CallTyped, GoTo, Stages, files,
       local
  <2>2. CompositorTyped' /\ calls' \in 0..MaxCalls
    BY <1>9, CompositorKept DEF Matches
  <2>3. Defined'
    BY <1>9, EmptyTyped DEF Matches, TypeOK, CallTyped, Defined, Applying, GoTo, Job,
       Snapshot, local
  <2> QED BY <2>1, <2>2, <2>3 DEF TypeOK
<1>10. CASE Differs
  <2>1. FilesTyped' /\ CallTyped'
    BY <1>10, FieldsTyped DEF Differs, TypeOK, FilesTyped, CallTyped, GoTo,
       Stages, files, local
  <2>2. CompositorTyped' /\ calls' \in 0..MaxCalls
    BY <1>10, CompositorKept DEF Differs
  <2>3. Defined'
    BY <1>10, EmptyTyped DEF Differs, TypeOK, CallTyped, Defined, Applying, GoTo, Job,
       Snapshot, local
  <2> QED BY <2>1, <2>2, <2>3 DEF TypeOK
<1>11. CASE NoAnswer
  <2>1. FilesTyped' /\ CallTyped'
    BY <1>11, FieldsTyped, PartsTyped DEF NoAnswer, TypeOK, FilesTyped,
       CallTyped, GoTo, Stages, files, local, AfterNoAnswer
  <2>2. CompositorTyped' /\ calls' \in 0..MaxCalls
    BY <1>11, CompositorKept DEF NoAnswer
  <2>3. Defined'
    BY <1>11, EmptyTyped DEF NoAnswer, TypeOK, CallTyped, Defined, Applying, GoTo, Job,
       Snapshot, local
  <2> QED BY <2>1, <2>2, <2>3 DEF TypeOK
<1>12. CASE TimeOut
  <2>1. FilesTyped' /\ CallTyped'
    BY <1>12, FailsTyped DEF TimeOut
  <2>2. CompositorTyped' /\ calls' \in 0..MaxCalls
    BY <1>12, CompositorKept DEF TimeOut
  <2>3. Defined'
    BY <1>12, EmptyTyped DEF TimeOut, Fails, TypeOK, CallTyped, Defined, Applying,
       GoTo, Job, Snapshot, local
  <2> QED BY <2>1, <2>2, <2>3 DEF TypeOK
<1>13. CASE MoveWorkspaces
  <2>1. FilesTyped' /\ CallTyped'
    <3>1. CASE Fails("error")
      BY <3>1, FailsTyped
    <3>2. CASE ~Fails("error")
      BY <1>13, <3>2 DEF MoveWorkspaces, TypeOK, FilesTyped, CallTyped, GoTo,
         Stages, files, local
    <3> QED BY <3>1, <3>2
  <2>2. CompositorTyped' /\ calls' \in 0..MaxCalls
    BY <1>13, CompositorKept DEF MoveWorkspaces
  <2>3. Defined'
    BY <1>13, EmptyTyped DEF MoveWorkspaces, Fails, TypeOK, CallTyped, Defined,
       Applying, GoTo, Job, Snapshot, local
  <2> QED BY <2>1, <2>2, <2>3 DEF TypeOK
<1>14. CASE RetireLegacyFile
  <2>1. FilesTyped' /\ CallTyped'
    BY <1>14 DEF RetireLegacyFile, TypeOK, FilesTyped, CallTyped, GoTo, Stages,
       files, local
  <2>2. CompositorTyped' /\ calls' \in 0..MaxCalls
    BY <1>14, CompositorKept DEF RetireLegacyFile
  <2>3. Defined'
    BY <1>14, EmptyTyped DEF RetireLegacyFile, TypeOK, CallTyped, Defined, Applying,
       GoTo, Job, Snapshot, local
  <2> QED BY <2>1, <2>2, <2>3 DEF TypeOK
<1>15. CASE SyncWake
  <2>1. FilesTyped' /\ CallTyped'
    <3>1. /\ pc' \in Stages /\ job' \in Job /\ call' \in Call
          /\ report' \in {"none", "ok", "restored", "stopped"}
      BY <1>15, EndsTyped DEF SyncWake
    <3>2. block' \in Layouts \cup {NoFile, Edited} /\ snap' \in Snapshot
      <4>1. job.layout \in Layouts /\ block \in Layouts \cup {NoFile, Edited}
        BY <1>15, PartsTyped DEF SyncWake, TypeOK, FilesTyped, Defined, Applying
      <4>2. snap' \in {snap, NoSnap, [snap EXCEPT !.wake = block,
                                                  !.wakeWritten = job.layout]}
        BY <1>15 DEF SyncWake
      <4>3. block' \in {block, job.layout}
        BY <1>15 DEF SyncWake
      <4>4. [snap EXCEPT !.wake = block, !.wakeWritten = job.layout] \in Snapshot
        BY <4>1, FieldsTyped
      <4>5. snap \in Snapshot /\ NoSnap \in Snapshot
        BY EmptyTyped DEF TypeOK, CallTyped
      <4> QED BY <4>1, <4>2, <4>3, <4>4, <4>5
    <3> QED BY <1>15, <3>1, <3>2 DEF SyncWake, TypeOK, FilesTyped, CallTyped
  <2>2. CompositorTyped' /\ calls' \in 0..MaxCalls
    BY <1>15, CompositorKept DEF SyncWake
  <2>3. Defined'
    <3>1. /\ block # NoCopy /\ snap \in Snapshot
          /\ snap.wakeWritten # NoCopy => snap.wake # NoCopy
      BY DEF TypeOK, FilesTyped, CallTyped, Defined, EngineAssumption
    <3>2. snap' \in {snap, NoSnap, [snap EXCEPT !.wake = block,
                                                !.wakeWritten = job.layout]}
      BY <1>15 DEF SyncWake
    <3>3. snap'.wakeWritten # NoCopy => snap'.wake # NoCopy
      <4>1. CASE snap' = NoSnap
        BY <4>1 DEF NoSnap
      <4>2. CASE snap' = [snap EXCEPT !.wake = block, !.wakeWritten = job.layout]
        BY <3>1, <4>2 DEF Snapshot
      <4> QED BY <3>1, <3>2, <4>1, <4>2
    <3>4. pc' \in {"idle", "applied"}
      BY <1>15 DEF SyncWake, Ends, GoTo
    <3> QED BY <3>3, <3>4 DEF Defined, Applying
  <2> QED BY <2>1, <2>2, <2>3 DEF TypeOK
<1>16. CASE RevertReadsRoot
  <2>1. FilesTyped' /\ CallTyped'
    <3>1. CASE Stops
      BY <3>1, StopsTyped
    <3>2. CASE ~Stops
      BY <1>16, <3>2 DEF RevertReadsRoot, TypeOK, FilesTyped, CallTyped, GoTo,
         Stages, files, local
    <3> QED BY <3>1, <3>2
  <2>2. CompositorTyped' /\ calls' \in 0..MaxCalls
    BY <1>16, CompositorKept DEF RevertReadsRoot
  <2>3. Defined'
    BY <1>16, EmptyTyped DEF RevertReadsRoot, Stops, Ends, NoJob, NoSnap, Root,
       TypeOK, CallTyped, Defined, Applying, GoTo, Job, Snapshot, local
  <2> QED BY <2>1, <2>2, <2>3 DEF TypeOK
<1>17. CASE RevertWritesRoot
  <2>1. FilesTyped' /\ CallTyped'
    <3>1. CASE Stops
      BY <3>1, StopsTyped
    <3>2. CASE ~Stops
      <4>1. snap.root \in Root
        BY <1>17, PartsTyped DEF RevertWritesRoot, TypeOK, Defined
      <4> QED BY <1>17, <3>2, <4>1
              DEF RevertWritesRoot, TypeOK, FilesTyped, CallTyped, GoTo, Stages
    <3> QED BY <3>1, <3>2
  <2>2. CompositorTyped' /\ calls' \in 0..MaxCalls
    BY <1>17, CompositorKept DEF RevertWritesRoot
  <2>3. Defined'
    BY <1>17, EmptyTyped DEF RevertWritesRoot, Stops, Ends, NoJob, NoSnap, Root,
       TypeOK, CallTyped, Defined, Applying, GoTo, Job, Snapshot, local
  <2> QED BY <2>1, <2>2, <2>3 DEF TypeOK
<1>18. CASE RevertTarget
  <2>1. FilesTyped' /\ CallTyped'
    <3>1. CASE Stops
      BY <3>1, StopsTyped
    <3>2. CASE ~Stops
      BY <1>18, <3>2, PartsTyped DEF RevertTarget, TypeOK, FilesTyped,
         CallTyped, GoTo, Stages, files, local
    <3> QED BY <3>1, <3>2
  <2>2. CompositorTyped' /\ calls' \in 0..MaxCalls
    BY <1>18, CompositorKept DEF RevertTarget
  <2>3. Defined'
    BY <1>18, EmptyTyped DEF RevertTarget, Stops, Ends, NoJob, NoSnap, Root,
       TypeOK, CallTyped, Defined, Applying, GoTo, Job, Snapshot, local
  <2> QED BY <2>1, <2>2, <2>3 DEF TypeOK
<1>19. CASE RevertToggle
  <2>1. FilesTyped' /\ CallTyped'
    <3>1. CASE Stops
      BY <3>1, StopsTyped
    <3>2. CASE ~Stops
      BY <1>19, <3>2, PartsTyped DEF RevertToggle, TypeOK, FilesTyped,
         CallTyped, GoTo, Stages, files, local, RestoredToggle
    <3> QED BY <3>1, <3>2
  <2>2. CompositorTyped' /\ calls' \in 0..MaxCalls
    BY <1>19, CompositorKept DEF RevertToggle
  <2>3. Defined'
    BY <1>19, EmptyTyped DEF RevertToggle, Stops, Ends, NoJob, NoSnap, Root,
       TypeOK, CallTyped, Defined, Applying, GoTo, Job, Snapshot, local
  <2> QED BY <2>1, <2>2, <2>3 DEF TypeOK
<1>20. CASE RevertWake
  <2>1. FilesTyped' /\ CallTyped'
    <3>1. block' \in Layouts \cup {NoFile, Edited}
      BY <1>20, PartsTyped DEF RevertWake, TypeOK, FilesTyped, Defined
    <3>2. job' \in Job
      BY <1>20, FieldsTyped DEF RevertWake, TypeOK, CallTyped
    <3> QED BY <1>20, <3>1, <3>2 DEF RevertWake, TypeOK, FilesTyped, CallTyped,
       GoTo, Stages
  <2>2. CompositorTyped' /\ calls' \in 0..MaxCalls
    BY <1>20, CompositorKept DEF RevertWake
  <2>3. Defined'
    BY <1>20, EmptyTyped DEF RevertWake, TypeOK, CallTyped, Defined, Applying, GoTo, Job,
       Snapshot, local
  <2> QED BY <2>1, <2>2, <2>3 DEF TypeOK
<1>21. CASE RevertReloads
  <2>1. FilesTyped' /\ CallTyped'
    <3>1. CASE Stops
      BY <3>1, StopsTyped
    <3>2. CASE ~Stops
      BY <1>21, <3>2 DEF RevertReloads, TypeOK, FilesTyped, CallTyped, GoTo,
         Stages, files, local
    <3> QED BY <3>1, <3>2
  <2>2. CompositorTyped' /\ calls' \in 0..MaxCalls
    BY <1>21, ReloadedTyped DEF RevertReloads, TypeOK, CompositorTyped,
       compositor
  <2>3. Defined'
    BY <1>21, EmptyTyped DEF RevertReloads, Stops, Ends, NoJob, NoSnap, Root,
       TypeOK, CallTyped, Defined, Applying, GoTo, Job, Snapshot, local
  <2> QED BY <2>1, <2>2, <2>3 DEF TypeOK
<1>22. CASE RevertLive
  <2>1. FilesTyped' /\ CallTyped'
    <3>1. CASE Stops
      BY <3>1, StopsTyped
    <3>2. CASE ~Stops
      BY <1>22, <3>2, EndsTyped, EmptyTyped DEF RevertLive, TypeOK, FilesTyped,
         CallTyped, GoTo, Stages, files, local
    <3> QED BY <3>1, <3>2
  <2>2. CompositorTyped' /\ calls' \in 0..MaxCalls
    BY <1>22, PartsTyped DEF RevertLive, TypeOK, CompositorTyped
  <2>3. Defined'
    BY <1>22, EmptyTyped DEF RevertLive, Stops, Ends, NoJob, NoSnap, TypeOK,
       CallTyped, Defined, Applying, GoTo, Job, Snapshot, local
  <2> QED BY <2>1, <2>2, <2>3 DEF TypeOK
<1>23. CASE HandBackWrites
  <2>1. FilesTyped' /\ CallTyped'
    <3>1. root' \in Root
      BY <1>23 DEF HandBackWrites, TypeOK, FilesTyped, CallTyped, Defined, Root
    <3> QED BY <1>23, <3>1 DEF HandBackWrites, TypeOK, FilesTyped, CallTyped,
       GoTo, Stages, files, local
  <2>2. CompositorTyped' /\ calls' \in 0..MaxCalls
    BY <1>23, CompositorKept DEF HandBackWrites
  <2>3. Defined'
    BY <1>23, EmptyTyped DEF HandBackWrites, TypeOK, CallTyped, Defined, Applying,
       GoTo, Job, Snapshot, local
  <2> QED BY <2>1, <2>2, <2>3 DEF TypeOK
<1>24. CASE Confirm
  <2>1. FilesTyped' /\ CallTyped'
    BY <1>24, EmptyTyped DEF Confirm, TypeOK, FilesTyped, CallTyped, GoTo,
       Stages, files, local
  <2>2. CompositorTyped' /\ calls' \in 0..MaxCalls
    BY <1>24, CompositorKept DEF Confirm
  <2>3. Defined'
    BY <1>24, EmptyTyped DEF Confirm, NoJob, NoSnap, TypeOK, CallTyped, Defined,
       Applying, GoTo, Job, Snapshot, local
  <2> QED BY <2>1, <2>2, <2>3 DEF TypeOK
<1>25. CASE Revert
  <2>1. FilesTyped' /\ CallTyped'
    <3>1. job' \in Job
      BY <1>25, EmptyTyped DEF Revert, Job, NoJob
    <3>2. call' \in Call
      BY <1>25, WrittenTyped DEF Revert, TypeOK, CallTyped, Call
    <3> QED BY <1>25, <3>1, <3>2 DEF Revert, files, TypeOK, FilesTyped,
       CallTyped, GoTo, Stages
  <2>2. CompositorTyped' /\ calls' \in 0..MaxCalls
    BY <1>25, CompositorKept DEF Revert
  <2>3. Defined'
    BY <1>25, EmptyTyped DEF Revert, NoJob, TypeOK, CallTyped, Defined, Applying,
       GoTo, Job, Snapshot, local
  <2> QED BY <2>1, <2>2, <2>3 DEF TypeOK
<1>26. CASE HandBackReads
  <2>1. FilesTyped' /\ CallTyped'
    BY <1>26 DEF HandBackReads, TypeOK, FilesTyped, CallTyped, GoTo, Stages,
       files, local
  <2>2. CompositorTyped' /\ calls' \in 0..MaxCalls
    BY <1>26, CompositorKept DEF HandBackReads
  <2>3. Defined'
    BY <1>26 DEF HandBackReads, TypeOK, FilesTyped, EngineAssumption,
       CallTyped, Defined, Applying,
       GoTo, Job, Snapshot, local
  <2> QED BY <2>1, <2>2, <2>3 DEF TypeOK
<1>27. CASE Crash
  <2>1. FilesTyped' /\ CallTyped'
    BY <1>27, EmptyTyped DEF Crash, TypeOK, FilesTyped, CallTyped, GoTo, Stages,
       files, local
  <2>2. CompositorTyped' /\ calls' \in 0..MaxCalls
    BY <1>27, CompositorKept DEF Crash
  <2>3. Defined'
    BY <1>27, EmptyTyped DEF Crash, NoJob, NoSnap, TypeOK, CallTyped, Defined,
       Applying, GoTo, Job, Snapshot, local
  <2> QED BY <2>1, <2>2, <2>3 DEF TypeOK
<1>28. CASE EditRoot
  <2>1. FilesTyped' /\ CallTyped'
    <3>1. root' \in Root
      <4>1. root \in Root /\ root.text + 1 \in 0..MaxEdits
        BY <1>28 DEF EditRoot, TypeOK, FilesTyped, Root, EngineAssumption
      <4>2. PICK where \in {"none", "last", "buried"}, broken \in BOOLEAN :
              root' = [root EXCEPT !.text = @ + 1, !.include = where, !.bad = broken]
        BY <1>28, <4>1 DEF EditRoot, Root
      <4> QED BY <4>1, <4>2 DEF Root
    <3> QED BY <1>28, <3>1 DEF EditRoot, TypeOK, FilesTyped, CallTyped, GoTo,
       Stages, files, local
  <2>2. CompositorTyped' /\ calls' \in 0..MaxCalls
    BY <1>28, CompositorKept DEF EditRoot
  <2>3. Defined'
    BY <1>28, EmptyTyped DEF EditRoot, TypeOK, CallTyped, Defined, Applying, GoTo, Job,
       Snapshot, local
  <2> QED BY <2>1, <2>2, <2>3 DEF TypeOK
<1>29. CASE EditWake
  <2>1. FilesTyped' /\ CallTyped'
    BY <1>29 DEF EditWake, TypeOK, FilesTyped, CallTyped, GoTo, Stages, files,
       local
  <2>2. CompositorTyped' /\ calls' \in 0..MaxCalls
    BY <1>29, CompositorKept DEF EditWake
  <2>3. Defined'
    BY <1>29, EmptyTyped DEF EditWake, TypeOK, CallTyped, Defined, Applying, GoTo, Job,
       Snapshot, local
  <2> QED BY <2>1, <2>2, <2>3 DEF TypeOK
<1>30. CASE CompositorReloads
  <2>1. FilesTyped' /\ CallTyped'
    BY <1>30 DEF CompositorReloads, TypeOK, FilesTyped, CallTyped, GoTo, Stages,
       files, local
  <2>2. CompositorTyped' /\ calls' \in 0..MaxCalls
    BY <1>30, ReloadedTyped DEF CompositorReloads, TypeOK, CompositorTyped,
       compositor
  <2>3. Defined'
    BY <1>30, EmptyTyped DEF CompositorReloads, TypeOK, CallTyped, Defined,
       Applying, GoTo, Job, Snapshot, local
  <2> QED BY <2>1, <2>2, <2>3 DEF TypeOK
<1>31. CASE DisplaysChange
  <2>1. FilesTyped' /\ CallTyped'
    BY <1>31 DEF DisplaysChange, TypeOK, FilesTyped, CallTyped, GoTo, Stages,
       files, local
  <2>2. CompositorTyped' /\ calls' \in 0..MaxCalls
    BY <1>31 DEF DisplaysChange, TypeOK, CompositorTyped, GeneratedFile
  <2>3. Defined'
    BY <1>31, EmptyTyped DEF DisplaysChange, TypeOK, CallTyped, Defined, Applying,
       GoTo, Job, Snapshot, local
  <2> QED BY <2>1, <2>2, <2>3 DEF TypeOK
<1>32. CASE \E l \in Layouts, interactive \in BOOLEAN : Apply(l, interactive)
  <2> PICK l \in Layouts, interactive \in BOOLEAN : Apply(l, interactive)
    BY <1>32
  <2>1. calls' \in 0..MaxCalls
    BY DEF Apply, TypeOK, EngineAssumption
  <2>2. AlreadyThere(l) \in BOOLEAN
    BY DEF AlreadyThere
  <2>3. job' \in Job
    BY <2>1, <2>2, EmptyTyped DEF Apply, Job, NoJob
  <2>4. snap' \in Snapshot
    BY EmptyTyped DEF Apply, Snapshot, NoSnap, TypeOK, FilesTyped,
       CompositorTyped
  <2>5. CallTyped'
    BY <2>3, <2>4, WrittenTyped DEF Apply, FirstStage, GoTo, Stages, TypeOK,
       CallTyped
  <2>6. Defined'
    BY <2>3, <2>4, EmptyTyped DEF Apply, NoJob, NoSnap, FirstStage, GoTo,
       Defined, EngineAssumption
  <2> QED BY <2>1, <2>5, <2>6 DEF Apply, TypeOK, FilesTyped, CompositorTyped,
     files
<1>33. CASE UNCHANGED vars
  BY <1>33 DEF vars, TypeOK, FilesTyped, CompositorTyped, CallTyped, Defined,
     Applying, files, compositor, local
<1> QED
  BY <1>1, <1>2, <1>3, <1>4, <1>5, <1>6, <1>7, <1>8, <1>9, <1>10, <1>11, <1>12,
     <1>13, <1>14, <1>15, <1>16, <1>17, <1>18, <1>19, <1>20, <1>21, <1>22,
     <1>23, <1>24, <1>25, <1>26, <1>27, <1>28, <1>29, <1>30, <1>31, <1>32, <1>33
     DEF Next, EngineStep, Caller, Others
\* Every variable of the engine keeps its type, and what a stage uses is there.
THEOREM EngineTypeCorrect == Spec => []TypeOK
<1>1. Init => TypeOK
  BY InitTyped, EngineAssumption
<1>2. TypeOK /\ [Next]_vars => TypeOK'
  BY NextTyped, EngineAssumption
<1> QED BY <1>1, <1>2, PTL DEF Spec

-----------------------------------------------------------------------------
(* The include and its target.                                             *)

AfterWrite == Applying /\ pc # "write"
InCall == pc \notin {"idle", "exclude"}

\* While a call may still go back to no generated file, the root config it goes
\* back to includes none, and before that is in place the file stays.
IncludeInv ==
  /\ IncludeHasTarget
  /\ AfterWrite => target # NoFile
  /\ InCall /\ snap.target # NoFile => target # NoFile
  /\ pc \in {"write", "toggle", "read", "include"} => snap.root = NoCopy
  /\ InCall /\ snap.target = NoFile =>
       /\ snap.root = NoCopy => root.include = "none"
       /\ snap.root # NoCopy => snap.root.include = "none"
       /\ pc = "include" => read.include = "none"
       /\ pc = "revTarget" => root.include = "none"

\* Every type the steps below rely on.
LEMMA Fields ==
  ASSUME EngineAssumption, TypeOK
  PROVE  /\ root \in Root
         /\ snap \in Snapshot /\ job \in Job /\ call \in Call
         /\ snap.root \in Root \cup {NoCopy} /\ read \in Root \cup {NoCopy}
         /\ NoCopy \notin Root
         /\ Generated(job.layout, job.n, Probe(job.n)) # NoFile
         /\ Generated(job.layout, job.n, 0) # NoFile
         /\ pc \in {"include", "exclude"} => read \in Root
         /\ pc = "revInclude" => snap.root \in Root
<1>1. NoFile \notin GeneratedFile /\ NoCopy \notin Root
  BY DEF EngineAssumption
<1>2. /\ root \in Root /\ snap \in Snapshot /\ job \in Job /\ call \in Call
      /\ read \in Root \cup {NoCopy}
  BY DEF TypeOK, FilesTyped, CallTyped
<1>3. snap.root \in Root \cup {NoCopy}
  BY <1>2 DEF Snapshot
<1>4. /\ pc \in {"include", "exclude"} => read \in Root
      /\ pc = "revInclude" => snap.root \in Root
  BY <1>2, <1>3 DEF TypeOK, Defined
<1> QED BY <1>1, <1>2, <1>3, <1>4, WriteTyped

LEMMA IncludeStep ==
  ASSUME EngineAssumption, TypeOK, IncludeInv, [Next]_vars
  PROVE  IncludeInv'
<1>0. /\ root \in Root /\ snap \in Snapshot /\ job \in Job
      /\ snap.root \in Root \cup {NoCopy} /\ read \in Root \cup {NoCopy}
      /\ NoCopy \notin Root
      /\ Generated(job.layout, job.n, Probe(job.n)) # NoFile
      /\ Generated(job.layout, job.n, 0) # NoFile
      /\ pc \in {"include", "exclude"} => read \in Root
      /\ pc = "revInclude" => snap.root \in Root
  BY Fields
<1>1. CASE WriteTarget
  BY <1>0, <1>1 DEF WriteTarget, Ends, NoSnap, NoJob, NoCall, GoTo, files,
     compositor, local, IncludeInv, IncludeHasTarget, AfterWrite, InCall,
     Applying, Snapshot, Job, Root
<1>2. CASE SyncToggle
  BY <1>0, <1>2 DEF SyncToggle, Fails, GoTo, files, compositor, local,
     IncludeInv, IncludeHasTarget, AfterWrite, InCall, Applying, Snapshot, Job,
     Root
<1>3. CASE ReadRoot
  BY <1>0, <1>3 DEF ReadRoot, Fails, AfterInclude, GoTo, files, compositor,
     local, IncludeInv, IncludeHasTarget, AfterWrite, InCall, Applying,
     Snapshot, Job, Root
<1>4. CASE WriteRoot
  <2>1. CASE pc' = "revRoot"
    <3>1. pc = "include" /\ UNCHANGED <<root, target, snap>>
      BY <1>4, <2>1 DEF WriteRoot, Fails, AfterInclude, GoTo, files
    <3> QED BY <2>1, <3>1 DEF IncludeInv, IncludeHasTarget, AfterWrite, InCall, Applying
  <2>2. CASE pc' # "revRoot"
    <3>1. /\ pc = "include" /\ pc' \in {"reload", "rewrite"} /\ target' = target
          /\ root' = [read EXCEPT !.include = "last"]
          /\ snap' = [snap EXCEPT !.root = read, !.written = root']
      BY <1>4, <2>2 DEF WriteRoot, Fails, AfterInclude, GoTo
    <3>2. /\ root'.include = "last" /\ snap'.root = read /\ snap'.root # NoCopy
          /\ snap'.target = snap.target
      BY <1>0, <3>1 DEF Root, Snapshot
    <3> QED BY <3>1, <3>2 DEF IncludeInv, IncludeHasTarget, AfterWrite, InCall, Applying
  <2> QED BY <2>1, <2>2
<1>5. CASE RewriteTarget
  BY <1>0, <1>5 DEF RewriteTarget, Fails, GoTo, files, compositor, local,
     IncludeInv, IncludeHasTarget, AfterWrite, InCall, Applying, Snapshot, Job,
     Root
<1>6. CASE Reload
  BY <1>0, <1>6 DEF Reload, Fails, Reloaded, GoTo, files, compositor, local,
     IncludeInv, IncludeHasTarget, AfterWrite, InCall, Applying, Snapshot, Job,
     Root
<1>7. CASE CheckProbe
  BY <1>0, <1>7 DEF CheckProbe, Fails, GoTo, files, compositor, local,
     IncludeInv, IncludeHasTarget, AfterWrite, InCall, Applying, Snapshot, Job,
     Root
<1>8. CASE RemoveProbe
  BY <1>0, <1>8 DEF RemoveProbe, Fails, GoTo, files, compositor, local,
     IncludeInv, IncludeHasTarget, AfterWrite, InCall, Applying, Snapshot, Job,
     Root
<1>9. CASE Matches
  BY <1>0, <1>9 DEF Matches, GoTo, files, compositor, local, IncludeInv,
     IncludeHasTarget, AfterWrite, InCall, Applying, Snapshot, Job, Root
<1>10. CASE Differs
  BY <1>0, <1>10 DEF Differs, GoTo, files, compositor, local, IncludeInv,
     IncludeHasTarget, AfterWrite, InCall, Applying, Snapshot, Job, Root
<1>11. CASE NoAnswer
  BY <1>0, <1>11 DEF NoAnswer, GoTo, files, compositor, local, IncludeInv,
     IncludeHasTarget, AfterWrite, InCall, Applying, Snapshot, Job, Root
<1>12. CASE TimeOut
  BY <1>0, <1>12 DEF TimeOut, Fails, OutOfTime, GoTo, files, compositor, local,
     IncludeInv, IncludeHasTarget, AfterWrite, InCall, Applying, Snapshot, Job,
     Root
<1>13. CASE MoveWorkspaces
  BY <1>0, <1>13 DEF MoveWorkspaces, Fails, GoTo, files, compositor, local,
     IncludeInv, IncludeHasTarget, AfterWrite, InCall, Applying, Snapshot, Job,
     Root
<1>14. CASE RetireLegacyFile
  BY <1>0, <1>14 DEF RetireLegacyFile, GoTo, files, compositor, local,
     IncludeInv, IncludeHasTarget, AfterWrite, InCall, Applying, Snapshot, Job,
     Root
<1>15. CASE SyncWake
  <2>1. UNCHANGED <<root, target, read>> /\ pc = "wake" /\ pc' \in {"idle", "applied"}
    BY <1>15 DEF SyncWake, Ends, GoTo
  <2>2. \/ pc' = "idle"
        \/ snap'.target = snap.target /\ snap'.root = snap.root
    BY <1>0, <1>15 DEF SyncWake, Ends, GoTo, Snapshot
  <2> QED BY <2>1, <2>2
             DEF IncludeInv, IncludeHasTarget, AfterWrite, InCall, Applying
<1>16. CASE RevertReadsRoot
  BY <1>0, <1>16 DEF RevertReadsRoot, Stops, Ends, NoSnap, NoJob, NoCall, GoTo,
     files, compositor, local, IncludeInv, IncludeHasTarget, AfterWrite, InCall,
     Applying, Snapshot, Job, Root
<1>17. CASE RevertWritesRoot
  BY <1>0, <1>17 DEF RevertWritesRoot, Stops, Ends, NoSnap, NoJob, NoCall, GoTo,
     files, compositor, local, IncludeInv, IncludeHasTarget, AfterWrite, InCall,
     Applying, Snapshot, Job, Root
<1>18. CASE RevertTarget
  BY <1>0, <1>18 DEF RevertTarget, Stops, Ends, NoSnap, NoJob, NoCall, GoTo,
     files, compositor, local, IncludeInv, IncludeHasTarget, AfterWrite, InCall,
     Applying, Snapshot, Job, Root
<1>19. CASE RevertToggle
  BY <1>0, <1>19 DEF RevertToggle, Stops, Ends, NoSnap, NoJob, NoCall, GoTo,
     files, compositor, local, IncludeInv, IncludeHasTarget, AfterWrite, InCall,
     Applying, Snapshot, Job, Root
<1>20. CASE RevertWake
  BY <1>0, <1>20 DEF RevertWake, GoTo, files, compositor, local, IncludeInv,
     IncludeHasTarget, AfterWrite, InCall, Applying, Snapshot, Job, Root
<1>21. CASE RevertReloads
  BY <1>0, <1>21 DEF RevertReloads, Stops, Ends, NoSnap, NoJob, NoCall,
     Reloaded, GoTo, files, compositor, local, IncludeInv, IncludeHasTarget,
     AfterWrite, InCall, Applying, Snapshot, Job, Root
<1>22. CASE RevertLive
  BY <1>0, <1>22 DEF RevertLive, Stops, Ends, NoSnap, NoJob, NoCall, GoTo,
     files, compositor, local, IncludeInv, IncludeHasTarget, AfterWrite, InCall,
     Applying, Snapshot, Job, Root
<1>23. CASE HandBackWrites
  BY <1>0, <1>23 DEF HandBackWrites, GoTo, files, compositor, local, IncludeInv,
     IncludeHasTarget, AfterWrite, InCall, Applying, Snapshot, Job, Root
<1>24. CASE Confirm
  BY <1>0, <1>24 DEF Confirm, Ends, NoSnap, NoJob, NoCall, GoTo, files,
     compositor, local, IncludeInv, IncludeHasTarget, AfterWrite, InCall,
     Applying, Snapshot, Job, Root
<1>25. CASE Revert
  BY <1>0, <1>25 DEF Revert, Ends, NoSnap, NoJob, NoCall, GoTo, files,
     compositor, local, IncludeInv, IncludeHasTarget, AfterWrite, InCall,
     Applying, Snapshot, Job, Root
<1>26. CASE HandBackReads
  BY <1>0, <1>26 DEF HandBackReads, GoTo, files, compositor, local, IncludeInv,
     IncludeHasTarget, AfterWrite, InCall, Applying, Snapshot, Job, Root
<1>27. CASE Crash
  BY <1>0, <1>27 DEF Crash, Ends, NoSnap, NoJob, NoCall, GoTo, files,
     compositor, local, IncludeInv, IncludeHasTarget, AfterWrite, InCall,
     Applying, Snapshot, Job, Root
<1>28. CASE EditRoot
  BY <1>0, <1>28 DEF EditRoot, GoTo, files, compositor, local, IncludeInv,
     IncludeHasTarget, AfterWrite, InCall, Applying, Snapshot, Job, Root
<1>29. CASE EditWake
  BY <1>0, <1>29 DEF EditWake, GoTo, files, compositor, local, IncludeInv,
     IncludeHasTarget, AfterWrite, InCall, Applying, Snapshot, Job, Root
<1>30. CASE CompositorReloads
  BY <1>0, <1>30 DEF CompositorReloads, Reloaded, GoTo, files, compositor,
     local, IncludeInv, IncludeHasTarget, AfterWrite, InCall, Applying,
     Snapshot, Job, Root
<1>31. CASE DisplaysChange
  BY <1>0, <1>31 DEF DisplaysChange, GoTo, files, compositor, local, IncludeInv,
     IncludeHasTarget, AfterWrite, InCall, Applying, Snapshot, Job, Root
<1>32. CASE \E l \in Layouts, interactive \in BOOLEAN : Apply(l, interactive)
  BY <1>0, <1>32 DEF Apply, FirstStage, AlreadyThere, GoTo, files, NoJob,
     NoSnap, Found, IncludeInv, IncludeHasTarget, AfterWrite, InCall, Applying,
     Snapshot, Job, Root
<1>33. CASE UNCHANGED vars
  BY <1>33 DEF vars, files, compositor, local, IncludeInv, IncludeHasTarget,
     AfterWrite, InCall, Applying, Snapshot, Job, Root
<1> QED
  BY <1>1, <1>2, <1>3, <1>4, <1>5, <1>6, <1>7, <1>8, <1>9, <1>10, <1>11, <1>12,
     <1>13, <1>14, <1>15, <1>16, <1>17, <1>18, <1>19, <1>20, <1>21, <1>22,
     <1>23, <1>24, <1>25, <1>26, <1>27, <1>28, <1>29, <1>30, <1>31, <1>32, <1>33
     DEF Next, EngineStep, Caller, Others

\* IncludeInv holds in every reachable state.
LEMMA IncludeInvHolds == Spec => []IncludeInv
<1>1. Init => IncludeInv
  BY EngineAssumption DEF Init, IncludeInv, IncludeHasTarget, AfterWrite,
     Applying, InCall
<1>2. TypeOK /\ IncludeInv /\ [Next]_vars => IncludeInv'
  BY IncludeStep, EngineAssumption
<1> QED BY <1>1, <1>2, EngineTypeCorrect, PTL DEF Spec

\* Whatever fails, crashes or is edited between any two writes, the root config
\* never includes a generated file that is not there.
THEOREM NoDanglingInclude == Spec => []IncludeHasTarget
<1>1. IncludeInv => IncludeHasTarget
  BY DEF IncludeInv
<1> QED BY <1>1, IncludeInvHolds, PTL

-----------------------------------------------------------------------------
(* The older version's rules.                                              *)

\* Once the older file is retired, no call can still go back to no file.
RulesInv ==
  /\ RulesAreSomewhere
  /\ InCall /\ old = "notice" =>
       snap.target # NoFile \/ (pc = "wake" /\ ~job.interactive)

LEMMA RulesStep ==
  ASSUME EngineAssumption, TypeOK, IncludeInv, RulesInv, [Next]_vars
  PROVE  RulesInv'
<1>0. /\ root \in Root /\ snap \in Snapshot /\ job \in Job
      /\ snap.root \in Root \cup {NoCopy} /\ read \in Root \cup {NoCopy}
      /\ NoCopy \notin Root
      /\ Generated(job.layout, job.n, Probe(job.n)) # NoFile
      /\ Generated(job.layout, job.n, 0) # NoFile
      /\ pc \in {"include", "exclude"} => read \in Root
      /\ pc = "revInclude" => snap.root \in Root
  BY Fields
<1>1. CASE WriteTarget
  BY <1>0, <1>1 DEF WriteTarget, Ends, NoSnap, NoJob, NoCall, GoTo, files,
     compositor, local, IncludeInv, RulesInv, RulesAreSomewhere, AfterWrite,
     InCall, Applying, Snapshot, Job, Root
<1>2. CASE SyncToggle
  BY <1>0, <1>2 DEF SyncToggle, Fails, GoTo, files, compositor, local,
     IncludeInv, RulesInv, RulesAreSomewhere, AfterWrite, InCall, Applying,
     Snapshot, Job, Root
<1>3. CASE ReadRoot
  BY <1>0, <1>3 DEF ReadRoot, Fails, AfterInclude, GoTo, files, compositor,
     local, IncludeInv, RulesInv, RulesAreSomewhere, AfterWrite, InCall,
     Applying, Snapshot, Job, Root
<1>4. CASE WriteRoot
  BY <1>0, <1>4 DEF WriteRoot, Fails, AfterInclude, GoTo, files, compositor,
     local, IncludeInv, RulesInv, RulesAreSomewhere, AfterWrite, InCall,
     Applying, Snapshot, Job, Root
<1>5. CASE RewriteTarget
  BY <1>0, <1>5 DEF RewriteTarget, Fails, GoTo, files, compositor, local,
     IncludeInv, RulesInv, RulesAreSomewhere, AfterWrite, InCall, Applying,
     Snapshot, Job, Root
<1>6. CASE Reload
  BY <1>0, <1>6 DEF Reload, Fails, Reloaded, GoTo, files, compositor, local,
     IncludeInv, RulesInv, RulesAreSomewhere, AfterWrite, InCall, Applying,
     Snapshot, Job, Root
<1>7. CASE CheckProbe
  BY <1>0, <1>7 DEF CheckProbe, Fails, GoTo, files, compositor, local,
     IncludeInv, RulesInv, RulesAreSomewhere, AfterWrite, InCall, Applying,
     Snapshot, Job, Root
<1>8. CASE RemoveProbe
  BY <1>0, <1>8 DEF RemoveProbe, Fails, GoTo, files, compositor, local,
     IncludeInv, RulesInv, RulesAreSomewhere, AfterWrite, InCall, Applying,
     Snapshot, Job, Root
<1>9. CASE Matches
  BY <1>0, <1>9 DEF Matches, GoTo, files, compositor, local, IncludeInv,
     RulesInv, RulesAreSomewhere, AfterWrite, InCall, Applying, Snapshot, Job,
     Root
<1>10. CASE Differs
  BY <1>0, <1>10 DEF Differs, GoTo, files, compositor, local, IncludeInv,
     RulesInv, RulesAreSomewhere, AfterWrite, InCall, Applying, Snapshot, Job,
     Root
<1>11. CASE NoAnswer
  BY <1>0, <1>11 DEF NoAnswer, GoTo, files, compositor, local, IncludeInv,
     RulesInv, RulesAreSomewhere, AfterWrite, InCall, Applying, Snapshot, Job,
     Root
<1>12. CASE TimeOut
  BY <1>0, <1>12 DEF TimeOut, Fails, OutOfTime, GoTo, files, compositor, local,
     IncludeInv, RulesInv, RulesAreSomewhere, AfterWrite, InCall, Applying,
     Snapshot, Job, Root
<1>13. CASE MoveWorkspaces
  BY <1>0, <1>13 DEF MoveWorkspaces, Fails, GoTo, files, compositor, local,
     IncludeInv, RulesInv, RulesAreSomewhere, AfterWrite, InCall, Applying,
     Snapshot, Job, Root
<1>14. CASE RetireLegacyFile
  BY <1>0, <1>14 DEF RetireLegacyFile, GoTo, files, compositor, local,
     IncludeInv, RulesInv, RulesAreSomewhere, AfterWrite, InCall, Applying,
     Snapshot, Job, Root, Retires
<1>15. CASE SyncWake
  <2>1. UNCHANGED <<target, old>> /\ pc = "wake" /\ pc' \in {"idle", "applied"}
    BY <1>15 DEF SyncWake, Ends, GoTo
  <2>2. \/ pc' = "idle"
        \/ job.interactive /\ snap'.target = snap.target
    BY <1>0, <1>15 DEF SyncWake, Ends, GoTo, Snapshot
  <2> QED BY <2>1, <2>2 DEF RulesInv, RulesAreSomewhere, InCall
<1>16. CASE RevertReadsRoot
  BY <1>0, <1>16 DEF RevertReadsRoot, Stops, Ends, NoSnap, NoJob, NoCall, GoTo,
     files, compositor, local, IncludeInv, RulesInv, RulesAreSomewhere,
     AfterWrite, InCall, Applying, Snapshot, Job, Root
<1>17. CASE RevertWritesRoot
  BY <1>0, <1>17 DEF RevertWritesRoot, Stops, Ends, NoSnap, NoJob, NoCall, GoTo,
     files, compositor, local, IncludeInv, RulesInv, RulesAreSomewhere,
     AfterWrite, InCall, Applying, Snapshot, Job, Root
<1>18. CASE RevertTarget
  BY <1>0, <1>18 DEF RevertTarget, Stops, Ends, NoSnap, NoJob, NoCall, GoTo,
     files, compositor, local, IncludeInv, RulesInv, RulesAreSomewhere,
     AfterWrite, InCall, Applying, Snapshot, Job, Root
<1>19. CASE RevertToggle
  BY <1>0, <1>19 DEF RevertToggle, Stops, Ends, NoSnap, NoJob, NoCall, GoTo,
     files, compositor, local, IncludeInv, RulesInv, RulesAreSomewhere,
     AfterWrite, InCall, Applying, Snapshot, Job, Root
<1>20. CASE RevertWake
  BY <1>0, <1>20 DEF RevertWake, GoTo, files, compositor, local, IncludeInv,
     RulesInv, RulesAreSomewhere, AfterWrite, InCall, Applying, Snapshot, Job,
     Root
<1>21. CASE RevertReloads
  BY <1>0, <1>21 DEF RevertReloads, Stops, Ends, NoSnap, NoJob, NoCall,
     Reloaded, GoTo, files, compositor, local, IncludeInv, RulesInv,
     RulesAreSomewhere, AfterWrite, InCall, Applying, Snapshot, Job, Root
<1>22. CASE RevertLive
  BY <1>0, <1>22 DEF RevertLive, Stops, Ends, NoSnap, NoJob, NoCall, GoTo,
     files, compositor, local, IncludeInv, RulesInv, RulesAreSomewhere,
     AfterWrite, InCall, Applying, Snapshot, Job, Root
<1>23. CASE HandBackWrites
  BY <1>0, <1>23 DEF HandBackWrites, GoTo, files, compositor, local, IncludeInv,
     RulesInv, RulesAreSomewhere, AfterWrite, InCall, Applying, Snapshot, Job,
     Root
<1>24. CASE Confirm
  BY <1>0, <1>24 DEF Confirm, Ends, NoSnap, NoJob, NoCall, GoTo, files,
     compositor, local, IncludeInv, RulesInv, RulesAreSomewhere, AfterWrite,
     InCall, Applying, Snapshot, Job, Root
<1>25. CASE Revert
  BY <1>0, <1>25 DEF Revert, Ends, NoSnap, NoJob, NoCall, GoTo, files,
     compositor, local, IncludeInv, RulesInv, RulesAreSomewhere, AfterWrite,
     InCall, Applying, Snapshot, Job, Root
<1>26. CASE HandBackReads
  BY <1>0, <1>26 DEF HandBackReads, GoTo, files, compositor, local, IncludeInv,
     RulesInv, RulesAreSomewhere, AfterWrite, InCall, Applying, Snapshot, Job,
     Root
<1>27. CASE Crash
  BY <1>0, <1>27 DEF Crash, Ends, NoSnap, NoJob, NoCall, GoTo, files,
     compositor, local, IncludeInv, RulesInv, RulesAreSomewhere, AfterWrite,
     InCall, Applying, Snapshot, Job, Root
<1>28. CASE EditRoot
  BY <1>0, <1>28 DEF EditRoot, GoTo, files, compositor, local, IncludeInv,
     RulesInv, RulesAreSomewhere, AfterWrite, InCall, Applying, Snapshot, Job,
     Root
<1>29. CASE EditWake
  BY <1>0, <1>29 DEF EditWake, GoTo, files, compositor, local, IncludeInv,
     RulesInv, RulesAreSomewhere, AfterWrite, InCall, Applying, Snapshot, Job,
     Root
<1>30. CASE CompositorReloads
  BY <1>0, <1>30 DEF CompositorReloads, Reloaded, GoTo, files, compositor,
     local, IncludeInv, RulesInv, RulesAreSomewhere, AfterWrite, InCall,
     Applying, Snapshot, Job, Root
<1>31. CASE DisplaysChange
  BY <1>0, <1>31 DEF DisplaysChange, GoTo, files, compositor, local, IncludeInv,
     RulesInv, RulesAreSomewhere, AfterWrite, InCall, Applying, Snapshot, Job,
     Root
<1>32. CASE \E l \in Layouts, interactive \in BOOLEAN : Apply(l, interactive)
  BY <1>0, <1>32 DEF Apply, FirstStage, AlreadyThere, GoTo, files, NoJob,
     NoSnap, Found, IncludeInv, RulesInv, RulesAreSomewhere, AfterWrite, InCall,
     Applying, Snapshot, Job, Root
<1>33. CASE UNCHANGED vars
  BY <1>33 DEF vars, files, compositor, local, IncludeInv, RulesInv,
     RulesAreSomewhere, AfterWrite, InCall, Applying, Snapshot, Job, Root
<1> QED
  BY <1>1, <1>2, <1>3, <1>4, <1>5, <1>6, <1>7, <1>8, <1>9, <1>10, <1>11, <1>12,
     <1>13, <1>14, <1>15, <1>16, <1>17, <1>18, <1>19, <1>20, <1>21, <1>22,
     <1>23, <1>24, <1>25, <1>26, <1>27, <1>28, <1>29, <1>30, <1>31, <1>32, <1>33
     DEF Next, EngineStep, Caller, Others

\* No order of calls, failures and crashes drops the rules of the older
\* version's file without the new file being there to stay.
THEOREM OldRulesReplaced == Spec => []RulesAreSomewhere
<1>1. Init => RulesInv /\ IncludeInv
  BY EngineAssumption DEF Init, IncludeInv, IncludeHasTarget, AfterWrite,
     Applying, RulesInv, RulesAreSomewhere, InCall
<1>2. TypeOK /\ IncludeInv /\ [Next]_vars => IncludeInv'
  BY IncludeStep, EngineAssumption
<1>3. TypeOK /\ IncludeInv /\ RulesInv /\ [Next]_vars => RulesInv'
  BY RulesStep, EngineAssumption
<1>4. RulesInv => RulesAreSomewhere
  BY DEF RulesInv
<1> QED BY <1>1, <1>2, <1>3, <1>4, EngineTypeCorrect, PTL DEF Spec

-----------------------------------------------------------------------------
(* The cause a call reports.                                               *)

\* The verification remembers a mismatch exactly when there was one.
CauseInv ==
  /\ CauseIsHonest
  /\ Applying \/ pc = "applied" => job.cause = "none"
  /\ pc \in {"write", "toggle", "read", "include", "rewrite", "reload", "probe",
             "clean"} => ~call.differed /\ job.saw = "nothing"
  /\ pc = "verify" => (job.saw = "mismatch" <=> call.differed)

LEMMA CauseStep ==
  ASSUME EngineAssumption, TypeOK, CauseInv, [Next]_vars
  PROVE  CauseInv'
<1>0. job \in Job /\ call \in Call /\ call.differed \in BOOLEAN
  BY DEF TypeOK, CallTyped, Call
<1>1. CASE WriteTarget
  BY <1>0, <1>1 DEF WriteTarget, Ends, NoSnap, NoJob, NoCall, GoTo, files,
     compositor, local, CauseInv, CauseIsHonest, Applying, Job, Call
<1>2. CASE SyncToggle
  BY <1>0, <1>2 DEF SyncToggle, Fails, GoTo, files, compositor, local, CauseInv,
     CauseIsHonest, Applying, Job, Call
<1>3. CASE ReadRoot
  BY <1>0, <1>3 DEF ReadRoot, Fails, AfterInclude, GoTo, files, compositor,
     local, CauseInv, CauseIsHonest, Applying, Job, Call
<1>4. CASE WriteRoot
  BY <1>0, <1>4 DEF WriteRoot, Fails, AfterInclude, GoTo, files, compositor,
     local, CauseInv, CauseIsHonest, Applying, Job, Call
<1>5. CASE RewriteTarget
  BY <1>0, <1>5 DEF RewriteTarget, Fails, GoTo, files, compositor, local,
     CauseInv, CauseIsHonest, Applying, Job, Call
<1>6. CASE Reload
  BY <1>0, <1>6 DEF Reload, Fails, Reloaded, GoTo, files, compositor, local,
     CauseInv, CauseIsHonest, Applying, Job, Call
<1>7. CASE CheckProbe
  BY <1>0, <1>7 DEF CheckProbe, Fails, GoTo, files, compositor, local, CauseInv,
     CauseIsHonest, Applying, Job, Call
<1>8. CASE RemoveProbe
  BY <1>0, <1>8 DEF RemoveProbe, Fails, GoTo, files, compositor, local,
     CauseInv, CauseIsHonest, Applying, Job, Call
<1>9. CASE Matches
  BY <1>0, <1>9 DEF Matches, GoTo, files, compositor, local, CauseInv,
     CauseIsHonest, Applying, Job, Call
<1>10. CASE Differs
  BY <1>0, <1>10 DEF Differs, GoTo, files, compositor, local, CauseInv,
     CauseIsHonest, Applying, Job, Call
<1>11. CASE NoAnswer
  BY <1>0, <1>11 DEF NoAnswer, GoTo, files, compositor, local, CauseInv,
     CauseIsHonest, Applying, Job, Call, AfterNoAnswer
<1>12. CASE TimeOut
  BY <1>0, <1>12 DEF TimeOut, Fails, OutOfTime, GoTo, files, compositor, local,
     CauseInv, CauseIsHonest, Applying, Job, Call
<1>13. CASE MoveWorkspaces
  BY <1>0, <1>13 DEF MoveWorkspaces, Fails, GoTo, files, compositor, local,
     CauseInv, CauseIsHonest, Applying, Job, Call
<1>14. CASE RetireLegacyFile
  BY <1>0, <1>14 DEF RetireLegacyFile, GoTo, files, compositor, local, CauseInv,
     CauseIsHonest, Applying, Job, Call
<1>15. CASE SyncWake
  BY <1>0, <1>15 DEF SyncWake, Ends, NoSnap, NoJob, NoCall, GoTo, files,
     compositor, local, CauseInv, CauseIsHonest, Applying, Job, Call
<1>16. CASE RevertReadsRoot
  BY <1>0, <1>16 DEF RevertReadsRoot, Stops, Ends, NoSnap, NoJob, NoCall, GoTo,
     files, compositor, local, CauseInv, CauseIsHonest, Applying, Job, Call
<1>17. CASE RevertWritesRoot
  BY <1>0, <1>17 DEF RevertWritesRoot, Stops, Ends, NoSnap, NoJob, NoCall, GoTo,
     files, compositor, local, CauseInv, CauseIsHonest, Applying, Job, Call
<1>18. CASE RevertTarget
  BY <1>0, <1>18 DEF RevertTarget, Stops, Ends, NoSnap, NoJob, NoCall, GoTo,
     files, compositor, local, CauseInv, CauseIsHonest, Applying, Job, Call
<1>19. CASE RevertToggle
  BY <1>0, <1>19 DEF RevertToggle, Stops, Ends, NoSnap, NoJob, NoCall, GoTo,
     files, compositor, local, CauseInv, CauseIsHonest, Applying, Job, Call
<1>20. CASE RevertWake
  BY <1>0, <1>20 DEF RevertWake, GoTo, files, compositor, local, CauseInv,
     CauseIsHonest, Applying, Job, Call
<1>21. CASE RevertReloads
  BY <1>0, <1>21 DEF RevertReloads, Stops, Ends, NoSnap, NoJob, NoCall,
     Reloaded, GoTo, files, compositor, local, CauseInv, CauseIsHonest,
     Applying, Job, Call
<1>22. CASE RevertLive
  BY <1>0, <1>22 DEF RevertLive, Stops, Ends, NoSnap, NoJob, NoCall, GoTo,
     files, compositor, local, CauseInv, CauseIsHonest, Applying, Job, Call
<1>23. CASE HandBackWrites
  BY <1>0, <1>23 DEF HandBackWrites, GoTo, files, compositor, local, CauseInv,
     CauseIsHonest, Applying, Job, Call
<1>24. CASE Confirm
  BY <1>0, <1>24 DEF Confirm, Ends, NoSnap, NoJob, NoCall, GoTo, files,
     compositor, local, CauseInv, CauseIsHonest, Applying, Job, Call
<1>25. CASE Revert
  BY <1>0, <1>25 DEF Revert, Ends, NoSnap, NoJob, NoCall, GoTo, files,
     compositor, local, CauseInv, CauseIsHonest, Applying, Job, Call
<1>26. CASE HandBackReads
  BY <1>0, <1>26 DEF HandBackReads, GoTo, files, compositor, local, CauseInv,
     CauseIsHonest, Applying, Job, Call
<1>27. CASE Crash
  BY <1>0, <1>27 DEF Crash, Ends, NoSnap, NoJob, NoCall, GoTo, files,
     compositor, local, CauseInv, CauseIsHonest, Applying, Job, Call
<1>28. CASE EditRoot
  BY <1>0, <1>28 DEF EditRoot, GoTo, files, compositor, local, CauseInv,
     CauseIsHonest, Applying, Job, Call
<1>29. CASE EditWake
  BY <1>0, <1>29 DEF EditWake, GoTo, files, compositor, local, CauseInv,
     CauseIsHonest, Applying, Job, Call
<1>30. CASE CompositorReloads
  BY <1>0, <1>30 DEF CompositorReloads, Reloaded, GoTo, files, compositor,
     local, CauseInv, CauseIsHonest, Applying, Job, Call
<1>31. CASE DisplaysChange
  BY <1>0, <1>31 DEF DisplaysChange, GoTo, files, compositor, local, CauseInv,
     CauseIsHonest, Applying, Job, Call
<1>32. CASE \E l \in Layouts, interactive \in BOOLEAN : Apply(l, interactive)
  BY <1>0, <1>32 DEF Apply, FirstStage, AlreadyThere, GoTo, files, NoJob,
     NoSnap, Found, CauseInv, CauseIsHonest, Applying, Job, Call, Call
<1>33. CASE UNCHANGED vars
  BY <1>33 DEF vars, files, compositor, local, CauseInv, CauseIsHonest,
     Applying, Job, Call
<1> QED
  BY <1>1, <1>2, <1>3, <1>4, <1>5, <1>6, <1>7, <1>8, <1>9, <1>10, <1>11, <1>12,
     <1>13, <1>14, <1>15, <1>16, <1>17, <1>18, <1>19, <1>20, <1>21, <1>22,
     <1>23, <1>24, <1>25, <1>26, <1>27, <1>28, <1>29, <1>30, <1>31, <1>32, <1>33
     DEF Next, EngineStep, Caller, Others

\* A failed verification is reported as a mismatch if the displays were ever
\* seen to differ, and as a busy compositor only if they never were.
THEOREM CausesAreHonest == Spec => []CauseIsHonest
<1>1. Init => CauseInv
  BY DEF Init, NoJob, NoCall, CauseInv, CauseIsHonest, Applying
<1>2. TypeOK /\ CauseInv /\ [Next]_vars => CauseInv'
  BY CauseStep, EngineAssumption
<1>3. CauseInv => CauseIsHonest
  BY DEF CauseInv
<1> QED BY <1>1, <1>2, <1>3, EngineTypeCorrect, PTL DEF Spec

-----------------------------------------------------------------------------
(* Edits of the root config.                                               *)

\* A revert writes only over what it last read, which was the call's own work.
EditsInv ==
  /\ snap.root # NoCopy => snap.written # NoCopy /\ snap.written.text = snap.root.text
  /\ pc = "revInclude" => read \in {snap.written, snap.root}

LEMMA SnapFields ==
  ASSUME TypeOK, EngineAssumption
  PROVE  /\ snap.written \in Root \cup {NoCopy} /\ snap.root \in Root \cup {NoCopy}
         /\ NoCopy \notin Root
BY DEF TypeOK, CallTyped, Snapshot, EngineAssumption

LEMMA EditsStep ==
  ASSUME EngineAssumption, TypeOK, EditsInv, [Next]_vars
  PROVE  EditsInv'
<1>0. /\ snap \in Snapshot /\ NoCopy \notin Root /\ root \in Root
      /\ snap.written \in Root \cup {NoCopy} /\ snap.root \in Root \cup {NoCopy}
      /\ read \in Root \cup {NoCopy} /\ (pc = "include" => read \in Root)
  BY Fields, SnapFields
<1>1. CASE WriteTarget
  BY <1>0, <1>1 DEF WriteTarget, Ends, NoSnap, NoJob, NoCall, GoTo, files,
     compositor, local, EditsInv, Snapshot
<1>2. CASE SyncToggle
  BY <1>0, <1>2 DEF SyncToggle, Fails, GoTo, files, compositor, local, EditsInv,
     Snapshot
<1>3. CASE ReadRoot
  BY <1>0, <1>3 DEF ReadRoot, Fails, AfterInclude, GoTo, files, compositor,
     local, EditsInv, Snapshot
<1>4. CASE WriteRoot
  <2>1. pc' # "revInclude"
    BY <1>4 DEF WriteRoot, Fails, GoTo, AfterInclude
  <2>2. CASE snap' = snap
    BY <2>1, <2>2 DEF EditsInv
  <2>3. CASE /\ root' = [read EXCEPT !.include = "last"]
             /\ snap' = [snap EXCEPT !.root = read, !.written = root']
    <3>1. read \in Root /\ root' \in Root /\ root'.text = read.text
      BY <1>0, <2>3, <1>4 DEF WriteRoot, Root
    <3> QED BY <1>0, <2>1, <2>3, <3>1 DEF EditsInv, Snapshot
  <2> QED BY <1>4, <2>2, <2>3 DEF WriteRoot, Fails
<1>5. CASE RewriteTarget
  BY <1>0, <1>5 DEF RewriteTarget, Fails, GoTo, files, compositor, local,
     EditsInv, Snapshot
<1>6. CASE Reload
  BY <1>0, <1>6 DEF Reload, Fails, Reloaded, GoTo, files, compositor, local,
     EditsInv, Snapshot
<1>7. CASE CheckProbe
  BY <1>0, <1>7 DEF CheckProbe, Fails, GoTo, files, compositor, local, EditsInv,
     Snapshot
<1>8. CASE RemoveProbe
  BY <1>0, <1>8 DEF RemoveProbe, Fails, GoTo, files, compositor, local,
     EditsInv, Snapshot
<1>9. CASE Matches
  BY <1>0, <1>9 DEF Matches, GoTo, files, compositor, local, EditsInv, Snapshot
<1>10. CASE Differs
  BY <1>0, <1>10 DEF Differs, GoTo, files, compositor, local, EditsInv, Snapshot
<1>11. CASE NoAnswer
  BY <1>0, <1>11 DEF NoAnswer, GoTo, files, compositor, local, EditsInv,
     Snapshot
<1>12. CASE TimeOut
  BY <1>0, <1>12 DEF TimeOut, Fails, OutOfTime, GoTo, files, compositor, local,
     EditsInv, Snapshot
<1>13. CASE MoveWorkspaces
  BY <1>0, <1>13 DEF MoveWorkspaces, Fails, GoTo, files, compositor, local,
     EditsInv, Snapshot
<1>14. CASE RetireLegacyFile
  BY <1>0, <1>14 DEF RetireLegacyFile, GoTo, files, compositor, local, EditsInv,
     Snapshot
<1>15. CASE SyncWake
  <2>1. pc = "wake" /\ pc' \in {"idle", "applied"}
    BY <1>15 DEF SyncWake, Ends, GoTo
  <2>2. \/ snap' = NoSnap
        \/ snap'.written = snap.written /\ snap'.root = snap.root
    BY <1>0, <1>15 DEF SyncWake, Snapshot
  <2> QED BY <2>1, <2>2 DEF EditsInv, NoSnap
<1>16. CASE RevertReadsRoot
  BY <1>0, <1>16 DEF RevertReadsRoot, Stops, Ends, NoSnap, NoJob, NoCall, GoTo,
     files, compositor, local, EditsInv, Snapshot, Conflicts
<1>17. CASE RevertWritesRoot
  BY <1>0, <1>17 DEF RevertWritesRoot, Stops, Ends, NoSnap, NoJob, NoCall, GoTo,
     files, compositor, local, EditsInv, Snapshot
<1>18. CASE RevertTarget
  BY <1>0, <1>18 DEF RevertTarget, Stops, Ends, NoSnap, NoJob, NoCall, GoTo,
     files, compositor, local, EditsInv, Snapshot
<1>19. CASE RevertToggle
  BY <1>0, <1>19 DEF RevertToggle, Stops, Ends, NoSnap, NoJob, NoCall, GoTo,
     files, compositor, local, EditsInv, Snapshot
<1>20. CASE RevertWake
  BY <1>0, <1>20 DEF RevertWake, GoTo, files, compositor, local, EditsInv,
     Snapshot
<1>21. CASE RevertReloads
  BY <1>0, <1>21 DEF RevertReloads, Stops, Ends, NoSnap, NoJob, NoCall,
     Reloaded, GoTo, files, compositor, local, EditsInv, Snapshot
<1>22. CASE RevertLive
  BY <1>0, <1>22 DEF RevertLive, Stops, Ends, NoSnap, NoJob, NoCall, GoTo,
     files, compositor, local, EditsInv, Snapshot
<1>23. CASE HandBackWrites
  BY <1>0, <1>23 DEF HandBackWrites, GoTo, files, compositor, local, EditsInv,
     Snapshot
<1>24. CASE Confirm
  BY <1>0, <1>24 DEF Confirm, Ends, NoSnap, NoJob, NoCall, GoTo, files,
     compositor, local, EditsInv, Snapshot
<1>25. CASE Revert
  BY <1>0, <1>25 DEF Revert, Ends, NoSnap, NoJob, NoCall, GoTo, files,
     compositor, local, EditsInv, Snapshot
<1>26. CASE HandBackReads
  BY <1>0, <1>26 DEF HandBackReads, GoTo, files, compositor, local, EditsInv,
     Snapshot
<1>27. CASE Crash
  BY <1>0, <1>27 DEF Crash, Ends, NoSnap, NoJob, NoCall, GoTo, files,
     compositor, local, EditsInv, Snapshot
<1>28. CASE EditRoot
  BY <1>0, <1>28 DEF EditRoot, GoTo, files, compositor, local, EditsInv,
     Snapshot
<1>29. CASE EditWake
  BY <1>0, <1>29 DEF EditWake, GoTo, files, compositor, local, EditsInv,
     Snapshot
<1>30. CASE CompositorReloads
  BY <1>0, <1>30 DEF CompositorReloads, Reloaded, GoTo, files, compositor,
     local, EditsInv, Snapshot
<1>31. CASE DisplaysChange
  BY <1>0, <1>31 DEF DisplaysChange, GoTo, files, compositor, local, EditsInv,
     Snapshot
<1>32. CASE \E l \in Layouts, interactive \in BOOLEAN : Apply(l, interactive)
  BY <1>0, <1>32 DEF Apply, FirstStage, AlreadyThere, GoTo, files, NoJob,
     NoSnap, Found, EditsInv, Snapshot
<1>33. CASE UNCHANGED vars
  BY <1>33 DEF vars, files, compositor, local, EditsInv, Snapshot
<1> QED
  BY <1>1, <1>2, <1>3, <1>4, <1>5, <1>6, <1>7, <1>8, <1>9, <1>10, <1>11, <1>12,
     <1>13, <1>14, <1>15, <1>16, <1>17, <1>18, <1>19, <1>20, <1>21, <1>22,
     <1>23, <1>24, <1>25, <1>26, <1>27, <1>28, <1>29, <1>30, <1>31, <1>32, <1>33
     DEF Next, EngineStep, Caller, Others

\* An edit of the root config is lost only in the window between the read and
\* the write of one rewrite.
THEOREM EditsSurviveRewrites == Spec => EditsSurvive
<1>1. Init => EditsInv
  BY DEF Init, NoSnap, EditsInv
<1>2. TypeOK /\ EditsInv /\ [Next]_vars => EditsInv'
  BY EditsStep, EngineAssumption
<1>3. TypeOK /\ EditsInv /\ [Next]_vars
        => [root'.text < root.text => read # root]_vars
  <2> SUFFICES ASSUME TypeOK, EditsInv, Next, root'.text < root.text, read = root
               PROVE  FALSE
    BY DEF vars
  <2>1. root \in Root /\ root.text \in Nat
    BY EngineAssumption DEF TypeOK, FilesTyped, Root
  <2>2. CASE UNCHANGED root
    BY <2>1, <2>2
  <2>3. CASE WriteRoot \/ HandBackWrites
    <3>1. \/ root' = root
          \/ root' = [read EXCEPT !.include = "last"]
          \/ root' = [read EXCEPT !.include = "none"]
      BY <2>3 DEF WriteRoot, HandBackWrites, Fails, files
    <3> QED BY <2>1, <3>1 DEF Root
  <2>4. CASE RevertWritesRoot
    <3>1. snap.root # NoCopy
      BY <2>4 DEF RevertWritesRoot, TypeOK, Defined
    <3> QED BY <2>1, <2>4, <3>1 DEF RevertWritesRoot, Stops, files, EditsInv
  <2>5. CASE EditRoot
    BY <2>1, <2>5 DEF EditRoot, Root
  <2>6. UNCHANGED root \/ WriteRoot \/ HandBackWrites \/ RevertWritesRoot \/ EditRoot
    BY DEF Next, EngineStep, Caller, Others, WriteTarget, SyncToggle, ReadRoot,
       RewriteTarget, Reload, CheckProbe, RemoveProbe, Matches, Differs, NoAnswer,
       TimeOut, MoveWorkspaces, RetireLegacyFile, SyncWake, RevertReadsRoot,
       RevertTarget, RevertToggle, RevertWake, RevertReloads, RevertLive, Apply,
       Confirm, Revert, HandBackReads, Crash, EditWake, CompositorReloads,
       DisplaysChange, Fails, Ends, Stops, files
  <2> QED BY <2>2, <2>3, <2>4, <2>5, <2>6
<1> QED BY <1>1, <1>2, <1>3, EngineTypeCorrect, PTL DEF Spec, EditsSurvive

-----------------------------------------------------------------------------
(* Restoring.                                                              *)

\* As the call found it, or edited since.
AtLeast(r) == r.text > call.root.text \/ r = call.root

\* What a call would put back is what it found, and what it has not changed is
\* still that.
RestoreInv ==
  InCall =>
    /\ call.root \in Root /\ call.target = snap.target
    /\ pc = "write" => target = call.target
    /\ pc \in {"write", "toggle"} => snap.toggle = NoCopy
    /\ snap.toggle = NoCopy => toggle = call.toggle
    /\ snap.toggle # NoCopy => snap.toggle = call.toggle
    /\ Applying => snap.wakeWritten = NoCopy
    /\ snap.wakeWritten = NoCopy => block \in {call.block, Edited}
    /\ snap.wakeWritten # NoCopy => snap.wake \in {call.block, Edited}
    /\ pc \in {"write", "toggle", "read", "include"} => snap.root = NoCopy
    /\ snap.root = NoCopy => AtLeast(root)
    /\ snap.root # NoCopy => AtLeast(snap.root)
    /\ pc = "include" => AtLeast(read)
    /\ pc \in {"revTarget", "revToggle", "revWake", "revReload", "revLive"}
         => AtLeast(root)
    /\ pc \in {"revToggle", "revWake", "revReload", "revLive"} => target = call.target
    /\ pc \in {"revWake", "revReload", "revLive"} => toggle = call.toggle
    /\ pc \in {"revReload", "revLive"} /\ ~job.wakeErr =>
         block \in {call.block, Edited}

LEMMA RootsCompare ==
  ASSUME TypeOK, EngineAssumption, call.root \in Root
  PROVE  ~(root.text > call.root.text /\ root.text = call.root.text)
BY DEF TypeOK, FilesTyped, Root, EngineAssumption

LEMMA RestoreStep ==
  ASSUME EngineAssumption, TypeOK, RestoreInv, [Next]_vars
  PROVE  RestoreInv'
<1>0. /\ snap \in Snapshot /\ NoCopy \notin Root /\ root \in Root
      /\ snap.written \in Root \cup {NoCopy} /\ snap.root \in Root \cup {NoCopy}
      /\ read \in Root \cup {NoCopy} /\ (pc = "include" => read \in Root)
      /\ (pc = "exclude" => read \in Root)
      /\ job \in Job /\ call \in Call /\ toggle \in BOOLEAN /\ NoCopy \notin {TRUE, FALSE}
      /\ block \in Layouts \cup {NoFile, Edited} /\ NoCopy \notin Layouts
  BY Fields, SnapFields DEF TypeOK, FilesTyped, EngineAssumption
<1>1. CASE WriteTarget
  BY <1>0, <1>1 DEF WriteTarget, Ends, NoSnap, NoJob, NoCall, GoTo, files,
     compositor, local, RestoreInv, InCall, Applying, AtLeast, Snapshot, Call,
     Job, Root
<1>2. CASE SyncToggle
  <2>1. /\ UNCHANGED <<root, target, block, call>> /\ pc = "toggle"
        /\ pc' \in {"read", "revRoot"}
    BY <1>2 DEF SyncToggle, Fails, GoTo, files, local
  <2>2. \/ snap' = snap /\ toggle' = toggle
        \/ snap' = [snap EXCEPT !.toggle = toggle]
    BY <1>2 DEF SyncToggle, Fails, files, local, ToggleBefore
  <2>3. /\ snap'.target = snap.target /\ snap'.root = snap.root
        /\ snap'.wake = snap.wake /\ snap'.wakeWritten = snap.wakeWritten
        /\ (snap'.toggle = toggle \/ (snap'.toggle = snap.toggle /\ toggle' = toggle))
    BY <1>0, <2>2 DEF Snapshot
  <2> QED BY <1>0, <2>1, <2>3 DEF RestoreInv, InCall, Applying, AtLeast
<1>3. CASE ReadRoot
  BY <1>0, <1>3 DEF ReadRoot, Fails, AfterInclude, GoTo, files, compositor,
     local, RestoreInv, InCall, Applying, AtLeast, Snapshot, Call, Job, Root
<1>4. CASE WriteRoot
  <2>1. /\ UNCHANGED <<target, toggle, block, call>> /\ pc = "include"
        /\ pc' \in {"reload", "rewrite", "revRoot"}
    BY <1>4 DEF WriteRoot, Fails, GoTo, files, AfterInclude
  <2>2. \/ snap' = snap /\ root' = root
        \/ snap' = [snap EXCEPT !.root = read, !.written = root']
    BY <1>4 DEF WriteRoot, Fails, files
  <2>3. /\ snap'.target = snap.target /\ snap'.toggle = snap.toggle
        /\ snap'.wake = snap.wake /\ snap'.wakeWritten = snap.wakeWritten
        /\ (snap'.root = read \/ (snap'.root = snap.root /\ root' = root))
    BY <1>0, <2>2 DEF Snapshot
  <2> QED BY <1>0, <2>1, <2>3 DEF RestoreInv, InCall, Applying, AtLeast
<1>5. CASE RewriteTarget
  BY <1>0, <1>5 DEF RewriteTarget, Fails, GoTo, files, compositor, local,
     RestoreInv, InCall, Applying, AtLeast, Snapshot, Call, Job, Root
<1>6. CASE Reload
  BY <1>0, <1>6 DEF Reload, Fails, Reloaded, GoTo, files, compositor, local,
     RestoreInv, InCall, Applying, AtLeast, Snapshot, Call, Job, Root
<1>7. CASE CheckProbe
  BY <1>0, <1>7 DEF CheckProbe, Fails, GoTo, files, compositor, local,
     RestoreInv, InCall, Applying, AtLeast, Snapshot, Call, Job, Root
<1>8. CASE RemoveProbe
  BY <1>0, <1>8 DEF RemoveProbe, Fails, GoTo, files, compositor, local,
     RestoreInv, InCall, Applying, AtLeast, Snapshot, Call, Job, Root
<1>9. CASE Matches
  BY <1>0, <1>9 DEF Matches, GoTo, files, compositor, local, RestoreInv, InCall,
     Applying, AtLeast, Snapshot, Call, Job, Root
<1>10. CASE Differs
  BY <1>0, <1>10 DEF Differs, GoTo, files, compositor, local, RestoreInv,
     InCall, Applying, AtLeast, Snapshot, Call, Job, Root
<1>11. CASE NoAnswer
  BY <1>0, <1>11 DEF NoAnswer, GoTo, files, compositor, local, RestoreInv,
     InCall, Applying, AtLeast, Snapshot, Call, Job, Root
<1>12. CASE TimeOut
  BY <1>0, <1>12 DEF TimeOut, Fails, OutOfTime, GoTo, files, compositor, local,
     RestoreInv, InCall, Applying, AtLeast, Snapshot, Call, Job, Root
<1>13. CASE MoveWorkspaces
  BY <1>0, <1>13 DEF MoveWorkspaces, Fails, GoTo, files, compositor, local,
     RestoreInv, InCall, Applying, AtLeast, Snapshot, Call, Job, Root
<1>14. CASE RetireLegacyFile
  BY <1>0, <1>14 DEF RetireLegacyFile, GoTo, files, compositor, local,
     RestoreInv, InCall, Applying, AtLeast, Snapshot, Call, Job, Root
<1>15. CASE SyncWake
  <2>1. /\ UNCHANGED <<root, target, toggle, read>> /\ pc = "wake"
        /\ pc' \in {"idle", "applied"} /\ (pc' = "applied" => call' = call)
    BY <1>15 DEF SyncWake, Ends, GoTo
  <2>2. \/ pc' = "idle"
        \/ snap' = snap /\ block' = block
        \/ snap' = [snap EXCEPT !.wake = block, !.wakeWritten = block']
              /\ block' = job.layout /\ block' # NoCopy
    <3>1. job.layout # NoCopy
      BY <1>15, PartsTyped DEF SyncWake, TypeOK, Defined, Applying, EngineAssumption
    <3> QED BY <1>15, <3>1 DEF SyncWake, Ends, GoTo
  <2>3. \/ pc' = "idle"
        \/ /\ snap'.target = snap.target /\ snap'.toggle = snap.toggle
           /\ snap'.root = snap.root
           /\ \/ /\ snap'.wake = snap.wake /\ block' = block
                 /\ snap'.wakeWritten = snap.wakeWritten
              \/ snap'.wake = block /\ snap'.wakeWritten # NoCopy
    BY <1>0, <2>2 DEF Snapshot
  <2> QED BY <1>0, <2>1, <2>3 DEF RestoreInv, InCall, Applying, AtLeast
<1>16. CASE RevertReadsRoot
  BY <1>0, <1>16 DEF RevertReadsRoot, Stops, Ends, NoSnap, NoJob, NoCall, GoTo,
     files, compositor, local, RestoreInv, InCall, Applying, AtLeast, Snapshot,
     Call, Job, Root, Conflicts
<1>17. CASE RevertWritesRoot
  <2>1. /\ UNCHANGED <<target, toggle, block>> /\ pc = "revInclude"
        /\ \/ pc' = "idle"
           \/ pc' = "applied" /\ UNCHANGED <<root, snap, call>>
           \/ pc' = "revTarget" /\ root' = snap.root /\ UNCHANGED <<snap, call, job>>
    BY <1>17 DEF RevertWritesRoot, Stops, Ends, GoTo, files
  <2>2. snap.root # NoCopy
    BY <1>17 DEF RevertWritesRoot, TypeOK, Defined
  <2> QED BY <1>0, <2>1, <2>2 DEF RestoreInv, InCall, Applying, AtLeast
<1>18. CASE RevertTarget
  BY <1>0, <1>18 DEF RevertTarget, Stops, Ends, NoSnap, NoJob, NoCall, GoTo,
     files, compositor, local, RestoreInv, InCall, Applying, AtLeast, Snapshot,
     Call, Job, Root
<1>19. CASE RevertToggle
  BY <1>0, <1>19 DEF RevertToggle, Stops, Ends, NoSnap, NoJob, NoCall, GoTo,
     files, compositor, local, RestoreInv, InCall, Applying, AtLeast, Snapshot,
     Call, Job, Root, RestoredToggle
<1>20. CASE RevertWake
  BY <1>0, <1>20 DEF RevertWake, GoTo, files, compositor, local, RestoreInv,
     InCall, Applying, AtLeast, Snapshot, Call, Job, Root
<1>21. CASE RevertReloads
  BY <1>0, <1>21 DEF RevertReloads, Stops, Ends, NoSnap, NoJob, NoCall,
     Reloaded, GoTo, files, compositor, local, RestoreInv, InCall, Applying,
     AtLeast, Snapshot, Call, Job, Root
<1>22. CASE RevertLive
  BY <1>0, <1>22 DEF RevertLive, Stops, Ends, NoSnap, NoJob, NoCall, GoTo,
     files, compositor, local, RestoreInv, InCall, Applying, AtLeast, Snapshot,
     Call, Job, Root
<1>23. CASE HandBackWrites
  BY <1>0, <1>23 DEF HandBackWrites, GoTo, files, compositor, local, RestoreInv,
     InCall, Applying, AtLeast, Snapshot, Call, Job, Root
<1>24. CASE Confirm
  BY <1>0, <1>24 DEF Confirm, Ends, NoSnap, NoJob, NoCall, GoTo, files,
     compositor, local, RestoreInv, InCall, Applying, AtLeast, Snapshot, Call,
     Job, Root
<1>25. CASE Revert
  BY <1>0, <1>25 DEF Revert, Ends, NoSnap, NoJob, NoCall, GoTo, files,
     compositor, local, RestoreInv, InCall, Applying, AtLeast, Snapshot, Call,
     Job, Root
<1>26. CASE HandBackReads
  BY <1>0, <1>26 DEF HandBackReads, GoTo, files, compositor, local, RestoreInv,
     InCall, Applying, AtLeast, Snapshot, Call, Job, Root
<1>27. CASE Crash
  BY <1>0, <1>27 DEF Crash, Ends, NoSnap, NoJob, NoCall, GoTo, files,
     compositor, local, RestoreInv, InCall, Applying, AtLeast, Snapshot, Call,
     Job, Root
<1>28. CASE EditRoot
  BY <1>0, <1>28 DEF EditRoot, GoTo, files, compositor, local, RestoreInv,
     InCall, Applying, AtLeast, Snapshot, Call, Job, Root
<1>29. CASE EditWake
  BY <1>0, <1>29 DEF EditWake, GoTo, files, compositor, local, RestoreInv,
     InCall, Applying, AtLeast, Snapshot, Call, Job, Root
<1>30. CASE CompositorReloads
  BY <1>0, <1>30 DEF CompositorReloads, Reloaded, GoTo, files, compositor,
     local, RestoreInv, InCall, Applying, AtLeast, Snapshot, Call, Job, Root
<1>31. CASE DisplaysChange
  BY <1>0, <1>31 DEF DisplaysChange, GoTo, files, compositor, local, RestoreInv,
     InCall, Applying, AtLeast, Snapshot, Call, Job, Root
<1>32. CASE \E l \in Layouts, interactive \in BOOLEAN : Apply(l, interactive)
  BY <1>0, <1>32 DEF Apply, FirstStage, AlreadyThere, GoTo, files, NoJob,
     NoSnap, Found, RestoreInv, InCall, Applying, AtLeast, Snapshot, Call, Job,
     Root
<1>33. CASE UNCHANGED vars
  BY <1>33 DEF vars, files, compositor, local, RestoreInv, InCall, Applying,
     AtLeast, Snapshot, Call, Job, Root
<1> QED
  BY <1>1, <1>2, <1>3, <1>4, <1>5, <1>6, <1>7, <1>8, <1>9, <1>10, <1>11, <1>12,
     <1>13, <1>14, <1>15, <1>16, <1>17, <1>18, <1>19, <1>20, <1>21, <1>22,
     <1>23, <1>24, <1>25, <1>26, <1>27, <1>28, <1>29, <1>30, <1>31, <1>32, <1>33
     DEF Next, EngineStep, Caller, Others

\* A failed apply or a reverted preview that reports the old state restored has
\* restored it, up to what the user changed meanwhile.
THEOREM RestoresAreTrue == Spec => RestoresWhatItFound
<1>1. Init => RestoreInv
  BY DEF Init, RestoreInv, InCall
<1>2. TypeOK /\ RestoreInv /\ [Next]_vars => RestoreInv'
  BY RestoreStep, EngineAssumption
<1>3. TypeOK /\ RestoreInv /\ [Next]_vars
        => [/\ pc \notin {"idle", "applied", "exclude"}
            /\ pc' = "idle" /\ report' = "restored"
            =>
              /\ target' = call.target /\ toggle' = call.toggle
              /\ block' \in {call.block, Edited}
              /\ root'.text = call.root.text => root' = call.root]_vars
  <2> SUFFICES ASSUME TypeOK, RestoreInv, Next,
                      pc \notin {"idle", "applied", "exclude"},
                      pc' = "idle", report' = "restored"
               PROVE  /\ target' = call.target /\ toggle' = call.toggle
                      /\ block' \in {call.block, Edited}
                      /\ root'.text = call.root.text => root' = call.root
    BY DEF vars
  <2>1. CASE WriteTarget
    <3>1. UNCHANGED files /\ pc = "write"
      BY <2>1 DEF WriteTarget, GoTo
    <3>2. /\ target = call.target /\ toggle = call.toggle
          /\ block \in {call.block, Edited} /\ AtLeast(root)
      BY <3>1 DEF RestoreInv, InCall, Applying
    <3>3. call.root \in Root
      BY <3>1 DEF RestoreInv, InCall
    <3> QED BY <3>1, <3>2, <3>3, RootsCompare, EngineAssumption DEF files, AtLeast
  <2>2. CASE RevertLive
    <3>1. UNCHANGED files /\ pc = "revLive" /\ ~job.wakeErr
      BY <2>2 DEF RevertLive, Stops, Ends, GoTo
    <3>2. /\ target = call.target /\ toggle = call.toggle
          /\ block \in {call.block, Edited} /\ AtLeast(root)
      BY <3>1 DEF RestoreInv, InCall
    <3>3. call.root \in Root
      BY <3>1 DEF RestoreInv, InCall
    <3> QED BY <3>1, <3>2, <3>3, RootsCompare, EngineAssumption DEF files, AtLeast
  <2>3. WriteTarget \/ RevertLive
    BY DEF Next, EngineStep, Caller, Others, SyncToggle, ReadRoot, WriteRoot,
       RewriteTarget, Reload, CheckProbe, RemoveProbe, Matches, Differs, NoAnswer,
       TimeOut, OutOfTime, MoveWorkspaces, RetireLegacyFile, SyncWake,
       RevertReadsRoot, RevertWritesRoot, RevertTarget, RevertToggle, RevertWake,
       RevertReloads, HandBackWrites, Apply, Confirm, Revert, HandBackReads, Crash,
       EditRoot, EditWake, CompositorReloads, DisplaysChange, Fails, Ends, Stops,
       GoTo, AfterInclude
  <2> QED BY <2>1, <2>2, <2>3
<1> QED BY <1>1, <1>2, <1>3, EngineTypeCorrect, PTL DEF Spec, RestoresWhatItFound

-----------------------------------------------------------------------------
(* The execution marker.                                                   *)

\* The marker of a call is in no file and no Lua state before the call writes
\* it, so what carries it is the call's own file.
RanInv ==
  /\ job.n \in {0, calls} /\ (Applying => job.n = calls /\ calls > 0)
  /\ target # NoFile => /\ target.probe <= calls
                        /\ job.n # 0 /\ target.probe = job.n => target.by = job.n
  /\ running.probe <= calls
  /\ Lua /\ job.n # 0 /\ running.probe = job.n => ran
  /\ snap.target # NoFile => /\ snap.target.probe <= calls
                             /\ job.n # 0 => snap.target.probe < job.n
  /\ Lua /\ pc \in {"clean", "verify", "live", "retire", "wake"} /\ ~job.unchanged
       => ran

LEMMA ReloadRuns ==
  ASSUME EngineAssumption, TypeOK, RanInv, Reloaded
  PROVE  /\ running'.probe <= calls /\ ran' \in BOOLEAN /\ (ran => ran')
         /\ Lua /\ job.n # 0 /\ running'.probe = job.n => ran'
<1>0. /\ calls \in Nat /\ job.n \in Nat /\ ran \in BOOLEAN
      /\ target # NoFile => target \in GeneratedFile
  BY DEF TypeOK, FilesTyped, CompositorTyped, CallTyped, Job, File, EngineAssumption
<1>1. running' \in Loads /\ ran' = (ran \/ (job.n # 0 /\ running'.by = job.n))
  BY DEF Reloaded
<1>2. CASE running' = running
  BY <1>0, <1>1, <1>2 DEF RanInv
<1>3. CASE running' = Generated(Own, 0, 0)
  BY <1>0, <1>1, <1>3 DEF RanInv, Generated
<1>4. CASE target # NoFile /\ running' \in {target, [target EXCEPT !.layout = Own]}
  <2>1. running'.probe = target.probe /\ running'.by = target.by
    BY <1>0, <1>4 DEF GeneratedFile
  <2> QED BY <1>0, <1>1, <1>4, <2>1 DEF RanInv
<1> QED BY <1>1, <1>2, <1>3, <1>4 DEF Loads

LEMMA RanStep ==
  ASSUME EngineAssumption, TypeOK, RanInv, [Next]_vars
  PROVE  RanInv'
<1>0. /\ calls \in Nat /\ job \in Job /\ snap \in Snapshot /\ ran \in BOOLEAN
      /\ job.n \in Nat /\ running \in GeneratedFile
      /\ Generated(job.layout, job.n, Probe(job.n)) # NoFile
      /\ Generated(job.layout, job.n, 0) # NoFile
      /\ (target # NoFile => target.probe \in Nat)
      /\ running.probe \in Nat
  <2>1. /\ calls \in Nat /\ ran \in BOOLEAN /\ job \in Job /\ snap \in Snapshot
        /\ running \in GeneratedFile /\ target \in File
    BY DEF TypeOK, FilesTyped, CompositorTyped, CallTyped, EngineAssumption
  <2>2. job.n \in Nat
    BY <2>1, EngineAssumption DEF Job, EngineAssumption
  <2>3. running.probe \in Nat /\ (target # NoFile => target.probe \in Nat)
    BY <2>1, EngineAssumption DEF GeneratedFile, File, EngineAssumption
  <2> QED BY <2>1, <2>2, <2>3, Fields
<1>1. CASE WriteTarget
  BY <1>0, <1>1 DEF WriteTarget, Ends, NoSnap, NoJob, NoCall, GoTo, files,
     compositor, local, RanInv, Applying, Snapshot, Job, Probe, Generated
<1>2. CASE SyncToggle
  BY <1>0, <1>2 DEF SyncToggle, Fails, GoTo, files, compositor, local, RanInv,
     Applying, Snapshot, Job
<1>3. CASE ReadRoot
  BY <1>0, <1>3 DEF ReadRoot, Fails, AfterInclude, GoTo, files, compositor,
     local, RanInv, Applying, Snapshot, Job
<1>4. CASE WriteRoot
  BY <1>0, <1>4 DEF WriteRoot, Fails, AfterInclude, GoTo, files, compositor,
     local, RanInv, Applying, Snapshot, Job
<1>5. CASE RewriteTarget
  BY <1>0, <1>5 DEF RewriteTarget, Fails, GoTo, files, compositor, local,
     RanInv, Applying, Snapshot, Job, Probe, Generated
<1>6. CASE Reload
  <2>1. UNCHANGED <<target, snap, calls>> /\ pc = "reload"
        /\ pc' \in {"probe", "verify", "revRoot"} /\ (Lua => pc' # "verify")
    BY <1>6 DEF Reload, Fails, GoTo, files, local
  <2>2. job'.n = job.n /\ job'.unchanged = job.unchanged
    BY <1>0, <1>6 DEF Reload, Fails, local, Job
  <2>3. CASE Reloaded
    BY <1>0, <2>1, <2>2, <2>3, ReloadRuns DEF RanInv, Applying
  <2>4. CASE UNCHANGED <<running, ran>>
    BY <1>0, <2>1, <2>2, <2>4 DEF RanInv, Applying
  <2> QED BY <1>6, <2>3, <2>4 DEF Reload
<1>7. CASE CheckProbe
  BY <1>0, <1>7 DEF CheckProbe, Fails, GoTo, files, compositor, local, RanInv,
     Applying, Snapshot, Job, Probe
<1>8. CASE RemoveProbe
  BY <1>0, <1>8 DEF RemoveProbe, Fails, GoTo, files, compositor, local, RanInv,
     Applying, Snapshot, Job, Generated
<1>9. CASE Matches
  BY <1>0, <1>9 DEF Matches, GoTo, files, compositor, local, RanInv, Applying,
     Snapshot, Job
<1>10. CASE Differs
  BY <1>0, <1>10 DEF Differs, GoTo, files, compositor, local, RanInv, Applying,
     Snapshot, Job
<1>11. CASE NoAnswer
  BY <1>0, <1>11 DEF NoAnswer, GoTo, files, compositor, local, RanInv, Applying,
     Snapshot, Job
<1>12. CASE TimeOut
  BY <1>0, <1>12 DEF TimeOut, Fails, OutOfTime, GoTo, files, compositor, local,
     RanInv, Applying, Snapshot, Job
<1>13. CASE MoveWorkspaces
  BY <1>0, <1>13 DEF MoveWorkspaces, Fails, GoTo, files, compositor, local,
     RanInv, Applying, Snapshot, Job
<1>14. CASE RetireLegacyFile
  BY <1>0, <1>14 DEF RetireLegacyFile, GoTo, files, compositor, local, RanInv,
     Applying, Snapshot, Job
<1>15. CASE SyncWake
  <2>1. UNCHANGED <<target, calls, running, ran>> /\ pc' \in {"idle", "applied"}
    BY <1>15 DEF SyncWake, Ends, GoTo, compositor
  <2>2. job'.n = 0
    BY <1>15 DEF SyncWake, Ends, NoJob
  <2>3. snap'.target \in {NoFile, snap.target}
    <3>1. snap' \in {snap, NoSnap, [snap EXCEPT !.wake = block,
                                                !.wakeWritten = block']}
      BY <1>15 DEF SyncWake
    <3>2. NoSnap.target = NoFile
      BY DEF NoSnap
    <3>3. [snap EXCEPT !.wake = block, !.wakeWritten = block'].target = snap.target
      BY <1>0 DEF Snapshot
    <3> QED BY <3>1, <3>2, <3>3
  <2> QED BY <1>0, <2>1, <2>2, <2>3 DEF RanInv, Applying
<1>16. CASE RevertReadsRoot
  BY <1>0, <1>16 DEF RevertReadsRoot, Stops, Ends, NoSnap, NoJob, NoCall, GoTo,
     files, compositor, local, RanInv, Applying, Snapshot, Job
<1>17. CASE RevertWritesRoot
  BY <1>0, <1>17 DEF RevertWritesRoot, Stops, Ends, NoSnap, NoJob, NoCall, GoTo,
     files, compositor, local, RanInv, Applying, Snapshot, Job
<1>18. CASE RevertTarget
  BY <1>0, <1>18 DEF RevertTarget, Stops, Ends, NoSnap, NoJob, NoCall, GoTo,
     files, compositor, local, RanInv, Applying, Snapshot, Job
<1>19. CASE RevertToggle
  BY <1>0, <1>19 DEF RevertToggle, Stops, Ends, NoSnap, NoJob, NoCall, GoTo,
     files, compositor, local, RanInv, Applying, Snapshot, Job
<1>20. CASE RevertWake
  BY <1>0, <1>20 DEF RevertWake, GoTo, files, compositor, local, RanInv,
     Applying, Snapshot, Job
<1>21. CASE RevertReloads
  <2>1. UNCHANGED <<target, calls>> /\ pc' \in {"revLive", "applied", "idle"}
    BY <1>21 DEF RevertReloads, Stops, Ends, GoTo, files
  <2>2. job'.n \in {0, job.n}
    BY <1>21 DEF RevertReloads, Stops, Ends, local, NoJob
  <2>3. snap'.target \in {NoFile, snap.target}
    BY <1>21 DEF RevertReloads, Stops, local, NoSnap
  <2>4. CASE Reloaded
    BY <1>0, <2>1, <2>2, <2>3, <2>4, ReloadRuns DEF RanInv, Applying
  <2>5. CASE UNCHANGED <<running, ran>>
    BY <1>0, <2>1, <2>2, <2>3, <2>5 DEF RanInv, Applying
  <2> QED BY <1>21, <2>4, <2>5 DEF RevertReloads
<1>22. CASE RevertLive
  BY <1>0, <1>22 DEF RevertLive, Stops, Ends, NoSnap, NoJob, NoCall, GoTo,
     files, compositor, local, RanInv, Applying, Snapshot, Job
<1>23. CASE HandBackWrites
  BY <1>0, <1>23 DEF HandBackWrites, GoTo, files, compositor, local, RanInv,
     Applying, Snapshot, Job
<1>24. CASE Confirm
  BY <1>0, <1>24 DEF Confirm, Ends, NoSnap, NoJob, NoCall, GoTo, files,
     compositor, local, RanInv, Applying, Snapshot, Job
<1>25. CASE Revert
  BY <1>0, <1>25 DEF Revert, Ends, NoSnap, NoJob, NoCall, GoTo, files,
     compositor, local, RanInv, Applying, Snapshot, Job
<1>26. CASE HandBackReads
  BY <1>0, <1>26 DEF HandBackReads, GoTo, files, compositor, local, RanInv,
     Applying, Snapshot, Job
<1>27. CASE Crash
  BY <1>0, <1>27 DEF Crash, Ends, NoSnap, NoJob, NoCall, GoTo, files,
     compositor, local, RanInv, Applying, Snapshot, Job
<1>28. CASE EditRoot
  BY <1>0, <1>28 DEF EditRoot, GoTo, files, compositor, local, RanInv, Applying,
     Snapshot, Job
<1>29. CASE EditWake
  BY <1>0, <1>29 DEF EditWake, GoTo, files, compositor, local, RanInv, Applying,
     Snapshot, Job
<1>30. CASE CompositorReloads
  <2>1. UNCHANGED <<target, snap, calls, job, pc>>
    BY <1>30 DEF CompositorReloads, files, local
  <2> QED BY <1>0, <1>30, <2>1, ReloadRuns DEF CompositorReloads, RanInv, Applying
<1>31. CASE DisplaysChange
  BY <1>0, <1>31 DEF DisplaysChange, GoTo, files, compositor, local, RanInv,
     Applying, Snapshot, Job
<1>32. CASE \E l \in Layouts, interactive \in BOOLEAN : Apply(l, interactive)
  BY <1>0, <1>32 DEF Apply, FirstStage, AlreadyThere, GoTo, files, NoJob,
     NoSnap, Found, RanInv, Applying, Snapshot, Job
<1>33. CASE UNCHANGED vars
  BY <1>33 DEF vars, files, compositor, local, RanInv, Applying, Snapshot, Job
<1> QED
  BY <1>1, <1>2, <1>3, <1>4, <1>5, <1>6, <1>7, <1>8, <1>9, <1>10, <1>11, <1>12,
     <1>13, <1>14, <1>15, <1>16, <1>17, <1>18, <1>19, <1>20, <1>21, <1>22,
     <1>23, <1>24, <1>25, <1>26, <1>27, <1>28, <1>29, <1>30, <1>31, <1>32, <1>33
     DEF Next, EngineStep, Caller, Others

\* A Lua apply that reloads and reports success has run the file it wrote: a
\* marker left by an earlier file never passes for its own.
THEOREM SuccessIsExecution == Spec => SuccessMeansItRan
<1>1. Init => RanInv
  <2> SUFFICES ASSUME Init PROVE RanInv
    OBVIOUS
  <2>1. target # NoFile => target.probe = 0 /\ target.by = 0
    BY DEF Init, Generated
  <2>2. running.probe = 0
    <3>1. ~root.bad /\ running \in Loads
      BY DEF Init
    <3>2. target # NoFile => target \in GeneratedFile
      BY InitTyped, EngineAssumption DEF TypeOK, FilesTyped, File
    <3>3. target # NoFile => [target EXCEPT !.layout = Own].probe = target.probe
      BY <3>2 DEF GeneratedFile
    <3>4. CASE running = Generated(Own, 0, 0)
      BY <3>4 DEF Generated
    <3>5. CASE target # NoFile /\ running \in {target, [target EXCEPT !.layout = Own]}
      BY <2>1, <3>3, <3>5
    <3> QED BY <3>1, <3>4, <3>5 DEF Loads
  <2> QED BY <2>1, <2>2 DEF Init, NoJob, NoSnap, RanInv, Applying
<1>2. TypeOK /\ RanInv /\ [Next]_vars => RanInv'
  BY RanStep, EngineAssumption
<1>3. TypeOK /\ RanInv /\ [Next]_vars
        => [Lua /\ pc = "wake" /\ ~job.unchanged /\ report' = "ok" => ran]_vars
  BY DEF RanInv
<1> QED BY <1>1, <1>2, <1>3, EngineTypeCorrect, PTL DEF Spec, SuccessMeansItRan

-----------------------------------------------------------------------------
(* ApplyEngine implements AtomicApply wherever the user's edits leave the   *)
(* include where it is: an edit that moves it is the user's own change of   *)
(* what AtomicApply calls included, which that specification has no step    *)
(* for.                                                                     *)

\* A file, and the root config, as a caller of the engine sees them.
Sees(file) == IF file = NoFile THEN NoFile ELSE file.layout
Included == root.include # "none"

\* What putting the snapshot back would give.
PutBackSight ==
  [file |-> Sees(snap.target),
   included |-> (IF snap.root = NoCopy THEN root ELSE snap.root).include # "none"]

\* An apply, its own rollback included.
Attempting == InCall /\ pc # "applied" /\ ~job.reverting

RevertStages ==
  {"revRoot", "revInclude", "revTarget", "revToggle", "revWake", "revReload", "revLive"}

\* While an apply is under way its snapshot is what the call found, and what is
\* there is of the snapshot or of the apply's layout.
AttemptInv ==
  Attempting =>
    /\ job.layout \in Layouts
    /\ call.from = PutBackSight
    /\ Included \in {call.from.included, TRUE}
    /\ Sees(target) \in {job.layout, call.from.file}

\* While a preview is put back, what is there is of the preview or of its snapshot.
RevertInv ==
  job.reverting =>
    /\ Sees(target) \in {call.from.file, PutBackSight.file}
    /\ Included \in {call.from.included, PutBackSight.included}

\* What each stage has done already.
StagesInv ==
  /\ job.reverting => pc \in RevertStages
  /\ pc \in {"include", "exclude"} => read.include = root.include
  /\ pc = "write" => target = snap.target
  /\ AfterWrite => Sees(target) = job.layout
  /\ pc \in RevertStages \ {"revRoot", "revInclude"} => Included = PutBackSight.included
  /\ pc \in RevertStages \ {"revRoot", "revInclude", "revTarget"} => target = snap.target

AtomicInv == AttemptInv /\ RevertInv /\ StagesInv

-----------------------------------------------------------------------------
(* What kinds of steps do.                                                 *)

\* An apply that goes on, or fails, without writing the target or the include.
LEMMA ApplyMoves ==
  ASSUME EngineAssumption, TypeOK,
         SyncToggle \/ ReadRoot \/ Reload \/ CheckProbe \/ Matches \/ Differs \/ NoAnswer
         \/ TimeOut \/ MoveWorkspaces \/ RetireLegacyFile
  PROVE  /\ AfterWrite /\ (AfterWrite' \/ pc' = "revRoot")
         /\ UNCHANGED <<root, target>>
         /\ snap'.root = snap.root /\ snap'.target = snap.target
         /\ call'.from = call.from
         /\ job'.layout = job.layout /\ job'.reverting = job.reverting
         /\ pc' = "include" => read' = root
<1>0. snap \in Snapshot /\ job \in Job /\ call \in Call
  BY Fields
<1>1. CASE SyncToggle
  BY <1>0, <1>1 DEF SyncToggle, Fails, GoTo, files, local, AfterWrite, Applying, Snapshot, Job
<1>2. CASE ReadRoot
  BY <1>0, <1>2 DEF ReadRoot, AfterInclude, Fails, GoTo, files, local, AfterWrite, Applying,
     Job
<1>3. CASE Reload \/ CheckProbe
  BY <1>0, <1>3 DEF Reload, CheckProbe, Fails, GoTo, files, local, AfterWrite, Applying, Job
<1>4. CASE Matches \/ TimeOut \/ MoveWorkspaces
  BY <1>0, <1>4 DEF Matches, TimeOut, OutOfTime, MoveWorkspaces, Fails, GoTo, files, local,
     AfterWrite, Applying, Job
<1>5. CASE Differs \/ NoAnswer
  BY <1>0, <1>5 DEF Differs, NoAnswer, files, AfterWrite, Applying, Job, Call
<1>6. CASE RetireLegacyFile
  BY <1>0, <1>6 DEF RetireLegacyFile, GoTo, local, AfterWrite, Applying
<1> QED BY <1>1, <1>2, <1>3, <1>4, <1>5, <1>6

\* A rollback or a revert that goes on without writing the target or the include.
LEMMA RevertMoves ==
  ASSUME EngineAssumption, TypeOK,
         RevertReadsRoot \/ RevertToggle \/ RevertWake \/ RevertReloads, ~Stops
  PROVE  /\ pc \in RevertStages /\ pc' \in RevertStages
         /\ UNCHANGED <<root, target, snap, call>>
         /\ job'.layout = job.layout /\ job'.reverting = job.reverting
         /\ pc' = "revTarget" => snap.root \in {NoCopy, root}
         /\ pc' \in {"revWake", "revReload", "revLive"} =>
              pc \in {"revToggle", "revWake", "revReload"}
         /\ pc' \in {"revInclude", "revTarget", "revWake", "revReload", "revLive"}
<1>0. job \in Job
  BY Fields
<1>1. CASE RevertReadsRoot
  BY <1>0, <1>1 DEF RevertReadsRoot, GoTo, files, local, RevertStages
<1>2. CASE RevertToggle
  BY <1>0, <1>2 DEF RevertToggle, GoTo, files, local, RevertStages
<1>3. CASE RevertWake
  BY <1>0, <1>3 DEF RevertWake, GoTo, RevertStages, Job
<1>4. CASE RevertReloads
  BY <1>0, <1>4 DEF RevertReloads, GoTo, files, local, RevertStages
<1> QED BY <1>1, <1>2, <1>3, <1>4

\* A revert that stops leaves the files, and a preview its snapshot.
LEMMA StopMoves ==
  ASSUME EngineAssumption, TypeOK, Stops
  PROVE  /\ UNCHANGED <<root, target>> /\ ~job'.reverting
         /\ job.reverting => pc' = "applied" /\ UNCHANGED <<snap, call>>
         /\ ~job.reverting => pc' = "idle"
BY DEF Stops, Ends, GoTo, files, NoJob

\* The steps that put something back, and may stop instead.
Reverts ==
  \/ RevertReadsRoot \/ RevertWritesRoot \/ RevertTarget \/ RevertToggle
  \/ RevertReloads \/ RevertLive

LEMMA RevertsWhen == Reverts \/ RevertWake => pc \in RevertStages
BY DEF Reverts, RevertReadsRoot, RevertWritesRoot, RevertTarget, RevertToggle, RevertWake,
   RevertReloads, RevertLive, RevertStages

\* The compositor and the user change no file but the text around the include.
LEMMA OthersMove ==
  ASSUME EngineAssumption, TypeOK, ~EditsInclude, Others \/ UNCHANGED vars
  PROVE  /\ UNCHANGED <<target, pc, job, snap, read, call>>
         /\ root'.include = root.include
<1>1. root \in Root
  BY Fields
<1>2. CASE EditRoot
  BY <1>1, <1>2 DEF EditRoot, local, Root
<1>3. CASE EditWake \/ CompositorReloads \/ DisplaysChange \/ UNCHANGED vars
  BY <1>3 DEF EditWake, CompositorReloads, DisplaysChange, vars, files, local
<1> QED BY <1>2, <1>3 DEF Others

-----------------------------------------------------------------------------
(* The invariant.                                                          *)

\* Beginning and ending a call, outside of its own stages.
LEMMA CallerKeeps ==
  ASSUME EngineAssumption, TypeOK, IncludeInv, AtomicInv, Caller
  PROVE  AtomicInv'
<1>0. job \in Job /\ snap \in Snapshot /\ call \in Call /\ root \in Root /\ NoCopy \notin Root
  BY Fields
<1>1. ASSUME NEW l \in Layouts, NEW interactive \in BOOLEAN, Apply(l, interactive)
      PROVE  AtomicInv'
  <2>1. /\ UNCHANGED <<root, target>> /\ call' = Found
        /\ pc' \in {"write", "toggle"} /\ (pc' = "toggle" => AlreadyThere(l))
        /\ snap' = [NoSnap EXCEPT !.target = target, !.screen = screen]
        /\ job'.layout = l /\ job'.reverting = FALSE
    BY <1>1 DEF Apply, FirstStage, GoTo, files, NoJob
  <2>2. snap'.target = target /\ snap'.root = NoCopy
    BY <2>1 DEF NoSnap
  <2>3. call'.from = [file |-> Sees(target), included |-> Included]
    BY <2>1 DEF Found, Seen, Sees, Included
  <2>4. AttemptInv'
    BY <2>1, <2>2, <2>3 DEF AttemptInv, Attempting, InCall, PutBackSight, Included, Sees
  <2>5. StagesInv'
    BY <2>1, <2>2 DEF StagesInv, AfterWrite, Applying, RevertStages, AlreadyThere, Sees
  <2>6. RevertInv'
    BY <2>1 DEF RevertInv
  <2> QED BY <2>4, <2>5, <2>6 DEF AtomicInv
<1>2. CASE Confirm \/ Crash
  <2>1. pc' = "idle" /\ UNCHANGED <<root, target>> /\ ~job'.reverting
    BY <1>2 DEF Confirm, Crash, GoTo, files, NoJob, AtomicInv, StagesInv, RevertStages
  <2> QED BY <2>1 DEF AtomicInv, AttemptInv, Attempting, InCall, RevertInv, StagesInv,
          AfterWrite, Applying, RevertStages
<1>3. CASE Revert
  <2>1. /\ pc' = "revRoot" /\ UNCHANGED <<root, target, snap>> /\ job'.reverting
        /\ call'.from = [file |-> Sees(target), included |-> Included]
    BY <1>0, <1>3 DEF Revert, GoTo, files, NoJob, Seen, Sees, Included, Call
  <2> QED BY <2>1 DEF AtomicInv, AttemptInv, Attempting, InCall, RevertInv, StagesInv,
          AfterWrite, Applying, RevertStages, Included, Sees, PutBackSight
<1>4. CASE HandBackReads
  <2>1. pc = "idle" /\ pc' = "exclude" /\ UNCHANGED <<root, target, snap, job, call>>
        /\ read' = root
    BY <1>4 DEF HandBackReads, GoTo, files
  <2> QED BY <2>1 DEF AtomicInv, AttemptInv, Attempting, InCall, RevertInv, StagesInv,
          AfterWrite, Applying, RevertStages
<1> QED BY <1>1, <1>2, <1>3, <1>4 DEF Caller

\* An apply, up to its end or its first failure.
LEMMA ApplyKeeps ==
  ASSUME EngineAssumption, TypeOK, IncludeInv, AtomicInv,
         SyncToggle \/ ReadRoot \/ Reload \/ CheckProbe \/ Matches \/ Differs \/ NoAnswer
         \/ TimeOut \/ MoveWorkspaces \/ RetireLegacyFile
         \/ WriteTarget \/ WriteRoot \/ RewriteTarget \/ RemoveProbe \/ SyncWake
  PROVE  AtomicInv'
<1>0. /\ job \in Job /\ snap \in Snapshot /\ call \in Call /\ root \in Root /\ NoCopy \notin Root
      /\ pc = "include" => read \in Root
      /\ Generated(job.layout, job.n, Probe(job.n)) # NoFile
      /\ Generated(job.layout, job.n, 0) # NoFile
  BY Fields
<1>1. CASE \/ SyncToggle \/ ReadRoot \/ Reload \/ CheckProbe \/ Matches \/ Differs \/ NoAnswer
           \/ TimeOut \/ MoveWorkspaces \/ RetireLegacyFile
  <2>1. /\ AfterWrite /\ (AfterWrite' \/ pc' = "revRoot")
        /\ UNCHANGED <<root, target>>
        /\ snap'.root = snap.root /\ snap'.target = snap.target
        /\ call'.from = call.from
        /\ job'.layout = job.layout /\ job'.reverting = job.reverting
        /\ pc' = "include" => read' = root
    BY <1>1, ApplyMoves
  <2>2. ~job.reverting /\ Attempting
    BY <2>1 DEF AtomicInv, StagesInv, RevertStages, AfterWrite, Applying, Attempting, InCall
  <2>3. AttemptInv'
    BY <2>1, <2>2 DEF AtomicInv, AttemptInv, PutBackSight, Included, Sees
  <2>4. StagesInv'
    BY <2>1, <2>2 DEF AtomicInv, StagesInv, AfterWrite, Applying, RevertStages, Sees
  <2> QED BY <2>1, <2>2, <2>3, <2>4 DEF AtomicInv, RevertInv
<1>2. CASE WriteTarget
  <2>1. CASE pc' = "toggle"
    <3>1. /\ pc = "write" /\ target' = Generated(job.layout, job.n, Probe(job.n))
          /\ UNCHANGED <<root, snap, call>> /\ job' = [job EXCEPT !.written = TRUE]
      BY <1>2, <2>1 DEF WriteTarget, Ends, GoTo
    <3>2. target' # NoFile /\ target'.layout = job.layout
      BY <1>0, <3>1 DEF Generated
    <3>3. job'.layout = job.layout /\ job'.reverting = job.reverting
      BY <1>0, <3>1 DEF Job
    <3> QED BY <2>1, <3>1, <3>2, <3>3 DEF AtomicInv, AttemptInv, Attempting, InCall, RevertInv,
            StagesInv, AfterWrite, Applying, RevertStages, PutBackSight, Included, Sees
  <2>2. CASE pc' # "toggle"
    <3>1. pc' = "idle" /\ job' = NoJob
      BY <1>2, <2>2 DEF WriteTarget, Ends, GoTo
    <3> QED BY <3>1 DEF NoJob, AtomicInv, AttemptInv, Attempting, InCall, RevertInv,
            StagesInv, AfterWrite, Applying, RevertStages
  <2> QED BY <2>1, <2>2
<1>3. CASE WriteRoot
  <2>1. CASE pc' = "revRoot"
    <3>1. /\ pc = "include" /\ UNCHANGED <<root, target, snap, call>>
          /\ job'.layout = job.layout /\ job'.reverting = job.reverting
      BY <1>0, <1>3, <2>1 DEF WriteRoot, Fails, AfterInclude, GoTo, files, Job
    <3> QED BY <2>1, <3>1 DEF AtomicInv, AttemptInv, Attempting, InCall, RevertInv,
            StagesInv, AfterWrite, Applying, RevertStages, PutBackSight, Included, Sees
  <2>2. CASE pc' # "revRoot"
    <3>1. /\ pc = "include" /\ UNCHANGED <<target, call>>
          /\ root' = [read EXCEPT !.include = "last"]
          /\ snap' = [snap EXCEPT !.root = read, !.written = root']
          /\ job'.layout = job.layout /\ job'.reverting = job.reverting
          /\ pc' \in {"reload", "rewrite"}
      BY <1>0, <1>3, <2>2 DEF WriteRoot, Fails, AfterInclude, GoTo, Job
    <3>2. /\ root'.include = "last" /\ snap'.root = read /\ snap'.root # NoCopy
          /\ snap'.target = snap.target
      BY <1>0, <3>1 DEF Root, Snapshot
    <3>3. read.include = root.include /\ snap.root = NoCopy
      BY <3>1 DEF AtomicInv, StagesInv, IncludeInv
    <3>4. PutBackSight' = PutBackSight
      BY <3>2, <3>3 DEF PutBackSight, Sees
    <3> QED BY <3>1, <3>2, <3>4 DEF AtomicInv, AttemptInv, Attempting, InCall, RevertInv,
            StagesInv, AfterWrite, Applying, RevertStages, Included, Sees
  <2> QED BY <2>1, <2>2
<1>4. CASE RewriteTarget \/ RemoveProbe
  <2>1. CASE pc' = "revRoot"
    <3>1. /\ AfterWrite /\ UNCHANGED <<root, target, snap, call>>
          /\ job'.layout = job.layout /\ job'.reverting = job.reverting
      BY <1>0, <1>4, <2>1 DEF RewriteTarget, RemoveProbe, Fails, GoTo, files, Job, AfterWrite,
         Applying
    <3> QED BY <2>1, <3>1 DEF AtomicInv, AttemptInv, Attempting, InCall, RevertInv,
            StagesInv, AfterWrite, Applying, RevertStages, PutBackSight, Included, Sees
  <2>2. CASE pc' # "revRoot"
    <3>1. /\ AfterWrite /\ pc' \in {"reload", "verify"}
          /\ UNCHANGED <<root, snap, call, job>>
          /\ target' \in {Generated(job.layout, job.n, Probe(job.n)),
                          Generated(job.layout, job.n, 0)}
      BY <1>4, <2>2 DEF RewriteTarget, RemoveProbe, Fails, GoTo, local, AfterWrite, Applying
    <3>2. target' # NoFile /\ target'.layout = job.layout
      BY <1>0, <3>1 DEF Generated
    <3> QED BY <3>1, <3>2 DEF AtomicInv, AttemptInv, Attempting, InCall, RevertInv,
            StagesInv, AfterWrite, Applying, RevertStages, PutBackSight, Included, Sees
  <2> QED BY <2>1, <2>2
<1>5. CASE SyncWake
  <2>1. pc' \in {"idle", "applied"} /\ job' = NoJob
    BY <1>5 DEF SyncWake, Ends, GoTo
  <2> QED BY <2>1 DEF NoJob, AtomicInv, AttemptInv, Attempting, InCall, RevertInv,
          StagesInv, AfterWrite, Applying, RevertStages
<1> QED BY <1>1, <1>2, <1>3, <1>4, <1>5

\* A rollback or a revert.
LEMMA RevertKeeps ==
  ASSUME EngineAssumption, TypeOK, IncludeInv, AtomicInv, Reverts \/ RevertWake
  PROVE  AtomicInv'
<1> USE DEF AtomicInv, AttemptInv, Attempting, InCall, RevertInv, StagesInv, AfterWrite,
        Applying, RevertStages, PutBackSight, Included, Sees
<1>0. /\ job \in Job /\ NoCopy \notin Root /\ snap \in Snapshot
      /\ pc \in RevertStages /\ root \in Root
  BY Fields, RevertsWhen
<1>1. CASE Stops
  <2>1. pc' \in {"idle", "applied"} /\ ~job'.reverting
    BY <1>1, StopMoves
  <2> QED BY <2>1
<1>2. CASE (RevertReadsRoot \/ RevertToggle \/ RevertWake \/ RevertReloads) /\ ~Stops
  <2>1. /\ pc' \in RevertStages /\ UNCHANGED <<root, target, snap, call>>
        /\ job'.layout = job.layout /\ job'.reverting = job.reverting
        /\ pc' = "revTarget" => snap.root \in {NoCopy, root}
        /\ pc' \in {"revWake", "revReload", "revLive"} =>
             pc \in {"revToggle", "revWake", "revReload"}
        /\ pc' \in {"revInclude", "revTarget", "revWake", "revReload", "revLive"}
    BY <1>2, RevertMoves
  <2> QED BY <1>0, <2>1
<1>3. CASE RevertWritesRoot /\ ~Stops
  <2>1. /\ pc' = "revTarget" /\ pc = "revInclude" /\ root' = snap.root
        /\ UNCHANGED <<target, job, snap, call>>
    BY <1>3 DEF RevertWritesRoot, GoTo
  <2>2. snap.root # NoCopy
    BY <2>1 DEF TypeOK, Defined
  <2>3. PutBackSight' = PutBackSight /\ Included' = PutBackSight.included
    BY <2>1, <2>2
  <2>4. Sees(target)' = Sees(target)
    BY <2>1
  <2> HIDE DEF PutBackSight, Included, Sees
  <2> QED BY <2>1, <2>3, <2>4
<1>4. CASE RevertTarget /\ ~Stops
  <2>1. /\ pc' = "revToggle" /\ pc = "revTarget" /\ target' = snap.target
        /\ UNCHANGED <<root, job, snap, call>>
    BY <1>4 DEF RevertTarget, GoTo, local
  <2>2. PutBackSight' = PutBackSight /\ Included' = Included
    BY <2>1
  <2>3. Sees(target)' = PutBackSight.file
    BY <2>1
  <2> HIDE DEF PutBackSight, Included, Sees
  <2> QED BY <2>1, <2>2, <2>3
<1>5. CASE RevertLive /\ ~Stops
  <2>1. pc' = "idle" /\ job' = NoJob
    BY <1>5 DEF RevertLive, Ends, GoTo
  <2> QED BY <2>1 DEF NoJob
<1> QED BY <1>1, <1>2, <1>3, <1>4, <1>5 DEF Reverts

LEMMA AtomicStep ==
  ASSUME EngineAssumption, TypeOK, IncludeInv, AtomicInv, ~EditsInclude, [Next]_vars
  PROVE  AtomicInv'
<1>1. CASE HandBackWrites
  <2>1. pc' = "idle" /\ UNCHANGED <<target, job>> /\ pc = "exclude"
    BY <1>1 DEF HandBackWrites, GoTo
  <2>2. ~job'.reverting
    BY <2>1 DEF AtomicInv, StagesInv, RevertStages
  <2> QED BY <2>1, <2>2 DEF AtomicInv, AttemptInv, Attempting, InCall, RevertInv, StagesInv,
          AfterWrite, Applying, RevertStages
<1>2. CASE Others \/ UNCHANGED vars
  <2>1. /\ UNCHANGED <<target, pc, job, snap, read, call>>
        /\ root'.include = root.include
    BY <1>2, OthersMove
  <2>2. Included' = Included /\ Sees(target)' = Sees(target)
    BY <2>1 DEF Included, Sees
  <2>3. PutBackSight' = PutBackSight
    <3>1. CASE snap.root = NoCopy
      BY <2>1, <3>1 DEF PutBackSight, Sees
    <3>2. CASE snap.root # NoCopy
      BY <2>1, <3>2 DEF PutBackSight, Sees
    <3> QED BY <3>1, <3>2
  <2>4. AttemptInv' /\ RevertInv'
    BY <2>1, <2>2, <2>3 DEF AtomicInv, AttemptInv, Attempting, InCall, RevertInv
  <2>5. StagesInv'
    BY <2>1, <2>2, <2>3 DEF AtomicInv, StagesInv, AfterWrite, Applying
  <2> QED BY <2>4, <2>5 DEF AtomicInv
<1> QED BY <1>1, <1>2, CallerKeeps, ApplyKeeps, RevertKeeps DEF Next, EngineStep, Reverts

\* At every stage of Apply and Revert, the snapshot is what the call found, and what
\* is on disk is of the snapshot or of the layout applied (apply.go).
THEOREM AtomicInvHolds == Spec /\ ~EditsInclude => []AtomicInv
<1>1. Init => AtomicInv
  BY DEF Init, NoJob, AtomicInv, AttemptInv, Attempting, InCall, RevertInv, StagesInv,
     AfterWrite, Applying, RevertStages
<1>2. ~EditsInclude /\ TypeOK /\ IncludeInv /\ AtomicInv /\ [Next]_vars => AtomicInv'
  BY AtomicStep, EngineAssumption
<1>3. CASE ~EditsInclude
  BY <1>1, <1>2, <1>3, IncludeInvHolds, EngineTypeCorrect, PTL DEF Spec
<1> QED BY <1>3

-----------------------------------------------------------------------------
(* The refinement.                                                         *)

\* What AtomicApply sees, stage by stage.
SightsInv ==
  /\ Between => NowSeen.file = Sees(target) /\ NowSeen.included = Included
  /\ ~Between => NowSeen = call.from
  /\ pc = "applied" \/ job.reverting => Held = PutBackSight /\ Held # NoCopy
  /\ ~(pc = "applied" \/ job.reverting) => Held = NoCopy

LEMMA Sights ==
  ASSUME EngineAssumption, TypeOK, TypeOK'
  PROVE  SightsInv /\ SightsInv'
<1>1. NowSeen = IF Between THEN [file |-> Sees(target), included |-> Included] ELSE call.from
  BY DEF NowSeen, Seen, Sees, Included
<1>2. Held = IF pc = "applied" \/ job.reverting THEN PutBackSight ELSE NoCopy
  BY DEF Held, PutBackSight, Sees
<1>3. PutBackSight \in [file : Layouts \cup {Own, NoFile}, included : BOOLEAN]
  BY DEF TypeOK, CallTyped, PutBackSight, Sees, Snapshot, File, GeneratedFile
<1>4. PutBackSight # NoCopy
  BY <1>3 DEF EngineAssumption
<1>5. SightsInv
  BY <1>1, <1>2, <1>4 DEF SightsInv
<1>6. (NowSeen = IF Between THEN [file |-> Sees(target), included |-> Included]
                            ELSE call.from)'
  BY DEF NowSeen, Seen, Sees, Included
<1>7. (Held = IF pc = "applied" \/ job.reverting THEN PutBackSight ELSE NoCopy)'
  BY DEF Held, PutBackSight, Sees
<1>8. (PutBackSight \in [file : Layouts \cup {Own, NoFile}, included : BOOLEAN])'
  BY DEF TypeOK, CallTyped, PutBackSight, Sees, Snapshot, File, GeneratedFile
<1>9. (PutBackSight # NoCopy)'
  BY <1>8 DEF EngineAssumption
<1>10. SightsInv'
  BY <1>6, <1>7, <1>9 DEF SightsInv
<1> QED BY <1>5, <1>10

\* Nothing AtomicApply sees changes.
Unseen == UNCHANGED <<NowSeen.file, NowSeen.included, Held>>

\* The include AtomicApply sees names a file it sees.
LEMMA NoneDangles ==
  ASSUME EngineAssumption, TypeOK, IncludeHasTarget
  PROVE  Included => Sees(target) # NoFile
BY DEF TypeOK, FilesTyped, File, GeneratedFile, EngineAssumption, IncludeHasTarget, Included,
   Sees

\* Callers begin, keep and drop what AtomicApply knows of.
LEMMA CallerMaps ==
  ASSUME EngineAssumption, TypeOK, TypeOK', IncludeInv, AtomicInv, Caller
  PROVE  Unseen \/ Atomic!Next
<1>0. SightsInv /\ SightsInv'
  BY Sights
<1>1. ASSUME NEW l \in Layouts, NEW interactive \in BOOLEAN, Apply(l, interactive)
      PROVE  Unseen
  <2>1. /\ pc = "idle" /\ call' = Found /\ UNCHANGED <<root, target>>
        /\ pc' \in {"write", "toggle"} /\ job'.reverting = FALSE
    BY <1>1 DEF Apply, FirstStage, GoTo, files, NoJob
  <2>2. call'.from = [file |-> Sees(target), included |-> Included]
    BY <2>1 DEF Found, Seen, Sees, Included
  <2>3. Between /\ ~Between' /\ ~job.reverting
    BY <2>1 DEF Between, Resting, AtomicInv, StagesInv, RevertStages
  <2> QED BY <1>0, <2>1, <2>2, <2>3 DEF Unseen, SightsInv
<1>2. CASE Confirm
  <2>1. pc = "applied" /\ pc' = "idle" /\ UNCHANGED <<root, target, job>> /\ ~job.reverting
    BY <1>2 DEF Confirm, GoTo, files, AtomicInv, StagesInv, RevertStages
  <2>2. Between /\ Between' /\ Sees(target)' = Sees(target) /\ Included' = Included
    BY <2>1 DEF Between, Resting, Sees, Included
  <2>3. Atomic!Keep
    BY <1>0, <2>1, <2>2 DEF SightsInv, Atomic!Keep
  <2> QED BY <2>3 DEF Atomic!Next
<1>3. CASE Revert
  <2>1. /\ pc = "applied" /\ pc' = "revRoot" /\ UNCHANGED <<root, target, snap>>
        /\ call' = [call EXCEPT !.from = Seen] /\ job'.reverting
    BY <1>3 DEF Revert, GoTo, files, NoJob
  <2>2. call'.from = [file |-> Sees(target), included |-> Included]
    BY <2>1, Fields DEF Call, Seen, Sees, Included
  <2>3. Between /\ ~Between' /\ PutBackSight' = PutBackSight
    BY <2>1 DEF Between, Resting, PutBackSight, Sees
  <2> QED BY <1>0, <2>1, <2>2, <2>3 DEF Unseen, SightsInv
<1>4. CASE HandBackReads
  <2>1. /\ pc = "idle" /\ pc' = "exclude" /\ UNCHANGED <<root, target, job>> /\ ~job.reverting
    BY <1>4 DEF HandBackReads, GoTo, files, AtomicInv, StagesInv, RevertStages
  <2>2. Between /\ Between' /\ Sees(target)' = Sees(target) /\ Included' = Included
    BY <2>1 DEF Between, Resting, Sees, Included
  <2> QED BY <1>0, <2>1, <2>2 DEF Unseen, SightsInv
<1>5. CASE Crash
  <2>1. /\ pc # "idle" /\ pc' = "idle" /\ UNCHANGED <<root, target>> /\ ~job'.reverting
        /\ Between' /\ Sees(target)' = Sees(target) /\ Included' = Included
    BY <1>5 DEF Crash, GoTo, files, NoJob, Between, Resting, Sees, Included
  <2>2. CASE pc = "exclude"
    <3>1. Between /\ ~job.reverting
      BY <2>2 DEF Between, Resting, AtomicInv, StagesInv, RevertStages
    <3> QED BY <1>0, <2>1, <2>2, <3>1 DEF Unseen, SightsInv
  <2>3. CASE pc = "applied"
    <3>1. Between
      BY <2>3 DEF Between, Resting
    <3>2. Atomic!Keep
      BY <1>0, <2>1, <2>3, <3>1 DEF SightsInv, Atomic!Keep
    <3> QED BY <3>2 DEF Atomic!Next
  <2>4. Included => Sees(target) # NoFile
    BY NoneDangles DEF IncludeInv
  <2>5. CASE Attempting
    <3>1. ~Between /\ pc # "applied" /\ ~job.reverting
      BY <2>1, <2>5 DEF Attempting, InCall, Between, Resting
    <3>2. /\ job.layout \in Layouts
          /\ Included \in {call.from.included, TRUE}
          /\ Sees(target) \in {job.layout, call.from.file}
      BY <2>5 DEF AtomicInv, AttemptInv
    <3>3. Atomic!ApplyStops(job.layout)
      BY <1>0, <2>1, <2>4, <3>1, <3>2
         DEF SightsInv, Atomic!ApplyStops, Atomic!Mixture, Atomic!NoDanglingInclude
    <3> QED BY <3>2, <3>3 DEF Atomic!Next
  <2>6. CASE job.reverting
    <3>1. ~Between
      BY <2>6 DEF AtomicInv, StagesInv, RevertStages, Between, Resting
    <3>2. /\ Sees(target) \in {call.from.file, PutBackSight.file}
          /\ Included \in {call.from.included, PutBackSight.included}
      BY <2>6 DEF AtomicInv, RevertInv
    <3>3. Atomic!PutBackStops
      BY <1>0, <2>1, <2>4, <2>6, <3>1, <3>2
         DEF SightsInv, Atomic!PutBackStops, Atomic!Mixture, Atomic!NoDanglingInclude
    <3> QED BY <3>3 DEF Atomic!Next
  <2> QED BY <2>1, <2>2, <2>3, <2>5, <2>6 DEF Attempting, InCall
<1> QED BY <1>1, <1>2, <1>3, <1>4, <1>5 DEF Caller

\* An apply is one step of AtomicApply, at its end.
LEMMA ApplyMaps ==
  ASSUME EngineAssumption, TypeOK, TypeOK', IncludeInv, AtomicInv,
         SyncToggle \/ ReadRoot \/ Reload \/ CheckProbe \/ Matches \/ Differs \/ NoAnswer
         \/ TimeOut \/ MoveWorkspaces \/ RetireLegacyFile
         \/ WriteTarget \/ WriteRoot \/ RewriteTarget \/ RemoveProbe \/ SyncWake
  PROVE  Unseen \/ Atomic!Next
<1>0. SightsInv /\ SightsInv' /\ job \in Job /\ snap \in Snapshot
  BY Sights, Fields
<1>1. CASE \/ SyncToggle \/ ReadRoot \/ Reload \/ CheckProbe \/ Matches \/ Differs \/ NoAnswer
           \/ TimeOut \/ MoveWorkspaces \/ RetireLegacyFile
  <2>1. /\ AfterWrite /\ (AfterWrite' \/ pc' = "revRoot")
        /\ call'.from = call.from /\ job'.reverting = job.reverting
    BY <1>1, ApplyMoves
  <2>2. ~job.reverting /\ ~Between /\ ~Between' /\ pc # "applied" /\ pc' # "applied"
    BY <2>1 DEF AtomicInv, StagesInv, RevertStages, AfterWrite, Applying, Between, Resting
  <2> QED BY <1>0, <2>1, <2>2 DEF SightsInv, Unseen
<1>2. CASE (WriteTarget /\ pc' = "toggle") \/ WriteRoot \/ RewriteTarget \/ RemoveProbe
  <2>1. /\ pc \in {"write", "include", "rewrite", "clean"}
        /\ pc' \in {"toggle", "rewrite", "reload", "verify", "revRoot"}
        /\ call' = call /\ job'.reverting = job.reverting
    BY <1>0, <1>2 DEF WriteTarget, WriteRoot, RewriteTarget, RemoveProbe, Fails, AfterInclude,
       Ends, GoTo, local, Job
  <2>2. ~job.reverting /\ ~Between /\ ~Between'
    BY <2>1 DEF AtomicInv, StagesInv, RevertStages, Between, Resting
  <2> QED BY <1>0, <2>1, <2>2 DEF SightsInv, Unseen
<1>3. CASE WriteTarget /\ pc' # "toggle"
  <2>1. /\ pc = "write" /\ pc' = "idle" /\ UNCHANGED <<root, target>> /\ ~job'.reverting
    BY <1>3 DEF WriteTarget, Ends, GoTo, files, NoJob
  <2>2. /\ ~job.reverting /\ ~Between /\ Between' /\ Attempting
        /\ Sees(target)' = Sees(target) /\ Included' = Included
    BY <2>1 DEF AtomicInv, StagesInv, RevertStages, Between, Resting, Attempting, InCall, Sees,
       Included
  <2>3. call.from = PutBackSight
    BY <2>2 DEF AtomicInv, AttemptInv
  <2>4. target = snap.target /\ snap.root = NoCopy
    BY <2>1 DEF AtomicInv, StagesInv, IncludeInv
  <2>5. Sees(target) = call.from.file /\ Included = call.from.included
    BY <2>3, <2>4 DEF PutBackSight, Included
  <2> QED BY <1>0, <2>1, <2>2, <2>5 DEF SightsInv, Unseen
<1>4. CASE SyncWake
  <2>1. /\ pc = "wake" /\ pc' \in {"idle", "applied"} /\ UNCHANGED <<root, target>>
        /\ ~job'.reverting
        /\ pc' = "applied" => snap'.root = snap.root /\ snap'.target = snap.target
    BY <1>0, <1>4 DEF SyncWake, Ends, GoTo, NoJob, Snapshot
  <2>2. /\ ~job.reverting /\ ~Between /\ Between' /\ Attempting /\ AfterWrite
        /\ Sees(target)' = Sees(target) /\ Included' = Included
    BY <2>1 DEF AtomicInv, StagesInv, RevertStages, Between, Resting, Attempting, InCall, Sees,
       Included, AfterWrite, Applying
  <2>3. /\ job.layout \in Layouts /\ call.from = PutBackSight
        /\ Included \in {call.from.included, TRUE} /\ Sees(target) = job.layout
    BY <2>2 DEF AtomicInv, AttemptInv, StagesInv
  <2>4. pc' = "applied" => PutBackSight' = PutBackSight
    BY <2>1 DEF PutBackSight, Sees
  <2>5. PutBackSight = [file |-> PutBackSight.file, included |-> PutBackSight.included]
    BY DEF PutBackSight
  <2>6. Atomic!Apply(job.layout)
    BY <1>0, <2>1, <2>2, <2>3, <2>4, <2>5 DEF SightsInv, Atomic!Apply, Atomic!Old
  <2> QED BY <2>3, <2>6 DEF Atomic!Next
<1> QED BY <1>1, <1>2, <1>3, <1>4

\* A rollback is no step, or an apply that stops; a revert is one step, at its end.
LEMMA RevertMaps ==
  ASSUME EngineAssumption, TypeOK, TypeOK', IncludeInv, AtomicInv, Reverts \/ RevertWake
  PROVE  Unseen \/ Atomic!Next
<1>0. /\ SightsInv /\ SightsInv' /\ job \in Job /\ snap \in Snapshot
      /\ pc \in RevertStages /\ ~Between /\ pc # "applied"
      /\ Included => Sees(target) # NoFile
  BY Sights, Fields, RevertsWhen, NoneDangles DEF IncludeInv, RevertStages, Between, Resting
<1>1. job.reverting \/ Attempting
  BY <1>0 DEF Attempting, InCall, RevertStages
<1>2. job.reverting =>
        /\ Sees(target) \in {call.from.file, PutBackSight.file}
        /\ Included \in {call.from.included, PutBackSight.included}
  BY DEF AtomicInv, RevertInv
<1>3. Attempting =>
        /\ job.layout \in Layouts /\ call.from = PutBackSight
        /\ Included \in {call.from.included, TRUE}
        /\ Sees(target) \in {job.layout, call.from.file}
  BY DEF AtomicInv, AttemptInv
<1>4. CASE Stops
  <2>1. /\ UNCHANGED <<root, target>> /\ ~job'.reverting
        /\ job.reverting => pc' = "applied" /\ UNCHANGED <<snap, call>>
        /\ ~job.reverting => pc' = "idle"
    BY <1>4, StopMoves
  <2>2. Between' /\ Sees(target)' = Sees(target) /\ Included' = Included
    BY <2>1 DEF Between, Resting, Sees, Included
  <2>3. CASE job.reverting
    <3>1. PutBackSight' = PutBackSight
      BY <2>1, <2>3 DEF PutBackSight, Sees
    <3>2. Atomic!PutBackStops
      BY <1>0, <1>2, <2>1, <2>2, <2>3, <3>1
         DEF SightsInv, Atomic!PutBackStops, Atomic!Mixture, Atomic!NoDanglingInclude
    <3> QED BY <3>2 DEF Atomic!Next
  <2>4. CASE ~job.reverting
    <3>1. Atomic!ApplyStops(job.layout)
      BY <1>0, <1>1, <1>3, <2>1, <2>2, <2>4
         DEF SightsInv, Atomic!ApplyStops, Atomic!Mixture, Atomic!NoDanglingInclude
    <3> QED BY <1>1, <1>3, <2>4, <3>1 DEF Atomic!Next
  <2> QED BY <2>3, <2>4
<1>5. CASE (RevertReadsRoot \/ RevertToggle \/ RevertWake \/ RevertReloads) /\ ~Stops
  <2>1. /\ pc' \in RevertStages /\ UNCHANGED <<root, snap, call>>
        /\ job'.reverting = job.reverting
    BY <1>5, RevertMoves
  <2>2. ~Between' /\ pc' # "applied" /\ PutBackSight' = PutBackSight
    BY <2>1 DEF RevertStages, Between, Resting, PutBackSight, Sees
  <2> QED BY <1>0, <2>1, <2>2 DEF SightsInv, Unseen
<1>6. CASE (RevertWritesRoot \/ RevertTarget) /\ ~Stops
  <2>1. /\ pc' \in {"revTarget", "revToggle"} /\ UNCHANGED <<snap, call, job>>
        /\ root' = root \/ (root' = snap.root /\ pc = "revInclude")
    BY <1>6 DEF RevertWritesRoot, RevertTarget, GoTo, local
  <2>2. pc = "revInclude" => snap.root # NoCopy
    BY DEF TypeOK, Defined
  <2>3. PutBackSight' = PutBackSight
    <3>1. CASE snap.root = NoCopy
      BY <2>1, <2>2, <3>1 DEF PutBackSight, Sees
    <3>2. CASE snap.root # NoCopy
      BY <2>1, <3>2 DEF PutBackSight, Sees
    <3> QED BY <3>1, <3>2
  <2>4. ~Between' /\ pc' # "applied"
    BY <2>1 DEF Between, Resting
  <2> QED BY <1>0, <2>1, <2>3, <2>4 DEF SightsInv, Unseen
<1>7. CASE RevertLive /\ ~Stops
  <2>1. /\ pc = "revLive" /\ pc' = "idle" /\ UNCHANGED <<root, target>> /\ ~job'.reverting
    BY <1>7 DEF RevertLive, Ends, GoTo, files, NoJob
  <2>2. Between' /\ Sees(target)' = Sees(target) /\ Included' = Included
    BY <2>1 DEF Between, Resting, Sees, Included
  <2>3. Sees(target) = PutBackSight.file /\ Included = PutBackSight.included
    BY <2>1 DEF AtomicInv, StagesInv, RevertStages, PutBackSight
  <2>4. CASE job.reverting
    <3>1. Atomic!PutBack
      BY <1>0, <2>1, <2>2, <2>3, <2>4 DEF SightsInv, Atomic!PutBack
    <3> QED BY <3>1 DEF Atomic!Next
  <2>5. CASE ~job.reverting
    BY <1>0, <1>1, <1>3, <2>1, <2>2, <2>3, <2>5 DEF SightsInv, Unseen
  <2> QED BY <2>4, <2>5
<1> QED BY <1>4, <1>5, <1>6, <1>7 DEF Reverts

\* Every step of the engine is one of AtomicApply, or none that it sees.
LEMMA StepMaps ==
  ASSUME EngineAssumption, TypeOK, TypeOK', IncludeInv, AtomicInv, ~EditsInclude, [Next]_vars
  PROVE  Unseen \/ Atomic!Next
<1>0. SightsInv /\ SightsInv' /\ root \in Root
  BY Sights, Fields
<1>1. CASE HandBackWrites
  <2>1. /\ pc = "exclude" /\ pc' = "idle" /\ UNCHANGED <<target, job>> /\ ~job.reverting
        /\ root' = [read EXCEPT !.include = "none"] \/ root' = root
    BY <1>1 DEF HandBackWrites, GoTo, AtomicInv, StagesInv, RevertStages
  <2>2. Between /\ Between' /\ Sees(target)' = Sees(target)
    BY <2>1 DEF Between, Resting, Sees
  <2>3. Included' = FALSE \/ Included' = Included
    BY <2>1, Fields DEF Included, Root
  <2>4. Unseen \/ Atomic!HandBack
    BY <1>0, <2>1, <2>2, <2>3 DEF SightsInv, Unseen, Atomic!HandBack
  <2> QED BY <2>4 DEF Atomic!Next
<1>2. CASE Others \/ UNCHANGED vars
  <2>1. /\ UNCHANGED <<target, pc, job, snap, call>> /\ root'.include = root.include
    BY <1>2, OthersMove
  <2>2. /\ Between' = Between /\ Included' = Included /\ Sees(target)' = Sees(target)
    BY <2>1 DEF Between, Resting, Included, Sees
  <2>3. PutBackSight' = PutBackSight
    <3>1. CASE snap.root = NoCopy
      BY <2>1, <3>1 DEF PutBackSight, Sees
    <3>2. CASE snap.root # NoCopy
      BY <2>1, <3>2 DEF PutBackSight, Sees
    <3> QED BY <3>1, <3>2
  <2> QED BY <1>0, <2>1, <2>2, <2>3 DEF SightsInv, Unseen
<1> QED BY <1>1, <1>2, CallerMaps, ApplyMaps, RevertMaps DEF Next, EngineStep, Reverts

\* Between calls the generated file and its include change together or not at
\* all, and a held preview can be put back, whatever fails on the way, while the
\* user edits only the text around the include (apply.go, Apply and Revert).
THEOREM EngineIsAtomic == Spec /\ ~EditsInclude => AtomicallyApplied
<1>1. Init => Atomic!Init
  <2> SUFFICES ASSUME Init PROVE Atomic!Init
    OBVIOUS
  <2>1. NowSeen = [file |-> Sees(target), included |-> Included] /\ Held = NoCopy
    BY DEF Init, NowSeen, Between, Resting, Seen, Sees, Included, Held, NoJob
  <2>2. Sees(target) \in Layouts \cup {NoFile}
    BY DEF Init, Generated, Sees
  <2>3. Included => Sees(target) # NoFile
    BY <2>2, EngineAssumption DEF Init, Included, Sees, Generated, EngineAssumption
  <2>4. Included \in BOOLEAN
    BY DEF Included
  <2> QED BY <2>1, <2>2, <2>3, <2>4 DEF Atomic!Init, Atomic!NoDanglingInclude
<1>2. TypeOK /\ TypeOK' /\ IncludeInv /\ AtomicInv /\ ~EditsInclude /\ [Next]_vars
        => [Atomic!Next]_(Atomic!vars)
  BY StepMaps, EngineAssumption DEF Unseen, Atomic!vars
<1>3. CASE ~EditsInclude
  BY <1>1, <1>2, <1>3, EngineTypeCorrect, IncludeInvHolds, AtomicInvHolds, PTL
     DEF Spec, AtomicallyApplied, Atomic!Spec
<1> QED BY <1>3
=============================================================================
