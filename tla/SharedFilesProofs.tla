------------------------- MODULE SharedFilesProofs -------------------------
(***************************************************************************)
(* Theorems about what the programs share on disk: however many daemons    *)
(* and editors come, go and crash, one process writes (WriterOwnership);   *)
(* no operation that fails or stops half way loses a profile, and what the *)
(* daemon refers to is found under the name it remembers (ProfileStore).   *)
(***************************************************************************)
EXTENDS WriterOwnership, ProfileStore, FiniteSetTheorems, TLAPS

-----------------------------------------------------------------------------
\* The writer lock.

Writing == {"starting", "serving", "stopping"}

OwnershipTyped ==
  /\ lock \in Daemons \cup Editors \cup {Nobody}
  /\ daemon \in [Daemons -> {"off", "waiting"} \cup Writing]
  /\ editor \in [Editors -> {"off", "asking", "remote", "direct", "refused"}]

\* Who writes holds the lock.
WritersHoldIt ==
  /\ \A d \in Daemons : daemon[d] \in Writing => lock = d
  /\ \A e \in Editors : editor[e] = "direct" => lock = e

OwnershipInv == OwnershipTyped /\ WritersHoldIt

\* What a step does to lock, daemons and editors.
StepsOn(d) ==
  /\ UNCHANGED <<lock, editor>>
  /\ \E stage \in {"off", "waiting"} \cup Writing :
       /\ daemon' = Set(daemon, d, stage)
       /\ stage \in Writing => daemon[d] \in Writing

Leaves(d) ==
  /\ daemon' = Set(daemon, d, "off") /\ UNCHANGED editor
  /\ lock' = IF lock = d THEN Nobody ELSE lock

LEMMA OwnershipMoves ==
  ASSUME OwnershipTyped, [OwnershipNext]_ownershipVars
  PROVE  \/ UNCHANGED <<lock, daemon, editor>>
         \/ \E d \in Daemons : StepsOn(d) \/ Leaves(d) \/ ClaimsOwnership(d)
         \/ \E e \in Editors : Opens(e) \/ Asks(e) \/ Closes(e)
<1> DEFINE Goal == \/ UNCHANGED <<lock, daemon, editor>>
                   \/ \E d \in Daemons : StepsOn(d) \/ Leaves(d) \/ ClaimsOwnership(d)
                   \/ \E e \in Editors : Opens(e) \/ Asks(e) \/ Closes(e)
<1>1. ASSUME NEW d \in Daemons,
             \/ ReleaseCancels(d) \/ ReleaseWaits(d) \/ ReleaseSuppresses(d)
             \/ ReleaseLaunches(d) \/ ReleaseConfirms(d) \/ UnmanageReturns(d)
             \/ ReleaseFails(d) \/ PollStops(d) \/ PollRecords(d)
             \/ SwitchCalled(d) \/ ManageClaims(d)
      PROVE  Goal
  BY <1>1 DEF ReleaseCancels, ReleaseWaits, ReleaseSuppresses, ReleaseLaunches,
              ReleaseConfirms, UnmanageReturns, ReleaseFails, PollStops, PollRecords,
              SwitchCalled, ManageClaims
<1>2. ASSUME NEW d \in Daemons, Exits(d) \/ Crashes(d) PROVE Goal
  BY <1>2 DEF Exits, Crashes, Gone, Leaves
<1>3. ASSUME NEW d \in Daemons, Launches(d) \/ Serves(d) \/ Stops(d) PROVE Goal
  BY <1>3 DEF Launches, Serves, Stops, StepsOn, Writing
<1>4. ASSUME NEW d \in Daemons, ClaimsOwnership(d) PROVE Goal
  BY <1>4
<1>5. CASE SwitchedOffline \/ WatcherStarts \/ SessionEnds \/ UNCHANGED ownershipVars
  BY <1>5 DEF SwitchedOffline, WatcherStarts, SessionEnds, ownershipVars
<1> QED BY <1>1, <1>2, <1>3, <1>4, <1>5 DEF OwnershipNext, Release

LEMMA OwnershipStep ==
  ASSUME OwnershipInv, [OwnershipNext]_ownershipVars
  PROVE  OwnershipInv'
<1> USE DEF OwnershipInv, OwnershipTyped, WritersHoldIt, Writing
<1> USE ProcessesDiffer
<1>1. CASE UNCHANGED <<lock, daemon, editor>>
  BY <1>1
<1>2. ASSUME NEW d \in Daemons, StepsOn(d) PROVE OwnershipInv'
  BY <1>2 DEF StepsOn, Set
<1>3. ASSUME NEW d \in Daemons, Leaves(d) PROVE OwnershipInv'
  BY <1>3 DEF Leaves, Set
<1>4. ASSUME NEW d \in Daemons, ClaimsOwnership(d) PROVE OwnershipInv'
  BY <1>4 DEF ClaimsOwnership, Set
<1>5. ASSUME NEW e \in Editors, Opens(e) \/ Asks(e) \/ Closes(e) PROVE OwnershipInv'
  <2>1. CASE Opens(e)
    BY <2>1 DEF Opens, Set
  <2>2. CASE Asks(e)
    BY <2>2 DEF Asks, Set
  <2>3. CASE Closes(e)
    BY <2>3 DEF Closes, Set
  <2> QED BY <1>5, <2>1, <2>2, <2>3
<1> QED BY <1>1, <1>2, <1>3, <1>4, <1>5, OwnershipMoves

LEMMA AtMostOne ==
  ASSUME OwnershipInv
  PROVE  OneWriter
<1>1. Writers \subseteq {lock}
  BY DEF OwnershipInv, WritersHoldIt, Writers, Writing
<1>2. IsFiniteSet({lock}) /\ Cardinality({lock}) = 1
  BY FS_Singleton
<1>3. Cardinality(Writers) <= Cardinality({lock})
  BY <1>1, <1>2, FS_Subset
<1> QED BY <1>2, <1>3 DEF OneWriter

\* For any number of daemons and editors, with crashes at any step and a
\* management switch turned by anyone: at most one process writes monitor
\* configuration, a daemon that is stopping included, since a writer always
\* holds the lock, and the lock has one holder.
THEOREM OnlyOneWrites == OwnershipSpec => []OneWriter
<1>1. OwnershipInit => OwnershipInv
  BY DEF OwnershipInit, OwnershipInv, OwnershipTyped, WritersHoldIt, Writing
<1>2. OwnershipInv /\ [OwnershipNext]_ownershipVars => OwnershipInv'
  BY OwnershipStep
<1>3. OwnershipInv => OneWriter
  BY AtMostOne
<1> QED BY <1>1, <1>2, <1>3, PTL DEF OwnershipSpec

-----------------------------------------------------------------------------
\* The profile store.

Ids == 0..ids

Kept == [name : Names, id : Ids]

JobIsRecord ==
  job = [op |-> job.op, name |-> job.name, to |-> job.to, by |-> job.by, at |-> job.at,
         ok |-> job.ok, was |-> job.was, profile |-> job.profile]

JobTyped ==
  job # NoJob =>
    /\ JobIsRecord
    /\ job.op \in {"save", "delete", "rename"} /\ job.at \in 1..6 /\ job.ok \in BOOLEAN
    /\ job.name \in Names /\ job.to \in Names

StoreTyped ==
  /\ ids \in Nat /\ 0 \notin live
  /\ json \in [Slots -> {"none", "file", "link"}]
  /\ content \in [Slots -> Kept \cup {NotThere}]
  /\ dotfile \in Kept \cup {NotThere}
  /\ refs \in [Users -> Kept \cup {NotThere}]
  /\ \A s \in Present : Read(s) \in Kept
  /\ dialog.kind # "none" => dialog.name \in Names

\* What a file holds belongs in it; the dotfile is reached by a link from its name.
FilesNamed == \A s \in Slots : json[s] = "file" => Files[content[s].name] = s

DotHolds == dotfile.id \in live => json[Files[dotfile.name]] = "link"

Saves == job # NoJob /\ job.op = "save"
Renames == job # NoJob /\ job.op = "rename" /\ job.ok
Moves == Renames /\ From # To

\* A save that has not written yet has an id that nothing has.
SaveIsNew ==
  Saves =>
    /\ job.profile \in Kept /\ job.profile.name = job.name
    /\ job.at = 1 => /\ job.profile.id # dotfile.id /\ job.profile.id > 0
                     /\ \A u \in Users : refs[u].id # job.profile.id

\* A rename carries one id, under the old name until the last step and under the new
\* name wherever it has written.
RenameCarries ==
  Renames =>
    /\ job.profile \in Kept /\ job.profile.name = job.to
    /\ job.at <= 5 => json[From] # "none" /\ Read(From).id = job.profile.id
    /\ job.at >= 3 => json[To] # "none"
    /\ json[To] # "none" => Read(To).id = job.profile.id

\* Between two files it makes a link where it found one, and can put the dotfile back.
MoveLinks ==
  Moves =>
    /\ job.at = 1 => json[To] = "none"
    /\ job.at = 2 => json[To] = IF json[From] = "link" THEN "link" ELSE "none"
    /\ job.at \in 3..5 /\ json[From] = "link" => json[To] = "link" /\ dotfile.name = job.to
    /\ job.at <= 5 /\ json[To] = "link" => json[From] = "link"
    /\ job.at <= 5 /\ json[From] = "link" =>
         /\ job.was \in Kept /\ job.was.id = dotfile.id
         /\ job.was.id \in live => json[Files[job.was.name]] = "link" /\ Files[job.was.name] # To

\* What r refers to is found under its name.
RefHolds(r) ==
  r.id \in live => json[Files[r.name]] # "none" /\ Read(Files[r.name]).id = r.id

\* The old files are gone, and who refers to them has not followed yet.
Trails(r) == Moves /\ job.at = 6 /\ r.id \in live /\ Files[r.name] = From

RefsHold ==
  \A u \in Users :
    /\ Trails(refs[u]) => refs[u].id = job.profile.id
    /\ ~Trails(refs[u]) => RefHolds(refs[u])
    /\ Moves /\ job.at <= 5 /\ refs[u].id \in live => Files[refs[u].name] # To

StoreInv ==
  /\ StoreTyped /\ JobTyped /\ FilesNamed /\ DotHolds
  /\ SaveIsNew /\ RenameCarries /\ MoveLinks /\ RefsHold /\ NothingIsLost

-----------------------------------------------------------------------------
(* What the steps come to.                                                 *)

Advances ==
  /\ job # NoJob /\ job.ok /\ job' = [job EXCEPT !.at = @ + 1]
  /\ UNCHANGED <<refs, ids, dialog>>

SaveWrites ==
  /\ job.op = "save" /\ job.at = 1
  /\ json' = [json EXCEPT ![To] = "file"]
  /\ content' = [content EXCEPT ![To] = job.profile]
  /\ live' = (live \ {IF json[To] = "none" THEN 0 ELSE Read(To).id}) \cup {job.profile.id}
  /\ UNCHANGED dotfile

DeleteWrites ==
  /\ job.op = "delete" /\ job.at = 1
  /\ json' = [json EXCEPT ![From] = "none"]
  /\ live' = IF json[From] = "none" THEN live ELSE live \ {Read(From).id}
  /\ UNCHANGED <<content, dotfile>>

RenameLinks ==
  /\ job.op = "rename" /\ job.at = 1
  /\ json' = IF From # To /\ json[From] = "link" THEN [json EXCEPT ![To] = "link"] ELSE json
  /\ UNCHANGED <<content, dotfile, live>>

RenameWrites ==
  /\ job.op = "rename" /\ job.at = 2 /\ WritesThrough(To, job.profile) /\ UNCHANGED live

RenameRemoves ==
  /\ job.op = "rename" /\ job.at = 5
  /\ json' = IF From = To THEN json ELSE [json EXCEPT ![From] = "none"]
  /\ UNCHANGED <<content, dotfile, live>>

MovesSidecar ==
  /\ \/ job.op \in {"save", "delete"} /\ job.at \in 2..3
     \/ job.op = "rename" /\ job.at \in 3..4
  /\ UNCHANGED <<json, content, dotfile, live>>

LEMMA StepKinds ==
  ASSUME JobTyped, DoesStep
  PROVE  /\ Advances /\ job.at \in 1..5
         /\ \/ SaveWrites \/ DeleteWrites \/ RenameLinks \/ RenameWrites \/ RenameRemoves
            \/ MovesSidecar
<1> DEFINE op == job.op at == job.at
<1>0. job # NoJob /\ job.ok /\ Advances
  BY DEF DoesStep, Advances, Done, terminal
<1>1. op \in {"save", "delete", "rename"} /\ at \in 1..6
  BY <1>0 DEF JobTyped
<1>2. CASE op = "save"
  <2>1. /\ Steps(op) = <<"json", "conf", "lua">> /\ at <= 3 /\ SaveStep
    BY <1>0, <1>1, <1>2 DEF DoesStep, Done, Steps, SaveSteps, DeleteStep, RenameStep
  <2>2. at = 1 => Step = "json"
    BY <2>1 DEF Step
  <2>3. at # 1 => at \in 2..3 /\ Step # "json"
    BY <2>1, <1>1 DEF Step
  <2>4. CASE at = 1
    BY <1>0, <1>2, <2>1, <2>2, <2>4 DEF SaveStep, SaveWrites
  <2>5. CASE at # 1
    BY <1>0, <1>2, <2>1, <2>3, <2>5 DEF SaveStep, MovesSidecar
  <2> QED
    BY <2>4, <2>5
<1>3. CASE op = "delete"
  <2>1. /\ Steps(op) = <<"json", "conf", "lua">> /\ at <= 3 /\ DeleteStep
    BY <1>0, <1>1, <1>3 DEF DoesStep, Done, Steps, DeleteSteps, SaveStep, RenameStep
  <2>2. at = 1 => Step = "json"
    BY <2>1 DEF Step
  <2>3. at # 1 => at \in 2..3 /\ Step # "json"
    BY <2>1, <1>1 DEF Step
  <2>4. CASE at = 1
    BY <1>0, <1>3, <2>1, <2>2, <2>4 DEF DeleteStep, DeleteWrites
  <2>5. CASE at # 1
    BY <1>0, <1>3, <2>1, <2>3, <2>5 DEF DeleteStep, MovesSidecar
  <2> QED
    BY <2>4, <2>5
<1>4. CASE op = "rename"
  <2>1. /\ Steps(op) = <<"link", "write", "conf", "lua", "remove">> /\ at <= 5 /\ RenameStep
    BY <1>0, <1>1, <1>4 DEF DoesStep, Done, Steps, RenameSteps, SaveStep, DeleteStep
  <2>2. CASE at = 1
    <3>1. Step = "link"
      BY <2>1, <2>2 DEF Step
    <3> QED
      BY <1>0, <1>4, <2>1, <2>2, <3>1 DEF RenameStep, RenameLinks, Sidecars
  <2>3. CASE at = 2
    <3>1. Step = "write"
      BY <2>1, <2>3 DEF Step
    <3> QED
      BY <1>0, <1>4, <2>1, <2>3, <3>1 DEF RenameStep, RenameWrites, Sidecars
  <2>4. CASE at \in 3..4
    <3>1. Step \in Sidecars /\ Step # "link" /\ Step # "write"
      BY <2>1, <2>4 DEF Step, Sidecars
    <3> QED
      BY <1>0, <1>4, <2>1, <2>4, <3>1 DEF RenameStep, MovesSidecar, Sidecars
  <2>5. CASE at = 5
    <3>1. Step = "remove" /\ Step \notin Sidecars
      BY <2>1, <2>5 DEF Step, Sidecars
    <3> QED
      BY <1>0, <1>4, <2>1, <2>5, <3>1 DEF RenameStep, RenameRemoves, Sidecars
  <2> QED
    BY <1>1, <2>1, <2>2, <2>3, <2>4, <2>5
<1> QED
  BY <1>1, <1>2, <1>3, <1>4

\* A job that takes a step is the same job.
LEMMA SameJob ==
  ASSUME JobTyped, Advances, job.at \in 1..5
  PROVE  /\ job' # NoJob /\ JobTyped'
         /\ job'.op = job.op /\ job'.name = job.name /\ job'.to = job.to
         /\ job'.ok = job.ok /\ job'.was = job.was /\ job'.profile = job.profile
         /\ job'.at = job.at + 1
         /\ From' = From /\ To' = To
         /\ From \in Slots /\ To \in Slots
<1>1. job # NoJob /\ JobIsRecord
  BY DEF JobTyped, Advances
<1>2. job' = [op |-> job.op, name |-> job.name, to |-> job.to, by |-> job.by, at |-> job.at + 1,
              ok |-> job.ok, was |-> job.was, profile |-> job.profile]
  BY <1>1 DEF JobIsRecord, Advances
<1>3. /\ job'.op = job.op /\ job'.name = job.name /\ job'.to = job.to /\ job'.by = job.by
      /\ job'.ok = job.ok /\ job'.was = job.was /\ job'.profile = job.profile
      /\ job'.at = job.at + 1
  BY <1>2
<1>4. JobIsRecord'
  BY <1>2, <1>3 DEF JobIsRecord
<1>5. job.op \in {"save", "delete", "rename"} /\ job.name \in Names /\ job.to \in Names /\ job.ok \in BOOLEAN
  BY <1>1 DEF JobTyped
<1>6. job' # NoJob
  BY <1>3, <1>5 DEF NoJob
<1>7. From' = From /\ To' = To
  BY <1>3 DEF From, To
<1>8. From \in Slots /\ To \in Slots
  BY <1>5 DEF From, To, Slots
<1> QED
  BY <1>3, <1>4, <1>5, <1>6, <1>7, <1>8 DEF JobTyped, Names

-----------------------------------------------------------------------------
(* Saving and deleting.                                                    *)

\* Whatever holds or remembers an id that lives names a file.
LEMMA LiveIsKept ==
  ASSUME StoreTyped, NEW r \in Kept \cup {NotThere}, r.id \in live
  PROVE  r \in Kept /\ Files[r.name] \in Slots
<1>1. NotThere.id = 0
  BY DEF NotThere
<1>2. r # NotThere
  BY <1>1 DEF StoreTyped
<1>3. r \in Kept
  BY <1>2
<1>4. r.name \in Names
  BY <1>3 DEF Kept
<1> QED
  BY <1>3, <1>4 DEF Slots

LEMMA SaveKeeps ==
  ASSUME StoreInv, Advances, SaveWrites
  PROVE  StoreInv'
<1> DEFINE p == job.profile
<1>1. /\ StoreTyped /\ JobTyped /\ FilesNamed /\ DotHolds /\ SaveIsNew /\ RefsHold /\ NothingIsLost
  BY DEF StoreInv
<1>2. /\ job' # NoJob /\ JobTyped' /\ job'.op = "save" /\ job'.at = 2 /\ job'.profile = p
      /\ job'.name = job.name /\ To \in Slots /\ To' = To
  BY <1>1, SameJob DEF SaveWrites
<1>3. /\ p \in Kept /\ p.name = job.name /\ p.id # dotfile.id /\ p.id > 0
      /\ To = Files[p.name] /\ \A u \in Users : refs[u].id # p.id
  BY <1>1 DEF SaveIsNew, Saves, SaveWrites, Advances, To, From
<1>4. ~Moves /\ ~Moves' /\ ~Renames'
  BY <1>2 DEF Moves, Renames, SaveWrites
<1>5. /\ json'[To] = "file" /\ content'[To] = p
      /\ \A s \in Slots \ {To} : json'[s] = json[s] /\ content'[s] = content[s]
      /\ json' \in [Slots -> {"none", "file", "link"}] /\ content' \in [Slots -> Kept \cup {NotThere}]
      /\ dotfile' = dotfile /\ refs' = refs /\ ids' = ids /\ dialog' = dialog
  BY <1>1, <1>2, <1>3 DEF SaveWrites, Advances, StoreTyped
<1>6. Read(To)' = p /\ \A s \in Slots \ {To} : Read(s)' = Read(s)
  <2>1. Read(To)' = IF json'[To] = "link" THEN dotfile' ELSE content'[To]
    BY <1>2 DEF Read
  <2>2. \A s : Read(s)' = IF json'[s] = "link" THEN dotfile' ELSE content'[s]
    BY DEF Read
  <2> QED
    BY <2>1, <2>2, <1>5 DEF Read
<1>7. Kept' = Kept
  BY <1>5 DEF Kept, Ids
<1>8. /\ 0 \notin live' /\ p.id \in live'
      /\ \A i \in live' : i = p.id \/ (i \in live /\ (json[To] # "none" => i # Read(To).id))
  BY <1>1, <1>3 DEF SaveWrites, StoreTyped, Kept, Ids
<1>9. StoreTyped'
  <2>1. \A s \in Slots : json'[s] # "none" => Read(s)' \in Kept
    <3> SUFFICES ASSUME NEW s \in Slots, json'[s] # "none"
                 PROVE  Read(s)' \in Kept
      OBVIOUS
    <3>1. CASE s = To
      BY <1>3, <1>6, <3>1, <1>2 DEF Read
    <3>2. CASE s # To
      BY <1>1, <1>5, <1>6, <3>2 DEF Present, StoreTyped
    <3> QED
      BY <3>1, <3>2
  <2> QED
    BY <1>1, <1>5, <1>7, <1>8, <2>1 DEF StoreTyped, Present
<1>10. FilesNamed'
  BY <1>1, <1>3, <1>5 DEF FilesNamed
<1>11. DotHolds'
  <2> SUFFICES ASSUME dotfile.id \in live'
               PROVE  json'[Files[dotfile.name]] = "link"
    BY <1>5 DEF DotHolds
  <2>1. dotfile.id \in live /\ json[Files[dotfile.name]] = "link"
    BY <1>1, <1>3, <1>8 DEF DotHolds
  <2>2. Files[dotfile.name] # To
    BY <1>8, <1>3, <2>1 DEF Read
  <2>3. dotfile \in Kept \cup {NotThere}
    BY <1>1 DEF StoreTyped
  <2>4. Files[dotfile.name] \in Slots
    BY <1>1, <2>1, <2>3, LiveIsKept
  <2> QED
    BY <1>5, <2>1, <2>2, <2>4
<1>12. SaveIsNew' /\ RenameCarries' /\ MoveLinks'
  BY <1>2, <1>3, <1>4, <1>7 DEF SaveIsNew, RenameCarries, MoveLinks
<1>13. RefsHold'
  <2> SUFFICES ASSUME NEW u \in Users, refs[u].id \in live'
               PROVE  json'[Files[refs[u].name]] # "none" /\ Read(Files[refs[u].name])'.id = refs[u].id
    BY <1>4, <1>5 DEF RefsHold, Trails, RefHolds, Users
  <2> DEFINE r == refs[u]
  <2>1. r.id \in live /\ (json[To] # "none" => r.id # Read(To).id)
    BY <1>3, <1>8
  <2>2. json[Files[r.name]] # "none" /\ Read(Files[r.name]).id = r.id
    BY <1>1, <1>4, <2>1 DEF RefsHold, Trails, RefHolds
  <2>3. r \in Kept \cup {NotThere}
    BY <1>1 DEF StoreTyped
  <2>4. Files[r.name] \in Slots /\ Files[r.name] # To
    BY <1>1, <2>1, <2>2, <2>3, LiveIsKept
  <2> QED
    BY <1>5, <1>6, <2>2, <2>4
<1>14. NothingIsLost'
  <2> SUFFICES ASSUME NEW i \in live'
               PROVE  \E s \in Slots : json'[s] # "none" /\ Read(s)'.id = i
    BY DEF NothingIsLost, Present
  <2>1. CASE i = p.id
    BY <1>2, <1>5, <1>6, <2>1 DEF Read
  <2>2. CASE i # p.id
    <3>1. i \in live /\ (json[To] # "none" => i # Read(To).id)
      BY <1>8, <2>2
    <3>2. PICK s \in Slots : json[s] # "none" /\ Read(s).id = i
      BY <1>1, <3>1 DEF NothingIsLost, Present
    <3>3. s # To
      BY <3>1, <3>2
    <3> QED
      BY <1>5, <1>6, <3>2, <3>3
  <2> QED
    BY <2>1, <2>2
<1> QED
  BY <1>2, <1>9, <1>10, <1>11, <1>12, <1>13, <1>14 DEF StoreInv

LEMMA DeleteKeeps ==
  ASSUME StoreInv, Advances, DeleteWrites
  PROVE  StoreInv'
<1>1. /\ StoreTyped /\ JobTyped /\ FilesNamed /\ DotHolds /\ RefsHold /\ NothingIsLost
  BY DEF StoreInv
<1>2. job' # NoJob /\ JobTyped' /\ job'.op = "delete" /\ From \in Slots
  BY <1>1, SameJob DEF DeleteWrites
<1>3. ~Moves /\ ~Moves' /\ ~Renames' /\ ~Saves'
  BY <1>2 DEF Moves, Renames, DeleteWrites, Saves
<1>4. /\ json'[From] = "none"
      /\ \A s \in Slots \ {From} : json'[s] = json[s]
      /\ json' \in [Slots -> {"none", "file", "link"}]
      /\ content' = content /\ dotfile' = dotfile /\ refs' = refs /\ ids' = ids /\ dialog' = dialog
  BY <1>1, <1>2 DEF DeleteWrites, Advances, StoreTyped
<1>5. \A s \in Slots \ {From} : Read(s)' = Read(s)
  BY <1>4 DEF Read
<1>6. Kept' = Kept
  BY <1>4 DEF Kept, Ids
<1>7. \A i \in live' : i \in live /\ (json[From] # "none" => i # Read(From).id)
  BY DEF DeleteWrites
<1>8. StoreTyped'
  <2>1. \A s \in Slots : json'[s] # "none" => Read(s)' \in Kept
    BY <1>1, <1>4, <1>5 DEF StoreTyped, Present
  <2> QED
    BY <1>1, <1>4, <1>6, <1>7, <2>1 DEF StoreTyped, Present
<1>9. FilesNamed'
  BY <1>1, <1>4 DEF FilesNamed
<1>10. DotHolds'
  <2> SUFFICES ASSUME dotfile.id \in live'
               PROVE  json'[Files[dotfile.name]] = "link"
    BY <1>4 DEF DotHolds
  <2>1. dotfile.id \in live /\ json[Files[dotfile.name]] = "link"
    BY <1>1, <1>7 DEF DotHolds
  <2>2. Files[dotfile.name] # From
    BY <1>7, <2>1 DEF Read
  <2>3. dotfile \in Kept \cup {NotThere}
    BY <1>1 DEF StoreTyped
  <2>4. Files[dotfile.name] \in Slots
    BY <1>1, <2>1, <2>3, LiveIsKept
  <2> QED
    BY <1>4, <2>1, <2>2, <2>4
<1>11. SaveIsNew' /\ RenameCarries' /\ MoveLinks'
  BY <1>3 DEF SaveIsNew, RenameCarries, MoveLinks
<1>12. RefsHold'
  <2> SUFFICES ASSUME NEW u \in Users, refs[u].id \in live'
               PROVE  json'[Files[refs[u].name]] # "none" /\ Read(Files[refs[u].name])'.id = refs[u].id
    BY <1>3, <1>4 DEF RefsHold, Trails, RefHolds, Users
  <2> DEFINE r == refs[u]
  <2>1. r.id \in live /\ (json[From] # "none" => r.id # Read(From).id)
    BY <1>7
  <2>2. json[Files[r.name]] # "none" /\ Read(Files[r.name]).id = r.id
    BY <1>1, <1>3, <2>1 DEF RefsHold, Trails, RefHolds
  <2>3. r \in Kept \cup {NotThere}
    BY <1>1 DEF StoreTyped
  <2>4. Files[r.name] \in Slots /\ Files[r.name] # From
    BY <1>1, <2>1, <2>2, <2>3, LiveIsKept
  <2> QED
    BY <1>4, <1>5, <2>2, <2>4
<1>13. NothingIsLost'
  <2> SUFFICES ASSUME NEW i \in live'
               PROVE  \E s \in Slots : json'[s] # "none" /\ Read(s)'.id = i
    BY DEF NothingIsLost, Present
  <2>1. i \in live /\ (json[From] # "none" => i # Read(From).id)
    BY <1>7
  <2>2. PICK s \in Slots : json[s] # "none" /\ Read(s).id = i
    BY <1>1, <2>1 DEF NothingIsLost, Present
  <2>3. s # From
    BY <2>1, <2>2
  <2> QED
    BY <1>4, <1>5, <2>2, <2>3
<1> QED
  BY <1>2, <1>8, <1>9, <1>10, <1>11, <1>12, <1>13 DEF StoreInv

\* Sidecars matter to no one else.
LEMMA SidecarKeeps ==
  ASSUME StoreInv, Advances, MovesSidecar
  PROVE  StoreInv'
<1>1. /\ StoreTyped /\ JobTyped /\ FilesNamed /\ DotHolds /\ SaveIsNew /\ RenameCarries
      /\ MoveLinks /\ RefsHold /\ NothingIsLost
  BY DEF StoreInv
<1>2. /\ job' # NoJob /\ JobTyped'
      /\ job'.op = job.op /\ job'.name = job.name /\ job'.to = job.to
      /\ job'.ok = job.ok /\ job'.was = job.was /\ job'.profile = job.profile
      /\ job'.at = job.at + 1 /\ From' = From /\ To' = To
  BY <1>1, SameJob DEF MovesSidecar
<1>3. /\ json' = json /\ content' = content /\ dotfile' = dotfile /\ live' = live
      /\ refs' = refs /\ ids' = ids /\ dialog' = dialog
  BY DEF MovesSidecar, Advances
<1>4. /\ \A s : Read(s)' = IF json[s] = "link" THEN dotfile ELSE content[s]
      /\ \A s : Read(s) = IF json[s] = "link" THEN dotfile ELSE content[s]
  BY <1>3 DEF Read
<1>5. /\ job.at \in 2..4 /\ (job.op = "rename" => job.at \in 3..4)
      /\ (Saves' <=> Saves) /\ (Renames' <=> Renames) /\ (Moves' <=> Moves)
  BY <1>2 DEF MovesSidecar, Saves, Renames, Moves, Advances
<1>6. Kept' = Kept
  BY <1>3 DEF Kept, Ids
<1>7. StoreTyped' /\ FilesNamed' /\ DotHolds' /\ NothingIsLost'
  BY <1>1, <1>3, <1>4, <1>6 DEF StoreTyped, FilesNamed, DotHolds, NothingIsLost, Present
<1>8. SaveIsNew'
  BY <1>1, <1>2, <1>3, <1>5, <1>6 DEF SaveIsNew
<1>9. RenameCarries'
  <2>1. Read(From)' = Read(From) /\ Read(To)' = Read(To)
    BY <1>2, <1>3 DEF Read
  <2> QED
    BY <1>1, <1>2, <1>3, <1>5, <1>6, <2>1 DEF RenameCarries, Renames
<1>10. MoveLinks'
  BY <1>1, <1>2, <1>3, <1>5, <1>6 DEF MoveLinks, Moves, Renames
<1>11. RefsHold'
  <2>1. \A u \in Users : ~Trails(refs[u]) /\ ~Trails(refs[u])'
    BY <1>2, <1>3, <1>5 DEF Trails, Moves, Renames
  <2>2. \A u \in Users : RefHolds(refs[u])' <=> RefHolds(refs[u])
    BY <1>3, <1>4 DEF RefHolds
  <2> QED
    BY <1>1, <1>2, <1>3, <1>5, <2>1, <2>2 DEF RefsHold, Moves, Renames
<1> QED
  BY <1>2, <1>7, <1>8, <1>9, <1>10, <1>11 DEF StoreInv

-----------------------------------------------------------------------------
(* Renaming.                                                               *)

\* What the steps of a rename have in common.
LEMMA RenameGoesOn ==
  ASSUME StoreInv, Advances, job.op = "rename", job.at \in 1..5
  PROVE  /\ StoreTyped /\ JobTyped /\ FilesNamed /\ DotHolds /\ RenameCarries /\ MoveLinks
         /\ RefsHold /\ NothingIsLost
         /\ job' # NoJob /\ JobTyped' /\ Renames /\ Renames' /\ ~Saves'
         /\ job'.at = job.at + 1 /\ job'.name = job.name /\ job'.to = job.to
         /\ job'.was = job.was /\ job'.profile = job.profile
         /\ From' = From /\ To' = To /\ From \in Slots /\ To \in Slots
         /\ (Moves' <=> From # To) /\ (Moves <=> From # To)
         /\ Files[job.to] = To /\ Files[job.name] = From
         /\ refs' = refs /\ ids' = ids /\ dialog' = dialog /\ Kept' = Kept
         /\ \A u \in Users : ~Trails(refs[u])
<1>1. /\ StoreTyped /\ JobTyped /\ FilesNamed /\ DotHolds /\ RenameCarries /\ MoveLinks
      /\ RefsHold /\ NothingIsLost
  BY DEF StoreInv
<1>2. /\ job' # NoJob /\ JobTyped' /\ job'.op = job.op /\ job'.ok = job.ok
      /\ job'.at = job.at + 1 /\ job'.name = job.name /\ job'.to = job.to
      /\ job'.was = job.was /\ job'.profile = job.profile
      /\ From' = From /\ To' = To /\ From \in Slots /\ To \in Slots
  BY <1>1, SameJob
<1>3. Renames /\ Renames' /\ ~Saves'
  BY <1>2 DEF Renames, Saves, Advances
<1>4. (Moves' <=> From # To) /\ (Moves <=> From # To)
  BY <1>2, <1>3 DEF Moves
<1>5. Files[job.to] = To /\ Files[job.name] = From
  BY DEF To, From
<1>6. refs' = refs /\ ids' = ids /\ dialog' = dialog /\ Kept' = Kept
  BY DEF Advances, Kept, Ids
<1>7. \A u \in Users : ~Trails(refs[u])
  BY DEF Trails
<1> QED
  BY <1>1, <1>2, <1>3, <1>4, <1>5, <1>6, <1>7

LEMMA LinkKeeps ==
  ASSUME StoreInv, Advances, RenameLinks
  PROVE  StoreInv'
<1> DEFINE p == job.profile
<1>1. /\ StoreTyped /\ JobTyped /\ FilesNamed /\ DotHolds /\ RenameCarries /\ MoveLinks
      /\ RefsHold /\ NothingIsLost
      /\ job' # NoJob /\ JobTyped' /\ Renames /\ Renames' /\ ~Saves'
      /\ job'.at = 2 /\ job'.to = job.to /\ job'.was = job.was /\ job'.profile = p
      /\ From' = From /\ To' = To /\ From \in Slots /\ To \in Slots
      /\ (Moves' <=> From # To) /\ (Moves <=> From # To)
      /\ refs' = refs /\ ids' = ids /\ dialog' = dialog /\ Kept' = Kept
      /\ \A u \in Users : ~Trails(refs[u])
  BY RenameGoesOn DEF RenameLinks
<1>2. job.at = 1 /\ content' = content /\ dotfile' = dotfile /\ live' = live
  BY DEF RenameLinks
<1>3. /\ p \in Kept /\ p.name = job.to /\ json[From] # "none" /\ Read(From).id = p.id
      /\ json[To] # "none" => Read(To).id = p.id
      /\ From # To => json[To] = "none"
  BY <1>1, <1>2 DEF RenameCarries, MoveLinks
<1>4. /\ json' \in [Slots -> {"none", "file", "link"}]
      /\ \A s \in Slots : json[s] # "none" => json'[s] = json[s]
      /\ \A s \in Slots : json'[s] # json[s] => s = To /\ json'[s] = "link" /\ json[From] = "link"
  BY <1>1, <1>3 DEF RenameLinks, StoreTyped
<1>5. \A s : /\ Read(s) = IF json[s] = "link" THEN dotfile ELSE content[s]
             /\ Read(s)' = IF json'[s] = "link" THEN dotfile ELSE content[s]
  BY <1>2 DEF Read
<1>6. \A s \in Slots : json[s] # "none" => Read(s)' = Read(s)
  BY <1>4, <1>5
<1>7. \A s \in Slots : json'[s] # "none" /\ json[s] = "none" => s = To /\ Read(s)' = Read(From)
  BY <1>4, <1>5
<1>8. StoreTyped'
  <2>1. \A s \in Slots : json'[s] # "none" => Read(s)' \in Kept
    BY <1>1, <1>3, <1>6, <1>7 DEF StoreTyped, Present
  <2> QED
    BY <1>1, <1>2, <1>4, <2>1 DEF StoreTyped, Present
<1>9. FilesNamed'
  BY <1>1, <1>2, <1>4 DEF FilesNamed
<1>10. DotHolds'
  <2> SUFFICES ASSUME dotfile.id \in live
               PROVE  json'[Files[dotfile.name]] = "link"
    BY <1>2 DEF DotHolds
  <2>1. dotfile \in Kept \cup {NotThere}
    BY <1>1 DEF StoreTyped
  <2> QED
    BY <1>1, <1>4, <2>1, LiveIsKept DEF DotHolds
<1>11. Read(From)' = Read(From) /\ (json'[To] # "none" => Read(To)'.id = p.id)
  <2>1. \A s : Read(s)' = IF json'[s] = "link" THEN dotfile' ELSE content'[s]
    BY DEF Read
  <2>2. Read(To)' = (IF json'[To] = "link" THEN dotfile' ELSE content'[To])
        /\ Read(From)' = (IF json'[From] = "link" THEN dotfile' ELSE content'[From])
    BY <1>1 DEF Read
  <2> QED
    BY <1>1, <1>2, <1>3, <1>6, <1>7, <2>1, <2>2
<1>12. RenameCarries'
  <2>1. json'[From] # "none"
    BY <1>1, <1>3, <1>4
  <2> QED
    BY <1>1, <1>3, <1>11, <2>1 DEF RenameCarries
<1>13. MoveLinks'
  <2> SUFFICES ASSUME From # To
               PROVE  /\ json'[To] = IF json'[From] = "link" THEN "link" ELSE "none"
                      /\ json'[To] = "link" => json'[From] = "link"
                      /\ json'[From] = "link" =>
                           /\ job.was \in Kept /\ job.was.id = dotfile.id
                           /\ job.was.id \in live => json'[Files[job.was.name]] = "link"
                                                     /\ Files[job.was.name] # To
    BY <1>1, <1>2 DEF MoveLinks
  <2>1. json'[From] = json[From] /\ json[To] = "none" /\ json'[To] = IF json[From] = "link" THEN "link" ELSE "none"
    BY <1>1, <1>3, <1>4 DEF RenameLinks, StoreTyped
  <2>2. json[From] = "link" =>
          /\ job.was \in Kept /\ job.was.id = dotfile.id
          /\ job.was.id \in live => json[Files[job.was.name]] = "link" /\ Files[job.was.name] # To
    BY <1>1, <1>2 DEF MoveLinks
  <2>3. job.was \in Kept => Files[job.was.name] \in Slots
    BY DEF Kept, Slots
  <2> QED
    BY <1>4, <2>1, <2>2, <2>3
<1>14. RefsHold'
  <2> SUFFICES ASSUME NEW u \in Users, refs[u].id \in live
               PROVE  /\ json'[Files[refs[u].name]] # "none" /\ Read(Files[refs[u].name])'.id = refs[u].id
                      /\ From # To => Files[refs[u].name] # To
    BY <1>1, <1>2 DEF RefsHold, Trails, RefHolds, Users
  <2> DEFINE r == refs[u]
  <2>1. json[Files[r.name]] # "none" /\ Read(Files[r.name]).id = r.id
    BY <1>1 DEF RefsHold, RefHolds
  <2>2. r \in Kept \cup {NotThere}
    BY <1>1 DEF StoreTyped
  <2>3. Files[r.name] \in Slots
    BY <1>1, <2>2, LiveIsKept
  <2> QED
    BY <1>1, <1>3, <1>4, <1>6, <2>1, <2>3
<1>15. NothingIsLost'
  <2> SUFFICES ASSUME NEW i \in live
               PROVE  \E s \in Slots : json'[s] # "none" /\ Read(s)'.id = i
    BY <1>2 DEF NothingIsLost, Present
  <2>1. PICK s \in Slots : json[s] # "none" /\ Read(s).id = i
    BY <1>1 DEF NothingIsLost, Present
  <2> QED
    BY <1>4, <1>6, <2>1
<1> QED
  BY <1>1, <1>8, <1>9, <1>10, <1>12, <1>13, <1>14, <1>15 DEF StoreInv, SaveIsNew

LEMMA WriteKeeps ==
  ASSUME StoreInv, Advances, RenameWrites
  PROVE  StoreInv'
<1> DEFINE p == job.profile
<1>1. /\ StoreTyped /\ JobTyped /\ FilesNamed /\ DotHolds /\ RenameCarries /\ MoveLinks
      /\ RefsHold /\ NothingIsLost
      /\ job' # NoJob /\ JobTyped' /\ Renames /\ Renames' /\ ~Saves'
      /\ job'.at = 3 /\ job'.to = job.to /\ job'.was = job.was /\ job'.profile = p
      /\ From' = From /\ To' = To /\ From \in Slots /\ To \in Slots
      /\ (Moves' <=> From # To) /\ (Moves <=> From # To) /\ Files[job.to] = To
      /\ refs' = refs /\ ids' = ids /\ dialog' = dialog /\ Kept' = Kept
      /\ \A u \in Users : ~Trails(refs[u])
  BY RenameGoesOn DEF RenameWrites
<1>2. job.at = 2 /\ live' = live /\ WritesThrough(To, p)
  BY DEF RenameWrites
<1>3. /\ p \in Kept /\ p.name = job.to /\ json[From] # "none" /\ Read(From).id = p.id
      /\ json[To] # "none" => Read(To).id = p.id
      /\ From # To => json[To] = IF json[From] = "link" THEN "link" ELSE "none"
  BY <1>1, <1>2 DEF RenameCarries, MoveLinks
<1>4. \A s : /\ Read(s) = IF json[s] = "link" THEN dotfile ELSE content[s]
             /\ Read(s)' = IF json'[s] = "link" THEN dotfile' ELSE content'[s]
  BY DEF Read
<1>5. json[To] = "link" =>
        /\ json' = json /\ content' = content /\ dotfile' = p /\ json[From] = "link" /\ dotfile.id = p.id
  BY <1>2, <1>3, <1>4 DEF WritesThrough
<1>6. json[To] # "link" =>
        /\ dotfile' = dotfile /\ json' = [json EXCEPT ![To] = "file"]
        /\ content' = [content EXCEPT ![To] = p] /\ (From # To => json[From] # "link")
  BY <1>2, <1>3 DEF WritesThrough
<1>7. /\ json' \in [Slots -> {"none", "file", "link"}]
      /\ content' \in [Slots -> Kept \cup {NotThere}]
      /\ dotfile' \in Kept \cup {NotThere} /\ dotfile'.id = dotfile.id
      /\ \A s \in Slots \ {To} : json'[s] = json[s] /\ content'[s] = content[s]
      /\ (json'[To] = "file" /\ content'[To] = p) \/ (json'[To] = "link" /\ dotfile' = p)
      /\ json[To] = "link" => json'[To] = "link"
      /\ json'[To] = "link" => json[To] = "link"
  <2>1. CASE json[To] = "link"
    BY <1>1, <1>3, <1>5, <2>1 DEF StoreTyped
  <2>2. CASE json[To] # "link"
    BY <1>1, <1>3, <1>6, <2>2 DEF StoreTyped
  <2> QED
    BY <2>1, <2>2
<1>8. /\ \A s \in Slots : json[s] # "none" => json'[s] # "none" /\ Read(s)'.id = Read(s).id
      /\ Read(To) = (IF json[To] = "link" THEN dotfile ELSE content[To])
      /\ Read(To)' = p /\ json'[To] # "none"
  <2>1. Read(To)' = IF json'[To] = "link" THEN dotfile' ELSE content'[To]
    BY <1>1 DEF Read
  <2>2. Read(To)' = p /\ json'[To] # "none"
    BY <1>7, <2>1
  <2>3. ASSUME NEW s \in Slots \ {To}, json[s] # "none"
        PROVE  json'[s] # "none" /\ Read(s)'.id = Read(s).id
    BY <1>4, <1>7, <2>3
  <2>4. ASSUME NEW s \in Slots, s = To, json[s] # "none"
        PROVE  json'[s] # "none" /\ Read(s)'.id = Read(s).id
    BY <1>1, <1>3, <1>4, <2>1, <2>2, <2>4
  <2> QED
    BY <1>4, <2>2, <2>3, <2>4
<1>9. StoreTyped'
  <2>1. \A s \in Slots : json'[s] # "none" => Read(s)' \in Kept
    <3> SUFFICES ASSUME NEW s \in Slots, json'[s] # "none", s # To
                 PROVE  Read(s)' \in Kept
      BY <1>1, <1>3, <1>8 DEF Read
    <3>1. json[s] # "none" /\ Read(s) \in Kept
      BY <1>1, <1>7 DEF StoreTyped, Present
    <3>2. Read(s)' = IF json[s] = "link" THEN dotfile' ELSE content[s]
      BY <1>4, <1>7
    <3>3. json[s] = "link" => dotfile \in Kept
      BY <1>4, <3>1
    <3> QED
      BY <1>3, <1>4, <1>5, <1>6, <3>1, <3>2, <3>3
  <2> QED
    BY <1>1, <1>2, <1>7, <2>1 DEF StoreTyped, Present
<1>10. FilesNamed'
  BY <1>1, <1>3, <1>7 DEF FilesNamed
<1>11. DotHolds'
  <2> SUFFICES ASSUME dotfile'.id \in live
               PROVE  json'[Files[dotfile'.name]] = "link"
    BY <1>2 DEF DotHolds
  <2>1. CASE json[To] = "link"
    BY <1>1, <1>3, <1>5, <2>1
  <2>2. CASE json[To] # "link"
    <3>1. dotfile \in Kept \cup {NotThere} /\ dotfile.id \in live /\ dotfile' = dotfile
      BY <1>1, <1>6, <1>7, <2>2 DEF StoreTyped
    <3>2. Files[dotfile.name] \in Slots /\ json[Files[dotfile.name]] = "link"
      BY <1>1, <3>1, LiveIsKept DEF DotHolds
    <3> QED
      BY <1>7, <2>2, <3>1, <3>2
  <2> QED
    BY <2>1, <2>2
<1>12. RenameCarries'
  <2>1. Read(From)' = (IF json'[From] = "link" THEN dotfile' ELSE content'[From])
        /\ Read(To)' = (IF json'[To] = "link" THEN dotfile' ELSE content'[To])
    BY <1>1 DEF Read
  <2>2. json'[From] # "none" /\ Read(From)'.id = p.id
    <3>1. \A s : Read(s)' = IF json'[s] = "link" THEN dotfile' ELSE content'[s]
      BY DEF Read
    <3> QED
      BY <1>1, <1>3, <1>4, <1>8, <2>1, <3>1
  <2> QED
    BY <1>1, <1>3, <1>8, <2>2 DEF RenameCarries
<1>13. MoveLinks'
  <2> SUFFICES ASSUME From # To
               PROVE  /\ json'[From] = "link" => json'[To] = "link" /\ dotfile'.name = job.to
                      /\ json'[To] = "link" => json'[From] = "link"
                      /\ json'[From] = "link" =>
                           /\ job.was \in Kept /\ job.was.id = dotfile.id
                           /\ job.was.id \in live => json'[Files[job.was.name]] = "link"
                                                     /\ Files[job.was.name] # To
    BY <1>1, <1>2, <1>7 DEF MoveLinks
  <2>1. json'[From] = json[From] /\ (json[To] = "link" <=> json[From] = "link")
    BY <1>1, <1>3, <1>7
  <2>2. json[From] = "link" =>
          /\ job.was \in Kept /\ job.was.id = dotfile.id
          /\ job.was.id \in live => json[Files[job.was.name]] = "link" /\ Files[job.was.name] # To
    BY <1>1, <1>2 DEF MoveLinks
  <2>3. job.was \in Kept => Files[job.was.name] \in Slots
    BY DEF Kept, Slots
  <2> QED
    BY <1>3, <1>5, <1>7, <2>1, <2>2, <2>3
<1>14. RefsHold'
  <2> SUFFICES ASSUME NEW u \in Users, refs[u].id \in live
               PROVE  /\ json'[Files[refs[u].name]] # "none" /\ Read(Files[refs[u].name])'.id = refs[u].id
                      /\ From # To => Files[refs[u].name] # To
    BY <1>1, <1>2 DEF RefsHold, Trails, RefHolds, Users
  <2> DEFINE r == refs[u]
  <2>1. /\ json[Files[r.name]] # "none" /\ Read(Files[r.name]).id = r.id
        /\ From # To => Files[r.name] # To
    BY <1>1, <1>2 DEF RefsHold, RefHolds
  <2>2. r \in Kept \cup {NotThere}
    BY <1>1 DEF StoreTyped
  <2>3. Files[r.name] \in Slots
    BY <1>1, <2>2, LiveIsKept
  <2> QED
    BY <1>1, <1>8, <2>1, <2>3
<1>15. NothingIsLost'
  <2> SUFFICES ASSUME NEW i \in live
               PROVE  \E s \in Slots : json'[s] # "none" /\ Read(s)'.id = i
    BY <1>2 DEF NothingIsLost, Present
  <2>1. PICK s \in Slots : json[s] # "none" /\ Read(s).id = i
    BY <1>1 DEF NothingIsLost, Present
  <2> QED
    BY <1>8, <2>1
<1> QED
  BY <1>1, <1>9, <1>10, <1>11, <1>12, <1>13, <1>14, <1>15 DEF StoreInv, SaveIsNew

LEMMA RemoveKeeps ==
  ASSUME StoreInv, Advances, RenameRemoves
  PROVE  StoreInv'
<1> DEFINE p == job.profile
<1>1. /\ StoreTyped /\ JobTyped /\ FilesNamed /\ DotHolds /\ RenameCarries /\ MoveLinks
      /\ RefsHold /\ NothingIsLost
      /\ job' # NoJob /\ JobTyped' /\ Renames /\ Renames' /\ ~Saves'
      /\ job'.at = 6 /\ job'.to = job.to /\ job'.was = job.was /\ job'.profile = p
      /\ From' = From /\ To' = To /\ From \in Slots /\ To \in Slots
      /\ (Moves' <=> From # To) /\ (Moves <=> From # To) /\ Files[job.to] = To
      /\ refs' = refs /\ ids' = ids /\ dialog' = dialog /\ Kept' = Kept
      /\ \A u \in Users : ~Trails(refs[u])
  BY RenameGoesOn DEF RenameRemoves
<1>2. job.at = 5 /\ content' = content /\ dotfile' = dotfile /\ live' = live
  BY DEF RenameRemoves
<1>3. /\ p \in Kept /\ p.name = job.to /\ json[From] # "none" /\ Read(From).id = p.id
      /\ json[To] # "none" /\ Read(To).id = p.id
      /\ From # To /\ json[From] = "link" => dotfile.name = job.to
  BY <1>1, <1>2 DEF RenameCarries, MoveLinks
<1>4. /\ json' \in [Slots -> {"none", "file", "link"}]
      /\ \A s \in Slots : s # From \/ From = To => json'[s] = json[s]
      /\ \A s \in Slots : json'[s] # "none" => json'[s] = json[s]
  BY <1>1 DEF RenameRemoves, StoreTyped
<1>5. \A s \in Slots : json'[s] = json[s] => Read(s)' = Read(s)
  BY <1>2 DEF Read
<1>6. json'[To] = json[To] /\ Read(To)' = Read(To)
  <2>1. json'[To] = json[To]
    BY <1>1, <1>4
  <2> QED
    BY <1>1, <1>2, <2>1 DEF Read
<1>7. StoreTyped'
  <2>1. \A s \in Slots : json'[s] # "none" => Read(s)' \in Kept
    BY <1>1, <1>4, <1>5 DEF StoreTyped, Present
  <2> QED
    BY <1>1, <1>2, <1>4, <2>1 DEF StoreTyped, Present
<1>8. FilesNamed'
  BY <1>1, <1>2, <1>4 DEF FilesNamed
<1>9. DotHolds'
  <2> SUFFICES ASSUME dotfile.id \in live
               PROVE  json'[Files[dotfile.name]] = "link"
    BY <1>2 DEF DotHolds
  <2>1. dotfile \in Kept \cup {NotThere}
    BY <1>1 DEF StoreTyped
  <2>2. Files[dotfile.name] \in Slots /\ json[Files[dotfile.name]] = "link"
    BY <1>1, <2>1, LiveIsKept DEF DotHolds
  <2>3. Files[dotfile.name] # From \/ From = To
    BY <1>1, <1>3, <2>2
  <2> QED
    BY <1>4, <2>2, <2>3
<1>10. RenameCarries'
  BY <1>1, <1>3, <1>6 DEF RenameCarries
<1>11. MoveLinks'
  BY <1>1 DEF MoveLinks
<1>12. RefsHold'
  <2>1. ASSUME NEW u \in Users, refs[u].id \in live
        PROVE  /\ Files[refs[u].name] = From => refs[u].id = p.id
               /\ Files[refs[u].name] # From \/ From = To =>
                    json'[Files[refs[u].name]] # "none" /\ Read(Files[refs[u].name])'.id = refs[u].id
    <3> DEFINE r == refs[u]
    <3>1. json[Files[r.name]] # "none" /\ Read(Files[r.name]).id = r.id
      BY <1>1, <2>1 DEF RefsHold, RefHolds
    <3>2. r \in Kept \cup {NotThere}
      BY <1>1 DEF StoreTyped
    <3>3. Files[r.name] \in Slots
      BY <1>1, <2>1, <3>2, LiveIsKept
    <3>4. refs'[u] = refs[u]
      BY <1>1
    <3> QED
      BY <1>3, <1>4, <1>5, <3>1, <3>3, <3>4
  <2>2. Users' = Users
    BY DEF Users
  <2>3. \A u \in Users : Trails(refs[u])' <=>
          From # To /\ refs[u].id \in live /\ Files[refs[u].name] = From
    BY <1>1, <1>2 DEF Trails
  <2> QED
    BY <1>1, <1>2, <2>1, <2>2, <2>3 DEF RefsHold, RefHolds
<1>13. NothingIsLost'
  <2> SUFFICES ASSUME NEW i \in live
               PROVE  \E s \in Slots : json'[s] # "none" /\ Read(s)'.id = i
    BY <1>2 DEF NothingIsLost, Present
  <2>1. PICK s \in Slots : json[s] # "none" /\ Read(s).id = i
    BY <1>1 DEF NothingIsLost, Present
  <2>2. CASE s # From
    BY <1>4, <1>5, <2>1, <2>2
  <2>3. CASE s = From
    BY <1>1, <1>3, <1>6, <2>1, <2>3 DEF Read
  <2> QED
    BY <2>2, <2>3
<1> QED
  BY <1>1, <1>7, <1>8, <1>9, <1>10, <1>11, <1>12, <1>13 DEF StoreInv, SaveIsNew

-----------------------------------------------------------------------------
(* Failures, the daemon and the clients.                                   *)

LEMMA NotDone ==
  ASSUME JobTyped, job # NoJob, ~Done
  PROVE  job.ok /\ job.at \in 1..5
<1>1. job.op \in {"save", "delete", "rename"} /\ job.at \in 1..6
  BY DEF JobTyped
<1>2. job.ok /\ ~(job.at > Len(Steps(job.op)))
  BY DEF Done
<1>3. Len(Steps(job.op)) <= 5 /\ Len(Steps(job.op)) \in Nat
  BY <1>1 DEF Steps, SaveSteps, DeleteSteps, RenameSteps
<1> QED
  BY <1>1, <1>2, <1>3

LEMMA FailureKeeps ==
  ASSUME StoreInv, StepFails
  PROVE  StoreInv'
<1> DEFINE p == job.profile
<1>1. /\ StoreTyped /\ JobTyped /\ FilesNamed /\ DotHolds /\ SaveIsNew /\ RenameCarries
      /\ MoveLinks /\ RefsHold /\ NothingIsLost
  BY DEF StoreInv
<1>2. /\ job # NoJob /\ job.ok /\ job.at \in 1..5 /\ job' = [job EXCEPT !.ok = FALSE]
      /\ refs' = refs /\ ids' = ids /\ live' = live /\ dialog' = dialog
  BY <1>1, NotDone DEF StepFails, terminal
<1>3. /\ job'.op = job.op /\ job'.name = job.name /\ job'.to = job.to /\ job'.by = job.by
      /\ job'.at = job.at /\ job'.ok = FALSE /\ job'.was = job.was /\ job'.profile = p
      /\ JobIsRecord'
  BY <1>1, <1>2 DEF JobTyped, JobIsRecord
<1>4. job.op \in {"save", "delete", "rename"} /\ From \in Slots /\ To \in Slots
  BY <1>1, <1>2 DEF JobTyped, From, To, Slots
<1>5. job' # NoJob /\ JobTyped'
  BY <1>1, <1>2, <1>3, <1>4 DEF JobTyped, NoJob, Names
<1>6. ~Renames' /\ ~Moves' /\ (Saves' <=> Saves) /\ Kept' = Kept
  BY <1>2, <1>3, <1>5 DEF Renames, Moves, Saves, Kept, Ids
<1>7. \A u \in Users : ~Trails(refs[u]) /\ RefHolds(refs[u])
  BY <1>1, <1>2 DEF Trails, RefsHold
<1>8. \A s : /\ Read(s) = IF json[s] = "link" THEN dotfile ELSE content[s]
             /\ Read(s)' = IF json'[s] = "link" THEN dotfile' ELSE content'[s]
  BY DEF Read
<1>9. CASE ~(job.op = "rename" /\ From # To)
  <2>1. json' = json /\ content' = content /\ dotfile' = dotfile
    BY <1>9 DEF StepFails, files
  <2>2. StoreTyped' /\ FilesNamed' /\ DotHolds' /\ NothingIsLost'
    BY <1>1, <1>2, <1>6, <1>8, <2>1 DEF StoreTyped, FilesNamed, DotHolds, NothingIsLost, Present
  <2>3. SaveIsNew' /\ RenameCarries' /\ MoveLinks'
    BY <1>1, <1>2, <1>3, <1>6, <2>1 DEF SaveIsNew, RenameCarries, MoveLinks
  <2>4. RefsHold'
    <3>1. \A u \in Users : RefHolds(refs[u])'
      BY <1>2, <1>7, <1>8, <2>1 DEF RefHolds
    <3> QED
      BY <1>6, <3>1 DEF RefsHold, Trails, Users
  <2> QED
    BY <1>5, <2>2, <2>3, <2>4 DEF StoreInv
<1>10. CASE job.op = "rename" /\ From # To
  <2>1. Renames /\ Moves /\ ~Saves
    BY <1>2, <1>10 DEF Renames, Moves, Saves
  <2>2. /\ json' = json \/ json' = [json EXCEPT ![To] = "none"]
        /\ dotfile' = IF json[From] = "link" THEN job.was ELSE dotfile
        /\ content' = content
    BY <1>10 DEF StepFails
  <2>3. /\ p \in Kept /\ json[From] # "none" /\ Read(From).id = p.id
        /\ json[To] # "none" => Read(To).id = p.id
        /\ json[To] = "link" => json[From] = "link"
        /\ json[From] = "link" =>
             /\ job.was \in Kept /\ job.was.id = dotfile.id
             /\ job.was.id \in live => json[Files[job.was.name]] = "link" /\ Files[job.was.name] # To
        /\ \A u \in Users : refs[u].id \in live => Files[refs[u].name] # To
    BY <1>1, <1>2, <2>1 DEF RenameCarries, MoveLinks, RefsHold
  <2>4. /\ json' \in [Slots -> {"none", "file", "link"}]
        /\ dotfile' \in Kept \cup {NotThere} /\ dotfile'.id = dotfile.id
        /\ \A s \in Slots \ {To} : json'[s] = json[s]
        /\ \A s \in Slots : json'[s] # "none" => json'[s] = json[s]
    BY <1>1, <1>4, <2>2, <2>3 DEF StoreTyped
  <2>5. \A s \in Slots : json'[s] = json[s] => Read(s)'.id = Read(s).id
    BY <1>8, <2>2, <2>4
  <2>6. StoreTyped'
    <3>1. \A s \in Slots : json'[s] # "none" => Read(s)' \in Kept
      <4> SUFFICES ASSUME NEW s \in Slots, json'[s] # "none"
                   PROVE  Read(s)' \in Kept
        OBVIOUS
      <4>1. json'[s] = json[s] /\ Read(s) \in Kept
        BY <1>1, <2>4 DEF StoreTyped, Present
      <4> QED
        BY <1>8, <2>2, <2>3, <4>1
    <3> QED
      BY <1>1, <1>2, <1>6, <2>2, <2>4, <3>1 DEF StoreTyped, Present
  <2>7. FilesNamed'
    BY <1>1, <2>2, <2>4 DEF FilesNamed
  <2>8. DotHolds'
    <3> SUFFICES ASSUME dotfile'.id \in live
                 PROVE  json'[Files[dotfile'.name]] = "link"
      BY <1>2 DEF DotHolds
    <3>1. CASE json[From] = "link"
      <4>1. dotfile' = job.was /\ job.was \in Kept
        BY <2>2, <2>3, <3>1
      <4>2. Files[job.was.name] \in Slots
        BY <4>1 DEF Kept, Slots
      <4> QED
        BY <2>3, <2>4, <3>1, <4>1, <4>2
    <3>2. CASE json[From] # "link"
      <4>1. dotfile' = dotfile /\ dotfile \in Kept \cup {NotThere} /\ dotfile.id \in live
        BY <1>1, <2>2, <3>2 DEF StoreTyped
      <4>2. Files[dotfile.name] \in Slots /\ json[Files[dotfile.name]] = "link"
        BY <1>1, <4>1, LiveIsKept DEF DotHolds
      <4> QED
        BY <2>3, <2>4, <3>2, <4>1, <4>2
    <3> QED
      BY <3>1, <3>2
  <2>9. RefsHold'
    <3>1. ASSUME NEW u \in Users, refs[u].id \in live
          PROVE  json'[Files[refs[u].name]] # "none" /\ Read(Files[refs[u].name])'.id = refs[u].id
      <4>1. refs[u] \in Kept \cup {NotThere}
        BY <1>1 DEF StoreTyped
      <4>2. Files[refs[u].name] \in Slots \ {To}
        BY <1>1, <2>3, <3>1, <4>1, LiveIsKept
      <4>3. json[Files[refs[u].name]] # "none" /\ Read(Files[refs[u].name]).id = refs[u].id
        BY <1>7, <3>1 DEF RefHolds
      <4> QED
        BY <1>2, <2>4, <2>5, <4>2, <4>3
    <3>2. Users' = Users
      BY DEF Users
    <3> QED
      BY <1>2, <1>6, <3>1, <3>2 DEF RefsHold, Trails, RefHolds
  <2>10. NothingIsLost'
    <3> SUFFICES ASSUME NEW i \in live
                 PROVE  \E s \in Slots : json'[s] # "none" /\ Read(s)'.id = i
      BY <1>2 DEF NothingIsLost, Present
    <3>1. PICK s \in Slots : json[s] # "none" /\ Read(s).id = i
      BY <1>1 DEF NothingIsLost, Present
    <3>2. CASE s # To
      BY <2>4, <2>5, <3>1, <3>2
    <3>3. CASE s = To
      <4>1. Read(From).id = i /\ json'[From] = json[From]
        BY <1>4, <1>10, <2>3, <2>4, <3>1, <3>3
      <4>2. From \in Slots /\ \A r \in Slots : r = From => Read(r)'.id = Read(r).id
        BY <1>4, <2>5, <4>1
      <4>3. \E r \in Slots : r = From /\ Read(r).id = i
        BY <4>1, <4>2
      <4> QED
        BY <2>3, <4>1, <4>2, <4>3
    <3> QED
      BY <3>2, <3>3
  <2>11. SaveIsNew' /\ RenameCarries' /\ MoveLinks'
    BY <1>6, <2>1 DEF SaveIsNew, RenameCarries, MoveLinks
  <2> QED
    BY <1>5, <2>6, <2>7, <2>8, <2>9, <2>10, <2>11 DEF StoreInv
<1> QED
  BY <1>9, <1>10

\* Where no file changes, what lives is read where it was.
LEMMA FilesStay ==
  ASSUME StoreTyped, UNCHANGED <<json, content, dotfile, ids, live>>,
         refs' \in [Users -> Kept \cup {NotThere}], dialog'.kind # "none" => dialog'.name \in Names,
         FilesNamed, DotHolds, NothingIsLost
  PROVE  /\ StoreTyped' /\ FilesNamed' /\ DotHolds' /\ NothingIsLost'
         /\ \A s : Read(s)' = IF json[s] = "link" THEN dotfile ELSE content[s]
         /\ \A s : Read(s) = IF json[s] = "link" THEN dotfile ELSE content[s]
<1>1. /\ \A s : Read(s)' = IF json[s] = "link" THEN dotfile ELSE content[s]
      /\ \A s : Read(s) = IF json[s] = "link" THEN dotfile ELSE content[s]
  BY DEF Read
<1>2. Kept' = Kept
  BY DEF Kept, Ids
<1> QED
  BY <1>1, <1>2 DEF StoreTyped, FilesNamed, DotHolds, NothingIsLost, Present

LEMMA ReferringKeeps ==
  ASSUME StoreInv, Refers
  PROVE  StoreInv'
<1>1. StoreTyped /\ FilesNamed /\ DotHolds /\ RefsHold /\ NothingIsLost
  BY DEF StoreInv
<1>2. /\ job = NoJob /\ job' = NoJob
      /\ UNCHANGED <<json, content, dotfile, ids, live, dialog>>
  BY DEF Refers, files, terminal
<1>3. PICK s \in Slots, u \in Users : json[s] # "none" /\ refs' = [refs EXCEPT ![u] = Read(s)]
  BY DEF Refers, List, Present
<1>4. Read(s) \in Kept /\ Read(s) = IF json[s] = "link" THEN dotfile ELSE content[s]
  BY <1>1, <1>3 DEF StoreTyped, Present, Read
<1>5. refs' \in [Users -> Kept \cup {NotThere}]
  BY <1>1, <1>3, <1>4 DEF StoreTyped
<1>6. /\ StoreTyped' /\ FilesNamed' /\ DotHolds' /\ NothingIsLost'
      /\ \A t : Read(t)' = IF json[t] = "link" THEN dotfile ELSE content[t]
      /\ \A t : Read(t) = IF json[t] = "link" THEN dotfile ELSE content[t]
  BY <1>1, <1>2, <1>5, FilesStay DEF StoreTyped
<1>7. /\ ~Moves /\ ~Moves' /\ JobTyped' /\ SaveIsNew' /\ RenameCarries' /\ MoveLinks'
  BY <1>2 DEF Moves, Renames, JobTyped, SaveIsNew, Saves, RenameCarries, MoveLinks
<1>8. Read(s).id \in live => json[Files[Read(s).name]] # "none" /\ Read(Files[Read(s).name]).id = Read(s).id
  <2>1. CASE json[s] = "link"
    BY <1>1, <1>4, <1>6, <2>1 DEF DotHolds
  <2>2. CASE json[s] # "link"
    <3>1. json[s] = "file" /\ Files[content[s].name] = s
      BY <1>1, <1>3, <2>2 DEF StoreTyped, FilesNamed
    <3> QED
      BY <1>4, <1>6, <3>1
  <2> QED
    BY <2>1, <2>2
<1>9. RefsHold'
  <2>1. ASSUME NEW v \in Users, refs'[v].id \in live
        PROVE  json[Files[refs'[v].name]] # "none" /\ Read(Files[refs[v].name])'.id = refs'[v].id
    <3>1. CASE v = u
      <4>1. refs'[v] = Read(s)
        BY <1>1, <1>3, <3>1 DEF StoreTyped
      <4> QED
        BY <1>6, <1>8, <2>1, <4>1
    <3>2. CASE v # u
      <4>1. refs'[v] = refs[v]
        BY <1>1, <1>3, <3>2 DEF StoreTyped
      <4>2. json[Files[refs[v].name]] # "none" /\ Read(Files[refs[v].name]).id = refs[v].id
        BY <1>1, <1>7, <2>1, <4>1 DEF RefsHold, Trails, RefHolds
      <4> QED
        BY <1>6, <4>1, <4>2
    <3> QED
      BY <3>1, <3>2
  <2>2. Users' = Users
    BY DEF Users
  <2> QED
    BY <1>2, <1>7, <2>1, <2>2 DEF RefsHold, Trails, RefHolds
<1> QED
  BY <1>6, <1>7, <1>9 DEF StoreInv

LEMMA EndKeeps ==
  ASSUME StoreInv, Ends
  PROVE  StoreInv'
<1> DEFINE p == job.profile
<1>1. /\ StoreTyped /\ JobTyped /\ FilesNamed /\ DotHolds /\ RenameCarries /\ RefsHold /\ NothingIsLost
  BY DEF StoreInv
<1>2. /\ job # NoJob /\ Done /\ job' = NoJob
      /\ UNCHANGED <<json, content, dotfile, ids, live, dialog>>
      /\ refs' = IF job.op = "rename" /\ job.ok THEN [u \in Users |-> Follows(u, refs[u])] ELSE refs
  BY DEF Ends, files
<1>3. /\ ~Moves' /\ JobTyped' /\ SaveIsNew' /\ RenameCarries' /\ MoveLinks' /\ Users' = Users
  BY <1>2 DEF Moves, Renames, JobTyped, SaveIsNew, Saves, RenameCarries, MoveLinks, Users
<1>4. job.name \in Names /\ job.to \in Names
  BY <1>1, <1>2 DEF JobTyped
<1>5. \A u \in Users : refs[u] \in Kept \cup {NotThere}
  BY <1>1 DEF StoreTyped
<1>6. Renames =>
        /\ job.at = 6 /\ Files[job.to] = To
        /\ json[To] # "none" /\ Read(To).id = p.id
        /\ \A u \in Users : refs'[u] = Follows(u, refs[u])
  <2>1. Renames => job.at > 5 /\ job.at \in 1..6
    BY <1>1, <1>2 DEF Renames, Done, Steps, RenameSteps, JobTyped
  <2>2. Renames => Files[job.to] = To
    BY DEF Renames, To
  <2> QED
    BY <1>1, <1>2, <2>1, <2>2 DEF Renames, RenameCarries
<1>7. ASSUME NEW u \in Users
      PROVE  \/ refs'[u] = refs[u] /\ (Renames => refs[u] = NotThere \/ Files[refs[u].name] # From)
             \/ /\ Renames /\ Files[refs[u].name] = From /\ refs[u] \in Kept
                /\ refs'[u] = [refs[u] EXCEPT !.name = job.to]
  <2>1. CASE Renames
    BY <1>5, <1>6, <2>1 DEF Follows
  <2>2. CASE ~Renames
    BY <1>2, <2>2 DEF Renames
  <2> QED
    BY <2>1, <2>2
<1>8. ASSUME NEW r \in Kept
      PROVE  [r EXCEPT !.name = job.to] \in Kept /\ [r EXCEPT !.name = job.to].id = r.id
             /\ [r EXCEPT !.name = job.to].name = job.to
  BY <1>4 DEF Kept
<1>9. refs' \in [Users -> Kept \cup {NotThere}]
  <2>1. ASSUME NEW u \in Users
        PROVE  refs'[u] \in Kept \cup {NotThere}
    <3>1. CASE refs'[u] = refs[u]
      BY <1>5, <3>1
    <3>2. CASE refs[u] \in Kept /\ refs'[u] = [refs[u] EXCEPT !.name = job.to]
      BY <1>8, <3>2
    <3> QED
      BY <1>7, <3>1, <3>2
  <2>2. refs' = [u \in Users |-> refs'[u]]
    BY <1>1, <1>2 DEF StoreTyped
  <2> QED
    BY <2>1, <2>2
<1>10. /\ StoreTyped' /\ FilesNamed' /\ DotHolds' /\ NothingIsLost'
       /\ \A t : Read(t)' = IF json[t] = "link" THEN dotfile ELSE content[t]
       /\ \A t : Read(t) = IF json[t] = "link" THEN dotfile ELSE content[t]
  BY <1>1, <1>2, <1>9, FilesStay DEF StoreTyped
<1>11. ASSUME NEW u \in Users, refs'[u].id \in live
       PROVE  json[Files[refs'[u].name]] # "none" /\ Read(Files[refs[u].name])'.id = refs'[u].id
  <2>1. CASE refs'[u] = refs[u] /\ (Renames => refs[u] = NotThere \/ Files[refs[u].name] # From)
    <3>0. NotThere.id = 0
      BY DEF NotThere
    <3>1. refs[u] # NotThere
      BY <1>1, <1>11, <2>1, <3>0 DEF StoreTyped
    <3>2. ~Trails(refs[u])
      BY <2>1, <3>1 DEF Trails, Moves
    <3> QED
      BY <1>1, <1>10, <1>11, <2>1, <3>2 DEF RefsHold, RefHolds
  <2>2. CASE /\ Renames /\ Files[refs[u].name] = From /\ refs[u] \in Kept
             /\ refs'[u] = [refs[u] EXCEPT !.name = job.to]
    <3>1. refs'[u].id = refs[u].id /\ refs'[u].name = job.to /\ refs[u].id \in live
      BY <1>8, <1>11, <2>2
    <3>2. CASE From # To
      <4>1. refs[u].id = p.id
        BY <1>1, <1>6, <2>2, <3>1, <3>2 DEF RefsHold, Trails, Moves
      <4> QED
        BY <1>6, <1>10, <2>2, <3>1, <4>1
    <3>3. CASE From = To
      <4>1. Read(Files[refs[u].name]).id = refs[u].id
        BY <1>1, <3>1, <3>3 DEF RefsHold, Trails, Moves, RefHolds
      <4> QED
        BY <1>6, <1>10, <2>2, <3>1, <3>3, <4>1
    <3> QED
      BY <3>2, <3>3
  <2> QED
    BY <1>7, <2>1, <2>2
<1>12. RefsHold'
  BY <1>2, <1>3, <1>11 DEF RefsHold, Trails, RefHolds
<1> QED
  BY <1>3, <1>10, <1>12 DEF StoreInv

LEMMA CrashKeeps ==
  ASSUME StoreInv, DaemonDies
  PROVE  StoreInv'
<1>1. StoreTyped /\ FilesNamed /\ DotHolds /\ NothingIsLost
  BY DEF StoreInv
<1>2. /\ job' = NoJob /\ refs' = [u \in Users |-> NotThere]
      /\ UNCHANGED <<json, content, dotfile, ids, live, dialog>>
  BY DEF DaemonDies, files
<1>3. refs' \in [Users -> Kept \cup {NotThere}]
  BY <1>2
<1>4. StoreTyped' /\ FilesNamed' /\ DotHolds' /\ NothingIsLost'
  BY <1>1, <1>2, <1>3, FilesStay DEF StoreTyped
<1>5. /\ ~Moves' /\ JobTyped' /\ SaveIsNew' /\ RenameCarries' /\ MoveLinks' /\ Users' = Users
  BY <1>2 DEF Moves, Renames, JobTyped, SaveIsNew, Saves, RenameCarries, MoveLinks, Users
<1>6. \A u \in Users : refs'[u].id \notin live'
  BY <1>1, <1>2 DEF StoreTyped, NotThere
<1>7. RefsHold'
  BY <1>5, <1>6 DEF RefsHold, Trails, RefHolds
<1> QED
  BY <1>4, <1>5, <1>7 DEF StoreInv

\* An operation begins where what it is about to do can be undone.
LEMMA BeginKeeps ==
  ASSUME StoreInv, NEW op \in {"save", "delete", "rename"}, NEW n \in Names, NEW to \in Names, NEW by,
         Begins(op, n, to, by), UNCHANGED <<files, refs, live>>,
         dialog'.kind # "none" => dialog'.name \in Names
  PROVE  StoreInv'
<1> DEFINE p == job'.profile  ok == ~Refused(op, n, to)
<1>1. /\ StoreTyped /\ FilesNamed /\ DotHolds /\ RefsHold /\ NothingIsLost
  BY DEF StoreInv
<1>2. job = NoJob /\ UNCHANGED <<json, content, dotfile, refs, live>>
  BY DEF Begins, files
<1>3. /\ job'.op = op /\ job'.name = n /\ job'.to = to /\ job'.by = by /\ job'.at = 1
      /\ job'.ok = ok /\ job'.was = Read(Files[n])
      /\ p = IF op = "rename" THEN [Read(Files[n]) EXCEPT !.name = to] ELSE [name |-> n, id |-> ids + 1]
      /\ JobIsRecord'
  BY DEF Begins, JobIsRecord
<1>4. ids' = IF op = "save" THEN ids + 1 ELSE ids
  BY DEF Begins
<1>5. job' # NoJob /\ JobTyped'
  BY <1>3 DEF JobTyped, NoJob, Names
<1>6. /\ From' = Files[n] /\ To' = (IF op = "rename" THEN Files[to] ELSE Files[n])
      /\ From' \in Slots /\ To' \in Slots
  BY <1>3 DEF From, To, Slots
<1>7. ids' \in Nat /\ ids <= ids' /\ Kept \subseteq Kept'
  BY <1>1, <1>4 DEF StoreTyped, Kept, Ids
<1>8. /\ \A s : Read(s)' = IF json[s] = "link" THEN dotfile ELSE content[s]
      /\ \A s : Read(s) = IF json[s] = "link" THEN dotfile ELSE content[s]
  BY <1>2 DEF Read
<1>9. StoreTyped' /\ FilesNamed' /\ DotHolds' /\ NothingIsLost'
  <2>1. /\ content' \in [Slots -> Kept' \cup {NotThere}] /\ dotfile' \in Kept' \cup {NotThere}
        /\ refs' \in [Users -> Kept' \cup {NotThere}]
    BY <1>1, <1>2, <1>7 DEF StoreTyped
  <2>2. \A s \in Slots : json[s] # "none" => Read(s)' \in Kept'
    BY <1>1, <1>7, <1>8 DEF StoreTyped, Present
  <2> QED
    BY <1>1, <1>2, <1>7, <1>8, <2>1, <2>2 DEF StoreTyped, FilesNamed, DotHolds, NothingIsLost, Present
<1>10. SaveIsNew'
  <2> SUFFICES ASSUME op = "save"
               PROVE  /\ p \in Kept' /\ p.name = n /\ p.id # dotfile.id /\ p.id > 0
                      /\ \A u \in Users : refs[u].id # p.id
    BY <1>2, <1>3 DEF SaveIsNew, Saves, Users
  <2>1. p.name = n /\ p.id = ids + 1 /\ p = [name |-> n, id |-> ids + 1] /\ ids' = ids + 1
    BY <1>3, <1>4
  <2>2. \A r \in Kept \cup {NotThere} : r.id \in 0..ids
    <3>1. \A r \in Kept : r.id \in 0..ids
      BY DEF Kept, Ids
    <3>2. NotThere.id = 0
      BY DEF NotThere
    <3>3. 0 \in 0..ids
      BY <1>1 DEF StoreTyped
    <3> QED
      BY <3>1, <3>2, <3>3
  <2>3. dotfile.id \in 0..ids /\ \A u \in Users : refs[u].id \in 0..ids
    BY <1>1, <2>2 DEF StoreTyped
  <2>4. p \in Kept'
    BY <1>7, <2>1 DEF Kept, Ids, Names
  <2> QED
    BY <1>1, <2>1, <2>3, <2>4 DEF StoreTyped
<1>11. ASSUME op = "rename", ok
       PROVE  /\ json[Files[n]] # "none" /\ Read(Files[n]) \in Kept
              /\ p \in Kept /\ p.name = to /\ p.id = Read(Files[n]).id
              /\ Files[n] # Files[to] => json[Files[to]] = "none"
  <2>1. json[Files[n]] # "none" /\ (Files[n] # Files[to] => json[Files[to]] = "none")
    BY <1>11 DEF Refused
  <2>2. Read(Files[n]) \in Kept
    BY <1>1, <2>1 DEF StoreTyped, Present, Slots
  <2>3. p = [Read(Files[n]) EXCEPT !.name = to]
    BY <1>3, <1>11
  <2> QED
    BY <2>1, <2>2, <2>3 DEF Kept
<1>12. /\ Renames' <=> (op = "rename" /\ ok)
       /\ Moves' <=> (op = "rename" /\ ok /\ Files[n] # Files[to])
  BY <1>3, <1>5, <1>6 DEF Renames, Moves
<1>13. RenameCarries'
  <2>1. Renames' => Read(From)' = Read(Files[n]) /\ (Files[n] = Files[to] => Read(To)' = Read(Files[n]))
    BY <1>2, <1>3, <1>6, <1>8, <1>12 DEF Read
  <2> QED
    BY <1>2, <1>3, <1>6, <1>7, <1>11, <1>12, <2>1 DEF RenameCarries
<1>14. MoveLinks'
  <2> SUFFICES ASSUME op = "rename", ok, Files[n] # Files[to]
               PROVE  /\ json[Files[to]] = "none"
                      /\ json[Files[n]] = "link" =>
                           /\ Read(Files[n]) \in Kept /\ Read(Files[n]).id = dotfile.id
                           /\ Read(Files[n]).id \in live => json[Files[Read(Files[n]).name]] = "link"
                                                           /\ Files[Read(Files[n]).name] # Files[to]
    BY <1>2, <1>3, <1>6, <1>7, <1>12 DEF MoveLinks
  <2>1. json[Files[n]] = "link" => Read(Files[n]) = dotfile
    BY <1>8
  <2> QED
    BY <1>1, <1>11, <2>1 DEF DotHolds
<1>15. RefsHold'
  <2>1. ~Moves /\ \A u \in Users : ~Trails(refs[u]) /\ RefHolds(refs[u])
    BY <1>1, <1>2 DEF Moves, Renames, Trails, RefsHold
  <2>2. \A u \in Users : ~Trails(refs[u])' /\ RefHolds(refs[u])'
    BY <1>2, <1>3, <1>8, <2>1 DEF Trails, RefHolds
  <2>3. ASSUME Moves', NEW u \in Users, refs[u].id \in live
        PROVE  Files[refs[u].name] # To'
    BY <1>6, <1>11, <1>12, <2>1, <2>3 DEF RefHolds
  <2>4. Users' = Users
    BY DEF Users
  <2> QED
    BY <1>2, <2>2, <2>3, <2>4 DEF RefsHold
<1> QED
  BY <1>5, <1>9, <1>10, <1>13, <1>14, <1>15 DEF StoreInv

\* The terminal's own steps leave the files and the daemon alone.
LEMMA RestKeeps ==
  ASSUME StoreInv, UNCHANGED <<files, job, refs, ids, live>>,
         dialog'.kind # "none" => dialog'.name \in Names
  PROVE  StoreInv'
<1>1. UNCHANGED <<json, content, dotfile, job, refs, ids, live>>
  BY DEF files
<1>2. /\ StoreTyped /\ FilesNamed /\ DotHolds /\ NothingIsLost /\ JobTyped /\ SaveIsNew
      /\ RenameCarries /\ MoveLinks /\ RefsHold
  BY DEF StoreInv
<1>3. /\ StoreTyped' /\ FilesNamed' /\ DotHolds' /\ NothingIsLost'
      /\ \A s : Read(s)' = Read(s)
  BY <1>1, <1>2, FilesStay DEF StoreTyped
<1>4. /\ From' = From /\ To' = To /\ Users' = Users /\ Kept' = Kept
      /\ (Moves' <=> Moves) /\ (Renames' <=> Renames) /\ (Saves' <=> Saves)
  BY <1>1 DEF From, To, Users, Kept, Ids, Moves, Renames, Saves
<1>5. Read(From)' = Read(From) /\ Read(To)' = Read(To)
  BY <1>1 DEF Read, From, To
<1>6. JobTyped' /\ SaveIsNew' /\ MoveLinks'
  BY <1>1, <1>2, <1>4 DEF JobTyped, JobIsRecord, SaveIsNew, MoveLinks, Names, Users
<1>7. RenameCarries'
  BY <1>1, <1>2, <1>4, <1>5 DEF RenameCarries
<1>8. RefsHold'
  <2>1. \A u \in Users : (Trails(refs[u])' <=> Trails(refs[u])) /\ (RefHolds(refs[u])' <=> RefHolds(refs[u]))
    BY <1>1, <1>3, <1>4 DEF Trails, RefHolds
  <2> QED
    BY <1>1, <1>2, <1>4, <2>1 DEF RefsHold
<1> QED
  BY <1>3, <1>6, <1>7, <1>8 DEF StoreInv

LEMMA InitHolds ==
  ASSUME StoreInit
  PROVE  StoreInv
<1> DEFINE start(s) == CHOOSE n \in Stored : Files[n] = s
           taken == {Files[n] : n \in Stored}
           idOf(s) == CHOOSE i \in DOMAIN ProfileNames : ProfileNames[i] = start(s)
           p(s) == [name |-> start(s), id |-> idOf(s)]
<1>1. ASSUME NEW s \in taken
      PROVE  start(s) \in Stored /\ Files[start(s)] = s
  OBVIOUS
<1>2. ASSUME NEW s \in taken
      PROVE  idOf(s) \in DOMAIN ProfileNames /\ ProfileNames[idOf(s)] = start(s)
  <2>1. start(s) \in Names
    BY <1>1, OneDotfile
  <2>2. \E i \in DOMAIN ProfileNames : ProfileNames[i] = start(s)
    BY <2>1 DEF Names
  <2> QED
    BY <2>2
<1>3. /\ json = [s \in Slots |-> IF s \notin taken THEN "none" ELSE IF s \in Linked THEN "link" ELSE "file"]
      /\ content = [s \in Slots |-> IF s \in taken \ Linked THEN p(s) ELSE NotThere]
      /\ dotfile = IF Linked \cap taken = {} THEN NotThere ELSE p(CHOOSE s \in Linked : TRUE)
      /\ job = NoJob /\ refs = [u \in Users |-> NotThere]
      /\ ids = Len(ProfileNames) /\ live = {idOf(s) : s \in taken} /\ dialog = [kind |-> "none"]
  BY DEF StoreInit
<1>4. taken \subseteq Slots /\ ids \in Nat /\ DOMAIN ProfileNames = 1..ids
  BY <1>3, OneDotfile DEF Slots
<1>5. ASSUME NEW s \in taken
      PROVE  p(s) \in Kept /\ p(s).id = idOf(s) /\ p(s).name = start(s) /\ idOf(s) # 0
  <2>1. start(s) \in Names /\ idOf(s) \in 1..ids
    BY <1>1, <1>2, <1>4, OneDotfile
  <2> HIDE DEF start, idOf
  <2> QED
    BY <1>4, <2>1 DEF Kept, Ids
<1>6. Linked \cap taken = {} \/ \E s \in Linked \cap taken : (CHOOSE t \in Linked : TRUE) = s
  BY OneDotfile
<1> HIDE DEF start, idOf, taken, p
<1>7. (dotfile = NotThere /\ Linked \cap taken = {}) \/ \E s \in Linked \cap taken : dotfile = p(s)
  BY <1>3, <1>6
<1>8. \A s \in taken \cap Linked : json[s] = "link" /\ dotfile = p(s)
  BY <1>3, <1>4, <1>7, OneDotfile
<1>9. \A s \in Slots : s \in taken \/ json[s] = "none"
  BY <1>3
<1>10. \A s \in taken : s \notin Linked => json[s] = "file" /\ content[s] = p(s)
  BY <1>3, <1>4
<1>11. \A s \in taken : Read(s) = p(s)
  BY <1>8, <1>10 DEF Read
<1>12. \A s \in Slots : (json[s] # "none" <=> s \in taken)
  BY <1>8, <1>9, <1>10
<1>13. StoreTyped
  <2>1. \A s \in Present : Read(s) \in Kept
    BY <1>5, <1>11, <1>12 DEF Present
  <2>2. 0 \notin live
    BY <1>3, <1>5
  <2>3. /\ json \in [Slots -> {"none", "file", "link"}] /\ content \in [Slots -> Kept \cup {NotThere}]
        /\ dotfile \in Kept \cup {NotThere} /\ refs \in [Users -> Kept \cup {NotThere}]
    BY <1>3, <1>5, <1>7
  <2>4. dialog.kind = "none"
    BY <1>3
  <2> QED
    BY <1>4, <2>1, <2>2, <2>3, <2>4 DEF StoreTyped
<1>14. FilesNamed
  BY <1>1, <1>5, <1>8, <1>10, <1>12 DEF FilesNamed
<1>15. DotHolds
  <2>1. CASE dotfile = NotThere
    <3>1. NotThere.id = 0
      BY DEF NotThere
    <3> QED
      BY <1>13, <2>1, <3>1 DEF DotHolds, StoreTyped
  <2>2. CASE \E s \in Linked \cap taken : dotfile = p(s)
    BY <1>1, <1>5, <1>8, <2>2 DEF DotHolds
  <2> QED
    BY <1>7, <2>1, <2>2
<1>16. NothingIsLost
  BY <1>3, <1>4, <1>5, <1>11, <1>12 DEF NothingIsLost, Present
<1>17. JobTyped /\ SaveIsNew /\ RenameCarries /\ MoveLinks
  BY <1>3 DEF JobTyped, SaveIsNew, Saves, RenameCarries, MoveLinks, Moves, Renames
<1>18. RefsHold
  <2>1. \A u \in Users : refs[u].id \notin live
    BY <1>3, <1>13 DEF StoreTyped, NotThere
  <2> QED
    BY <2>1 DEF RefsHold, Trails, RefHolds
<1> QED
  BY <1>13, <1>14, <1>15, <1>16, <1>17, <1>18 DEF StoreInv

-----------------------------------------------------------------------------
(* The theorems.                                                           *)

LEMMA StepKeeps ==
  ASSUME StoreInv, [StoreNext]_storeVars
  PROVE  StoreInv'
<1>1. StoreTyped /\ JobTyped
  BY DEF StoreInv
<1>2. CASE DoesStep
  BY <1>1, <1>2, StepKinds, SaveKeeps, DeleteKeeps, LinkKeeps, WriteKeeps, RemoveKeeps, SidecarKeeps
<1>3. CASE StepFails \/ Refers \/ Ends \/ DaemonDies
  BY <1>3, FailureKeeps, ReferringKeeps, EndKeeps, CrashKeeps
<1>4. CASE OthersAsk
  <2>1. PICK op \in {"save", "delete", "rename"}, n \in Names, to \in Names : Begins(op, n, to, "other")
    BY <1>4 DEF OthersAsk
  <2>2. UNCHANGED <<files, refs, live, dialog>>
    BY <1>4 DEF OthersAsk, terminal
  <2>3. dialog'.kind # "none" => dialog'.name \in Names
    BY <1>1, <2>2 DEF StoreTyped
  <2> QED
    BY <2>1, <2>2, <2>3, BeginKeeps
<1>5. CASE Confirms
  <2>1. UNCHANGED <<files, refs, live>> /\ dialog'.kind = "none"
    BY <1>5 DEF Confirms
  <2>2. dialog.name \in Names
    BY <1>1, <1>5 DEF Confirms, StoreTyped
  <2>3. \E op \in {"save", "delete", "rename"}, n, to \in Names : Begins(op, n, to, "terminal")
    <3>1. CASE Begins("delete", dialog.name, dialog.name, "terminal")
      BY <2>2, <3>1
    <3>2. CASE \E n \in Names : Begins("save", n, n, "terminal")
      BY <3>2
    <3>3. CASE \E to \in Names : Begins("rename", dialog.name, to, "terminal")
      BY <2>2, <3>3
    <3> QED
      BY <1>5, <3>1, <3>2, <3>3 DEF Confirms
  <2> QED
    BY <2>1, <2>3, BeginKeeps
<1>6. CASE Selects \/ OpensDialog \/ LeavesDialog \/ Reads \/ TakesRefresh \/ TakesAnswer \/ Ticks
           \/ UNCHANGED storeVars
  <2>1. UNCHANGED <<files, job, refs, ids, live>>
    BY <1>6 DEF Selects, OpensDialog, LeavesDialog, Reads, TakesRefresh, TakesAnswer, Ticks, Idle, storeVars
  <2>2. dialog'.kind # "none" => dialog'.name \in Names
    <3>1. CASE OpensDialog
      BY <3>1 DEF OpensDialog
    <3>2. CASE LeavesDialog
      BY <3>2 DEF LeavesDialog
    <3>3. CASE UNCHANGED dialog
      BY <1>1, <3>3 DEF StoreTyped, Names
    <3> QED
      BY <1>6, <3>1, <3>2, <3>3
         DEF Selects, Reads, TakesRefresh, TakesAnswer, Ticks, storeVars, terminal
  <2> QED
    BY <2>1, <2>2, RestKeeps
<1> QED
  BY <1>2, <1>3, <1>4, <1>5, <1>6 DEF StoreNext

\* The invariant of the store: where each file, link, reference and half-done operation
\* stands, in every state (store.go, ipc.go).
THEOREM StoreInvHolds == StoreSpec => []StoreInv
<1>1. StoreInit => StoreInv
  BY InitHolds
<1>2. StoreInv /\ [StoreNext]_storeVars => StoreInv'
  BY StepKeeps
<1> QED
  BY <1>1, <1>2, PTL DEF StoreSpec

\* Whatever fails or crashes in the middle of an operation, every profile that was saved
\* and not deleted can still be read (store.go:119).
THEOREM NoProfileIsLost == StoreSpec => []NothingIsLost
<1>1. StoreInv => NothingIsLost
  BY DEF StoreInv
<1> QED
  BY <1>1, StoreInvHolds, PTL

\* Between operations, what the daemon applied or pinned is found in the files of the
\* name it remembers (ipc.go:435).
THEOREM ReferencesFollow == StoreSpec => []NamesFollow
<1>1. StoreInv => NamesFollow
  <2> SUFFICES ASSUME StoreInv, job = NoJob, NEW u \in Users
               PROVE  RefHolds(refs[u])
    BY DEF NamesFollow, RefHolds
  <2>1. ~Trails(refs[u])
    BY DEF Trails, Moves, Renames
  <2> QED
    BY <2>1 DEF StoreInv, RefsHold
<1> QED
  BY <1>1, StoreInvHolds, PTL

=============================================================================
