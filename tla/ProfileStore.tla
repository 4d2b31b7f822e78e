---------------------------- MODULE ProfileStore ----------------------------
(***************************************************************************)
(* The files of the profiles (internal/profile/store.go, profileio), what  *)
(* the daemon remembers of them by name (ipc.go), and the terminal's list  *)
(* (tui/model.go, tui/rename.go).                                          *)
(*                                                                         *)
(* Names that differ in case share their files.  A profile is its name and *)
(* an id that stands for its contents.  The daemon does one operation      *)
(* after another (writeMu), one file at a time, and may crash in between;  *)
(* other clients ask it for operations too.                                *)
(***************************************************************************)
EXTENDS Integers, Sequences, FiniteSets

CONSTANTS
  ProfileNames,  \* in the order of the list
  Files,         \* Files[n]: what slugify makes of a name
  Stored,        \* the names of the profiles at start
  Linked,        \* files whose JSON is a symlink into a dotfile repository
  MaxOps,        \* bound on operations
  MaxLosses      \* bound on failing steps and crashes

Names == {ProfileNames[i] : i \in DOMAIN ProfileNames}
Slots == {Files[n] : n \in Names}

\* At most one profile is kept in the dotfile repository.
ASSUME OneDotfile ==
  /\ ProfileNames \in Seq(Names) /\ Stored \subseteq Names
  /\ \A s, t \in Linked : s = t
NotThere == [name |-> "", id |-> 0]
NoJob == [op |-> "none"]
Quiet == [op |-> "none"]
Sidecars == {"conf", "lua"}

VARIABLES
  json,     \* slot -> "none", "file" or "link"
  content,  \* slot -> what the JSON file holds if it is a file
  dotfile,  \* what the linked file holds
  sidecar,  \* slot -> extension -> the id it was rendered from, 0 for none
  job,      \* the operation under way, and how far it is
  refs,     \* Service: the profile of applied, rejected and the pin, by who refers to it
  ids,      \* ids given out
  live,     \* history: ids that were saved, and neither deleted nor overwritten
  known, selected,  \* the terminal: its profiles, and the place in their list
  dialog,   \* "none", or the dialog of the Profiles tab: what, name and place
  awaited,    \* the command the terminal waits for
  refresh,  \* its refresh: "none", "asked", or the answer; "off": no terminal is open
  ops, losses

files == <<json, content, dotfile, sidecar>>
terminal == <<known, selected, dialog, awaited, refresh>>
storeVars == <<files, job, refs, ids, live, terminal, ops, losses>>

Users == {"applied", "pin"}
Read(s) == IF json[s] = "link" THEN dotfile ELSE content[s]
Present == {s \in Slots : json[s] # "none"}
List == {Read(s) : s \in Present}

\* Each profile at the start has its place in the list for an id.
StoreInit ==
  LET start(s) == CHOOSE n \in Stored : Files[n] = s
      taken == {Files[n] : n \in Stored}
      idOf(s) == CHOOSE i \in DOMAIN ProfileNames : ProfileNames[i] = start(s)
      p(s) == [name |-> start(s), id |-> idOf(s)]
  IN
  /\ json = [s \in Slots |-> IF s \notin taken THEN "none"
                             ELSE IF s \in Linked THEN "link" ELSE "file"]
  /\ content = [s \in Slots |-> IF s \in taken \ Linked THEN p(s) ELSE NotThere]
  /\ dotfile = IF Linked \cap taken = {} THEN NotThere ELSE p(CHOOSE s \in Linked : TRUE)
  /\ sidecar = [s \in Slots |-> [x \in Sidecars |-> IF s \in taken THEN idOf(s) ELSE 0]]
  /\ job = NoJob /\ refs = [u \in Users |-> NotThere]
  /\ ids = Len(ProfileNames) /\ live = {idOf(s) : s \in taken}
  /\ known = {} /\ selected = 0 /\ dialog = [kind |-> "none"]
  /\ awaited = Quiet /\ refresh \in {[kind |-> "asked"], [kind |-> "off"]}
  /\ ops \in 0..MaxOps /\ losses \in 0..MaxLosses

Loses == losses < MaxLosses /\ losses' = losses + 1

-----------------------------------------------------------------------------
(* The store's operations.                                                 *)

SaveSteps == <<"json", "conf", "lua">>
DeleteSteps == <<"json", "conf", "lua">>

\* Plausible bug: the old file goes first.
RemovesFirst == <<"remove", "link", "write", "conf", "lua">>

\* renameProfileFiles: the new JSON is there before the old one goes.
RenameSteps == <<"link", "write", "conf", "lua", "remove">>

Steps(op) == CASE op = "save" -> SaveSteps
               [] op = "delete" -> DeleteSteps
               [] op = "rename" -> RenameSteps

\* What a request comes to before a file is touched: a rename of what is not there, to
\* its own name, or to files that exist ends here.
Refused(op, n, to) ==
  op = "rename" /\ LET s == Files[n] t == Files[to] IN
    \/ json[s] = "none" \/ Read(s).name = to
    \/ s # t /\ (json[t] # "none" \/ \E x \in Sidecars : sidecar[t][x] # 0)

Begins(op, n, to, by) ==
  /\ job = NoJob
  /\ job' = [op |-> op, name |-> n, to |-> to, by |-> by, at |-> 1, ok |-> ~Refused(op, n, to),
             was |-> Read(Files[n]),
             profile |-> IF op = "rename" THEN [Read(Files[n]) EXCEPT !.name = to]
                         ELSE [name |-> n, id |-> ids + 1]]
  /\ ids' = IF op = "save" THEN ids + 1 ELSE ids

Done == ~job.ok \/ job.at > Len(Steps(job.op))
Step == Steps(job.op)[job.at]
From == Files[job.name]
To == IF job.op = "rename" THEN Files[job.to] ELSE From

\* WriteFileAtomic writes through a link.
WritesThrough(s, p) ==
  IF json[s] = "link"
    THEN dotfile' = p /\ UNCHANGED <<json, content>>
    ELSE /\ json' = [json EXCEPT ![s] = "file"]
         /\ content' = [content EXCEPT ![s] = p] /\ UNCHANGED dotfile

\* Store.Save renames a temporary file over the path, a link included.
SaveStep ==
  /\ job.op = "save"
  /\ IF Step = "json"
       THEN /\ json' = [json EXCEPT ![To] = "file"]
            /\ content' = [content EXCEPT ![To] = job.profile]
            /\ live' = (live \ {IF json[To] = "none" THEN 0 ELSE Read(To).id})
                         \cup {job.profile.id}
            /\ UNCHANGED <<dotfile, sidecar>>
       ELSE /\ sidecar' = [sidecar EXCEPT ![To][Step] = job.profile.id]
            /\ UNCHANGED <<json, content, dotfile, live>>

DeleteStep ==
  /\ job.op = "delete"
  /\ IF Step = "json"
       THEN /\ json' = [json EXCEPT ![From] = "none"]
            /\ live' = IF json[From] = "none" THEN live ELSE live \ {Read(From).id}
            /\ UNCHANGED <<content, dotfile, sidecar>>
       ELSE /\ sidecar' = [sidecar EXCEPT ![From][Step] = 0]
            /\ UNCHANGED <<json, content, dotfile, live>>

\* A change of case is one write, without the other steps.
RenameStep ==
  /\ job.op = "rename"
  /\ UNCHANGED live
  /\ \/ /\ Step = "link"
        /\ json' = IF From # To /\ json[From] = "link" THEN [json EXCEPT ![To] = "link"] ELSE json
        /\ UNCHANGED <<content, dotfile, sidecar>>
     \/ Step = "write" /\ WritesThrough(To, job.profile) /\ UNCHANGED sidecar
     \/ /\ Step \in Sidecars
        /\ sidecar' = IF From = To THEN sidecar
                      ELSE [sidecar EXCEPT ![To][Step] = sidecar[From][Step], ![From][Step] = 0]
        /\ UNCHANGED <<json, content, dotfile>>
     \/ /\ Step = "remove"
        /\ json' = IF From = To THEN json ELSE [json EXCEPT ![From] = "none"]
        /\ UNCHANGED <<content, dotfile, sidecar>>

DoesStep ==
  /\ job # NoJob /\ ~Done
  /\ SaveStep \/ DeleteStep \/ RenameStep
  /\ job' = [job EXCEPT !.at = @ + 1]
  /\ UNCHANGED <<refs, ids, terminal, ops, losses>>

\* A step fails.  A rename puts back what it moved, as far as that works; the write of
\* what a dotfile held is taken to work.
StepFails ==
  /\ job # NoJob /\ ~Done
  /\ Loses
  /\ job' = [job EXCEPT !.ok = FALSE]
  /\ IF job.op = "rename" /\ From # To
       THEN \E back \in SUBSET Sidecars, removed \in BOOLEAN :
              /\ back \subseteq {x \in Sidecars : sidecar[To][x] # 0}
              /\ sidecar' = [s \in Slots |-> [x \in Sidecars |->
                   IF x \in back /\ s = From THEN sidecar[To][x]
                   ELSE IF x \in back /\ s = To THEN 0 ELSE sidecar[s][x]]]
              /\ json' = IF removed THEN [json EXCEPT ![To] = "none"] ELSE json
              /\ dotfile' = IF json[From] = "link" THEN job.was ELSE dotfile
              /\ UNCHANGED content
       ELSE UNCHANGED files
  /\ UNCHANGED <<refs, ids, live, terminal, ops>>

-----------------------------------------------------------------------------
(* The daemon.                                                             *)

\* A pass or a client makes a profile the applied or the pinned one.
Refers ==
  /\ job = NoJob /\ ops < MaxOps /\ ops' = ops + 1
  /\ \E p \in List, u \in Users : refs' = [refs EXCEPT ![u] = p]
  /\ UNCHANGED <<files, job, ids, live, terminal, losses>>

\* Plausible bug: the pin keeps the old name.
FollowsApplied(u, r) ==
  IF u = "applied" /\ r # NotThere /\ Files[r.name] = From
    THEN [r EXCEPT !.name = job.to] ELSE r

\* Rename's follows: whatever shares the files of the old name takes the new one.
Follows(u, r) ==
  IF r # NotThere /\ Files[r.name] = From THEN [r EXCEPT !.name = job.to] ELSE r

\* The operation is over; after a rename, who remembers the name follows.
Ends ==
  /\ job # NoJob /\ Done
  /\ refs' = IF job.op = "rename" /\ job.ok THEN [u \in Users |-> Follows(u, refs[u])] ELSE refs
  /\ job' = NoJob
  /\ awaited' = IF job.by = "terminal"
                THEN [op |-> job.op, name |-> job.name, to |-> job.to, ok |-> job.ok] ELSE awaited
  /\ UNCHANGED <<files, ids, live, known, selected, dialog, refresh, ops, losses>>

\* The daemon dies, and starts again with what is on disk.  A call fails.
DaemonDies ==
  /\ Loses
  /\ job' = NoJob /\ refs' = [u \in Users |-> NotThere]
  /\ awaited' = IF job # NoJob /\ job.by = "terminal"
                THEN [op |-> job.op, name |-> job.name, to |-> job.to, ok |-> FALSE] ELSE awaited
  /\ UNCHANGED <<files, ids, live, known, selected, dialog, refresh, ops>>

\* Another client asks.
OthersAsk ==
  /\ ops < MaxOps /\ ops' = ops + 1
  /\ \E op \in {"save", "delete", "rename"}, n, to \in Names :
       (op # "rename" => to = n) /\ Begins(op, n, to, "other")
  /\ UNCHANGED <<files, refs, live, terminal, losses>>

-----------------------------------------------------------------------------
(* The terminal's Profiles tab.                                            *)

Listed == SelectSeq(ProfileNames, LAMBDA n : \E p \in known : p.name = n)
Clamp(i, list) == IF i > Len(list) THEN Len(list) ELSE IF i = 0 /\ list # <<>> THEN 1 ELSE i
Idle == UNCHANGED <<files, job, refs, ids, live, ops, losses>>

Selects ==
  /\ dialog.kind = "none"
  /\ \E i \in DOMAIN Listed : selected' = i
  /\ Idle /\ UNCHANGED <<known, dialog, awaited, refresh>>

\* d, r and e: two dialogs keep the name, the one of the command keeps the place.
OpensDialog ==
  /\ dialog.kind = "none" /\ selected \in DOMAIN Listed
  /\ \E kind \in {"delete", "rename", "exec"} :
       \E n \in Names : n = Listed[selected] /\ dialog' = [kind |-> kind, name |-> n, place |-> selected]
  /\ Idle /\ UNCHANGED <<known, selected, awaited, refresh>>

\* Escape, and Enter where nothing is to be done: the name is the same, or the place
\* is not in the list any more.
LeavesDialog ==
  /\ dialog.kind # "none" /\ dialog' = [kind |-> "none"]
  /\ Idle /\ UNCHANGED <<known, selected, awaited, refresh>>

\* A new name whose files the list knows for another profile keeps the dialog open.
Confirms ==
  /\ dialog.kind # "none" /\ dialog' = [kind |-> "none"]
  /\ awaited = Quiet /\ awaited' = [op |-> "waiting"]
  /\ ops < MaxOps /\ ops' = ops + 1
  /\ \/ dialog.kind = "delete" /\ Begins("delete", dialog.name, dialog.name, "terminal")
     \/ /\ dialog.kind = "exec" /\ dialog.place \in DOMAIN Listed
        /\ \E n \in Names : n = Listed[dialog.place] /\ Begins("save", n, n, "terminal")
     \/ /\ dialog.kind = "rename"
        /\ \E to \in Names \ {dialog.name} :
             /\ \A p \in known : Files[p.name] = Files[to] => p.name = dialog.name
             /\ Begins("rename", dialog.name, to, "terminal")
  /\ UNCHANGED <<files, refs, live, known, selected, refresh, losses>>

\* refreshCmd reads the store while operations go on; a refresh may fail.
Reads ==
  /\ refresh.kind = "asked"
  /\ \/ refresh' = [kind |-> "answer", ok |-> TRUE, profiles |-> List] /\ UNCHANGED losses
     \/ Loses /\ refresh' = [kind |-> "answer", ok |-> FALSE]
  /\ UNCHANGED <<files, job, refs, ids, live, known, selected, dialog, awaited, ops>>

TakesRefresh ==
  /\ refresh.kind = "answer" /\ refresh' = [kind |-> "none"]
  /\ known' = IF refresh.ok THEN refresh.profiles ELSE known
  /\ selected' = Clamp(selected, Listed')
  /\ Idle /\ UNCHANGED <<dialog, awaited>>

\* saveMsg, deleteMsg and renameMsg; a refresh follows where it went well.
TakesAnswer ==
  /\ awaited.op \notin {"none", "waiting"} /\ awaited' = Quiet
  /\ IF ~awaited.ok
       THEN UNCHANGED <<known, selected, refresh>>
       ELSE /\ refresh' = [kind |-> "asked"]
            /\ CASE awaited.op = "rename" ->
                      /\ known' = {IF p.name = awaited.name THEN [p EXCEPT !.name = awaited.to]
                                                          ELSE p : p \in known}
                      /\ selected' = IF \E p \in known : p.name = awaited.name
                                       THEN CHOOSE i \in DOMAIN Listed' : Listed'[i] = awaited.to
                                       ELSE selected
                 [] OTHER -> UNCHANGED <<known, selected>>
  /\ Idle /\ UNCHANGED dialog

\* tickMsg: a refresh in the background unless one is under way.
Ticks ==
  /\ refresh.kind = "none" /\ refresh' = [kind |-> "asked"]
  /\ Idle /\ UNCHANGED <<known, selected, dialog, awaited>>

StoreNext ==
  \/ DoesStep \/ StepFails \/ Refers \/ Ends \/ DaemonDies \/ OthersAsk
  \/ Selects \/ OpensDialog \/ LeavesDialog \/ Confirms
  \/ Reads \/ TakesRefresh \/ TakesAnswer \/ Ticks

StoreSpec == StoreInit /\ [][StoreNext]_storeVars

-----------------------------------------------------------------------------
\* Whatever fails or crashes in the middle of an operation, every profile that was
\* saved and not deleted can still be read (store.go:119).
NothingIsLost == \A i \in live : \E s \in Present : Read(s).id = i

\* What the daemon applied or pinned keeps naming the files that hold it, however it
\* and others are renamed (ipc.go:435).
NamesFollow ==
  job = NoJob => \A u \in Users :
    refs[u].id \in live => /\ json[Files[refs[u].name]] # "none"
                           /\ Read(Files[refs[u].name]).id = refs[u].id

=============================================================================
