-------------------------- MODULE WriterOwnership --------------------------
(***************************************************************************)
(* Who may write monitor configuration: one daemon, or one direct editor   *)
(* (writerlock, cmd/hyprmoncfgd, openWriterSession); and Omarchy's monitor *)
(* watcher, which the daemon stops while it manages the displays and gives *)
(* back afterwards (omarchywatch.Owner).                                   *)
(*                                                                         *)
(* One user changes the management switch, one call after another.  The    *)
(* watcher, the session and the flock are external: a process that ends    *)
(* drops its lock.                                                         *)
(***************************************************************************)
EXTENDS Integers, FiniteSets

CONSTANTS
  Daemons, Editors,
  Nobody,        \* no process
  MaxTroubles    \* bound on crashes, failures, and watchers started by others

\* Each process is itself.
ASSUME ProcessesDiffer == Nobody \notin Daemons \cup Editors /\ Daemons \cap Editors = {}

VARIABLES
  lock,      \* the process that holds the flock
  daemon,    \* "off", "waiting" for the lock, "starting", "serving" or "stopping"
  editor,    \* "off", "asking", "remote", "direct" or "refused"
  managed,   \* the marker file
  watchers,  \* watcher scopes that run
  session,   \* the Hyprland session lives
  polling, claimed,  \* Owner: cancel is set, claimed
  caught,    \* Owner: a poll has stopped the watcher and has not recorded it yet
  release,   \* how far Owner.Release is, "none" outside of it
  client,    \* the call to change the switch that a daemon serves
  owed,      \* history: the watcher was stopped and is to be given back
  troubles

owner == <<polling, claimed, caught, release>>
ownershipVars ==
  <<lock, daemon, editor, managed, watchers, session, owner, client, owed, troubles>>

OwnershipInit ==
  /\ lock = Nobody
  /\ daemon = [d \in Daemons |-> "off"] /\ editor = [e \in Editors |-> "off"]
  /\ managed = TRUE /\ watchers = 1 /\ session = TRUE
  /\ polling = [d \in Daemons |-> FALSE] /\ claimed = [d \in Daemons |-> FALSE]
  /\ caught = [d \in Daemons |-> FALSE] /\ release = [d \in Daemons |-> "none"]
  /\ client = [d \in Daemons |-> "none"]
  /\ owed = FALSE /\ troubles = 0

Trouble == troubles < MaxTroubles /\ troubles' = troubles + 1

Set(f, d, v) == [f EXCEPT ![d] = v]

-----------------------------------------------------------------------------
(* Owner.                                                                  *)

\* suppress: whether a watcher was there to be stopped.
Suppresses == watchers' = 0 /\ owed' = (owed \/ watchers > 0)

\* Plausible bug: only a poll's result is recorded.
StartUnrecorded(d) ==
  IF polling[d]
    THEN UNCHANGED <<watchers, owed, claimed, polling, troubles>>
    ELSE /\ polling' = Set(polling, d, TRUE)
         /\ Suppresses
         /\ UNCHANGED <<claimed, troubles>>

\* Start: a first suppress, which may fail, and from then on the polls.
Start(d) ==
  IF polling[d]
    THEN UNCHANGED <<watchers, owed, claimed, polling, troubles>>
    ELSE /\ polling' = Set(polling, d, TRUE)
         /\ \/ /\ Suppresses
               /\ claimed' = Set(claimed, d, claimed[d] \/ watchers > 0)
               /\ UNCHANGED troubles
            \/ Trouble /\ UNCHANGED <<watchers, owed, claimed>>

\* A tick stops a watcher that has been started since.
PollStops(d) ==
  /\ polling[d] /\ ~caught[d] /\ watchers > 0
  /\ Suppresses
  /\ caught' = Set(caught, d, TRUE)
  /\ UNCHANGED <<lock, daemon, editor, managed, session, polling, claimed, release, client,
                 troubles>>

\* recordSuppressResult; once Release has cancelled the polls nothing is recorded, and
\* the watcher is not owed any more if this was the first time it was stopped.
PollRecords(d) ==
  /\ caught[d] /\ caught' = Set(caught, d, FALSE)
  /\ claimed' = Set(claimed, d, claimed[d] \/ polling[d])
  /\ owed' = (owed /\ claimed'[d])
  /\ UNCHANGED <<lock, daemon, editor, managed, watchers, session, polling, release, client,
                 troubles>>

\* Release runs in Unmanage and at the end of the process.
Releases(d) == daemon[d] = "stopping" \/ client[d] = "unmanage"

\* Release: the polls are cancelled ...
ReleaseCancels(d) ==
  /\ Releases(d) /\ release[d] = "none"
  /\ polling' = Set(polling, d, FALSE) /\ release' = Set(release, d, "waiting")
  /\ UNCHANGED <<lock, daemon, editor, managed, watchers, session, claimed, caught, client,
                 owed, troubles>>

\* ... and waited for.  Nothing is to be given back unless the owner stopped the watcher.
ReleaseWaits(d) ==
  /\ release[d] = "waiting" /\ ~caught[d]
  /\ release' = Set(release, d, IF claimed[d] /\ session THEN "suppressing" ELSE "done")
  /\ UNCHANGED <<lock, daemon, editor, managed, watchers, session, polling, claimed, caught,
                 client, owed, troubles>>

\* A step of Release fails, or its time is up: what was launched is killed.
ReleaseFails(d) ==
  /\ release[d] \in {"suppressing", "launching", "confirming"}
  /\ Trouble
  /\ release' = Set(release, d, "done")
  /\ watchers' = IF release[d] = "confirming" THEN watchers - 1 ELSE watchers
  /\ owed' = FALSE
  /\ UNCHANGED <<lock, daemon, editor, managed, session, polling, claimed, caught, client>>

\* A watcher that was started after the last poll goes before the replacement comes.
ReleaseSuppresses(d) ==
  /\ release[d] = "suppressing" /\ release' = Set(release, d, "launching")
  /\ Suppresses
  /\ claimed' = Set(claimed, d, claimed[d] \/ watchers > 0)
  /\ UNCHANGED <<lock, daemon, editor, managed, session, polling, caught, client, troubles>>

ReleaseLaunches(d) ==
  /\ release[d] = "launching" /\ release' = Set(release, d, "confirming")
  /\ watchers' = watchers + 1
  /\ owed' = FALSE
  /\ UNCHANGED <<lock, daemon, editor, managed, session, polling, claimed, caught, client,
                 troubles>>

\* A scope of the watcher is there: the claim is settled.
ReleaseConfirms(d) ==
  /\ release[d] = "confirming" /\ watchers > 0
  /\ release' = Set(release, d, "done")
  /\ claimed' = Set(claimed, d, FALSE)
  /\ UNCHANGED <<lock, daemon, editor, managed, watchers, session, polling, caught, client,
                 owed, troubles>>

-----------------------------------------------------------------------------
(* cmd/hyprmoncfgd.                                                        *)

Launches(d) ==
  /\ daemon[d] = "off" /\ session /\ daemon' = Set(daemon, d, "waiting")
  /\ UNCHANGED <<lock, editor, managed, watchers, session, owner, client, owed, troubles>>

\* claimWriterOwnership
ClaimsOwnership(d) ==
  /\ daemon[d] = "waiting" /\ lock = Nobody
  /\ lock' = d /\ daemon' = Set(daemon, d, "starting")
  /\ UNCHANGED <<editor, managed, watchers, session, owner, client, owed, troubles>>

\* The marker is read, and server and service run.
Serves(d) ==
  /\ daemon[d] = "starting" /\ daemon' = Set(daemon, d, "serving")
  /\ IF managed
       THEN Start(d)
       ELSE UNCHANGED <<watchers, owed, claimed, polling, troubles>>
  /\ UNCHANGED <<lock, editor, managed, session, caught, release, client>>

\* A signal, or the end of the server or the service.  A daemon that waits for the lock
\* just ends; one that serves answers its clients first.
Stops(d) ==
  /\ \/ daemon[d] = "waiting" /\ daemon' = Set(daemon, d, "off")
     \/ daemon[d] = "serving" /\ client[d] = "none" /\ daemon' = Set(daemon, d, "stopping")
  /\ UNCHANGED <<lock, editor, managed, watchers, session, owner, client, owed, troubles>>

\* The process is gone, and its lock with it.
Gone(d) ==
  /\ daemon' = Set(daemon, d, "off")
  /\ lock' = IF lock = d THEN Nobody ELSE lock
  /\ polling' = Set(polling, d, FALSE) /\ claimed' = Set(claimed, d, FALSE)
  /\ caught' = Set(caught, d, FALSE) /\ release' = Set(release, d, "none")
  /\ client' = Set(client, d, "none")

Exits(d) ==
  /\ daemon[d] = "stopping" /\ release[d] = "done"
  /\ Gone(d)
  /\ UNCHANGED <<editor, managed, watchers, session, owed, troubles>>

\* A crash: that the watcher was stopped is only remembered in memory.
Crashes(d) ==
  /\ daemon[d] \in {"starting", "serving", "stopping"}
  /\ Trouble
  /\ Gone(d)
  /\ owed' = FALSE
  /\ UNCHANGED <<editor, managed, watchers, session>>

\* Manage and Unmanage mark first ...
SwitchCalled(d) ==
  /\ daemon[d] = "serving" /\ \A c \in Daemons : client[c] = "none"
  /\ \E on \in BOOLEAN :
       /\ managed' = on
       /\ client' = Set(client, d, IF on THEN "manage" ELSE "unmanage")
  /\ UNCHANGED <<lock, daemon, editor, watchers, session, owner, owed, troubles>>

\* ... Manage claims the watcher then ...
ManageClaims(d) ==
  /\ client[d] = "manage" /\ client' = Set(client, d, "none")
  /\ Start(d)
  /\ UNCHANGED <<lock, daemon, editor, managed, session, caught, release>>

\* ... and Unmanage returns after Release.
UnmanageReturns(d) ==
  /\ client[d] = "unmanage" /\ release[d] = "done"
  /\ client' = Set(client, d, "none") /\ release' = Set(release, d, "none")
  /\ UNCHANGED <<lock, daemon, editor, managed, watchers, session, polling, claimed, caught,
                 owed, troubles>>

-----------------------------------------------------------------------------
(* cmd/hyprmoncfg.                                                         *)

\* runSetManaged without a daemon.  It takes no lock.
SwitchedOffline ==
  /\ \A d \in Daemons : daemon[d] \in {"off", "waiting"}
  /\ managed' = ~managed
  /\ UNCHANGED <<lock, daemon, editor, watchers, session, owner, client, owed, troubles>>

Opens(e) ==
  /\ editor[e] = "off" /\ editor' = Set(editor, e, "asking")
  /\ UNCHANGED <<lock, daemon, managed, watchers, session, owner, client, owed, troubles>>

\* Plausible bug: without an answer the editor goes ahead.
AsksWithoutLock(e) ==
  /\ editor[e] = "asking"
  /\ \/ /\ \E d \in Daemons : daemon[d] = "serving"
        /\ editor' = Set(editor, e, "remote") /\ UNCHANGED lock
     \/ /\ editor' = Set(editor, e, "direct") /\ lock' = e
  /\ UNCHANGED <<daemon, managed, watchers, session, owner, client, owed, troubles>>

\* One turn of openWriterSession: the daemon answers, or there is none and the lock is
\* free, or the time is up.
Asks(e) ==
  /\ editor[e] = "asking"
  /\ \/ /\ \E d \in Daemons : daemon[d] = "serving"
        /\ editor' = Set(editor, e, "remote") /\ UNCHANGED lock
     \/ /\ lock = Nobody
        /\ editor' = Set(editor, e, "direct") /\ lock' = e
     \/ /\ lock # Nobody
        /\ editor' = Set(editor, e, "refused") /\ UNCHANGED lock
  /\ UNCHANGED <<daemon, managed, watchers, session, owner, client, owed, troubles>>

Closes(e) ==
  /\ editor[e] \in {"remote", "direct", "refused"} /\ editor' = Set(editor, e, "off")
  /\ lock' = IF lock = e THEN Nobody ELSE lock
  /\ UNCHANGED <<daemon, managed, watchers, session, owner, client, owed, troubles>>

-----------------------------------------------------------------------------
(* Outside.                                                                *)

\* Omarchy starts its watcher, at login after the daemon or once more.
WatcherStarts ==
  /\ session /\ watchers = 0 /\ Trouble
  /\ watchers' = 1 /\ owed' = FALSE
  /\ UNCHANGED <<lock, daemon, editor, managed, session, owner, client>>

SessionEnds ==
  /\ session /\ session' = FALSE
  /\ UNCHANGED <<lock, daemon, editor, managed, watchers, owner, client, owed, troubles>>

-----------------------------------------------------------------------------
Release(d) ==
  \/ ReleaseCancels(d) \/ ReleaseWaits(d) \/ ReleaseSuppresses(d)
  \/ ReleaseLaunches(d) \/ ReleaseConfirms(d) \/ Exits(d) \/ UnmanageReturns(d)

OwnershipNext ==
  \/ \E d \in Daemons :
       \/ Release(d) \/ ReleaseFails(d) \/ PollStops(d) \/ PollRecords(d)
       \/ Launches(d) \/ ClaimsOwnership(d) \/ Serves(d) \/ Stops(d)
       \/ Crashes(d) \/ SwitchCalled(d) \/ ManageClaims(d)
  \/ \E e \in Editors : Opens(e) \/ Asks(e) \/ Closes(e)
  \/ SwitchedOffline \/ WatcherStarts \/ SessionEnds

OwnershipSpec == OwnershipInit /\ [][OwnershipNext]_ownershipVars

\* The processes that may write: a daemon from its start to the end of Shutdown, and an
\* editor without a daemon.
Writers ==
  {d \in Daemons : daemon[d] \in {"starting", "serving", "stopping"}}
    \cup {e \in Editors : editor[e] = "direct"}

\* However daemons and editors come, go and crash, one of them writes at a time, the
\* restore of an unconfirmed layout while a daemon stops included (main.go:131, 139).
OneWriter == Cardinality(Writers) <= 1

\* A watcher that was stopped runs again once nobody manages the displays any more,
\* unless the session, the daemon's memory or a step of Release is lost (owner.go:115).
WatcherIsBack ==
  owed /\ session => \E d \in Daemons : daemon[d] = "serving" /\ polling[d] /\ managed

=============================================================================
