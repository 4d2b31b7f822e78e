----------------------------- MODULE IpcChannel -----------------------------
(***************************************************************************)
(* internal/ipc: the connections between the daemon and its clients.       *)
(*                                                                         *)
(* A caller (Client.call) has one request under way and reads until its    *)
(* reply is there.  The server serves a connection one request after       *)
(* another, and writes events to subscribed connections in between: a      *)
(* change leaves one token, and the publisher that takes it reads the      *)
(* status and sends it.  Panels are the subscribers outside this           *)
(* repository: they read whatever arrives.  What a handler does is         *)
(* PreviewService's; here it may change the status.                        *)
(*                                                                         *)
(* A json.Decoder keeps the first error it has read (external): spoiled.   *)
(***************************************************************************)
EXTENDS Integers, Sequences

CONSTANTS
  Callers, Panels,
  MaxRequests,    \* bound on the requests of one connection
  MaxStatus,   \* bound on the status, which stands for all that Status reports
  WireCap,     \* what the socket of a client takes before a write blocks
  MaxDials     \* bound on the connections

Clients == Callers \cup Panels

VARIABLES
  link,       \* "none", "open", "left" (by the client) or "closed" (by the server)
  pending,    \* the request a client waits for, 0 for none
  lastID,     \* Client.nextID
  spoiled,    \* the error the client's decoder remembers, or "no"
  outcome,    \* how the client's last call ended
  informed,   \* the newest status a panel has been told
  requests, wire,  \* what is under way to the server and to the client
  serving,    \* serveClient of a connection
  subscribed,
  status,
  token,      \* Server.notifyCh
  publisher,  \* publishLoop
  missed,     \* history: the last read of the status for a subscriber failed
  service,    \* "up", "stopping" or "down"
  dials       \* connections so far

ends == <<link, pending, lastID, spoiled, outcome, informed>>
sockets == <<requests, wire>>
news == <<status, token, publisher, missed>>
connections == <<serving, subscribed>>
channelVars == <<ends, sockets, news, connections, service, dials>>

Off == [stage |-> "none"]
Reading == [stage |-> "reading"]
Ending == [stage |-> "ending"]
Waiting == [stage |-> "waiting"]

Init ==
  /\ link = [c \in Clients |-> "none"]
  /\ pending = [c \in Clients |-> 0] /\ lastID = [c \in Clients |-> 0]
  /\ spoiled = [c \in Clients |-> "no"] /\ outcome = [c \in Clients |-> "none"]
  /\ informed = [c \in Panels |-> 0]
  /\ requests = [c \in Clients |-> <<>>] /\ wire = [c \in Clients |-> <<>>]
  /\ serving = [c \in Clients |-> Off] /\ subscribed = [c \in Clients |-> FALSE]
  /\ status = 0 /\ token = FALSE
  /\ publisher = Waiting /\ missed = FALSE
  /\ service = "up" /\ dials = 0

-----------------------------------------------------------------------------
(* The client.                                                             *)

\* Dial, Accept and the start of serveClient.
Dials(c) ==
  /\ service = "up" /\ link[c] = "none" /\ serving[c] = Off
  /\ dials < MaxDials /\ dials' = dials + 1
  /\ link' = [link EXCEPT ![c] = "open"]
  /\ serving' = [serving EXCEPT ![c] = Reading]
  /\ UNCHANGED <<pending, lastID, spoiled, outcome, informed, sockets, subscribed, news, service>>

\* The client's end of the connection goes: Close, or the end of its process.
HangsUp(c) ==
  /\ \/ link[c] = "open"
     \/ link[c] = "closed" /\ serving[c] = Off
  /\ link' = [link EXCEPT ![c] = IF @ = "open" THEN "left" ELSE "none"]
  /\ pending' = [pending EXCEPT ![c] = 0] /\ lastID' = [lastID EXCEPT ![c] = 0]
  /\ spoiled' = [spoiled EXCEPT ![c] = "no"] /\ outcome' = [outcome EXCEPT ![c] = "none"]
  /\ wire' = [wire EXCEPT ![c] = <<>>]
  /\ informed' = [p \in Panels |-> IF p = c THEN 0 ELSE informed[p]]
  /\ UNCHANGED <<requests, news, connections, service, dials>>

\* call, up to the write of the request; writing to a closed connection fails.
Calls(c, method) ==
  /\ link[c] \in {"open", "closed"} /\ pending[c] = 0 /\ lastID[c] < MaxRequests
  /\ lastID' = [lastID EXCEPT ![c] = @ + 1]
  /\ IF link[c] = "open"
       THEN /\ pending' = [pending EXCEPT ![c] = lastID'[c]]
            /\ requests' = [requests EXCEPT ![c] =
                 Append(@, [id |-> lastID'[c], method |-> method])]
            /\ outcome' = [outcome EXCEPT ![c] = "none"]
       ELSE /\ outcome' = [outcome EXCEPT ![c] = "failed"]
            /\ UNCHANGED <<pending, requests>>
  /\ UNCHANGED <<link, spoiled, informed, wire, news, connections, service, dials>>

Returns(c, result) ==
  /\ pending' = [pending EXCEPT ![c] = 0]
  /\ outcome' = [outcome EXCEPT ![c] = result]

\* One turn of call's loop: events, and replies to a call that gave up, are dropped.
Receives(c) ==
  /\ pending[c] # 0 /\ spoiled[c] = "no" /\ wire[c] # <<>>
  /\ wire' = [wire EXCEPT ![c] = Tail(@)]
  /\ LET m == Head(wire[c]) IN
       IF (m.kind = "event") \/ (m.id # pending[c])
         THEN UNCHANGED <<pending, outcome>>
         ELSE Returns(c, "answered")
  /\ UNCHANGED <<link, lastID, spoiled, informed, requests, news, connections, service, dials>>

\* Decode fails: the deadline has passed, the server has closed the connection, or an
\* earlier Decode has failed, whatever there is to read now.
ReadFails(c) ==
  /\ pending[c] # 0
  /\ \E result \in {"timeout", "failed"} :
       /\ spoiled[c] \in {"no", result}
       /\ spoiled[c] = "no" /\ result = "failed" => link[c] = "closed" /\ wire[c] = <<>>
       /\ spoiled' = [spoiled EXCEPT ![c] = result]
       /\ Returns(c, result)
  /\ UNCHANGED <<link, lastID, informed, sockets, news, connections, service, dials>>

\* A panel reads replies and events as they come.
PanelReads(c) ==
  /\ link[c] # "none" /\ wire[c] # <<>>
  /\ wire' = [wire EXCEPT ![c] = Tail(@)]
  /\ LET m == Head(wire[c]) IN
       /\ informed' = [informed EXCEPT ![c] = IF m.error \/ m.status < @ THEN @ ELSE m.status]
       /\ pending' = [pending EXCEPT ![c] = IF m.id = @ THEN 0 ELSE @]
  /\ UNCHANGED <<link, lastID, spoiled, outcome, requests, news, connections, service, dials>>

-----------------------------------------------------------------------------
(* The server: serveClient and dispatch.                                   *)

\* Plausible bug: without the one place in the channel, a change is lost while the
\* publisher is busy.
NotifyUnbuffered == token' = (token \/ publisher = Waiting)

\* Notify: the channel has room for one token.
Notify == token' = TRUE

\* A request is read and handled.  One that changes the status calls Notify afterwards.
Handles(c) ==
  /\ serving[c] = Reading /\ link[c] \in {"open", "left"} /\ requests[c] # <<>>
  /\ requests' = [requests EXCEPT ![c] = Tail(@)]
  /\ LET r == Head(requests[c]) IN
     \E error \in BOOLEAN :
       /\ IF r.method = "subscribe"
            THEN /\ subscribed' = [subscribed EXCEPT ![c] = TRUE]
                 /\ missed' = (missed \/ error)
                 /\ UNCHANGED token
            ELSE /\ Notify
                 /\ UNCHANGED <<subscribed, missed>>
       /\ serving' = [serving EXCEPT ![c] =
            [stage |-> "replying", id |-> r.id, status |-> status,
             error |-> error /\ r.method = "subscribe"]]
  /\ UNCHANGED <<ends, wire, status, publisher, service, dials>>

\* serverClient.write: it blocks while the socket is full.
Writes(c, m) == Len(wire[c]) < WireCap /\ wire' = [wire EXCEPT ![c] = Append(@, m)]

Replies(c) ==
  /\ serving[c].stage = "replying"
  /\ IF link[c] = "open"
       THEN Writes(c, [kind |-> "response", id |-> serving[c].id,
                       status |-> serving[c].status, error |-> serving[c].error])
       ELSE UNCHANGED wire
  /\ serving' = [serving EXCEPT ![c] =
       IF link[c] = "open" /\ service = "up" THEN Reading ELSE Ending]
  /\ UNCHANGED <<ends, requests, subscribed, news, service, dials>>

\* serveClient returns: Disconnect, and the connection is closed.
Ends(c) ==
  /\ \/ serving[c] = Ending
     \/ serving[c] = Reading /\ link[c] = "left" /\ requests[c] = <<>>
     \/ serving[c] = Reading /\ link[c] = "closed"
  /\ serving' = [serving EXCEPT ![c] = Off]
  /\ subscribed' = [subscribed EXCEPT ![c] = FALSE]
  /\ requests' = [requests EXCEPT ![c] = <<>>]
  /\ link' = [link EXCEPT ![c] = IF @ = "left" THEN "none" ELSE "closed"]
  /\ UNCHANGED <<pending, lastID, spoiled, outcome, informed, wire, news, service, dials>>

-----------------------------------------------------------------------------
(* Events: signalChange, Notify and publishLoop.                           *)

\* A pass, a timer or a device changes what Status reports, and signalChange follows.
Changes ==
  /\ service = "up" /\ status < MaxStatus
  /\ status' = status + 1
  /\ Notify
  /\ UNCHANGED <<ends, sockets, connections, publisher, missed, service, dials>>

\* Handler.Status, and broadcast collects the subscribed connections.  When Status
\* fails there is no event.
PublisherReads ==
  /\ publisher = Waiting /\ token /\ token' = FALSE /\ service = "up"
  /\ \/ /\ publisher' = [stage |-> "sending", status |-> status,
                          to |-> {c \in Clients : serving[c] # Off /\ subscribed[c]}]
        /\ missed' = FALSE
     \/ publisher' = Waiting /\ missed' = TRUE
  /\ UNCHANGED <<ends, sockets, connections, status, service, dials>>

\* broadcast writes to one after another, closing those it cannot write to.
PublisherSends ==
  /\ publisher.stage = "sending"
  /\ IF publisher.to = {}
       THEN publisher' = Waiting /\ UNCHANGED wire
       ELSE \E c \in publisher.to :
              /\ publisher' = [publisher EXCEPT !.to = @ \ {c}]
              /\ IF link[c] = "open"
                   THEN Writes(c, [kind |-> "event", id |-> 0,
                                   status |-> publisher.status, error |-> FALSE])
                   ELSE UNCHANGED wire
  /\ UNCHANGED <<ends, requests, connections, status, token, missed, service, dials>>

-----------------------------------------------------------------------------
(* The daemon stops: Run closes the listener and every connection, and     *)
(* waits for the goroutines that serve them.                               *)

CloseClients ==
  link' = [c \in Clients |-> IF link[c] = "open" THEN "closed" ELSE link[c]]

Stops ==
  /\ service = "up" /\ service' = "stopping"
  /\ CloseClients
  /\ UNCHANGED <<pending, lastID, spoiled, outcome, informed, sockets, news, connections, dials>>

Exits ==
  /\ service = "stopping" /\ \A c \in Clients : serving[c] = Off
  /\ service' = "down"
  /\ publisher' = Waiting /\ token' = FALSE
  /\ UNCHANGED <<ends, sockets, connections, status, missed, dials>>

Restarts ==
  /\ service = "down" /\ service' = "up"
  /\ UNCHANGED <<ends, sockets, connections, news, dials>>

-----------------------------------------------------------------------------
Caller(c) == Calls(c, "act") \/ Receives(c) \/ ReadFails(c)

Panel(c) == (lastID[c] = 0 /\ Calls(c, "subscribe")) \/ PanelReads(c)

Serves(c) == Handles(c) \/ Replies(c) \/ Ends(c)

Publishes == PublisherReads \/ PublisherSends

\* Whatever happens between a change, its event and a subscriber's reply, every
\* subscriber comes to be told the status as it is (server.go:99), unless a read of
\* the status failed.
AllTold ==
  missed \/ \A c \in Panels : link[c] = "open" /\ subscribed[c] => informed[c] = status

\* The daemon never waits for ever for a client when it stops (server.go:71).
Stopped == service # "stopping"

\* A call that is given its own reply in time does not fail for the sake of an
\* earlier one that ran out of time (client.go:256).
LateReplyIsHarmless ==
  [][\A c \in Callers :
       spoiled[c] = "timeout" /\ pending[c] # 0 /\ pending'[c] = 0
         => outcome'[c] # "timeout"]_channelVars

=============================================================================
