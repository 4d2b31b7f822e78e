------------------------------ MODULE LidWatch ------------------------------
(***************************************************************************)
(* internal/lid/lid.go: where the position of the lid comes from.  UPower  *)
(* signals changes and answers polls; when it cannot be asked a poll reads *)
(* the ACPI file, and then the input device.  Watch merges signals, which  *)
(* may be older than a poll, with polls, and sends each change once.       *)
(*                                                                         *)
(* UPower is external: it learns of a change some time after the switch.   *)
(***************************************************************************)
EXTENDS Integers, Sequences

CONSTANTS
  StateCap,  \* capacity of the channel of states
  MaxFlips   \* bound on lid movements and on sources that come and go

Positions == {"open", "closed"}
Sources == {"upower", "acpi", "input"}

VARIABLES
  lidAt,              \* the switch
  upowerAt,           \* what UPower says
  readable,           \* the sources that answer
  lidSignals, listening,  \* watchUPowerSignals: queued, and still connected
  lastSent, states,   \* Watch: last, and the channel
  watching,           \* Watch runs
  lidTold,               \* the last state taken from the channel
  flips

lidWorld == <<lidAt, upowerAt, readable>>
lidVars == <<lidWorld, lidSignals, listening, lastSent, states, watching, lidTold, flips>>

\* ReadState: UPower, else the ACPI file, else the input device.
ReadState ==
  CASE "upower" \in readable -> upowerAt
    [] readable \cap {"acpi", "input"} # {} -> lidAt
    [] OTHER -> "unknown"

\* Run starts the watch only if the first reading succeeds.
Init ==
  /\ lidAt \in Positions /\ upowerAt = lidAt
  /\ readable \in SUBSET Sources
  /\ lidSignals = <<>> /\ listening = ("upower" \in readable)
  /\ watching = (ReadState # "unknown") /\ lidTold = ReadState
  /\ lastSent = "unknown" /\ states = <<>> /\ flips = 0

Flips == flips < MaxFlips /\ flips' = flips + 1

LidFlips ==
  /\ Flips /\ lidAt' \in Positions \ {lidAt}
  /\ UNCHANGED <<upowerAt, readable, lidSignals, listening, lastSent, states, watching, lidTold>>

\* UPower learns of a change, and signals it to those who listen.
UPowerLearns ==
  /\ upowerAt # lidAt /\ upowerAt' = lidAt
  /\ lidSignals' = IF listening THEN Append(lidSignals, lidAt) ELSE lidSignals
  /\ UNCHANGED <<lidAt, readable, listening, lastSent, states, watching, lidTold, flips>>

\* A source goes or comes back; a connection to the bus that is lost is not made
\* again.
SourceChanges ==
  /\ Flips /\ \E s \in Sources :
       /\ readable' = IF s \in readable THEN readable \ {s} ELSE readable \cup {s}
       /\ listening' \in {listening, listening /\ s # "upower"}
  /\ UNCHANGED <<lidAt, upowerAt, lidSignals, lastSent, states, watching, lidTold>>

\* emit: a change is sent once, however long that takes.
Emits(state) ==
  IF state \in {"unknown", lastSent} THEN UNCHANGED <<lastSent, states>>
  ELSE lastSent' = state /\ Len(states) < StateCap /\ states' = Append(states, state)

TakesSignal ==
  /\ watching /\ lidSignals # <<>>
  /\ Emits(Head(lidSignals)) /\ lidSignals' = Tail(lidSignals)
  /\ UNCHANGED <<lidWorld, listening, watching, lidTold, flips>>

\* The first reading, and each tick; an error is reported and the poll goes on.
Polls ==
  /\ watching /\ Emits(ReadState)
  /\ UNCHANGED <<lidWorld, lidSignals, listening, watching, lidTold, flips>>

RunTakesState ==
  /\ states # <<>> /\ lidTold' = Head(states) /\ states' = Tail(states)
  /\ UNCHANGED <<lidWorld, lidSignals, listening, lastSent, watching, flips>>

Next ==
  \/ LidFlips \/ UPowerLearns \/ SourceChanges
  \/ TakesSignal \/ Polls \/ RunTakesState

\* The ticker ticks, the signals are taken, and the loop takes states.
FairSpec ==
  /\ Init /\ [][Next]_lidVars
  /\ WF_lidVars(UPowerLearns) /\ WF_lidVars(TakesSignal) /\ WF_lidVars(Polls)
  /\ WF_lidVars(RunTakesState)

-----------------------------------------------------------------------------
\* While anything can be read, the daemon is told in the end how the lid stands:
\* no old signal, full channel or lost source leaves it with another position.
Told == ~watching \/ readable = {} \/ lidTold = lidAt

=============================================================================
