---------------------------- MODULE SessionQueue ----------------------------
(***************************************************************************)
(* The per-session inbound queue (zulip/session_queue.py, its controller   *)
(* zulip/inbound_queue.py and the adapter's on_processing_* hooks).        *)
(*                                                                         *)
(* A turn is one message that has cleared every inbound gate.  Each step   *)
(* is what the asyncio event loop runs between two awaits.  The gateway    *)
(* host is outside the repository: HostOutcomes, StartHook and             *)
(* CompleteHook say what the plugin relies on it for.                      *)
(***************************************************************************)
EXTENDS Naturals, Sequences

CONSTANTS
  Session,        \* session keys
  Msg,            \* turns, by message id
  SessionOf,      \* the session key of each turn
  Slash,          \* the turns that begin with "/"
  Native,         \* other turns the gateway answers itself, without a run
  Refused,        \* the turns whose dispatch raises
  Cap,            \* ZULIP_QUEUE_CAP
  SweeperRuns,    \* is the periodic scanner started (engagement mode on)?
  NoMsg

ASSUME QueueAssumption ==
  /\ SessionOf \in [Msg -> Session]
  /\ Slash \subseteq Msg /\ Native \subseteq Msg /\ Refused \subseteq Msg
  /\ Cap \in Nat
  /\ SweeperRuns \in BOOLEAN
  /\ NoMsg \notin Msg

VARIABLES
  active,     \* _active: "idle", or how old the in-flight mark is
  pending,    \* _pending: the FIFO behind each session
  turn,       \* how far each turn has got
  trail,      \* what shows that a turn had to wait: hourglass or overflow audit
  sweepKeys,  \* keys the scanner has released and not drained yet
  sweepOn     \* the turn whose dispatch the scanner is awaiting

vars == <<active, pending, turn, trail, sweepKeys, sweepOn>>

Mark == {"idle", "fresh", "stale"}

Phase == {"arriving", "overflow", "waiting", "leaving", "accepted", "running",
          "ending", "done", "steered", "answered", "failing", "failed"}

\* "overflow" is the session_queue_overflow audit line; "adding" is a turn that
\* was queued and whose add_reaction is still in flight.
Trail == {"none", "overflow", "adding", "shown", "cleared"}

Init ==
  /\ active = [s \in Session |-> "idle"]
  /\ pending = [s \in Session |-> <<>>]
  /\ turn = [m \in Msg |-> "arriving"]
  /\ trail = [m \in Msg |-> "none"]
  /\ sweepKeys = {}
  /\ sweepOn = NoMsg

-----------------------------------------------------------------------------
(* The host, as the plugin uses it. *)

TurnsOf(s) == {m \in Msg : SessionOf[m] = s}

\* A run of the session that handle_message would steer a new turn into.
HostBusy(s) == \E m \in TurnsOf(s) : turn[m] \in {"accepted", "running"}

\* What handle_message(m) does: raise, answer the turn natively (always, for a
\* slash command), steer it into the session's run, or open a run for it.
HostOutcome(m) ==
  CASE m \in Refused -> "failing"
    [] m \in (Slash \cup Native) \ Refused -> "answered"
    [] m \notin Slash \cup Native \cup Refused ->
         IF HostBusy(SessionOf[m]) THEN "steered" ELSE "accepted"

HandOver(m) == turn' = [turn EXCEPT ![m] = HostOutcome(m)]

-----------------------------------------------------------------------------
(* SessionQueue *)

WasQueued(m) == trail[m] \in {"adding", "shown", "cleared"}

\* Slip: release_stale() without the age test.
StaleKeysAnyAge == {s \in Session : active[s] # "idle" /\ pending[s] # <<>>}

\* release_stale() frees only marks that are too old and have turns behind them.
StaleKeys == {s \in Session : active[s] = "stale" /\ pending[s] # <<>>}

Freed == [s \in Session |-> IF s \in StaleKeys THEN "idle" ELSE active[s]]

\* Slip: the next turn is popped after the await, not before it.
DrainPeeking(s, marks, phases) ==
  IF pending[s] = <<>>
  THEN active' = [marks EXCEPT ![s] = "idle"] /\ turn' = phases /\ UNCHANGED pending
  ELSE /\ active' = [marks EXCEPT ![s] = "fresh"]
       /\ turn' = [phases EXCEPT ![Head(pending[s])] = "leaving"]
       /\ UNCHANGED pending

\* Slip: the session is not marked again before the drained turn is dispatched.
DrainUnmarked(s, marks, phases) ==
  /\ active' = [marks EXCEPT ![s] = "idle"]
  /\ IF pending[s] = <<>>
     THEN turn' = phases /\ UNCHANGED pending
     ELSE /\ turn' = [phases EXCEPT ![Head(pending[s])] = "leaving"]
          /\ pending' = [pending EXCEPT ![s] = Tail(@)]

\* One pass of _drain_key's loop, given the marks and phases it starts from.
Drain(s, marks, phases) ==
  IF pending[s] = <<>>
  THEN /\ active' = [marks EXCEPT ![s] = "idle"]
       /\ turn' = phases
       /\ UNCHANGED pending
  ELSE /\ active' = [marks EXCEPT ![s] = "fresh"]
       /\ turn' = [phases EXCEPT ![Head(pending[s])] = "leaving"]
       /\ pending' = [pending EXCEPT ![s] = Tail(@)]

\* The turn the scanner awaits after a drain of s.
Drained(s) == IF pending[s] = <<>> THEN NoMsg ELSE Head(pending[s])

-----------------------------------------------------------------------------
(* Arrival: _queue_turn, then _dispatch_turn when the turn was not queued. *)

\* A slash command is never serialized and skips the stale check as well.
QueueSlash(m) ==
  /\ turn[m] = "arriving"
  /\ m \in Slash
  /\ HandOver(m)
  /\ UNCHANGED <<active, pending, trail, sweepKeys, sweepOn>>

\* The session has no run in flight: the turn is handed over at once.
DispatchNow(m) ==
  /\ turn[m] = "arriving"
  /\ m \notin Slash
  /\ Freed[SessionOf[m]] = "idle"
  /\ active' = Freed
  /\ HandOver(m)
  /\ UNCHANGED <<pending, trail, sweepKeys, sweepOn>>

Enqueue(m) ==
  /\ turn[m] = "arriving"
  /\ m \notin Slash
  /\ Freed[SessionOf[m]] # "idle"
  /\ Len(pending[SessionOf[m]]) < Cap
  /\ active' = Freed
  /\ pending' = [pending EXCEPT ![SessionOf[m]] = Append(@, m)]
  /\ turn' = [turn EXCEPT ![m] = "waiting"]
  /\ trail' = [trail EXCEPT ![m] = "adding"]
  /\ UNCHANGED <<sweepKeys, sweepOn>>

\* The queue is full: the turn awaits the overflow audit, then is dispatched.
Overflow(m) ==
  /\ turn[m] = "arriving"
  /\ m \notin Slash
  /\ Freed[SessionOf[m]] # "idle"
  /\ Len(pending[SessionOf[m]]) >= Cap
  /\ active' = Freed
  /\ turn' = [turn EXCEPT ![m] = "overflow"]
  /\ trail' = [trail EXCEPT ![m] = "overflow"]
  /\ UNCHANGED <<pending, sweepKeys, sweepOn>>

DispatchOverflow(m) ==
  /\ turn[m] = "overflow"
  /\ HandOver(m)
  /\ UNCHANGED <<active, pending, trail, sweepKeys, sweepOn>>

\* queued(): the add_reaction call reaches the server.
ShowHourglass(m) ==
  /\ trail[m] = "adding"
  /\ trail' = [trail EXCEPT ![m] = "shown"]
  /\ UNCHANGED <<active, pending, turn, sweepKeys, sweepOn>>

-----------------------------------------------------------------------------
(* The drain: audit, unqueued(), hand over; on an exception, release and go on. *)

\* Slip: the scanner never resumes after the turn it dispatched.
DispatchForgettingSweep(m) ==
  /\ turn[m] = "leaving"
  /\ HandOver(m)
  /\ trail' = [trail EXCEPT ![m] = IF @ = "shown" THEN "cleared" ELSE @]
  /\ UNCHANGED <<active, pending, sweepKeys, sweepOn>>

\* unqueued() reaches the server (a no-op there when no reaction is on the
\* message yet) and the turn is handed to the host.
DispatchDrained(m) ==
  /\ turn[m] = "leaving"
  /\ HandOver(m)
  /\ sweepOn' = IF sweepOn = m /\ m \notin Refused THEN NoMsg ELSE sweepOn
  /\ trail' = [trail EXCEPT ![m] = IF @ = "shown" THEN "cleared" ELSE @]
  /\ UNCHANGED <<active, pending, sweepKeys>>

\* The exception leaves _dispatch_turn after error(), _stop_typing, _mark_read.
FailDirect(m) ==
  /\ turn[m] = "failing"
  /\ ~WasQueued(m)
  /\ turn' = [turn EXCEPT ![m] = "failed"]
  /\ UNCHANGED <<active, pending, trail, sweepKeys, sweepOn>>

\* Slip: after a failed dispatch the drain releases the session and stops.
FailDrainedStops(m) ==
  /\ turn[m] = "failing"
  /\ WasQueued(m)
  /\ active' = [active EXCEPT ![SessionOf[m]] = "idle"]
  /\ turn' = [turn EXCEPT ![m] = "failed"]
  /\ sweepOn' = IF sweepOn = m THEN NoMsg ELSE sweepOn
  /\ UNCHANGED <<pending, trail, sweepKeys>>

FailDrained(m) ==
  /\ turn[m] = "failing"
  /\ WasQueued(m)
  /\ Drain(SessionOf[m], [active EXCEPT ![SessionOf[m]] = "idle"],
           [turn EXCEPT ![m] = "failed"])
  /\ sweepOn' = IF sweepOn = m THEN Drained(SessionOf[m]) ELSE sweepOn
  /\ UNCHANGED <<trail, sweepKeys>>

-----------------------------------------------------------------------------
(* The host's lifecycle hooks. *)

\* on_processing_start marks the session only after the dispatch audit.
StartHook(m) ==
  /\ turn[m] = "accepted"
  /\ turn' = [turn EXCEPT ![m] = "running"]
  /\ active' = [active EXCEPT ![SessionOf[m]] = "fresh"]
  /\ UNCHANGED <<pending, trail, sweepKeys, sweepOn>>

\* on_processing_complete begins: audit, run-end report, trace.
CompleteHook(m) ==
  /\ turn[m] = "running"
  /\ turn' = [turn EXCEPT ![m] = "ending"]
  /\ UNCHANGED <<active, pending, trail, sweepKeys, sweepOn>>

\* ... and ends by draining the session.
DrainSessionQueue(m) ==
  /\ turn[m] = "ending"
  /\ Drain(SessionOf[m], active, [turn EXCEPT ![m] = "done"])
  /\ UNCHANGED <<trail, sweepKeys, sweepOn>>

-----------------------------------------------------------------------------
(* The safety net. *)

\* A turn whose next steps report completion or drain the session themselves.
InProgress(m) ==
  \/ turn[m] \in {"leaving", "accepted", "running", "ending"}
  \/ turn[m] = "failing" /\ WasQueued(m)

\* max_active_seconds passes.  The limit is far above any real run, so only a
\* mark nothing will report on gets this old.
AgeOut(s) ==
  /\ active[s] = "fresh"
  /\ \A m \in TurnsOf(s) : ~InProgress(m)
  /\ active' = [active EXCEPT ![s] = "stale"]
  /\ UNCHANGED <<pending, turn, trail, sweepKeys, sweepOn>>

\* sweep_stale_sessions releases every stale key and drains the first at once.
SweepStart(s) ==
  /\ SweeperRuns
  /\ sweepKeys = {} /\ sweepOn = NoMsg
  /\ s \in StaleKeys
  /\ Drain(s, Freed, turn)
  /\ sweepKeys' = StaleKeys \ {s}
  /\ sweepOn' = Drained(s)
  /\ UNCHANGED trail

SweepNext(s) ==
  /\ sweepOn = NoMsg
  /\ s \in sweepKeys
  /\ Drain(s, active, turn)
  /\ sweepKeys' = sweepKeys \ {s}
  /\ sweepOn' = Drained(s)
  /\ UNCHANGED trail

-----------------------------------------------------------------------------

QueueTurn(m) ==
  QueueSlash(m) \/ DispatchNow(m) \/ Enqueue(m) \/ Overflow(m)

\* Steps that are already under way and that the event loop will finish.
Progress(m) ==
  \/ DispatchOverflow(m) \/ ShowHourglass(m) \/ DispatchDrained(m)
  \/ FailDirect(m) \/ FailDrained(m)
  \/ StartHook(m) \/ CompleteHook(m) \/ DrainSessionQueue(m)

Sweep == \E s \in Session : SweepStart(s) \/ SweepNext(s)

Next ==
  \/ \E m \in Msg : QueueTurn(m) \/ Progress(m)
  \/ \E s \in Session : AgeOut(s)
  \/ Sweep

Spec == Init /\ [][Next]_vars

\* The event loop resumes every suspended task, the host ends every run it
\* starts, time passes and the scanner is periodic.  No message has to arrive.
Fairness ==
  /\ \A m \in Msg : WF_vars(Progress(m))
  /\ \A s \in Session : WF_vars(AgeOut(s))
  /\ WF_vars(Sweep)

FairSpec == Spec /\ Fairness

-----------------------------------------------------------------------------
(* Properties *)

TypeOK ==
  /\ active \in [Session -> Mark]
  /\ pending \in [Session -> Seq(Msg)]
  /\ turn \in [Msg -> Phase]
  /\ trail \in [Msg -> Trail]
  /\ sweepKeys \subseteq Session
  /\ sweepOn \in Msg \cup {NoMsg}

Elems(q) == {q[i] : i \in DOMAIN q}

Distinct(q) == \A i, j \in DOMAIN q : q[i] = q[j] => i = j

\* No turn is lost, duplicated or filed under another session by _pending: the
\* queue of a session holds each of its waiting turns, once, and nothing else.
QueueHoldsTheWaiting ==
  \A s \in Session :
    /\ Elems(pending[s]) = {m \in TurnsOf(s) : turn[m] = "waiting"}
    /\ Distinct(pending[s])

\* So far every turn drained in s went through the host's lifecycle hooks.
Reported(s) ==
  \A m \in TurnsOf(s) : ~(WasQueued(m) /\ turn[m] = "answered")

\* While completion is reported, a session with waiting turns keeps its in-flight
\* mark: no await of the drain, the overflow or the failure path leaves the
\* queue behind an unmarked session, where a newcomer would jump it.
NoOrphanedTurns ==
  \A s \in Session : Reported(s) /\ pending[s] # <<>> => active[s] # "idle"

\* While completion is reported, an in-flight mark is backed by a turn that is
\* on its way through dispatch, run or drain and so will release it.
MarkHasARunner ==
  \A s \in Session :
    Reported(s) /\ active[s] # "idle" => \E m \in TurnsOf(s) : InProgress(m)

Overtakes(m) ==
  /\ turn[m] = "arriving"
  /\ turn'[m] \notin {"arriving", "waiting", "overflow"}
  /\ Reported(SessionOf[m])
  /\ pending[SessionOf[m]] # <<>>

Overtaking == \E m \in Msg \ Slash : Overtakes(m)

\* While completion is reported, a turn that finds room is never handed over
\* past turns that wait in its session.
NoOvertaking == [][~Overtaking]_vars

\* A turn that waited opens a run of its own: the drain steers it into another
\* person's run only beside an overflow or a turn without lifecycle hooks.
QueuedTurnsAreNotSteered ==
  \A m \in Msg :
    WasQueued(m) /\ turn[m] = "steered" =>
      \/ ~Reported(SessionOf[m])
      \/ \E n \in TurnsOf(SessionOf[m]) : trail[n] = "overflow"

\* Every turn that waits is eventually handed to the host.
EveryQueuedTurnRuns ==
  \A m \in Msg : turn[m] = "waiting" ~> turn[m] # "waiting"

\* A session marked in flight beyond the limit with turns waiting is freed.
StaleMarkIsFreed ==
  \A s \in Session : s \in StaleKeys ~> s \notin StaleKeys

-----------------------------------------------------------------------------
(* The queue implements a waiting line per session. *)

\* The turn that has left _pending and is not with the host yet is still first.
Line(s) ==
  LET leaving == {m \in TurnsOf(s) : turn[m] = "leaving"}
  IN  IF leaving = {} THEN pending[s]
      ELSE <<CHOOSE m \in leaving : TRUE>> \o pending[s]

Standing(m) ==
  CASE turn[m] = "arriving" -> "new"
    [] turn[m] \in {"waiting", "leaving"} -> "waiting"
    [] OTHER -> "served"

WaitingLine == INSTANCE TurnOrder WITH
  line <- [s \in Session |-> Line(s)],
  standing <- [m \in Msg |-> Standing(m)]

\* With room in the queue and every completion reported, the queue is a fair
\* waiting line: turns of a session reach the host one by one in arrival order.
ImplementsTurnOrder == WaitingLine!Spec

=============================================================================
