---------------------------- MODULE ActivityTrace ----------------------------
(***************************************************************************)
(* The status boards of agent runs (zulip/activity_trace.py) and the       *)
(* records by which a later start closes what a dead process left open     *)
(* (zulip/tracing.py).  A run has one board at a time, edited by a flush   *)
(* task, moved to a new message by a rotation task, and closed when the    *)
(* run ends.  Every API call runs in a worker thread: cancelling or timing *)
(* out its task does not stop it, and it may land later.                   *)
(*                                                                         *)
(* The pacer's wait belongs to the coalescing sleep of a flush.  A landing *)
(* and its answer are one step.                                            *)
(***************************************************************************)
EXTENDS Naturals, Sequences, FiniteSets

CONSTANTS
  Run,
  MaxSteps,      \* tool steps in all
  MaxRotations,  \* rotations in all
  MaxFaults,     \* calls that fail or time out
  MaxBreaks      \* crashes and reconnects in all

ASSUME TraceAssumption ==
  MaxSteps \in Nat /\ MaxRotations \in Nat /\ MaxFaults \in Nat
    /\ MaxBreaks \in Nat

VARIABLES
  up,        \* does the process run?
  trace,     \* each run's trace and its tasks
  board,     \* the messages posted as boards: [run, text]
  said,      \* runs whose end was said in a message of its own
  calls,     \* API calls in flight; by = "lost" if nobody awaits them
  disk,      \* the record file: [run, board]
  rec,       \* the recovery of interrupted traces: [at, todo, now]
  steps, rotations, faults, breaks,
  hurt,      \* runs one of whose calls failed
  raced,     \* runs one of whose boards had two edits in flight at once
  robbed,    \* runs whose record a recovery overwrote while they were live
  cut        \* runs ended or killed between a new board and its record

bounds == <<steps, rotations, faults, breaks>>
vars == <<up, trace, board, said, calls, disk, rec, bounds, hurt, raced, robbed, cut>>

NoBoard == 0
Fresh == [phase |-> "new", start |-> "idle", mid |-> NoBoard, old |-> NoBoard, closed |-> FALSE,
          ver |-> 0, last |-> <<"none", 0>>, flush |-> "idle", rot |-> "idle", fin |-> "idle"]
Off == [at |-> "off", todo |-> {}, now |-> {}]

Init ==
  /\ up = TRUE /\ trace = [r \in Run |-> Fresh]
  /\ board = <<>> /\ said = {} /\ calls = {} /\ disk = {} /\ rec = Off
  /\ steps = 0 /\ rotations = 0 /\ faults = 0 /\ breaks = 0
  /\ hurt = {} /\ raced = {} /\ robbed = {} /\ cut = {}

\* TraceState.render
Render(r) == <<IF trace[r].closed THEN "done" ELSE "working", trace[r].ver>>
Terminal(r) == <<"done", trace[r].ver>>

-----------------------------------------------------------------------------
(* Calls: _sdk_call, a worker thread under wait_for. *)

Call(by, r, b, text) == [by |-> by, run |-> r, board |-> b, text |-> text]
Waiting(by, r) == {c \in calls : c.by = by /\ c.run = r}
Lost(C) == {[c EXCEPT !.by = "lost"] : c \in C}

\* A post makes a message; the closing lines are messages of their own.
Land(c) ==
  /\ board' = IF c.by \in {"final", "notice"} THEN board
              ELSE IF c.board = NoBoard THEN Append(board, [run |-> c.run, text |-> c.text])
              ELSE [board EXCEPT ![c.board].text = c.text]
  /\ said' = IF c.by \in {"final", "notice"} THEN said \cup {c.run} ELSE said

\* Calls C are in flight, and c is sent.
Send(C, c) ==
  /\ calls' = C \cup {c}
  /\ raced' = IF c.board # NoBoard /\ \E d \in C : d.board = c.board THEN raced \cup {c.run} ELSE raced

SendNothing(C) == calls' = C /\ UNCHANGED raced

\* The caller gets an answer; after a timeout the thread is still at it.
Fault(c) == faults < MaxFaults /\ faults' = faults + 1 /\ hurt' = hurt \cup {c.run} /\ UNCHANGED <<board, said>>
Succeeds(c) == Land(c) /\ UNCHANGED <<faults, hurt>>
Answer(c, how) == IF how = "ok" THEN Succeeds(c) ELSE Fault(c)
After(c, how) == (calls \ {c}) \cup (IF how = "error" THEN Lost({c}) ELSE {})
How == {"ok", "refused", "error"}

Set(r, tr) == trace' = [trace EXCEPT ![r] = tr]
Rest == <<up, steps, rotations, breaks, robbed>>

-----------------------------------------------------------------------------
(* A trace begins: start_trace, start, start_trace_and_persist. *)

Alive(r) == up /\ trace[r].phase = "live"

\* Slip: the file is written with the new record alone.
KeepAlone(r, b) == {[run |-> r, board |-> b]}

Keep(r, b) == disk \cup {[run |-> r, board |-> b]}
Forget(r, b) == disk \ {[run |-> r, board |-> b]}

Begin(r) ==
  /\ up /\ trace[r].phase = "new"
  /\ Set(r, [trace[r] EXCEPT !.phase = "live", !.start = "posting"])
  /\ Send(calls, Call("start", r, NoBoard, <<"working", 0>>))
  /\ UNCHANGED <<board, said, disk, rec, faults, hurt, cut, Rest>>

\* A failed post drops the trace; a good one is put on record.
StartAnswered(r) ==
  /\ Alive(r)
  /\ \E c \in Waiting("start", r), how \in How :
       /\ Answer(c, how) /\ SendNothing(After(c, how))
       /\ IF how = "ok"
            THEN /\ Set(r, [trace[r] EXCEPT !.start = "done", !.mid = Len(board) + 1,
                                            !.last = c.text, !.rot = "sleeping"])
                 /\ disk' = Keep(r, Len(board) + 1)
            ELSE Set(r, [trace[r] EXCEPT !.start = "done"]) /\ UNCHANGED disk
  /\ UNCHANGED <<rec, cut, Rest>>

-----------------------------------------------------------------------------
(* Steps and the coalesced flush. *)

\* step, complete and _schedule_flush: a flush that is pending is enough.
Step(r) ==
  /\ Alive(r) /\ trace[r].mid # NoBoard /\ ~trace[r].closed /\ steps < MaxSteps /\ steps' = steps + 1
  /\ Set(r, [trace[r] EXCEPT !.ver = @ + 1, !.flush = IF @ = "idle" THEN "sleeping" ELSE @])
  /\ UNCHANGED <<up, board, said, calls, disk, rec, rotations, faults, breaks, hurt, raced, robbed, cut>>

FlushWakes(r) ==
  /\ Alive(r) /\ trace[r].flush = "sleeping"
  /\ IF Render(r) = trace[r].last
       THEN Set(r, [trace[r] EXCEPT !.flush = "idle"]) /\ SendNothing(calls)
       ELSE /\ Set(r, [trace[r] EXCEPT !.flush = "editing"])
            /\ Send(calls, Call("flush", r, trace[r].mid, Render(r)))
  /\ UNCHANGED <<board, said, disk, rec, faults, hurt, cut, Rest>>

FlushAnswered(r) ==
  /\ Alive(r)
  /\ \E c \in Waiting("flush", r), how \in How :
       /\ Answer(c, how) /\ SendNothing(After(c, how))
       /\ Set(r, [trace[r] EXCEPT !.flush = "idle", !.last = IF how = "ok" THEN c.text ELSE @])
  /\ UNCHANGED <<disk, rec, cut, Rest>>

-----------------------------------------------------------------------------
(* The rotation onto a new message. *)

RotationWakes(r) ==
  /\ Alive(r) /\ trace[r].rot = "sleeping"
  /\ rotations < MaxRotations /\ rotations' = rotations + 1
  /\ Set(r, [trace[r] EXCEPT !.rot = "posting"])
  /\ Send(calls, Call("rotate", r, NoBoard, Render(r)))
  /\ UNCHANGED <<up, board, said, disk, rec, steps, faults, breaks, hurt, robbed, cut>>

\* The new board is there.  If the run has ended meanwhile it is closed at
\* once, else it takes over and the old one is marked as continued.
RotationAnswered(r) ==
  /\ Alive(r)
  /\ \E c \in Waiting("rotate", r), how \in How :
       /\ Answer(c, how)
       /\ \/ /\ how # "ok" /\ SendNothing(After(c, how))
             /\ Set(r, [trace[r] EXCEPT !.rot = IF trace[r].closed THEN "idle" ELSE "sleeping"])
          \/ /\ how = "ok" /\ trace[r].closed
             /\ Set(r, [trace[r] EXCEPT !.rot = "raced"])
             /\ Send(After(c, how), Call("raced", r, Len(board) + 1, Terminal(r)))
          \/ /\ how = "ok" /\ ~trace[r].closed
             /\ Set(r, [trace[r] EXCEPT !.rot = "closing", !.old = trace[r].mid,
                                        !.mid = Len(board) + 1, !.last = c.text])
             /\ Send(After(c, how), Call("close", r, trace[r].mid, <<"continued", 0>>))
  /\ UNCHANGED <<disk, rec, cut, Rest>>

RacedAnswered(r) ==
  /\ Alive(r)
  /\ \E c \in Waiting("raced", r), how \in How :
       Answer(c, how) /\ SendNothing(After(c, how))
  /\ Set(r, [trace[r] EXCEPT !.rot = "idle"])
  /\ UNCHANGED <<disk, rec, cut, Rest>>

\* Slip: the record stays with the old board.
MovedNothing(r) == disk

\* rotate_record
Moved(r) == Forget(r, trace[r].old) \cup {[run |-> r, board |-> trace[r].mid]}

CloseAnswered(r) ==
  /\ Alive(r) /\ trace[r].rot = "closing"
  /\ \E c \in Waiting("close", r), how \in How :
       Answer(c, how) /\ SendNothing(After(c, how))
  /\ disk' = Moved(r)
  /\ Set(r, [trace[r] EXCEPT !.rot = "sleeping"])
  /\ UNCHANGED <<rec, cut, Rest>>

-----------------------------------------------------------------------------
(* The run ends: finish_trace, finish and fail. *)

EndRun(r) ==
  /\ Alive(r) /\ trace[r].fin = "idle"
  /\ Set(r, [trace[r] EXCEPT !.fin = "start"])
  /\ UNCHANGED <<board, said, calls, disk, rec, faults, hurt, raced, cut, Rest>>

\* Slip: the rotation is cancelled even while it posts.
CancelAnyRotation(r) == "idle"

\* _stop_rotation: a rotation that is posting is waited for, any other is cancelled.
StopRotation(r) == IF trace[r].rot = "posting" THEN "posting" ELSE "idle"

StartAwaited(r) == trace[r].start = "done"

\* The start task is awaited, the trace closed and its rotation stopped.
Close(r) ==
  /\ Alive(r) /\ trace[r].fin = "start" /\ StartAwaited(r)
  /\ Set(r, [trace[r] EXCEPT !.closed = TRUE, !.rot = StopRotation(r), !.fin = "rotation"])
  /\ LET C == {c \in calls : c.run = r /\ c.by \in {"rotate", "close"} /\ StopRotation(r) = "idle"} IN
       SendNothing((calls \ C) \cup Lost(C))
  /\ cut' = IF trace[r].rot = "closing" THEN cut \cup {r} ELSE cut
  /\ UNCHANGED <<board, said, disk, rec, faults, hurt, Rest>>

Over(r) == [trace[r] EXCEPT !.fin = "over", !.phase = "ended"]

\* _cancel_pending, which cannot stop an edit that is being sent, and the
\* terminal edit.
FinalFlush(r) ==
  /\ Alive(r) /\ trace[r].fin = "rotation" /\ trace[r].rot = "idle"
  /\ LET C == Waiting("flush", r)
         left == (calls \ C) \cup Lost(C) IN
     IF trace[r].mid = NoBoard
       THEN SendNothing(left) /\ Set(r, [Over(r) EXCEPT !.flush = "idle"])
       ELSE /\ Send(left, Call("finish", r, trace[r].mid, Terminal(r)))
            /\ Set(r, [trace[r] EXCEPT !.flush = "idle", !.fin = "editing"])
  /\ UNCHANGED <<board, said, disk, rec, faults, hurt, cut, Rest>>

\* A refused edit leads to a closing message; then the record is dropped.
FinalAnswered(r) ==
  /\ Alive(r)
  /\ \E c \in Waiting("finish", r), how \in How :
       /\ Answer(c, how)
       /\ IF how = "refused"
            THEN /\ Send(After(c, how), Call("final", r, NoBoard, Terminal(r)))
                 /\ Set(r, [trace[r] EXCEPT !.fin = "posting"]) /\ UNCHANGED disk
            ELSE /\ SendNothing(After(c, how)) /\ Set(r, Over(r))
                 /\ disk' = Forget(r, trace[r].mid)
  /\ UNCHANGED <<rec, cut, Rest>>

ClosingLineAnswered(r) ==
  /\ Alive(r)
  /\ \E c \in Waiting("final", r), how \in How :
       Answer(c, how) /\ SendNothing(After(c, how))
  /\ Set(r, Over(r)) /\ disk' = Forget(r, trace[r].mid)
  /\ UNCHANGED <<rec, cut, Rest>>

-----------------------------------------------------------------------------
(* Crashes, connects, and recover_interrupted_traces. *)

\* A call that nobody awaits any more lands after all, or never.
LostLands(c) ==
  /\ c \in calls /\ c.by = "lost"
  /\ Land(c) \/ UNCHANGED <<board, said>>
  /\ SendNothing(calls \ {c})
  /\ UNCHANGED <<trace, disk, rec, faults, hurt, cut, Rest>>

Exposed(r) == trace[r].start = "posting" \/ trace[r].rot \in {"posting", "closing", "raced"}

Crash ==
  /\ up /\ breaks < MaxBreaks /\ breaks' = breaks + 1
  /\ up' = FALSE /\ rec' = Off
  /\ calls' = Lost(calls)
  /\ trace' = [r \in Run |-> IF trace[r].phase = "live"
                 THEN [Fresh EXCEPT !.phase = "dead"] ELSE trace[r]]
  /\ cut' = cut \cup {r \in Run : trace[r].phase = "live" /\ Exposed(r)}
  /\ UNCHANGED <<board, said, disk, steps, rotations, faults, hurt, raced, robbed>>

Load == IF disk = {} THEN Off ELSE [at |-> "next", todo |-> disk, now |-> {}]

Restart ==
  /\ ~up /\ up' = TRUE /\ rec' = Load
  /\ UNCHANGED <<trace, board, said, calls, disk, bounds, hurt, raced, robbed, cut>>

\* A disconnect cancels the listener and with it a recovery; the connect that
\* follows starts another one, and the runs go on.
Reconnect ==
  /\ up /\ breaks < MaxBreaks /\ breaks' = breaks + 1
  /\ rec' = Load
  /\ LET C == {c \in calls : c.by \in {"recover", "notice"}} IN
       SendNothing((calls \ C) \cup Lost(C))
  /\ UNCHANGED <<up, trace, board, said, disk, steps, rotations, faults, hurt, robbed, cut>>

RecoverNext ==
  /\ rec.at = "next"
  /\ \E x \in rec.todo :
       /\ rec' = [at |-> "editing", todo |-> rec.todo \ {x}, now |-> {x}]
       /\ Send(calls, Call("recover", x.run, x.board, <<"cancelled", 0>>))
  /\ UNCHANGED <<trace, board, said, disk, faults, hurt, cut, Rest>>

RecoverAnswered ==
  /\ rec.at = "editing"
  /\ \E x \in rec.now : \E c \in Waiting("recover", x.run), how \in How :
       /\ Answer(c, how)
       /\ IF how = "ok"
            THEN SendNothing(After(c, how)) /\ rec' = [rec EXCEPT !.at = "next", !.now = {}]
            ELSE /\ Send(After(c, how), Call("notice", x.run, NoBoard, <<"cancelled", 0>>))
                 /\ rec' = [rec EXCEPT !.at = "noticing"]
  /\ UNCHANGED <<trace, disk, cut, Rest>>

NoticeAnswered ==
  /\ rec.at = "noticing"
  /\ \E x \in rec.now : \E c \in Waiting("notice", x.run), how \in How :
       Answer(c, how) /\ SendNothing(After(c, how))
  /\ rec' = [rec EXCEPT !.at = "next", !.now = {}]
  /\ UNCHANGED <<trace, disk, cut, Rest>>

\* Every record of the snapshot has been popped by now: what is saved is empty,
\* whatever the file has come to hold since.
Saved == {}

RecoverSaves ==
  /\ rec.at = "next" /\ rec.todo = {}
  /\ disk' = Saved /\ rec' = Off
  /\ robbed' = robbed \cup {x.run : x \in {y \in disk : trace[y.run].phase = "live"}}
  /\ UNCHANGED <<up, trace, board, said, calls, bounds, hurt, raced, cut>>

-----------------------------------------------------------------------------

Tasks(r) ==
  \/ StartAnswered(r) \/ FlushWakes(r) \/ FlushAnswered(r)
  \/ RotationAnswered(r) \/ RacedAnswered(r) \/ CloseAnswered(r)
  \/ Close(r) \/ FinalFlush(r) \/ FinalAnswered(r) \/ ClosingLineAnswered(r)

Recovery == RecoverNext \/ RecoverAnswered \/ NoticeAnswered \/ RecoverSaves

Next ==
  \/ \E r \in Run : Begin(r) \/ Step(r) \/ RotationWakes(r) \/ EndRun(r) \/ Tasks(r)
  \/ Recovery \/ Crash \/ Restart \/ Reconnect
  \/ \E c \in calls : LostLands(c)

Spec == Init /\ [][Next]_vars

-----------------------------------------------------------------------------
(* Properties *)

Text == {"none", "working", "continued", "done", "cancelled"} \X (0..MaxSteps)
Caller == {"start", "flush", "rotate", "raced", "close", "finish", "final", "recover", "notice", "lost"}
Trace == [phase : {"new", "live", "ended", "dead"}, start : {"idle", "posting", "done"},
          mid : Nat, old : Nat, closed : BOOLEAN, ver : 0..MaxSteps, last : Text,
          flush : {"idle", "sleeping", "editing"},
          rot : {"idle", "sleeping", "posting", "closing", "raced"},
          fin : {"idle", "start", "rotation", "editing", "posting", "over"}]
Record == [run : Run, board : Nat]

\* The shape of traces, boards, calls and records.
TraceTypeOK ==
  /\ up \in BOOLEAN /\ trace \in [Run -> Trace]
  /\ board \in Seq([run : Run, text : Text])
  /\ said \in SUBSET Run
  /\ \A c \in calls : c.by \in Caller /\ c.run \in Run /\ c.board \in 0..Len(board) /\ c.text \in Text
  /\ disk \in SUBSET [run : Run, board : DOMAIN board]
  /\ rec.at \in {"off", "next", "editing", "noticing"} /\ rec.todo \in SUBSET Record /\ rec.now \in SUBSET Record
  /\ hurt \in SUBSET Run /\ raced \in SUBSET Run /\ robbed \in SUBSET Run /\ cut \in SUBSET Run

Quiet(r) == \A c \in calls : c.run # r
Working(r) == {i \in DOMAIN board : board[i].run = r /\ board[i].text[1] = "working"}

\* activity_trace.py:356: the end of a run marks its board finished, through any
\* rotation it met.  No board of it reads Working, unless a call failed, two edits
\* of one board were on their way at once, or the end cut off a rotation whose
\* edit of the old board was still on its way.
FinishedBoardsAreClosed ==
  \A r \in Run :
    trace[r].phase = "ended" /\ Quiet(r) /\ r \notin hurt \cup raced \cup cut => Working(r) = {}

\* tracing.py:515, "so a later crash still has a message id that can be edited",
\* and 597, "finalized here, so a later start must not try again": a live trace's
\* record names its present board, except while it moves, and a run that ended
\* leaves no record, even when its last edit failed.
RecordsFollowTheBoard ==
  \A r \in Run \ cut :
    LET records == {x \in disk : x.run = r} IN
    /\ Alive(r) /\ trace[r].mid # NoBoard /\ trace[r].rot # "closing" /\ r \notin robbed =>
         records = {[run |-> r, board |-> trace[r].mid]}
    /\ trace[r].phase = "ended" => records = {}

\* tracing.py:366: no trace is left in progress by a crash.  Once the next start's
\* recovery is through, a dead run's boards are closed, unless it died between a
\* message and its record, a call failed, or edits crossed.
OrphansAreClosed ==
  \A r \in Run :
    /\ up /\ rec = Off /\ Quiet(r) /\ trace[r].phase = "dead"
    /\ r \notin hurt \cup raced \cup robbed \cup cut
    => Working(r) = {}

=============================================================================
