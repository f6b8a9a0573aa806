-------------------------- MODULE ActivityTraceProofs --------------------------
(***************************************************************************)
(* What ActivityTrace keeps, for any runs and bounds.  Its type invariant   *)
(* comes first: what a trace, a call, a record or the recovery names is a  *)
(* board that was posted, although calls outlive their tasks and land      *)
(* after a crash.  Then come its three properties, from one invariant in   *)
(* parts, each of which the later ones need: where a trace's tasks and     *)
(* their calls are (TaskInv), whose the boards are (OwnInv), what the file *)
(* holds (FileInv), which boards read Working and which edits could have   *)
(* them do so (TidyInv), that edits do not cross (OneCallInv), and what is *)
(* left for a recovery (RecInv, OrphanInv).                                *)
(***************************************************************************)
EXTENDS ActivityTrace, SequenceTheorems, TLAPS

Board == [run : Run, text : Text]

\* What is said of a trace and its tasks.
Phases == {"new", "live", "ended", "dead"}
Starts == {"idle", "posting", "done"}
Flushes == {"idle", "sleeping", "editing"}
Rotations == {"idle", "sleeping", "posting", "closing", "raced"}
Ends == {"idle", "start", "rotation", "editing", "posting", "over"}

\* Traces, calls and records when n boards were posted and s steps taken.
TracesIn(n, s) ==
  [phase : Phases, start : Starts, mid : 0..n, old : 0..n, closed : BOOLEAN, ver : 0..s,
   last : Text, flush : Flushes, rot : Rotations, fin : Ends]
CallsIn(n) == [by : Caller, run : Run, board : 0..n, text : Text]
RecordsIn(n) == [run : Run, board : 1..n]
RecoveriesIn(n) == [at : {"off", "next", "editing", "noticing"}, todo : SUBSET RecordsIn(n), now : SUBSET RecordsIn(n)]

\* The calls that post a board have none, and a rotation that closes one has another.
PostsAreNew == \A c \in calls : c.by \in {"start", "rotate"} => c.board = NoBoard
ClosersHaveABoard == \A r \in Run : trace[r].rot = "closing" => trace[r].mid # NoBoard

Flags ==
  /\ up \in BOOLEAN /\ said \in SUBSET Run /\ hurt \in SUBSET Run
  /\ raced \in SUBSET Run /\ robbed \in SUBSET Run /\ cut \in SUBSET Run

BoardInv ==
  /\ Flags /\ board \in Seq(Board) /\ steps \in 0..MaxSteps
  /\ trace \in [Run -> TracesIn(Len(board), steps)]
  /\ calls \in SUBSET CallsIn(Len(board)) /\ PostsAreNew /\ ClosersHaveABoard
  /\ disk \in SUBSET RecordsIn(Len(board)) /\ rec \in RecoveriesIn(Len(board))

-----------------------------------------------------------------------------
(* Shapes *)

LEMMA Growth ==
  ASSUME NEW n \in Nat, NEW k \in Nat, n <= k
  PROVE  /\ \A s \in Nat : TracesIn(n, s) \subseteq TracesIn(k, s)
         /\ CallsIn(n) \subseteq CallsIn(k)
         /\ RecordsIn(n) \subseteq RecordsIn(k)
         /\ RecoveriesIn(n) \subseteq RecoveriesIn(k)
<1>1. 0..n \subseteq 0..k /\ 1..n \subseteq 1..k
  OBVIOUS
<1>2. RecordsIn(n) \subseteq RecordsIn(k)
  BY <1>1 DEF RecordsIn
<1>3. RecoveriesIn(n) \subseteq RecoveriesIn(k)
  BY <1>2 DEF RecoveriesIn
<1>4. CallsIn(n) \subseteq CallsIn(k)
  BY <1>1 DEF CallsIn
<1>5. ASSUME NEW s \in Nat PROVE TracesIn(n, s) \subseteq TracesIn(k, s)
  BY <1>1 DEF TracesIn
<1> QED
  BY <1>2, <1>3, <1>4, <1>5

LEMMA Lengths ==
  ASSUME BoardInv
  PROVE  Len(board) \in Nat /\ DOMAIN board = 1..Len(board) /\ steps \in Nat /\ MaxSteps \in Nat
BY LenProperties, TraceAssumption DEF BoardInv

LEMMA TextShapes ==
  ASSUME BoardInv, NEW r \in Run
  PROVE  Render(r) \in Text /\ Terminal(r) \in Text
<1>1. trace[r].ver \in 0..MaxSteps
  BY Lengths DEF BoardInv, TracesIn
<1> QED
  BY <1>1 DEF Render, Terminal, Text

LEMMA ConstantTexts ==
  /\ <<"working", 0>> \in Text /\ <<"continued", 0>> \in Text /\ <<"cancelled", 0>> \in Text /\ <<"none", 0>> \in Text
BY TraceAssumption DEF Text

\* A call that lands adds at most one board, which a post of a board always does.
LEMMA Landing ==
  ASSUME BoardInv, NEW c \in calls, Land(c)
  PROVE  /\ board' \in Seq(Board) /\ Len(board') \in Nat /\ Len(board) <= Len(board')
         /\ c.by \in {"start", "rotate"} => Len(board') = Len(board) + 1
         /\ said' \in SUBSET Run
<1>1. c \in CallsIn(Len(board)) /\ (c.by \in {"start", "rotate"} => c.board = NoBoard)
  BY DEF BoardInv, PostsAreNew
<1>2. board \in Seq(Board) /\ Len(board) \in Nat /\ c.board \in 0..Len(board) /\ c.run \in Run /\ c.text \in Text
  BY <1>1, Lengths DEF BoardInv, CallsIn
<1>3. said' \in SUBSET Run
  BY <1>2 DEF Land, BoardInv, Flags
<1> DEFINE b == [run |-> c.run, text |-> c.text]
<1>4. b \in Board
  BY <1>2 DEF Board
<1> HIDE DEF b
<1>5. CASE c.by \in {"final", "notice"}
  BY <1>2, <1>3, <1>5 DEF Land
<1>6. CASE c.by \notin {"final", "notice"} /\ c.board = NoBoard
  <2>1. board' = Append(board, b)
    BY <1>6 DEF Land, b
  <2> QED
    BY <1>2, <1>3, <1>4, <2>1, AppendProperties
<1>7. CASE c.by \notin {"final", "notice"} /\ c.board # NoBoard
  <2>1. board' = [board EXCEPT ![c.board].text = c.text] /\ c.board \in 1..Len(board)
    BY <1>2, <1>7 DEF Land, NoBoard
  <2>2. DOMAIN board = 1..Len(board) /\ board[c.board] \in Board
    BY <1>2, <2>1, Lengths
  <2>3. [board[c.board] EXCEPT !.text = c.text] \in Board
    BY <1>2, <2>2 DEF Board
  <2>4. board' = [board EXCEPT ![c.board] = [board[c.board] EXCEPT !.text = c.text]]
    BY <2>1
  <2>5. board' \in Seq(Board) /\ Len(board') = Len(board)
    BY <1>2, <2>1, <2>3, <2>4, ExceptSeq
  <2> QED
    BY <1>1, <1>2, <1>3, <1>7, <2>5
<1> QED
  BY <1>5, <1>6, <1>7

\* So does a call that is answered.
LEMMA Answering ==
  ASSUME BoardInv, NEW c \in calls, NEW how \in How, Answer(c, how)
  PROVE  /\ board' \in Seq(Board) /\ Len(board') \in Nat /\ Len(board) <= Len(board')
         /\ c.by \in {"start", "rotate"} /\ how = "ok" => Len(board') = Len(board) + 1
         /\ said' \in SUBSET Run /\ hurt' \in SUBSET Run
         /\ CallsIn(Len(board)) \subseteq CallsIn(Len(board'))
         /\ After(c, how) \subseteq CallsIn(Len(board))
         /\ \A d \in After(c, how) : d.by \in {"start", "rotate"} => d.board = NoBoard
<1>1. c \in CallsIn(Len(board)) /\ c.run \in Run
  BY DEF BoardInv, CallsIn
<1>2. /\ After(c, how) \subseteq CallsIn(Len(board))
      /\ \A d \in After(c, how) : d.by \in {"start", "rotate"} => d.board = NoBoard
  <2>1. [c EXCEPT !.by = "lost"] \in CallsIn(Len(board)) /\ [c EXCEPT !.by = "lost"].by = "lost"
    BY <1>1 DEF CallsIn, Caller
  <2> QED
    BY <2>1 DEF After, Lost, BoardInv, PostsAreNew
<1>3. CASE Succeeds(c) /\ how = "ok"
  BY <1>2, <1>3, Landing, Lengths, Growth DEF Succeeds, BoardInv, Flags
<1>4. CASE Fault(c) /\ how # "ok"
  BY <1>1, <1>2, <1>4, Lengths DEF Fault, BoardInv, Flags
<1> QED
  BY <1>3, <1>4 DEF Answer

\* A call is sent beside others.
LEMMA Sending ==
  ASSUME NEW n \in Nat, NEW C \in SUBSET CallsIn(n), NEW c \in CallsIn(n), raced \in SUBSET Run, Send(C, c),
         \A d \in C \cup {c} : d.by \in {"start", "rotate"} => d.board = NoBoard
  PROVE  calls' \in SUBSET CallsIn(n) /\ PostsAreNew' /\ raced' \in SUBSET Run
<1>1. c.run \in Run
  BY DEF CallsIn
<1> QED
  BY <1>1 DEF Send, PostsAreNew

\* What happens to one trace leaves the others.
LEMMA Setting ==
  ASSUME BoardInv, NEW r \in Run, NEW k \in Nat, Len(board) <= k,
         NEW t \in TracesIn(k, steps), t.rot = "closing" => t.mid # NoBoard, Set(r, t)
  PROVE  trace' \in [Run -> TracesIn(k, steps)] /\ ClosersHaveABoard'
<1>1. trace \in [Run -> TracesIn(k, steps)]
  BY Lengths, Growth DEF BoardInv
<1>2. trace' = [trace EXCEPT ![r] = t]
  BY DEF Set
<1> QED
  BY <1>1, <1>2 DEF BoardInv, ClosersHaveABoard

\* Nobody waits any more for the calls C.
LEMMA Losing ==
  ASSUME BoardInv, NEW C \in SUBSET calls
  PROVE  /\ (calls \ C) \cup Lost(C) \in SUBSET CallsIn(Len(board))
         /\ \A d \in (calls \ C) \cup Lost(C) : d.by \in {"start", "rotate"} => d.board = NoBoard
<1>1. \A c \in calls : c \in CallsIn(Len(board))
  BY DEF BoardInv
<1>2. \A c \in calls : [c EXCEPT !.by = "lost"] \in CallsIn(Len(board)) /\ [c EXCEPT !.by = "lost"].by = "lost"
  BY <1>1 DEF CallsIn, Caller
<1>3. ASSUME NEW d \in Lost(C) PROVE d \in CallsIn(Len(board)) /\ d.by = "lost"
  BY <1>2, <1>3 DEF Lost
<1> QED
  BY <1>1, <1>3 DEF BoardInv, PostsAreNew

\* The form in which a step of one run is shown to keep the invariant.
LEMMA StepOfARun ==
  ASSUME BoardInv, NEW r \in Run, NEW t, NEW k \in Nat,
         board' \in Seq(Board), Len(board') = k, Len(board) <= k,
         said' \in SUBSET Run, hurt' \in SUBSET Run, raced' \in SUBSET Run, cut' \in SUBSET Run,
         UNCHANGED <<up, steps, robbed, rec>>,
         t \in TracesIn(k, steps), t.rot = "closing" => t.mid # NoBoard, Set(r, t),
         calls' \in SUBSET CallsIn(k), PostsAreNew', disk' \in SUBSET RecordsIn(k)
  PROVE  BoardInv'
<1>1. trace' \in [Run -> TracesIn(k, steps)] /\ ClosersHaveABoard'
  BY Setting
<1>2. rec \in RecoveriesIn(k)
  BY Lengths, Growth DEF BoardInv
<1> QED
  BY <1>1, <1>2 DEF BoardInv, Flags

-----------------------------------------------------------------------------
(* One lemma per action. *)

\* What a trace was before a step.
LEMMA TraceShape ==
  ASSUME BoardInv, NEW r \in Run
  PROVE  trace[r] \in TracesIn(Len(board), steps)
BY DEF BoardInv

LEMMA BeginKeeps ==
  ASSUME BoardInv, NEW r \in Run, Begin(r)
  PROVE  BoardInv'
<1> DEFINE t == [trace[r] EXCEPT !.phase = "live", !.start = "posting"]
           c == Call("start", r, NoBoard, <<"working", 0>>)
<1>1. t \in TracesIn(Len(board), steps) /\ (t.rot = "closing" => t.mid # NoBoard)
  BY TraceShape DEF TracesIn, Phases, Starts, BoardInv, ClosersHaveABoard
<1>2. c \in CallsIn(Len(board)) /\ c.board = NoBoard
  BY Lengths, ConstantTexts DEF Call, CallsIn, Caller, NoBoard
<1>3. Set(r, t) /\ Send(calls, c) /\ UNCHANGED <<up, steps, robbed, rec, board, said, hurt, cut, disk>>
  BY DEF Begin, Rest
<1> HIDE DEF t, c
<1>4. calls' \in SUBSET CallsIn(Len(board)) /\ PostsAreNew' /\ raced' \in SUBSET Run
  BY <1>2, <1>3, Lengths, Sending DEF BoardInv, Flags, PostsAreNew
<1> QED
  BY <1>1, <1>3, <1>4, Lengths, StepOfARun DEF BoardInv, Flags

LEMMA StepKeeps ==
  ASSUME BoardInv, NEW r \in Run, Step(r)
  PROVE  BoardInv'
<1> DEFINE t == [trace[r] EXCEPT !.ver = @ + 1, !.flush = IF @ = "idle" THEN "sleeping" ELSE @]
<1>1. steps' = steps + 1 /\ steps' \in 0..MaxSteps /\ steps \in Nat
  BY Lengths DEF Step, BoardInv
<1>2. \A x \in TracesIn(Len(board), steps) : x \in TracesIn(Len(board), steps')
  BY <1>1 DEF TracesIn
<1>3. t \in TracesIn(Len(board), steps') /\ t.rot = trace[r].rot /\ t.mid = trace[r].mid
  <2>1. trace[r] \in TracesIn(Len(board), steps')
    BY <1>2, TraceShape
  <2>2. trace[r].ver + 1 \in 0..steps'
    BY <1>1, TraceShape DEF TracesIn
  <2> HIDE DEF BoardInv, Step
  <2> QED
    BY <2>1, <2>2 DEF TracesIn, Flushes
<1>4. trace' = [trace EXCEPT ![r] = t]
  BY DEF Step, Set
<1> HIDE DEF t
<1>5. trace' \in [Run -> TracesIn(Len(board), steps')]
  BY <1>2, <1>3, <1>4 DEF BoardInv
<1>6. ClosersHaveABoard'
  BY <1>3, <1>4 DEF BoardInv, ClosersHaveABoard
<1> QED
  BY <1>1, <1>5, <1>6 DEF Step, BoardInv, Flags, PostsAreNew

\* A step of a run that sends one call and changes nothing but its trace.
LEMMA SendingStep ==
  ASSUME BoardInv, NEW r \in Run, NEW t \in TracesIn(Len(board), steps), t.rot = "closing" => t.mid # NoBoard,
         NEW C \in SUBSET CallsIn(Len(board)), NEW c \in CallsIn(Len(board)),
         \A d \in C \cup {c} : d.by \in {"start", "rotate"} => d.board = NoBoard,
         Set(r, t), Send(C, c), UNCHANGED <<up, steps, robbed, rec, board, said, hurt, cut, disk>>
  PROVE  BoardInv'
<1>1. calls' \in SUBSET CallsIn(Len(board)) /\ PostsAreNew' /\ raced' \in SUBSET Run
  BY Lengths, Sending DEF BoardInv, Flags
<1> QED
  BY <1>1, Lengths, StepOfARun DEF BoardInv, Flags

\* A step of a run that sends nothing.
LEMMA SilentStep ==
  ASSUME BoardInv, NEW r \in Run, NEW t \in TracesIn(Len(board), steps), t.rot = "closing" => t.mid # NoBoard,
         NEW C \in SUBSET CallsIn(Len(board)),
         \A d \in C : d.by \in {"start", "rotate"} => d.board = NoBoard,
         Set(r, t), SendNothing(C), cut' \in SUBSET Run, UNCHANGED <<up, steps, robbed, rec, board, said, hurt, disk>>
  PROVE  BoardInv'
<1>1. calls' \in SUBSET CallsIn(Len(board)) /\ PostsAreNew' /\ raced' \in SUBSET Run
  BY DEF SendNothing, BoardInv, Flags, PostsAreNew
<1> QED
  BY <1>1, Lengths, StepOfARun DEF BoardInv, Flags

LEMMA WakesKeep ==
  ASSUME BoardInv, NEW r \in Run, FlushWakes(r) \/ RotationWakes(r) \/ EndRun(r)
  PROVE  BoardInv'
<1> DEFINE idle == [trace[r] EXCEPT !.flush = "idle"]
           editing == [trace[r] EXCEPT !.flush = "editing"]
           posting == [trace[r] EXCEPT !.rot = "posting"]
           ending == [trace[r] EXCEPT !.fin = "start"]
           edit == Call("flush", r, trace[r].mid, Render(r))
           post == Call("rotate", r, NoBoard, Render(r))
<1>1. /\ \A t \in {idle, editing, posting, ending} : t \in TracesIn(Len(board), steps)
      /\ \A t \in {idle, editing, posting, ending} : t.rot = "closing" => t.mid # NoBoard
  BY TraceShape DEF TracesIn, Flushes, Rotations, Ends, BoardInv, ClosersHaveABoard
<1>2. /\ edit \in CallsIn(Len(board)) /\ edit.by = "flush"
      /\ post \in CallsIn(Len(board)) /\ post.board = NoBoard
  BY Lengths, TraceShape, TextShapes DEF TracesIn, Call, CallsIn, Caller, NoBoard
<1>3. calls \in SUBSET CallsIn(Len(board)) /\ \A d \in calls : d.by \in {"start", "rotate"} => d.board = NoBoard
  BY DEF BoardInv, PostsAreNew
<1>4. cut \in SUBSET Run
  BY DEF BoardInv, Flags
<1>5. CASE FlushWakes(r)
  <2>1. CASE Set(r, idle) /\ SendNothing(calls)
    <3>1. UNCHANGED <<up, steps, robbed, rec, board, said, hurt, cut, disk>>
      BY <1>5 DEF FlushWakes, Rest
    <3> HIDE DEF idle, editing, posting, ending
    <3> QED
      BY <1>1, <1>3, <1>4, <2>1, <3>1, SilentStep
  <2>2. CASE Set(r, editing) /\ Send(calls, edit)
    <3>1. UNCHANGED <<up, steps, robbed, rec, board, said, hurt, cut, disk>>
      BY <1>5 DEF FlushWakes, Rest
    <3> HIDE DEF idle, editing, posting, ending, edit, post
    <3> QED
      BY <1>1, <1>2, <1>3, <2>2, <3>1, SendingStep
  <2> QED
    BY <1>5, <2>1, <2>2 DEF FlushWakes
<1>6. CASE RotationWakes(r)
  <2>1. Set(r, posting) /\ Send(calls, post) /\ UNCHANGED <<up, steps, robbed, rec, board, said, hurt, cut, disk>>
    BY <1>6 DEF RotationWakes
  <2> HIDE DEF idle, editing, posting, ending, edit, post
  <2> QED
    BY <1>1, <1>2, <1>3, <2>1, SendingStep
<1>7. CASE EndRun(r)
  <2>1. Set(r, ending) /\ SendNothing(calls) /\ UNCHANGED <<up, steps, robbed, rec, board, said, hurt, cut, disk>>
    BY <1>7 DEF EndRun, Rest, SendNothing
  <2> HIDE DEF idle, editing, posting, ending
  <2> QED
    BY <1>1, <1>3, <1>4, <2>1, SilentStep
<1> QED
  BY <1>5, <1>6, <1>7

\* A step of a run that takes the answer of a call and sends nothing.
LEMMA AnsweredStep ==
  ASSUME BoardInv, NEW r \in Run, NEW c \in calls, NEW how \in How, Answer(c, how), SendNothing(After(c, how)),
         NEW t \in TracesIn(Len(board'), steps), t.rot = "closing" => t.mid # NoBoard, Set(r, t),
         disk' \in SUBSET RecordsIn(Len(board')), UNCHANGED <<up, steps, robbed, rec, cut>>
  PROVE  BoardInv'
<1>1. /\ board' \in Seq(Board) /\ Len(board') \in Nat /\ Len(board) <= Len(board')
      /\ said' \in SUBSET Run /\ hurt' \in SUBSET Run
      /\ calls' \in SUBSET CallsIn(Len(board')) /\ PostsAreNew' /\ raced' \in SUBSET Run
  BY Answering DEF SendNothing, PostsAreNew, BoardInv, Flags
<1> QED
  BY <1>1, StepOfARun DEF BoardInv, Flags

\* The same, and another call is sent.
LEMMA AnsweredAndSent ==
  ASSUME BoardInv, NEW r \in Run, NEW c \in calls, NEW how \in How, Answer(c, how),
         NEW d \in CallsIn(Len(board')), d.by \notin {"start", "rotate"}, Send(After(c, how), d),
         NEW t \in TracesIn(Len(board'), steps), t.rot = "closing" => t.mid # NoBoard, Set(r, t),
         UNCHANGED <<up, steps, robbed, rec, cut, disk>>
  PROVE  BoardInv'
<1>1. /\ board' \in Seq(Board) /\ Len(board') \in Nat /\ Len(board) <= Len(board')
      /\ said' \in SUBSET Run /\ hurt' \in SUBSET Run
      /\ After(c, how) \in SUBSET CallsIn(Len(board'))
      /\ \A x \in After(c, how) : x.by \in {"start", "rotate"} => x.board = NoBoard
  BY Answering
<1>2. calls' \in SUBSET CallsIn(Len(board')) /\ PostsAreNew' /\ raced' \in SUBSET Run
  BY <1>1, Sending DEF BoardInv, Flags
<1>3. disk' \in SUBSET RecordsIn(Len(board'))
  BY <1>1, Lengths, Growth DEF BoardInv
<1> QED
  BY <1>1, <1>2, <1>3, StepOfARun DEF BoardInv, Flags

\* Records of boards posted before a call landed are of boards.
LEMMA DiskGrows ==
  ASSUME BoardInv, NEW c \in calls, NEW how \in How, Answer(c, how)
  PROVE  /\ disk \in SUBSET RecordsIn(Len(board'))
         /\ \A r \in Run : trace[r] \in TracesIn(Len(board'), steps)
<1>1. Len(board') \in Nat /\ Len(board) <= Len(board')
  BY Answering
<1> QED
  BY <1>1, Lengths, Growth DEF BoardInv

LEMMA StartAnsweredKeeps ==
  ASSUME BoardInv, NEW r \in Run, StartAnswered(r)
  PROVE  BoardInv'
<1>1. PICK c \in Waiting("start", r), how \in How :
        /\ Answer(c, how) /\ SendNothing(After(c, how))
        /\ IF how = "ok"
             THEN /\ Set(r, [trace[r] EXCEPT !.start = "done", !.mid = Len(board) + 1,
                                             !.last = c.text, !.rot = "sleeping"])
                  /\ disk' = Keep(r, Len(board) + 1)
             ELSE Set(r, [trace[r] EXCEPT !.start = "done"]) /\ UNCHANGED disk
  BY DEF StartAnswered
<1>2. c \in calls /\ c.by = "start" /\ c.text \in Text
  BY DEF Waiting, BoardInv, CallsIn
<1>3. disk \in SUBSET RecordsIn(Len(board')) /\ trace[r] \in TracesIn(Len(board'), steps)
  BY <1>1, <1>2, DiskGrows
<1>4. UNCHANGED <<up, steps, robbed, rec, cut>>
  BY DEF StartAnswered, Rest
<1>5. CASE how = "ok"
  <2> DEFINE t == [trace[r] EXCEPT !.start = "done", !.mid = Len(board) + 1, !.last = c.text, !.rot = "sleeping"]
  <2>1. Len(board') = Len(board) + 1 /\ Len(board) \in Nat
    BY <1>1, <1>2, <1>5, Answering, Lengths
  <2>2. t \in TracesIn(Len(board'), steps) /\ t.rot # "closing"
    <3>1. Len(board) + 1 \in 0..Len(board')
      BY <2>1
    <3> QED
      BY <1>2, <1>3, <3>1 DEF TracesIn, Starts, Rotations
  <2>3. Set(r, t) /\ disk' = disk \cup {[run |-> r, board |-> Len(board) + 1]}
    BY <1>1, <1>5 DEF Keep
  <2>4. disk' \in SUBSET RecordsIn(Len(board'))
    BY <1>3, <2>1, <2>3 DEF RecordsIn
  <2> HIDE DEF t
  <2> QED
    BY <1>1, <1>2, <1>4, <2>2, <2>3, <2>4, AnsweredStep
<1>6. CASE how # "ok"
  <2> DEFINE t == [trace[r] EXCEPT !.start = "done"]
  <2>1. t \in TracesIn(Len(board'), steps) /\ (t.rot = "closing" => t.mid # NoBoard)
    BY <1>3 DEF TracesIn, Starts, BoardInv, ClosersHaveABoard
  <2>2. Set(r, t) /\ disk' = disk
    BY <1>1, <1>6
  <2> HIDE DEF t
  <2> QED
    BY <1>1, <1>2, <1>3, <1>4, <2>1, <2>2, AnsweredStep
<1> QED
  BY <1>5, <1>6

LEMMA FlushAnsweredKeeps ==
  ASSUME BoardInv, NEW r \in Run, FlushAnswered(r)
  PROVE  BoardInv'
<1>1. PICK c \in Waiting("flush", r), how \in How :
        /\ Answer(c, how) /\ SendNothing(After(c, how))
        /\ Set(r, [trace[r] EXCEPT !.flush = "idle", !.last = IF how = "ok" THEN c.text ELSE @])
  BY DEF FlushAnswered
<1>2. c \in calls /\ c.text \in Text
  BY DEF Waiting, BoardInv, CallsIn
<1>3. disk \in SUBSET RecordsIn(Len(board')) /\ trace[r] \in TracesIn(Len(board'), steps)
  BY <1>1, <1>2, DiskGrows
<1>4. UNCHANGED <<up, steps, robbed, rec, cut, disk>>
  BY DEF FlushAnswered, Rest
<1> DEFINE t == [trace[r] EXCEPT !.flush = "idle", !.last = IF how = "ok" THEN c.text ELSE @]
<1>5. t \in TracesIn(Len(board'), steps) /\ (t.rot = "closing" => t.mid # NoBoard)
  BY <1>2, <1>3 DEF TracesIn, Flushes, BoardInv, ClosersHaveABoard
<1>6. Set(r, t)
  BY <1>1
<1> HIDE DEF t
<1> QED
  BY <1>1, <1>2, <1>3, <1>4, <1>5, <1>6, AnsweredStep

LEMMA RotationAnsweredKeeps ==
  ASSUME BoardInv, NEW r \in Run, RotationAnswered(r)
  PROVE  BoardInv'
<1>1. PICK c \in Waiting("rotate", r), how \in How :
       /\ Answer(c, how)
       /\ \/ /\ how # "ok" /\ SendNothing(After(c, how))
             /\ Set(r, [trace[r] EXCEPT !.rot = IF trace[r].closed THEN "idle" ELSE "sleeping"])
          \/ /\ how = "ok" /\ trace[r].closed
             /\ Set(r, [trace[r] EXCEPT !.rot = "raced"])
             /\ Send(After(c, how), Call("raced", r, Len(board) + 1, Terminal(r)))
          \/ /\ how = "ok" /\ ~trace[r].closed
             /\ Set(r, [trace[r] EXCEPT !.rot = "closing", !.old = trace[r].mid,
                                        !.mid = Len(board) + 1, !.last = c.text])
             /\ Send(After(c, how), Call("close", r, trace[r].mid, <<"continued", 0>>))
  BY DEF RotationAnswered
<1>2. c \in calls /\ c.by = "rotate" /\ c.text \in Text
  BY DEF Waiting, BoardInv, CallsIn
<1>3. disk \in SUBSET RecordsIn(Len(board')) /\ trace[r] \in TracesIn(Len(board'), steps)
  BY <1>1, <1>2, DiskGrows
<1>4. UNCHANGED <<up, steps, robbed, rec, cut, disk>>
  BY DEF RotationAnswered, Rest
<1>5. /\ Len(board') \in Nat /\ Len(board) \in Nat /\ Len(board) <= Len(board')
      /\ how = "ok" => Len(board') = Len(board) + 1
  BY <1>1, <1>2, Answering, Lengths
<1> DEFINE failed == [trace[r] EXCEPT !.rot = IF trace[r].closed THEN "idle" ELSE "sleeping"]
           late == [trace[r] EXCEPT !.rot = "raced"]
           moved == [trace[r] EXCEPT !.rot = "closing", !.old = trace[r].mid,
                                     !.mid = Len(board) + 1, !.last = c.text]
           shut == Call("raced", r, Len(board) + 1, Terminal(r))
           close == Call("close", r, trace[r].mid, <<"continued", 0>>)
<1>6. CASE how # "ok" /\ SendNothing(After(c, how)) /\ Set(r, failed)
  <2>1. failed \in TracesIn(Len(board'), steps) /\ failed.rot # "closing"
    BY <1>3 DEF TracesIn, Rotations
  <2> HIDE DEF failed
  <2> QED
    BY <1>1, <1>2, <1>3, <1>4, <1>6, <2>1, AnsweredStep
<1>7. CASE how = "ok" /\ Set(r, late) /\ Send(After(c, how), shut)
  <2>1. late \in TracesIn(Len(board'), steps) /\ late.rot # "closing"
    BY <1>3 DEF TracesIn, Rotations
  <2>2. shut \in CallsIn(Len(board')) /\ shut.by = "raced"
    BY <1>5, <1>7, TextShapes DEF Call, CallsIn, Caller
  <2> HIDE DEF late, shut
  <2> QED
    BY <1>1, <1>2, <1>4, <1>7, <2>1, <2>2, AnsweredAndSent
<1>8. CASE how = "ok" /\ Set(r, moved) /\ Send(After(c, how), close)
  <2>1. moved \in TracesIn(Len(board'), steps) /\ moved.mid # NoBoard
    <3>1. Len(board) + 1 \in 0..Len(board') /\ Len(board) + 1 # NoBoard /\ trace[r].mid \in 0..Len(board')
      BY <1>3, <1>5, <1>8 DEF TracesIn, NoBoard
    <3> QED
      BY <1>2, <1>3, <3>1 DEF TracesIn, Rotations
  <2>2. close \in CallsIn(Len(board')) /\ close.by = "close"
    BY <1>3, <1>5, ConstantTexts DEF TracesIn, Call, CallsIn, Caller
  <2> HIDE DEF moved, close
  <2> QED
    BY <1>1, <1>2, <1>4, <1>8, <2>1, <2>2, AnsweredAndSent
<1> QED
  BY <1>1, <1>6, <1>7, <1>8

LEMMA RotationEndsKeeps ==
  ASSUME BoardInv, NEW r \in Run, RacedAnswered(r) \/ CloseAnswered(r)
  PROVE  BoardInv'
<1>1. PICK c \in calls, how \in How : Answer(c, how) /\ SendNothing(After(c, how))
  BY DEF RacedAnswered, CloseAnswered, Waiting
<1>2. UNCHANGED <<up, steps, robbed, rec, cut>>
  BY DEF RacedAnswered, CloseAnswered, Rest
<1>3. disk \in SUBSET RecordsIn(Len(board')) /\ trace[r] \in TracesIn(Len(board'), steps)
  BY <1>1, DiskGrows
<1>4. CASE RacedAnswered(r)
  <2> DEFINE t == [trace[r] EXCEPT !.rot = "idle"]
  <2>1. t \in TracesIn(Len(board'), steps) /\ t.rot # "closing"
    BY <1>3 DEF TracesIn, Rotations
  <2>2. Set(r, t) /\ disk' = disk
    BY <1>4 DEF RacedAnswered
  <2> HIDE DEF t
  <2> QED
    BY <1>1, <1>2, <1>3, <2>1, <2>2, AnsweredStep
<1>5. CASE CloseAnswered(r)
  <2> DEFINE t == [trace[r] EXCEPT !.rot = "sleeping"]
  <2>1. t \in TracesIn(Len(board'), steps) /\ t.rot # "closing"
    BY <1>3 DEF TracesIn, Rotations
  <2>2. Set(r, t) /\ disk' = Forget(r, trace[r].old) \cup {[run |-> r, board |-> trace[r].mid]}
    BY <1>5 DEF CloseAnswered, Moved
  <2>3. trace[r].mid \in 1..Len(board')
    <3>1. trace[r].rot = "closing"
      BY <1>5 DEF CloseAnswered
    <3> QED
      BY <1>3, <3>1 DEF TracesIn, BoardInv, ClosersHaveABoard, NoBoard
  <2>4. disk' \in SUBSET RecordsIn(Len(board'))
    BY <1>3, <2>2, <2>3 DEF Forget, RecordsIn
  <2> HIDE DEF t
  <2> QED
    BY <1>1, <1>2, <2>1, <2>2, <2>4, AnsweredStep
<1> QED
  BY <1>4, <1>5

LEMMA CloseKeeps ==
  ASSUME BoardInv, NEW r \in Run, Close(r)
  PROVE  BoardInv'
<1> DEFINE C == {c \in calls : c.run = r /\ c.by \in {"rotate", "close"} /\ StopRotation(r) = "idle"}
           left == (calls \ C) \cup Lost(C)
           t == [trace[r] EXCEPT !.closed = TRUE, !.rot = StopRotation(r), !.fin = "rotation"]
<1>1. left \in SUBSET CallsIn(Len(board)) /\ \A d \in left : d.by \in {"start", "rotate"} => d.board = NoBoard
  BY Losing
<1>2. StopRotation(r) \in {"posting", "idle"}
  BY DEF StopRotation
<1>3. t \in TracesIn(Len(board), steps) /\ t.rot # "closing"
  BY <1>2, TraceShape DEF TracesIn, Rotations, Ends
<1>4. /\ Set(r, t) /\ SendNothing(left) /\ cut' \in SUBSET Run
      /\ UNCHANGED <<up, steps, robbed, rec, board, said, hurt, disk>>
  BY DEF Close, Rest, BoardInv, Flags
<1> HIDE DEF left, t
<1> QED
  BY <1>1, <1>3, <1>4, SilentStep

LEMMA FinalFlushKeeps ==
  ASSUME BoardInv, NEW r \in Run, FinalFlush(r)
  PROVE  BoardInv'
<1> DEFINE C == Waiting("flush", r)
           left == (calls \ C) \cup Lost(C)
           over == [Over(r) EXCEPT !.flush = "idle"]
           editing == [trace[r] EXCEPT !.flush = "idle", !.fin = "editing"]
           edit == Call("finish", r, trace[r].mid, Terminal(r))
<1>1. left \in SUBSET CallsIn(Len(board)) /\ \A d \in left : d.by \in {"start", "rotate"} => d.board = NoBoard
  BY Losing DEF Waiting
<1>2. /\ over \in TracesIn(Len(board), steps) /\ editing \in TracesIn(Len(board), steps)
      /\ over.rot # "closing" /\ editing.rot # "closing"
  BY TraceShape DEF TracesIn, Flushes, Ends, Phases, Rotations, Over, FinalFlush
<1>3. edit \in CallsIn(Len(board)) /\ edit.by = "finish"
  BY TraceShape, TextShapes DEF TracesIn, Call, CallsIn, Caller
<1>4. UNCHANGED <<up, steps, robbed, rec, board, said, hurt, cut, disk>> /\ cut' \in SUBSET Run
  BY DEF FinalFlush, Rest, BoardInv, Flags
<1>5. \/ Set(r, over) /\ SendNothing(left)
      \/ Set(r, editing) /\ Send(left, edit)
  BY DEF FinalFlush
<1> HIDE DEF left, over, editing, edit
<1> QED
  BY <1>1, <1>2, <1>3, <1>4, <1>5, SilentStep, SendingStep

LEMMA FinalAnsweredKeeps ==
  ASSUME BoardInv, NEW r \in Run, FinalAnswered(r) \/ ClosingLineAnswered(r)
  PROVE  BoardInv'
<1> DEFINE over == Over(r)
           posting == [trace[r] EXCEPT !.fin = "posting"]
           line == Call("final", r, NoBoard, Terminal(r))
<1>1. UNCHANGED <<up, steps, robbed, rec, cut>>
  BY DEF FinalAnswered, ClosingLineAnswered, Rest
<1>2. PICK c \in calls, how \in How :
        /\ Answer(c, how)
        /\ \/ Send(After(c, how), line) /\ Set(r, posting) /\ UNCHANGED disk
           \/ SendNothing(After(c, how)) /\ Set(r, over) /\ disk' = Forget(r, trace[r].mid)
  BY DEF FinalAnswered, ClosingLineAnswered, Waiting
<1>3. disk \in SUBSET RecordsIn(Len(board')) /\ trace[r] \in TracesIn(Len(board'), steps)
  BY <1>2, DiskGrows
<1>4. /\ over \in TracesIn(Len(board'), steps) /\ posting \in TracesIn(Len(board'), steps)
      /\ over.rot = "closing" => over.mid # NoBoard
      /\ posting.rot = "closing" => posting.mid # NoBoard
  BY <1>3 DEF TracesIn, Ends, Phases, Over, BoardInv, ClosersHaveABoard
<1>5. line \in CallsIn(Len(board')) /\ line.by = "final"
  <2>1. Len(board') \in Nat
    BY <1>2, Answering
  <2> QED
    BY <2>1, TextShapes DEF Call, CallsIn, Caller, NoBoard
<1>6. Forget(r, trace[r].mid) \in SUBSET RecordsIn(Len(board'))
  BY <1>3 DEF Forget
<1> HIDE DEF over, posting, line
<1>7. CASE Send(After(c, how), line) /\ Set(r, posting) /\ UNCHANGED disk
  BY <1>1, <1>2, <1>4, <1>5, <1>7, AnsweredAndSent
<1>8. CASE SendNothing(After(c, how)) /\ Set(r, over) /\ disk' = Forget(r, trace[r].mid)
  BY <1>1, <1>2, <1>4, <1>6, <1>8, AnsweredStep
<1> QED
  BY <1>2, <1>7, <1>8

-----------------------------------------------------------------------------
(* Late landings, crashes and recoveries, which leave the traces alone. *)

LEMMA StepOfNoRun ==
  ASSUME BoardInv, NEW k \in Nat,
         board' \in Seq(Board), Len(board') = k, Len(board) <= k,
         said' \in SUBSET Run, hurt' \in SUBSET Run, raced' \in SUBSET Run, robbed' \in SUBSET Run,
         up' \in BOOLEAN, UNCHANGED <<steps, cut, trace>>,
         calls' \in SUBSET CallsIn(k), PostsAreNew',
         disk' \in SUBSET RecordsIn(k), rec' \in RecoveriesIn(k)
  PROVE  BoardInv'
<1>1. trace \in [Run -> TracesIn(k, steps)]
  BY Lengths, Growth DEF BoardInv
<1> QED
  BY <1>1 DEF BoardInv, Flags, ClosersHaveABoard

LEMMA LostLandsKeeps ==
  ASSUME BoardInv, NEW c \in calls, LostLands(c)
  PROVE  BoardInv'
<1>1. /\ board' \in Seq(Board) /\ Len(board') \in Nat /\ Len(board) <= Len(board')
      /\ said' \in SUBSET Run
  BY Landing, Lengths DEF LostLands, BoardInv, Flags
<1>2. /\ CallsIn(Len(board)) \subseteq CallsIn(Len(board'))
      /\ disk \in SUBSET RecordsIn(Len(board')) /\ rec \in RecoveriesIn(Len(board'))
  BY <1>1, Lengths, Growth DEF BoardInv
<1>3. calls' = calls \ {c} /\ UNCHANGED <<up, steps, cut, trace, disk, rec, hurt, raced, robbed>>
  BY DEF LostLands, SendNothing, Rest
<1>4. calls' \in SUBSET CallsIn(Len(board')) /\ PostsAreNew'
  BY <1>2, <1>3 DEF BoardInv, PostsAreNew
<1>5. up' \in BOOLEAN /\ hurt' \in SUBSET Run /\ raced' \in SUBSET Run /\ robbed' \in SUBSET Run
  BY <1>3 DEF BoardInv, Flags
<1> QED
  BY <1>1, <1>2, <1>3, <1>4, <1>5, StepOfNoRun

LEMMA CrashKeeps ==
  ASSUME BoardInv, Crash
  PROVE  BoardInv'
<1>1. Lost(calls) \in SUBSET CallsIn(Len(board)) /\ \A d \in Lost(calls) : d.by \in {"start", "rotate"} => d.board = NoBoard
  BY Losing
<1>2. [Fresh EXCEPT !.phase = "dead"] \in TracesIn(Len(board), steps)
  <2>1. Fresh \in TracesIn(Len(board), steps)
    BY Lengths, ConstantTexts DEF Fresh, TracesIn, NoBoard, Phases, Starts, Flushes, Rotations, Ends
  <2> QED
    BY <2>1 DEF TracesIn, Phases
<1>3. [Fresh EXCEPT !.phase = "dead"].rot # "closing"
  BY DEF Fresh
<1>4. trace' \in [Run -> TracesIn(Len(board), steps)]
  BY <1>2 DEF Crash, BoardInv
<1>5. ClosersHaveABoard'
  BY <1>3 DEF Crash, BoardInv, ClosersHaveABoard
<1>6. rec' \in RecoveriesIn(Len(board))
  BY DEF Crash, Off, RecoveriesIn
<1>7. Flags'
  BY DEF Crash, BoardInv, Flags
<1>8. calls' \in SUBSET CallsIn(Len(board)) /\ PostsAreNew'
  BY <1>1 DEF Crash, PostsAreNew
<1> QED
  BY <1>4, <1>5, <1>6, <1>7, <1>8 DEF Crash, BoardInv

LEMMA ConnectsKeep ==
  ASSUME BoardInv, Restart \/ Reconnect
  PROVE  BoardInv'
<1>1. Load \in RecoveriesIn(Len(board))
  BY DEF Load, Off, RecoveriesIn, BoardInv
<1> DEFINE C == {c \in calls : c.by \in {"recover", "notice"}}
           left == (calls \ C) \cup Lost(C)
<1>2. left \in SUBSET CallsIn(Len(board)) /\ \A d \in left : d.by \in {"start", "rotate"} => d.board = NoBoard
  BY Losing
<1>3. /\ UNCHANGED <<board, said, hurt, raced, robbed, steps, cut, trace, disk>>
      /\ up' \in BOOLEAN /\ rec' = Load /\ (calls' = calls \/ calls' = left)
  BY DEF Restart, Reconnect, bounds, SendNothing, BoardInv, Flags
<1> HIDE DEF left
<1>4. calls' \in SUBSET CallsIn(Len(board)) /\ PostsAreNew'
  BY <1>2, <1>3 DEF BoardInv, PostsAreNew
<1> QED
  BY <1>1, <1>3, <1>4, Lengths, StepOfNoRun DEF BoardInv, Flags

LEMMA RecoverNextKeeps ==
  ASSUME BoardInv, RecoverNext
  PROVE  BoardInv'
<1>1. PICK x \in rec.todo :
       /\ rec' = [at |-> "editing", todo |-> rec.todo \ {x}, now |-> {x}]
       /\ Send(calls, Call("recover", x.run, x.board, <<"cancelled", 0>>))
  BY DEF RecoverNext
<1>2. rec \in RecoveriesIn(Len(board)) /\ x \in RecordsIn(Len(board))
  BY DEF BoardInv, RecoveriesIn
<1>3. rec' \in RecoveriesIn(Len(board))
  BY <1>1, <1>2 DEF RecoveriesIn
<1> DEFINE c == Call("recover", x.run, x.board, <<"cancelled", 0>>)
<1>4. c \in CallsIn(Len(board)) /\ c.by = "recover"
  BY <1>2, Lengths, ConstantTexts DEF RecordsIn, Call, CallsIn, Caller
<1>5. UNCHANGED <<up, steps, robbed, cut, trace, board, said, hurt, disk>>
  BY DEF RecoverNext, Rest
<1>6. Send(calls, c)
  BY <1>1
<1> HIDE DEF c
<1>7. calls' \in SUBSET CallsIn(Len(board)) /\ PostsAreNew' /\ raced' \in SUBSET Run
  BY <1>4, <1>6, Lengths, Sending DEF BoardInv, Flags, PostsAreNew
<1> QED
  BY <1>3, <1>5, <1>7, Lengths, StepOfNoRun DEF BoardInv, Flags

LEMMA RecoveryAnsweredKeeps ==
  ASSUME BoardInv, RecoverAnswered \/ NoticeAnswered
  PROVE  BoardInv'
<1>1. PICK x \in rec.now, c \in calls, how \in How :
        /\ Answer(c, how)
        /\ \/ SendNothing(After(c, how)) /\ rec' = [rec EXCEPT !.at = "next", !.now = {}]
           \/ /\ Send(After(c, how), Call("notice", x.run, NoBoard, <<"cancelled", 0>>))
              /\ rec' = [rec EXCEPT !.at = "noticing"]
  BY DEF RecoverAnswered, NoticeAnswered, Waiting
<1>2. UNCHANGED <<up, steps, robbed, cut, trace, disk>>
  BY DEF RecoverAnswered, NoticeAnswered, Rest
<1>3. /\ board' \in Seq(Board) /\ Len(board') \in Nat /\ Len(board) <= Len(board')
      /\ said' \in SUBSET Run /\ hurt' \in SUBSET Run
      /\ After(c, how) \in SUBSET CallsIn(Len(board'))
      /\ \A d \in After(c, how) : d.by \in {"start", "rotate"} => d.board = NoBoard
  BY <1>1, Answering
<1>4. rec \in RecoveriesIn(Len(board')) /\ disk \in SUBSET RecordsIn(Len(board'))
  BY <1>3, Lengths, Growth DEF BoardInv
<1> DEFINE d == Call("notice", x.run, NoBoard, <<"cancelled", 0>>)
<1>5. d \in CallsIn(Len(board')) /\ d.by = "notice"
  BY <1>3, <1>4, ConstantTexts DEF RecoveriesIn, RecordsIn, Call, CallsIn, Caller, NoBoard
<1>6. rec' \in RecoveriesIn(Len(board'))
  BY <1>1, <1>4 DEF RecoveriesIn
<1>7. SendNothing(After(c, how)) \/ Send(After(c, how), d)
  BY <1>1
<1> HIDE DEF d
<1>8. calls' \in SUBSET CallsIn(Len(board')) /\ PostsAreNew' /\ raced' \in SUBSET Run
  BY <1>3, <1>5, <1>7, Sending DEF BoardInv, Flags, PostsAreNew, SendNothing
<1> QED
  BY <1>2, <1>3, <1>4, <1>6, <1>8, StepOfNoRun DEF BoardInv, Flags

LEMMA RecoverSavesKeeps ==
  ASSUME BoardInv, RecoverSaves
  PROVE  BoardInv'
<1>1. disk' \in SUBSET RecordsIn(Len(board)) /\ rec' \in RecoveriesIn(Len(board))
  BY DEF RecoverSaves, Saved, Off, RecoveriesIn
<1>2. robbed' \in SUBSET Run
  BY DEF RecoverSaves, BoardInv, Flags, RecordsIn
<1>3. UNCHANGED <<board, said, hurt, raced, steps, cut, trace, calls, up>>
  BY DEF RecoverSaves, bounds
<1> QED
  BY <1>1, <1>2, <1>3, Lengths, StepOfNoRun DEF BoardInv, Flags, PostsAreNew

-----------------------------------------------------------------------------
(* The theorem *)

LEMMA BoardInvHolds == Spec => []BoardInv
<1>1. Init => BoardInv
  <2> SUFFICES ASSUME Init PROVE BoardInv
    OBVIOUS
  <2>1. board = <<>> /\ board \in Seq(Board) /\ Len(board) = 0
    BY DEF Init
  <2>2. steps = 0 /\ steps \in 0..MaxSteps
    BY TraceAssumption DEF Init
  <2>3. Fresh \in TracesIn(0, 0) /\ Fresh.rot # "closing"
    BY ConstantTexts DEF Fresh, TracesIn, Phases, Starts, Flushes, Rotations, Ends, NoBoard
  <2>4. trace \in [Run -> TracesIn(0, 0)] /\ ClosersHaveABoard
    BY <2>3 DEF Init, ClosersHaveABoard
  <2>5. rec \in RecoveriesIn(0)
    BY DEF Init, Off, RecoveriesIn
  <2> QED
    BY <2>1, <2>2, <2>4, <2>5 DEF Init, BoardInv, Flags, PostsAreNew
<1>2. BoardInv /\ [Next]_vars => BoardInv'
  <2> SUFFICES ASSUME BoardInv, [Next]_vars PROVE BoardInv'
    OBVIOUS
  <2>1. ASSUME NEW r \in Run, Begin(r) \/ Step(r) \/ RotationWakes(r) \/ EndRun(r) PROVE BoardInv'
    BY <2>1, BeginKeeps, StepKeeps, WakesKeep
  <2>2. ASSUME NEW r \in Run, Tasks(r) PROVE BoardInv'
    BY <2>2, StartAnsweredKeeps, WakesKeep, FlushAnsweredKeeps, RotationAnsweredKeeps, RotationEndsKeeps,
       CloseKeeps, FinalFlushKeeps, FinalAnsweredKeeps DEF Tasks
  <2>3. CASE Recovery
    BY <2>3, RecoverNextKeeps, RecoveryAnsweredKeeps, RecoverSavesKeeps DEF Recovery
  <2>4. CASE Crash \/ Restart \/ Reconnect
    BY <2>4, CrashKeeps, ConnectsKeep
  <2>5. ASSUME NEW c \in calls, LostLands(c) PROVE BoardInv'
    BY <2>5, LostLandsKeeps
  <2>6. CASE UNCHANGED vars
    BY <2>6 DEF vars, bounds, BoardInv, Flags, PostsAreNew, ClosersHaveABoard
  <2> QED
    BY <2>1, <2>2, <2>3, <2>4, <2>5, <2>6 DEF Next
<1> QED
  BY <1>1, <1>2, PTL DEF Spec

\* Traces, calls, records and recoveries keep their shape, and name boards that
\* were posted, whatever lands late and whenever the process dies.
THEOREM TraceTypes == Spec => []TraceTypeOK
<1>1. BoardInv => TraceTypeOK
  <2> SUFFICES ASSUME BoardInv PROVE TraceTypeOK
    OBVIOUS
  <2>1. Len(board) \in Nat /\ DOMAIN board = 1..Len(board) /\ steps \in 0..MaxSteps /\ MaxSteps \in Nat
    BY Lengths DEF BoardInv
  <2>2. 0..steps \subseteq 0..MaxSteps /\ 0..Len(board) \subseteq Nat /\ 1..Len(board) \subseteq Nat
    BY <2>1
  <2>3. TracesIn(Len(board), steps) \subseteq Trace
    BY <2>2 DEF TracesIn, Phases, Starts, Flushes, Rotations, Ends, Trace
  <2>4. trace \in [Run -> Trace]
    BY <2>3 DEF BoardInv
  <2>5. \A c \in calls : c.by \in Caller /\ c.run \in Run /\ c.board \in 0..Len(board) /\ c.text \in Text
    BY DEF BoardInv, CallsIn
  <2>6. RecordsIn(Len(board)) \subseteq Record
    BY <2>2 DEF RecordsIn, Record
  <2>7. disk \in SUBSET [run : Run, board : DOMAIN board]
    BY <2>1 DEF BoardInv, RecordsIn
  <2>8. rec.at \in {"off", "next", "editing", "noticing"} /\ rec.todo \in SUBSET Record /\ rec.now \in SUBSET Record
    BY <2>6 DEF BoardInv, RecoveriesIn
  <2>9. board \in Seq([run : Run, text : Text])
    BY DEF BoardInv, Board
  <2> QED
    BY <2>4, <2>5, <2>7, <2>8, <2>9 DEF TraceTypeOK, BoardInv, Flags
<1> QED
  BY <1>1, BoardInvHolds, PTL


-----------------------------------------------------------------------------
(* What its tasks say of a trace, and its calls of its tasks.              *)
(* A task is where its one call in flight says it is: the calls that are   *)
(* awaited are told apart by who awaits them.                              *)

\* The places of a trace's tasks that occur together.
Sound(t) ==
  /\ t.phase # "live" => t.start # "posting" /\ t.rot = "idle" /\ t.flush = "idle" /\ t.fin \in {"idle", "over"}
  /\ t.phase = "live" => t.start \in {"posting", "done"} /\ t.fin # "over"
  /\ t.phase = "new" => t.fin = "idle" /\ t.mid = NoBoard
  /\ t.start = "posting" => t.mid = NoBoard /\ ~t.closed /\ t.fin \in {"idle", "start"}
  /\ t.mid = NoBoard => t.rot = "idle" /\ t.flush = "idle"
  /\ t.phase = "live" => (t.closed <=> t.fin \in {"rotation", "editing", "posting"})
  /\ t.fin \in {"editing", "posting"} => t.rot = "idle" /\ t.flush = "idle"
  /\ t.rot = "raced" => t.closed
  /\ t.rot = "closing" => ~t.closed
  /\ t.phase = "new" => ~t.closed

\* The call of a task and the place of that task.
Fits(c, t) ==
  /\ c.by = "start" => t.start = "posting"
  /\ c.by = "flush" => t.flush = "editing"
  /\ c.by = "rotate" => t.rot = "posting"
  /\ c.by = "raced" => t.rot = "raced"
  /\ c.by = "close" => t.rot = "closing" /\ c.board = t.old
  /\ c.by = "finish" => t.fin = "editing" /\ c.board = t.mid
  /\ c.by = "final" => t.fin = "posting"

\* Those a task awaits.
Tasked(c) == c.by \in {"start", "flush", "rotate", "raced", "close", "finish", "final"}

TaskInv ==
  /\ \A r \in Run : Sound(trace[r])
  /\ \A c \in calls : Fits(c, trace[c.run])
  /\ \A c, d \in calls : c.run = d.run /\ c.by = d.by /\ Tasked(c) => c = d

\* Whose a board is: nobody edits or keeps the board of another run.
OwnInv ==
  /\ \A c \in calls : c.board # NoBoard => board[c.board].run = c.run
  /\ \A r \in Run : /\ trace[r].mid # NoBoard => board[trace[r].mid].run = r
                    /\ trace[r].old # NoBoard => board[trace[r].old].run = r
  /\ \A x \in disk \cup rec.todo \cup rec.now : board[x.board].run = x.run

\* What the file holds of a run.
Recs(r) == {x \in disk : x.run = r}
Kept(t) == IF t.rot = "closing" THEN t.old ELSE t.mid
FileOf(r) ==
  /\ trace[r].phase \in {"new", "ended"} => Recs(r) = {}
  /\ trace[r].phase = "live" => \A x \in Recs(r) : x.board = Kept(trace[r])
  /\ trace[r].phase = "live" /\ trace[r].mid # NoBoard /\ r \notin robbed => Recs(r) # {}
FileInv == \A r \in Run \ cut : FileOf(r)

\* The edits of a board that would have it read Working are the flush's, of the
\* board the trace is on.
Works(c) == c.text[1] = "working"
TidyFor(r, t, C, W) ==
  /\ \A i \in W :
       /\ t.phase = "live"
       /\ \/ i = t.mid
          \/ t.rot = "closing" /\ i = t.old
          \/ \E c \in C : c.by = "raced" /\ c.run = r /\ c.board = i
  /\ \A c \in C : c.run = r /\ Works(c) => c.by \in {"start", "rotate"} \/ (c.by = "flush" /\ c.board = t.mid)
  /\ t.fin # "posting"
Tidy(r) == TidyFor(r, trace[r], calls, Working(r))
TidyInv == \A r \in Run : trace[r].phase # "dead" /\ r \notin hurt \cup raced \cup cut => Tidy(r)
TextsInv == \A c \in calls : c.by \in {"raced", "close", "finish", "final", "recover", "notice"} => ~Works(c)

\* No two calls edit one board at once.
OneCall(r) == \A c, d \in calls : c.run = r /\ d.run = r /\ c.board = d.board /\ c.board # NoBoard => c = d
OneCallInv == \A r \in Run : r \notin raced => OneCall(r)

\* Where the recovery is, and what is left to do for a run that died.
RecInv ==
  /\ ~up => rec = Off
  /\ rec.at = "off" => rec.todo = {} /\ rec.now = {}
  /\ rec.at = "next" => rec.now = {}
  /\ \A x, y \in rec.now : x = y
  /\ \A c \in calls : c.by = "recover" => rec.at = "editing" /\ [run |-> c.run, board |-> c.board] \in rec.now
  /\ \A c, d \in calls : c.by = "recover" /\ d.by = "recover" => c = d
Left(r) == Working(r) \cup {c.board : c \in {d \in calls : d.run = r /\ Works(d)}}
Entry(r, i) == [run |-> r, board |-> i]
Pending(r, i) ==
  Entry(r, i) \in rec.todo
    \/ (Entry(r, i) \in rec.now /\ rec.at = "editing" /\ \E c \in calls : c.by = "recover" /\ c.run = r /\ c.board = i)
OrphanInv ==
  \A r \in Run : trace[r].phase = "dead" /\ r \notin hurt \cup raced \cup robbed \cup cut =>
    \A i \in Left(r) : i # NoBoard /\ Entry(r, i) \in disk /\ (up => Pending(r, i))

\* A step of one run keeps what is said of the tasks if it does so for that run.
LEMMA TaskStep ==
  ASSUME BoardInv, TaskInv, NEW r \in Run, NEW t, Set(r, t), Sound(t),
         \A d \in calls' : d.run \in Run,
         \A d \in calls' : d \in calls \/ ~Tasked(d) \/ d.run = r,
         \A d \in calls' : d.run = r => Fits(d, t),
         \A c, d \in calls' : c.run = r /\ d.run = r /\ c.by = d.by /\ Tasked(c) => c = d
  PROVE  TaskInv'
<1>1. trace \in [Run -> TracesIn(Len(board), steps)] /\ trace' = [trace EXCEPT ![r] = t]
  BY DEF BoardInv, Set
<1>2. trace'[r] = t /\ \A q \in Run : q # r => trace'[q] = trace[q]
  BY <1>1
<1>3. \A q \in Run : Sound(trace'[q])
  BY <1>2 DEF TaskInv
<1>4. \A c \in calls' : Fits(c, trace'[c.run])
  <2> TAKE c \in calls'
  <2>1. CASE c.run = r
    BY <1>2, <2>1
  <2>2. CASE c.run # r /\ c \in calls
    BY <1>2, <2>2 DEF TaskInv
  <2>3. CASE ~Tasked(c)
    BY <2>3 DEF Tasked, Fits
  <2> QED
    BY <2>1, <2>2, <2>3
<1>5. \A c, d \in calls' : c.run = d.run /\ c.by = d.by /\ Tasked(c) => c = d
  <2> TAKE c, d \in calls'
  <2> HAVE c.run = d.run /\ c.by = d.by /\ Tasked(c)
  <2>1. Tasked(d)
    BY DEF Tasked
  <2> QED
    BY <2>1 DEF TaskInv
<1> QED
  BY <1>3, <1>4, <1>5 DEF TaskInv

\* What the calls were, for a step that answers one.
LEMMA AfterShape ==
  ASSUME BoardInv, NEW c \in calls, NEW how \in How, NEW d \in After(c, how)
  PROVE  /\ d.run \in Run /\ d.board \in 0..Len(board)
         /\ (d \in calls /\ d # c) \/ (d.by = "lost" /\ d.run = c.run /\ d.board = c.board /\ d.text = c.text /\ how = "error")
<1>1. c \in CallsIn(Len(board)) /\ calls \subseteq CallsIn(Len(board))
  BY DEF BoardInv
<1>2. CASE d \in calls \ {c}
  BY <1>1, <1>2 DEF CallsIn
<1>3. CASE d = [c EXCEPT !.by = "lost"] /\ how = "error"
  BY <1>1, <1>3 DEF CallsIn
<1> QED
  BY <1>2, <1>3 DEF After, Lost

LEMMA LosingShape ==
  ASSUME BoardInv, NEW C \in SUBSET calls, NEW d \in (calls \ C) \cup Lost(C)
  PROVE  /\ d.run \in Run /\ d.board \in 0..Len(board)
         /\ \/ d \in calls \ C
            \/ d.by = "lost" /\ \E c \in C : d = [c EXCEPT !.by = "lost"] /\ d.run = c.run /\ d.board = c.board /\ d.text = c.text
<1>1. calls \subseteq CallsIn(Len(board))
  BY DEF BoardInv
<1>2. CASE d \in calls \ C
  BY <1>1, <1>2 DEF CallsIn
<1>3. ASSUME NEW c \in C, d = [c EXCEPT !.by = "lost"]
      PROVE  d.by = "lost" /\ d.run = c.run /\ d.board = c.board /\ d.text = c.text /\ d.run \in Run /\ d.board \in 0..Len(board)
  BY <1>1, <1>3 DEF CallsIn
<1> QED
  BY <1>2, <1>3 DEF Lost

LEMMA BeginTasks ==
  ASSUME BoardInv, TaskInv, NEW r \in Run, Begin(r)
  PROVE  TaskInv'
<1> DEFINE t == [trace[r] EXCEPT !.phase = "live", !.start = "posting"]
           c == Call("start", r, NoBoard, <<"working", 0>>)
<1>1. Sound(t) /\ t.start = "posting" /\ t.flush = "idle" /\ t.rot = "idle" /\ t.fin = "idle"
  BY TraceShape DEF TracesIn, TaskInv, Sound, Begin
<1>2. c.by = "start" /\ c.run = r
  BY DEF Call
<1>3. calls' = calls \cup {c} /\ Set(r, t) /\ trace[r].phase = "new"
  BY DEF Begin, Send
<1> HIDE DEF t, c
<1>4. \A d \in calls : d.run \in Run /\ (d.run = r => ~Tasked(d))
  BY <1>3 DEF BoardInv, CallsIn, TaskInv, Fits, Sound, Tasked
<1>5. \A d \in calls' : d.run = r => Fits(d, t)
  BY <1>1, <1>2, <1>3, <1>4 DEF Fits, Tasked
<1> QED
  BY <1>1, <1>2, <1>3, <1>4, <1>5, TaskStep DEF Tasked

LEMMA StepTasks ==
  ASSUME BoardInv, TaskInv, NEW r \in Run, Step(r)
  PROVE  TaskInv'
<1> DEFINE t == [trace[r] EXCEPT !.ver = @ + 1, !.flush = IF @ = "idle" THEN "sleeping" ELSE @]
<1>1. Sound(t) /\ \A d \in calls : d.run = r => Fits(d, t)
  BY TraceShape DEF TracesIn, TaskInv, Sound, Step, Fits, Alive
<1>2. calls' = calls /\ Set(r, t)
  BY DEF Step
<1> HIDE DEF t
<1> QED
  BY <1>1, <1>2, TaskStep DEF BoardInv, CallsIn, TaskInv

LEMMA WakesTasks ==
  ASSUME BoardInv, TaskInv, NEW r \in Run, FlushWakes(r) \/ RotationWakes(r) \/ EndRun(r)
  PROVE  TaskInv'
<1> DEFINE idle == [trace[r] EXCEPT !.flush = "idle"]
           editing == [trace[r] EXCEPT !.flush = "editing"]
           posting == [trace[r] EXCEPT !.rot = "posting"]
           ending == [trace[r] EXCEPT !.fin = "start"]
           edit == Call("flush", r, trace[r].mid, Render(r))
           post == Call("rotate", r, NoBoard, Render(r))
<1>1. edit.by = "flush" /\ edit.run = r /\ post.by = "rotate" /\ post.run = r /\ post.board = NoBoard
  BY DEF Call
<1>2. \A d \in calls : d.run \in Run
  BY DEF BoardInv, CallsIn
<1>3. CASE FlushWakes(r)
  <2>1. Sound(idle) /\ Sound(editing) /\ \A d \in calls : d.run = r => d.by # "flush" /\ Fits(d, idle) /\ Fits(d, editing)
    BY <1>3, TraceShape DEF TracesIn, TaskInv, Sound, FlushWakes, Fits, Alive
  <2>2. Fits(edit, editing)
    BY <1>1, TraceShape DEF Fits, TracesIn
  <2>3. \/ Set(r, idle) /\ calls' = calls
        \/ Set(r, editing) /\ calls' = calls \cup {edit}
    BY <1>3 DEF FlushWakes, Send, SendNothing
  <2> HIDE DEF idle, editing, edit, post
  <2> QED
    BY <1>1, <1>2, <2>1, <2>2, <2>3, TaskStep DEF TaskInv
<1>4. CASE RotationWakes(r)
  <2>1. Sound(posting) /\ \A d \in calls : d.run = r => d.by # "rotate" /\ Fits(d, posting)
    BY <1>4, TraceShape DEF TracesIn, TaskInv, Sound, RotationWakes, Fits, Alive
  <2>2. Fits(post, posting)
    BY <1>1, TraceShape DEF Fits, TracesIn
  <2>3. Set(r, posting) /\ calls' = calls \cup {post}
    BY <1>4 DEF RotationWakes, Send
  <2> HIDE DEF posting, edit, post
  <2> QED
    BY <1>1, <1>2, <2>1, <2>2, <2>3, TaskStep DEF TaskInv
<1>5. CASE EndRun(r)
  <2>1. Sound(ending) /\ \A d \in calls : d.run = r => Fits(d, ending)
    BY <1>5, TraceShape DEF TracesIn, TaskInv, Sound, EndRun, Fits, Alive
  <2>2. Set(r, ending) /\ calls' = calls
    BY <1>5 DEF EndRun
  <2> HIDE DEF ending, edit, post
  <2> QED
    BY <1>1, <1>2, <2>1, <2>2, TaskStep DEF TaskInv
<1> QED
  BY <1>3, <1>4, <1>5

\* A step of a run that takes the answer of a call.
LEMMA AnsweredTasks ==
  ASSUME BoardInv, TaskInv, NEW r \in Run, NEW c \in calls, NEW how \in How, c.run = r,
         NEW t, Set(r, t), Sound(t), calls' = After(c, how),
         \A d \in calls : d # c /\ d.run = r => Fits(d, t)
  PROVE  TaskInv'
<1>1. \A d \in calls' : d.run \in Run /\ ((d \in calls /\ d # c) \/ d.by = "lost")
  BY AfterShape
<1>2. \A d \in calls' : d.by = "lost" => ~Tasked(d) /\ Fits(d, t)
  BY DEF Tasked, Fits
<1>3. \A d, e \in calls' : d.run = r /\ e.run = r /\ d.by = e.by /\ Tasked(d) => d = e
  BY <1>1 DEF TaskInv, Tasked
<1>4. \A d \in calls' : d.run = r => Fits(d, t)
  BY <1>1, <1>2
<1> QED
  BY <1>1, <1>2, <1>3, <1>4, TaskStep

\* The same, and another call is sent.
LEMMA AnsweredAndSentTasks ==
  ASSUME BoardInv, TaskInv, NEW r \in Run, NEW c \in calls, NEW how \in How, c.run = r,
         NEW t, Set(r, t), Sound(t), NEW n, n.run = r, Fits(n, t), Tasked(n), calls' = After(c, how) \cup {n},
         \A d \in calls : d # c /\ d.run = r => Fits(d, t) /\ d.by # n.by
  PROVE  TaskInv'
<1>1. \A d \in calls' : d.run \in Run /\ ((d \in calls /\ d # c) \/ d.by = "lost" \/ d = n)
  BY AfterShape
<1>2. \A d \in calls' : d.by = "lost" => ~Tasked(d) /\ Fits(d, t)
  BY DEF Tasked, Fits
<1>3. \A d, e \in calls' : d.run = r /\ e.run = r /\ d.by = e.by /\ Tasked(d) => d = e
  BY <1>1 DEF TaskInv, Tasked
<1>4. \A d \in calls' : d.run = r => Fits(d, t)
  BY <1>1, <1>2
<1> QED
  BY <1>1, <1>2, <1>3, <1>4, TaskStep

LEMMA StartAnsweredTasks ==
  ASSUME BoardInv, TaskInv, NEW r \in Run, StartAnswered(r)
  PROVE  TaskInv'
<1> DEFINE on(c) == [trace[r] EXCEPT !.start = "done", !.mid = Len(board) + 1, !.last = c.text, !.rot = "sleeping"]
           off == [trace[r] EXCEPT !.start = "done"]
<1>1. PICK c \in calls, how \in How :
        c.by = "start" /\ c.run = r /\ calls' = After(c, how) /\ (Set(r, on(c)) \/ Set(r, off))
  BY DEF StartAnswered, Waiting, SendNothing
<1>2. \A d \in calls : d # c /\ d.run = r => d.by # "start" /\ Fits(d, trace[r])
  BY <1>1 DEF TaskInv, Tasked
<1>3. trace[r].start = "posting" /\ Sound(trace[r])
  BY <1>1 DEF TaskInv, Fits
<1>4. Sound(on(c)) /\ Sound(off)
  BY <1>3, TraceShape, Lengths DEF TracesIn, Sound, NoBoard
<1>5. \A d \in calls : d # c /\ d.run = r => Fits(d, on(c)) /\ Fits(d, off)
  BY <1>2, <1>3, TraceShape DEF TracesIn, Sound, Fits
<1> HIDE DEF on, off
<1> QED
  BY <1>1, <1>4, <1>5, AnsweredTasks

LEMMA FlushAnsweredTasks ==
  ASSUME BoardInv, TaskInv, NEW r \in Run, FlushAnswered(r)
  PROVE  TaskInv'
<1> DEFINE t(c, how) == [trace[r] EXCEPT !.flush = "idle", !.last = IF how = "ok" THEN c.text ELSE @]
<1>1. PICK c \in calls, how \in How : c.by = "flush" /\ c.run = r /\ calls' = After(c, how) /\ Set(r, t(c, how))
  BY DEF FlushAnswered, Waiting, SendNothing
<1>2. \A d \in calls : d # c /\ d.run = r => d.by # "flush" /\ Fits(d, trace[r])
  BY <1>1 DEF TaskInv, Tasked
<1>3. Sound(trace[r])
  BY DEF TaskInv
<1>4. Sound(t(c, how)) /\ \A d \in calls : d # c /\ d.run = r => Fits(d, t(c, how))
  BY <1>2, <1>3, TraceShape DEF TracesIn, Sound, Fits
<1> HIDE DEF t
<1> QED
  BY <1>1, <1>4, AnsweredTasks

LEMMA RotationAnsweredTasks ==
  ASSUME BoardInv, TaskInv, NEW r \in Run, RotationAnswered(r)
  PROVE  TaskInv'
<1> DEFINE failed == [trace[r] EXCEPT !.rot = IF trace[r].closed THEN "idle" ELSE "sleeping"]
           late == [trace[r] EXCEPT !.rot = "raced"]
           moved(c) == [trace[r] EXCEPT !.rot = "closing", !.old = trace[r].mid,
                                     !.mid = Len(board) + 1, !.last = c.text]
           shut == Call("raced", r, Len(board) + 1, Terminal(r))
           close == Call("close", r, trace[r].mid, <<"continued", 0>>)
<1>1. PICK c \in calls, how \in How :
        /\ c.by = "rotate" /\ c.run = r
        /\ \/ calls' = After(c, how) /\ Set(r, failed)
           \/ calls' = After(c, how) \cup {shut} /\ Set(r, late) /\ trace[r].closed
           \/ calls' = After(c, how) \cup {close} /\ Set(r, moved(c)) /\ ~trace[r].closed
  BY DEF RotationAnswered, Waiting, SendNothing, Send
<1>2. \A d \in calls : d # c /\ d.run = r => d.by # "rotate" /\ Fits(d, trace[r])
  BY <1>1 DEF TaskInv, Tasked
<1>3. trace[r].rot = "posting" /\ Sound(trace[r]) /\ trace[r].phase = "live"
  BY <1>1 DEF TaskInv, Fits, Sound
<1>4. shut.by = "raced" /\ shut.run = r /\ close.by = "close" /\ close.run = r /\ close.board = trace[r].mid
  BY DEF Call
<1>5. Sound(failed) /\ \A d \in calls : d # c /\ d.run = r => Fits(d, failed) /\ d.by \notin {"raced", "close"}
  BY <1>2, <1>3, TraceShape DEF TracesIn, Sound, Fits
<1>6. ASSUME trace[r].closed
      PROVE  Sound(late) /\ Fits(shut, late) /\ Tasked(shut) /\ \A d \in calls : d # c /\ d.run = r => Fits(d, late)
  BY <1>2, <1>3, <1>4, <1>6, TraceShape DEF TracesIn, Sound, Fits, Tasked
<1>7. ASSUME ~trace[r].closed
      PROVE  Sound(moved(c)) /\ Fits(close, moved(c)) /\ Tasked(close) /\ \A d \in calls : d # c /\ d.run = r => Fits(d, moved(c))
  <2>1. trace[r].start # "posting" /\ trace[r].fin # "editing"
    BY <1>3, <1>7, TraceShape DEF Sound, TracesIn
  <2> QED
    BY <2>1, <1>2, <1>3, <1>4, <1>7, TraceShape, Lengths DEF TracesIn, Sound, Fits, Tasked, NoBoard
<1> HIDE DEF failed, late, moved, shut, close
<1> QED
  BY <1>1, <1>4, <1>5, <1>6, <1>7, AnsweredTasks, AnsweredAndSentTasks

LEMMA RotationEndsTasks ==
  ASSUME BoardInv, TaskInv, NEW r \in Run, RacedAnswered(r) \/ CloseAnswered(r)
  PROVE  TaskInv'
<1> DEFINE idle == [trace[r] EXCEPT !.rot = "idle"]
           sleeping == [trace[r] EXCEPT !.rot = "sleeping"]
<1>1. PICK c \in calls, how \in How :
        /\ c.run = r /\ calls' = After(c, how)
        /\ (c.by = "raced" /\ Set(r, idle)) \/ (c.by = "close" /\ Set(r, sleeping))
  <2>1. CASE RacedAnswered(r)
    BY <2>1 DEF RacedAnswered, Waiting, SendNothing
  <2>2. CASE CloseAnswered(r)
    BY <2>2 DEF CloseAnswered, Waiting, SendNothing
  <2> QED
    BY <2>1, <2>2
<1>2. Sound(trace[r]) /\ \A d \in calls : d # c /\ d.run = r => d.by # c.by /\ Fits(d, trace[r])
  BY <1>1 DEF TaskInv, Tasked
<1>3. Fits(c, trace[r])
  BY <1>1 DEF TaskInv
<1>4. ASSUME c.by = "raced"
      PROVE  Sound(idle) /\ \A d \in calls : d # c /\ d.run = r => Fits(d, idle)
  BY <1>2, <1>3, <1>4, TraceShape DEF TracesIn, Sound, Fits
<1>5. ASSUME c.by = "close"
      PROVE  Sound(sleeping) /\ \A d \in calls : d # c /\ d.run = r => Fits(d, sleeping)
  BY <1>2, <1>3, <1>5, TraceShape DEF TracesIn, Sound, Fits
<1> HIDE DEF idle, sleeping
<1> QED
  BY <1>1, <1>4, <1>5, AnsweredTasks

\* A step of a run after which nobody awaits the calls C.
LEMMA LosingTasks ==
  ASSUME BoardInv, TaskInv, NEW r \in Run, NEW C \in SUBSET calls, NEW t, Set(r, t), Sound(t),
         calls' = (calls \ C) \cup Lost(C), \A d \in calls \ C : d.run = r => Fits(d, t)
  PROVE  TaskInv'
<1>1. \A d \in calls' : d.run \in Run /\ (d \in calls \ C \/ d.by = "lost")
  BY LosingShape
<1>2. \A d \in calls' : d.by = "lost" => ~Tasked(d) /\ Fits(d, t)
  BY DEF Tasked, Fits
<1>3. \A d, e \in calls' : d.run = r /\ e.run = r /\ d.by = e.by /\ Tasked(d) => d = e
  BY <1>1 DEF TaskInv, Tasked
<1>4. \A d \in calls' : d.run = r => Fits(d, t)
  BY <1>1, <1>2
<1> QED
  BY <1>1, <1>2, <1>3, <1>4, TaskStep

LEMMA CloseTasks ==
  ASSUME BoardInv, TaskInv, NEW r \in Run, Close(r)
  PROVE  TaskInv'
<1> DEFINE C == {c \in calls : c.run = r /\ c.by \in {"rotate", "close"} /\ StopRotation(r) = "idle"}
           t == [trace[r] EXCEPT !.closed = TRUE, !.rot = StopRotation(r), !.fin = "rotation"]
<1>1. StopRotation(r) = IF trace[r].rot = "posting" THEN "posting" ELSE "idle"
  BY DEF StopRotation
<1>2. Sound(trace[r]) /\ trace[r].phase = "live" /\ trace[r].start = "done" /\ trace[r].fin = "start"
  BY DEF TaskInv, Close, Alive, StartAwaited
<1>3. ~trace[r].closed
  BY <1>2, TraceShape DEF Sound, TracesIn
<1>4. Sound(t)
  BY <1>1, <1>2, <1>3, TraceShape DEF TracesIn, Sound
<1>5. \A d \in calls \ C : d.run = r => Fits(d, t)
  <2> TAKE d \in calls \ C
  <2> HAVE d.run = r
  <2>1. Fits(d, trace[r]) /\ (d.by \in {"rotate", "close"} => StopRotation(r) = "posting")
    BY <1>1 DEF TaskInv
  <2> QED
    BY <2>1, <1>1, <1>2, <1>3, TraceShape DEF TracesIn, Sound, Fits
<1>6. C \in SUBSET calls /\ Set(r, t) /\ calls' = (calls \ C) \cup Lost(C)
  BY DEF Close, SendNothing
<1> HIDE DEF t, C
<1> QED
  BY <1>4, <1>5, <1>6, LosingTasks

LEMMA FinalFlushTasks ==
  ASSUME BoardInv, TaskInv, NEW r \in Run, FinalFlush(r)
  PROVE  TaskInv'
<1> DEFINE C == Waiting("flush", r)
           left == (calls \ C) \cup Lost(C)
           over == [Over(r) EXCEPT !.flush = "idle"]
           editing == [trace[r] EXCEPT !.flush = "idle", !.fin = "editing"]
           edit == Call("finish", r, trace[r].mid, Terminal(r))
<1>1. Sound(trace[r]) /\ trace[r].phase = "live" /\ trace[r].rot = "idle" /\ trace[r].fin = "rotation"
  BY DEF TaskInv, FinalFlush, Alive
<1>2. \/ trace[r].mid = NoBoard /\ calls' = left /\ Set(r, over)
      \/ trace[r].mid # NoBoard /\ calls' = left \cup {edit} /\ Set(r, editing)
  BY DEF FinalFlush, Send, SendNothing
<1>3. \A d \in calls \ C : d.run = r => d.by \notin {"flush", "finish"} /\ Fits(d, trace[r])
  BY <1>1 DEF TaskInv, Waiting, Fits
<1>4. Sound(over) /\ \A d \in calls \ C : d.run = r => Fits(d, over)
  BY <1>1, <1>3, TraceShape DEF TracesIn, Sound, Fits, Over
<1>5. trace[r].mid # NoBoard => Sound(editing)
  BY <1>1, TraceShape DEF TracesIn, Sound
<1>6. \A d \in calls \ C : d.run = r => Fits(d, editing)
  BY <1>1, <1>3, TraceShape DEF TracesIn, Fits
<1>7. edit.by = "finish" /\ edit.run = r /\ Fits(edit, editing)
  BY TraceShape DEF Call, TracesIn, Fits
<1>8. C \in SUBSET calls
  BY DEF Waiting
<1>9. CASE trace[r].mid = NoBoard
  <2> HIDE DEF C, over, editing, edit
  <2> QED
    BY <1>2, <1>4, <1>8, <1>9, LosingTasks
<1>10. CASE trace[r].mid # NoBoard
  <2> HIDE DEF C, over, editing, edit
  <2>1. calls' = left \cup {edit} /\ Set(r, editing)
    BY <1>2, <1>10
  <2>2. \A d \in left : d.run \in Run /\ (d \in calls \ C \/ d.by = "lost")
    BY <1>8, LosingShape
  <2>3. \A d \in left : d.by = "lost" => ~Tasked(d) /\ Fits(d, editing)
    BY DEF Tasked, Fits
  <2>4. \A d, e \in left \cup {edit} : d.run = r /\ e.run = r /\ d.by = e.by /\ Tasked(d) => d = e
    BY <1>3, <1>7, <2>2 DEF TaskInv, Tasked
  <2> HIDE DEF left
  <2> QED
    BY <1>5, <1>6, <1>7, <1>10, <2>1, <2>2, <2>3, <2>4, TaskStep
<1> QED
  BY <1>9, <1>10

LEMMA FinalAnsweredTasks ==
  ASSUME BoardInv, TaskInv, NEW r \in Run, FinalAnswered(r) \/ ClosingLineAnswered(r)
  PROVE  TaskInv'
<1> DEFINE over == Over(r)
           posting == [trace[r] EXCEPT !.fin = "posting"]
           line == Call("final", r, NoBoard, Terminal(r))
<1>1. PICK c \in calls, how \in How :
        /\ c.run = r /\ c.by \in {"finish", "final"}
        /\ \/ calls' = After(c, how) \cup {line} /\ Set(r, posting) /\ c.by = "finish"
           \/ calls' = After(c, how) /\ Set(r, over)
  <2>1. CASE FinalAnswered(r)
    BY <2>1 DEF FinalAnswered, Waiting, Send, SendNothing
  <2>2. CASE ClosingLineAnswered(r)
    BY <2>2 DEF ClosingLineAnswered, Waiting, SendNothing
  <2> QED
    BY <2>1, <2>2
<1>2. Sound(trace[r]) /\ Fits(c, trace[r]) /\ \A d \in calls : d # c /\ d.run = r => d.by # c.by /\ Fits(d, trace[r])
  BY <1>1 DEF TaskInv, Tasked
<1>3. trace[r].fin \in {"editing", "posting"} /\ trace[r].phase = "live"
  BY <1>1, <1>2 DEF Fits, Sound
<1>4. \A d \in calls : d # c /\ d.run = r => d.by \notin {"finish", "final"}
  BY <1>1, <1>2 DEF Fits
<1>5. Sound(over) /\ \A d \in calls : d # c /\ d.run = r => Fits(d, over)
  BY <1>2, <1>3, <1>4, TraceShape DEF TracesIn, Sound, Fits, Over
<1>6. c.by = "finish" => Sound(posting) /\ \A d \in calls : d # c /\ d.run = r => Fits(d, posting)
  BY <1>2, <1>3, <1>4, TraceShape DEF TracesIn, Sound, Fits
<1>7. line.by = "final" /\ line.run = r /\ Tasked(line) /\ Fits(line, posting)
  BY TraceShape DEF Call, Tasked, TracesIn, Fits
<1> HIDE DEF over, posting, line
<1> QED
  BY <1>1, <1>4, <1>5, <1>6, <1>7, AnsweredTasks, AnsweredAndSentTasks

\* Steps that leave the traces alone, and send calls that no trace awaits.
LEMMA UntaskedStep ==
  ASSUME TaskInv, UNCHANGED trace, \A d \in calls' : d \in calls \/ ~Tasked(d)
  PROVE  TaskInv'
<1>1. \A d \in calls' : ~Tasked(d) => Fits(d, trace[d.run])
  BY DEF Tasked, Fits
<1>2. \A c, d \in calls' : c.run = d.run /\ c.by = d.by /\ Tasked(c) => c = d
  <2> TAKE c, d \in calls'
  <2> HAVE c.run = d.run /\ c.by = d.by /\ Tasked(c)
  <2>1. Tasked(d)
    BY DEF Tasked
  <2> QED
    BY <2>1 DEF TaskInv
<1> QED
  BY <1>1, <1>2 DEF TaskInv

LEMMA RecoveryTasks ==
  ASSUME BoardInv, TaskInv, Recovery \/ Restart \/ Reconnect \/ \E c \in calls : LostLands(c)
  PROVE  TaskInv'
<1>1. UNCHANGED trace
  BY DEF Recovery, RecoverNext, RecoverAnswered, NoticeAnswered, RecoverSaves, Restart, Reconnect, LostLands
<1>2. \A d \in calls' : d \in calls \/ d.by \in {"recover", "notice", "lost"}
  <2>1. CASE Recovery
    <3>1. CASE RecoverNext
      BY <3>1 DEF RecoverNext, Send, Call
    <3>2. CASE RecoverAnswered
      BY <3>2, AfterShape DEF RecoverAnswered, Send, SendNothing, Call, Waiting
    <3>3. CASE NoticeAnswered
      BY <3>3, AfterShape DEF NoticeAnswered, SendNothing, Waiting
    <3>4. CASE RecoverSaves
      BY <3>4 DEF RecoverSaves
    <3> QED
      BY <2>1, <3>1, <3>2, <3>3, <3>4 DEF Recovery
  <2>2. CASE Restart
    BY <2>2 DEF Restart
  <2>3. CASE Reconnect
    <3>1. {c \in calls : c.by \in {"recover", "notice"}} \in SUBSET calls
      OBVIOUS
    <3> QED
      BY <2>3, <3>1, LosingShape DEF Reconnect, SendNothing
  <2>4. CASE \E c \in calls : LostLands(c)
    BY <2>4 DEF LostLands, SendNothing
  <2> QED
    BY <2>1, <2>2, <2>3, <2>4
<1> QED
  BY <1>1, <1>2, UntaskedStep DEF Tasked

LEMMA CrashTasks ==
  ASSUME BoardInv, TaskInv, Crash
  PROVE  TaskInv'
<1> DEFINE gone == [Fresh EXCEPT !.phase = "dead"]
<1>1. Sound(gone)
  BY DEF Fresh, Sound
<1>2. \A q \in Run : trace'[q] = IF trace[q].phase = "live" THEN gone ELSE trace[q]
  BY DEF Crash
<1>3. \A d \in calls' : d.by = "lost"
  <2>1. calls' = (calls \ calls) \cup Lost(calls)
    BY DEF Crash
  <2> QED
    BY <2>1, LosingShape
<1> HIDE DEF gone
<1>4. \A q \in Run : Sound(trace'[q])
  BY <1>1, <1>2 DEF TaskInv
<1> QED
  BY <1>3, <1>4 DEF TaskInv, Fits, Tasked

LEMMA TaskInductive ==
  ASSUME BoardInv, TaskInv, [Next]_vars
  PROVE  TaskInv'
<1>1. ASSUME NEW r \in Run, Begin(r) \/ Step(r) \/ RotationWakes(r) \/ EndRun(r) PROVE TaskInv'
  BY <1>1, BeginTasks, StepTasks, WakesTasks
<1>2. ASSUME NEW r \in Run, Tasks(r) PROVE TaskInv'
  BY <1>2, StartAnsweredTasks, WakesTasks, FlushAnsweredTasks, RotationAnsweredTasks, RotationEndsTasks,
     CloseTasks, FinalFlushTasks, FinalAnsweredTasks DEF Tasks
<1>3. CASE UNCHANGED vars
  BY <1>3 DEF vars, TaskInv
<1> QED
  BY <1>1, <1>2, <1>3, RecoveryTasks, CrashTasks DEF Next

-----------------------------------------------------------------------------
(* Boards and their owners *)

\* What a landing does to the boards.
LEMMA Landed ==
  ASSUME BoardInv, NEW c \in calls, Land(c)
  PROVE  /\ c.by \in {"final", "notice"} => board' = board
         /\ c.by \notin {"final", "notice"} /\ c.board = NoBoard =>
              /\ Len(board') = Len(board) + 1
              /\ \A i \in 1..Len(board) : board'[i] = board[i]
              /\ board'[Len(board) + 1] = [run |-> c.run, text |-> c.text]
         /\ c.by \notin {"final", "notice"} /\ c.board # NoBoard =>
              /\ Len(board') = Len(board) /\ c.board \in 1..Len(board)
              /\ \A i \in 1..Len(board) : board'[i] = IF i = c.board THEN [run |-> board[i].run, text |-> c.text] ELSE board[i]
<1>1. c \in CallsIn(Len(board)) /\ c.board \in 0..Len(board) /\ c.run \in Run /\ c.text \in Text
  BY DEF BoardInv, CallsIn
<1>2. board \in Seq(Board) /\ Len(board) \in Nat /\ DOMAIN board = 1..Len(board)
  BY Lengths DEF BoardInv
<1> DEFINE b == [run |-> c.run, text |-> c.text]
<1>3. b \in Board
  BY <1>1 DEF Board
<1>4. CASE c.by \in {"final", "notice"}
  BY <1>4 DEF Land
<1>5. CASE c.by \notin {"final", "notice"} /\ c.board = NoBoard
  <2>1. board' = Append(board, b)
    BY <1>5 DEF Land
  <2> HIDE DEF b
  <2>2. /\ Len(board') = Len(board) + 1
        /\ \A i \in 1..Len(board) : board'[i] = board[i]
        /\ board'[Len(board) + 1] = b
    BY <1>2, <1>3, <2>1, AppendProperties
  <2> QED
    BY <1>5, <2>2 DEF b
<1>6. CASE c.by \notin {"final", "notice"} /\ c.board # NoBoard
  <2>1. board' = [board EXCEPT ![c.board].text = c.text] /\ c.board \in 1..Len(board)
    BY <1>1, <1>2, <1>6 DEF Land, NoBoard
  <2>2. \A i \in 1..Len(board) : board'[i] = IF i = c.board THEN [board[i] EXCEPT !.text = c.text] ELSE board[i]
    BY <1>2, <2>1
  <2>3. \A i \in 1..Len(board) : [board[i] EXCEPT !.text = c.text] = [run |-> board[i].run, text |-> c.text]
    <3>1. \A i \in 1..Len(board) : board[i] \in Board
      BY <1>2
    <3> QED
      BY <3>1 DEF Board
  <2>4. Len(board') = Len(board)
    <3>1. DOMAIN board' = 1..Len(board)
      BY <1>2, <2>1
    <3>2. board' \in Seq(Board)
      BY Landing
    <3> QED
      BY <1>2, <3>1, <3>2, LenProperties
  <2> QED
    BY <1>6, <2>1, <2>2, <2>3, <2>4
<1> QED
  BY <1>4, <1>5, <1>6

\* A board keeps its run, and an answered post has one more.
LEMMA Owners ==
  ASSUME BoardInv, NEW c \in calls, NEW how \in How, Answer(c, how) \/ Land(c) \/ UNCHANGED board
  PROVE  /\ \A i \in 1..Len(board) : board'[i].run = board[i].run
         /\ Answer(c, how) /\ how = "ok" /\ c.by \in {"start", "rotate"} =>
              /\ Len(board') = Len(board) + 1
              /\ board'[Len(board) + 1] = [run |-> c.run, text |-> c.text]
<1>1. c.by \in {"start", "rotate"} => c.board = NoBoard
  BY DEF BoardInv, PostsAreNew
<1>2. CASE Land(c)
  <2>1. ASSUME NEW i \in 1..Len(board) PROVE board'[i].run = board[i].run
    <3>1. board'[i] \in {board[i], [run |-> board[i].run, text |-> c.text]}
      BY <1>2, Landed
    <3> QED
      BY <3>1
  <2>2. c.by \in {"start", "rotate"} =>
          /\ Len(board') = Len(board) + 1
          /\ board'[Len(board) + 1] = [run |-> c.run, text |-> c.text]
    BY <1>1, <1>2, Landed
  <2> QED
    BY <2>1, <2>2
<1>3. CASE UNCHANGED board /\ ~Land(c)
  BY <1>3 DEF Answer, Succeeds
<1>4. CASE Answer(c, how)
  BY <1>2, <1>4 DEF Answer, Succeeds, Fault
<1> QED
  BY <1>2, <1>3, <1>4

LEMMA OwnStep ==
  ASSUME BoardInv, OwnInv, \A i \in 1..Len(board) : board'[i].run = board[i].run,
         \A d \in calls' :
           \/ d.board = NoBoard \/ board'[d.board].run = d.run
           \/ \E e \in calls : e.run = d.run /\ e.board = d.board,
         \A q \in Run :
           /\ trace'[q].mid \in {NoBoard, trace[q].mid} \/ board'[trace'[q].mid].run = q
           /\ trace'[q].old \in {NoBoard, trace[q].mid, trace[q].old} \/ board'[trace'[q].old].run = q,
         \A x \in disk' \cup rec'.todo \cup rec'.now : x \in disk \cup rec.todo \cup rec.now \/ board'[x.board].run = x.run
  PROVE  OwnInv'
<1>1. \A d \in calls' : d.board # NoBoard => board'[d.board].run = d.run
  <2>1. \A e \in calls : e.board # NoBoard => e.board \in 1..Len(board)
    BY Lengths DEF BoardInv, CallsIn, NoBoard
  <2> QED
    BY <2>1 DEF OwnInv
<1>2. ASSUME NEW q \in Run
      PROVE  /\ trace'[q].mid # NoBoard => board'[trace'[q].mid].run = q
             /\ trace'[q].old # NoBoard => board'[trace'[q].old].run = q
  <2>1. trace[q].mid \in 0..Len(board) /\ trace[q].old \in 0..Len(board)
    BY TraceShape DEF TracesIn
  <2>2. /\ trace[q].mid # NoBoard => trace[q].mid \in 1..Len(board) /\ board[trace[q].mid].run = q
        /\ trace[q].old # NoBoard => trace[q].old \in 1..Len(board) /\ board[trace[q].old].run = q
    BY <2>1, Lengths DEF OwnInv, NoBoard
  <2> QED
    BY <2>2
<1>3. \A x \in disk' \cup rec'.todo \cup rec'.now : board'[x.board].run = x.run
  <2>1. \A x \in disk \cup rec.todo \cup rec.now : x.board \in 1..Len(board)
    BY DEF BoardInv, RecordsIn, RecoveriesIn
  <2> QED
    BY <2>1 DEF OwnInv
<1> QED
  BY <1>1, <1>2, <1>3 DEF OwnInv

\* A step that moves no trace to another board and makes no record.
LEMMA OwnedCalls ==
  ASSUME BoardInv, OwnInv, \A i \in 1..Len(board) : board'[i].run = board[i].run,
         \A d \in calls' :
           \/ d.board = NoBoard
           \/ \E e \in calls : e.run = d.run /\ e.board = d.board
           \/ d.run \in Run /\ d.board = trace[d.run].mid
           \/ \E x \in rec.todo : x.run = d.run /\ x.board = d.board,
         \A q \in Run : trace'[q].mid \in {NoBoard, trace[q].mid} /\ trace'[q].old \in {NoBoard, trace[q].old},
         disk' \subseteq disk, rec'.todo \subseteq rec.todo \cup disk, rec'.now \subseteq rec.now \cup rec.todo
  PROVE  OwnInv'
<1>1. ASSUME NEW d \in calls', d.run \in Run, d.board = trace[d.run].mid, d.board # NoBoard
      PROVE  board'[d.board].run = d.run
  <2>1. trace[d.run].mid \in 1..Len(board)
    BY <1>1, TraceShape, Lengths DEF TracesIn, NoBoard
  <2> QED
    BY <1>1, <2>1 DEF OwnInv
<1>2. ASSUME NEW d \in calls', NEW x \in rec.todo, x.run = d.run, x.board = d.board
      PROVE  board'[d.board].run = d.run
  BY <1>2 DEF OwnInv, BoardInv, RecoveriesIn, RecordsIn
<1> QED
  BY <1>1, <1>2, OwnStep

\* No trace moves to another board.
SameBoards == \A q \in Run : trace'[q].mid = trace[q].mid /\ trace'[q].old = trace[q].old

LEMMA Staying ==
  ASSUME BoardInv, NEW r \in Run, NEW t, Set(r, t), t.mid = trace[r].mid, t.old = trace[r].old
  PROVE  SameBoards
BY DEF Set, BoardInv, SameBoards

LEMMA SomeStay ==
  ASSUME BoardInv, NEW r \in Run,
         \/ Begin(r) \/ Step(r) \/ FlushWakes(r) \/ RotationWakes(r) \/ EndRun(r) \/ Close(r) \/ FinalFlush(r)
         \/ FlushAnswered(r) \/ RacedAnswered(r) \/ FinalAnswered(r) \/ ClosingLineAnswered(r)
  PROVE  SameBoards
<1> USE Staying
<1>1. CASE Begin(r)
  <2> DEFINE t == [trace[r] EXCEPT !.phase = "live", !.start = "posting"]
  <2>1. Set(r, t) /\ t.mid = trace[r].mid /\ t.old = trace[r].old
    BY <1>1, TraceShape DEF TracesIn, Begin
  <2> QED
    BY <2>1
<1>2. CASE Step(r)
  <2> DEFINE t == [trace[r] EXCEPT !.ver = @ + 1, !.flush = IF @ = "idle" THEN "sleeping" ELSE @]
  <2>1. Set(r, t) /\ t.mid = trace[r].mid /\ t.old = trace[r].old
    BY <1>2, TraceShape DEF TracesIn, Step
  <2> QED
    BY <2>1
<1>3. CASE FlushWakes(r)
  <2> DEFINE t(flush) == [trace[r] EXCEPT !.flush = flush]
  <2>1. \A flush : t(flush).mid = trace[r].mid /\ t(flush).old = trace[r].old
    BY TraceShape DEF TracesIn
  <2>2. Set(r, t("idle")) \/ Set(r, t("editing"))
    BY <1>3 DEF FlushWakes
  <2> HIDE DEF t
  <2> QED
    BY <2>1, <2>2
<1>4. CASE RotationWakes(r) \/ RacedAnswered(r)
  <2> DEFINE t(rot) == [trace[r] EXCEPT !.rot = rot]
  <2>1. \A rot : t(rot).mid = trace[r].mid /\ t(rot).old = trace[r].old
    BY TraceShape DEF TracesIn
  <2>2. Set(r, t("posting")) \/ Set(r, t("idle"))
    BY <1>4 DEF RotationWakes, RacedAnswered
  <2> HIDE DEF t
  <2> QED
    BY <2>1, <2>2
<1>5. CASE EndRun(r) \/ FinalAnswered(r) \/ ClosingLineAnswered(r)
  <2> DEFINE t(fin) == [trace[r] EXCEPT !.fin = fin]
  <2>1. /\ \A fin : t(fin).mid = trace[r].mid /\ t(fin).old = trace[r].old
        /\ Over(r).mid = trace[r].mid /\ Over(r).old = trace[r].old
    BY TraceShape DEF TracesIn, Over
  <2>2. Set(r, t("start")) \/ Set(r, t("posting")) \/ Set(r, Over(r))
    BY <1>5 DEF EndRun, FinalAnswered, ClosingLineAnswered
  <2> HIDE DEF t
  <2> QED
    BY <2>1, <2>2
<1>6. CASE Close(r)
  <2> DEFINE t == [trace[r] EXCEPT !.closed = TRUE, !.rot = StopRotation(r), !.fin = "rotation"]
  <2>1. Set(r, t) /\ t.mid = trace[r].mid /\ t.old = trace[r].old
    BY <1>6, TraceShape DEF TracesIn, Close
  <2> QED
    BY <2>1
<1>7. CASE FinalFlush(r)
  <2> DEFINE over == [Over(r) EXCEPT !.flush = "idle"]
             editing == [trace[r] EXCEPT !.flush = "idle", !.fin = "editing"]
  <2>1. /\ over.mid = trace[r].mid /\ over.old = trace[r].old
        /\ editing.mid = trace[r].mid /\ editing.old = trace[r].old
    BY TraceShape DEF TracesIn, Over
  <2>2. Set(r, over) \/ Set(r, editing)
    BY <1>7 DEF FinalFlush
  <2> HIDE DEF over, editing
  <2> QED
    BY <2>1, <2>2
<1>8. CASE FlushAnswered(r)
  <2> DEFINE t(text) == [trace[r] EXCEPT !.flush = "idle", !.last = text]
  <2>1. \A text : t(text).mid = trace[r].mid /\ t(text).old = trace[r].old
    BY TraceShape DEF TracesIn
  <2>2. PICK c \in calls, how \in How :
          Set(r, [trace[r] EXCEPT !.flush = "idle", !.last = IF how = "ok" THEN c.text ELSE @])
    BY <1>8 DEF FlushAnswered, Waiting
  <2>3. Set(r, t(c.text)) \/ Set(r, t(trace[r].last))
    BY <2>2
  <2> HIDE DEF t
  <2> QED
    BY <2>1, <2>3
<1> QED
  BY <1>1, <1>2, <1>3, <1>4, <1>5, <1>6, <1>7, <1>8

\* The step of a run that answers a call, if it does not post a board.
LEMMA AnsweredOwners ==
  ASSUME BoardInv, OwnInv, NEW r \in Run, NEW c \in calls, NEW how \in How, Answer(c, how),
         \A d \in calls' : d \in After(c, how) \/ d.board = NoBoard,
         SameBoards, disk' \subseteq disk, UNCHANGED rec
  PROVE  OwnInv'
<1>1. \A i \in 1..Len(board) : board'[i].run = board[i].run
  BY Owners
<1>2. \A d \in calls' : d.board = NoBoard \/ \E e \in calls : e.run = d.run /\ e.board = d.board
  BY AfterShape
<1> QED
  BY <1>1, <1>2, OwnedCalls DEF SameBoards

LEMMA QuietOwners ==
  ASSUME BoardInv, OwnInv, NEW r \in Run,
         Begin(r) \/ Step(r) \/ FlushWakes(r) \/ RotationWakes(r) \/ EndRun(r) \/ Close(r) \/ FinalFlush(r)
  PROVE  OwnInv'
<1>1. UNCHANGED <<board, disk, rec>>
  BY DEF Begin, Step, FlushWakes, RotationWakes, EndRun, Close, FinalFlush
<1>2. SameBoards
  BY SomeStay
<1>3. ASSUME NEW d \in calls'
      PROVE  d.board = NoBoard \/ (d.run = r /\ d.board = trace[r].mid) \/ \E e \in calls : e.run = d.run /\ e.board = d.board
  <2>1. CASE Begin(r) \/ Step(r) \/ FlushWakes(r) \/ RotationWakes(r) \/ EndRun(r)
    BY <2>1 DEF Begin, Step, FlushWakes, RotationWakes, EndRun, Send, SendNothing, Call
  <2>2. CASE Close(r)
    <3>1. {c \in calls : c.run = r /\ c.by \in {"rotate", "close"} /\ StopRotation(r) = "idle"} \in SUBSET calls
      OBVIOUS
    <3> QED
      BY <2>2, <3>1, LosingShape DEF Close, SendNothing
  <2>3. CASE FinalFlush(r)
    <3>1. Waiting("flush", r) \in SUBSET calls
      BY DEF Waiting
    <3>2. \/ d \in (calls \ Waiting("flush", r)) \cup Lost(Waiting("flush", r))
          \/ d = Call("finish", r, trace[r].mid, Terminal(r))
      BY <2>3 DEF FinalFlush, Send, SendNothing
    <3> QED
      BY <3>1, <3>2, LosingShape DEF Call
  <2> QED
    BY <2>1, <2>2, <2>3
<1> QED
  BY <1>1, <1>2, <1>3, OwnedCalls DEF SameBoards

LEMMA AnswerOwners ==
  ASSUME BoardInv, OwnInv, NEW r \in Run,
         FlushAnswered(r) \/ RacedAnswered(r) \/ FinalAnswered(r) \/ ClosingLineAnswered(r)
  PROVE  OwnInv'
<1>1. PICK c \in calls, how \in How : Answer(c, how) /\ \A d \in calls' : d \in After(c, how) \/ d.board = NoBoard
  <2>1. CASE FlushAnswered(r)
    BY <2>1 DEF FlushAnswered, Waiting, SendNothing
  <2>2. CASE RacedAnswered(r)
    BY <2>2 DEF RacedAnswered, Waiting, SendNothing
  <2>3. CASE FinalAnswered(r)
    BY <2>3 DEF FinalAnswered, Waiting, Send, SendNothing, Call
  <2>4. CASE ClosingLineAnswered(r)
    BY <2>4 DEF ClosingLineAnswered, Waiting, SendNothing
  <2> QED
    BY <2>1, <2>2, <2>3, <2>4
<1>2. disk' \subseteq disk /\ UNCHANGED rec
  BY DEF FlushAnswered, RacedAnswered, FinalAnswered, ClosingLineAnswered, Forget
<1> QED
  BY <1>1, <1>2, SomeStay, AnsweredOwners

LEMMA StartOwners ==
  ASSUME BoardInv, OwnInv, NEW r \in Run, StartAnswered(r)
  PROVE  OwnInv'
<1> DEFINE on(c) == [trace[r] EXCEPT !.start = "done", !.mid = Len(board) + 1, !.last = c.text, !.rot = "sleeping"]
           off == [trace[r] EXCEPT !.start = "done"]
<1>1. PICK c \in calls, how \in How :
        /\ c.by = "start" /\ c.run = r /\ Answer(c, how) /\ calls' = After(c, how) /\ UNCHANGED rec
        /\ \/ how = "ok" /\ Set(r, on(c)) /\ disk' = disk \cup {[run |-> r, board |-> Len(board) + 1]}
           \/ Set(r, off) /\ disk' = disk
  BY DEF StartAnswered, Waiting, SendNothing, Keep
<1>2. /\ on(c).mid = Len(board) + 1 /\ on(c).old = trace[r].old
      /\ off.mid = trace[r].mid /\ off.old = trace[r].old
  BY TraceShape DEF TracesIn
<1> HIDE DEF on, off
<1>3. CASE how = "ok" /\ Set(r, on(c)) /\ disk' = disk \cup {[run |-> r, board |-> Len(board) + 1]}
  <2>1. (\A i \in 1..Len(board) : board'[i].run = board[i].run) /\ board'[Len(board) + 1].run = r
    <3>1. board'[Len(board) + 1] = [run |-> c.run, text |-> c.text]
      BY <1>1, <1>3, Owners
    <3> QED
      BY <1>1, <3>1, Owners
  <2>2. \A d \in calls' : d.board = NoBoard \/ \E e \in calls : e.run = d.run /\ e.board = d.board
    BY <1>1, AfterShape
  <2>3. \A q \in Run : /\ trace'[q].mid = trace[q].mid \/ (q = r /\ trace'[q].mid = Len(board) + 1)
                       /\ trace'[q].old = trace[q].old
    BY <1>2, <1>3 DEF Set, BoardInv
  <2> QED
    BY <1>1, <1>3, <2>1, <2>2, <2>3, OwnStep
<1>4. CASE Set(r, off) /\ disk' = disk
  BY <1>1, <1>2, <1>4, Staying, AnsweredOwners
<1> QED
  BY <1>1, <1>3, <1>4

LEMMA RotationOwners ==
  ASSUME BoardInv, OwnInv, NEW r \in Run, RotationAnswered(r)
  PROVE  OwnInv'
<1> DEFINE failed == [trace[r] EXCEPT !.rot = IF trace[r].closed THEN "idle" ELSE "sleeping"]
           late == [trace[r] EXCEPT !.rot = "raced"]
           moved(c) == [trace[r] EXCEPT !.rot = "closing", !.old = trace[r].mid,
                                     !.mid = Len(board) + 1, !.last = c.text]
           shut == Call("raced", r, Len(board) + 1, Terminal(r))
           close == Call("close", r, trace[r].mid, <<"continued", 0>>)
<1>1. PICK c \in calls, how \in How :
        /\ c.by = "rotate" /\ c.run = r /\ Answer(c, how) /\ UNCHANGED <<disk, rec>>
        /\ \/ calls' = After(c, how) /\ Set(r, failed)
           \/ how = "ok" /\ calls' = After(c, how) \cup {shut} /\ Set(r, late)
           \/ how = "ok" /\ calls' = After(c, how) \cup {close} /\ Set(r, moved(c))
  BY DEF RotationAnswered, Waiting, SendNothing, Send
<1>2. /\ failed.mid = trace[r].mid /\ failed.old = trace[r].old /\ late.mid = trace[r].mid /\ late.old = trace[r].old
      /\ moved(c).mid = Len(board) + 1 /\ moved(c).old = trace[r].mid
      /\ shut.run = r /\ shut.board = Len(board) + 1 /\ close.run = r /\ close.board = trace[r].mid
  BY TraceShape DEF TracesIn, Call
<1> HIDE DEF failed, late, moved, shut, close
<1>3. CASE calls' = After(c, how) /\ Set(r, failed)
  BY <1>1, <1>2, <1>3, Staying, AnsweredOwners
<1>4. CASE /\ how = "ok"
           /\ \/ calls' = After(c, how) \cup {shut} /\ Set(r, late)
              \/ calls' = After(c, how) \cup {close} /\ Set(r, moved(c))
  <2>1. (\A i \in 1..Len(board) : board'[i].run = board[i].run) /\ board'[Len(board) + 1].run = r
    <3>1. board'[Len(board) + 1] = [run |-> c.run, text |-> c.text]
      BY <1>1, <1>4, Owners
    <3> QED
      BY <1>1, <3>1, Owners
  <2>2. \A d \in After(c, how) : \E e \in calls : e.run = d.run /\ e.board = d.board
    BY <1>1, AfterShape
  <2>3. close.board = NoBoard \/ board'[close.board].run = close.run
    <3>1. trace[r].mid # NoBoard => trace[r].mid \in 1..Len(board) /\ board[trace[r].mid].run = r
      BY TraceShape, Lengths DEF TracesIn, NoBoard, OwnInv
    <3> QED
      BY <1>2, <2>1, <3>1
  <2>4. \A d \in calls' :
           \/ d.board = NoBoard \/ board'[d.board].run = d.run
           \/ \E e \in calls : e.run = d.run /\ e.board = d.board
    BY <1>2, <1>4, <2>1, <2>2, <2>3
  <2>5. \A q \in Run : /\ trace'[q].mid = trace[q].mid \/ (q = r /\ trace'[q].mid = Len(board) + 1)
                       /\ trace'[q].old \in {trace[q].old, trace[q].mid}
    BY <1>2, <1>4 DEF Set, BoardInv
  <2> QED
    BY <1>1, <2>1, <2>4, <2>5, OwnStep
<1> QED
  BY <1>1, <1>3, <1>4

LEMMA CloseAnsweredOwners ==
  ASSUME BoardInv, OwnInv, NEW r \in Run, CloseAnswered(r)
  PROVE  OwnInv'
<1> DEFINE t == [trace[r] EXCEPT !.rot = "sleeping"]
<1>1. PICK c \in calls, how \in How : Answer(c, how) /\ calls' = After(c, how)
  BY DEF CloseAnswered, Waiting, SendNothing
<1>2. t.mid = trace[r].mid /\ t.old = trace[r].old
  BY TraceShape DEF TracesIn
<1>3. Set(r, t) /\ disk' \subseteq disk \cup {[run |-> r, board |-> trace[r].mid]} /\ UNCHANGED rec /\ trace[r].rot = "closing"
  BY DEF CloseAnswered, Moved, Forget
<1> HIDE DEF t
<1>4. trace[r].mid \in 1..Len(board) /\ board[trace[r].mid].run = r
  BY <1>3, TraceShape, Lengths DEF TracesIn, NoBoard, OwnInv, BoardInv, ClosersHaveABoard
<1>5. \A i \in 1..Len(board) : board'[i].run = board[i].run
  BY <1>1, Owners
<1>6. \A d \in calls' : \E e \in calls : e.run = d.run /\ e.board = d.board
  BY <1>1, AfterShape
<1>7. \A q \in Run : trace'[q].mid = trace[q].mid /\ trace'[q].old = trace[q].old
  BY <1>2, <1>3 DEF Set, BoardInv
<1> QED
  BY <1>3, <1>4, <1>5, <1>6, <1>7, OwnStep

LEMMA RecoveryOwners ==
  ASSUME BoardInv, OwnInv, Recovery \/ Restart \/ Reconnect \/ Crash \/ \E c \in calls : LostLands(c)
  PROVE  OwnInv'
<1>1. CASE RecoverNext
  <2>1. UNCHANGED <<trace, board, disk>>
    BY <1>1 DEF RecoverNext
  <2>2. PICK x \in rec.todo : rec'.todo = rec.todo \ {x} /\ rec'.now = {x} /\ calls' = calls \cup {Call("recover", x.run, x.board, <<"cancelled", 0>>)}
    BY <1>1 DEF RecoverNext, Send
  <2> QED
    BY <2>1, <2>2, OwnedCalls DEF Call
<1>2. CASE RecoverAnswered \/ NoticeAnswered
  <2>1. PICK c \in calls, how \in How : Answer(c, how) /\ \A d \in calls' : d \in After(c, how) \/ d.board = NoBoard
    BY <1>2 DEF RecoverAnswered, NoticeAnswered, Waiting, Send, SendNothing, Call
  <2>2. UNCHANGED <<trace, disk>> /\ rec'.todo \subseteq rec.todo /\ rec'.now \subseteq rec.now
    <3>1. rec \in RecoveriesIn(Len(board))
      BY DEF BoardInv
    <3> QED
      BY <1>2, <3>1 DEF RecoverAnswered, NoticeAnswered, RecoveriesIn
  <2>3. \A i \in 1..Len(board) : board'[i].run = board[i].run
    BY <2>1, Owners
  <2>4. \A d \in calls' : d.board = NoBoard \/ \E e \in calls : e.run = d.run /\ e.board = d.board
    BY <2>1, AfterShape
  <2> QED
    BY <2>2, <2>3, <2>4, OwnedCalls
<1>3. CASE RecoverSaves \/ Restart
  <2>1. UNCHANGED <<trace, board, calls>> /\ disk' \subseteq disk /\ rec'.todo \subseteq disk /\ rec'.now = {}
    BY <1>3 DEF RecoverSaves, Restart, Saved, Off, Load
  <2> QED
    BY <2>1, OwnedCalls
<1>4. CASE Reconnect \/ Crash
  <2>1. UNCHANGED <<board, disk>> /\ rec'.todo \subseteq disk /\ rec'.now = {}
    BY <1>4 DEF Reconnect, Crash, Off, Load
  <2>2. ASSUME NEW d \in calls' PROVE \E e \in calls : e.run = d.run /\ e.board = d.board
    <3>1. PICK C \in SUBSET calls : calls' = (calls \ C) \cup Lost(C)
      <4>1. CASE Crash
        <5>1. calls' = (calls \ calls) \cup Lost(calls)
          BY <4>1 DEF Crash
        <5> QED
          BY <5>1
      <4>2. CASE Reconnect
        BY <4>2 DEF Reconnect, SendNothing
      <4> QED
        BY <1>4, <4>1, <4>2
    <3> QED
      BY <3>1, LosingShape
  <2>3. \A q \in Run : trace'[q].mid \in {NoBoard, trace[q].mid} /\ trace'[q].old \in {NoBoard, trace[q].old}
    <3>1. [Fresh EXCEPT !.phase = "dead"].mid = NoBoard /\ [Fresh EXCEPT !.phase = "dead"].old = NoBoard
      BY DEF Fresh
    <3> QED
      BY <1>4, <3>1 DEF Reconnect, Crash
  <2> QED
    BY <2>1, <2>2, <2>3, OwnedCalls
<1>5. CASE \E c \in calls : LostLands(c)
  <2>1. PICK c \in calls : LostLands(c)
    BY <1>5
  <2>2. UNCHANGED <<trace, disk, rec>> /\ calls' = calls \ {c} /\ (Land(c) \/ UNCHANGED board)
    BY <2>1 DEF LostLands, SendNothing
  <2>3. \A i \in 1..Len(board) : board'[i].run = board[i].run
    <3>1. "ok" \in How
      BY DEF How
    <3> QED
      BY <2>2, <3>1, Owners
  <2> QED
    BY <2>2, <2>3, OwnedCalls
<1> QED
  BY <1>1, <1>2, <1>3, <1>4, <1>5 DEF Recovery

LEMMA OwnInductive ==
  ASSUME BoardInv, OwnInv, [Next]_vars
  PROVE  OwnInv'
<1>1. ASSUME NEW r \in Run, Begin(r) \/ Step(r) \/ RotationWakes(r) \/ EndRun(r) PROVE OwnInv'
  BY <1>1, QuietOwners
<1>2. ASSUME NEW r \in Run, Tasks(r) PROVE OwnInv'
  BY <1>2, StartOwners, QuietOwners, AnswerOwners, RotationOwners, CloseAnsweredOwners DEF Tasks
<1>3. CASE UNCHANGED vars
  BY <1>3 DEF vars, OwnInv
<1> QED
  BY <1>1, <1>2, <1>3, RecoveryOwners DEF Next

-----------------------------------------------------------------------------
(* The record file *)

LEMMA FileStep ==
  ASSUME BoardInv, FileInv, NEW r \in Run, NEW t, Set(r, t), cut \subseteq cut', robbed' = robbed,
         \A x \in disk \cup disk' : x.run # r => (x \in disk <=> x \in disk'),
         r \notin cut' =>
           /\ t.phase \in {"new", "ended"} => Recs(r)' = {}
           /\ t.phase = "live" => \A x \in Recs(r)' : x.board = Kept(t)
           /\ t.phase = "live" /\ t.mid # NoBoard /\ r \notin robbed => Recs(r)' # {}
  PROVE  FileInv'
<1>1. trace'[r] = t /\ \A q \in Run : q # r => trace'[q] = trace[q]
  BY DEF Set, BoardInv
<1>2. ASSUME NEW q \in Run, q # r PROVE Recs(q)' = Recs(q)
  BY <1>2 DEF Recs
<1>3. ASSUME NEW q \in Run \ cut' PROVE FileOf(q)'
  <2>1. CASE q = r
    BY <1>1, <2>1 DEF FileOf
  <2>2. CASE q # r
    <3>1. FileOf(q) /\ trace'[q] = trace[q] /\ Recs(q)' = Recs(q)
      BY <1>1, <1>2, <2>2 DEF FileInv
    <3> QED
      BY <3>1 DEF FileOf
  <2> QED
    BY <2>1, <2>2
<1> QED
  BY <1>3 DEF FileInv

\* A step of a live run that touches no record.
LEMMA UnfiledStep ==
  ASSUME BoardInv, FileInv, NEW r \in Run, NEW t, Set(r, t), cut \subseteq cut', UNCHANGED <<robbed, disk>>,
         trace[r].phase = "live", t.phase = "live",
         r \notin cut' => Kept(t) = Kept(trace[r]) /\ t.mid = trace[r].mid
  PROVE  FileInv'
<1>1. Recs(r)' = Recs(r)
  BY DEF Recs
<1>2. r \notin cut' => FileOf(r)
  BY DEF FileInv
<1> QED
  BY <1>1, <1>2, FileStep DEF FileOf

LEMMA LivingFiles ==
  ASSUME BoardInv, TaskInv, FileInv, NEW r \in Run,
         \/ Begin(r) \/ Step(r) \/ FlushWakes(r) \/ RotationWakes(r) \/ EndRun(r) \/ Close(r)
         \/ FlushAnswered(r) \/ RacedAnswered(r)
  PROVE  FileInv'
<1> USE TraceShape DEF TracesIn
<1>1. CASE Begin(r)
  <2> DEFINE t == [trace[r] EXCEPT !.phase = "live", !.start = "posting"]
  <2>1. Set(r, t) /\ t.phase = "live" /\ t.mid = NoBoard /\ UNCHANGED <<disk, cut, robbed>> /\ trace[r].phase = "new"
    BY <1>1 DEF Begin, Rest, TaskInv, Sound
  <2>2. r \notin cut' => Recs(r)' = {}
    BY <2>1 DEF FileInv, FileOf, Recs
  <2> HIDE DEF t
  <2> QED
    BY <2>1, <2>2, FileStep
<1>2. CASE Step(r)
  <2> DEFINE t == [trace[r] EXCEPT !.ver = @ + 1, !.flush = IF @ = "idle" THEN "sleeping" ELSE @]
  <2>1. /\ Set(r, t) /\ t.phase = "live" /\ trace[r].phase = "live" /\ t.mid = trace[r].mid /\ Kept(t) = Kept(trace[r])
        /\ UNCHANGED <<disk, cut, robbed>>
    BY <1>2 DEF Step, Alive, Kept
  <2> HIDE DEF t
  <2> QED
    BY <2>1, UnfiledStep
<1>3. CASE FlushWakes(r)
  <2> DEFINE t(flush) == [trace[r] EXCEPT !.flush = flush]
  <2>1. trace[r].phase = "live" /\ UNCHANGED <<disk, cut, robbed>> /\ (Set(r, t("idle")) \/ Set(r, t("editing")))
    BY <1>3 DEF FlushWakes, Alive, Rest
  <2>2. \A flush : t(flush).phase = trace[r].phase /\ t(flush).mid = trace[r].mid /\ Kept(t(flush)) = Kept(trace[r])
    BY DEF Kept
  <2> HIDE DEF t
  <2> QED
    BY <2>1, <2>2, UnfiledStep
<1>4. CASE RotationWakes(r) \/ RacedAnswered(r)
  <2> DEFINE t(rot) == [trace[r] EXCEPT !.rot = rot]
  <2>1. /\ trace[r].phase = "live" /\ UNCHANGED <<disk, cut, robbed>> /\ trace[r].rot # "closing"
        /\ Set(r, t("posting")) \/ Set(r, t("idle"))
    BY <1>4 DEF RotationWakes, RacedAnswered, Alive, Rest, TaskInv, Fits, Waiting
  <2>2. \A rot \in {"idle", "posting"} :
          t(rot).phase = trace[r].phase /\ t(rot).mid = trace[r].mid /\ Kept(t(rot)) = trace[r].mid
    BY DEF Kept
  <2>3. Kept(trace[r]) = trace[r].mid
    BY <2>1 DEF Kept
  <2> HIDE DEF t
  <2> QED
    BY <2>1, <2>2, <2>3, UnfiledStep
<1>5. CASE EndRun(r)
  <2> DEFINE t == [trace[r] EXCEPT !.fin = "start"]
  <2>1. /\ Set(r, t) /\ t.phase = "live" /\ trace[r].phase = "live" /\ t.mid = trace[r].mid /\ Kept(t) = Kept(trace[r])
        /\ UNCHANGED <<disk, cut, robbed>>
    BY <1>5 DEF EndRun, Alive, Kept, Rest
  <2> HIDE DEF t
  <2> QED
    BY <2>1, UnfiledStep
<1>6. CASE Close(r)
  <2> DEFINE t == [trace[r] EXCEPT !.closed = TRUE, !.rot = StopRotation(r), !.fin = "rotation"]
  <2>1. /\ Set(r, t) /\ trace[r].phase = "live" /\ UNCHANGED <<disk, robbed>> /\ cut \subseteq cut'
        /\ trace[r].rot = "closing" => r \in cut'
    BY <1>6 DEF Close, Alive, Rest
  <2>2. t.phase = "live" /\ t.mid = trace[r].mid /\ t.rot = StopRotation(r) /\ StopRotation(r) # "closing"
    BY <2>1 DEF StopRotation
  <2>3. r \notin cut' => Kept(t) = Kept(trace[r])
    BY <2>1, <2>2 DEF Kept
  <2> HIDE DEF t
  <2> QED
    BY <2>1, <2>2, <2>3, UnfiledStep
<1>7. CASE FlushAnswered(r)
  <2> DEFINE t(text) == [trace[r] EXCEPT !.flush = "idle", !.last = text]
  <2>1. \A text : t(text).phase = trace[r].phase /\ t(text).mid = trace[r].mid /\ Kept(t(text)) = Kept(trace[r])
    BY DEF Kept
  <2>2. PICK c \in calls, how \in How :
          Set(r, [trace[r] EXCEPT !.flush = "idle", !.last = IF how = "ok" THEN c.text ELSE @])
    BY <1>7 DEF FlushAnswered, Waiting
  <2>3. Set(r, t(c.text)) \/ Set(r, t(trace[r].last))
    BY <2>2
  <2>4. trace[r].phase = "live" /\ UNCHANGED <<disk, cut, robbed>>
    BY <1>7 DEF FlushAnswered, Alive, Rest
  <2> HIDE DEF t
  <2> QED
    BY <2>1, <2>3, <2>4, UnfiledStep
<1> QED
  BY <1>1, <1>2, <1>3, <1>4, <1>5, <1>6, <1>7

LEMMA StartFiles ==
  ASSUME BoardInv, TaskInv, FileInv, NEW r \in Run, StartAnswered(r)
  PROVE  FileInv'
<1> DEFINE on(c) == [trace[r] EXCEPT !.start = "done", !.mid = Len(board) + 1, !.last = c.text, !.rot = "sleeping"]
           off == [trace[r] EXCEPT !.start = "done"]
           x == [run |-> r, board |-> Len(board) + 1]
<1>1. PICK c \in calls :
        /\ c.by = "start" /\ c.run = r
        /\ \/ Set(r, on(c)) /\ disk' = disk \cup {x}
           \/ Set(r, off) /\ disk' = disk
  BY DEF StartAnswered, Waiting, Keep
<1>2. trace[r].phase = "live" /\ trace[r].mid = NoBoard /\ trace[r].rot = "idle" /\ UNCHANGED <<cut, robbed>>
  BY <1>1 DEF TaskInv, Fits, Sound, StartAnswered, Alive, Rest
<1>3. r \notin cut => Recs(r) = {}
  <2>1. \A y \in Recs(r) : y.board # NoBoard
    BY DEF BoardInv, RecordsIn, Recs, NoBoard
  <2> QED
    BY <1>2, <2>1 DEF FileInv, FileOf, Kept
<1>4. /\ on(c).phase = "live" /\ on(c).mid = Len(board) + 1 /\ Kept(on(c)) = Len(board) + 1
      /\ off.phase = "live" /\ off.mid = NoBoard /\ Kept(off) = NoBoard /\ Kept(trace[r]) = NoBoard
  BY <1>2, TraceShape DEF TracesIn, Kept
<1> HIDE DEF on, off
<1>5. CASE Set(r, on(c)) /\ disk' = disk \cup {x}
  <2>1. r \notin cut => Recs(r)' = {x}
    BY <1>3, <1>5 DEF Recs
  <2>2. \A y \in disk \cup disk' : y.run # r => (y \in disk <=> y \in disk')
    BY <1>5
  <2>3. r \notin cut => Recs(r)' # {} /\ \A y \in Recs(r)' : y.board = Kept(on(c))
    <3>1. x.board = Kept(on(c))
      BY <1>4
    <3> HIDE DEF x
    <3> QED
      BY <2>1, <3>1
  <2> QED
    BY <1>2, <1>4, <1>5, <2>2, <2>3, FileStep
<1>6. CASE Set(r, off) /\ disk' = disk
  BY <1>2, <1>4, <1>6, UnfiledStep
<1> QED
  BY <1>1, <1>5, <1>6

LEMMA RotationFiles ==
  ASSUME BoardInv, TaskInv, FileInv, NEW r \in Run, RotationAnswered(r) \/ CloseAnswered(r)
  PROVE  FileInv'
<1>1. CASE RotationAnswered(r)
  <2> DEFINE failed == [trace[r] EXCEPT !.rot = IF trace[r].closed THEN "idle" ELSE "sleeping"]
             late == [trace[r] EXCEPT !.rot = "raced"]
             moved(c) == [trace[r] EXCEPT !.rot = "closing", !.old = trace[r].mid,
                                          !.mid = Len(board) + 1, !.last = c.text]
  <2>1. PICK c \in calls : c.by = "rotate" /\ c.run = r /\ (Set(r, failed) \/ Set(r, late) \/ Set(r, moved(c)))
    BY <1>1 DEF RotationAnswered, Waiting
  <2>2. /\ trace[r].phase = "live" /\ trace[r].rot = "posting" /\ trace[r].mid # NoBoard
        /\ UNCHANGED <<disk, cut, robbed>>
    BY <1>1, <2>1 DEF TaskInv, Fits, Sound, RotationAnswered, Alive, Rest
  <2>3. /\ Kept(trace[r]) = trace[r].mid
        /\ failed.phase = "live" /\ failed.mid = trace[r].mid /\ Kept(failed) = trace[r].mid
        /\ late.phase = "live" /\ late.mid = trace[r].mid /\ Kept(late) = trace[r].mid
        /\ moved(c).phase = "live" /\ Kept(moved(c)) = trace[r].mid
    BY <2>2, TraceShape DEF TracesIn, Kept
  <2> HIDE DEF failed, late, moved
  <2>4. CASE Set(r, failed) \/ Set(r, late)
    BY <2>2, <2>3, <2>4, UnfiledStep
  <2>5. CASE Set(r, moved(c))
    <3>1. Recs(r)' = Recs(r) /\ (r \notin cut => FileOf(r))
      BY <2>2 DEF Recs, FileInv
    <3> QED
      BY <2>2, <2>3, <2>5, <3>1, FileStep DEF FileOf
  <2> QED
    BY <2>1, <2>4, <2>5
<1>2. CASE CloseAnswered(r)
  <2> DEFINE t == [trace[r] EXCEPT !.rot = "sleeping"]
             x == [run |-> r, board |-> trace[r].mid]
  <2>1. /\ Set(r, t) /\ disk' = Forget(r, trace[r].old) \cup {x} /\ UNCHANGED <<cut, robbed>>
        /\ trace[r].phase = "live" /\ trace[r].rot = "closing"
    BY <1>2 DEF CloseAnswered, Moved, Alive, Rest
  <2>2. t.phase = "live" /\ t.mid = trace[r].mid /\ Kept(t) = trace[r].mid /\ Kept(trace[r]) = trace[r].old
    BY <2>1, TraceShape DEF TracesIn, Kept
  <2>3. r \notin cut => Recs(r)' = {x}
    <3>1. r \notin cut => \A y \in Recs(r) : y = [run |-> r, board |-> trace[r].old]
      BY <2>1, <2>2 DEF FileInv, FileOf, Recs, BoardInv, RecordsIn
    <3> QED
      BY <2>1, <3>1 DEF Recs, Forget
  <2>4. \A y \in disk \cup disk' : y.run # r => (y \in disk <=> y \in disk')
    BY <2>1 DEF Forget
  <2>5. r \notin cut => Recs(r)' # {} /\ \A y \in Recs(r)' : y.board = Kept(t)
    <3>1. x.board = Kept(t)
      BY <2>2
    <3> HIDE DEF x, t
    <3> QED
      BY <2>3, <3>1
  <2> HIDE DEF t, x
  <2> QED
    BY <2>1, <2>2, <2>4, <2>5, FileStep
<1> QED
  BY <1>1, <1>2

LEMMA EndingFiles ==
  ASSUME BoardInv, TaskInv, FileInv, NEW r \in Run, FinalFlush(r) \/ FinalAnswered(r) \/ ClosingLineAnswered(r)
  PROVE  FileInv'
<1> DEFINE over == [Over(r) EXCEPT !.flush = "idle"]
           editing == [trace[r] EXCEPT !.flush = "idle", !.fin = "editing"]
           posting == [trace[r] EXCEPT !.fin = "posting"]
<1>1. trace[r].phase = "live" /\ trace[r].rot = "idle" /\ UNCHANGED <<cut, robbed>>
  BY DEF FinalFlush, FinalAnswered, ClosingLineAnswered, Alive, Rest, Waiting, TaskInv, Fits, Sound
<1>2. r \notin cut => \A x \in Recs(r) : x = [run |-> r, board |-> trace[r].mid]
  BY <1>1 DEF FileInv, FileOf, Recs, BoardInv, RecordsIn, Kept
<1>3. /\ over.phase = "ended" /\ Over(r).phase = "ended"
      /\ editing.phase = "live" /\ editing.mid = trace[r].mid /\ Kept(editing) = Kept(trace[r])
      /\ posting.phase = "live" /\ posting.mid = trace[r].mid /\ Kept(posting) = Kept(trace[r])
  BY <1>1, TraceShape DEF TracesIn, Kept, Over
<1>4. \/ (Set(r, editing) \/ Set(r, posting)) /\ disk' = disk
      \/ Set(r, over) /\ disk' = disk /\ trace[r].mid = NoBoard
      \/ Set(r, Over(r)) /\ disk' = Forget(r, trace[r].mid)
  BY DEF FinalFlush, FinalAnswered, ClosingLineAnswered
<1> HIDE DEF over, editing, posting
<1>5. CASE (Set(r, editing) \/ Set(r, posting)) /\ disk' = disk
  BY <1>1, <1>3, <1>5, UnfiledStep
<1>6. CASE Set(r, over) /\ disk' = disk /\ trace[r].mid = NoBoard
  <2>1. r \notin cut => Recs(r)' = {}
    BY <1>2, <1>6 DEF Recs, BoardInv, RecordsIn, NoBoard
  <2> QED
    BY <1>1, <1>3, <1>6, <2>1, FileStep
<1>7. CASE Set(r, Over(r)) /\ disk' = Forget(r, trace[r].mid)
  <2>1. r \notin cut => Recs(r)' = {}
    BY <1>2, <1>7 DEF Recs, Forget
  <2>2. \A y \in disk \cup disk' : y.run # r => (y \in disk <=> y \in disk')
    BY <1>7 DEF Forget
  <2> QED
    BY <1>1, <1>3, <1>7, <2>1, <2>2, FileStep
<1> QED
  BY <1>4, <1>5, <1>6, <1>7

LEMMA RecoveryFiles ==
  ASSUME BoardInv, FileInv, Recovery \/ Restart \/ Reconnect \/ Crash \/ \E c \in calls : LostLands(c)
  PROVE  FileInv'
<1>1. CASE RecoverSaves
  <2>1. \A q \in Run : Recs(q)' = {} /\ trace'[q] = trace[q] /\ cut' = cut
    BY <1>1 DEF RecoverSaves, Saved, Recs
  <2>2. \A q \in Run : trace[q].phase = "live" /\ q \notin robbed' => q \notin robbed /\ Recs(q) = {}
    BY <1>1 DEF RecoverSaves, Recs
  <2> QED
    BY <2>1, <2>2 DEF FileInv, FileOf
<1>2. CASE Crash
  <2>1. [Fresh EXCEPT !.phase = "dead"].phase = "dead"
    BY DEF Fresh
  <2>2. \A q \in Run : /\ trace'[q].phase = "dead" \/ (trace'[q] = trace[q] /\ trace[q].phase # "live")
                       /\ Recs(q)' = Recs(q)
    BY <1>2, <2>1 DEF Crash, Recs
  <2>3. cut \subseteq cut'
    BY <1>2 DEF Crash
  <2> QED
    BY <2>2, <2>3 DEF FileInv, FileOf
<1>3. CASE \/ RecoverNext \/ RecoverAnswered \/ NoticeAnswered \/ Restart \/ Reconnect \/ \E c \in calls : LostLands(c)
  <2>1. UNCHANGED <<trace, disk, cut, robbed>>
    BY <1>3 DEF RecoverNext, RecoverAnswered, NoticeAnswered, Restart, Reconnect, LostLands, Rest
  <2> QED
    BY <2>1 DEF FileInv, FileOf, Recs
<1> QED
  BY <1>1, <1>2, <1>3 DEF Recovery

LEMMA FileInductive ==
  ASSUME BoardInv, TaskInv, FileInv, [Next]_vars
  PROVE  FileInv'
<1>1. ASSUME NEW r \in Run, Begin(r) \/ Step(r) \/ RotationWakes(r) \/ EndRun(r) PROVE FileInv'
  BY <1>1, LivingFiles
<1>2. ASSUME NEW r \in Run, Tasks(r) PROVE FileInv'
  BY <1>2, StartFiles, LivingFiles, RotationFiles, EndingFiles DEF Tasks
<1>3. CASE UNCHANGED vars
  BY <1>3 DEF vars, FileInv, FileOf, Recs
<1> QED
  BY <1>1, <1>2, <1>3, RecoveryFiles DEF Next

-----------------------------------------------------------------------------
(* Boards that read Working *)

\* What a landing does to them.
LEMMA WorkingAfter ==
  ASSUME BoardInv, OwnInv, NEW c \in calls, Land(c)
  PROVE  /\ \A q \in Run : q # c.run => Working(q)' \subseteq Working(q)
         /\ ~Works(c) => Working(c.run)' \subseteq Working(c.run)
         /\ \A i \in Working(c.run)' \ Working(c.run) : i = IF c.board = NoBoard THEN Len(board) + 1 ELSE c.board
         /\ ~Works(c) /\ c.by \notin {"final", "notice"} => c.board \notin Working(c.run)'
<1>1. /\ DOMAIN board = 1..Len(board) /\ Len(board) \in Nat
      /\ DOMAIN board' = 1..Len(board') /\ Len(board') \in Nat
  BY Lengths, Landing, LenProperties
<1>2. c.board # NoBoard => board[c.board].run = c.run
  BY DEF OwnInv
<1>3. CASE c.by \in {"final", "notice"}
  <2>1. board' = board
    BY <1>3, Landed
  <2> QED
    BY <1>3, <2>1 DEF Working
<1>4. CASE c.by \notin {"final", "notice"} /\ c.board = NoBoard
  <2>1. /\ Len(board') = Len(board) + 1
        /\ \A i \in 1..Len(board) : board'[i] = board[i]
        /\ board'[Len(board) + 1] = [run |-> c.run, text |-> c.text]
    BY <1>4, Landed
  <2>2. 0 \notin DOMAIN board'
    BY <1>1
  <2> QED
    BY <1>1, <1>4, <2>1, <2>2 DEF Working, Works, NoBoard
<1>5. CASE c.by \notin {"final", "notice"} /\ c.board # NoBoard
  <2>1. /\ Len(board') = Len(board) /\ c.board \in 1..Len(board)
        /\ \A i \in 1..Len(board) : board'[i] = IF i = c.board THEN [run |-> board[i].run, text |-> c.text] ELSE board[i]
    BY <1>5, Landed
  <2>2. board'[c.board] = [run |-> c.run, text |-> c.text] /\ \A i \in 1..Len(board) : i # c.board => board'[i] = board[i]
    BY <1>2, <1>5, <2>1
  <2> QED
    BY <1>1, <1>2, <1>5, <2>1, <2>2 DEF Working, Works
<1> QED
  BY <1>3, <1>4, <1>5

\* The texts of calls that do not say Working stay what they are.
LEMMA TextsInductive ==
  ASSUME BoardInv, TextsInv, [Next]_vars
  PROVE  TextsInv'
<1> DEFINE Plain(d) == d.by \in {"raced", "close", "finish", "final", "recover", "notice"} => ~Works(d)
<1>1. SUFFICES ASSUME NEW d \in calls', d \notin calls, d.by # "lost" PROVE Plain(d)
  BY DEF TextsInv
<1>2. ASSUME NEW by, NEW r, NEW b, NEW x, x[1] # "working", d = Call(by, r, b, x)
      PROVE  Plain(d)
  BY <1>2 DEF Call, Works
<1>0. <<"continued", 0>>[1] # "working" /\ <<"cancelled", 0>>[1] # "working" /\ \A r \in Run : Terminal(r)[1] # "working"
  BY DEF Terminal
<1>3. \A by, r, b, x : by \in {"start", "flush", "rotate"} => Plain(Call(by, r, b, x))
  BY DEF Call
<1> HIDE DEF Plain
<1>4. \A c \in calls, how \in How : d \notin After(c, how)
  BY <1>1, AfterShape
<1>5. ASSUME NEW C \in SUBSET calls PROVE d \notin (calls \ C) \cup Lost(C)
  BY <1>1, LosingShape
<1>6. ASSUME NEW r \in Run, Begin(r) \/ Step(r) \/ RotationWakes(r) \/ EndRun(r) \/ FlushWakes(r) PROVE Plain(d)
  BY <1>1, <1>3, <1>6 DEF Begin, Step, RotationWakes, EndRun, FlushWakes, Send, SendNothing
<1>7. ASSUME NEW r \in Run, StartAnswered(r) \/ FlushAnswered(r) \/ RacedAnswered(r) \/ CloseAnswered(r) \/ ClosingLineAnswered(r)
      PROVE  Plain(d)
  <2>1. PICK c \in calls, how \in How : calls' = After(c, how)
    BY <1>7 DEF StartAnswered, FlushAnswered, RacedAnswered, CloseAnswered, ClosingLineAnswered, Waiting, SendNothing
  <2> QED
    BY <1>4, <2>1
<1>8. ASSUME NEW r \in Run, RotationAnswered(r) \/ FinalAnswered(r) PROVE Plain(d)
  <2>1. CASE RotationAnswered(r)
    <3>1. PICK c \in calls, how \in How :
            \/ d \in After(c, how)
            \/ d = Call("raced", r, Len(board) + 1, Terminal(r))
            \/ d = Call("close", r, trace[r].mid, <<"continued", 0>>)
      BY <2>1 DEF RotationAnswered, Waiting, Send, SendNothing
    <3> QED
      BY <1>0, <1>2, <1>4, <3>1
  <2>2. CASE FinalAnswered(r)
    <3>1. PICK c \in calls, how \in How : d \in After(c, how) \/ d = Call("final", r, NoBoard, Terminal(r))
      BY <2>2 DEF FinalAnswered, Waiting, Send, SendNothing
    <3> QED
      BY <1>0, <1>2, <1>4, <3>1
  <2> QED
    BY <1>8, <2>1, <2>2
<1>9. ASSUME NEW r \in Run, Close(r) \/ FinalFlush(r) PROVE Plain(d)
  <2>1. {c \in calls : c.run = r /\ c.by \in {"rotate", "close"} /\ StopRotation(r) = "idle"} \in SUBSET calls
        /\ Waiting("flush", r) \in SUBSET calls
    BY DEF Waiting
  <2>2. CASE Close(r)
    BY <1>5, <2>1, <2>2 DEF Close, SendNothing
  <2>3. CASE FinalFlush(r)
    <3>1. \/ d \in (calls \ Waiting("flush", r)) \cup Lost(Waiting("flush", r))
          \/ d = Call("finish", r, trace[r].mid, Terminal(r))
      BY <2>3 DEF FinalFlush, Send, SendNothing
    <3> QED
      BY <1>0, <1>2, <1>5, <2>1, <3>1
  <2> QED
    BY <1>9, <2>2, <2>3
<1>10. CASE Recovery
  <2>1. CASE RecoverNext \/ RecoverSaves
    <3>1. d \in calls \/ \E x \in rec.todo : d = Call("recover", x.run, x.board, <<"cancelled", 0>>)
      BY <2>1 DEF RecoverNext, RecoverSaves, Send
    <3> QED
      BY <1>0, <1>1, <1>2, <3>1
  <2>2. CASE RecoverAnswered
    <3>1. PICK x \in rec.now, c \in calls, how \in How :
            d \in After(c, how) \/ d = Call("notice", x.run, NoBoard, <<"cancelled", 0>>)
      BY <2>2 DEF RecoverAnswered, Send, SendNothing, Waiting
    <3> QED
      BY <1>0, <1>2, <1>4, <3>1
  <2>3. CASE NoticeAnswered
    BY <1>2, <1>4, <2>3 DEF NoticeAnswered, SendNothing, Waiting
  <2> QED
    BY <1>10, <2>1, <2>2, <2>3 DEF Recovery
<1>11. CASE Crash \/ Restart \/ Reconnect \/ (\E c \in calls : LostLands(c)) \/ UNCHANGED vars
  <2>1. {c \in calls : c.by \in {"recover", "notice"}} \in SUBSET calls
    OBVIOUS
  <2>2. CASE Crash
    <3>1. calls' = (calls \ calls) \cup Lost(calls)
      BY <2>2 DEF Crash
    <3> QED
      BY <1>5, <3>1
  <2>3. CASE Reconnect
    BY <1>5, <2>1, <2>3 DEF Reconnect, SendNothing
  <2> QED
    BY <1>1, <1>11, <2>2, <2>3 DEF Restart, LostLands, SendNothing, vars
<1> QED
  BY <1>6, <1>7, <1>8, <1>9, <1>10, <1>11 DEF Next, Tasks

LEMMA TidyStep ==
  ASSUME BoardInv, TidyInv, NEW r \in Run, NEW t, Set(r, t), hurt \subseteq hurt', raced \subseteq raced', cut \subseteq cut',
         \A d \in calls \cup calls' : d.run # r => (d \in calls <=> d \in calls'),
         \A q \in Run : q # r => Working(q)' \subseteq Working(q),
         r \notin hurt' \cup raced' \cup cut' => TidyFor(r, t, calls', Working(r)')
  PROVE  TidyInv'
<1>1. trace'[r] = t /\ \A q \in Run : q # r => trace'[q] = trace[q]
  BY DEF Set, BoardInv
<1>2. ASSUME NEW q \in Run, trace'[q].phase # "dead", q \notin hurt' \cup raced' \cup cut' PROVE Tidy(q)'
  <2>1. CASE q = r
    BY <1>1, <1>2, <2>1 DEF Tidy
  <2>2. CASE q # r
    <3>1. TidyFor(q, trace[q], calls, Working(q)) /\ trace'[q] = trace[q]
      BY <1>1, <1>2, <2>2 DEF TidyInv, Tidy
    <3>2. Working(q)' \subseteq Working(q) /\ \A d \in calls \cup calls' : d.run = q => (d \in calls <=> d \in calls')
      BY <2>2
    <3>3. TidyFor(q, trace[q], calls', Working(q)')
      BY <3>1, <3>2 DEF TidyFor
    <3> QED
      BY <3>1, <3>3 DEF Tidy
  <2> QED
    BY <2>1, <2>2
<1> QED
  BY <1>2 DEF TidyInv

LEMMA AnsweredTidy ==
  ASSUME BoardInv, OwnInv, TidyInv, NEW r \in Run, NEW c \in calls, c.run = r, NEW how \in How, Answer(c, how),
         NEW t, Set(r, t), \A d \in calls' : d \in After(c, how) \/ d.run = r, After(c, how) \subseteq calls',
         raced \subseteq raced', cut \subseteq cut',
         Land(c) /\ how = "ok" /\ r \notin hurt' \cup raced' \cup cut' => TidyFor(r, t, calls', Working(r)')
  PROVE  TidyInv'
<1>1. /\ hurt \subseteq hurt' /\ (how # "ok" => r \in hurt')
      /\ how = "ok" => Land(c)
      /\ \A q \in Run : q # r => Working(q)' \subseteq Working(q)
  <2>1. CASE how = "ok"
    BY <2>1, WorkingAfter DEF Answer, Succeeds
  <2>2. CASE how # "ok"
    BY <2>2 DEF Answer, Fault, Working
  <2> QED
    BY <2>1, <2>2
<1>2. \A d \in calls \cup calls' : d.run # r => (d \in calls <=> d \in calls')
  <2>1. \A d \in calls : d.run # r => d \in After(c, how)
    BY DEF After
  <2>2. \A d \in After(c, how) : d.run # r => d \in calls
    BY AfterShape
  <2> QED
    BY <2>1, <2>2
<1> QED
  BY <1>1, <1>2, TidyStep

\* A step of a run that lands nothing.
LEMMA UnlandedTidy ==
  ASSUME BoardInv, OwnInv, TidyInv, NEW r \in Run, NEW t, Set(r, t), UNCHANGED <<board, hurt>>,
         \A d \in calls \cup calls' : d.run # r => (d \in calls <=> d \in calls'),
         raced \subseteq raced', cut \subseteq cut',
         r \notin hurt \cup raced' \cup cut' => TidyFor(r, t, calls', Working(r))
  PROVE  TidyInv'
<1>1. \A q \in Run : Working(q)' = Working(q)
  BY DEF Working
<1> QED
  BY <1>1, TidyStep

LEMMA WakingTidy ==
  ASSUME BoardInv, TaskInv, OwnInv, TidyInv, NEW r \in Run,
         Begin(r) \/ Step(r) \/ FlushWakes(r) \/ RotationWakes(r) \/ EndRun(r)
  PROVE  TidyInv'
<1>1. UNCHANGED <<board, hurt, cut>>
  BY DEF Begin, Step, FlushWakes, RotationWakes, EndRun
<1>2. Sound(trace[r]) /\ trace[r].phase # "dead" /\ (r \notin hurt \cup raced \cup cut => TidyFor(r, trace[r], calls, Working(r)))
  BY DEF TaskInv, TidyInv, Tidy, Begin, Step, FlushWakes, RotationWakes, EndRun, Alive
<1>3. CASE Begin(r)
  <2> DEFINE t == [trace[r] EXCEPT !.phase = "live", !.start = "posting"]
             c == Call("start", r, NoBoard, <<"working", 0>>)
  <2>1. trace[r].phase = "new" /\ Set(r, t) /\ calls' = calls \cup {c} /\ raced \subseteq raced'
    BY <1>3 DEF Begin, Send
  <2>2. c.run = r /\ c.by = "start" /\ t.phase = "live" /\ t.mid = trace[r].mid /\ t.old = trace[r].old
        /\ t.rot = trace[r].rot /\ t.fin = trace[r].fin
    BY TraceShape DEF TracesIn, Call
  <2> HIDE DEF t, c
  <2>3. r \notin hurt \cup raced' \cup cut' => TidyFor(r, t, calls', Working(r))
    BY <1>1, <1>2, <2>1, <2>2 DEF TidyFor
  <2> QED
    BY <1>1, <2>1, <2>2, <2>3, UnlandedTidy
<1>4. CASE Step(r)
  <2> DEFINE t == [trace[r] EXCEPT !.ver = @ + 1, !.flush = IF @ = "idle" THEN "sleeping" ELSE @]
  <2>1. Set(r, t) /\ calls' = calls /\ raced' = raced
    BY <1>4 DEF Step
  <2>2. t.phase = trace[r].phase /\ t.mid = trace[r].mid /\ t.old = trace[r].old /\ t.rot = trace[r].rot /\ t.fin = trace[r].fin
    BY TraceShape DEF TracesIn
  <2> HIDE DEF t
  <2>3. r \notin hurt \cup raced' \cup cut' => TidyFor(r, t, calls', Working(r))
    BY <1>1, <1>2, <2>1, <2>2 DEF TidyFor
  <2> QED
    BY <1>1, <2>1, <2>2, <2>3, UnlandedTidy
<1>5. CASE FlushWakes(r)
  <2> DEFINE t(flush) == [trace[r] EXCEPT !.flush = flush]
             c == Call("flush", r, trace[r].mid, Render(r))
  <2>1. /\ raced \subseteq raced'
        /\ \/ Set(r, t("idle")) /\ calls' = calls
           \/ Set(r, t("editing")) /\ calls' = calls \cup {c}
    BY <1>5 DEF FlushWakes, Send, SendNothing
  <2>2. /\ c.run = r /\ c.by = "flush" /\ c.board = trace[r].mid
        /\ \A flush : t(flush).phase = trace[r].phase /\ t(flush).mid = trace[r].mid /\ t(flush).old = trace[r].old
                        /\ t(flush).rot = trace[r].rot /\ t(flush).fin = trace[r].fin
    BY TraceShape DEF TracesIn, Call
  <2> HIDE DEF t, c
  <2>3. r \notin hurt \cup raced' \cup cut' => \A flush : TidyFor(r, t(flush), calls', Working(r))
    BY <1>1, <1>2, <2>1, <2>2 DEF TidyFor
  <2> QED
    BY <1>1, <2>1, <2>2, <2>3, UnlandedTidy
<1>6. CASE RotationWakes(r)
  <2> DEFINE t == [trace[r] EXCEPT !.rot = "posting"]
             c == Call("rotate", r, NoBoard, Render(r))
  <2>1. trace[r].rot = "sleeping" /\ Set(r, t) /\ calls' = calls \cup {c} /\ raced \subseteq raced'
    BY <1>6 DEF RotationWakes, Send
  <2>2. c.run = r /\ c.by = "rotate" /\ t.phase = trace[r].phase /\ t.mid = trace[r].mid /\ t.old = trace[r].old
        /\ t.fin = trace[r].fin
    BY TraceShape DEF TracesIn, Call
  <2> HIDE DEF t, c
  <2>3. r \notin hurt \cup raced' \cup cut' => TidyFor(r, t, calls', Working(r))
    BY <1>1, <1>2, <2>1, <2>2 DEF TidyFor
  <2> QED
    BY <1>1, <2>1, <2>2, <2>3, UnlandedTidy
<1>7. CASE EndRun(r)
  <2> DEFINE t == [trace[r] EXCEPT !.fin = "start"]
  <2>1. Set(r, t) /\ calls' = calls /\ raced' = raced
    BY <1>7 DEF EndRun
  <2>2. t.phase = trace[r].phase /\ t.mid = trace[r].mid /\ t.old = trace[r].old /\ t.rot = trace[r].rot /\ t.fin # "posting"
    BY TraceShape DEF TracesIn
  <2> HIDE DEF t
  <2>3. r \notin hurt \cup raced' \cup cut' => TidyFor(r, t, calls', Working(r))
    BY <1>1, <1>2, <2>1, <2>2 DEF TidyFor
  <2> QED
    BY <1>1, <2>1, <2>2, <2>3, UnlandedTidy
<1> QED
  BY <1>3, <1>4, <1>5, <1>6, <1>7

LEMMA CloseTidy ==
  ASSUME BoardInv, TaskInv, OwnInv, TidyInv, NEW r \in Run, Close(r)
  PROVE  TidyInv'
<1> DEFINE C == {c \in calls : c.run = r /\ c.by \in {"rotate", "close"} /\ StopRotation(r) = "idle"}
           t == [trace[r] EXCEPT !.closed = TRUE, !.rot = StopRotation(r), !.fin = "rotation"]
<1>1. /\ UNCHANGED <<board, hurt, raced>> /\ cut \subseteq cut' /\ Set(r, t) /\ calls' = (calls \ C) \cup Lost(C)
      /\ trace[r].rot = "closing" => r \in cut'
  BY DEF Close, SendNothing
<1>2. Sound(trace[r]) /\ trace[r].phase = "live" /\ (r \notin hurt \cup raced \cup cut => TidyFor(r, trace[r], calls, Working(r)))
  BY DEF TaskInv, TidyInv, Tidy, Close, Alive
<1>3. t.phase = trace[r].phase /\ t.mid = trace[r].mid /\ t.old = trace[r].old /\ t.fin # "posting"
  BY TraceShape DEF TracesIn
<1>4. C \in SUBSET calls /\ \A d \in C : d.run = r /\ d.by \in {"rotate", "close"} /\ StopRotation(r) = "idle"
  OBVIOUS
<1>5. \A d \in calls \cup calls' : d.run # r => (d \in calls <=> d \in calls')
  <2>1. \A d \in calls' : d \in calls \ C \/ (d.by = "lost" /\ \E c \in C : d.run = c.run)
    BY <1>1, <1>4, LosingShape
  <2> QED
    BY <1>1, <1>4, <2>1
<1>6. trace[r].rot # "closing" => C = {}
  BY <1>4 DEF TaskInv, Fits, StopRotation
<1> HIDE DEF t, C
<1>7. r \notin hurt \cup raced' \cup cut' => TidyFor(r, t, calls', Working(r))
  <2> HAVE r \notin hurt \cup raced' \cup cut'
  <2>1. trace[r].rot # "closing" /\ C = {}
    BY <1>1, <1>6
  <2>2. Lost({}) = {}
    BY DEF Lost
  <2>3. calls' = calls
    BY <1>1, <2>1, <2>2
  <2> QED
    BY <1>1, <1>2, <1>3, <2>1, <2>3 DEF TidyFor
<1> QED
  BY <1>1, <1>5, <1>7, UnlandedTidy

LEMMA FinalFlushTidy ==
  ASSUME BoardInv, TaskInv, OwnInv, TextsInv, TidyInv, NEW r \in Run, FinalFlush(r)
  PROVE  TidyInv'
<1> DEFINE C == Waiting("flush", r)
           left == (calls \ C) \cup Lost(C)
           over == [Over(r) EXCEPT !.flush = "idle"]
           editing == [trace[r] EXCEPT !.flush = "idle", !.fin = "editing"]
           edit == Call("finish", r, trace[r].mid, Terminal(r))
<1>1. /\ UNCHANGED <<board, hurt, cut>> /\ raced \subseteq raced'
      /\ \/ trace[r].mid = NoBoard /\ Set(r, over) /\ calls' = left
         \/ trace[r].mid # NoBoard /\ Set(r, editing) /\ Send(left, edit)
  BY DEF FinalFlush, Send, SendNothing
<1>2. /\ Sound(trace[r]) /\ trace[r].phase = "live" /\ trace[r].rot = "idle"
      /\ r \notin hurt \cup raced \cup cut => TidyFor(r, trace[r], calls, Working(r))
  BY DEF TaskInv, TidyInv, Tidy, FinalFlush, Alive
<1>3. /\ C \in SUBSET calls /\ \A d \in C : d.run = r /\ d.by = "flush"
      /\ \A d \in calls : d.run = r => d.by # "raced"
  BY <1>2 DEF Waiting, TaskInv, Fits
<1>4. \A d \in left : d \in calls \ C \/ (d.by = "lost" /\ \E c \in C : d.run = c.run /\ d.board = c.board /\ d.text = c.text)
  BY <1>3, LosingShape
<1>5. edit.run = r /\ edit.board = trace[r].mid /\ ~Works(edit)
  BY DEF Call, Works, Terminal
<1>6. /\ over.phase = "ended" /\ over.fin # "posting"
      /\ editing.phase = trace[r].phase /\ editing.mid = trace[r].mid /\ editing.rot = "idle" /\ editing.fin # "posting"
  BY <1>2, TraceShape DEF TracesIn, Over
<1>7. trace[r].mid = NoBoard => C = {}
  BY <1>2, <1>3 DEF TaskInv, Fits, Sound
<1>8. \A i \in Working(r) : i # NoBoard
  BY Lengths DEF Working, NoBoard
<1>9. \A d \in calls \cup calls' : d.run # r => (d \in calls <=> d \in calls')
  <2>1. calls' = left \/ calls' = left \cup {edit}
    BY <1>1 DEF Send
  <2>2. calls \ C \subseteq left
    OBVIOUS
  <2> HIDE DEF left, edit, C
  <2> QED
    BY <1>3, <1>4, <1>5, <2>1, <2>2
<1>10. CASE trace[r].mid = NoBoard
  <2>1. calls' = calls
    <3>1. Lost({}) = {}
      BY DEF Lost
    <3> QED
      BY <1>1, <1>7, <1>10, <3>1
  <2>2. Set(r, over)
    BY <1>1, <1>10
  <2> HIDE DEF over, left, C
  <2>3. r \notin hurt \cup raced' \cup cut' => TidyFor(r, over, calls', Working(r))
    <3> HAVE r \notin hurt \cup raced' \cup cut'
    <3>1. TidyFor(r, trace[r], calls, Working(r))
      BY <1>1, <1>2
    <3>2. Working(r) = {}
      BY <1>2, <1>3, <1>8, <1>10, <3>1 DEF TidyFor
    <3>3. \A d \in calls : d.run = r => d.by # "flush"
      BY <1>2, <1>10 DEF TaskInv, Fits, Sound
    <3> QED
      BY <1>6, <2>1, <3>1, <3>2, <3>3 DEF TidyFor
  <2> QED
    BY <1>1, <1>9, <2>2, <2>3, UnlandedTidy
<1>11. CASE trace[r].mid # NoBoard
  <2>1. Set(r, editing) /\ Send(left, edit)
    BY <1>1, <1>11
  <2>2. \A d \in left : d.board = trace[r].mid => r \in raced'
    BY <1>5, <1>11, <2>1 DEF Send
  <2>3. calls' = left \cup {edit}
    BY <2>1 DEF Send
  <2> HIDE DEF editing, edit, left, C
  <2>4. r \notin hurt \cup raced' \cup cut' => TidyFor(r, editing, calls', Working(r))
    <3> HAVE r \notin hurt \cup raced' \cup cut'
    <3>1. TidyFor(r, trace[r], calls, Working(r))
      BY <1>1, <1>2
    <3>2. \A i \in Working(r) : i = trace[r].mid
      BY <1>2, <1>3, <3>1 DEF TidyFor
    <3>3. ASSUME NEW d \in left, d.run = r, Works(d) PROVE d.by \in {"start", "rotate"} \/ (d.by = "flush" /\ d.board = trace[r].mid)
      <4>1. CASE d \in calls
        BY <3>1, <3>3, <4>1 DEF TidyFor
      <4>2. ASSUME NEW c \in C, d.board = c.board, d.text = c.text PROVE FALSE
        <5>1. c \in calls /\ c.run = r /\ c.by = "flush" /\ Works(c)
          BY <1>3, <3>3, <4>2 DEF Works
        <5>2. c.board = trace[r].mid
          BY <3>1, <5>1 DEF TidyFor
        <5> QED
          BY <2>2, <4>2, <5>2
      <4> QED
        BY <1>4, <4>1, <4>2
    <3> QED
      BY <1>2, <1>5, <1>6, <2>3, <3>2, <3>3 DEF TidyFor
  <2> QED
    BY <1>1, <1>9, <2>1, <2>4, UnlandedTidy
<1> QED
  BY <1>10, <1>11

\* A call that is answered well is gone, and no other of its run has its caller.
LEMMA AfterOk ==
  ASSUME TaskInv, NEW c \in calls, Tasked(c)
  PROVE  /\ After(c, "ok") = calls \ {c}
         /\ \A d \in calls \ {c} : d.run = c.run => d.by # c.by
BY DEF After, TaskInv

LEMMA StartTidy ==
  ASSUME BoardInv, TaskInv, OwnInv, TidyInv, NEW r \in Run, StartAnswered(r)
  PROVE  TidyInv'
<1> DEFINE on(c) == [trace[r] EXCEPT !.start = "done", !.mid = Len(board) + 1, !.last = c.text, !.rot = "sleeping"]
           off == [trace[r] EXCEPT !.start = "done"]
<1>1. PICK c \in calls, how \in How :
        /\ c.by = "start" /\ c.run = r /\ Answer(c, how) /\ calls' = After(c, how) /\ UNCHANGED raced
        /\ (how = "ok" /\ Set(r, on(c))) \/ (how # "ok" /\ Set(r, off))
  BY DEF StartAnswered, Waiting, SendNothing
<1>2. /\ trace[r].phase = "live" /\ cut' = cut /\ Sound(trace[r]) /\ trace[r].start = "posting" /\ c.board = NoBoard
      /\ r \notin hurt \cup raced \cup cut => TidyFor(r, trace[r], calls, Working(r))
  BY <1>1 DEF StartAnswered, Alive, TidyInv, Tidy, TaskInv, Fits, BoardInv, PostsAreNew
<1>3. /\ on(c).phase = "live" /\ on(c).mid = Len(board) + 1 /\ on(c).fin = trace[r].fin
  BY <1>2, TraceShape DEF TracesIn
<1> HIDE DEF on, off
<1>4. CASE how # "ok" /\ Set(r, off)
  BY <1>1, <1>2, <1>4, AnsweredTidy
<1>5. CASE how = "ok" /\ Set(r, on(c))
  <2>1. Land(c) /\ r \notin hurt' \cup raced' \cup cut' => TidyFor(r, on(c), calls', Working(r)')
    <3> HAVE Land(c) /\ r \notin hurt' \cup raced' \cup cut'
    <3>1. TidyFor(r, trace[r], calls, Working(r))
      BY <1>1, <1>2, <1>5 DEF Answer, Succeeds
    <3>2. \A d \in calls : d.run = r => d.by \notin {"raced", "flush"}
      BY <1>2 DEF TaskInv, Fits, Sound
    <3>3. Working(r) = {}
      <4>1. \A i \in Working(r) : i # NoBoard
        BY Lengths DEF Working, NoBoard
      <4> QED
        BY <1>2, <3>1, <3>2, <4>1 DEF TidyFor, Sound
    <3>4. \A i \in Working(r)' : i = Len(board) + 1
      BY <1>1, <1>2, <3>3, WorkingAfter
    <3>5. calls' = calls \ {c}
      BY <1>1, <1>5, AfterOk DEF Tasked
    <3> QED
      BY <1>2, <1>3, <3>1, <3>2, <3>4, <3>5 DEF TidyFor
  <2> QED
    BY <1>1, <1>2, <1>5, <2>1, AnsweredTidy
<1> QED
  BY <1>1, <1>4, <1>5

LEMMA FlushTidy ==
  ASSUME BoardInv, TaskInv, OwnInv, TidyInv, NEW r \in Run, FlushAnswered(r)
  PROVE  TidyInv'
<1> DEFINE t(text) == [trace[r] EXCEPT !.flush = "idle", !.last = text]
<1>1. PICK c \in calls, how \in How :
        /\ c.by = "flush" /\ c.run = r /\ Answer(c, how) /\ calls' = After(c, how) /\ UNCHANGED raced
        /\ Set(r, [trace[r] EXCEPT !.flush = "idle", !.last = IF how = "ok" THEN c.text ELSE @])
  BY DEF FlushAnswered, Waiting, SendNothing
<1>2. \E text : Set(r, t(text))
  BY <1>1
<1>3. PICK text : Set(r, t(text))
  BY <1>2
<1>4. /\ trace[r].phase = "live" /\ cut' = cut /\ Sound(trace[r]) /\ trace[r].flush = "editing"
      /\ r \notin hurt \cup raced \cup cut => TidyFor(r, trace[r], calls, Working(r))
  BY <1>1 DEF FlushAnswered, Alive, TidyInv, Tidy, TaskInv, Fits
<1>5. /\ t(text).phase = "live" /\ t(text).mid = trace[r].mid /\ t(text).old = trace[r].old
      /\ t(text).rot = trace[r].rot /\ t(text).fin = trace[r].fin
  BY <1>4, TraceShape DEF TracesIn
<1> HIDE DEF t
<1>6. Land(c) /\ how = "ok" /\ r \notin hurt' \cup raced' \cup cut' => TidyFor(r, t(text), calls', Working(r)')
  <2> HAVE Land(c) /\ how = "ok" /\ r \notin hurt' \cup raced' \cup cut'
  <2>1. TidyFor(r, trace[r], calls, Working(r))
    BY <1>1, <1>4 DEF Answer, Succeeds
  <2>2. calls' = calls \ {c} /\ \A d \in calls' : d.run = r => d.by # "flush"
    BY <1>1, AfterOk DEF Tasked
  <2>3. c.by = "flush" /\ (Works(c) => c.board = trace[r].mid) /\ trace[r].mid # NoBoard
    BY <1>1, <1>4, <2>1 DEF TidyFor, Sound
  <2>4. \A i \in Working(r)' : i \in Working(r) \/ i = trace[r].mid
    BY <1>1, <2>3, WorkingAfter
  <2> QED
    BY <1>1, <1>4, <1>5, <2>1, <2>2, <2>4 DEF TidyFor
<1> QED
  BY <1>1, <1>3, <1>4, <1>6, AnsweredTidy

LEMMA RotationTidy ==
  ASSUME BoardInv, TaskInv, OwnInv, TidyInv, NEW r \in Run, RotationAnswered(r)
  PROVE  TidyInv'
<1> DEFINE failed == [trace[r] EXCEPT !.rot = IF trace[r].closed THEN "idle" ELSE "sleeping"]
           late == [trace[r] EXCEPT !.rot = "raced"]
           moved(c) == [trace[r] EXCEPT !.rot = "closing", !.old = trace[r].mid,
                                        !.mid = Len(board) + 1, !.last = c.text]
           shut == Call("raced", r, Len(board) + 1, Terminal(r))
           close == Call("close", r, trace[r].mid, <<"continued", 0>>)
<1>1. PICK c \in calls, how \in How :
        /\ c.by = "rotate" /\ c.run = r /\ Answer(c, how) /\ UNCHANGED cut
        /\ \/ how # "ok" /\ calls' = After(c, how) /\ UNCHANGED raced /\ Set(r, failed)
           \/ how = "ok" /\ Send(After(c, how), shut) /\ Set(r, late)
           \/ how = "ok" /\ Send(After(c, how), close) /\ Set(r, moved(c))
  BY DEF RotationAnswered, Waiting, SendNothing
<1>2. /\ trace[r].phase = "live" /\ Sound(trace[r]) /\ trace[r].rot = "posting" /\ c.board = NoBoard
      /\ r \notin hurt \cup raced \cup cut => TidyFor(r, trace[r], calls, Working(r))
  BY <1>1 DEF RotationAnswered, Alive, TidyInv, Tidy, TaskInv, Fits, BoardInv, PostsAreNew
<1>3. /\ late.phase = "live" /\ late.mid = trace[r].mid /\ late.fin = trace[r].fin
      /\ moved(c).phase = "live" /\ moved(c).mid = Len(board) + 1 /\ moved(c).old = trace[r].mid
      /\ moved(c).rot = "closing" /\ moved(c).fin = trace[r].fin
  BY <1>2, TraceShape DEF TracesIn
<1>4. /\ shut.by = "raced" /\ shut.run = r /\ shut.board = Len(board) + 1 /\ ~Works(shut)
      /\ close.by = "close" /\ close.run = r /\ close.board = trace[r].mid /\ ~Works(close)
  BY DEF Call, Works, Terminal
<1>5. \A d \in calls : d.run = r => d.by # "raced"
  BY <1>2 DEF TaskInv, Fits
<1> HIDE DEF failed, late, moved, shut, close
<1>6. CASE how # "ok" /\ calls' = After(c, how) /\ UNCHANGED raced /\ Set(r, failed)
  BY <1>1, <1>6, AnsweredTidy
<1>7. ASSUME how = "ok", Land(c), r \notin hurt' \cup raced' \cup cut', raced \subseteq raced'
      PROVE  /\ TidyFor(r, trace[r], calls, Working(r)) /\ After(c, how) = calls \ {c}
             /\ \A i \in Working(r) : i = trace[r].mid
             /\ \A i \in Working(r)' : i = trace[r].mid \/ i = Len(board) + 1
  <2>1. TidyFor(r, trace[r], calls, Working(r))
    BY <1>1, <1>2, <1>7 DEF Answer, Succeeds
  <2>2. \A i \in Working(r) : i = trace[r].mid
    BY <1>2, <1>5, <2>1 DEF TidyFor
  <2>3. \A i \in Working(r)' : i \in Working(r) \/ i = Len(board) + 1
    BY <1>1, <1>2, <1>7, WorkingAfter
  <2>4. After(c, how) = calls \ {c}
    BY <1>1, <1>7, AfterOk DEF Tasked
  <2> QED
    BY <2>1, <2>2, <2>3, <2>4
<1>8. CASE how = "ok" /\ Send(After(c, how), shut) /\ Set(r, late)
  <2>1. calls' = After(c, how) \cup {shut} /\ raced \subseteq raced'
    BY <1>8 DEF Send
  <2>2. Land(c) /\ how = "ok" /\ r \notin hurt' \cup raced' \cup cut' => TidyFor(r, late, calls', Working(r)')
    BY <1>3, <1>4, <1>7, <2>1 DEF TidyFor
  <2> QED
    BY <1>1, <1>4, <1>8, <2>1, <2>2, AnsweredTidy
<1>9. CASE how = "ok" /\ Send(After(c, how), close) /\ Set(r, moved(c))
  <2>1. calls' = After(c, how) \cup {close} /\ raced \subseteq raced'
    BY <1>9 DEF Send
  <2>2. trace[r].mid # NoBoard
    BY <1>2 DEF Sound
  <2>3. \A d \in After(c, how) : d.board = trace[r].mid => r \in raced'
    BY <1>4, <1>9, <2>2 DEF Send
  <2>4. Land(c) /\ how = "ok" /\ r \notin hurt' \cup raced' \cup cut' => TidyFor(r, moved(c), calls', Working(r)')
    <3> HAVE Land(c) /\ how = "ok" /\ r \notin hurt' \cup raced' \cup cut'
    <3>1. /\ TidyFor(r, trace[r], calls, Working(r)) /\ After(c, how) = calls \ {c}
          /\ \A i \in Working(r)' : i = trace[r].mid \/ i = Len(board) + 1
      BY <1>7, <2>1
    <3>2. \A d \in calls \ {c} : d.run = r /\ Works(d) => d.by \in {"start", "rotate"}
      BY <2>3, <3>1 DEF TidyFor
    <3> QED
      BY <1>3, <1>4, <2>1, <3>1, <3>2 DEF TidyFor
  <2> QED
    BY <1>1, <1>4, <1>9, <2>1, <2>4, AnsweredTidy
<1> QED
  BY <1>1, <1>6, <1>8, <1>9

LEMMA RotationEndsTidy ==
  ASSUME BoardInv, TaskInv, OwnInv, TextsInv, TidyInv, NEW r \in Run, RacedAnswered(r) \/ CloseAnswered(r)
  PROVE  TidyInv'
<1> DEFINE t(rot) == [trace[r] EXCEPT !.rot = rot]
<1>1. PICK c \in calls, how \in How :
        /\ c.run = r /\ Answer(c, how) /\ calls' = After(c, how) /\ UNCHANGED <<raced, cut>>
        /\ (c.by = "raced" /\ Set(r, t("idle"))) \/ (c.by = "close" /\ Set(r, t("sleeping")))
  <2>1. CASE RacedAnswered(r)
    BY <2>1 DEF RacedAnswered, Waiting, SendNothing
  <2>2. CASE CloseAnswered(r)
    BY <2>2 DEF CloseAnswered, Waiting, SendNothing
  <2> QED
    BY <2>1, <2>2
<1>2. /\ trace[r].phase = "live" /\ Sound(trace[r]) /\ Fits(c, trace[r]) /\ ~Works(c)
      /\ r \notin hurt \cup raced \cup cut => TidyFor(r, trace[r], calls, Working(r))
  BY <1>1 DEF RacedAnswered, CloseAnswered, Alive, TidyInv, Tidy, TaskInv, TextsInv
<1>3. \A rot : t(rot).phase = "live" /\ t(rot).mid = trace[r].mid /\ t(rot).fin = trace[r].fin
  BY <1>2, TraceShape DEF TracesIn
<1>4. \A d \in calls : d.run = r => (d.by = "raced" => trace[r].rot = "raced")
  BY DEF TaskInv, Fits
<1> HIDE DEF t
<1>5. Land(c) /\ how = "ok" /\ r \notin hurt' \cup raced' \cup cut' => \A rot : TidyFor(r, t(rot), calls', Working(r)')
  <2> HAVE Land(c) /\ how = "ok" /\ r \notin hurt' \cup raced' \cup cut'
  <2>1. TidyFor(r, trace[r], calls, Working(r))
    BY <1>1, <1>2 DEF Answer, Succeeds
  <2>2. calls' = calls \ {c} /\ \A d \in calls' : d.run = r => d.by # c.by
    BY <1>1, AfterOk DEF Tasked
  <2>3. Working(r)' \subseteq Working(r) /\ c.board \notin Working(r)'
    BY <1>1, <1>2, WorkingAfter
  <2>4. \A i \in Working(r)' : i = trace[r].mid
    <3>1. CASE c.by = "raced"
      BY <1>2, <2>1, <2>2, <2>3, <3>1 DEF TidyFor, Fits
    <3>2. CASE c.by = "close"
      BY <1>2, <1>4, <2>1, <2>3, <3>2 DEF TidyFor, Fits
    <3> QED
      BY <1>1, <3>1, <3>2
  <2> QED
    BY <1>3, <2>1, <2>2, <2>4 DEF TidyFor
<1> QED
  BY <1>1, <1>5, AnsweredTidy

LEMMA FinalTidy ==
  ASSUME BoardInv, TaskInv, OwnInv, TextsInv, TidyInv, NEW r \in Run, FinalAnswered(r) \/ ClosingLineAnswered(r)
  PROVE  TidyInv'
<1> DEFINE over == Over(r)
           posting == [trace[r] EXCEPT !.fin = "posting"]
           line == Call("final", r, NoBoard, Terminal(r))
<1>1. PICK c \in calls, how \in How :
        /\ c.run = r /\ Answer(c, how) /\ UNCHANGED cut
        /\ \/ c.by = "finish" /\ how = "refused" /\ Send(After(c, how), line) /\ Set(r, posting)
           \/ c.by \in {"finish", "final"} /\ calls' = After(c, how) /\ UNCHANGED raced /\ Set(r, over)
  <2>1. CASE FinalAnswered(r)
    BY <2>1 DEF FinalAnswered, Waiting, SendNothing
  <2>2. CASE ClosingLineAnswered(r)
    BY <2>2 DEF ClosingLineAnswered, Waiting, SendNothing
  <2> QED
    BY <2>1, <2>2
<1>2. /\ trace[r].phase = "live" /\ Sound(trace[r]) /\ Fits(c, trace[r]) /\ ~Works(c)
      /\ r \notin hurt \cup raced \cup cut => TidyFor(r, trace[r], calls, Working(r))
  BY <1>1 DEF FinalAnswered, ClosingLineAnswered, Alive, TidyInv, Tidy, TaskInv, TextsInv
<1>3. over.fin # "posting" /\ line.run = r
  BY TraceShape DEF TracesIn, Over, Call
<1>4. trace[r].fin \in {"editing", "posting"} /\ trace[r].rot = "idle" /\ trace[r].flush = "idle"
  BY <1>1, <1>2 DEF Fits, Sound
<1>5. \A d \in calls : d.run = r => d.by \notin {"raced", "flush"}
  BY <1>4 DEF TaskInv, Fits
<1> HIDE DEF over, posting, line
<1>6. CASE c.by = "finish" /\ how = "refused" /\ Send(After(c, how), line) /\ Set(r, posting)
  <2>1. raced \subseteq raced' /\ calls' = After(c, how) \cup {line}
    BY <1>6 DEF Send
  <2> QED
    BY <1>1, <1>3, <1>6, <2>1, AnsweredTidy
<1>7. CASE c.by \in {"finish", "final"} /\ calls' = After(c, how) /\ UNCHANGED raced /\ Set(r, over)
  <2>1. Land(c) /\ how = "ok" /\ r \notin hurt' \cup raced' \cup cut' => TidyFor(r, over, calls', Working(r)')
    <3> HAVE Land(c) /\ how = "ok" /\ r \notin hurt' \cup raced' \cup cut'
    <3>1. TidyFor(r, trace[r], calls, Working(r))
      BY <1>1, <1>2, <1>7 DEF Answer, Succeeds
    <3>2. c.by = "finish" /\ c.board = trace[r].mid
      BY <1>2, <1>7, <3>1 DEF TidyFor, Fits
    <3>3. Working(r)' \subseteq Working(r) /\ c.board \notin Working(r)'
      BY <1>1, <1>2, <3>2, WorkingAfter
    <3>4. Working(r)' = {}
      BY <1>4, <1>5, <3>1, <3>2, <3>3 DEF TidyFor
    <3>5. calls' \subseteq calls
      BY <1>1, <1>7, AfterOk DEF Tasked
    <3> QED
      BY <1>3, <1>5, <3>1, <3>4, <3>5 DEF TidyFor
  <2> QED
    BY <1>1, <1>7, <2>1, AnsweredTidy
<1> QED
  BY <1>1, <1>6, <1>7

\* A step that leaves the traces alone.
LEMMA LooseTidy ==
  ASSUME BoardInv, TidyInv, UNCHANGED trace, hurt \subseteq hurt', raced \subseteq raced', cut \subseteq cut',
         \A q \in Run : trace[q].phase # "dead" /\ q \notin hurt' \cup raced' \cup cut' => Working(q)' \subseteq Working(q),
         \A d \in calls : d.by = "raced" => d \in calls',
         \A d \in calls' : Works(d) => d \in calls
  PROVE  TidyInv'
<1>1. ASSUME NEW q \in Run, trace[q].phase # "dead", q \notin hurt' \cup raced' \cup cut' PROVE Tidy(q)'
  <2>1. TidyFor(q, trace[q], calls, Working(q))
    BY <1>1 DEF TidyInv, Tidy
  <2>2. Working(q)' \subseteq Working(q)
    BY <1>1
  <2>3. TidyFor(q, trace[q], calls', Working(q)')
    BY <2>1, <2>2 DEF TidyFor
  <2> QED
    BY <2>3 DEF Tidy
<1> QED
  BY <1>1 DEF TidyInv

LEMMA RecoveryTidy ==
  ASSUME BoardInv, TaskInv, OwnInv, TextsInv, TidyInv, Recovery \/ Restart \/ Reconnect \/ \E c \in calls : LostLands(c)
  PROVE  TidyInv'
<1>1. CASE RecoverNext
  <2>1. PICK x \in rec.todo : Send(calls, Call("recover", x.run, x.board, <<"cancelled", 0>>))
    BY <1>1 DEF RecoverNext
  <2>2. ~Works(Call("recover", x.run, x.board, <<"cancelled", 0>>))
    BY DEF Call, Works
  <2>3. UNCHANGED <<trace, board, hurt, cut>>
    BY <1>1 DEF RecoverNext
  <2>4. \A q \in Run : Working(q)' = Working(q)
    BY <2>3 DEF Working
  <2>5. raced \subseteq raced' /\ calls' = calls \cup {Call("recover", x.run, x.board, <<"cancelled", 0>>)}
    BY <2>1 DEF Send
  <2> QED
    BY <2>2, <2>3, <2>4, <2>5, LooseTidy
<1>2. CASE RecoverAnswered \/ NoticeAnswered
  <2>1. PICK x \in rec.now, c \in calls, how \in How :
          /\ c.by \in {"recover", "notice"} /\ Answer(c, how) /\ raced \subseteq raced'
          /\ \/ calls' = After(c, how)
             \/ calls' = After(c, how) \cup {Call("notice", x.run, NoBoard, <<"cancelled", 0>>)}
    <3>1. CASE RecoverAnswered
      BY <3>1 DEF RecoverAnswered, Waiting, Send, SendNothing
    <3>2. CASE NoticeAnswered
      BY <3>2 DEF NoticeAnswered, Waiting, SendNothing
    <3> QED
      BY <1>2, <3>1, <3>2
  <2>2. UNCHANGED <<trace, cut>>
    BY <1>2 DEF RecoverAnswered, NoticeAnswered
  <2>3. ~Works(c)
    BY <2>1 DEF TextsInv
  <2>4. hurt \subseteq hurt' /\ \A q \in Run : Working(q)' \subseteq Working(q)
    <3>1. CASE how = "ok"
      BY <2>1, <2>3, <3>1, WorkingAfter DEF Answer, Succeeds
    <3>2. CASE how # "ok"
      BY <2>1, <3>2 DEF Answer, Fault, Working
    <3> QED
      BY <3>1, <3>2
  <2>5. ~Works(Call("notice", x.run, NoBoard, <<"cancelled", 0>>))
    BY DEF Call, Works
  <2>6. \A d \in After(c, how) : Works(d) => d \in calls
    BY <2>3, AfterShape DEF Works
  <2>7. \A d \in calls : d.by = "raced" => d \in calls'
    BY <2>1 DEF After
  <2> QED
    BY <2>1, <2>2, <2>4, <2>5, <2>6, <2>7, LooseTidy
<1>3. CASE RecoverSaves \/ Restart
  <2>1. UNCHANGED <<trace, board, calls, hurt, raced, cut>>
    BY <1>3 DEF RecoverSaves, Restart
  <2> QED
    BY <2>1, LooseTidy DEF Working
<1>4. CASE Reconnect
  <2> DEFINE C == {c \in calls : c.by \in {"recover", "notice"}}
  <2>1. UNCHANGED <<trace, board, hurt, raced, cut>> /\ calls' = (calls \ C) \cup Lost(C)
    BY <1>4 DEF Reconnect, SendNothing
  <2>2. \A q \in Run : Working(q)' = Working(q)
    BY <2>1 DEF Working
  <2>3. \A d \in C : d \in calls /\ d.by # "raced" /\ ~Works(d)
    BY DEF TextsInv
  <2> HIDE DEF C
  <2>4. C \in SUBSET calls
    BY <2>3
  <2>5. \A d \in calls' : Works(d) => d \in calls
    BY <2>1, <2>3, <2>4, LosingShape DEF Works
  <2> QED
    BY <2>1, <2>2, <2>3, <2>5, LooseTidy
<1>5. CASE \E c \in calls : LostLands(c)
  <2>1. PICK c \in calls : LostLands(c)
    BY <1>5
  <2>2. c.by = "lost" /\ UNCHANGED <<trace, hurt, raced, cut>> /\ calls' = calls \ {c} /\ (Land(c) \/ UNCHANGED board)
    BY <2>1 DEF LostLands, SendNothing
  <2>3. ASSUME NEW q \in Run, trace[q].phase # "dead", q \notin hurt' \cup raced' \cup cut' PROVE Working(q)' \subseteq Working(q)
    <3>1. q = c.run => ~Works(c)
      BY <2>2, <2>3 DEF TidyInv, Tidy, TidyFor
    <3>2. CASE Land(c)
      BY <3>1, <3>2, WorkingAfter
    <3>3. CASE UNCHANGED board
      BY <3>3 DEF Working
    <3> QED
      BY <2>2, <3>2, <3>3
  <2> QED
    BY <2>2, <2>3, LooseTidy
<1> QED
  BY <1>1, <1>2, <1>3, <1>4, <1>5 DEF Recovery

LEMMA CrashTidy ==
  ASSUME BoardInv, TaskInv, TidyInv, Crash
  PROVE  TidyInv'
<1>1. UNCHANGED <<board, hurt, raced>> /\ cut \subseteq cut' /\ calls' = (calls \ calls) \cup Lost(calls)
  BY DEF Crash
<1>2. \A q \in Run : trace'[q].phase # "dead" => trace'[q] = trace[q] /\ trace[q].phase \notin {"live", "dead"}
  <2>1. [Fresh EXCEPT !.phase = "dead"].phase = "dead"
    BY DEF Fresh
  <2> QED
    BY <2>1 DEF Crash
<1>3. \A q \in Run : Working(q)' = Working(q)
  BY <1>1 DEF Working
<1>4. ASSUME NEW q \in Run, trace'[q].phase # "dead", q \notin hurt' \cup raced' \cup cut' PROVE Tidy(q)'
  <2>1. TidyFor(q, trace[q], calls, Working(q)) /\ trace'[q] = trace[q] /\ trace[q].phase # "live" /\ Sound(trace[q])
    BY <1>1, <1>2, <1>4 DEF TidyInv, Tidy, TaskInv
  <2>2. \A d \in calls : d.run = q => d.by \notin {"start", "rotate", "flush"}
    BY <2>1 DEF TaskInv, Fits, Sound
  <2>3. \A d \in calls' : \E c \in calls : d.run = c.run /\ d.text = c.text
    BY <1>1, LosingShape
  <2>4. \A d \in calls' : d.run = q => ~Works(d)
    BY <2>1, <2>2, <2>3 DEF TidyFor, Works
  <2>5. TidyFor(q, trace[q], calls', Working(q))
    BY <2>1, <2>4 DEF TidyFor
  <2> QED
    BY <1>3, <2>1, <2>5 DEF Tidy
<1> QED
  BY <1>4 DEF TidyInv

LEMMA TidyInductive ==
  ASSUME BoardInv, TaskInv, OwnInv, TextsInv, TidyInv, [Next]_vars
  PROVE  TidyInv'
<1>1. ASSUME NEW r \in Run, Begin(r) \/ Step(r) \/ RotationWakes(r) \/ EndRun(r) PROVE TidyInv'
  BY <1>1, WakingTidy
<1>2. ASSUME NEW r \in Run, Tasks(r) PROVE TidyInv'
  BY <1>2, StartTidy, WakingTidy, FlushTidy, RotationTidy, RotationEndsTidy, CloseTidy, FinalFlushTidy, FinalTidy DEF Tasks
<1>3. CASE UNCHANGED vars
  BY <1>3 DEF vars, TidyInv, Tidy, Working
<1> QED
  BY <1>1, <1>2, <1>3, RecoveryTidy, CrashTidy DEF Next

-----------------------------------------------------------------------------
(* Edits that cross *)

LEMMA CallsCross ==
  ASSUME OneCallInv, raced \subseteq raced',
         NEW q \in Run, q \notin raced',
         \A d, e \in calls' : d.run = q /\ e.run = q /\ d.board = e.board /\ d.board # NoBoard /\ d # e =>
           \E f, g \in calls : f.run = q /\ g.run = q /\ f.board = d.board /\ g.board = d.board /\ f # g
  PROVE  OneCall(q)'
BY DEF OneCallInv, OneCall

LEMMA AfterCross ==
  ASSUME BoardInv, NEW c \in calls, NEW how \in How, NEW d \in After(c, how), NEW e \in After(c, how),
         d.run = e.run, d.board = e.board, d # e
  PROVE  \E f, g \in calls : f.run = d.run /\ g.run = d.run /\ f.board = d.board /\ g.board = d.board /\ f # g
<1>1. After(c, how) = (calls \ {c}) \cup (IF how = "error" THEN {[c EXCEPT !.by = "lost"]} ELSE {})
  BY DEF After, Lost
<1>2. [c EXCEPT !.by = "lost"].run = c.run /\ [c EXCEPT !.by = "lost"].board = c.board
  BY DEF BoardInv, CallsIn
<1>3. CASE d \in calls \ {c} /\ e \in calls \ {c}
  BY <1>3
<1>4. CASE d \in calls \ {c} /\ e = [c EXCEPT !.by = "lost"]
  BY <1>2, <1>4
<1>5. CASE e \in calls \ {c} /\ d = [c EXCEPT !.by = "lost"]
  BY <1>2, <1>5
<1> QED
  BY <1>1, <1>3, <1>4, <1>5

LEMMA LosingCross ==
  ASSUME BoardInv, NEW C \in SUBSET calls, NEW d \in (calls \ C) \cup Lost(C), NEW e \in (calls \ C) \cup Lost(C),
         d.run = e.run, d.board = e.board, d # e
  PROVE  \E f, g \in calls : f.run = d.run /\ g.run = d.run /\ f.board = d.board /\ g.board = d.board /\ f # g
<1>1. PICK f \in calls : f.run = d.run /\ f.board = d.board /\ ((d = f /\ f \notin C) \/ (f \in C /\ d = [f EXCEPT !.by = "lost"]))
  BY LosingShape
<1>2. PICK g \in calls : g.run = e.run /\ g.board = e.board /\ ((e = g /\ g \notin C) \/ (g \in C /\ e = [g EXCEPT !.by = "lost"]))
  BY LosingShape
<1>3. f # g
  BY <1>1, <1>2
<1> QED
  BY <1>1, <1>2, <1>3

\* Whatever a step does, it sends at most one call beside those it leaves.
LEMMA SentBeside ==
  ASSUME [Next]_vars
  PROVE  \/ \E C \in SUBSET calls : calls' = C /\ UNCHANGED raced
         \/ \E C : /\ (\E c \in calls, how \in How : C = After(c, how)) \/ (\E D \in SUBSET calls : C = (calls \ D) \cup Lost(D))
                   /\ (calls' = C /\ UNCHANGED raced) \/ (\E n : Send(C, n))
<1> DEFINE Kind(C) == (\E c \in calls, how \in How : C = After(c, how)) \/ (\E D \in SUBSET calls : C = (calls \ D) \cup Lost(D))
           Sent(C) == (calls' = C /\ UNCHANGED raced) \/ (\E n : Send(C, n))
<1>1. Kind(calls)
  <2>1. calls = (calls \ {}) \cup Lost({}) /\ {} \in SUBSET calls
    BY DEF Lost
  <2> QED
    BY <2>1
<1>2. ASSUME NEW r \in Run, Begin(r) \/ Step(r) \/ RotationWakes(r) \/ EndRun(r) \/ FlushWakes(r) PROVE Sent(calls)
  BY <1>2 DEF Begin, Step, RotationWakes, EndRun, FlushWakes, SendNothing
<1>3. ASSUME NEW r \in Run,
             \/ StartAnswered(r) \/ FlushAnswered(r) \/ RacedAnswered(r) \/ CloseAnswered(r) \/ ClosingLineAnswered(r)
             \/ RotationAnswered(r) \/ FinalAnswered(r)
      PROVE  \E c \in calls, how \in How : Sent(After(c, how))
  <2>1. CASE StartAnswered(r)
    BY <2>1 DEF StartAnswered, SendNothing, Waiting
  <2>2. CASE FlushAnswered(r)
    BY <2>2 DEF FlushAnswered, SendNothing, Waiting
  <2>3. CASE RacedAnswered(r)
    BY <2>3 DEF RacedAnswered, SendNothing, Waiting
  <2>4. CASE CloseAnswered(r)
    BY <2>4 DEF CloseAnswered, SendNothing, Waiting
  <2>5. CASE ClosingLineAnswered(r)
    BY <2>5 DEF ClosingLineAnswered, SendNothing, Waiting
  <2>6. CASE RotationAnswered(r)
    BY <2>6 DEF RotationAnswered, SendNothing, Waiting
  <2>7. CASE FinalAnswered(r)
    BY <2>7 DEF FinalAnswered, SendNothing, Waiting
  <2> QED
    BY <1>3, <2>1, <2>2, <2>3, <2>4, <2>5, <2>6, <2>7
<1>4. ASSUME NEW r \in Run, Close(r) \/ FinalFlush(r) PROVE \E D \in SUBSET calls : Sent((calls \ D) \cup Lost(D))
  <2>1. CASE Close(r)
    BY <2>1 DEF Close, SendNothing
  <2>2. CASE FinalFlush(r)
    BY <2>2 DEF FinalFlush, SendNothing, Waiting
  <2> QED
    BY <1>4, <2>1, <2>2
<1>5. CASE Recovery
  <2>1. CASE RecoverNext \/ RecoverSaves
    <3>1. Sent(calls)
      BY <2>1 DEF RecoverNext, RecoverSaves
    <3> HIDE DEF Sent
    <3> QED
      BY <1>1, <3>1 DEF Sent
  <2>2. CASE RecoverAnswered \/ NoticeAnswered
    <3>1. \E c \in calls, how \in How : Sent(After(c, how))
      BY <2>2 DEF RecoverAnswered, NoticeAnswered, SendNothing, Waiting
    <3> QED
      BY <3>1
  <2> QED
    BY <1>5, <2>1, <2>2 DEF Recovery
<1>6. CASE Crash
  <2>1. calls' = (calls \ calls) \cup Lost(calls) /\ UNCHANGED raced
    BY <1>6 DEF Crash
  <2> QED
    BY <2>1
<1>7. CASE Reconnect
  <2>1. \E D \in SUBSET calls : calls' = (calls \ D) \cup Lost(D) /\ UNCHANGED raced
    BY <1>7 DEF Reconnect, SendNothing
  <2> QED
    BY <2>1
<1>8. CASE Restart \/ (\E c \in calls : LostLands(c)) \/ UNCHANGED vars
  BY <1>8 DEF Restart, LostLands, SendNothing, vars
<1> QED
  BY <1>1, <1>2, <1>3, <1>4, <1>5, <1>6, <1>7, <1>8 DEF Next, Tasks

LEMMA OneCallInductive ==
  ASSUME BoardInv, OneCallInv, [Next]_vars
  PROVE  OneCallInv'
<1>1. SUFFICES ASSUME NEW q \in Run, q \notin raced' PROVE OneCall(q)'
  BY DEF OneCallInv
<1>2. CASE \E C \in SUBSET calls : calls' = C /\ UNCHANGED raced
  BY <1>1, <1>2, CallsCross
<1>3. ASSUME NEW C,
             (\E c \in calls, how \in How : C = After(c, how)) \/ (\E D \in SUBSET calls : C = (calls \ D) \cup Lost(D)),
             (calls' = C /\ UNCHANGED raced) \/ (\E n : Send(C, n))
      PROVE  OneCall(q)'
  <2>1. \A d, e \in C : d.run = e.run /\ d.board = e.board /\ d # e =>
          \E f, g \in calls : f.run = d.run /\ g.run = d.run /\ f.board = d.board /\ g.board = d.board /\ f # g
    BY <1>3, AfterCross, LosingCross
  <2>2. CASE calls' = C /\ UNCHANGED raced
    BY <1>1, <2>1, <2>2, CallsCross
  <2>3. ASSUME NEW n, Send(C, n) PROVE OneCall(q)'
    <3>1. calls' = C \cup {n} /\ raced \subseteq raced'
      BY <2>3 DEF Send
    <3>2. ASSUME NEW e \in C, e.board = n.board, e.board # NoBoard PROVE n.run \in raced'
      BY <2>3, <3>2 DEF Send
    <3> QED
      BY <1>1, <2>1, <3>1, <3>2, CallsCross
  <2> QED
    BY <1>3, <2>2, <2>3
<1> QED
  BY <1>2, <1>3, SentBeside

-----------------------------------------------------------------------------
(* What a run does leaves the others as they are. *)

Frame(s) ==
  /\ \A d \in calls \cup calls' : d.run # s => (d \in calls <=> d \in calls')
  /\ \A d \in calls' : d.by = "recover" => d \in calls
  /\ \A d \in calls : d.by = "recover" => d \in calls'
  /\ \A q \in Run \ {s} : Working(q)' \subseteq Working(q) /\ trace'[q] = trace[q]
  /\ \A x \in disk : x.run # s => x \in disk'
  /\ trace'[s].phase # "dead"
  /\ UNCHANGED <<up, rec>>
  /\ hurt \subseteq hurt' /\ raced \subseteq raced' /\ robbed \subseteq robbed' /\ cut \subseteq cut'

LEMMA UnlandedFrame ==
  ASSUME BoardInv, NEW s \in Run, NEW C \in SUBSET calls, \A d \in C : d.run = s /\ d.by # "recover",
         \A d \in calls' : d \in calls \ C \/ d \in Lost(C) \/ (d.run = s /\ d.by # "recover"), calls \ C \subseteq calls',
         NEW t, Set(s, t), t.phase # "dead", UNCHANGED <<board, up, rec, hurt, robbed, disk>>, raced \subseteq raced', cut \subseteq cut'
  PROVE  Frame(s)
<1>1. \A d \in Lost(C) : d.run = s /\ d.by = "lost"
  <2>1. \A d \in Lost(C) : d \in (calls \ C) \cup Lost(C)
    OBVIOUS
  <2>2. \A d \in calls : [d EXCEPT !.by = "lost"].by = "lost" /\ [d EXCEPT !.by = "lost"].run = d.run
    BY DEF BoardInv, CallsIn
  <2> QED
    BY <2>2 DEF Lost
<1>2. trace'[s] = t /\ \A q \in Run \ {s} : trace'[q] = trace[q] /\ Working(q)' = Working(q)
  BY DEF Set, BoardInv, Working
<1> QED
  BY <1>1, <1>2 DEF Frame

LEMMA AnsweredFrame ==
  ASSUME BoardInv, OwnInv, NEW s \in Run, NEW c \in calls, c.run = s, c.by # "recover", NEW how \in How, Answer(c, how),
         \A d \in calls' : d \in After(c, how) \/ (d.run = s /\ d.by # "recover"), After(c, how) \subseteq calls',
         NEW t, Set(s, t), t.phase # "dead", UNCHANGED <<up, rec, robbed>>, raced \subseteq raced', cut \subseteq cut',
         \A x \in disk : x.run # s => x \in disk'
  PROVE  Frame(s)
<1>1. hurt \subseteq hurt' /\ \A q \in Run : q # s => Working(q)' \subseteq Working(q)
  <2>1. CASE how = "ok"
    BY <2>1, WorkingAfter DEF Answer, Succeeds
  <2>2. CASE how # "ok"
    BY <2>2 DEF Answer, Fault, Working
  <2> QED
    BY <2>1, <2>2
<1>2. trace'[s] = t /\ \A q \in Run \ {s} : trace'[q] = trace[q]
  BY DEF Set, BoardInv
<1>3. \A d \in After(c, how) : (d.run # s \/ d.by = "recover") => d \in calls
  BY AfterShape
<1>4. \A d \in calls : d = c \/ d \in After(c, how)
  BY DEF After
<1> QED
  BY <1>1, <1>2, <1>3, <1>4 DEF Frame

LEMMA RunFrame ==
  ASSUME BoardInv, OwnInv, NEW s \in Run,
         Begin(s) \/ Step(s) \/ RotationWakes(s) \/ EndRun(s) \/ Tasks(s)
  PROVE  Frame(s)
<1>1. trace[s].phase # "live" => trace[s].phase = "new"
  BY DEF Begin, Step, RotationWakes, EndRun, Tasks, StartAnswered, FlushWakes, FlushAnswered, RotationAnswered,
     RacedAnswered, CloseAnswered, Close, FinalFlush, FinalAnswered, ClosingLineAnswered, Alive
<1>2. Set(s, trace'[s]) /\ trace'[s].phase # "dead"
  <2> SUFFICES \E t : Set(s, t) /\ t.phase # "dead"
    BY DEF Set, BoardInv
  <2>1. CASE Begin(s)
    <3> DEFINE t == [trace[s] EXCEPT !.phase = "live", !.start = "posting"]
    <3>1. t.phase # "dead"
      BY <1>1, TraceShape DEF TracesIn, Begin
    <3>2. Set(s, t)
      BY <2>1 DEF Begin
    <3> HIDE DEF t
    <3> QED
      BY <3>1, <3>2
  <2>2. CASE Step(s)
    <3> DEFINE t == [trace[s] EXCEPT !.ver = @ + 1, !.flush = IF @ = "idle" THEN "sleeping" ELSE @]
    <3>1. t.phase # "dead"
      BY <1>1, TraceShape DEF TracesIn
    <3>2. Set(s, t)
      BY <2>2 DEF Step
    <3> HIDE DEF t
    <3> QED
      BY <3>1, <3>2
  <2>3. CASE RotationWakes(s) \/ RacedAnswered(s) \/ CloseAnswered(s)
    <3> DEFINE t(x) == [trace[s] EXCEPT !.rot = x]
    <3>1. \A x : t(x).phase # "dead"
      BY <1>1, TraceShape DEF TracesIn
    <3>2. Set(s, t("posting")) \/ Set(s, t("idle")) \/ Set(s, t("sleeping"))
      BY <2>3 DEF RotationWakes, RacedAnswered, CloseAnswered
    <3> HIDE DEF t
    <3> QED
      BY <3>1, <3>2
  <2>4. CASE EndRun(s)
    <3> DEFINE t == [trace[s] EXCEPT !.fin = "start"]
    <3>1. t.phase # "dead"
      BY <1>1, TraceShape DEF TracesIn
    <3>2. Set(s, t)
      BY <2>4 DEF EndRun
    <3> HIDE DEF t
    <3> QED
      BY <3>1, <3>2
  <2>5. CASE FlushWakes(s)
    <3> DEFINE t(x) == [trace[s] EXCEPT !.flush = x]
    <3>1. \A x : t(x).phase # "dead"
      BY <1>1, TraceShape DEF TracesIn
    <3>2. Set(s, t("idle")) \/ Set(s, t("editing"))
      BY <2>5 DEF FlushWakes
    <3> HIDE DEF t
    <3> QED
      BY <3>1, <3>2
  <2>6. CASE Close(s)
    <3> DEFINE t == [trace[s] EXCEPT !.closed = TRUE, !.rot = StopRotation(s), !.fin = "rotation"]
    <3>1. t.phase # "dead"
      BY <1>1, TraceShape DEF TracesIn
    <3>2. Set(s, t)
      BY <2>6 DEF Close
    <3> HIDE DEF t
    <3> QED
      BY <3>1, <3>2
  <2>7. CASE FlushAnswered(s)
    <3> DEFINE t(x) == [trace[s] EXCEPT !.flush = "idle", !.last = x]
    <3>1. \A x : t(x).phase # "dead"
      BY <1>1, TraceShape DEF TracesIn
    <3>2. PICK c \in calls, how \in How :
            Set(s, [trace[s] EXCEPT !.flush = "idle", !.last = IF how = "ok" THEN c.text ELSE @])
      BY <2>7 DEF FlushAnswered, Waiting
    <3>3. Set(s, t(c.text)) \/ Set(s, t(trace[s].last))
      BY <3>2
    <3> HIDE DEF t
    <3> QED
      BY <3>1, <3>3
  <2>8. CASE StartAnswered(s)
    <3> DEFINE on(x) == [trace[s] EXCEPT !.start = "done", !.mid = Len(board) + 1, !.last = x, !.rot = "sleeping"]
               off == [trace[s] EXCEPT !.start = "done"]
    <3>1. off.phase # "dead" /\ \A x : on(x).phase # "dead"
      BY <1>1, TraceShape DEF TracesIn
    <3>2. PICK c \in calls : Set(s, on(c.text)) \/ Set(s, off)
      BY <2>8 DEF StartAnswered, Waiting
    <3> HIDE DEF on, off
    <3> QED
      BY <3>1, <3>2
  <2>9. CASE RotationAnswered(s)
    <3> DEFINE to(x) == [trace[s] EXCEPT !.rot = x]
               moved(x) == [trace[s] EXCEPT !.rot = "closing", !.old = trace[s].mid, !.mid = Len(board) + 1, !.last = x]
    <3>1. (\A x : to(x).phase # "dead") /\ (\A x : moved(x).phase # "dead")
      BY <1>1, TraceShape DEF TracesIn
    <3>2. PICK c \in calls : Set(s, to("idle")) \/ Set(s, to("sleeping")) \/ Set(s, to("raced")) \/ Set(s, moved(c.text))
      BY <2>9 DEF RotationAnswered, Waiting
    <3> HIDE DEF to, moved
    <3> QED
      BY <3>1, <3>2
  <2>10. CASE FinalFlush(s) \/ FinalAnswered(s) \/ ClosingLineAnswered(s)
    <3> DEFINE over == [Over(s) EXCEPT !.flush = "idle"]
               editing == [trace[s] EXCEPT !.flush = "idle", !.fin = "editing"]
               posting == [trace[s] EXCEPT !.fin = "posting"]
    <3>1. over.phase # "dead" /\ Over(s).phase # "dead" /\ editing.phase # "dead" /\ posting.phase # "dead"
      BY <1>1, TraceShape DEF TracesIn, Over
    <3>2. Set(s, over) \/ Set(s, Over(s)) \/ Set(s, editing) \/ Set(s, posting)
      BY <2>10 DEF FinalFlush, FinalAnswered, ClosingLineAnswered
    <3> HIDE DEF over, editing, posting
    <3> QED
      BY <3>1, <3>2
  <2> QED
    BY <2>1, <2>2, <2>3, <2>4, <2>5, <2>6, <2>7, <2>8, <2>9, <2>10 DEF Tasks
<1>3. CASE Begin(s) \/ Step(s) \/ RotationWakes(s) \/ EndRun(s) \/ FlushWakes(s)
  <2>1. (\A d \in calls' : d \in calls \/ (d.run = s /\ d.by # "recover")) /\ calls \subseteq calls' /\ raced \subseteq raced'
    BY <1>3 DEF Begin, Step, RotationWakes, EndRun, FlushWakes, Send, SendNothing, Call
  <2>2. UNCHANGED <<board, up, rec, hurt, robbed, disk, cut>>
    BY <1>3 DEF Begin, Step, RotationWakes, EndRun, FlushWakes, Rest
  <2> QED
    BY <1>2, <2>1, <2>2, UnlandedFrame
<1>4. CASE Close(s)
  <2> DEFINE C == {c \in calls : c.run = s /\ c.by \in {"rotate", "close"} /\ StopRotation(s) = "idle"}
  <2>1. calls' = (calls \ C) \cup Lost(C) /\ UNCHANGED <<board, up, rec, hurt, robbed, disk, raced>> /\ cut \subseteq cut'
    BY <1>4 DEF Close, SendNothing, Rest
  <2>2. C \in SUBSET calls /\ \A d \in C : d.run = s /\ d.by # "recover"
    OBVIOUS
  <2> HIDE DEF C
  <2> QED
    BY <1>2, <2>1, <2>2, UnlandedFrame
<1>5. CASE FinalFlush(s)
  <2> DEFINE C == Waiting("flush", s)
             edit == Call("finish", s, trace[s].mid, Terminal(s))
  <2>1. /\ calls' = (calls \ C) \cup Lost(C) \/ calls' = (calls \ C) \cup Lost(C) \cup {edit}
        /\ UNCHANGED <<board, up, rec, hurt, robbed, disk, cut>> /\ raced \subseteq raced'
    BY <1>5 DEF FinalFlush, Send, SendNothing, Rest
  <2>2. C \in SUBSET calls /\ (\A d \in C : d.run = s /\ d.by # "recover") /\ edit.run = s /\ edit.by # "recover"
    BY DEF Waiting, Call
  <2> HIDE DEF C, edit
  <2> QED
    BY <1>2, <2>1, <2>2, UnlandedFrame
<1>6. CASE StartAnswered(s) \/ FlushAnswered(s) \/ RacedAnswered(s) \/ CloseAnswered(s) \/ ClosingLineAnswered(s)
           \/ RotationAnswered(s) \/ FinalAnswered(s)
  <2>1. PICK c \in calls, how \in How :
          /\ c.run = s /\ c.by # "recover" /\ Answer(c, how) /\ raced \subseteq raced' /\ After(c, how) \subseteq calls'
          /\ \A d \in calls' : d \in After(c, how) \/ (d.run = s /\ d.by # "recover")
    <3>1. CASE StartAnswered(s)
      BY <3>1 DEF StartAnswered, Waiting, SendNothing
    <3>2. CASE FlushAnswered(s)
      BY <3>2 DEF FlushAnswered, Waiting, SendNothing
    <3>3. CASE RacedAnswered(s)
      BY <3>3 DEF RacedAnswered, Waiting, SendNothing
    <3>4. CASE CloseAnswered(s)
      BY <3>4 DEF CloseAnswered, Waiting, SendNothing
    <3>5. CASE ClosingLineAnswered(s)
      BY <3>5 DEF ClosingLineAnswered, Waiting, SendNothing
    <3>6. CASE RotationAnswered(s)
      BY <3>6 DEF RotationAnswered, Waiting, SendNothing, Send, Call
    <3>7. CASE FinalAnswered(s)
      BY <3>7 DEF FinalAnswered, Waiting, SendNothing, Send, Call
    <3> QED
      BY <1>6, <3>1, <3>2, <3>3, <3>4, <3>5, <3>6, <3>7
  <2>2. UNCHANGED <<up, rec, robbed, cut>>
    BY <1>6 DEF StartAnswered, FlushAnswered, RacedAnswered, CloseAnswered, ClosingLineAnswered, RotationAnswered, FinalAnswered, Rest
  <2>3. \A x \in disk : x.run # s => x \in disk'
    <3>1. \/ disk' = disk \/ disk' = Forget(s, trace[s].mid)
          \/ \E b : disk' = Keep(s, b) \/ disk' = Forget(s, trace[s].old) \cup {[run |-> s, board |-> b]}
      BY <1>6 DEF StartAnswered, FlushAnswered, RacedAnswered, CloseAnswered, ClosingLineAnswered, RotationAnswered, FinalAnswered, Moved
    <3> QED
      BY <3>1 DEF Keep, Forget
  <2> QED
    BY <1>2, <2>1, <2>2, <2>3, AnsweredFrame
<1> QED
  BY <1>3, <1>4, <1>5, <1>6 DEF Tasks

LEMMA RecInductive ==
  ASSUME BoardInv, OwnInv, RecInv, [Next]_vars
  PROVE  RecInv'
<1>1. ASSUME NEW s \in Run, Frame(s) PROVE RecInv'
  BY <1>1 DEF Frame, RecInv
<1>2. CASE RecoverNext
  <2>1. PICK x \in rec.todo :
          /\ rec' = [at |-> "editing", todo |-> rec.todo \ {x}, now |-> {x}]
          /\ calls' = calls \cup {Call("recover", x.run, x.board, <<"cancelled", 0>>)} /\ up' = up
    BY <1>2 DEF RecoverNext, Send, Rest
  <2>2. rec.at = "next" /\ (\A d \in calls : d.by # "recover") /\ rec # Off
    BY <1>2 DEF RecoverNext, RecInv, Off
  <2>3. [run |-> x.run, board |-> x.board] = x
    BY DEF BoardInv, RecoveriesIn, RecordsIn
  <2>4. /\ Call("recover", x.run, x.board, <<"cancelled", 0>>).run = x.run
        /\ Call("recover", x.run, x.board, <<"cancelled", 0>>).board = x.board
    BY DEF Call
  <2> QED
    BY <2>1, <2>2, <2>3, <2>4 DEF RecInv
<1>3. CASE RecoverAnswered
  <2>1. PICK x \in rec.now, c \in calls, how \in How :
          /\ c \in Waiting("recover", x.run)
          /\ \/ calls' = After(c, how) /\ rec' = [rec EXCEPT !.at = "next", !.now = {}]
             \/ /\ calls' = After(c, how) \cup {Call("notice", x.run, NoBoard, <<"cancelled", 0>>)}
                /\ rec' = [rec EXCEPT !.at = "noticing"]
    BY <1>3 DEF RecoverAnswered, Send, SendNothing, Waiting
  <2>2. c \in calls /\ c.by = "recover" /\ rec.at = "editing" /\ up' = up /\ rec \in RecoveriesIn(Len(board))
    BY <1>3, <2>1 DEF Waiting, RecoverAnswered, Rest, BoardInv
  <2>3. \A d \in calls' : d.by # "recover"
    BY <2>1, <2>2, AfterShape DEF RecInv, Call
  <2>4. rec'.at \in {"next", "noticing"} /\ (rec'.at = "next" => rec'.now = {}) /\ \A y, z \in rec'.now : y = z
    BY <2>1, <2>2 DEF RecoveriesIn, RecInv
  <2>5. up
    BY <2>2 DEF RecInv, Off, BoardInv, Flags
  <2> QED
    BY <2>2, <2>3, <2>4, <2>5 DEF RecInv
<1>4. CASE NoticeAnswered
  <2>1. PICK c \in calls, how \in How : calls' = After(c, how) /\ rec' = [rec EXCEPT !.at = "next", !.now = {}]
    BY <1>4 DEF NoticeAnswered, SendNothing, Waiting
  <2>2. rec.at = "noticing" /\ up' = up /\ rec \in RecoveriesIn(Len(board))
    BY <1>4 DEF NoticeAnswered, Rest, BoardInv
  <2>3. \A d \in calls' : d.by # "recover"
    BY <2>1, <2>2, AfterShape DEF RecInv
  <2>4. rec'.at = "next" /\ rec'.now = {}
    BY <2>1, <2>2 DEF RecoveriesIn
  <2>5. up
    BY <2>2 DEF RecInv, Off, BoardInv, Flags
  <2> QED
    BY <2>2, <2>3, <2>4, <2>5 DEF RecInv
<1>5. CASE RecoverSaves
  <2>1. rec' = Off /\ calls' = calls /\ rec.at = "next"
    BY <1>5 DEF RecoverSaves
  <2> QED
    BY <2>1 DEF RecInv, Off
<1>6. CASE Crash \/ Reconnect
  <2>1. \A d \in calls' : d.by # "recover"
    <3>1. CASE Crash
      <4>1. calls' = (calls \ calls) \cup Lost(calls)
        BY <3>1 DEF Crash
      <4> QED
        BY <4>1, LosingShape
    <3>2. CASE Reconnect
      <4> DEFINE C == {c \in calls : c.by \in {"recover", "notice"}}
      <4>1. calls' = (calls \ C) \cup Lost(C)
        BY <3>2 DEF Reconnect, SendNothing
      <4>2. C \in SUBSET calls
        OBVIOUS
      <4> QED
        BY <4>1, <4>2, LosingShape
    <3> QED
      BY <1>6, <3>1, <3>2
  <2>2. rec' = Off \/ (up' /\ rec' = Load)
    BY <1>6 DEF Crash, Reconnect
  <2> QED
    BY <2>1, <2>2 DEF RecInv, Off, Load
<1>7. CASE Restart
  <2>1. up' /\ rec' = Load /\ calls' = calls /\ rec = Off
    BY <1>7 DEF Restart, RecInv
  <2>2. \A d \in calls : d.by # "recover"
    BY <2>1 DEF RecInv, Off
  <2> QED
    BY <2>1, <2>2 DEF RecInv, Off, Load
<1>8. CASE \E c \in calls : LostLands(c)
  BY <1>8 DEF LostLands, SendNothing, Rest, RecInv
<1>9. CASE UNCHANGED vars
  BY <1>9 DEF vars, RecInv
<1> QED
  BY <1>1, <1>2, <1>3, <1>4, <1>5, <1>6, <1>7, <1>8, <1>9, RunFrame DEF Next, Recovery

-----------------------------------------------------------------------------
(* What a dead run left open *)

LEMMA RunOrphans ==
  ASSUME BoardInv, OrphanInv, NEW s \in Run, Frame(s)
  PROVE  OrphanInv'
<1>1. ASSUME NEW q \in Run, trace'[q].phase = "dead" PROVE q # s /\ trace[q].phase = "dead"
  BY <1>1 DEF Frame
<1>2. ASSUME NEW q \in Run, q # s PROVE Left(q)' \subseteq Left(q)
  <2>1. Working(q)' \subseteq Working(q) /\ \A d \in calls' : d.run = q => d \in calls
    BY <1>2 DEF Frame
  <2> QED
    BY <2>1 DEF Left
<1>3. ASSUME NEW q \in Run, q # s, NEW i, Pending(q, i) PROVE Pending(q, i)'
  <2>1. rec' = rec /\ \A c \in calls : c.by = "recover" => c \in calls'
    BY DEF Frame
  <2> QED
    BY <1>3, <2>1 DEF Pending, Entry
<1>4. ASSUME NEW q \in Run, q # s, NEW i, Entry(q, i) \in disk PROVE Entry(q, i) \in disk'
  BY <1>4 DEF Entry, Frame
<1>5. ASSUME NEW q \in Run, trace'[q].phase = "dead", q \notin hurt' \cup raced' \cup robbed' \cup cut', NEW i \in Left(q)'
      PROVE  i # NoBoard /\ Entry(q, i) \in disk' /\ (up' => Pending(q, i)')
  <2>1. q # s /\ trace[q].phase = "dead" /\ q \notin hurt \cup raced \cup robbed \cup cut /\ i \in Left(q) /\ up' = up
    BY <1>1, <1>2, <1>5 DEF Frame
  <2>2. i # NoBoard /\ Entry(q, i) \in disk /\ (up => Pending(q, i))
    BY <2>1 DEF OrphanInv
  <2> QED
    BY <1>3, <1>4, <2>1, <2>2
<1>6. \A q \in Run : \A i : Entry(q, i)' = Entry(q, i)
  BY DEF Entry
<1> QED
  BY <1>5, <1>6 DEF OrphanInv

\* A step that leaves the traces alone.
LEMMA LooseOrphans ==
  ASSUME UNCHANGED trace, hurt \subseteq hurt', raced \subseteq raced', robbed \subseteq robbed', cut \subseteq cut',
         OrphanInv,
         ASSUME NEW q \in Run, trace[q].phase = "dead", q \notin hurt' \cup raced' \cup robbed' \cup cut', NEW i \in Left(q)'
         PROVE  /\ i \in Left(q)
                /\ Entry(q, i) \in disk => Entry(q, i) \in disk'
                /\ up' /\ Entry(q, i) \in disk /\ (up => Pending(q, i)) => Pending(q, i)'
  PROVE  OrphanInv'
<1>1. ASSUME NEW q \in Run, trace'[q].phase = "dead", q \notin hurt' \cup raced' \cup robbed' \cup cut', NEW i \in Left(q)'
      PROVE  i # NoBoard /\ Entry(q, i) \in disk' /\ (up' => Pending(q, i)')
  <2>1. trace[q].phase = "dead" /\ q \notin hurt \cup raced \cup robbed \cup cut
    BY <1>1
  <2>2. i \in Left(q) /\ (Entry(q, i) \in disk => Entry(q, i) \in disk')
    BY <1>1, <2>1
  <2>3. i # NoBoard /\ Entry(q, i) \in disk /\ (up => Pending(q, i))
    BY <2>1, <2>2 DEF OrphanInv
  <2> QED
    BY <1>1, <2>1, <2>2, <2>3
<1>2. \A q \in Run : \A i : Entry(q, i)' = Entry(q, i)
  BY DEF Entry
<1> QED
  BY <1>1, <1>2 DEF OrphanInv

LEMMA RecoverNextOrphans ==
  ASSUME BoardInv, RecInv, OrphanInv, RecoverNext
  PROVE  OrphanInv'
<1>1. PICK x \in rec.todo :
        /\ rec' = [at |-> "editing", todo |-> rec.todo \ {x}, now |-> {x}]
        /\ Send(calls, Call("recover", x.run, x.board, <<"cancelled", 0>>))
  BY DEF RecoverNext
<1> DEFINE c == Call("recover", x.run, x.board, <<"cancelled", 0>>)
<1>2. calls' = calls \cup {c} /\ raced \subseteq raced'
  BY <1>1 DEF Send
<1>3. c.by = "recover" /\ c.run = x.run /\ c.board = x.board /\ ~Works(c)
  BY DEF Call, Works
<1>4. UNCHANGED <<trace, board, disk, up, hurt, robbed, cut>> /\ rec.at = "next" /\ rec.now = {} /\ up
  BY DEF RecoverNext, Rest, RecInv, Off, BoardInv, Flags
<1>5. x = [run |-> x.run, board |-> x.board]
  BY DEF BoardInv, RecoveriesIn, RecordsIn
<1> HIDE DEF c
<1>6. \A q \in Run : Left(q)' = Left(q)
  <2>1. \A q \in Run : Working(q)' = Working(q)
    BY <1>4 DEF Working
  <2> QED
    BY <1>2, <1>3, <2>1 DEF Left
<1>7. ASSUME NEW q \in Run, NEW i, Pending(q, i) PROVE Pending(q, i)'
  <2>1. Entry(q, i) \in rec.todo
    BY <1>4, <1>7 DEF Pending
  <2>2. CASE Entry(q, i) = x
    BY <1>1, <1>2, <1>3, <2>2 DEF Pending, Entry
  <2>3. CASE Entry(q, i) # x
    BY <1>1, <2>1, <2>3 DEF Pending, Entry
  <2> QED
    BY <2>2, <2>3
<1> QED
  BY <1>2, <1>4, <1>6, <1>7, LooseOrphans

LEMMA RecoverAnsweredOrphans ==
  ASSUME BoardInv, OwnInv, TextsInv, OneCallInv, RecInv, OrphanInv, RecoverAnswered
  PROVE  OrphanInv'
<1>1. PICK x \in rec.now, c \in calls, how \in How :
        /\ c \in Waiting("recover", x.run) /\ Answer(c, how) /\ raced \subseteq raced'
        /\ \/ how = "ok" /\ calls' = After(c, how) /\ rec' = [rec EXCEPT !.at = "next", !.now = {}]
           \/ /\ how # "ok" /\ calls' = After(c, how) \cup {Call("notice", x.run, NoBoard, <<"cancelled", 0>>)}
              /\ rec' = [rec EXCEPT !.at = "noticing"]
  BY DEF RecoverAnswered, Send, SendNothing, Waiting
<1>2. /\ c.by = "recover" /\ c.run = x.run /\ ~Works(c)
      /\ UNCHANGED <<trace, disk, up, robbed, cut>> /\ rec.at = "editing" /\ up
      /\ \A y \in rec.now : y = [run |-> c.run, board |-> c.board]
      /\ rec'.todo = rec.todo
  <2>1. c.by = "recover" /\ c.run = x.run
    BY <1>1 DEF Waiting
  <2>2. [run |-> c.run, board |-> c.board] \in rec.now /\ rec.at = "editing"
    BY <2>1 DEF RecInv
  <2>3. rec'.todo = rec.todo
    BY <1>1 DEF BoardInv, RecoveriesIn
  <2> QED
    BY <2>1, <2>2, <2>3 DEF RecoverAnswered, Rest, RecInv, TextsInv, Off, BoardInv, Flags
<1>3. hurt \subseteq hurt' /\ (how # "ok" => c.run \in hurt') /\ \A q \in Run : Working(q)' \subseteq Working(q)
  <2>1. CASE how = "ok"
    BY <1>1, <1>2, <2>1, WorkingAfter DEF Answer, Succeeds
  <2>2. CASE how # "ok"
    BY <1>1, <2>2 DEF Answer, Fault, Working
  <2> QED
    BY <2>1, <2>2
<1>4. how = "ok" => c.board \notin Working(c.run)'
  BY <1>1, <1>2, WorkingAfter DEF Answer, Succeeds
<1>5. \A d \in calls' : Works(d) => d \in calls /\ d # c
  <2>1. ~Works(Call("notice", x.run, NoBoard, <<"cancelled", 0>>))
    BY DEF Call, Works
  <2> QED
    BY <1>1, <1>2, <2>1, AfterShape DEF Works
<1>6. ASSUME NEW q \in Run, trace[q].phase = "dead", q \notin hurt' \cup raced' \cup robbed' \cup cut', NEW i \in Left(q)'
      PROVE  i \in Left(q) /\ (Pending(q, i) => Pending(q, i)')
  <2>1. i \in Left(q)
    BY <1>3, <1>5, <1>6 DEF Left
  <2>2. ASSUME Entry(q, i) \in rec.now PROVE FALSE
    <3>1. q = c.run /\ i = c.board
      BY <1>2, <2>2 DEF Entry
    <3>2. how = "ok"
      BY <1>3, <1>6, <3>1
    <3>3. PICK d \in calls' : d.run = q /\ Works(d) /\ d.board = i
      BY <1>4, <1>6, <3>1, <3>2 DEF Left
    <3>4. i # NoBoard
      <4>1. trace[q].phase = "dead" /\ q \notin hurt \cup raced \cup robbed \cup cut
        BY <1>1, <1>2, <1>3, <1>6
      <4> QED
        BY <2>1, <4>1 DEF OrphanInv
    <3>5. d = c
      <4>1. q \notin raced
        BY <1>1, <1>6
      <4> QED
        BY <1>5, <3>1, <3>3, <3>4, <4>1 DEF OneCallInv, OneCall
    <3> QED
      BY <1>5, <3>3, <3>5
  <2>3. Pending(q, i) => Pending(q, i)'
    BY <1>2, <2>2 DEF Pending, Entry
  <2> QED
    BY <2>1, <2>3
<1> QED
  BY <1>1, <1>2, <1>3, <1>6, LooseOrphans

LEMMA NoticeOrphans ==
  ASSUME BoardInv, OwnInv, TextsInv, RecInv, OrphanInv, NoticeAnswered
  PROVE  OrphanInv'
<1>1. PICK c \in calls, how \in How :
        c.by = "notice" /\ Answer(c, how) /\ calls' = After(c, how) /\ rec' = [rec EXCEPT !.at = "next", !.now = {}]
  BY DEF NoticeAnswered, SendNothing, Waiting
<1>2. /\ UNCHANGED <<trace, disk, up, raced, robbed, cut>> /\ rec.at = "noticing" /\ rec'.todo = rec.todo /\ ~Works(c) /\ up
  <2>1. rec'.todo = rec.todo
    BY <1>1 DEF BoardInv, RecoveriesIn
  <2> QED
    BY <1>1, <2>1 DEF NoticeAnswered, SendNothing, Rest, TextsInv, RecInv, Off, BoardInv, Flags
<1>3. hurt \subseteq hurt' /\ \A q \in Run : Working(q)' \subseteq Working(q)
  <2>1. CASE how = "ok"
    BY <1>1, <1>2, <2>1, WorkingAfter DEF Answer, Succeeds
  <2>2. CASE how # "ok"
    BY <1>1, <2>2 DEF Answer, Fault, Working
  <2> QED
    BY <2>1, <2>2
<1>4. \A d \in calls' : Works(d) => d \in calls
  BY <1>1, <1>2, AfterShape DEF Works
<1>5. ASSUME NEW q \in Run, NEW i \in Left(q)' PROVE i \in Left(q) /\ (Pending(q, i) => Pending(q, i)')
  <2>1. i \in Left(q)
    BY <1>3, <1>4 DEF Left
  <2>2. Pending(q, i) => Pending(q, i)'
    BY <1>2 DEF Pending, Entry
  <2> QED
    BY <2>1, <2>2
<1> QED
  BY <1>2, <1>3, <1>5, LooseOrphans

LEMMA SavesOrphans ==
  ASSUME BoardInv, RecInv, OrphanInv, RecoverSaves
  PROVE  OrphanInv'
<1>1. rec.at = "next" /\ rec.todo = {} /\ rec.now = {} /\ up
  BY DEF RecoverSaves, RecInv, Off, BoardInv, Flags
<1>2. UNCHANGED <<trace, board, calls, hurt, raced, cut, up>> /\ robbed \subseteq robbed'
  BY DEF RecoverSaves
<1>3. \A q \in Run : Left(q)' = Left(q)
  <2>1. \A q \in Run : Working(q)' = Working(q)
    BY <1>2 DEF Working
  <2> QED
    BY <1>2, <2>1 DEF Left
<1>4. \A q \in Run : \A i : ~Pending(q, i)
  BY <1>1 DEF Pending
<1>5. \A q \in Run : trace'[q].phase = "dead" /\ q \notin hurt' \cup raced' \cup robbed' \cup cut' => Left(q)' = {}
  BY <1>1, <1>2, <1>3, <1>4 DEF OrphanInv
<1> QED
  BY <1>5 DEF OrphanInv

LEMMA ConnectOrphans ==
  ASSUME BoardInv, TextsInv, OrphanInv, Restart \/ Reconnect
  PROVE  OrphanInv'
<1>1. UNCHANGED <<trace, board, disk, hurt, raced, robbed, cut>> /\ rec' = Load
  BY DEF Restart, Reconnect, SendNothing
<1>2. \A d \in calls' : Works(d) => d \in calls
  <2> DEFINE C == {c \in calls : c.by \in {"recover", "notice"}}
  <2>1. calls' = calls \/ calls' = (calls \ C) \cup Lost(C)
    BY DEF Restart, Reconnect, SendNothing
  <2>2. C \in SUBSET calls /\ \A d \in C : ~Works(d)
    BY DEF TextsInv
  <2> HIDE DEF C
  <2> QED
    BY <2>1, <2>2, LosingShape DEF Works
<1>3. \A q \in Run : Left(q)' \subseteq Left(q)
  <2>1. \A q \in Run : Working(q)' = Working(q)
    BY <1>1 DEF Working
  <2> QED
    BY <1>2, <2>1 DEF Left
<1>4. ASSUME NEW q \in Run, NEW i, Entry(q, i) \in disk PROVE Pending(q, i)'
  <2>1. rec'.todo = disk
    BY <1>1, <1>4 DEF Load
  <2> QED
    BY <1>4, <2>1 DEF Pending, Entry
<1> QED
  BY <1>1, <1>3, <1>4, LooseOrphans

LEMMA LostOrphans ==
  ASSUME BoardInv, OwnInv, OrphanInv, NEW c \in calls, LostLands(c)
  PROVE  OrphanInv'
<1>1. /\ c.by = "lost" /\ UNCHANGED <<trace, hurt, raced, cut, up, rec, disk, robbed>> /\ calls' = calls \ {c}
      /\ Land(c) \/ UNCHANGED board
  BY DEF LostLands, SendNothing, Rest
<1>2. ASSUME NEW q \in Run, trace[q].phase = "dead", q \notin hurt' \cup raced' \cup robbed' \cup cut', NEW i \in Left(q)'
      PROVE  i \in Left(q)
  <2>1. CASE i \in Working(q)'
    <3>1. CASE UNCHANGED board
      BY <2>1, <3>1 DEF Working, Left
    <3>2. CASE Land(c) /\ (q # c.run \/ ~Works(c))
      BY <2>1, <3>2, WorkingAfter DEF Left
    <3>3. CASE Land(c) /\ q = c.run /\ Works(c)
      <4>1. c.board \in Left(q)
        BY <3>3 DEF Left
      <4>2. c.board # NoBoard
        BY <1>1, <1>2, <4>1 DEF OrphanInv
      <4> QED
        BY <2>1, <3>3, <4>1, <4>2, WorkingAfter DEF Left
    <3> QED
      BY <1>1, <3>1, <3>2, <3>3
  <2>2. CASE i \notin Working(q)'
    BY <1>1, <1>2, <2>2 DEF Left
  <2> QED
    BY <2>1, <2>2
<1>3. ASSUME NEW q \in Run, NEW i, Pending(q, i) PROVE Pending(q, i)'
  BY <1>1, <1>3 DEF Pending, Entry
<1> QED
  BY <1>1, <1>2, <1>3, LooseOrphans

LEMMA CrashOrphans ==
  ASSUME BoardInv, TaskInv, FileInv, TidyInv, OrphanInv, Crash
  PROVE  OrphanInv'
<1>1. UNCHANGED <<board, disk, hurt, raced, robbed>> /\ cut \subseteq cut' /\ calls' = (calls \ calls) \cup Lost(calls) /\ ~up'
  BY DEF Crash
<1>2. \A q \in Run : Left(q)' \subseteq Left(q)
  <2>1. \A q \in Run : Working(q)' = Working(q)
    BY <1>1 DEF Working
  <2>2. \A d \in calls' : \E c \in calls : d.run = c.run /\ d.text = c.text /\ d.board = c.board
    BY <1>1, LosingShape
  <2> QED
    BY <2>1, <2>2 DEF Left, Works
<1>3. ASSUME NEW q \in Run, trace'[q].phase = "dead", q \notin hurt' \cup raced' \cup robbed' \cup cut', NEW i \in Left(q)'
      PROVE  i # NoBoard /\ Entry(q, i) \in disk
  <2>1. i \in Left(q) /\ q \notin hurt \cup raced \cup robbed \cup cut
    BY <1>1, <1>2, <1>3
  <2>2. CASE trace[q].phase = "dead"
    BY <2>1, <2>2 DEF OrphanInv
  <2>3. CASE trace[q].phase # "dead"
    <3>1. trace[q].phase = "live" /\ ~Exposed(q)
      BY <1>3, <2>3 DEF Crash
    <3>2. trace[q].start # "posting" /\ trace[q].rot \notin {"posting", "closing", "raced"}
      BY <3>1 DEF Exposed
    <3>3. \A d \in calls : d.run = q => d.by \notin {"start", "rotate", "raced"}
      BY <3>2 DEF TaskInv, Fits
    <3>4. TidyFor(q, trace[q], calls, Working(q)) /\ FileOf(q)
      BY <2>1, <2>3 DEF TidyInv, Tidy, FileInv
    <3>5. i = trace[q].mid
      <4>1. i \in Working(q) \/ \E d \in calls : d.run = q /\ Works(d) /\ d.board = i
        BY <2>1 DEF Left
      <4> QED
        BY <3>2, <3>3, <3>4, <4>1 DEF TidyFor
    <3>6. i # NoBoard
      <4>1. CASE i \in Working(q)
        BY <4>1, Lengths DEF Working, NoBoard
      <4>2. ASSUME NEW d \in calls, d.run = q, Works(d) PROVE trace[q].mid # NoBoard
        <5>1. d.by = "flush"
          BY <3>3, <3>4, <4>2 DEF TidyFor
        <5> QED
          BY <4>2, <5>1 DEF TaskInv, Fits, Sound
      <4> QED
        BY <2>1, <3>5, <4>1, <4>2 DEF Left
    <3>7. Entry(q, i) \in disk
      <4>1. PICK x \in Recs(q) : x.board = i
        BY <2>1, <3>1, <3>2, <3>4, <3>5, <3>6 DEF FileOf, Kept
      <4>2. x = [run |-> q, board |-> i] /\ x \in disk
        BY <4>1 DEF Recs, BoardInv, RecordsIn
      <4> QED
        BY <4>2 DEF Entry
    <3> QED
      BY <3>6, <3>7
  <2> QED
    BY <2>2, <2>3
<1>4. \A q \in Run : \A i : Entry(q, i)' = Entry(q, i)
  BY DEF Entry
<1> QED
  BY <1>1, <1>3, <1>4 DEF OrphanInv

LEMMA OrphanInductive ==
  ASSUME BoardInv, TaskInv, OwnInv, FileInv, TextsInv, TidyInv, OneCallInv, RecInv, OrphanInv, [Next]_vars
  PROVE  OrphanInv'
<1>1. CASE UNCHANGED vars
  BY <1>1 DEF vars, OrphanInv, Left, Working, Pending, Entry
<1> QED
  BY <1>1, RunFrame, RunOrphans, RecoverNextOrphans, RecoverAnsweredOrphans, NoticeOrphans, SavesOrphans, ConnectOrphans,
     LostOrphans, CrashOrphans DEF Next, Recovery

-----------------------------------------------------------------------------
(* The theorems *)

LEMMA TraceInitially ==
  ASSUME Init
  PROVE  TaskInv /\ OwnInv /\ FileInv /\ TextsInv /\ TidyInv /\ OneCallInv /\ RecInv /\ OrphanInv
<1>1. calls = {} /\ disk = {} /\ rec = Off /\ up = TRUE /\ board = <<>> /\ \A r \in Run : trace[r] = Fresh
  BY DEF Init
<1>2. /\ Sound(Fresh) /\ Fresh.phase = "new" /\ Fresh.mid = NoBoard /\ Fresh.old = NoBoard /\ Fresh.fin = "idle"
  BY DEF Fresh, Sound, NoBoard
<1>3. \A r \in Run : Working(r) = {}
  BY <1>1 DEF Working
<1>4. TaskInv
  BY <1>1, <1>2 DEF TaskInv
<1>5. OwnInv
  BY <1>1, <1>2 DEF OwnInv, Off
<1>6. FileInv
  BY <1>1, <1>2 DEF FileInv, FileOf, Recs
<1>7. TextsInv /\ OneCallInv
  BY <1>1 DEF TextsInv, OneCallInv, OneCall
<1>8. TidyInv
  BY <1>1, <1>2, <1>3 DEF TidyInv, Tidy, TidyFor
<1>9. RecInv /\ OrphanInv
  BY <1>1, <1>2 DEF RecInv, Off, OrphanInv
<1> QED
  BY <1>4, <1>5, <1>6, <1>7, <1>8, <1>9

LEMMA TraceInvHolds == Spec => [](BoardInv /\ TaskInv /\ OwnInv /\ FileInv /\ TextsInv /\ TidyInv /\ OneCallInv /\ RecInv /\ OrphanInv)
<1> DEFINE Inv == TaskInv /\ OwnInv /\ FileInv /\ TextsInv /\ TidyInv /\ OneCallInv /\ RecInv /\ OrphanInv
<1>1. Init => Inv
  BY TraceInitially
<1>2. BoardInv /\ Inv /\ [Next]_vars => Inv'
  BY TaskInductive, OwnInductive, FileInductive, TextsInductive, TidyInductive, OneCallInductive, RecInductive, OrphanInductive
<1>3. Spec => []Inv
  BY <1>1, <1>2, BoardInvHolds, PTL DEF Spec
<1> QED
  BY <1>3, BoardInvHolds, PTL

\* A run that ended leaves no board that reads Working, through any rotation its
\* end met, unless a call of it failed, two edits of one board crossed, or the
\* end cut off a rotation whose edit was on its way: an edit that outlives its
\* task cannot open a closed board again.
THEOREM EndedRunsReadDone == Spec => []FinishedBoardsAreClosed
<1>1. TaskInv /\ TidyInv => FinishedBoardsAreClosed
  <2> SUFFICES ASSUME TaskInv, TidyInv, NEW r \in Run, trace[r].phase = "ended", r \notin hurt \cup raced \cup cut
               PROVE  Working(r) = {}
    BY DEF FinishedBoardsAreClosed
  <2>1. TidyFor(r, trace[r], calls, Working(r))
    BY DEF TidyInv, Tidy
  <2> QED
    BY <2>1 DEF TidyFor
<1> QED
  BY <1>1, TraceInvHolds, PTL

\* A live trace's record names the board it is on, but for the moment of a
\* rotation, and a run that ended leaves none, whatever failed or crashed.
THEOREM TheFileNamesTheBoard == Spec => []RecordsFollowTheBoard
<1>1. BoardInv /\ FileInv => RecordsFollowTheBoard
  <2> SUFFICES ASSUME BoardInv, FileInv, NEW r \in Run \ cut
               PROVE  /\ Alive(r) /\ trace[r].mid # NoBoard /\ trace[r].rot # "closing" /\ r \notin robbed =>
                           {x \in disk : x.run = r} = {[run |-> r, board |-> trace[r].mid]}
                      /\ trace[r].phase = "ended" => {x \in disk : x.run = r} = {}
    BY DEF RecordsFollowTheBoard
  <2>1. FileOf(r) /\ Recs(r) = {x \in disk : x.run = r}
    BY DEF FileInv, Recs
  <2>2. ASSUME Alive(r), trace[r].mid # NoBoard, trace[r].rot # "closing", r \notin robbed
        PROVE  Recs(r) = {[run |-> r, board |-> trace[r].mid]}
    <3>1. Recs(r) # {} /\ \A x \in Recs(r) : x.board = trace[r].mid
      BY <2>1, <2>2 DEF FileOf, Alive, Kept
    <3>2. \A x \in Recs(r) : x = [run |-> x.run, board |-> x.board] /\ x.run = r
      BY DEF Recs, BoardInv, RecordsIn
    <3> QED
      BY <3>1, <3>2
  <2> QED
    BY <2>1, <2>2 DEF FileOf
<1> QED
  BY <1>1, TraceInvHolds, PTL

\* Once the recovery of a start is through, no board of a run that died reads
\* Working, unless the run died between a message and its record, a call failed,
\* edits crossed or its record was overwritten: whatever still lands, crashes of
\* the recovery itself and reconnects in its middle included.
THEOREM NoOrphanIsLeftOpen == Spec => []OrphansAreClosed
<1>1. RecInv /\ OrphanInv => OrphansAreClosed
  <2> SUFFICES ASSUME RecInv, OrphanInv, up, rec = Off, NEW r \in Run, trace[r].phase = "dead",
                      r \notin hurt \cup raced \cup robbed \cup cut
               PROVE  Working(r) = {}
    BY DEF OrphansAreClosed
  <2>1. rec.todo = {} /\ rec.now = {}
    BY DEF Off
  <2>2. \A i : ~Pending(r, i)
    BY <2>1 DEF Pending
  <2>3. Left(r) = {}
    BY <2>2 DEF OrphanInv
  <2> QED
    BY <2>3 DEF Left
<1> QED
  BY <1>1, TraceInvHolds, PTL

=============================================================================
