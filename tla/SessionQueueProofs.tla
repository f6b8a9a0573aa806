------------------------- MODULE SessionQueueProofs -------------------------
(***************************************************************************)
(* Theorems about SessionQueue, for any sessions, turns and cap.           *)
(***************************************************************************)
EXTENDS SessionQueue, FiniteSetTheorems, TLAPS

-----------------------------------------------------------------------------
(* What the deque operations do to the set of queued turns. *)

\* deque.append adds one turn and keeps the queue free of duplicates.
LEMMA AppendElems ==
  ASSUME NEW q \in Seq(Msg), NEW m \in Msg, m \notin Elems(q), Distinct(q)
  PROVE  /\ Append(q, m) \in Seq(Msg)
         /\ Elems(Append(q, m)) = Elems(q) \cup {m}
         /\ Distinct(Append(q, m))
<1> DEFINE r == Append(q, m)
<1>1. /\ r \in Seq(Msg)
      /\ DOMAIN r = 1 .. Len(q) + 1
      /\ \A i \in 1 .. Len(q) : r[i] = q[i]
      /\ r[Len(q) + 1] = m
  OBVIOUS
<1>2. DOMAIN q = 1 .. Len(q) /\ Len(q) \in Nat
  OBVIOUS
<1>3. DOMAIN r = (DOMAIN q) \cup {Len(q) + 1}
  BY <1>1, <1>2
<1> HIDE DEF r
<1>4. Elems(r) = Elems(q) \cup {m}
  BY <1>1, <1>2, <1>3 DEF Elems
<1>5. Distinct(r)
  BY <1>1, <1>2, <1>3 DEF Elems, Distinct
<1> QED BY <1>1, <1>4, <1>5 DEF r

\* deque.popleft removes exactly the head.
LEMMA TailElems ==
  ASSUME NEW q \in Seq(Msg), q # <<>>, Distinct(q)
  PROVE  /\ Head(q) \in Elems(q)
         /\ Tail(q) \in Seq(Msg)
         /\ Elems(Tail(q)) = Elems(q) \ {Head(q)}
         /\ Distinct(Tail(q))
<1> DEFINE r == Tail(q)
<1>1. /\ Len(q) \in Nat \ {0}
      /\ DOMAIN q = 1 .. Len(q)
      /\ Head(q) = q[1]
      /\ r \in Seq(Msg)
      /\ DOMAIN r = 1 .. Len(q) - 1
      /\ \A i \in 1 .. Len(q) - 1 : r[i] = q[i + 1]
  OBVIOUS
<1>2. Head(q) \in Elems(q)
  BY <1>1 DEF Elems
<1> HIDE DEF r
<1>3. Elems(r) \subseteq Elems(q) \ {Head(q)}
  BY <1>1 DEF Elems, Distinct
<1>4. ASSUME NEW x \in Elems(q), x # Head(q)
      PROVE  x \in Elems(r)
  <2>1. PICK i \in 1 .. Len(q) : x = q[i]
    BY <1>1, <1>4 DEF Elems
  <2>2. i - 1 \in DOMAIN r /\ r[i - 1] = x
    BY <1>1, <1>4, <2>1
  <2> QED BY <2>2 DEF Elems
<1>5. ASSUME NEW i \in DOMAIN r, NEW j \in DOMAIN r, r[i] = r[j]
      PROVE  i = j
  <2>1. /\ i + 1 \in DOMAIN q /\ j + 1 \in DOMAIN q
        /\ q[i + 1] = q[j + 1]
    BY <1>1, <1>5
  <2>2. i + 1 = j + 1
    BY <2>1 DEF Distinct
  <2> QED BY <1>1, <1>5, <2>2
<1>6. Distinct(r)
  BY <1>5 DEF Distinct
<1> QED BY <1>1, <1>2, <1>3, <1>4, <1>6 DEF r

-----------------------------------------------------------------------------
(* Types, and the queue's bookkeeping. *)

BookInv == TypeOK /\ QueueHoldsTheWaiting

\* A drain of s moves the head of its queue, and no other turn, from waiting
\* to leaving; phases is what the caller has done to turns not in the queue.
LEMMA DrainEffect ==
  ASSUME BookInv, QueueAssumption,
         NEW s \in Session, NEW marks \in [Session -> Mark],
         NEW phases \in [Msg -> Phase],
         \A m \in Msg : phases[m] = "waiting" <=> turn[m] = "waiting",
         Drain(s, marks, phases)
  PROVE  /\ active' \in [Session -> Mark]
         /\ pending' \in [Session -> Seq(Msg)]
         /\ turn' \in [Msg -> Phase]
         /\ QueueHoldsTheWaiting'
         /\ Drained(s) \in Msg \cup {NoMsg}
         /\ \A u \in Session \ {s} : active'[u] = marks[u] /\ pending'[u] = pending[u]
         /\ active'[s] \in {"idle", "fresh"}
         /\ pending'[s] # <<>> => active'[s] = "fresh"
         /\ active'[s] = "fresh" => \E h \in TurnsOf(s) : turn'[h] = "leaving"
         /\ \A n \in Msg : turn'[n] # phases[n] =>
              turn[n] = "waiting" /\ turn'[n] = "leaving" /\ SessionOf[n] = s
<1>1. CASE pending[s] = <<>>
  <2>1. /\ active' = [marks EXCEPT ![s] = "idle"]
        /\ turn' = phases
        /\ pending' = pending
        /\ Drained(s) = NoMsg
    BY <1>1 DEF Drain, Drained
  <2>2. \A t \in Session : {m \in TurnsOf(t) : phases[m] = "waiting"}
                            = {m \in TurnsOf(t) : turn[m] = "waiting"}
    BY DEF TurnsOf
  <2>3. QueueHoldsTheWaiting'
    BY <2>1, <2>2 DEF BookInv, QueueHoldsTheWaiting, TurnsOf
  <2>4. /\ active' \in [Session -> Mark]
        /\ active'[s] = "idle"
        /\ \A u \in Session \ {s} : active'[u] = marks[u]
    BY <2>1 DEF Mark
  <2> QED BY <1>1, <2>1, <2>3, <2>4 DEF BookInv, TypeOK
<1>2. CASE pending[s] # <<>>
  <2>0. PICK h \in Msg : /\ h = Head(pending[s]) /\ SessionOf[h] = s
                         /\ turn[h] = "waiting"
                         /\ Tail(pending[s]) \in Seq(Msg)
                         /\ Elems(Tail(pending[s])) = Elems(pending[s]) \ {h}
                         /\ Distinct(Tail(pending[s]))
    <3>1. /\ Head(pending[s]) \in Elems(pending[s])
          /\ Tail(pending[s]) \in Seq(Msg)
          /\ Elems(Tail(pending[s])) = Elems(pending[s]) \ {Head(pending[s])}
          /\ Distinct(Tail(pending[s]))
      BY <1>2, TailElems DEF BookInv, TypeOK, QueueHoldsTheWaiting
    <3> QED BY <3>1 DEF BookInv, QueueHoldsTheWaiting, TurnsOf
  <2>1. /\ active' = [marks EXCEPT ![s] = "fresh"]
        /\ turn' = [phases EXCEPT ![h] = "leaving"]
        /\ pending' = [pending EXCEPT ![s] = Tail(pending[s])]
    BY <1>2, <2>0 DEF Drain
  <2>2. /\ active' \in [Session -> Mark]
        /\ pending' \in [Session -> Seq(Msg)]
        /\ turn' \in [Msg -> Phase]
        /\ active'[s] = "fresh"
        /\ \A u \in Session \ {s} : active'[u] = marks[u] /\ pending'[u] = pending[u]
        /\ turn'[h] = "leaving"
        /\ \A n \in Msg \ {h} : turn'[n] = phases[n]
    BY <2>0, <2>1 DEF BookInv, TypeOK, Mark, Phase
  <2>3. ASSUME NEW t \in Session
        PROVE  /\ Elems(pending'[t]) = {m \in TurnsOf(t) : turn'[m] = "waiting"}
               /\ Distinct(pending'[t])
    <3>1. {m \in TurnsOf(t) : turn'[m] = "waiting"}
            = {m \in TurnsOf(t) : turn[m] = "waiting"} \ {h}
      BY <2>0, <2>2 DEF TurnsOf
    <3>2. CASE t = s
      BY <2>0, <2>1, <3>1, <3>2 DEF BookInv, TypeOK, QueueHoldsTheWaiting
    <3>3. CASE t # s
      <4>1. h \notin TurnsOf(t)
        BY <2>0, <3>3 DEF TurnsOf
      <4>2. {m \in TurnsOf(t) : turn'[m] = "waiting"}
              = {m \in TurnsOf(t) : turn[m] = "waiting"}
        BY <3>1, <4>1
      <4>3. pending'[t] = pending[t]
        BY <2>2, <3>3
      <4> QED BY <4>2, <4>3 DEF BookInv, QueueHoldsTheWaiting
    <3> QED BY <3>2, <3>3
  <2>4. QueueHoldsTheWaiting'
    BY <2>3 DEF QueueHoldsTheWaiting, TurnsOf
  <2>5. Drained(s) \in Msg \cup {NoMsg}
    BY <1>2, <2>0 DEF Drained
  <2>6. \E n \in TurnsOf(s) : turn'[n] = "leaving"
    BY <2>0, <2>2 DEF TurnsOf
  <2> QED BY <2>0, <2>2, <2>4, <2>5, <2>6
<1> QED BY <1>1, <1>2

\* The host never puts a turn back into the queue.
LEMMA OutcomesNeverWait ==
  ASSUME NEW m \in Msg
  PROVE  HostOutcome(m) \in {"failing", "answered", "steered", "accepted"}
BY DEF HostOutcome

\* A turn that is not waiting changes to a phase that is not waiting.
LEMMA OtherMovesKeepBooks ==
  ASSUME BookInv, NEW m \in Msg, turn[m] # "waiting",
         NEW o \in Phase, o # "waiting",
         turn' = [turn EXCEPT ![m] = o], UNCHANGED pending
  PROVE  turn' \in [Msg -> Phase] /\ QueueHoldsTheWaiting'
BY DEF BookInv, TypeOK, QueueHoldsTheWaiting, TurnsOf

LEMMA BooksInductive ==
  ASSUME QueueAssumption, BookInv, [Next]_vars
  PROVE  BookInv'
<1> USE DEF BookInv
<1>0. Freed \in [Session -> Mark]
  BY DEF Freed, TypeOK, Mark
<1>1. ASSUME NEW m \in Msg, QueueTurn(m) PROVE BookInv'
  <2>1. CASE QueueSlash(m)
    <3>1. turn' = [turn EXCEPT ![m] = HostOutcome(m)]
      BY <2>1 DEF QueueSlash, HandOver
    <3> QED BY <2>1, <3>1, OutcomesNeverWait, OtherMovesKeepBooks
            DEF QueueSlash, TypeOK, Phase
  <2>2. CASE DispatchNow(m)
    <3>1. turn' = [turn EXCEPT ![m] = HostOutcome(m)]
      BY <2>2 DEF DispatchNow, HandOver
    <3> QED BY <1>0, <2>2, <3>1, OutcomesNeverWait, OtherMovesKeepBooks
            DEF DispatchNow, TypeOK, Phase
  <2>3. CASE Enqueue(m)
    <3> DEFINE s == SessionOf[m]
    <3>1. s \in Session /\ pending[s] \in Seq(Msg) /\ m \notin Elems(pending[s])
      BY <2>3 DEF QueueAssumption, Enqueue, TypeOK, QueueHoldsTheWaiting
    <3>2. /\ Append(pending[s], m) \in Seq(Msg)
          /\ Elems(Append(pending[s], m)) = Elems(pending[s]) \cup {m}
          /\ Distinct(Append(pending[s], m))
      BY <3>1, AppendElems DEF QueueHoldsTheWaiting
    <3>3. TypeOK'
      BY <1>0, <2>3, <3>1, <3>2 DEF Enqueue, TypeOK, Phase, Trail
    <3>4. ASSUME NEW t \in Session
          PROVE  /\ Elems(pending'[t]) = {n \in TurnsOf(t) : turn'[n] = "waiting"}
                 /\ Distinct(pending'[t])
      <4>1. CASE t = s
        BY <2>3, <3>1, <3>2, <4>1
        DEF Enqueue, TypeOK, QueueHoldsTheWaiting, TurnsOf
      <4>2. CASE t # s
        BY <2>3, <3>1, <4>2
        DEF Enqueue, TypeOK, QueueHoldsTheWaiting, TurnsOf
      <4> QED BY <4>1, <4>2
    <3>5. QueueHoldsTheWaiting'
      BY <3>4 DEF QueueHoldsTheWaiting, TurnsOf
    <3> QED BY <3>3, <3>5
  <2>4. CASE Overflow(m)
    BY <1>0, <2>4, OtherMovesKeepBooks DEF Overflow, TypeOK, Phase, Trail
  <2> QED BY <1>1, <2>1, <2>2, <2>3, <2>4 DEF QueueTurn
<1>2. ASSUME NEW m \in Msg, Progress(m) PROVE BookInv'
  <2>0. SessionOf[m] \in Session
    BY DEF QueueAssumption
  <2>1. CASE DispatchOverflow(m)
    <3>1. turn' = [turn EXCEPT ![m] = HostOutcome(m)]
      BY <2>1 DEF DispatchOverflow, HandOver
    <3> QED BY <2>1, <3>1, OutcomesNeverWait, OtherMovesKeepBooks
            DEF DispatchOverflow, TypeOK, Phase
  <2>2. CASE ShowHourglass(m)
    BY <2>2 DEF ShowHourglass, TypeOK, Trail, QueueHoldsTheWaiting, TurnsOf
  <2>3. CASE DispatchDrained(m)
    <3>1. turn' = [turn EXCEPT ![m] = HostOutcome(m)]
      BY <2>3 DEF DispatchDrained, HandOver
    <3>2. sweepOn' \in Msg \cup {NoMsg}
      BY <2>3 DEF DispatchDrained, TypeOK
    <3>3. trail' \in [Msg -> Trail]
      BY <2>3 DEF DispatchDrained, TypeOK, Trail
    <3> QED BY <2>3, <3>1, <3>2, <3>3, OutcomesNeverWait, OtherMovesKeepBooks
            DEF DispatchDrained, TypeOK, Phase
  <2>4. CASE FailDirect(m)
    BY <2>4, OtherMovesKeepBooks DEF FailDirect, TypeOK, Phase
  <2>5. CASE FailDrained(m)
    <3> DEFINE marks == [active EXCEPT ![SessionOf[m]] = "idle"]
               phases == [turn EXCEPT ![m] = "failed"]
    <3>1. /\ marks \in [Session -> Mark]
          /\ phases \in [Msg -> Phase]
          /\ \A n \in Msg : phases[n] = "waiting" <=> turn[n] = "waiting"
      BY <2>5 DEF FailDrained, TypeOK, Mark, Phase
    <3>2. Drain(SessionOf[m], marks, phases)
      BY <2>5 DEF FailDrained
    <3> HIDE DEF marks, phases
    <3>3. /\ active' \in [Session -> Mark]
          /\ pending' \in [Session -> Seq(Msg)]
          /\ turn' \in [Msg -> Phase]
          /\ QueueHoldsTheWaiting'
          /\ Drained(SessionOf[m]) \in Msg \cup {NoMsg}
      BY <2>0, <3>1, <3>2, DrainEffect
    <3> QED BY <2>5, <3>3 DEF FailDrained, TypeOK
  <2>6. CASE StartHook(m)
    BY <2>0, <2>6, OtherMovesKeepBooks DEF StartHook, TypeOK, Phase, Mark
  <2>7. CASE CompleteHook(m)
    BY <2>7, OtherMovesKeepBooks DEF CompleteHook, TypeOK, Phase
  <2>8. CASE DrainSessionQueue(m)
    <3> DEFINE phases == [turn EXCEPT ![m] = "done"]
    <3>1. /\ phases \in [Msg -> Phase]
          /\ \A n \in Msg : phases[n] = "waiting" <=> turn[n] = "waiting"
      BY <2>8 DEF DrainSessionQueue, TypeOK, Phase
    <3>2. Drain(SessionOf[m], active, phases) /\ active \in [Session -> Mark]
      BY <2>8 DEF DrainSessionQueue, TypeOK
    <3> HIDE DEF phases
    <3>3. /\ active' \in [Session -> Mark]
          /\ pending' \in [Session -> Seq(Msg)]
          /\ turn' \in [Msg -> Phase]
          /\ QueueHoldsTheWaiting'
      BY <2>0, <3>1, <3>2, DrainEffect
    <3> QED BY <2>8, <3>3 DEF DrainSessionQueue, TypeOK
  <2> QED BY <1>2, <2>1, <2>2, <2>3, <2>4, <2>5, <2>6, <2>7, <2>8 DEF Progress
<1>3. ASSUME NEW s \in Session, AgeOut(s) PROVE BookInv'
  BY <1>3 DEF AgeOut, TypeOK, Mark, QueueHoldsTheWaiting, TurnsOf
<1>4. ASSUME NEW s \in Session, SweepStart(s) PROVE BookInv'
  <2>1. Drain(s, Freed, turn) /\ turn \in [Msg -> Phase]
    BY <1>4 DEF SweepStart, TypeOK
  <2>2. /\ active' \in [Session -> Mark]
        /\ pending' \in [Session -> Seq(Msg)]
        /\ turn' \in [Msg -> Phase]
        /\ QueueHoldsTheWaiting'
        /\ Drained(s) \in Msg \cup {NoMsg}
    BY <1>0, <2>1, DrainEffect
  <2> QED BY <1>4, <2>2 DEF SweepStart, StaleKeys, TypeOK
<1>5. ASSUME NEW s \in Session, SweepNext(s) PROVE BookInv'
  <2>1. Drain(s, active, turn) /\ turn \in [Msg -> Phase] /\ active \in [Session -> Mark]
    BY <1>5 DEF SweepNext, TypeOK
  <2>2. /\ active' \in [Session -> Mark]
        /\ pending' \in [Session -> Seq(Msg)]
        /\ turn' \in [Msg -> Phase]
        /\ QueueHoldsTheWaiting'
        /\ Drained(s) \in Msg \cup {NoMsg}
    BY <2>1, DrainEffect
  <2> QED BY <1>5, <2>2 DEF SweepNext, TypeOK
<1>6. CASE UNCHANGED vars
  BY <1>6 DEF vars, TypeOK, QueueHoldsTheWaiting, TurnsOf
<1> QED BY <1>1, <1>2, <1>3, <1>4, <1>5, <1>6 DEF Next, Sweep

LEMMA BooksInitially ==
  ASSUME QueueAssumption, Init
  PROVE  BookInv
BY DEF Init, BookInv, TypeOK, QueueHoldsTheWaiting, TurnsOf, Elems, Distinct,
       Mark, Phase, Trail, QueueAssumption

\* _pending never loses, duplicates or misfiles a turn, whatever the host does
\* and however old the in-flight marks get.
THEOREM QueueBooksAreExact == Spec => []QueueHoldsTheWaiting
<1>1. Init => BookInv
  BY QueueAssumption, BooksInitially
<1>2. BookInv /\ [Next]_vars => BookInv'
  BY QueueAssumption, BooksInductive
<1>3. BookInv => QueueHoldsTheWaiting
  BY DEF BookInv
<1> QED BY <1>1, <1>2, <1>3, PTL DEF Spec

-----------------------------------------------------------------------------
(* The in-flight mark of a session whose runs report completion. *)

Runner(s) == \E m \in TurnsOf(s) : InProgress(m)

\* Only a turn that was queued reaches the drain, and none before it arrives.
DrainedWasQueued ==
  \A m \in Msg :
    /\ turn[m] \in {"waiting", "leaving"} => WasQueued(m)
    /\ turn[m] = "arriving" => ~WasQueued(m)

WatchFor(s) ==
  Reported(s) =>
    /\ s \notin sweepKeys
    /\ active[s] # "stale"
    /\ pending[s] # <<>> => active[s] # "idle"
    /\ active[s] # "idle" => Runner(s)

WatchInv ==
  /\ BookInv
  /\ DrainedWasQueued
  /\ \A s \in Session : WatchFor(s)

\* What the host answered stays answered, so a session that still reports did so
\* before; and what was queued stays known as queued.
LEMMA ReportedBefore ==
  ASSUME NEW u \in Session,
         \A n \in Msg : WasQueued(n) => WasQueued(n)',
         \A n \in Msg : turn[n] = "answered" => turn'[n] = "answered",
         Reported(u)'
  PROVE  Reported(u)
BY DEF Reported, TurnsOf

\* A step that moves one turn and drains nothing.
LEMMA MoveKeepsWatch ==
  ASSUME WatchInv, NEW m \in Msg, NEW o \in Phase, NEW u \in Session,
         turn' = [turn EXCEPT ![m] = o], turn[m] # "answered",
         \A n \in Msg : WasQueued(n) => WasQueued(n)',
         sweepKeys' = sweepKeys,
         Reported(u) => active'[u] = active[u],
         Reported(u) => pending'[u] = pending[u] \/ active[u] # "idle",
         Reported(u)' /\ SessionOf[m] = u /\ InProgress(m) => Runner(u)'
  PROVE  WatchFor(u)'
<1> SUFFICES ASSUME Reported(u)'
             PROVE  /\ u \notin sweepKeys'
                    /\ active'[u] # "stale"
                    /\ pending'[u] # <<>> => active'[u] # "idle"
                    /\ active'[u] # "idle" => Runner(u)'
  BY DEF WatchFor
<1>1. /\ turn \in [Msg -> Phase]
      /\ \A n \in Msg \ {m} : turn'[n] = turn[n]
  BY DEF WatchInv, BookInv, TypeOK
<1>2. Reported(u)
  BY <1>1, ReportedBefore
<1>3. /\ u \notin sweepKeys
      /\ active[u] # "stale"
      /\ pending[u] # <<>> => active[u] # "idle"
      /\ active[u] # "idle" => Runner(u)
  BY <1>2 DEF WatchInv, WatchFor
<1>4. ASSUME active'[u] # "idle" PROVE Runner(u)'
  <2>1. PICK n \in TurnsOf(u) : InProgress(n)
    BY <1>2, <1>3, <1>4 DEF Runner
  <2>2. CASE n = m
    BY <2>1, <2>2 DEF TurnsOf
  <2>3. CASE n # m
    <3>1. InProgress(n)'
      BY <1>1, <2>1, <2>3 DEF InProgress, TurnsOf
    <3> QED BY <2>1, <3>1 DEF Runner, TurnsOf
  <2> QED BY <2>2, <2>3
<1> QED BY <1>2, <1>3, <1>4

\* A step that drains s.
LEMMA DrainKeepsWatch ==
  ASSUME WatchInv, QueueAssumption,
         NEW s \in Session, NEW marks \in [Session -> Mark],
         NEW phases \in [Msg -> Phase], NEW u \in Session,
         \A n \in Msg : phases[n] = "waiting" <=> turn[n] = "waiting",
         \A n \in Msg : turn[n] = "answered" => phases[n] = "answered",
         \A n \in Msg : phases[n] \in {"arriving", "leaving"} => turn[n] = phases[n],
         \A n \in Msg : SessionOf[n] # s => phases[n] = turn[n],
         Drain(s, marks, phases), trail' = trail,
         Reported(u) => u \notin sweepKeys',
         Reported(u) /\ u # s => marks[u] = active[u]
  PROVE  WatchFor(u)' /\ DrainedWasQueued'
<1>1. /\ turn' \in [Msg -> Phase]
      /\ \A t \in Session \ {s} : active'[t] = marks[t] /\ pending'[t] = pending[t]
      /\ active'[s] \in {"idle", "fresh"}
      /\ pending'[s] # <<>> => active'[s] = "fresh"
      /\ active'[s] = "fresh" => \E h \in TurnsOf(s) : turn'[h] = "leaving"
      /\ \A n \in Msg : turn'[n] # phases[n] =>
           turn[n] = "waiting" /\ turn'[n] = "leaving" /\ SessionOf[n] = s
  BY DrainEffect DEF WatchInv
<1>2. \A n \in Msg : /\ WasQueued(n) <=> WasQueued(n)'
                     /\ turn[n] = "answered" => turn'[n] = "answered"
  BY <1>1 DEF WasQueued
<1>3. ASSUME Reported(u)'
      PROVE  /\ u \notin sweepKeys'
             /\ active'[u] # "stale"
             /\ pending'[u] # <<>> => active'[u] # "idle"
             /\ active'[u] # "idle" => Runner(u)'
  <2>1. Reported(u)
    BY <1>2, <1>3, ReportedBefore
  <2>2. CASE u = s
    <3>1. active'[u] # "idle" => Runner(u)'
      BY <1>1, <2>2 DEF Runner, InProgress, TurnsOf
    <3> QED BY <1>1, <2>1, <2>2, <3>1
  <2>3. CASE u # s
    <3>1. /\ active'[u] = active[u] /\ pending'[u] = pending[u]
          /\ \A n \in TurnsOf(u) : turn'[n] = turn[n]
      BY <1>1, <2>1, <2>3 DEF TurnsOf
    <3>2. Runner(u) => Runner(u)'
      BY <1>2, <3>1 DEF Runner, InProgress, TurnsOf
    <3> QED BY <2>1, <3>1, <3>2 DEF WatchInv, WatchFor
  <2> QED BY <2>2, <2>3
<1>4. DrainedWasQueued'
  BY <1>1, <1>2 DEF WatchInv, DrainedWasQueued
<1> QED BY <1>3, <1>4 DEF WatchFor

LEMMA ArrivalKeepsWatch ==
  ASSUME QueueAssumption, WatchInv, NEW m \in Msg, QueueTurn(m),
         NEW u \in Session
  PROVE  WatchFor(u)' /\ DrainedWasQueued'
<1> USE DEF WatchInv, BookInv
<1>0. Reported(u) => Freed[u] = active[u]
  BY DEF WatchFor, Freed, StaleKeys
<1>1. CASE QueueSlash(m)
  <2>1. turn' = [turn EXCEPT ![m] = HostOutcome(m)] /\ HostOutcome(m) \in Phase
    BY <1>1, OutcomesNeverWait DEF QueueSlash, HandOver, Phase
  <2>2. \A n \in Msg : WasQueued(n) <=> WasQueued(n)'
    BY <1>1 DEF QueueSlash, WasQueued
  <2>3. WatchFor(u)'
    BY <1>1, <2>1, <2>2, MoveKeepsWatch DEF QueueSlash, InProgress
  <2>4. DrainedWasQueued'
    BY <2>1, <2>2, OutcomesNeverWait DEF DrainedWasQueued, TypeOK
  <2> QED BY <2>3, <2>4
<1>2. CASE DispatchNow(m)
  <2>1. turn' = [turn EXCEPT ![m] = HostOutcome(m)] /\ HostOutcome(m) \in Phase
    BY <1>2, OutcomesNeverWait DEF DispatchNow, HandOver, Phase
  <2>2. \A n \in Msg : WasQueued(n) <=> WasQueued(n)'
    BY <1>2 DEF DispatchNow, WasQueued
  <2>3. WatchFor(u)'
    BY <1>0, <1>2, <2>1, <2>2, MoveKeepsWatch DEF DispatchNow, InProgress
  <2>4. DrainedWasQueued'
    BY <2>1, <2>2, OutcomesNeverWait DEF DrainedWasQueued, TypeOK
  <2> QED BY <2>3, <2>4
<1>3. CASE Enqueue(m)
  <2>1. turn' = [turn EXCEPT ![m] = "waiting"]
    BY <1>3 DEF Enqueue
  <2>2. \A n \in Msg : WasQueued(n)' <=> WasQueued(n) \/ n = m
    BY <1>3 DEF Enqueue, WasQueued, TypeOK
  <2>3. Reported(u) => pending'[u] = pending[u] \/ active[u] # "idle"
    BY <1>0, <1>3 DEF Enqueue, TypeOK
  <2>4. WatchFor(u)'
    BY <1>0, <1>3, <2>1, <2>2, <2>3, MoveKeepsWatch DEF Enqueue, InProgress, Phase
  <2>5. DrainedWasQueued'
    BY <2>1, <2>2 DEF DrainedWasQueued, TypeOK
  <2> QED BY <2>4, <2>5
<1>4. CASE Overflow(m)
  <2>1. turn' = [turn EXCEPT ![m] = "overflow"]
    BY <1>4 DEF Overflow
  <2>2. \A n \in Msg : WasQueued(n) <=> WasQueued(n)'
    BY <1>4 DEF Overflow, WasQueued, TypeOK, DrainedWasQueued
  <2>3. WatchFor(u)'
    BY <1>0, <1>4, <2>1, <2>2, MoveKeepsWatch DEF Overflow, InProgress, Phase
  <2>4. DrainedWasQueued'
    BY <2>1, <2>2 DEF DrainedWasQueued, TypeOK
  <2> QED BY <2>3, <2>4
<1> QED BY <1>1, <1>2, <1>3, <1>4 DEF QueueTurn

LEMMA ProgressKeepsWatch ==
  ASSUME QueueAssumption, WatchInv, NEW m \in Msg, Progress(m),
         NEW u \in Session
  PROVE  WatchFor(u)' /\ DrainedWasQueued'
<1> USE DEF WatchInv, BookInv
<1>0. SessionOf[m] \in Session
  BY DEF QueueAssumption
<1>1. CASE DispatchOverflow(m)
  <2>1. turn' = [turn EXCEPT ![m] = HostOutcome(m)] /\ HostOutcome(m) \in Phase
    BY <1>1, OutcomesNeverWait DEF DispatchOverflow, HandOver, Phase
  <2>2. \A n \in Msg : WasQueued(n) <=> WasQueued(n)'
    BY <1>1 DEF DispatchOverflow, WasQueued
  <2>3. WatchFor(u)'
    BY <1>1, <2>1, <2>2, MoveKeepsWatch DEF DispatchOverflow, InProgress
  <2>4. DrainedWasQueued'
    BY <2>1, <2>2, OutcomesNeverWait DEF DrainedWasQueued, TypeOK
  <2> QED BY <2>3, <2>4
<1>2. CASE ShowHourglass(m)
  <2>1. \A n \in Msg : WasQueued(n) <=> WasQueued(n)'
    BY <1>2 DEF ShowHourglass, WasQueued, TypeOK
  <2>2. UNCHANGED <<active, pending, turn, sweepKeys>>
    BY <1>2 DEF ShowHourglass
  <2>3. (Reported(u)' => Reported(u)) /\ (Runner(u) => Runner(u)')
    BY <2>1, <2>2 DEF Reported, Runner, InProgress, TurnsOf
  <2>4. WatchFor(u)'
    BY <2>2, <2>3 DEF WatchFor
  <2>5. DrainedWasQueued'
    BY <2>1, <2>2 DEF DrainedWasQueued
  <2> QED BY <2>4, <2>5
<1>3. CASE DispatchDrained(m)
  <2>1. turn' = [turn EXCEPT ![m] = HostOutcome(m)] /\ HostOutcome(m) \in Phase
    BY <1>3, OutcomesNeverWait DEF DispatchDrained, HandOver, Phase
  <2>2. \A n \in Msg : WasQueued(n) <=> WasQueued(n)'
    BY <1>3 DEF DispatchDrained, WasQueued, TypeOK
  <2>3. WasQueued(m) /\ turn[m] = "leaving" /\ turn'[m] = HostOutcome(m)
    BY <1>3, <2>1 DEF DispatchDrained, DrainedWasQueued, TypeOK
  <2>4. ASSUME Reported(u)', SessionOf[m] = u PROVE Runner(u)'
    <3>1. m \in TurnsOf(u) /\ turn'[m] # "answered"
      BY <2>2, <2>3, <2>4 DEF Reported, TurnsOf
    <3>2. CASE HostOutcome(m) \in {"failing", "accepted"}
      BY <2>2, <2>3, <3>1, <3>2 DEF Runner, InProgress, TurnsOf
    <3>3. CASE HostOutcome(m) = "steered"
      <4>1. HostBusy(u)
        BY <2>4, <3>3 DEF HostOutcome
      <4>2. PICK n \in TurnsOf(u) : turn[n] \in {"accepted", "running"}
        BY <4>1 DEF HostBusy
      <4>3. turn'[n] = turn[n]
        BY <2>1, <2>3, <4>2 DEF TypeOK, TurnsOf
      <4> QED BY <4>2, <4>3 DEF Runner, InProgress, TurnsOf
    <3> QED BY <2>3, <3>1, <3>2, <3>3, OutcomesNeverWait
  <2>5. WatchFor(u)'
    BY <1>3, <2>1, <2>2, <2>4, MoveKeepsWatch DEF DispatchDrained
  <2>6. DrainedWasQueued'
    BY <2>1, <2>2, OutcomesNeverWait DEF DrainedWasQueued, TypeOK
  <2> QED BY <2>5, <2>6
<1>4. CASE FailDirect(m)
  <2>1. turn' = [turn EXCEPT ![m] = "failed"]
    BY <1>4 DEF FailDirect
  <2>2. \A n \in Msg : WasQueued(n) <=> WasQueued(n)'
    BY <1>4 DEF FailDirect, WasQueued
  <2>3. WatchFor(u)'
    BY <1>4, <2>1, <2>2, MoveKeepsWatch DEF FailDirect, InProgress, Phase
  <2>4. DrainedWasQueued'
    BY <2>1, <2>2 DEF DrainedWasQueued, TypeOK
  <2> QED BY <2>3, <2>4
<1>5. CASE FailDrained(m)
  <2> DEFINE marks == [active EXCEPT ![SessionOf[m]] = "idle"]
             phases == [turn EXCEPT ![m] = "failed"]
  <2>1. /\ marks \in [Session -> Mark]
        /\ phases \in [Msg -> Phase]
        /\ \A n \in Msg : phases[n] = "waiting" <=> turn[n] = "waiting"
        /\ \A n \in Msg : turn[n] = "answered" => phases[n] = "answered"
        /\ \A n \in Msg : phases[n] \in {"arriving", "leaving"} => turn[n] = phases[n]
        /\ \A n \in Msg : SessionOf[n] # SessionOf[m] => phases[n] = turn[n]
        /\ \A t \in Session \ {SessionOf[m]} : marks[t] = active[t]
    BY <1>5 DEF FailDrained, TypeOK, Mark, Phase
  <2>2. /\ Drain(SessionOf[m], marks, phases)
        /\ trail' = trail /\ sweepKeys' = sweepKeys
    BY <1>5 DEF FailDrained
  <2> HIDE DEF marks, phases
  <2> QED BY <1>0, <2>1, <2>2, DrainKeepsWatch DEF WatchFor
<1>6. CASE StartHook(m)
  <2>1. /\ turn' = [turn EXCEPT ![m] = "running"]
        /\ turn[m] = "accepted" /\ turn'[m] = "running"
    BY <1>6 DEF StartHook, TypeOK
  <2>2. \A n \in Msg : WasQueued(n) <=> WasQueued(n)'
    BY <1>6 DEF StartHook, WasQueued
  <2>3. SessionOf[m] = u => Runner(u)'
    BY <2>1 DEF Runner, InProgress, TurnsOf
  <2>4. ASSUME u = SessionOf[m] PROVE WatchFor(u)'
    <3>1. active'[u] = "fresh" /\ sweepKeys' = sweepKeys
      BY <1>0, <1>6, <2>4 DEF StartHook, TypeOK
    <3>2. Reported(u)' => Reported(u)
      BY <2>1, <2>2 DEF Reported, TurnsOf, TypeOK
    <3> QED BY <2>3, <2>4, <3>1, <3>2 DEF WatchFor
  <2>5. ASSUME u # SessionOf[m] PROVE WatchFor(u)'
    <3>1. active'[u] = active[u]
      BY <1>6, <2>5 DEF StartHook, TypeOK
    <3> QED BY <1>6, <2>1, <2>2, <2>5, <3>1, MoveKeepsWatch DEF StartHook, Phase
  <2>6. DrainedWasQueued'
    BY <2>1, <2>2 DEF DrainedWasQueued, TypeOK
  <2> QED BY <2>4, <2>5, <2>6
<1>7. CASE CompleteHook(m)
  <2>1. /\ turn' = [turn EXCEPT ![m] = "ending"]
        /\ turn[m] = "running" /\ turn'[m] = "ending"
    BY <1>7 DEF CompleteHook, TypeOK
  <2>2. \A n \in Msg : WasQueued(n) <=> WasQueued(n)'
    BY <1>7 DEF CompleteHook, WasQueued
  <2>3. SessionOf[m] = u => Runner(u)'
    BY <2>1 DEF Runner, InProgress, TurnsOf
  <2>4. WatchFor(u)'
    BY <1>7, <2>1, <2>2, <2>3, MoveKeepsWatch DEF CompleteHook, Phase
  <2>5. DrainedWasQueued'
    BY <2>1, <2>2 DEF DrainedWasQueued, TypeOK
  <2> QED BY <2>4, <2>5
<1>8. CASE DrainSessionQueue(m)
  <2> DEFINE phases == [turn EXCEPT ![m] = "done"]
  <2>1. /\ phases \in [Msg -> Phase]
        /\ \A n \in Msg : phases[n] = "waiting" <=> turn[n] = "waiting"
        /\ \A n \in Msg : turn[n] = "answered" => phases[n] = "answered"
        /\ \A n \in Msg : phases[n] \in {"arriving", "leaving"} => turn[n] = phases[n]
        /\ \A n \in Msg : SessionOf[n] # SessionOf[m] => phases[n] = turn[n]
    BY <1>8 DEF DrainSessionQueue, TypeOK, Phase
  <2>2. /\ Drain(SessionOf[m], active, phases)
        /\ trail' = trail /\ sweepKeys' = sweepKeys
        /\ active \in [Session -> Mark]
    BY <1>8 DEF DrainSessionQueue, TypeOK
  <2> HIDE DEF phases
  <2> QED BY <1>0, <2>1, <2>2, DrainKeepsWatch DEF WatchFor
<1> QED BY <1>1, <1>2, <1>3, <1>4, <1>5, <1>6, <1>7, <1>8 DEF Progress

LEMMA SweepKeepsWatch ==
  ASSUME QueueAssumption, WatchInv, NEW s \in Session, NEW u \in Session,
         SweepStart(s) \/ SweepNext(s)
  PROVE  WatchFor(u)' /\ DrainedWasQueued'
<1> USE DEF WatchInv, BookInv
<1>1. /\ turn \in [Msg -> Phase] /\ active \in [Session -> Mark]
      /\ Freed \in [Session -> Mark]
      /\ Reported(u) => Freed[u] = active[u] /\ u \notin StaleKeys
  BY DEF TypeOK, Freed, StaleKeys, Mark, WatchFor
<1>2. CASE SweepStart(s)
  BY <1>1, <1>2, DrainKeepsWatch DEF SweepStart
<1>3. CASE SweepNext(s)
  BY <1>1, <1>3, DrainKeepsWatch DEF SweepNext, WatchFor
<1> QED BY <1>2, <1>3

LEMMA AgeOutKeepsWatch ==
  ASSUME WatchInv, NEW s \in Session, NEW u \in Session, AgeOut(s)
  PROVE  WatchFor(u)' /\ DrainedWasQueued'
<1> USE DEF WatchInv, BookInv
<1>1. UNCHANGED <<pending, turn, trail, sweepKeys>>
  BY DEF AgeOut
<1>2. (Reported(u)' <=> Reported(u)) /\ (Runner(u)' <=> Runner(u))
  BY <1>1 DEF Reported, WasQueued, Runner, InProgress, TurnsOf
<1>3. u # s => active'[u] = active[u]
  BY DEF AgeOut, TypeOK
<1>4. u = s => ~Runner(u) /\ active[u] # "idle"
  BY DEF AgeOut, Runner
<1>5. DrainedWasQueued'
  BY <1>1 DEF DrainedWasQueued, WasQueued
<1> QED BY <1>1, <1>2, <1>3, <1>4, <1>5 DEF WatchFor

LEMMA WatchInductive ==
  ASSUME QueueAssumption, WatchInv, [Next]_vars
  PROVE  WatchInv'
<1>1. BookInv'
  BY BooksInductive DEF WatchInv
<1>2. ASSUME NEW u \in Session PROVE WatchFor(u)' /\ DrainedWasQueued'
  <2>1. CASE \E m \in Msg : QueueTurn(m)
    BY <2>1, ArrivalKeepsWatch
  <2>2. CASE \E m \in Msg : Progress(m)
    BY <2>2, ProgressKeepsWatch
  <2>3. CASE \E s \in Session : AgeOut(s)
    BY <2>3, AgeOutKeepsWatch
  <2>4. CASE Sweep
    BY <2>4, SweepKeepsWatch DEF Sweep
  <2>5. CASE UNCHANGED vars
    BY <2>5 DEF vars, WatchInv, WatchFor, DrainedWasQueued, Reported, WasQueued,
                Runner, InProgress, TurnsOf
  <2> QED BY <2>1, <2>2, <2>3, <2>4, <2>5 DEF Next
<1>3. CASE Session # {}
  BY <1>1, <1>2, <1>3 DEF WatchInv
<1>4. CASE Session = {}
  BY <1>1, <1>4 DEF WatchInv, DrainedWasQueued, BookInv, QueueAssumption
<1> QED BY <1>3, <1>4

LEMMA WatchInitially ==
  ASSUME QueueAssumption, Init
  PROVE  WatchInv
<1>1. BookInv
  BY BooksInitially
<1> QED BY <1>1 DEF Init, WatchInv, WatchFor, DrainedWasQueued, WasQueued

\* While the runs of a session report completion, its waiting turns are never
\* behind an unmarked session.
THEOREM WaitersStayWatched == Spec => []NoOrphanedTurns
<1>1. WatchInv => NoOrphanedTurns
  BY DEF WatchInv, WatchFor, NoOrphanedTurns
<1>2. Init => WatchInv
  BY QueueAssumption, WatchInitially
<1>3. WatchInv /\ [Next]_vars => WatchInv'
  BY QueueAssumption, WatchInductive
<1> QED BY <1>1, <1>2, <1>3, PTL DEF Spec

\* While the runs of a session report completion, its in-flight mark is backed
\* by a turn that will release it.
THEOREM MarksAreBacked == Spec => []MarkHasARunner
<1>1. WatchInv => MarkHasARunner
  BY DEF WatchInv, WatchFor, MarkHasARunner, Runner
<1>2. Init => WatchInv
  BY QueueAssumption, WatchInitially
<1>3. WatchInv /\ [Next]_vars => WatchInv'
  BY QueueAssumption, WatchInductive
<1> QED BY <1>1, <1>2, <1>3, PTL DEF Spec

\* Every variable of the queue keeps its type.
THEOREM QueueTypes == Spec => []TypeOK
<1>1. Init => BookInv
  BY QueueAssumption, BooksInitially
<1>2. BookInv /\ [Next]_vars => BookInv'
  BY QueueAssumption, BooksInductive
<1>3. BookInv => TypeOK
  BY DEF BookInv
<1> QED BY <1>1, <1>2, <1>3, PTL DEF Spec

LEMMA NoStepOvertakes ==
  ASSUME QueueAssumption, WatchInv, [Next]_vars, NEW m \in Msg \ Slash
  PROVE  ~Overtakes(m)
<1> USE DEF WatchInv, BookInv
<1> SUFFICES ASSUME Overtakes(m) PROVE FALSE
  OBVIOUS
<1>1. /\ turn \in [Msg -> Phase] /\ active \in [Session -> Mark]
      /\ Freed \in [Session -> Mark] /\ SessionOf[m] \in Session
  BY DEF TypeOK, Freed, Mark, QueueAssumption
<1>2. ASSUME NEW n \in Msg, QueueTurn(n) PROVE FALSE
  <2>1. n = m
    BY <1>1, <1>2
    DEF QueueTurn, QueueSlash, DispatchNow, Enqueue, Overflow, HandOver, Overtakes
  <2>2. DispatchNow(m)
    BY <1>1, <1>2, <2>1
    DEF QueueTurn, QueueSlash, Enqueue, Overflow, Overtakes
  <2> QED BY <1>1, <2>2 DEF DispatchNow, Overtakes, WatchFor, Freed, StaleKeys
<1>3. ASSUME NEW s \in Session, NEW marks \in [Session -> Mark],
             NEW phases \in [Msg -> Phase], phases[m] = "arriving",
             \A n \in Msg : phases[n] = "waiting" <=> turn[n] = "waiting",
             Drain(s, marks, phases)
      PROVE  FALSE
  <2>1. turn'[m] = phases[m]
    BY <1>3, DrainEffect DEF Overtakes
  <2> QED BY <1>3, <2>1 DEF Overtakes
<1>4. ASSUME NEW n \in Msg, Progress(n) PROVE FALSE
  <2>1. SessionOf[n] \in Session
    BY DEF QueueAssumption
  <2>2. CASE FailDrained(n)
    <3> DEFINE marks == [active EXCEPT ![SessionOf[n]] = "idle"]
               phases == [turn EXCEPT ![n] = "failed"]
    <3>1. /\ marks \in [Session -> Mark] /\ phases \in [Msg -> Phase]
          /\ phases[m] = "arriving"
          /\ \A k \in Msg : phases[k] = "waiting" <=> turn[k] = "waiting"
          /\ Drain(SessionOf[n], marks, phases)
      BY <1>1, <2>2 DEF FailDrained, Mark, Phase, Overtakes
    <3> HIDE DEF marks, phases
    <3> QED BY <1>3, <2>1, <3>1
  <2>3. CASE DrainSessionQueue(n)
    <3> DEFINE phases == [turn EXCEPT ![n] = "done"]
    <3>1. /\ phases \in [Msg -> Phase]
          /\ phases[m] = "arriving"
          /\ \A k \in Msg : phases[k] = "waiting" <=> turn[k] = "waiting"
          /\ Drain(SessionOf[n], active, phases)
      BY <1>1, <2>3 DEF DrainSessionQueue, Phase, Overtakes
    <3> HIDE DEF phases
    <3> QED BY <1>1, <1>3, <2>1, <3>1
  <2>4. CASE ~FailDrained(n) /\ ~DrainSessionQueue(n)
    <3>1. turn'[m] = turn[m]
      BY <1>1, <1>4, <2>4
      DEF Progress, DispatchOverflow, ShowHourglass, DispatchDrained, FailDirect,
          StartHook, CompleteHook, HandOver, Overtakes
    <3> QED BY <3>1 DEF Overtakes
  <2> QED BY <2>2, <2>3, <2>4
<1>5. ASSUME Sweep PROVE FALSE
  <2>1. PICK s \in Session : SweepStart(s) \/ SweepNext(s)
    BY <1>5 DEF Sweep
  <2> QED BY <1>1, <1>3, <2>1 DEF SweepStart, SweepNext, Overtakes
<1>6. ASSUME NEW s \in Session, AgeOut(s) PROVE FALSE
  BY <1>6 DEF AgeOut, Overtakes
<1>7. CASE UNCHANGED vars
  BY <1>7 DEF vars, Overtakes
<1> QED BY <1>2, <1>4, <1>5, <1>6, <1>7 DEF Next

\* While the runs of a session report completion, a turn that finds room is never
\* handed over past turns that wait in its session.
THEOREM NobodyJumpsTheQueue == Spec => NoOvertaking
<1>1. WatchInv /\ [Next]_vars => [~Overtaking]_vars
  BY QueueAssumption, NoStepOvertakes DEF Overtaking
<1>2. Init => WatchInv
  BY QueueAssumption, WatchInitially
<1>3. WatchInv /\ [Next]_vars => WatchInv'
  BY QueueAssumption, WatchInductive
<1> QED BY <1>1, <1>2, <1>3, PTL DEF Spec, NoOvertaking

-----------------------------------------------------------------------------
(* A session no turn of which was ever pushed past the cap. *)

Clean(s) == Reported(s) /\ \A m \in TurnsOf(s) : trail[m] # "overflow"

\* The phases in which a turn is bound to find the in-flight mark of its session.
Holds(m) ==
  \/ turn[m] \in {"leaving", "running", "ending"}
  \/ turn[m] \in {"accepted", "failing"} /\ WasQueued(m)

\* What the history of a turn says about its phase.
TrailInv ==
  \A m \in Msg :
    /\ turn[m] = "arriving" => trail[m] = "none"
    /\ turn[m] = "overflow" => trail[m] = "overflow"
    /\ turn[m] = "answered" => m \in Slash \cup Native
    /\ WasQueued(m) => m \notin Slash

\* One turn at a time is between the queue and the end of its run, the mark of
\* the session stands for it, and so nothing that waited was steered into it.
LaneFor(s) ==
  Clean(s) =>
    /\ \A m, n \in TurnsOf(s) : InProgress(m) /\ InProgress(n) => m = n
    /\ \A m \in TurnsOf(s) : Holds(m) => active[s] # "idle"
    /\ \A m \in TurnsOf(s) : WasQueued(m) => turn[m] # "steered"

LaneInv ==
  /\ WatchInv
  /\ TrailInv
  /\ \A s \in Session : LaneFor(s)

\* Nothing a step does takes back that a session overflowed or went unreported.
LEMMA CleanBefore ==
  ASSUME NEW u \in Session,
         \A n \in Msg : WasQueued(n) => WasQueued(n)',
         \A n \in Msg : turn[n] = "answered" => turn'[n] = "answered",
         \A n \in Msg : trail[n] = "overflow" => trail'[n] = "overflow",
         Clean(u)'
  PROVE  Clean(u)
BY ReportedBefore DEF Clean, TurnsOf

\* A clean session shows what WatchInv and LaneInv say of it.
LEMMA CleanFacts ==
  ASSUME LaneInv, NEW s \in Session, Clean(s)
  PROVE  /\ s \notin sweepKeys /\ active[s] # "stale"
         /\ pending[s] # <<>> => active[s] # "idle"
         /\ active[s] # "idle" => Runner(s)
         /\ \A m, n \in TurnsOf(s) : InProgress(m) /\ InProgress(n) => m = n
         /\ \A m \in TurnsOf(s) : Holds(m) => active[s] # "idle"
         /\ \A m \in TurnsOf(s) : WasQueued(m) => turn[m] # "steered"
         /\ \A m \in TurnsOf(s) : turn[m] # "overflow"
<1>1. Reported(s) /\ LaneFor(s) /\ WatchFor(s)
  BY DEF LaneInv, WatchInv, Clean
<1>2. \A m \in TurnsOf(s) : turn[m] # "overflow"
  BY DEF LaneInv, TrailInv, Clean, TurnsOf
<1> QED BY <1>1, <1>2 DEF LaneFor, WatchFor

\* A step that moves one turn and drains nothing.
LEMMA MoveKeepsLane ==
  ASSUME LaneInv, NEW m \in Msg, NEW o \in Phase, NEW u \in Session,
         turn' = [turn EXCEPT ![m] = o], turn[m] # "answered",
         \A n \in Msg : WasQueued(n) => WasQueued(n)',
         \A n \in Msg \ {m} : WasQueued(n)' => WasQueued(n),
         \A n \in Msg : trail[n] = "overflow" => trail'[n] = "overflow",
         Clean(u) /\ active[u] # "idle" => active'[u] # "idle",
         Clean(u) /\ Clean(u)' /\ SessionOf[m] = u =>
           /\ InProgress(m)' => \A n \in TurnsOf(u) : InProgress(n) => n = m
           /\ Holds(m)' => active'[u] # "idle"
           /\ WasQueued(m)' => o # "steered"
  PROVE  LaneFor(u)'
<1> SUFFICES ASSUME Clean(u)' PROVE LaneFor(u)'
  BY DEF LaneFor
<1>1. /\ turn \in [Msg -> Phase]
      /\ turn'[m] = o
      /\ \A n \in Msg \ {m} : turn'[n] = turn[n]
  BY DEF LaneInv, WatchInv, BookInv, TypeOK
<1>2. Clean(u)
  BY <1>1, CleanBefore
<1>3. /\ \A k, n \in TurnsOf(u) : InProgress(k) /\ InProgress(n) => k = n
      /\ \A n \in TurnsOf(u) : Holds(n) => active[u] # "idle"
      /\ \A n \in TurnsOf(u) : WasQueued(n) => turn[n] # "steered"
  BY <1>2, CleanFacts
<1>4. \A n \in TurnsOf(u) \ {m} : /\ InProgress(n)' => InProgress(n)
                                  /\ Holds(n)' => Holds(n)
                                  /\ WasQueued(n)' => turn'[n] # "steered"
  BY <1>1, <1>3 DEF InProgress, Holds, TurnsOf
<1>5. TurnsOf(u)' = TurnsOf(u) /\ (m \in TurnsOf(u) => SessionOf[m] = u)
  BY DEF TurnsOf
<1>6. ASSUME NEW k \in TurnsOf(u), NEW n \in TurnsOf(u), InProgress(k)', InProgress(n)'
      PROVE  k = n
  BY <1>2, <1>3, <1>4, <1>5, <1>6
<1>7. ASSUME NEW n \in TurnsOf(u), Holds(n)' PROVE active'[u] # "idle"
  BY <1>2, <1>3, <1>4, <1>5, <1>7
<1>8. ASSUME NEW n \in TurnsOf(u), WasQueued(n)' PROVE turn'[n] # "steered"
  BY <1>1, <1>2, <1>3, <1>4, <1>5, <1>8
<1> QED BY <1>5, <1>6, <1>7, <1>8 DEF LaneFor

\* A drain of s marks s for the head of its queue, or frees s when none waits.
LEMMA DrainMovesTheHead ==
  ASSUME BookInv, QueueAssumption,
         NEW s \in Session, NEW marks \in [Session -> Mark],
         NEW phases \in [Msg -> Phase], Drain(s, marks, phases)
  PROVE  \/ /\ pending[s] = <<>> /\ pending' = pending
            /\ turn' = phases /\ active'[s] = "idle"
         \/ \E h \in TurnsOf(s) :
              /\ pending[s] # <<>> /\ h = Head(pending[s]) /\ turn[h] = "waiting"
              /\ pending' = [pending EXCEPT ![s] = Tail(@)]
              /\ turn' = [phases EXCEPT ![h] = "leaving"]
              /\ active'[s] = "fresh"
<1>1. CASE pending[s] = <<>>
  BY <1>1 DEF Drain
<1>2. CASE pending[s] # <<>>
  <2>1. Head(pending[s]) \in Elems(pending[s])
    BY <1>2, TailElems DEF BookInv, TypeOK, QueueHoldsTheWaiting
  <2>2. /\ Head(pending[s]) \in TurnsOf(s)
        /\ turn[Head(pending[s])] = "waiting"
    BY <2>1 DEF BookInv, QueueHoldsTheWaiting
  <2> QED BY <1>2, <2>2 DEF Drain
<1> QED BY <1>1, <1>2

\* A drain of s leaves one turn of s in progress at most, when the caller has
\* taken the one that was out of progress.
LEMMA DrainKeepsLane ==
  ASSUME LaneInv, QueueAssumption,
         NEW s \in Session, NEW marks \in [Session -> Mark],
         NEW phases \in [Msg -> Phase], NEW u \in Session,
         \A n \in Msg : turn[n] = "waiting" => phases[n] = "waiting",
         \A n \in Msg : turn[n] = "answered" => phases[n] = "answered",
         \A n \in Msg : SessionOf[n] # s => phases[n] = turn[n],
         \A n \in Msg : phases[n] = "steered" => turn[n] = "steered",
         Clean(s) => \A n \in TurnsOf(s) :
           /\ phases[n] \notin {"leaving", "accepted", "running", "ending"}
           /\ phases[n] = "failing" => ~WasQueued(n),
         Drain(s, marks, phases), trail' = trail,
         Clean(u) /\ u # s => active'[u] = active[u]
  PROVE  LaneFor(u)'
<1> SUFFICES ASSUME Clean(u)' PROVE LaneFor(u)'
  BY DEF LaneFor
<1>0. /\ \A n \in Msg : WasQueued(n)' <=> WasQueued(n)
      /\ TurnsOf(u)' = TurnsOf(u) /\ TurnsOf(u) \subseteq Msg
  BY DEF WasQueued, TurnsOf
<1>1. PICK h \in Msg \cup {NoMsg} :
        /\ \A n \in Msg \ {h} : turn'[n] = phases[n]
        /\ h \in Msg => /\ SessionOf[h] = s /\ turn[h] = "waiting"
                        /\ turn'[h] = "leaving" /\ active'[s] = "fresh"
  <2>1. CASE turn' = phases
    BY <2>1 DEF QueueAssumption
  <2>2. CASE turn' # phases
    <3>1. PICK h \in TurnsOf(s) : /\ turn[h] = "waiting"
                                  /\ turn' = [phases EXCEPT ![h] = "leaving"]
                                  /\ active'[s] = "fresh"
      BY <2>2, DrainMovesTheHead DEF LaneInv, WatchInv
    <3>2. h \in Msg /\ SessionOf[h] = s
      BY DEF TurnsOf
    <3> QED BY <3>1, <3>2
  <2> QED BY <2>1, <2>2
<1>2. Clean(u)
  <2>1. \A n \in Msg : turn[n] = "answered" => turn'[n] = "answered"
    BY <1>1
  <2> QED BY <1>0, <2>1, CleanBefore
<1>3. /\ \A k, n \in TurnsOf(u) : InProgress(k) /\ InProgress(n) => k = n
      /\ \A n \in TurnsOf(u) : Holds(n) => active[u] # "idle"
      /\ \A n \in TurnsOf(u) : WasQueued(n) => turn[n] # "steered"
  BY <1>2, CleanFacts
<1>4. CASE u # s
  <2>1. active'[u] = active[u] /\ \A n \in TurnsOf(u) : turn'[n] = turn[n]
    BY <1>1, <1>2, <1>4 DEF TurnsOf
  <2>2. \A n \in TurnsOf(u) : (InProgress(n)' <=> InProgress(n)) /\ (Holds(n)' <=> Holds(n))
    BY <1>0, <2>1 DEF InProgress, Holds
  <2> QED BY <1>0, <1>3, <2>1, <2>2 DEF LaneFor
<1>5. CASE u = s
  <2>1. ASSUME NEW n \in TurnsOf(u), n # h
        PROVE  ~InProgress(n)' /\ ~Holds(n)' /\ (WasQueued(n)' => turn'[n] # "steered")
    <3>1. n \in Msg /\ turn'[n] = phases[n]
      BY <1>1, <2>1 DEF TurnsOf
    <3> QED BY <1>0, <1>2, <1>3, <1>5, <2>1, <3>1 DEF InProgress, Holds
  <2>2. h \in TurnsOf(u) => active'[u] # "idle" /\ turn'[h] # "steered"
    BY <1>1, <1>5 DEF TurnsOf
  <2> QED BY <1>0, <2>1, <2>2 DEF LaneFor
<1> QED BY <1>4, <1>5

\* The history of a turn agrees with its phase after every step.
LEMMA TrailInductive ==
  ASSUME QueueAssumption, LaneInv, [Next]_vars
  PROVE  TrailInv'
<1> USE DEF LaneInv, WatchInv, BookInv
<1>0. turn \in [Msg -> Phase] /\ trail \in [Msg -> Trail] /\ Freed \in [Session -> Mark]
  BY DEF TypeOK, Freed, Mark
<1>1. ASSUME NEW m \in Msg, NEW o \in Phase, turn' = [turn EXCEPT ![m] = o],
             o # "arriving", o = "overflow" => trail'[m] = "overflow",
             o = "answered" => m \in Slash \cup Native,
             \A n \in Msg \ {m} : trail'[n] = trail[n],
             trail'[m] \in {"adding", "shown", "cleared"} => m \notin Slash
      PROVE  TrailInv'
  <2>1. turn'[m] = o /\ \A n \in Msg \ {m} : turn'[n] = turn[n]
    BY <1>0, <1>1
  <2>2. ASSUME NEW n \in Msg
        PROVE  /\ turn'[n] = "arriving" => trail'[n] = "none"
               /\ turn'[n] = "overflow" => trail'[n] = "overflow"
               /\ turn'[n] = "answered" => n \in Slash \cup Native
               /\ WasQueued(n)' => n \notin Slash
    <3>1. CASE n = m
      BY <1>1, <2>1, <3>1 DEF WasQueued
    <3>2. CASE n # m
      BY <1>1, <2>1, <3>2 DEF TrailInv, WasQueued
    <3> QED BY <3>1, <3>2
  <2> QED BY <2>2 DEF TrailInv
<1>2. ASSUME NEW m \in Msg
      PROVE  /\ HostOutcome(m) \in {"failing", "answered", "steered", "accepted"}
             /\ HostOutcome(m) = "answered" => m \in Slash \cup Native
             /\ HostOutcome(m) \in Phase
  BY OutcomesNeverWait DEF HostOutcome, Phase
<1>3. ASSUME NEW s \in Session, NEW marks \in [Session -> Mark],
             NEW phases \in [Msg -> Phase], Drain(s, marks, phases), trail' = trail,
             \A n \in Msg : phases[n] # turn[n] => phases[n] \in {"done", "failed"}
      PROVE  TrailInv'
  <2>1. ASSUME NEW n \in Msg
        PROVE  turn'[n] # turn[n] => turn'[n] \in {"done", "failed", "leaving"}
    <3>1. CASE turn' = phases
      BY <1>3, <3>1
    <3>2. CASE turn' # phases
      <4>1. PICK h \in TurnsOf(s) : turn' = [phases EXCEPT ![h] = "leaving"]
        BY <1>3, <3>2, DrainMovesTheHead
      <4> QED BY <1>3, <4>1 DEF TurnsOf
    <3> QED BY <3>1, <3>2
  <2> QED BY <1>3, <2>1 DEF TrailInv, WasQueued
<1>4. ASSUME NEW m \in Msg, QueueTurn(m) PROVE TrailInv'
  <2>1. CASE QueueSlash(m)
    BY <1>1, <1>2, <2>1 DEF QueueSlash, HandOver, TrailInv, WasQueued
  <2>2. CASE DispatchNow(m)
    BY <1>1, <1>2, <2>2 DEF DispatchNow, HandOver, TrailInv, WasQueued
  <2>3. CASE Enqueue(m)
    BY <1>0, <1>1, <2>3 DEF Enqueue, Phase
  <2>4. CASE Overflow(m)
    BY <1>0, <1>1, <2>4 DEF Overflow, Phase
  <2> QED BY <1>4, <2>1, <2>2, <2>3, <2>4 DEF QueueTurn
<1>5. ASSUME NEW m \in Msg, Progress(m) PROVE TrailInv'
  <2>0. /\ SessionOf[m] \in Session
        /\ active \in [Session -> Mark]
        /\ [active EXCEPT ![SessionOf[m]] = "idle"] \in [Session -> Mark]
    BY DEF QueueAssumption, TypeOK, Mark
  <2>1. CASE DispatchOverflow(m)
    BY <1>1, <1>2, <2>1 DEF DispatchOverflow, HandOver, TrailInv, WasQueued
  <2>2. CASE ShowHourglass(m)
    BY <1>0, <2>2 DEF ShowHourglass, TrailInv, WasQueued
  <2>3. CASE DispatchDrained(m)
    <3>1. /\ turn' = [turn EXCEPT ![m] = HostOutcome(m)]
          /\ \A n \in Msg \ {m} : trail'[n] = trail[n]
          /\ trail'[m] \in {"adding", "shown", "cleared"} => WasQueued(m)
      BY <1>0, <2>3 DEF DispatchDrained, HandOver, WasQueued
    <3> QED BY <1>1, <1>2, <3>1 DEF TrailInv
  <2>4. CASE FailDirect(m)
    BY <1>1, <2>4 DEF FailDirect, Phase, TrailInv, WasQueued
  <2>5. CASE FailDrained(m)
    <3> DEFINE phases == [turn EXCEPT ![m] = "failed"]
    <3>1. /\ phases \in [Msg -> Phase]
          /\ \A n \in Msg : phases[n] # turn[n] => phases[n] \in {"done", "failed"}
      BY <1>0 DEF Phase
    <3>2. /\ Drain(SessionOf[m], [active EXCEPT ![SessionOf[m]] = "idle"], phases)
          /\ trail' = trail
      BY <2>5 DEF FailDrained
    <3> HIDE DEF phases
    <3> QED BY <1>3, <2>0, <3>1, <3>2
  <2>6. CASE StartHook(m)
    BY <1>1, <2>6 DEF StartHook, Phase, TrailInv, WasQueued
  <2>7. CASE CompleteHook(m)
    BY <1>1, <2>7 DEF CompleteHook, Phase, TrailInv, WasQueued
  <2>8. CASE DrainSessionQueue(m)
    <3> DEFINE phases == [turn EXCEPT ![m] = "done"]
    <3>1. /\ phases \in [Msg -> Phase]
          /\ \A n \in Msg : phases[n] # turn[n] => phases[n] \in {"done", "failed"}
      BY <1>0 DEF Phase
    <3>2. Drain(SessionOf[m], active, phases) /\ trail' = trail
      BY <2>8 DEF DrainSessionQueue
    <3> HIDE DEF phases
    <3> QED BY <1>3, <2>0, <3>1, <3>2
  <2> QED BY <1>5, <2>1, <2>2, <2>3, <2>4, <2>5, <2>6, <2>7, <2>8 DEF Progress
<1>6. ASSUME NEW s \in Session, AgeOut(s) PROVE TrailInv'
  BY <1>6 DEF AgeOut, TrailInv, WasQueued
<1>7. ASSUME NEW s \in Session, SweepStart(s) \/ SweepNext(s) PROVE TrailInv'
  BY <1>0, <1>3, <1>7 DEF SweepStart, SweepNext, TypeOK
<1>8. CASE UNCHANGED vars
  BY <1>8 DEF vars, TrailInv, WasQueued
<1> QED BY <1>4, <1>5, <1>6, <1>7, <1>8 DEF Next, Sweep

LEMMA ArrivalKeepsLane ==
  ASSUME QueueAssumption, LaneInv, NEW m \in Msg, QueueTurn(m), NEW u \in Session
  PROVE  LaneFor(u)'
<1> USE DEF LaneInv, WatchInv, BookInv
<1>0. /\ turn \in [Msg -> Phase] /\ trail \in [Msg -> Trail] /\ active \in [Session -> Mark]
      /\ Clean(u) => Freed[u] = active[u]
      /\ SessionOf[m] \in Session
  <2>1. Clean(u) => active[u] # "stale"
    BY CleanFacts
  <2> QED BY <2>1 DEF TypeOK, Freed, StaleKeys, QueueAssumption
<1>1. CASE QueueSlash(m)
  <2>1. /\ turn' = [turn EXCEPT ![m] = HostOutcome(m)] /\ HostOutcome(m) \in Phase
        /\ HostOutcome(m) \in {"failing", "answered"}
    BY <1>1, OutcomesNeverWait DEF QueueSlash, HandOver, Phase, HostOutcome
  <2>2. UNCHANGED <<active, trail>> /\ ~WasQueued(m) /\ turn'[m] = HostOutcome(m)
    BY <1>0, <1>1, <2>1 DEF QueueSlash, DrainedWasQueued
  <2>3. ~InProgress(m)' /\ ~Holds(m)' /\ ~WasQueued(m)'
    BY <2>1, <2>2 DEF InProgress, Holds, WasQueued
  <2>4. turn[m] = "arriving" /\ \A n \in Msg : WasQueued(n)' <=> WasQueued(n)
    BY <1>1, <2>2 DEF QueueSlash, WasQueued
  <2> QED BY <2>1, <2>2, <2>3, <2>4, MoveKeepsLane
<1>2. CASE DispatchNow(m)
  <2>1. /\ turn' = [turn EXCEPT ![m] = HostOutcome(m)] /\ HostOutcome(m) \in Phase
        /\ HostOutcome(m) \in {"failing", "answered", "steered", "accepted"}
    BY <1>2, OutcomesNeverWait DEF DispatchNow, HandOver, Phase
  <2>2. /\ active' = Freed /\ trail' = trail /\ ~WasQueued(m)
        /\ turn'[m] = HostOutcome(m) /\ turn[m] = "arriving"
    BY <1>0, <1>2, <2>1 DEF DispatchNow, DrainedWasQueued
  <2>3. /\ \A n \in Msg : WasQueued(n)' <=> WasQueued(n)
        /\ ~WasQueued(m)' /\ ~Holds(m)'
    BY <2>1, <2>2 DEF WasQueued, Holds
  <2>4. ASSUME Clean(u), SessionOf[m] = u, InProgress(m)', NEW n \in TurnsOf(u), InProgress(n)
        PROVE  n = m
    <3>1. active[u] = "idle" /\ ~Holds(n)
      BY <1>0, <1>2, <2>4, CleanFacts DEF DispatchNow
    <3>2. turn[n] = "accepted"
      BY <2>4, <3>1 DEF InProgress, Holds
    <3>3. HostOutcome(m) = "accepted"
      BY <2>1, <2>2, <2>3, <2>4 DEF InProgress
    <3>4. ~HostBusy(u)
      BY <2>4, <3>3 DEF HostOutcome
    <3> QED BY <2>4, <3>2, <3>4 DEF HostBusy
  <2> QED BY <1>0, <2>1, <2>2, <2>3, <2>4, MoveKeepsLane
<1>3. CASE Enqueue(m)
  <2>1. /\ turn' = [turn EXCEPT ![m] = "waiting"] /\ turn'[m] = "waiting"
        /\ turn[m] = "arriving" /\ active' = Freed
        /\ trail' = [trail EXCEPT ![m] = "adding"] /\ trail'[m] = "adding"
        /\ \A n \in Msg \ {m} : trail'[n] = trail[n]
        /\ trail[m] = "none"
    BY <1>0, <1>3 DEF Enqueue, TrailInv
  <2>2. /\ \A n \in Msg : WasQueued(n) => WasQueued(n)'
        /\ \A n \in Msg \ {m} : WasQueued(n)' => WasQueued(n)
        /\ \A n \in Msg : trail[n] = "overflow" => trail'[n] = "overflow"
        /\ ~InProgress(m)' /\ ~Holds(m)'
    BY <2>1 DEF WasQueued, InProgress, Holds
  <2>3. "waiting" \in Phase
    BY DEF Phase
  <2> QED BY <1>0, <2>1, <2>2, <2>3, MoveKeepsLane
<1>4. CASE Overflow(m)
  <2>1. /\ turn' = [turn EXCEPT ![m] = "overflow"] /\ turn'[m] = "overflow"
        /\ turn[m] = "arriving" /\ active' = Freed
        /\ trail' = [trail EXCEPT ![m] = "overflow"] /\ trail'[m] = "overflow"
        /\ \A n \in Msg \ {m} : trail'[n] = trail[n]
        /\ trail[m] = "none"
    BY <1>0, <1>4 DEF Overflow, TrailInv
  <2>2. /\ \A n \in Msg : WasQueued(n) => WasQueued(n)'
        /\ \A n \in Msg \ {m} : WasQueued(n)' => WasQueued(n)
        /\ \A n \in Msg : trail[n] = "overflow" => trail'[n] = "overflow"
        /\ ~InProgress(m)' /\ ~Holds(m)'
    BY <2>1 DEF WasQueued, InProgress, Holds
  <2>3. "overflow" \in Phase
    BY DEF Phase
  <2> QED BY <1>0, <2>1, <2>2, <2>3, MoveKeepsLane
<1> QED BY <1>1, <1>2, <1>3, <1>4 DEF QueueTurn

LEMMA ProgressKeepsLane ==
  ASSUME QueueAssumption, LaneInv, NEW m \in Msg, Progress(m), NEW u \in Session
  PROVE  LaneFor(u)'
<1> USE DEF LaneInv, WatchInv, BookInv
<1>0. /\ turn \in [Msg -> Phase] /\ trail \in [Msg -> Trail] /\ active \in [Session -> Mark]
      /\ SessionOf[m] \in Session /\ m \in TurnsOf(SessionOf[m])
  BY DEF TypeOK, QueueAssumption, TurnsOf
<1>1. CASE DispatchOverflow(m)
  <2>1. /\ turn' = [turn EXCEPT ![m] = HostOutcome(m)] /\ HostOutcome(m) \in Phase
        /\ turn[m] = "overflow" /\ UNCHANGED <<active, trail>>
    BY <1>1, OutcomesNeverWait DEF DispatchOverflow, HandOver, Phase
  <2>2. SessionOf[m] = u => ~Clean(u)
    BY <1>0, <2>1, CleanFacts
  <2>3. \A n \in Msg : WasQueued(n)' <=> WasQueued(n)
    BY <2>1 DEF WasQueued
  <2> QED BY <2>1, <2>2, <2>3, MoveKeepsLane
<1>2. CASE ShowHourglass(m)
  <2>1. /\ UNCHANGED <<active, pending, turn, sweepKeys>>
        /\ \A n \in Msg : WasQueued(n)' <=> WasQueued(n)
        /\ \A n \in Msg : trail'[n] = "overflow" <=> trail[n] = "overflow"
    BY <1>0, <1>2 DEF ShowHourglass, WasQueued
  <2>2. /\ Clean(u)' <=> Clean(u)
        /\ \A n \in TurnsOf(u) : (InProgress(n)' <=> InProgress(n)) /\ (Holds(n)' <=> Holds(n))
    BY <2>1 DEF Clean, Reported, InProgress, Holds, TurnsOf
  <2> QED BY <2>1, <2>2 DEF LaneFor, TurnsOf
<1>3. CASE DispatchDrained(m)
  <2>1. /\ turn' = [turn EXCEPT ![m] = HostOutcome(m)] /\ HostOutcome(m) \in Phase
        /\ HostOutcome(m) \in {"failing", "answered", "steered", "accepted"}
        /\ turn[m] = "leaving" /\ active' = active
    BY <1>3, OutcomesNeverWait DEF DispatchDrained, HandOver, Phase
  <2>2. /\ \A n \in Msg : WasQueued(n) <=> WasQueued(n)'
        /\ \A n \in Msg : trail[n] = "overflow" => trail'[n] = "overflow"
    BY <1>0, <1>3 DEF DispatchDrained, WasQueued
  <2>3. InProgress(m) /\ Holds(m)
    BY <2>1 DEF InProgress, Holds
  <2>4. ASSUME Clean(u), SessionOf[m] = u
        PROVE  /\ \A n \in TurnsOf(u) : InProgress(n) => n = m
               /\ active[u] # "idle"
               /\ HostOutcome(m) # "steered"
    <3>1. /\ \A n \in TurnsOf(u) : InProgress(n) => n = m
          /\ active[u] # "idle"
      BY <1>0, <2>3, <2>4, CleanFacts
    <3>2. ~HostBusy(u)
      BY <2>1, <3>1 DEF HostBusy, InProgress
    <3> QED BY <2>4, <3>1, <3>2 DEF HostOutcome
  <2>5. turn[m] # "answered"
    BY <2>1
  <2> QED BY <2>1, <2>2, <2>4, <2>5, MoveKeepsLane
<1>4. CASE FailDirect(m)
  <2>1. /\ turn' = [turn EXCEPT ![m] = "failed"] /\ turn'[m] = "failed"
        /\ turn[m] = "failing" /\ UNCHANGED <<active, trail>>
    BY <1>0, <1>4 DEF FailDirect
  <2>2. /\ \A n \in Msg : WasQueued(n)' <=> WasQueued(n)
        /\ ~InProgress(m)' /\ ~Holds(m)' /\ "failed" \in Phase
    BY <2>1 DEF WasQueued, InProgress, Holds, Phase
  <2> QED BY <2>1, <2>2, MoveKeepsLane
<1>5. ASSUME NEW marks \in [Session -> Mark], NEW o \in {"failed", "done"},
             InProgress(m), turn[m] # "waiting", turn[m] # "answered",
             \A t \in Session \ {SessionOf[m]} : marks[t] = active[t],
             Drain(SessionOf[m], marks, [turn EXCEPT ![m] = o]), trail' = trail
      PROVE  LaneFor(u)'
  <2> DEFINE s == SessionOf[m]
             phases == [turn EXCEPT ![m] = o]
  <2>1. /\ phases \in [Msg -> Phase] /\ phases[m] = o
        /\ \A n \in Msg \ {m} : phases[n] = turn[n]
    BY <1>0, <1>5 DEF Phase
  <2> HIDE DEF phases
  <2>2. \A n \in Msg : turn[n] = "waiting" => phases[n] = "waiting"
    BY <1>5, <2>1
  <2>3. \A n \in Msg : turn[n] = "answered" => phases[n] = "answered"
    BY <1>5, <2>1
  <2>4. \A n \in Msg : SessionOf[n] # s => phases[n] = turn[n]
    BY <2>1
  <2>5. \A n \in Msg : phases[n] = "steered" => turn[n] = "steered"
    BY <1>5, <2>1
  <2>6. Clean(s) => \A n \in TurnsOf(s) :
           /\ phases[n] \notin {"leaving", "accepted", "running", "ending"}
           /\ phases[n] = "failing" => ~WasQueued(n)
    <3> SUFFICES ASSUME Clean(s), NEW n \in TurnsOf(s)
                 PROVE  /\ phases[n] \notin {"leaving", "accepted", "running", "ending"}
                        /\ phases[n] = "failing" => ~WasQueued(n)
      OBVIOUS
    <3>1. CASE n = m
      BY <1>5, <2>1, <3>1
    <3>2. CASE n # m
      <4>1. ~InProgress(n) /\ n \in Msg
        BY <1>0, <1>5, <3>2, CleanFacts DEF TurnsOf
      <4> QED BY <2>1, <3>2, <4>1 DEF InProgress
    <3> QED BY <3>1, <3>2
  <2>7. Drain(s, marks, phases)
    BY <1>5 DEF phases
  <2>8. Clean(u) /\ u # s => active'[u] = active[u]
    BY <1>0, <1>5, <2>7 DEF Drain
  <2> QED BY <1>0, <1>5, <2>1, <2>2, <2>3, <2>4, <2>5, <2>6, <2>7, <2>8, DrainKeepsLane
<1>6. CASE FailDrained(m)
  <2>1. /\ [active EXCEPT ![SessionOf[m]] = "idle"] \in [Session -> Mark]
        /\ \A t \in Session \ {SessionOf[m]} :
             [active EXCEPT ![SessionOf[m]] = "idle"][t] = active[t]
        /\ InProgress(m) /\ turn[m] = "failing"
    BY <1>0, <1>6 DEF FailDrained, InProgress, Mark
  <2> QED BY <1>5, <1>6, <2>1 DEF FailDrained
<1>7. CASE DrainSessionQueue(m)
  <2>1. InProgress(m) /\ turn[m] = "ending"
    BY <1>7 DEF DrainSessionQueue, InProgress
  <2> QED BY <1>0, <1>5, <1>7, <2>1 DEF DrainSessionQueue
<1>8. ASSUME NEW o \in {"running", "ending"},
             turn' = [turn EXCEPT ![m] = o], turn[m] \in {"accepted", "running"},
             active'[SessionOf[m]] # "idle",
             \A t \in Session \ {SessionOf[m]} : active'[t] = active[t],
             trail' = trail
      PROVE  LaneFor(u)'
  <2>1. \A n \in Msg : WasQueued(n)' <=> WasQueued(n)
    BY <1>8 DEF WasQueued
  <2>2. ASSUME Clean(u), SessionOf[m] = u, NEW n \in TurnsOf(u), InProgress(n) PROVE n = m
    BY <1>0, <1>8, <2>2, CleanFacts DEF InProgress
  <2>3. o \in Phase /\ o # "steered" /\ turn[m] # "answered"
    BY <1>8 DEF Phase
  <2>4. active[u] # "idle" => active'[u] # "idle"
    BY <1>8
  <2> QED BY <1>8, <2>1, <2>2, <2>3, <2>4, MoveKeepsLane
<1>9. CASE StartHook(m)
  <2>1. /\ active'[SessionOf[m]] = "fresh"
        /\ \A t \in Session \ {SessionOf[m]} : active'[t] = active[t]
    BY <1>0, <1>9 DEF StartHook
  <2> QED BY <1>8, <1>9, <2>1 DEF StartHook
<1>10. CASE CompleteHook(m)
  <2>1. turn[m] = "running" /\ active' = active /\ Holds(m)
    BY <1>10 DEF CompleteHook, Holds
  <2>2. CASE Clean(SessionOf[m])
    <3>1. active[SessionOf[m]] # "idle"
      BY <1>0, <2>1, <2>2, CleanFacts
    <3> QED BY <1>8, <1>10, <2>1, <3>1 DEF CompleteHook
  <2>3. CASE ~Clean(SessionOf[m])
    <3>1. /\ turn' = [turn EXCEPT ![m] = "ending"] /\ "ending" \in Phase
          /\ \A n \in Msg : WasQueued(n)' <=> WasQueued(n)
          /\ trail' = trail
      BY <1>10 DEF CompleteHook, WasQueued, Phase
    <3> QED BY <2>1, <2>3, <3>1, MoveKeepsLane
  <2> QED BY <2>2, <2>3
<1> QED BY <1>1, <1>2, <1>3, <1>4, <1>6, <1>7, <1>9, <1>10 DEF Progress

\* Neither the age limit nor the scanner touches a clean session.
LEMMA NetKeepsLane ==
  ASSUME QueueAssumption, LaneInv, NEW s \in Session, NEW u \in Session,
         AgeOut(s) \/ SweepStart(s) \/ SweepNext(s)
  PROVE  LaneFor(u)' /\ ~Clean(s)
<1> USE DEF LaneInv, WatchInv, BookInv
<1>0. turn \in [Msg -> Phase] /\ active \in [Session -> Mark] /\ Freed \in [Session -> Mark]
  BY DEF TypeOK, Freed, Mark
<1>1. ~Clean(s)
  <2>1. AgeOut(s) => active[s] # "idle" /\ ~Runner(s)
    BY DEF AgeOut, Runner
  <2>2. SweepStart(s) => active[s] = "stale"
    BY DEF SweepStart, StaleKeys
  <2>3. SweepNext(s) => s \in sweepKeys
    BY DEF SweepNext
  <2> QED BY <2>1, <2>2, <2>3, CleanFacts
<1>2. CASE AgeOut(s)
  <2>1. /\ UNCHANGED <<turn, trail>>
        /\ u # s => active'[u] = active[u]
    BY <1>0, <1>2 DEF AgeOut
  <2>2. /\ Clean(u)' <=> Clean(u)
        /\ \A n \in TurnsOf(u) : /\ InProgress(n)' <=> InProgress(n)
                                 /\ Holds(n)' <=> Holds(n)
                                 /\ WasQueued(n)' <=> WasQueued(n)
    BY <2>1 DEF Clean, Reported, WasQueued, InProgress, Holds, TurnsOf
  <2> QED BY <1>1, <2>1, <2>2 DEF LaneFor, TurnsOf
<1>3. CASE SweepStart(s) \/ SweepNext(s)
  <2>1. PICK marks \in {Freed, active} : Drain(s, marks, turn) /\ trail' = trail
    BY <1>3 DEF SweepStart, SweepNext
  <2>2. ASSUME Clean(u), u # s PROVE active'[u] = active[u]
    <3>1. active'[u] = marks[u]
      BY <1>0, <2>1, <2>2 DEF Drain
    <3>2. Freed[u] = active[u]
      BY <2>2, CleanFacts DEF Freed, StaleKeys
    <3> QED BY <3>1, <3>2
  <2> QED BY <1>0, <1>1, <2>1, <2>2, DrainKeepsLane
<1> QED BY <1>1, <1>2, <1>3

LEMMA LaneInductive ==
  ASSUME QueueAssumption, LaneInv, [Next]_vars
  PROVE  LaneInv'
<1>1. WatchInv' /\ TrailInv'
  BY WatchInductive, TrailInductive DEF LaneInv
<1>2. ASSUME NEW u \in Session PROVE LaneFor(u)'
  <2>1. CASE \E m \in Msg : QueueTurn(m) \/ Progress(m)
    BY <2>1, ArrivalKeepsLane, ProgressKeepsLane
  <2>2. CASE (\E s \in Session : AgeOut(s)) \/ Sweep
    BY <2>2, NetKeepsLane DEF Sweep
  <2>3. CASE UNCHANGED vars
    BY <2>3 DEF vars, LaneInv, LaneFor, Clean, Reported, WasQueued, InProgress,
                Holds, TurnsOf
  <2> QED BY <2>1, <2>2, <2>3 DEF Next
<1> QED BY <1>1, <1>2 DEF LaneInv

LEMMA LaneInitially ==
  ASSUME QueueAssumption, Init
  PROVE  LaneInv
<1>1. WatchInv
  BY WatchInitially
<1>2. TrailInv
  BY DEF Init, TrailInv, WasQueued
<1>3. \A s \in Session : LaneFor(s)
  BY DEF Init, LaneFor, InProgress, Holds, WasQueued, TurnsOf
<1> QED BY <1>1, <1>2, <1>3 DEF LaneInv

\* A turn that waited opens a run of its own: only an overflow of its session, or
\* a turn the host answers without its hooks, lets the drain steer it into
\* another person's run.
THEOREM QueuedTurnsOpenTheirOwnRun == Spec => []QueuedTurnsAreNotSteered
<1>1. LaneInv => QueuedTurnsAreNotSteered
  <2> SUFFICES ASSUME LaneInv, NEW m \in Msg, WasQueued(m), turn[m] = "steered",
                      Clean(SessionOf[m])
               PROVE  FALSE
    BY DEF QueuedTurnsAreNotSteered, Clean
  <2>1. SessionOf[m] \in Session /\ m \in TurnsOf(SessionOf[m])
    BY QueueAssumption DEF QueueAssumption, TurnsOf
  <2> QED BY <2>1, CleanFacts
<1>2. Init => LaneInv
  BY QueueAssumption, LaneInitially
<1>3. LaneInv /\ [Next]_vars => LaneInv'
  BY QueueAssumption, LaneInductive
<1> QED BY <1>1, <1>2, <1>3, PTL DEF Spec

-----------------------------------------------------------------------------
(* The waiting line.  While no session has overflowed or gone unreported,  *)
(* every step of the queue is a step of TurnOrder, or leaves it alone.     *)

AllClean == \A s \in Session : Clean(s)

\* At most one turn of a clean session is on its way from the queue to the host;
\* Line puts it in front of the queue.
LEMMA LineOfClean ==
  ASSUME LaneInv, NEW s \in Session, Clean(s)
  PROVE  /\ \A m \in TurnsOf(s) : turn[m] = "leaving" => Line(s) = <<m>> \o pending[s]
         /\ (\A m \in TurnsOf(s) : turn[m] # "leaving") => Line(s) = pending[s]
<1> DEFINE L == {m \in TurnsOf(s) : turn[m] = "leaving"}
<1>1. ASSUME NEW m \in TurnsOf(s), turn[m] = "leaving"
      PROVE  Line(s) = <<m>> \o pending[s]
  <2>1. L = {m}
    BY <1>1, CleanFacts DEF InProgress
  <2>2. (CHOOSE k \in L : TRUE) = m /\ L # {}
    BY <2>1
  <2> QED BY <2>2 DEF Line
<1>2. ASSUME \A m \in TurnsOf(s) : turn[m] # "leaving"
      PROVE  Line(s) = pending[s]
  BY <1>2 DEF Line
<1> QED BY <1>1, <1>2

\* What a step leaves alone keeps its line.
LEMMA SameLine ==
  ASSUME NEW s \in Session, pending'[s] = pending[s],
         \A m \in TurnsOf(s) : turn'[m] = "leaving" <=> turn[m] = "leaving"
  PROVE  Line(s)' = Line(s)
<1> DEFINE before == {m \in TurnsOf(s) : turn[m] = "leaving"}
           after == {m \in TurnsOf(s) : turn'[m] = "leaving"}
           Front(L, q) == IF L = {} THEN q ELSE <<CHOOSE m \in L : TRUE>> \o q
<1>1. Line(s) = Front(before, pending[s])
  BY DEF Line
<1>2. Line(s)' = Front(after, pending'[s])
  BY DEF Line, TurnsOf
<1>3. after = before
  OBVIOUS
<1> HIDE DEF before, after
<1> QED BY <1>1, <1>2, <1>3

LEMMA PutBack ==
  ASSUME NEW q \in Seq(Msg), q # <<>>
  PROVE  <<Head(q)>> \o Tail(q) = q
OBVIOUS

LEMMA TakeFirst ==
  ASSUME NEW q \in Seq(Msg), NEW m \in Msg
  PROVE  /\ <<m>> \o q # <<>>
         /\ Head(<<m>> \o q) = m
         /\ Tail(<<m>> \o q) = q
OBVIOUS

LEMMA AppendBehind ==
  ASSUME NEW q \in Seq(Msg), NEW m \in Msg, NEW n \in Msg
  PROVE  <<m>> \o Append(q, n) = Append(<<m>> \o q, n)
OBVIOUS

\* The steps of TurnOrder, told from what they do to each line and each turn.
LEMMA SameLineSteps ==
  ASSUME \A s \in Session : Line(s)' = Line(s),
         \A m \in Msg : Standing(m)' = Standing(m)
  PROVE  UNCHANGED WaitingLine!orderVars
<1>1. [s \in Session |-> Line(s)]' = [s \in Session |-> Line(s)]
  OBVIOUS
<1>2. [m \in Msg |-> Standing(m)]' = [m \in Msg |-> Standing(m)]
  OBVIOUS
<1> QED BY <1>1, <1>2 DEF WaitingLine!orderVars

LEMMA ServedAtOnce ==
  ASSUME NEW m \in Msg, SessionOf[m] \in Session,
         Standing(m) = "new", Standing(m)' = "served",
         m \in Slash \/ Line(SessionOf[m]) = <<>>,
         \A s \in Session : Line(s)' = Line(s),
         \A n \in Msg \ {m} : Standing(n)' = Standing(n)
  PROVE  WaitingLine!OrderNext
<1>1. [s \in Session |-> Line(s)]' = [s \in Session |-> Line(s)]
  OBVIOUS
<1>2. [n \in Msg |-> Standing(n)]' = [[n \in Msg |-> Standing(n)] EXCEPT ![m] = "served"]
  OBVIOUS
<1>3. WaitingLine!ServeNow(m)
  BY <1>1, <1>2 DEF WaitingLine!ServeNow
<1> QED BY <1>3 DEF WaitingLine!OrderNext

LEMMA StoodInLine ==
  ASSUME NEW m \in Msg \ Slash, SessionOf[m] \in Session,
         Standing(m) = "new", Standing(m)' = "waiting",
         Line(SessionOf[m])' = Append(Line(SessionOf[m]), m),
         \A s \in Session \ {SessionOf[m]} : Line(s)' = Line(s),
         \A n \in Msg \ {m} : Standing(n)' = Standing(n)
  PROVE  WaitingLine!OrderNext
<1>1. [s \in Session |-> Line(s)]'
        = [[s \in Session |-> Line(s)] EXCEPT ![SessionOf[m]] = Append(@, m)]
  OBVIOUS
<1>2. [n \in Msg |-> Standing(n)]' = [[n \in Msg |-> Standing(n)] EXCEPT ![m] = "waiting"]
  OBVIOUS
<1>3. WaitingLine!StandInLine(m)
  BY <1>1, <1>2 DEF WaitingLine!StandInLine
<1> QED BY <1>3 DEF WaitingLine!OrderNext

LEMMA HeadServed ==
  ASSUME NEW s \in Session, NEW m \in Msg,
         Line(s) # <<>>, Head(Line(s)) = m,
         Standing(m)' = "served", Line(s)' = Tail(Line(s)),
         \A u \in Session \ {s} : Line(u)' = Line(u),
         \A n \in Msg \ {m} : Standing(n)' = Standing(n)
  PROVE  WaitingLine!OrderNext
<1>1. [u \in Session |-> Line(u)]'
        = [[u \in Session |-> Line(u)] EXCEPT ![s] = Tail(@)]
  OBVIOUS
<1>2. [n \in Msg |-> Standing(n)]' = [[n \in Msg |-> Standing(n)] EXCEPT ![m] = "served"]
  OBVIOUS
<1>3. WaitingLine!ServeHead(s)
  BY <1>1, <1>2 DEF WaitingLine!ServeHead
<1> QED BY <1>3 DEF WaitingLine!OrderNext

\* A drain by the runner m of a clean session takes the head out of _pending but
\* not out of the line.
LEMMA DrainKeepsTheLine ==
  ASSUME LaneInv, QueueAssumption, AllClean,
         NEW m \in Msg, InProgress(m), turn[m] # "leaving",
         NEW o \in {"failed", "done"}, NEW marks \in [Session -> Mark],
         Drain(SessionOf[m], marks, [turn EXCEPT ![m] = o])
  PROVE  UNCHANGED WaitingLine!orderVars
<1> USE DEF LaneInv, WatchInv, BookInv
<1> DEFINE s == SessionOf[m]
           phases == [turn EXCEPT ![m] = o]
<1>0. /\ s \in Session /\ m \in TurnsOf(s) /\ Clean(s)
      /\ turn \in [Msg -> Phase] /\ pending \in [Session -> Seq(Msg)]
  BY DEF QueueAssumption, TurnsOf, TypeOK, AllClean
<1>1. phases \in [Msg -> Phase] /\ phases[m] = o /\ \A n \in Msg \ {m} : phases[n] = turn[n]
  BY <1>0 DEF Phase
<1>2. Drain(s, marks, phases)
  OBVIOUS
<1> HIDE DEF phases
<1>3. \A n \in TurnsOf(s) : turn[n] # "leaving"
  BY <1>0, CleanFacts DEF InProgress
<1>4. Line(s) = pending[s]
  BY <1>0, <1>3, LineOfClean
<1>5. turn[m] \notin {"arriving", "waiting", "leaving"}
  BY DEF InProgress
<1>6. CASE /\ pending[s] = <<>> /\ pending' = pending
           /\ turn' = phases
  <2>1. ASSUME NEW u \in Session PROVE Line(u)' = Line(u)
    <3>1. \A n \in TurnsOf(u) : turn'[n] = "leaving" <=> turn[n] = "leaving"
      BY <1>1, <1>5, <1>6 DEF TurnsOf
    <3> QED BY <1>6, <3>1, SameLine
  <2>2. \A n \in Msg : Standing(n)' = Standing(n)
    BY <1>1, <1>5, <1>6 DEF Standing
  <2> QED BY <2>1, <2>2, SameLineSteps
<1>7. ASSUME NEW h \in TurnsOf(s), pending[s] # <<>>, h = Head(pending[s]),
             turn[h] = "waiting", pending' = [pending EXCEPT ![s] = Tail(@)],
             turn' = [phases EXCEPT ![h] = "leaving"]
      PROVE  UNCHANGED WaitingLine!orderVars
  <2>0. /\ h \in Msg /\ h # m /\ turn'[h] = "leaving" /\ turn'[m] = o
        /\ \A n \in Msg \ {h, m} : turn'[n] = turn[n]
        /\ pending'[s] = Tail(pending[s])
        /\ \A u \in Session \ {s} : pending'[u] = pending[u]
    BY <1>0, <1>1, <1>5, <1>7 DEF TurnsOf
  <2>1. ASSUME NEW u \in Session, u # s PROVE Line(u)' = Line(u)
    <3>1. \A n \in TurnsOf(u) : turn'[n] = "leaving" <=> turn[n] = "leaving"
      BY <1>7, <2>0, <2>1 DEF TurnsOf
    <3> QED BY <2>0, <2>1, <3>1, SameLine
  <2>2. Line(s)' = Line(s)
    <3>1. {n \in TurnsOf(s) : turn'[n] = "leaving"} = {h}
      BY <1>3, <1>7, <2>0 DEF TurnsOf
    <3>2. Line(s)' = <<h>> \o pending'[s]
      <4>1. Line(s)' = LET L == {n \in TurnsOf(s) : turn'[n] = "leaving"}
                       IN  IF L = {} THEN pending'[s] ELSE <<CHOOSE n \in L : TRUE>> \o pending'[s]
        BY DEF Line, TurnsOf
      <4>2. (CHOOSE n \in {h} : TRUE) = h
        OBVIOUS
      <4> QED BY <3>1, <4>1, <4>2
    <3>3. pending[s] \in Seq(Msg)
      BY <1>0
    <3> QED BY <1>4, <1>7, <2>0, <3>2, <3>3, PutBack
  <2>3. \A n \in Msg : Standing(n)' = Standing(n)
    BY <1>5, <1>7, <2>0 DEF Standing
  <2> QED BY <2>1, <2>2, <2>3, SameLineSteps
<1> QED BY <1>0, <1>1, <1>2, <1>6, <1>7, DrainMovesTheHead

\* One step of a queue that is still clean after it.
LEMMA OrderStep ==
  ASSUME QueueAssumption, LaneInv, AllClean, AllClean', [Next]_vars
  PROVE  WaitingLine!OrderNext \/ UNCHANGED WaitingLine!orderVars
<1> USE DEF LaneInv, WatchInv, BookInv
<1>0. /\ turn \in [Msg -> Phase] /\ trail \in [Msg -> Trail] /\ active \in [Session -> Mark]
      /\ pending \in [Session -> Seq(Msg)]
      /\ \A m \in Msg : SessionOf[m] \in Session /\ m \in TurnsOf(SessionOf[m])
      /\ Freed = active
  <2>1. \A s \in Session : active[s] # "stale"
    BY CleanFacts DEF AllClean
  <2> QED BY <2>1 DEF TypeOK, Freed, StaleKeys, QueueAssumption, TurnsOf
<1>1. ASSUME NEW m \in Msg, NEW o \in Phase, turn' = [turn EXCEPT ![m] = o],
             pending' = pending, turn[m] \notin {"leaving", "waiting", "arriving"},
             o \notin {"leaving", "waiting", "arriving"}
      PROVE  UNCHANGED WaitingLine!orderVars
  <2>1. turn'[m] = o /\ \A n \in Msg \ {m} : turn'[n] = turn[n]
    BY <1>0, <1>1
  <2>2. \A n \in Msg : turn'[n] = "leaving" <=> turn[n] = "leaving"
    BY <1>1, <2>1
  <2>3. \A s \in Session : Line(s)' = Line(s)
    BY <1>1, <2>2, SameLine DEF TurnsOf
  <2>4. \A n \in Msg : Standing(n)' = Standing(n)
    BY <1>1, <2>1 DEF Standing
  <2> QED BY <2>3, <2>4, SameLineSteps
<1>2. ASSUME NEW m \in Msg, turn' = [turn EXCEPT ![m] = HostOutcome(m)],
             turn[m] = "arriving", pending' = pending,
             m \in Slash \/ active[SessionOf[m]] = "idle"
      PROVE  WaitingLine!OrderNext
  <2>1. /\ turn'[m] \in {"failing", "answered", "steered", "accepted"}
        /\ \A n \in Msg \ {m} : turn'[n] = turn[n]
    BY <1>0, <1>2, OutcomesNeverWait
  <2>2. \A n \in Msg : turn'[n] = "leaving" <=> turn[n] = "leaving"
    BY <1>2, <2>1
  <2>3. \A s \in Session : Line(s)' = Line(s)
    BY <1>2, <2>2, SameLine DEF TurnsOf
  <2>4. /\ Standing(m) = "new" /\ Standing(m)' = "served"
        /\ \A n \in Msg \ {m} : Standing(n)' = Standing(n)
    BY <1>2, <2>1 DEF Standing
  <2>5. ASSUME m \notin Slash PROVE Line(SessionOf[m]) = <<>>
    <3>1. /\ SessionOf[m] \in Session /\ active[SessionOf[m]] = "idle"
          /\ Clean(SessionOf[m])
      BY <1>0, <1>2, <2>5 DEF AllClean
    <3>2. pending[SessionOf[m]] = <<>>
      BY <3>1, CleanFacts
    <3>3. \A n \in TurnsOf(SessionOf[m]) : turn[n] # "leaving"
      BY <3>1, CleanFacts DEF Holds
    <3> QED BY <3>1, <3>2, <3>3, LineOfClean
  <2> QED BY <1>0, <2>3, <2>4, <2>5, ServedAtOnce
<1>3. ASSUME NEW m \in Msg, Enqueue(m) PROVE WaitingLine!OrderNext
  <2> DEFINE s == SessionOf[m]
  <2>1. /\ turn[m] = "arriving" /\ turn'[m] = "waiting" /\ m \notin Slash
        /\ \A n \in Msg \ {m} : turn'[n] = turn[n]
        /\ s \in Session /\ pending[s] \in Seq(Msg)
        /\ pending'[s] = Append(pending[s], m)
        /\ \A u \in Session \ {s} : pending'[u] = pending[u]
    BY <1>0, <1>3 DEF Enqueue
  <2>2. \A n \in Msg : turn'[n] = "leaving" <=> turn[n] = "leaving"
    BY <2>1
  <2>3. \A u \in Session \ {s} : Line(u)' = Line(u)
    BY <2>1, <2>2, SameLine DEF TurnsOf
  <2>4. Line(s)' = Append(Line(s), m)
    <3>1. Clean(s) /\ Clean(s)'
      BY <2>1 DEF AllClean
    <3>2. CASE \E n \in TurnsOf(s) : turn[n] = "leaving"
      <4>1. PICK n \in TurnsOf(s) : turn[n] = "leaving"
        BY <3>2
      <4>2. Line(s) = <<n>> \o pending[s] /\ n \in Msg
        BY <2>1, <3>1, <4>1, LineOfClean DEF TurnsOf
      <4>3. {k \in TurnsOf(s) : turn'[k] = "leaving"} = {n}
        BY <2>1, <2>2, <3>1, <4>1, CleanFacts DEF InProgress, TurnsOf
      <4>4. Line(s)' = LET L == {k \in TurnsOf(s) : turn'[k] = "leaving"}
                       IN  IF L = {} THEN pending'[s] ELSE <<CHOOSE k \in L : TRUE>> \o pending'[s]
        BY DEF Line, TurnsOf
      <4>5. (CHOOSE k \in {n} : TRUE) = n
        OBVIOUS
      <4>6. Line(s)' = <<n>> \o pending'[s]
        BY <4>3, <4>4, <4>5
      <4> QED BY <2>1, <4>2, <4>6, AppendBehind
    <3>3. CASE ~\E n \in TurnsOf(s) : turn[n] = "leaving"
      <4>1. Line(s) = pending[s]
        BY <2>1, <3>1, <3>3, LineOfClean
      <4>2. {k \in TurnsOf(s) : turn'[k] = "leaving"} = {}
        BY <2>2, <3>3 DEF TurnsOf
      <4>3. Line(s)' = pending'[s]
        BY <4>2 DEF Line, TurnsOf
      <4> QED BY <2>1, <4>1, <4>3
    <3> QED BY <3>2, <3>3
  <2>5. /\ Standing(m) = "new" /\ Standing(m)' = "waiting"
        /\ \A n \in Msg \ {m} : Standing(n)' = Standing(n)
    BY <2>1 DEF Standing
  <2> QED BY <2>1, <2>3, <2>4, <2>5, StoodInLine
<1>4. ASSUME NEW m \in Msg, DispatchDrained(m) PROVE WaitingLine!OrderNext
  <2> DEFINE s == SessionOf[m]
  <2>1. /\ turn[m] = "leaving" /\ pending' = pending
        /\ turn'[m] \in {"failing", "answered", "steered", "accepted"}
        /\ \A n \in Msg \ {m} : turn'[n] = turn[n]
        /\ s \in Session /\ m \in TurnsOf(s) /\ pending[s] \in Seq(Msg)
    BY <1>0, <1>4, OutcomesNeverWait DEF DispatchDrained, HandOver
  <2>2. Clean(s) /\ Line(s) = <<m>> \o pending[s]
    BY <2>1, LineOfClean DEF AllClean
  <2>3. \A u \in Session \ {s} : Line(u)' = Line(u)
    BY <2>1, SameLine DEF TurnsOf
  <2>4. {k \in TurnsOf(s) : turn'[k] = "leaving"} = {}
    BY <2>1, <2>2, CleanFacts DEF InProgress, TurnsOf
  <2>5. Line(s)' = pending[s]
    BY <2>1, <2>4 DEF Line, TurnsOf
  <2>6. Line(s) # <<>> /\ Head(Line(s)) = m /\ Tail(Line(s)) = Line(s)'
    BY <2>1, <2>2, <2>5, TakeFirst
  <2>7. /\ Standing(m)' = "served"
        /\ \A n \in Msg \ {m} : Standing(n)' = Standing(n)
    BY <2>1 DEF Standing
  <2> QED BY <2>1, <2>3, <2>6, <2>7, HeadServed
<1>5. ASSUME UNCHANGED <<turn, pending>> PROVE UNCHANGED WaitingLine!orderVars
  <2>1. \A s \in Session : Line(s)' = Line(s)
    BY <1>5, SameLine
  <2>2. \A n \in Msg : Standing(n)' = Standing(n)
    BY <1>5 DEF Standing
  <2> QED BY <2>1, <2>2, SameLineSteps
<1>6. ASSUME NEW m \in Msg, QueueTurn(m) PROVE WaitingLine!OrderNext
  <2>1. CASE QueueSlash(m)
    BY <1>2, <2>1 DEF QueueSlash, HandOver
  <2>2. CASE DispatchNow(m)
    BY <1>0, <1>2, <2>2 DEF DispatchNow, HandOver
  <2>3. CASE Overflow(m)
    <3>1. trail'[m] = "overflow" /\ m \in TurnsOf(SessionOf[m])'
      BY <1>0, <2>3 DEF Overflow, TurnsOf
    <3>2. Clean(SessionOf[m])'
      BY <1>0 DEF AllClean
    <3> QED BY <3>1, <3>2 DEF Clean
  <2> QED BY <1>3, <1>6, <2>1, <2>2, <2>3 DEF QueueTurn
<1>7. ASSUME NEW m \in Msg, Progress(m)
      PROVE  WaitingLine!OrderNext \/ UNCHANGED WaitingLine!orderVars
  <2>1. CASE DispatchOverflow(m)
    BY <1>0, <2>1, CleanFacts DEF DispatchOverflow, AllClean
  <2>2. CASE ShowHourglass(m)
    BY <1>5, <2>2 DEF ShowHourglass
  <2>3. CASE FailDirect(m)
    BY <1>1, <2>3 DEF FailDirect, Phase
  <2>4. CASE FailDrained(m)
    <3>1. /\ [active EXCEPT ![SessionOf[m]] = "idle"] \in [Session -> Mark]
          /\ InProgress(m) /\ turn[m] # "leaving"
      BY <1>0, <2>4 DEF FailDrained, InProgress, Mark
    <3> QED BY <2>4, <3>1, DrainKeepsTheLine DEF FailDrained
  <2>5. CASE StartHook(m)
    BY <1>1, <2>5 DEF StartHook, Phase
  <2>6. CASE CompleteHook(m)
    BY <1>1, <2>6 DEF CompleteHook, Phase
  <2>7. CASE DrainSessionQueue(m)
    <3>1. InProgress(m) /\ turn[m] # "leaving"
      BY <2>7 DEF DrainSessionQueue, InProgress
    <3> QED BY <1>0, <2>7, <3>1, DrainKeepsTheLine DEF DrainSessionQueue
  <2> QED BY <1>4, <1>7, <2>1, <2>2, <2>3, <2>4, <2>5, <2>6, <2>7 DEF Progress
<1>8. ASSUME NEW s \in Session, AgeOut(s) \/ SweepStart(s) \/ SweepNext(s) PROVE FALSE
  BY <1>8, NetKeepsLane DEF AllClean
<1>9. CASE UNCHANGED vars
  BY <1>5, <1>9 DEF vars
<1> QED BY <1>6, <1>7, <1>8, <1>9 DEF Next, Sweep

\* No step forgets that a turn was queued, overflowed or answered natively.
LEMMA HistoryGrows ==
  ASSUME QueueAssumption, LaneInv, [Next]_vars, NEW n \in Msg
  PROVE  /\ WasQueued(n) => WasQueued(n)'
         /\ turn[n] = "answered" => turn'[n] = "answered"
         /\ trail[n] = "overflow" => trail'[n] = "overflow"
<1> USE DEF LaneInv, WatchInv, BookInv
<1>0. /\ turn \in [Msg -> Phase] /\ trail \in [Msg -> Trail] /\ active \in [Session -> Mark]
      /\ Freed \in [Session -> Mark]
      /\ \A m \in Msg : SessionOf[m] \in Session
      /\ turn[n] = "arriving" => trail[n] = "none"
  BY DEF TypeOK, Freed, Mark, TrailInv, QueueAssumption
<1>1. ASSUME NEW s \in Session, NEW marks \in [Session -> Mark],
             NEW phases \in [Msg -> Phase], Drain(s, marks, phases), trail' = trail,
             turn[n] = "answered" => phases[n] = "answered"
      PROVE  /\ WasQueued(n) => WasQueued(n)'
             /\ turn[n] = "answered" => turn'[n] = "answered"
             /\ trail[n] = "overflow" => trail'[n] = "overflow"
  <2>1. turn'[n] = phases[n] \/ turn[n] = "waiting"
    BY <1>1, DrainMovesTheHead DEF TurnsOf
  <2> QED BY <1>1, <2>1 DEF WasQueued
<1>2. ASSUME NEW m \in Msg, QueueTurn(m)
      PROVE  /\ WasQueued(n) => WasQueued(n)'
             /\ turn[n] = "answered" => turn'[n] = "answered"
             /\ trail[n] = "overflow" => trail'[n] = "overflow"
  BY <1>0, <1>2 DEF QueueTurn, QueueSlash, DispatchNow, Enqueue, Overflow, HandOver,
                    WasQueued
<1>3. ASSUME NEW m \in Msg, Progress(m)
      PROVE  /\ WasQueued(n) => WasQueued(n)'
             /\ turn[n] = "answered" => turn'[n] = "answered"
             /\ trail[n] = "overflow" => trail'[n] = "overflow"
  <2>1. CASE FailDrained(m)
    <3>1. /\ [active EXCEPT ![SessionOf[m]] = "idle"] \in [Session -> Mark]
          /\ [turn EXCEPT ![m] = "failed"] \in [Msg -> Phase]
          /\ turn[n] = "answered" => [turn EXCEPT ![m] = "failed"][n] = "answered"
          /\ Drain(SessionOf[m], [active EXCEPT ![SessionOf[m]] = "idle"],
                   [turn EXCEPT ![m] = "failed"])
          /\ trail' = trail
      BY <1>0, <2>1 DEF FailDrained, Mark, Phase
    <3> QED BY <1>0, <1>1, <3>1
  <2>2. CASE DrainSessionQueue(m)
    <3>1. /\ [turn EXCEPT ![m] = "done"] \in [Msg -> Phase]
          /\ turn[n] = "answered" => [turn EXCEPT ![m] = "done"][n] = "answered"
          /\ Drain(SessionOf[m], active, [turn EXCEPT ![m] = "done"])
          /\ trail' = trail
      BY <1>0, <2>2 DEF DrainSessionQueue, Phase
    <3> QED BY <1>0, <1>1, <3>1
  <2> QED BY <1>0, <1>3, <2>1, <2>2
          DEF Progress, DispatchOverflow, ShowHourglass, DispatchDrained, FailDirect,
              StartHook, CompleteHook, HandOver, WasQueued
<1>4. ASSUME NEW s \in Session, SweepStart(s) \/ SweepNext(s)
      PROVE  /\ WasQueued(n) => WasQueued(n)'
             /\ turn[n] = "answered" => turn'[n] = "answered"
             /\ trail[n] = "overflow" => trail'[n] = "overflow"
  BY <1>0, <1>1, <1>4 DEF SweepStart, SweepNext
<1>5. ASSUME (\E s \in Session : AgeOut(s)) \/ UNCHANGED vars
      PROVE  /\ WasQueued(n) => WasQueued(n)'
             /\ turn[n] = "answered" => turn'[n] = "answered"
             /\ trail[n] = "overflow" => trail'[n] = "overflow"
  BY <1>5 DEF AgeOut, vars, WasQueued
<1> QED BY <1>2, <1>3, <1>4, <1>5 DEF Next, Sweep

LEMMA OrderInitially ==
  ASSUME QueueAssumption, Init
  PROVE  WaitingLine!OrderInit
<1>1. ASSUME NEW s \in Session PROVE Line(s) = <<>>
  BY DEF Init, Line, TurnsOf
<1>2. ASSUME NEW m \in Msg PROVE Standing(m) = "new"
  BY DEF Init, Standing
<1> QED BY <1>1, <1>2 DEF WaitingLine!OrderInit

LEMMA CleanStepsKeepOrder ==
  ASSUME QueueAssumption, LaneInv, [Next]_vars, AllClean'
  PROVE  WaitingLine!OrderNext \/ UNCHANGED WaitingLine!orderVars
<1>1. AllClean
  BY HistoryGrows, CleanBefore DEF AllClean
<1> QED BY <1>1, OrderStep

\* Up to the first overflow or unreported turn, every step of the queue is a step
\* of the fair waiting line: turns of a session reach the host one by one, in
\* arrival order, and a slash command past them.
THEOREM QueueRefinesTurnOrder ==
  Spec => /\ WaitingLine!OrderInit
          /\ [][AllClean' => WaitingLine!OrderNext]_(WaitingLine!orderVars)
<1>1. Init => LaneInv /\ WaitingLine!OrderInit
  BY QueueAssumption, LaneInitially, OrderInitially
<1>2. LaneInv /\ [Next]_vars => LaneInv'
  BY QueueAssumption, LaneInductive
<1>3. LaneInv /\ [Next]_vars => [AllClean' => WaitingLine!OrderNext]_(WaitingLine!orderVars)
  BY QueueAssumption, CleanStepsKeepOrder
<1> QED BY <1>1, <1>2, <1>3, PTL DEF Spec

\* The turns a session may have at most, for one to run and the cap to hold the rest.
RoomForAll ==
  \A s \in Session : IsFiniteSet(TurnsOf(s)) /\ Cardinality(TurnsOf(s)) <= Cap + 1

\* A queue whose turns are all in TurnsOf(s) but the one that arrives and the one
\* that runs is not full.
LEMMA RoomLeft ==
  ASSUME QueueAssumption, RoomForAll, BookInv, NEW s \in Session,
         NEW m \in TurnsOf(s), turn[m] # "waiting",
         NEW n \in TurnsOf(s), turn[n] # "waiting", m # n
  PROVE  Len(pending[s]) < Cap
<1> DEFINE q == pending[s]
           others == (TurnsOf(s) \ {m}) \ {n}
<1>1. /\ q \in Seq(Msg) /\ Distinct(q) /\ Len(q) \in Nat /\ DOMAIN q = 1 .. Len(q)
      /\ Elems(q) = {k \in TurnsOf(s) : turn[k] = "waiting"}
  BY DEF BookInv, TypeOK, QueueHoldsTheWaiting
<1>2. /\ IsFiniteSet(others)
      /\ Cardinality(others) = Cardinality(TurnsOf(s)) - 2
      /\ Cardinality(TurnsOf(s)) \in Nat /\ Cardinality(others) \in Nat
  <2>1. /\ IsFiniteSet(TurnsOf(s) \ {m})
        /\ Cardinality(TurnsOf(s) \ {m}) = Cardinality(TurnsOf(s)) - 1
    BY FS_RemoveElement DEF RoomForAll
  <2>2. IsFiniteSet(others) /\ Cardinality(others) = Cardinality(TurnsOf(s) \ {m}) - 1
    BY <2>1, FS_RemoveElement
  <2>3. Cardinality(TurnsOf(s)) \in Nat /\ Cardinality(others) \in Nat
    BY <2>2, FS_CardinalityType DEF RoomForAll
  <2> HIDE DEF others
  <2> QED BY <2>1, <2>2, <2>3
<1>3. \A i \in 1 .. Len(q) : q[i] \in others
  BY <1>1 DEF Elems
<1>4. Len(q) <= Cardinality(others)
  <2> SUFFICES ASSUME Cardinality(others) < Len(q) PROVE FALSE
    BY <1>1, <1>2
  <2> DEFINE f == [i \in 1 .. Len(q) |-> q[i]]
  <2>1. IsFiniteSet(1 .. Len(q)) /\ Cardinality(1 .. Len(q)) = Len(q)
    <3>1. /\ IsFiniteSet(1 .. Len(q))
          /\ Cardinality(1 .. Len(q)) = IF 1 > Len(q) THEN 0 ELSE Len(q) - 1 + 1
      <4> DEFINE len == Len(q)
      <4>1. 1 \in Int /\ len \in Int
        BY <1>1
      <4> HIDE DEF len
      <4>2. IsFiniteSet(1 .. len) /\ Cardinality(1 .. len) = IF 1 > len THEN 0 ELSE len - 1 + 1
        BY <4>1, FS_Interval
      <4> QED BY <4>2 DEF len
    <3> QED BY <1>1, <3>1
  <2>2. f \in [1 .. Len(q) -> others]
    BY <1>3
  <2>3. \E i, j \in 1 .. Len(q) : i # j /\ f[i] = f[j]
    <3> DEFINE places == 1 .. Len(q)
    <3>1. /\ IsFiniteSet(places) /\ IsFiniteSet(others)
          /\ Cardinality(others) < Cardinality(places)
          /\ f \in [places -> others]
      BY <1>2, <2>1, <2>2
    <3> HIDE DEF others, f, places
    <3>2. \E i, j \in places : i # j /\ f[i] = f[j]
      BY <3>1, FS_PigeonHole
    <3> QED BY <3>2 DEF places
  <2> QED BY <1>1, <2>3 DEF Distinct
<1> HIDE DEF others, q
<1>5. Cardinality(TurnsOf(s)) <= Cap + 1 /\ Cap \in Nat
  BY DEF RoomForAll, QueueAssumption
<1>6. Len(q) < Cap
  BY <1>1, <1>2, <1>4, <1>5
<1> QED BY <1>6 DEF q

\* With room for all, and nothing but slash commands answered without a run, no
\* session ever stops being clean.
LEMMA StaysClean ==
  ASSUME QueueAssumption, Native = {}, RoomForAll, LaneInv, AllClean, [Next]_vars, LaneInv'
  PROVE  AllClean'
<1> USE DEF LaneInv, WatchInv, BookInv
<1>0. turn \in [Msg -> Phase] /\ trail \in [Msg -> Trail] /\ Freed \in [Session -> Mark]
  BY DEF TypeOK, Freed, Mark
<1>1. \A m \in Msg : ~(WasQueued(m)' /\ turn'[m] = "answered")
  BY DEF TrailInv
<1>2. ASSUME NEW m \in Msg, Overflow(m) PROVE FALSE
  <2> DEFINE s == SessionOf[m]
  <2>1. /\ s \in Session /\ m \in TurnsOf(s) /\ turn[m] = "arriving" /\ Clean(s)
        /\ Freed[s] # "idle" /\ Len(pending[s]) >= Cap
    BY <1>2 DEF Overflow, QueueAssumption, TurnsOf, AllClean
  <2>2. active[s] # "idle"
    BY <2>1, CleanFacts DEF Freed, StaleKeys
  <2>3. PICK n \in TurnsOf(s) : InProgress(n)
    BY <2>1, <2>2, CleanFacts DEF Runner
  <2>4. turn[n] # "waiting" /\ turn[m] # "waiting" /\ m # n
    BY <2>1, <2>3 DEF InProgress
  <2>5. Len(pending[s]) < Cap
    BY <2>1, <2>3, <2>4, RoomLeft
  <2>6. Len(pending[s]) \in Nat /\ Cap \in Nat
    BY <2>1 DEF TypeOK, QueueAssumption
  <2> QED BY <2>1, <2>5, <2>6
<1>3. ASSUME NEW n \in Msg PROVE trail'[n] # "overflow"
  <2>0. trail[n] # "overflow"
    BY DEF AllClean, Clean, QueueAssumption, TurnsOf
  <2>1. CASE \E m \in Msg : QueueTurn(m)
    BY <1>0, <1>2, <2>0, <2>1 DEF QueueTurn, QueueSlash, DispatchNow, Enqueue
  <2>2. CASE \E m \in Msg : Progress(m)
    BY <1>0, <2>0, <2>2
    DEF Progress, DispatchOverflow, ShowHourglass, DispatchDrained, FailDirect,
        FailDrained, StartHook, CompleteHook, DrainSessionQueue
  <2>3. CASE (\E s \in Session : AgeOut(s)) \/ Sweep \/ UNCHANGED vars
    BY <2>0, <2>3 DEF AgeOut, Sweep, SweepStart, SweepNext, vars
  <2> QED BY <2>1, <2>2, <2>3 DEF Next
<1> QED BY <1>1, <1>3 DEF AllClean, Clean, Reported, TurnsOf

\* When the cap has room for every turn behind the running one and the host runs
\* every turn it takes, the queue is a fair waiting line throughout, refused
\* dispatches, aged marks and the scanner included.
THEOREM RoomyQueueIsAWaitingLine ==
  ASSUME Native = {}, RoomForAll
  PROVE  Spec => WaitingLine!SafeSpec
<1> DEFINE OrderInv == LaneInv /\ AllClean
<1>1. Init => OrderInv /\ WaitingLine!OrderInit
  <2>1. Init => AllClean
    BY DEF Init, AllClean, Clean, Reported, WasQueued, TurnsOf
  <2> QED BY <2>1, QueueAssumption, LaneInitially, OrderInitially
<1>2. OrderInv /\ [Next]_vars => OrderInv'
  BY QueueAssumption, LaneInductive, StaysClean
<1>3. OrderInv /\ [Next]_vars => [WaitingLine!OrderNext]_(WaitingLine!orderVars)
  <2>1. OrderInv /\ [Next]_vars => AllClean'
    BY <1>2
  <2> QED BY <2>1, QueueAssumption, CleanStepsKeepOrder
<1> HIDE DEF OrderInv
<1> QED BY <1>1, <1>2, <1>3, PTL DEF Spec, WaitingLine!SafeSpec

=============================================================================
