---------------------------- MODULE InboundGateProofs ----------------------------
(***************************************************************************)
(* Proofs about InboundGate, for any people, topics, settings and bounds:  *)
(* the type invariant, that a reaction starts at most one turn, what the   *)
(* memory of observed chatter may hold, which windows are announced, which *)
(* follow-ups are heard, and that the rate limit is exact.                 *)
(***************************************************************************)
EXTENDS InboundGate, ReactionTriggers, FiniteSetTheorems, SequenceTheorems, TLAPS

Message == [user : Sender, place : Place, kind : Kind]

VerdictName == {"self", "limited", "dropped", "filtered", "blocked", "stopped", "in"}

-----------------------------------------------------------------------------
(* Bounds and sequences *)

LEMMA Bounds ==
  /\ MaxTime \in Nat /\ TurnLimit \in Nat
  /\ KeptLines \in Nat \ {0} /\ KeptTopics \in Nat \ {0}
  /\ Direct \notin Topic
BY GateAssumption

\* The last part of a sequence holds nothing new.
LEMMA SuffixProperties ==
  ASSUME NEW S, NEW q \in Seq(S), NEW m \in 1..(Len(q) + 1)
  PROVE  /\ SubSeq(q, m, Len(q)) \in Seq(S)
         /\ \A n \in DOMAIN SubSeq(q, m, Len(q)) : \E k \in DOMAIN q : SubSeq(q, m, Len(q))[n] = q[k]
<1>1. Len(q) \in Nat /\ DOMAIN q = 1..Len(q)
  BY LenProperties
<1>2. SubSeq(q, m, Len(q)) \in Seq(S)
  BY <1>1, SubSeqProperties
<1>3. \A n \in DOMAIN SubSeq(q, m, Len(q)) :
        n + m - 1 \in 1..Len(q) /\ SubSeq(q, m, Len(q))[n] = q[n + m - 1]
  BY <1>1
<1> QED
  BY <1>1, <1>2, <1>3

LEMMA NewestProperties ==
  ASSUME NEW S, NEW q \in Seq(S), NEW n \in Nat \ {0}
  PROVE  /\ Newest(q, n) \in Seq(S)
         /\ \A i \in DOMAIN Newest(q, n) : \E k \in DOMAIN q : Newest(q, n)[i] = q[k]
<1>1. Len(q) \in Nat
  BY LenProperties
<1>2. (IF Len(q) > n THEN Len(q) - n + 1 ELSE 1) \in 1..(Len(q) + 1)
  BY <1>1
<1> QED
  BY <1>2, SuffixProperties DEF Newest

LEMMA WithoutProperties ==
  ASSUME NEW S, NEW q \in Seq(S), NEW i \in DOMAIN q
  PROVE  /\ Without(q, i) \in Seq(S)
         /\ \A n \in DOMAIN Without(q, i) : \E k \in DOMAIN q : Without(q, i)[n] = q[k]
<1>1. Len(q) \in Nat /\ DOMAIN q = 1..Len(q) /\ i \in 1..Len(q)
  BY LenProperties
<1> DEFINE a == SubSeq(q, 1, i - 1)
           b == SubSeq(q, i + 1, Len(q))
<1>2. a \in Seq(S) /\ Len(a) = i - 1 /\ \A n \in 1..(i - 1) : a[n] = q[n]
  BY <1>1, SubSeqProperties
<1>3. b \in Seq(S) /\ Len(b) = Len(q) - i /\ \A n \in 1..(Len(q) - i) : b[n] = q[n + i]
  BY <1>1, SubSeqProperties
<1> HIDE DEF a, b
<1> DEFINE c == a \o b
<1>4. c \in Seq(S) /\ Len(c) = Len(q) - 1
  <2>1. c \in Seq(S) /\ Len(c) = Len(a) + Len(b)
    BY <1>2, <1>3, ConcatProperties
  <2> QED
    BY <1>1, <1>2, <1>3, <2>1
<1>5. \A n \in 1..(Len(q) - 1) : c[n] = IF n < i THEN q[n] ELSE q[n + 1]
  <2>1. \A n \in 1..(Len(a) + Len(b)) : c[n] = IF n <= Len(a) THEN a[n] ELSE b[n - Len(a)]
    BY <1>2, <1>3, ConcatProperties
  <2>2. ASSUME NEW n \in 1..(Len(q) - 1) PROVE c[n] = IF n < i THEN q[n] ELSE q[n + 1]
    <3>1. c[n] = IF n <= i - 1 THEN a[n] ELSE b[n - (i - 1)]
      BY <1>1, <1>2, <1>3, <2>1
    <3>2. CASE n < i
      <4>1. n \in 1..(i - 1)
        BY <1>1, <3>2
      <4> QED
        BY <1>1, <1>2, <3>1, <3>2, <4>1
    <3>3. CASE ~(n < i)
      <4>1. n - (i - 1) \in 1..(Len(q) - i) /\ n - (i - 1) + i = n + 1 /\ ~(n <= i - 1)
        BY <1>1, <3>3
      <4>2. b[n - (i - 1)] = q[n - (i - 1) + i]
        BY <1>3, <4>1
      <4> QED
        BY <3>1, <3>3, <4>1, <4>2
    <3> QED
      BY <3>2, <3>3
  <2> QED
    BY <2>2
<1> HIDE DEF c
<1>6. \A n \in DOMAIN c : \E k \in DOMAIN q : c[n] = q[k]
  <2> SUFFICES ASSUME NEW n \in 1..(Len(q) - 1) PROVE \E k \in 1..Len(q) : c[n] = q[k]
    BY <1>1, <1>4, LenProperties
  <2>1. n \in 1..Len(q) /\ n + 1 \in 1..Len(q)
    BY <1>1
  <2> QED
    BY <1>5, <2>1
<1> QED
  BY <1>4, <1>6 DEF Without, a, b, c

\* A use of t brings in t, and nothing else.
LEMMA UsedProperties ==
  ASSUME NEW S, NEW q \in Seq(S), NEW t \in S
  PROVE  /\ Used(q, t) \in Seq(S)
         /\ \A n \in DOMAIN Used(q, t) : Used(q, t)[n] = t \/ \E k \in DOMAIN q : Used(q, t)[n] = q[k]
<1> DEFINE rest == IF \E i \in DOMAIN q : q[i] = t THEN Without(q, CHOOSE i \in DOMAIN q : q[i] = t) ELSE q
           r == Append(rest, t)
<1>1. rest \in Seq(S) /\ \A n \in DOMAIN rest : \E k \in DOMAIN q : rest[n] = q[k]
  <2>1. CASE \E i \in DOMAIN q : q[i] = t
    <3> DEFINE at == CHOOSE i \in DOMAIN q : q[i] = t
    <3>1. at \in DOMAIN q /\ rest = Without(q, at)
      BY <2>1
    <3> HIDE DEF rest, at
    <3> QED
      BY <3>1, WithoutProperties
  <2>2. CASE ~\E i \in DOMAIN q : q[i] = t
    BY <2>2
  <2> QED
    BY <2>1, <2>2
<1> HIDE DEF rest
<1>2. r \in Seq(S) /\ \A n \in DOMAIN r : r[n] = t \/ \E k \in DOMAIN rest : r[n] = rest[k]
  <2>1. /\ r \in Seq(S) /\ Len(r) = Len(rest) + 1 /\ r[Len(rest) + 1] = t
        /\ \A n \in 1..Len(rest) : r[n] = rest[n]
    BY <1>1, AppendProperties
  <2>2. DOMAIN r = 1..(Len(rest) + 1) /\ DOMAIN rest = 1..Len(rest) /\ Len(rest) \in Nat
    BY <1>1, <2>1, LenProperties
  <2> QED
    BY <2>1, <2>2
<1> HIDE DEF r
<1>3. /\ Newest(r, KeptTopics) \in Seq(S)
      /\ \A n \in DOMAIN Newest(r, KeptTopics) : \E k \in DOMAIN r : Newest(r, KeptTopics)[n] = r[k]
  BY <1>2, Bounds, NewestProperties
<1>4. Used(q, t) = Newest(r, KeptTopics)
  BY DEF Used, r, rest
<1> QED
  BY <1>1, <1>2, <1>3, <1>4

-----------------------------------------------------------------------------
(* The type invariant *)

LEMMA Posted ==
  ASSUME NEW x \in Incoming
  PROVE  x \in Message
BY GateAssumption DEF IncomingShape, Message

LEMMA VerdictType ==
  ASSUME NEW m
  PROVE  Verdict(m) \in VerdictName
BY DEF Verdict, VerdictName

LEMMA PrunedType ==
  ASSUME GateTypeOK, NEW u \in Sender
  PROVE  Pruned(u) \in Seq(0..MaxTime)
<1> DEFINE q == stamps[u]
           old == {i \in DOMAIN q : q[i] + Window < clock}
<1>1. q \in Seq(0..MaxTime) /\ Len(q) \in Nat /\ DOMAIN q = 1..Len(q)
  BY LenProperties DEF GateTypeOK
<1>2. IsFiniteSet(old) /\ Cardinality(old) \in Nat /\ Cardinality(old) <= Len(q)
  <2>1. IsFiniteSet(1..Len(q)) /\ Cardinality(1..Len(q)) = Len(q)
    BY <1>1, FS_Interval
  <2>2. old \subseteq 1..Len(q)
    BY <1>1
  <2> QED
    BY <2>1, <2>2, FS_Subset, FS_CardinalityType
<1> HIDE DEF q, old
<1>3. Cardinality(old) + 1 \in 1..(Len(q) + 1)
  BY <1>1, <1>2
<1>4. SubSeq(q, Cardinality(old) + 1, Len(q)) \in Seq(0..MaxTime)
  BY <1>1, <1>3, SuffixProperties
<1> QED
  BY <1>4 DEF Pruned, WithoutFirst, q, old

\* The log grows by what is handled.
LEMMA LogGrows ==
  ASSUME GateTypeOK, NEW m \in Message, Handle(m)
  PROVE  /\ log' \in Seq(Entry) /\ Len(log) \in Nat
         /\ DOMAIN log = 1..Len(log) /\ DOMAIN log' = 1..(Len(log) + 1)
         /\ \A i \in DOMAIN log : log'[i] = log[i]
         /\ log'[Len(log) + 1].user = m.user /\ log'[Len(log) + 1].place = m.place
         /\ log'[Len(log) + 1].kind = m.kind
         /\ log'[Len(log) + 1].verdict = Verdict(m) /\ log'[Len(log) + 1].time = clock
<1> DEFINE e == [user |-> m.user, place |-> m.place, kind |-> m.kind,
                 time |-> clock, verdict |-> Verdict(m)]
<1>1. e \in Entry
  BY VerdictType DEF Entry, Message, VerdictName, GateTypeOK
<1>2. log' = Append(log, e) /\ log \in Seq(Entry)
  BY DEF Handle, GateTypeOK
<1>3. e.user = m.user /\ e.place = m.place /\ e.kind = m.kind /\ e.verdict = Verdict(m) /\ e.time = clock
  OBVIOUS
<1> HIDE DEF e
<1>4. /\ log' \in Seq(Entry) /\ Len(log') = Len(log) + 1 /\ log'[Len(log) + 1] = e
      /\ \A i \in 1..Len(log) : log'[i] = log[i]
  BY <1>1, <1>2, AppendProperties
<1>5. Len(log) \in Nat /\ DOMAIN log = 1..Len(log) /\ DOMAIN log' = 1..Len(log')
  BY <1>2, <1>4, LenProperties
<1> QED
  BY <1>3, <1>4, <1>5

LEMMA WindowTypes ==
  ASSUME GateTypeOK, NEW m \in Message, NEW verdict
  PROVE  /\ WindowsAfter(m, verdict) \in SUBSET EngagementWindow
         /\ Cleared(m) \in SUBSET EngagementWindow
<1>1. windows \in SUBSET EngagementWindow /\ clock \in 0..MaxTime
  BY DEF GateTypeOK
<1>2. \A w \in EngagementWindow : [w EXCEPT !.last = clock] \in EngagementWindow
  BY <1>1 DEF EngagementWindow
<1>3. ASSUME m.place # Direct
      PROVE  Marked(m) \in SUBSET EngagementWindow
  <2>1. m.place \in Topic /\ m.user \in Sender
    BY <1>3 DEF Message, Place
  <2>2. KeyOf(m) \in {<<t>> : t \in Topic} \cup Topic \X Sender
    BY <2>1 DEF KeyOf
  <2>3. [key |-> KeyOf(m), place |-> m.place, by |-> m.user, last |-> clock, opened |-> clock, from |-> Len(log) + 1]
          \in EngagementWindow
    BY <1>1, <2>1, <2>2, LenProperties DEF EngagementWindow, GateTypeOK
  <2> QED
    BY <1>1, <1>2, <2>3 DEF Marked
<1>4. Cleared(m) \in SUBSET EngagementWindow
  BY <1>1 DEF Cleared
<1> QED
  BY <1>1, <1>3, <1>4 DEF WindowsAfter

\* A message that is dropped was posted in a stream.
LEMMA DroppedIsInATopic ==
  ASSUME NEW m \in Message, Verdict(m) = "dropped"
  PROVE  m.place \in Topic
BY DEF Verdict, Message, Place

LEMMA ObserveTypes ==
  ASSUME GateTypeOK, NEW t \in Topic, NEW i \in Nat, Observe(t, i)
  PROVE  /\ recent' \in Seq(Topic)
         /\ lines' \in [Topic -> Seq(Nat)]
         /\ \A x \in Topic : \A n \in DOMAIN lines'[x] :
              (x = t /\ lines'[x][n] = i) \/ \E k \in DOMAIN lines[x] : lines'[x][n] = lines[x][k]
<1>1. recent' \in Seq(Topic)
  BY UsedProperties DEF Observe, GateTypeOK
<1> DEFINE q == lines[t]
           r == Append(q, i)
           new == Newest(r, KeptLines)
<1>2. \A x \in Topic : lines[x] \in Seq(Nat)
  BY DEF GateTypeOK
<1>3. r \in Seq(Nat) /\ \A n \in DOMAIN r : r[n] = i \/ \E k \in DOMAIN q : r[n] = q[k]
  <2>1. q \in Seq(Nat) /\ Len(q) \in Nat /\ DOMAIN q = 1..Len(q)
    BY <1>2, LenProperties
  <2>2. /\ r \in Seq(Nat) /\ Len(r) = Len(q) + 1 /\ r[Len(q) + 1] = i
        /\ \A n \in 1..Len(q) : r[n] = q[n]
    BY <2>1, AppendProperties
  <2>3. DOMAIN r = 1..(Len(q) + 1)
    BY <2>2, LenProperties
  <2> QED
    BY <2>1, <2>2, <2>3
<1> HIDE DEF r
<1>4. new \in Seq(Nat) /\ \A n \in DOMAIN new : \E k \in DOMAIN r : new[n] = r[k]
  BY <1>3, Bounds, NewestProperties
<1>5. \A n \in DOMAIN new : new[n] = i \/ \E k \in DOMAIN q : new[n] = q[k]
  BY <1>3, <1>4
<1>6. /\ lines' \in [Topic -> Seq(Nat) \cup {<<>>}]
      /\ lines'[t] = new
      /\ \A x \in Topic : x # t => lines'[x] = lines[x] \/ lines'[x] = <<>>
  <2> HIDE DEF new
  <2>1. lines' = [x \in Topic |-> IF x = t THEN new
                                  ELSE IF \E j \in DOMAIN recent' : recent'[j] = x THEN lines[x] ELSE <<>>]
    BY DEF Observe, new, r
  <2> QED
    BY <1>2, <1>4, <2>1
<1>7. <<>> \in Seq(Nat) /\ DOMAIN <<>> = {}
  OBVIOUS
<1> HIDE DEF new
<1>8. lines' \in [Topic -> Seq(Nat)]
  BY <1>6, <1>7
<1>9. ASSUME NEW x \in Topic, NEW n \in DOMAIN lines'[x]
      PROVE  (x = t /\ lines'[x][n] = i) \/ \E k \in DOMAIN lines[x] : lines'[x][n] = lines[x][k]
  <2>1. CASE x = t
    BY <1>5, <1>6, <1>9, <2>1
  <2>2. CASE x # t
    BY <1>6, <1>7, <1>9, <2>2
  <2> QED
    BY <2>1, <2>2
<1> QED
  BY <1>1, <1>8, <1>9

\* What one handled message changes keeps its type.
LEMMA HandleTypes ==
  ASSUME GateTypeOK, NEW m \in Message, Handle(m)
  PROVE  /\ log' \in Seq(Entry) /\ stamps' \in [Sender -> Seq(0..MaxTime)]
         /\ windows' \in SUBSET EngagementWindow /\ stopped' \in SUBSET EngagementWindow
         /\ lines' \in [Topic -> Seq(Nat)] /\ recent' \in Seq(Topic)
         /\ handlers' \in SUBSET (DOMAIN log') /\ DOMAIN log \subseteq DOMAIN log'
<1>1. log' \in Seq(Entry) /\ Len(log) \in Nat /\ DOMAIN log = 1..Len(log) /\ DOMAIN log' = 1..(Len(log) + 1)
  BY LogGrows
<1>2. stamps' \in [Sender -> Seq(0..MaxTime)]
  <2>1. m.user \in Sender /\ clock \in 0..MaxTime /\ stamps \in [Sender -> Seq(0..MaxTime)]
    BY DEF Message, GateTypeOK
  <2>2. Pruned(m.user) \in Seq(0..MaxTime) /\ Append(Pruned(m.user), clock) \in Seq(0..MaxTime)
    BY <2>1, PrunedType, AppendProperties
  <2> QED
    BY <2>1, <2>2 DEF Handle
<1>3. windows' \in SUBSET EngagementWindow
  BY WindowTypes DEF Handle
<1>4. stopped' \in SUBSET EngagementWindow
  BY WindowTypes DEF Handle, GateTypeOK
<1>5. lines' \in [Topic -> Seq(Nat)] /\ recent' \in Seq(Topic)
  <2>1. CASE Verdict(m) = "dropped" /\ Remembers(m)
    <3>1. Observe(m.place, Len(log) + 1) /\ m.place \in Topic /\ Len(log) + 1 \in Nat
      BY <1>1, <2>1, DroppedIsInATopic DEF Handle
    <3> QED
      BY <3>1, ObserveTypes
  <2>2. CASE ~(Verdict(m) = "dropped" /\ Remembers(m))
    BY <2>2 DEF Handle, GateTypeOK
  <2> QED
    BY <2>1, <2>2
<1>6. handlers' \in SUBSET (DOMAIN log')
  BY <1>1 DEF Handle, GateTypeOK
<1> QED
  BY <1>1, <1>2, <1>3, <1>4, <1>5, <1>6

LEMMA EpochType ==
  ASSUME NEW n \in Nat \ {0}
  PROVE  Epoch(n) \in Nat
<1>1. CASE TurnLimit = 0
  BY <1>1 DEF Epoch
<1>2. CASE TurnLimit # 0
  <2>1. n - 1 \in Nat /\ TurnLimit \in Nat \ {0}
    BY <1>2, Bounds
  <2>2. (n - 1) \div TurnLimit \in Nat
    BY <2>1, Z3
  <2> QED
    BY <1>2, <2>2 DEF Epoch
<1> QED
  BY <1>1, <1>2

LEMMA ProceedTypes ==
  ASSUME GateTypeOK, NEW i \in handlers, Proceed(i)
  PROVE  GateTypeOK'
<1> DEFINE m == log[i]
           Turn == [entry : DOMAIN log, quoted : Seq(Nat), session : Nat]
<1>1. i \in DOMAIN log /\ m \in Entry
  BY LenProperties DEF GateTypeOK
<1>2. addressed' \in Seq(Topic)
  <2>1. CASE m.place \in Topic
    <3>1. addressed \in Seq(Topic)
      BY DEF GateTypeOK
    <3>2. Used(addressed, m.place) \in Seq(Topic)
      BY <2>1, <3>1, UsedProperties
    <3> QED
      BY <3>1, <3>2 DEF Proceed
  <2>2. CASE m.place = Direct
    BY <2>2 DEF Proceed, GateTypeOK
  <2> QED
    BY <1>1, <2>1, <2>2 DEF Entry, Place
<1>3. counts' \in [Sender -> Nat]
  <2>1. counts \in [Sender -> Nat] /\ m.user \in Sender
    BY <1>1 DEF GateTypeOK, Entry
  <2>2. [counts EXCEPT ![m.user] = @ + 1] \in [Sender -> Nat]
    BY <2>1
  <2> QED
    BY <2>1, <2>2 DEF Proceed
<1>4. turns' \in SUBSET Turn
  <2>1. turns \in SUBSET Turn
    BY DEF GateTypeOK
  <2>2. ASSUME m.place = Direct, counts' = [counts EXCEPT ![m.user] = @ + 1]
        PROVE  [entry |-> i, quoted |-> <<>>, session |-> Epoch(counts'[m.user])] \in Turn
    <3>1. counts'[m.user] \in Nat \ {0}
      BY <1>1, <2>2 DEF GateTypeOK, Entry
    <3> QED
      BY <1>1, <3>1, EpochType
  <2>3. ASSUME m.place # Direct
        PROVE  [entry |-> i, quoted |-> Quoted(m), session |-> 0] \in Turn
    <3>1. Quoted(m) \in Seq(Nat)
      BY <1>1, <2>3 DEF Quoted, GateTypeOK, Entry, Place
    <3> QED
      BY <1>1, <3>1
  <2> HIDE DEF Turn
  <2> QED
    BY <2>1, <2>2, <2>3 DEF Proceed
<1> QED
  BY <1>2, <1>3, <1>4 DEF Proceed, GateTypeOK

\* Nothing else changes.
LEMMA HandledTypes ==
  ASSUME GateTypeOK, NEW m \in Message, Handle(m),
         UNCHANGED <<setting, clock, scan, notices, addressed, counts, turns>>
  PROVE  GateTypeOK'
<1>1. turns' \in SUBSET [entry : DOMAIN log', quoted : Seq(Nat), session : Nat]
  BY HandleTypes DEF GateTypeOK
<1> QED
  BY <1>1, HandleTypes DEF GateTypeOK

LEMMA TypesNext == GateTypeOK /\ [Next]_vars => GateTypeOK'
<1> SUFFICES ASSUME GateTypeOK, [Next]_vars PROVE GateTypeOK'
  OBVIOUS
<1>1. ASSUME NEW x \in Incoming, Arrive(x) PROVE GateTypeOK'
  BY <1>1, Posted, HandledTypes DEF Arrive
<1>2. ASSUME NEW i \in handlers, Proceed(i) PROVE GateTypeOK'
  BY <1>2, ProceedTypes
<1>3. CASE Scan
  BY <1>3 DEF GateTypeOK, Scan, Popped, Expired
<1>4. ASSUME NEW t \in Topic, Announce(t) PROVE GateTypeOK'
  BY <1>4 DEF GateTypeOK, Announce
<1>5. CASE Tick
  BY <1>5, Bounds DEF GateTypeOK, Tick
<1>6. CASE UNCHANGED vars
  BY <1>6 DEF GateTypeOK, vars
<1> QED
  BY <1>1, <1>2, <1>3, <1>4, <1>5, <1>6 DEF Next

LEMMA TypesInit == Init => GateTypeOK
<1> SUFFICES ASSUME Init PROVE GateTypeOK
  OBVIOUS
<1>1. setting \in SettingShape
  BY GateAssumption DEF Init
<1>2. DOMAIN log = {} /\ log \in Seq(Entry)
  BY DEF Init
<1>3. stamps \in [Sender -> Seq(0..MaxTime)] /\ lines \in [Topic -> Seq(Nat)] /\ counts \in [Sender -> Nat]
  BY DEF Init
<1>4. recent \in Seq(Topic) /\ addressed \in Seq(Topic)
  BY DEF Init
<1> QED
  BY <1>1, <1>2, <1>3, <1>4, Bounds DEF Init, GateTypeOK

\* The gates' state has its shape, whatever arrives.
THEOREM GateTypes == Spec => []GateTypeOK
BY TypesInit, TypesNext, PTL DEF Spec

-----------------------------------------------------------------------------
(* Reactions *)

\* No tap of the same reaction came, and left its mark, in the life of a claim before.
Spaced(j) ==
  \A i \in 1..(j - 1) : SameReaction(i, j) /\ i \notin lost => taps[j].at >= taps[i].at + ClaimTTL

\* What is in the store or in its file was put there by a tap.
MarksAreOfTaps(marks) ==
  \A r \in Reaction : marks[r] # 0 => \E i \in DOMAIN taps : taps[i].of = r /\ taps[i].at = marks[r]

\* A tap whose mark is not lost is in the store, or has run out.
MarksAreKept ==
  \A i \in DOMAIN taps : i \notin lost => cache[taps[i].of] >= taps[i].at \/ taps[i].at + ClaimTTL < now

MarksAreOnTime == \A r \in Reaction : cache[r] <= now /\ disk[r] <= now

IgnoredWereSeen ==
  \A j \in DOMAIN taps : taps[j].seen =>
    \E i \in 1..(j - 1) : SameReaction(i, j) /\ taps[j].at < taps[i].at + ClaimTTL

TriggerInv ==
  /\ TriggerTypeOK /\ MarksAreOfTaps(cache) /\ MarksAreOfTaps(disk) /\ MarksAreKept /\ MarksAreOnTime
  /\ \A j \in looking \cup fired : Spaced(j)
  /\ IgnoredWereSeen

LEMMA TapTypes ==
  ASSUME TriggerTypeOK
  PROVE  \A i \in DOMAIN taps : taps[i].of \in Reaction /\ taps[i].at \in Nat \ {0}
<1> SUFFICES ASSUME NEW i \in DOMAIN taps PROVE taps[i].of \in Reaction /\ taps[i].at \in Nat \ {0}
  OBVIOUS
<1> DEFINE S == [of : Reaction, at : Nat \ {0}, seen : BOOLEAN]
<1>1. taps \in Seq(S)
  BY DEF TriggerTypeOK
<1> HIDE DEF S
<1>2. taps[i] \in S
  BY <1>1, ElementOfSeq, LenProperties
<1> QED
  BY <1>2 DEF S

LEMMA TapsGrow ==
  ASSUME TriggerTypeOK, NEW r \in Reaction, NEW seen \in BOOLEAN, taps' = Tapped(r, seen)
  PROVE  /\ taps' \in Seq([of : Reaction, at : Nat \ {0}, seen : BOOLEAN])
         /\ Len(taps) \in Nat /\ DOMAIN taps = 1..Len(taps) /\ DOMAIN taps' = 1..(Len(taps) + 1)
         /\ \A i \in DOMAIN taps : taps'[i] = taps[i]
         /\ taps'[Len(taps) + 1] = [of |-> r, at |-> now, seen |-> seen]
<1> DEFINE S == [of : Reaction, at : Nat \ {0}, seen : BOOLEAN]
           e == [of |-> r, at |-> now, seen |-> seen]
<1>1. e \in S /\ taps \in Seq(S) /\ taps' = Append(taps, e)
  BY DEF Tapped, TriggerTypeOK
<1> HIDE DEF S, e
<1>2. /\ taps' \in Seq(S) /\ Len(taps') = Len(taps) + 1 /\ taps'[Len(taps) + 1] = e
      /\ \A i \in 1..Len(taps) : taps'[i] = taps[i]
  BY <1>1, AppendProperties
<1>3. Len(taps) \in Nat /\ DOMAIN taps = 1..Len(taps) /\ DOMAIN taps' = 1..Len(taps')
  BY <1>1, <1>2, LenProperties
<1> QED
  BY <1>2, <1>3 DEF S, e

\* What a tap was before holds of it still.
LEMMA TapKeepsTheOldOnes ==
  ASSUME TriggerInv, NEW r \in Reaction, NEW seen \in BOOLEAN, taps' = Tapped(r, seen), lost' = lost
  PROVE  /\ \A j \in DOMAIN taps : Spaced(j) => Spaced(j)'
         /\ MarksAreOfTaps(disk)' \/ disk' # disk
         /\ \A j \in DOMAIN taps : taps'[j].seen =>
              \E i \in 1..(j - 1) : SameReaction(i, j)' /\ taps'[j].at < taps'[i].at + ClaimTTL
<1>1. /\ Len(taps) \in Nat /\ DOMAIN taps = 1..Len(taps) /\ DOMAIN taps' = 1..(Len(taps) + 1)
      /\ \A i \in DOMAIN taps : taps'[i] = taps[i]
  BY TapsGrow DEF TriggerInv
<1>2. \A j \in DOMAIN taps : \A i \in 1..(j - 1) : i \in DOMAIN taps
  BY <1>1
<1>3. \A j \in DOMAIN taps : Spaced(j) => Spaced(j)'
  BY <1>1, <1>2 DEF Spaced, SameReaction
<1>4. MarksAreOfTaps(disk)' \/ disk' # disk
  BY <1>1 DEF TriggerInv, MarksAreOfTaps
<1>5. \A j \in DOMAIN taps : taps'[j].seen =>
         \E i \in 1..(j - 1) : SameReaction(i, j)' /\ taps'[j].at < taps'[i].at + ClaimTTL
  <2> SUFFICES ASSUME NEW j \in DOMAIN taps, taps[j].seen
               PROVE  \E i \in 1..(j - 1) : SameReaction(i, j)' /\ taps'[j].at < taps'[i].at + ClaimTTL
    BY <1>1
  <2>1. PICK i \in 1..(j - 1) : SameReaction(i, j) /\ taps[j].at < taps[i].at + ClaimTTL
    BY DEF TriggerInv, IgnoredWereSeen
  <2> QED
    BY <1>1, <1>2, <2>1 DEF SameReaction
<1> QED
  BY <1>3, <1>4, <1>5

LEMMA TapFirstKeeps ==
  ASSUME TriggerInv, NEW r \in Reaction, TapFirst(r)
  PROVE  TriggerInv'
<1>1. PICK l : l = Len(taps) + 1
  OBVIOUS
<1>2. /\ taps' \in Seq([of : Reaction, at : Nat \ {0}, seen : BOOLEAN])
      /\ l \in Nat \ {0} /\ DOMAIN taps = 1..(l - 1) /\ DOMAIN taps' = 1..l
      /\ \A i \in DOMAIN taps : taps'[i] = taps[i]
      /\ taps'[l].of = r /\ taps'[l].at = now /\ taps'[l].seen = FALSE
  <2>1. /\ taps' \in Seq([of : Reaction, at : Nat \ {0}, seen : BOOLEAN])
        /\ Len(taps) \in Nat /\ DOMAIN taps = 1..Len(taps) /\ DOMAIN taps' = 1..(Len(taps) + 1)
        /\ \A i \in DOMAIN taps : taps'[i] = taps[i]
        /\ taps'[Len(taps) + 1] = [of |-> r, at |-> now, seen |-> FALSE]
    BY TapsGrow DEF TapFirst, TriggerInv
  <2> QED
    BY <1>1, <2>1
<1>3. TriggerTypeOK /\ now \in Nat \ {0} /\ ClaimTTL \in Nat \ {0}
  BY TriggerAssumption DEF TriggerInv, TriggerTypeOK
<1>4. \A i \in DOMAIN taps : taps[i].of \in Reaction /\ taps[i].at \in Nat \ {0}
  BY <1>3, TapTypes
<1>5. /\ \A x \in Reaction : cache'[x] = IF x = r THEN now ELSE IF cache[x] + ClaimTTL < now THEN 0 ELSE cache[x]
      /\ cache \in [Reaction -> Nat] /\ cache' \in [Reaction -> Nat]
  BY <1>3 DEF TapFirst, Claimed, TriggerTypeOK
<1>6. looking' = looking \cup {l} /\ UNCHANGED <<now, disk, fired, lost>>
  BY <1>1 DEF TapFirst
<1>7. TriggerTypeOK'
  BY <1>2, <1>3, <1>5, <1>6 DEF TriggerTypeOK
<1>8. /\ \A j \in DOMAIN taps : Spaced(j) => Spaced(j)'
      /\ MarksAreOfTaps(disk)'
      /\ \A j \in DOMAIN taps : taps'[j].seen =>
           \E i \in 1..(j - 1) : SameReaction(i, j)' /\ taps'[j].at < taps'[i].at + ClaimTTL
  BY <1>6, TapKeepsTheOldOnes DEF TapFirst
<1>9. MarksAreOfTaps(cache)'
  <2> SUFFICES ASSUME NEW x \in Reaction, cache'[x] # 0
               PROVE  \E i \in DOMAIN taps' : taps'[i].of = x /\ taps'[i].at = cache'[x]
    BY DEF MarksAreOfTaps
  <2>1. CASE x = r
    <3>1. l \in DOMAIN taps' /\ cache'[x] = now
      BY <1>2, <1>5, <2>1
    <3> QED
      BY <1>2, <2>1, <3>1
  <2>2. CASE x # r
    <3>1. cache[x] # 0 /\ cache'[x] = cache[x]
      BY <1>5, <2>2
    <3>2. PICK i \in DOMAIN taps : taps[i].of = x /\ taps[i].at = cache[x]
      BY <3>1 DEF TriggerInv, MarksAreOfTaps
    <3> QED
      BY <1>2, <3>1, <3>2
  <2> QED
    BY <2>1, <2>2
<1>10. MarksAreKept'
  <2> SUFFICES ASSUME NEW i \in DOMAIN taps', i \notin lost
               PROVE  cache'[taps'[i].of] >= taps'[i].at \/ taps'[i].at + ClaimTTL < now
    BY <1>6 DEF MarksAreKept
  <2>1. CASE i = l
    BY <1>2, <1>3, <1>5, <2>1
  <2>2. CASE i \in DOMAIN taps
    <3>1. cache[taps[i].of] >= taps[i].at \/ taps[i].at + ClaimTTL < now
      BY <2>2 DEF TriggerInv, MarksAreKept
    <3>2. taps'[i] = taps[i] /\ taps[i].of \in Reaction /\ taps[i].at \in Nat
      BY <1>2, <1>4, <2>2
    <3>3. CASE taps[i].of = r
      <4>1. ~(now < cache[r] + ClaimTTL) \/ cache[r] = 0
        BY DEF TapFirst, Seen
      <4>2. cache[r] \in Nat /\ cache'[r] = now
        BY <1>5
      <4>3. now >= taps[i].at
        BY <1>3, <1>4, <2>2, <3>1, <3>3, <4>1, <4>2
      <4> QED
        BY <3>2, <3>3, <4>2, <4>3
    <3>4. CASE taps[i].of # r
      <4>1. PICK c : c = cache[taps[i].of]
        OBVIOUS
      <4>2. c \in Nat /\ cache'[taps[i].of] = IF c + ClaimTTL < now THEN 0 ELSE c
        BY <1>5, <3>2, <3>4, <4>1
      <4> QED
        BY <1>3, <3>1, <3>2, <4>1, <4>2
    <3> QED
      BY <3>3, <3>4
  <2> QED
    BY <1>2, <2>1, <2>2
<1>11. Spaced(l)'
  <2> SUFFICES ASSUME NEW i \in 1..(l - 1), taps[i].of = r, i \notin lost PROVE now >= taps[i].at + ClaimTTL
    BY <1>2, <1>6 DEF Spaced, SameReaction
  <2>1. cache[r] >= taps[i].at \/ taps[i].at + ClaimTTL < now
    BY <1>2 DEF TriggerInv, MarksAreKept
  <2>2. ~(now < cache[r] + ClaimTTL) \/ cache[r] = 0
    BY DEF TapFirst, Seen
  <2>3. cache[r] \in Nat /\ taps[i].at \in Nat \ {0}
    BY <1>2, <1>4, <1>5
  <2> QED
    BY <1>3, <2>1, <2>2, <2>3
<1>12. \A j \in looking' \cup fired' : Spaced(j)'
  BY <1>6, <1>8, <1>11 DEF TriggerInv, TriggerTypeOK
<1>13. IgnoredWereSeen'
  BY <1>2, <1>8 DEF IgnoredWereSeen
<1>14. MarksAreOnTime'
  BY <1>3, <1>5, <1>6 DEF TriggerInv, MarksAreOnTime
<1> QED
  BY <1>7, <1>8, <1>9, <1>10, <1>12, <1>13, <1>14 DEF TriggerInv

LEMMA TapAgainKeeps ==
  ASSUME TriggerInv, NEW r \in Reaction, TapAgain(r)
  PROVE  TriggerInv'
<1>1. PICK l : l = Len(taps) + 1
  OBVIOUS
<1>2. /\ taps' \in Seq([of : Reaction, at : Nat \ {0}, seen : BOOLEAN])
      /\ l \in Nat \ {0} /\ DOMAIN taps = 1..(l - 1) /\ DOMAIN taps' = 1..l
      /\ \A i \in DOMAIN taps : taps'[i] = taps[i]
      /\ taps'[l].of = r /\ taps'[l].at = now
  <2>1. /\ taps' \in Seq([of : Reaction, at : Nat \ {0}, seen : BOOLEAN])
        /\ Len(taps) \in Nat /\ DOMAIN taps = 1..Len(taps) /\ DOMAIN taps' = 1..(Len(taps) + 1)
        /\ \A i \in DOMAIN taps : taps'[i] = taps[i]
        /\ taps'[Len(taps) + 1] = [of |-> r, at |-> now, seen |-> TRUE]
    BY TapsGrow DEF TapAgain, TriggerInv
  <2> QED
    BY <1>1, <2>1
<1>3. TriggerTypeOK /\ now \in Nat \ {0} /\ ClaimTTL \in Nat \ {0}
  BY TriggerAssumption DEF TriggerInv, TriggerTypeOK
<1>4. \A i \in DOMAIN taps : taps[i].of \in Reaction /\ taps[i].at \in Nat \ {0}
  BY <1>3, TapTypes
<1>5. /\ \A x \in Reaction : cache'[x] = IF x = r THEN now ELSE cache[x]
      /\ cache \in [Reaction -> Nat] /\ cache' \in [Reaction -> Nat]
  BY <1>3 DEF TapAgain, Touched, TriggerTypeOK
<1>6. UNCHANGED <<now, disk, looking, fired, lost>>
  BY DEF TapAgain
<1>7. TriggerTypeOK'
  BY <1>2, <1>3, <1>5, <1>6 DEF TriggerTypeOK
<1>8. /\ \A j \in DOMAIN taps : Spaced(j) => Spaced(j)'
      /\ MarksAreOfTaps(disk)'
      /\ \A j \in DOMAIN taps : taps'[j].seen =>
           \E i \in 1..(j - 1) : SameReaction(i, j)' /\ taps'[j].at < taps'[i].at + ClaimTTL
  BY <1>6, TapKeepsTheOldOnes DEF TapAgain
<1>9. MarksAreOfTaps(cache)'
  <2> SUFFICES ASSUME NEW x \in Reaction, cache'[x] # 0
               PROVE  \E i \in DOMAIN taps' : taps'[i].of = x /\ taps'[i].at = cache'[x]
    BY DEF MarksAreOfTaps
  <2>1. CASE x = r
    <3>1. l \in DOMAIN taps' /\ cache'[x] = now
      BY <1>2, <1>5, <2>1
    <3> QED
      BY <1>2, <2>1, <3>1
  <2>2. CASE x # r
    <3>1. cache[x] # 0 /\ cache'[x] = cache[x]
      BY <1>5, <2>2
    <3>2. PICK i \in DOMAIN taps : taps[i].of = x /\ taps[i].at = cache[x]
      BY <3>1 DEF TriggerInv, MarksAreOfTaps
    <3> QED
      BY <1>2, <3>1, <3>2
  <2> QED
    BY <2>1, <2>2
<1>10. MarksAreOnTime'
  BY <1>3, <1>5, <1>6 DEF TriggerInv, MarksAreOnTime
<1>11. MarksAreKept'
  <2> SUFFICES ASSUME NEW i \in DOMAIN taps', i \notin lost
               PROVE  cache'[taps'[i].of] >= taps'[i].at \/ taps'[i].at + ClaimTTL < now
    BY <1>6 DEF MarksAreKept
  <2>1. CASE i = l
    BY <1>2, <1>3, <1>5, <2>1
  <2>2. CASE i \in DOMAIN taps
    <3>1. cache[taps[i].of] >= taps[i].at \/ taps[i].at + ClaimTTL < now
      BY <2>2 DEF TriggerInv, MarksAreKept
    <3>2. taps'[i] = taps[i] /\ taps[i].of \in Reaction /\ taps[i].at \in Nat
      BY <1>2, <1>4, <2>2
    <3>3. CASE taps[i].of = r
      <4>1. cache[r] <= now
        BY <1>3 DEF TriggerInv, MarksAreOnTime
      <4> QED
        BY <1>3, <1>5, <3>1, <3>2, <3>3, <4>1
    <3>4. CASE taps[i].of # r
      BY <1>5, <3>1, <3>2, <3>4
    <3> QED
      BY <3>3, <3>4
  <2> QED
    BY <1>2, <2>1, <2>2
<1>12. \A j \in looking' \cup fired' : Spaced(j)'
  BY <1>6, <1>8 DEF TriggerInv, TriggerTypeOK
<1>13. IgnoredWereSeen'
  <2>1. PICK i \in DOMAIN taps : taps[i].of = r /\ taps[i].at = cache[r]
    BY DEF TapAgain, Seen, TriggerInv, MarksAreOfTaps
  <2>2. now < taps[i].at + ClaimTTL
    BY <2>1 DEF TapAgain, Seen
  <2>3. i \in 1..(l - 1) /\ SameReaction(i, l)' /\ taps'[l].at < taps'[i].at + ClaimTTL
    BY <1>2, <2>1, <2>2 DEF SameReaction
  <2> QED
    BY <1>2, <1>8, <2>3 DEF IgnoredWereSeen
<1> QED
  BY <1>7, <1>8, <1>9, <1>10, <1>11, <1>12, <1>13 DEF TriggerInv

\* A mark may be lost, if that is noted.
LEMMA LosingKeeps ==
  ASSUME TriggerInv, TriggerTypeOK', taps' = taps, now' = now, disk' = disk, lost \subseteq lost',
         looking' \subseteq looking, fired' = fired, MarksAreKept', MarksAreOfTaps(cache)', MarksAreOnTime'
  PROVE  TriggerInv'
<1>1. \A j : Spaced(j) => Spaced(j)'
  BY DEF Spaced, SameReaction
<1>2. MarksAreOfTaps(disk)' /\ IgnoredWereSeen'
  BY DEF TriggerInv, MarksAreOfTaps, IgnoredWereSeen, SameReaction
<1> QED
  BY <1>1, <1>2 DEF TriggerInv

LEMMA PushedOutKeeps ==
  ASSUME TriggerInv, NEW r \in Reaction, PushedOut(r)
  PROVE  TriggerInv'
<1>1. TriggerTypeOK /\ cache \in [Reaction -> Nat] /\ now \in Nat
  BY DEF TriggerInv, TriggerTypeOK
<1>2. \A x \in Reaction : cache'[x] = IF x = r THEN 0 ELSE cache[x]
  BY <1>1 DEF PushedOut
<1>3. TriggerTypeOK'
  BY <1>1 DEF PushedOut, TriggerTypeOK
<1>4. \A i \in DOMAIN taps : taps[i].of \in Reaction
  BY <1>1, TapTypes
<1>5. MarksAreKept'
  BY <1>2, <1>4 DEF PushedOut, TriggerInv, MarksAreKept
<1>6. MarksAreOfTaps(cache)'
  BY <1>2 DEF PushedOut, TriggerInv, MarksAreOfTaps
<1>7. MarksAreOnTime'
  BY <1>1, <1>2 DEF PushedOut, TriggerInv, MarksAreOnTime
<1> QED
  BY <1>3, <1>5, <1>6, <1>7, LosingKeeps DEF PushedOut

LEMMA RestartKeeps ==
  ASSUME TriggerInv, Restart
  PROVE  TriggerInv'
<1>1. TriggerTypeOK /\ cache' = disk /\ disk' = disk /\ taps' = taps /\ now' = now
  BY DEF TriggerInv, Restart
<1>2. TriggerTypeOK'
  BY <1>1 DEF Restart, TriggerTypeOK
<1>3. \A i \in DOMAIN taps : taps[i].of \in Reaction /\ taps[i].at \in Nat
  BY <1>1, TapTypes
<1>4. MarksAreKept'
  <2> SUFFICES ASSUME NEW i \in DOMAIN taps, ~(disk[taps[i].of] < taps[i].at) PROVE disk[taps[i].of] >= taps[i].at
    BY <1>1 DEF Restart, MarksAreKept
  <2>1. disk[taps[i].of] \in Nat /\ taps[i].at \in Nat
    BY <1>1, <1>3 DEF TriggerTypeOK
  <2> QED
    BY <2>1
<1>5. MarksAreOfTaps(cache)' /\ MarksAreOnTime'
  BY <1>1 DEF TriggerInv, MarksAreOfTaps, MarksAreOnTime
<1> QED
  BY <1>1, <1>2, <1>4, <1>5, LosingKeeps DEF Restart

LEMMA LaterKeeps ==
  ASSUME TriggerInv, Later
  PROVE  TriggerInv'
<1>1. TriggerTypeOK /\ now \in Nat \ {0} /\ now' = now + 1 /\ UNCHANGED <<cache, disk, taps, looking, fired, lost>>
  BY DEF TriggerInv, TriggerTypeOK, Later
<1>2. TriggerTypeOK'
  BY <1>1 DEF TriggerTypeOK
<1>3. \A i \in DOMAIN taps : taps[i].at \in Nat
  BY <1>1, TapTypes
<1>4. MarksAreKept'
  <2> SUFFICES ASSUME NEW i \in DOMAIN taps, i \notin lost
               PROVE  cache[taps[i].of] >= taps[i].at \/ taps[i].at + ClaimTTL < now + 1
    BY <1>1 DEF MarksAreKept
  <2>1. cache[taps[i].of] >= taps[i].at \/ taps[i].at + ClaimTTL < now
    BY DEF TriggerInv, MarksAreKept
  <2>2. taps[i].at \in Nat /\ ClaimTTL \in Nat
    BY <1>3, TriggerAssumption
  <2> QED
    BY <1>1, <2>1, <2>2
<1>5. MarksAreOnTime'
  <2>1. \A r \in Reaction : cache[r] \in Nat /\ disk[r] \in Nat
    BY <1>1 DEF TriggerTypeOK
  <2> QED
    BY <1>1, <2>1 DEF TriggerInv, MarksAreOnTime
<1>6. \A j : Spaced(j) => Spaced(j)'
  BY <1>1 DEF Spaced, SameReaction
<1>7. MarksAreOfTaps(cache)' /\ MarksAreOfTaps(disk)' /\ IgnoredWereSeen'
  BY <1>1 DEF TriggerInv, MarksAreOfTaps, IgnoredWereSeen, SameReaction
<1> QED
  BY <1>1, <1>2, <1>4, <1>5, <1>6, <1>7 DEF TriggerInv

LEMMA SaveReactionsKeeps ==
  ASSUME TriggerInv, SaveReactions
  PROVE  TriggerInv'
<1>1. TriggerTypeOK /\ disk' = cache /\ UNCHANGED <<now, cache, taps, looking, fired, lost>>
  BY DEF TriggerInv, SaveReactions
<1>2. TriggerTypeOK' /\ MarksAreOnTime' /\ MarksAreKept'
  BY <1>1 DEF TriggerInv, TriggerTypeOK, MarksAreOnTime, MarksAreKept
<1>3. MarksAreOfTaps(cache)' /\ MarksAreOfTaps(disk)' /\ IgnoredWereSeen'
  BY <1>1 DEF TriggerInv, MarksAreOfTaps, IgnoredWereSeen, SameReaction
<1>4. \A j : Spaced(j) => Spaced(j)'
  BY <1>1 DEF Spaced, SameReaction
<1> QED
  BY <1>1, <1>2, <1>3, <1>4 DEF TriggerInv

LEMMA HandlingKeeps ==
  ASSUME TriggerInv, NEW i \in looking, DropTap(i) \/ Fire(i)
  PROVE  TriggerInv'
<1>1. /\ TriggerTypeOK /\ UNCHANGED <<now, cache, disk, taps, lost>>
      /\ looking' \subseteq looking /\ fired' \subseteq fired \cup looking
  BY DEF TriggerInv, DropTap, Fire
<1>2. TriggerTypeOK' /\ MarksAreOnTime' /\ MarksAreKept'
  BY <1>1 DEF TriggerInv, TriggerTypeOK, MarksAreOnTime, MarksAreKept
<1>3. MarksAreOfTaps(cache)' /\ MarksAreOfTaps(disk)' /\ IgnoredWereSeen'
  BY <1>1 DEF TriggerInv, MarksAreOfTaps, IgnoredWereSeen, SameReaction
<1>4. \A j : Spaced(j) => Spaced(j)'
  BY <1>1 DEF Spaced, SameReaction
<1>5. \A j \in looking' \cup fired' : Spaced(j)'
  BY <1>1, <1>4 DEF TriggerInv
<1> QED
  BY <1>2, <1>3, <1>5 DEF TriggerInv

\* adapter.py:2076, dedupe_store.py:116 and 121: whatever taps, replays, restarts, saves
\* that come late and entries pushed out there are, a reaction starts a turn only if
\* it was not tapped for the life of a claim before, but for taps of which the store
\* lost the mark; and a tap is ignored only for one that came within that time.
THEOREM ReactionsRunOnce == TriggerSpec => []OneTurnPerReaction
<1>1. TriggerInit => TriggerInv
  <2> SUFFICES ASSUME TriggerInit PROVE TriggerInv
    OBVIOUS
  <2>1. taps = <<>> /\ DOMAIN taps = {} /\ now = 1 /\ looking = {} /\ fired = {} /\ lost = {}
    BY DEF TriggerInit
  <2>2. \A r \in Reaction : cache[r] = 0 /\ disk[r] = 0
    BY DEF TriggerInit
  <2>3. TriggerTypeOK
    BY DEF TriggerInit, TriggerTypeOK
  <2> QED
    BY <2>1, <2>2, <2>3 DEF TriggerInv, MarksAreOfTaps, MarksAreKept, MarksAreOnTime, IgnoredWereSeen
<1>2. TriggerInv /\ [TriggerNext]_triggerVars => TriggerInv'
  <2> SUFFICES ASSUME TriggerInv, [TriggerNext]_triggerVars PROVE TriggerInv'
    OBVIOUS
  <2>1. ASSUME NEW r \in Reaction, TapFirst(r) PROVE TriggerInv'
    BY <2>1, TapFirstKeeps
  <2>2. ASSUME NEW r \in Reaction, TapAgain(r) PROVE TriggerInv'
    BY <2>2, TapAgainKeeps
  <2>3. ASSUME NEW r \in Reaction, PushedOut(r) PROVE TriggerInv'
    BY <2>3, PushedOutKeeps
  <2>4. ASSUME NEW i \in looking, DropTap(i) \/ Fire(i) PROVE TriggerInv'
    BY <2>4, HandlingKeeps
  <2>5. CASE UNCHANGED triggerVars
    BY <2>5 DEF triggerVars, TriggerInv, TriggerTypeOK, MarksAreOfTaps, MarksAreKept, MarksAreOnTime,
                IgnoredWereSeen, Spaced, SameReaction
  <2> QED
    BY <2>1, <2>2, <2>3, <2>4, <2>5, SaveReactionsKeeps, RestartKeeps, LaterKeeps DEF TriggerNext
<1>3. TriggerInv => OneTurnPerReaction
  BY DEF TriggerInv, OneTurnPerReaction, Spaced, IgnoredWereSeen
<1> QED
  BY <1>1, <1>2, <1>3, PTL DEF TriggerSpec

-----------------------------------------------------------------------------
(* Memory *)

\* Handlers past the gate were let in.
HandlersWereLetIn == \A i \in handlers : log[i].verdict = "in"

\* Rememberable, of an entry of the log l.
RememberableIn(l, i, t) ==
  /\ l[i].place = t /\ l[i].verdict = "dropped"
  /\ setting.observe = "conversation" =>
       \E k \in 1..(i - 1) : l[k].place = t /\ l[k].kind = "mention" /\ l[k].verdict = "in"

LetInByAddress(k, t) == log[k].place = t /\ log[k].kind = "mention" /\ log[k].verdict = "in"

\* A tracked topic is one where an address was let in.
TrackedWereAddressed == \A n \in DOMAIN addressed : \E k \in DOMAIN log : LetInByAddress(k, addressed[n])

\* What is remembered or quoted did arrive.
MemoryIsOfTheLog ==
  /\ \A t \in Topic : \A n \in DOMAIN lines[t] : lines[t][n] \in DOMAIN log
  /\ \A x \in turns : \A n \in DOMAIN x.quoted : x.quoted[n] \in DOMAIN log

MemoryInv ==
  GateTypeOK /\ HandlersWereLetIn /\ TrackedWereAddressed /\ MemoryIsOfTheLog /\ OnlyConversationsAreRemembered

\* An entry of the log stays rememberable.
LEMMA RememberableStays ==
  ASSUME GateTypeOK, NEW m \in Message, Handle(m), setting' = setting,
         NEW i \in DOMAIN log, NEW t, RememberableIn(log, i, t)
  PROVE  RememberableIn(log', i, t) /\ i \in DOMAIN log'
<1>1. /\ Len(log) \in Nat /\ DOMAIN log = 1..Len(log) /\ DOMAIN log' = 1..(Len(log) + 1)
      /\ \A k \in DOMAIN log : log'[k] = log[k]
  BY LogGrows
<1>2. i \in 1..Len(log) /\ \A k \in 1..(i - 1) : k \in 1..Len(log)
  BY <1>1
<1> QED
  BY <1>1, <1>2 DEF RememberableIn

\* What is observed may be remembered.
LEMMA ObservedMayBeRemembered ==
  ASSUME MemoryInv, NEW m \in Message, Handle(m), setting' = setting, Verdict(m) = "dropped", Remembers(m)
  PROVE  RememberableIn(log', Len(log) + 1, m.place)
<1> DEFINE l == Len(log) + 1
<1>1. /\ l \in Nat \ {0} /\ DOMAIN log = 1..(l - 1)
      /\ \A k \in DOMAIN log : log'[k] = log[k]
      /\ log'[l].place = m.place /\ log'[l].verdict = "dropped"
  BY LogGrows DEF MemoryInv
<1> HIDE DEF l
<1>2. ASSUME setting.observe = "conversation"
      PROVE  \E k \in 1..(l - 1) : log'[k].place = m.place /\ log'[k].kind = "mention" /\ log'[k].verdict = "in"
  <2>1. PICK n \in DOMAIN addressed : addressed[n] = m.place
    BY <1>2 DEF Remembers
  <2>2. PICK k \in DOMAIN log : LetInByAddress(k, m.place)
    BY <2>1 DEF MemoryInv, TrackedWereAddressed
  <2> QED
    BY <1>1, <2>2 DEF LetInByAddress
<1>3. RememberableIn(log', l, m.place)
  BY <1>1, <1>2 DEF RememberableIn
<1> QED
  BY <1>3 DEF l

LEMMA HandleKeepsMemory ==
  ASSUME MemoryInv, NEW m \in Message, Handle(m), UNCHANGED <<setting, addressed, turns>>
  PROVE  HandlersWereLetIn' /\ TrackedWereAddressed' /\ MemoryIsOfTheLog' /\ OnlyConversationsAreRemembered'
<1> DEFINE l == Len(log) + 1
<1>1. /\ l \in Nat \ {0} /\ DOMAIN log = 1..(l - 1) /\ DOMAIN log' = 1..l
      /\ \A k \in DOMAIN log : log'[k] = log[k]
      /\ log'[l].verdict = Verdict(m)
  BY LogGrows DEF MemoryInv
<1>2. HandlersWereLetIn'
  <2>1. handlers \subseteq DOMAIN log
    BY DEF MemoryInv, GateTypeOK
  <2>2. handlers' = IF Verdict(m) = "in" THEN handlers \cup {l} ELSE handlers
    BY DEF Handle
  <2> QED
    BY <1>1, <2>1, <2>2 DEF MemoryInv, HandlersWereLetIn
<1>3. TrackedWereAddressed'
  BY <1>1 DEF MemoryInv, TrackedWereAddressed, LetInByAddress
<1>4. ASSUME NEW i \in DOMAIN log, NEW t, RememberableIn(log, i, t) PROVE RememberableIn(log', i, t) /\ i \in DOMAIN log'
  BY <1>4, RememberableStays DEF MemoryInv
<1>5. ASSUME NEW t \in Topic, NEW n \in DOMAIN lines'[t]
      PROVE  lines'[t][n] \in DOMAIN log' /\ RememberableIn(log', lines'[t][n], t)
  <2>1. CASE \E k \in DOMAIN lines[t] : lines'[t][n] = lines[t][k]
    <3>1. PICK k \in DOMAIN lines[t] : lines'[t][n] = lines[t][k]
      BY <2>1
    <3>2. lines[t][k] \in DOMAIN log /\ RememberableIn(log, lines[t][k], t)
      BY <3>1 DEF RememberableIn, Rememberable, MemoryInv, MemoryIsOfTheLog, OnlyConversationsAreRemembered
    <3> QED
      BY <1>4, <3>1, <3>2
  <2>2. CASE t = m.place /\ lines'[t][n] = l /\ Verdict(m) = "dropped" /\ Remembers(m)
    <3>1. RememberableIn(log', l, m.place)
      BY <2>2, ObservedMayBeRemembered
    <3> HIDE DEF l
    <3> QED
      BY <1>1, <2>2, <3>1
  <2>3. CASE ~(Verdict(m) = "dropped" /\ Remembers(m))
    <3>1. lines' = lines
      BY <2>3 DEF Handle
    <3> QED
      BY <1>5, <2>1, <3>1
  <2>4. CASE Verdict(m) = "dropped" /\ Remembers(m)
    <3>1. Observe(m.place, l) /\ m.place \in Topic /\ l \in Nat
      BY <1>1, <2>4, DroppedIsInATopic DEF Handle
    <3>2. (t = m.place /\ lines'[t][n] = l) \/ \E k \in DOMAIN lines[t] : lines'[t][n] = lines[t][k]
      <4> HIDE DEF l
      <4> QED
        BY <1>5, <3>1, ObserveTypes DEF MemoryInv
    <3> QED
      BY <2>1, <2>2, <2>4, <3>2
  <2> QED
    BY <2>3, <2>4
<1>6. ASSUME NEW x \in turns, NEW n \in DOMAIN x.quoted
      PROVE  x.quoted[n] \in DOMAIN log' /\ RememberableIn(log', x.quoted[n], log'[x.entry].place)
  <2>1. x.quoted[n] \in DOMAIN log /\ RememberableIn(log, x.quoted[n], log[x.entry].place)
    BY <1>6 DEF RememberableIn, Rememberable, MemoryInv, MemoryIsOfTheLog, OnlyConversationsAreRemembered
  <2>2. log'[x.entry] = log[x.entry]
    BY <1>1 DEF MemoryInv, GateTypeOK
  <2>3. x.quoted[n] \in DOMAIN log' /\ RememberableIn(log', x.quoted[n], log[x.entry].place)
    BY <1>4, <2>1
  <2> QED
    BY <2>2, <2>3
<1>7. MemoryIsOfTheLog'
  BY <1>5, <1>6 DEF MemoryIsOfTheLog
<1>8. OnlyConversationsAreRemembered'
  BY <1>5, <1>6 DEF OnlyConversationsAreRemembered, Rememberable, RememberableIn
<1> QED
  BY <1>2, <1>3, <1>7, <1>8

\* A turn quotes what its topic's memory holds.
LEMMA ProceedKeepsMemory ==
  ASSUME MemoryInv, NEW i \in handlers, Proceed(i)
  PROVE  HandlersWereLetIn' /\ TrackedWereAddressed' /\ MemoryIsOfTheLog' /\ OnlyConversationsAreRemembered'
<1> DEFINE m == log[i]
<1>1. i \in DOMAIN log /\ m \in Entry /\ m.verdict = "in"
  BY DEF MemoryInv, GateTypeOK, HandlersWereLetIn
<1>2. log' = log /\ setting' = setting /\ lines' = lines /\ handlers' \subseteq handlers
  BY DEF Proceed
<1>3. HandlersWereLetIn'
  BY <1>2 DEF MemoryInv, HandlersWereLetIn
<1>4. TrackedWereAddressed'
  <2>1. CASE addressed' = addressed
    BY <1>2, <2>1 DEF MemoryInv, TrackedWereAddressed, LetInByAddress
  <2>2. CASE Addressed(m) /\ m.place # Direct /\ addressed' = Used(addressed, m.place)
    <3>1. addressed \in Seq(Topic) /\ m.place \in Topic
      BY <1>1, <2>2 DEF MemoryInv, GateTypeOK, Entry, Place
    <3>2. \A n \in DOMAIN addressed' : addressed'[n] = m.place \/ \E k \in DOMAIN addressed : addressed'[n] = addressed[k]
      BY <2>2, <3>1, UsedProperties
    <3>3. LetInByAddress(i, m.place)
      BY <1>1, <2>2 DEF Addressed, LetInByAddress
    <3>4. ASSUME NEW n \in DOMAIN addressed' PROVE \E k \in DOMAIN log : LetInByAddress(k, addressed'[n])
      BY <1>1, <3>2, <3>3, <3>4 DEF MemoryInv, TrackedWereAddressed
    <3> QED
      BY <1>2, <3>4 DEF TrackedWereAddressed, LetInByAddress
  <2> QED
    BY <2>1, <2>2 DEF Proceed
<1>5. ASSUME NEW x \in turns', NEW n \in DOMAIN x.quoted
      PROVE  x.quoted[n] \in DOMAIN log /\ Rememberable(x.quoted[n], log[x.entry].place)
  <2>1. CASE x \in turns
    BY <1>5, <2>1 DEF MemoryInv, MemoryIsOfTheLog, OnlyConversationsAreRemembered
  <2>2. CASE x \notin turns
    <3>1. x.entry = i /\ (x.quoted = <<>> \/ (m.place # Direct /\ x.quoted = Quoted(m)))
      BY <2>2 DEF Proceed
    <3>2. DOMAIN <<>> = {}
      OBVIOUS
    <3>3. m.place # Direct /\ x.quoted = lines[m.place]
      BY <1>5, <3>1, <3>2 DEF Quoted
    <3>4. m.place \in Topic
      BY <1>1, <3>3 DEF Entry, Place
    <3> QED
      BY <1>5, <3>1, <3>3, <3>4 DEF MemoryInv, MemoryIsOfTheLog, OnlyConversationsAreRemembered
  <2> QED
    BY <2>1, <2>2
<1>6. MemoryIsOfTheLog'
  BY <1>2, <1>5 DEF MemoryInv, MemoryIsOfTheLog
<1>7. OnlyConversationsAreRemembered'
  BY <1>2, <1>5 DEF MemoryInv, OnlyConversationsAreRemembered, Rememberable
<1> QED
  BY <1>3, <1>4, <1>6, <1>7

\* adapter.py:1869: what a topic's memory holds, and what a turn quotes, was said in
\* that topic unanswered, and in conversation scope after an address that was let in.
THEOREM MemoryIsOfConversations == Spec => []OnlyConversationsAreRemembered
<1>1. Init => MemoryInv
  <2> SUFFICES ASSUME Init PROVE MemoryInv
    OBVIOUS
  <2>1. DOMAIN <<>> = {}
    OBVIOUS
  <2> QED
    BY <2>1, TypesInit
    DEF Init, MemoryInv, HandlersWereLetIn, TrackedWereAddressed, MemoryIsOfTheLog, OnlyConversationsAreRemembered
<1>2. MemoryInv /\ [Next]_vars => MemoryInv'
  <2> SUFFICES ASSUME MemoryInv, [Next]_vars
               PROVE  HandlersWereLetIn' /\ TrackedWereAddressed' /\ MemoryIsOfTheLog' /\ OnlyConversationsAreRemembered'
    BY TypesNext DEF MemoryInv
  <2>1. ASSUME NEW x \in Incoming, Arrive(x)
        PROVE  HandlersWereLetIn' /\ TrackedWereAddressed' /\ MemoryIsOfTheLog' /\ OnlyConversationsAreRemembered'
    <3>1. x \in Message
      BY Posted
    <3>2. Handle(x) /\ UNCHANGED <<setting, addressed, turns>>
      BY <2>1 DEF Arrive
    <3> QED
      BY <3>1, <3>2, HandleKeepsMemory
  <2>2. ASSUME NEW i \in handlers, Proceed(i)
        PROVE  HandlersWereLetIn' /\ TrackedWereAddressed' /\ MemoryIsOfTheLog' /\ OnlyConversationsAreRemembered'
    BY <2>2, ProceedKeepsMemory
  <2>3. ASSUME UNCHANGED <<setting, log, lines, addressed, handlers, turns>>
        PROVE  HandlersWereLetIn' /\ TrackedWereAddressed' /\ MemoryIsOfTheLog' /\ OnlyConversationsAreRemembered'
    BY <2>3 DEF MemoryInv, HandlersWereLetIn, TrackedWereAddressed, LetInByAddress, MemoryIsOfTheLog,
                OnlyConversationsAreRemembered, Rememberable
  <2>4. CASE Scan \/ Tick \/ (\E t \in Topic : Announce(t)) \/ UNCHANGED vars
    BY <2>3, <2>4 DEF Scan, Tick, Announce, vars
  <2> QED
    BY <2>1, <2>2, <2>4 DEF Next
<1>3. MemoryInv => OnlyConversationsAreRemembered
  BY DEF MemoryInv
<1> QED
  BY <1>1, <1>2, <1>3, PTL DEF Spec

-----------------------------------------------------------------------------
(* Engagement: definitions *)

\* Entry j is about the window w: it was posted in its topic, in user scope by its user.
About(w, j) == log[j].place = w.place /\ (setting.scope = "user" => log[j].user = w.by)

\* Windows that were announced.
Announced == {x.window : x \in notices}

\* A window is filed under its place and, in user scope, its user, and one under a
\* key; engagement off, none is.
WindowsAreFiled ==
  /\ \A w, v \in windows : w.key = v.key => w = v
  /\ \A w \in windows : w.key = IF setting.scope = "topic" THEN <<w.place>> ELSE <<w.place, w.by>>
  /\ ~Sticky => windows = {}

\* The message that made a window names it, through refreshes: open windows of the
\* same name have the same key, and no window is in two of the four places.
WindowsHaveNames ==
  /\ \A w \in windows \cup scan \cup stopped \cup Announced : w.from \in DOMAIN log
  /\ \A w, v \in windows : w.from = v.from => w.key = v.key
  /\ \A w \in windows : \A v \in scan \cup stopped \cup Announced : v.from # w.from
  /\ \A w \in scan \cup Announced : \A v \in stopped : v.from # w.from

NothingIsLate == \A j \in DOMAIN log : log[j].time <= clock

\* An open window is as recent as whatever kept it open.
WindowsFollowTheirTopic ==
  ~setting.soft => \A w \in windows : \A j \in DOMAIN log : About(w, j) /\ KeepsOpen(j) => log[j].time <= w.last

\* Nobody who kept w open spoke between its last use and the end of its idle time.
QuietAround(w) ==
  ~setting.soft => \A j \in DOMAIN log : About(w, j) /\ KeepsOpen(j) => log[j].time <= w.last \/ log[j].time > w.last + TTL

PoppedWereIdle ==
  /\ \A w \in scan : clock > w.last + TTL
  /\ \A x \in notices : x.window.last + TTL < x.time /\ x.time <= clock
  /\ \A w \in scan \cup Announced : QuietAround(w)

IdleInv ==
  GateTypeOK /\ WindowsAreFiled /\ WindowsHaveNames /\ NothingIsLate /\ WindowsFollowTheirTopic /\ PoppedWereIdle

-----------------------------------------------------------------------------
(* Engagement: what earns a follow-up *)

\* Nobody closed w's topic since entry i.
OpenSince(w, i) == \A k \in DOMAIN log : k >= i /\ About(w, k) => ~Closes(k)

\* An open window goes back to an entry that kept it open at its last use, and stayed so.
WindowsAreEarned ==
  Sticky /\ ~setting.soft =>
    \A w \in windows : \E i \in DOMAIN log : About(w, i) /\ KeepsOpen(i) /\ log[i].time = w.last /\ OpenSince(w, i)

\* Whoever kept a topic open within the idle time has a window there, unless it was closed.
EarnedWindowsAreOpen ==
  Sticky /\ ~setting.soft =>
    \A i \in DOMAIN log :
      /\ log[i].place \in Topic /\ KeepsOpen(i) /\ clock <= log[i].time + TTL
      /\ \A k \in DOMAIN log : k >= i /\ Near(k, i) => ~Closes(k)
      => \E w \in windows : w.key = KeyOf(log[i]) /\ w.last >= log[i].time

EarnedInv ==
  IdleInv /\ WindowsAreEarned /\ EarnedWindowsAreOpen /\ FollowUpsAreEarned

-----------------------------------------------------------------------------
(* Engagement: what one message does to the windows *)

\* The windows after a message: what is cleared is gone, what is marked is fresh, the
\* rest is as it was.
LEMMA WindowsStep ==
  ASSUME GateTypeOK, NEW m \in Message, Handle(m), NEW w \in windows'
  PROVE  \/ w \in windows
         \/ /\ w.last = clock /\ w.from = Len(log) + 1 /\ w.place = m.place /\ w.by = m.user /\ w.key = KeyOf(m)
            /\ Opens(m) /\ Verdict(m) = "in" /\ m.place # Direct /\ \A v \in windows : v.key # KeyOf(m)
         \/ \E v \in windows :
              /\ w = [v EXCEPT !.last = clock] /\ v.key = KeyOf(m) /\ w.last = clock
              /\ w.from = v.from /\ w.place = v.place /\ w.by = v.by /\ w.key = v.key
              /\ Opens(m) /\ Verdict(m) = "in" /\ m.place # Direct
<1>1. windows' = WindowsAfter(m, Verdict(m))
  BY DEF Handle
<1>2. CASE Verdict(m) = "in" /\ m.place # Direct /\ Opens(m) /\ w \in Marked(m)
  <2> DEFINE same == {v \in windows : v.key = KeyOf(m)}
             t == [key |-> KeyOf(m), place |-> m.place, by |-> m.user, last |-> clock, opened |-> clock, from |-> Len(log) + 1]
  <2>1. t.last = clock /\ t.from = Len(log) + 1 /\ t.place = m.place /\ t.by = m.user /\ t.key = KeyOf(m)
    OBVIOUS
  <2>2. CASE same = {}
    <3>1. w \in windows \/ w = t
      BY <1>2, <2>2 DEF Marked
    <3> HIDE DEF t
    <3> QED
      BY <1>2, <2>1, <2>2, <3>1
  <2>3. CASE same # {}
    <3>1. ASSUME NEW v \in same, w = [v EXCEPT !.last = clock]
          PROVE  /\ w = [v EXCEPT !.last = clock] /\ v.key = KeyOf(m) /\ w.last = clock
                 /\ w.from = v.from /\ w.place = v.place /\ w.by = v.by /\ w.key = v.key
      <4>1. v \in EngagementWindow
        BY DEF GateTypeOK
      <4> QED
        BY <3>1, <4>1 DEF EngagementWindow
    <3>2. w \in windows \/ \E v \in same : w = [v EXCEPT !.last = clock]
      BY <1>2, <2>3 DEF Marked
    <3> QED
      BY <1>2, <3>1, <3>2
  <2> QED
    BY <2>2, <2>3
<1> QED
  BY <1>1, <1>2 DEF WindowsAfter

\* A window goes only by a message that closes its topic.
LEMMA WindowsStay ==
  ASSUME GateTypeOK, NEW m \in Message, Handle(m), NEW v \in windows
  PROVE  \/ v \in windows' \/ (\E w \in windows' : w.key = v.key /\ w.last = clock)
         \/ /\ v \in Cleared(m) /\ v \notin windows'
            /\ Verdict(m) = "stopped" \/ (Verdict(m) = "in" /\ m.place # Direct /\ Sticky /\ Ends(m))
<1>1. windows' = WindowsAfter(m, Verdict(m))
  BY DEF Handle
<1>2. CASE windows' = Marked(m)
  <2>1. v \in EngagementWindow
    BY DEF GateTypeOK
  <2> DEFINE w == [v EXCEPT !.last = clock]
  <2>2. w.key = v.key /\ w.last = clock
    BY <2>1 DEF EngagementWindow
  <2>3. v \in Marked(m) \/ w \in Marked(m)
    BY DEF Marked
  <2> HIDE DEF w
  <2> QED
    BY <1>2, <2>2, <2>3
<1>3. CASE windows' = windows
  BY <1>3
<1>4. CASE /\ windows' = windows \ Cleared(m)
           /\ Verdict(m) = "stopped" \/ (Verdict(m) = "in" /\ m.place # Direct /\ Sticky /\ Ends(m))
  BY <1>4
<1> QED
  BY <1>1, <1>2, <1>3, <1>4 DEF WindowsAfter

\* A message that closes the topic leaves no window of its own there.
LEMMA ClosedIsGone ==
  ASSUME NEW m, Handle(m), NEW w \in windows',
         Verdict(m) = "stopped" \/ (Verdict(m) = "in" /\ m.place # Direct /\ Sticky /\ Ends(m))
  PROVE  w \in windows /\ w.key # KeyOf(m)
<1>1. windows' = WindowsAfter(m, Verdict(m))
  BY DEF Handle
<1>2. CASE Verdict(m) = "stopped"
  BY <1>1, <1>2 DEF WindowsAfter, Cleared
<1>3. CASE Verdict(m) = "in" /\ m.place # Direct /\ Sticky /\ Ends(m)
  <2>1. ~Opens(m)
    BY <1>3 DEF Opens
  <2>2. WindowsAfter(m, Verdict(m)) = windows \ Cleared(m)
    BY <1>3, <2>1 DEF WindowsAfter
  <2> QED
    BY <1>1, <2>2 DEF Cleared
<1> QED
  BY <1>2, <1>3

\* The facts about a handled message that the engagement needs.
LEMMA HeardOutsideTheSoftGate ==
  ASSUME GateTypeOK, NEW m \in Message, ~setting.soft, Sticky, m.place # Direct, Verdict(m) = "in",
         m.kind \in {"mention", "plain", "stop"}, m.user \in Human
  PROVE  Opens(m) /\ m.kind # "stop" /\ m.place \in Topic
<1>1. m.place \in Topic
  BY DEF Message, Place
<1>2. Heard(m) /\ ~(Sticky /\ Stops(m)) /\ m.user \notin Bot
  BY GateAssumption DEF Verdict
<1>3. m.kind # "stop"
  BY <1>2 DEF Stops
<1>4. Addressed(m) \/ FollowsUp(m)
  BY <1>2, <1>3 DEF Heard, Triggered, Addressed, Slash, Sticky
<1> QED
  BY <1>1, <1>2, <1>3, <1>4 DEF Opens, Ends

\* In topic scope the key is the topic; in user scope the topic and the user.
LEMMA KeysAreTopics ==
  ASSUME GateTypeOK, WindowsAreFiled, NEW m \in Message, NEW w \in windows
  PROVE  w.key = KeyOf(m) <=> w.place = m.place /\ (setting.scope = "user" => m.user = w.by)
<1>1. setting.scope \in {"topic", "user"}
  BY DEF GateTypeOK, SettingShape
<1>2. w.key = IF setting.scope = "topic" THEN <<w.place>> ELSE <<w.place, w.by>>
  BY DEF WindowsAreFiled
<1>3. CASE setting.scope = "topic"
  <2>1. w.key = <<w.place>> /\ KeyOf(m) = <<m.place>>
    BY <1>2, <1>3 DEF KeyOf
  <2> QED
    BY <1>3, <2>1
<1>4. CASE setting.scope = "user"
  <2>1. w.key = <<w.place, w.by>> /\ KeyOf(m) = <<m.place, m.user>>
    BY <1>2, <1>4 DEF KeyOf
  <2> QED
    BY <1>4, <2>1
<1> QED
  BY <1>1, <1>3, <1>4

LEMMA MarkedHasOnePerKey ==
  ASSUME GateTypeOK, WindowsAreFiled, NEW m \in Message, NEW w \in Marked(m), NEW v \in Marked(m), w.key = v.key
  PROVE  w = v
<1> DEFINE same == {x \in windows : x.key = KeyOf(m)}
           t == [key |-> KeyOf(m), place |-> m.place, by |-> m.user, last |-> clock, opened |-> clock, from |-> Len(log) + 1]
<1>1. CASE same = {}
  <2>1. Marked(m) = windows \cup {t} /\ \A x \in windows : x.key # KeyOf(m)
    BY <1>1 DEF Marked
  <2>2. t.key = KeyOf(m)
    OBVIOUS
  <2> HIDE DEF t
  <2> QED
    BY <2>1, <2>2 DEF WindowsAreFiled
<1>2. CASE same # {}
  <2>1. PICK x \in windows : x.key = KeyOf(m)
    BY <1>2
  <2>2. same = {x}
    BY <2>1 DEF WindowsAreFiled
  <2> DEFINE y == [x EXCEPT !.last = clock]
  <2>3. y.key = KeyOf(m)
    BY <2>1 DEF GateTypeOK, EngagementWindow
  <2>4. Marked(m) = (windows \ {x}) \cup {y}
    BY <2>2 DEF Marked
  <2>5. \A z \in windows : z.key = KeyOf(m) => z = x
    BY <2>2
  <2> HIDE DEF y
  <2> QED
    BY <2>3, <2>4, <2>5 DEF WindowsAreFiled
<1> QED
  BY <1>1, <1>2

LEMMA HandleFilesWindows ==
  ASSUME GateTypeOK, WindowsAreFiled, NEW m \in Message, Handle(m), setting' = setting
  PROVE  WindowsAreFiled'
<1>1. setting.scope \in {"topic", "user"} /\ Sticky' = Sticky
  BY DEF GateTypeOK, SettingShape, Sticky
<1>2. ASSUME NEW w \in windows'
      PROVE  /\ Sticky
             /\ w.key = IF setting.scope = "topic" THEN <<w.place>> ELSE <<w.place, w.by>>
  <2>1. CASE w \in windows
    BY <2>1 DEF WindowsAreFiled
  <2>2. CASE w.place = m.place /\ w.by = m.user /\ w.key = KeyOf(m) /\ Opens(m)
    BY <2>2 DEF KeyOf, Opens
  <2>3. CASE \E v \in windows : w.place = v.place /\ w.by = v.by /\ w.key = v.key /\ Opens(m)
    BY <2>3 DEF WindowsAreFiled, Opens
  <2> QED
    BY <2>1, <2>2, <2>3, WindowsStep
<1>3. windows' \subseteq windows \/ windows' = Marked(m)
  <2>1. windows' = WindowsAfter(m, Verdict(m))
    BY DEF Handle
  <2> QED
    BY <2>1 DEF WindowsAfter
<1>4. ASSUME NEW w \in windows', NEW v \in windows', w.key = v.key PROVE w = v
  BY <1>3, <1>4, MarkedHasOnePerKey DEF WindowsAreFiled
<1> QED
  BY <1>1, <1>2, <1>4 DEF WindowsAreFiled

LEMMA HandleNamesWindows ==
  ASSUME GateTypeOK, WindowsHaveNames, NEW m \in Message, Handle(m), UNCHANGED <<scan, notices>>
  PROVE  WindowsHaveNames'
<1> DEFINE l == Len(log) + 1
<1>1. l \in Nat \ {0} /\ DOMAIN log = 1..(l - 1) /\ DOMAIN log' = 1..l
  BY LogGrows
<1>2. l \notin DOMAIN log
  BY <1>1
<1>3. scan' = scan /\ Announced' = Announced
  BY DEF Announced
<1>4. ASSUME NEW w \in windows' PROVE (w.from = l /\ \A v \in windows : v.key # KeyOf(m)) \/ \E v \in windows : w.from = v.from
  BY WindowsStep
<1>5. ASSUME NEW s \in stopped' PROVE s \in stopped \/ (s \in windows /\ \A w \in windows' : w.from # s.from)
  <2>1. CASE s \in stopped
    BY <2>1
  <2>2. CASE s \notin stopped
    <3>1. /\ s \in Cleared(m)
          /\ Verdict(m) = "stopped" \/ (Verdict(m) = "in" /\ m.place # Direct /\ Sticky /\ Ends(m))
      BY <1>5, <2>2 DEF Handle
    <3>2. s \in windows /\ s.key = KeyOf(m)
      BY <3>1 DEF Cleared
    <3>3. \A w \in windows' : w \in windows /\ w.key # KeyOf(m)
      BY <3>1, ClosedIsGone
    <3> QED
      BY <3>2, <3>3 DEF WindowsHaveNames
  <2> QED
    BY <2>1, <2>2
<1>6. ASSUME NEW w \in windows', NEW v \in windows', w.from = v.from PROVE w.key = v.key
  <2>1. \A a \in windows : a.from # l
    BY <1>2 DEF WindowsHaveNames
  <2>2. \A x \in windows' : (x.from = l /\ x.key = KeyOf(m)) \/ \E a \in windows : x.from = a.from /\ x.key = a.key
    BY WindowsStep
  <2> QED
    BY <1>6, <2>1, <2>2 DEF WindowsHaveNames
<1> HIDE DEF l
<1>7. ASSUME NEW w \in windows' \cup scan' \cup stopped' \cup Announced' PROVE w.from \in DOMAIN log'
  BY <1>1, <1>3, <1>4, <1>5 DEF WindowsHaveNames
<1>8. ASSUME NEW w \in windows', NEW v \in scan' \cup stopped' \cup Announced' PROVE v.from # w.from
  BY <1>2, <1>3, <1>4, <1>5 DEF WindowsHaveNames
<1>9. ASSUME NEW w \in scan' \cup Announced', NEW v \in stopped' PROVE v.from # w.from
  BY <1>3, <1>5 DEF WindowsHaveNames
<1> QED
  BY <1>6, <1>7, <1>8, <1>9 DEF WindowsHaveNames

\* What entry j is about does not change with the log.
LEMMA EntriesStay ==
  ASSUME GateTypeOK, NEW m \in Message, Handle(m), setting' = setting, NEW j \in DOMAIN log
  PROVE  /\ log'[j] = log[j] /\ j \in DOMAIN log'
         /\ (KeepsOpen(j))' <=> KeepsOpen(j)
         /\ (Closes(j))' <=> Closes(j)
         /\ \A w : (About(w, j))' <=> About(w, j)
<1>1. j \in DOMAIN log' /\ log'[j] = log[j]
  BY LogGrows
<1> QED
  BY <1>1 DEF KeepsOpen, Closes, About

\* The newest entry tells of the message.
LEMMA NewestTells ==
  ASSUME GateTypeOK, NEW m \in Message, Handle(m), setting' = setting, NEW l, l = Len(log) + 1
  PROVE  /\ \A w : (About(w, l))' <=> w.place = m.place /\ (setting.scope = "user" => m.user = w.by)
         /\ (KeepsOpen(l))' <=> Verdict(m) = "in" /\ m.kind \in {"mention", "plain", "stop"} /\ m.user \in Human
         /\ (Closes(l))' <=> Verdict(m) = "stopped" \/ (Verdict(m) = "in" /\ m.kind = "new")
<1>1. log'[l].place = m.place /\ log'[l].user = m.user /\ log'[l].kind = m.kind /\ log'[l].verdict = Verdict(m)
  BY LogGrows
<1> QED
  BY <1>1 DEF About, KeepsOpen, Closes


LEMMA HandleIsOnTime ==
  ASSUME GateTypeOK, NothingIsLate, NEW m \in Message, Handle(m), clock' = clock
  PROVE  NothingIsLate'
<1>1. \A j \in DOMAIN log' : j \in DOMAIN log \/ j = Len(log) + 1
  BY LogGrows
<1>2. \A j \in DOMAIN log : log'[j] = log[j]
  BY LogGrows
<1>3. log'[Len(log) + 1].time = clock /\ clock \in Nat
  BY LogGrows DEF GateTypeOK
<1> QED
  BY <1>1, <1>2, <1>3 DEF NothingIsLate

\* A window stays as recent as what keeps it open: outside the soft gate only an
\* address or a follow-up does, and these refresh it.
LEMMA HandleRefreshesWindows ==
  ASSUME GateTypeOK, WindowsAreFiled, NothingIsLate, WindowsFollowTheirTopic,
         NEW m \in Message, Handle(m), UNCHANGED <<setting, clock>>
  PROVE  WindowsFollowTheirTopic'
<1> SUFFICES ASSUME ~setting.soft, NEW w \in windows', NEW j \in DOMAIN log', (About(w, j))', (KeepsOpen(j))'
             PROVE  log'[j].time <= w.last
  BY DEF WindowsFollowTheirTopic
<1>1. PICK l : l = Len(log) + 1
  OBVIOUS
<1>2. j \in DOMAIN log \/ j = l
  BY <1>1, LogGrows
<1>3. NothingIsLate' /\ clock \in Nat
  BY HandleIsOnTime DEF GateTypeOK
<1>4. CASE w.last = clock
  BY <1>3, <1>4 DEF NothingIsLate
<1>5. CASE w.last # clock
  <2>1. w \in windows
    BY <1>5, WindowsStep
  <2>2. CASE j \in DOMAIN log
    <3>1. log'[j] = log[j] /\ About(w, j) /\ KeepsOpen(j)
      BY <2>2, EntriesStay
    <3> QED
      BY <2>1, <2>2, <3>1 DEF WindowsFollowTheirTopic
  <2>3. CASE j = l
    <3>1. /\ w.place = m.place /\ (setting.scope = "user" => m.user = w.by)
          /\ Verdict(m) = "in" /\ m.kind \in {"mention", "plain", "stop"} /\ m.user \in Human
      BY <1>1, <2>3, NewestTells
    <3>2. Sticky /\ m.place # Direct
      BY <2>1, <3>1, GateAssumption DEF WindowsAreFiled, GateTypeOK, EngagementWindow
    <3>3. Opens(m)
      BY <3>1, <3>2, HeardOutsideTheSoftGate
    <3>4. w.key = KeyOf(m)
      BY <2>1, <3>1, KeysAreTopics
    <3>5. windows' = Marked(m)
      BY <3>1, <3>2, <3>3 DEF Handle, WindowsAfter, Opens
    <3>6. \E v \in windows : w = [v EXCEPT !.last = clock]
      BY <2>1, <3>4, <3>5 DEF Marked
    <3>7. PICK v \in windows : w = [v EXCEPT !.last = clock]
      BY <3>6
    <3>8. v \in EngagementWindow
      BY DEF GateTypeOK
    <3> QED
      BY <1>5, <3>7, <3>8 DEF EngagementWindow
  <2> QED
    BY <1>2, <2>2, <2>3
<1> QED
  BY <1>4, <1>5

\* What is said now is said after the idle time of what was popped.
LEMMA QuietStaysQuiet ==
  ASSUME GateTypeOK, NEW w \in EngagementWindow, QuietAround(w), clock > w.last + TTL,
         NEW m \in Message, Handle(m), setting' = setting
  PROVE  (QuietAround(w))'
<1> SUFFICES ASSUME ~setting.soft, NEW j \in DOMAIN log', (About(w, j))', (KeepsOpen(j))'
             PROVE  log'[j].time <= w.last \/ log'[j].time > w.last + TTL
  BY DEF QuietAround
<1>1. CASE j \in DOMAIN log
  <2>1. log'[j] = log[j] /\ About(w, j) /\ KeepsOpen(j)
    BY <1>1, EntriesStay
  <2> QED
    BY <1>1, <2>1 DEF QuietAround
<1>2. CASE j = Len(log) + 1
  BY <1>2, LogGrows
<1> QED
  BY <1>1, <1>2, LogGrows

LEMMA HandleKeepsIdle ==
  ASSUME IdleInv, NEW m \in Message, Handle(m), UNCHANGED <<setting, clock, scan, notices>>
  PROVE  /\ WindowsAreFiled' /\ WindowsHaveNames' /\ NothingIsLate'
         /\ WindowsFollowTheirTopic' /\ PoppedWereIdle'
<1>1. WindowsAreFiled' /\ WindowsHaveNames' /\ NothingIsLate' /\ WindowsFollowTheirTopic'
  BY HandleFilesWindows, HandleNamesWindows, HandleIsOnTime, HandleRefreshesWindows DEF IdleInv
<1>2. ASSUME NEW w \in scan PROVE (QuietAround(w))'
  BY QuietStaysQuiet DEF IdleInv, PoppedWereIdle, GateTypeOK
<1>3. ASSUME NEW x \in notices PROVE (QuietAround(x.window))'
  <2>1. /\ x.window \in EngagementWindow /\ x.time \in Nat /\ clock \in Nat
        /\ x.window.last + TTL < x.time /\ x.time <= clock /\ QuietAround(x.window)
    BY DEF IdleInv, GateTypeOK, PoppedWereIdle, Announced
  <2>2. clock > x.window.last + TTL
    BY <2>1, GateAssumption DEF EngagementWindow
  <2> QED
    BY <2>1, <2>2, QuietStaysQuiet DEF IdleInv
<1> QED
  BY <1>1, <1>2, <1>3 DEF IdleInv, PoppedWereIdle, Announced

LEMMA ScanKeepsIdle ==
  ASSUME IdleInv, Scan
  PROVE  /\ WindowsAreFiled' /\ WindowsHaveNames' /\ NothingIsLate'
         /\ WindowsFollowTheirTopic' /\ PoppedWereIdle'
<1>1. /\ scan = {} /\ scan' = Expired /\ windows' = windows \ Expired /\ Expired \subseteq windows
      /\ UNCHANGED <<setting, clock, log, notices, stopped>> /\ Announced' = Announced
  BY DEF Scan, Popped, Expired, Announced
<1>2. ASSUME NEW w \in Expired, NEW v \in windows \ Expired PROVE w.from # v.from
  BY <1>1, <1>2 DEF IdleInv, WindowsHaveNames, WindowsAreFiled
<1>3. WindowsAreFiled' /\ NothingIsLate'
  BY <1>1 DEF IdleInv, WindowsAreFiled, NothingIsLate, Sticky
<1>4. WindowsHaveNames'
  BY <1>1, <1>2 DEF IdleInv, WindowsHaveNames
<1>5. WindowsFollowTheirTopic'
  BY <1>1 DEF IdleInv, WindowsFollowTheirTopic, About, KeepsOpen
<1>6. PoppedWereIdle'
  <2>1. ASSUME NEW w \in Expired PROVE QuietAround(w) /\ clock > w.last + TTL
    BY <1>1, <2>1 DEF IdleInv, WindowsFollowTheirTopic, QuietAround, Expired
  <2>2. ASSUME NEW w, QuietAround(w) PROVE (QuietAround(w))'
    BY <1>1, <2>2 DEF QuietAround, About, KeepsOpen
  <2>3. \A w \in Announced : QuietAround(w)
    BY DEF IdleInv, PoppedWereIdle
  <2> QED
    BY <1>1, <2>1, <2>2, <2>3 DEF IdleInv, PoppedWereIdle
<1> QED
  BY <1>3, <1>4, <1>5, <1>6

LEMMA AnnounceKeepsIdle ==
  ASSUME IdleInv, NEW t \in Topic, Announce(t)
  PROVE  /\ WindowsAreFiled' /\ WindowsHaveNames' /\ NothingIsLate'
         /\ WindowsFollowTheirTopic' /\ PoppedWereIdle'
<1> DEFINE told == {w \in scan : w.place = t}
<1>1. /\ scan' = scan \ told /\ told \subseteq scan
      /\ notices' = notices \cup {[window |-> w, time |-> clock] : w \in told}
      /\ UNCHANGED <<setting, clock, log, windows, stopped>>
  BY DEF Announce
<1>2. \A x \in notices' : x \in notices \/ (x.window \in told /\ x.time = clock)
  BY <1>1
<1> HIDE DEF told
<1>3. Announced' = Announced \cup told
  <2>1. ASSUME NEW w \in told PROVE \E x \in notices' : x.window = w
    <3>1. [window |-> w, time |-> clock] \in notices' /\ [window |-> w, time |-> clock].window = w
      BY <1>1
    <3> QED
      BY <3>1
  <2> QED
    BY <1>1, <1>2, <2>1 DEF Announced
<1>4. WindowsAreFiled' /\ NothingIsLate' /\ WindowsFollowTheirTopic'
  BY <1>1 DEF IdleInv, WindowsAreFiled, NothingIsLate, WindowsFollowTheirTopic, Sticky, About, KeepsOpen
<1>5. WindowsHaveNames'
  BY <1>1, <1>3 DEF IdleInv, WindowsHaveNames
<1>6. PoppedWereIdle'
  <2>1. ASSUME NEW w \in scan \cup Announced PROVE (QuietAround(w))'
    BY <1>1, <2>1 DEF IdleInv, PoppedWereIdle, QuietAround, About, KeepsOpen
  <2>2. \A w \in told : w.last + TTL < clock /\ clock <= clock
    BY <1>1, GateAssumption DEF IdleInv, PoppedWereIdle, GateTypeOK, EngagementWindow
  <2> QED
    BY <1>1, <1>2, <1>3, <2>1, <2>2 DEF IdleInv, PoppedWereIdle
<1> QED
  BY <1>4, <1>5, <1>6

LEMMA TickKeepsIdle ==
  ASSUME IdleInv, Tick
  PROVE  /\ WindowsAreFiled' /\ WindowsHaveNames' /\ NothingIsLate'
         /\ WindowsFollowTheirTopic' /\ PoppedWereIdle'
<1>1. clock \in Nat /\ clock' = clock + 1 /\ UNCHANGED <<setting, log, windows, scan, notices, stopped>>
  BY DEF Tick, IdleInv, GateTypeOK
<1>2. WindowsAreFiled' /\ WindowsHaveNames' /\ WindowsFollowTheirTopic'
  BY <1>1 DEF IdleInv, WindowsAreFiled, WindowsHaveNames, WindowsFollowTheirTopic, Sticky, About, KeepsOpen, Announced
<1>3. NothingIsLate'
  <2>1. ASSUME NEW j \in DOMAIN log PROVE log[j].time \in Nat
    <3>1. log[j] \in Entry
      BY LenProperties DEF IdleInv, GateTypeOK
    <3> QED
      BY <3>1 DEF Entry
  <2> QED
    BY <1>1, <2>1 DEF IdleInv, NothingIsLate
<1>4. PoppedWereIdle'
  <2>1. ASSUME NEW w \in scan PROVE clock + 1 > w.last + TTL
    BY <1>1, <2>1, GateAssumption DEF IdleInv, PoppedWereIdle, GateTypeOK, EngagementWindow
  <2>2. ASSUME NEW x \in notices PROVE x.window.last + TTL < x.time /\ x.time <= clock + 1
    BY <1>1, <2>2 DEF IdleInv, PoppedWereIdle, GateTypeOK
  <2>3. ASSUME NEW w \in scan \cup Announced PROVE (QuietAround(w))'
    BY <1>1, <2>3 DEF IdleInv, PoppedWereIdle, QuietAround, About, KeepsOpen
  <2> QED
    BY <1>1, <2>1, <2>2, <2>3 DEF IdleInv, PoppedWereIdle, Announced
<1> QED
  BY <1>2, <1>3, <1>4

LEMMA IdleInit == Init => IdleInv
<1> SUFFICES ASSUME Init PROVE IdleInv
  OBVIOUS
<1>1. DOMAIN log = {} /\ windows = {} /\ scan = {} /\ stopped = {} /\ notices = {}
  BY DEF Init
<1> QED
  BY <1>1, TypesInit DEF IdleInv, WindowsAreFiled, WindowsHaveNames, NothingIsLate, WindowsFollowTheirTopic,
                         PoppedWereIdle, Announced

LEMMA IdleNext == IdleInv /\ [Next]_vars => IdleInv'
<1> SUFFICES ASSUME IdleInv, [Next]_vars
             PROVE  /\ WindowsAreFiled' /\ WindowsHaveNames' /\ NothingIsLate'
                    /\ WindowsFollowTheirTopic' /\ PoppedWereIdle'
  BY TypesNext DEF IdleInv
<1> DEFINE Kept == /\ WindowsAreFiled' /\ WindowsHaveNames' /\ NothingIsLate'
                   /\ WindowsFollowTheirTopic' /\ PoppedWereIdle'
<1>1. ASSUME NEW x \in Incoming, Arrive(x) PROVE Kept
  <2>1. x \in Message
    BY Posted
  <2>2. Handle(x) /\ UNCHANGED <<setting, clock, scan, notices>>
    BY <1>1 DEF Arrive
  <2> QED
    BY <2>1, <2>2, HandleKeepsIdle
<1>2. ASSUME UNCHANGED <<setting, clock, log, windows, scan, notices, stopped>> PROVE Kept
  BY <1>2 DEF IdleInv, WindowsAreFiled, WindowsHaveNames, NothingIsLate, WindowsFollowTheirTopic, PoppedWereIdle,
              QuietAround, Announced, Sticky, About, KeepsOpen
<1>3. ASSUME NEW i \in handlers, Proceed(i) PROVE Kept
  BY <1>2, <1>3 DEF Proceed
<1>4. CASE Scan
  BY <1>4, ScanKeepsIdle
<1>5. ASSUME NEW t \in Topic, Announce(t) PROVE Kept
  BY <1>5, AnnounceKeepsIdle
<1>6. CASE Tick
  BY <1>6, TickKeepsIdle
<1>7. CASE UNCHANGED vars
  BY <1>2, <1>7 DEF vars
<1> QED
  BY <1>1, <1>3, <1>4, <1>5, <1>6, <1>7 DEF Next

\* adapter.py:1239, "Only natural idle TTL expiry notifies": whatever arrives while the
\* scanner posts its notices, no window that was closed is announced, and outside the
\* soft gate nobody had spoken in an announced one for its idle time.
THEOREM NoticesAreOfIdleWindows == Spec => []OnlyIdleWindowsAreAnnounced
<1>1. IdleInv => OnlyIdleWindowsAreAnnounced
  <2> SUFFICES ASSUME IdleInv, NEW x \in notices
               PROVE  /\ x.window \notin stopped /\ x.time > x.window.last + TTL
                      /\ ~setting.soft => \A j \in DOMAIN log :
                           /\ log[j].place = x.window.place /\ KeepsOpen(j)
                           /\ (setting.scope = "user" => log[j].user = x.window.by)
                           => log[j].time <= x.window.last \/ log[j].time > x.window.last + TTL
    BY DEF OnlyIdleWindowsAreAnnounced
  <2>1. x.window \in Announced
    BY DEF Announced
  <2>2. x.window \notin stopped
    BY <2>1 DEF IdleInv, WindowsHaveNames
  <2>3. x.time > x.window.last + TTL
    BY GateAssumption DEF IdleInv, PoppedWereIdle, GateTypeOK, EngagementWindow
  <2>4. QuietAround(x.window)
    BY <2>1 DEF IdleInv, PoppedWereIdle
  <2> QED
    BY <2>2, <2>3, <2>4 DEF QuietAround, About
<1> QED
  BY <1>1, IdleInit, IdleNext, PTL DEF Spec

-----------------------------------------------------------------------------
(* Follow-ups *)

\* Only a person's address or follow-up opens or refreshes a window.
LEMMA OpenersKeepOpen ==
  ASSUME NEW m \in Message, Opens(m), Verdict(m) = "in", m.place # Direct
  PROVE  m.kind \in {"mention", "plain", "stop"} /\ m.user \in Human
<1>1. m.user # Self /\ m.user \notin Bot
  BY DEF Verdict, Opens
<1>2. m.user \in Human
  BY <1>1 DEF Message, Sender
<1>3. m.kind \in {"mention", "plain", "stop"}
  BY DEF Opens, Addressed, FollowsUp, Triggered, Slash, Message, Kind
<1> QED
  BY <1>2, <1>3

\* Two messages with one key are of one topic, in user scope of one user.
LEMMA SameKeySameTopic ==
  ASSUME GateTypeOK, NEW a, NEW b
  PROVE  KeyOf(a) = KeyOf(b) <=> a.place = b.place /\ (setting.scope = "user" => a.user = b.user)
<1>1. setting.scope \in {"topic", "user"}
  BY DEF GateTypeOK, SettingShape
<1>2. CASE setting.scope = "topic"
  BY <1>2 DEF KeyOf
<1>3. CASE setting.scope = "user"
  BY <1>3 DEF KeyOf
<1> QED
  BY <1>1, <1>2, <1>3

\* An old window stays earned unless the message closes it.
LEMMA UntouchedStaysEarned ==
  ASSUME EarnedInv, Sticky, ~setting.soft, NEW m \in Message, Handle(m), UNCHANGED <<setting, clock>>,
         NEW w \in windows', w \in windows
  PROVE  \E i \in DOMAIN log' : (About(w, i) /\ KeepsOpen(i) /\ log[i].time = w.last /\ OpenSince(w, i))'
<1>1. PICK i \in DOMAIN log : About(w, i) /\ KeepsOpen(i) /\ log[i].time = w.last /\ OpenSince(w, i)
  BY DEF EarnedInv, WindowsAreEarned
<1>2. GateTypeOK /\ WindowsAreFiled
  BY DEF EarnedInv, IdleInv
<1>3. /\ i \in DOMAIN log' /\ log'[i] = log[i]
      /\ (About(w, i))' /\ (KeepsOpen(i))'
  BY <1>1, <1>2, EntriesStay
<1>4. ASSUME NEW k \in DOMAIN log', k >= i, (About(w, k))', (Closes(k))' PROVE FALSE
  <2>1. CASE k \in DOMAIN log
    <3>1. About(w, k) /\ Closes(k)
      BY <1>2, <1>4, <2>1, EntriesStay
    <3> QED
      BY <1>1, <1>4, <2>1, <3>1 DEF OpenSince
  <2>2. CASE k = Len(log) + 1
    <3>1. /\ w.place = m.place /\ (setting.scope = "user" => m.user = w.by)
          /\ Verdict(m) = "stopped" \/ (Verdict(m) = "in" /\ m.kind = "new")
      BY <1>2, <1>4, <2>2, NewestTells
    <3>2. w.key = KeyOf(m)
      BY <1>2, <3>1, KeysAreTopics
    <3>3. m.place # Direct
      BY <1>2, <3>1, GateAssumption DEF GateTypeOK, EngagementWindow
    <3> QED
      BY <3>1, <3>2, <3>3, ClosedIsGone DEF Ends
  <2> QED
    BY <1>2, <2>1, <2>2, LogGrows
<1>5. (OpenSince(w, i))'
  BY <1>4 DEF OpenSince
<1> QED
  BY <1>1, <1>3, <1>5

\* A window that the message opens or refreshes is earned by it.
LEMMA MarkedIsEarned ==
  ASSUME EarnedInv, NEW m \in Message, Handle(m), UNCHANGED <<setting, clock>>,
         NEW w \in windows', w.last = clock, w.place = m.place, setting.scope = "user" => m.user = w.by,
         Opens(m), Verdict(m) = "in", m.place # Direct
  PROVE  \E i \in DOMAIN log' : (About(w, i) /\ KeepsOpen(i) /\ log[i].time = w.last /\ OpenSince(w, i))'
<1>1. PICK l : l = Len(log) + 1
  OBVIOUS
<1>2. /\ l \in DOMAIN log' /\ DOMAIN log' = 1..l /\ l \in Nat
      /\ log'[l].time = clock
  BY <1>1, LogGrows DEF EarnedInv, IdleInv
<1>3. (About(w, l))' /\ (KeepsOpen(l))' /\ ~(Closes(l))'
  <2>1. m.kind \in {"mention", "plain", "stop"} /\ m.user \in Human /\ m.kind # "new"
    BY OpenersKeepOpen
  <2> QED
    BY <1>1, <2>1, NewestTells DEF EarnedInv, IdleInv
<1>4. \A k \in DOMAIN log' : k >= l => k = l
  BY <1>2
<1>5. (OpenSince(w, l))'
  BY <1>3, <1>4 DEF OpenSince
<1> QED
  BY <1>2, <1>3, <1>5

LEMMA HandleEarnsWindows ==
  ASSUME EarnedInv, NEW m \in Message, Handle(m), UNCHANGED <<setting, clock>>
  PROVE  WindowsAreEarned'
<1> SUFFICES ASSUME Sticky, ~setting.soft, NEW w \in windows'
             PROVE  \E i \in DOMAIN log' : (About(w, i) /\ KeepsOpen(i) /\ log[i].time = w.last /\ OpenSince(w, i))'
  BY DEF WindowsAreEarned, Sticky
<1>1. GateTypeOK /\ WindowsAreFiled
  BY DEF EarnedInv, IdleInv
<1>2. CASE w \in windows
  BY <1>2, UntouchedStaysEarned
<1>3. CASE /\ w.last = clock /\ w.place = m.place /\ w.by = m.user
           /\ Opens(m) /\ Verdict(m) = "in" /\ m.place # Direct
  BY <1>3, MarkedIsEarned
<1>4. ASSUME NEW v \in windows, v.key = KeyOf(m), w.last = clock, w.place = v.place, w.by = v.by,
             Opens(m), Verdict(m) = "in", m.place # Direct
      PROVE  \E i \in DOMAIN log' : (About(w, i) /\ KeepsOpen(i) /\ log[i].time = w.last /\ OpenSince(w, i))'
  <2>1. w.place = m.place /\ (setting.scope = "user" => m.user = w.by)
    BY <1>1, <1>4, KeysAreTopics
  <2> QED
    BY <1>4, <2>1, MarkedIsEarned
<1> QED
  BY <1>1, <1>2, <1>3, <1>4, WindowsStep

LEMMA HandleOpensEarned ==
  ASSUME EarnedInv, NEW m \in Message, Handle(m), UNCHANGED <<setting, clock>>
  PROVE  EarnedWindowsAreOpen'
<1> SUFFICES ASSUME Sticky, ~setting.soft, NEW i \in DOMAIN log',
                    log'[i].place \in Topic, (KeepsOpen(i))', clock <= log'[i].time + TTL,
                    \A k \in DOMAIN log' : k >= i /\ (Near(k, i))' => ~(Closes(k))'
             PROVE  \E w \in windows' : w.key = KeyOf(log'[i]) /\ w.last >= log'[i].time
  BY DEF EarnedWindowsAreOpen, Sticky, KeyOf
<1>1. GateTypeOK /\ WindowsAreFiled /\ NothingIsLate /\ NothingIsLate' /\ clock \in Nat
  BY HandleIsOnTime DEF EarnedInv, IdleInv, GateTypeOK
<1>2. PICK l : l = Len(log) + 1
  OBVIOUS
<1>3. /\ l \in Nat \ {0} /\ DOMAIN log = 1..(l - 1) /\ DOMAIN log' = 1..l
      /\ \A k \in DOMAIN log : log'[k] = log[k]
      /\ log'[l].user = m.user /\ log'[l].place = m.place /\ log'[l].time = clock
  BY <1>1, <1>2, LogGrows
<1>4. CASE i \in DOMAIN log
  <2>1. log'[i] = log[i] /\ KeepsOpen(i)
    BY <1>1, <1>4, EntriesStay
  <2>2. ASSUME NEW k \in DOMAIN log, k >= i, Near(k, i) PROVE ~Closes(k)
    <3>1. k \in DOMAIN log' /\ (Closes(k))' <=> Closes(k)
      BY <1>1, EntriesStay
    <3>2. (Near(k, i))'
      BY <1>3, <1>4, <2>2 DEF Near, SameSender
    <3> QED
      BY <1>3, <2>2, <3>1, <3>2
  <2>3. PICK v \in windows : v.key = KeyOf(log[i]) /\ v.last >= log[i].time
    BY <1>4, <2>1, <2>2 DEF EarnedInv, EarnedWindowsAreOpen
  <2>4. ASSUME v \in Cleared(m),
               Verdict(m) = "stopped" \/ (Verdict(m) = "in" /\ m.place # Direct /\ Sticky /\ Ends(m))
        PROVE  FALSE
    <3>1. KeyOf(log[i]) = KeyOf(m)
      BY <2>3, <2>4 DEF Cleared
    <3>2. log[i].place = m.place /\ (setting.scope = "user" => log[i].user = m.user)
      BY <1>1, <3>1, SameKeySameTopic
    <3>3. (Near(l, i))'
      BY <1>3, <2>1, <3>2 DEF Near, SameSender
    <3>4. (Closes(l))'
      BY <1>1, <1>2, <2>4, NewestTells DEF Ends
    <3> QED
      BY <1>3, <1>4, <3>3, <3>4
  <2>5. CASE v \in windows'
    BY <2>1, <2>3, <2>5
  <2>6. CASE \E w \in windows' : w.key = v.key /\ w.last = clock
    <3>1. log[i].time <= clock /\ log[i].time \in Nat
      <4>1. log[i] \in Entry
        BY <1>1, <1>4, LenProperties DEF GateTypeOK
      <4> QED
        BY <1>1, <1>4, <4>1 DEF NothingIsLate, Entry
    <3> QED
      BY <1>1, <2>1, <2>3, <2>6, <3>1
  <2> QED
    BY <1>1, <2>4, <2>5, <2>6, WindowsStay
<1>5. CASE i = l
  <2>1. Verdict(m) = "in" /\ m.kind \in {"mention", "plain", "stop"} /\ m.user \in Human
    BY <1>1, <1>2, <1>5, NewestTells
  <2>2. m.place # Direct
    BY <1>3, <1>5, GateAssumption
  <2>3. Opens(m)
    BY <1>1, <2>1, <2>2, HeardOutsideTheSoftGate
  <2>4. windows' = Marked(m)
    BY <2>1, <2>2, <2>3 DEF Handle, WindowsAfter, Opens
  <2>5. KeyOf(log'[i]) = KeyOf(m)
    BY <1>3, <1>5 DEF KeyOf
  <2>6. \E w \in Marked(m) : w.key = KeyOf(m) /\ w.last = clock
    <3> DEFINE same == {x \in windows : x.key = KeyOf(m)}
               t == [key |-> KeyOf(m), place |-> m.place, by |-> m.user, last |-> clock, opened |-> clock, from |-> Len(log) + 1]
    <3>1. CASE same = {}
      <4>1. t \in Marked(m) /\ t.key = KeyOf(m) /\ t.last = clock
        BY <3>1 DEF Marked
      <4> HIDE DEF t
      <4> QED
        BY <4>1
    <3>2. CASE same # {}
      <4>1. PICK x \in same : TRUE
        BY <3>2
      <4> DEFINE y == [x EXCEPT !.last = clock]
      <4>2. y \in Marked(m)
        BY <4>1 DEF Marked
      <4>3. y.key = KeyOf(m) /\ y.last = clock
        BY <1>1, <4>1 DEF GateTypeOK, EngagementWindow
      <4> HIDE DEF y
      <4> QED
        BY <4>2, <4>3
    <3> QED
      BY <3>1, <3>2
  <2> QED
    BY <1>1, <1>3, <1>5, <2>4, <2>5, <2>6
<1> QED
  BY <1>3, <1>4, <1>5

\* FollowUpsAreEarned, of the entry j.
IsEarned(j) ==
  /\ log[j].user \in Human
  /\ \E i \in 1..(j - 1) :
       /\ Near(i, j) /\ KeepsOpen(i) /\ log[j].time <= log[i].time + TTL
       /\ \A k \in i..(j - 1) : Near(k, j) => ~Closes(k)

\* An unaddressed message is heard exactly if it has an open window.
LEMMA HeardByItsWindow ==
  ASSUME Sticky, ~setting.soft, NEW m \in Message, m.place # Direct, m.kind \in {"plain", "stop"},
         Verdict(m) \notin {"self", "limited"}
  PROVE  Verdict(m) # "dropped" <=> m.user \in Human /\ Engaged(m)
<1>1. ~Triggered(m)
  BY DEF Triggered, Addressed, Slash, Sticky
<1>2. m.user # Self
  BY DEF Verdict
<1>3. m.user \in Human <=> m.user \notin Bot
  BY <1>2, GateAssumption DEF Message, Sender
<1>4. Verdict(m) # "dropped" <=> Heard(m)
  BY DEF Verdict
<1> QED
  BY <1>1, <1>3, <1>4 DEF Heard, FollowsUp

\* Whether an entry is earned lies in what came before it.
LEMMA EarnedStays ==
  ASSUME GateTypeOK, NEW m \in Message, Handle(m), setting' = setting, NEW j \in DOMAIN log
  PROVE  (IsEarned(j))' <=> IsEarned(j)
<1>1. Len(log) \in Nat /\ DOMAIN log = 1..Len(log) /\ \A k \in DOMAIN log : log'[k] = log[k]
  BY LogGrows
<1>2. \A i \in 1..(j - 1) : i \in DOMAIN log /\ \A k \in i..(j - 1) : k \in DOMAIN log
  BY <1>1
<1>3. \A k \in DOMAIN log : ((Near(k, j))' <=> Near(k, j)) /\ ((KeepsOpen(k))' <=> KeepsOpen(k)) /\ ((Closes(k))' <=> Closes(k))
  BY <1>1 DEF Near, SameSender, KeepsOpen, Closes
<1> QED
  BY <1>1, <1>2, <1>3 DEF IsEarned

\* The newest entry is earned exactly if its sender has an open window.
LEMMA NewestIsEarned ==
  ASSUME EarnedInv, Sticky, ~setting.soft, NEW m \in Message, Handle(m), UNCHANGED <<setting, clock>>,
         m.place # Direct, m.user \in Human, NEW l, l = Len(log) + 1
  PROVE  (IsEarned(l))' <=> Engaged(m)
<1>1. GateTypeOK /\ WindowsAreFiled /\ clock \in Nat
  BY DEF EarnedInv, IdleInv, GateTypeOK
<1>2. /\ l \in Nat \ {0} /\ DOMAIN log = 1..(l - 1)
      /\ \A k \in DOMAIN log : log'[k] = log[k]
      /\ log'[l].user = m.user /\ log'[l].place = m.place /\ log'[l].time = clock
  BY <1>1, LogGrows
<1>3. \A k \in DOMAIN log : ((KeepsOpen(k))' <=> KeepsOpen(k)) /\ ((Closes(k))' <=> Closes(k))
  BY <1>1, EntriesStay
<1>4. \A k \in DOMAIN log :
        (Near(k, l))' <=> log[k].place = m.place /\ (setting.scope = "user" => log[k].user = m.user)
  BY <1>2 DEF Near, SameSender
<1>5. \A i \in DOMAIN log : log[i] \in Entry
  BY <1>1, LenProperties DEF GateTypeOK
<1>6. ASSUME Engaged(m) PROVE (IsEarned(l))'
  <2>1. PICK w \in windows : w.key = KeyOf(m) /\ clock <= w.last + TTL
    BY <1>6 DEF Engaged
  <2>2. PICK i \in DOMAIN log : About(w, i) /\ KeepsOpen(i) /\ log[i].time = w.last /\ OpenSince(w, i)
    BY DEF EarnedInv, WindowsAreEarned
  <2>3. w.place = m.place /\ (setting.scope = "user" => m.user = w.by)
    BY <1>1, <2>1, KeysAreTopics
  <2>4. (Near(i, l))' /\ (KeepsOpen(i))' /\ clock <= log[i].time + TTL
    BY <1>3, <1>4, <2>1, <2>2, <2>3 DEF About
  <2>5. ASSUME NEW k \in i..(l - 1), (Near(k, l))' PROVE ~(Closes(k))'
    <3>1. k \in DOMAIN log /\ k >= i
      BY <1>2, <2>2
    <3>2. About(w, k)
      BY <1>4, <2>3, <2>5, <3>1 DEF About
    <3> QED
      BY <1>3, <2>2, <3>1, <3>2 DEF OpenSince
  <2> QED
    BY <1>2, <2>2, <2>4, <2>5 DEF IsEarned
<1>7. ASSUME (IsEarned(l))' PROVE Engaged(m)
  <2>1. PICK i \in 1..(l - 1) :
          /\ (Near(i, l))' /\ (KeepsOpen(i))' /\ clock <= log'[i].time + TTL
          /\ \A k \in i..(l - 1) : (Near(k, l))' => ~(Closes(k))'
    BY <1>2, <1>7 DEF IsEarned
  <2>2. /\ i \in DOMAIN log /\ log'[i] = log[i] /\ KeepsOpen(i)
        /\ log[i].place = m.place /\ (setting.scope = "user" => log[i].user = m.user)
    BY <1>2, <1>3, <1>4, <2>1
  <2>3. log[i].place \in Topic /\ log[i].time \in Nat
    BY <1>5, <2>2 DEF Entry, Place
  <2>4. ASSUME NEW k \in DOMAIN log, k >= i, Near(k, i) PROVE ~Closes(k)
    <3>1. k \in i..(l - 1)
      BY <1>2, <2>1, <2>4
    <3>2. (Near(k, l))'
      BY <1>4, <2>2, <2>4 DEF Near, SameSender
    <3> QED
      BY <1>3, <2>1, <2>4, <3>1, <3>2
  <2>5. PICK w \in windows : w.key = KeyOf(log[i]) /\ w.last >= log[i].time
    BY <2>1, <2>2, <2>3, <2>4 DEF EarnedInv, EarnedWindowsAreOpen
  <2>6. KeyOf(log[i]) = KeyOf(m)
    BY <1>1, <2>2, SameKeySameTopic
  <2>7. clock <= w.last + TTL
    <3>1. w \in EngagementWindow
      BY <1>1 DEF GateTypeOK
    <3> QED
      BY <1>1, <2>1, <2>2, <2>3, <2>5, <3>1, GateAssumption DEF EngagementWindow
  <2> QED
    BY <2>5, <2>6, <2>7 DEF Engaged
<1> QED
  BY <1>6, <1>7

LEMMA HandleIsEarned ==
  ASSUME EarnedInv, NEW m \in Message, Handle(m), UNCHANGED <<setting, clock>>
  PROVE  FollowUpsAreEarned'
<1> SUFFICES ASSUME NEW j \in DOMAIN log', Sticky, ~setting.soft, log'[j].place # Direct,
                    log'[j].kind \in {"plain", "stop"}, log'[j].verdict \notin {"self", "limited"}
             PROVE  log'[j].verdict # "dropped" <=> (IsEarned(j))'
  BY DEF FollowUpsAreEarned, IsEarned, Sticky
<1>1. GateTypeOK
  BY DEF EarnedInv, IdleInv
<1>2. CASE j \in DOMAIN log
  <2>1. log'[j] = log[j]
    BY <1>1, <1>2, LogGrows
  <2>2. log[j].verdict # "dropped" <=> IsEarned(j)
    BY <1>2, <2>1 DEF EarnedInv, FollowUpsAreEarned, IsEarned
  <2> QED
    BY <1>1, <1>2, <2>1, <2>2, EarnedStays
<1>3. CASE j = Len(log) + 1
  <2>1. /\ log'[j].user = m.user /\ log'[j].place = m.place /\ log'[j].kind = m.kind
        /\ log'[j].verdict = Verdict(m)
    BY <1>1, <1>3, LogGrows
  <2>2. Verdict(m) # "dropped" <=> m.user \in Human /\ Engaged(m)
    BY <2>1, HeardByItsWindow
  <2>3. CASE m.user \in Human
    BY <1>3, <2>1, <2>2, <2>3, NewestIsEarned
  <2>4. CASE m.user \notin Human
    BY <2>1, <2>2, <2>4 DEF IsEarned
  <2> QED
    BY <2>3, <2>4
<1> QED
  BY <1>1, <1>2, <1>3, LogGrows

\* The scanner pops what no message could use any more.
LEMMA ScanKeepsEarned ==
  ASSUME EarnedInv, Scan
  PROVE  WindowsAreEarned' /\ EarnedWindowsAreOpen'
<1>1. windows' = windows \ Expired /\ UNCHANGED <<setting, clock, log>>
  BY DEF Scan, Popped
<1>2. WindowsAreEarned'
  BY <1>1 DEF EarnedInv, WindowsAreEarned, Sticky, About, KeepsOpen, OpenSince, Closes
<1>3. ASSUME Sticky, ~setting.soft, NEW i \in DOMAIN log,
             log[i].place \in Topic, KeepsOpen(i), clock <= log[i].time + TTL,
             \A k \in DOMAIN log : k >= i /\ Near(k, i) => ~Closes(k)
      PROVE  \E w \in windows' : w.key = KeyOf(log[i]) /\ w.last >= log[i].time
  <2>1. PICK w \in windows : w.key = KeyOf(log[i]) /\ w.last >= log[i].time
    BY <1>3 DEF EarnedInv, EarnedWindowsAreOpen
  <2>2. w \in EngagementWindow /\ log[i] \in Entry /\ clock \in Nat
    BY LenProperties DEF EarnedInv, IdleInv, GateTypeOK
  <2>3. w \notin Expired
    BY <1>3, <2>1, <2>2, GateAssumption DEF Expired, EngagementWindow, Entry
  <2> QED
    BY <1>1, <2>1, <2>3
<1>4. EarnedWindowsAreOpen'
  BY <1>1, <1>3 DEF EarnedWindowsAreOpen, Sticky, KeyOf, KeepsOpen, Near, SameSender, Closes
<1> QED
  BY <1>2, <1>4

LEMMA TickKeepsEarned ==
  ASSUME EarnedInv, Tick
  PROVE  WindowsAreEarned' /\ EarnedWindowsAreOpen'
<1>1. clock' = clock + 1 /\ clock \in Nat /\ UNCHANGED <<setting, log, windows>>
  BY DEF Tick, EarnedInv, IdleInv, GateTypeOK
<1>2. WindowsAreEarned'
  BY <1>1 DEF EarnedInv, WindowsAreEarned, Sticky, About, KeepsOpen, OpenSince, Closes
<1>3. ASSUME Sticky, ~setting.soft, NEW i \in DOMAIN log,
             log[i].place \in Topic, KeepsOpen(i), clock' <= log[i].time + TTL,
             \A k \in DOMAIN log : k >= i /\ Near(k, i) => ~Closes(k)
      PROVE  \E w \in windows : w.key = KeyOf(log[i]) /\ w.last >= log[i].time
  <2>1. log[i] \in Entry
    BY LenProperties DEF EarnedInv, IdleInv, GateTypeOK
  <2>2. clock <= log[i].time + TTL
    BY <1>1, <1>3, <2>1, GateAssumption DEF Entry
  <2> QED
    BY <1>3, <2>2 DEF EarnedInv, EarnedWindowsAreOpen
<1>4. EarnedWindowsAreOpen'
  BY <1>1, <1>3 DEF EarnedWindowsAreOpen, Sticky, KeyOf, KeepsOpen, Near, SameSender, Closes
<1> QED
  BY <1>2, <1>4

\* inbound.py:300 and engagement.py:96: whatever the scanner pops and whoever speaks in
\* between, an unaddressed message is heard exactly if a person kept its topic open
\* within the idle time and nobody has closed it since.
THEOREM FollowUpsAreHeardWhenEarned == Spec => []FollowUpsAreEarned
<1>1. Init => EarnedInv
  <2> SUFFICES ASSUME Init PROVE EarnedInv
    OBVIOUS
  <2>1. DOMAIN log = {} /\ windows = {}
    BY DEF Init
  <2> QED
    BY <2>1, IdleInit DEF EarnedInv, WindowsAreEarned, EarnedWindowsAreOpen, FollowUpsAreEarned
<1>2. EarnedInv /\ [Next]_vars => EarnedInv'
  <2> SUFFICES ASSUME EarnedInv, [Next]_vars
               PROVE  WindowsAreEarned' /\ EarnedWindowsAreOpen' /\ FollowUpsAreEarned'
    BY IdleNext DEF EarnedInv
  <2> DEFINE Kept == WindowsAreEarned' /\ EarnedWindowsAreOpen' /\ FollowUpsAreEarned'
  <2>1. ASSUME NEW x \in Incoming, Arrive(x) PROVE Kept
    <3>1. x \in Message
      BY Posted
    <3>2. Handle(x) /\ UNCHANGED <<setting, clock>>
      BY <2>1 DEF Arrive
    <3> QED
      BY <3>1, <3>2, HandleEarnsWindows, HandleOpensEarned, HandleIsEarned
  <2>2. ASSUME UNCHANGED <<setting, log>> PROVE FollowUpsAreEarned'
    BY <2>2 DEF EarnedInv, FollowUpsAreEarned, Sticky, Near, SameSender, KeepsOpen, Closes
  <2>3. ASSUME UNCHANGED <<setting, clock, log, windows>> PROVE Kept
    BY <2>2, <2>3 DEF EarnedInv, WindowsAreEarned, EarnedWindowsAreOpen, Sticky, KeyOf, About, OpenSince, Near,
                      SameSender, KeepsOpen, Closes
  <2>4. ASSUME NEW i \in handlers, Proceed(i) PROVE Kept
    BY <2>3, <2>4 DEF Proceed
  <2>5. CASE Scan
    BY <2>2, <2>5, ScanKeepsEarned DEF Scan
  <2>6. CASE Tick
    BY <2>2, <2>6, TickKeepsEarned DEF Tick
  <2>7. CASE (\E t \in Topic : Announce(t)) \/ UNCHANGED vars
    BY <2>3, <2>7 DEF Announce, vars
  <2> QED
    BY <2>1, <2>4, <2>5, <2>6, <2>7 DEF Next
<1>3. EarnedInv => FollowUpsAreEarned
  BY DEF EarnedInv
<1> QED
  BY <1>1, <1>2, <1>3, PTL DEF Spec

-----------------------------------------------------------------------------
(* The rate limit: counting stamps *)

\* The numbers of a set in 1..n that has all that are below its own are the first ones.
LEMMA InitialSegment ==
  ASSUME NEW n \in Nat, NEW D \in SUBSET (1..n), \A a \in D : \A b \in 1..n : b <= a => b \in D
  PROVE  Cardinality(D) \in 0..n /\ D = 1..Cardinality(D)
<1>1. IsFiniteSet(1..n) /\ Cardinality(1..n) = n
  BY FS_Interval
<1>2. IsFiniteSet(D) /\ Cardinality(D) \in 0..n
  <2>1. IsFiniteSet(D) /\ Cardinality(D) <= n
    BY <1>1, FS_Subset
  <2>2. Cardinality(D) \in Nat
    BY <2>1, FS_CardinalityType
  <2> QED
    BY <2>1, <2>2
<1>3. ASSUME NEW a \in D PROVE a <= Cardinality(D)
  <2>1. (1..a) \in SUBSET D /\ Cardinality(1..a) = a
    BY FS_Interval
  <2>2. Cardinality(1..a) <= Cardinality(D)
    BY <1>2, <2>1, FS_Subset
  <2> QED
    BY <2>1, <2>2
<1>4. ASSUME NEW a \in 1..Cardinality(D), a \notin D PROVE FALSE
  <2>1. D \in SUBSET (1..(a - 1))
    BY <1>2, <1>4
  <2>2. IsFiniteSet(1..(a - 1)) /\ Cardinality(1..(a - 1)) = a - 1
    <3>1. a - 1 \in Nat
      BY <1>2
    <3>2. \A c \in Nat : IsFiniteSet(1..c) /\ Cardinality(1..c) = c
      BY FS_Interval
    <3> QED
      BY <3>1, <3>2
  <2>3. Cardinality(D) <= a - 1
    BY <2>1, <2>2, FS_Subset
  <2> QED
    BY <1>2, <2>3
<1> QED
  <2>1. D \subseteq 1..Cardinality(D)
    BY <1>2, <1>3
  <2>2. 1..Cardinality(D) \subseteq D
    BY <1>4
  <2> QED
    BY <1>2, <2>1, <2>2

\* Moving a set of numbers down does not change how many they are.
LEMMA ShiftedCount ==
  ASSUME NEW n \in Nat, NEW k \in 0..n, NEW S \in SUBSET ((k + 1)..n),
         NEW T, \A a : a \in T <=> a \in 1..(n - k) /\ a + k \in S
  PROVE  Cardinality(T) = Cardinality(S) /\ IsFiniteSet(T)
<1> DEFINE f == [a \in S |-> a - k]
<1>1. IsFiniteSet(S)
  <2>1. IsFiniteSet((k + 1)..n)
    BY FS_Interval
  <2> QED
    BY <2>1, FS_Subset
<1>2. f \in [S -> T]
  <2>1. \A a \in S : a - k \in 1..(n - k) /\ (a - k) + k = a
    OBVIOUS
  <2> QED
    BY <2>1
<1>3. \A a, b \in S : f[a] = f[b] => a = b
  OBVIOUS
<1>4. \A t \in T : \E a \in S : f[a] = t
  <2>1. \A t \in T : t + k \in S /\ (t + k) - k = t
    OBVIOUS
  <2> QED
    BY <2>1
<1> HIDE DEF f
<1>5. f \in Bijection(S, T)
  BY <1>2, <1>3, <1>4 DEF Bijection, Injection, Surjection, IsInjective
<1>6. ExistsBijection(S, T)
  BY <1>5 DEF ExistsBijection
<1> QED
  BY <1>1, <1>6, FS_Bijection

\* The times of q, and the admitted messages of u, of the window that ends at time c.
Since(q, c) == {n \in DOMAIN q : q[n] + Window >= c}
AdmittedSince(u, c) == {i \in DOMAIN log : Admitted(i) /\ log[i].user = u /\ log[i].time + Window >= c}

InOrder(q) == \A n \in DOMAIN q : \A k \in DOMAIN q : k <= n => q[k] <= q[n]

StampsAreInOrder ==
  \A u \in Sender : InOrder(stamps[u]) /\ \A n \in DOMAIN stamps[u] : stamps[u][n] <= clock

\* For every window that ends now or later, the stamps count what was admitted.
StampsCountTheAdmitted ==
  \A u \in Sender : \A c \in Nat : c >= clock => Cardinality(Since(stamps[u], c)) = Cardinality(AdmittedSince(u, c))

LimitInv == GateTypeOK /\ StampsAreInOrder /\ StampsCountTheAdmitted /\ LimitIsExact

\* What is left of q when its first k are taken away.
LEMMA RestProperties ==
  ASSUME NEW S, NEW q \in Seq(S), NEW k \in 0..Len(q), NEW p, p = SubSeq(q, k + 1, Len(q))
  PROVE  /\ p \in Seq(S) /\ Len(p) = Len(q) - k /\ DOMAIN p = 1..(Len(q) - k)
         /\ \A n \in 1..(Len(q) - k) : p[n] = q[n + k] /\ n + k \in 1..Len(q)
<1>1. Len(q) \in Nat /\ \A i \in 1..Len(q) : q[i] \in S
  BY LenProperties, ElementOfSeq
<1> DEFINE s == SubSeq(q, k + 1, Len(q))
<1>2. /\ s \in Seq(S) /\ Len(s) = Len(q) - k
      /\ \A n \in 1..(Len(q) - k) : s[n] = q[n + k]
  <2>1. k + 1 \in 1..(Len(q) + 1)
    BY <1>1
  <2> QED
    BY <1>1, <2>1, SubSeqProperties
<1>3. \A n \in 1..(Len(q) - k) : n + k \in 1..Len(q)
  BY <1>1
<1> HIDE DEF s
<1>4. DOMAIN s = 1..(Len(q) - k)
  BY <1>2, LenProperties
<1>5. p = s
  BY DEF s
<1> QED
  BY <1>2, <1>3, <1>4, <1>5

\* Popping what is too old at time c loses nothing of any window that ends at c or later.
LEMMA PopProperties ==
  ASSUME NEW S, S \subseteq Nat, NEW q \in Seq(S), InOrder(q), NEW c \in Nat,
         NEW old, old = {i \in DOMAIN q : q[i] + Window < c},
         NEW p, p = SubSeq(q, Cardinality(old) + 1, Len(q))
  PROVE  /\ p \in Seq(S) /\ InOrder(p)
         /\ \A n \in DOMAIN p : \E i \in DOMAIN q : p[n] = q[i]
         /\ Len(p) = Cardinality(Since(q, c))
         /\ \A d \in Nat : d >= c => Cardinality(Since(p, d)) = Cardinality(Since(q, d)) /\ IsFiniteSet(Since(p, d))
<1>1. Len(q) \in Nat /\ DOMAIN q = 1..Len(q) /\ Window \in Nat
  BY LenProperties, GateAssumption
<1>2. \A i \in 1..Len(q) : q[i] \in S /\ q[i] \in Nat
  BY <1>1, ElementOfSeq
<1>3. Cardinality(old) \in 0..Len(q) /\ old = 1..Cardinality(old)
  <2>1. \A a \in old : \A b \in 1..Len(q) : b <= a => b \in old
    BY <1>1, <1>2 DEF InOrder
  <2> QED
    BY <1>1, <2>1, InitialSegment
<1>4. PICK k \in 0..Len(q) : k = Cardinality(old) /\ old = 1..k
  BY <1>3
<1>5. /\ p \in Seq(S) /\ Len(p) = Len(q) - k /\ DOMAIN p = 1..(Len(q) - k)
      /\ \A n \in 1..(Len(q) - k) : p[n] = q[n + k] /\ n + k \in 1..Len(q)
  <2>1. p = SubSeq(q, k + 1, Len(q))
    BY <1>4
  <2> QED
    BY <2>1, RestProperties
<1>6. \A i \in 1..Len(q) : q[i] + Window < c <=> i <= k
  BY <1>1, <1>4
<1>7. ASSUME NEW d \in Nat, d >= c
      PROVE  Cardinality(Since(p, d)) = Cardinality(Since(q, d)) /\ IsFiniteSet(Since(p, d))
  <2>1. Since(q, d) \in SUBSET ((k + 1)..Len(q))
    <3>1. ASSUME NEW i \in 1..Len(q), q[i] + Window >= d PROVE i \in (k + 1)..Len(q)
      <4>1. ~(q[i] + Window < c)
        BY <1>1, <1>2, <1>7, <3>1
      <4>2. ~(i <= k)
        BY <1>6, <4>1
      <4> QED
        BY <1>1, <1>4, <4>2
    <3> QED
      BY <1>1, <3>1 DEF Since
  <2>2. \A n : n \in Since(p, d) <=> n \in 1..(Len(q) - k) /\ n + k \in Since(q, d)
    BY <1>1, <1>5 DEF Since
  <2> QED
    BY <1>1, <1>4, <2>1, <2>2, ShiftedCount
<1>8. Len(p) = Cardinality(Since(q, c))
  <2>1. ASSUME NEW n \in 1..(Len(q) - k) PROVE p[n] + Window >= c
    <3>1. p[n] = q[n + k] /\ n + k \in 1..Len(q) /\ ~(n + k <= k)
      BY <1>1, <1>4, <1>5
    <3> QED
      <4>1. ~(q[n + k] + Window < c)
        BY <1>6, <3>1
      <4>2. q[n + k] \in Nat
        BY <1>2, <3>1
      <4>3. q[n + k] + Window >= c
        BY <1>1, <4>1, <4>2
      <4> QED
        BY <3>1, <4>3
  <2>2. Since(p, c) = 1..(Len(q) - k)
    BY <1>5, <2>1 DEF Since
  <2>3. Len(q) - k \in Nat
    BY <1>1, <1>4
  <2>4. \A n \in Nat : Cardinality(1..n) = n
    BY FS_Interval
  <2> QED
    BY <1>5, <1>7, <2>2, <2>3, <2>4
<1>9. InOrder(p)
  <2> SUFFICES ASSUME NEW n \in 1..(Len(q) - k), NEW i \in 1..(Len(q) - k), i <= n PROVE p[i] <= p[n]
    BY <1>5 DEF InOrder
  <2>1. i + k <= n + k
    BY <1>1, <1>4
  <2> QED
    BY <1>1, <1>5, <2>1 DEF InOrder
<1> QED
  BY <1>1, <1>5, <1>7, <1>8, <1>9

\* A window that ends at c reaches back to time t.
ReachesBack(c, t) == t + Window >= c

\* A stamp that is put last keeps the order, and counts in the windows that reach back to it.
LEMMA StampedInOrder ==
  ASSUME NEW S, S \subseteq Nat, NEW p \in Seq(S), InOrder(p), NEW t \in S, \A n \in DOMAIN p : p[n] <= t,
         NEW r, r = Append(p, t)
  PROVE  InOrder(r) /\ \A n \in DOMAIN r : r[n] <= t
<1>1. /\ r \in Seq(S) /\ Len(r) = Len(p) + 1 /\ r[Len(p) + 1] = t
      /\ \A n \in 1..Len(p) : r[n] = p[n]
  BY AppendProperties
<1>2. Len(p) \in Nat /\ DOMAIN p = 1..Len(p) /\ DOMAIN r = 1..(Len(p) + 1)
  BY <1>1, LenProperties
<1> QED
  BY <1>1, <1>2 DEF InOrder

LEMMA StampCounts ==
  ASSUME NEW S, S \subseteq Nat, NEW p \in Seq(S), NEW t \in S, NEW r, r = Append(p, t),
         NEW d \in Nat, IsFiniteSet(Since(p, d))
  PROVE  /\ ReachesBack(d, t) => Cardinality(Since(r, d)) = Cardinality(Since(p, d)) + 1
         /\ ~ReachesBack(d, t) => Cardinality(Since(r, d)) = Cardinality(Since(p, d))
<1> DEFINE l == Len(p) + 1
<1>1. /\ r \in Seq(S) /\ Len(r) = Len(p) + 1 /\ r[Len(p) + 1] = t
      /\ \A n \in 1..Len(p) : r[n] = p[n]
  BY AppendProperties
<1>2. Len(p) \in Nat /\ DOMAIN p = 1..Len(p) /\ DOMAIN r = 1..l
  BY <1>1, LenProperties
<1>3. l \in Nat /\ l >= 1 /\ DOMAIN p = 1..(l - 1) /\ r[l] = t /\ \A n \in 1..(l - 1) : r[n] = p[n]
  BY <1>1, <1>2
<1> HIDE DEF l
<1>4. DOMAIN r = (1..(l - 1)) \cup {l} /\ l \notin 1..(l - 1)
  BY <1>2, <1>3
<1>5. l \notin Since(p, d)
  BY <1>3 DEF Since
<1>6. ASSUME ReachesBack(d, t) PROVE Since(r, d) = Since(p, d) \cup {l}
  BY <1>3, <1>4, <1>6 DEF Since, ReachesBack
<1>7. ASSUME ~ReachesBack(d, t) PROVE Since(r, d) = Since(p, d)
  BY <1>3, <1>4, <1>7 DEF Since, ReachesBack
<1>8. Cardinality(Since(p, d) \cup {l}) = Cardinality(Since(p, d)) + 1
  BY <1>5, FS_AddElement
<1> QED
  BY <1>6, <1>7, <1>8

\* What is admitted now counts in every window that reaches back to now.
LEMMA AdmittedGrow ==
  ASSUME GateTypeOK, NEW m \in Message, Handle(m), clock' = clock, NEW u, NEW c \in Nat
  PROVE  LET counted == u = m.user /\ Verdict(m) \notin {"self", "limited"} /\ clock + Window >= c IN
         /\ IsFiniteSet(AdmittedSince(u, c))
         /\ Cardinality(AdmittedSince(u, c)') = Cardinality(AdmittedSince(u, c)) + (IF counted THEN 1 ELSE 0)
<1> DEFINE counted == u = m.user /\ Verdict(m) \notin {"self", "limited"} /\ clock + Window >= c
<1>1. PICK l : l = Len(log) + 1
  OBVIOUS
<1>2. /\ l \in Nat \ {0} /\ DOMAIN log = 1..(l - 1) /\ DOMAIN log' = 1..l
      /\ \A i \in DOMAIN log : log'[i] = log[i]
      /\ log'[l].user = m.user /\ log'[l].time = clock /\ log'[l].verdict = Verdict(m)
  BY <1>1, LogGrows
<1> DEFINE A == AdmittedSince(u, c)
           B == AdmittedSince(u, c)'
<1>3. DOMAIN log' = DOMAIN log \cup {l} /\ l \notin DOMAIN log
  BY <1>2
<1>4. IsFiniteSet(A) /\ l \notin A /\ Cardinality(A) \in Nat
  <2>1. A \in SUBSET (1..(l - 1)) /\ l - 1 \in Int
    BY <1>2 DEF AdmittedSince
  <2>2. IsFiniteSet(A)
    BY <2>1, FS_Interval, FS_Subset
  <2> HIDE DEF A
  <2> QED
    BY <1>2, <2>1, <2>2, FS_CardinalityType
<1>5. B = IF counted THEN A \cup {l} ELSE A
  BY <1>2, <1>3 DEF AdmittedSince, Admitted
<1> HIDE DEF A, B, counted
<1>6. Cardinality(B) = Cardinality(A) + (IF counted THEN 1 ELSE 0)
  <2>1. CASE counted
    <3>1. Cardinality(A \cup {l}) = Cardinality(A) + 1
      BY <1>4, FS_AddElement
    <3> QED
      BY <1>5, <2>1, <3>1
  <2>2. CASE ~counted
    BY <1>4, <1>5, <2>2
  <2> QED
    BY <2>1, <2>2
<1> QED
  BY <1>4, <1>6 DEF A, B, counted

\* The stamps of u, pruned now.
LEMMA PrunedProperties ==
  ASSUME GateTypeOK, StampsAreInOrder, NEW u \in Sender
  PROVE  /\ Pruned(u) \in Seq(0..MaxTime) /\ InOrder(Pruned(u))
         /\ \A n \in DOMAIN Pruned(u) : Pruned(u)[n] <= clock
         /\ Len(Pruned(u)) = Cardinality(Since(stamps[u], clock))
         /\ \A d \in Nat : d >= clock =>
              Cardinality(Since(Pruned(u), d)) = Cardinality(Since(stamps[u], d)) /\ IsFiniteSet(Since(Pruned(u), d))
<1>1. stamps[u] \in Seq(0..MaxTime) /\ InOrder(stamps[u]) /\ clock \in Nat /\ 0..MaxTime \subseteq Nat
  BY GateAssumption DEF GateTypeOK, StampsAreInOrder
<1> DEFINE q == stamps[u]
           old == {i \in DOMAIN q : q[i] + Window < clock}
           p == SubSeq(q, Cardinality(old) + 1, Len(q))
<1>2. p = Pruned(u)
  BY DEF Pruned, WithoutFirst
<1>3. \A n \in DOMAIN q : q[n] <= clock
  BY DEF StampsAreInOrder
<1>4. /\ p \in Seq(0..MaxTime) /\ InOrder(p)
      /\ \A n \in DOMAIN p : \E i \in DOMAIN q : p[n] = q[i]
      /\ Len(p) = Cardinality(Since(q, clock))
      /\ \A d \in Nat : d >= clock => Cardinality(Since(p, d)) = Cardinality(Since(q, d)) /\ IsFiniteSet(Since(p, d))
  <2> HIDE DEF q
  <2>1. q \in Seq(0..MaxTime) /\ InOrder(q)
    BY <1>1 DEF q
  <2> QED
    BY <1>1, <2>1, PopProperties
<1> HIDE DEF p
<1> QED
  BY <1>2, <1>3, <1>4

\* A message is refused exactly if as many as allowed were admitted in the window.
LEMMA LimitedIsExact ==
  ASSUME LimitInv, NEW m \in Message
  PROVE  Limited(m) <=> ~(Cardinality(AdmittedSince(m.user, clock)) < Limit)
<1>1. Len(Pruned(m.user)) = Cardinality(Since(stamps[m.user], clock)) /\ m.user \in Sender /\ clock \in Nat
  BY PrunedProperties DEF LimitInv, Message, GateTypeOK
<1>2. Len(Pruned(m.user)) \in Nat
  BY <1>1, PrunedType, LenProperties DEF LimitInv
<1>3. Cardinality(Since(stamps[m.user], clock)) = Cardinality(AdmittedSince(m.user, clock))
  BY <1>1 DEF LimitInv, StampsCountTheAdmitted
<1> QED
  BY <1>1, <1>2, <1>3, GateAssumption DEF Limited

LEMMA HandleCounts ==
  ASSUME LimitInv, NEW m \in Message, Handle(m), clock' = clock
  PROVE  StampsAreInOrder' /\ StampsCountTheAdmitted'
<1> DEFINE s == m.user
           v == Verdict(m)
           p == Pruned(s)
<1>1. GateTypeOK /\ StampsAreInOrder /\ StampsCountTheAdmitted /\ s \in Sender /\ clock \in 0..MaxTime /\ clock \in Nat
      /\ 0..MaxTime \subseteq Nat
  <2>1. GateTypeOK /\ StampsAreInOrder /\ StampsCountTheAdmitted /\ s \in Sender
    BY DEF LimitInv, Message
  <2>2. clock \in 0..MaxTime
    BY <2>1 DEF GateTypeOK
  <2>3. MaxTime \in Nat
    BY Bounds
  <2> QED
    BY <2>1, <2>2, <2>3
<1>2. /\ p \in Seq(0..MaxTime) /\ InOrder(p) /\ \A n \in DOMAIN p : p[n] <= clock
      /\ \A d \in Nat : d >= clock =>
           Cardinality(Since(p, d)) = Cardinality(Since(stamps[s], d)) /\ IsFiniteSet(Since(p, d))
  BY <1>1, PrunedProperties
<1>3. /\ stamps \in [Sender -> Seq(0..MaxTime)]
      /\ stamps' = IF v = "self" THEN stamps ELSE [stamps EXCEPT ![s] = IF v = "limited" THEN p ELSE Append(p, clock)]
  BY <1>1 DEF Handle, GateTypeOK
<1> HIDE DEF p, v
<1>4. PICK r : r = Append(p, clock)
  OBVIOUS
<1>5. /\ InOrder(r) /\ \A n \in DOMAIN r : r[n] <= clock
      /\ \A d \in Nat : IsFiniteSet(Since(p, d)) =>
           /\ ReachesBack(d, clock) => Cardinality(Since(r, d)) = Cardinality(Since(p, d)) + 1
           /\ ~ReachesBack(d, clock) => Cardinality(Since(r, d)) = Cardinality(Since(p, d))
  <2>1. PICK T : T = 0..MaxTime
    OBVIOUS
  <2>2. T \subseteq Nat /\ clock \in T /\ p \in Seq(T) /\ InOrder(p) /\ \A n \in DOMAIN p : p[n] <= clock
    BY <1>1, <1>2, <2>1
  <2> QED
    BY <1>4, <2>2, StampedInOrder, StampCounts
<1>6. ASSUME NEW u \in Sender
      PROVE  /\ u # s \/ v = "self" => stamps'[u] = stamps[u]
             /\ u = s /\ v = "limited" => stamps'[u] = p
             /\ u = s /\ v \notin {"self", "limited"} => stamps'[u] = r
  BY <1>1, <1>3, <1>4
<1>7. StampsAreInOrder'
  <2> SUFFICES ASSUME NEW u \in Sender PROVE InOrder(stamps'[u]) /\ \A n \in DOMAIN stamps'[u] : stamps'[u][n] <= clock
    BY DEF StampsAreInOrder, InOrder
  <2>1. CASE u # s \/ v = "self"
    BY <1>1, <1>6, <2>1 DEF StampsAreInOrder
  <2>2. CASE u = s /\ v = "limited"
    BY <1>2, <1>6, <2>2
  <2>3. CASE u = s /\ v \notin {"self", "limited"}
    BY <1>5, <1>6, <2>3
  <2> QED
    BY <2>1, <2>2, <2>3
<1>8. StampsCountTheAdmitted'
  <2> SUFFICES ASSUME NEW u \in Sender, NEW c \in Nat, c >= clock
               PROVE  Cardinality(Since(stamps'[u], c)) = Cardinality(AdmittedSince(u, c)')
    BY DEF StampsCountTheAdmitted, Since, AdmittedSince
  <2> DEFINE one == IF u = s /\ v \notin {"self", "limited"} /\ clock + Window >= c THEN 1 ELSE 0
  <2>1. Cardinality(AdmittedSince(u, c)') = Cardinality(AdmittedSince(u, c)) + one /\ Cardinality(AdmittedSince(u, c)) \in Nat
    BY <1>1, AdmittedGrow, FS_CardinalityType DEF v
  <2>2. Cardinality(Since(stamps[u], c)) = Cardinality(AdmittedSince(u, c))
    BY <1>1 DEF StampsCountTheAdmitted
  <2>3. CASE u # s \/ v = "self"
    BY <1>6, <2>1, <2>2, <2>3
  <2>4. CASE u = s /\ v = "limited"
    BY <1>2, <1>6, <2>1, <2>2, <2>4
  <2>5. CASE u = s /\ v \notin {"self", "limited"}
    BY <1>2, <1>5, <1>6, <2>1, <2>2, <2>5 DEF ReachesBack
  <2> QED
    BY <2>3, <2>4, <2>5
<1> QED
  BY <1>7, <1>8

\* LimitIsExact, of the entry j.
BeforeIn(j) == {i \in 1..(j - 1) : Admitted(i) /\ SameSender(i, j) /\ log[i].time + Window >= log[j].time}

LEMMA HandleIsExact ==
  ASSUME LimitInv, NEW m \in Message, Handle(m)
  PROVE  LimitIsExact'
<1> SUFFICES ASSUME NEW j \in DOMAIN log', log'[j].verdict # "self"
             PROVE  (Admitted(j))' <=> Cardinality(BeforeIn(j)') < Limit
  BY DEF LimitIsExact, BeforeIn
<1>1. PICK l : l = Len(log) + 1
  OBVIOUS
<1>2. /\ l \in Nat \ {0} /\ DOMAIN log = 1..(l - 1) /\ DOMAIN log' = 1..l
      /\ \A i \in DOMAIN log : log'[i] = log[i]
      /\ log'[l].user = m.user /\ log'[l].time = clock /\ log'[l].verdict = Verdict(m)
  BY <1>1, LogGrows DEF LimitInv
<1>3. CASE j \in DOMAIN log
  <2>1. \A i \in 1..(j - 1) : i \in DOMAIN log
    BY <1>2, <1>3
  <2>2. BeforeIn(j)' = BeforeIn(j) /\ ((Admitted(j))' <=> Admitted(j))
    BY <1>2, <1>3, <2>1 DEF BeforeIn, Admitted, SameSender
  <2>3. Admitted(j) <=> Cardinality(BeforeIn(j)) < Limit
    BY <1>2, <1>3 DEF LimitInv, LimitIsExact, BeforeIn
  <2> QED
    BY <2>2, <2>3
<1>4. CASE j = l
  <2>1. BeforeIn(l)' = AdmittedSince(m.user, clock)
    BY <1>2 DEF BeforeIn, AdmittedSince, Admitted, SameSender
  <2>2. (Admitted(l))' <=> ~Limited(m)
    BY <1>2, <1>4 DEF Admitted, Verdict
  <2> QED
    BY <1>4, <2>1, <2>2, LimitedIsExact
<1> QED
  BY <1>2, <1>3, <1>4

\* rate_limiter.py:46: at no time does a sender get more than the limit through in the
\* window before, and nothing is refused while there is room in it.
THEOREM TheLimitIsExact == Spec => []LimitIsExact
<1>1. Init => LimitInv
  <2> SUFFICES ASSUME Init PROVE LimitInv
    OBVIOUS
  <2>1. DOMAIN log = {} /\ \A u \in Sender : DOMAIN stamps[u] = {}
    BY DEF Init
  <2>2. \A u \in Sender : \A c \in Nat : Since(stamps[u], c) = {} /\ AdmittedSince(u, c) = {}
    BY <2>1 DEF Since, AdmittedSince
  <2> QED
    BY <2>1, <2>2, TypesInit DEF LimitInv, StampsAreInOrder, InOrder, StampsCountTheAdmitted, LimitIsExact
<1>2. LimitInv /\ [Next]_vars => LimitInv'
  <2> SUFFICES ASSUME LimitInv, [Next]_vars
               PROVE  StampsAreInOrder' /\ StampsCountTheAdmitted' /\ LimitIsExact'
    BY TypesNext DEF LimitInv
  <2> DEFINE Kept == StampsAreInOrder' /\ StampsCountTheAdmitted' /\ LimitIsExact'
  <2>1. ASSUME NEW x \in Incoming, Arrive(x) PROVE Kept
    <3>1. x \in Message
      BY Posted
    <3>2. Handle(x) /\ clock' = clock
      BY <2>1 DEF Arrive
    <3> QED
      BY <3>1, <3>2, HandleCounts, HandleIsExact
  <2>2. ASSUME UNCHANGED <<log, stamps>>, clock' >= clock, clock \in Nat, clock' \in Nat PROVE Kept
    <3>1. StampsAreInOrder'
      <4>1. ASSUME NEW u \in Sender, NEW n \in DOMAIN stamps[u] PROVE stamps[u][n] <= clock'
        <5>1. stamps[u][n] \in Nat
          BY <4>1, ElementOfSeq, LenProperties, GateAssumption DEF LimitInv, GateTypeOK
        <5> QED
          BY <2>2, <4>1, <5>1 DEF LimitInv, StampsAreInOrder
      <4> QED
        BY <2>2, <4>1 DEF LimitInv, StampsAreInOrder, InOrder
    <3>2. StampsCountTheAdmitted'
      <4>1. \A c \in Nat : c >= clock' => c >= clock
        BY <2>2
      <4> QED
        BY <2>2, <4>1 DEF LimitInv, StampsCountTheAdmitted, Since, AdmittedSince, Admitted
    <3>3. LimitIsExact'
      BY <2>2 DEF LimitInv, LimitIsExact, Admitted, SameSender
    <3> QED
      BY <3>1, <3>2, <3>3
  <2>3. ASSUME UNCHANGED <<clock, log, stamps>> PROVE Kept
    BY <2>2, <2>3 DEF LimitInv, GateTypeOK
  <2>4. ASSUME NEW i \in handlers, Proceed(i) PROVE Kept
    BY <2>3, <2>4 DEF Proceed
  <2>5. CASE Tick
    BY <2>2, <2>5 DEF Tick, LimitInv, GateTypeOK
  <2>6. CASE Scan \/ (\E t \in Topic : Announce(t)) \/ UNCHANGED vars
    BY <2>3, <2>6 DEF Scan, Announce, vars
  <2> QED
    BY <2>1, <2>4, <2>5, <2>6 DEF Next
<1>3. LimitInv => LimitIsExact
  BY DEF LimitInv
<1> QED
  BY <1>1, <1>2, <1>3, PTL DEF Spec
=============================================================================
