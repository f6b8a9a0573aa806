----------------------------- MODULE InboundGate -----------------------------
(***************************************************************************)
(* The inbound gate chain (zulip/inbound.py) with the state its gates      *)
(* keep: the rate limiter, sticky topic engagement and its expiry scanner, *)
(* and the memory of observed chatter.  A reaction comes through the same  *)
(* chain, as the message that ReactionTriggers makes of it.                *)
(*                                                                         *)
(* A handler runs from the self filter to the start reaction without an    *)
(* await: Arrive is one step.  After it, handlers interleave.  Chat modes  *)
(* matter here only by whether a stream needs an address; the other ones   *)
(* differ in what counts as one.                                           *)
(***************************************************************************)
EXTENDS Naturals, Sequences, FiniteSets

CONSTANTS
  Human, Bot, Self,  \* senders: people, other bots, this bot
  Topic,             \* topics of streams
  Monitored,         \* those whose stream is in ZULIP_STREAMS
  Direct,            \* the place of a direct message
  Setting,           \* see SettingShape
  Incoming,          \* what may be posted: see IncomingShape
  Limit, Window,     \* messages a sender may send in a window of time
  TTL,               \* idle time after which an engagement ends
  TurnLimit,         \* turns of a direct-message session; 0 for no limit
  KeptLines,         \* observed lines kept for a topic
  KeptTopics,        \* topics tracked, by the buffer and by the tracker
  MaxTime, MaxMessages, MaxHandlers

Sender == Human \cup Bot \cup {Self}
Place == Topic \cup {Direct}
Kind == {"mention", "plain", "native", "command", "unlisten", "stop", "new", "reaction"}

SettingShape == [engage : BOOLEAN, scope : {"topic", "user"}, addressOnly : BOOLEAN, soft : BOOLEAN,
                 observe : {"off", "room", "conversation"}, group : SUBSET Sender, dm : SUBSET Sender]
IncomingShape == {m \in [user : Sender, place : Place, kind : Kind] : m.kind = "reaction" => m.place \in Monitored}

ASSUME GateAssumption ==
  /\ Direct \notin Topic /\ Monitored \subseteq Topic
  /\ Self \notin Human \cup Bot /\ Human \cap Bot = {}
  /\ Setting \subseteq SettingShape /\ Incoming \subseteq IncomingShape
  /\ Limit \in Nat \ {0} /\ Window \in Nat /\ TTL \in Nat /\ TurnLimit \in Nat
  /\ KeptLines \in Nat \ {0} /\ KeptTopics \in Nat \ {0}
  /\ MaxTime \in Nat /\ MaxMessages \in Nat /\ MaxHandlers \in Nat

VARIABLES
  setting,
  clock,
  log,       \* what arrived: [user, place, kind, time, verdict]
  stamps,    \* RateLimiter._buckets
  windows,   \* TopicEngagementStore._entries: [key, place, by, last, opened, from],
             \* an entry being the object that message from made
  scan,      \* the expiry scanner: windows whose notice is not yet sent
  notices,   \* windows announced as expired
  stopped,   \* windows closed by a stop or a session end
  lines,     \* ObservedContextBuffer._topics: log entries by topic
  recent,    \* its topics, least recently used first
  addressed, \* AddressedTopicTracker._topics, likewise
  handlers,  \* log entries whose handler is past the gate
  counts,    \* _dm_base_message_counts
  turns      \* what was handed over: [entry, quoted, session]

vars == <<setting, clock, log, stamps, windows, scan, notices, stopped, lines, recent, addressed,
          handlers, counts, turns>>

Init ==
  /\ setting \in Setting /\ clock = 0 /\ log = <<>>
  /\ stamps = [u \in Sender |-> <<>>]
  /\ windows = {} /\ scan = {} /\ notices = {} /\ stopped = {}
  /\ lines = [t \in Topic |-> <<>>] /\ recent = <<>> /\ addressed = <<>>
  /\ handlers = {} /\ counts = [u \in Sender |-> 0] /\ turns = {}

-----------------------------------------------------------------------------
(* The gates, as predicates of a message m. *)

Addressed(m) == m.kind = "mention"
Slash(m) == m.kind \in {"native", "command", "unlisten", "new"}

\* The sender's stamps are in order of time, and the old ones are popped in front.
WithoutFirst(u, old) == SubSeq(stamps[u], Cardinality(old) + 1, Len(stamps[u]))

\* Slip: what is exactly one window old is dropped too.
PrunedEarly(u) == WithoutFirst(u, {i \in DOMAIN stamps[u] : stamps[u][i] + Window <= clock})

\* RateLimiter._prune, strict.
Pruned(u) == WithoutFirst(u, {i \in DOMAIN stamps[u] : stamps[u][i] + Window < clock})

Limited(m) == Len(Pruned(m.user)) >= Limit

\* The storage key of the engagement that m would use.
KeyOf(m) == IF setting.scope = "topic" THEN <<m.place>> ELSE <<m.place, m.user>>

\* Is engagement consulted at all?
Sticky == setting.engage /\ setting.addressOnly

\* Slip: a window never lapses until the scanner finds it.
EngagedTillScanned(m) == \E w \in windows : w.key = KeyOf(m)

Engaged(m) == \E w \in windows : w.key = KeyOf(m) /\ clock <= w.last + TTL

\* The trigger gate without engagement.
Triggered(m) ==
  m.kind = "reaction" \/ setting.soft \/ ~setting.addressOnly \/ Addressed(m) \/ Slash(m)

FollowsUp(m) == Sticky /\ ~Triggered(m) /\ Engaged(m) /\ m.user \notin Bot

Stops(m) == m.kind \in {"stop", "unlisten"}
Ends(m) == m.kind = "new"

Heard(m) == Triggered(m) \/ FollowsUp(m)

\* The early returns, in their order.
Verdict(m) ==
  IF m.user = Self THEN "self"
  ELSE IF Limited(m) THEN "limited"
  ELSE IF m.place = Direct THEN "in"
  ELSE IF ~Heard(m) THEN "dropped"
  ELSE IF m.place \notin Monitored THEN "filtered"
  ELSE IF m.user \notin setting.group THEN "blocked"
  ELSE IF Sticky /\ Stops(m) THEN "stopped"
  ELSE "in"

-----------------------------------------------------------------------------
(* What the gates leave behind. *)

\* clear: in topic scope everything of the topic, else the sender's own window.
Cleared(m) == {w \in windows : w.key = KeyOf(m)}

Opens(m) == Sticky /\ ~Ends(m) /\ m.user \notin Bot /\ (Addressed(m) \/ FollowsUp(m))

\* mark_engaged: a new window, or a refresh of what is stored, even expired.
Marked(m) ==
  LET same == {w \in windows : w.key = KeyOf(m)} IN
  IF same = {} THEN windows \cup {[key |-> KeyOf(m), place |-> m.place, by |-> m.user,
                                   last |-> clock, opened |-> clock, from |-> Len(log) + 1]}
  ELSE (windows \ same) \cup {[w EXCEPT !.last = clock] : w \in same}

WindowsAfter(m, verdict) ==
  CASE verdict = "stopped" -> windows \ Cleared(m)
    [] verdict = "in" /\ m.place # Direct /\ Sticky /\ Ends(m) -> windows \ Cleared(m)
    [] verdict = "in" /\ m.place # Direct /\ Opens(m) -> Marked(m)
    [] OTHER -> windows

\* Slip: every topic's chatter is remembered.
RemembersAny(m) == setting.observe # "off" /\ m.place \in Monitored

\* _observe_stream_message
Remembers(m) ==
  /\ setting.observe # "off" /\ m.place \in Monitored /\ ~Addressed(m)
  /\ setting.observe = "conversation" => \E i \in DOMAIN addressed : addressed[i] = m.place

Newest(q, n) == SubSeq(q, IF Len(q) > n THEN Len(q) - n + 1 ELSE 1, Len(q))

Without(q, i) == SubSeq(q, 1, i - 1) \o SubSeq(q, i + 1, Len(q))

\* An OrderedDict: t moves to the end, and the first ones beyond the bound go.
Used(q, t) ==
  LET rest == IF \E i \in DOMAIN q : q[i] = t THEN Without(q, CHOOSE i \in DOMAIN q : q[i] = t) ELSE q IN
  Newest(Append(rest, t), KeptTopics)

\* ObservedContextBuffer.add of log entry i
Observe(t, i) ==
  /\ recent' = Used(recent, t)
  /\ lines' = [x \in Topic |-> IF x = t THEN Newest(Append(lines[t], i), KeptLines)
                               ELSE IF \E j \in DOMAIN recent' : recent'[j] = x THEN lines[x] ELSE <<>>]

\* handle_message up to the start reaction
Handle(m) ==
  LET verdict == Verdict(m)
      i == Len(log) + 1 IN
  /\ log' = Append(log, [user |-> m.user, place |-> m.place, kind |-> m.kind,
                         time |-> clock, verdict |-> verdict])
  /\ stamps' = IF verdict = "self" THEN stamps
               ELSE [stamps EXCEPT ![m.user] = IF verdict = "limited" THEN Pruned(m.user)
                                               ELSE Append(Pruned(m.user), clock)]
  /\ windows' = WindowsAfter(m, verdict)
  /\ stopped' = stopped \cup
       (IF verdict = "stopped" \/ (verdict = "in" /\ m.place # Direct /\ Sticky /\ Ends(m)) THEN Cleared(m) ELSE {})
  /\ IF verdict = "dropped" /\ Remembers(m) THEN Observe(m.place, i) ELSE UNCHANGED <<lines, recent>>
  /\ handlers' = IF verdict = "in" THEN handlers \cup {i} ELSE handlers

Arrive(x) ==
  /\ Len(log) < MaxMessages /\ Cardinality(handlers) < MaxHandlers
  /\ Handle(x)
  /\ UNCHANGED <<setting, clock, scan, notices, addressed, counts, turns>>

-----------------------------------------------------------------------------
(* A handler past the gate. *)

\* The adapter answers its own commands, and refuses direct messages of strangers.
Intercepted(m) == m.kind = "command"
RefusedDm(m) == m.place = Direct /\ m.user \notin setting.dm

\* The session of the n-th direct message of a sender.
Epoch(n) == IF TurnLimit = 0 THEN 0 ELSE (n - 1) \div TurnLimit

\* The observed block that the turn of m carries.
Quoted(m) == IF setting.observe # "off" /\ Addressed(m) THEN lines[m.place] ELSE <<>>

\* The start reaction is placed and the sender's name known: the turn gets its
\* session, is counted, marks its topic as addressed and quotes what was observed
\* there.  The history and the uploads it awaits before it is handed over touch
\* none of this.
Proceed(i) ==
  LET m == log[i] IN
  /\ i \in handlers /\ handlers' = handlers \ {i}
  /\ \/ (Intercepted(m) \/ RefusedDm(m)) /\ UNCHANGED <<addressed, counts, turns>>
     \/ /\ ~Intercepted(m) /\ ~RefusedDm(m) /\ m.place = Direct
        /\ counts' = [counts EXCEPT ![m.user] = @ + 1]
        /\ turns' = turns \cup {[entry |-> i, quoted |-> <<>>, session |-> Epoch(counts'[m.user])]}
        /\ UNCHANGED addressed
     \/ /\ ~Intercepted(m) /\ m.place # Direct
        /\ addressed' = IF Addressed(m) THEN Used(addressed, m.place) ELSE addressed
        /\ turns' = turns \cup {[entry |-> i, quoted |-> Quoted(m), session |-> 0]}
        /\ UNCHANGED counts
  /\ UNCHANGED <<setting, clock, log, stamps, windows, scan, notices, stopped, lines, recent>>

-----------------------------------------------------------------------------
(* The expiry scanner: _engagement_expiry_loop. *)

Expired == {w \in windows : clock > w.last + TTL}

\* Slip: the scanner looks at when a window was opened.
ExpiredByAge == {w \in windows : clock > w.opened + TTL}

Popped == Expired

\* pop_expired; the next scan waits for the notices of this one.
Scan ==
  /\ setting.engage /\ scan = {} /\ Popped # {}
  /\ scan' = Popped /\ windows' = windows \ Popped
  /\ UNCHANGED <<setting, clock, log, stamps, notices, stopped, lines, recent, addressed, handlers, counts, turns>>

\* One notice for all windows of a topic.
Announce(t) ==
  /\ \E w \in scan : w.place = t
  /\ scan' = {w \in scan : w.place # t}
  /\ notices' = notices \cup {[window |-> w, time |-> clock] : w \in {w \in scan : w.place = t}}
  /\ UNCHANGED <<setting, clock, log, stamps, windows, stopped, lines, recent, addressed, handlers, counts, turns>>

Tick ==
  /\ clock < MaxTime /\ clock' = clock + 1
  /\ UNCHANGED <<setting, log, stamps, windows, scan, notices, stopped, lines, recent, addressed, handlers, counts, turns>>

Next ==
  \/ \E x \in Incoming : Arrive(x)
  \/ \E i \in handlers : Proceed(i)
  \/ Scan \/ \E t \in Topic : Announce(t)
  \/ Tick

Spec == Init /\ [][Next]_vars

-----------------------------------------------------------------------------
(* Properties *)

Entry == [user : Sender, place : Place, kind : Kind, time : 0..MaxTime,
          verdict : {"self", "limited", "dropped", "filtered", "blocked", "stopped", "in"}]
EngagementWindow == [key : {<<t>> : t \in Topic} \cup Topic \X Sender, place : Topic, by : Sender,
              last : 0..MaxTime, opened : 0..MaxTime, from : Nat]

\* The shape of the gates' state.
GateTypeOK ==
  /\ setting \in SettingShape /\ clock \in 0..MaxTime /\ log \in Seq(Entry)
  /\ stamps \in [Sender -> Seq(0..MaxTime)]
  /\ windows \in SUBSET EngagementWindow /\ scan \in SUBSET EngagementWindow /\ stopped \in SUBSET EngagementWindow
  /\ notices \in SUBSET [window : EngagementWindow, time : 0..MaxTime]
  /\ lines \in [Topic -> Seq(Nat)] /\ recent \in Seq(Topic) /\ addressed \in Seq(Topic)
  /\ handlers \in SUBSET (DOMAIN log) /\ counts \in [Sender -> Nat]
  /\ turns \in SUBSET [entry : DOMAIN log, quoted : Seq(Nat), session : Nat]

Admitted(i) == log[i].verdict \notin {"self", "limited"}
SameSender(i, j) == log[i].user = log[j].user

\* rate_limiter.py:46: of one sender no more than the limit gets through in any
\* window, and nothing is refused while there is room in it.
LimitIsExact ==
  \A j \in DOMAIN log : log[j].verdict # "self" =>
    LET before == {i \in 1..(j - 1) : Admitted(i) /\ SameSender(i, j) /\ log[i].time + Window >= log[j].time} IN
    Admitted(j) <=> Cardinality(before) < Limit

\* What concerns the engagement of entry j's topic, and in user scope of its user.
Near(i, j) == log[i].place = log[j].place /\ (setting.scope = "user" => SameSender(i, j))
KeepsOpen(i) == log[i].verdict = "in" /\ log[i].kind \in {"mention", "plain", "stop"} /\ log[i].user \in Human
Closes(i) == log[i].verdict = "stopped" \/ (log[i].verdict = "in" /\ log[i].kind = "new")

\* inbound.py:300 and engagement.py:96: an unaddressed message is heard exactly if
\* a person, by an address or a follow-up of their own, spoke within the idle time
\* and nobody has closed the topic since.  Bots neither open, nor keep open, nor
\* use a window.
FollowUpsAreEarned ==
  \A j \in DOMAIN log :
    /\ Sticky /\ ~setting.soft /\ log[j].place # Direct
    /\ log[j].kind \in {"plain", "stop"} /\ log[j].verdict \notin {"self", "limited"}
    => (log[j].verdict # "dropped" <=>
          /\ log[j].user \in Human
          /\ \E i \in 1..(j - 1) :
               /\ Near(i, j) /\ KeepsOpen(i) /\ log[j].time <= log[i].time + TTL
               /\ \A k \in i..(j - 1) : Near(k, j) => ~Closes(k))

\* adapter.py:1869, "a topic is remembered only once the bot was addressed in it":
\* what a topic's memory holds, and what a turn quotes, was said in that topic, was
\* not itself answered, and in conversation scope follows an address by which the
\* bot was let in.
Rememberable(i, t) ==
  /\ log[i].place = t /\ log[i].verdict = "dropped"
  /\ setting.observe = "conversation" =>
       \E k \in 1..(i - 1) : log[k].place = t /\ log[k].kind = "mention" /\ log[k].verdict = "in"

OnlyConversationsAreRemembered ==
  /\ \A t \in Topic : \A n \in DOMAIN lines[t] : Rememberable(lines[t][n], t)
  /\ \A x \in turns : \A n \in DOMAIN x.quoted : Rememberable(x.quoted[n], log[x.entry].place)

\* adapter.py:1239, "Only natural idle TTL expiry notifies": a window that somebody
\* closed is never announced, and an announced one had been idle for its time.  Idle
\* is meant where an unaddressed message needs the window: the soft gate lets all in.
OnlyIdleWindowsAreAnnounced ==
  /\ \A x \in notices : x.window \notin stopped /\ x.time > x.window.last + TTL
  /\ ~setting.soft => \A x \in notices : \A j \in DOMAIN log :
       /\ log[j].place = x.window.place /\ KeepsOpen(j)
       /\ (setting.scope = "user" => log[j].user = x.window.by)
       => log[j].time <= x.window.last \/ log[j].time > x.window.last + TTL

=============================================================================
