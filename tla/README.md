# A formal model of the Zulip platform plugin for the Hermes gateway

The plugin (`zulip/`) connects a Hermes agent gateway to a Zulip server.  It is one
asyncio process per account: a poll loop reads the account's event queue, each message
gets a handler task that passes a chain of gates and is handed to the gateway host, and
the host calls back when a run starts and ends.  Everything interesting happens between
two `await`s of these tasks, and across restarts, in four files the plugin keeps on disk.

This directory models that core in TLA+, checks it with TLC on small instances and proves
its main safety properties with TLAPS for all instances.

## 1. The system

| Component | State | Operations | Talks to |
|---|---|---|---|
| **Session queue** `session_queue.py`, `inbound_queue.py` | in-flight mark per session, FIFO per session | queue a turn, overflow, drain, dispatch, release stale marks, sweep | inbound gates (in), gateway host (out, and its start/complete hooks), reactions, audit |
| **Topic registry** `conversations.py` | SQLite: live name -> conversation; former conversation -> topic, last topic, origin | resolve, repoint, rebind, orphan, free, lookups | routing, `/continue`, outbound |
| **Topic routing** `routing.py` | stash of conversations resolved at dispatch | resolve at dispatch, apply renames/moves, verify deletions, route replies | poll loop, server's topic list, registry |
| **Poll loop** `connection.py` | listening flag, last successful read | connect, disconnect, read a batch, re-register, notice a stall | event queue, dedupe, routing, handler tasks |
| **Event queue file** `queue_manager.py` | queue id and last event id, in memory and on disk | load, register, debounced save, expire | poll loop |
| **Dedupe store** `dedupe_store.py` | claims with a TTL and a size limit, in memory and on disk | claim, refresh, prune, debounced save, load | poll loop, recovery, reaction triggers |
| **Recovery** `recovery.py` | none of its own: it reads the reactions on the server | scan, claim, dispatch | dedupe, handlers |
| **Inbound gates** `inbound.py` | none (reads everybody's) | one handler per message | policy, rate limiter, engagement, media, queue |
| **Policy and pairing** `policy.py`, `pairing.py` | allow-lists and pairing codes, one JSON file shared by two processes | check, pair, approve, revoke, refresh | inbound, command line |
| **Approvals** `approval_outcomes.py`, `approvals.py` | pending prompts, routes, deciders, under a lock | note request/route/decider, resolve | host's agent thread, poll loop |
| **Activity trace** `activity_trace.py`, `tracing.py` | a board message, a pending flush, a rotation timer; records on disk | step, flush, rotate, finish, recover | host hooks, server edits |
| **Engagement, rate limiter** `engagement.py`, `rate_limiter.py` | idle entries; sliding windows | mark, touch, expire; check | inbound, periodic scanner |
| **Observed context** `history.py` | remembered lines per topic, topics the bot was addressed in | remember, quote | inbound |
| **Reaction triggers** `reaction_triggers.py`, `adapter.py` | none: it claims in the dedupe store | claim, look up, synthesize a message | server, inbound gates |
| **Pickers** `model_picker.py`, `adapter.py` | open pickers by token, one initiator note per chat, the form shown | open, turn a page, select, cancel, expire, evict | host commands, server posts and deletes |
| **Outbound** `outbound.py`, `text_utils.py`, `secret_guard.py` | one audit entry per chat and thread | guard, upload, cap, chunk, post; arm and report | host, server |
| **Media, commands, admin, settings, CLI, updater** | little or none | one request each | Zulip REST API |

What makes them correct, and what is hard about it:

* *Session queue*: turns of one topic run one at a time and in order, none is lost, and no
  topic stays blocked.  Marks are read and written on both sides of awaits; completion
  hooks can be missing; dispatch can raise; the queue can be full.
* *Registry and routing*: a conversation belongs to one topic through renames, merges,
  splits, deletions and reuse of names; nobody reads in one topic what was said in another;
  a reply in flight finds its topic.  The registry follows the server with a delay, and a
  deletion check acts on an answer that may be old.
* *Delivery*: a message is handled once per process and lost only with its event queue;
  one bad event does not make the bot deaf; an interrupted message is recovered.  Two files
  are saved by timers, the process may stop at any step, claims run out, and every connect
  starts one more recovery pass, which sees what the poll loop and the other passes see.
* *Pairing*: an approval or revocation of one process is not overwritten by the other.
* *Approvals*: each outcome is reported once, by the adapter that showed the prompt, under
  the name of the one who decided it.  The hooks carry no request id and fire for the verdicts
  of the host's own model too.
* *Trace*: a finished run's board is not left, or put back, in progress, and what a dead
  process left open is closed by the next start.  Calls outlive the tasks that made them.
* *Gates*: who is let in is exactly what limit, engagement and lists say, in every order of
  messages and of the expiry scanner's awaits; memory holds only what the setting admits.
* *Reaction triggers*: a reaction acts once while its claim lives.  Events repeat, look-ups
  fail, and the store forgets by age, by size and in a restart.
* *Pickers*: a token is spent once, by its owner; a page turn replaces the form.
* *Outbound*: a silent run is reported once and a run that spoke is not; a refused message
  leaves nothing behind; a cut reply is the reply.  The text changes after it was checked
  (links, references) and after it was cut (the prefix).

The list of hazards, each at its line with the properties that cover it, is under
`hazards` in `PROJECT.json`.

## 2. The modules

    TurnOrder  <--implements--  SessionQueue        <-- MCSessionQueue, SessionQueueProofs
    TopicOwnership <--impl.--   TopicConversations  <-- MCTopicConversations, TopicConversationsProofs
                                     ^ extends
                                TopicRouting        <-- MCTopicRouting, TopicConversationsProofs
                                EventDelivery       <-- DeliveryProofs
                                InboundGate         <-- MCInboundGate, InboundGateProofs
                                ReactionTriggers    <-- MCInboundGate, InboundGateProofs
                                PairingStore        <-- MCPairingStore, PairingStoreProofs
                                ApprovalLedger      <-- MCApprovalLedger, ApprovalLedgerProofs
                                ActivityTrace       <-- MCActivityTrace, ActivityTraceProofs
                                Pickers             <-- MCPickers, PickersProofs
                   TextUtils -> Outbound            <-- MCOutbound, DeliveryProofs

An action is what the event loop (or the SQLite lock) runs without interruption.  Where a
handler awaits, the model has a phase in which other actions can come.

A few definitions carry the comment `Slip:`.  They are not part of any specification:
each is a mapped operation with one plausible mistake, and is used to confirm that the
property it is listed with (`mutants` in `PROJECT.json`) would notice the mistake.

### SessionQueue

| Variable | Code |
|---|---|
| `active[s]` | `SessionQueue._active`; the monotonic time is only "fresh" or older than the limit ("stale") |
| `pending[s]` | `SessionQueue._pending`, deques of `PendingTurn` |
| `turn[m]` | where the coroutine that carries message `m` is suspended |
| `trail[m]` | the hourglass reaction, or the overflow audit line |
| `sweepKeys`, `sweepOn` | locals of `sweep_stale_sessions` |

`_queue_turn` is `QueueSlash`, `DispatchNow`, `Enqueue` or `Overflow`, each with the
`release_stale()` call it makes first.  `_drain_key` is the operator `Drain` (dequeue, mark
or release) followed, after the awaits of the audit and of `unqueued()`, by
`DispatchDrained`; `FailDrained` is its exception path, which releases and drains on.
`StartHook` and `CompleteHook`/`DrainSessionQueue` are the adapter's lifecycle hooks.  The
host is described by `HostOutcome`: `handle_message` raises, answers the turn itself (no
hooks will follow), steers it into the session's run, or opens a run.  The hourglass is
added after the turn is in the queue, so its call may still be in flight when the drain
removes it.

`AgeOut` needs a mark that nothing under way will release: the code sets the limit far
above any real run.  A drain's own awaits are assumed shorter than that limit too.

`TurnOrder` is the promise: per session a line, an arrival is served at once if it stands
alone or joins the end, and the head is eventually served.

### TopicConversations

`live[t]` is the `live_holders` table.  `member[c]`, `lastTopic[c]` and `origin[c]` are the
columns `topic_name`, `last_topic` and birth name of `former_holders` (the origin of a live
conversation is in its live row).  One channel and one account: every statement filters on
both.  `INSERT OR REPLACE` and the carry, displace and audit rows of `repoint` and `rebind`
are done as the statements do them, in one transaction under the registry's lock.

`Rebind` is reached through `Continue`, with the guards of `/continue`: the topic has a
conversation, and the target is in its set.

`TopicOwnership` is the rules of `docs/STABLE-TOPIC-SESSIONS.md` on plain sets: a rename
hands the whole set over, a deletion or a move to another channel leaves no owner, a switch
stays in the set, and a name that is used again owns nothing but its new conversation.

`free()`, the move, breaks these rules: it orphans the conversation the topic talks in, and
leaves the others of the set under the name.  So there are two instances. `KeepsToOwnership`
is the rules as they stand, of all that the tables hold; it is violated (configuration
`registry_moved`, section 3).  `ImplementsOwnership` is the same rules of what no `Free`
left behind: the variable `strays` records the former members that stayed when their topic
moved, and they count as owned by nobody until `/continue` takes one up (`TakesUpAStray`),
which is the only step that is not one of the rules.

### TopicRouting

Extends the registry with the Zulip channel, the event queue, the poll loop's handlers,
the spawned deletion checks (lookup; topic list; orphan: two awaits), and messages whose
runs are in flight with the conversation that was stashed at dispatch.  A *thread* is one
life of a topic on the server, so that the properties can say "the same topic" although
names come and go.  Reply routing is evaluated by the properties at every state, because a
reply can be sent at any time of a run.

### EventDelivery

| Variable | Code or server |
|---|---|
| `serverQ`, `pruned`, `posted` | the queue the server holds, what it dropped after acknowledgement, what was posted |
| `memQ`, `diskQ` | `ZulipQueueManager._current_queue`, its file |
| `claims`, `diskClaims` | `ZulipDedupeStore._cache`, its file |
| `turn`, `taken` | handler tasks of this process for each message |
| `eyes`, `ended`, `lastReply` | what recovery reads from the server |
| `passes[r]` | locals of each `recover_interrupted_messages` task: how far it is, what it found, how many it dispatched |
| `known`, `lapses`, `ever`, `skipped`, `queues`, `mishaps` | history, for the properties and bounds |

A message's number is its event's number; a new queue begins after everything posted.
`ReadBatch` is the whole batch loop, which has no await, up to its end or to the first
event that raises; `EndsBatch` gives the two ends, and in both the position follows.
The next `Request` acknowledges that position and the server forgets up to it.  `Stop` is
a crash or restart at any step.  `Connect` is enabled in the same process after
`Disconnect`, which flushes nothing; every `Connect` starts a recovery pass of its own, and
no `Disconnect` ends one, so that passes overlap.  Claims lapse while the process is down
(`OutliveClaim`), and under a living one (`ClaimLapses`), as when a turn waits for longer than
the TTL; `lapses` counts that, and the properties allow one more handling for each time.

All messages are addressed to the bot and pass the gates.  Registration retries,
backpressure waits and other error answers change nothing and are stutters.

### InboundGate

| Variable | Code |
|---|---|
| `stamps` | `RateLimiter._buckets`, a deque of times per sender |
| `windows`, `scan`, `notices` | `TopicEngagementStore._entries`; what a scan has popped and not yet announced; what was announced |
| `lines`, `recent`, `addressed` | `ObservedContextBuffer` with its LRU order, `AddressedTopicTracker` |
| `log`, `handlers`, `turns` | what arrived with the verdict on it, handlers past the gate, what was handed to the host |
| `counts` | `_dm_base_message_counts`, from which the session of a direct message is named |

A window is a record that carries the number of the message that opened it (`from`), which
stands for the identity of the entry object: the scanner holds popped entries while others
are opened under the same key.

`Arrive` is a handler from the self filter to the start reaction: it has no await until
there.  `Verdict` is the order of the gates, `Handle` what each of them leaves behind.
`Proceed` is the rest of the handler (commands, direct-message policy, quoting, hand over).
The message that a reaction becomes is one of the kinds that arrive (from a monitored topic,
since the trigger looked) and goes through `Handle` like any other.  `Scan` and `Announce`
are the expiry scanner, with an await for each notice.  What `OnlyIdleWindowsAreAnnounced`
says of idleness is said without the soft gate: with it, unaddressed messages are answered
without a window, and the notice about quiet goes out amid a conversation (a finding).

### ReactionTriggers

`cache` and `disk` are `ZulipDedupeStore._cache` and its file, as the time at which each
reaction was last seen.  `TapFirst` and `TapAgain` are the two outcomes of `check`, with what
each does to the cache: a new key is claimed, old ones are pruned and a save is scheduled; a
known one has its time refreshed and nothing is saved.  `DropTap` and `Fire` end the look-ups
that follow, the one for a failure or a message that is none to act on (`Eligible`, under
either setting of `any_message`).  `SaveReactions` is the debounced timer, `Restart` the
death of the process and the load of the next, `PushedOut` the size limit.  A reaction is a
message, an emoji and a person; `taps` are the events.  `lost` names those whose mark the
store has lost (unsaved in a restart, or pushed out).

### PairingStore

`file` is the JSON file, `mem[p]` what a process loaded, `stamped` the processes whose
`_loaded_stamp` still is what `stat()` says.  `ReadFile`, `TakeStamp`, `Save`, `FailSave` and
`Restamp` are the steps of `_load_from_disk` and `_save_to_disk`; `AnswerDm`, `IssueCode`,
`Seed` are the gateway's, `ChangeList` and `LookUpCode` the command's.  `clashed` records
that a process saved over, or stamped, a version it had not read: what the code promises,
it promises without that.

### ApprovalLedger

`pending`, `routes` and `deciders` are the three dictionaries of a ledger, one ledger for
each adapter.  `Ask` is the host's pre hook and `PostHook` its post hook, in which every
live adapter decides for itself whether to report.  Both fire for prompts and for the
verdicts of the host's own model (`Surface`); only the pre hook looks at the surface, so
that the post hook of a verdict takes the request of a prompt that is open in its session,
if there is one. What an adapter has claimed it may fail to write down (`dropped`).
`Accept` and `Refuse` are the two ends of the gate of a decision.  `HostEnds`, `HostDecides`
and `DecidedElsewhere` are the host's side, external.  `upset` and `contested` record the
conditions under which a join by session without ids cannot be right: overlapping prompts
beside a second adapter, a verdict amid a prompt, a full list, adapters that come or go, two
live adapters of one profile, two decisions on their way.  What that leaves out is shown by
two configurations that fail (`approvals_verdict`, `approvals_route`, section 3).

### ActivityTrace

`trace[r]` is `TraceState` with the places its three tasks have reached (start and end of
the run, flush, rotation); `calls` are the worker threads of API calls.  A call whose task is
cancelled, timed out or dead becomes `lost` and may still land.  `board` is what was posted,
`disk` the records, `rec` the locals of `recover_interrupted_traces`.  `cut`, `raced`,
`robbed` and `hurt` name the runs to which one of the known gaps happened, each a finding
or a failed call, and the properties speak of the others.

### Pickers

`pickers` and `open` are `PickerRegistry` of each family; a token is the picker's number.
`Note` is the command that notes its initiator, `HostOpens` the host's call back,
`Click` everything `handle_picker_reply` does up to its first await.  A job is a handler
in an await: `Lands` and `Answered`, `PostFails` (the post of a form), `Dropped` (its
delete), `Applies` (the host's selection).  `Buttons`, `Rendered` and `PageCount` are the
pages.

### Outbound and TextUtils

`sends` holds every send with how far it is: `Send` guards, caps and cuts and posts chunk by
chunk (`Answered`), `SendFile` and `FileDone` are the media sends, `UploadDone` an upload of
a file named in a reply.  The text that is cut is the text that passed the guard, with the
links of its files (`Linked`) and with its references rewritten, unless that fails
(`Render`, `Said`); what is posted is each chunk behind the response prefix (`Message`).
Links, references and the prefix are texts of their own, and may hold a credential.  `Arm`,
`Complete`, `ErrorReaction` and `Notice` are the start hook, the completion hook and its
reports; `Acknowledge` is the end of the dispatch. `auditTurns` is the adapter's dictionary
under its real key, chat and thread.  `TextUtils` holds the pure functions: the cap with its
marker, and the cut by length or by lines.  A loop of the code is a function of the number
of its passes (`LengthPass`, `LinePass`), taken as many times as the text has letters or
lines at most; a pass after the end changes nothing.

## 3. The runs

| Run | Shows | Bounds |
|---|---|---|
| `queue_core` | books, marks, no overtaking, stale marks freed | 2 sessions, 3 turns each, one in each answered natively, room for 1 |
| `queue_order` | waiting turns are not steered; implements `TurnOrder` with its liveness | 2 sessions, 5 turns: a failing dispatch, a slash command; room for all |
| `queue_strand` | **violated**: every waiting turn runs | 2 sessions, 4 turns |
| `registry` | one live name per conversation, held sessions safe, records kept; implements `TopicOwnership` but for what a move left behind | 3 names, 4 conversations, every order of operations |
| `topics` | no leak between topics, living topics keep and deleted topics lose their sessions, replies land | 2 names, 3 threads, 3 messages, 4 server operations, 2 events in the queue |
| `delivery` | handled once per process and claim, durable claims, no silent loss; the loop gets past every event | 3 messages, 1 poison, 2 mishaps, recovery of 1 message a pass |
| `pairing` | nobody is allowed unasked; without a clash approvals, revocations and codes last | 2 users, one named and one the owner, 1 code, 2 starts of the gateway, 2 commands |
| `approvals` | outcomes under their own prompt's id, each audited once, deciders right, profiles apart | 2 profiles, 3 sessions of which 2 share a route, 2 prompts or verdicts, 2 decisions, 2 comings or goings; 1 dropped outcome, behind which 1 decision (`MCBound`) |
| `trace` | finished boards are closed, records follow the board, orphans are closed | 2 runs, a step, a rotation, a fault, a crash or reconnect |
| `gate` | limit, engagement, memory and notices; a reaction acts once in the life of its claim, and is ignored only within it | 2 people, a bot, 2 topics and a direct message, 3 messages, times 0 to 2, 2 settings; 2 reactions, 4 taps, times 1 to 4, a claim lives for 2 |
| `pickers` | selections are single, pickers have owners, forms are replaced, every entry can be reached | 2 people, 2 pickers, 2 clicks, an eviction, a fault; 8 lists |
| `outbound` | silence is reported, status reactions, refusals leave nothing, replies arrive whole | 2 runs under one key, 2 sends, a fault; a text longer than the cap, one with files, one with a credential; a link with a credential and a reference |

Why these bounds reach the interesting cases.  *Queue*: three turns in a session are one
running, one waiting and one newcomer, which is what overtaking and overflow take; the
second session is needed because `release_stale` acts on all of them.  *Registry*: three
names and four conversations allow a chain of two merges and a reuse of a freed name.
*Topics*: three threads allow a merge and a reuse of the old name with a message in each.
The event queue is bounded at two so that events pile up behind each other and behind a
check.  *Pairing*: two runs of the command meet every stage of the gateway's own load and
save, and of each start; a code is issued, shown, and approved or lapsed.  *Approvals*: an
overlap takes two prompts, a misread alias two sessions of one route and two deciders; a
dropped outcome needs one prompt after it that is told. *Reactions* (in `gate`, explored
beside the gates, since they share no state before a turn is handed in): with a claim that
lives for two of four time units, four taps are a first one, one within the claim, one that
the refreshed claim still covers and one after it.  *Trace*: the two runs share the record
file and the recovery; one rotation and one step give each board two texts and each run two
boards.  *Gate*: with a limit of two and a window of one the third message is at the
boundary on either side; engagement of one idle time unit can be refreshed, lapse and be
scanned in three messages.  *Pickers*: two pickers with room for one in the registry is an
eviction; the lists have pages that are exactly full, one short and one over.  *Outbound*:
the text of seven letters with a link is over the cap of seven and takes two chunks of five;
`ShortTextsAreKept` (an assumption of `MCOutbound` that TLC evaluates) checks both ways of
cutting on all texts up to six letters.  *Delivery*: with the poison message in the middle a
batch has events before and after it; two mishaps allow a restart during the recovery from a
restart, or a reconnect that puts a second recovery pass beside the first while a claim
lapses.

Runs say `CHECK_DEADLOCK FALSE` because the environment is finite: when all messages have
been posted, prompts asked or runs ended, and handled, nothing is left to do.

Type invariants are proved for all instances and not repeated by a run; that of `Outbound`
is stated where it is proved.  Several properties are conditional on flags (`clashed`,
`upset`, `cut`, ...) that record, step by step, that one of the known gaps of the code was
met: a finding, a failed call, or a crash between two steps that no code could bridge.  The
mutants confirm that what is left still notices plausible mistakes.

In `topics` the constant `Racing` is FALSE: members do not rename or reuse a name while a
deletion of that very name is being checked.  That is the assumption under which the
design document's rules hold for topics; the ownership rules hold without it (section 5).
`SweeperRuns` is TRUE (engagement mode on); with it off the stale sweep does not exist.

One run is to fail, `queue_strand`: it states what a comment says of the program, and shows
where the code does not do so.  `release_stale()` called from `_queue_turn` for one topic
frees another topic's mark and drains nothing; afterwards the sweeper does not see that
topic, and its waiter stays, against the comment that a stale session "cannot wedge this
topic permanently".

Six more configurations are to fail.  Their cfg files are kept here, each with the constants
of a run above; they are not listed in `PROJECT.json`, and are run by hand with
`tlc -config <name>.cfg <module>`.

| Configuration | Module | Violated, and how |
|---|---|---|
| `registry_moved` | `MCTopicConversations` | `KeepsToOwnership`: a topic that had been merged moves to another channel, and its old name keeps the merged conversation |
| `approvals_verdict` | `MCApprovalLedger` | `VerdictsTakeNoRequest`: the post hook of a verdict takes the pending request of a person's prompt |
| `approvals_route` | `MCApprovalLedger` | `RenderedOutcomesAreAudited`: the first of two outcomes takes the route of both, and the second is nobody's |
| `reactions_again` | `MCInboundGate` | `FiresOnce`: a reaction is set again after its claim ran out, and fires again |
| `outbound_guard` | `MCOutbound` | `NoCredentialIsShown`: a link shows what the guard had no chance to see |
| `outbound_fit` | `MCOutbound` | `MessagesFit`: the prefix makes a full chunk too long |

The properties of the passing runs say what is left of each: `ImplementsOwnership` of
`KeepsToOwnership`, `OneTurnPerReaction` of `FiresOnce`, and so on.

`findings` in `PROJECT.json` lists these and the other places where the code does something
else than a comment, a document or a test says, or than it can mean.  They were met
while modelling, and each names the action or the flag of the model that shows it.
The ones with most weight:

* *Resume and recover.*  The position in the event queue is saved by a timer and `flush()`
  has no caller, so a restart finds a position that the server has pruned past; and the dead
  process's claim, loaded at start, makes recovery skip exactly the interrupted message.
* *Pairing.*  The gateway's save of a new code can put the allow list back to before an
  approval; a revocation of a user named in the settings has no effect.
* *Registry.*  A move to another channel leaves merged conversations to whoever uses the old
  name next.
* *Approvals.*  With two adapters, the outcome of the second of two overlapping prompts is
  not audited; a verdict of the host's model consumes the request of an open prompt.
* *Trace.*  A reconnect runs the recovery against live runs; a step during the flush's edit
  is not shown.
* *Gates.*  Four gates come after the start reaction and leave it on the message; a failed
  look-up burns a reaction's key; a reaction set again after five minutes fires again.
* *Outbound.*  A reply whose first chunks failed is reported as delivered; links, references
  and the prefix are not guarded; a prefix makes a full chunk too long; a chunk limit of zero
  loops for ever.

## 4. Fairness

`SessionQueue`: weak fairness of each turn's own next step (the event loop resumes every
suspended task; the host ends every run it starts), of `AgeOut` (time passes) and of the
sweep (a periodic task).  Nothing makes a message arrive. `EventDelivery`: weak fairness, as
one condition, of getting to the next iteration of the poll loop: `Start` (the supervisor
restarts the gateway), `Connect` and the iteration itself. Recovery passes, handlers, saves,
posts and mishaps have none; mishaps are bounded by `MaxMishaps`, since a loop that is
interrupted for ever need not get anywhere. All other modules are safety only.  Their
promises are about what may not happen, and where something has to happen (a board that is
closed, a silence that is reported) the code has a single task that may be cancelled, may
time out or may die, so what is stated is that it *has* happened once nothing of that run is
under way any more.

## 5. The proofs

All for arbitrary constants: any sets of sessions, turns, topics, people, pickers or runs,
and any bounds.  The assumptions are of two kinds.  The named ones of each module say that
two kinds of values differ or that a bound is a number; TLC evaluates them on every run.
Six theorems have a hypothesis of their own, which the runs' instances satisfy:

| Hypothesis | Of | Why |
|---|---|---|
| `Native = {}`, `RoomForAll` | `RoomyQueueIsAWaitingLine` | an overflow lets a turn past the line, and a turn the host answers natively is never reported as complete; the theorem before it has neither, and speaks of the steps up to the first of these |
| `~Racing` | the four theorems about topics on the server | a name that is reused while its deletion is being checked is what the code cannot tell apart (section 3) |
| `PlatformsHaveOwnRoutes` | `NobodyIsNamedByAGuess` | a Zulip chat is no chat of another platform |

Every safety property that a passing run checks is the subject of a theorem.  Each invariant
was checked by TLC on the run's instance before it was proved.

`SessionQueueProofs`.  `BookInv`, the type invariant and `QueueHoldsTheWaiting`, is
inductive; `DrainEffect` says once what a drain does to it, and the failure path, the
completion hook and the two sweep steps cite it.  `NoOrphanedTurns` and `MarkHasARunner` are
not inductive alone: they could be broken by the stale sweep, and a sweep must be shown
not to touch a session whose completions are reported.  So `WatchInv` says of each such
session that its mark is not stale, that the sweeper does not hold its key, that waiters
imply a mark, and that a mark implies a turn in progress; `DrainedWasQueued` adds that only
turns that were queued are drained, since `Reported` is about those.
`NobodyJumpsTheQueue` is an action property from the same invariant.

`LaneInv` is about sessions that never overflowed and whose turns all report
(`Clean`): at most one turn is between the queue and the end of its run, the mark stands
for it, and therefore nothing that waited is steered into a run
(`QueuedTurnsOpenTheirOwnRun`).  `TrailInv` ties a turn's history to its phase.  With them
each step is mapped to the waiting line of `TurnOrder`, one lemma per kind of step:
`QueueRefinesTurnOrder` for every queue up to the first step that leaves some session
unclean, `RoomyQueueIsAWaitingLine` for the whole safety part `SafeSpec` when none can.

`TopicConversationsProofs`.  `RegistryInv` is the type invariant, one name per
conversation, no live conversation in a former set, and `RecordsAreMinted` (nothing of an
unminted conversation is on record).  Each is needed by the others: `repoint` and `rebind`
may only insert because what they insert is not live elsewhere.  The refinement theorem
maps each registry operation to its step of `TopicOwnership`, or to `TakesUpAStray`, one lemma
per operation.
`NothingIsForgotten` has an invariant of its own beside it (`MintedIsKnown`).

Its second half is about `TopicRouting`.  `RoutingInv` adds to the registry's invariant the
shape of the events, checks and replies, and `RenamesMove`: a rename in the event queue has
two different names.  That is what the server's event promises and what `repoint` needs:
with it every step of the event handlers is one step of the registry, or none, so that `Spec
=> RegistrySpec`, and what the first refinement says of the ownership rules carries over.
No assumption about racing is needed for this; `Racing` matters only for what the properties
say of the topics on the server.

Its third part proves those.  The registry follows the server by the events that wait, so
`ChannelInv` says that there is a history `h` of where every thread was after each of them:
`h[0]` is the channel as the poll loop has seen it, the last is the channel as it is, and
each event is what happened between two (`History`).  A message is placed with respect to
`h[0]` (`Placed`): its conversation is in the session set of its thread's name there; or
the check of another deletion has already emptied that set, ahead of the events that will
tell; or the thread was deleted, and nobody has the conversation, or a check is still on its
way to it, or found no usable answer; or the thread moved away.  What makes this inductive is
that a name whose deletion waits or is checked neither gains a thread nor loses one but by
deletion (`Frozen`), which is where `~Racing` is used.  A server step extends the history
(`ServerIsExplained`), a step of the poll loop drops its head (`PollIsExplained`), and a
check or `/continue` leaves it (`CheckIsExplained`).  `NoLeakAcrossTopics` then follows
since two threads under one name at any point of the history are kin; the other three are
`Placed` when nothing waits.  `RepliesFindTheirTopic` needs besides that a running message
has been resolved (`RunsAreDispatched`).

`DeliveryProofs`, first part.  `DeliveryInv` adds to the properties `ClaimsAreBooked` (for
each message, the handlers this process started and the claim it found on disk are at most
the claim it holds and those that ran out; a process that is down holds nothing) and
`EverHandled` (claims, reactions and recovery's findings all stem from a handler that some
process started).  The first is what makes the poll loop, a replay and any number of
recovery passes exclude each other; the second is what lets a position pass a duplicate.
Nothing is assumed of how the passes overlap, nor that claims do not run out.

`PairingStoreProofs`.  `GrantInv` says of the file and of every memory that it holds nobody
whom nobody named, approved or seeded.  What a process is about to do to the list counts
too, so a job that changes it has a user, and the codes of every list have an owner
(`JobsAreWellFormed`).

`LoneInv` is what holds until two processes clash: a process whose stamp is that of the file
has the file in memory, but for what its own job is about to change (`Mirrors`); the file
is what the decisions so far amount to; every code is on file, lapsed or spent.  A code that
is not saved yet is known to one process only (`NewCodesAreNew`), which has to hold with
clashes too.  `ApprovalsReachTheGateway` and `CodesAreSpentOnce` follow.

`ApprovalLedgerProofs`.  `RoutesAreHome`: an adapter has a route on record only for sessions
of its own profile, since only those are rendered by it.  `ReportsAreKnown`: a report is about
a prompt that was asked, whose session does not change any more.  With several adapters
live only the owners of a route are candidates, so both give `ReportsStayHome`.

`AuditInv` is about settled sessions (not `upset`): every ledger that may speak for a session
lists exactly its open prompts, oldest first (`ListsAreExact`), some ledger may
(`PromptsHaveAKeeper`), and what was decided is reported by all of them or on its way.
So the join without ids takes the right prompt (`OutcomesCarryTheirId`) and none is left out,
unless it was dropped, or told twice (`OutcomesAreAuditedOnce`).  The post hook of a verdict in
a settled session finds no request there.  That a profile has one live adapter is not
assumed: when a second one comes, the profile's sessions are no longer settled
(`OneKeeperEach`).  `DeciderInv` adds that a record of the decider,
under either of a session's two aliases, names the one whose decision is under way.

`InboundGateProofs`.  For reactions: a mark that the store has not lost is in the cache, as
late as the tap or later, or it has run out (`MarksAreKept`), no mark is later than now
(`MarksAreOnTime`), and every mark is of a tap of that reaction (`MarksAreOfTaps`), so a tap
that finds no live mark is a claim's life after all the taps before it (`Spaced`), and one
that is ignored saw one within that time (`IgnoredWereSeen`).  For the memory: `MemoryInv`
adds that handlers past the gate were let in, and that a topic is on the addressed list only
if the log has a mention there that was let in, which the eviction of older topics
preserves.

For engagement: `IdleInv` follows a window from the entry that opened it: it is stored under
its own key, what was popped had been idle, and nobody spoke in its topic, as far as that
keeps it open, between its last use and its end.  `EarnedInv` says it of both directions: an
open window goes back to a message that kept it open and was not closed since, and whoever
kept a topic open within the idle time has a window there; so a follow-up is heard exactly
when it was earned.  For the limiter `LimitInv` equates, for every time, the stamps since
then with the messages admitted since then; that it counts is by the library's facts about
cardinality.

`ActivityTraceProofs`.  That a trace, a record, a call or the recovery names a board which
exists has to be kept while calls land late.  `BoardInv` bounds every number by the boards
posted so far; since boards are never removed, all shapes grow with them (`Growth`), and one
lemma each says what landing, answering and sending do.  A call that posts a board always
adds one (`PostsAreNew`), so the number that a trace takes from it is right.

The three properties come from one invariant in parts.  `TaskInv` says where the three tasks
of a trace are and that each awaited call is the one its task waits for; `OwnInv`, that no
run's board is in another's hands; `FileInv`, which board the file names; `TidyInv` and
`TextsInv`, which boards may read Working and which edits could still make them;
`OneCallInv`, that two edits of a board are never out at once, since the later one could
land first; `RecInv` and `OrphanInv`, that every board a dead run left open is on file
and, while the process lives, ahead of the recovery.  Each part excludes the runs that met a
known gap (`cut`, `raced`, `robbed`, `hurt`), and no more than the property does.

`PickersProofs`.  `Registered`: what jobs, forms and registries name are pickers that were
opened, in the registry of their own family.  On it rest `NoteIsTheAskers` (while no two
requests crossed, the note of the chat is of the one who asked, and so is the picker that
opens from it) and `SpentOnce` (a token is out of the registry as soon as its selection is
under way, and at most one is), from which `SelectionsAreSingle` and
`PickersBelongToTheirAskers` follow.

`FormsInv` says of each picker that is not disturbed that it is calm, with its form or,
once a choice is applied, nothing shown, or that one job is under way on it and how far that
job is in turning, clearing or closing.  `PagesLeadEverywhere` is arithmetic: the page count
is the least that holds every entry (`Division`, `PagesCount`), neighbours are a button
away (`NeighbourPages`), and every entry is on the page its place falls into.

`DeliveryProofs`, second part: the cut of a text.  What a loop computes needs an induction.
The library's induction theorems take an operator and cannot be used; but that a set of
numbers which is not empty has a least member (`LeastNumber`, from the well-foundedness of
`<`) says the same of sets, and a claim about numbers is the set where it holds
(`Induction`, `BoundedInduction`).  `LoopExists` says with it that a loop whose passes stay in
a set has the function of its passes, `LeavesExist` and `JoinsExist` the same of `Without` and
of `FlattenSeq`.  From there on texts can be calculated with: what is left of two texts put
together is what is left of each (`WithoutOfConcat`), stripping loses no letter
(`StrippedKeepsInk`), and the chunks of two cuts put together read as both
(`FlattenOfConcat`).  The loop invariants (`LengthLoop`, `LineLoop`) say that the chunks so far
have the letters up to some place, that what is collected has those up to the next line, and
that a pass gets on by a letter or a line, so that the number of passes is enough.
`ChunksKeepTheText` is what comes out, for every text, limit and both modes, and
`CappedIsPrefix` is the same for the cap.  The letters that are not counted are a parameter
`B` (spaces and newlines at least), since the marker of the cap has to be left out as well.

Third part: `OutboundInv`.  `SendsAreSound` says of every send that what it has shown and
what is left to post are together the chunks of its text with its links, unless a post was
lost, that the guard has passed what is being uploaded or posted, and that nothing is shown
before; `RepliesArriveWhole` follows by the text theorems, `RefusalsLeaveNothing` because a
chunk has no letter that neither its text nor what joined it after the guard has.
`SendsBelong` says whose a send is: a reply of a run that has spoken, a notice of one that
is over.  `TurnIsNoted` is what makes the audit entry right at the end: while a run that
nobody blurs is running, its entry is there and says *sent* exactly if some send of it got
as far as its attempt, and the host awaits the sends of a run before its end.  `KeyIsOfOne`
(two runs between their hooks on one key blur each other) is needed so that the end of one
run cannot take the other's entry away. `LineIsRight` and `NoticesAreCounted` carry the line
and the notice on to the end (`SilenceIsReported`); `MarksFollow` does so for the reactions
between the two hooks' steps (`StatusTellsTheEnd`).  The assumptions are the shapes of
replies and notices, that the limit of a chunk is positive (with zero the code loops for
ever, a finding), and that a credential is neither a newline nor the marker of the cap.
Links, references and the prefix are any texts.

Only model-checked: what must eventually happen (the liveness part of `ImplementsTurnOrder`,
`StaleMarkIsFreed`, `EveryEventIsPassed`), since liveness under fairness is out of the
prover's reach.  What the run and the configurations that fail state is violated, so there
is nothing to prove.

## 6. What is not modelled

* *Text*: what a reference is rewritten to (`refs.py`, `fallback_reader.py`; `Outbound` has the
  rewrite as such, of the whole text or not at all), the topic directive and reasoning blocks
  that are taken out of a reply, tables, mentions and the markdown cut that no setting selects.
* *Inbound media and the workspace*: a download is input and output of one file.
* *Configuration, prompt and command parsing*: pure functions of the environment or of a text.
* *REST wrappers and the probe*: one request each, with small caches of their own.
* *Command line, updater, version*: operator tools that run once outside the gateway.
* *Logging and audit files*: append-only output that nothing reads back.
* *Migrations* of the registry's schema and of the session keys of older gateways: they run
  once before anything else.
* *Failed disk writes* of the queue file and the dedupe store, which the code logs and
  ignores; those of the pairing file are modelled, since the list in memory differs then.
* *Typing indicators and presence*: they keep no state that anything decides on.
* *Compositions*.  `EventDelivery` hands a message over in one step, and `TopicRouting`
  delivers every rename: together with a lossy queue the registry keeps a stale name, and
  the code has nothing that would notice, so there is no property to state.  The hand over to
  the session queue keeps the order of the batch only as far as the handlers' own awaits do.
