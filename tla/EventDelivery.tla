---------------------------- MODULE EventDelivery ----------------------------
(***************************************************************************)
(* How a message reaches a turn across restarts: the poll loop             *)
(* (zulip/connection.py), the persisted event queue                        *)
(* (zulip/queue_manager.py), the persisted dedupe store                    *)
(* (zulip/dedupe_store.py) and startup recovery (zulip/recovery.py).       *)
(*                                                                         *)
(* Messages are numbered in the order of their events, so a message is its *)
(* own event id.  Both files are written by debounced timers, some time    *)
(* after the memory they copy changed.                                     *)
(***************************************************************************)
EXTENDS Naturals, FiniteSets

CONSTANTS
  LastMsg,      \* how many messages are posted
  Poison,       \* messages whose event raises inside the batch loop
  RecoveryCap,  \* RECOVERY_MAX_DISPATCH
  MaxMishaps,   \* bound on restarts, disconnects, stalls, queue expiries and lapses
  Stalls        \* can the poll loop go deaf for poll_stall_seconds?

Msg == 1 .. LastMsg

\* Recovery passes: each connect starts one that no disconnect ends, and every
\* connect of a process but its first follows a mishap.
Pass == 1 .. (MaxMishaps + 1)

ASSUME DeliveryAssumption ==
  /\ LastMsg \in Nat /\ RecoveryCap \in Nat
  /\ MaxMishaps \in Nat
  /\ Poison \subseteq Msg
  /\ Stalls \in BOOLEAN

VARIABLES
  \* the Zulip server
  posted,      \* the newest message
  serverQ,     \* the event queue it serves, 0 when that was garbage collected
  pruned,      \* events up to here are gone from that queue
  eyes,        \* messages with the bot's start reaction
  ended,       \* messages with its success or error reaction
  lastReply,   \* the newest message older than the bot's newest reply
  \* the process
  life,        \* "down", "up" (not listening) or "listening"
  memQ,        \* _current_queue; id 0 is None
  claims,      \* the dedupe cache
  turn,        \* what became of each message in this life
  taken,       \* how many handler tasks this life started for each message
  passes,      \* its recovery passes: how far each is, what it still has to
               \* look at and how many messages it has dispatched
  \* the disk
  diskQ, diskClaims,
  \* history
  known,       \* the claims this life found on disk
  lapses,      \* how often each message's claim ran out in this life
  ever,        \* messages some life started a handler for
  skipped,     \* messages that a new queue starts after, handled by no life
  queues, mishaps

server == <<posted, serverQ, pruned, eyes, ended, lastReply>>
process == <<life, memQ, claims, turn, taken, passes>>
disk == <<diskQ, diskClaims>>
history == <<known, lapses, ever, skipped, queues, mishaps>>
vars == <<server, process, disk, history>>

NoQueue == [id |-> 0, last |-> 0]

Idle == [at |-> "idle", found |-> {}, recovered |-> 0]

Init ==
  /\ posted = 0 /\ serverQ = 0 /\ pruned = 0
  /\ eyes = {} /\ ended = {} /\ lastReply = 0
  /\ life = "down"
  /\ memQ = NoQueue /\ diskQ = NoQueue
  /\ claims = {} /\ diskClaims = {}
  /\ turn = [m \in Msg |-> "none"]
  /\ taken = [m \in Msg |-> 0]
  /\ passes = [r \in Pass |-> Idle]
  /\ known = {} /\ lapses = [m \in Msg |-> 0]
  /\ ever = {} /\ skipped = {}
  /\ queues = 0 /\ mishaps = 0

Mishap == mishaps < MaxMishaps /\ mishaps' = mishaps + 1

-----------------------------------------------------------------------------
(* The server and time *)

Post ==
  /\ posted < LastMsg
  /\ posted' = posted + 1
  /\ UNCHANGED <<serverQ, pruned, eyes, ended, lastReply, process, disk, history>>

\* An event queue nobody polled for minutes is garbage collected.
ServerExpires ==
  /\ serverQ # 0
  /\ life # "listening"
  /\ Mishap
  /\ serverQ' = 0
  /\ UNCHANGED <<posted, pruned, eyes, ended, lastReply, process, disk,
                 known, lapses, ever, skipped, queues>>

\* A claim on disk runs out while the process is down.  What the memory refreshed on
\* a duplicate is not saved for that, so claims need not run out together.
OutliveClaim(m) ==
  /\ life = "down"
  /\ m \in diskClaims
  /\ diskClaims' = diskClaims \ {m}
  /\ UNCHANGED <<server, process, diskQ, history>>

\* ZulipDedupeStore.check takes an entry older than ttl_ms for a new key: five
\* minutes, and a turn may wait for longer behind its session's run.
ClaimLapses(m) ==
  /\ life # "down"
  /\ m \in claims
  /\ Mishap
  /\ claims' = claims \ {m}
  /\ diskClaims' = diskClaims \ {m}
  /\ lapses' = [lapses EXCEPT ![m] = @ + 1]
  /\ UNCHANGED <<server, life, memQ, turn, taken, passes, diskQ,
                 known, ever, skipped, queues>>

-----------------------------------------------------------------------------
(* ZulipQueueManager *)

Register ==
  /\ queues' = queues + 1
  /\ serverQ' = queues + 1
  /\ pruned' = posted
  /\ memQ' = [id |-> queues + 1, last |-> posted]
  /\ diskQ' = memQ'
  /\ skipped' = skipped \cup ((1 .. posted) \ ever)

\* ensure_queue: the queue in memory, else the one on disk, else a new one.
EnsureQueue ==
  \/ /\ memQ # NoQueue
     /\ UNCHANGED <<memQ, diskQ, serverQ, pruned, skipped, queues>>
  \/ /\ memQ = NoQueue /\ diskQ # NoQueue
     /\ memQ' = diskQ
     /\ UNCHANGED <<diskQ, serverQ, pruned, skipped, queues>>
  \/ memQ = NoQueue /\ diskQ = NoQueue /\ Register

MarkQueueExpired ==
  /\ memQ' = NoQueue
  /\ diskQ' = NoQueue

\* _flush_save, when the debounce timer fires.
SaveQueue ==
  /\ memQ # NoQueue /\ diskQ # memQ
  /\ diskQ' = memQ
  /\ UNCHANGED <<server, process, diskClaims, history>>

\* ZulipDedupeStore.save, on its timer thread.
SaveClaims ==
  /\ life # "down"
  /\ diskClaims # claims
  /\ diskClaims' = claims
  /\ UNCHANGED <<server, process, diskQ, history>>

-----------------------------------------------------------------------------
(* Lives of the process *)

\* Slip: the dedupe store is not loaded.
StartForgetful ==
  /\ life = "down"
  /\ life' = "up"
  /\ known' = diskClaims
  /\ UNCHANGED <<server, memQ, claims, turn, taken, passes, disk,
                 lapses, ever, skipped, queues, mishaps>>

\* The adapter is constructed.
Start ==
  /\ life = "down"
  /\ life' = "up"
  /\ claims' = diskClaims
  /\ known' = diskClaims
  /\ UNCHANGED <<server, memQ, turn, taken, passes, disk,
                 lapses, ever, skipped, queues, mishaps>>

\* connect(): the queue first, then a recovery pass and the poll loop side by side.
Connect ==
  /\ life = "up"
  /\ EnsureQueue
  /\ life' = "listening"
  /\ \E r \in Pass :
       /\ passes[r] = Idle
       /\ \A before \in 1 .. (r - 1) : passes[before] # Idle
       /\ passes' = [passes EXCEPT ![r].at = "scanning"]
  /\ UNCHANGED <<posted, eyes, ended, lastReply, claims, turn, taken,
                 diskClaims, known, lapses, ever, mishaps>>

\* disconnect(): the poll loop is cancelled, the recovery passes are not, and nothing
\* is flushed.
Disconnect ==
  /\ life = "listening"
  /\ Mishap
  /\ life' = "up"
  /\ UNCHANGED <<server, memQ, claims, turn, taken, passes, disk,
                 known, lapses, ever, skipped, queues>>

\* The process dies, or the gateway is restarted: memory is gone.
Stop ==
  /\ life # "down"
  /\ Mishap
  /\ life' = "down"
  /\ memQ' = NoQueue
  /\ claims' = {}
  /\ turn' = [m \in Msg |-> "none"]
  /\ taken' = [m \in Msg |-> 0]
  /\ passes' = [r \in Pass |-> Idle]
  /\ known' = {}
  /\ lapses' = [m \in Msg |-> 0]
  /\ UNCHANGED <<server, disk, ever, skipped, queues>>

-----------------------------------------------------------------------------
(* listen_for_events *)

\* The loop's own ensure_queue, after a queue was given up.
Reregister ==
  /\ life = "listening"
  /\ memQ = NoQueue
  /\ EnsureQueue
  /\ UNCHANGED <<posted, eyes, ended, lastReply, life, claims, turn, taken, passes,
                 diskClaims, known, lapses, ever, mishaps>>

\* get_events acknowledges last_event_id: the server prunes up to it.
Request ==
  /\ life = "listening"
  /\ memQ.id # 0 /\ memQ.id = serverQ
  /\ pruned < memQ.last
  /\ pruned' = memQ.last
  /\ UNCHANGED <<posted, serverQ, eyes, ended, lastReply, process, disk, history>>

\* BAD_EVENT_QUEUE_ID, or an event newer than last_event_id was pruned.
BadQueue ==
  /\ life = "listening"
  /\ memQ.id # 0
  /\ memQ.id # serverQ \/ pruned > memQ.last
  /\ MarkQueueExpired
  /\ UNCHANGED <<server, life, claims, turn, taken, passes,
                 diskClaims, history>>

\* check_poll_liveness: no read succeeded for too long.
StalledRead ==
  /\ Stalls
  /\ life = "listening"
  /\ memQ.id # 0
  /\ Mishap
  /\ MarkQueueExpired
  /\ UNCHANGED <<server, life, claims, turn, taken, passes,
                 diskClaims, known, lapses, ever, skipped, queues>>

\* Where the batch ends: at the first event that raises, or at its last event.
EndsBatch(e) ==
  /\ e \in (memQ.last + 1) .. posted
  /\ e \in Poison \/ e = posted
  /\ \A earlier \in (memQ.last + 1) .. (e - 1) : earlier \notin Poison

\* A handler task is started for each of ms.
TakeUp(ms, stage) ==
  /\ turn' = [m \in Msg |-> IF m \in ms THEN stage ELSE turn[m]]
  /\ taken' = [m \in Msg |-> IF m \in ms THEN taken[m] + 1 ELSE taken[m]]
  /\ ever' = ever \cup ms

ReadyToRead ==
  /\ life = "listening"
  /\ memQ.id # 0 /\ memQ.id = serverQ
  /\ pruned = memQ.last
  /\ posted > memQ.last

NewUpTo(e) == {m \in Msg \ (Poison \cup claims) : memQ.last < m /\ m <= e}

\* Slip: after an exception the loop steps over the whole batch.
ReadBatchSkippingTail ==
  /\ ReadyToRead
  /\ \E e \in Msg :
       /\ EndsBatch(e)
       /\ TakeUp(NewUpTo(e), "handling")
       /\ claims' = claims \cup NewUpTo(e)
       /\ memQ' = [memQ EXCEPT !.last = posted]
  /\ UNCHANGED <<server, life, passes, disk, known, lapses, skipped, queues, mishaps>>

\* Slip: after an exception last_event_id stays where it was.
ReadBatchPinned ==
  /\ ReadyToRead
  /\ \E e \in Msg :
       /\ EndsBatch(e)
       /\ TakeUp(NewUpTo(e), "handling")
       /\ claims' = claims \cup NewUpTo(e)
       /\ memQ' = IF e \in Poison THEN memQ ELSE [memQ EXCEPT !.last = e]
  /\ UNCHANGED <<server, life, passes, disk, known, lapses, skipped, queues, mishaps>>

\* The batch loop runs without an await: what is not a duplicate gets a handler
\* task, and last_event_id follows, past the event that raised as well.
ReadBatch ==
  /\ ReadyToRead
  /\ \E e \in Msg :
       /\ EndsBatch(e)
       /\ TakeUp(NewUpTo(e), "handling")
       /\ claims' = claims \cup NewUpTo(e)
       /\ memQ' = [memQ EXCEPT !.last = e]
  /\ UNCHANGED <<server, life, passes, disk, known, lapses, skipped, queues, mishaps>>

-----------------------------------------------------------------------------
(* handle_message and _dispatch_turn, as far as recovery can see them *)

PlaceEyes(m) ==
  /\ turn[m] = "handling"
  /\ turn' = [turn EXCEPT ![m] = "acknowledged"]
  /\ eyes' = eyes \cup {m}
  /\ UNCHANGED <<posted, serverQ, pruned, ended, lastReply, life, memQ, claims, taken,
                 passes, disk, history>>

\* The turn leaves the session queue and handle_message opens a run for it.
HandOver(m) ==
  /\ turn[m] = "acknowledged"
  /\ turn' = [turn EXCEPT ![m] = "handed"]
  /\ UNCHANGED <<server, life, memQ, claims, taken, passes, disk, history>>

\* reactions.success() or error(): the end reaction replaces the eyes.
PlaceEnd(m) ==
  /\ turn[m] = "handed"
  /\ turn' = [turn EXCEPT ![m] = "settled"]
  /\ eyes' = eyes \ {m}
  /\ ended' = ended \cup {m}
  /\ UNCHANGED <<posted, serverQ, pruned, lastReply, life, memQ, claims, taken,
                 passes, disk, history>>

\* A run of the host posts its reply.
Reply(m) ==
  /\ turn[m] \in {"handed", "settled"}
  /\ lastReply' = posted
  /\ UNCHANGED <<posted, serverQ, pruned, eyes, ended, process, disk, history>>

-----------------------------------------------------------------------------
(* recover_interrupted_messages *)

\* A start reaction, no end reaction, and no message of the bot after it.
Interrupted == {m \in eyes \ ended : lastReply < m}

\* A narrow that fails, or RECOVERY_SCAN_LIMIT newer messages, leave some out.
Scan(r) ==
  /\ passes[r].at = "scanning"
  /\ \E ms \in SUBSET Interrupted :
       passes' = [passes EXCEPT ![r] =
                    IF ms = {} THEN Idle ELSE [@ EXCEPT !.at = "dispatching", !.found = ms]]
  /\ UNCHANGED <<server, life, memQ, claims, turn, taken, disk, history>>

\* The messages are gone through oldest first.
LooksAt(r, m) ==
  /\ passes[r].at = "dispatching"
  /\ m \in passes[r].found
  /\ \A other \in passes[r].found : m <= other

\* The pass goes on to the next message, n more dispatched.
Leave(r, m, n) ==
  LET pass == passes[r]
  IN  passes' = [passes EXCEPT ![r] =
                   IF pass.found = {m} THEN Idle
                   ELSE [pass EXCEPT !.found = @ \ {m}, !.recovered = @ + n]]

SkipClaimed(r, m) ==
  /\ LooksAt(r, m)
  /\ m \in claims
  /\ Leave(r, m, 0)
  /\ UNCHANGED <<server, life, memQ, claims, turn, taken, disk, history>>

\* The claim comes before the cap is looked at.
StopAtCap(r, m) ==
  /\ LooksAt(r, m)
  /\ m \notin claims
  /\ passes[r].recovered >= RecoveryCap
  /\ claims' = claims \cup {m}
  /\ passes' = [passes EXCEPT ![r] = Idle]
  /\ UNCHANGED <<server, life, memQ, turn, taken, disk, history>>

\* Slip: recovery looks the message up without claiming it.
RecoverUnclaimed(r, m) ==
  /\ LooksAt(r, m)
  /\ m \notin claims
  /\ passes[r].recovered < RecoveryCap
  /\ TakeUp({m}, "acknowledged")
  /\ Leave(r, m, 1)
  /\ UNCHANGED <<server, life, memQ, claims, disk, known, lapses, skipped, queues, mishaps>>

\* The start reaction is there already.  The next message need not wait for this
\* one: handle_message returns as soon as the turn is queued.
Recover(r, m) ==
  /\ LooksAt(r, m)
  /\ m \notin claims
  /\ passes[r].recovered < RecoveryCap
  /\ claims' = claims \cup {m}
  /\ TakeUp({m}, "acknowledged")
  /\ Leave(r, m, 1)
  /\ UNCHANGED <<server, life, memQ, disk, known, lapses, skipped, queues, mishaps>>

-----------------------------------------------------------------------------

Poll == Reregister \/ Request \/ BadQueue \/ ReadBatch

RecoveryPass(r) ==
  Scan(r) \/ \E m \in Msg : SkipClaimed(r, m) \/ StopAtCap(r, m) \/ Recover(r, m)

Next ==
  \/ Post \/ ServerExpires
  \/ \E m \in Msg : OutliveClaim(m) \/ ClaimLapses(m)
  \/ SaveQueue \/ SaveClaims
  \/ Start \/ Connect \/ Disconnect \/ Stop
  \/ Poll \/ StalledRead
  \/ \E m \in Msg : PlaceEyes(m) \/ HandOver(m) \/ PlaceEnd(m) \/ Reply(m)
  \/ \E r \in Pass : RecoveryPass(r)

Spec == Init /\ [][Next]_vars

\* The supervisor restarts the gateway, which connects, and its loop keeps polling; of
\* recovery nothing is assumed.
Fairness == WF_vars(Start \/ Connect \/ Poll)

FairSpec == Spec /\ Fairness

-----------------------------------------------------------------------------
(* Properties *)

QueueRecord == [id : Nat, last : 0 .. LastMsg]

PassRecord ==
  [at : {"idle", "scanning", "dispatching"}, found : SUBSET Msg, recovered : 0 .. RecoveryCap]

Stage == {"none", "handling", "acknowledged", "handed", "settled"}

DeliveryTypeOK ==
  /\ posted \in 0 .. LastMsg
  /\ serverQ \in Nat
  /\ pruned \in 0 .. LastMsg
  /\ eyes \subseteq Msg /\ ended \subseteq Msg
  /\ lastReply \in 0 .. LastMsg
  /\ life \in {"down", "up", "listening"}
  /\ memQ \in QueueRecord /\ diskQ \in QueueRecord
  /\ claims \subseteq Msg /\ diskClaims \subseteq Msg
  /\ turn \in [Msg -> Stage]
  /\ taken \in [Msg -> Nat]
  /\ passes \in [Pass -> PassRecord]
  /\ lapses \in [Msg -> Nat]
  /\ known \subseteq Msg /\ ever \subseteq Msg /\ skipped \subseteq Msg
  /\ queues \in Nat
  /\ mishaps \in 0 .. MaxMishaps

\* One process starts one handler for a message, and one more for each time its claim
\* ran out, although the poll loop, a replay from a stale last_event_id and any number
\* of recovery passes at once all see it: recovery.py claims an id before dispatching
\* it so that none is answered twice.
HandledOncePerLife == \A m \in Msg : taken[m] <= 1 + lapses[m]

\* A claim that reached the disk outlives the process: whatever is replayed or
\* scanned after the restart, that message is not processed again before the claim
\* runs out.
DurableClaimsHold == \A m \in known : taken[m] <= lapses[m]

\* The position in the event queue, in memory and on disk, never gets past a
\* message that no process took up, save one that raised and one that was posted
\* before a new queue was registered: a restart or a poison batch loses nothing.
NothingIsPassedOver ==
  \A m \in Msg :
    m <= memQ.last \/ m <= diskQ.last => m \in ever \cup skipped \cup Poison

\* A poison batch or a stale queue never pins the loop: it gets past each message.
EveryEventIsPassed ==
  \A m \in Msg : posted >= m ~> memQ.last >= m

=============================================================================
