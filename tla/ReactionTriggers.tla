--------------------------- MODULE ReactionTriggers ---------------------------
(***************************************************************************)
(* Reactions that start turns (zulip/adapter.py _handle_reaction_event,    *)
(* zulip/reaction_triggers.py), over the store that keeps them from doing  *)
(* so twice (zulip/dedupe_store.py).                                       *)
(*                                                                         *)
(* An event is checked and claimed without an await; the look-ups of the   *)
(* reacting user and of the message follow, and then the turn goes through *)
(* the gates as any message of that user (InboundGate).  The store is      *)
(* shared with the messages' ids and saved by a debounced timer, which     *)
(* every new id restarts: a save may come at any time after a claim.       *)
(***************************************************************************)
EXTENDS Naturals, Sequences

CONSTANTS
  Reaction,    \* a message, an emoji with an instruction, and who reacts
  Own,         \* the reactions on messages of this bot
  Listened,    \* those on messages of streams it listens to
  AnyMessage,  \* may it act on messages of others?
  ClaimTTL,    \* ttl_ms, 300000
  MaxNow, MaxTaps

ASSUME TriggerAssumption ==
  /\ ClaimTTL \in Nat \ {0} /\ MaxNow \in Nat /\ MaxTaps \in Nat
  /\ AnyMessage \in BOOLEAN

VARIABLES
  now,      \* time, from 1
  cache,    \* _cache: when each reaction was last seen, 0 for never
  disk,     \* the file
  taps,     \* the add events that came: [of, at, seen]
  looking,  \* taps whose handler looks up user and message
  fired,    \* taps that became a turn
  lost      \* taps of which the store has lost the mark

triggerVars == <<now, cache, disk, taps, looking, fired, lost>>

TriggerInit ==
  /\ now = 1
  /\ cache = [r \in Reaction |-> 0] /\ disk = cache
  /\ taps = <<>> /\ looking = {} /\ fired = {} /\ lost = {}

-----------------------------------------------------------------------------
(* ZulipDedupeStore *)

\* check: is the reaction there, and not older than ttl_ms?
Seen(r) == cache[r] # 0 /\ now < cache[r] + ClaimTTL

\* _touch
Touched(r) == [cache EXCEPT ![r] = now]

\* Slip: a reaction is claimed only when its turn is built.
ClaimedLate(r) == cache

\* _touch and _prune, which drops what is older than ttl_ms.
Claimed(r) ==
  [x \in Reaction |-> IF x = r THEN now ELSE IF cache[x] + ClaimTTL < now THEN 0 ELSE cache[x]]

\* The timer fires.  A failing write leaves the file, as if it had not fired.
SaveReactions ==
  /\ disk # cache /\ disk' = cache
  /\ UNCHANGED <<now, cache, taps, looking, fired, lost>>

\* So many ids were new that max_size pushes out the entry touched longest ago.
PushedOut(r) ==
  /\ cache[r] # 0 /\ \A x \in Reaction : cache[x] # 0 => cache[r] <= cache[x]
  /\ cache' = [cache EXCEPT ![r] = 0]
  /\ lost' = lost \cup {i \in DOMAIN taps : taps[i].of = r}
  /\ UNCHANGED <<now, disk, taps, looking, fired>>

\* The process dies, its timer with it, and the next one loads the file.
Restart ==
  /\ cache' = disk
  /\ looking' = {}
  /\ lost' = lost \cup {i \in DOMAIN taps : disk[taps[i].of] < taps[i].at}
  /\ UNCHANGED <<now, disk, taps, fired>>

-----------------------------------------------------------------------------
(* _handle_reaction_event *)

Tapped(r, seen) == Append(taps, [of |-> r, at |-> now, seen |-> seen])

\* A new reaction is added: it is claimed, then looked up.
TapFirst(r) ==
  /\ Len(taps) < MaxTaps /\ ~Seen(r)
  /\ taps' = Tapped(r, FALSE)
  /\ cache' = Claimed(r)
  /\ looking' = looking \cup {Len(taps) + 1}
  /\ UNCHANGED <<now, disk, fired, lost>>

\* It is added again, or its event comes again: nothing but its time is touched, and
\* no save is scheduled for that.
TapAgain(r) ==
  /\ Len(taps) < MaxTaps /\ Seen(r)
  /\ taps' = Tapped(r, TRUE)
  /\ cache' = Touched(r)
  /\ UNCHANGED <<now, disk, looking, fired, lost>>

\* is_eligible_target_message, and the stream's filter.
Eligible(r) == r \in Listened /\ (AnyMessage \/ r \in Own)

\* The user has no address, a look-up fails or the message is none to act on.  The
\* claim stays.
DropTap(i) ==
  /\ i \in looking /\ looking' = looking \ {i}
  /\ UNCHANGED <<now, cache, disk, taps, fired, lost>>

Fire(i) ==
  /\ i \in looking /\ looking' = looking \ {i}
  /\ Eligible(taps[i].of)
  /\ fired' = fired \cup {i}
  /\ UNCHANGED <<now, cache, disk, taps, lost>>

Later ==
  /\ now < MaxNow /\ now' = now + 1
  /\ UNCHANGED <<cache, disk, taps, looking, fired, lost>>

TriggerNext ==
  \/ \E r \in Reaction : TapFirst(r) \/ TapAgain(r) \/ PushedOut(r)
  \/ \E i \in looking : DropTap(i) \/ Fire(i)
  \/ SaveReactions \/ Restart \/ Later

TriggerSpec == TriggerInit /\ [][TriggerNext]_triggerVars

-----------------------------------------------------------------------------
(* Properties *)

\* The shape of the triggers' state.
TriggerTypeOK ==
  /\ now \in Nat \ {0}
  /\ cache \in [Reaction -> Nat] /\ disk \in [Reaction -> Nat]
  /\ taps \in Seq([of : Reaction, at : Nat \ {0}, seen : BOOLEAN])
  /\ looking \in SUBSET (DOMAIN taps) /\ fired \in SUBSET (DOMAIN taps) /\ lost \in SUBSET (DOMAIN taps)

SameReaction(i, j) == taps[i].of = taps[j].of

\* adapter.py:2076, dedupe_store.py:116 and 121: a reaction starts a turn only if it
\* was not tapped for the life of a claim before, taps that came to nothing and taps
\* before a restart included, unless the store lost the mark; and a tap is ignored
\* only for one that came within that time.
OneTurnPerReaction ==
  /\ \A j \in fired : \A i \in 1..(j - 1) :
       SameReaction(i, j) /\ i \notin lost => taps[j].at >= taps[i].at + ClaimTTL
  /\ \A j \in DOMAIN taps : taps[j].seen =>
       \E i \in 1..(j - 1) : SameReaction(i, j) /\ taps[j].at < taps[i].at + ClaimTTL

\* README.md:439, "Fires once per (message, emoji, user)", be it tapped or replayed,
\* as long as the store has not lost the mark.
FiresOnce == \A i, j \in fired : SameReaction(i, j) /\ i \notin lost /\ j \notin lost => i = j

=============================================================================
