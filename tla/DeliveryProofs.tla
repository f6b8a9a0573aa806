---------------------------- MODULE DeliveryProofs ----------------------------
(***************************************************************************)
(* Theorems about how messages come in and how they go out.                *)
(*                                                                         *)
(* EventDelivery, for any number of messages, any poison events and any    *)
(* number of restarts: one invariant, and one lemma for each kind of step. *)
(*                                                                         *)
(* Outbound, for any runs and any keys, replies and limits: first the cut  *)
(* of a text of any length into chunks, by induction over the passes of    *)
(* its loops; then the invariant of the sends, the audit and the           *)
(* reactions, and one lemma for each kind of step.                         *)
(***************************************************************************)
EXTENDS EventDelivery, Outbound, Integers, SequenceTheorems, FiniteSetTheorems,
        WellFoundedInduction, TLAPS

-----------------------------------------------------------------------------
(* EventDelivery. *)

Once(claimed, m) == IF m \in claimed THEN 1 ELSE 0

\* Whatever was taken up, in this life or before the claim was saved, is claimed
\* still or again, or its claim ran out; a process that is down holds nothing.
ClaimsAreBooked ==
  /\ \A m \in Msg : taken[m] + Once(known, m) <= lapses[m] + Once(claims, m)
  /\ life = "down" => claims = {} /\ known = {} /\ memQ = NoQueue
  /\ life = "down" => \A m \in Msg : taken[m] = 0 /\ lapses[m] = 0
  /\ life = "down" => \A r \in Pass : passes[r].at = "idle"

\* Claims, reactions and recovery's findings all stem from a handler task.
EverHandled ==
  /\ claims \subseteq ever /\ diskClaims \subseteq ever
  /\ eyes \subseteq ever /\ \A r \in Pass : passes[r].found \subseteq ever
  /\ \A m \in Msg : turn[m] # "none" => m \in ever

DeliveryInv ==
  /\ DeliveryTypeOK
  /\ ClaimsAreBooked
  /\ EverHandled
  /\ NothingIsPassedOver

LEMMA IdleType == DeliveryAssumption => Idle \in PassRecord /\ Idle.found = {}
BY DEF DeliveryAssumption, Idle, PassRecord

LEMMA DeliveryInitially ==
  ASSUME DeliveryAssumption, Init
  PROVE  DeliveryInv
<1>1. DeliveryTypeOK
  BY IdleType DEF DeliveryAssumption, Init, NoQueue, Msg, DeliveryTypeOK, QueueRecord, Stage
<1>2. ClaimsAreBooked /\ EverHandled
  BY IdleType DEF Init, ClaimsAreBooked, EverHandled, Once, Idle
<1>3. NothingIsPassedOver
  BY DEF Init, NoQueue, NothingIsPassedOver, Msg
<1> QED BY <1>1, <1>2, <1>3 DEF DeliveryInv

LEMMA ServerSteps ==
  ASSUME DeliveryAssumption, DeliveryInv, Post \/ ServerExpires \/ Request
  PROVE  DeliveryInv'
<1> USE DEF DeliveryAssumption, Msg, DeliveryInv, DeliveryTypeOK, QueueRecord, Stage,
        ClaimsAreBooked, EverHandled, NothingIsPassedOver, process, disk, history
<1>1. CASE Post
  <2>1. posted' \in 0 .. LastMsg
    BY <1>1 DEF Post
  <2> QED BY <1>1, <2>1 DEF Post
<1>2. CASE ServerExpires
  <2>1. mishaps' \in 0 .. MaxMishaps
    BY <1>2 DEF ServerExpires, Mishap
  <2> QED BY <1>2, <2>1 DEF ServerExpires
<1>4. CASE Request
  BY <1>4 DEF Request
<1> QED BY <1>1, <1>2, <1>4

\* Claims run out: what one of a living process is short of, its lapses make up.
LEMMA ClaimSteps ==
  ASSUME DeliveryAssumption, DeliveryInv, NEW m \in Msg, OutliveClaim(m) \/ ClaimLapses(m)
  PROVE  DeliveryInv'
<1>1. CASE OutliveClaim(m)
  BY <1>1 DEF OutliveClaim, server, process, history, DeliveryInv, DeliveryTypeOK,
              ClaimsAreBooked, EverHandled, NothingIsPassedOver
<1>2. CASE ClaimLapses(m)
  <2>1. /\ UNCHANGED <<posted, serverQ, pruned, eyes, ended, lastReply>>
        /\ UNCHANGED <<life, memQ, turn, taken, passes, diskQ, known, ever, skipped, queues>>
        /\ claims' = claims \ {m} /\ diskClaims' = diskClaims \ {m}
        /\ lapses' = [lapses EXCEPT ![m] = @ + 1]
        /\ life # "down" /\ m \in claims
    BY <1>2 DEF ClaimLapses, server
  <2>2. mishaps' \in 0 .. MaxMishaps
    BY <1>2 DEF ClaimLapses, Mishap, DeliveryInv, DeliveryTypeOK, DeliveryAssumption
  <2>3. lapses' \in [Msg -> Nat]
    BY <2>1 DEF DeliveryInv, DeliveryTypeOK
  <2>4. DeliveryTypeOK'
    BY <2>1, <2>2, <2>3 DEF DeliveryInv, DeliveryTypeOK
  <2>5. \A x \in Msg : taken[x] \in Nat /\ lapses[x] \in Nat
    BY DEF DeliveryInv, DeliveryTypeOK
  <2>6. ASSUME NEW x \in Msg
        PROVE  taken'[x] + Once(known', x) <= lapses'[x] + Once(claims', x)
    <3>1. taken[x] + Once(known, x) <= lapses[x] + Once(claims, x)
      BY DEF DeliveryInv, ClaimsAreBooked
    <3>2. lapses'[x] = IF x = m THEN lapses[x] + 1 ELSE lapses[x]
      BY <2>1 DEF DeliveryInv, DeliveryTypeOK
    <3> QED BY <2>1, <2>5, <3>1, <3>2 DEF Once
  <2>7. ClaimsAreBooked'
    BY <2>1, <2>6 DEF ClaimsAreBooked
  <2>8. EverHandled' /\ NothingIsPassedOver'
    BY <2>1 DEF DeliveryInv, EverHandled, NothingIsPassedOver
  <2> QED BY <2>4, <2>7, <2>8 DEF DeliveryInv
<1> QED BY <1>1, <1>2

LEMMA DiskSteps ==
  ASSUME DeliveryAssumption, DeliveryInv, SaveQueue \/ SaveClaims
  PROVE  DeliveryInv'
BY DEF DeliveryAssumption, Msg, DeliveryInv, DeliveryTypeOK, QueueRecord, Stage,
       ClaimsAreBooked, EverHandled, NothingIsPassedOver, server, process, history,
       SaveQueue, SaveClaims

\* A new queue starts after everything posted, so it passes over nothing that is
\* not in ever or skipped; a stored queue is as good as its file.
LEMMA EnsuredQueue ==
  ASSUME DeliveryAssumption, DeliveryInv, EnsureQueue, UNCHANGED <<posted, ever>>
  PROVE  /\ memQ' \in QueueRecord /\ diskQ' \in QueueRecord
         /\ serverQ' \in Nat /\ pruned' \in 0 .. LastMsg /\ queues' \in Nat
         /\ skipped \subseteq skipped' /\ skipped' \subseteq Msg
         /\ \A m \in Msg : m <= memQ'.last \/ m <= diskQ'.last
                           => m \in ever \cup skipped' \cup Poison
<1> USE DEF DeliveryAssumption, DeliveryInv, DeliveryTypeOK, QueueRecord,
        NothingIsPassedOver
<1>1. CASE UNCHANGED <<memQ, diskQ, serverQ, pruned, skipped, queues>>
  BY <1>1
<1>2. CASE memQ' = diskQ /\ UNCHANGED <<diskQ, serverQ, pruned, skipped, queues>>
  BY <1>2
<1>3. CASE Register
  <2>1. /\ memQ' = [id |-> queues + 1, last |-> posted] /\ diskQ' = memQ'
        /\ serverQ' = queues + 1 /\ queues' = queues + 1 /\ pruned' = posted
        /\ skipped' = skipped \cup ((1 .. posted) \ ever)
    BY <1>3 DEF Register
  <2>2. \A m \in Msg : m <= posted => m \in ever \cup skipped'
    BY <2>1 DEF Msg
  <2>3. skipped' \subseteq Msg
    BY <2>1 DEF Msg
  <2> QED BY <2>1, <2>2, <2>3
<1> QED BY <1>1, <1>2, <1>3 DEF EnsureQueue

\* The pass that a connect starts has found nothing yet.
LEMMA StartedPass ==
  ASSUME DeliveryAssumption, DeliveryInv, Connect
  PROVE  /\ passes' \in [Pass -> PassRecord]
         /\ \A r \in Pass : passes'[r].found \subseteq ever
<1>1. PICK r \in Pass : passes' = [passes EXCEPT ![r].at = "scanning"]
  BY DEF Connect
<1>2. passes[r] \in PassRecord
  BY DEF DeliveryInv, DeliveryTypeOK
<1>3. [passes[r] EXCEPT !.at = "scanning"] \in PassRecord
  BY <1>2 DEF PassRecord
<1>4. [passes[r] EXCEPT !.at = "scanning"].found = passes[r].found
  BY <1>2 DEF PassRecord
<1> QED BY <1>1, <1>3, <1>4 DEF DeliveryInv, DeliveryTypeOK, EverHandled

LEMMA LifeSteps ==
  ASSUME DeliveryAssumption, DeliveryInv,
         Start \/ Connect \/ Disconnect \/ Stop \/ Reregister
  PROVE  DeliveryInv'
<1> USE DEF DeliveryAssumption, DeliveryInv, DeliveryTypeOK, Stage,
        ClaimsAreBooked, EverHandled, NothingIsPassedOver
<1>1. CASE Start
  <2>1. \A m \in Msg : taken'[m] + Once(known', m) <= lapses'[m] + Once(claims', m)
    BY <1>1 DEF Start, Once
  <2> HIDE DEF Once
  <2> QED BY <1>1, <2>1 DEF Start, server, disk
<1>2. CASE Connect
  <2>1. EnsureQueue /\ UNCHANGED <<posted, ever>>
    BY <1>2 DEF Connect
  <2>2. /\ memQ' \in QueueRecord /\ diskQ' \in QueueRecord
        /\ serverQ' \in Nat /\ pruned' \in 0 .. LastMsg /\ queues' \in Nat
        /\ skipped \subseteq skipped' /\ skipped' \subseteq Msg
        /\ \A m \in Msg : m <= memQ'.last \/ m <= diskQ'.last
                          => m \in ever \cup skipped' \cup Poison
    BY <2>1, EnsuredQueue
  <2>3. NothingIsPassedOver'
    BY <2>1, <2>2
  <2>4. /\ passes' \in [Pass -> PassRecord]
        /\ \A r \in Pass : passes'[r].found \subseteq ever
    BY <1>2, StartedPass
  <2> HIDE DEF NothingIsPassedOver
  <2> QED BY <1>2, <2>2, <2>3, <2>4 DEF Connect
<1>3. CASE Disconnect
  BY <1>3 DEF Disconnect, Mishap, server, disk
<1>4. CASE Stop
  <2>1. ClaimsAreBooked'
    BY <1>4 DEF Stop, Once, Idle
  <2>2. EverHandled'
    BY <1>4, IdleType DEF Stop, server, disk
  <2>3. mishaps' \in 0 .. MaxMishaps
    BY <1>4 DEF Stop, Mishap
  <2>4. DeliveryTypeOK'
    BY <1>4, <2>3, IdleType DEF Stop, server, disk, NoQueue, QueueRecord
  <2>5. NothingIsPassedOver'
    BY <1>4 DEF Stop, server, disk, NoQueue, QueueRecord, Msg
  <2> QED BY <2>1, <2>2, <2>4, <2>5
<1>5. CASE Reregister
  <2>1. EnsureQueue /\ UNCHANGED <<posted, ever>>
    BY <1>5 DEF Reregister
  <2>2. /\ memQ' \in QueueRecord /\ diskQ' \in QueueRecord
        /\ serverQ' \in Nat /\ pruned' \in 0 .. LastMsg /\ queues' \in Nat
        /\ skipped \subseteq skipped' /\ skipped' \subseteq Msg
        /\ \A m \in Msg : m <= memQ'.last \/ m <= diskQ'.last
                          => m \in ever \cup skipped' \cup Poison
    BY <2>1, EnsuredQueue
  <2>3. NothingIsPassedOver'
    BY <2>1, <2>2
  <2> HIDE DEF NothingIsPassedOver
  <2> QED BY <1>5, <2>2, <2>3 DEF Reregister
<1> QED BY <1>1, <1>2, <1>3, <1>4, <1>5

\* A queue given up is a queue at position 0.
LEMMA GivenUpQueue ==
  ASSUME DeliveryAssumption, DeliveryInv, BadQueue \/ StalledRead
  PROVE  DeliveryInv'
<1>1. /\ memQ' = NoQueue /\ diskQ' = NoQueue /\ life = "listening"
      /\ UNCHANGED <<posted, serverQ, pruned, eyes, ended, lastReply>>
      /\ UNCHANGED <<life, claims, turn, taken, passes, diskClaims>>
      /\ UNCHANGED <<known, lapses, ever, skipped, queues>>
      /\ mishaps' \in 0 .. MaxMishaps
  <2>1. CASE BadQueue
    BY <2>1 DEF BadQueue, MarkQueueExpired, server, history, DeliveryInv, DeliveryTypeOK
  <2>2. CASE StalledRead
    <3>1. mishaps' \in 0 .. MaxMishaps
      BY <2>2 DEF StalledRead, Mishap, DeliveryInv, DeliveryTypeOK, DeliveryAssumption
    <3> QED BY <2>2, <3>1 DEF StalledRead, MarkQueueExpired, server
  <2> QED BY <2>1, <2>2
<1>2. NoQueue \in QueueRecord /\ \A m \in Msg : ~(m <= NoQueue.last)
  BY DEF NoQueue, QueueRecord, Msg, DeliveryAssumption
<1>3. NothingIsPassedOver'
  BY <1>1, <1>2 DEF NothingIsPassedOver
<1>4. DeliveryTypeOK'
  BY <1>1, <1>2 DEF DeliveryInv, DeliveryTypeOK
<1>5. ClaimsAreBooked' /\ EverHandled'
  BY <1>1 DEF DeliveryInv, ClaimsAreBooked, EverHandled
<1> QED BY <1>3, <1>4, <1>5 DEF DeliveryInv

\* A task for messages without a claim, which they get: the books stay even.
LEMMA TakenUpOnce ==
  ASSUME DeliveryAssumption, DeliveryInv, NEW ms \in SUBSET Msg, NEW reached \in Stage,
         ms \cap claims = {}, TakeUp(ms, reached), claims' = claims \cup ms,
         UNCHANGED <<life, known, lapses>>, life # "down"
  PROVE  /\ turn' \in [Msg -> Stage] /\ taken' \in [Msg -> Nat]
         /\ ever' = ever \cup ms
         /\ \A m \in Msg : taken'[m] + Once(known', m) <= lapses'[m] + Once(claims', m)
         /\ \A m \in Msg : turn'[m] # "none" => m \in ever'
<1>1. turn' \in [Msg -> Stage] /\ taken' \in [Msg -> Nat] /\ ever' = ever \cup ms
  BY DEF TakeUp, DeliveryInv, DeliveryTypeOK
<1>2. ASSUME NEW m \in Msg
      PROVE  taken'[m] + Once(known', m) <= lapses'[m] + Once(claims', m)
  <2>1. taken[m] \in Nat /\ lapses[m] \in Nat
    BY DEF DeliveryInv, DeliveryTypeOK
  <2>2. taken[m] + Once(known, m) <= lapses[m] + Once(claims, m)
    BY DEF DeliveryInv, ClaimsAreBooked
  <2>3. taken'[m] = IF m \in ms THEN taken[m] + 1 ELSE taken[m]
    BY DEF TakeUp
  <2> QED BY <2>1, <2>2, <2>3 DEF Once
<1>3. \A m \in Msg : turn'[m] # "none" => m \in ever'
  BY DEF TakeUp, DeliveryInv, EverHandled
<1> QED BY <1>1, <1>2, <1>3

LEMMA ReadBatchStep ==
  ASSUME DeliveryAssumption, DeliveryInv, ReadBatch
  PROVE  DeliveryInv'
<1>1. PICK e \in Msg :
        /\ TakeUp(NewUpTo(e), "handling")
        /\ claims' = claims \cup NewUpTo(e)
        /\ memQ' = [memQ EXCEPT !.last = e]
  BY DEF ReadBatch
<1>2. /\ UNCHANGED <<posted, serverQ, pruned, eyes, ended, lastReply>>
      /\ UNCHANGED <<life, passes, diskQ, diskClaims>>
      /\ UNCHANGED <<known, lapses, skipped, queues, mishaps>>
      /\ life = "listening"
  BY DEF ReadBatch, ReadyToRead, server, disk
<1>3. NewUpTo(e) \in SUBSET Msg /\ NewUpTo(e) \cap claims = {}
  BY DEF NewUpTo
<1>4. /\ turn' \in [Msg -> Stage] /\ taken' \in [Msg -> Nat]
      /\ ever' = ever \cup NewUpTo(e)
      /\ \A m \in Msg : taken'[m] + Once(known', m) <= lapses'[m] + Once(claims', m)
      /\ \A m \in Msg : turn'[m] # "none" => m \in ever'
  BY <1>1, <1>2, <1>3, TakenUpOnce DEF Stage
<1>5. memQ' \in QueueRecord /\ memQ'.last = e
  <2>1. memQ \in QueueRecord
    BY DEF DeliveryInv, DeliveryTypeOK
  <2>2. e \in 0..LastMsg
    BY DeliveryAssumption DEF DeliveryAssumption, Msg
  <2>3. QED BY <1>1, <2>1, <2>2 DEF QueueRecord
<1>6. NothingIsPassedOver'
  <2> SUFFICES ASSUME NEW m \in Msg, m <= memQ'.last \/ m <= diskQ'.last
               PROVE  m \in ever' \cup skipped' \cup Poison
    BY DEF NothingIsPassedOver
  <2>1. m <= memQ.last \/ m <= diskQ.last => m \in ever \cup skipped \cup Poison
    BY DEF DeliveryInv, NothingIsPassedOver
  <2>2. CASE ~(m <= memQ.last) /\ ~(m <= diskQ.last)
    <3>1. memQ.last < m /\ m <= e
      BY <1>2, <1>5, <2>2 DEF DeliveryInv, DeliveryTypeOK, QueueRecord, Msg
    <3>2. m \in NewUpTo(e) \cup claims \cup Poison
      BY <3>1 DEF NewUpTo
    <3>3. claims \subseteq ever
      BY DEF DeliveryInv, EverHandled
    <3> QED BY <1>4, <3>2, <3>3
  <2> QED BY <1>2, <1>4, <2>1, <2>2
<1>7. EverHandled'
  BY <1>1, <1>2, <1>4 DEF DeliveryInv, EverHandled
<1>8. ClaimsAreBooked'
  BY <1>1, <1>2, <1>4 DEF DeliveryInv, ClaimsAreBooked
<1>9. DeliveryTypeOK'
  BY <1>1, <1>2, <1>3, <1>4, <1>5 DEF DeliveryInv, DeliveryTypeOK
<1> QED BY <1>6, <1>7, <1>8, <1>9 DEF DeliveryInv

LEMMA HandlerSteps ==
  ASSUME DeliveryAssumption, DeliveryInv, NEW m \in Msg,
         PlaceEyes(m) \/ HandOver(m) \/ PlaceEnd(m) \/ Reply(m)
  PROVE  DeliveryInv'
<1> USE DEF DeliveryAssumption, DeliveryInv, DeliveryTypeOK, Stage, ClaimsAreBooked,
        EverHandled, NothingIsPassedOver, history, disk
<1>1. CASE PlaceEyes(m)
  BY <1>1 DEF PlaceEyes
<1>2. CASE HandOver(m)
  BY <1>2 DEF HandOver, server
<1>3. CASE PlaceEnd(m)
  BY <1>3 DEF PlaceEnd
<1>4. CASE Reply(m)
  BY <1>4 DEF Reply, process
<1> QED BY <1>1, <1>2, <1>3, <1>4

\* A pass that leaves a message keeps to what it found.
LEMMA PassGoesOn ==
  ASSUME DeliveryAssumption, DeliveryInv, NEW r \in Pass, NEW m \in Msg, NEW n \in {0, 1},
         passes[r].recovered + n <= RecoveryCap, Leave(r, m, n)
  PROVE  /\ passes' \in [Pass -> PassRecord]
         /\ \A q \in Pass : passes'[q].found \subseteq ever
<1> DEFINE p == passes[r]
           on == [p EXCEPT !.found = p.found \ {m}, !.recovered = p.recovered + n]
           next == IF p.found = {m} THEN Idle ELSE on
<1>1. p \in PassRecord
  BY DEF DeliveryInv, DeliveryTypeOK
<1>2. p.recovered + n \in 0 .. RecoveryCap
  BY <1>1 DEF PassRecord, DeliveryAssumption
<1>3. on \in PassRecord /\ on.found \subseteq p.found
  BY <1>1, <1>2 DEF PassRecord
<1>4. next \in PassRecord /\ next.found \subseteq p.found
  BY <1>3, IdleType
<1>5. passes' = [passes EXCEPT ![r] = next]
  <2>1. passes' = [passes EXCEPT ![r] = IF p.found = {m} THEN Idle
                     ELSE [p EXCEPT !.found = @ \ {m}, !.recovered = @ + n]]
    BY DEF Leave
  <2> QED BY <1>1, <2>1 DEF PassRecord
<1> HIDE DEF next
<1> QED BY <1>4, <1>5 DEF DeliveryInv, DeliveryTypeOK, EverHandled

\* What only moves the passes on keeps the rest.
LEMMA PassMoves ==
  ASSUME DeliveryAssumption, DeliveryInv,
         passes' \in [Pass -> PassRecord], \A q \in Pass : passes'[q].found \subseteq ever,
         claims \subseteq claims', claims' \subseteq ever,
         UNCHANGED <<server, life, memQ, turn, taken, disk, history>>, life # "down"
  PROVE  DeliveryInv'
<1>1. DeliveryTypeOK'
  BY DEF DeliveryInv, DeliveryTypeOK, server, disk, history
<1>2. ASSUME NEW x \in Msg
      PROVE  taken'[x] + Once(known', x) <= lapses'[x] + Once(claims', x)
  <2>1. taken[x] \in Nat /\ lapses[x] \in Nat
    BY DEF DeliveryInv, DeliveryTypeOK
  <2>2. taken[x] + Once(known, x) <= lapses[x] + Once(claims, x)
    BY DEF DeliveryInv, ClaimsAreBooked
  <2>3. UNCHANGED <<taken, known, lapses>>
    BY DEF history
  <2> QED BY <2>1, <2>2, <2>3 DEF Once
<1>3. ClaimsAreBooked'
  BY <1>2 DEF ClaimsAreBooked
<1>4. EverHandled' /\ NothingIsPassedOver'
  BY DEF DeliveryInv, EverHandled, NothingIsPassedOver, server, disk, history
<1> QED BY <1>1, <1>3, <1>4 DEF DeliveryInv

LEMMA RecoverySteps ==
  ASSUME DeliveryAssumption, DeliveryInv, NEW r \in Pass, RecoveryPass(r)
  PROVE  DeliveryInv'
<1>1. ASSUME passes[r].at # "idle" PROVE life # "down"
  <2>1. life = "down" => \A q \in Pass : passes[q].at = "idle"
    BY Zenon DEF DeliveryInv, ClaimsAreBooked
  <2> QED BY <1>1, <2>1
<1>2. passes[r] \in PassRecord /\ claims \subseteq ever /\ passes[r].found \subseteq ever
  BY DEF DeliveryInv, DeliveryTypeOK, EverHandled
<1>3. CASE Scan(r)
  <2>1. PICK ms \in SUBSET Interrupted :
          passes' = [passes EXCEPT ![r] = IF ms = {} THEN Idle
                       ELSE [passes[r] EXCEPT !.at = "dispatching", !.found = ms]]
    BY <1>3 DEF Scan
  <2>2. ms \subseteq ever /\ ms \subseteq Msg
    BY DEF Interrupted, DeliveryInv, EverHandled, DeliveryTypeOK
  <2> DEFINE on == [passes[r] EXCEPT !.at = "dispatching", !.found = ms]
             next == IF ms = {} THEN Idle ELSE on
  <2>3. on \in PassRecord /\ on.found = ms
    BY <1>2, <2>2 DEF PassRecord
  <2>4. next \in PassRecord /\ next.found \subseteq ever
    BY <2>2, <2>3, IdleType
  <2>5. passes' = [passes EXCEPT ![r] = next]
    BY <2>1
  <2> HIDE DEF next
  <2>6. /\ passes' \in [Pass -> PassRecord]
        /\ \A q \in Pass : passes'[q].found \subseteq ever
    BY <2>4, <2>5 DEF DeliveryInv, DeliveryTypeOK, EverHandled
  <2> QED BY <1>1, <1>2, <1>3, <2>6, PassMoves DEF Scan
<1>4. ASSUME NEW m \in Msg, SkipClaimed(r, m) PROVE DeliveryInv'
  <2>1. passes[r].recovered + 0 <= RecoveryCap
    BY <1>2 DEF PassRecord, DeliveryAssumption
  <2>2. /\ passes' \in [Pass -> PassRecord]
        /\ \A q \in Pass : passes'[q].found \subseteq ever
    BY <1>4, <2>1, PassGoesOn DEF SkipClaimed
  <2> QED BY <1>1, <1>2, <1>4, <2>2, PassMoves DEF SkipClaimed, LooksAt
<1>5. ASSUME NEW m \in Msg, StopAtCap(r, m) PROVE DeliveryInv'
  <2>1. /\ passes' \in [Pass -> PassRecord]
        /\ \A q \in Pass : passes'[q].found \subseteq ever
    BY <1>5, IdleType DEF StopAtCap, DeliveryInv, DeliveryTypeOK, EverHandled
  <2>2. claims' \subseteq ever /\ claims \subseteq claims'
    BY <1>2, <1>5 DEF StopAtCap, LooksAt
  <2> QED BY <1>1, <1>5, <2>1, <2>2, PassMoves DEF StopAtCap, LooksAt
<1>6. ASSUME NEW m \in Msg, Recover(r, m) PROVE DeliveryInv'
  <2>1. /\ UNCHANGED <<posted, serverQ, pruned, eyes, ended, lastReply>>
        /\ UNCHANGED <<life, memQ, diskQ, diskClaims, known, lapses, skipped, queues, mishaps>>
        /\ claims' = claims \cup {m} /\ TakeUp({m}, "acknowledged")
        /\ passes[r].recovered < RecoveryCap /\ Leave(r, m, 1)
        /\ {m} \cap claims = {} /\ life # "down"
    BY <1>1, <1>6 DEF Recover, LooksAt, server, disk
  <2>2. passes[r].recovered + 1 <= RecoveryCap
    BY <1>2, <2>1 DEF PassRecord, DeliveryAssumption
  <2>3. /\ turn' \in [Msg -> Stage] /\ taken' \in [Msg -> Nat]
        /\ ever' = ever \cup {m}
        /\ \A x \in Msg : taken'[x] + Once(known', x) <= lapses'[x] + Once(claims', x)
        /\ \A x \in Msg : turn'[x] # "none" => x \in ever'
    BY <2>1, TakenUpOnce DEF Stage
  <2>4. /\ passes' \in [Pass -> PassRecord]
        /\ \A q \in Pass : passes'[q].found \subseteq ever
    BY <2>1, <2>2, PassGoesOn
  <2>5. EverHandled'
    BY <2>1, <2>3, <2>4 DEF DeliveryInv, EverHandled
  <2>6. ClaimsAreBooked'
    BY <2>1, <2>3 DEF ClaimsAreBooked
  <2>7. NothingIsPassedOver'
    BY <2>1, <2>3 DEF DeliveryInv, NothingIsPassedOver
  <2>8. DeliveryTypeOK'
    BY <2>1, <2>3, <2>4 DEF DeliveryInv, DeliveryTypeOK
  <2> QED BY <2>5, <2>6, <2>7, <2>8 DEF DeliveryInv
<1> QED BY <1>3, <1>4, <1>5, <1>6 DEF RecoveryPass

LEMMA DeliveryInductive ==
  ASSUME DeliveryAssumption, DeliveryInv, [Next]_vars
  PROVE  DeliveryInv'
<1>1. CASE UNCHANGED vars
  BY <1>1 DEF vars, server, process, disk, history, DeliveryInv, DeliveryTypeOK,
              ClaimsAreBooked, EverHandled, NothingIsPassedOver
<1> QED
  BY <1>1, ServerSteps, ClaimSteps, DiskSteps, LifeSteps, GivenUpQueue, ReadBatchStep,
     HandlerSteps, RecoverySteps DEF Next, Poll

\* What the books say of a message that was claimed on disk, or is claimed now.
LEMMA BooksAreEven ==
  ASSUME DeliveryInv
  PROVE  HandledOncePerLife /\ DurableClaimsHold
<1> SUFFICES ASSUME NEW m \in Msg
             PROVE  taken[m] <= 1 + lapses[m] /\ (m \in known => taken[m] <= lapses[m])
  BY DEF HandledOncePerLife, DurableClaimsHold, DeliveryInv, DeliveryTypeOK
<1>1. taken[m] \in Nat /\ lapses[m] \in Nat
  BY DEF DeliveryInv, DeliveryTypeOK
<1>2. taken[m] + Once(known, m) <= lapses[m] + Once(claims, m)
  BY DEF DeliveryInv, ClaimsAreBooked
<1> QED BY <1>1, <1>2 DEF Once

-----------------------------------------------------------------------------

\* One process starts no second handler for a message whose claim has not run out: the
\* poll loop, replays and recovery passes that overlap all go through the same claim.
THEOREM OneHandlerPerLife == Spec => []HandledOncePerLife
<1>1. Init => DeliveryInv
  BY DeliveryAssumption, DeliveryInitially
<1>2. DeliveryInv /\ [Next]_vars => DeliveryInv'
  BY DeliveryAssumption, DeliveryInductive
<1>3. DeliveryInv => HandledOncePerLife
  BY BooksAreEven
<1> QED BY <1>1, <1>2, <1>3, PTL DEF Spec

\* A message whose claim a process found on disk is not processed by it before that
\* claim runs out.
THEOREM ClaimsOutliveRestarts == Spec => []DurableClaimsHold
<1>1. Init => DeliveryInv
  BY DeliveryAssumption, DeliveryInitially
<1>2. DeliveryInv /\ [Next]_vars => DeliveryInv'
  BY DeliveryAssumption, DeliveryInductive
<1>3. DeliveryInv => DurableClaimsHold
  BY BooksAreEven
<1> QED BY <1>1, <1>2, <1>3, PTL DEF Spec

\* last_event_id, in memory or on disk, never gets past a message no process took
\* up, other than a poison one and those a newly registered queue starts after.
THEOREM PositionsPassNothingOver == Spec => []NothingIsPassedOver
<1>1. Init => DeliveryInv
  BY DeliveryAssumption, DeliveryInitially
<1>2. DeliveryInv /\ [Next]_vars => DeliveryInv'
  BY DeliveryAssumption, DeliveryInductive
<1>3. DeliveryInv => NothingIsPassedOver
  BY DEF DeliveryInv
<1> QED BY <1>1, <1>2, <1>3, PTL DEF Spec

\* Every variable keeps its type.
THEOREM DeliveryTypes == Spec => []DeliveryTypeOK
<1>1. Init => DeliveryInv
  BY DeliveryAssumption, DeliveryInitially
<1>2. DeliveryInv /\ [Next]_vars => DeliveryInv'
  BY DeliveryAssumption, DeliveryInductive
<1>3. DeliveryInv => DeliveryTypeOK
  BY DEF DeliveryInv
<1> QED BY <1>1, <1>2, <1>3, PTL DEF Spec

-----------------------------------------------------------------------------
(* Texts. *)

(* Induction.  The library's induction theorems are about an operator; these are *)
(* about a set, the values for which the claim holds.                            *)

LEMMA LeastNumber ==
  ASSUME NEW T \in SUBSET Nat, T # {}
  PROVE  \E m \in T : \A k \in T : m <= k
<1>r. PICK R : R = OpToRel(<, Nat)
  BY Zenon
<1>1. IsWellFoundedOn(R, Nat)
  BY <1>r, NatLessThanWellFounded, Zenon
<1>2. ASSUME NEW a \in Nat, NEW b \in Nat, a < b PROVE <<a, b>> \in R
  <2>1. R = {p \in Nat \X Nat : p[1] < p[2]}
    BY <1>r, Zenon DEF OpToRel
  <2>2. QED BY <1>2, <2>1
<1>3. PICK m \in T : \A k \in T : <<k, m>> \notin R
  BY <1>1, WFMin
<1>4. ASSUME NEW k \in T PROVE m <= k
  <2>1. ~(k < m)
    BY <1>2, <1>3
  <2>2. k \in Nat /\ m \in Nat
    OBVIOUS
  <2>3. QED BY <2>1, <2>2
<1>5. QED BY <1>4

LEMMA Induction ==
  ASSUME NEW T \in SUBSET Nat, 0 \in T, \A n \in T : n + 1 \in T
  PROVE  T = Nat
<1>1. SUFFICES ASSUME T # Nat PROVE FALSE
  OBVIOUS
<1>2. PICK m \in Nat \ T : \A k \in Nat \ T : m <= k
  BY <1>1, LeastNumber
<1>3. m - 1 \in T
  <2>1. m # 0 /\ m - 1 \in Nat /\ ~(m <= m - 1)
    BY <1>2
  <2>2. QED BY <1>2, <2>1
<1>4. QED BY <1>2, <1>3

\* Up to a bound.
LEMMA BoundedInduction ==
  ASSUME NEW N \in Nat, NEW T, 0 \in T, \A n \in 1..N : n - 1 \in T => n \in T
  PROVE  \A n \in 0..N : n \in T
<1> DEFINE U == {n \in Nat : n <= N => n \in T}
<1>1. 0 \in U
  OBVIOUS
<1>2. ASSUME NEW n \in U PROVE n + 1 \in U
  <2>1. CASE n + 1 <= N
    <3>1. n + 1 \in 1..N /\ (n + 1) - 1 = n /\ n <= N
      BY <2>1
    <3>2. QED BY <3>1
  <2>2. QED BY <2>1
<1>3. U = Nat
  <2> HIDE DEF U
  <2>1. U \in SUBSET Nat
    BY DEF U
  <2>2. QED BY <1>1, <1>2, <2>1, Induction
<1>4. QED BY <1>3

\* g is what a loop comes to that starts with x and whose n-th pass is F[n].
IsLoop(g, x, N, F) == g[0] = x /\ \A n \in 1..N : g[n] = F[n][g[n - 1]]

\* A loop that never leaves S has a function of its passes.
LEMMA LoopExists ==
  ASSUME NEW S, NEW x \in S, NEW N \in Nat, NEW F \in [1..N -> [S -> S]]
  PROVE  \E g \in [0..N -> S] : IsLoop(g, x, N, F)
<1> DEFINE T == {m \in 0..N : \E g \in [0..m -> S] : g[0] = x /\ \A n \in 1..m : g[n] = F[n][g[n - 1]]}
<1>1. 0 \in T
  <2>1. [i \in 0..0 |-> x] \in [0..0 -> S] /\ [i \in 0..0 |-> x][0] = x
    OBVIOUS
  <2>2. \A n \in 1..0 : FALSE
    OBVIOUS
  <2>3. \E g \in [0..0 -> S] : g[0] = x /\ \A n \in 1..0 : g[n] = F[n][g[n - 1]]
    BY <2>1, <2>2
  <2>4. QED BY <2>3
<1>2. ASSUME NEW m \in 1..N, m - 1 \in T PROVE m \in T
  <2>1. PICK g \in [0..(m - 1) -> S] : g[0] = x /\ \A n \in 1..(m - 1) : g[n] = F[n][g[n - 1]]
    BY <1>2
  <2> DEFINE h == [i \in 0..m |-> IF i = m THEN F[m][g[m - 1]] ELSE g[i]]
  <2>2. F[m][g[m - 1]] \in S
    <3>1. g[m - 1] \in S
      OBVIOUS
    <3>2. QED BY <3>1
  <2>3. ASSUME NEW i \in 0..m PROVE h[i] \in S
    BY <2>2
  <2>4. h \in [0..m -> S] /\ h[0] = x
    BY <2>1, <2>3
  <2>5. ASSUME NEW n \in 1..m PROVE h[n] = F[n][h[n - 1]]
    <3>1. n - 1 \in 0..(m - 1) /\ h[n - 1] = g[n - 1]
      OBVIOUS
    <3>2. CASE n = m
      BY <3>1, <3>2
    <3>3. CASE n # m
      <4>1. n \in 1..(m - 1) /\ h[n] = g[n]
        BY <3>3
      <4>2. QED BY <2>1, <3>1, <4>1
    <3>4. QED BY <3>2, <3>3
  <2> HIDE DEF h
  <2>6. QED BY <2>4, <2>5
<1> HIDE DEF T
<1>3. \A n \in 0..N : n \in T
  BY <1>1, <1>2, BoundedInduction
<1>4. N \in T
  BY <1>3
<1>5. QED BY <1>4 DEF T, IsLoop

LEMMA Lowest ==
  ASSUME NEW I \in SUBSET Nat, I # {}
  PROVE  Min(I) \in I /\ \A k \in I : Min(I) <= k
<1>1. \E m \in I : \A k \in I : m <= k
  BY LeastNumber
<1>2. QED BY <1>1 DEF Min

LEMMA Highest ==
  ASSUME NEW n \in Nat, NEW I \in SUBSET (0..n), I # {}
  PROVE  Max(I) \in I /\ \A k \in I : k <= Max(I)
<1> DEFINE J == {n - k : k \in I}
<1>1. PICK m \in J : \A k \in J : m <= k
  <2>1. ASSUME NEW k \in I PROVE n - k \in Nat
    OBVIOUS
  <2>2. J \in SUBSET Nat /\ J # {}
    BY <2>1
  <2> HIDE DEF J
  <2>3. QED BY <2>2, LeastNumber
<1>2. PICK h \in I : m = n - h
  OBVIOUS
<1>3. ASSUME NEW k \in I PROVE h >= k
  <2>1. n - k \in J
    OBVIOUS
  <2>2. n - h <= n - k
    BY <1>1, <1>2, <2>1
  <2>3. QED BY <2>2
<1>4. \E x \in I : \A k \in I : x >= k
  BY <1>3
<1>5. Max(I) \in I /\ \A k \in I : Max(I) >= k
  BY <1>4 DEF Max
<1>6. QED BY <1>5

-----------------------------------------------------------------------------
(* What is left of a text without some letters. *)

LEMMA AppendTo ==
  ASSUME NEW A, NEW s \in Seq(A), NEW n \in 1..Len(s)
  PROVE  /\ SubSeq(s, 1, n - 1) \in Seq(A) /\ Len(SubSeq(s, 1, n - 1)) = n - 1
         /\ s[n] \in A
         /\ SubSeq(s, 1, n) = Append(SubSeq(s, 1, n - 1), s[n])
<1>1. /\ SubSeq(s, 1, n - 1) \in Seq(A) /\ Len(SubSeq(s, 1, n - 1)) = n - 1
      /\ \A i \in 1..(n - 1) : SubSeq(s, 1, n - 1)[i] = s[i]
  OBVIOUS
<1>2. /\ SubSeq(s, 1, n) \in Seq(A) /\ Len(SubSeq(s, 1, n)) = n
      /\ \A i \in 1..n : SubSeq(s, 1, n)[i] = s[i]
  OBVIOUS
<1>3. s[n] \in A
  OBVIOUS
<1> DEFINE q == SubSeq(s, 1, n - 1)
           r == SubSeq(s, 1, n)
<1> HIDE DEF q, r
<1>4. /\ Append(q, s[n]) \in Seq(A) /\ Len(Append(q, s[n])) = n
      /\ \A i \in 1..(n - 1) : Append(q, s[n])[i] = q[i]
      /\ Append(q, s[n])[n] = s[n]
  BY <1>1, <1>3, AppendProperties DEF q
<1>5. r = Append(q, s[n])
  <2>1. ASSUME NEW i \in 1..n PROVE r[i] = Append(q, s[n])[i]
    <3>1. CASE i = n
      BY <1>2, <1>4, <3>1 DEF r
    <3>2. CASE i # n
      <4>1. i \in 1..(n - 1)
        BY <3>2
      <4>2. QED BY <1>1, <1>2, <1>4, <4>1 DEF q, r
    <3>3. QED BY <3>1, <3>2
  <2>2. r \in Seq(A) /\ Len(r) = n
    BY <1>2 DEF r
  <2>3. QED BY <1>4, <2>1, <2>2, SeqEqual
<1>6. QED BY <1>1, <1>3, <1>5 DEF q, r

\* w[n] is what the first n letters leave.
Leaves(s, B, w) ==
  /\ w[0] = <<>>
  /\ \A n \in 1..Len(s) : w[n] = IF s[n] \in B THEN w[n - 1] ELSE Append(w[n - 1], s[n])

LEMMA LeavesExist ==
  ASSUME NEW A, NEW B, NEW s \in Seq(A)
  PROVE  \E w \in [0..Len(s) -> Seq(A)] : Leaves(s, B, w) /\ Without(s, B) = w[Len(s)]
<1> DEFINE N == Len(s)
           F == [n \in 1..N |-> [a \in Seq(A) |-> IF s[n] \in B THEN a ELSE Append(a, s[n])]]
           f[n \in 0..N] == IF n = 0 THEN <<>>
            ELSE IF s[n] \in B THEN f[n - 1] ELSE Append(f[n - 1], s[n])
<1>1. F \in [1..N -> [Seq(A) -> Seq(A)]]
  <2>1. ASSUME NEW n \in 1..N, NEW a \in Seq(A)
        PROVE  (IF s[n] \in B THEN a ELSE Append(a, s[n])) \in Seq(A)
    BY AppendProperties
  <2>2. QED BY <2>1
<1>2. <<>> \in Seq(A) /\ N \in Nat
  OBVIOUS
<1>3. Without(s, B) = f[N]
  BY DEF Without
<1>4. PICK g \in [0..N -> Seq(A)] : g[0] = <<>> /\ \A n \in 1..N : g[n] = F[n][g[n - 1]]
  <2>1. PICK S : S = Seq(A)
    OBVIOUS
  <2>2. PICK none \in S : none = <<>>
    BY <1>2, <2>1
  <2>3. F \in [1..N -> [S -> S]]
    BY <1>1, <2>1
  <2> HIDE DEF F, f, N
  <2>4. \E g \in [0..N -> S] : IsLoop(g, none, N, F)
    BY <1>2, <2>3, LoopExists
  <2>5. QED BY <2>1, <2>2, <2>4 DEF IsLoop
<1>5. ASSUME NEW n \in 1..N
      PROVE  g[n] = IF s[n] \in B THEN g[n - 1] ELSE Append(g[n - 1], s[n])
  <2>1. g[n - 1] \in Seq(A)
    OBVIOUS
  <2>2. QED BY <1>4, <2>1
<1>6. g = [n \in 0..N |-> IF n = 0 THEN <<>>
            ELSE IF s[n] \in B THEN g[n - 1] ELSE Append(g[n - 1], s[n])]
  <2>1. ASSUME NEW n \in 0..N
        PROVE  g[n] = IF n = 0 THEN <<>>
            ELSE IF s[n] \in B THEN g[n - 1] ELSE Append(g[n - 1], s[n])
    <3>1. CASE n = 0
      BY <1>4, <3>1
    <3>2. CASE n # 0
      <4>1. n \in 1..N
        BY <3>2
      <4>2. n # 0
        BY <3>2
      <4> HIDE DEF f, F
      <4>3. QED BY <1>5, <4>1, <4>2
    <3>3. QED BY <3>1, <3>2
  <2>2. QED BY <2>1
<1>7. f = [n \in 0..N |-> IF n = 0 THEN <<>>
            ELSE IF s[n] \in B THEN f[n - 1] ELSE Append(f[n - 1], s[n])]
  BY <1>6
<1> HIDE DEF f, F
<1>8. \A n \in 0..N : n \in {k \in 0..N : f[k] = g[k]}
  <2> DEFINE T == {k \in 0..N : f[k] = g[k]}
  <2>1. 0 \in T
    BY <1>4, <1>7, <1>2
  <2>2. ASSUME NEW n \in 1..N, n - 1 \in T PROVE n \in T
    <3>1. f[n] = IF s[n] \in B THEN f[n - 1] ELSE Append(f[n - 1], s[n])
      <4>1. n \in 0..N /\ n # 0
        OBVIOUS
      <4>2. QED BY <1>7, <4>1
    <3>2. QED BY <1>5, <2>2, <3>1
  <2> HIDE DEF T
  <2>3. \A n \in 0..N : n \in T
    BY <1>2, <2>1, <2>2, BoundedInduction
  <2>4. QED BY <2>3 DEF T
<1>9. f[N] = g[N]
  BY <1>2, <1>8
<1>10. QED BY <1>3, <1>4, <1>5, <1>9 DEF Leaves

LEMMA LeavesAreUnique ==
  ASSUME NEW A, NEW B, NEW s \in Seq(A), NEW w, Leaves(s, B, w)
  PROVE  Without(s, B) = w[Len(s)]
<1> DEFINE N == Len(s)
<1>1. PICK v \in [0..N -> Seq(A)] : Leaves(s, B, v) /\ Without(s, B) = v[N]
  BY LeavesExist
<1> DEFINE T == {k \in 0..N : w[k] = v[k]}
<1>2. 0 \in T /\ N \in Nat
  BY <1>1 DEF Leaves
<1>3. ASSUME NEW n \in 1..N, n - 1 \in T PROVE n \in T
  BY <1>1, <1>3 DEF Leaves
<1> HIDE DEF T
<1>4. \A n \in 0..N : n \in T
  BY <1>2, <1>3, BoundedInduction
<1>5. N \in T
  BY <1>2, <1>4
<1>6. QED BY <1>1, <1>5 DEF T

LEMMA WithoutOfAppend ==
  ASSUME NEW A, NEW B, NEW s \in Seq(A), NEW e \in A
  PROVE  Without(Append(s, e), B) = IF e \in B THEN Without(s, B) ELSE Append(Without(s, B), e)
<1> DEFINE N == Len(s)
<1>1. PICK w \in [0..N -> Seq(A)] : Leaves(s, B, w) /\ Without(s, B) = w[N]
  BY LeavesExist
<1> DEFINE v == [n \in 0..(N + 1) |-> IF n <= N THEN w[n] ELSE IF e \in B THEN w[N] ELSE Append(w[N], e)]
           t == Append(s, e)
<1>2. t \in Seq(A) /\ Len(t) = N + 1 /\ N \in Nat /\ t[N + 1] = e /\ \A n \in 1..N : t[n] = s[n]
  BY AppendProperties
<1>3. Leaves(t, B, v)
  <2>1. v[0] = <<>>
    BY <1>1, <1>2 DEF Leaves
  <2>2. ASSUME NEW n \in 1..(N + 1)
        PROVE  v[n] = IF t[n] \in B THEN v[n - 1] ELSE Append(v[n - 1], t[n])
    <3>1. CASE n = N + 1
      BY <1>2, <3>1
    <3>2. CASE n # N + 1
      <4>1. n \in 1..N /\ v[n] = w[n] /\ v[n - 1] = w[n - 1] /\ t[n] = s[n]
        BY <1>2, <3>2
      <4>2. QED BY <1>1, <4>1 DEF Leaves
    <3>3. QED BY <3>1, <3>2
  <2> HIDE DEF v, t
  <2>3. QED BY <1>2, <2>1, <2>2 DEF Leaves
<1>4. v[N + 1] = IF e \in B THEN w[N] ELSE Append(w[N], e)
  BY <1>2
<1> HIDE DEF v, t
<1>5. Without(t, B) = v[N + 1]
  BY <1>2, <1>3, LeavesAreUnique
<1>6. QED BY <1>1, <1>4, <1>5 DEF t

LEMMA WithoutOfNone ==
  ASSUME NEW B
  PROVE  Without(<<>>, B) = <<>>
<1>1. PICK none \in Seq(Nat) : none = <<>> /\ Len(none) = 0
  BY EmptySeq
<1>2. PICK w \in [0..Len(none) -> Seq(Nat)] : Leaves(none, B, w) /\ Without(none, B) = w[Len(none)]
  BY LeavesExist
<1>3. QED BY <1>1, <1>2 DEF Leaves

LEMMA WithoutType ==
  ASSUME NEW A, NEW B, NEW s \in Seq(A)
  PROVE  Without(s, B) \in Seq(A)
<1>1. PICK w \in [0..Len(s) -> Seq(A)] : Leaves(s, B, w) /\ Without(s, B) = w[Len(s)]
  BY LeavesExist
<1>2. QED BY <1>1

LEMMA AppendAssociates ==
  ASSUME NEW A, NEW s \in Seq(A), NEW q \in Seq(A), NEW e \in A
  PROVE  s \o Append(q, e) = Append(s \o q, e)
<1>1. Append(q, e) = q \o <<e>> /\ <<e>> \in Seq(A)
  BY AppendIsConcat
<1>2. s \o q \in Seq(A)
  BY ConcatProperties
<1>3. QED BY <1>1, <1>2, AppendIsConcat, ConcatAssociative

LEMMA WithoutOfConcat ==
  ASSUME NEW A, NEW B, NEW s \in Seq(A), NEW t \in Seq(A)
  PROVE  Without(s \o t, B) = Without(s, B) \o Without(t, B)
<1> DEFINE N == Len(t)
           P(n) == SubSeq(t, 1, n)
           T == {n \in 0..N : Without(s \o P(n), B) = Without(s, B) \o Without(P(n), B)}
<1>1. 0 \in T
  <2>1. P(0) = <<>>
    BY SubSeqEmpty
  <2>2. s \o <<>> = s /\ Without(s, B) \o <<>> = Without(s, B)
    BY WithoutType, ConcatEmptySeq
  <2>3. N \in Nat
    OBVIOUS
  <2>4. Without(s \o P(0), B) = Without(s, B) \o Without(P(0), B)
    BY <2>1, <2>2, WithoutOfNone
  <2>5. QED BY <2>3, <2>4
<1>2. ASSUME NEW n \in 1..N, n - 1 \in T PROVE n \in T
  <2>1. PICK q \in Seq(A) : q = P(n - 1)
    BY AppendTo
  <2>2. PICK e \in A : e = t[n]
    BY AppendTo
  <2>3. P(n) = Append(q, e)
    BY <2>1, <2>2, AppendTo
  <2>4. s \o Append(q, e) = Append(s \o q, e)
    BY AppendAssociates
  <2>5. PICK ws \in Seq(A) : ws = Without(s, B)
    BY WithoutType
  <2>6. PICK wq \in Seq(A) : wq = Without(q, B)
    BY WithoutType
  <2>7. ws \o Append(wq, e) = Append(ws \o wq, e)
    BY AppendAssociates
  <2>8. Without(s \o q, B) = ws \o wq
    BY <1>2, <2>1, <2>5, <2>6
  <2>9. s \o q \in Seq(A)
    BY ConcatProperties
  <2>10. Without(Append(s \o q, e), B) = IF e \in B THEN ws \o wq ELSE Append(ws \o wq, e)
    <3>1. PICK sq \in Seq(A) : sq = s \o q
      BY <2>9
    <3>2. Without(Append(sq, e), B) = IF e \in B THEN Without(sq, B) ELSE Append(Without(sq, B), e)
      BY WithoutOfAppend
    <3>3. QED BY <2>8, <3>1, <3>2
  <2>11. Without(Append(q, e), B) = IF e \in B THEN wq ELSE Append(wq, e)
    BY <2>6, WithoutOfAppend
  <2>12. Without(s \o P(n), B) = Without(s, B) \o Without(P(n), B)
    BY <2>3, <2>4, <2>5, <2>7, <2>10, <2>11
  <2>13. QED BY <2>12
<1> HIDE DEF T
<1>n. N \in Nat
  OBVIOUS
<1>3. \A n \in 0..N : n \in T
  BY <1>1, <1>2, <1>n, BoundedInduction
<1>4. N \in T /\ P(N) = t
  BY <1>3, SubSeqFull
<1>5. QED BY <1>4 DEF T

LEMMA WithoutOfThese ==
  ASSUME NEW A, NEW B, NEW s \in Seq(A), \A i \in 1..Len(s) : s[i] \in B
  PROVE  Without(s, B) = <<>>
<1> DEFINE N == Len(s)
<1>1. PICK w \in [0..N -> Seq(A)] : Leaves(s, B, w) /\ Without(s, B) = w[N]
  BY LeavesExist
<1> DEFINE T == {n \in 0..N : w[n] = <<>>}
<1>2. 0 \in T /\ N \in Nat
  BY <1>1 DEF Leaves
<1>3. ASSUME NEW n \in 1..N, n - 1 \in T PROVE n \in T
  BY <1>1, <1>3 DEF Leaves
<1> HIDE DEF T
<1>4. \A n \in 0..N : n \in T
  BY <1>2, <1>3, BoundedInduction
<1>5. N \in T
  BY <1>2, <1>4
<1>6. QED BY <1>1, <1>5 DEF T


\* Parts of a text.
LEMMA PartType ==
  ASSUME NEW A, NEW s \in Seq(A), NEW m \in 1..(Len(s) + 1), NEW n \in (m - 1)..Len(s)
  PROVE  /\ SubSeq(s, m, n) \in Seq(A) /\ Len(SubSeq(s, m, n)) = n - m + 1
         /\ \A i \in 1..(n - m + 1) : SubSeq(s, m, n)[i] = s[m + i - 1]
<1>1. \A i \in m..n : s[i] \in A
  OBVIOUS
<1>2. m \in Int /\ n \in Int /\ (m <= n \/ n - m + 1 = 0)
  OBVIOUS
<1>3. QED BY <1>1, <1>2, SubSeqProperties

LEMMA WithoutOfParts ==
  ASSUME NEW A, NEW B, NEW s \in Seq(A),
         NEW m \in 1..(Len(s) + 1), NEW k \in (m - 1)..Len(s), NEW n \in k..Len(s)
  PROVE  Without(SubSeq(s, m, n), B) = Without(SubSeq(s, m, k), B) \o Without(SubSeq(s, k + 1, n), B)
<1>1. SubSeq(s, m, k) \o SubSeq(s, k + 1, n) = SubSeq(s, m, n)
  BY ConcatAdjacentSubSeq
<1>2. k + 1 \in 1..(Len(s) + 1) /\ n \in ((k + 1) - 1)..Len(s)
  OBVIOUS
<1>3. SubSeq(s, m, k) \in Seq(A) /\ SubSeq(s, k + 1, n) \in Seq(A)
  BY <1>2, PartType
<1>4. QED BY <1>1, <1>3, WithoutOfConcat

LEMMA WithoutOfSuchPart ==
  ASSUME NEW A, NEW B, NEW s \in Seq(A), NEW m \in 1..(Len(s) + 1), NEW n \in (m - 1)..Len(s),
         \A i \in m..n : s[i] \in B
  PROVE  Without(SubSeq(s, m, n), B) = <<>>
<1>0. PICK q : q = SubSeq(s, m, n)
  OBVIOUS
<1>1. q \in Seq(A) /\ Len(q) = n - m + 1 /\ \A i \in 1..(n - m + 1) : q[i] = s[m + i - 1]
  BY <1>0, PartType
<1>2. ASSUME NEW i \in 1..Len(q) PROVE q[i] \in B
  <2>1. m + i - 1 \in m..n /\ i \in 1..(n - m + 1)
    BY <1>1
  <2>2. QED BY <1>1, <2>1
<1>3. QED BY <1>0, <1>1, <1>2, WithoutOfThese

LEMMA StrippedKeepsInk ==
  ASSUME NEW A, NEW B, Blank \subseteq B, NEW s \in Seq(A)
  PROVE  /\ Stripped(s) \in Seq(A) /\ Len(Stripped(s)) <= Len(s)
         /\ Without(Stripped(s), B) = Without(s, B)
<1> DEFINE N == Len(s)
           ink == {i \in DOMAIN s : s[i] \notin Blank}
<1>1. DOMAIN s = 1..N /\ N \in Nat
  OBVIOUS
<1>2. CASE ink = {}
  <2>1. Stripped(s) = <<>>
    BY <1>2 DEF Stripped
  <2>2. \A i \in 1..Len(s) : s[i] \in B
    BY <1>1, <1>2
  <2>3. Without(s, B) = <<>>
    BY <2>2, WithoutOfThese
  <2>4. <<>> \in Seq(A) /\ Len(<<>>) = 0
    BY EmptySeq
  <2>5. QED BY <1>1, <2>1, <2>3, <2>4, WithoutOfNone
<1>3. CASE ink # {}
  <2>1. ink \in SUBSET Nat /\ ink \in SUBSET (0..N)
    BY <1>1
  <2>2. PICK lo \in ink : lo = Min(ink) /\ \A k \in ink : lo <= k
    <3> HIDE DEF ink
    <3>1. QED BY <1>3, <2>1, Lowest
  <2>3. PICK hi \in ink : hi = Max(ink) /\ \A k \in ink : k <= hi
    <3> HIDE DEF ink, N
    <3>1. QED BY <1>1, <1>3, <2>1, Highest
  <2>4. Stripped(s) = SubSeq(s, lo, hi)
    BY <1>3, <2>2, <2>3 DEF Stripped
  <2>5. lo \in 1..N /\ hi \in 1..N /\ lo <= hi
    BY <1>1, <2>2
  <2>6. /\ \A i \in 1..(lo - 1) : s[i] \in B
        /\ \A i \in (hi + 1)..N : s[i] \in B
    <3>1. ASSUME NEW i \in 1..N, s[i] \notin B PROVE lo <= i /\ i <= hi
      <4>1. i \in ink
        BY <1>1, <3>1
      <4>2. QED BY <2>2, <2>3, <4>1
    <3>2. \A i \in 1..(lo - 1) : i \in 1..N /\ ~(lo <= i)
      BY <2>5
    <3>3. \A i \in (hi + 1)..N : i \in 1..N /\ ~(i <= hi)
      BY <2>5
    <3>4. QED BY <3>1, <3>2, <3>3
  <2> HIDE DEF ink
  <2>7. /\ lo \in 1..(Len(s) + 1) /\ hi \in (lo - 1)..Len(s)
        /\ 1 \in 1..(Len(s) + 1) /\ lo - 1 \in (1 - 1)..Len(s) /\ (lo - 1) + 1 = lo
        /\ hi \in (lo - 1)..Len(s) /\ N \in hi..Len(s) /\ N \in (lo - 1)..Len(s)
        /\ hi + 1 \in 1..(Len(s) + 1) /\ N \in ((hi + 1) - 1)..Len(s)
        /\ hi - lo + 1 <= N
    BY <1>1, <2>5
  <2>8. Without(SubSeq(s, 1, N), B) = Without(SubSeq(s, 1, lo - 1), B) \o Without(SubSeq(s, lo, N), B)
    BY <2>7, WithoutOfParts
  <2>9. Without(SubSeq(s, lo, N), B) = Without(SubSeq(s, lo, hi), B) \o Without(SubSeq(s, hi + 1, N), B)
    BY <2>7, WithoutOfParts
  <2>10. Without(SubSeq(s, 1, lo - 1), B) = <<>>
    BY <2>6, <2>7, WithoutOfSuchPart
  <2>11. Without(SubSeq(s, hi + 1, N), B) = <<>>
    BY <2>6, <2>7, WithoutOfSuchPart
  <2>12. SubSeq(s, 1, N) = s
    BY SubSeqFull
  <2>13. SubSeq(s, lo, hi) \in Seq(A) /\ Len(SubSeq(s, lo, hi)) = hi - lo + 1
    BY <2>7, PartType
  <2>14. Without(SubSeq(s, lo, hi), B) \in Seq(A)
    BY <2>13, WithoutType
  <2>15. Without(s, B) = Without(SubSeq(s, lo, hi), B)
    BY <2>8, <2>9, <2>10, <2>11, <2>12, <2>14, ConcatEmptySeq
  <2>16. QED BY <2>4, <2>7, <2>13, <2>15
<1>4. QED BY <1>2, <1>3

-----------------------------------------------------------------------------
(* The messages read one after the other. *)

Joins(q, g) == g[0] = <<>> /\ \A i \in 1..Len(q) : g[i] = g[i - 1] \o q[i]

LEMMA JoinsExist ==
  ASSUME NEW A, NEW q \in Seq(Seq(A))
  PROVE  \E g \in [0..Len(q) -> Seq(A)] : Joins(q, g) /\ FlattenSeq(q) = g[Len(q)]
<1> DEFINE N == Len(q)
           F == [n \in 1..N |-> [a \in Seq(A) |-> a \o q[n]]]
           f[i \in 1..N] == IF i = 1 THEN q[i] ELSE f[i - 1] \o q[i]
<1>0. N \in Nat /\ \A n \in 1..N : q[n] \in Seq(A)
  OBVIOUS
<1>1. PICK S : S = Seq(A)
  OBVIOUS
<1>2. PICK none \in S : none = <<>>
  BY <1>1, EmptySeq
<1>3. F \in [1..N -> [S -> S]]
  <2>1. ASSUME NEW n \in 1..N, NEW a \in Seq(A) PROVE a \o q[n] \in Seq(A)
    BY <1>0, ConcatProperties
  <2>2. QED BY <1>1, <2>1
<1>4. PICK g \in [0..N -> S] : IsLoop(g, none, N, F)
  <2> HIDE DEF F, f, N
  <2>1. QED BY <1>0, <1>3, LoopExists
<1>5. ASSUME NEW n \in 1..N PROVE g[n] = g[n - 1] \o q[n]
  <2>1. g[n - 1] \in S
    OBVIOUS
  <2>2. g[n] = F[n][g[n - 1]]
    BY <1>4 DEF IsLoop
  <2>3. QED BY <1>1, <2>1, <2>2
<1>6. g[0] = <<>>
  BY <1>2, <1>4 DEF IsLoop
<1>7. Joins(q, g)
  BY <1>5, <1>6 DEF Joins
<1>8. CASE N = 0
  <2>1. q = <<>>
    BY <1>8, EmptySeq
  <2>2. FlattenSeq(q) = q
    BY <1>8 DEF FlattenSeq
  <2>3. QED BY <1>1, <1>6, <1>7, <1>8, <2>1, <2>2
<1>9. CASE N # 0
  <2> DEFINE h == [i \in 1..N |-> g[i]]
  <2>1. FlattenSeq(q) = f[N]
    BY <1>9 DEF FlattenSeq
  <2>2. h = [i \in 1..N |-> IF i = 1 THEN q[i] ELSE h[i - 1] \o q[i]]
    <3>1. ASSUME NEW i \in 1..N PROVE h[i] = IF i = 1 THEN q[i] ELSE h[i - 1] \o q[i]
      <4>1. CASE i = 1
        <5>1. g[i] = g[0] \o q[i]
          <6> HIDE DEF F, f, h
          <6>1. i - 1 = 0
            BY <4>1
          <6>2. QED BY <1>5, <6>1
        <5>2. q[i] \in Seq(A) /\ h[i] = g[i]
          BY <1>0
        <5>3. QED BY <1>6, <4>1, <5>1, <5>2, ConcatEmptySeq
      <4>2. CASE i # 1
        <5>1. i - 1 \in 1..N
          BY <4>2
        <5>2. QED BY <1>5, <4>2, <5>1
      <4>3. QED BY <4>1, <4>2
    <3>2. QED BY <3>1
  <2>3. f = [i \in 1..N |-> IF i = 1 THEN q[i] ELSE f[i - 1] \o q[i]]
    <3> HIDE DEF h
    <3>1. QED BY <2>2
  <2> HIDE DEF f, F
  <2> DEFINE T == {n \in 0..N : n # 0 => f[n] = g[n]}
  <2>4. 0 \in T
    BY <1>0
  <2>5. ASSUME NEW n \in 1..N, n - 1 \in T PROVE n \in T
    <3>1. CASE n = 1
      <4>1. f[n] = q[n]
        BY <2>3, <3>1
      <4>2. h[n] = q[n]
        <5> HIDE DEF h
        <5>1. QED BY <2>2, <3>1
      <4>3. QED BY <4>1, <4>2
    <3>2. CASE n # 1
      <4>1. n - 1 \in 1..N /\ n - 1 # 0
        BY <3>2
      <4>2. f[n - 1] = g[n - 1]
        BY <2>5, <4>1
      <4>3. f[n] = f[n - 1] \o q[n]
        BY <2>3, <3>2
      <4>4. g[n] = g[n - 1] \o q[n]
        BY <1>5
      <4>5. f[n] = g[n]
        BY <4>2, <4>3, <4>4, Zenon
      <4>6. QED BY <4>5
    <3>3. QED BY <3>1, <3>2
  <2> HIDE DEF T, N, h
  <2>6. \A n \in 0..N : n \in T
    BY <1>0, <2>4, <2>5, BoundedInduction
  <2>7. N \in T
    BY <1>0, <2>6
  <2>8. f[N] = g[N]
    BY <1>9, <2>7 DEF T
  <2>9. QED BY <1>1, <1>7, <2>1, <2>8 DEF N
<1>10. QED BY <1>8, <1>9

LEMMA JoinsAreUnique ==
  ASSUME NEW A, NEW q \in Seq(Seq(A)), NEW w, Joins(q, w)
  PROVE  FlattenSeq(q) = w[Len(q)]
<1> DEFINE N == Len(q)
<1>1. PICK v \in [0..N -> Seq(A)] : Joins(q, v) /\ FlattenSeq(q) = v[N]
  BY JoinsExist
<1> DEFINE T == {k \in 0..N : w[k] = v[k]}
<1>2. 0 \in T /\ N \in Nat
  BY <1>1 DEF Joins
<1>3. ASSUME NEW n \in 1..N, n - 1 \in T PROVE n \in T
  <2>1. w[n] = w[n - 1] \o q[n]
    BY DEF Joins
  <2>2. v[n] = v[n - 1] \o q[n]
    BY <1>1 DEF Joins
  <2>3. w[n - 1] = v[n - 1]
    BY <1>3
  <2>4. w[n] = v[n]
    BY <2>1, <2>2, <2>3
  <2>5. QED BY <2>4
<1> HIDE DEF T
<1>4. \A n \in 0..N : n \in T
  BY <1>2, <1>3, BoundedInduction
<1>5. N \in T
  BY <1>2, <1>4
<1>6. QED BY <1>1, <1>5 DEF T

LEMMA FlattenType ==
  ASSUME NEW A, NEW q \in Seq(Seq(A))
  PROVE  FlattenSeq(q) \in Seq(A)
<1>1. PICK g \in [0..Len(q) -> Seq(A)] : Joins(q, g) /\ FlattenSeq(q) = g[Len(q)]
  BY JoinsExist
<1>2. QED BY <1>1

LEMMA FlattenOfNone ==
  FlattenSeq(<<>>) = <<>>
BY DEF FlattenSeq

LEMMA FlattenOfAppend ==
  ASSUME NEW A, NEW q \in Seq(Seq(A)), NEW c \in Seq(A)
  PROVE  FlattenSeq(Append(q, c)) = FlattenSeq(q) \o c
<1> DEFINE N == Len(q)
<1>1. PICK g \in [0..N -> Seq(A)] : Joins(q, g) /\ FlattenSeq(q) = g[N]
  BY JoinsExist
<1> DEFINE h == [i \in 0..(N + 1) |-> IF i <= N THEN g[i] ELSE g[N] \o c]
           t == Append(q, c)
<1>2. t \in Seq(Seq(A)) /\ Len(t) = N + 1 /\ N \in Nat /\ t[N + 1] = c /\ \A i \in 1..N : t[i] = q[i]
  BY AppendProperties
<1>3. Joins(t, h)
  <2>1. h[0] = <<>>
    BY <1>1, <1>2 DEF Joins
  <2>2. ASSUME NEW n \in 1..(N + 1) PROVE h[n] = h[n - 1] \o t[n]
    <3>1. CASE n = N + 1
      <4>1. h[n] = g[N] \o c
        BY <1>2, <3>1
      <4>2. h[n - 1] = g[N] /\ t[n] = c
        BY <1>2, <3>1
      <4>3. QED BY <4>1, <4>2
    <3>2. CASE n # N + 1
      <4>1. n \in 1..N /\ h[n] = g[n] /\ h[n - 1] = g[n - 1] /\ t[n] = q[n]
        BY <1>2, <3>2
      <4>2. QED BY <1>1, <4>1 DEF Joins
    <3>3. QED BY <3>1, <3>2
  <2> HIDE DEF h, t
  <2>3. QED BY <1>2, <2>1, <2>2 DEF Joins
<1>4. h[N + 1] = g[N] \o c
  BY <1>2
<1> HIDE DEF h, t
<1>5. FlattenSeq(t) = h[N + 1]
  BY <1>2, <1>3, JoinsAreUnique
<1>6. QED BY <1>1, <1>4, <1>5 DEF t

LEMMA ConcatTwice ==
  ASSUME NEW A, NEW a, NEW b, NEW x, NEW c,
         a \in Seq(A) /\ b \in Seq(A) /\ c \in Seq(A), x = a \o b
  PROVE  x \o c = a \o (b \o c)
BY ConcatAssociative

LEMMA FlattenOfConcat ==
  ASSUME NEW A, NEW p \in Seq(Seq(A)), NEW q \in Seq(Seq(A))
  PROVE  FlattenSeq(p \o q) = FlattenSeq(p) \o FlattenSeq(q)
<1> DEFINE N == Len(q)
           P(n) == SubSeq(q, 1, n)
           T == {n \in 0..N : FlattenSeq(p \o P(n)) = FlattenSeq(p) \o FlattenSeq(P(n))}
<1>1. 0 \in T
  <2>1. P(0) = <<>>
    BY SubSeqEmpty
  <2>2. p \o <<>> = p /\ FlattenSeq(p) \o <<>> = FlattenSeq(p)
    BY FlattenType, ConcatEmptySeq
  <2>3. N \in Nat
    OBVIOUS
  <2>4. FlattenSeq(p \o P(0)) = FlattenSeq(p) \o FlattenSeq(P(0))
    BY <2>1, <2>2, FlattenOfNone
  <2>5. QED BY <2>3, <2>4
<1>2. ASSUME NEW n \in 1..N, n - 1 \in T PROVE n \in T
  <2>0. PICK S : S = Seq(A)
    OBVIOUS
  <2>1. PICK r \in Seq(S) : r = P(n - 1)
    BY <2>0, AppendTo
  <2>2. PICK c \in S : c = q[n]
    BY <2>0, AppendTo
  <2>3. P(n) = Append(r, c)
    BY <2>0, <2>1, <2>2, AppendTo
  <2>4. p \o Append(r, c) = Append(p \o r, c)
    BY <2>0, AppendAssociates
  <2>5. PICK pr \in Seq(S) : pr = p \o r
    BY <2>0, ConcatProperties
  <2>6. FlattenSeq(pr) = FlattenSeq(p) \o FlattenSeq(r)
    BY <1>2, <2>1, <2>5
  <2>7. FlattenSeq(Append(pr, c)) = FlattenSeq(pr) \o c
    BY <2>0, FlattenOfAppend
  <2>8. FlattenSeq(Append(r, c)) = FlattenSeq(r) \o c
    BY <2>0, FlattenOfAppend
  <2>9. FlattenSeq(p) \in Seq(A) /\ FlattenSeq(r) \in Seq(A) /\ c \in Seq(A)
    BY <2>0, FlattenType
  <2>10. FlattenSeq(pr) \o c = FlattenSeq(p) \o (FlattenSeq(r) \o c)
    BY ONLY <2>6, <2>9, ConcatTwice, SMTT(60)
  <2>11. FlattenSeq(p \o P(n)) = FlattenSeq(p) \o FlattenSeq(P(n))
    BY <2>3, <2>4, <2>5, <2>6, <2>7, <2>8, <2>10
  <2>12. QED BY <2>11
<1> HIDE DEF T
<1>n. N \in Nat
  OBVIOUS
<1>3. \A n \in 0..N : n \in T
  BY <1>1, <1>2, <1>n, BoundedInduction
<1>4. N \in T /\ P(N) = q
  BY <1>3, SubSeqFull
<1>5. QED BY <1>4 DEF T

-----------------------------------------------------------------------------
(* The cut by length. *)

\* The chunk c has the letters of s after the m-th up to the n-th, but for those in B.
Carries(A, B, s, c, m, n) ==
  /\ c \in Seq(A) /\ Len(c) <= n - m
  /\ Without(c, B) = Without(SubSeq(s, m + 1, n), B)

\* The chunks q have the first n letters of s, and fit.
CutUpTo(A, B, s, limit, q, n) ==
  /\ q \in Seq(Seq(A)) /\ \A c \in 1..Len(q) : Len(q[c]) <= limit
  /\ Len(FlattenSeq(q)) <= n
  /\ Without(FlattenSeq(q), B) = Without(SubSeq(s, 1, n), B)

LEMMA ChunkEndFits ==
  ASSUME NEW A, NEW s \in Seq(A), NEW limit \in Nat \ {0}, NEW start \in 1..Len(s)
  PROVE  ChunkEnd(s, start, limit) \in start..Len(s) /\ ChunkEnd(s, start, limit) - start + 1 <= limit
<1> DEFINE last == start + limit - 1
           spaces == {i \in (start + 1)..last : s[i] = Space}
<1>0. last \in Nat /\ Len(s) \in Nat /\ start \in Nat
  OBVIOUS
<1>1. CASE Len(s) <= last
  <2>1. ChunkEnd(s, start, limit) = Len(s)
    BY <1>1 DEF ChunkEnd
  <2>2. QED BY <1>0, <1>1, <2>1
<1>2. CASE ~(Len(s) <= last) /\ spaces = {}
  <2>1. ChunkEnd(s, start, limit) = last
    BY <1>2 DEF ChunkEnd
  <2>2. QED BY <1>0, <1>2, <2>1
<1>3. CASE ~(Len(s) <= last) /\ spaces # {}
  <2>1. ChunkEnd(s, start, limit) = Max(spaces) - 1
    BY <1>3 DEF ChunkEnd
  <2>2. spaces \in SUBSET (0..last)
    BY <1>0
  <2> HIDE DEF last
  <2>3. Max(spaces) \in spaces
    <3> HIDE DEF spaces
    <3>1. QED BY <1>0, <1>3, <2>2, Highest
  <2>4. Max(spaces) \in (start + 1)..last
    BY <2>3
  <2> HIDE DEF spaces
  <2>5. QED BY <1>0, <1>3, <2>1, <2>4 DEF last
<1>4. QED BY <1>1, <1>2, <1>3

LEMMA NextStartSkipsSpaces ==
  ASSUME NEW A, NEW s \in Seq(A), NEW i \in 1..(Len(s) + 1)
  PROVE  NextStart(s, i) \in i..(Len(s) + 1) /\ \A k \in i..(NextStart(s, i) - 1) : s[k] = Space
<1> DEFINE I == {k \in i..(Len(s) + 1) : k <= Len(s) => s[k] # Space}
<1>1. Len(s) + 1 \in I /\ I \in SUBSET Nat
  OBVIOUS
<1>2. PICK m \in I : m = Min(I) /\ \A k \in I : m <= k
  <2> HIDE DEF I
  <2>1. QED BY <1>1, Lowest
<1>3. NextStart(s, i) = m
  BY <1>2 DEF NextStart
<1>4. m \in i..(Len(s) + 1)
  OBVIOUS
<1>5. ASSUME NEW k \in i..(m - 1) PROVE s[k] = Space
  <2>1. k \in i..(Len(s) + 1) /\ ~(m <= k)
    BY <1>4
  <2>2. k \notin I
    BY <1>2, <2>1
  <2>3. QED BY <2>1, <2>2
<1>6. QED BY <1>3, <1>4, <1>5

\* What one chunk has and what the next has, one chunk can have.
LEMMA FlattenOfKept ==
  ASSUME NEW A, NEW q \in Seq(Seq(A)), NEW c \in Seq(A)
  PROVE  Kept(q, c) \in Seq(Seq(A)) /\ FlattenSeq(Kept(q, c)) = FlattenSeq(q) \o c
<1>1. CASE c = <<>>
  <2>1. FlattenSeq(q) \o c = FlattenSeq(q)
    BY <1>1, FlattenType, ConcatEmptySeq
  <2>2. QED BY <1>1, <2>1 DEF Kept
<1>2. CASE c # <<>>
  <2>1. Append(q, c) \in Seq(Seq(A))
    BY AppendProperties
  <2>2. QED BY <1>2, <2>1, FlattenOfAppend DEF Kept
<1>3. QED BY <1>1, <1>2

LEMMA KeptFit ==
  ASSUME NEW S, NEW q \in Seq(S), NEW c \in S, NEW limit, Len(c) <= limit,
         \A k \in 1..Len(q) : Len(q[k]) <= limit
  PROVE  \A k \in 1..Len(Kept(q, c)) : Len(Kept(q, c)[k]) <= limit
<1>1. CASE c = <<>>
  BY <1>1 DEF Kept
<1>2. CASE c # <<>>
  <2>1. PICK t : t = Append(q, c)
    OBVIOUS
  <2>2. Len(t) = Len(q) + 1 /\ t[Len(q) + 1] = c /\ \A k \in 1..Len(q) : t[k] = q[k]
    BY <2>1, AppendProperties
  <2>3. Len(q) \in Nat
    OBVIOUS
  <2>4. ASSUME NEW k \in 1..Len(t) PROVE Len(t[k]) <= limit
    <3>1. k \in 1..Len(q) \/ k = Len(q) + 1
      BY <2>2, <2>3
    <3>2. QED BY <2>2, <3>1
  <2>5. Kept(q, c) = t
    BY <1>2, <2>1 DEF Kept
  <2>6. QED BY <2>4, <2>5
<1>3. QED BY <1>1, <1>2

LEMMA LengthsAdd ==
  ASSUME NEW A, NEW s \in Seq(A), NEW t \in Seq(A)
  PROVE  Len(s) \in Nat /\ Len(t) \in Nat /\ s \o t \in Seq(A) /\ Len(s \o t) = Len(s) + Len(t)
BY ConcatProperties

LEMMA TextGrows ==
  ASSUME NEW A, NEW B, NEW s \in Seq(A), NEW m \in 0..Len(s), NEW n \in m..Len(s),
         NEW x \in Seq(A), Len(x) <= m, Without(x, B) = Without(SubSeq(s, 1, m), B),
         NEW c, Carries(A, B, s, c, m, n)
  PROVE  x \o c \in Seq(A) /\ Len(x \o c) <= n /\ Without(x \o c, B) = Without(SubSeq(s, 1, n), B)
<1>1. PICK d \in Seq(A) : d = c
  BY DEF Carries
<1>2. Len(d) <= n - m /\ Without(d, B) = Without(SubSeq(s, m + 1, n), B)
  BY <1>1 DEF Carries
<1>3. x \o d \in Seq(A) /\ Len(x \o d) = Len(x) + Len(d) /\ Len(x) \in Nat /\ Len(d) \in Nat
  BY LengthsAdd
<1>4. m \in Nat /\ n \in Nat
  OBVIOUS
<1>5. Len(x \o d) <= n
  BY <1>2, <1>3, <1>4
<1>6. Without(x \o d, B) = Without(x, B) \o Without(d, B)
  BY WithoutOfConcat
<1>7. 1 \in 1..(Len(s) + 1) /\ m \in (1 - 1)..Len(s) /\ n \in m..Len(s)
  OBVIOUS
<1>8. Without(SubSeq(s, 1, n), B) = Without(SubSeq(s, 1, m), B) \o Without(SubSeq(s, m + 1, n), B)
  BY <1>7, WithoutOfParts
<1>9. QED BY <1>1, <1>2, <1>3, <1>5, <1>6, <1>8

LEMMA CutGrows ==
  ASSUME NEW A, NEW B, NEW s \in Seq(A), NEW limit \in Nat, NEW m \in 0..Len(s), NEW n \in m..Len(s),
         NEW q, CutUpTo(A, B, s, limit, q, m),
         NEW c, Carries(A, B, s, c, m, n), Len(c) <= limit
  PROVE  CutUpTo(A, B, s, limit, Kept(q, c), n)
<1>1. PICK S : S = Seq(A)
  OBVIOUS
<1>2. q \in Seq(S) /\ c \in S
  BY <1>1 DEF CutUpTo, Carries
<1>3. PICK x \in S : x = FlattenSeq(q)
  BY <1>1, <1>2, FlattenType
<1>4. /\ Len(x) <= m /\ Without(x, B) = Without(SubSeq(s, 1, m), B)
      /\ \A k \in 1..Len(q) : Len(q[k]) <= limit
  BY <1>3 DEF CutUpTo
<1>5. x \o c \in S /\ Len(x \o c) <= n /\ Without(x \o c, B) = Without(SubSeq(s, 1, n), B)
  BY <1>1, <1>4, TextGrows
<1>6. Kept(q, c) \in Seq(S) /\ FlattenSeq(Kept(q, c)) = x \o c
  BY <1>1, <1>2, <1>3, FlattenOfKept
<1>7. \A k \in 1..Len(Kept(q, c)) : Len(Kept(q, c)[k]) <= limit
  BY <1>2, <1>4, KeptFit
<1>8. QED BY <1>1, <1>5, <1>6, <1>7 DEF CutUpTo

LEMMA CarriesNone ==
  ASSUME NEW A, NEW B, NEW s \in Seq(A), NEW m \in 0..Len(s)
  PROVE  Carries(A, B, s, <<>>, m, m)
<1>1. SubSeq(s, m + 1, m) = <<>>
  BY SubSeqEmpty
<1>2. PICK none \in Seq(A) : none = <<>> /\ Len(none) = 0
  BY EmptySeq
<1>3. Len(none) <= m - m
  BY <1>2
<1>4. Carries(A, B, s, none, m, m)
  <2>1. Without(none, B) = Without(SubSeq(s, m + 1, m), B)
    BY <1>1, <1>2, Zenon
  <2>2. QED BY <1>3, <2>1 DEF Carries
<1>5. QED BY <1>2, <1>4

LEMMA CutOfNothing ==
  ASSUME NEW A, NEW B, NEW s \in Seq(A), NEW limit
  PROVE  CutUpTo(A, B, s, limit, <<>>, 0)
<1>1. PICK none \in Seq(Seq(A)) : none = <<>> /\ Len(none) = 0
  BY EmptySeq
<1>2. SubSeq(s, 1, 0) = <<>>
  BY SubSeqEmpty
<1>3. FlattenSeq(none) = none
  BY <1>1, FlattenOfNone
<1>4. Len(FlattenSeq(none)) <= 0 /\ \A c \in 1..Len(none) : FALSE
  BY <1>1, <1>3
<1>5. Without(FlattenSeq(none), B) = Without(SubSeq(s, 1, 0), B)
  BY <1>1, <1>2, <1>3
<1>6. CutUpTo(A, B, s, limit, none, 0)
  BY <1>4, <1>5 DEF CutUpTo
<1>7. QED BY <1>1, <1>6

\* Letters of B need no chunk.
LEMMA CarriesMore ==
  ASSUME NEW A, NEW B, NEW s \in Seq(A), NEW m \in 0..Len(s), NEW n \in m..Len(s), NEW o \in n..Len(s),
         NEW c, Carries(A, B, s, c, m, n), \A k \in (n + 1)..o : s[k] \in B
  PROVE  Carries(A, B, s, c, m, o)
<1>1. /\ m + 1 \in 1..(Len(s) + 1) /\ n \in ((m + 1) - 1)..Len(s) /\ o \in n..Len(s)
      /\ n + 1 \in 1..(Len(s) + 1) /\ o \in ((n + 1) - 1)..Len(s)
  OBVIOUS
<1>2. Without(SubSeq(s, m + 1, o), B) = Without(SubSeq(s, m + 1, n), B) \o Without(SubSeq(s, n + 1, o), B)
  BY <1>1, WithoutOfParts
<1>3. Without(SubSeq(s, n + 1, o), B) = <<>>
  BY <1>1, WithoutOfSuchPart
<1>4. Without(SubSeq(s, m + 1, n), B) \in Seq(A)
  BY <1>1, PartType, WithoutType
<1>5. Without(SubSeq(s, m + 1, o), B) = Without(SubSeq(s, m + 1, n), B)
  BY <1>2, <1>3, <1>4, ConcatEmptySeq
<1>6. Len(c) <= o - m
  <2>1. c \in Seq(A) /\ Len(c) <= n - m
    BY DEF Carries
  <2>2. Len(c) \in Nat /\ m \in Nat /\ n \in Nat /\ o \in Nat /\ n <= o
    BY <2>1
  <2>3. QED BY <2>1, <2>2
<1>7. QED BY <1>5, <1>6 DEF Carries

\* A chunk of a pass, stripped, with the spaces before the next.
LEMMA PieceCarries ==
  ASSUME NEW A, NEW B, Blank \subseteq B, NEW s \in Seq(A), NEW limit \in Nat \ {0}, NEW start \in 1..Len(s)
  PROVE  LET last == ChunkEnd(s, start, limit)
             next == NextStart(s, last + 1)
             c == Stripped(SubSeq(s, start, last)) IN
         /\ next \in (start + 1)..(Len(s) + 1)
         /\ Carries(A, B, s, c, start - 1, next - 1)
         /\ Len(c) <= limit
<1>1. PICK last \in start..Len(s) : last = ChunkEnd(s, start, limit) /\ last - start + 1 <= limit
  BY ChunkEndFits
<1>2. last + 1 \in 1..(Len(s) + 1)
  OBVIOUS
<1>3. PICK next \in (last + 1)..(Len(s) + 1) :
        next = NextStart(s, last + 1) /\ \A k \in (last + 1)..(next - 1) : s[k] = Space
  BY <1>2, NextStartSkipsSpaces
<1>4. start \in 1..(Len(s) + 1) /\ last \in (start - 1)..Len(s)
  OBVIOUS
<1>5. PICK p \in Seq(A) : p = SubSeq(s, start, last) /\ Len(p) = last - start + 1
  <2>1. SubSeq(s, start, last) \in Seq(A) /\ Len(SubSeq(s, start, last)) = last - start + 1
    BY <1>4, PartType
  <2>2. QED BY <2>1
<1>6. PICK c \in Seq(A) : c = Stripped(p) /\ Len(c) <= Len(p) /\ Without(c, B) = Without(p, B)
  BY StrippedKeepsInk
<1>7. start - 1 \in 0..Len(s) /\ last \in (start - 1)..Len(s) /\ next - 1 \in last..Len(s) /\ (start - 1) + 1 = start
  OBVIOUS
<1>8. /\ Len(c) \in Nat /\ Len(p) \in Nat /\ last - (start - 1) = last - start + 1
      /\ Len(c) <= limit /\ Len(c) <= last - (start - 1)
  <2>1. Len(c) \in Nat /\ start \in Nat /\ last \in Nat /\ limit \in Nat
    OBVIOUS
  <2>2. QED BY <1>1, <1>5, <1>6, <2>1
<1>9. Carries(A, B, s, c, start - 1, last)
  BY <1>5, <1>6, <1>7, <1>8 DEF Carries
<1>10. Space \in B
  BY DEF Blank
<1>11. Carries(A, B, s, c, start - 1, next - 1)
  BY <1>3, <1>7, <1>9, <1>10, CarriesMore
<1>12. next \in (start + 1)..(Len(s) + 1)
  OBVIOUS
<1>13. QED BY <1>1, <1>3, <1>5, <1>6, <1>8, <1>11, <1>12

\* What is true of a pass of the cut by length: which chunks there are, and that it
\* is getting on.
LengthLoop(A, B, s, limit, n, a) ==
  /\ CutUpTo(A, B, s, limit, a.chunks, a.start - 1)
  /\ n < a.start \/ a.start = Len(s) + 1

LengthState(A, s) == [chunks : Seq(Seq(A)), start : 1..(Len(s) + 1)]

LEMMA LengthPassCuts ==
  ASSUME NEW A, NEW B, Blank \subseteq B, NEW s \in Seq(A), NEW limit \in Nat \ {0}, NEW a \in LengthState(A, s)
  PROVE  /\ LengthPass(s, limit, a) \in LengthState(A, s)
         /\ \A n \in Nat \ {0} :
              LengthLoop(A, B, s, limit, n - 1, a) => LengthLoop(A, B, s, limit, n, LengthPass(s, limit, a))
<1>0. a.start \in 1..(Len(s) + 1) /\ a.chunks \in Seq(Seq(A)) /\ Len(s) \in Nat
  BY DEF LengthState
<1>1. CASE a.start > Len(s)
  <2>1. LengthPass(s, limit, a) = a
    BY <1>1 DEF LengthPass
  <2>2. a.start = Len(s) + 1
    BY <1>0, <1>1
  <2>3. QED BY <2>1, <2>2 DEF LengthLoop
<1>2. CASE ~(a.start > Len(s))
  <2>1. PICK start \in 1..Len(s) : start = a.start
    BY <1>0, <1>2
  <2>2. PICK last : last = ChunkEnd(s, start, limit)
    OBVIOUS
  <2>3. PICK next \in (start + 1)..(Len(s) + 1) : next = NextStart(s, last + 1)
    BY <2>2, PieceCarries
  <2>4. PICK c : /\ c = Stripped(SubSeq(s, start, last)) /\ Len(c) <= limit
                 /\ Carries(A, B, s, c, start - 1, next - 1)
    BY <2>2, <2>3, PieceCarries
  <2>5. LengthPass(s, limit, a) = [chunks |-> Kept(a.chunks, c), start |-> next]
    BY <1>2, <2>1, <2>2, <2>3, <2>4 DEF LengthPass
  <2>6. c \in Seq(A)
    BY <2>4 DEF Carries
  <2>7. Kept(a.chunks, c) \in Seq(Seq(A))
    BY <1>0, <2>6, FlattenOfKept
  <2>8. next \in 1..(Len(s) + 1)
    OBVIOUS
  <2>9. LengthPass(s, limit, a) \in LengthState(A, s)
    BY <2>5, <2>7, <2>8 DEF LengthState
  <2>10. ASSUME NEW n \in Nat \ {0}, LengthLoop(A, B, s, limit, n - 1, a)
         PROVE  LengthLoop(A, B, s, limit, n, LengthPass(s, limit, a))
    <3>1. CutUpTo(A, B, s, limit, a.chunks, start - 1)
      BY <2>1, <2>10 DEF LengthLoop
    <3>2. start - 1 \in 0..Len(s) /\ next - 1 \in (start - 1)..Len(s) /\ limit \in Nat
      OBVIOUS
    <3>3. CutUpTo(A, B, s, limit, Kept(a.chunks, c), next - 1)
      BY <2>4, <3>1, <3>2, CutGrows
    <3>4. n - 1 < start
      BY <2>1, <2>10, <1>0 DEF LengthLoop
    <3>5. n < next
      BY <3>4
    <3>6. QED BY <2>5, <3>3, <3>5 DEF LengthLoop
  <2>11. QED BY <2>9, <2>10
<1>3. QED BY <1>1, <1>2

LEMMA ByLengthCuts ==
  ASSUME NEW A, NEW B, Blank \subseteq B, NEW s \in Seq(A), NEW limit \in Nat \ {0}
  PROVE  CutUpTo(A, B, s, limit, ByLength(s, limit), Len(s))
<1> DEFINE N == Len(s)
           S == LengthState(A, s)
           F == [n \in 1..N |-> [a \in S |-> LengthPass(s, limit, a)]]
           f[n \in 0..N] == IF n = 0 THEN [chunks |-> <<>>, start |-> 1] ELSE LengthPass(s, limit, f[n - 1])
<1>0. N \in Nat
  OBVIOUS
<1>1. ByLength(s, limit) = f[N].chunks
  BY DEF ByLength
<1>2. PICK x \in S : x = [chunks |-> <<>>, start |-> 1]
  <2>1. <<>> \in Seq(Seq(A))
    BY EmptySeq
  <2>2. 1 \in 1..(Len(s) + 1)
    OBVIOUS
  <2>3. QED BY <2>1, <2>2 DEF LengthState
<1>3. F \in [1..N -> [S -> S]]
  <2>1. ASSUME NEW a \in S PROVE LengthPass(s, limit, a) \in S
    BY LengthPassCuts
  <2> HIDE DEF S
  <2>2. QED BY <2>1
<1>4. PICK g \in [0..N -> S] : IsLoop(g, x, N, F)
  <2> HIDE DEF F, f, N, S
  <2>1. QED BY <1>0, <1>3, LoopExists
<1>5. ASSUME NEW n \in 1..N PROVE g[n] = LengthPass(s, limit, g[n - 1]) /\ g[n - 1] \in S
  <2> HIDE DEF S
  <2>1. g[n - 1] \in S
    OBVIOUS
  <2>2. g[n] = F[n][g[n - 1]]
    BY <1>4 DEF IsLoop
  <2>3. QED BY <2>1, <2>2
<1>6. g[0] = x
  BY <1>4 DEF IsLoop
<1> HIDE DEF S, F
<1>7. g = [n \in 0..N |-> IF n = 0 THEN [chunks |-> <<>>, start |-> 1] ELSE LengthPass(s, limit, g[n - 1])]
  <2>1. ASSUME NEW n \in 0..N
        PROVE  g[n] = IF n = 0 THEN [chunks |-> <<>>, start |-> 1] ELSE LengthPass(s, limit, g[n - 1])
    <3>1. CASE n = 0
      BY <1>2, <1>6, <3>1
    <3>2. CASE n # 0
      <4>1. n \in 1..N
        BY <3>2
      <4> HIDE DEF f
      <4>2. QED BY <1>5, <3>2, <4>1
    <3>3. QED BY <3>1, <3>2
  <2>2. QED BY <2>1
<1>8. f = [n \in 0..N |-> IF n = 0 THEN [chunks |-> <<>>, start |-> 1] ELSE LengthPass(s, limit, f[n - 1])]
  BY <1>7
<1> HIDE DEF f
<1> DEFINE T == {n \in 0..N : f[n] = g[n] /\ LengthLoop(A, B, s, limit, n, g[n])}
<1>9. 0 \in T
  <2>1. f[0] = g[0]
    BY <1>0, <1>2, <1>6, <1>8
  <2>2. x.chunks = <<>> /\ x.start = 1 /\ 1 - 1 = 0 /\ 0 < 1
    BY <1>2
  <2>3. LengthLoop(A, B, s, limit, 0, g[0])
    BY <1>6, <2>2, CutOfNothing DEF LengthLoop
  <2>4. QED BY <1>0, <2>1, <2>3
<1>10. ASSUME NEW n \in 1..N, n - 1 \in T PROVE n \in T
  <2>1. n \in 0..N /\ n # 0 /\ n \in Nat \ {0}
    OBVIOUS
  <2>2. f[n] = LengthPass(s, limit, f[n - 1])
    BY <1>8, <2>1
  <2>3. f[n - 1] = g[n - 1] /\ LengthLoop(A, B, s, limit, n - 1, g[n - 1])
    BY <1>10
  <2>4. f[n] = g[n]
    BY <1>5, <2>2, <2>3
  <2>5. LengthLoop(A, B, s, limit, n, g[n])
    BY <1>5, <2>1, <2>3, LengthPassCuts DEF S
  <2>6. QED BY <2>1, <2>4, <2>5
<1> HIDE DEF T, N
<1>11. \A n \in 0..N : n \in T
  BY <1>0, <1>9, <1>10, BoundedInduction
<1>12. f[N] = g[N] /\ LengthLoop(A, B, s, limit, N, g[N])
  BY <1>0, <1>11 DEF T
<1>13. g[N] \in S
  BY <1>0
<1>14. g[N].start = N + 1
  BY <1>0, <1>12, <1>13 DEF LengthLoop, LengthState, S, N
<1>15. CutUpTo(A, B, s, limit, g[N].chunks, N)
  BY <1>0, <1>12, <1>14 DEF LengthLoop
<1>16. QED BY <1>1, <1>12, <1>15 DEF N

-----------------------------------------------------------------------------
(* The cut by line. *)

LEMMA LineEndStops ==
  ASSUME NEW A, NEW s \in Seq(A), NEW start \in 1..(Len(s) + 1)
  PROVE  /\ LineEnd(s, start) \in (start - 1)..Len(s)
         /\ LineEnd(s, start) < Len(s) => s[LineEnd(s, start) + 1] = Newline
<1> DEFINE I == {k \in (start - 1)..Len(s) : \A i \in start..k : s[i] # Newline}
<1>1. Len(s) \in Nat /\ start - 1 \in Nat
  OBVIOUS
<1>2. start - 1 \in I
  BY <1>1
<1>3. I \in SUBSET (0..Len(s))
  BY <1>1
<1>4. PICK m \in I : m = Max(I) /\ \A k \in I : k <= m
  <2> HIDE DEF I
  <2>1. QED BY <1>1, <1>2, <1>3, Highest
<1>5. LineEnd(s, start) = m
  BY <1>4 DEF LineEnd
<1>6. m \in (start - 1)..Len(s) /\ \A i \in start..m : s[i] # Newline
  OBVIOUS
<1>7. ASSUME m < Len(s), s[m + 1] # Newline PROVE FALSE
  <2>1. m + 1 \in (start - 1)..Len(s) /\ ~(m + 1 <= m)
    BY <1>1, <1>6, <1>7
  <2>2. ASSUME NEW i \in start..(m + 1) PROVE s[i] # Newline
    <3>1. i \in start..m \/ i = m + 1
      BY <1>6
    <3>2. QED BY <1>6, <1>7, <3>1
  <2>3. m + 1 \in I
    BY <2>1, <2>2
  <2>4. QED BY <1>4, <2>1, <2>3
<1>8. QED BY <1>5, <1>6, <1>7

LEMMA CarriesConcat ==
  ASSUME NEW A, NEW B, NEW s \in Seq(A), NEW m \in 0..Len(s), NEW n \in m..Len(s), NEW o \in n..Len(s),
         NEW c, Carries(A, B, s, c, m, n), NEW d, Carries(A, B, s, d, n, o)
  PROVE  Carries(A, B, s, c \o d, m, o)
<1>1. PICK x \in Seq(A) : x = c /\ Len(x) <= n - m /\ Without(x, B) = Without(SubSeq(s, m + 1, n), B)
  BY DEF Carries
<1>2. PICK y \in Seq(A) : y = d /\ Len(y) <= o - n /\ Without(y, B) = Without(SubSeq(s, n + 1, o), B)
  BY DEF Carries
<1>3. /\ m + 1 \in 1..(Len(s) + 1) /\ n \in ((m + 1) - 1)..Len(s) /\ o \in n..Len(s)
  OBVIOUS
<1>4. Without(SubSeq(s, m + 1, o), B) = Without(SubSeq(s, m + 1, n), B) \o Without(SubSeq(s, n + 1, o), B)
  BY <1>3, WithoutOfParts
<1>5. Without(x \o y, B) = Without(x, B) \o Without(y, B)
  BY WithoutOfConcat
<1>6. x \o y \in Seq(A) /\ Len(x \o y) = Len(x) + Len(y) /\ Len(x) \in Nat /\ Len(y) \in Nat
  BY LengthsAdd
<1>7. Len(x \o y) <= o - m
  <2>1. m \in Nat /\ n \in Nat /\ o \in Nat
    OBVIOUS
  <2>2. QED BY <1>1, <1>2, <1>6, <2>1
<1>8. Without(x \o y, B) = Without(SubSeq(s, m + 1, o), B)
  BY <1>1, <1>2, <1>4, <1>5
<1>9. QED BY <1>1, <1>2, <1>6, <1>7, <1>8 DEF Carries

\* How much is read when the next line starts there, but for the newline before it.
ReadUpTo(start) == IF start = 1 THEN 0 ELSE start - 2

LEMMA LineCarries ==
  ASSUME NEW A, NEW B, Newline \in B, NEW s \in Seq(A),
         NEW start \in 1..(Len(s) + 1), NEW last \in (start - 1)..Len(s),
         start > 1 => s[start - 1] = Newline
  PROVE  Carries(A, B, s, SubSeq(s, start, last), ReadUpTo(start), last)
<1>1. PICK line \in Seq(A) : line = SubSeq(s, start, last) /\ Len(line) = last - start + 1
  <2>1. SubSeq(s, start, last) \in Seq(A) /\ Len(SubSeq(s, start, last)) = last - start + 1
    BY PartType
  <2>2. QED BY <2>1
<1>2. CASE start = 1
  <2>1. ReadUpTo(start) = 0 /\ 0 + 1 = start /\ last - start + 1 <= last - 0
    BY <1>2 DEF ReadUpTo
  <2>2. QED BY <1>1, <2>1 DEF Carries
<1>3. CASE start # 1
  <2>1. PICK k \in 1..Len(s) : k = start - 1
    BY <1>3
  <2>2. ReadUpTo(start) = k - 1 /\ last - start + 1 <= last - (k - 1) /\ (k - 1) + 1 = k
    BY <1>3, <2>1 DEF ReadUpTo
  <2>3. k \in 1..(Len(s) + 1) /\ k \in (k - 1)..Len(s) /\ last \in k..Len(s) /\ k + 1 = start
    BY <2>1
  <2>4. Without(SubSeq(s, k, last), B) = Without(SubSeq(s, k, k), B) \o Without(SubSeq(s, k + 1, last), B)
    BY <2>3, WithoutOfParts
  <2>5. \A i \in k..k : s[i] \in B
    <3>1. s[k] \in B
      BY <2>1, <2>3
    <3>2. QED BY <3>1
  <2>6. Without(SubSeq(s, k, k), B) = <<>>
    BY <2>3, <2>5, WithoutOfSuchPart
  <2>7. PICK w \in Seq(A) : w = Without(line, B)
    BY WithoutType
  <2>8. Without(SubSeq(s, k, last), B) = w
    BY <1>1, <2>3, <2>4, <2>6, <2>7, ConcatEmptySeq
  <2>9. QED BY <1>1, <2>2, <2>7, <2>8 DEF Carries
<1>4. QED BY <1>2, <1>3

LEMMA JoinedCarries ==
  ASSUME NEW A, NEW B, Blank \subseteq B, Newline \in A, NEW s \in Seq(A),
         NEW start \in 1..(Len(s) + 1), NEW last \in (start - 1)..Len(s),
         start > 1 => s[start - 1] = Newline,
         NEW m \in 0..ReadUpTo(start), NEW current, Carries(A, B, s, current, m, ReadUpTo(start))
  PROVE  LET line == SubSeq(s, start, last) IN
         Carries(A, B, s, IF current = <<>> THEN line ELSE Stripped(current \o <<Newline>> \o line), m, last)
<1>0. Newline \in B
  BY DEF Blank
<1>1. PICK line \in Seq(A) : line = SubSeq(s, start, last) /\ Len(line) = last - start + 1
  <2>1. SubSeq(s, start, last) \in Seq(A) /\ Len(SubSeq(s, start, last)) = last - start + 1
    BY PartType
  <2>2. QED BY <2>1
<1>2. PICK read \in 0..Len(s) : read = ReadUpTo(start) /\ last \in read..Len(s) /\ m \in 0..Len(s) /\ read \in m..Len(s)
  BY DEF ReadUpTo
<1>3. Carries(A, B, s, line, read, last)
  BY <1>0, <1>1, <1>2, LineCarries
<1>4. PICK c \in Seq(A) : c = current /\ Len(c) <= read - m
  BY <1>2 DEF Carries
<1>5. Carries(A, B, s, c \o line, m, last)
  BY <1>2, <1>3, <1>4, CarriesConcat
<1>6. CASE c = <<>>
  <2>1. c \o line = line
    BY <1>6, ConcatEmptySeq
  <2>2. QED BY <1>1, <1>4, <1>5, <1>6, <2>1
<1>7. CASE c # <<>>
  <2>1. PICK nl \in Seq(A) : nl = <<Newline>> /\ Len(nl) = 1 /\ nl[1] = Newline
    <3>1. <<Newline>> \in Seq(A) /\ Len(<<Newline>>) = 1 /\ <<Newline>>[1] = Newline
      OBVIOUS
    <3>2. QED BY <3>1
  <2>2. PICK x \in Seq(A) : x = c \o nl /\ Len(x) = Len(c) + 1 /\ Len(c) \in Nat
    <3>1. c \o nl \in Seq(A) /\ Len(c \o nl) = Len(c) + Len(nl) /\ Len(c) \in Nat
      BY LengthsAdd
    <3>2. QED BY <2>1, <3>1
  <2>3. PICK y \in Seq(A) : y = x \o line /\ Len(y) = Len(x) + Len(line)
    <3>1. x \o line \in Seq(A) /\ Len(x \o line) = Len(x) + Len(line)
      BY LengthsAdd
    <3>2. QED BY <3>1
  <2>4. PICK j \in Seq(A) : j = Stripped(y) /\ Len(j) <= Len(y) /\ Without(j, B) = Without(y, B)
    BY StrippedKeepsInk
  <2>5. Without(nl, B) = <<>>
    <3>1. \A i \in 1..Len(nl) : nl[i] \in B
      BY <1>0, <2>1
    <3>2. QED BY <3>1, WithoutOfThese
  <2>6. PICK wc \in Seq(A) : wc = Without(c, B)
    BY WithoutType
  <2>7. Without(x, B) = wc
    <3>1. Without(c \o nl, B) = Without(c, B) \o Without(nl, B)
      BY WithoutOfConcat
    <3>2. QED BY <2>2, <2>5, <2>6, <3>1, ConcatEmptySeq
  <2>8. Without(j, B) = Without(c \o line, B)
    <3>1. Without(x \o line, B) = Without(x, B) \o Without(line, B)
      BY WithoutOfConcat
    <3>2. Without(c \o line, B) = Without(c, B) \o Without(line, B)
      BY WithoutOfConcat
    <3>3. QED BY <2>3, <2>4, <2>6, <2>7, <3>1, <3>2
  <2>9. Len(j) <= last - m
    <3>1. Len(c) # 0 /\ Len(c) \in Nat
      <4>1. Len(c) = 0 => c = <<>>
        BY EmptySeq
      <4>2. QED BY <1>7, <2>2, <4>1
    <3>2. read - m \in Nat /\ read > 0
      BY <1>2, <1>4, <3>1
    <3>3. read = start - 2 /\ start \in Nat /\ last \in Nat /\ m \in Nat
      BY <1>2, <3>2 DEF ReadUpTo
    <3>4. Len(j) \in Nat /\ Len(y) = Len(c) + 1 + (last - start + 1)
      BY <1>1, <2>2, <2>3
    <3>5. QED BY <1>4, <2>2, <2>4, <3>3, <3>4
  <2>10. Carries(A, B, s, j, m, last)
    BY <1>5, <2>8, <2>9 DEF Carries
  <2>11. j = Stripped(current \o <<Newline>> \o line)
    BY <1>4, <2>1, <2>2, <2>3, <2>4
  <2>12. QED BY <1>1, <1>4, <1>7, <2>10, <2>11
<1>8. QED BY <1>6, <1>7

LEMMA CutGrowsBy ==
  ASSUME NEW A, NEW B, NEW s \in Seq(A), NEW limit \in Nat, NEW m \in 0..Len(s), NEW n \in m..Len(s),
         NEW q, CutUpTo(A, B, s, limit, q, m),
         NEW r \in Seq(Seq(A)), \A k \in 1..Len(r) : Len(r[k]) <= limit,
         Carries(A, B, s, FlattenSeq(r), m, n)
  PROVE  CutUpTo(A, B, s, limit, q \o r, n)
<1>1. PICK S : S = Seq(A)
  OBVIOUS
<1>2. q \in Seq(S) /\ r \in Seq(S)
  BY <1>1 DEF CutUpTo
<1>3. PICK x \in S : x = FlattenSeq(q)
  BY <1>1, <1>2, FlattenType
<1>4. PICK y : y = FlattenSeq(r)
  OBVIOUS
<1>5. /\ Len(x) <= m /\ Without(x, B) = Without(SubSeq(s, 1, m), B)
      /\ \A k \in 1..Len(q) : Len(q[k]) <= limit
  BY <1>3 DEF CutUpTo
<1>6. x \o y \in S /\ Len(x \o y) <= n /\ Without(x \o y, B) = Without(SubSeq(s, 1, n), B)
  BY <1>1, <1>4, <1>5, TextGrows
<1>7. FlattenSeq(q \o r) = x \o y
  BY <1>1, <1>2, <1>3, <1>4, FlattenOfConcat
<1>8. PICK t \in Seq(S) : t = q \o r
  BY <1>2, ConcatProperties
<1>9. \A k \in 1..Len(t) : Len(t[k]) <= limit
  <2>1. /\ Len(t) = Len(q) + Len(r) /\ Len(q) \in Nat /\ Len(r) \in Nat
        /\ \A i \in 1..Len(t) : t[i] = IF i <= Len(q) THEN q[i] ELSE r[i - Len(q)]
    BY <1>2, <1>8, ConcatProperties
  <2>2. ASSUME NEW k \in 1..Len(t) PROVE Len(t[k]) <= limit
    <3>1. CASE k <= Len(q)
      <4>1. k \in 1..Len(q) /\ t[k] = q[k]
        BY <2>1, <3>1
      <4>2. QED BY <1>5, <4>1
    <3>2. CASE ~(k <= Len(q))
      <4>1. k - Len(q) \in 1..Len(r) /\ t[k] = r[k - Len(q)]
        BY <2>1, <3>2
      <4>2. QED BY <4>1
    <3>3. QED BY <3>1, <3>2
  <2>3. QED BY <2>2
<1>10. QED BY <1>1, <1>6, <1>7, <1>8, <1>9 DEF CutUpTo

\* The loop over lines.
LineState(A, s) == [chunks : Seq(Seq(A)), current : Seq(A), start : 1..(Len(s) + 2)]

\* What is true of a pass of the cut by line: the chunks have the text up to some
\* place, what is collected goes on from there, and the loop is getting on.
LineLoop(A, B, s, limit, n, a) ==
  /\ \E m \in 0..ReadUpTo(a.start) :
       CutUpTo(A, B, s, limit, a.chunks, m) /\ Carries(A, B, s, a.current, m, ReadUpTo(a.start))
  /\ Len(a.current) <= limit
  /\ a.start > 1 /\ a.start <= Len(s) + 1 => s[a.start - 1] = Newline
  /\ n < a.start \/ a.start = Len(s) + 2

\* The same of what one line makes of it, before the place moves on.
LineTaken(A, B, s, limit, b, last) ==
  /\ b.chunks \in Seq(Seq(A)) /\ b.current \in Seq(A) /\ Len(b.current) <= limit
  /\ \E m \in 0..last : CutUpTo(A, B, s, limit, b.chunks, m) /\ Carries(A, B, s, b.current, m, last)

LEMMA WithLineTakes ==
  ASSUME NEW A, NEW B, Blank \subseteq B, Newline \in A, NEW s \in Seq(A), NEW limit \in Nat \ {0},
         NEW a \in LineState(A, s), a.start <= Len(s) + 1,
         \E n \in Nat : LineLoop(A, B, s, limit, n, a),
         NEW last \in (a.start - 1)..Len(s)
  PROVE  /\ LineTaken(A, B, s, limit, WithLine(a, SubSeq(s, a.start, last), limit), last)
         /\ LET b == WithLine(a, SubSeq(s, a.start, last), limit) IN
            b = [chunks |-> b.chunks, current |-> b.current, start |-> a.start]
<1> DEFINE W == WithLine(a, SubSeq(s, a.start, last), limit)
<1>0. Newline \in B
  BY DEF Blank
<1>1. PICK start \in 1..(Len(s) + 1) : start = a.start
  BY DEF LineState
<1>2. PICK S : S = Seq(A)
  OBVIOUS
<1>3. PICK read \in 0..Len(s) : read = ReadUpTo(start) /\ last \in read..Len(s) /\ read <= last
  BY <1>1 DEF ReadUpTo
<1>4. PICK m \in 0..read : CutUpTo(A, B, s, limit, a.chunks, m) /\ Carries(A, B, s, a.current, m, read)
  BY <1>1, <1>3 DEF LineLoop
<1>5. m \in 0..Len(s) /\ read \in m..Len(s) /\ last \in 0..Len(s) /\ limit \in Nat /\ read \in 0..last /\ m \in 0..last
  BY <1>3
<1>6. start > 1 => s[start - 1] = Newline
  BY <1>1 DEF LineLoop
<1>7. PICK line \in S : line = SubSeq(s, start, last) /\ Carries(A, B, s, line, read, last)
  <2>1. Carries(A, B, s, SubSeq(s, start, last), read, last)
    BY <1>0, <1>1, <1>3, <1>6, LineCarries
  <2>2. SubSeq(s, start, last) \in S
    BY <1>2, <2>1 DEF Carries
  <2>3. QED BY <2>1, <2>2
<1>8. PICK joined \in S : /\ joined = IF a.current = <<>> THEN line ELSE Stripped(a.current \o <<Newline>> \o line)
                          /\ Carries(A, B, s, joined, m, last)
  <2>1. m \in 0..ReadUpTo(start) /\ Carries(A, B, s, a.current, m, ReadUpTo(start)) /\ last \in (start - 1)..Len(s)
    BY <1>1, <1>3, <1>4
  <2>2. PICK j : j = IF a.current = <<>> THEN line ELSE Stripped(a.current \o <<Newline>> \o line)
    OBVIOUS
  <2>3. Carries(A, B, s, j, m, last)
    BY <1>6, <1>7, <2>1, <2>2, JoinedCarries
  <2>4. j \in S
    BY <1>2, <2>3 DEF Carries
  <2>5. QED BY <2>2, <2>3, <2>4
<1>9. a.current \in S /\ a.chunks \in Seq(S) /\ Len(a.current) <= limit
  BY <1>2 DEF LineState, LineLoop
<1>10. PICK done \in Seq(S) : done = Kept(a.chunks, a.current)
  BY <1>2, <1>9, FlattenOfKept
<1>11. CutUpTo(A, B, s, limit, done, read)
  BY <1>4, <1>5, <1>9, <1>10, CutGrows
<1>12. Len(joined) \in Nat /\ Len(line) \in Nat
  BY <1>2
<1>13. a = [chunks |-> a.chunks, current |-> a.current, start |-> a.start]
  BY DEF LineState
<1>14. CASE Len(joined) <= limit
  <2>1. W = [a EXCEPT !.current = joined]
    BY <1>1, <1>7, <1>8, <1>14 DEF WithLine
  <2>2. /\ W.chunks = a.chunks /\ W.current = joined
        /\ W = [chunks |-> W.chunks, current |-> W.current, start |-> a.start]
    BY <1>13, <2>1
  <2> HIDE DEF W
  <2>3. LineTaken(A, B, s, limit, W, last)
    BY <1>2, <1>4, <1>5, <1>8, <1>9, <1>14, <2>2 DEF LineTaken
  <2>4. QED BY <2>2, <2>3 DEF W
<1>15. CASE ~(Len(joined) <= limit) /\ Len(line) <= limit
  <2>1. Len(joined) > limit
    BY <1>12, <1>15
  <2>2. W = [a EXCEPT !.chunks = done, !.current = line]
    BY <1>1, <1>7, <1>8, <1>10, <1>15, <2>1 DEF WithLine
  <2>3. /\ W.chunks = done /\ W.current = line
        /\ W = [chunks |-> W.chunks, current |-> W.current, start |-> a.start]
    BY <1>13, <2>2
  <2> HIDE DEF W
  <2>4. LineTaken(A, B, s, limit, W, last)
    BY <1>2, <1>5, <1>7, <1>10, <1>11, <1>15, <2>3 DEF LineTaken
  <2>5. QED BY <2>3, <2>4 DEF W
<1>16. CASE ~(Len(joined) <= limit) /\ ~(Len(line) <= limit)
  <2>1. PICK r : r = ByLength(line, limit) /\ CutUpTo(A, B, line, limit, r, Len(line))
    BY <1>2, <1>7, ByLengthCuts
  <2>2. W = [a EXCEPT !.chunks = done \o r, !.current = <<>>]
    BY <1>1, <1>7, <1>8, <1>10, <1>16, <2>1 DEF WithLine
  <2>3. /\ W.chunks = done \o r /\ W.current = <<>>
        /\ W = [chunks |-> W.chunks, current |-> W.current, start |-> a.start]
    BY <1>13, <2>2
  <2>4. r \in Seq(Seq(A)) /\ \A k \in 1..Len(r) : Len(r[k]) <= limit
    BY <2>1 DEF CutUpTo
  <2>5. Carries(A, B, s, FlattenSeq(r), read, last)
    <3>1. PICK y \in Seq(A) : y = FlattenSeq(r)
      BY <2>4, FlattenType
    <3>2. SubSeq(line, 1, Len(line)) = line
      BY <1>2, <1>7, SubSeqFull
    <3>3. Len(y) <= Len(line) /\ Without(y, B) = Without(line, B)
      BY <2>1, <3>1, <3>2 DEF CutUpTo
    <3>4. Len(line) <= last - read /\ Without(line, B) = Without(SubSeq(s, read + 1, last), B)
      BY <1>7 DEF Carries
    <3>5. Len(y) <= last - read
      <4>1. Len(y) \in Nat /\ last \in Nat /\ read \in Nat
        BY <1>5
      <4>2. QED BY <1>12, <3>3, <3>4, <4>1
    <3>6. QED BY <3>1, <3>3, <3>4, <3>5 DEF Carries
  <2>6. CutUpTo(A, B, s, limit, done \o r, last)
    BY <1>3, <1>5, <1>11, <2>4, <2>5, CutGrowsBy
  <2>7. done \o r \in Seq(Seq(A))
    BY <2>6 DEF CutUpTo
  <2>8. Carries(A, B, s, <<>>, last, last)
    BY <1>5, CarriesNone
  <2>9. PICK none \in Seq(A) : none = <<>> /\ Len(none) = 0
    BY EmptySeq
  <2> HIDE DEF W
  <2>10. last \in 0..last /\ Len(none) <= limit
    BY <1>5, <2>9
  <2>11. LineTaken(A, B, s, limit, W, last)
    BY <2>3, <2>6, <2>7, <2>8, <2>9, <2>10 DEF LineTaken
  <2>12. QED BY <2>3, <2>11 DEF W
<1>17. QED BY <1>14, <1>15, <1>16

LEMMA LinePassCuts ==
  ASSUME NEW A, NEW B, Blank \subseteq B, Newline \in A, NEW s \in Seq(A), NEW limit \in Nat \ {0},
         NEW a \in LineState(A, s), NEW n \in Nat \ {0}, LineLoop(A, B, s, limit, n - 1, a)
  PROVE  /\ LinePass(s, limit, a) \in LineState(A, s)
         /\ LineLoop(A, B, s, limit, n, LinePass(s, limit, a))
<1>0. a.start \in 1..(Len(s) + 2) /\ Len(s) \in Nat /\ n - 1 \in Nat
  BY DEF LineState
<1>1. CASE a.start > Len(s) + 1
  <2>1. LinePass(s, limit, a) = a
    BY <1>1 DEF LinePass
  <2>2. a.start = Len(s) + 2
    BY <1>0, <1>1
  <2>3. QED BY <2>1, <2>2 DEF LineLoop
<1>2. CASE ~(a.start > Len(s) + 1)
  <2>1. PICK start \in 1..(Len(s) + 1) : start = a.start /\ a.start <= Len(s) + 1
    BY <1>0, <1>2
  <2>2. PICK last \in (start - 1)..Len(s) : last = LineEnd(s, start) /\ (last < Len(s) => s[last + 1] = Newline)
    BY LineEndStops
  <2>3. PICK W : W = WithLine(a, SubSeq(s, a.start, last), limit)
    OBVIOUS
  <2>4. LineTaken(A, B, s, limit, W, last)
    BY <1>0, <2>1, <2>2, <2>3, WithLineTakes
  <2>5. PICK q \in Seq(Seq(A)), c \in Seq(A) : W = [chunks |-> q, current |-> c, start |-> a.start]
    <3>1. W = [chunks |-> W.chunks, current |-> W.current, start |-> a.start]
      BY <1>0, <2>1, <2>2, <2>3, WithLineTakes
    <3>2. W.chunks \in Seq(Seq(A)) /\ W.current \in Seq(A)
      BY <2>4 DEF LineTaken
    <3>3. QED BY <3>1, <3>2
  <2>6. LinePass(s, limit, a) = [W EXCEPT !.start = last + 2]
    BY <1>2, <2>1, <2>2, <2>3 DEF LinePass
  <2>7. W.chunks = q /\ W.current = c
    BY <2>5
  <2>8. PICK b : b = LinePass(s, limit, a)
    OBVIOUS
  <2>9. b = [chunks |-> q, current |-> c, start |-> last + 2]
    BY <2>5, <2>6, <2>8
  <2>10. last + 2 \in 1..(Len(s) + 2) /\ last + 2 # 1 /\ (last + 2) - 2 = last /\ (last + 2) - 1 = last + 1
    BY <2>2
  <2>11. b \in LineState(A, s)
    BY <2>9, <2>10 DEF LineState
  <2>12. ReadUpTo(b.start) = last
    BY <2>9, <2>10 DEF ReadUpTo
  <2>13. /\ Len(c) <= limit
         /\ \E m \in 0..last : CutUpTo(A, B, s, limit, q, m) /\ Carries(A, B, s, c, m, last)
    BY <2>4, <2>7 DEF LineTaken
  <2>14. b.start <= Len(s) + 1 => s[b.start - 1] = Newline
    BY <1>0, <2>2, <2>9, <2>10
  <2>15. n < b.start
    <3>1. n - 1 < start
      BY <1>0, <2>1 DEF LineLoop
    <3>2. b.start = last + 2 /\ last >= start - 1
      BY <2>2, <2>9
    <3>3. QED BY <3>1, <3>2, <2>2
  <2>16. b.chunks = q /\ b.current = c
    BY <2>9
  <2>17. LineLoop(A, B, s, limit, n, b)
    BY <2>12, <2>13, <2>14, <2>15, <2>16 DEF LineLoop
  <2>18. QED BY <2>8, <2>11, <2>17
<1>3. QED BY <1>1, <1>2

LEMMA ByLineCuts ==
  ASSUME NEW A, NEW B, Blank \subseteq B, Newline \in A, NEW s \in Seq(A), NEW limit \in Nat \ {0}
  PROVE  CutUpTo(A, B, s, limit, ByLine(s, limit), Len(s))
<1> DEFINE N == Len(s) + 1
           x == [chunks |-> <<>>, current |-> <<>>, start |-> 1]
           S == {a \in LineState(A, s) : \E n \in Nat : LineLoop(A, B, s, limit, n, a)}
           F == [n \in 1..N |-> [a \in S |-> LinePass(s, limit, a)]]
           f[n \in 0..N] == IF n = 0 THEN x ELSE LinePass(s, limit, f[n - 1])
<1>0. N \in Nat /\ N = Len(s) + 1
  OBVIOUS
<1>1. ByLine(s, limit) = Kept(f[N].chunks, f[N].current)
  BY DEF ByLine
<1>2. x \in LineState(A, s) /\ LineLoop(A, B, s, limit, 0, x)
  <2>1. PICK none \in Seq(A) : none = <<>> /\ Len(none) = 0
    BY EmptySeq
  <2>2. PICK nil \in Seq(Seq(A)) : nil = <<>>
    BY EmptySeq
  <2>3. 1 \in 1..(Len(s) + 2) /\ 0 \in 0..0 /\ 0 \in 0..Len(s)
    BY <1>0
  <2>4. x = [chunks |-> nil, current |-> none, start |-> 1]
    BY <2>1, <2>2
  <2>5. x \in LineState(A, s)
    BY <2>3, <2>4 DEF LineState
  <2>6. ReadUpTo(x.start) = 0
    BY <2>4 DEF ReadUpTo
  <2>7. CutUpTo(A, B, s, limit, x.chunks, 0)
    BY CutOfNothing
  <2>8. Carries(A, B, s, x.current, 0, 0)
    BY <2>3, CarriesNone
  <2>9. Len(x.current) <= limit /\ x.start = 1 /\ 0 < x.start /\ ~(x.start > 1)
    BY <2>1, <2>4
  <2> HIDE DEF x
  <2>10. QED BY <2>3, <2>5, <2>6, <2>7, <2>8, <2>9 DEF LineLoop
<1> HIDE DEF x
<1>3. x \in S
  BY <1>2
<1>4. F \in [1..N -> [S -> S]]
  <2>1. ASSUME NEW a \in S PROVE LinePass(s, limit, a) \in S
    <3>1. PICK n \in Nat : LineLoop(A, B, s, limit, n, a)
      OBVIOUS
    <3>2. n + 1 \in Nat \ {0} /\ n = (n + 1) - 1
      OBVIOUS
    <3>3. LineLoop(A, B, s, limit, (n + 1) - 1, a)
      BY <3>1, <3>2
    <3>4. LinePass(s, limit, a) \in LineState(A, s) /\ LineLoop(A, B, s, limit, n + 1, LinePass(s, limit, a))
      BY <3>2, <3>3, LinePassCuts
    <3>5. QED BY <3>2, <3>4
  <2> HIDE DEF S
  <2>2. QED BY <2>1
<1>5. PICK g \in [0..N -> S] : IsLoop(g, x, N, F)
  <2> HIDE DEF F, f, N, S
  <2>1. QED BY <1>0, <1>3, <1>4, LoopExists
<1> HIDE DEF S
<1>6. ASSUME NEW n \in 1..N PROVE g[n] = LinePass(s, limit, g[n - 1]) /\ g[n - 1] \in S
  <2>1. g[n - 1] \in S
    OBVIOUS
  <2>2. g[n] = F[n][g[n - 1]]
    BY <1>5 DEF IsLoop
  <2>3. QED BY <2>1, <2>2
<1>7. g[0] = x
  BY <1>5 DEF IsLoop
<1> HIDE DEF F
<1>8. g = [n \in 0..N |-> IF n = 0 THEN x ELSE LinePass(s, limit, g[n - 1])]
  <2>1. ASSUME NEW n \in 0..N PROVE g[n] = IF n = 0 THEN x ELSE LinePass(s, limit, g[n - 1])
    <3>1. CASE n = 0
      BY <1>7, <3>1
    <3>2. CASE n # 0
      <4>1. n \in 1..N
        BY <3>2
      <4> HIDE DEF f
      <4>2. QED BY <1>6, <3>2, <4>1
    <3>3. QED BY <3>1, <3>2
  <2>2. QED BY <2>1
<1>9. f = [n \in 0..N |-> IF n = 0 THEN x ELSE LinePass(s, limit, f[n - 1])]
  BY <1>8
<1> HIDE DEF f
<1> DEFINE T == {n \in 0..N : f[n] = g[n] /\ LineLoop(A, B, s, limit, n, g[n])}
<1>10. 0 \in T
  BY <1>0, <1>2, <1>7, <1>9
<1>11. ASSUME NEW n \in 1..N, n - 1 \in T PROVE n \in T
  <2>1. n \in 0..N /\ n # 0 /\ n \in Nat \ {0}
    OBVIOUS
  <2>2. f[n] = LinePass(s, limit, f[n - 1])
    BY <1>9, <2>1
  <2>3. f[n - 1] = g[n - 1] /\ LineLoop(A, B, s, limit, n - 1, g[n - 1])
    BY <1>11
  <2>4. f[n] = g[n]
    BY <1>6, <2>2, <2>3
  <2>5. g[n - 1] \in LineState(A, s)
    BY <1>6 DEF S
  <2>6. LineLoop(A, B, s, limit, n, g[n])
    BY <1>6, <2>1, <2>3, <2>5, LinePassCuts
  <2>7. QED BY <2>1, <2>4, <2>6
<1> HIDE DEF T, N
<1>12. \A n \in 0..N : n \in T
  BY <1>0, <1>10, <1>11, BoundedInduction
<1>13. f[N] = g[N] /\ LineLoop(A, B, s, limit, N, g[N])
  BY <1>0, <1>12 DEF T
<1>14. PICK a \in LineState(A, s) : a = f[N] /\ LineLoop(A, B, s, limit, N, a)
  <2>1. g[N] \in LineState(A, s)
    BY <1>0 DEF S
  <2>2. QED BY <1>13, <2>1
<1>15. a.start \in 1..(Len(s) + 2) /\ Len(s) \in Nat
  BY DEF LineState
<1>16. a.start = Len(s) + 2
  BY <1>0, <1>14, <1>15 DEF LineLoop
<1>17. ReadUpTo(a.start) = Len(s)
  BY <1>15, <1>16 DEF ReadUpTo
<1>18. PICK m \in 0..Len(s) : CutUpTo(A, B, s, limit, a.chunks, m) /\ Carries(A, B, s, a.current, m, Len(s))
  BY <1>14, <1>17 DEF LineLoop
<1>19. m \in 0..Len(s) /\ Len(s) \in m..Len(s) /\ limit \in Nat
  BY <1>15
<1>20. Len(a.current) <= limit
  BY <1>14 DEF LineLoop
<1>21. CutUpTo(A, B, s, limit, Kept(a.chunks, a.current), Len(s))
  BY <1>18, <1>19, <1>20, CutGrows
<1>22. QED BY <1>1, <1>14, <1>21

\* chunk_text, at any limit, by length or by line: every chunk fits, and the chunks
\* read one after the other are the text, but for spaces and newlines.  B may hold
\* more letters that are not counted.
THEOREM ChunksKeepTheText ==
  ASSUME NEW A, NEW B, Blank \subseteq B, Newline \in A, NEW s \in Seq(A), NEW limit \in Nat \ {0},
         NEW mode \in {"length", "newline"}
  PROVE  LET chunks == Chunks(s, limit, mode) IN
         /\ chunks \in Seq(Seq(A)) /\ \A c \in 1..Len(chunks) : Len(chunks[c]) <= limit
         /\ Len(FlattenSeq(chunks)) <= Len(s)
         /\ Without(FlattenSeq(chunks), B) = Without(s, B)
<1>1. PICK q : q = Chunks(s, limit, mode)
  OBVIOUS
<1>2. SubSeq(s, 1, Len(s)) = s /\ Len(s) \in Nat
  BY SubSeqFull
<1>3. CutUpTo(A, B, s, limit, q, Len(s))
  <2>1. CASE s = <<>>
    <3>1. q = <<>> /\ Len(s) = 0
      BY <1>1, <2>1 DEF Chunks
    <3>2. QED BY <3>1, CutOfNothing
  <2>2. CASE s # <<>> /\ Len(s) <= limit
    <3>1. q = <<s>>
      BY <1>1, <2>2 DEF Chunks
    <3>2. PICK nil \in Seq(Seq(A)) : nil = <<>>
      BY EmptySeq
    <3>3. Kept(nil, s) = <<s>>
      BY <2>2, <3>2 DEF Kept
    <3>4. CutUpTo(A, B, s, limit, nil, 0)
      BY <3>2, CutOfNothing
    <3>5. 0 \in 0..Len(s) /\ Len(s) \in 0..Len(s) /\ limit \in Nat /\ Len(s) <= Len(s) - 0 /\ 0 + 1 = 1
      BY <1>2
    <3>6. Carries(A, B, s, s, 0, Len(s))
      BY <1>2, <3>5 DEF Carries
    <3>7. CutUpTo(A, B, s, limit, Kept(nil, s), Len(s))
      BY <2>2, <3>4, <3>5, <3>6, CutGrows
    <3>8. QED BY <3>1, <3>3, <3>7
  <2>3. CASE s # <<>> /\ ~(Len(s) <= limit) /\ mode = "newline"
    <3>1. q = ByLine(s, limit)
      BY <1>1, <2>3 DEF Chunks
    <3>2. QED BY <3>1, ByLineCuts
  <2>4. CASE s # <<>> /\ ~(Len(s) <= limit) /\ mode # "newline"
    <3>1. q = ByLength(s, limit)
      BY <1>1, <2>4 DEF Chunks
    <3>2. QED BY <3>1, ByLengthCuts
  <2>5. QED BY <2>1, <2>2, <2>3, <2>4
<1>4. QED BY <1>1, <1>2, <1>3 DEF CutUpTo

LEMMA PrefixOfConcat ==
  ASSUME NEW A, NEW s \in Seq(A), NEW u \in Seq(A)
  PROVE  IsPrefix(s, s \o u)
<1>1. PICK t \in Seq(A) : /\ t = s \o u /\ Len(t) = Len(s) + Len(u) /\ Len(s) \in Nat /\ Len(u) \in Nat
                          /\ \A i \in 1..Len(s) : t[i] = s[i]
  <2>1. s \o u \in Seq(A) /\ Len(s \o u) = Len(s) + Len(u) /\ Len(s) \in Nat /\ Len(u) \in Nat
    BY LengthsAdd
  <2>2. \A i \in 1..Len(s) : (s \o u)[i] = s[i]
    BY <2>1, ConcatProperties
  <2>3. QED BY <2>1, <2>2
<1>2. 1 \in 1..(Len(t) + 1) /\ Len(s) \in (1 - 1)..Len(t) /\ Len(s) <= Len(t) /\ Len(s) - 1 + 1 = Len(s)
  BY <1>1
<1>3. PICK p \in Seq(A) : /\ p = SubSeq(t, 1, Len(s)) /\ Len(p) = Len(s)
                          /\ \A i \in 1..Len(s) : p[i] = t[i]
  <2>1. /\ SubSeq(t, 1, Len(s)) \in Seq(A) /\ Len(SubSeq(t, 1, Len(s))) = Len(s) - 1 + 1
        /\ \A i \in 1..(Len(s) - 1 + 1) : SubSeq(t, 1, Len(s))[i] = t[1 + i - 1]
    BY <1>2, PartType
  <2>2. \A i \in 1..Len(s) : 1 + i - 1 = i /\ i \in 1..(Len(s) - 1 + 1)
    BY <1>1
  <2>3. QED BY <1>2, <2>1, <2>2
<1>4. p = s
  BY <1>1, <1>3, SeqEqual
<1>5. SubSeq(s, 1, Len(s)) = s
  BY SubSeqFull
<1>6. QED BY <1>1, <1>2, <1>3, <1>4, <1>5 DEF IsPrefix

LEMMA CappedIsPrefix ==
  ASSUME NEW A, NEW B, Marker \in A, Marker \in B, NEW s \in Seq(A), NEW max \in Nat, NEW marker \in Nat
  PROVE  /\ Truncated(s, max, marker) \in Seq(A)
         /\ max = 0 \/ Len(s) <= max => Truncated(s, max, marker) = s
         /\ ~(max = 0 \/ Len(s) <= max) =>
              Len(Truncated(s, max, marker)) <= max /\ IsPrefix(Without(Truncated(s, max, marker), B), Without(s, B))
<1>0. PICK t : t = Truncated(s, max, marker)
  OBVIOUS
<1>1. CASE max = 0 \/ Len(s) <= max
  <2>1. t = s
    BY <1>0, <1>1 DEF Truncated
  <2>2. QED BY <1>0, <1>1, <2>1
<1>2. CASE ~(max = 0 \/ Len(s) <= max)
  <2>0. Len(s) \in Nat /\ max < Len(s)
    BY <1>2
  <2>1. ASSUME NEW k \in 0..Len(s)
        PROVE  /\ SubSeq(s, 1, k) \in Seq(A) /\ Len(SubSeq(s, 1, k)) = k
               /\ IsPrefix(Without(SubSeq(s, 1, k), B), Without(s, B))
    <3>1. /\ 1 \in 1..(Len(s) + 1) /\ k \in (1 - 1)..Len(s) /\ Len(s) \in k..Len(s) /\ k - 1 + 1 = k
          /\ k + 1 \in 1..(Len(s) + 1) /\ Len(s) \in ((k + 1) - 1)..Len(s)
      BY <2>0
    <3>2. Without(SubSeq(s, 1, Len(s)), B) = Without(SubSeq(s, 1, k), B) \o Without(SubSeq(s, k + 1, Len(s)), B)
      BY <3>1, WithoutOfParts
    <3>3. SubSeq(s, 1, Len(s)) = s
      BY SubSeqFull
    <3>4. SubSeq(s, 1, k) \in Seq(A) /\ Len(SubSeq(s, 1, k)) = k - 1 + 1
      BY <3>1, PartType
    <3>5. SubSeq(s, k + 1, Len(s)) \in Seq(A)
      BY <3>1, PartType
    <3>6. PICK p \in Seq(A) : p = Without(SubSeq(s, 1, k), B)
      BY <3>4, WithoutType
    <3>7. PICK u \in Seq(A) : u = Without(SubSeq(s, k + 1, Len(s)), B)
      BY <3>5, WithoutType
    <3>8. IsPrefix(p, p \o u)
      BY PrefixOfConcat
    <3>9. QED BY <3>1, <3>2, <3>3, <3>4, <3>6, <3>7, <3>8
  <2>2. CASE max <= marker
    <3>1. t = SubSeq(s, 1, max) /\ max \in 0..Len(s)
      BY <1>0, <1>2, <2>0, <2>2 DEF Truncated
    <3>2. Len(t) <= max
      BY <2>1, <3>1
    <3>3. QED BY <1>0, <1>2, <2>1, <3>1, <3>2
  <2>3. CASE ~(max <= marker)
    <3>1. PICK k \in 0..Len(s) : k = max - marker
      BY <2>0, <2>3
    <3>2. PICK p \in Seq(A) : p = SubSeq(s, 1, k) /\ Len(p) = k /\ IsPrefix(Without(p, B), Without(s, B))
      BY <2>1
    <3>3. PICK e \in Seq(A) : e = [i \in 1..marker |-> Marker] /\ Len(e) = marker /\ \A i \in 1..Len(e) : e[i] = Marker
      <4>1. [i \in 1..marker |-> Marker] \in Seq(A) /\ Len([i \in 1..marker |-> Marker]) = marker
        OBVIOUS
      <4>2. \A i \in 1..marker : [j \in 1..marker |-> Marker][i] = Marker
        OBVIOUS
      <4>3. QED BY <4>1, <4>2
    <3>4. t = p \o e
      BY <1>0, <1>2, <2>3, <3>1, <3>2, <3>3 DEF Truncated
    <3>5. t \in Seq(A) /\ Len(t) = max
      <4>1. p \o e \in Seq(A) /\ Len(p \o e) = Len(p) + Len(e)
        BY LengthsAdd
      <4>2. QED BY <3>1, <3>2, <3>3, <3>4, <4>1
    <3>6. Without(e, B) = <<>>
      BY <3>3, WithoutOfThese
    <3>7. Without(p \o e, B) = Without(p, B) \o Without(e, B)
      BY WithoutOfConcat
    <3>8. PICK w \in Seq(A) : w = Without(p, B)
      BY WithoutType
    <3>9. Without(t, B) = w
      BY <3>4, <3>6, <3>7, <3>8, ConcatEmptySeq
    <3>10. QED BY <1>0, <1>2, <3>2, <3>5, <3>8, <3>9
  <2>4. QED BY <2>2, <2>3
<1>3. QED BY <1>1, <1>2

-----------------------------------------------------------------------------
(* The invariant of Outbound. *)

\* Letters that give no secret away.
Clean == Nat \ {Credential}

\* A chunk that fits, and the message that is posted of one.
Piece == {c \in Seq(Nat) : Len(c) <= ChunkLimit}
Posted == {Message(c) : c \in Piece}

SendRecord ==
  [by : Run \cup {Nobody}, key : Key, reply : BOOLEAN, wrapped : BOOLEAN,
   text : Seq(Nat), files : Seq(STRING), stored : Seq(Uploadable), rendered : BOOLEAN,
   at : {"guard", "file", "upload", "render", "refused", "call", "called", "done"},
   left : Seq(Piece), shown : Seq(Posted), lost : BOOLEAN]

OutboundType ==
  /\ stage \in [Run -> {"idle", "running", "marking", "noticing", "over"}]
  /\ ending \in [Run -> {"none", "success", "failure"}]
  /\ auditTurns \in [Key -> {"none", "armed", "sent"}] /\ empties \in [Run -> {0, 1}]
  /\ acknowledged \in [Run -> BOOLEAN] /\ marks \in [Run -> SUBSET {"start", "tick", "error"}]
  /\ sends \in Seq(SendRecord) /\ faults \in Nat
  /\ spoken \subseteq Run /\ blurred \subseteq Run /\ early \subseteq Run /\ disturbed \subseteq Run

\* The chunks of a send: its text with its links and refs, capped and cut.
Parts(s) ==
  LET chunks == Chunks(Truncated(Said(s), MaxLength, MarkerLength), ChunkLimit, ChunkMode) IN
  IF chunks = <<>> THEN <<<<>>>> ELSE chunks

\* Messages without their prefixes.
Bare(messages) == [c \in 1..Len(messages) |-> Unprefixed(messages[c])]

\* What is posted and what is left gives no secret away that did not come later.
KeepsSecrets(s) == ~LeaksLater(s) => s.left \in Seq(Seq(Clean)) /\ s.shown \in Seq(Seq(Clean))

Cut == {"call", "called", "done"}

\* How far a send is says what it has: nothing shown before its text is cut, something
\* left while it posts; and shown and left are the whole, unless a post was lost.
Sound(s) ==
  /\ s.at # "guard" /\ (s.at = "file" => s.wrapped)
  /\ s.at \in {"file", "upload", "render", "refused"} => s.shown = <<>> /\ ~s.lost
  /\ s.at \in Cut \cup {"upload", "render"} => ~Leaks(s.text)
  /\ s.at = "upload" => s.files # <<>>
  /\ s.at = "refused" /\ ~s.wrapped => s.stored = <<>>
  /\ s.at \in {"call", "called"} => s.left # <<>>
  /\ s.at = "done" => s.left = <<>>
  /\ s.at \in Cut => KeepsSecrets(s)
  /\ s.at \in Cut /\ ~s.lost => Bare(s.shown) \o s.left = Parts(s)

SendsAreSound == \A i \in 1..Len(sends) : Sound(sends[i])

\* A reply is of a run that has spoken, a notice of one that is over.
Belongs(s, stages, speakers) ==
  s.by # Nobody =>
    /\ s.key = KeyOf[s.by] /\ stages[s.by] # "idle"
    /\ IF s.reply THEN s.by \in speakers ELSE stages[s.by] = "over"

SendsBelong ==
  /\ \A i \in 1..Len(sends) : Belongs(sends[i], stage, spoken) /\ (sends[i].by = Nobody => sends[i].reply)
  /\ \A r \in spoken : \E i \in 1..Len(sends) : sends[i].by = r

\* The entry of a run nobody disturbs says whether it tried to say something.
TurnIsNoted ==
  \A r \in Run \ blurred : stage[r] = "running" =>
    /\ auditTurns[KeyOf[r]] \in {"armed", "sent"}
    /\ auditTurns[KeyOf[r]] = "sent" => r \in spoken
    /\ \A i \in 1..Len(sends) : sends[i].by = r /\ sends[i].at \in {"called", "done", "refused"} =>
         auditTurns[KeyOf[r]] = "sent"

\* Two runs between their hooks on one key blur each other.
KeyIsOfOne ==
  \A r, q \in Run : r # q /\ KeyOf[r] = KeyOf[q] /\ stage[r] = "running" /\ stage[q] = "running" => r \in blurred

\* The line of a silent run, and its notice.
LineIsRight ==
  \A r \in Run :
    /\ stage[r] \in {"idle", "running"} => empties[r] = 0
    /\ stage[r] = "idle" => r \notin spoken
    /\ stage[r] = "noticing" => empties[r] = 1
    /\ stage[r] \notin {"idle", "running"} /\ r \notin blurred =>
         empties[r] = IF r \in spoken THEN 0 ELSE 1

NoticesAreCounted ==
  \A r \in Run :
    IF stage[r] = "over" /\ empties[r] = 1 THEN \E i \in 1..Len(sends) : NoticesOf(r) = {i}
    ELSE NoticesOf(r) = {}

\* Reactions, where each call succeeds.
MarksFollow ==
  \A r \in Run :
    /\ r \in early => acknowledged[r] /\ stage[r] \notin {"idle", "running"}
    /\ stage[r] \in {"marking", "noticing"} /\ r \notin blurred => ~(r \in spoken /\ ending[r] = "success")
    /\ r \notin disturbed /\ ClearOnFinish =>
         /\ stage[r] \in {"idle", "running", "marking"} => marks[r] = IF acknowledged[r] THEN {"tick"} ELSE {"start"}
         /\ r \in early \ blurred /\ stage[r] \in {"noticing", "over"} =>
              marks[r] = IF r \in spoken /\ ending[r] = "success" THEN {"tick"} ELSE {"error"}

\* What OutboundNext keeps.
OutboundInv ==
  /\ OutboundType /\ SendsAreSound /\ SendsBelong /\ TurnIsNoted /\ KeyIsOfOne
  /\ LineIsRight /\ NoticesAreCounted /\ MarksFollow

-----------------------------------------------------------------------------
(* A send keeps what it must, whatever becomes of it. *)

LEMMA ElementsMakeSeq ==
  ASSUME NEW S, NEW P, NEW q \in Seq(S), \A i \in 1..Len(q) : q[i] \in P
  PROVE  q \in Seq(P)
<1>1. Len(q) \in Nat /\ q = [i \in 1..Len(q) |-> q[i]]
  OBVIOUS
<1>2. [i \in 1..Len(q) |-> q[i]] \in Seq(P)
  OBVIOUS
<1>3. QED BY <1>1, <1>2

LEMMA CleanText ==
  ASSUME NEW s, s \in Seq(Nat), ~Leaks(s)
  PROVE  s \in Seq(Clean)
<1>1. \A i \in 1..Len(s) : s[i] \in Clean
  BY DEF Leaks, Clean
<1>2. QED BY <1>1, ElementsMakeSeq

LEMMA CleanTextsLeakNot ==
  ASSUME NEW c \in Seq(Clean)
  PROVE  ~Leaks(c)
<1>1. \A i \in 1..Len(c) : c[i] # Credential
  BY DEF Clean
<1>2. DOMAIN c = 1..Len(c)
  OBVIOUS
<1>3. QED BY <1>1, <1>2 DEF Leaks

\* The link of every file of s is spelt in A.
LinksIn(s, A) == \A i \in 1..Len(s.stored) : LinkOf[s.stored[i]] \in Seq(A)

LEMMA LinkedType ==
  ASSUME NEW A, Newline \in A, NEW s \in SendRecord, s.text \in Seq(A), s.wrapped \/ LinksIn(s, A)
  PROVE  Linked(s) \in Seq(A)
<1> DEFINE Line(i) == IF i = 1 THEN LinkOf[s.stored[i]] ELSE <<Newline>> \o LinkOf[s.stored[i]]
           lines == [i \in DOMAIN s.stored |-> Line(i)]
           links == FlattenSeq(lines)
<1>1. CASE s.wrapped \/ s.stored = <<>>
  BY <1>1 DEF Linked
<1>2. CASE ~(s.wrapped \/ s.stored = <<>>)
  <2>1. Len(s.stored) \in Nat /\ DOMAIN s.stored = 1..Len(s.stored)
    BY DEF SendRecord
  <2>2. ASSUME NEW i \in 1..Len(s.stored) PROVE Line(i) \in Seq(A)
    <3>1. PICK link \in Seq(A) : link = LinkOf[s.stored[i]]
      BY <1>2, <2>2 DEF LinksIn
    <3>2. <<Newline>> \in Seq(A)
      OBVIOUS
    <3>3. <<Newline>> \o link \in Seq(A)
      BY <3>2, ConcatProperties
    <3>4. QED BY <3>1, <3>3
  <2>3. lines \in Seq(Seq(A))
    <3>1. PICK S : S = Seq(A)
      OBVIOUS
    <3>2. PICK n \in Nat : n = Len(s.stored) /\ lines = [i \in 1..n |-> Line(i)]
      BY <2>1
    <3>3. \A i \in 1..n : Line(i) \in S
      BY <2>2, <3>1, <3>2
    <3>4. [i \in 1..n |-> Line(i)] \in Seq(S)
      <4> HIDE DEF Line
      <4>1. QED BY <3>3
    <3>5. QED BY <3>1, <3>2, <3>4
  <2>4. PICK l \in Seq(A) : l = links
    <3> HIDE DEF lines
    <3>1. QED BY <2>3, FlattenType
  <2>5. <<Newline, Newline>> \in Seq(A)
    OBVIOUS
  <2>6. PICK t \in Seq(A) : t = s.text \o <<Newline, Newline>>
    BY <2>5, ConcatProperties
  <2>7. t \o l \in Seq(A)
    BY ConcatProperties
  <2>8. Linked(s) = IF s.text = <<>> THEN l ELSE t \o l
    <3>1. links = FlattenSeq([i \in DOMAIN s.stored |->
             IF i = 1 THEN LinkOf[s.stored[i]] ELSE <<Newline>> \o LinkOf[s.stored[i]]])
      OBVIOUS
    <3>2. Linked(s) = IF s.text = <<>> THEN links ELSE s.text \o <<Newline, Newline>> \o links
      BY ONLY <1>2, <3>1 DEF Linked
    <3>3. QED BY <2>4, <2>6, <3>2
  <2>9. QED BY <2>7, <2>8
<1>3. QED BY <1>1, <1>2

LEMMA SaidType ==
  ASSUME NEW A, Newline \in A, NEW s \in SendRecord, s.text \in Seq(A), s.wrapped \/ LinksIn(s, A),
         s.rendered => RefText \in Seq(A)
  PROVE  Said(s) \in Seq(A)
<1>1. PICK text \in Seq(A) : text = Linked(s)
  BY LinkedType
<1> DEFINE Letter(i) == IF text[i] = Ref THEN RefText ELSE <<text[i]>>
           letters == [i \in DOMAIN text |-> Letter(i)]
<1>2. CASE ~s.rendered
  BY <1>1, <1>2 DEF Said
<1>3. CASE s.rendered
  <2>1. PICK S : S = Seq(A)
    OBVIOUS
  <2>2. \A i \in 1..Len(text) : Letter(i) \in S
    BY <1>3, <2>1
  <2>3. PICK n \in Nat : n = Len(text) /\ DOMAIN text = 1..n
    OBVIOUS
  <2>4. letters \in Seq(S)
    <3>1. letters = [i \in 1..n |-> Letter(i)]
      BY <2>3
    <3>2. [i \in 1..n |-> Letter(i)] \in Seq(S)
      <4> HIDE DEF Letter
      <4>1. QED BY <2>2, <2>3
    <3>3. QED BY <3>1, <3>2
  <2>5. FlattenSeq(letters) \in Seq(A)
    <3> HIDE DEF letters
    <3>1. QED BY <2>1, <2>4, FlattenType
  <2>6. Said(s) = FlattenSeq(letters)
    BY <1>1, <1>3 DEF Said
  <2>7. QED BY <2>5, <2>6
<1>4. QED BY <1>2, <1>3

\* What is said without a secret that came later has none.
LEMMA SaidIsSpelt ==
  ASSUME OutboundAssumption, NEW s \in SendRecord
  PROVE  /\ Said(s) \in Seq(Nat)
         /\ ~Leaks(s.text) /\ ~LeaksLater(s) => Said(s) \in Seq(Clean)
<1>1. Newline \in Nat /\ Newline \in Clean
  BY DEF OutboundAssumption, Newline, Clean
<1>2. ASSUME NEW i \in 1..Len(s.stored) PROVE LinkOf[s.stored[i]] \in Seq(Nat) /\ i \in DOMAIN s.stored
  <2>1. s.stored \in Seq(Uploadable)
    BY DEF SendRecord
  <2>2. s.stored[i] \in Uploadable /\ i \in DOMAIN s.stored
    BY <2>1
  <2>3. QED BY <2>2 DEF OutboundAssumption
<1>3. s.text \in Seq(Nat) /\ RefText \in Seq(Nat)
  BY DEF SendRecord, OutboundAssumption
<1>4. Said(s) \in Seq(Nat)
  <2>1. LinksIn(s, Nat)
    BY <1>2 DEF LinksIn
  <2>2. QED BY <1>1, <1>3, <2>1, SaidType
<1>5. ASSUME ~Leaks(s.text), ~LeaksLater(s) PROVE Said(s) \in Seq(Clean)
  <2>1. s.text \in Seq(Clean)
    BY <1>3, <1>5, CleanText
  <2>2. s.rendered => RefText \in Seq(Clean)
    BY <1>3, <1>5, CleanText DEF LeaksLater
  <2>3. ASSUME ~s.wrapped PROVE LinksIn(s, Clean)
    <3>1. ASSUME NEW i \in 1..Len(s.stored) PROVE LinkOf[s.stored[i]] \in Seq(Clean)
      <4>1. ~Leaks(LinkOf[s.stored[i]])
        BY <1>2, <1>5, <2>3 DEF LeaksLater
      <4>2. QED BY <1>2, <4>1, CleanText
    <3>2. QED BY <3>1 DEF LinksIn
  <2>4. QED BY <1>1, <2>1, <2>2, <2>3, SaidType
<1>6. QED BY <1>4, <1>5

\* The text of a send that is cut.
Whole(s) == Truncated(Said(s), MaxLength, MarkerLength)

PieceOf(A) == {c \in Seq(A) : Len(c) <= ChunkLimit}

LEMMA PartsFit ==
  ASSUME OutboundAssumption, NEW A, {Newline, Marker} \subseteq A, NEW s, Said(s) \in Seq(A)
  PROVE  /\ Parts(s) \in Seq(PieceOf(A)) /\ Parts(s) # <<>>
         /\ FlattenSeq(Parts(s)) \in Seq(A) /\ Len(FlattenSeq(Parts(s))) <= Len(Whole(s))
         /\ \A B : Blank \subseteq B => Without(FlattenSeq(Parts(s)), B) = Without(Whole(s), B)
<1>1. {Newline, Marker} \subseteq A /\ ChunkLimit \in Nat \ {0} /\ MaxLength \in Nat /\ MarkerLength \in Nat
  BY DEF OutboundAssumption
<1>3. PICK t \in Seq(A) : t = Said(s)
  OBVIOUS
<1>4. PICK w \in Seq(A) : w = Whole(s)
  <2>1. PICK B : B = {Marker}
    OBVIOUS
  <2>2. Marker \in A /\ Marker \in B
    BY <1>1, <2>1
  <2>3. Truncated(t, MaxLength, MarkerLength) \in Seq(A)
    BY ONLY <1>1, <2>2, t \in Seq(A), CappedIsPrefix
  <2>4. QED BY <1>3, <2>3 DEF Whole
<1>5. PICK q : q = Chunks(w, ChunkLimit, ChunkMode)
  OBVIOUS
<1>6. q \in Seq(Seq(A)) /\ \A c \in 1..Len(q) : Len(q[c]) <= ChunkLimit
  BY <1>1, <1>5, ChunksKeepTheText, OutboundAssumption DEF OutboundAssumption
<1>7. Len(FlattenSeq(q)) <= Len(w)
  BY <1>1, <1>5, ChunksKeepTheText, OutboundAssumption DEF OutboundAssumption
<1>8. ASSUME NEW B, Blank \subseteq B PROVE Without(FlattenSeq(q), B) = Without(w, B)
  <2>1. Newline \in A /\ ChunkLimit \in Nat \ {0}
    BY <1>1
  <2>2. PICK mode \in {"length", "newline"} : mode = ChunkMode
    BY OutboundAssumption DEF OutboundAssumption
  <2>3. Without(FlattenSeq(Chunks(w, ChunkLimit, mode)), B) = Without(w, B)
    <3>1. PICK limit \in Nat \ {0} : limit = ChunkLimit
      BY <2>1
    <3>2. LET chunks == Chunks(w, limit, mode) IN
          /\ chunks \in Seq(Seq(A)) /\ \A c \in 1..Len(chunks) : Len(chunks[c]) <= limit
          /\ Len(FlattenSeq(chunks)) <= Len(w)
          /\ Without(FlattenSeq(chunks), B) = Without(w, B)
      BY <1>8, <2>1, ChunksKeepTheText
    <3>3. Without(FlattenSeq(Chunks(w, limit, mode)), B) = Without(w, B)
      BY <3>2
    <3>4. QED BY <3>1, <3>3
  <2>4. QED BY <1>5, <2>2, <2>3
<1>9. PICK none \in Seq(A) : none = <<>> /\ Len(none) = 0
  BY EmptySeq
<1>10. PICK p : p = Parts(s) /\ p = IF q = <<>> THEN <<none>> ELSE q
  BY <1>4, <1>5, <1>9 DEF Parts, Whole
<1>11. none \in PieceOf(A)
  BY <1>1, <1>9 DEF PieceOf
<1>12. p \in Seq(PieceOf(A)) /\ p # <<>> /\ FlattenSeq(p) = FlattenSeq(q)
  <2>1. CASE q = <<>>
    <3>1. p = <<none>>
      BY <1>10, <2>1
    <3>2. p \in Seq(PieceOf(A)) /\ p # <<>>
      BY <1>11, <3>1
    <3>3. FlattenSeq(<<none>>) = <<>>
      <4>1. PICK nil \in Seq(Seq(A)) : nil = <<>>
        BY EmptySeq
      <4>2. Kept(nil, none) = nil /\ Append(nil, none) = <<none>>
        BY <1>9, <4>1 DEF Kept
      <4>3. FlattenSeq(Append(nil, none)) = FlattenSeq(nil) \o none
        BY FlattenOfAppend
      <4>4. none \o none = none
        BY <1>9, ConcatEmptySeq
      <4>5. QED BY <1>9, <4>1, <4>2, <4>3, <4>4, FlattenOfNone
    <3>4. QED BY <2>1, <3>1, <3>2, <3>3, FlattenOfNone
  <2>2. CASE q # <<>>
    <3>1. p = q
      BY <1>10, <2>2
    <3>2. ASSUME NEW i \in 1..Len(q) PROVE q[i] \in PieceOf(A)
      <4>1. q[i] \in Seq(A)
        BY <1>6
      <4>2. QED BY <1>6, <4>1 DEF PieceOf
    <3>3. q \in Seq(PieceOf(A))
      BY <1>6, <3>2, ElementsMakeSeq
    <3>4. QED BY <2>2, <3>1, <3>3
  <2>3. QED BY <2>1, <2>2
<1>13. FlattenSeq(q) \in Seq(A)
  BY <1>6, FlattenType
<1>14. QED BY <1>4, <1>7, <1>8, <1>10, <1>12, <1>13

\* The parts are pieces, and show no secret that did not come later.
LEMMA PartsArePieces ==
  ASSUME OutboundAssumption, NEW s \in SendRecord
  PROVE  /\ Parts(s) \in Seq(Piece) /\ Parts(s) # <<>>
         /\ ~Leaks(s.text) /\ ~LeaksLater(s) => Parts(s) \in Seq(Seq(Clean))
<1>1. {Newline, Marker} \subseteq Nat /\ {Newline, Marker} \subseteq Clean
  BY DEF OutboundAssumption, Newline, Marker, Clean
<1>2. PieceOf(Nat) = Piece
  BY DEF PieceOf, Piece
<1>3. Parts(s) \in Seq(PieceOf(Nat)) /\ Parts(s) # <<>>
  BY <1>1, SaidIsSpelt, PartsFit
<1>4. ASSUME ~Leaks(s.text), ~LeaksLater(s) PROVE Parts(s) \in Seq(Seq(Clean))
  <2>1. PICK p \in Seq(PieceOf(Clean)) : p = Parts(s)
    BY <1>1, <1>4, SaidIsSpelt, PartsFit
  <2>2. \A i \in 1..Len(p) : p[i] \in Seq(Clean)
    BY DEF PieceOf
  <2>3. QED BY <2>1, <2>2, ElementsMakeSeq
<1>5. QED BY <1>2, <1>3, <1>4

LEMMA MessageOf ==
  ASSUME OutboundAssumption, NEW c \in Piece
  PROVE  /\ Message(c) \in Posted /\ Message(c) \in Seq(Nat) /\ Unprefixed(Message(c)) = c
         /\ Message(c) # <<>> => IsPrefix(Prefix, Message(c))
         /\ ~Leaks(Prefix) /\ c \in Seq(Clean) => Message(c) \in Seq(Clean)
<1>1. Message(c) \in Posted
  BY DEF Posted
<1>2. Prefix \in Seq(Nat) /\ c \in Seq(Nat) /\ Len(Prefix) \in Nat /\ Len(c) \in Nat
  BY DEF OutboundAssumption, Piece
<1>3. CASE c = <<>>
  <2>1. Message(c) = c
    BY <1>3 DEF Message
  <2>2. Len(c) = 0
    BY <1>3
  <2>3. SubSeq(c, Len(Prefix) + 1, Len(c)) = <<>>
    BY <1>2, <2>2, SubSeqEmpty
  <2>4. QED BY <1>1, <1>2, <1>3, <2>1, <2>3 DEF Unprefixed
<1>4. CASE c # <<>>
  <2>1. PICK m \in Seq(Nat) : /\ m = Prefix \o c /\ Len(m) = Len(Prefix) + Len(c)
          /\ \A i \in 1..(Len(Prefix) + Len(c)) : m[i] = IF i <= Len(Prefix) THEN Prefix[i] ELSE c[i - Len(Prefix)]
    <3>1. /\ Prefix \o c \in Seq(Nat) /\ Len(Prefix \o c) = Len(Prefix) + Len(c)
          /\ \A i \in 1..(Len(Prefix) + Len(c)) : (Prefix \o c)[i] = IF i <= Len(Prefix) THEN Prefix[i] ELSE c[i - Len(Prefix)]
      BY <1>2, ConcatProperties
    <3>2. QED BY <3>1
  <2>2. Message(c) = m
    BY <1>4, <2>1 DEF Message
  <2>3. PICK a \in Nat, b \in Nat : a = Len(Prefix) /\ b = Len(c)
    BY <1>2
  <2>4. PICK u \in Seq(Nat) : /\ u = SubSeq(m, a + 1, Len(m)) /\ Len(u) = b
                              /\ \A i \in 1..b : u[i] = m[a + i]
    <3>1. PICK lo \in 1..(Len(m) + 1) : lo = a + 1
      BY <2>1, <2>3
    <3>2. PICK hi \in (lo - 1)..Len(m) : hi = Len(m)
      BY <2>1, <2>3, <3>1
    <3>3. /\ SubSeq(m, lo, hi) \in Seq(Nat) /\ Len(SubSeq(m, lo, hi)) = hi - lo + 1
          /\ \A i \in 1..(hi - lo + 1) : SubSeq(m, lo, hi)[i] = m[lo + i - 1]
      BY ONLY m \in Seq(Nat), lo \in 1..(Len(m) + 1), hi \in (lo - 1)..Len(m), PartType
    <3>4. hi - lo + 1 = b
      BY <2>1, <2>3, <3>1, <3>2
    <3>5. PICK part \in Seq(Nat) : /\ part = SubSeq(m, lo, hi) /\ Len(part) = b
                                   /\ \A i \in 1..b : part[i] = m[lo + i - 1]
      BY <3>3, <3>4
    <3>6. ASSUME NEW i \in 1..b PROVE part[i] = m[a + i]
      <4>1. lo + i - 1 = a + i
        BY <3>1
      <4>2. QED BY <3>5, <4>1
    <3>7. QED BY <3>1, <3>2, <3>5, <3>6
  <2>5. u = c
    <3>1. ASSUME NEW i \in 1..b PROVE u[i] = c[i]
      <4>1. a + i \in 1..(a + b) /\ ~(a + i <= a) /\ (a + i) - a = i
        BY <2>3
      <4>2. QED BY <2>1, <2>3, <2>4, <4>1
    <3>2. QED BY <1>2, <2>3, <2>4, <3>1, SeqEqual
  <2>6. IsPrefix(Prefix, m)
    <3>1. PICK v \in Seq(Nat) : /\ v = SubSeq(m, 1, a) /\ Len(v) = a /\ \A i \in 1..a : v[i] = m[i]
      <4>1. 1 \in 1..(Len(m) + 1) /\ a \in (1 - 1)..Len(m) /\ a - 1 + 1 = a
        BY <2>1, <2>3
      <4>2. /\ SubSeq(m, 1, a) \in Seq(Nat) /\ Len(SubSeq(m, 1, a)) = a
            /\ \A i \in 1..a : SubSeq(m, 1, a)[i] = m[1 + i - 1]
        BY <4>1, PartType
      <4>3. \A i \in 1..a : 1 + i - 1 = i
        OBVIOUS
      <4>4. QED BY <4>2, <4>3
    <3>2. ASSUME NEW i \in 1..a PROVE v[i] = Prefix[i]
      <4>1. i \in 1..(a + b) /\ i <= a
        BY <2>3
      <4>2. QED BY <2>1, <2>3, <3>1, <4>1
    <3>3. v = Prefix
      BY <1>2, <2>3, <3>1, <3>2, SeqEqual
    <3>4. SubSeq(Prefix, 1, Len(Prefix)) = Prefix
      BY <1>2
    <3>5. Len(Prefix) <= Len(m)
      BY <2>1, <2>3
    <3>6. QED BY <2>3, <3>1, <3>3, <3>4, <3>5 DEF IsPrefix
  <2>7. ASSUME ~Leaks(Prefix), c \in Seq(Clean) PROVE m \in Seq(Clean)
    BY <1>2, <2>1, <2>7, CleanText, ConcatProperties
  <2>8. QED BY <1>1, <2>2, <2>3, <2>4, <2>5, <2>6, <2>7 DEF Unprefixed
<1>5. QED BY <1>3, <1>4

LEMMA PostedIsBare ==
  ASSUME OutboundAssumption, NEW m \in Posted
  PROVE  /\ Unprefixed(m) \in Piece /\ m \in Seq(Nat)
         /\ m # <<>> => IsPrefix(Prefix, m)
<1>1. PICK c \in Piece : m = Message(c)
  BY DEF Posted
<1>2. QED BY <1>1, MessageOf

LEMMA BareType ==
  ASSUME OutboundAssumption, NEW q \in Seq(Posted)
  PROVE  Bare(q) \in Seq(Piece) /\ Len(Bare(q)) = Len(q)
<1>1. \A i \in 1..Len(q) : Unprefixed(q[i]) \in Piece
  BY PostedIsBare
<1>2. PICK n \in Nat : n = Len(q)
  OBVIOUS
<1>3. [i \in 1..n |-> Unprefixed(q[i])] \in Seq(Piece) /\ Len([i \in 1..n |-> Unprefixed(q[i])]) = n
  BY <1>1, <1>2
<1>4. QED BY <1>2, <1>3 DEF Bare

LEMMA BareOfNone ==
  ASSUME OutboundAssumption
  PROVE  Bare(<<>>) = <<>>
<1>1. PICK none \in Seq(Posted) : none = <<>> /\ Len(none) = 0
  BY EmptySeq
<1>2. Bare(none) \in Seq(Piece) /\ Len(Bare(none)) = 0
  BY <1>1, BareType
<1>3. QED BY <1>1, <1>2

LEMMA BareOfAppend ==
  ASSUME OutboundAssumption, NEW q \in Seq(Posted), NEW c \in Piece
  PROVE  Append(q, Message(c)) \in Seq(Posted) /\ Bare(Append(q, Message(c))) = Append(Bare(q), c)
<1>1. PICK m \in Posted : m = Message(c) /\ Unprefixed(m) = c
  BY MessageOf
<1>2. PICK t \in Seq(Posted) : /\ t = Append(q, m) /\ Len(t) = Len(q) + 1 /\ t[Len(q) + 1] = m
                               /\ \A i \in 1..Len(q) : t[i] = q[i]
  <2>1. /\ Append(q, m) \in Seq(Posted) /\ Len(Append(q, m)) = Len(q) + 1 /\ Append(q, m)[Len(q) + 1] = m
        /\ \A i \in 1..Len(q) : Append(q, m)[i] = q[i]
    BY AppendProperties
  <2>2. QED BY <2>1
<1>3. PICK b \in Seq(Piece) : b = Bare(q) /\ Len(b) = Len(q)
  BY BareType
<1>4. PICK u \in Seq(Piece) : /\ u = Append(b, c) /\ Len(u) = Len(b) + 1 /\ u[Len(b) + 1] = c
                              /\ \A i \in 1..Len(b) : u[i] = b[i]
  <2>1. /\ Append(b, c) \in Seq(Piece) /\ Len(Append(b, c)) = Len(b) + 1 /\ Append(b, c)[Len(b) + 1] = c
        /\ \A i \in 1..Len(b) : Append(b, c)[i] = b[i]
    BY AppendProperties
  <2>2. QED BY <2>1
<1>5. PICK w \in Seq(Piece) : w = Bare(t) /\ Len(w) = Len(t)
  BY BareType
<1>6. Len(q) \in Nat /\ Len(w) = Len(u)
  BY <1>2, <1>3, <1>4, <1>5
<1>7. ASSUME NEW i \in 1..Len(w) PROVE w[i] = u[i]
  <2>1. w[i] = Unprefixed(t[i])
    BY <1>5 DEF Bare
  <2>2. CASE i = Len(q) + 1
    BY <1>1, <1>2, <1>3, <1>4, <2>1, <2>2
  <2>3. CASE i # Len(q) + 1
    <3>1. i \in 1..Len(q)
      BY <1>2, <1>5, <1>6, <2>3
    <3>2. b[i] = Unprefixed(q[i])
      BY <1>3, <3>1 DEF Bare
    <3>3. QED BY <1>2, <1>3, <1>4, <2>1, <3>1, <3>2
  <2>4. QED BY <2>2, <2>3
<1>8. w = u
  BY <1>6, <1>7, SeqEqual
<1>9. QED BY <1>1, <1>2, <1>3, <1>4, <1>5, <1>8

\* What the guard makes of a send that has shown nothing yet.
Ready(s) == s \in SendRecord /\ s.shown = <<>> /\ ~s.lost /\ (Leaks(s.text) /\ ~s.wrapped => s.stored = <<>>)

\* The same send, somewhere else.
LooksLike(t, s) == t.by = s.by /\ t.key = s.key /\ t.reply = s.reply

LEMMA ChunkedIsSound ==
  ASSUME OutboundAssumption, NEW s \in SendRecord, s.shown = <<>>, ~s.lost, ~Leaks(s.text)
  PROVE  Chunked(s) \in SendRecord /\ Sound(Chunked(s)) /\ LooksLike(Chunked(s), s) /\ Chunked(s).at = "call"
<1>1. PICK p \in Seq(Piece) : p = Parts(s) /\ p # <<>> /\ (~LeaksLater(s) => p \in Seq(Seq(Clean)))
  BY PartsArePieces
<1>2. PICK t : t = [s EXCEPT !.at = "call", !.left = p]
  OBVIOUS
<1>3. Chunked(s) = t
  BY <1>1, <1>2 DEF Chunked, Parts
<1>4. /\ t \in SendRecord /\ t.at = "call" /\ t.shown = <<>> /\ t.lost = s.lost /\ t.left = p
      /\ t.text = s.text /\ t.stored = s.stored /\ t.wrapped = s.wrapped /\ t.rendered = s.rendered
      /\ t.by = s.by /\ t.key = s.key /\ t.reply = s.reply
  BY <1>2 DEF SendRecord
<1>5. Said(t) = Said(s)
  BY <1>4 DEF Said, Linked
<1>6. Parts(t) = p
  BY <1>1, <1>5 DEF Parts
<1>7. Bare(t.shown) \o p = p
  BY <1>4, BareOfNone, ConcatEmptySeq
<1>8. KeepsSecrets(t)
  <2>1. LeaksLater(t) = LeaksLater(s)
    BY <1>4 DEF LeaksLater
  <2>2. <<>> \in Seq(Seq(Clean))
    BY EmptySeq
  <2>3. QED BY <1>1, <1>4, <2>1, <2>2 DEF KeepsSecrets
<1>9. Sound(t)
  BY <1>1, <1>4, <1>6, <1>7, <1>8 DEF Sound, Cut
<1>10. QED BY <1>3, <1>4, <1>9 DEF LooksLike

\* A send that only moves to a place where it has shown nothing.
LEMMA MovedIsSound ==
  ASSUME NEW s \in SendRecord, s.shown = <<>>, ~s.lost, NEW at \in {"render", "upload", "refused"},
         at # "refused" => ~Leaks(s.text), at = "upload" => s.files # <<>>,
         at = "refused" /\ ~s.wrapped => s.stored = <<>>
  PROVE  LET t == [s EXCEPT !.at = at] IN t \in SendRecord /\ Sound(t) /\ LooksLike(t, s) /\ t.at = at
<1>1. PICK t : t = [s EXCEPT !.at = at]
  OBVIOUS
<1>2. /\ t \in SendRecord /\ t.at = at /\ t.shown = <<>> /\ t.lost = s.lost
      /\ t.text = s.text /\ t.files = s.files /\ t.stored = s.stored /\ t.wrapped = s.wrapped
      /\ t.by = s.by /\ t.key = s.key /\ t.reply = s.reply
  BY <1>1 DEF SendRecord
<1>3. Sound(t)
  BY <1>2 DEF Sound, Cut
<1>4. QED BY <1>1, <1>2, <1>3 DEF LooksLike

LEMMA GuardedIsSound ==
  ASSUME OutboundAssumption, NEW s, Ready(s)
  PROVE  /\ Guarded(s) \in SendRecord /\ Sound(Guarded(s)) /\ LooksLike(Guarded(s), s)
         /\ Guarded(s).at \in {"refused", "upload", "render", "call"}
<1>0. s \in SendRecord /\ s.shown = <<>> /\ ~s.lost /\ (Leaks(s.text) /\ ~s.wrapped => s.stored = <<>>)
  BY DEF Ready
<1>1. CASE Leaks(s.text)
  <2>1. Guarded(s) = [s EXCEPT !.at = "refused"]
    BY <1>1 DEF Guarded
  <2>2. QED BY <1>0, <1>1, <2>1, MovedIsSound
<1>2. CASE ~Leaks(s.text) /\ s.files # <<>>
  <2>1. Guarded(s) = [s EXCEPT !.at = "upload"]
    BY <1>2 DEF Guarded
  <2>2. QED BY <1>0, <1>2, <2>1, MovedIsSound
<1>3. CASE ~Leaks(s.text) /\ s.files = <<>> /\ HasRefs(s)
  <2>1. Guarded(s) = [s EXCEPT !.at = "render"]
    BY <1>3 DEF Guarded, Finished
  <2>2. QED BY <1>0, <1>3, <2>1, MovedIsSound
<1>4. CASE ~Leaks(s.text) /\ s.files = <<>> /\ ~HasRefs(s)
  <2>1. Guarded(s) = Chunked(s)
    BY <1>4 DEF Guarded, Finished
  <2>2. QED BY <1>0, <1>4, <2>1, ChunkedIsSound
<1>5. QED BY <1>1, <1>2, <1>3, <1>4

LEMMA FreshIsReady ==
  ASSUME OutboundAssumption, NEW r \in Run \cup {Nobody}, NEW k \in Key, NEW reply \in BOOLEAN,
         NEW c \in [text : Seq(Nat), files : Seq(STRING)]
  PROVE  Ready(Fresh(r, k, reply, c)) /\ Fresh(r, k, reply, c).by = r /\ Fresh(r, k, reply, c).key = k
         /\ Fresh(r, k, reply, c).reply = reply
<1>1. PICK f \in Seq(STRING) : f = Without(c.files, {"url"})
  BY WithoutType
<1>2. PICK none \in Seq(Piece) : none = <<>>
  BY EmptySeq
<1>3. none \in Seq(Posted) /\ none \in Seq(Uploadable)
  BY <1>2, EmptySeq
<1>4. PICK s : s = [by |-> r, key |-> k, reply |-> reply, wrapped |-> FALSE, text |-> c.text,
        files |-> f, stored |-> none, rendered |-> FALSE, at |-> "guard", left |-> none, shown |-> none, lost |-> FALSE]
  OBVIOUS
<1>5. Fresh(r, k, reply, c) = s
  BY <1>1, <1>2, <1>4 DEF Fresh
<1>6. s \in SendRecord
  BY <1>3, <1>4 DEF SendRecord
<1>7. QED BY <1>2, <1>4, <1>5, <1>6 DEF Ready

\* The file of a send, before it is uploaded.
FileSend(r, k, c) ==
  [Fresh(r, k, TRUE, c) EXCEPT !.wrapped = TRUE, !.files = <<Last(c.files)>>, !.at = "file"]

LEMMA FileIsSound ==
  ASSUME OutboundAssumption, NEW r \in Run, NEW k \in Key,
         NEW c \in [text : Seq(Nat), files : Seq(STRING)], c.files # <<>>,
         NEW s, s = FileSend(r, k, c)
  PROVE  s \in SendRecord /\ Sound(s) /\ s.by = r /\ s.key = k /\ s.reply /\ s.at = "file"
<1>1. PICK f \in Seq(STRING) : f = <<Last(c.files)>>
  <2>1. PICK q \in Seq(STRING) : q = c.files
    OBVIOUS
  <2>2. Len(q) \in 1..Len(q)
    BY <2>1
  <2>3. q[Len(q)] \in STRING
    BY <2>2
  <2>4. <<Last(q)>> \in Seq(STRING)
    BY <2>3 DEF Last
  <2>5. QED BY <2>1, <2>4
<1>2. PICK t \in SendRecord : t = Fresh(r, k, TRUE, c) /\ t.by = r /\ t.key = k /\ t.reply /\ t.shown = <<>> /\ ~t.lost
  <2>1. PICK t : t = Fresh(r, k, TRUE, c)
    OBVIOUS
  <2>2. PICK b \in BOOLEAN : b = TRUE
    OBVIOUS
  <2>3. PICK q \in Run \cup {Nobody} : q = r
    OBVIOUS
  <2>4. Ready(Fresh(q, k, b, c)) /\ Fresh(q, k, b, c).by = q /\ Fresh(q, k, b, c).key = k
        /\ Fresh(q, k, b, c).reply = b
    BY FreshIsReady
  <2>5. Ready(t) /\ t.by = r /\ t.key = k /\ t.reply = TRUE
    BY <2>1, <2>2, <2>3, <2>4
  <2>6. QED BY <2>1, <2>5 DEF Ready
<1>3. s = [t EXCEPT !.wrapped = TRUE, !.files = f, !.at = "file"]
  BY <1>1, <1>2 DEF FileSend
<1>4. /\ s \in SendRecord /\ s.by = r /\ s.key = k /\ s.reply /\ s.at = "file" /\ s.shown = <<>>
      /\ s.wrapped /\ s.lost = t.lost
  BY <1>2, <1>3 DEF SendRecord
<1>5. Sound(s)
  BY <1>2, <1>4 DEF Sound, Cut
<1>6. QED BY <1>4, <1>5

LEMMA CaptionedType ==
  ASSUME NEW s \in Seq(Nat), NEW c \in Seq(Nat)
  PROVE  Captioned(s, c) \in Seq(Nat)
<1>1. <<Newline>> \in Seq(Nat)
  BY DEF Newline
<1>2. PICK t \in Seq(Nat) : t = s \o <<Newline>>
  BY <1>1, ConcatProperties
<1>3. t \o c \in Seq(Nat)
  BY ConcatProperties
<1>4. QED BY <1>2, <1>3 DEF Captioned

\* A send after its file was uploaded or not, before the guard.
AfterFile(s, ok) ==
  [s EXCEPT !.files = <<>>, !.stored = IF ok THEN <<Head(s.files)>> ELSE <<>>,
            !.text = Captioned(@, IF ok THEN LinkOf[Head(s.files)] ELSE <<Regret>>)]

LEMMA FileDoneIsReady ==
  ASSUME OutboundAssumption, NEW s \in SendRecord, Sound(s), s.at = "file", NEW ok \in BOOLEAN,
         Uploads(Head(s.files), ok)
  PROVE  Ready(AfterFile(s, ok)) /\ LooksLike(AfterFile(s, ok), s)
<1>0. PICK h : h = Head(s.files) /\ (ok => h \in Uploadable)
  BY DEF Uploads
<1>1. PICK link \in Seq(Nat) : link = IF ok THEN LinkOf[h] ELSE <<Regret>>
  <2>1. ok => LinkOf[h] \in Seq(Nat)
    BY <1>0 DEF OutboundAssumption
  <2>2. <<Regret>> \in Seq(Nat)
    BY DEF OutboundAssumption
  <2>3. QED BY <2>1, <2>2
<1>2. PICK x \in Seq(Nat) : x = Captioned(s.text, link)
  <2>1. s.text \in Seq(Nat)
    BY DEF SendRecord
  <2>2. QED BY <2>1, CaptionedType
<1>3. PICK f \in Seq(STRING) : f = <<>>
  BY EmptySeq
<1>4. PICK n \in Seq(Uploadable) : n = IF ok THEN <<h>> ELSE <<>>
  <2>1. <<>> \in Seq(Uploadable)
    BY EmptySeq
  <2>2. ok => <<h>> \in Seq(Uploadable)
    BY <1>0
  <2>3. QED BY <2>1, <2>2
<1>5. PICK t : t = [s EXCEPT !.files = f, !.stored = n, !.text = x]
  OBVIOUS
<1>6. /\ t \in SendRecord /\ t.by = s.by /\ t.key = s.key /\ t.reply = s.reply
      /\ t.shown = s.shown /\ t.lost = s.lost /\ t.wrapped = s.wrapped
  BY <1>5 DEF SendRecord
<1>7. Ready(t)
  BY <1>6 DEF Ready, Sound
<1>8. t = AfterFile(s, ok)
  BY <1>0, <1>1, <1>2, <1>3, <1>4, <1>5 DEF SendRecord, AfterFile
<1>9. QED BY <1>6, <1>7, <1>8 DEF LooksLike

\* A send after one of its files was uploaded or not, before the guard.
AfterUpload(s, ok) ==
  [s EXCEPT !.files = Tail(@), !.stored = IF ok THEN Append(@, Head(s.files)) ELSE @]

LEMMA UploadDoneIsReady ==
  ASSUME OutboundAssumption, NEW s \in SendRecord, Sound(s), s.at = "upload", NEW ok \in BOOLEAN,
         Uploads(Head(s.files), ok)
  PROVE  Ready(AfterUpload(s, ok)) /\ LooksLike(AfterUpload(s, ok), s)
<1>0. PICK h : h = Head(s.files) /\ (ok => h \in Uploadable)
  BY DEF Uploads
<1>1. PICK f \in Seq(STRING) : f = Tail(s.files)
  <2>1. PICK q \in Seq(STRING) : q = s.files /\ q # <<>>
    BY DEF SendRecord, Sound
  <2>2. PICK S : S = STRING
    OBVIOUS
  <2>3. q \in Seq(S)
    BY <2>1, <2>2
  <2>4. Tail(q) \in Seq(S)
    BY <2>1, <2>3, HeadTailProperties
  <2>5. QED BY <2>1, <2>2, <2>4
<1>2. PICK before \in Seq(Uploadable) : before = s.stored
  BY DEF SendRecord
<1>3. PICK n \in Seq(Uploadable) : n = IF ok THEN Append(before, h) ELSE before
  <2>1. ASSUME ok PROVE Append(before, h) \in Seq(Uploadable)
    <3>1. h \in Uploadable
      BY <1>0, <2>1
    <3>2. QED BY <3>1, AppendProperties
  <2>2. QED BY <2>1
<1>4. PICK t : t = [s EXCEPT !.files = f, !.stored = n]
  OBVIOUS
<1>5. /\ t \in SendRecord /\ t.by = s.by /\ t.key = s.key /\ t.reply = s.reply
      /\ t.shown = s.shown /\ t.lost = s.lost /\ t.text = s.text
  BY <1>4 DEF SendRecord
<1>6. Ready(t)
  BY <1>5 DEF Ready, Sound, Cut
<1>7. t = AfterUpload(s, ok)
  BY <1>0, <1>1, <1>2, <1>3, <1>4 DEF SendRecord, AfterUpload
<1>8. QED BY <1>5, <1>6, <1>7 DEF LooksLike

LEMMA RenderIsSound ==
  ASSUME OutboundAssumption, NEW s \in SendRecord, Sound(s), s.at = "render", NEW ok \in BOOLEAN
  PROVE  LET t == Chunked([s EXCEPT !.rendered = ok]) IN
         t \in SendRecord /\ Sound(t) /\ LooksLike(t, s) /\ t.at = "call"
<1>1. PICK f : f = [s EXCEPT !.rendered = ok]
  OBVIOUS
<1>2. /\ f \in SendRecord /\ f.by = s.by /\ f.key = s.key /\ f.reply = s.reply
      /\ f.shown = s.shown /\ f.lost = s.lost /\ f.text = s.text
  BY <1>1 DEF SendRecord
<1>3. f.shown = <<>> /\ ~f.lost /\ ~Leaks(f.text)
  BY <1>2 DEF Sound
<1>4. Chunked(f) \in SendRecord /\ Sound(Chunked(f)) /\ LooksLike(Chunked(f), f) /\ Chunked(f).at = "call"
  BY <1>2, <1>3, ChunkedIsSound
<1>5. QED BY <1>1, <1>2, <1>4 DEF LooksLike

LEMMA CallIsSound ==
  ASSUME NEW s \in SendRecord, Sound(s), s.at = "call"
  PROVE  LET t == [s EXCEPT !.at = "called"] IN
         t \in SendRecord /\ Sound(t) /\ LooksLike(t, s) /\ t.at = "called"
<1>1. PICK t : t = [s EXCEPT !.at = "called"]
  OBVIOUS
<1>2. /\ t \in SendRecord /\ t.by = s.by /\ t.key = s.key /\ t.reply = s.reply /\ t.at = "called"
      /\ t.shown = s.shown /\ t.lost = s.lost /\ t.text = s.text /\ t.left = s.left
      /\ t.stored = s.stored /\ t.wrapped = s.wrapped /\ t.rendered = s.rendered
  BY <1>1 DEF SendRecord
<1>3. Said(t) = Said(s)
  BY <1>2 DEF Said, Linked
<1>4. Parts(t) = Parts(s) /\ (KeepsSecrets(s) => KeepsSecrets(t))
  BY <1>2, <1>3 DEF Parts, KeepsSecrets, LeaksLater
<1>5. Sound(t)
  BY <1>2, <1>4 DEF Sound, Cut
<1>6. QED BY <1>1, <1>2, <1>5 DEF LooksLike

LEMMA HeadThenTail ==
  ASSUME NEW S, NEW q \in Seq(S), q # <<>>
  PROVE  <<Head(q)>> \in Seq(S) /\ Head(q) \in S /\ Tail(q) \in Seq(S) /\ q = <<Head(q)>> \o Tail(q)
<1>1. PICK h \in S : h = Head(q) /\ h = q[1]
  <2>1. Head(q) \in S
    BY HeadTailProperties
  <2>2. Head(q) = q[1]
    OBVIOUS
  <2>3. QED BY <2>1, <2>2
<1>2. PICK t \in Seq(S) : t = Tail(q) /\ Len(t) = Len(q) - 1 /\ \A i \in 1..Len(t) : t[i] = q[i + 1]
  BY HeadTailProperties
<1>3. PICK one \in Seq(S) : one = <<h>> /\ Len(one) = 1 /\ one[1] = h
  <2>1. <<h>> \in Seq(S) /\ Len(<<h>>) = 1 /\ <<h>>[1] = h
    OBVIOUS
  <2>2. QED BY <2>1
<1>4. PICK u \in Seq(S) : /\ u = one \o t /\ Len(u) = Len(one) + Len(t)
                          /\ \A i \in 1..Len(u) : u[i] = IF i <= Len(one) THEN one[i] ELSE t[i - Len(one)]
  <2>1. /\ one \o t \in Seq(S) /\ Len(one \o t) = Len(one) + Len(t)
        /\ \A i \in 1..Len(one) + Len(t) : (one \o t)[i] = IF i <= Len(one) THEN one[i] ELSE t[i - Len(one)]
    BY ConcatProperties
  <2>2. QED BY <2>1
<1>5. Len(u) = Len(q) /\ Len(q) \in Nat
  BY <1>2, <1>3, <1>4
<1>6. ASSUME NEW i \in 1..Len(q) PROVE u[i] = q[i]
  <2>1. CASE i = 1
    BY <1>1, <1>3, <1>4, <1>5, <2>1
  <2>2. CASE i # 1
    <3>1. i - 1 \in 1..Len(t) /\ ~(i <= 1) /\ (i - 1) + 1 = i
      BY <1>2, <1>5, <2>2
    <3>2. QED BY <1>2, <1>3, <1>4, <1>5, <3>1
  <2>3. QED BY <2>1, <2>2
<1>7. u = q
  BY <1>5, <1>6, SeqEqual
<1>8. QED BY <1>1, <1>2, <1>3, <1>4, <1>7

\* A send after the answer to one of its posts.
AfterAnswer(s, lands) ==
  LET rest == Tail(s.left) IN
  [s EXCEPT !.left = rest, !.at = IF rest = <<>> THEN "done" ELSE "call",
            !.shown = IF lands THEN Append(@, Message(Head(s.left))) ELSE @,
            !.lost = @ \/ ~lands]

LEMMA AnsweredIsSound ==
  ASSUME OutboundAssumption, NEW s \in SendRecord, Sound(s), s.at = "called", NEW lands \in BOOLEAN,
         NEW u, u = AfterAnswer(s, lands)
  PROVE  u \in SendRecord /\ Sound(u) /\ LooksLike(u, s) /\ u.at \in {"call", "done"}
<1>1. s.left \in Seq(Piece) /\ s.left # <<>> /\ s.shown \in Seq(Posted)
  BY DEF SendRecord, Sound
<1>2. PICK left \in Seq(Piece) : left = s.left /\ left # <<>>
  BY <1>1
<1>3. Tail(left) \in Seq(Piece) /\ Head(left) \in Piece /\ left = <<Head(left)>> \o Tail(left)
  BY <1>2, HeadThenTail
<1>4. PICK rest \in Seq(Piece), h \in Piece : rest = Tail(left) /\ h = Head(left)
  BY <1>3
<1>5. PICK before \in Seq(Posted) : before = s.shown
  BY <1>1
<1>6. PICK m \in Posted : m = Message(h) /\ (~Leaks(Prefix) /\ h \in Seq(Clean) => m \in Seq(Clean))
  BY MessageOf
<1>7. PICK shown \in Seq(Posted) : shown = IF lands THEN Append(before, m) ELSE before
  <2>1. Append(before, m) \in Seq(Posted)
    BY AppendProperties
  <2>2. QED BY <2>1
<1>8. PICK lost \in BOOLEAN : lost = (s.lost \/ ~lands)
  BY DEF SendRecord
<1>9. PICK at \in {"done", "call"} : at = IF rest = <<>> THEN "done" ELSE "call"
  OBVIOUS
<1>10. PICK t : t = [s EXCEPT !.left = rest, !.at = at, !.shown = shown, !.lost = lost]
  OBVIOUS
<1>11. /\ t \in SendRecord /\ t.by = s.by /\ t.key = s.key /\ t.reply = s.reply /\ t.at = at
       /\ t.shown = shown /\ t.lost = lost /\ t.text = s.text /\ t.left = rest
       /\ t.stored = s.stored /\ t.wrapped = s.wrapped /\ t.rendered = s.rendered
  BY <1>10 DEF SendRecord
<1>12. Parts(t) = Parts(s)
  <2>1. Said(t) = Said(s)
    BY <1>11 DEF Said, Linked
  <2>2. QED BY <2>1 DEF Parts
<1>13. ASSUME ~lost PROVE Bare(shown) \o rest = Parts(s)
  <2>1. lands /\ ~s.lost
    BY <1>8, <1>13
  <2>2. PICK b \in Seq(Piece) : b = Bare(before) /\ b \o left = Parts(s)
    <3>1. Bare(before) \in Seq(Piece)
      BY BareType
    <3>2. Bare(before) \o left = Parts(s)
      BY <1>2, <1>5, <2>1 DEF Sound, Cut
    <3>3. QED BY <3>1, <3>2
  <2>3. PICK one \in Seq(Piece) : one = <<h>>
    BY <1>2, <1>4, HeadThenTail
  <2>4. left = one \o rest
    BY <1>3, <1>4, <2>3
  <2>5. Bare(shown) = b \o one
    <3>1. Bare(Append(before, m)) = Append(b, h)
      BY <1>6, <2>2, BareOfAppend
    <3>2. Append(b, h) = b \o one
      BY <2>3, AppendIsConcat
    <3>3. QED BY <1>7, <2>1, <3>1, <3>2
  <2>6. (b \o one) \o rest = b \o (one \o rest)
    <3>1. PICK S : S = Piece
      OBVIOUS
    <3>2. b \in Seq(S) /\ one \in Seq(S) /\ rest \in Seq(S)
      BY <3>1
    <3>3. PICK x : x = b \o one
      OBVIOUS
    <3>4. x \o rest = b \o (one \o rest)
      BY ONLY <3>2, <3>3, ConcatTwice
    <3>5. QED BY <3>3, <3>4
  <2>7. QED BY <2>2, <2>4, <2>5, <2>6
<1>14. KeepsSecrets(t)
  <2> SUFFICES ASSUME ~LeaksLater(s)
               PROVE  rest \in Seq(Seq(Clean)) /\ shown \in Seq(Seq(Clean))
    BY <1>11 DEF KeepsSecrets, LeaksLater
  <2>1. ~Leaks(Prefix)
    BY DEF LeaksLater
  <2>2. PICK S : S = Seq(Clean)
    OBVIOUS
  <2>3. left \in Seq(S) /\ before \in Seq(S)
    BY <1>2, <1>5, <2>2 DEF Sound, Cut, KeepsSecrets
  <2>4. rest \in Seq(S) /\ h \in S
    BY <1>2, <1>4, <2>3, HeadTailProperties
  <2>5. m \in S
    BY <1>6, <2>1, <2>2, <2>4
  <2>6. Append(before, m) \in Seq(S)
    BY <2>3, <2>5, AppendProperties
  <2>7. QED BY <1>7, <2>2, <2>3, <2>4, <2>6
<1>15. Sound(t)
  <2>1. s.at \in Cut /\ ~Leaks(s.text)
    BY DEF Sound, Cut
  <2>2. t.at = "done" => t.left = <<>>
    BY <1>9, <1>11
  <2>3. t.at = "call" => t.left # <<>>
    BY <1>9, <1>11
  <2>4. ~t.lost => Bare(t.shown) \o t.left = Parts(t)
    BY <1>11, <1>12, <1>13
  <2>5. QED BY <1>9, <1>11, <1>14, <2>1, <2>2, <2>3, <2>4 DEF Sound, Cut
<1>16. t = u
  BY <1>2, <1>4, <1>5, <1>6, <1>7, <1>8, <1>9, <1>10 DEF SendRecord, AfterAnswer
<1>17. t.at \in {"call", "done"}
  BY <1>9, <1>11
<1>18. QED BY <1>11, <1>15, <1>16, <1>17 DEF LooksLike

-----------------------------------------------------------------------------
(* Steps of the sends: one is begun or goes on. *)

\* The send j is s now, and the others are what they were.
SendStep(j, s) ==
  /\ j \in 1..Len(sends') /\ sends'[j] = s
  /\ \A i \in 1..Len(sends') : i # j => i \in 1..Len(sends) /\ sends'[i] = sends[i]
  /\ \A i \in 1..Len(sends) : i \in 1..Len(sends')

\* Where a send has noted its attempt.
Tried == {"called", "done", "refused"}
Notes(s) == auditTurns' = Noted(s) /\ Blurs(s)
Quiet == auditTurns' = auditTurns /\ blurred' = blurred

\* A send goes on that was begun before.
GoesOn(j, s) ==
  /\ j \in 1..Len(sends) /\ s.by = sends[j].by /\ s.key = sends[j].key /\ s.reply = sends[j].reply
  /\ Notes(s) \/ (Quiet /\ (s.at \in Tried /\ s.reply => sends[j].at \in Tried))
  /\ stage' = stage /\ ending' = ending /\ empties' = empties /\ acknowledged' = acknowledged
  /\ marks' = marks /\ spoken' = spoken /\ early' = early /\ disturbed' = disturbed

\* A send is begun.
Begins(j, s) ==
  /\ j \notin 1..Len(sends)
  /\ Notes(s) \/ (Quiet /\ s.at \notin Tried)
  /\ ending' = ending /\ empties' = empties /\ acknowledged' = acknowledged
  /\ marks' = marks /\ early' = early /\ disturbed' = disturbed /\ faults' = faults

LEMMA BegunSend ==
  ASSUME sends \in Seq(SendRecord), SendsAreSound, NEW s \in SendRecord, Sound(s), sends' = Append(sends, s)
  PROVE  /\ sends' \in Seq(SendRecord) /\ SendsAreSound'
         /\ \E j \in Nat : SendStep(j, s) /\ j \notin 1..Len(sends)
<1>1. PICK j \in Nat : j = Len(sends) + 1 /\ Len(sends) \in Nat
  OBVIOUS
<1>2. /\ sends' \in Seq(SendRecord) /\ Len(sends') = j /\ sends'[j] = s
      /\ \A i \in 1..Len(sends) : sends'[i] = sends[i]
  BY <1>1, AppendProperties
<1>3. \A i \in 1..Len(sends') : i = j \/ i \in 1..Len(sends)
  BY <1>1, <1>2
<1>4. SendsAreSound'
  BY <1>2, <1>3 DEF SendsAreSound
<1>5. SendStep(j, s)
  BY <1>1, <1>2, <1>3 DEF SendStep
<1>6. j \notin 1..Len(sends)
  BY <1>1
<1>7. QED BY <1>2, <1>4, <1>5, <1>6

LEMMA ChangedSend ==
  ASSUME sends \in Seq(SendRecord), SendsAreSound, NEW j \in 1..Len(sends), NEW s \in SendRecord, Sound(s),
         sends' = [sends EXCEPT ![j] = s]
  PROVE  sends' \in Seq(SendRecord) /\ SendsAreSound' /\ SendStep(j, s)
<1>1. /\ sends' \in Seq(SendRecord) /\ Len(sends') = Len(sends) /\ sends'[j] = s
      /\ \A i \in 1..Len(sends) : i # j => sends'[i] = sends[i]
  BY ExceptSeq
<1>2. SendsAreSound'
  BY <1>1 DEF SendsAreSound
<1>3. SendStep(j, s)
  BY <1>1 DEF SendStep
<1>4. QED BY <1>1, <1>2, <1>3

LEMMA FaultsType ==
  ASSUME OutboundAssumption, OutboundType, NEW ok, Outcome(ok)
  PROVE  faults' \in Nat
BY DEF OutboundType, Outcome

LEMMA FileGoesOn ==
  ASSUME OutboundAssumption, OutboundType, SendsAreSound, NEW i \in DOMAIN sends, NEW ok \in BOOLEAN,
         FileDone(i, ok) \/ UploadDone(i, ok)
  PROVE  /\ sends' \in Seq(SendRecord) /\ SendsAreSound' /\ faults' \in Nat
         /\ \E s \in SendRecord : SendStep(i, s) /\ GoesOn(i, s)
<1>1. PICK s \in SendRecord : s = sends[i] /\ Sound(s) /\ i \in 1..Len(sends)
  BY DEF OutboundType, SendsAreSound
<1>2. faults' \in Nat
  BY FaultsType DEF FileDone, UploadDone, OutboundType
<1>3. PICK f : /\ Ready(f) /\ f.by = s.by /\ f.key = s.key /\ f.reply = s.reply
               /\ Become(i, Guarded(f))
  <2>1. CASE FileDone(i, ok)
    <3>1. PICK f : f = AfterFile(s, ok)
      OBVIOUS
    <3>2. s.at = "file" /\ Uploads(Head(s.files), ok) /\ Become(i, Guarded(f))
      BY <1>1, <2>1, <3>1 DEF FileDone, AfterFile
    <3>3. Ready(f) /\ f.by = s.by /\ f.key = s.key /\ f.reply = s.reply
      BY <1>1, <3>1, <3>2, FileDoneIsReady DEF LooksLike
    <3>4. QED BY <3>2, <3>3
  <2>2. CASE UploadDone(i, ok)
    <3>1. PICK f : f = AfterUpload(s, ok)
      OBVIOUS
    <3>2. s.at = "upload" /\ Uploads(Head(s.files), ok) /\ Become(i, Guarded(f))
      BY <1>1, <2>2, <3>1 DEF UploadDone, AfterUpload
    <3>3. Ready(f) /\ f.by = s.by /\ f.key = s.key /\ f.reply = s.reply
      BY <1>1, <3>1, <3>2, UploadDoneIsReady DEF LooksLike
    <3>4. QED BY <3>2, <3>3
  <2>3. QED BY <2>1, <2>2
<1>4. PICK t \in SendRecord : /\ t = Guarded(f) /\ Sound(t) /\ t.at \in {"refused", "upload", "render", "call"}
                              /\ t.by = s.by /\ t.key = s.key /\ t.reply = s.reply
  BY <1>3, GuardedIsSound DEF LooksLike
<1>5. sends' = [sends EXCEPT ![i] = t] /\ (Notes(t) \/ (Quiet /\ t.at # "refused"))
  BY <1>3, <1>4 DEF Become, Put, Notes, Quiet
<1>6. sends' \in Seq(SendRecord) /\ SendsAreSound' /\ SendStep(i, t)
  BY <1>1, <1>4, <1>5, ChangedSend DEF OutboundType
<1>7. Notes(t) \/ (Quiet /\ t.at \notin Tried)
  BY <1>4, <1>5 DEF Tried
<1>8. GoesOn(i, t)
  BY <1>1, <1>4, <1>7 DEF GoesOn, FileDone, UploadDone
<1>9. QED BY <1>2, <1>6, <1>8

LEMMA RenderGoesOn ==
  ASSUME OutboundAssumption, OutboundType, SendsAreSound, NEW i \in DOMAIN sends, NEW ok \in BOOLEAN, Render(i, ok)
  PROVE  /\ sends' \in Seq(SendRecord) /\ SendsAreSound' /\ faults' \in Nat
         /\ \E s \in SendRecord : SendStep(i, s) /\ GoesOn(i, s)
<1>1. PICK s \in SendRecord : s = sends[i] /\ Sound(s) /\ s.at = "render" /\ i \in 1..Len(sends)
  BY DEF OutboundType, SendsAreSound, Render
<1>2. PICK t : t = Chunked([s EXCEPT !.rendered = ok])
  OBVIOUS
<1>3. t \in SendRecord /\ Sound(t) /\ t.by = s.by /\ t.key = s.key /\ t.reply = s.reply /\ t.at = "call"
  BY <1>1, <1>2, RenderIsSound DEF LooksLike
<1>4. sends' = [sends EXCEPT ![i] = t]
  BY <1>1, <1>2 DEF Render
<1>5. sends' \in Seq(SendRecord) /\ SendsAreSound' /\ SendStep(i, t)
  BY <1>1, <1>3, <1>4, ChangedSend DEF OutboundType
<1>6. GoesOn(i, t)
  BY <1>1, <1>3 DEF GoesOn, Render, Quiet, Tried
<1>7. faults' \in Nat
  BY FaultsType DEF Render
<1>8. QED BY <1>3, <1>5, <1>6, <1>7

LEMMA CallGoesOn ==
  ASSUME OutboundAssumption, OutboundType, SendsAreSound, NEW i \in DOMAIN sends, Calls(i)
  PROVE  /\ sends' \in Seq(SendRecord) /\ SendsAreSound' /\ faults' \in Nat
         /\ \E s \in SendRecord : SendStep(i, s) /\ GoesOn(i, s)
<1>1. PICK s \in SendRecord : s = sends[i] /\ Sound(s) /\ s.at = "call" /\ i \in 1..Len(sends)
  BY DEF OutboundType, SendsAreSound, Calls
<1>2. PICK t : t = [s EXCEPT !.at = "called"]
  OBVIOUS
<1>3. t \in SendRecord /\ Sound(t) /\ t.by = s.by /\ t.key = s.key /\ t.reply = s.reply /\ t.at = "called"
  BY <1>1, <1>2, CallIsSound DEF LooksLike
<1>4. sends' = [sends EXCEPT ![i] = t]
  BY <1>1, <1>2 DEF Calls
<1>5. sends' \in Seq(SendRecord) /\ SendsAreSound' /\ SendStep(i, t)
  BY <1>1, <1>3, <1>4, ChangedSend DEF OutboundType
<1>6. Notes(t) \/ (Quiet /\ (t.at \in Tried /\ t.reply => sends[i].at \in Tried))
  <2>1. CASE s.reply
    <3>1. auditTurns' = Noted(s) /\ Blurs(s)
      BY <1>1, <2>1 DEF Calls, NotedIfReply
    <3>2. QED BY <1>3, <3>1 DEF Notes, Noted, Blurs
  <2>2. CASE ~s.reply
    BY <1>1, <1>3, <2>2 DEF Calls, NotedIfReply, Quiet
  <2>3. QED BY <2>1, <2>2
<1>7. GoesOn(i, t) /\ faults' \in Nat
  BY <1>1, <1>3, <1>6 DEF GoesOn, Calls, OutboundType
<1>8. QED BY <1>3, <1>5, <1>7

LEMMA AnswerGoesOn ==
  ASSUME OutboundAssumption, OutboundType, SendsAreSound, NEW i \in DOMAIN sends,
         NEW lands \in BOOLEAN, NEW ok \in BOOLEAN, Answered(i, lands, ok)
  PROVE  /\ sends' \in Seq(SendRecord) /\ SendsAreSound' /\ faults' \in Nat
         /\ \E s \in SendRecord : SendStep(i, s) /\ GoesOn(i, s)
<1>1. PICK s \in SendRecord : s = sends[i] /\ Sound(s) /\ s.at = "called" /\ i \in 1..Len(sends)
  BY DEF OutboundType, SendsAreSound, Answered
<1>3. PICK t : t = AfterAnswer(s, lands)
  OBVIOUS
<1>4. t \in SendRecord /\ Sound(t) /\ t.by = s.by /\ t.key = s.key /\ t.reply = s.reply
  BY <1>1, <1>3, AnsweredIsSound DEF LooksLike
<1>5. sends' = [sends EXCEPT ![i] = t]
  BY <1>1, <1>3 DEF Answered, AfterAnswer
<1>6. sends' \in Seq(SendRecord) /\ SendsAreSound' /\ SendStep(i, t)
  BY <1>1, <1>4, <1>5, ChangedSend DEF OutboundType
<1>7. GoesOn(i, t)
  BY <1>1, <1>4 DEF GoesOn, Answered, Quiet, Tried
<1>8. faults' \in Nat
  BY FaultsType DEF Answered
<1>9. QED BY <1>4, <1>6, <1>7, <1>8

\* Begin, with what it appends.
LEMMA BeginBegins ==
  ASSUME OutboundType, SendsAreSound, NEW s \in SendRecord, Sound(s), Begin(s),
         s.at \in {"file", "refused", "upload", "render", "call"}
  PROVE  /\ sends' \in Seq(SendRecord) /\ SendsAreSound'
         /\ \E j \in Nat : SendStep(j, s) /\ j \notin 1..Len(sends)
         /\ Notes(s) \/ (Quiet /\ s.at \notin Tried)
<1>1. sends' = Append(sends, s) /\ (Notes(s) \/ (Quiet /\ s.at # "refused"))
  BY DEF Begin, Put, Notes, Quiet
<1>2. Notes(s) \/ (Quiet /\ s.at \notin Tried)
  BY <1>1 DEF Tried
<1>3. QED BY <1>1, <1>2, BegunSend DEF OutboundType

LEMMA SendBegins ==
  ASSUME OutboundAssumption, OutboundType, SendsAreSound,
         NEW r \in Run \cup {Nobody}, NEW k \in Key, NEW c \in Replies, Send(r, k, c)
  PROVE  /\ sends' \in Seq(SendRecord) /\ SendsAreSound'
         /\ \E s \in SendRecord, j \in Nat :
              SendStep(j, s) /\ Begins(j, s) /\ s.by = r /\ s.key = k /\ s.reply
<1>1. c \in [text : Seq(Nat), files : Seq(STRING)]
  BY DEF OutboundAssumption
<1>2. PICK b \in BOOLEAN : b = TRUE
  OBVIOUS
<1>3. PICK f : f = Fresh(r, k, b, c) /\ Ready(f) /\ f.by = r /\ f.key = k /\ f.reply = b
  BY <1>1, FreshIsReady
<1>4. PICK s \in SendRecord : /\ s = Guarded(f) /\ Sound(s) /\ s.by = r /\ s.key = k /\ s.reply = b
                              /\ s.at \in {"refused", "upload", "render", "call"}
  BY <1>3, GuardedIsSound DEF LooksLike
<1>5. Begin(s)
  BY <1>2, <1>3, <1>4 DEF Send
<1>6. /\ sends' \in Seq(SendRecord) /\ SendsAreSound'
      /\ \E j \in Nat : SendStep(j, s) /\ j \notin 1..Len(sends)
      /\ Notes(s) \/ (Quiet /\ s.at \notin Tried)
  BY <1>4, <1>5, BeginBegins
<1>7. PICK j \in Nat : SendStep(j, s) /\ j \notin 1..Len(sends)
  BY <1>6
<1>8. Begins(j, s)
  BY <1>6, <1>7 DEF Begins, Send
<1>9. QED BY <1>2, <1>4, <1>6, <1>7, <1>8

LEMMA SendFileBegins ==
  ASSUME OutboundAssumption, OutboundType, SendsAreSound,
         NEW r \in Run, NEW c \in Replies, SendFile(r, c)
  PROVE  /\ sends' \in Seq(SendRecord) /\ SendsAreSound'
         /\ \E s \in SendRecord, j \in Nat :
              SendStep(j, s) /\ Begins(j, s) /\ s.by = r /\ s.key = KeyOf[r] /\ s.reply
<1>1. c \in [text : Seq(Nat), files : Seq(STRING)] /\ KeyOf[r] \in Key /\ c.files # <<>>
  BY DEF OutboundAssumption, SendFile
<1>2. PICK k \in Key : k = KeyOf[r]
  BY <1>1
<1>3. PICK s : s = FileSend(r, k, c)
  OBVIOUS
<1>4. s \in SendRecord /\ Sound(s) /\ s.by = r /\ s.key = k /\ s.reply /\ s.at = "file"
  BY <1>1, <1>3, FileIsSound
<1>5. Begin(s)
  BY <1>2, <1>3 DEF SendFile, FileSend
<1>6. /\ sends' \in Seq(SendRecord) /\ SendsAreSound'
      /\ \E j \in Nat : SendStep(j, s) /\ j \notin 1..Len(sends)
      /\ Notes(s) \/ (Quiet /\ s.at \notin Tried)
  BY <1>4, <1>5, BeginBegins
<1>7. PICK j \in Nat : SendStep(j, s) /\ j \notin 1..Len(sends)
  BY <1>6
<1>8. Begins(j, s)
  BY <1>6, <1>7 DEF Begins, SendFile
<1>9. QED BY <1>2, <1>4, <1>6, <1>7, <1>8

LEMMA NoticeBegins ==
  ASSUME OutboundAssumption, OutboundType, SendsAreSound,
         NEW r \in Run, NEW text \in Notices, Notice(r, text)
  PROVE  /\ sends' \in Seq(SendRecord) /\ SendsAreSound'
         /\ \E s \in SendRecord, j \in Nat :
              SendStep(j, s) /\ Begins(j, s) /\ s.by = r /\ s.key = KeyOf[r] /\ ~s.reply
<1>1. KeyOf[r] \in Key /\ text \in Seq(Nat)
  BY DEF OutboundAssumption
<1>2. PICK k \in Key : k = KeyOf[r]
  BY <1>1
<1>3. PICK c \in [text : Seq(Nat), files : Seq(STRING)] : c = [text |-> text, files |-> <<>>]
  <2>1. PICK none \in Seq(STRING) : none = <<>>
    BY EmptySeq
  <2>2. [text |-> text, files |-> none] \in [text : Seq(Nat), files : Seq(STRING)]
    BY <1>1
  <2>3. QED BY <2>1, <2>2
<1>4. PICK b \in BOOLEAN : b = FALSE
  OBVIOUS
<1>5. PICK f : f = Fresh(r, k, b, c) /\ Ready(f) /\ f.by = r /\ f.key = k /\ f.reply = b
  <2>1. r \in Run \cup {Nobody}
    OBVIOUS
  <2>2. QED BY <2>1, FreshIsReady
<1>6. PICK s \in SendRecord : /\ s = Guarded(f) /\ Sound(s) /\ s.by = r /\ s.key = k /\ s.reply = b
                              /\ s.at \in {"refused", "upload", "render", "call"}
  BY <1>5, GuardedIsSound DEF LooksLike
<1>7. Begin(s)
  BY <1>2, <1>3, <1>4, <1>5, <1>6 DEF Notice
<1>8. /\ sends' \in Seq(SendRecord) /\ SendsAreSound'
      /\ \E j \in Nat : SendStep(j, s) /\ j \notin 1..Len(sends)
      /\ Notes(s) \/ (Quiet /\ s.at \notin Tried)
  BY <1>6, <1>7, BeginBegins
<1>9. PICK j \in Nat : SendStep(j, s) /\ j \notin 1..Len(sends)
  BY <1>8
<1>10. Begins(j, s)
  BY <1>8, <1>9 DEF Begins, Notice
<1>11. QED BY <1>2, <1>4, <1>6, <1>8, <1>9, <1>10

\* From the start hook to the end of the notice.
Stages == {"idle", "running", "marking", "noticing", "over"}

\* A run that was begun stays so, and what is over stays over.
StagesGoOn ==
  \A q \in Run : (stage'[q] = "idle" => stage[q] = "idle") /\ (stage[q] = "over" => stage'[q] = "over")

LEMMA SenderType ==
  ASSUME OutboundType, NEW i \in 1..Len(sends)
  PROVE  sends[i].by \in Run \cup {Nobody}
<1>1. sends[i] \in SendRecord
  BY DEF OutboundType
<1>2. QED BY <1>1 DEF SendRecord

LEMMA BelongAfterSend ==
  ASSUME SendsBelong, NEW j, NEW s \in SendRecord, SendStep(j, s),
         Belongs(s, stage', spoken'), s.by = Nobody => s.reply, spoken \subseteq spoken', spoken' \subseteq spoken \cup {s.by},
         j \in 1..Len(sends) => s.by = sends[j].by, StagesGoOn,
         \A i \in 1..Len(sends) : sends[i].by \in Run \cup {Nobody}
  PROVE  SendsBelong'
<1>1. ASSUME NEW i \in 1..Len(sends')
      PROVE  Belongs(sends'[i], stage', spoken') /\ (sends'[i].by = Nobody => sends'[i].reply)
  <2>1. CASE i = j
    BY <2>1 DEF SendStep
  <2>2. CASE i # j
    <3>1. i \in 1..Len(sends) /\ sends'[i] = sends[i]
      BY <2>2 DEF SendStep
    <3>2. Belongs(sends[i], stage, spoken) /\ (sends[i].by = Nobody => sends[i].reply)
      BY <3>1 DEF SendsBelong
    <3>3. Belongs(sends[i], stage', spoken')
      BY <3>1, <3>2 DEF Belongs, StagesGoOn
    <3>4. QED BY <3>1, <3>2, <3>3 DEF Belongs
  <2>3. QED BY <2>1, <2>2
<1>2. ASSUME NEW r \in spoken' PROVE \E i \in 1..Len(sends') : sends'[i].by = r
  <2>1. CASE r = s.by
    BY <2>1 DEF SendStep
  <2>2. CASE r # s.by
    <3>1. PICK i \in 1..Len(sends) : sends[i].by = r
      BY <2>2 DEF SendsBelong
    <3>2. i # j /\ i \in 1..Len(sends')
      BY <2>2, <3>1 DEF SendStep
    <3>3. sends'[i] = sends[i]
      BY <3>2 DEF SendStep
    <3>4. QED BY <3>1, <3>2, <3>3
  <2>3. QED BY <2>1, <2>2
<1>3. QED BY <1>1, <1>2 DEF SendsBelong

\* Whoever tries to deliver under the key of a run disturbs it, or is that run.
LEMMA TurnAfterSend ==
  ASSUME OutboundAssumption, OutboundType, TurnIsNoted, SendsBelong',
         NEW j, NEW s \in SendRecord, SendStep(j, s), spoken \subseteq spoken',
         s.by \in Run /\ s.reply => s.by \in spoken',
         \A q \in Run : stage'[q] = "running" => stage[q] = "running",
         \/ Notes(s)
         \/ Quiet /\ (s.at \in Tried /\ s.reply =>
                        j \in 1..Len(sends) /\ sends[j].by = s.by /\ sends[j].at \in Tried)
  PROVE  TurnIsNoted'
<1> SUFFICES ASSUME NEW r \in Run, r \notin blurred', stage'[r] = "running"
             PROVE  /\ auditTurns'[KeyOf[r]] \in {"armed", "sent"}
                    /\ auditTurns'[KeyOf[r]] = "sent" => r \in spoken'
                    /\ \A i \in 1..Len(sends') : sends'[i].by = r /\ sends'[i].at \in Tried =>
                         auditTurns'[KeyOf[r]] = "sent"
  BY DEF TurnIsNoted, Tried
<1> DEFINE k == KeyOf[r]
<1>1. stage[r] = "running" /\ r \notin blurred /\ k \in Key
  BY DEF Notes, Quiet, Blurs, OutboundAssumption
<1>2. /\ auditTurns[k] \in {"armed", "sent"} /\ (auditTurns[k] = "sent" => r \in spoken)
      /\ \A i \in 1..Len(sends) : sends[i].by = r /\ sends[i].at \in Tried => auditTurns[k] = "sent"
  BY <1>1 DEF TurnIsNoted, Tried
<1>3. s.by = r => s.key = k /\ s.reply /\ r \in spoken'
  <2>1. Nobody \notin Run
    BY DEF OutboundAssumption
  <2>2. Belongs(s, stage', spoken')
    BY DEF SendsBelong, SendStep
  <2>3. QED BY <2>1, <2>2 DEF Belongs
<1>4. CASE Notes(s)
  <2>1. s.by # r => s.key # k
    BY <1>1, <1>4 DEF Notes, Blurs, Running
  <2>2. CASE s.by = r
    <3>1. auditTurns[s.key] # "none"
      BY <1>2, <1>3, <2>2
    <3>2. auditTurns' = [auditTurns EXCEPT ![s.key] = "sent"]
      BY <1>4, <3>1 DEF Notes, Noted
    <3>3. auditTurns'[k] = "sent"
      BY <1>1, <1>3, <2>2, <3>2 DEF OutboundType
    <3>4. QED BY <1>3, <2>2, <3>3
  <2>3. CASE s.by # r
    <3>1. s.key # k
      BY <2>1, <2>3
    <3>2. auditTurns'[k] = auditTurns[k]
      BY <1>1, <1>4, <3>1 DEF Notes, Noted, OutboundType
    <3>3. ASSUME NEW i \in 1..Len(sends'), sends'[i].by = r PROVE i \in 1..Len(sends) /\ sends'[i] = sends[i]
      BY <2>3, <3>3 DEF SendStep
    <3>4. QED BY <1>2, <3>2, <3>3
  <2>4. QED BY <2>2, <2>3
<1>5. CASE /\ Quiet
           /\ s.at \in Tried /\ s.reply => j \in 1..Len(sends) /\ sends[j].by = s.by /\ sends[j].at \in Tried
  <2>1. auditTurns'[k] = auditTurns[k]
    BY <1>5 DEF Quiet
  <2>2. ASSUME NEW i \in 1..Len(sends'), sends'[i].by = r, sends'[i].at \in Tried PROVE auditTurns'[k] = "sent"
    <3>1. CASE i = j
      <4>1. s.by = r /\ s.at \in Tried
        BY <2>2, <3>1 DEF SendStep
      <4>2. j \in 1..Len(sends) /\ sends[j].by = r /\ sends[j].at \in Tried
        BY <1>3, <1>5, <4>1
      <4>3. QED BY <1>2, <2>1, <4>2
    <3>2. CASE i # j
      <4>1. i \in 1..Len(sends) /\ sends'[i] = sends[i]
        BY <3>2 DEF SendStep
      <4>2. QED BY <1>2, <2>1, <2>2, <4>1
    <3>3. QED BY <3>1, <3>2
  <2>3. QED BY <1>2, <2>1, <2>2
<1>6. QED BY <1>4, <1>5

LEMMA NoticesStay ==
  ASSUME OutboundType, OutboundType', NEW j, NEW s, SendStep(j, s),
         IF j \in 1..Len(sends) THEN s.by = sends[j].by /\ s.reply = sends[j].reply ELSE s.reply,
         NEW r
  PROVE  NoticesOf(r)' = NoticesOf(r)
<1>1. DOMAIN sends = 1..Len(sends) /\ DOMAIN sends' = 1..Len(sends')
  BY DEF OutboundType
<1>2. ASSUME NEW i \in 1..Len(sends), sends[i].by = r, ~sends[i].reply
      PROVE  i \in 1..Len(sends') /\ sends'[i].by = r /\ ~sends'[i].reply
  BY <1>2 DEF SendStep
<1>3. ASSUME NEW i \in 1..Len(sends'), sends'[i].by = r, ~sends'[i].reply
      PROVE  i \in 1..Len(sends) /\ sends[i].by = r /\ ~sends[i].reply
  BY <1>3 DEF SendStep
<1>4. QED BY <1>1, <1>2, <1>3 DEF NoticesOf

LEMMA BlurredGrows ==
  ASSUME OutboundType, NEW s, Notes(s) \/ Quiet, stage' \in [Run -> Stages]
  PROVE  blurred \subseteq blurred' /\ blurred' \subseteq Run
         /\ auditTurns' \in [Key -> {"none", "armed", "sent"}]
         /\ \A r \in blurred' \ blurred : stage[r] = "running"
<1>1. CASE Notes(s)
  <2>1. auditTurns' \in [Key -> {"none", "armed", "sent"}]
    BY <1>1 DEF OutboundType, Notes, Noted
  <2>2. QED BY <1>1, <2>1 DEF OutboundType, Notes, Blurs, Running
<1>2. CASE Quiet
  BY <1>2 DEF OutboundType, Quiet
<1>3. QED BY <1>1, <1>2

LEMMA GoesOnKeeps ==
  ASSUME OutboundAssumption, OutboundInv, sends' \in Seq(SendRecord), SendsAreSound', faults' \in Nat,
         NEW j, NEW s \in SendRecord, SendStep(j, s), GoesOn(j, s)
  PROVE  OutboundInv'
<1>0. stage' = stage /\ ending' = ending /\ empties' = empties /\ acknowledged' = acknowledged
      /\ marks' = marks /\ spoken' = spoken /\ early' = early /\ disturbed' = disturbed
      /\ (Notes(s) \/ Quiet) /\ OutboundType
  BY DEF GoesOn, OutboundInv
<1>1. /\ blurred \subseteq blurred' /\ blurred' \subseteq Run
      /\ auditTurns' \in [Key -> {"none", "armed", "sent"}]
  BY <1>0, BlurredGrows DEF OutboundType, Stages
<1>2. OutboundType'
  BY <1>0, <1>1 DEF OutboundType
<1>3. /\ j \in 1..Len(sends) /\ s.by = sends[j].by /\ s.key = sends[j].key /\ s.reply = sends[j].reply
      /\ Belongs(sends[j], stage, spoken) /\ (sends[j].by = Nobody => sends[j].reply)
  BY DEF GoesOn, OutboundInv, SendsBelong
<1>4. SendsBelong'
  <2>1. Belongs(s, stage', spoken')
    BY <1>0, <1>3 DEF Belongs
  <2>2. \A i \in 1..Len(sends) : sends[i].by \in Run \cup {Nobody}
    BY <1>0, SenderType
  <2>3. StagesGoOn /\ spoken \subseteq spoken' /\ spoken' \subseteq spoken \cup {s.by}
    BY <1>0 DEF StagesGoOn
  <2>4. QED BY <1>3, <2>1, <2>2, <2>3, BelongAfterSend DEF OutboundInv
<1>5. TurnIsNoted'
  <2>1. s.by \in Run /\ s.reply => s.by \in spoken'
    BY <1>0, <1>3 DEF Belongs, OutboundAssumption
  <2>2. \/ Notes(s)
        \/ Quiet /\ (s.at \in Tried /\ s.reply =>
                       j \in 1..Len(sends) /\ sends[j].by = s.by /\ sends[j].at \in Tried)
    BY <1>3 DEF GoesOn
  <2>3. QED BY <1>0, <1>4, <2>1, <2>2, TurnAfterSend DEF OutboundInv
<1>6. KeyIsOfOne'
  BY <1>0, <1>1 DEF KeyIsOfOne, OutboundInv
<1>7. LineIsRight'
  BY <1>0, <1>1 DEF LineIsRight, OutboundInv
<1>8. NoticesAreCounted'
  <2>1. ASSUME NEW r \in Run PROVE NoticesOf(r)' = NoticesOf(r)
    BY <1>0, <1>2, <1>3, NoticesStay
  <2>2. \A i \in 1..Len(sends) : i \in 1..Len(sends')
    BY DEF SendStep
  <2>3. QED BY <1>0, <2>1, <2>2 DEF NoticesAreCounted, OutboundInv
<1>9. MarksFollow'
  BY <1>0, <1>1 DEF MarksFollow, OutboundInv
<1>10. QED BY <1>2, <1>4, <1>5, <1>6, <1>7, <1>8, <1>9 DEF OutboundInv

\* A reply begun: by a run between its hooks, or by nobody.
LEMMA ReplyKeeps ==
  ASSUME OutboundAssumption, OutboundInv, sends' \in Seq(SendRecord), SendsAreSound',
         NEW j, NEW s \in SendRecord, SendStep(j, s), Begins(j, s), s.reply, stage' = stage,
         s.by # Nobody => stage[s.by] = "running" /\ KeyOf[s.by] = s.key,
         spoken' = IF s.by = Nobody THEN spoken ELSE spoken \cup {s.by}
  PROVE  OutboundInv'
<1>0. ending' = ending /\ empties' = empties /\ acknowledged' = acknowledged
      /\ marks' = marks /\ early' = early /\ disturbed' = disturbed /\ faults' = faults
      /\ (Notes(s) \/ Quiet) /\ OutboundType /\ j \notin 1..Len(sends)
  BY DEF Begins, OutboundInv
<1>1. /\ blurred \subseteq blurred' /\ blurred' \subseteq Run
      /\ auditTurns' \in [Key -> {"none", "armed", "sent"}]
  BY <1>0, BlurredGrows DEF OutboundType, Stages
<1>2. s.by \in Run \cup {Nobody} /\ Nobody \notin Run
  BY DEF SendRecord, OutboundAssumption
<1>3. spoken \subseteq spoken' /\ spoken' \subseteq Run /\ spoken' \subseteq spoken \cup {s.by}
      /\ \A r \in Run : r \in spoken' /\ r \notin spoken => stage[r] = "running"
  BY <1>0, <1>2 DEF OutboundType
<1>4. OutboundType'
  BY <1>0, <1>1, <1>3 DEF OutboundType
<1>5. SendsBelong'
  <2>1. Belongs(s, stage', spoken')
    BY DEF Belongs
  <2>2. \A i \in 1..Len(sends) : sends[i].by \in Run \cup {Nobody}
    BY <1>0, SenderType
  <2>3. StagesGoOn
    BY DEF StagesGoOn
  <2>4. QED BY <1>0, <1>3, <2>1, <2>2, <2>3, BelongAfterSend DEF OutboundInv
<1>6. TurnIsNoted'
  <2>1. s.by \in Run /\ s.reply => s.by \in spoken'
    BY <1>2
  <2>2. \/ Notes(s)
        \/ Quiet /\ (s.at \in Tried /\ s.reply =>
                       j \in 1..Len(sends) /\ sends[j].by = s.by /\ sends[j].at \in Tried)
    BY DEF Begins
  <2>3. QED BY <1>0, <1>3, <1>5, <2>1, <2>2, TurnAfterSend DEF OutboundInv
<1>7. KeyIsOfOne'
  BY <1>1 DEF KeyIsOfOne, OutboundInv
<1>8. LineIsRight'
  <2>1. LineIsRight
    BY DEF OutboundInv
  <2>2. QED BY <1>0, <1>1, <1>3, <2>1 DEF LineIsRight
<1>9. NoticesAreCounted'
  <2>1. ASSUME NEW r \in Run PROVE NoticesOf(r)' = NoticesOf(r)
    BY <1>0, <1>4, NoticesStay
  <2>2. \A i \in 1..Len(sends) : i \in 1..Len(sends')
    BY DEF SendStep
  <2>3. QED BY <1>0, <2>1, <2>2 DEF NoticesAreCounted, OutboundInv
<1>10. MarksFollow'
  <2>1. MarksFollow
    BY DEF OutboundInv
  <2>2. \A r \in Run : stage[r] # "running" => (r \in spoken' <=> r \in spoken)
    BY <1>3
  <2>3. QED BY <1>0, <1>1, <2>1, <2>2 DEF MarksFollow
<1>11. QED BY <1>4, <1>5, <1>6, <1>7, <1>8, <1>9, <1>10 DEF OutboundInv

LEMMA NoticeKeeps ==
  ASSUME OutboundAssumption, OutboundInv, sends' \in Seq(SendRecord), SendsAreSound',
         NEW r \in Run, stage[r] = "noticing", stage' = [stage EXCEPT ![r] = "over"], spoken' = spoken,
         NEW j \in Nat, NEW s \in SendRecord, SendStep(j, s), Begins(j, s),
         s.by = r, s.key = KeyOf[r], ~s.reply
  PROVE  OutboundInv'
<1>0. /\ ending' = ending /\ empties' = empties /\ acknowledged' = acknowledged
      /\ marks' = marks /\ early' = early /\ disturbed' = disturbed /\ faults' = faults
      /\ Notes(s) \/ Quiet
      /\ OutboundType /\ j \notin 1..Len(sends) /\ r # Nobody
  BY DEF Begins, OutboundInv, OutboundAssumption
<1>1. /\ stage' \in [Run -> Stages] /\ stage'[r] = "over"
      /\ \A q \in Run : q # r => stage'[q] = stage[q]
  BY <1>0 DEF OutboundType, Stages
<1>2. /\ blurred \subseteq blurred' /\ blurred' \subseteq Run
      /\ auditTurns' \in [Key -> {"none", "armed", "sent"}]
  BY <1>0, <1>1, BlurredGrows
<1>3. OutboundType'
  BY <1>0, <1>1, <1>2 DEF OutboundType, Stages
<1>4. SendsBelong'
  <2>1. Belongs(s, stage', spoken')
    BY <1>1 DEF Belongs
  <2>2. \A i \in 1..Len(sends) : sends[i].by \in Run \cup {Nobody}
    BY <1>0, SenderType
  <2>3. StagesGoOn
    BY <1>1 DEF StagesGoOn
  <2>4. spoken \subseteq spoken' /\ spoken' \subseteq spoken \cup {s.by}
    OBVIOUS
  <2>5. QED BY <1>0, <2>1, <2>2, <2>3, <2>4, BelongAfterSend DEF OutboundInv
<1>5. TurnIsNoted'
  <2>1. \/ Notes(s)
        \/ Quiet /\ (s.at \in Tried /\ s.reply =>
                       j \in 1..Len(sends) /\ sends[j].by = s.by /\ sends[j].at \in Tried)
    BY <1>0
  <2>2. \A q \in Run : stage'[q] = "running" => stage[q] = "running"
    BY <1>1
  <2>3. QED BY <1>0, <1>4, <2>1, <2>2, TurnAfterSend DEF OutboundInv
<1>6. KeyIsOfOne'
  BY <1>1, <1>2 DEF KeyIsOfOne, OutboundInv
<1>7. LineIsRight'
  <2>1. LineIsRight
    BY DEF OutboundInv
  <2>2. QED BY <1>0, <1>1, <1>2, <2>1 DEF LineIsRight
<1>8. NoticesAreCounted'
  <2>0. NoticesAreCounted /\ LineIsRight
    BY DEF OutboundInv
  <2>1. DOMAIN sends = 1..Len(sends) /\ DOMAIN sends' = 1..Len(sends')
    BY <1>0, <1>3 DEF OutboundType
  <2>2. ASSUME NEW q \in Run, q # r PROVE NoticesOf(q)' = NoticesOf(q)
    <3>1. \A i \in 1..Len(sends') : sends'[i].by = q => i \in 1..Len(sends) /\ sends'[i] = sends[i]
      BY <2>2 DEF SendStep
    <3>2. \A i \in 1..Len(sends) : i \in 1..Len(sends') /\ sends'[i] = sends[i]
      BY <1>0 DEF SendStep
    <3>3. QED BY <2>1, <3>1, <3>2 DEF NoticesOf
  <2>3. NoticesOf(r) = {} /\ empties[r] = 1
    BY <2>0 DEF NoticesAreCounted, LineIsRight
  <2>4. NoticesOf(r)' = {j} /\ j \in 1..Len(sends')
    <3>1. j \in 1..Len(sends') /\ sends'[j].by = r /\ ~sends'[j].reply
      BY DEF SendStep
    <3>2. ASSUME NEW i \in 1..Len(sends'), sends'[i].by = r, ~sends'[i].reply PROVE i = j
      <4>1. i # j => i \in 1..Len(sends) /\ sends'[i] = sends[i]
        BY DEF SendStep
      <4>2. QED BY <2>1, <2>3, <3>2, <4>1 DEF NoticesOf
    <3>3. QED BY <2>1, <3>1, <3>2 DEF NoticesOf
  <2>5. \A i \in 1..Len(sends) : i \in 1..Len(sends')
    BY DEF SendStep
  <2>6. ASSUME NEW q \in Run
        PROVE  IF stage'[q] = "over" /\ empties'[q] = 1 THEN \E i \in 1..Len(sends') : NoticesOf(q)' = {i}
               ELSE NoticesOf(q)' = {}
    <3>1. CASE q = r
      BY <1>0, <1>1, <2>3, <2>4, <3>1
    <3>2. CASE q # r
      <4>1. IF stage[q] = "over" /\ empties[q] = 1 THEN \E i \in 1..Len(sends) : NoticesOf(q) = {i}
            ELSE NoticesOf(q) = {}
        BY <2>0 DEF NoticesAreCounted
      <4>2. QED BY <1>0, <1>1, <2>2, <2>5, <3>2, <4>1
    <3>3. QED BY <3>1, <3>2
  <2>7. QED BY <2>6 DEF NoticesAreCounted
<1>9. MarksFollow'
  <2>1. MarksFollow
    BY DEF OutboundInv
  <2>2. QED BY <1>0, <1>1, <1>2, <2>1 DEF MarksFollow
<1>10. QED BY <1>3, <1>4, <1>5, <1>6, <1>7, <1>8, <1>9 DEF OutboundInv

\* Steps that leave the sends alone.
LEMMA SendsStay ==
  ASSUME OutboundInv, sends' = sends, spoken' = spoken, StagesGoOn, Nobody \notin Run
  PROVE  /\ sends' \in Seq(SendRecord) /\ SendsAreSound' /\ SendsBelong'
         /\ \A r : NoticesOf(r)' = NoticesOf(r)
<1>1. ASSUME NEW i \in 1..Len(sends)
      PROVE  Belongs(sends[i], stage', spoken') /\ (sends[i].by = Nobody => sends[i].reply)
  <2>1. Belongs(sends[i], stage, spoken) /\ (sends[i].by = Nobody => sends[i].reply)
    BY DEF OutboundInv, SendsBelong
  <2>2. sends[i].by \in Run \cup {Nobody}
    BY SenderType DEF OutboundInv
  <2>3. QED BY <2>1, <2>2 DEF Belongs, StagesGoOn
<1>2. SendsBelong'
  BY <1>1 DEF SendsBelong, OutboundInv
<1>3. QED BY <1>2 DEF OutboundInv, OutboundType, SendsAreSound, NoticesOf

LEMMA ArmKeeps ==
  ASSUME OutboundAssumption, OutboundInv, NEW r \in Run, Arm(r)
  PROVE  OutboundInv'
<1>0. /\ ending' = ending /\ empties' = empties /\ acknowledged' = acknowledged /\ marks' = marks
      /\ sends' = sends /\ spoken' = spoken /\ early' = early /\ disturbed' = disturbed /\ faults' = faults
      /\ OutboundType /\ Nobody \notin Run /\ KeyOf[r] \in Key /\ stage[r] = "idle"
  BY DEF Arm, OutboundInv, OutboundAssumption
<1>1. /\ stage' \in [Run -> Stages] /\ stage'[r] = "running"
      /\ \A q \in Run : q # r => stage'[q] = stage[q]
      /\ auditTurns' \in [Key -> {"none", "armed", "sent"}] /\ auditTurns'[KeyOf[r]] = "armed"
      /\ \A k \in Key : k # KeyOf[r] => auditTurns'[k] = auditTurns[k]
  BY <1>0 DEF Arm, OutboundType, Stages
<1>2. /\ blurred \subseteq blurred' /\ blurred' \subseteq Run
      /\ Running(KeyOf[r]) # {} => r \in blurred' /\ Running(KeyOf[r]) \subseteq blurred'
  BY <1>0 DEF Arm, OutboundType, Running
<1>3. StagesGoOn
  BY <1>0, <1>1 DEF StagesGoOn
<1>4. /\ sends' \in Seq(SendRecord) /\ SendsAreSound' /\ SendsBelong'
      /\ \A q : NoticesOf(q)' = NoticesOf(q)
  BY <1>0, <1>3, SendsStay
<1>5. OutboundType'
  BY <1>0, <1>1, <1>2 DEF OutboundType, Stages
<1>6. KeyIsOfOne'
  <2>1. KeyIsOfOne
    BY DEF OutboundInv
  <2>2. \A q \in Run : q # r /\ KeyOf[q] = KeyOf[r] /\ stage'[q] = "running" => q \in blurred' /\ r \in blurred'
    BY <1>1, <1>2 DEF Running
  <2>3. QED BY <1>1, <1>2, <2>1, <2>2 DEF KeyIsOfOne
<1>7. TurnIsNoted'
  <2>0. TurnIsNoted /\ SendsBelong
    BY DEF OutboundInv
  <2>1. \A i \in 1..Len(sends) : sends[i].by # r
    BY <1>0, <2>0 DEF SendsBelong, Belongs
  <2>2. ASSUME NEW q \in Run, q \notin blurred', stage'[q] = "running"
        PROVE  /\ auditTurns'[KeyOf[q]] \in {"armed", "sent"}
               /\ auditTurns'[KeyOf[q]] = "sent" => q \in spoken'
               /\ \A i \in 1..Len(sends') : sends'[i].by = q /\ sends'[i].at \in {"called", "done", "refused"} =>
                    auditTurns'[KeyOf[q]] = "sent"
    <3>1. CASE q = r
      BY <1>0, <1>1, <2>1, <3>1
    <3>2. CASE q # r
      <4>1. KeyOf[q] # KeyOf[r] /\ KeyOf[q] \in Key
        BY <1>1, <1>2, <2>2, <3>2 DEF Running, OutboundAssumption
      <4>2. auditTurns'[KeyOf[q]] = auditTurns[KeyOf[q]] /\ q \notin blurred /\ stage[q] = "running"
        BY <1>1, <1>2, <2>2, <3>2, <4>1
      <4>3. QED BY <1>0, <2>0, <4>2 DEF TurnIsNoted
    <3>3. QED BY <3>1, <3>2
  <2>3. QED BY <2>2 DEF TurnIsNoted
<1>8. LineIsRight'
  <2>1. LineIsRight
    BY DEF OutboundInv
  <2>2. QED BY <1>0, <1>1, <1>2, <2>1 DEF LineIsRight
<1>9. NoticesAreCounted'
  <2>1. NoticesAreCounted
    BY DEF OutboundInv
  <2>2. QED BY <1>0, <1>1, <1>4, <2>1 DEF NoticesAreCounted
<1>10. MarksFollow'
  <2>1. MarksFollow
    BY DEF OutboundInv
  <2>2. QED BY <1>0, <1>1, <1>2, <2>1 DEF MarksFollow
<1>11. QED BY <1>4, <1>5, <1>6, <1>7, <1>8, <1>9, <1>10 DEF OutboundInv

LEMMA CompleteKeeps ==
  ASSUME OutboundAssumption, OutboundInv, NEW r \in Run, NEW outcome \in {"success", "failure"}, Complete(r, outcome)
  PROVE  OutboundInv'
<1> DEFINE k == KeyOf[r]
           attempted == auditTurns[k]
<1>0. /\ acknowledged' = acknowledged /\ marks' = marks /\ blurred' = blurred
      /\ sends' = sends /\ spoken' = spoken /\ disturbed' = disturbed /\ faults' = faults
      /\ OutboundType /\ Nobody \notin Run /\ k \in Key /\ stage[r] = "running"
  BY DEF Complete, OutboundInv, OutboundAssumption
<1>1. /\ stage' \in [Run -> Stages] /\ stage'[r] = (IF Reports(attempted, outcome) THEN "marking" ELSE "over")
      /\ \A q \in Run : q # r => stage'[q] = stage[q]
      /\ auditTurns' \in [Key -> {"none", "armed", "sent"}]
      /\ \A m \in Key : m # k => auditTurns'[m] = auditTurns[m]
      /\ ending' \in [Run -> {"none", "success", "failure"}] /\ ending'[r] = outcome
      /\ \A q \in Run : q # r => ending'[q] = ending[q]
  BY <1>0 DEF Complete, OutboundType, Stages
<1>2. empties[r] = 0
  BY <1>0 DEF OutboundInv, LineIsRight
<1>3. /\ empties' \in [Run -> {0, 1}] /\ empties'[r] = (IF attempted = "armed" THEN 1 ELSE 0)
      /\ \A q \in Run : q # r => empties'[q] = empties[q]
  BY <1>0, <1>2 DEF Complete, OutboundType
<1>4. early' = IF acknowledged[r] THEN early \cup {r} ELSE early
  BY DEF Complete
<1>5. StagesGoOn
  BY <1>0, <1>1 DEF StagesGoOn
<1>6. /\ sends' \in Seq(SendRecord) /\ SendsAreSound' /\ SendsBelong'
      /\ \A q : NoticesOf(q)' = NoticesOf(q)
  BY <1>0, <1>5, SendsStay
<1>7. OutboundType'
  BY <1>0, <1>1, <1>3, <1>4 DEF OutboundType, Stages
<1>8. KeyIsOfOne'
  BY <1>0, <1>1 DEF KeyIsOfOne, OutboundInv
\* The entry of an undisturbed run tells whether it spoke.
<1>9. r \notin blurred => attempted = IF r \in spoken THEN "sent" ELSE "armed"
  <2>1. SUFFICES ASSUME r \notin blurred PROVE attempted = IF r \in spoken THEN "sent" ELSE "armed"
    OBVIOUS
  <2>2. /\ attempted \in {"armed", "sent"} /\ (attempted = "sent" => r \in spoken)
        /\ \A i \in 1..Len(sends) : sends[i].by = r /\ sends[i].at \in {"called", "done", "refused"} =>
             attempted = "sent"
    BY <1>0, <2>1 DEF OutboundInv, TurnIsNoted
  <2>3. CASE r \in spoken
    <3>1. PICK i \in 1..Len(sends) : sends[i].by = r
      BY <2>3 DEF OutboundInv, SendsBelong
    <3>2. DOMAIN sends = 1..Len(sends)
      BY <1>0 DEF OutboundType
    <3>3. sends[i].at \in {"done", "refused"}
      BY <3>1, <3>2 DEF Complete
    <3>4. QED BY <2>2, <2>3, <3>1, <3>3
  <2>4. CASE r \notin spoken
    BY <2>2, <2>4
  <2>5. QED BY <2>3, <2>4
<1>10. TurnIsNoted'
  <2>0. TurnIsNoted /\ KeyIsOfOne
    BY DEF OutboundInv
  <2>1. ASSUME NEW q \in Run, q \notin blurred', stage'[q] = "running"
        PROVE  /\ auditTurns'[KeyOf[q]] \in {"armed", "sent"}
               /\ auditTurns'[KeyOf[q]] = "sent" => q \in spoken'
               /\ \A i \in 1..Len(sends') : sends'[i].by = q /\ sends'[i].at \in {"called", "done", "refused"} =>
                    auditTurns'[KeyOf[q]] = "sent"
    <3>1. q # r /\ q \notin blurred /\ stage[q] = "running"
      BY <1>0, <1>1, <2>1
    <3>2. KeyOf[q] # k /\ KeyOf[q] \in Key
      BY <1>0, <2>0, <3>1 DEF KeyIsOfOne, OutboundAssumption
    <3>3. auditTurns'[KeyOf[q]] = auditTurns[KeyOf[q]]
      BY <1>1, <3>2
    <3>4. QED BY <1>0, <2>0, <3>1, <3>3 DEF TurnIsNoted
  <2>2. QED BY <2>1 DEF TurnIsNoted
<1>11. LineIsRight'
  <2>1. LineIsRight
    BY DEF OutboundInv
  <2>2. r \notin blurred => empties'[r] = IF r \in spoken THEN 0 ELSE 1
    BY <1>3, <1>9
  <2>3. stage'[r] \in {"marking", "over"}
    BY <1>1
  <2>4. QED BY <1>0, <1>1, <1>3, <2>1, <2>2, <2>3 DEF LineIsRight
<1>12. NoticesAreCounted'
  <2>1. NoticesAreCounted
    BY DEF OutboundInv
  <2>2. NoticesOf(r) = {}
    BY <1>0, <2>1 DEF NoticesAreCounted
  <2>3. ~(stage'[r] = "over" /\ empties'[r] = 1)
    BY <1>1, <1>3 DEF Reports
  <2>4. ASSUME NEW q \in Run
        PROVE  IF stage'[q] = "over" /\ empties'[q] = 1 THEN \E i \in 1..Len(sends') : NoticesOf(q)' = {i}
               ELSE NoticesOf(q)' = {}
    <3>1. CASE q = r
      BY <1>6, <2>2, <2>3, <3>1
    <3>2. CASE q # r
      BY <1>0, <1>1, <1>3, <1>6, <2>1, <3>2 DEF NoticesAreCounted
    <3>3. QED BY <3>1, <3>2
  <2>5. QED BY <2>4 DEF NoticesAreCounted
<1>13. MarksFollow'
  <2>1. MarksFollow
    BY DEF OutboundInv
  <2>2. r \notin blurred => (stage'[r] = "marking" <=> ~(r \in spoken /\ outcome = "success"))
    BY <1>1, <1>9 DEF Reports
  <2>3. r \notin early /\ (r \notin disturbed /\ ClearOnFinish => marks[r] = IF acknowledged[r] THEN {"tick"} ELSE {"start"})
    BY <1>0, <2>1 DEF MarksFollow
  <2>4. stage'[r] \in {"marking", "over"}
    BY <1>1
  <2>5. ASSUME NEW q \in Run
        PROVE  /\ q \in early' => acknowledged'[q] /\ stage'[q] \notin {"idle", "running"}
               /\ stage'[q] \in {"marking", "noticing"} /\ q \notin blurred' => ~(q \in spoken' /\ ending'[q] = "success")
               /\ q \notin disturbed' /\ ClearOnFinish =>
                    /\ stage'[q] \in {"idle", "running", "marking"} => marks'[q] = IF acknowledged'[q] THEN {"tick"} ELSE {"start"}
                    /\ q \in early' \ blurred' /\ stage'[q] \in {"noticing", "over"} =>
                         marks'[q] = IF q \in spoken' /\ ending'[q] = "success" THEN {"tick"} ELSE {"error"}
    <3>1. CASE q = r
      BY <1>0, <1>1, <1>4, <2>2, <2>3, <2>4, <3>1
    <3>2. CASE q # r
      BY <1>0, <1>1, <1>4, <2>1, <3>2 DEF MarksFollow
    <3>3. QED BY <3>1, <3>2
  <2>6. QED BY <2>5 DEF MarksFollow
<1>14. QED BY <1>6, <1>7, <1>8, <1>10, <1>11, <1>12, <1>13 DEF OutboundInv

LEMMA ReactsTo ==
  ASSUME OutboundType, NEW r \in Run, NEW gone, NEW new \in {"tick", "error"}, faults' \in Nat,
         \/ marks' = [marks EXCEPT ![r] = (@ \ gone) \cup {new}] /\ disturbed' = disturbed
         \/ /\ \E left \in {marks[r] \ gone, marks[r] \cup {new}} : marks' = [marks EXCEPT ![r] = left]
            /\ disturbed' = disturbed \cup {r}
  PROVE  /\ marks' \in [Run -> SUBSET {"start", "tick", "error"}] /\ faults' \in Nat
         /\ disturbed \subseteq disturbed' /\ disturbed' \subseteq Run
         /\ \A q \in Run : q # r => marks'[q] = marks[q]
         /\ r \notin disturbed' => marks'[r] = (marks[r] \ gone) \cup {new}
<1>1. CASE marks' = [marks EXCEPT ![r] = (@ \ gone) \cup {new}] /\ disturbed' = disturbed
  BY <1>1 DEF OutboundType
<1>2. CASE /\ \E left \in {marks[r] \ gone, marks[r] \cup {new}} : marks' = [marks EXCEPT ![r] = left]
           /\ disturbed' = disturbed \cup {r}
  <2>1. PICK left \in {marks[r] \ gone, marks[r] \cup {new}} : marks' = [marks EXCEPT ![r] = left]
    BY <1>2
  <2>2. left \in SUBSET {"start", "tick", "error"}
    BY DEF OutboundType
  <2>3. QED BY <1>2, <2>1, <2>2 DEF OutboundType
<1>3. QED BY <1>1, <1>2

LEMMA AcknowledgeKeeps ==
  ASSUME OutboundAssumption, OutboundInv, NEW r \in Run, NEW ok \in BOOLEAN, Acknowledge(r, ok)
  PROVE  OutboundInv'
<1>0. /\ stage' = stage /\ ending' = ending /\ auditTurns' = auditTurns /\ empties' = empties
      /\ sends' = sends /\ spoken' = spoken /\ blurred' = blurred /\ early' = early
      /\ OutboundType /\ Nobody \notin Run /\ ~acknowledged[r]
  BY DEF Acknowledge, OutboundInv, OutboundAssumption
<1>1. /\ acknowledged' \in [Run -> BOOLEAN] /\ acknowledged'[r]
      /\ \A q \in Run : q # r => acknowledged'[q] = acknowledged[q]
  BY <1>0 DEF Acknowledge, OutboundType
<1>2. /\ marks' \in [Run -> SUBSET {"start", "tick", "error"}] /\ faults' \in Nat
      /\ disturbed \subseteq disturbed' /\ disturbed' \subseteq Run
      /\ \A q \in Run : q # r => marks'[q] = marks[q]
      /\ r \notin disturbed' => marks'[r] = (marks[r] \ Cleared({"start"})) \cup {"tick"}
  <2>1. PICK gone : gone = Cleared({"start"})
    OBVIOUS
  <2>2. PICK new \in {"tick", "error"} : new = "tick"
    OBVIOUS
  <2>3. faults' \in Nat
    BY <1>0 DEF Acknowledge, Reacts, Outcome, OutboundType
  <2>r. \/ marks' = [marks EXCEPT ![r] = (@ \ gone) \cup {new}] /\ disturbed' = disturbed
        \/ /\ \E left \in {marks[r] \ gone, marks[r] \cup {new}} : marks' = [marks EXCEPT ![r] = left]
           /\ disturbed' = disturbed \cup {r}
    BY <2>1, <2>2 DEF Acknowledge, Reacts
  <2>4. /\ marks' \in [Run -> SUBSET {"start", "tick", "error"}] /\ faults' \in Nat
        /\ disturbed \subseteq disturbed' /\ disturbed' \subseteq Run
        /\ \A q \in Run : q # r => marks'[q] = marks[q]
        /\ r \notin disturbed' => marks'[r] = (marks[r] \ gone) \cup {new}
    BY <1>0, <2>3, <2>r, ReactsTo
  <2>5. QED BY <2>1, <2>2, <2>4
<1>3. StagesGoOn
  BY <1>0 DEF StagesGoOn
<1>4. /\ sends' \in Seq(SendRecord) /\ SendsAreSound' /\ SendsBelong'
      /\ \A q : NoticesOf(q)' = NoticesOf(q)
  BY <1>0, <1>3, SendsStay
<1>5. OutboundType'
  BY <1>0, <1>1, <1>2 DEF OutboundType
<1>6. TurnIsNoted' /\ KeyIsOfOne' /\ LineIsRight'
  BY <1>0 DEF TurnIsNoted, KeyIsOfOne, LineIsRight, OutboundInv
<1>7. NoticesAreCounted'
  BY <1>0, <1>4 DEF NoticesAreCounted, OutboundInv
<1>8. MarksFollow'
  <2>1. MarksFollow
    BY DEF OutboundInv
  <2>2. r \notin early
    BY <1>0, <2>1 DEF MarksFollow
  <2>3. r \notin disturbed' /\ ClearOnFinish /\ stage[r] \in {"idle", "running", "marking"} => marks'[r] = {"tick"}
    BY <1>0, <1>2, <2>1 DEF MarksFollow, Cleared
  <2>4. ASSUME NEW q \in Run
        PROVE  /\ q \in early' => acknowledged'[q] /\ stage'[q] \notin {"idle", "running"}
               /\ stage'[q] \in {"marking", "noticing"} /\ q \notin blurred' => ~(q \in spoken' /\ ending'[q] = "success")
               /\ q \notin disturbed' /\ ClearOnFinish =>
                    /\ stage'[q] \in {"idle", "running", "marking"} => marks'[q] = IF acknowledged'[q] THEN {"tick"} ELSE {"start"}
                    /\ q \in early' \ blurred' /\ stage'[q] \in {"noticing", "over"} =>
                         marks'[q] = IF q \in spoken' /\ ending'[q] = "success" THEN {"tick"} ELSE {"error"}
    <3>1. CASE q = r
      <4>1. stage[q] \in {"marking", "noticing"} /\ q \notin blurred => ~(q \in spoken /\ ending[q] = "success")
        BY <2>1 DEF MarksFollow
      <4>2. QED BY <1>0, <1>1, <2>2, <2>3, <3>1, <4>1
    <3>2. CASE q # r
      BY <1>0, <1>1, <1>2, <2>1, <3>2 DEF MarksFollow
    <3>3. QED BY <3>1, <3>2
  <2>5. QED BY <2>4 DEF MarksFollow
<1>9. QED BY <1>4, <1>5, <1>6, <1>7, <1>8 DEF OutboundInv

LEMMA ErrorKeeps ==
  ASSUME OutboundAssumption, OutboundInv, NEW r \in Run, NEW ok \in BOOLEAN, ErrorReaction(r, ok)
  PROVE  OutboundInv'
<1>0. /\ ending' = ending /\ auditTurns' = auditTurns /\ empties' = empties /\ acknowledged' = acknowledged
      /\ sends' = sends /\ spoken' = spoken /\ blurred' = blurred /\ early' = early
      /\ OutboundType /\ Nobody \notin Run /\ stage[r] = "marking"
  BY DEF ErrorReaction, OutboundInv, OutboundAssumption
<1>1. /\ stage' \in [Run -> Stages] /\ stage'[r] = (IF empties[r] = 0 THEN "over" ELSE "noticing")
      /\ \A q \in Run : q # r => stage'[q] = stage[q]
  BY <1>0 DEF ErrorReaction, AfterMark, OutboundType, Stages
<1>2. /\ marks' \in [Run -> SUBSET {"start", "tick", "error"}] /\ faults' \in Nat
      /\ disturbed \subseteq disturbed' /\ disturbed' \subseteq Run
      /\ \A q \in Run : q # r => marks'[q] = marks[q]
      /\ r \notin disturbed' => marks'[r] = (marks[r] \ Cleared({"start", "tick"})) \cup {"error"}
  <2>1. PICK gone : gone = Cleared({"start", "tick"})
    OBVIOUS
  <2>2. PICK new \in {"tick", "error"} : new = "error"
    OBVIOUS
  <2>3. faults' \in Nat
    BY <1>0 DEF ErrorReaction, Reacts, Outcome, OutboundType
  <2>r. \/ marks' = [marks EXCEPT ![r] = (@ \ gone) \cup {new}] /\ disturbed' = disturbed
        \/ /\ \E left \in {marks[r] \ gone, marks[r] \cup {new}} : marks' = [marks EXCEPT ![r] = left]
           /\ disturbed' = disturbed \cup {r}
    BY <2>1, <2>2 DEF ErrorReaction, Reacts
  <2>4. /\ marks' \in [Run -> SUBSET {"start", "tick", "error"}] /\ faults' \in Nat
        /\ disturbed \subseteq disturbed' /\ disturbed' \subseteq Run
        /\ \A q \in Run : q # r => marks'[q] = marks[q]
        /\ r \notin disturbed' => marks'[r] = (marks[r] \ gone) \cup {new}
    BY <1>0, <2>3, <2>r, ReactsTo
  <2>5. QED BY <2>1, <2>2, <2>4
<1>3. StagesGoOn
  BY <1>0, <1>1 DEF StagesGoOn
<1>4. /\ sends' \in Seq(SendRecord) /\ SendsAreSound' /\ SendsBelong'
      /\ \A q : NoticesOf(q)' = NoticesOf(q)
  BY <1>0, <1>3, SendsStay
<1>5. OutboundType'
  BY <1>0, <1>1, <1>2 DEF OutboundType, Stages
<1>6. empties[r] \in {0, 1} /\ stage'[r] \notin {"idle", "running", "marking"}
  BY <1>0, <1>1 DEF OutboundType
<1>7. TurnIsNoted' /\ KeyIsOfOne'
  <2>1. TurnIsNoted /\ KeyIsOfOne
    BY DEF OutboundInv
  <2>2. \A q \in Run : stage'[q] = "running" => stage[q] = "running"
    BY <1>1, <1>6
  <2>3. KeyIsOfOne'
    BY <1>0, <2>1, <2>2 DEF KeyIsOfOne
  <2>4. TurnIsNoted'
    BY <1>0, <2>1, <2>2 DEF TurnIsNoted
  <2>5. QED BY <2>3, <2>4
<1>8. LineIsRight'
  <2>1. LineIsRight
    BY DEF OutboundInv
  <2>2. QED BY <1>0, <1>1, <1>6, <2>1 DEF LineIsRight
<1>9. NoticesAreCounted'
  <2>1. NoticesAreCounted
    BY DEF OutboundInv
  <2>2. NoticesOf(r) = {} /\ ~(stage'[r] = "over" /\ empties[r] = 1)
    BY <1>0, <1>1, <2>1 DEF NoticesAreCounted
  <2>3. QED BY <1>0, <1>1, <1>4, <2>1, <2>2 DEF NoticesAreCounted
<1>10. MarksFollow'
  <2>1. MarksFollow
    BY DEF OutboundInv
  <2>2. r \notin disturbed' /\ ClearOnFinish => marks'[r] = {"error"}
    BY <1>0, <1>2, <2>1 DEF MarksFollow, Cleared
  <2>3. /\ r \in early => acknowledged[r]
        /\ r \notin blurred => ~(r \in spoken /\ ending[r] = "success")
    BY <1>0, <2>1 DEF MarksFollow
  <2>4. ASSUME NEW q \in Run
        PROVE  /\ q \in early' => acknowledged'[q] /\ stage'[q] \notin {"idle", "running"}
               /\ stage'[q] \in {"marking", "noticing"} /\ q \notin blurred' => ~(q \in spoken' /\ ending'[q] = "success")
               /\ q \notin disturbed' /\ ClearOnFinish =>
                    /\ stage'[q] \in {"idle", "running", "marking"} => marks'[q] = IF acknowledged'[q] THEN {"tick"} ELSE {"start"}
                    /\ q \in early' \ blurred' /\ stage'[q] \in {"noticing", "over"} =>
                         marks'[q] = IF q \in spoken' /\ ending'[q] = "success" THEN {"tick"} ELSE {"error"}
    <3>1. CASE q = r
      BY <1>0, <1>1, <1>6, <2>2, <2>3, <3>1
    <3>2. CASE q # r
      BY <1>0, <1>1, <1>2, <2>1, <3>2 DEF MarksFollow
    <3>3. QED BY <3>1, <3>2
  <2>5. QED BY <2>4 DEF MarksFollow
<1>11. QED BY <1>4, <1>5, <1>7, <1>8, <1>9, <1>10 DEF OutboundInv

LEMMA OutboundStarts ==
  ASSUME OutboundAssumption, OutboundInit
  PROVE  OutboundInv
<1>1. PICK none \in Seq(SendRecord) : none = sends /\ Len(none) = 0
  BY EmptySeq DEF OutboundInit
<1>2. Len(sends) = 0 /\ DOMAIN sends = 1..0 /\ \A i \in 1..Len(sends) : FALSE
  BY <1>1
<1>3. OutboundType
  BY <1>1 DEF OutboundType, OutboundInit
<1>4. SendsAreSound /\ SendsBelong
  BY <1>2 DEF SendsAreSound, SendsBelong, OutboundInit
<1>5. TurnIsNoted /\ KeyIsOfOne /\ LineIsRight /\ MarksFollow
  BY DEF TurnIsNoted, KeyIsOfOne, LineIsRight, MarksFollow, OutboundInit
<1>6. NoticesAreCounted
  BY <1>2 DEF NoticesAreCounted, NoticesOf, OutboundInit
<1>7. QED BY <1>3, <1>4, <1>5, <1>6 DEF OutboundInv

LEMMA OutboundSteps ==
  ASSUME OutboundAssumption, OutboundInv, OutboundNext
  PROVE  OutboundInv'
<1>0. OutboundType /\ SendsAreSound
  BY DEF OutboundInv
<1>1. CASE \E r \in Run : Arm(r)
  BY <1>1, ArmKeeps
<1>2. CASE \E r \in Run, o \in {"success", "failure"} : Complete(r, o)
  BY <1>2, CompleteKeeps
<1>3. CASE \E r \in Run, ok \in BOOLEAN : Acknowledge(r, ok)
  BY <1>3, AcknowledgeKeeps
<1>4. CASE \E r \in Run, ok \in BOOLEAN : ErrorReaction(r, ok)
  BY <1>4, ErrorKeeps
<1>5. CASE \E r \in Run, text \in Notices : Notice(r, text)
  <2>1. PICK r \in Run, text \in Notices : Notice(r, text)
    BY <1>5
  <2>2. sends' \in Seq(SendRecord) /\ SendsAreSound'
    BY <1>0, <2>1, NoticeBegins
  <2>3. PICK s \in SendRecord, j \in Nat : SendStep(j, s) /\ Begins(j, s) /\ s.by = r /\ s.key = KeyOf[r] /\ ~s.reply
    BY <1>0, <2>1, NoticeBegins
  <2>4. stage[r] = "noticing" /\ stage' = [stage EXCEPT ![r] = "over"] /\ spoken' = spoken
    BY <2>1 DEF Notice
  <2>5. QED BY <2>2, <2>3, <2>4, NoticeKeeps
<1>6. CASE \E r \in Run \cup {Nobody}, k \in Key, c \in Replies : Send(r, k, c)
  <2>1. PICK r \in Run \cup {Nobody}, k \in Key, c \in Replies : Send(r, k, c)
    BY <1>6
  <2>2. /\ sends' \in Seq(SendRecord) /\ SendsAreSound'
        /\ \E s \in SendRecord, j \in Nat :
             SendStep(j, s) /\ Begins(j, s) /\ s.by = r /\ s.key = k /\ s.reply
    BY <1>0, <2>1, SendBegins
  <2>3. PICK s \in SendRecord, j \in Nat : SendStep(j, s) /\ Begins(j, s) /\ s.by = r /\ s.key = k /\ s.reply
    BY <2>2
  <2>4. /\ stage' = stage /\ (s.by # Nobody => stage[s.by] = "running" /\ KeyOf[s.by] = s.key)
        /\ spoken' = IF s.by = Nobody THEN spoken ELSE spoken \cup {s.by}
    BY <2>1, <2>3 DEF Send
  <2>5. QED BY <2>2, <2>3, <2>4, ReplyKeeps
<1>7. CASE \E r \in Run, c \in Replies : SendFile(r, c)
  <2>1. PICK r \in Run, c \in Replies : SendFile(r, c)
    BY <1>7
  <2>2. sends' \in Seq(SendRecord) /\ SendsAreSound'
    BY <1>0, <2>1, SendFileBegins
  <2>3. PICK s \in SendRecord, j \in Nat : SendStep(j, s) /\ Begins(j, s) /\ s.by = r /\ s.key = KeyOf[r] /\ s.reply
    BY <1>0, <2>1, SendFileBegins
  <2>4. /\ stage' = stage /\ stage[s.by] = "running" /\ KeyOf[s.by] = s.key /\ s.by # Nobody
        /\ spoken' = spoken \cup {s.by}
    BY <2>1, <2>3 DEF SendFile, OutboundAssumption
  <2>5. QED BY <2>2, <2>3, <2>4, ReplyKeeps
<1>8. CASE \E i \in DOMAIN sends : Calls(i)
  <2>1. PICK i \in DOMAIN sends : Calls(i)
    BY <1>8
  <2>2. QED BY <1>0, <2>1, CallGoesOn, GoesOnKeeps
<1>9. CASE \E i \in DOMAIN sends, ok \in BOOLEAN : FileDone(i, ok) \/ UploadDone(i, ok)
  <2>1. PICK i \in DOMAIN sends, ok \in BOOLEAN : FileDone(i, ok) \/ UploadDone(i, ok)
    BY <1>9
  <2>2. QED BY <1>0, <2>1, FileGoesOn, GoesOnKeeps
<1>10. CASE \E i \in DOMAIN sends, lands \in BOOLEAN, ok \in BOOLEAN : Answered(i, lands, ok)
  <2>1. PICK i \in DOMAIN sends, lands \in BOOLEAN, ok \in BOOLEAN : Answered(i, lands, ok)
    BY <1>10
  <2>2. QED BY <1>0, <2>1, AnswerGoesOn, GoesOnKeeps
<1>11. CASE \E i \in DOMAIN sends, ok \in BOOLEAN : Render(i, ok)
  <2>1. PICK i \in DOMAIN sends, ok \in BOOLEAN : Render(i, ok)
    BY <1>11
  <2>2. QED BY <1>0, <2>1, RenderGoesOn, GoesOnKeeps
<1>12. \A r \in Run : KeyOf[r] \in Key
  BY DEF OutboundAssumption
<1>13. QED BY <1>1, <1>2, <1>3, <1>4, <1>5, <1>6, <1>7, <1>8, <1>9, <1>10, <1>11, <1>12 DEF OutboundNext

LEMMA OutboundStutters ==
  ASSUME OutboundInv, UNCHANGED outboundVars
  PROVE  OutboundInv'
<1>1. /\ stage' = stage /\ ending' = ending /\ auditTurns' = auditTurns /\ empties' = empties
      /\ acknowledged' = acknowledged /\ marks' = marks /\ sends' = sends /\ spoken' = spoken
      /\ blurred' = blurred /\ early' = early /\ disturbed' = disturbed /\ faults' = faults
  BY DEF outboundVars
<1>2. OutboundType'
  BY <1>1 DEF OutboundInv, OutboundType
<1>3. SendsAreSound'
  BY <1>1 DEF OutboundInv, SendsAreSound
<1>4. SendsBelong' /\ TurnIsNoted' /\ KeyIsOfOne'
  BY <1>1 DEF OutboundInv, SendsBelong, TurnIsNoted, KeyIsOfOne
<1>5. LineIsRight'
  BY <1>1 DEF OutboundInv, LineIsRight
<1>6. NoticesAreCounted'
  BY <1>1 DEF OutboundInv, NoticesAreCounted, NoticesOf
<1>7. MarksFollow'
  BY <1>1 DEF OutboundInv, MarksFollow
<1> QED
  BY <1>2, <1>3, <1>4, <1>5, <1>6, <1>7 DEF OutboundInv

\* Every send is whole, or refused, or short of what a failed post lost; the audit
\* entry of a run, its line, its notice and its reactions agree.
THEOREM OutboundIsInvariant == OutboundSpec => []OutboundInv
<1>1. OutboundInit => OutboundInv
  BY OutboundAssumption, OutboundStarts
<1>2. OutboundInv /\ [OutboundNext]_outboundVars => OutboundInv'
  BY OutboundAssumption, OutboundSteps, OutboundStutters
<1>3. QED BY <1>1, <1>2, PTL DEF OutboundSpec

\* While nobody else uses its key, a run gets one deliver_empty line and one notice
\* when it sent nothing, and neither when it tried to send (_report_run_end).
THEOREM SilentRunsAreReported == OutboundSpec => []SilenceIsReported
<1>1. OutboundInv => SilenceIsReported
  <2> SUFFICES ASSUME OutboundInv, NEW r \in Run \ blurred, stage[r] \notin {"idle", "running"}
               PROVE  /\ empties[r] = IF r \in spoken THEN 0 ELSE 1
                      /\ Cardinality(NoticesOf(r)) = IF stage[r] = "over" THEN empties[r] ELSE 0
    BY DEF SilenceIsReported
  <2>1. empties[r] = IF r \in spoken THEN 0 ELSE 1
    BY DEF OutboundInv, LineIsRight
  <2>2. IF stage[r] = "over" /\ empties[r] = 1 THEN \E i \in 1..Len(sends) : NoticesOf(r) = {i}
        ELSE NoticesOf(r) = {}
    BY DEF OutboundInv, NoticesAreCounted
  <2>3. CASE stage[r] = "over" /\ empties[r] = 1
    <3>1. PICK i : NoticesOf(r) = {i}
      BY <2>2, <2>3
    <3>2. Cardinality({i}) = 1
      BY FS_Singleton
    <3>3. QED BY <2>1, <2>3, <3>1, <3>2
  <2>4. CASE ~(stage[r] = "over" /\ empties[r] = 1)
    BY <2>1, <2>2, <2>4, FS_EmptySet
  <2>5. QED BY <2>3, <2>4
<1>2. QED BY <1>1, OutboundIsInvariant, PTL

\* A run that ended after its dispatch was acknowledged shows the tick alone when it
\* answered and did not fail, the error alone otherwise (ReactionLifecycle).
THEOREM TheEndIsShown == OutboundSpec => []StatusTellsTheEnd
<1>1. OutboundInv => StatusTellsTheEnd
  BY DEF OutboundInv, OutboundType, MarksFollow, StatusTellsTheEnd
<1>2. QED BY <1>1, OutboundIsInvariant, PTL

\* When every post arrived, the messages of a send without their prefixes are its text
\* with its links and refs, up to the cap, and each is a chunk that fits behind the
\* prefix, or empty (send, truncate_text, chunk_text, send_single).
THEOREM WholeRepliesArrive == OutboundSpec => []RepliesArriveWhole
<1>1. OutboundInv => RepliesArriveWhole
  <2> SUFFICES ASSUME OutboundInv, NEW i \in DOMAIN sends, sends[i].at = "done"
               PROVE  LET s == sends[i] IN
                      /\ \A c \in DOMAIN s.shown :
                           s.shown[c] # <<>> => IsPrefix(Prefix, s.shown[c]) /\ Len(Unprefixed(s.shown[c])) <= ChunkLimit
                      /\ ~s.lost => LET read == FlattenSeq([c \in DOMAIN s.shown |-> Unprefixed(s.shown[c])])
                                        whole == Said(s) IN
                         IF MaxLength = 0 \/ Len(whole) <= MaxLength THEN Ink(read) = Ink(whole)
                         ELSE /\ Len(read) <= MaxLength
                              /\ IsPrefix(Without(read, Blank \cup {Marker}), Without(whole, Blank \cup {Marker}))
    BY DEF RepliesArriveWhole
  <2>1. PICK s \in SendRecord : s = sends[i] /\ Sound(s) /\ s.at = "done"
    BY DEF OutboundInv, OutboundType, SendsAreSound
  <2>2. ASSUME NEW c \in DOMAIN s.shown, s.shown[c] # <<>>
        PROVE  IsPrefix(Prefix, s.shown[c]) /\ Len(Unprefixed(s.shown[c])) <= ChunkLimit
    <3>1. PICK m \in Posted : m = s.shown[c]
      BY DEF SendRecord
    <3>2. Unprefixed(m) \in Piece /\ IsPrefix(Prefix, m)
      BY <2>2, <3>1, OutboundAssumption, PostedIsBare
    <3>3. QED BY <3>1, <3>2 DEF Piece
  <2>3. ASSUME ~s.lost
        PROVE  LET read == FlattenSeq([c \in DOMAIN s.shown |-> Unprefixed(s.shown[c])])
                   whole == Said(s) IN
               IF MaxLength = 0 \/ Len(whole) <= MaxLength THEN Ink(read) = Ink(whole)
               ELSE /\ Len(read) <= MaxLength
                    /\ IsPrefix(Without(read, Blank \cup {Marker}), Without(whole, Blank \cup {Marker}))
    <3>1. Bare(s.shown) = Parts(s)
      <4>1. Bare(s.shown) \o s.left = Parts(s) /\ s.left = <<>> /\ s.shown \in Seq(Posted)
        BY <2>1, <2>3 DEF Sound, Cut, SendRecord
      <4>2. Bare(s.shown) \in Seq(Piece)
        BY <4>1, OutboundAssumption, BareType
      <4>3. QED BY <4>1, <4>2, ConcatEmptySeq
    <3>2. [c \in DOMAIN s.shown |-> Unprefixed(s.shown[c])] = Bare(s.shown)
      <4>1. DOMAIN s.shown = 1..Len(s.shown)
        BY DEF SendRecord
      <4>2. QED BY <4>1 DEF Bare
    <3>3. PICK whole \in Seq(Nat) : whole = Said(s)
      BY OutboundAssumption, SaidIsSpelt
    <3>4. {Newline, Marker} \subseteq Nat
      BY DEF Newline, Marker
    <3>5. PICK read \in Seq(Nat) : /\ read = FlattenSeq(Parts(s)) /\ Len(read) <= Len(Whole(s))
                                   /\ \A B : Blank \subseteq B => Without(read, B) = Without(Whole(s), B)
      BY <3>3, <3>4, OutboundAssumption, PartsFit
    <3>6. MaxLength \in Nat /\ MarkerLength \in Nat
      BY OutboundAssumption DEF OutboundAssumption
    <3>7. PICK B : B = Blank \cup {Marker}
      OBVIOUS
    <3>8. Marker \in Nat /\ Marker \in B /\ Blank \subseteq B
      BY <3>4, <3>7
    <3>9. PICK t : t = Truncated(whole, MaxLength, MarkerLength)
      OBVIOUS
    <3>10. PICK capped \in Seq(Nat) :
            /\ capped = Whole(s)
            /\ MaxLength = 0 \/ Len(whole) <= MaxLength => capped = whole
            /\ ~(MaxLength = 0 \/ Len(whole) <= MaxLength) =>
                 Len(capped) <= MaxLength /\ IsPrefix(Without(capped, B), Without(whole, B))
      <4>1. t \in Seq(Nat)
        BY <3>6, <3>8, <3>9, CappedIsPrefix
      <4>2. MaxLength = 0 \/ Len(whole) <= MaxLength => t = whole
        BY <3>6, <3>8, <3>9, CappedIsPrefix
      <4>3. ~(MaxLength = 0 \/ Len(whole) <= MaxLength) =>
              Len(t) <= MaxLength /\ IsPrefix(Without(t, B), Without(whole, B))
        BY <3>6, <3>8, <3>9, CappedIsPrefix
      <4>4. t = Whole(s)
        BY <3>3, <3>9 DEF Whole
      <4>5. QED BY <4>1, <4>2, <4>3, <4>4
    <3>11. IF MaxLength = 0 \/ Len(whole) <= MaxLength THEN Ink(read) = Ink(whole)
           ELSE Len(read) <= MaxLength /\ IsPrefix(Without(read, B), Without(whole, B))
      <4>1. CASE MaxLength = 0 \/ Len(whole) <= MaxLength
        <5>1. Without(read, Blank) = Without(whole, Blank)
          BY <3>5, <3>10, <4>1
        <5>2. QED BY <4>1, <5>1 DEF Ink
      <4>2. CASE ~(MaxLength = 0 \/ Len(whole) <= MaxLength)
        <5>1. Without(read, B) = Without(capped, B)
          BY <3>5, <3>8, <3>10
        <5>2. Len(read) \in Nat /\ Len(capped) \in Nat /\ Len(read) <= MaxLength
          BY <3>5, <3>6, <3>10, <4>2
        <5>3. IsPrefix(Without(read, B), Without(whole, B))
          BY <3>10, <4>2, <5>1
        <5>4. QED BY <4>2, <5>2, <5>3
      <4>3. QED BY <4>1, <4>2
    <3>12. read = FlattenSeq([c \in DOMAIN s.shown |-> Unprefixed(s.shown[c])])
      BY <3>1, <3>2, <3>5
    <3>13. QED BY <3>3, <3>7, <3>11, <3>12
  <2>4. QED BY <2>1, <2>2, <2>3
<1>2. QED BY <1>1, OutboundIsInvariant, PTL

\* What was posted is of a text without a known secret and shows one only if a link,
\* a ref or the prefix brought it after the guard; what is refused has shown nothing
\* and, but for a caption, uploaded nothing (send: the guard comes before the uploads).
THEOREM RefusedIsUnsaid == OutboundSpec => []RefusalsLeaveNothing
<1>1. OutboundInv => RefusalsLeaveNothing
  <2> SUFFICES ASSUME OutboundInv, NEW i \in DOMAIN sends
               PROVE  LET s == sends[i] IN
                      /\ s.at = "refused" => s.shown = <<>> /\ (~s.wrapped => s.stored = <<>>)
                      /\ s.shown # <<>> => ~Leaks(s.text)
                      /\ \A c \in DOMAIN s.shown : Leaks(s.shown[c]) => LeaksLater(s)
    BY DEF RefusalsLeaveNothing
  <2>1. PICK s \in SendRecord : s = sends[i] /\ Sound(s)
    BY DEF OutboundInv, OutboundType, SendsAreSound
  <2>2. ASSUME s.shown # <<>> PROVE s.at \in Cut /\ ~Leaks(s.text)
    <3>1. s.at \notin {"guard", "file", "upload", "render", "refused"}
      BY <2>1, <2>2 DEF Sound
    <3>2. s.at \in Cut
      BY <3>1 DEF SendRecord, Cut
    <3>3. QED BY <2>1, <3>2 DEF Sound
  <2>3. ASSUME NEW c \in DOMAIN s.shown, ~LeaksLater(s) PROVE ~Leaks(s.shown[c])
    <3>1. PICK q \in Seq(Posted) : q = s.shown
      BY DEF SendRecord
    <3>2. q # <<>> /\ c \in 1..Len(q)
      BY <2>3, <3>1
    <3>3. q \in Seq(Seq(Clean))
      BY <2>1, <2>2, <2>3, <3>1, <3>2 DEF Sound, KeepsSecrets
    <3>4. q[c] \in Seq(Clean)
      BY <3>2, <3>3
    <3>5. QED BY <3>1, <3>4, CleanTextsLeakNot
  <2>4. s.at = "refused" => s.shown = <<>> /\ (~s.wrapped => s.stored = <<>>)
    BY <2>1 DEF Sound
  <2>5. QED BY <2>1, <2>2, <2>3, <2>4
<1>2. QED BY <1>1, OutboundIsInvariant, PTL

=============================================================================
