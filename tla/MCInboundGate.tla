---------------------------- MODULE MCInboundGate ----------------------------
(* Instances of InboundGate and of ReactionTriggers for TLC.  A reaction comes *)
(* to the gates as one of the messages below; besides that the two share       *)
(* nothing, and are explored side by side, one of them at rest.                *)
EXTENDS InboundGate, ReactionTriggers, TLC

CONSTANTS h1, h2, b1, me, t1, t2, dm, r1, r2

Base == [engage |-> TRUE, scope |-> "user", addressOnly |-> TRUE, soft |-> FALSE,
         observe |-> "room", group |-> {h1, h2, b1}, dm |-> {h1}]

MCInit == Init /\ TriggerInit

\* Either the gates run or the triggers do; the triggers under one setting of the gates.
MCNext ==
  \/ TriggerInit /\ Next /\ UNCHANGED triggerVars
  \/ Init /\ setting = Base /\ TriggerNext /\ UNCHANGED vars

MCSpec == MCInit /\ [][MCNext]_<<vars, triggerVars>>

\* Sticky engagement per topic with conversation memory, and per user with room memory.
MCSetting == {Base, [Base EXCEPT !.scope = "topic", !.observe = "conversation", !.group = {h1, b1}]}

\* What may be posted.
MCIncoming ==
  [user : {h1, h2}, place : {t1}, kind : {"mention", "plain"}]
    \cup [user : {h1}, place : {t1}, kind : {"stop", "command"}]
    \cup [user : {h2}, place : {t1}, kind : {"unlisten", "new"}]
    \cup [user : {b1}, place : {t1}, kind : {"mention", "plain"}]
    \cup [user : {h1}, place : {t2}, kind : {"mention", "plain"}]
    \cup [user : {h1, h2}, place : {dm}, kind : {"plain"}]
    \cup [user : {h1}, place : {t1}, kind : {"reaction"}]
    \cup [user : {me}, place : {t1}, kind : {"plain"}]

\* The reactions differ in whose message they are on.
MCOwn == {r1}

=============================================================================
