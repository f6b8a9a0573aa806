----------------------------- MODULE TurnOrder ------------------------------
(***************************************************************************)
(* What the per-session queue promises: one waiting line per session.  A   *)
(* turn is served at once when nobody of its session is in line, stands at *)
(* the end of the line otherwise, and the line is served from its head.    *)
(***************************************************************************)
EXTENDS Sequences

CONSTANTS Session, Msg, SessionOf, Slash

VARIABLES line, standing

orderVars == <<line, standing>>

OrderInit ==
  /\ line = [s \in Session |-> <<>>]
  /\ standing = [m \in Msg |-> "new"]

ServeNow(m) ==
  /\ standing[m] = "new"
  /\ m \in Slash \/ line[SessionOf[m]] = <<>>
  /\ standing' = [standing EXCEPT ![m] = "served"]
  /\ UNCHANGED line

StandInLine(m) ==
  /\ standing[m] = "new"
  /\ m \notin Slash
  /\ line' = [line EXCEPT ![SessionOf[m]] = Append(@, m)]
  /\ standing' = [standing EXCEPT ![m] = "waiting"]

ServeHead(s) ==
  /\ line[s] # <<>>
  /\ standing' = [standing EXCEPT ![Head(line[s])] = "served"]
  /\ line' = [line EXCEPT ![s] = Tail(@)]

OrderNext ==
  \/ \E m \in Msg : ServeNow(m) \/ StandInLine(m)
  \/ \E s \in Session : ServeHead(s)

SafeSpec == OrderInit /\ [][OrderNext]_orderVars

Spec == SafeSpec /\ \A s \in Session : WF_orderVars(ServeHead(s))

=============================================================================
