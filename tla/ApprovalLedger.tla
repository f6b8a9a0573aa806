--------------------------- MODULE ApprovalLedger ---------------------------
(***************************************************************************)
(* Exec approvals (zulip/approval_outcomes.py and its callers in           *)
(* adapter.py): the host asks, decides and reports; each adapter of the    *)
(* process keeps a ledger that joins three things that arrive apart - the  *)
(* host's pre hook, the prompt it rendered and the message of whoever      *)
(* decided - so that the post hook can be audited.  The hooks carry no id: *)
(* the join is by session, oldest first.  The hooks also fire for verdicts *)
(* that the host's own model gives: the pre hook leaves those out, the     *)
(* post hook cannot tell them from the others.                             *)
(*                                                                         *)
(* Hooks run on agent threads, decisions on the event loop.  A prompt's    *)
(* post hook is a step of its own, after the host has settled the prompt.  *)
(***************************************************************************)
EXTENDS Naturals, Sequences, FiniteSets

CONSTANTS
  Adapter,
  Profile(_),    \* the profile an adapter belongs to
  Session,
  HomeOf(_),     \* the profile of a session, or another platform
  RouteOf(_),    \* the chat and topic of a session; sessions may share one
  User,
  NoUser,
  Owner,         \* the bot's owner
  Ends,          \* how the host ends a prompt that nobody decided
  MaxPending,    \* MAX_PENDING_PER_SESSION
  MaxPrompts,    \* how many prompts there are
  MaxDecisions,  \* how many messages decide or try to
  MaxComings,    \* how often adapters come and go
  MaxDrops       \* how many outcomes fail to be written down

ASSUME LedgerAssumption ==
  /\ MaxPending \in Nat \ {0} /\ MaxPrompts \in Nat /\ MaxDecisions \in Nat /\ MaxComings \in Nat /\ MaxDrops \in Nat
  /\ Owner \in User /\ NoUser \notin User
  /\ Ends \subseteq {"timeout", "cancelled", "notify_failed"}
  /\ {"none", "person", "unknown", "timeout", "cancelled", "notify_failed", "policy"} \cap User = {}

\* The gateway asks a person; the smart surface gives the host's own verdict.  One
\* that escalates fires the pre hook only, which leaves it out.
Surface == {"gateway", "smart"}
Prompt == 1..MaxPrompts
Route == {RouteOf(s) : s \in Session}
Alias == {"key"} \X Session \cup {"route"} \X Route

VARIABLES
  ownerOnly, \* is ZULIP_APPROVAL_AUTHORITY "owner"?
  live,      \* _LIVE_ADAPTERS: adapters built and not yet collected
  asked,     \* prompts the host has asked so far
  prompt,    \* each prompt's [session, surface, phase, kind, by, drawn]
  pending,   \* _pending: each ledger's requests by session, oldest first
  routes,    \* _routes: sessions whose prompt the adapter rendered
  deciders,  \* _deciders: who, by alias
  letters,   \* decisions that passed the gate, on their way to the host
  sent,      \* decision messages so far
  comings,
  reports,   \* audited outcomes
  dropped,   \* prompts whose outcome was claimed and not written down
  refused,   \* requests named in an audited refusal: [adapter, id]
  upset,     \* sessions whose join the ledger cannot get right
  contested  \* sessions for which two decisions were on their way at once

vars == <<ownerOnly, live, asked, prompt, pending, routes, deciders, letters, sent, comings,
          reports, dropped, refused, upset, contested>>

AliasesOf(s) == {<<"key", s>>, <<"route", RouteOf(s)>>}

Init ==
  /\ ownerOnly \in BOOLEAN
  /\ live = {} /\ asked = 0
  /\ prompt = <<>>
  /\ pending = [a \in Adapter |-> [s \in Session |-> <<>>]]
  /\ routes = [a \in Adapter |-> {}]
  /\ deciders = [a \in Adapter |-> [x \in Alias |-> NoUser]]
  /\ letters = {} /\ sent = 0 /\ comings = 0
  /\ reports = {} /\ dropped = {} /\ refused = {} /\ upset = {} /\ contested = {}

\* Prompts of a session that a person is asked about.
Open(s) == {p \in 1..asked : /\ prompt[p].session = s /\ prompt[p].surface = "gateway"
                             /\ prompt[p].phase # "done"}
Waiting(s) == {p \in Open(s) : prompt[p].phase = "waiting"}
Eldest(P) == CHOOSE p \in P : \A q \in P : p <= q

-----------------------------------------------------------------------------
(* The two hooks. *)

Last(seq) == SubSeq(seq, IF Len(seq) > MaxPending THEN Len(seq) - MaxPending + 1 ELSE 1, Len(seq))

\* note_request: only the gateway's own prompts are tracked.
Noted(q, p, surface) == IF surface = "gateway" THEN Last(Append(q, p)) ELSE q

NewPrompt(s, surface) ==
  [session |-> s, surface |-> surface, by |-> NoUser, drawn |-> FALSE,
   kind |-> IF surface = "smart" THEN "policy" ELSE "none",
   phase |-> IF surface = "smart" THEN "decided" ELSE "waiting"]

Ours(s) == \E a \in Adapter : Profile(a) = HomeOf(s)

\* The pre hook reaches every adapter, whoever's session it is.
\* A verdict is settled at once, and its post hook follows.
Ask(s, surface) ==
  /\ asked < MaxPrompts /\ live # {}
  /\ Ours(s) => \E a \in live : Profile(a) = HomeOf(s)
  /\ asked' = asked + 1
  /\ prompt' = Append(prompt, NewPrompt(s, surface))
  /\ pending' = [a \in Adapter |-> IF a \in live
                   THEN [pending[a] EXCEPT ![s] = Noted(@, asked + 1, surface)] ELSE pending[a]]
  /\ upset' = IF surface = "gateway" /\ Open(s) # {}
                   /\ (Cardinality(live) > 1 \/ Cardinality(Open(s)) >= MaxPending)
                THEN upset \cup {s} ELSE upset
  /\ UNCHANGED <<ownerOnly, live, routes, deciders, letters, sent, comings, reports, dropped, refused, contested>>

\* send_exec_approval_prompt: the route is recorded before the sends.
Render(a, p) ==
  /\ a \in live /\ p <= asked
  /\ Profile(a) = HomeOf(prompt[p].session)
  /\ prompt[p].phase = "waiting" /\ ~prompt[p].drawn
  /\ prompt' = [prompt EXCEPT ![p].drawn = TRUE]
  /\ routes' = [routes EXCEPT ![a] = @ \cup {prompt[p].session}]
  /\ UNCHANGED <<ownerOnly, live, asked, pending, deciders, letters, sent, comings, reports, dropped, refused, upset, contested>>

\* Slip: whoever holds a request for the session speaks for it.
HoldersOf(s) == {a \in live : pending[a][s] # <<>>}

Owners(s) == {a \in live : s \in routes[a]}

\* Slip: an outcome nobody rendered is nobody's.
OnlyOwners(s) == Owners(s)

\* Whom the post hook may ask: the owners, else the only adapter there is.
Candidates(s) ==
  IF Owners(s) # {} THEN Owners(s) ELSE IF Cardinality(live) = 1 THEN live ELSE {}

\* _take_decider: the session's own record first, then the route's.
Taken(d, s) ==
  IF d[<<"key", s>>] # NoUser THEN <<"key", s>> ELSE <<"route", RouteOf(s)>>

\* _decider_for: the host's word outranks the recorded sender.
DeciderFor(kind, recorded) ==
  CASE kind = "person" -> IF recorded = NoUser THEN "unknown" ELSE recorded
    [] OTHER -> kind

\* Slip: the request is looked at, not taken.
PeekRest(q) == q

RestOf(q) == IF q = <<>> THEN q ELSE Tail(q)

\* What trying the ledger of a does, even if it holds no request: the route
\* and one record of a decider are gone.
Resolve(A, s) ==
  /\ pending' = [a \in Adapter |-> IF a \in A THEN [pending[a] EXCEPT ![s] = RestOf(@)] ELSE pending[a]]
  /\ routes' = [a \in Adapter |-> IF a \in A THEN routes[a] \ {s} ELSE routes[a]]
  /\ deciders' = [a \in Adapter |-> IF a \in A
                    THEN [deciders[a] EXCEPT ![Taken(deciders[a], s)] = NoUser] ELSE deciders[a]]

Report(a, p) ==
  LET s == prompt[p].session IN
  [adapter |-> a, prompt |-> p, id |-> Head(pending[a][s]), crowded |-> Cardinality(live) > 1,
   decider |-> DeciderFor(prompt[p].kind, deciders[a][Taken(deciders[a], s)])]

\* The post hook of p takes another prompt's request, or none of its own.
Strays(p) ==
  LET s == prompt[p].session IN
  \/ Open(s) # {} /\ Eldest(Open(s)) # p
  \/ prompt[p].surface = "gateway" /\ Cardinality(live) > 1 /\ ~prompt[p].drawn

\* _on_post_approval_response: the first candidate that holds a request
\* reports; candidates tried before it held none.  The outcome is dropped where
\* the adapter has no loop to write it on, or the write fails.
PostHook(p) ==
  LET s == prompt[p].session
      holders == {a \in Candidates(s) : pending[a][s] # <<>>} IN
  /\ p <= asked /\ prompt[p].phase = "decided"
  /\ prompt' = [prompt EXCEPT ![p].phase = "done"]
  /\ \/ \E a \in holders, T \in SUBSET (Candidates(s) \ holders) :
          /\ Resolve(T \cup {a}, s)
          /\ \/ reports' = reports \cup {Report(a, p)} /\ UNCHANGED dropped
             \/ Cardinality(dropped) < MaxDrops /\ dropped' = dropped \cup {p} /\ UNCHANGED reports
     \/ holders = {} /\ Resolve(Candidates(s), s) /\ UNCHANGED <<reports, dropped>>
  /\ upset' = IF Strays(p) THEN upset \cup {s} ELSE upset
  /\ UNCHANGED <<ownerOnly, live, asked, letters, sent, comings, refused, contested>>

-----------------------------------------------------------------------------
(* The host settles prompts. *)

\* A timeout, a withdrawal or a failed delivery ends a prompt.
HostEnds(p, kind) ==
  /\ p <= asked /\ prompt[p].phase = "waiting"
  /\ prompt' = [prompt EXCEPT ![p].phase = "decided", ![p].kind = kind]
  /\ UNCHANGED <<ownerOnly, live, asked, pending, routes, deciders, letters, sent, comings, reports, dropped, refused, upset, contested>>

\* A decision reaches the host: the oldest waiting prompt of the session, or
\* with "/approve all" every one; it may come too late for any.
HostDecides(m) ==
  LET W == Waiting(m.session)
      hit == IF W = {} THEN {} ELSE IF m.all THEN W ELSE {Eldest(W)} IN
  /\ m \in letters
  /\ letters' = letters \ {m}
  /\ prompt' = [p \in 1..asked |-> IF p \in hit
                  THEN [prompt[p] EXCEPT !.phase = "decided", !.kind = "person", !.by = m.user]
                  ELSE prompt[p]]
  /\ UNCHANGED <<ownerOnly, live, asked, pending, routes, deciders, sent, comings, reports, dropped, refused, upset, contested>>

\* Someone decides on another platform, where no adapter sees the message.
DecidedElsewhere(p) ==
  /\ p <= asked /\ prompt[p].phase = "waiting"
  /\ ~Ours(prompt[p].session)
  /\ prompt' = [prompt EXCEPT ![p].phase = "decided", ![p].kind = "person"]
  /\ UNCHANGED <<ownerOnly, live, asked, pending, routes, deciders, letters, sent, comings, reports, dropped, refused, upset, contested>>

-----------------------------------------------------------------------------
(* Decisions arrive as messages. *)

\* Decisions of sessions that share a record with s and are not settled yet.
Rivals(s) ==
  LET near == {t \in Session : RouteOf(t) = RouteOf(s)} IN
  {m.session : m \in {x \in letters : x.session \in near}}
    \cup {t \in near : \E p \in Open(t) : prompt[p].phase = "decided" /\ prompt[p].kind = "person"}

\* Slip: a record that is there already stays.
KeepFirst(d, s, u) ==
  [x \in Alias |-> IF x \in AliasesOf(s) /\ d[x] = NoUser THEN u ELSE d[x]]

\* note_decider: under the session and under the route.
NoteDecider(d, s, u) ==
  [x \in Alias |-> IF x \in AliasesOf(s) THEN u ELSE d[x]]

MayDecide(u) == ownerOnly => u = Owner

Sends(a, s) ==
  /\ a \in live /\ Profile(a) = HomeOf(s)
  /\ sent < MaxDecisions /\ sent' = sent + 1

\* gate_approval_decision, accepted.
Accept(a, s, u, all) ==
  /\ Sends(a, s) /\ MayDecide(u)
  /\ deciders' = [deciders EXCEPT ![a] = NoteDecider(@, s, u)]
  /\ letters' = letters \cup {[user |-> u, session |-> s, all |-> all]}
  /\ contested' = IF Rivals(s) # {} THEN contested \cup Rivals(s) \cup {s} ELSE contested
  /\ UNCHANGED <<ownerOnly, live, asked, prompt, pending, routes, comings, reports, dropped, refused, upset>>

\* pending_request_id: the session's oldest, else the oldest of a session
\* whose prompt was rendered into the same route.
PendingIds(a, s) ==
  IF pending[a][s] # <<>> THEN {Head(pending[a][s])}
  ELSE {Head(pending[a][t]) : t \in {t \in routes[a] : RouteOf(t) = RouteOf(s) /\ pending[a][t] # <<>>}}

\* reject_approval_decision: the message is consumed, the prompt stays open.
Refuse(a, s, u) ==
  /\ Sends(a, s) /\ ~MayDecide(u)
  /\ \/ PendingIds(a, s) = {} /\ UNCHANGED refused
     \/ \E id \in PendingIds(a, s) : refused' = refused \cup {[adapter |-> a, id |-> id]}
  /\ UNCHANGED <<ownerOnly, live, asked, prompt, pending, routes, deciders, letters, comings, reports, dropped, upset, contested>>

-----------------------------------------------------------------------------
(* Time, and adapters that come and go. *)

\* Ten minutes, twice the host's own window, in which nothing is open: the
\* records of deciders lapse, and so do requests, which the next note_request
\* of their session drops.
QuietTime ==
  /\ \A s \in Session : Open(s) = {}
  /\ deciders' = [a \in Adapter |-> [x \in Alias |-> NoUser]]
  /\ pending' = [a \in Adapter |-> [s \in Session |-> <<>>]]
  /\ UNCHANGED <<ownerOnly, live, asked, prompt, routes, letters, sent, comings, reports, dropped, refused, upset, contested>>

Unsettled == {prompt[p].session : p \in {q \in 1..asked : prompt[q].phase # "done"}}

\* Sessions of a profile whose earlier adapter is still live when another comes.
Twins(a) == {s \in Session : HomeOf(s) = Profile(a) /\ \E b \in live : Profile(b) = Profile(a)}

\* A constructor adds the adapter, with an empty ledger, to the live ones.
Come(a) ==
  /\ a \notin live /\ comings < MaxComings
  /\ comings' = comings + 1
  /\ live' = live \cup {a}
  /\ upset' = upset \cup Unsettled \cup Twins(a)
  /\ UNCHANGED <<ownerOnly, asked, prompt, pending, routes, deciders, letters, sent, reports, dropped, refused, contested>>

\* Nothing removes an adapter but its collection.
Collected(a) ==
  /\ a \in live
  /\ live' = live \ {a}
  /\ pending' = [pending EXCEPT ![a] = [s \in Session |-> <<>>]]
  /\ routes' = [routes EXCEPT ![a] = {}]
  /\ deciders' = [deciders EXCEPT ![a] = [x \in Alias |-> NoUser]]
  /\ upset' = upset \cup Unsettled
  /\ UNCHANGED <<ownerOnly, asked, prompt, letters, sent, comings, reports, dropped, refused, contested>>

Next ==
  \/ \E s \in Session, surface \in Surface : Ask(s, surface)
  \/ \E p \in Prompt : PostHook(p) \/ DecidedElsewhere(p) \/ \E a \in Adapter : Render(a, p)
  \/ \E p \in Prompt, kind \in Ends : HostEnds(p, kind)
  \/ \E m \in letters : HostDecides(m)
  \/ \E a \in Adapter, s \in Session, u \in User :
       Refuse(a, s, u) \/ \E all \in BOOLEAN : Accept(a, s, u, all)
  \/ \E a \in Adapter : Come(a) \/ Collected(a)
  \/ QuietTime

Spec == Init /\ [][Next]_vars

-----------------------------------------------------------------------------
(* Properties *)

Phase == {"waiting", "decided", "done"}
Kind == {"none", "person", "timeout", "cancelled", "notify_failed", "policy"}

\* The shape of the ledgers, the prompts and the reports.
LedgerTypeOK ==
  /\ ownerOnly \in BOOLEAN /\ live \in SUBSET Adapter
  /\ asked \in 0..MaxPrompts /\ sent \in 0..MaxDecisions /\ comings \in 0..MaxComings
  /\ prompt \in [1..asked -> [session : Session, surface : Surface, kind : Kind, by : User \cup {NoUser},
                              drawn : BOOLEAN, phase : Phase]]
  /\ pending \in [Adapter -> [Session -> Seq(Prompt)]]
  /\ routes \in [Adapter -> SUBSET Session]
  /\ deciders \in [Adapter -> [Alias -> User \cup {NoUser}]]
  /\ letters \in SUBSET [user : User, session : Session, all : BOOLEAN]
  /\ \A r \in reports : r.adapter \in Adapter /\ r.prompt \in Prompt /\ r.id \in Prompt
  /\ dropped \in SUBSET Prompt /\ refused \in SUBSET [adapter : Adapter, id : Prompt]
  /\ upset \in SUBSET Session /\ contested \in SUBSET Session

Settles(s) == s \notin upset

\* approval_outcomes.py:32: the minted id "identifies the prompt".  An outcome is
\* audited under the id of its own prompt, and a verdict under nobody's, unless the
\* session's prompts overlapped or went unrendered beside a second adapter, were
\* reported out of order or beside a verdict, filled the list, an adapter came or
\* went under them, or two adapters of one profile were live.
ReportsMatchTheirPrompt ==
  \A r \in reports : Settles(prompt[r.prompt].session) => r.id = r.prompt

StillListed(x) ==
  LET list == pending[x.adapter][prompt[x.id].session] IN \E i \in DOMAIN list : list[i] = x.id

\* approval_outcomes.py:11: "the audit entry for every resolved approval", once,
\* under the same conditions, unless it was dropped; and adapter.py:2843, "a refused
\* decision is not a decision": the request a refusal names is there for its
\* outcome, or was reported, or dropped.
EveryOutcomeIsAudited ==
  /\ \A p \in 1..asked :
       /\ prompt[p].phase = "done" /\ prompt[p].surface = "gateway"
       /\ p \notin dropped /\ Settles(prompt[p].session)
       => Cardinality({r \in reports : r.prompt = p}) = 1
  /\ \A x \in refused :
       Settles(prompt[x.id].session) =>
         StillListed(x) \/ x.id \in dropped \/ \E r \in reports : r.prompt = x.id /\ r.id = x.id

\* approval_outcomes.py:39: "never to a guess".  A person named as the decider
\* is the one whose message decided that prompt, under the same conditions and
\* unless two decisions were on their way at once.
DecidersAreNotGuessed ==
  \A r \in reports :
    r.decider \in User /\ Settles(prompt[r.prompt].session) /\ prompt[r.prompt].session \notin contested =>
      r.decider = prompt[r.prompt].by

\* approval_outcomes.py:314: with several profiles in the process, only the
\* session's own profile ever speaks for its prompts.
ReportsStayHome ==
  \A r \in reports : r.crowded => Profile(r.adapter) = HomeOf(prompt[r.prompt].session)

-----------------------------------------------------------------------------
(* What upset leaves out. *)

\* approval_outcomes.py:41, "Only gateway concerns a Zulip room": no outcome is
\* audited for a verdict of the host's own model.
VerdictsTakeNoRequest == \A r \in reports : prompt[r.prompt].surface = "gateway"

\* approval_outcomes.py:11, "the audit entry for every resolved approval": while no
\* adapter went and no verdict was given, the outcome of a prompt that was rendered
\* is audited, or was dropped.
RenderedOutcomesAreAudited ==
  comings = Cardinality(live) /\ (\A p \in 1..asked : prompt[p].surface = "gateway") =>
    \A p \in 1..asked :
      prompt[p].drawn /\ prompt[p].phase = "done" /\ p \notin dropped => \E r \in reports : r.prompt = p

=============================================================================
