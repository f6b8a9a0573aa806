-------------------------- MODULE ApprovalLedgerProofs --------------------------
(***************************************************************************)
(* Proofs about ApprovalLedger, for any adapters, profiles and sessions:   *)
(* the type invariant; that where several profiles share a process only a  *)
(* session's own profile reports its outcomes; and, for settled sessions,  *)
(* that every outcome is audited once, under its own id, and names nobody  *)
(* but the one who decided.                                                *)
(*                                                                         *)
(* AuditInv carries the second part: the ledgers that may speak for a      *)
(* settled session list exactly its open prompts, oldest first, so the     *)
(* post hook finds one candidate with its prompt at the head, and that of  *)
(* a verdict, which comes beside no open prompt, an empty list. DeciderInv *)
(* carries the third: records of an uncontested session name the one       *)
(* person whose decision is under way, or nobody any more.                 *)
(***************************************************************************)
EXTENDS ApprovalLedger, FiniteSetTheorems, SequenceTheorems, TLAPS

\* A route is recorded only by an adapter of the session's own profile.
RoutesAreHome == \A a \in Adapter : \A s \in routes[a] : Profile(a) = HomeOf(s)

\* A report is about a prompt that was asked.
ReportsAreKnown == \A r \in reports : r.prompt \in 1..asked

LedgerInv == LedgerTypeOK /\ RoutesAreHome /\ ReportsAreKnown /\ ReportsStayHome

PromptRecord == [session : Session, surface : Surface, kind : Kind, by : User \cup {NoUser}, drawn : BOOLEAN, phase : Phase]

-----------------------------------------------------------------------------
(* Shapes *)

LEMMA Bounds ==
  /\ MaxPending \in Nat \ {0} /\ MaxPrompts \in Nat /\ MaxDecisions \in Nat /\ MaxComings \in Nat
  /\ NoUser \notin User
BY LedgerAssumption

LEMMA TypesInit == Init => LedgerTypeOK
<1> SUFFICES ASSUME Init PROVE LedgerTypeOK
  OBVIOUS
<1>1. prompt \in [1..asked -> PromptRecord]
  BY DEF Init
<1>2. pending \in [Adapter -> [Session -> Seq(Prompt)]]
  BY DEF Init
<1>3. deciders \in [Adapter -> [Alias -> User \cup {NoUser}]]
  BY DEF Init
<1> QED
  BY <1>1, <1>2, <1>3, Bounds DEF Init, LedgerTypeOK, PromptRecord

\* The last requests of a list are requests.
LEMMA LastIsASequence ==
  ASSUME NEW S, NEW q \in Seq(S)
  PROVE  Last(q) \in Seq(S)
<1>1. Len(q) \in Nat
  OBVIOUS
<1>2. (IF Len(q) > MaxPending THEN Len(q) - MaxPending + 1 ELSE 1) \in 1..(Len(q) + 1)
  BY <1>1, Bounds
<1>3. \A m \in 1..(Len(q) + 1) : SubSeq(q, m, Len(q)) \in Seq(S)
  BY <1>1, SubSeqProperties
<1> QED
  BY <1>2, <1>3 DEF Last

LEMMA NotedIsASequence ==
  ASSUME NEW q \in Seq(Prompt), NEW p \in Prompt, NEW surface
  PROVE  Noted(q, p, surface) \in Seq(Prompt)
<1>1. Append(q, p) \in Seq(Prompt)
  OBVIOUS
<1> QED
  BY <1>1, LastIsASequence DEF Noted

LEMMA RestIsASequence ==
  ASSUME NEW q \in Seq(Prompt)
  PROVE  RestOf(q) \in Seq(Prompt)
BY DEF RestOf

\* Trying some ledgers changes the shape of none.
LEMMA ResolveShape ==
  ASSUME LedgerTypeOK, NEW A, NEW s \in Session, Resolve(A, s)
  PROVE  /\ pending' \in [Adapter -> [Session -> Seq(Prompt)]]
         /\ routes' \in [Adapter -> SUBSET Session]
         /\ deciders' \in [Adapter -> [Alias -> User \cup {NoUser}]]
         /\ \A a \in Adapter : routes'[a] \subseteq routes[a]
<1>1. pending' \in [Adapter -> [Session -> Seq(Prompt)]]
  <2>1. \A a \in Adapter : pending[a] \in [Session -> Seq(Prompt)]
    BY DEF LedgerTypeOK
  <2>2. \A a \in Adapter : [pending[a] EXCEPT ![s] = RestOf(@)] \in [Session -> Seq(Prompt)]
    BY <2>1, RestIsASequence
  <2> QED
    BY <2>1, <2>2 DEF Resolve
<1>2. /\ routes' \in [Adapter -> SUBSET Session]
      /\ \A a \in Adapter : routes'[a] \subseteq routes[a]
  BY DEF Resolve, LedgerTypeOK
<1>3. deciders' \in [Adapter -> [Alias -> User \cup {NoUser}]]
  BY DEF Resolve, LedgerTypeOK
<1> QED
  BY <1>1, <1>2, <1>3

\* A new prompt leaves the earlier ones as they are.
LEMMA AskedPrompts ==
  ASSUME LedgerTypeOK, NEW x \in PromptRecord
  PROVE  /\ Append(prompt, x) \in [1..(asked + 1) -> PromptRecord]
         /\ \A p \in 1..asked : Append(prompt, x)[p] = prompt[p]
<1>1. asked \in Nat /\ prompt \in [1..asked -> PromptRecord]
  BY DEF LedgerTypeOK, PromptRecord
<1>2. prompt \in Seq(PromptRecord) /\ Len(prompt) = asked
  BY <1>1, SeqDef
<1>3. /\ Append(prompt, x) \in Seq(PromptRecord)
      /\ Len(Append(prompt, x)) = asked + 1
      /\ \A p \in 1..asked : Append(prompt, x)[p] = prompt[p]
  BY <1>2, AppendProperties
<1> QED
  BY <1>3, LenProperties

\* A prompt that a person decides.
LEMMA DecidedPromptShape ==
  ASSUME NEW x \in PromptRecord, NEW ph \in Phase, NEW k \in Kind, NEW u \in User \cup {NoUser}
  PROVE  /\ [x EXCEPT !.phase = ph, !.kind = k, !.by = u] \in PromptRecord
         /\ [x EXCEPT !.phase = ph, !.kind = k, !.by = u].session = x.session
BY DEF PromptRecord

LEMMA PromptsHaveShape ==
  ASSUME LedgerTypeOK
  PROVE  prompt \in [1..asked -> PromptRecord] /\ asked \in Nat
BY DEF LedgerTypeOK, PromptRecord

\* Ending one prompt, or deciding it, keeps the shape of all and their sessions.
LEMMA OnePromptEdited ==
  ASSUME LedgerTypeOK, NEW p \in 1..asked, NEW ph \in Phase, NEW k \in Kind,
         \/ prompt' = [prompt EXCEPT ![p].phase = ph]
         \/ prompt' = [prompt EXCEPT ![p].phase = ph, ![p].kind = k]
  PROVE  /\ prompt' \in [1..asked -> PromptRecord]
         /\ \A q \in 1..asked : prompt'[q].session = prompt[q].session
<1>1. prompt \in [1..asked -> PromptRecord]
  BY PromptsHaveShape
<1>2. prompt[p] \in PromptRecord
  BY <1>1
<1> DEFINE one == [prompt[p] EXCEPT !.phase = ph]
           two == [prompt[p] EXCEPT !.phase = ph, !.kind = k]
<1>3. one \in PromptRecord /\ one.session = prompt[p].session
  BY <1>2 DEF PromptRecord
<1>4. two \in PromptRecord /\ two.session = prompt[p].session
  BY <1>2 DEF PromptRecord
<1>5. prompt' = [prompt EXCEPT ![p] = one] \/ prompt' = [prompt EXCEPT ![p] = two]
  BY <1>1
<1> HIDE DEF one, two, PromptRecord
<1> QED
  BY <1>1, <1>3, <1>4, <1>5

LEMMA DecidedPrompts ==
  ASSUME LedgerTypeOK, NEW p \in Prompt, DecidedElsewhere(p) \/ \E kind \in Ends : HostEnds(p, kind)
  PROVE  /\ prompt' \in [1..asked' -> PromptRecord]
         /\ \A q \in 1..asked : q \in 1..asked' /\ prompt'[q].session = prompt[q].session
<1>1. p \in 1..asked /\ asked' = asked
  BY DEF DecidedElsewhere, HostEnds, LedgerTypeOK, Prompt
<1>2. "decided" \in Phase /\ "person" \in Kind /\ Ends \subseteq Kind
  BY LedgerAssumption DEF Phase, Kind
<1>3. \E k \in Kind : prompt' = [prompt EXCEPT ![p].phase = "decided", ![p].kind = k]
  BY <1>2 DEF DecidedElsewhere, HostEnds
<1> QED
  BY <1>1, <1>2, <1>3, OnePromptEdited

\* A new prompt is a person's to settle, or settled by the host.
LEMMA NewPromptShape ==
  ASSUME NEW s \in Session, NEW surface \in Surface
  PROVE  /\ NewPrompt(s, surface) \in PromptRecord
         /\ NewPrompt(s, surface).session = s /\ NewPrompt(s, surface).surface = surface
         /\ NewPrompt(s, surface).drawn = FALSE /\ NewPrompt(s, surface).phase # "done"
         /\ NewPrompt(s, surface).kind # "person"
BY DEF NewPrompt, PromptRecord, Kind, Phase, Surface

-----------------------------------------------------------------------------
(* The type invariant, one lemma per action that changes more than a flag. *)

LEMMA AskTypes ==
  ASSUME LedgerTypeOK, NEW s \in Session, NEW surface \in Surface, Ask(s, surface)
  PROVE  LedgerTypeOK'
<1> DEFINE x == NewPrompt(s, surface)
<1>1. x \in PromptRecord
  BY NewPromptShape
<1>2. asked' = asked + 1 /\ asked + 1 \in 0..MaxPrompts /\ asked + 1 \in Prompt
  BY Bounds DEF LedgerTypeOK, Ask, Prompt
<1>3. prompt' = Append(prompt, x)
  BY DEF Ask
<1>4. prompt' \in [1..asked' -> PromptRecord]
  BY <1>1, <1>2, <1>3, AskedPrompts
<1>5. pending' \in [Adapter -> [Session -> Seq(Prompt)]]
  <2>1. \A a \in Adapter : pending[a] \in [Session -> Seq(Prompt)]
    BY DEF LedgerTypeOK
  <2>2. \A a \in Adapter : [pending[a] EXCEPT ![s] = Noted(@, asked + 1, surface)] \in [Session -> Seq(Prompt)]
    BY <1>2, <2>1, NotedIsASequence
  <2> QED
    BY <2>1, <2>2 DEF Ask
<1>6. upset' \in SUBSET Session
  BY DEF LedgerTypeOK, Ask
<1> QED
  BY <1>2, <1>4, <1>5, <1>6 DEF LedgerTypeOK, Ask, PromptRecord

LEMMA PostHookTypes ==
  ASSUME LedgerTypeOK, NEW p \in Prompt, PostHook(p)
  PROVE  LedgerTypeOK'
<1> DEFINE s == prompt[p].session
<1>1. p \in 1..asked /\ s \in Session
  BY DEF LedgerTypeOK, PostHook, Prompt
<1>2. prompt' \in [1..asked' -> PromptRecord]
  <2>1. "done" \in Phase /\ "none" \in Kind
    BY DEF Phase, Kind
  <2>2. prompt' = [prompt EXCEPT ![p].phase = "done"] /\ asked' = asked
    BY DEF PostHook
  <2> QED
    BY <1>1, <2>1, <2>2, OnePromptEdited
<1>3. \E A : Resolve(A, s)
  BY DEF PostHook
<1>4. /\ pending' \in [Adapter -> [Session -> Seq(Prompt)]]
      /\ routes' \in [Adapter -> SUBSET Session]
      /\ deciders' \in [Adapter -> [Alias -> User \cup {NoUser}]]
  BY <1>1, <1>3, ResolveShape
<1>5. \A r \in reports' : r.adapter \in Adapter /\ r.prompt \in Prompt /\ r.id \in Prompt
  <2>1. \A a \in Candidates(s) : a \in Adapter
    BY DEF Candidates, Owners, LedgerTypeOK
  <2>2. \A a \in Adapter : pending[a][s] # <<>> => Head(pending[a][s]) \in Prompt
    BY <1>1 DEF LedgerTypeOK
  <2>3. CASE UNCHANGED reports
    BY <2>3 DEF LedgerTypeOK
  <2>4. CASE \E a \in {a \in Candidates(s) : pending[a][s] # <<>>} : reports' = reports \cup {Report(a, p)}
    <3> PICK a \in Candidates(s) : pending[a][s] # <<>> /\ reports' = reports \cup {Report(a, p)}
      BY <2>4
    <3>1. Report(a, p).adapter = a /\ Report(a, p).prompt = p /\ Report(a, p).id = Head(pending[a][s])
      BY DEF Report
    <3> QED
      BY <2>1, <2>2, <3>1 DEF LedgerTypeOK
  <2> QED
    BY <2>3, <2>4 DEF PostHook
<1>6. upset' \in SUBSET Session /\ dropped' \in SUBSET Prompt
  BY <1>1 DEF LedgerTypeOK, PostHook
<1> QED
  BY <1>2, <1>4, <1>5, <1>6 DEF LedgerTypeOK, PostHook, PromptRecord

LEMMA HostDecidesTypes ==
  ASSUME LedgerTypeOK, NEW m \in letters, HostDecides(m)
  PROVE  LedgerTypeOK'
<1>1. m.user \in User
  BY DEF LedgerTypeOK
<1>2. prompt' \in [1..asked' -> PromptRecord]
  <2>1. "decided" \in Phase /\ "person" \in Kind
    BY DEF Phase, Kind
  <2>2. \A p \in 1..asked :
          [prompt[p] EXCEPT !.phase = "decided", !.kind = "person", !.by = m.user] \in PromptRecord
    BY <1>1, <2>1, DecidedPromptShape, PromptsHaveShape
  <2> QED
    BY <2>2, PromptsHaveShape DEF HostDecides
<1>3. letters' \in SUBSET [user : User, session : Session, all : BOOLEAN]
  BY DEF LedgerTypeOK, HostDecides
<1> QED
  BY <1>2, <1>3 DEF LedgerTypeOK, HostDecides, PromptRecord

LEMMA AcceptTypes ==
  ASSUME LedgerTypeOK, NEW a \in Adapter, NEW s \in Session, NEW u \in User, NEW all \in BOOLEAN, Accept(a, s, u, all)
  PROVE  LedgerTypeOK'
<1>1. deciders' \in [Adapter -> [Alias -> User \cup {NoUser}]]
  <2>1. NoteDecider(deciders[a], s, u) \in [Alias -> User \cup {NoUser}]
    BY DEF LedgerTypeOK, NoteDecider
  <2> QED
    BY <2>1 DEF LedgerTypeOK, Accept
<1>2. letters' \in SUBSET [user : User, session : Session, all : BOOLEAN]
  BY DEF LedgerTypeOK, Accept
<1>3. contested' \in SUBSET Session
  <2>1. Rivals(s) \subseteq Session
    BY DEF Rivals, LedgerTypeOK
  <2> QED
    BY <2>1 DEF LedgerTypeOK, Accept
<1>4. sent' \in 0..MaxDecisions
  BY Bounds DEF LedgerTypeOK, Accept, Sends
<1> QED
  BY <1>1, <1>2, <1>3, <1>4 DEF LedgerTypeOK, Accept

LEMMA RefuseTypes ==
  ASSUME LedgerTypeOK, NEW a \in Adapter, NEW s \in Session, NEW u \in User, Refuse(a, s, u)
  PROVE  LedgerTypeOK'
<1>1. PendingIds(a, s) \subseteq Prompt
  <2>1. \A t \in Session : pending[a][t] \in Seq(Prompt)
    BY DEF LedgerTypeOK
  <2>2. routes[a] \subseteq Session
    BY DEF LedgerTypeOK
  <2> QED
    BY <2>1, <2>2 DEF PendingIds
<1>2. refused' \in SUBSET [adapter : Adapter, id : Prompt]
  BY <1>1 DEF LedgerTypeOK, Refuse
<1>3. sent' \in 0..MaxDecisions
  BY Bounds DEF LedgerTypeOK, Refuse, Sends
<1> QED
  BY <1>2, <1>3 DEF LedgerTypeOK, Refuse

LEMMA ForgetfulTypes ==
  ASSUME LedgerTypeOK, QuietTime \/ \E a \in Adapter : Collected(a)
  PROVE  LedgerTypeOK'
<1>1. pending' \in [Adapter -> [Session -> Seq(Prompt)]]
  <2>1. [s \in Session |-> <<>>] \in [Session -> Seq(Prompt)]
    OBVIOUS
  <2> QED
    BY <2>1 DEF LedgerTypeOK, QuietTime, Collected
<1>2. deciders' \in [Adapter -> [Alias -> User \cup {NoUser}]]
  <2>1. [x \in Alias |-> NoUser] \in [Alias -> User \cup {NoUser}]
    OBVIOUS
  <2> QED
    BY <2>1 DEF LedgerTypeOK, QuietTime, Collected
<1>u. Unsettled \subseteq Session
  BY PromptsHaveShape DEF Unsettled, PromptRecord
<1>3. live' \in SUBSET Adapter /\ routes' \in [Adapter -> SUBSET Session] /\ upset' \in SUBSET Session
  BY <1>u DEF LedgerTypeOK, QuietTime, Collected
<1> QED
  BY <1>1, <1>2, <1>3 DEF LedgerTypeOK, QuietTime, Collected

LEMMA TypesNext == LedgerTypeOK /\ [Next]_vars => LedgerTypeOK'
<1> SUFFICES ASSUME LedgerTypeOK, [Next]_vars PROVE LedgerTypeOK'
  OBVIOUS
<1>1. ASSUME NEW s \in Session, NEW surface \in Surface, Ask(s, surface) PROVE LedgerTypeOK'
  BY <1>1, AskTypes
<1>2. ASSUME NEW p \in Prompt, PostHook(p) PROVE LedgerTypeOK'
  BY <1>2, PostHookTypes
<1>3. ASSUME NEW p \in Prompt, DecidedElsewhere(p) PROVE LedgerTypeOK'
  <2>1. prompt' \in [1..asked' -> PromptRecord]
    BY <1>3, DecidedPrompts
  <2> QED
    BY <1>3, <2>1 DEF LedgerTypeOK, DecidedElsewhere, PromptRecord
<1>4. ASSUME NEW p \in Prompt, NEW a \in Adapter, Render(a, p) PROVE LedgerTypeOK'
  <2>1. prompt' \in [1..asked' -> PromptRecord]
    BY <1>4 DEF LedgerTypeOK, Render, PromptRecord
  <2>2. routes' \in [Adapter -> SUBSET Session]
    <3>1. prompt[p].session \in Session
      BY <1>4 DEF LedgerTypeOK, Render, Prompt
    <3> QED
      BY <1>4, <3>1 DEF LedgerTypeOK, Render
  <2> QED
    BY <1>4, <2>1, <2>2 DEF LedgerTypeOK, Render, PromptRecord
<1>5. ASSUME NEW p \in Prompt, NEW kind \in Ends, HostEnds(p, kind) PROVE LedgerTypeOK'
  <2>1. prompt' \in [1..asked' -> PromptRecord]
    BY <1>5, DecidedPrompts
  <2> QED
    BY <1>5, <2>1 DEF LedgerTypeOK, HostEnds, PromptRecord
<1>6. ASSUME NEW m \in letters, HostDecides(m) PROVE LedgerTypeOK'
  BY <1>6, HostDecidesTypes
<1>7. ASSUME NEW a \in Adapter, NEW s \in Session, NEW u \in User,
             Refuse(a, s, u) \/ \E all \in BOOLEAN : Accept(a, s, u, all)
      PROVE  LedgerTypeOK'
  BY <1>7, RefuseTypes, AcceptTypes
<1>8. ASSUME NEW a \in Adapter, Come(a) PROVE LedgerTypeOK'
  BY <1>8, Bounds DEF LedgerTypeOK, Come, Unsettled, Twins
<1>9. ASSUME QuietTime \/ \E a \in Adapter : Collected(a) PROVE LedgerTypeOK'
  BY <1>9, ForgetfulTypes
<1>10. CASE UNCHANGED vars
  BY <1>10 DEF LedgerTypeOK, vars
<1> QED
  BY <1>1, <1>2, <1>3, <1>4, <1>5, <1>6, <1>7, <1>8, <1>9, <1>10 DEF Next

\* Every ledger, prompt, decision and report has its type, whatever the hooks,
\* the host and the people do.
THEOREM LedgerTypes == Spec => []LedgerTypeOK
BY TypesInit, TypesNext, PTL DEF Spec

-----------------------------------------------------------------------------
(* Who reports *)

\* A prompt keeps its session.
LEMMA SessionsAreFixed ==
  ASSUME LedgerTypeOK, [Next]_vars
  PROVE  \A p \in 1..asked : p \in 1..asked' /\ prompt'[p].session = prompt[p].session
<1>1. asked \in Nat
  BY DEF LedgerTypeOK
<1>2. ASSUME NEW s \in Session, NEW surface \in Surface, Ask(s, surface)
      PROVE  \A p \in 1..asked : p \in 1..asked' /\ prompt'[p].session = prompt[p].session
  <2> DEFINE x == NewPrompt(s, surface)
  <2>1. x \in PromptRecord
    BY NewPromptShape
  <2>2. prompt' = Append(prompt, x) /\ asked' = asked + 1
    BY <1>2 DEF Ask
  <2> QED
    BY <1>1, <2>1, <2>2, AskedPrompts
<1>3. ASSUME NEW p \in Prompt, PostHook(p)
      PROVE  \A q \in 1..asked : q \in 1..asked' /\ prompt'[q].session = prompt[q].session
  <2>1. p \in 1..asked /\ asked' = asked /\ prompt' = [prompt EXCEPT ![p].phase = "done"]
    BY <1>3 DEF PostHook, LedgerTypeOK, Prompt
  <2>2. "done" \in Phase /\ "none" \in Kind
    BY DEF Phase, Kind
  <2> QED
    BY <2>1, <2>2, OnePromptEdited
<1>4. ASSUME NEW p \in Prompt, DecidedElsewhere(p) \/ \E kind \in Ends : HostEnds(p, kind)
      PROVE  \A q \in 1..asked : q \in 1..asked' /\ prompt'[q].session = prompt[q].session
  BY <1>4, DecidedPrompts
<1>9. ASSUME NEW p \in Prompt, NEW a \in Adapter, Render(a, p)
      PROVE  \A q \in 1..asked : q \in 1..asked' /\ prompt'[q].session = prompt[q].session
  BY <1>1, <1>9 DEF LedgerTypeOK, Render
<1>5. ASSUME NEW m \in letters, HostDecides(m)
      PROVE  \A p \in 1..asked : p \in 1..asked' /\ prompt'[p].session = prompt[p].session
  BY <1>1, <1>5 DEF LedgerTypeOK, HostDecides
<1>6. CASE asked' = asked /\ prompt' = prompt
  BY <1>6
<1>7. ASSUME NEW a \in Adapter, NEW s \in Session, NEW u \in User,
             Refuse(a, s, u) \/ \E all \in BOOLEAN : Accept(a, s, u, all)
      PROVE  asked' = asked /\ prompt' = prompt
  BY <1>7 DEF Refuse, Accept
<1>8. ASSUME QuietTime \/ (\E a \in Adapter : Come(a) \/ Collected(a)) \/ UNCHANGED vars
      PROVE  asked' = asked /\ prompt' = prompt
  BY <1>8 DEF QuietTime, Come, Collected, vars
<1> QED
  BY <1>2, <1>3, <1>4, <1>5, <1>6, <1>7, <1>8, <1>9 DEF Next

\* What is recorded or dropped of routes leaves them with their profile.
LEMMA RoutesStayHome ==
  ASSUME LedgerInv, [Next]_vars
  PROVE  RoutesAreHome'
<1>1. ASSUME NEW p \in Prompt, PostHook(p) PROVE RoutesAreHome'
  <2>1. prompt[p].session \in Session
    BY <1>1 DEF LedgerInv, LedgerTypeOK, PostHook, Prompt
  <2>2. \A a \in Adapter : routes'[a] \subseteq routes[a]
    BY <1>1, <2>1, ResolveShape DEF PostHook, LedgerInv
  <2> QED
    BY <2>2 DEF LedgerInv, RoutesAreHome
<1>2. ASSUME NEW p \in Prompt, NEW a \in Adapter, Render(a, p) PROVE RoutesAreHome'
  BY <1>2 DEF LedgerInv, LedgerTypeOK, RoutesAreHome, Render
<1>3. ASSUME NEW a \in Adapter, Collected(a) PROVE RoutesAreHome'
  BY <1>3 DEF LedgerInv, LedgerTypeOK, RoutesAreHome, Collected
<1>4. ASSUME UNCHANGED routes PROVE RoutesAreHome'
  BY <1>4 DEF LedgerInv, RoutesAreHome
<1>5. ASSUME NEW s \in Session, NEW surface \in Surface, Ask(s, surface) PROVE RoutesAreHome'
  BY <1>4, <1>5 DEF Ask
<1>6. ASSUME NEW p \in Prompt, DecidedElsewhere(p) \/ \E kind \in Ends : HostEnds(p, kind) PROVE RoutesAreHome'
  BY <1>4, <1>6 DEF DecidedElsewhere, HostEnds
<1>7. ASSUME NEW m \in letters, HostDecides(m) PROVE RoutesAreHome'
  BY <1>4, <1>7 DEF HostDecides
<1>8. ASSUME NEW a \in Adapter, NEW s \in Session, NEW u \in User,
             Refuse(a, s, u) \/ \E all \in BOOLEAN : Accept(a, s, u, all)
      PROVE  RoutesAreHome'
  BY <1>4, <1>8 DEF Refuse, Accept
<1>9. ASSUME QuietTime \/ (\E a \in Adapter : Come(a)) \/ UNCHANGED vars PROVE RoutesAreHome'
  BY <1>4, <1>9 DEF QuietTime, Come, vars
<1> QED
  BY <1>1, <1>2, <1>3, <1>5, <1>6, <1>7, <1>8, <1>9 DEF Next

\* Beside another adapter, only one that rendered the session's prompt is asked.
LEMMA CrowdedCandidatesAreHome ==
  ASSUME LedgerInv, NEW s \in Session, NEW a \in Candidates(s), Cardinality(live) > 1
  PROVE  Profile(a) = HomeOf(s)
<1>1. a \in Owners(s)
  BY DEF Candidates
<1> QED
  BY <1>1 DEF Owners, LedgerInv, LedgerTypeOK, RoutesAreHome

LEMMA ReportsNext ==
  ASSUME LedgerInv, [Next]_vars
  PROVE  ReportsAreKnown' /\ ReportsStayHome'
<1>1. \A p \in 1..asked : p \in 1..asked' /\ prompt'[p].session = prompt[p].session
  BY SessionsAreFixed DEF LedgerInv
<1>2. ASSUME reports' = reports PROVE ReportsAreKnown' /\ ReportsStayHome'
  BY <1>1, <1>2 DEF LedgerInv, ReportsAreKnown, ReportsStayHome
<1>3. ASSUME NEW p \in Prompt, PostHook(p), reports' # reports PROVE ReportsAreKnown' /\ ReportsStayHome'
  <2> DEFINE s == prompt[p].session
  <2>1. p \in 1..asked /\ s \in Session
    BY <1>3 DEF LedgerInv, LedgerTypeOK, PostHook, Prompt
  <2>2. PICK a \in Candidates(s) : reports' = reports \cup {Report(a, p)}
    BY <1>3 DEF PostHook
  <2>3. Report(a, p).adapter = a /\ Report(a, p).prompt = p /\ Report(a, p).crowded = (Cardinality(live) > 1)
    BY DEF Report
  <2>4. Report(a, p).crowded => Profile(a) = HomeOf(s)
    BY <2>1, <2>2, <2>3, CrowdedCandidatesAreHome
  <2>5. ReportsAreKnown'
    BY <1>1, <2>1, <2>2, <2>3 DEF LedgerInv, ReportsAreKnown
  <2>6. ReportsStayHome'
    <3> SUFFICES ASSUME NEW r \in reports', r.crowded
                 PROVE  Profile(r.adapter) = HomeOf(prompt'[r.prompt].session)
      BY DEF ReportsStayHome
    <3>1. CASE r \in reports
      BY <1>1, <3>1 DEF LedgerInv, ReportsAreKnown, ReportsStayHome
    <3>2. CASE r = Report(a, p)
      BY <1>1, <2>1, <2>3, <2>4, <3>2
    <3> QED
      BY <2>2, <3>1, <3>2
  <2> QED
    BY <2>5, <2>6
<1>4. ASSUME NEW s \in Session, NEW surface \in Surface, Ask(s, surface) PROVE reports' = reports
  BY <1>4 DEF Ask
<1>5. ASSUME NEW p \in Prompt,
             DecidedElsewhere(p) \/ (\E kind \in Ends : HostEnds(p, kind)) \/ \E a \in Adapter : Render(a, p)
      PROVE  reports' = reports
  BY <1>5 DEF DecidedElsewhere, HostEnds, Render
<1>6. ASSUME NEW m \in letters, HostDecides(m) PROVE reports' = reports
  BY <1>6 DEF HostDecides
<1>7. ASSUME NEW a \in Adapter, NEW s \in Session, NEW u \in User,
             Refuse(a, s, u) \/ \E all \in BOOLEAN : Accept(a, s, u, all)
      PROVE  reports' = reports
  BY <1>7 DEF Refuse, Accept
<1>8. ASSUME QuietTime \/ (\E a \in Adapter : Come(a) \/ Collected(a)) \/ UNCHANGED vars PROVE reports' = reports
  BY <1>8 DEF QuietTime, Come, Collected, vars
<1> QED
  BY <1>2, <1>3, <1>4, <1>5, <1>6, <1>7, <1>8 DEF Next

LEMMA LedgerInitially == Init => LedgerInv
BY TypesInit DEF Init, LedgerInv, RoutesAreHome, ReportsAreKnown, ReportsStayHome

LEMMA LedgerNext == LedgerInv /\ [Next]_vars => LedgerInv'
BY TypesNext, RoutesStayHome, ReportsNext DEF LedgerInv

\* approval_outcomes.py:314, "what keeps a multiplexed gateway from reporting one
\* profile's approval into another's room": an outcome reported while more than one
\* adapter is live was reported by the profile of its session.
THEOREM ProfilesSpeakForTheirOwn == Spec => []ReportsStayHome
<1>1. Init => LedgerInv
  BY LedgerInitially
<1>2. LedgerInv /\ [Next]_vars => LedgerInv'
  BY LedgerNext
<1>3. LedgerInv => ReportsStayHome
  BY DEF LedgerInv
<1> QED
  BY <1>1, <1>2, <1>3, PTL DEF Spec


-----------------------------------------------------------------------------
(* Settled sessions *)

\* The chats of another platform are not Zulip's.
PlatformsHaveOwnRoutes == \A s, t \in Session : RouteOf(s) = RouteOf(t) /\ Ours(s) => Ours(t)

\* The ledgers that may speak for a session: its own profile's, or for a session
\* of another platform any.
Keepers(s) == {a \in live : Ours(s) => Profile(a) = HomeOf(s)}

\* A settled session's profile has at most one adapter.
OneKeeperEach ==
  \A s \in Session \ upset : \A a, b \in live : Profile(a) = HomeOf(s) /\ Profile(b) = HomeOf(s) => a = b

\* A list of the prompts of P, oldest first.
InOrder(q, P) ==
  /\ \A i, j \in DOMAIN q : i < j => q[i] < q[j]
  /\ \A p : p \in P <=> \E i \in DOMAIN q : q[i] = p

\* While a session is settled, its keepers list its open prompts.
ListsAreExact == \A s \in Session \ upset : \A a \in Keepers(s) : InOrder(pending[a][s], Open(s))

\* A prompt of a settled session that is not through has a ledger to speak for it.
\* Beside other adapters an open one is the session's only one, and once it is drawn
\* its route tells whose.
PromptsHaveAKeeper ==
  \A s \in Session \ upset :
    /\ s \in Unsettled => Keepers(s) # {}
    /\ Open(s) # {} /\ Cardinality(live) > 1 =>
         /\ \A p, q \in Open(s) : p = q
         /\ \A p \in Open(s) : prompt[p].drawn => Owners(s) # {}

\* What a list holds are prompts of its session, and adapters that are gone hold none.
RequestsAreFiled ==
  \A a \in Adapter, s \in Session :
    /\ \A i \in DOMAIN pending[a][s] : pending[a][s][i] \in 1..asked /\ prompt[pending[a][s][i]].session = s
    /\ a \notin live => pending[a][s] = <<>>

\* Only prompts whose post hook ran are reported.
ReportsAreOfTheDone == \A r \in reports : prompt[r.prompt].phase = "done"

\* A prompt whose post hook ran is reported once, unless that was dropped.
ReportedOnce(p) == \E r \in reports : \A x \in reports : x.prompt = p <=> x = r
TheDoneAreReported ==
  \A p \in 1..asked :
    /\ prompt[p].phase = "done" /\ prompt[p].surface = "gateway"
    /\ p \notin dropped /\ Settles(prompt[p].session)
    => ReportedOnce(p)

\* A request that a refusal names is open at the adapter that refused, or reported.
Tracked(x, s) ==
  \/ x.id \in Open(s) /\ x.adapter \in live /\ Profile(x.adapter) = HomeOf(s)
  \/ x.id \in dropped
  \/ \E r \in reports : r.prompt = x.id /\ r.id = x.id
RefusedAreTracked ==
  \A x \in refused :
    /\ x.id \in 1..asked
    /\ \A s \in Session : prompt[x.id].session = s /\ Settles(s) => Tracked(x, s)

AuditInv ==
  /\ IsFiniteSet(live)
  /\ OneKeeperEach /\ RequestsAreFiled /\ ListsAreExact /\ PromptsHaveAKeeper
  /\ ReportsAreOfTheDone /\ TheDoneAreReported /\ RefusedAreTracked /\ ReportsMatchTheirPrompt

\* Who decided, or is about to decide, open prompts of a session.
DecidersOf(s) ==
  {m.user : m \in {x \in letters : x.session = s}}
    \cup {prompt[p].by : p \in {q \in Open(s) : prompt[q].phase = "decided" /\ prompt[q].kind = "person"}}

\* Records are made by adapters of the session's own profile.
RecordsAreHome ==
  \A a \in Adapter, s \in Session :
    /\ deciders[a][<<"key", s>>] # NoUser => Profile(a) = HomeOf(s)
    /\ deciders[a][<<"route", RouteOf(s)>>] # NoUser =>
         \E t \in Session : RouteOf(t) = RouteOf(s) /\ Profile(a) = HomeOf(t)

\* An adapter that is gone has no records, and one that comes none yet.
GoneHaveNoRecords == \A a \in Adapter \ live, x \in Alias : deciders[a][x] = NoUser

\* Unless two decisions met, a record names the one whose decision is under way.
RecordsAreOfTheDecision ==
  \A s \in Session \ (contested \cup upset), a \in Adapter :
    Profile(a) = HomeOf(s) =>
      \A x \in AliasesOf(s), u \in DecidersOf(s) : deciders[a][x] \in {u, NoUser}

Records == RecordsAreHome /\ GoneHaveNoRecords /\ RecordsAreOfTheDecision

DeciderInv == Records /\ DecidersAreNotGuessed

LEMMA PromptsAreNumbers == Prompt \subseteq Nat
BY Bounds DEF Prompt

LEMMA RequestsAreNumbers ==
  ASSUME NEW q \in Seq(Prompt)
  PROVE  \A i \in 1..Len(q) : q[i] \in Prompt /\ q[i] \in Nat
<1>1. \A i \in 1..Len(q) : q[i] \in Prompt
  BY ElementOfSeq
<1> QED
  BY <1>1, PromptsAreNumbers

\* A list in order has as many requests as there are prompts.
LEMMA OrderedLists ==
  ASSUME NEW P, NEW q \in Seq(Prompt), InOrder(q, P)
  PROVE  IsFiniteSet(P) /\ Cardinality(P) = Len(q)
<1>1. Len(q) \in Nat /\ DOMAIN q = 1..Len(q)
  OBVIOUS
<1>2. \A i \in 1..Len(q) : q[i] \in P /\ q[i] \in Nat
  BY <1>1, RequestsAreNumbers DEF InOrder
<1>3. \A p \in P : \E i \in 1..Len(q) : q[i] = p
  BY <1>1 DEF InOrder
<1>4. \A i, j \in 1..Len(q) : q[i] = q[j] => i = j
  <2> SUFFICES ASSUME NEW i \in 1..Len(q), NEW j \in 1..Len(q), q[i] = q[j], i # j PROVE FALSE
    OBVIOUS
  <2>1. i < j \/ j < i
    BY <1>1
  <2> QED
    BY <1>1, <1>2, <2>1 DEF InOrder
<1>5. q \in [1..Len(q) -> P]
  BY <1>1, <1>2
<1>6. q \in Bijection(1..Len(q), P)
  BY <1>3, <1>4, <1>5 DEF Bijection, Injection, Surjection, IsInjective
<1>7. ExistsBijection(1..Len(q), P)
  BY <1>6 DEF ExistsBijection
<1> QED
  BY <1>1, <1>7, FS_CountingElements, FS_NatBijection

\* While there is room, a new prompt goes to the end.
LEMMA LastKeepsAll ==
  ASSUME NEW q \in Seq(Prompt), Len(q) <= MaxPending
  PROVE  Last(q) = q
<1>1. ~(Len(q) > MaxPending)
  BY Bounds, LenProperties
<1>2. Last(q) = SubSeq(q, 1, Len(q))
  BY <1>1 DEF Last
<1> QED
  BY <1>2, SubSeqProperties

LEMMA AppendInOrder ==
  ASSUME NEW P, NEW q \in Seq(Prompt), InOrder(q, P), NEW n \in Prompt, \A p \in P : p < n,
         Len(q) < MaxPending
  PROVE  InOrder(Last(Append(q, n)), P \cup {n})
<1> DEFINE r == Append(q, n)
<1>1. /\ r \in Seq(Prompt) /\ Len(r) = Len(q) + 1 /\ r[Len(q) + 1] = n
      /\ \A i \in 1..Len(q) : r[i] = q[i]
  BY AppendProperties
<1>2. Len(q) \in Nat /\ DOMAIN q = 1..Len(q) /\ DOMAIN r = 1..(Len(q) + 1)
  BY <1>1, LenProperties
<1>3. Last(r) = r
  <2>1. Len(r) <= MaxPending
    BY <1>1, <1>2, Bounds
  <2> HIDE DEF r
  <2> QED
    BY <1>1, <2>1, LastKeepsAll
<1>4. \A i \in 1..Len(q) : q[i] \in P
  BY <1>2 DEF InOrder
<1> HIDE DEF r
<1>5. \A i, j \in DOMAIN r : i < j => r[i] < r[j]
  <2> SUFFICES ASSUME NEW i \in 1..(Len(q) + 1), NEW j \in 1..(Len(q) + 1), i < j PROVE r[i] < r[j]
    BY <1>2
  <2>1. i \in 1..Len(q) /\ r[i] = q[i]
    BY <1>1, <1>2
  <2>2. CASE j \in 1..Len(q)
    BY <1>1, <1>2, <2>1, <2>2 DEF InOrder
  <2>3. CASE j = Len(q) + 1
    BY <1>1, <1>4, <2>1, <2>3
  <2> QED
    BY <1>2, <2>2, <2>3
<1>6. ASSUME NEW p PROVE p \in P \cup {n} <=> \E i \in DOMAIN r : r[i] = p
  <2>1. ASSUME p \in P PROVE \E i \in DOMAIN r : r[i] = p
    <3>1. PICK i \in 1..Len(q) : q[i] = p
      BY <1>2, <2>1 DEF InOrder
    <3>2. i \in DOMAIN r /\ r[i] = p
      BY <1>1, <1>2, <3>1
    <3> QED
      BY <3>2
  <2>2. n = r[Len(q) + 1] /\ Len(q) + 1 \in DOMAIN r
    BY <1>1, <1>2
  <2>3. ASSUME NEW i \in DOMAIN r, r[i] = p PROVE p \in P \cup {n}
    <3>1. i \in 1..Len(q) \/ i = Len(q) + 1
      BY <1>2
    <3> QED
      BY <1>1, <1>4, <2>3, <3>1
  <2> QED
    BY <2>1, <2>2, <2>3
<1> QED
  BY <1>3, <1>5, <1>6 DEF InOrder, r

\* The head of a list in order is its eldest prompt.
LEMMA HeadIsEldest ==
  ASSUME NEW P, NEW q \in Seq(Prompt), InOrder(q, P), NEW p \in P, Eldest(P) = p
  PROVE  /\ q # <<>> /\ Head(q) = p /\ RestOf(q) \in Seq(Prompt)
         /\ InOrder(RestOf(q), P \ {p})
<1>1. Len(q) \in Nat /\ DOMAIN q = 1..Len(q) /\ \A i \in 1..Len(q) : q[i] \in Nat
  BY LenProperties, RequestsAreNumbers
<1>2. PICK k \in 1..Len(q) : q[k] = p
  BY <1>1 DEF InOrder
<1>3. q # <<>> /\ Len(q) >= 1 /\ 1 \in 1..Len(q) /\ q[1] \in P
  BY <1>1, <1>2 DEF InOrder
<1>4. \A x \in P : q[1] <= x
  <2> SUFFICES ASSUME NEW x \in P PROVE q[1] <= x
    OBVIOUS
  <2>1. PICK i \in 1..Len(q) : q[i] = x
    BY <1>1 DEF InOrder
  <2>2. CASE i = 1
    BY <1>1, <1>3, <2>1, <2>2
  <2>3. CASE 1 < i
    <3>1. q[1] < q[i]
      BY <1>1, <1>3, <2>3 DEF InOrder
    <3> QED
      BY <1>1, <1>3, <2>1, <3>1
  <2> QED
    BY <1>1, <2>2, <2>3
<1>5. \A x \in P : p <= x
  BY <1>3, <1>4 DEF Eldest
<1>6. q[1] = p
  BY <1>1, <1>2, <1>3, <1>4, <1>5
<1>7. RestOf(q) = Tail(q) /\ Head(q) = q[1]
  BY <1>3, HeadTailProperties DEF RestOf
<1> DEFINE t == Tail(q)
<1>8. /\ t \in Seq(Prompt) /\ Len(t) = Len(q) - 1 /\ \A i \in 1..(Len(q) - 1) : t[i] = q[i + 1]
  BY <1>3, HeadTailProperties
<1>9. DOMAIN t = 1..(Len(q) - 1)
  BY <1>8, LenProperties
<1> HIDE DEF t
<1>10. \A i, j \in DOMAIN t : i < j => t[i] < t[j]
  <2> SUFFICES ASSUME NEW i \in 1..(Len(q) - 1), NEW j \in 1..(Len(q) - 1), i < j PROVE t[i] < t[j]
    BY <1>9
  <2>1. i + 1 \in DOMAIN q /\ j + 1 \in DOMAIN q /\ i + 1 < j + 1
    BY <1>1
  <2>2. q[i + 1] < q[j + 1]
    BY <2>1 DEF InOrder
  <2> QED
    BY <1>8, <2>2
<1>11. ASSUME NEW x PROVE x \in P \ {p} <=> \E i \in DOMAIN t : t[i] = x
  <2>1. ASSUME x \in P, x # p PROVE \E i \in DOMAIN t : t[i] = x
    <3>1. PICK j \in 1..Len(q) : q[j] = x
      BY <1>1, <2>1 DEF InOrder
    <3>2. j # 1
      BY <1>6, <2>1, <3>1
    <3>3. j - 1 \in DOMAIN t /\ t[j - 1] = x
      BY <1>1, <1>8, <1>9, <3>1, <3>2
    <3> QED
      BY <3>3
  <2>2. ASSUME NEW i \in DOMAIN t, t[i] = x PROVE x \in P /\ x # p
    <3>1. i + 1 \in 1..Len(q) /\ q[i + 1] = x /\ 1 < i + 1
      BY <1>1, <1>8, <1>9, <2>2
    <3>2. q[1] < q[i + 1]
      BY <1>1, <1>3, <3>1 DEF InOrder
    <3> QED
      BY <1>1, <1>3, <1>6, <3>1, <3>2 DEF InOrder
  <2> QED
    BY <2>1, <2>2
<1> QED
  BY <1>3, <1>6, <1>7, <1>8, <1>10, <1>11 DEF InOrder, t

\* What a list holds after a note was there before, or is the new prompt.
LEMMA NotedElements ==
  ASSUME NEW q \in Seq(Prompt), NEW n \in Prompt, NEW surface,
         NEW i \in DOMAIN Noted(q, n, surface)
  PROVE  Noted(q, n, surface)[i] = n \/ \E j \in DOMAIN q : Noted(q, n, surface)[i] = q[j]
<1>1. CASE surface # "gateway"
  BY <1>1 DEF Noted
<1>2. CASE surface = "gateway"
  <2> DEFINE r == Append(q, n)
             m == IF Len(r) > MaxPending THEN Len(r) - MaxPending + 1 ELSE 1
  <2>1. /\ r \in Seq(Prompt) /\ Len(r) = Len(q) + 1 /\ r[Len(q) + 1] = n
        /\ \A j \in 1..Len(q) : r[j] = q[j]
    BY AppendProperties
  <2>2. Len(q) \in Nat /\ DOMAIN q = 1..Len(q) /\ Len(r) \in Nat
    BY <2>1, LenProperties
  <2>3. m \in 1..(Len(r) + 1)
    BY <2>2, Bounds
  <2>4. Noted(q, n, surface) = SubSeq(r, m, Len(r))
    BY <1>2 DEF Noted, Last
  <2> HIDE DEF r, m
  <2>5. /\ Len(SubSeq(r, m, Len(r))) = (IF m <= Len(r) THEN Len(r) - m + 1 ELSE 0)
        /\ \A k \in 1..(Len(r) - m + 1) : SubSeq(r, m, Len(r))[k] = r[m + k - 1]
        /\ SubSeq(r, m, Len(r)) \in Seq(Prompt)
    BY <2>1, <2>2, <2>3, SubSeqProperties
  <2>6. i \in 1..(Len(r) - m + 1)
    BY <2>2, <2>3, <2>4, <2>5, LenProperties
  <2>7. Noted(q, n, surface)[i] = r[m + i - 1] /\ m + i - 1 \in 1..(Len(q) + 1)
    BY <2>1, <2>2, <2>3, <2>4, <2>5, <2>6
  <2> QED
    BY <2>1, <2>2, <2>7
<1> QED
  BY <1>1, <1>2
-----------------------------------------------------------------------------
(* What steps do to the prompts *)

LEMMA EldestIsThere ==
  ASSUME NEW T, T \subseteq Nat, T # {}
  PROVE  Eldest(T) \in T
<1>1. \E x \in T : \A y \in T : ~ (<<y, x>> \in OpToRel(<, Nat))
  BY NatLessThanWellFounded, WFMin
<1>2. PICK x \in T : \A y \in T : ~(y < x)
  BY <1>1 DEF OpToRel
<1>3. \A y \in T : x <= y
  BY <1>2
<1> QED
  BY <1>3 DEF Eldest

\* A prompt that is through stays what it is.
Kept(p) ==
  /\ p \in 1..asked' /\ prompt'[p].session = prompt[p].session /\ prompt'[p].surface = prompt[p].surface
  /\ prompt[p].phase = "done" => /\ prompt'[p].phase = "done"
                                 /\ prompt'[p].kind = prompt[p].kind /\ prompt'[p].by = prompt[p].by

\* Every step but the two hooks leaves open what is open.
Steady ==
  /\ asked' = asked
  /\ \A p \in 1..asked : Kept(p) /\ (prompt'[p].phase = "done" => prompt[p].phase = "done")

LEMMA PromptFields ==
  ASSUME LedgerTypeOK, NEW p \in 1..asked
  PROVE  prompt[p] \in PromptRecord /\ prompt[p].session \in Session
BY PromptsHaveShape DEF PromptRecord

\* Marking one prompt as decided, or as drawn.
LEMMA EditIsSteady ==
  ASSUME LedgerTypeOK, NEW p \in 1..asked, prompt[p].phase = "waiting", asked' = asked, NEW k,
         \/ prompt' = [prompt EXCEPT ![p].phase = "decided", ![p].kind = k]
         \/ prompt' = [prompt EXCEPT ![p].drawn = TRUE]
  PROVE  /\ Steady
         /\ \A q \in 1..asked : q # p => prompt'[q] = prompt[q]
         /\ prompt'[p].by = prompt[p].by
<1>1. prompt \in [1..asked -> PromptRecord]
  BY PromptsHaveShape
<1>2. prompt[p] \in PromptRecord
  BY <1>1
<1> DEFINE one == [prompt[p] EXCEPT !.phase = "decided", !.kind = k]
           two == [prompt[p] EXCEPT !.drawn = TRUE]
<1>3. /\ one.session = prompt[p].session /\ one.surface = prompt[p].surface
      /\ one.phase = "decided" /\ one.by = prompt[p].by
  BY <1>2 DEF PromptRecord
<1>4. /\ two.session = prompt[p].session /\ two.surface = prompt[p].surface
      /\ two.phase = "waiting" /\ two.by = prompt[p].by
  BY <1>2 DEF PromptRecord
<1>5. prompt' = [prompt EXCEPT ![p] = one] \/ prompt' = [prompt EXCEPT ![p] = two]
  BY <1>1
<1> HIDE DEF one, two, PromptRecord
<1>6. prompt'[p] = one \/ prompt'[p] = two
  BY <1>1, <1>5
<1>7. \A q \in 1..asked : q # p => prompt'[q] = prompt[q]
  BY <1>1, <1>5
<1> QED
  BY <1>3, <1>4, <1>6, <1>7 DEF Steady, Kept

\* The prompts that a decision settles are marked as the decider's.
LEMMA DecisionIsSteady ==
  ASSUME LedgerTypeOK, NEW m \in letters, HostDecides(m)
  PROVE  /\ Steady
         /\ \A p \in 1..asked : prompt'[p] = prompt[p] \/ (prompt[p].session = m.session /\ prompt'[p].by = m.user)
         /\ \A p \in 1..asked : prompt'[p].drawn = prompt[p].drawn
<1>0. asked' = asked /\ asked \in Nat
  BY PromptsHaveShape DEF HostDecides
<1> SUFFICES ASSUME NEW p \in 1..asked
             PROVE  /\ Kept(p) /\ (prompt'[p].phase = "done" => prompt[p].phase = "done")
                    /\ prompt'[p] = prompt[p] \/ (prompt[p].session = m.session /\ prompt'[p].by = m.user)
                    /\ prompt'[p].drawn = prompt[p].drawn
  BY <1>0 DEF Steady
<1>1. prompt[p] \in PromptRecord
  BY PromptFields
<1> DEFINE x == [prompt[p] EXCEPT !.phase = "decided", !.kind = "person", !.by = m.user]
<1>2. /\ x.session = prompt[p].session /\ x.surface = prompt[p].surface
      /\ x.phase = "decided" /\ x.by = m.user /\ x.drawn = prompt[p].drawn
  BY <1>1 DEF PromptRecord
<1> DEFINE W == Waiting(m.session)
           hit == IF W = {} THEN {} ELSE IF m.all THEN W ELSE {Eldest(W)}
<1>4. W \subseteq Nat
  BY <1>0 DEF Waiting, Open
<1>5. hit \subseteq W
  BY <1>4, EldestIsThere
<1>6. prompt'[p] = IF p \in hit THEN x ELSE prompt[p]
  BY DEF HostDecides
<1> HIDE DEF x, hit
<1>3. prompt'[p] = prompt[p] \/ (p \in Waiting(m.session) /\ prompt'[p] = x)
  BY <1>5, <1>6
<1> USE DEF x
<1> HIDE DEF x
<1> QED
  BY <1>0, <1>2, <1>3 DEF Kept, Waiting, Open

\* Every step that is not a hook is steady.
LEMMA QuietStepsAreSteady ==
  ASSUME LedgerTypeOK,
         \/ \E p \in Prompt : DecidedElsewhere(p) \/ \E a \in Adapter : Render(a, p)
         \/ \E p \in Prompt, kind \in Ends : HostEnds(p, kind)
         \/ \E m \in letters : HostDecides(m)
         \/ prompt' = prompt /\ asked' = asked
  PROVE  Steady
<1>1. asked \in Nat /\ \A p \in Prompt : p <= asked => p \in 1..asked
  BY PromptsHaveShape DEF Prompt
<1>2. ASSUME NEW p \in Prompt, DecidedElsewhere(p) \/ \E a \in Adapter : Render(a, p) PROVE Steady
  <2>1. /\ p \in 1..asked /\ prompt[p].phase = "waiting" /\ asked' = asked
        /\ \E k : \/ prompt' = [prompt EXCEPT ![p].phase = "decided", ![p].kind = k]
                  \/ prompt' = [prompt EXCEPT ![p].drawn = TRUE]
    BY <1>1, <1>2 DEF DecidedElsewhere, Render
  <2> QED
    BY <2>1, EditIsSteady
<1>3. ASSUME NEW p \in Prompt, NEW kind \in Ends, HostEnds(p, kind) PROVE Steady
  <2>1. /\ p \in 1..asked /\ prompt[p].phase = "waiting" /\ asked' = asked
        /\ prompt' = [prompt EXCEPT ![p].phase = "decided", ![p].kind = kind]
    BY <1>1, <1>3 DEF HostEnds
  <2> QED
    BY <2>1, EditIsSteady
<1>4. ASSUME NEW m \in letters, HostDecides(m) PROVE Steady
  BY <1>4, DecisionIsSteady
<1>5. CASE prompt' = prompt /\ asked' = asked
  BY <1>5 DEF Steady, Kept
<1> QED
  BY <1>2, <1>3, <1>4, <1>5

LEMMA SteadyKeepsOpen ==
  ASSUME Steady, NEW s
  PROVE  Open(s)' = Open(s)
BY DEF Steady, Kept, Open

\* A new prompt is open if a person is asked.
LEMMA AskOpens ==
  ASSUME LedgerTypeOK, NEW s \in Session, NEW surface \in Surface, Ask(s, surface),
         NEW n, n = asked + 1
  PROVE  /\ asked' = n /\ n \in Prompt /\ n \notin 1..asked /\ 1..n = 1..asked \cup {n}
         /\ \A p \in 1..asked : prompt'[p] = prompt[p] /\ p < n
         /\ prompt'[n].session = s /\ prompt'[n].surface = surface /\ prompt'[n].drawn = FALSE
         /\ prompt'[n].phase # "done" /\ prompt'[n].kind # "person"
<1> DEFINE x == NewPrompt(s, surface)
<1>1. x \in PromptRecord
  BY NewPromptShape
<1>2. asked \in Nat /\ asked' = n /\ n \in Prompt /\ n \notin 1..asked /\ 1..n = 1..asked \cup {n}
  BY Bounds DEF LedgerTypeOK, Ask, Prompt
<1>3. prompt' = Append(prompt, x)
  BY DEF Ask
<1>4. prompt \in [1..asked -> PromptRecord]
  BY PromptsHaveShape
<1>5. prompt \in Seq(PromptRecord) /\ Len(prompt) = asked
  BY <1>2, <1>4, SeqDef
<1> HIDE DEF x
<1>6. prompt'[n] = x /\ \A p \in 1..asked : prompt'[p] = prompt[p]
  BY <1>1, <1>2, <1>3, <1>5, AppendProperties
<1>7. x.session = s /\ x.surface = surface /\ x.drawn = FALSE /\ x.phase # "done" /\ x.kind # "person"
  BY NewPromptShape DEF x
<1>8. \A p \in 1..asked : p < n
  BY <1>2
<1> QED
  BY <1>2, <1>6, <1>7, <1>8

LEMMA AskOpensOne ==
  ASSUME LedgerTypeOK, NEW s \in Session, NEW surface \in Surface, Ask(s, surface),
         NEW n, n = asked + 1, NEW t
  PROVE  Open(t)' = IF t = s /\ surface = "gateway" THEN Open(t) \cup {n} ELSE Open(t)
<1>1. /\ asked' = n /\ n \notin 1..asked /\ 1..n = 1..asked \cup {n}
      /\ \A p \in 1..asked : prompt'[p] = prompt[p]
      /\ prompt'[n].session = s /\ prompt'[n].surface = surface /\ prompt'[n].phase # "done"
  BY AskOpens
<1> QED
  BY <1>1 DEF Open

\* The post hook is through with its prompt.
LEMMA PostHookCloses ==
  ASSUME LedgerTypeOK, NEW p \in Prompt, PostHook(p)
  PROVE  /\ p \in 1..asked /\ prompt[p].session \in Session /\ asked' = asked
         /\ prompt[p].surface = "gateway" => p \in Open(prompt[p].session)
         /\ prompt'[p].phase = "done"
         /\ \A q \in 1..asked : Kept(q) /\ prompt'[q].kind = prompt[q].kind /\ prompt'[q].by = prompt[q].by
                                /\ prompt'[q].drawn = prompt[q].drawn
         /\ \A q \in 1..asked : q # p => prompt'[q] = prompt[q]
<1>1. p \in 1..asked /\ asked' = asked /\ prompt[p].phase = "decided" /\ asked \in Nat
  BY PromptsHaveShape DEF PostHook, Prompt
<1>2. prompt[p] \in PromptRecord /\ prompt[p].session \in Session
  BY <1>1, PromptFields
<1> DEFINE x == [prompt[p] EXCEPT !.phase = "done"]
<1>3. /\ x.session = prompt[p].session /\ x.surface = prompt[p].surface
      /\ x.phase = "done" /\ x.kind = prompt[p].kind
      /\ x.by = prompt[p].by /\ x.drawn = prompt[p].drawn
  BY <1>2 DEF PromptRecord
<1>4. prompt \in [1..asked -> PromptRecord]
  BY PromptsHaveShape
<1>5. prompt' = [prompt EXCEPT ![p] = x]
  BY <1>4 DEF PostHook
<1> HIDE DEF x, PromptRecord
<1>6. prompt'[p] = x /\ \A q \in 1..asked : q # p => prompt'[q] = prompt[q]
  BY <1>1, <1>4, <1>5
<1>7. \A q \in 1..asked : Kept(q) /\ prompt'[q].kind = prompt[q].kind /\ prompt'[q].by = prompt[q].by
                          /\ prompt'[q].drawn = prompt[q].drawn
  BY <1>1, <1>3, <1>6 DEF Kept
<1>8. prompt[p].surface = "gateway" => p \in Open(prompt[p].session)
  BY <1>1 DEF Open
<1> QED
  BY <1>1, <1>2, <1>3, <1>6, <1>7, <1>8

LEMMA PostHookClosesOne ==
  ASSUME LedgerTypeOK, NEW p \in Prompt, PostHook(p), NEW t
  PROVE  Open(t)' = Open(t) \ {p}
<1>1. /\ p \in 1..asked /\ asked' = asked /\ prompt'[p].phase = "done"
      /\ \A q \in 1..asked : q # p => prompt'[q] = prompt[q]
  BY PostHookCloses
<1> QED
  BY <1>1 DEF Open
-----------------------------------------------------------------------------
(* Every outcome is audited under its own id *)

\* A step that is not a hook, of people or of the host.
LEMMA SteadyKeepsTheAudit ==
  ASSUME LedgerInv, AuditInv, Steady, UNCHANGED <<live, pending, reports, dropped, refused, upset>>,
         \A s : \A p \in Open(s) : prompt'[p].drawn => prompt[p].drawn \/ Owners(s)' # {},
         \A s : Owners(s) \subseteq Owners(s)'
  PROVE  AuditInv'
<1>1. \A s : Open(s)' = Open(s)
  BY SteadyKeepsOpen
<1>2. \A s : Keepers(s)' = Keepers(s)
  BY DEF Keepers
<1>3. IsFiniteSet(live)' /\ ListsAreExact' /\ OneKeeperEach'
  BY <1>1, <1>2 DEF AuditInv, ListsAreExact, OneKeeperEach
<1>4. PromptsHaveAKeeper'
  <2>0. Unsettled' \subseteq Unsettled
    BY DEF Unsettled, Steady, Kept
  <2> SUFFICES ASSUME NEW s \in Session \ upset
               PROVE  /\ s \in Unsettled => Keepers(s) # {}
                      /\ Open(s) # {} /\ Cardinality(live) > 1 =>
                           /\ \A p, q \in Open(s) : p = q
                           /\ \A p \in Open(s) : prompt'[p].drawn => Owners(s)' # {}
    BY <1>1, <1>2, <2>0 DEF PromptsHaveAKeeper
  <2>1. /\ s \in Unsettled => Keepers(s) # {}
        /\ Open(s) # {} /\ Cardinality(live) > 1 =>
             /\ \A p, q \in Open(s) : p = q
             /\ \A p \in Open(s) : prompt[p].drawn => Owners(s) # {}
    BY DEF AuditInv, PromptsHaveAKeeper
  <2>2. \A p \in Open(s) : p \in 1..asked /\ prompt[p].session = s
    BY DEF Open
  <2> QED
    BY <2>1, <2>2
<1>5. RequestsAreFiled'
  BY DEF AuditInv, RequestsAreFiled, Steady, Kept
<1>6. ReportsAreOfTheDone'
  BY DEF AuditInv, ReportsAreOfTheDone, LedgerInv, ReportsAreKnown, Steady, Kept
<1>7. TheDoneAreReported'
  BY DEF AuditInv, TheDoneAreReported, ReportedOnce, Steady, Kept, Settles
<1>8. RefusedAreTracked'
  <2>0. \A x \in refused : x.id \in 1..asked'
    BY DEF AuditInv, RefusedAreTracked, Steady
  <2> SUFFICES ASSUME NEW x \in refused, NEW s \in Session
               PROVE  prompt'[x.id].session = s /\ Settles(s)' => Tracked(x, s)'
    BY <2>0 DEF RefusedAreTracked
  <2>1. x.id \in 1..asked /\ (prompt[x.id].session = s /\ Settles(s) => Tracked(x, s))
    BY DEF AuditInv, RefusedAreTracked
  <2>2. x.id \in 1..asked' /\ prompt'[x.id].session = prompt[x.id].session
    BY <2>1 DEF Steady, Kept
  <2>3. Tracked(x, s) => Tracked(x, s)'
    BY <1>1 DEF Tracked
  <2> QED
    BY <2>1, <2>2, <2>3 DEF Settles
<1>9. ReportsMatchTheirPrompt'
  BY DEF AuditInv, ReportsMatchTheirPrompt, LedgerInv, ReportsAreKnown, Steady, Kept, Settles
<1> QED
  BY <1>3, <1>4, <1>5, <1>6, <1>7, <1>8, <1>9 DEF AuditInv

\* The decisions and the ends of prompts, and a prompt that is drawn.
LEMMA DecisionsKeepTheAudit ==
  ASSUME LedgerInv, AuditInv,
         \/ \E p \in Prompt : DecidedElsewhere(p) \/ \E a \in Adapter : Render(a, p)
         \/ \E p \in Prompt, kind \in Ends : HostEnds(p, kind)
         \/ \E m \in letters : HostDecides(m)
         \/ \E a \in Adapter, s \in Session, u \in User, all \in BOOLEAN : Accept(a, s, u, all)
         \/ UNCHANGED vars
  PROVE  AuditInv'
<1>0. LedgerTypeOK
  BY DEF LedgerInv
<1>1. asked \in Nat /\ \A p \in Prompt : p <= asked => p \in 1..asked
  BY <1>0, PromptsHaveShape DEF Prompt
<1>2. ASSUME Steady, UNCHANGED <<live, pending, routes, reports, dropped, refused, upset>>,
             \A p \in 1..asked : prompt'[p].drawn => prompt[p].drawn
      PROVE  AuditInv'
  <2>1. \A s : Owners(s)' = Owners(s)
    BY <1>2 DEF Owners
  <2> QED
    BY <1>2, <2>1, SteadyKeepsTheAudit DEF Open
<1>3. ASSUME NEW p \in Prompt, NEW kind,
             p <= asked, prompt[p].phase = "waiting", asked' = asked,
             prompt' = [prompt EXCEPT ![p].phase = "decided", ![p].kind = kind],
             UNCHANGED <<live, pending, routes, reports, dropped, refused, upset>>
      PROVE  AuditInv'
  <2>1. p \in 1..asked
    BY <1>1, <1>3
  <2>2. Steady /\ \A q \in 1..asked : q # p => prompt'[q] = prompt[q]
    BY <1>0, <1>3, <2>1, EditIsSteady
  <2>3. prompt[p] \in PromptRecord /\ prompt \in [1..asked -> PromptRecord]
    BY <1>0, <2>1, PromptsHaveShape
  <2>4. prompt'[p] = [prompt[p] EXCEPT !.phase = "decided", !.kind = kind]
    BY <1>3, <2>1, <2>3
  <2>5. prompt'[p].drawn = prompt[p].drawn
    BY <2>3, <2>4 DEF PromptRecord
  <2> QED
    BY <1>2, <1>3, <2>2, <2>5
<1>4. ASSUME NEW p \in Prompt, DecidedElsewhere(p) PROVE AuditInv'
  BY <1>3, <1>4 DEF DecidedElsewhere
<1>5. ASSUME NEW p \in Prompt, NEW kind \in Ends, HostEnds(p, kind) PROVE AuditInv'
  BY <1>3, <1>5 DEF HostEnds
<1>6. ASSUME NEW m \in letters, HostDecides(m) PROVE AuditInv'
  <2>1. Steady /\ \A p \in 1..asked : prompt'[p].drawn = prompt[p].drawn
    BY <1>0, <1>6, DecisionIsSteady
  <2> QED
    BY <1>2, <1>6, <2>1 DEF HostDecides
<1>7. ASSUME NEW p \in Prompt, NEW a \in Adapter, Render(a, p) PROVE AuditInv'
  <2>1. p \in 1..asked /\ prompt[p].session \in Session
    BY <1>0, <1>1, <1>7, PromptFields DEF Render
  <2>2. Steady /\ \A q \in 1..asked : q # p => prompt'[q] = prompt[q]
    BY <1>0, <1>7, <2>1, EditIsSteady DEF Render
  <2>3. \A s : Owners(s) \subseteq Owners(s)'
    BY <1>0, <1>7 DEF Owners, Render, LedgerTypeOK
  <2>4. \A s : prompt[p].session = s => a \in Owners(s)'
    BY <1>0, <1>7, <2>1 DEF Owners, Render, LedgerTypeOK
  <2>5. ASSUME NEW s, NEW q \in Open(s), prompt'[q].drawn, ~prompt[q].drawn PROVE Owners(s)' # {}
    <3>1. q \in 1..asked /\ prompt[q].session = s
      BY DEF Open
    <3> QED
      BY <2>2, <2>4, <2>5, <3>1
  <2> QED
    BY <1>7, <2>2, <2>3, <2>5, SteadyKeepsTheAudit DEF Render
<1>8. ASSUME NEW a \in Adapter, NEW s \in Session, NEW u \in User, NEW all \in BOOLEAN, Accept(a, s, u, all)
      PROVE  AuditInv'
  <2>1. Steady
    BY <1>0, <1>8, QuietStepsAreSteady DEF Accept
  <2> QED
    BY <1>2, <1>8, <2>1 DEF Accept
<1>9. CASE UNCHANGED vars
  <2>1. Steady
    BY <1>0, <1>9, QuietStepsAreSteady DEF vars
  <2> QED
    BY <1>2, <1>9, <2>1 DEF vars
<1> QED
  BY <1>4, <1>5, <1>6, <1>7, <1>8, <1>9
\* The pre hook notes the prompt at the end of every list.
LEMMA AskKeepsTheAudit ==
  ASSUME LedgerInv, AuditInv, NEW s \in Session, NEW surface \in Surface, Ask(s, surface)
  PROVE  AuditInv'
<1>0. LedgerTypeOK
  BY DEF LedgerInv
<1>n. PICK n : n = asked + 1
  OBVIOUS
<1>1. /\ asked' = n /\ n \in Prompt /\ n \notin 1..asked /\ 1..n = 1..asked \cup {n}
      /\ \A p \in 1..asked : prompt'[p] = prompt[p] /\ p < n
      /\ prompt'[n].session = s /\ prompt'[n].drawn = FALSE /\ prompt'[n].phase # "done"
      /\ \A t : Open(t)' = IF t = s /\ surface = "gateway" THEN Open(t) \cup {n} ELSE Open(t)
  <2>1. ASSUME NEW t PROVE Open(t)' = IF t = s /\ surface = "gateway" THEN Open(t) \cup {n} ELSE Open(t)
    BY <1>0, <1>n, AskOpensOne
  <2> QED
    BY <1>0, <1>n, <2>1, AskOpens
<1>2. /\ UNCHANGED <<live, routes, reports, dropped, refused>> /\ upset \subseteq upset'
      /\ surface = "gateway" /\ Open(s) # {} /\ (Cardinality(live) > 1 \/ Cardinality(Open(s)) >= MaxPending) => s \in upset'
      /\ live # {} /\ (Ours(s) => \E a \in live : Profile(a) = HomeOf(s))
  BY DEF Ask
<1>3. \A a \in Adapter, t \in Session :
        /\ pending[a][t] \in Seq(Prompt)
        /\ pending'[a][t] = IF a \in live /\ t = s THEN Noted(pending[a][t], n, surface) ELSE pending[a][t]
  <2>1. \A a \in Adapter : pending[a] \in [Session -> Seq(Prompt)]
    BY <1>0 DEF LedgerTypeOK
  <2> QED
    BY <1>n, <2>1 DEF Ask
<1>4. /\ \A t : Keepers(t)' = Keepers(t) /\ Owners(t)' = Owners(t)
      /\ live \subseteq Adapter
  BY <1>0, <1>2 DEF Keepers, Owners, LedgerTypeOK
<1>5. RequestsAreFiled'
  <2> SUFFICES ASSUME NEW a \in Adapter, NEW t \in Session
               PROVE  /\ \A i \in DOMAIN pending'[a][t] :
                            pending'[a][t][i] \in 1..n /\ prompt'[pending'[a][t][i]].session = t
                      /\ a \notin live => pending'[a][t] = <<>>
    BY <1>1, <1>2 DEF RequestsAreFiled
  <2>1. /\ \A i \in DOMAIN pending[a][t] : pending[a][t][i] \in 1..asked /\ prompt[pending[a][t][i]].session = t
        /\ a \notin live => pending[a][t] = <<>>
    BY DEF AuditInv, RequestsAreFiled
  <2>2. CASE pending'[a][t] = pending[a][t]
    BY <1>1, <2>1, <2>2
  <2>3. CASE a \in live /\ t = s
    <3> SUFFICES ASSUME NEW i \in DOMAIN pending'[a][t]
                 PROVE  pending'[a][t][i] \in 1..n /\ prompt'[pending'[a][t][i]].session = t
      BY <2>3
    <3>1. pending'[a][t][i] = n \/ \E j \in DOMAIN pending[a][t] : pending'[a][t][i] = pending[a][t][j]
      BY <1>1, <1>3, <2>3, NotedElements
    <3> QED
      BY <1>1, <2>1, <2>3, <3>1
  <2> QED
    BY <1>3, <2>2, <2>3
<1>6. ListsAreExact'
  <2> SUFFICES ASSUME NEW t \in Session \ upset', NEW a \in Keepers(t)
               PROVE  InOrder(pending'[a][t], Open(t)')
    BY <1>4 DEF ListsAreExact
  <2>1. /\ t \in Session \ upset /\ a \in live /\ a \in Adapter
        /\ pending[a][t] \in Seq(Prompt) /\ InOrder(pending[a][t], Open(t))
    BY <1>2, <1>3, <1>4 DEF Keepers, AuditInv, ListsAreExact
  <2>2. CASE t # s \/ surface # "gateway"
    <3>1. Open(t)' = Open(t)
      BY <1>1, <2>2
    <3>2. pending'[a][t] = pending[a][t]
      BY <1>3, <2>1, <2>2 DEF Noted
    <3> QED
      BY <2>1, <3>1, <3>2
  <2>3. CASE t = s /\ surface = "gateway"
    <3>1. pending'[a][t] = Last(Append(pending[a][t], n))
      BY <1>3, <2>1, <2>3 DEF Noted
    <3>2. Open(t)' = Open(t) \cup {n} /\ \A p \in Open(t) : p < n
      BY <1>1, <2>3 DEF Open
    <3>3. Len(pending[a][t]) = Cardinality(Open(t)) /\ Len(pending[a][t]) \in Nat
      BY <2>1, OrderedLists
    <3>4. Open(t) = {} => Cardinality(Open(t)) = 0
      BY FS_EmptySet
    <3>5. ~(Cardinality(Open(t)) >= MaxPending)
      BY <1>2, <2>3, <3>3, <3>4, Bounds
    <3>6. Len(pending[a][t]) < MaxPending
      BY <3>3, <3>5, Bounds
    <3> QED
      BY <1>1, <2>1, <3>1, <3>2, <3>6, AppendInOrder
  <2> QED
    BY <2>2, <2>3
<1>7. PromptsHaveAKeeper'
  <2>0. ASSUME NEW t \in Session \ upset', t \in Unsettled' PROVE Keepers(t) # {}
    <3>1. CASE t = s
      BY <1>2, <3>1 DEF Keepers
    <3>2. CASE t # s
      <4>1. PICK p \in 1..n : prompt'[p].session = t /\ prompt'[p].phase # "done"
        BY <1>1, <2>0 DEF Unsettled
      <4>2. p \in 1..asked /\ prompt'[p] = prompt[p]
        BY <1>1, <3>2, <4>1
      <4>3. t \in Unsettled
        BY <4>1, <4>2 DEF Unsettled
      <4> QED
        BY <1>2, <4>3 DEF AuditInv, PromptsHaveAKeeper
    <3> QED
      BY <3>1, <3>2
  <2> SUFFICES ASSUME NEW t \in Session \ upset', Open(t)' # {}
               PROVE  Cardinality(live) > 1 =>
                        /\ \A p, q \in Open(t)' : p = q
                        /\ \A p \in Open(t)' : prompt'[p].drawn => Owners(t) # {}
    BY <1>2, <1>4, <2>0 DEF PromptsHaveAKeeper
  <2>1. t \in Session \ upset
    BY <1>2
  <2>2. CASE t # s \/ surface # "gateway"
    <3>1. Open(t)' = Open(t) /\ \A p \in Open(t) : prompt'[p] = prompt[p]
      BY <1>1, <2>2 DEF Open
    <3> QED
      BY <2>1, <3>1 DEF AuditInv, PromptsHaveAKeeper
  <2>3. CASE t = s /\ surface = "gateway"
    <3>2. ASSUME Cardinality(live) > 1 PROVE Open(t)' = {n}
      BY <1>1, <1>2, <2>3, <3>2
    <3> QED
      BY <1>1, <3>2
  <2> QED
    BY <2>2, <2>3
<1>8. ReportsAreOfTheDone'
  BY <1>1, <1>2 DEF AuditInv, ReportsAreOfTheDone, LedgerInv, ReportsAreKnown
<1>9. TheDoneAreReported'
  <2> SUFFICES ASSUME NEW p \in 1..n, prompt'[p].phase = "done", prompt'[p].surface = "gateway",
                      p \notin dropped', prompt'[p].session \notin upset'
               PROVE  ReportedOnce(p)'
    BY <1>1 DEF TheDoneAreReported, Settles
  <2>1. p \in 1..asked
    BY <1>1
  <2>2. ReportedOnce(p)
    BY <1>1, <1>2, <2>1 DEF AuditInv, TheDoneAreReported, Settles
  <2> QED
    BY <1>2, <2>2 DEF ReportedOnce
<1>10. RefusedAreTracked'
  <2> SUFFICES ASSUME NEW x \in refused, NEW t \in Session
               PROVE  /\ x.id \in 1..n
                      /\ prompt'[x.id].session = t /\ t \notin upset' => Tracked(x, t)'
    BY <1>1, <1>2 DEF RefusedAreTracked, Settles
  <2>1. x.id \in 1..asked /\ (prompt[x.id].session = t /\ t \notin upset => Tracked(x, t))
    BY DEF AuditInv, RefusedAreTracked, Settles
  <2>2. Tracked(x, t) => Tracked(x, t)'
    BY <1>1, <1>2 DEF Tracked
  <2> QED
    BY <1>1, <1>2, <2>1, <2>2
<1>11. ReportsMatchTheirPrompt'
  BY <1>1, <1>2 DEF AuditInv, ReportsMatchTheirPrompt, LedgerInv, ReportsAreKnown, Settles
<1>12. IsFiniteSet(live)' /\ OneKeeperEach'
  BY <1>2 DEF AuditInv, OneKeeperEach
<1> QED
  BY <1>5, <1>6, <1>7, <1>8, <1>9, <1>10, <1>11, <1>12 DEF AuditInv

\* A refusal names a request that is open, at the session's own profile.
LEMMA RefuseKeepsTheAudit ==
  ASSUME LedgerInv, AuditInv, NEW a \in Adapter, NEW s \in Session, NEW u \in User, Refuse(a, s, u)
  PROVE  AuditInv'
<1>0. LedgerTypeOK
  BY DEF LedgerInv
<1>1. UNCHANGED <<live, pending, routes, reports, dropped, upset, asked, prompt>>
  BY DEF Refuse
<1>2. a \in live /\ Profile(a) = HomeOf(s)
  BY DEF Refuse, Sends
<1>3. ASSUME NEW id \in PendingIds(a, s), NEW t \in Session
      PROVE  id \in 1..asked /\ (prompt[id].session = t /\ Settles(t) => id \in Open(t) /\ Profile(a) = HomeOf(t))
  <2>1. PICK r \in Session : pending[a][r] # <<>> /\ id = Head(pending[a][r]) /\ Profile(a) = HomeOf(r)
    <3>1. \A r \in routes[a] : r \in Session /\ Profile(a) = HomeOf(r)
      BY <1>0 DEF LedgerInv, LedgerTypeOK, RoutesAreHome
    <3>2. CASE pending[a][s] # <<>>
      BY <1>2, <3>2 DEF PendingIds
    <3>3. CASE pending[a][s] = <<>>
      <4>1. PICK r \in routes[a] : pending[a][r] # <<>> /\ id = Head(pending[a][r])
        BY <3>3 DEF PendingIds
      <4> QED
        BY <3>1, <4>1
    <3> QED
      BY <3>2, <3>3
  <2>2. pending[a][r] \in Seq(Prompt)
    BY <1>0 DEF LedgerTypeOK
  <2>3. 1 \in DOMAIN pending[a][r] /\ id = pending[a][r][1]
    BY <2>1, <2>2, HeadTailProperties, LenProperties
  <2>4. id \in 1..asked /\ prompt[id].session = r
    BY <2>3 DEF AuditInv, RequestsAreFiled
  <2>5. Settles(r) => id \in Open(r)
    <3>1. a \in Keepers(r)
      BY <1>2, <2>1 DEF Keepers
    <3> QED
      BY <2>3, <3>1 DEF AuditInv, ListsAreExact, InOrder, Settles
  <2> QED
    BY <2>1, <2>4, <2>5
<1>4. RefusedAreTracked'
  <2> SUFFICES ASSUME NEW x \in refused', NEW t \in Session
               PROVE  x.id \in 1..asked /\ (prompt[x.id].session = t /\ Settles(t) => Tracked(x, t))
    BY <1>1 DEF RefusedAreTracked, Settles, Tracked, Open
  <2>1. CASE x \in refused
    BY <2>1 DEF AuditInv, RefusedAreTracked
  <2>2. CASE x \notin refused
    <3>1. PICK id \in PendingIds(a, s) : x = [adapter |-> a, id |-> id]
      BY <2>2 DEF Refuse
    <3>2. x.id = id /\ x.adapter = a
      BY <3>1
    <3> QED
      BY <1>2, <1>3, <3>2 DEF Tracked
  <2> QED
    BY <2>1, <2>2
<1>5. IsFiniteSet(live)' /\ OneKeeperEach' /\ RequestsAreFiled' /\ ReportsAreOfTheDone'
  BY <1>1 DEF AuditInv, OneKeeperEach, RequestsAreFiled, ReportsAreOfTheDone
<1>6. \A t : Keepers(t)' = Keepers(t) /\ Owners(t)' = Owners(t) /\ Open(t)' = Open(t)
  BY <1>1 DEF Keepers, Owners, Open
<1>7. ListsAreExact' /\ PromptsHaveAKeeper'
  BY <1>1, <1>6 DEF AuditInv, ListsAreExact, PromptsHaveAKeeper, Unsettled
<1>8. TheDoneAreReported' /\ ReportsMatchTheirPrompt'
  BY <1>1 DEF AuditInv, TheDoneAreReported, ReportsMatchTheirPrompt, ReportedOnce, Settles
<1> QED
  BY <1>4, <1>5, <1>7, <1>8 DEF AuditInv

\* Nothing is open in what stays settled while ledgers come, go or lapse.
LEMMA ComingsKeepTheAudit ==
  ASSUME LedgerInv, AuditInv, QuietTime \/ \E a \in Adapter : Come(a) \/ Collected(a)
  PROVE  AuditInv'
<1>0. LedgerTypeOK
  BY DEF LedgerInv
<1>1. UNCHANGED <<reports, dropped, refused, asked, prompt>> /\ upset \subseteq upset'
  BY DEF QuietTime, Come, Collected
<1>2. /\ \A s : Open(s)' = Open(s)
      /\ Unsettled' = Unsettled
  BY <1>1 DEF Open, Unsettled
<1>o. \A s : s \notin Unsettled => Open(s) = {}
  BY DEF Open, Unsettled
<1>3. \A s \in Session \ upset' : Open(s) = {} /\ s \notin upset
  BY <1>o DEF QuietTime, Come, Collected
<1>k. OneKeeperEach'
  <2>1. ASSUME NEW a \in Adapter, Come(a) PROVE OneKeeperEach'
    <3>1. live' = live \cup {a} /\ Twins(a) \subseteq upset' /\ upset \subseteq upset'
      BY <2>1 DEF Come
    <3> QED
      BY <3>1 DEF Twins, AuditInv, OneKeeperEach
  <2>2. ASSUME live' \subseteq live PROVE OneKeeperEach'
    BY <1>1, <2>2 DEF AuditInv, OneKeeperEach
  <2>3. QuietTime \/ (\E a \in Adapter : Collected(a)) => live' \subseteq live
    BY DEF QuietTime, Collected
  <2> QED
    BY <2>1, <2>2, <2>3
<1>4. IsFiniteSet(live)'
  <2>1. live' = live \/ \E a : live' = live \cup {a} \/ live' = live \ {a}
    BY DEF QuietTime, Come, Collected
  <2> QED
    BY <2>1, FS_AddElement, FS_RemoveElement DEF AuditInv
<1>5. \A a \in Adapter, s \in Session :
        /\ pending'[a][s] = pending[a][s] \/ pending'[a][s] = <<>>
        /\ a \notin live' => pending'[a][s] = <<>>
        /\ a \in live' => a \in live \/ pending'[a][s] = <<>>
  <2>1. \A a \in Adapter : pending[a] \in [Session -> Seq(Prompt)]
    BY <1>0 DEF LedgerTypeOK
  <2>2. \A a \in Adapter, s \in Session : a \notin live => pending[a][s] = <<>>
    BY DEF AuditInv, RequestsAreFiled
  <2>3. CASE QuietTime
    BY <2>3 DEF QuietTime
  <2>4. ASSUME NEW a \in Adapter, Come(a)
        PROVE  pending' = pending /\ live' = live \cup {a} /\ a \notin live
    BY <2>4 DEF Come
  <2>5. ASSUME NEW a \in Adapter, Collected(a)
        PROVE  /\ live' = live \ {a} /\ \A s \in Session : pending'[a][s] = <<>>
               /\ \A b \in Adapter : b # a => pending'[b] = pending[b]
    BY <1>0, <2>5 DEF Collected, LedgerTypeOK
  <2> QED
    BY <2>2, <2>3, <2>4, <2>5
<1>6. RequestsAreFiled'
  BY <1>1, <1>5 DEF AuditInv, RequestsAreFiled
<1>7. ListsAreExact'
  <2> SUFFICES ASSUME NEW s \in Session \ upset', NEW a \in Keepers(s)'
               PROVE  InOrder(pending'[a][s], {})
    BY <1>2, <1>3 DEF ListsAreExact
  <2>1. a \in live' /\ (Ours(s) => Profile(a) = HomeOf(s)) /\ a \in Adapter
    BY <1>0, TypesNext DEF Keepers, LedgerTypeOK, QuietTime, Come, Collected
  <2>2. CASE pending'[a][s] = <<>>
    BY <2>2 DEF InOrder
  <2>3. CASE a \in live /\ pending'[a][s] = pending[a][s]
    BY <1>3, <2>1, <2>3 DEF AuditInv, ListsAreExact, Keepers
  <2> QED
    BY <1>5, <2>1, <2>2, <2>3
<1>8. PromptsHaveAKeeper'
  <2> SUFFICES ASSUME NEW s \in Session \ upset', s \in Unsettled PROVE Keepers(s)' # {}
    BY <1>2, <1>3 DEF PromptsHaveAKeeper
  <2>1. QuietTime
    BY DEF Come, Collected
  <2>2. Keepers(s)' = Keepers(s)
    BY <2>1 DEF QuietTime, Keepers
  <2> QED
    BY <1>3, <2>2 DEF AuditInv, PromptsHaveAKeeper
<1>9. ReportsAreOfTheDone'
  BY <1>1 DEF AuditInv, ReportsAreOfTheDone
<1>10. TheDoneAreReported' /\ ReportsMatchTheirPrompt'
  BY <1>1 DEF AuditInv, TheDoneAreReported, ReportedOnce, Settles, ReportsMatchTheirPrompt
<1>11. RefusedAreTracked'
  BY <1>1, <1>2, <1>3 DEF AuditInv, RefusedAreTracked, Tracked, Settles
<1> QED
  BY <1>k, <1>4, <1>6, <1>7, <1>8, <1>9, <1>10, <1>11 DEF AuditInv
\* A settled session has one ledger to ask, and that one keeps its list.
LEMMA SoleCandidate ==
  ASSUME LedgerInv, AuditInv, NEW s \in Session \ upset, NEW p \in Open(s),
         Cardinality(live) > 1 => prompt[p].drawn
  PROVE  \E k \in live : k \in Adapter /\ Keepers(s) = {k} /\ Candidates(s) = {k}
<1>0. s \in Unsettled
  BY DEF Open, Unsettled
<1>1. /\ Keepers(s) # {} /\ Keepers(s) \subseteq live /\ live \subseteq Adapter /\ Owners(s) \subseteq live
      /\ Cardinality(live) > 1 => Owners(s) # {}
  BY <1>0 DEF AuditInv, PromptsHaveAKeeper, Keepers, Owners, LedgerInv, LedgerTypeOK
<1>2. \A a \in Owners(s) : Profile(a) = HomeOf(s) /\ a \in Adapter /\ a \in live
  BY DEF Owners, LedgerInv, LedgerTypeOK, RoutesAreHome
<1>3. IsFiniteSet(live) /\ Cardinality(live) \in Nat
  BY FS_CardinalityType DEF AuditInv
<1>4. CASE Cardinality(live) > 1
  <2>1. PICK k \in Owners(s) : TRUE
    BY <1>1, <1>4
  <2>2. Ours(s) /\ \A a \in Owners(s) : a = k
    BY <1>2, <2>1 DEF Ours, AuditInv, OneKeeperEach
  <2>3. Keepers(s) = {k}
    BY <1>1, <1>2, <2>1, <2>2 DEF Keepers, AuditInv, OneKeeperEach
  <2>4. Candidates(s) = {k}
    BY <2>1, <2>2 DEF Candidates
  <2> QED
    BY <1>2, <2>1, <2>3, <2>4
<1>5. CASE ~(Cardinality(live) > 1)
  <2>1. Cardinality(live) # 0
    BY <1>1, <1>3, FS_EmptySet
  <2>2. Cardinality(live) = 1
    BY <1>3, <1>5, <2>1
  <2>3. PICK k : live = {k}
    BY <1>3, <2>2, FS_Singleton
  <2>4. Keepers(s) = {k} /\ Candidates(s) = {k}
    BY <1>1, <2>2, <2>3 DEF Candidates
  <2> QED
    BY <1>1, <2>3, <2>4
<1> QED
  BY <1>4, <1>5

\* What the post hook does with what the candidates hold.
LEMMA PostHookClaims ==
  ASSUME NEW p, PostHook(p), NEW s, s = prompt[p].session
  PROVE  \/ \E a \in Candidates(s), T \in SUBSET Candidates(s) :
              /\ pending[a][s] # <<>> /\ (\A b \in T : pending[b][s] = <<>>)
              /\ Resolve(T \cup {a}, s)
              /\ \/ reports' = reports \cup {Report(a, p)} /\ dropped' = dropped
                 \/ reports' = reports /\ dropped' = dropped \cup {p}
         \/ /\ \A a \in Candidates(s) : pending[a][s] = <<>>
            /\ Resolve(Candidates(s), s) /\ reports' = reports /\ dropped' = dropped
<1> DEFINE holders == {a \in Candidates(s) : pending[a][s] # <<>>}
<1>1. \/ \E a \in holders, T \in SUBSET (Candidates(s) \ holders) :
            /\ Resolve(T \cup {a}, s)
            /\ \/ reports' = reports \cup {Report(a, p)} /\ dropped' = dropped
               \/ reports' = reports /\ dropped' = dropped \cup {p}
      \/ holders = {} /\ Resolve(Candidates(s), s) /\ reports' = reports /\ dropped' = dropped
  BY DEF PostHook
<1> QED
  BY <1>1

\* While a session is settled, the post hook of a prompt that is open takes that
\* prompt's request, and reports or drops its outcome.
LEMMA SettledPostHook ==
  ASSUME LedgerInv, AuditInv, NEW p \in Prompt, PostHook(p), prompt[p].surface = "gateway",
         NEW s, s = prompt[p].session, s \notin upset'
  PROVE  \E k \in live :
           /\ k \in Adapter /\ Keepers(s) = {k} /\ Report(k, p).id = p
           /\ \/ reports' = reports \cup {Report(k, p)}
              \/ reports' = reports /\ p \in dropped'
           /\ InOrder(pending'[k][s], Open(s) \ {p})
<1>1. p \in Open(s) /\ s \in Session /\ p \in 1..asked
  BY PostHookCloses DEF LedgerInv
<1>2. s \notin upset /\ Eldest(Open(s)) = p /\ (Cardinality(live) > 1 => prompt[p].drawn)
  BY <1>1 DEF PostHook, Strays
<1>3. PICK k \in live : k \in Adapter /\ Keepers(s) = {k} /\ Candidates(s) = {k}
  BY <1>1, <1>2, SoleCandidate
<1>4. pending[k] \in [Session -> Seq(Prompt)] /\ pending \in [Adapter -> [Session -> Seq(Prompt)]]
  BY <1>3 DEF LedgerInv, LedgerTypeOK
<1>5. pending[k][s] \in Seq(Prompt) /\ InOrder(pending[k][s], Open(s))
  BY <1>1, <1>2, <1>3, <1>4 DEF AuditInv, ListsAreExact
<1>6. /\ pending[k][s] # <<>> /\ Head(pending[k][s]) = p
      /\ InOrder(RestOf(pending[k][s]), Open(s) \ {p})
  BY <1>1, <1>2, <1>5, HeadIsEldest
<1>7. /\ Resolve({k}, s)
      /\ \/ reports' = reports \cup {Report(k, p)}
         \/ reports' = reports /\ p \in dropped'
  <2>1. PICK T \in SUBSET Candidates(s) :
          /\ \A b \in T : pending[b][s] = <<>>
          /\ Resolve(T \cup {k}, s)
          /\ \/ reports' = reports \cup {Report(k, p)} /\ dropped' = dropped
             \/ reports' = reports /\ dropped' = dropped \cup {p}
    BY <1>3, <1>6, PostHookClaims
  <2>2. T \cup {k} = {k}
    BY <1>3, <2>1
  <2> QED
    BY <2>1, <2>2
<1>8. pending'[k][s] = RestOf(pending[k][s])
  BY <1>1, <1>3, <1>4, <1>7 DEF Resolve
<1>9. Report(k, p).id = p
  BY <1>6 DEF Report
<1> QED
  BY <1>3, <1>6, <1>7, <1>8, <1>9

\* The post hook of a verdict finds nothing on the lists of a settled session.
LEMMA SettledVerdict ==
  ASSUME LedgerInv, AuditInv, NEW p \in Prompt, PostHook(p), prompt[p].surface # "gateway",
         NEW s, s = prompt[p].session, s \notin upset'
  PROVE  /\ Open(s) = {} /\ reports' = reports
         /\ \A a \in Keepers(s) : InOrder(pending'[a][s], {})
<1>1. s \in Session /\ p \in 1..asked /\ prompt[p].phase = "decided"
  BY PostHookCloses DEF LedgerInv, PostHook
<1>2. s \notin upset /\ Open(s) = {}
  <2>1. s \notin upset /\ (Open(s) # {} => Eldest(Open(s)) = p)
    BY DEF PostHook, Strays
  <2>2. p \notin Open(s)
    BY DEF Open
  <2>3. Open(s) \subseteq Nat
    BY DEF Open, LedgerInv, LedgerTypeOK
  <2> QED
    BY <2>1, <2>2, <2>3, EldestIsThere
<1>3. live \subseteq Adapter /\ \A a \in Adapter : pending[a][s] \in Seq(Prompt)
  BY <1>1 DEF LedgerInv, LedgerTypeOK
<1>4. \A a \in Keepers(s) : pending[a][s] = <<>>
  <2> SUFFICES ASSUME NEW a \in Keepers(s), pending[a][s] # <<>> PROVE FALSE
    OBVIOUS
  <2>1. InOrder(pending[a][s], {}) /\ pending[a][s] \in Seq(Prompt)
    BY <1>1, <1>2, <1>3 DEF AuditInv, ListsAreExact, Keepers
  <2>2. 1 \in DOMAIN pending[a][s]
    BY <2>1, HeadTailProperties, LenProperties
  <2> QED
    BY <2>1, <2>2 DEF InOrder
<1>5. Candidates(s) \subseteq Keepers(s)
  <2>1. Owners(s) \subseteq Keepers(s)
    BY <1>3 DEF Owners, Keepers, LedgerInv, RoutesAreHome
  <2>2. s \in Unsettled
    BY <1>1 DEF Unsettled
  <2>3. Keepers(s) # {} /\ Keepers(s) \subseteq live
    BY <1>1, <1>2, <2>2 DEF AuditInv, PromptsHaveAKeeper, Keepers
  <2>4. Cardinality(live) = 1 => Keepers(s) = live
    <3>1. ASSUME Cardinality(live) = 1 PROVE \E k : live = {k}
      BY <3>1, FS_Singleton DEF AuditInv
    <3> QED
      BY <2>3, <3>1
  <2> QED
    BY <2>1, <2>4 DEF Candidates
<1>6. reports' = reports /\ Resolve(Candidates(s), s)
  BY <1>4, <1>5, PostHookClaims
<1>7. \A a \in Keepers(s) : pending'[a][s] = <<>>
  BY <1>1, <1>3, <1>4, <1>6 DEF Resolve, RestOf, Keepers, LedgerInv, LedgerTypeOK
<1> QED
  BY <1>2, <1>6, <1>7 DEF InOrder

\* The post hook takes a request of its session, wherever it finds one.
LEMMA PostHookKeepsTheAudit ==
  ASSUME LedgerInv, AuditInv, NEW p \in Prompt, PostHook(p)
  PROVE  AuditInv'
<1>0. LedgerTypeOK
  BY DEF LedgerInv
<1>n. PICK s : s = prompt[p].session
  OBVIOUS
<1>1. /\ p \in 1..asked /\ s \in Session /\ asked' = asked /\ prompt'[p].phase = "done"
      /\ prompt[p].phase # "done"
      /\ prompt[p].surface = "gateway" => p \in Open(s)
      /\ prompt[p].surface # "gateway" => \A t : p \notin Open(t)
      /\ \A q \in 1..asked : Kept(q) /\ prompt'[q].drawn = prompt[q].drawn
      /\ \A q \in 1..asked : q # p => prompt'[q] = prompt[q]
  BY <1>0, <1>n, PostHookCloses DEF PostHook, Open
<1>2. \A t : Open(t)' = Open(t) \ {p}
  <2>1. ASSUME NEW t PROVE Open(t)' = Open(t) \ {p}
    BY <1>0, PostHookClosesOne
  <2> QED
    BY <2>1
<1>3. /\ UNCHANGED <<live, refused>> /\ upset \subseteq upset'
      /\ reports' = reports \/ \E a \in Candidates(s) : reports' = reports \cup {Report(a, p)}
      /\ dropped \subseteq dropped' /\ dropped' \subseteq dropped \cup {p}
      /\ \E A : Resolve(A, s)
  BY <1>n DEF PostHook
<1>4. /\ \A a \in Adapter, t \in Session :
           /\ pending[a][t] \in Seq(Prompt)
           /\ pending'[a][t] = pending[a][t] \/ (t = s /\ pending'[a][t] = RestOf(pending[a][t]))
      /\ \A a \in Adapter, t \in Session : t # s /\ t \in routes[a] => t \in routes'[a]
  <2>1. \A a \in Adapter : pending[a] \in [Session -> Seq(Prompt)]
    BY <1>0 DEF LedgerTypeOK
  <2> QED
    BY <1>3, <2>1 DEF Resolve
<1>5. \A r \in reports' \ reports : r.prompt = p
  BY <1>3 DEF Report
<1>6. \A r \in reports : r.prompt # p
  BY <1>1 DEF AuditInv, ReportsAreOfTheDone
<1>s. ASSUME s \notin upset', prompt[p].surface = "gateway"
      PROVE  \E k \in live :
               /\ k \in Adapter /\ Keepers(s) = {k} /\ Report(k, p).id = p
               /\ \/ reports' = reports \cup {Report(k, p)}
                  \/ reports' = reports /\ p \in dropped'
               /\ InOrder(pending'[k][s], Open(s) \ {p})
  BY <1>n, <1>s, SettledPostHook
<1>v. ASSUME s \notin upset', prompt[p].surface # "gateway"
      PROVE  /\ Open(s) = {} /\ reports' = reports
             /\ \A a \in Keepers(s) : InOrder(pending'[a][s], {})
  BY <1>n, <1>v, SettledVerdict
<1>k. OneKeeperEach'
  BY <1>3 DEF AuditInv, OneKeeperEach
<1>7. RequestsAreFiled'
  <2> SUFFICES ASSUME NEW a \in Adapter, NEW t \in Session
               PROVE  /\ \A i \in DOMAIN pending'[a][t] :
                            pending'[a][t][i] \in 1..asked /\ prompt'[pending'[a][t][i]].session = t
                      /\ a \notin live => pending'[a][t] = <<>>
    BY <1>1, <1>3 DEF RequestsAreFiled
  <2>1. /\ \A i \in DOMAIN pending[a][t] : pending[a][t][i] \in 1..asked /\ prompt[pending[a][t][i]].session = t
        /\ a \notin live => pending[a][t] = <<>>
    BY DEF AuditInv, RequestsAreFiled
  <2>2. /\ \A i \in DOMAIN pending'[a][t] : \E j \in DOMAIN pending[a][t] : pending'[a][t][i] = pending[a][t][j]
        /\ pending[a][t] = <<>> => pending'[a][t] = <<>>
    <3>1. CASE pending'[a][t] = pending[a][t]
      BY <3>1
    <3>2. CASE pending'[a][t] = RestOf(pending[a][t]) /\ pending[a][t] # <<>>
      <4> PICK q \in Seq(Prompt) : q = pending[a][t]
        BY <1>4
      <4>1. q # <<>> /\ pending'[a][t] = Tail(q)
        BY <3>2 DEF RestOf
      <4>2. /\ Tail(q) \in Seq(Prompt) /\ Len(Tail(q)) = Len(q) - 1 /\ Len(q) \in Nat
            /\ \A i \in 1..(Len(q) - 1) : Tail(q)[i] = q[i + 1]
        BY <4>1, HeadTailProperties
      <4>3. DOMAIN Tail(q) = 1..(Len(q) - 1) /\ DOMAIN q = 1..Len(q)
        BY <4>2, LenProperties
      <4>4. \A i \in 1..(Len(q) - 1) : i + 1 \in 1..Len(q)
        BY <4>2
      <4>5. \A i \in DOMAIN Tail(q) : i + 1 \in DOMAIN q /\ Tail(q)[i] = q[i + 1]
        BY <4>2, <4>3, <4>4
      <4> QED
        BY <4>1, <4>5
    <3>3. CASE pending'[a][t] = RestOf(pending[a][t]) /\ pending[a][t] = <<>>
      BY <3>3 DEF RestOf
    <3> QED
      BY <1>4, <3>1, <3>2, <3>3
  <2> QED
    BY <1>1, <2>1, <2>2 DEF Kept
<1>8. ListsAreExact'
  <2> SUFFICES ASSUME NEW t \in Session \ upset', NEW a \in Keepers(t)
               PROVE  InOrder(pending'[a][t], Open(t) \ {p})
    BY <1>2, <1>3 DEF ListsAreExact, Keepers
  <2>1. CASE t = s
    <3>1. CASE prompt[p].surface = "gateway"
      BY <1>s, <2>1, <3>1
    <3>2. CASE prompt[p].surface # "gateway"
      BY <1>v, <2>1, <3>2
    <3> QED
      BY <3>1, <3>2
  <2>2. CASE t # s
    <3>1. p \notin Open(t) /\ a \in Adapter
      BY <1>0, <1>n, <2>2 DEF Open, Keepers, LedgerTypeOK
    <3>2. Open(t) \ {p} = Open(t) /\ pending'[a][t] = pending[a][t]
      BY <1>4, <2>2, <3>1
    <3> QED
      BY <1>3, <3>2 DEF AuditInv, ListsAreExact
  <2> QED
    BY <2>1, <2>2
<1>9. PromptsHaveAKeeper'
  <2>0. Unsettled' \subseteq Unsettled
    BY <1>1 DEF Unsettled, Kept
  <2> SUFFICES ASSUME NEW t \in Session \ upset'
               PROVE  /\ t \in Unsettled => Keepers(t) # {}
                      /\ Open(t) \ {p} # {} /\ Cardinality(live) > 1 =>
                           /\ \A q, x \in Open(t) \ {p} : q = x
                           /\ \A q \in Open(t) \ {p} : prompt'[q].drawn => Owners(t)' # {}
    BY <1>2, <1>3, <2>0 DEF PromptsHaveAKeeper, Keepers
  <2>1. /\ t \in Unsettled => Keepers(t) # {}
        /\ Open(t) # {} /\ Cardinality(live) > 1 =>
             /\ \A q, x \in Open(t) : q = x
             /\ \A q \in Open(t) : prompt[q].drawn => Owners(t) # {}
    BY <1>3 DEF AuditInv, PromptsHaveAKeeper
  <2>2. CASE t = s
    <3>1. CASE prompt[p].surface = "gateway"
      BY <1>1, <2>1, <2>2, <3>1
    <3>2. CASE prompt[p].surface # "gateway"
      BY <1>v, <2>1, <2>2, <3>2
    <3> QED
      BY <3>1, <3>2
  <2>3. CASE t # s
    <3>1. Owners(t) \subseteq Owners(t)'
      BY <1>0, <1>3, <1>4, <2>3 DEF Owners, LedgerTypeOK
    <3>2. \A q \in Open(t) : prompt'[q].drawn = prompt[q].drawn
      BY <1>1 DEF Open
    <3> QED
      BY <2>1, <3>1, <3>2
  <2> QED
    BY <2>2, <2>3
<1>10. ReportsAreOfTheDone'
  <2> SUFFICES ASSUME NEW r \in reports' PROVE prompt'[r.prompt].phase = "done"
    BY DEF ReportsAreOfTheDone
  <2>1. CASE r \in reports
    BY <1>1, <2>1 DEF AuditInv, ReportsAreOfTheDone, LedgerInv, ReportsAreKnown, Kept
  <2> QED
    BY <1>1, <1>5, <2>1
<1>11. TheDoneAreReported'
  <2> SUFFICES ASSUME NEW q \in 1..asked, prompt'[q].phase = "done", prompt'[q].surface = "gateway",
                      q \notin dropped', prompt'[q].session \notin upset'
               PROVE  ReportedOnce(q)'
    BY <1>1 DEF TheDoneAreReported, Settles
  <2>1. CASE q # p
    <3>1. ReportedOnce(q)
      BY <1>1, <1>3, <2>1 DEF AuditInv, TheDoneAreReported, Settles
    <3>2. PICK r \in reports : \A x \in reports : x.prompt = q <=> x = r
      BY <3>1 DEF ReportedOnce
    <3>3. \A x \in reports' : x.prompt = q <=> x = r
      BY <1>5, <2>1, <3>2
    <3>4. r \in reports'
      BY <1>3, <3>2
    <3> QED
      BY <3>3, <3>4 DEF ReportedOnce
  <2>2. CASE q = p
    <3>1. s \notin upset' /\ prompt[p].surface = "gateway"
      BY <1>1, <1>n, <2>2 DEF Kept
    <3>2. PICK k \in live : reports' = reports \cup {Report(k, p)}
      BY <1>s, <2>2, <3>1
    <3>3. Report(k, p).prompt = p
      BY DEF Report
    <3>4. \A x \in reports' : x.prompt = q <=> x = Report(k, p)
      BY <1>6, <2>2, <3>2, <3>3
    <3> QED
      BY <3>2, <3>4 DEF ReportedOnce
  <2> QED
    BY <2>1, <2>2
<1>12. RefusedAreTracked'
  <2> SUFFICES ASSUME NEW x \in refused, NEW t \in Session
               PROVE  /\ x.id \in 1..asked
                      /\ prompt'[x.id].session = t /\ t \notin upset' => Tracked(x, t)'
    BY <1>1, <1>3 DEF RefusedAreTracked, Settles
  <2>1. x.id \in 1..asked /\ (prompt[x.id].session = t /\ t \notin upset => Tracked(x, t))
    BY DEF AuditInv, RefusedAreTracked, Settles
  <2>2. prompt'[x.id].session = prompt[x.id].session
    BY <1>1, <2>1 DEF Kept
  <2>3. ASSUME t \notin upset', prompt[x.id].session = t PROVE Tracked(x, t)'
    <3>1. Tracked(x, t)
      BY <1>3, <2>1, <2>3
    <3>2. CASE x.id # p \/ x.id \notin Open(t) \/ p \in dropped'
      <4>1. reports \subseteq reports'
        BY <1>3
      <4> QED
        BY <1>2, <1>3, <3>1, <3>2, <4>1 DEF Tracked
    <3>3. CASE x.id = p /\ x.id \in Open(t) /\ p \notin dropped'
      <4>1. t = s /\ prompt[p].surface = "gateway"
        BY <1>n, <2>3, <3>3 DEF Open
      <4>2. PICK k \in live : Report(k, p).id = p /\ reports' = reports \cup {Report(k, p)}
        BY <1>s, <2>3, <3>3, <4>1
      <4>3. Report(k, p).prompt = p
        BY DEF Report
      <4>4. Report(k, p) \in reports'
        BY <4>2
      <4> QED
        BY <3>3, <4>2, <4>3, <4>4 DEF Tracked
    <3> QED
      BY <3>2, <3>3
  <2> QED
    BY <2>1, <2>2, <2>3
<1>13. ReportsMatchTheirPrompt'
  <2> SUFFICES ASSUME NEW r \in reports', prompt'[r.prompt].session \notin upset' PROVE r.id = r.prompt
    BY DEF ReportsMatchTheirPrompt, Settles
  <2>1. CASE r \in reports
    BY <1>1, <1>3, <2>1 DEF AuditInv, ReportsMatchTheirPrompt, Settles, LedgerInv, ReportsAreKnown, Kept
  <2>2. CASE r \notin reports
    <3>1. r.prompt = p
      BY <1>5, <2>2
    <3>2. s \notin upset'
      BY <1>1, <1>n, <3>1 DEF Kept
    <3>3. prompt[p].surface = "gateway"
      BY <1>v, <2>2, <3>2
    <3>4. PICK k \in live : Report(k, p).id = p /\ reports' = reports \cup {Report(k, p)}
      BY <1>s, <2>2, <3>2, <3>3
    <3> QED
      BY <2>2, <3>1, <3>4
  <2> QED
    BY <2>1, <2>2
<1>14. IsFiniteSet(live)'
  BY <1>3 DEF AuditInv
<1> QED
  BY <1>k, <1>7, <1>8, <1>9, <1>10, <1>11, <1>12, <1>13, <1>14 DEF AuditInv

LEMMA AuditInitially == Init => AuditInv
<1> SUFFICES ASSUME Init PROVE AuditInv
  OBVIOUS
<1>1. asked = 0 /\ live = {} /\ reports = {} /\ refused = {} /\ \A a \in Adapter, s \in Session : pending[a][s] = <<>>
  BY DEF Init
<1>2. \A s : Open(s) = {} /\ Keepers(s) = {}
  BY <1>1 DEF Open, Keepers
<1>3. IsFiniteSet(live)
  BY <1>1, FS_EmptySet
<1> QED
  BY <1>1, <1>2, <1>3 DEF AuditInv, OneKeeperEach, RequestsAreFiled, ListsAreExact, PromptsHaveAKeeper, Unsettled,
     ReportsAreOfTheDone, TheDoneAreReported, RefusedAreTracked, ReportsMatchTheirPrompt

LEMMA AuditNext ==
  ASSUME LedgerInv, AuditInv, [Next]_vars
  PROVE  AuditInv'
BY AskKeepsTheAudit, PostHookKeepsTheAudit, DecisionsKeepTheAudit, RefuseKeepsTheAudit, ComingsKeepTheAudit DEF Next

-----------------------------------------------------------------------------
(* Nobody is named by a guess *)

\* A step that forgets records, or none, and lets no new decision come up.
LEMMA RecordsFade ==
  ASSUME LedgerInv, RecordsAreHome, RecordsAreOfTheDecision, contested \subseteq contested', upset \subseteq upset',
         \A a \in Adapter, x \in Alias : deciders'[a][x] \in {deciders[a][x], NoUser},
         \A s \in Session : Ours(s) => DecidersOf(s)' \subseteq DecidersOf(s)
  PROVE  RecordsAreHome' /\ RecordsAreOfTheDecision'
<1>1. \A s \in Session : AliasesOf(s) \subseteq Alias /\ <<"key", s>> \in Alias /\ <<"route", RouteOf(s)>> \in Alias
  BY DEF AliasesOf, Alias, Route
<1>2. RecordsAreHome'
  BY <1>1 DEF RecordsAreHome
<1>3. RecordsAreOfTheDecision'
  <2> SUFFICES ASSUME NEW s \in Session \ (contested' \cup upset'), NEW a \in Adapter, Profile(a) = HomeOf(s),
                      NEW x \in AliasesOf(s), NEW u \in DecidersOf(s)'
               PROVE  deciders'[a][x] \in {u, NoUser}
    BY DEF RecordsAreOfTheDecision
  <2>1. Ours(s)
    BY DEF Ours
  <2>2. u \in DecidersOf(s) /\ s \notin contested /\ s \notin upset
    BY <2>1
  <2>3. deciders[a][x] \in {u, NoUser}
    BY <2>2 DEF RecordsAreOfTheDecision
  <2> QED
    BY <1>1, <2>3
<1> QED
  BY <1>2, <1>3

LEMMA DecidersShrink ==
  ASSUME NEW s, letters' \subseteq letters,
         \A p \in Open(s)' : prompt'[p].phase = "decided" /\ prompt'[p].kind = "person" =>
           \/ /\ p \in Open(s) /\ prompt[p].phase = "decided" /\ prompt[p].kind = "person"
              /\ prompt'[p].by = prompt[p].by
           \/ \E m \in letters : m.session = s /\ prompt'[p].by = m.user
  PROVE  DecidersOf(s)' \subseteq DecidersOf(s)
BY DEF DecidersOf

\* Every step that marks a prompt, or leaves all as they are.
LEMMA QuietStepsDecideNothingNew ==
  ASSUME LedgerTypeOK, NEW s \in Session, Ours(s),
         \/ \E p \in Prompt : DecidedElsewhere(p) \/ \E a \in Adapter : Render(a, p)
         \/ \E p \in Prompt, kind \in Ends : HostEnds(p, kind)
         \/ \E m \in letters : HostDecides(m)
         \/ UNCHANGED <<prompt, asked, letters>>
  PROVE  DecidersOf(s)' \subseteq DecidersOf(s)
<1>1. Steady /\ letters' \subseteq letters
  BY QuietStepsAreSteady DEF DecidedElsewhere, Render, HostEnds, HostDecides
<1>2. Open(s)' = Open(s) /\ \A p \in Open(s) : p \in 1..asked /\ prompt[p].session = s
  BY <1>1, SteadyKeepsOpen DEF Open
<1>3. asked \in Nat /\ (\A p \in Prompt : p <= asked => p \in 1..asked) /\ prompt \in [1..asked -> PromptRecord]
  BY PromptsHaveShape DEF Prompt
<1> SUFFICES ASSUME NEW q \in Open(s), prompt'[q].phase = "decided", prompt'[q].kind = "person"
             PROVE  \/ /\ q \in Open(s) /\ prompt[q].phase = "decided" /\ prompt[q].kind = "person"
                       /\ prompt'[q].by = prompt[q].by
                    \/ \E m \in letters : m.session = s /\ prompt'[q].by = m.user
  BY <1>1, <1>2, DecidersShrink
<1>4. CASE prompt'[q] = prompt[q]
  BY <1>4
<1>5. ASSUME NEW p \in Prompt, DecidedElsewhere(p) PROVE prompt'[q] = prompt[q]
  <2>1. q # p
    BY <1>2, <1>5 DEF DecidedElsewhere
  <2> QED
    BY <1>2, <1>3, <1>5, <2>1 DEF DecidedElsewhere
<1>6. ASSUME NEW p \in Prompt, NEW kind \in Ends, HostEnds(p, kind) PROVE prompt'[q] = prompt[q]
  <2>1. kind # "person"
    BY LedgerAssumption
  <2>2. CASE q # p
    BY <1>2, <1>3, <1>6, <2>2 DEF HostEnds
  <2>3. CASE q = p
    <3>1. prompt'[q] = [prompt[q] EXCEPT !.phase = "decided", !.kind = kind] /\ prompt[q] \in PromptRecord
      BY <1>2, <1>3, <1>6, <2>3 DEF HostEnds
    <3>2. prompt'[q].kind = kind
      BY <3>1 DEF PromptRecord
    <3> QED
      BY <2>1, <3>2
  <2> QED
    BY <2>2, <2>3
<1>7. ASSUME NEW p \in Prompt, NEW a \in Adapter, Render(a, p)
      PROVE  prompt'[q].phase = prompt[q].phase /\ prompt'[q].kind = prompt[q].kind /\ prompt'[q].by = prompt[q].by
  <2>1. CASE q # p
    BY <1>2, <1>3, <1>7, <2>1 DEF Render
  <2>2. CASE q = p
    <3>1. prompt'[q] = [prompt[q] EXCEPT !.drawn = TRUE] /\ prompt[q] \in PromptRecord
      BY <1>2, <1>3, <1>7, <2>2 DEF Render
    <3> QED
      BY <3>1 DEF PromptRecord
  <2> QED
    BY <2>1, <2>2
<1>8. ASSUME NEW m \in letters, HostDecides(m)
      PROVE  prompt'[q] = prompt[q] \/ (m.session = s /\ prompt'[q].by = m.user)
  BY <1>2, <1>8, DecisionIsSteady
<1> QED
  BY <1>4, <1>5, <1>6, <1>7, <1>8

LEMMA HooksDecideNothing ==
  ASSUME LedgerTypeOK, NEW s \in Session,
         \/ \E t \in Session, surface \in Surface : Ask(t, surface)
         \/ \E p \in Prompt : PostHook(p)
  PROVE  DecidersOf(s)' \subseteq DecidersOf(s)
<1>1. ASSUME NEW t \in Session, NEW surface \in Surface, Ask(t, surface)
      PROVE  DecidersOf(s)' \subseteq DecidersOf(s)
  <2>n. PICK n : n = asked + 1
    OBVIOUS
  <2>1. prompt'[n].kind # "person" /\ (\A p \in 1..asked : prompt'[p] = prompt[p]) /\ letters' = letters
    BY <1>1, <2>n, AskOpens DEF Ask
  <2>2. Open(s)' \subseteq Open(s) \cup {n}
    BY <1>1, <2>n, AskOpensOne
  <2>3. Open(s) \subseteq 1..asked
    BY DEF Open
  <2> QED
    BY <2>1, <2>2, <2>3, DecidersShrink
<1>2. ASSUME NEW p \in Prompt, PostHook(p) PROVE DecidersOf(s)' \subseteq DecidersOf(s)
  <2>1. Open(s)' = Open(s) \ {p}
    BY <1>2, PostHookClosesOne
  <2>2. (\A q \in 1..asked : q # p => prompt'[q] = prompt[q]) /\ letters' = letters
    BY <1>2, PostHookCloses DEF PostHook
  <2>3. Open(s) \subseteq 1..asked
    BY DEF Open
  <2> QED
    BY <2>1, <2>2, <2>3, DecidersShrink
<1> QED
  BY <1>1, <1>2

\* A decision is recorded for its session, and others of the route that have
\* decisions under way are contested from then on.
LEMMA AcceptKeepsRecords ==
  ASSUME LedgerInv, AuditInv, Records,
         NEW a \in Adapter, NEW s \in Session, NEW u \in User, NEW all \in BOOLEAN, Accept(a, s, u, all)
  PROVE  Records'
<1> USE DEF Records
<1>0. deciders \in [Adapter -> [Alias -> User \cup {NoUser}]]
  BY DEF LedgerInv, LedgerTypeOK
<1>1. /\ a \in live /\ Profile(a) = HomeOf(s) /\ UNCHANGED <<prompt, asked, live, upset>>
      /\ letters' = letters \cup {[user |-> u, session |-> s, all |-> all]}
      /\ contested' = IF Rivals(s) # {} THEN contested \cup Rivals(s) \cup {s} ELSE contested
  BY DEF Accept, Sends
<1>2. \A b \in Adapter, x \in Alias :
        deciders'[b][x] = IF b = a /\ x \in AliasesOf(s) THEN u ELSE deciders[b][x]
  BY <1>0 DEF Accept, NoteDecider
<1>3. \A t \in Session :
        /\ <<"key", t>> \in Alias /\ <<"route", RouteOf(t)>> \in Alias
        /\ <<"key", t>> \in AliasesOf(s) <=> t = s
        /\ <<"route", RouteOf(t)>> \in AliasesOf(s) <=> RouteOf(t) = RouteOf(s)
  BY DEF AliasesOf, Alias, Route
<1>4. RecordsAreHome'
  <2> SUFFICES ASSUME NEW b \in Adapter, NEW t \in Session
               PROVE  /\ deciders'[b][<<"key", t>>] # NoUser => Profile(b) = HomeOf(t)
                      /\ deciders'[b][<<"route", RouteOf(t)>>] # NoUser =>
                           \E r \in Session : RouteOf(r) = RouteOf(t) /\ Profile(b) = HomeOf(r)
    BY DEF RecordsAreHome
  <2>1. deciders'[b][<<"key", t>>] # NoUser => Profile(b) = HomeOf(t)
    BY <1>1, <1>2, <1>3 DEF RecordsAreHome
  <2>2. CASE b = a /\ RouteOf(t) = RouteOf(s)
    BY <1>1, <2>1, <2>2
  <2>3. CASE ~(b = a /\ RouteOf(t) = RouteOf(s))
    <3>1. deciders'[b][<<"route", RouteOf(t)>>] = deciders[b][<<"route", RouteOf(t)>>]
      BY <1>2, <1>3, <2>3
    <3> QED
      BY <2>1, <3>1 DEF RecordsAreHome
  <2> QED
    BY <2>2, <2>3
<1>5. RecordsAreOfTheDecision'
  <2> SUFFICES ASSUME NEW t \in Session \ (contested' \cup upset'), NEW b \in Adapter, Profile(b) = HomeOf(t),
                      NEW x \in AliasesOf(t), NEW v \in DecidersOf(t)'
               PROVE  deciders'[b][x] \in {v, NoUser}
    BY DEF RecordsAreOfTheDecision
  <2>1. t \notin contested /\ t \notin upset /\ x \in Alias
    BY <1>1, <1>3 DEF AliasesOf
  <2>2. Open(t)' = Open(t)
    BY <1>1 DEF Open
  <2>3. v \in DecidersOf(t) \/ (t = s /\ v = u)
    BY <1>1, <2>2 DEF DecidersOf
  <2>4. v \in DecidersOf(t) /\ RouteOf(t) = RouteOf(s) => t \in Rivals(s)
    BY DEF DecidersOf, Rivals
  <2>5. CASE RouteOf(t) = RouteOf(s)
    <3>1. v \notin DecidersOf(t)
      BY <1>1, <2>4, <2>5
    <3>2. t = s /\ v = u
      BY <2>3, <3>1
    <3>3. CASE b \in live
      <4>1. b = a
        BY <1>1, <2>1, <3>2, <3>3 DEF AuditInv, OneKeeperEach
      <4> QED
        BY <1>2, <2>1, <3>2, <4>1
    <3>4. CASE b \notin live
      BY <1>1, <1>2, <2>1, <3>4 DEF GoneHaveNoRecords
    <3> QED
      BY <3>3, <3>4
  <2>6. CASE RouteOf(t) # RouteOf(s)
    <3>1. x \notin AliasesOf(s) /\ v \in DecidersOf(t)
      BY <1>3, <2>3, <2>6 DEF AliasesOf
    <3>2. deciders'[b][x] = deciders[b][x]
      BY <1>2, <2>1, <3>1
    <3> QED
      BY <2>1, <3>1, <3>2 DEF RecordsAreOfTheDecision
  <2> QED
    BY <2>5, <2>6
<1>6. GoneHaveNoRecords'
  BY <1>1, <1>2 DEF GoneHaveNoRecords
<1> QED
  BY <1>4, <1>5, <1>6

\* A step forgets records of deciders, at most, unless a decision is accepted.
LEMMA RecordsOnlyFade ==
  ASSUME LedgerTypeOK, [Next]_vars,
         ~\E a \in Adapter, s \in Session, u \in User, all \in BOOLEAN : Accept(a, s, u, all)
  PROVE  /\ contested' = contested
         /\ \A a \in Adapter, x \in Alias : deciders'[a][x] \in {deciders[a][x], NoUser}
         /\ \A a \in Adapter \ live', x \in Alias : a \notin live \/ deciders'[a][x] = NoUser
<1>0. deciders \in [Adapter -> [Alias -> User \cup {NoUser}]]
  BY DEF LedgerTypeOK
<1>1. CASE deciders' = deciders /\ contested' = contested /\ live \subseteq live'
  BY <1>1
<1>2. ASSUME NEW p \in Prompt, PostHook(p)
      PROVE  /\ contested' = contested
             /\ \A a \in Adapter, x \in Alias : deciders'[a][x] \in {deciders[a][x], NoUser}
             /\ \A a \in Adapter \ live', x \in Alias : a \notin live \/ deciders'[a][x] = NoUser
  <2>1. PICK A : Resolve(A, prompt[p].session)
    BY <1>2 DEF PostHook
  <2> QED
    BY <1>0, <1>2, <2>1 DEF PostHook, Resolve
<1>3. ASSUME QuietTime \/ \E a \in Adapter : Collected(a)
      PROVE  /\ contested' = contested
             /\ \A a \in Adapter, x \in Alias : deciders'[a][x] \in {deciders[a][x], NoUser}
             /\ \A a \in Adapter \ live', x \in Alias : a \notin live \/ deciders'[a][x] = NoUser
  BY <1>0, <1>3 DEF QuietTime, Collected
<1> QED
  BY <1>1, <1>2, <1>3 DEF Next, vars, Ask, DecidedElsewhere, Render, HostEnds, HostDecides, Refuse, Come

\* Sessions are not settled again.
LEMMA UpsetOnlyGrows ==
  ASSUME [Next]_vars
  PROVE  upset \subseteq upset' /\ contested \subseteq contested'
BY DEF Next, vars, Ask, PostHook, DecidedElsewhere, Render, HostEnds, HostDecides, Refuse, Accept, Come, Collected, QuietTime

LEMMA RecordsNext ==
  ASSUME LedgerInv, AuditInv, Records, [Next]_vars
  PROVE  Records'
<1>0. LedgerTypeOK
  BY DEF LedgerInv
<1>1. CASE \E a \in Adapter, s \in Session, u \in User, all \in BOOLEAN : Accept(a, s, u, all)
  BY <1>1, AcceptKeepsRecords
<1>2. CASE ~\E a \in Adapter, s \in Session, u \in User, all \in BOOLEAN : Accept(a, s, u, all)
  <2>1. ASSUME NEW s \in Session, Ours(s) PROVE DecidersOf(s)' \subseteq DecidersOf(s)
    <3>1. CASE UNCHANGED <<prompt, asked, letters>>
      BY <1>0, <2>1, <3>1, QuietStepsDecideNothingNew
    <3>2. \/ \E t \in Session, surface \in Surface : Ask(t, surface)
          \/ \E p \in Prompt : PostHook(p)
          \/ \E p \in Prompt : DecidedElsewhere(p) \/ \E a \in Adapter : Render(a, p)
          \/ \E p \in Prompt, kind \in Ends : HostEnds(p, kind)
          \/ \E m \in letters : HostDecides(m)
          \/ UNCHANGED <<prompt, asked, letters>>
      BY <1>2 DEF Next, vars, Refuse, Come, Collected, QuietTime
    <3> QED
      BY <1>0, <2>1, <3>1, <3>2, QuietStepsDecideNothingNew, HooksDecideNothing
  <2>2. /\ contested' = contested
        /\ \A a \in Adapter, x \in Alias : deciders'[a][x] \in {deciders[a][x], NoUser}
        /\ \A a \in Adapter \ live', x \in Alias : a \notin live \/ deciders'[a][x] = NoUser
    BY <1>0, <1>2, RecordsOnlyFade
  <2>3. upset \subseteq upset'
    BY UpsetOnlyGrows
  <2>4. RecordsAreHome' /\ RecordsAreOfTheDecision'
    BY <2>1, <2>2, <2>3, RecordsFade DEF Records
  <2>5. GoneHaveNoRecords'
    BY <2>2 DEF Records, GoneHaveNoRecords
  <2> QED
    BY <2>4, <2>5 DEF Records
<1> QED
  BY <1>1, <1>2

\* What a post hook reads of a settled, uncontested session names nobody else.
LEMMA ReportNamesTheDecider ==
  ASSUME PlatformsHaveOwnRoutes, LedgerInv, RecordsAreHome, RecordsAreOfTheDecision,
         NEW p \in Prompt, PostHook(p), NEW s \in Session \ (contested \cup upset), s = prompt[p].session, p \in Open(s),
         NEW k \in Adapter, Keepers(s) = {k}, Report(k, p).decider \in User
  PROVE  Report(k, p).decider = prompt[p].by
<1> DEFINE x == Taken(deciders[k], s)
           recorded == deciders[k][x]
<1>1. Report(k, p).decider = DeciderFor(prompt[p].kind, recorded)
  BY DEF Report
<1>2. prompt[p].phase = "decided" /\ prompt[p].kind \in Kind
  <2>1. p \in 1..asked
    BY DEF Open
  <2>2. prompt[p] \in PromptRecord
    BY <2>1, PromptFields DEF LedgerInv
  <2> QED
    BY <2>2 DEF PostHook, PromptRecord
<1>3. prompt[p].kind = "person" /\ recorded # NoUser /\ recorded \in User /\ Report(k, p).decider = recorded
  BY <1>1, <1>2, LedgerAssumption DEF DeciderFor, Kind
<1>4. x \in AliasesOf(s)
  BY DEF Taken, AliasesOf
<1>5. Ours(s)
  <2>1. CASE x = <<"key", s>>
    BY <1>3, <2>1 DEF RecordsAreHome, Ours
  <2>2. CASE x = <<"route", RouteOf(s)>>
    <3>1. PICK t \in Session : RouteOf(t) = RouteOf(s) /\ Profile(k) = HomeOf(t)
      BY <1>3, <2>2 DEF RecordsAreHome
    <3> QED
      BY <3>1 DEF PlatformsHaveOwnRoutes, Ours
  <2> QED
    BY <2>1, <2>2 DEF Taken
<1>6. Profile(k) = HomeOf(s)
  BY <1>5 DEF Keepers
<1>7. prompt[p].by \in DecidersOf(s)
  BY <1>2, <1>3 DEF DecidersOf
<1>8. recorded \in {prompt[p].by, NoUser}
  BY <1>4, <1>6, <1>7 DEF RecordsAreOfTheDecision
<1> QED
  BY <1>3, <1>8

\* What was reported stays true of a prompt that is through.
LEMMA GuessesNext ==
  ASSUME PlatformsHaveOwnRoutes, LedgerInv, AuditInv, DeciderInv, [Next]_vars
  PROVE  DecidersAreNotGuessed'
<1>0. LedgerTypeOK
  BY DEF LedgerInv
<1>1. upset \subseteq upset' /\ contested \subseteq contested'
  BY UpsetOnlyGrows
<1>2. ASSUME NEW q \in 1..asked PROVE Kept(q)
  <2>1. ASSUME NEW t \in Session, NEW surface \in Surface, Ask(t, surface) PROVE Kept(q)
    <3>n. PICK n : n = asked + 1
      OBVIOUS
    <3>1. prompt'[q] = prompt[q] /\ q \in 1..asked'
      BY <1>0, <2>1, <3>n, AskOpens
    <3> QED
      BY <3>1 DEF Kept
  <2>2. ASSUME NEW p \in Prompt, PostHook(p) PROVE Kept(q)
    BY <1>0, <2>2, PostHookCloses
  <2>3. Steady => Kept(q)
    BY DEF Steady
  <2>4. \/ \E t \in Session, surface \in Surface : Ask(t, surface)
        \/ \E p \in Prompt : PostHook(p)
        \/ \E p \in Prompt : DecidedElsewhere(p) \/ \E a \in Adapter : Render(a, p)
        \/ \E p \in Prompt, kind \in Ends : HostEnds(p, kind)
        \/ \E m \in letters : HostDecides(m)
        \/ prompt' = prompt /\ asked' = asked
    BY DEF Next, vars, Refuse, Accept, Come, Collected, QuietTime
  <2> QED
    BY <1>0, <2>1, <2>2, <2>3, <2>4, QuietStepsAreSteady
<1> SUFFICES ASSUME NEW r \in reports', r.decider \in User, prompt'[r.prompt].session \notin upset',
                    prompt'[r.prompt].session \notin contested'
             PROVE  r.decider = prompt'[r.prompt].by
  BY DEF DecidersAreNotGuessed, Settles
<1>3. CASE r \in reports
  <2>1. r.prompt \in 1..asked /\ prompt[r.prompt].phase = "done"
    BY <1>3 DEF LedgerInv, ReportsAreKnown, AuditInv, ReportsAreOfTheDone
  <2>2. prompt'[r.prompt].session = prompt[r.prompt].session /\ prompt'[r.prompt].by = prompt[r.prompt].by
    BY <1>2, <2>1 DEF Kept
  <2> QED
    BY <1>1, <1>3, <2>2 DEF DeciderInv, DecidersAreNotGuessed, Settles
<1>4. CASE r \notin reports
  <2>1. PICK p \in Prompt : PostHook(p)
    BY <1>4 DEF Next, vars, Ask, DecidedElsewhere, Render, HostEnds, HostDecides, Refuse, Accept, Come, Collected, QuietTime
  <2>n. PICK s : s = prompt[p].session
    OBVIOUS
  <2>2. p \in 1..asked /\ s \in Session /\ prompt'[p].by = prompt[p].by /\ prompt'[p].session = s
    BY <1>0, <2>1, <2>n, PostHookCloses DEF Kept
  <2>3. r.prompt = p
    <3>1. \E a : reports' = reports \cup {Report(a, p)}
      BY <1>4, <2>1 DEF PostHook
    <3>2. \A a : Report(a, p).prompt = p
      BY DEF Report
    <3> QED
      BY <1>4, <3>1, <3>2
  <2>4. s \notin upset' /\ s \in Session \ (contested \cup upset)
    BY <1>1, <2>2, <2>3
  <2>8. prompt[p].surface = "gateway" /\ p \in Open(s)
    BY <1>0, <1>4, <2>1, <2>n, <2>4, SettledVerdict, PostHookCloses
  <2>5. PICK k \in live : k \in Adapter /\ Keepers(s) = {k} /\ reports' = reports \cup {Report(k, p)}
    BY <1>4, <2>1, <2>n, <2>4, <2>8, SettledPostHook
  <2>6. r = Report(k, p)
    BY <1>4, <2>5
  <2>7. Report(k, p).decider = prompt[p].by
    BY <2>1, <2>n, <2>2, <2>4, <2>5, <2>6, <2>8, ReportNamesTheDecider DEF DeciderInv, Records
  <2> QED
    BY <2>2, <2>3, <2>6, <2>7
<1> QED
  BY <1>3, <1>4

LEMMA DecidersInitially == Init => DeciderInv
<1> SUFFICES ASSUME Init PROVE DeciderInv
  OBVIOUS
<1>1. reports = {} /\ \A a \in Adapter, x \in Alias : deciders[a][x] = NoUser
  BY DEF Init
<1>2. \A s \in Session : <<"key", s>> \in Alias /\ <<"route", RouteOf(s)>> \in Alias /\ AliasesOf(s) \subseteq Alias
  BY DEF Alias, AliasesOf, Route
<1> QED
  BY <1>1, <1>2 DEF DeciderInv, Records, GoneHaveNoRecords, RecordsAreHome, RecordsAreOfTheDecision, DecidersAreNotGuessed

-----------------------------------------------------------------------------
(* The theorems *)

\* approval_outcomes.py:32: an outcome is audited under the id that was minted for its
\* own prompt, and no verdict takes that of another, however the prompts of sessions,
\* verdicts, decisions, refusals, lapses and comings and goings cross, as long as the
\* session stays settled.
THEOREM OutcomesCarryTheirId == Spec => []ReportsMatchTheirPrompt
<1>1. Init => LedgerInv /\ AuditInv
  BY LedgerInitially, AuditInitially
<1>2. LedgerInv /\ AuditInv /\ [Next]_vars => LedgerInv' /\ AuditInv'
  BY LedgerNext, AuditNext
<1>3. AuditInv => ReportsMatchTheirPrompt
  BY DEF AuditInv
<1> QED
  BY <1>1, <1>2, <1>3, PTL DEF Spec

\* approval_outcomes.py:11: every outcome of a settled session that is not dropped is
\* audited exactly once, and a request that a refusal names is still on the list for
\* its outcome, or was reported or dropped.
THEOREM OutcomesAreAuditedOnce == Spec => []EveryOutcomeIsAudited
<1>1. Init => LedgerInv /\ AuditInv
  BY LedgerInitially, AuditInitially
<1>2. LedgerInv /\ AuditInv /\ [Next]_vars => LedgerInv' /\ AuditInv'
  BY LedgerNext, AuditNext
<1>3. LedgerInv /\ AuditInv => EveryOutcomeIsAudited
  <2> SUFFICES ASSUME LedgerInv, AuditInv PROVE EveryOutcomeIsAudited
    OBVIOUS
  <2>1. ASSUME NEW p \in 1..asked, prompt[p].phase = "done", prompt[p].surface = "gateway",
               p \notin dropped, Settles(prompt[p].session)
        PROVE  Cardinality({r \in reports : r.prompt = p}) = 1
    <3>1. PICK r \in reports : \A x \in reports : x.prompt = p <=> x = r
      BY <2>1 DEF AuditInv, TheDoneAreReported, ReportedOnce
    <3>2. {x \in reports : x.prompt = p} = {r}
      BY <3>1
    <3> QED
      BY <3>2, FS_Singleton
  <2>2. ASSUME NEW x \in refused, Settles(prompt[x.id].session)
        PROVE  StillListed(x) \/ x.id \in dropped \/ \E r \in reports : r.prompt = x.id /\ r.id = x.id
    <3>n. PICK s : s = prompt[x.id].session
      OBVIOUS
    <3>1. x.adapter \in Adapter /\ x.id \in Prompt
      BY DEF LedgerInv, LedgerTypeOK
    <3>2. x.id \in 1..asked /\ s \in Session
      <4>1. x.id \in 1..asked
        BY DEF AuditInv, RefusedAreTracked
      <4> QED
        BY <3>n, <4>1, PromptFields DEF LedgerInv
    <3>3. Tracked(x, s)
      BY <2>2, <3>n, <3>2 DEF AuditInv, RefusedAreTracked
    <3>4. CASE x.id \in Open(s) /\ x.adapter \in live /\ Profile(x.adapter) = HomeOf(s)
      <4>1. x.adapter \in Keepers(s)
        BY <3>4 DEF Keepers
      <4>3. InOrder(pending[x.adapter][s], Open(s))
        BY <2>2, <3>n, <3>2, <4>1 DEF AuditInv, ListsAreExact, Settles
      <4> QED
        BY <3>n, <3>4, <4>3 DEF StillListed, InOrder
    <3> QED
      BY <3>3, <3>4 DEF Tracked
  <2> QED
    BY <2>1, <2>2 DEF EveryOutcomeIsAudited
<1> QED
  BY <1>1, <1>2, <1>3, PTL DEF Spec

\* approval_outcomes.py:39, "never to a guess": where no other platform shares
\* a chat with Zulip, a person who is named as the decider is the one whose message
\* decided the prompt, unless two decisions of the route were on their way at once.
THEOREM NobodyIsNamedByAGuess ==
  ASSUME PlatformsHaveOwnRoutes PROVE Spec => []DecidersAreNotGuessed
<1>1. Init => LedgerInv /\ AuditInv /\ DeciderInv
  BY LedgerInitially, AuditInitially, DecidersInitially
<1>2. LedgerInv /\ AuditInv /\ DeciderInv /\ [Next]_vars => LedgerInv' /\ AuditInv' /\ DeciderInv'
  BY LedgerNext, AuditNext, RecordsNext, GuessesNext DEF DeciderInv
<1>3. DeciderInv => DecidersAreNotGuessed
  BY DEF DeciderInv
<1> QED
  BY <1>1, <1>2, <1>3, PTL DEF Spec
=============================================================================
