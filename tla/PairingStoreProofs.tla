------------------------- MODULE PairingStoreProofs -------------------------
(***************************************************************************)
(* Proofs about PairingStore, for any users, terminals and bounds: the     *)
(* type invariant, and that no list anywhere admits a user nobody let in,  *)
(* whatever the processes do to each other's work.                         *)
(***************************************************************************)
EXTENDS PairingStore, TLAPS

\* Codes in a list have an owner, and a job that changes a list has a user.
JobsAreWellFormed ==
  /\ \A p \in Proc : \A c \in mem[p].codes \cup file.codes : codeOf[c] \in User
  /\ \A p \in Proc : job[p].op \in {"dm", "approve", "revoke", "seed", "code"} => job[p].user \in User
  /\ \A p \in Proc : stage[p] \in {"save", "restamp"} /\ job[p].op = "dm" => job[p].code \in Code

GrantInv ==
  /\ PairingTypeOK
  /\ JobsAreWellFormed
  /\ named \subseteq everNamed
  /\ OnlyTheGrantedAreAllowed

\* What a job makes of a list of users is a list of users.
LEMMA ChangedIsAList ==
  ASSUME PairingTypeOK, JobsAreWellFormed, NEW p \in Proc, NEW S \in SUBSET User
  PROVE  Changed(p, S) \in SUBSET User
<1>1. CASE job[p].op \in {"approve", "code", "seed"}
  BY <1>1 DEF JobsAreWellFormed, Changed
<1>2. CASE job[p].op = "revoke"
  BY <1>2 DEF Changed
<1>3. CASE job[p].op \notin {"approve", "code", "seed", "revoke"}
  BY <1>3 DEF Changed
<1>4. QED BY <1>1, <1>2, <1>3

LEMMA KeptIsASetOfCodes ==
  ASSUME PairingTypeOK, NEW p \in Proc
  PROVE  Kept(p) \subseteq mem[p].codes /\ Kept(p) \in SUBSET Code
BY DEF Kept, Pending, PairingTypeOK

LEMMA GrantInit == Init => GrantInv
<1> SUFFICES ASSUME Init PROVE GrantInv
  OBVIOUS
<1>1. PairingTypeOK
  <2>1. Idle \in [op : Op, user : User \cup {NoUser}, code : Code \cup {NoCode}]
    BY DEF Idle, Op
  <2>2. Empty \in [allow : SUBSET User, codes : SUBSET Code]
    BY DEF Empty
  <2>3. 0 \in 0..MaxBoots /\ 0 \in 0..MaxRuns
    BY PairingAssumption
  <2>4. QED BY <2>1, <2>2, <2>3 DEF Init, PairingTypeOK, Stage
<1>2. JobsAreWellFormed
  BY DEF Init, Empty, Idle, JobsAreWellFormed
<1>3. QED BY <1>1, <1>2 DEF Init, Empty, GrantInv, OnlyTheGrantedAreAllowed

\* The end of a job keeps the invariant, as long as what is left in memory was
\* there before and nothing is granted or named.
LEMMA DoneKeeps ==
  ASSUME GrantInv, NEW p \in Proc, NEW m \in [allow : SUBSET User, codes : SUBSET Code],
         m.allow = mem[p].allow, m.codes \subseteq mem[p].codes, Done(p, m),
         UNCHANGED <<file, setting, runs, codeOf, lapsed, ideal, granted, spent>>,
         told' \in SUBSET Code, stamped' \in SUBSET Proc, seen' \in SUBSET Proc,
         clashed' \in BOOLEAN
  PROVE  GrantInv'
<1> USE DEF GrantInv
<1>1. PairingTypeOK'
  BY DEF PairingTypeOK, Done, GoTo, Rest, Idle, Empty, Op, Stage, setting, Proc
<1>2. JobsAreWellFormed'
  <2>1. \A q \in Proc : mem'[q].codes \subseteq mem[q].codes
    BY DEF Done, Empty, PairingTypeOK
  <2>2. \A q \in Proc : job'[q] = job[q] \/ job'[q] = Idle
    BY DEF Done, PairingTypeOK
  <2>3. \A q \in Proc : stage'[q] = stage[q] \/ job'[q] = Idle
    BY DEF Done, GoTo, PairingTypeOK
  <2>4. QED BY <2>1, <2>2, <2>3 DEF JobsAreWellFormed, Idle
<1>3. (named \subseteq everNamed)'
  BY DEF setting
<1>4. OnlyTheGrantedAreAllowed'
  <2>1. \A q \in Proc : mem'[q].allow \subseteq mem[q].allow
    BY DEF Done, Empty, PairingTypeOK
  <2>2. QED BY <2>1 DEF OnlyTheGrantedAreAllowed, setting
<1>5. QED BY <1>1, <1>2, <1>3, <1>4

LEMMA GrantStep == GrantInv /\ [Next]_vars => GrantInv'
<1> SUFFICES ASSUME GrantInv, [Next]_vars PROVE GrantInv'
  OBVIOUS
<1> USE DEF GrantInv
<1>1. ASSUME NEW p \in Proc, ReadFile(p) PROVE GrantInv'
  <2> USE <1>1 DEF ReadFile, Loaded, GoTo, At, setting
  <2>1. PairingTypeOK'
    BY DEF PairingTypeOK, Stage
  <2>2. JobsAreWellFormed'
    BY DEF PairingTypeOK, JobsAreWellFormed
  <2>3. OnlyTheGrantedAreAllowed'
    BY DEF PairingTypeOK, OnlyTheGrantedAreAllowed
  <2>4. QED BY <2>1, <2>2, <2>3
<1>2. ASSUME NEW p \in Proc, TakeStamp(p) PROVE GrantInv'
  <2> USE <1>2 DEF TakeStamp, GoTo, At, setting
  <2>1. PairingTypeOK'
    BY DEF PairingTypeOK, Stage
  <2>2. JobsAreWellFormed'
    BY DEF PairingTypeOK, JobsAreWellFormed
  <2>3. QED BY <2>1, <2>2 DEF OnlyTheGrantedAreAllowed
<1>3. ASSUME NEW p \in Proc, Save(p) PROVE GrantInv'
  <2> USE <1>3 DEF Save, GoTo, At, setting
  <2>0. Kept(p) \subseteq mem[p].codes /\ Kept(p) \in SUBSET Code /\ Changed(p, ideal) \in SUBSET User
    BY KeptIsASetOfCodes, ChangedIsAList DEF PairingTypeOK
  <2>1. PairingTypeOK'
    BY <2>0 DEF PairingTypeOK, Stage, CodesOf
  <2>2. JobsAreWellFormed'
    BY <2>0 DEF PairingTypeOK, JobsAreWellFormed
  <2>3. OnlyTheGrantedAreAllowed'
    BY DEF PairingTypeOK, OnlyTheGrantedAreAllowed
  <2>4. QED BY <2>1, <2>2, <2>3
<1>4. ASSUME NEW p \in Proc, FailSave(p) PROVE GrantInv'
  <2> DEFINE m == [mem[p] EXCEPT !.codes = Kept(p)]
  <2>1. m \in [allow : SUBSET User, codes : SUBSET Code] /\ m.allow = mem[p].allow /\ m.codes \subseteq mem[p].codes
    BY KeptIsASetOfCodes DEF PairingTypeOK
  <2>2. told' \in SUBSET Code
    BY <1>4 DEF FailSave, At, JobsAreWellFormed, PairingTypeOK
  <2>3. QED BY <1>4, <2>1, <2>2, DoneKeeps DEF FailSave, PairingTypeOK
<1>5. ASSUME NEW p \in Proc, Restamp(p) PROVE GrantInv'
  <2>1. told' \in SUBSET Code
    BY <1>5 DEF Restamp, At, JobsAreWellFormed, PairingTypeOK
  <2>2. mem[p] \in [allow : SUBSET User, codes : SUBSET Code]
    BY DEF PairingTypeOK
  <2>3. QED BY <1>5, <2>1, <2>2, DoneKeeps DEF Restamp, PairingTypeOK
<1>6. ASSUME NEW p \in Proc, NothingToSave(p), told' \in SUBSET Code PROVE GrantInv'
  <2>1. mem[p] \in [allow : SUBSET User, codes : SUBSET Code]
    BY DEF PairingTypeOK
  <2>2. QED BY <1>6, <2>1, DoneKeeps DEF NothingToSave, PairingTypeOK
<1>7. ASSUME NEW p \in Proc, Boots(p) PROVE GrantInv'
  BY <1>7, <1>6 DEF Boots, PairingTypeOK
<1>8. ASSUME NEW p \in Proc, AnswerDm(p) PROVE GrantInv'
  <2>1. told' \in SUBSET Code
    BY <1>8 DEF AnswerDm, LiveCodes, CodesOf, PairingTypeOK
  <2>2. QED BY <1>8, <2>1, <1>6 DEF AnswerDm
<1>9. ASSUME NEW p \in Proc, IssueCode(p) PROVE GrantInv'
  <2> USE DEF IssueCode, GoTo, At, setting, history
  <2>1. PICK c \in Code : /\ codeOf[c] = NoUser
                          /\ codeOf' = [codeOf EXCEPT ![c] = job[p].user]
                          /\ mem' = [mem EXCEPT ![p].codes = @ \cup {c}]
                          /\ job' = [job EXCEPT ![p].code = c]
    BY <1>9
  <2>2. job[p].user \in User
    BY <1>9 DEF JobsAreWellFormed
  <2>3. PairingTypeOK'
    <3>1. codeOf' \in [Code -> User \cup {NoUser}]
      BY <2>1, <2>2 DEF PairingTypeOK
    <3>2. mem' \in [Proc -> [allow : SUBSET User, codes : SUBSET Code]]
      BY <2>1 DEF PairingTypeOK
    <3>3. job' \in [Proc -> [op : Op, user : User \cup {NoUser}, code : Code \cup {NoCode}]]
      BY <2>1 DEF PairingTypeOK
    <3>4. stage' \in [Proc -> Stage]
      BY <1>9 DEF PairingTypeOK, Stage
    <3>5. QED BY <1>9, <3>1, <3>2, <3>3, <3>4 DEF PairingTypeOK
  <2>4. JobsAreWellFormed'
    BY <1>9, <2>1, <2>2, PairingAssumption DEF PairingTypeOK, JobsAreWellFormed
  <2>5. OnlyTheGrantedAreAllowed'
    BY <1>9, <2>1 DEF PairingTypeOK, OnlyTheGrantedAreAllowed
  <2>6. QED BY <1>9, <2>3, <2>4, <2>5
<1>10. ASSUME NEW p \in Proc, ChangeList(p) PROVE GrantInv'
  <2>1. CASE Changed(p, mem[p].allow) = mem[p].allow
    BY <1>10, <2>1, <1>6 DEF ChangeList, PairingTypeOK
  <2>2. CASE Changed(p, mem[p].allow) # mem[p].allow
    <3> USE DEF ChangeList, GoTo, At, setting
    <3>1. Changed(p, mem[p].allow) \in SUBSET User /\ Changed(p, {}) \in SUBSET User
      BY ChangedIsAList DEF PairingTypeOK
    <3>2. PairingTypeOK'
      <4> DEFINE A == Changed(p, mem[p].allow)
      <4>0. mem' = [mem EXCEPT ![p].allow = A] /\ A \in SUBSET User
        BY <1>10, <2>2, <3>1
      <4> HIDE DEF A
      <4>1. mem' \in [Proc -> [allow : SUBSET User, codes : SUBSET Code]]
        BY <4>0 DEF PairingTypeOK
      <4>2. stage' \in [Proc -> Stage]
        BY <1>10, <2>2 DEF PairingTypeOK, Stage
      <4>3. QED BY <1>10, <2>2, <3>1, <4>1, <4>2 DEF PairingTypeOK
    <3>3. JobsAreWellFormed'
      <4>1. \A q \in Proc : mem'[q].codes = mem[q].codes
        BY <1>10, <2>2 DEF PairingTypeOK
      <4>2. job[p].op \in {"approve", "code", "revoke", "seed"} /\ job' = job
        BY <1>10, <2>2
      <4>3. \A q \in Proc \ {p} : stage'[q] = stage[q]
        BY <1>10, <2>2 DEF PairingTypeOK
      <4>4. file' = file /\ codeOf' = codeOf
        BY <1>10, <2>2
      <4>5. QED BY <4>1, <4>2, <4>3, <4>4 DEF JobsAreWellFormed
    <3>4. Changed(p, mem[p].allow) \subseteq mem[p].allow \cup Changed(p, {})
      BY DEF Changed
    <3>5. OnlyTheGrantedAreAllowed'
      BY <1>10, <2>2, <3>4 DEF PairingTypeOK, OnlyTheGrantedAreAllowed
    <3>6. QED BY <1>10, <2>2, <3>2, <3>3, <3>5
  <2>3. QED BY <2>1, <2>2
<1>11. ASSUME NEW p \in Proc, LookUpCode(p) PROVE GrantInv'
  <2>1. CASE job[p].code \in Pending(p)
    <3> USE DEF LookUpCode, At, setting, history
    <3>0. job' = [job EXCEPT ![p] = [op |-> "code", user |-> codeOf[job[p].code], code |-> job[p].code]]
      BY <1>11, <2>1
    <3>1. codeOf[job[p].code] \in User
      BY <2>1 DEF Pending, JobsAreWellFormed
    <3>2. PairingTypeOK'
      <4> DEFINE r == [op |-> "code", user |-> codeOf[job[p].code], code |-> job[p].code]
      <4>0. r \in [op : Op, user : User \cup {NoUser}, code : Code \cup {NoCode}]
        BY <3>1 DEF PairingTypeOK, Op
      <4> HIDE DEF r
      <4>1. job' = [job EXCEPT ![p] = r]
        BY <3>0 DEF r
      <4>2. job' \in [Proc -> [op : Op, user : User \cup {NoUser}, code : Code \cup {NoCode}]]
        BY <4>0, <4>1 DEF PairingTypeOK
      <4>3. QED BY <1>11, <2>1, <4>2 DEF PairingTypeOK
    <3>3. JobsAreWellFormed'
      <4>1. job'[p].op = "code" /\ job'[p].user \in User
        BY <3>0, <3>1 DEF PairingTypeOK
      <4>2. \A q \in Proc \ {p} : job'[q] = job[q]
        BY <3>0 DEF PairingTypeOK
      <4>3. UNCHANGED <<mem, file, codeOf, stage>>
        BY <1>11, <2>1
      <4>4. QED BY <4>1, <4>2, <4>3 DEF JobsAreWellFormed
    <3>4. QED BY <1>11, <2>1, <3>2, <3>3 DEF OnlyTheGrantedAreAllowed
  <2>2. CASE job[p].code \notin Pending(p)
    BY <1>11, <2>2, <1>6 DEF LookUpCode, PairingTypeOK
  <2>3. QED BY <2>1, <2>2
<1>12. ASSUME NEW p \in Proc, RunCommand(p) PROVE GrantInv'
  <2> USE DEF setting
  <2>0. PICK op \in {"approve", "revoke", "lookup"}, u \in User \cup {NoUser}, c \in Code \cup {NoCode} :
          /\ Begin(p, "read", op, u, c)
          /\ op # "lookup" => u \in User
    BY <1>12 DEF RunCommand
  <2>1. PairingTypeOK'
    <3>0. runs' \in 0..MaxRuns
      BY <1>12, PairingAssumption DEF RunCommand, PairingTypeOK
    <3>1. stage' \in [Proc -> Stage]
      BY <2>0 DEF Begin, GoTo, PairingTypeOK, Stage
    <3>2. job' \in [Proc -> [op : Op, user : User \cup {NoUser}, code : Code \cup {NoCode}]]
      BY <2>0 DEF Begin, PairingTypeOK, Op
    <3>3. QED BY <1>12, <3>0, <3>1, <3>2 DEF RunCommand, PairingTypeOK
  <2>2. JobsAreWellFormed'
    <3>1. job'[p].op \in {"approve", "revoke", "lookup"} /\ (job'[p].op # "lookup" => job'[p].user \in User)
      BY <2>0 DEF Begin, PairingTypeOK
    <3>2. \A q \in Proc \ {p} : job'[q] = job[q] /\ stage'[q] = stage[q]
      BY <2>0 DEF Begin, GoTo, PairingTypeOK
    <3>3. QED BY <1>12, <3>1, <3>2 DEF RunCommand, JobsAreWellFormed
  <2> USE <1>12 DEF RunCommand
  <2>3. QED BY <2>1, <2>2 DEF OnlyTheGrantedAreAllowed
<1>13. CASE Boot
  <2> USE <1>13 DEF Boot, Begin, GoTo, At, history
  <2>1. PairingTypeOK'
    <3>1. boots' \in 0..MaxBoots /\ named' \in SUBSET User
      BY PairingAssumption DEF PairingTypeOK
    <3>2. job' \in [Proc -> [op : Op, user : User \cup {NoUser}, code : Code \cup {NoCode}]]
      BY DEF PairingTypeOK, Op, Proc
    <3>3. QED BY <3>1, <3>2 DEF PairingTypeOK, Stage
  <2>2. JobsAreWellFormed'
    BY DEF PairingTypeOK, JobsAreWellFormed
  <2>3. QED BY <2>1, <2>2 DEF OnlyTheGrantedAreAllowed
<1>14. CASE Seed
  <2> USE <1>14 DEF Seed, Begin, GoTo, At, setting, history
  <2>1. PairingTypeOK'
    BY PairingAssumption DEF PairingTypeOK, Stage, Op
  <2>2. JobsAreWellFormed'
    BY PairingAssumption DEF PairingTypeOK, JobsAreWellFormed
  <2>3. QED BY <2>1, <2>2 DEF OnlyTheGrantedAreAllowed
<1>15. ASSUME NEW u \in User, Dm(u) PROVE GrantInv'
  <2> USE <1>15 DEF Dm, AfterStat, Begin, GoTo, At, setting
  <2>1. PairingTypeOK'
    BY DEF PairingTypeOK, Stage, Op, Proc
  <2>2. JobsAreWellFormed'
    BY DEF PairingTypeOK, JobsAreWellFormed
  <2>3. QED BY <2>1, <2>2 DEF OnlyTheGrantedAreAllowed
<1>16. ASSUME NEW c \in Code, CodeLapses(c) PROVE GrantInv'
  <2> USE <1>16 DEF CodeLapses, setting, history
  <2>1. PairingTypeOK'
    BY DEF PairingTypeOK
  <2>2. QED BY <2>1 DEF JobsAreWellFormed, OnlyTheGrantedAreAllowed
<1>17. CASE UNCHANGED vars
  BY <1>17 DEF vars, setting, history, PairingTypeOK, JobsAreWellFormed, OnlyTheGrantedAreAllowed
<1>18. QED
  BY <1>1, <1>2, <1>3, <1>4, <1>5, <1>7, <1>8, <1>9, <1>10, <1>11, <1>12, <1>13,
     <1>14, <1>15, <1>16, <1>17 DEF Next, Step

LEMMA GrantIsInvariant == Spec => []GrantInv
BY GrantInit, GrantStep, PTL DEF Spec

\* The type invariant of the file and the processes' memories.
THEOREM PairingTypes == Spec => []PairingTypeOK
<1>1. GrantInv => PairingTypeOK
  BY DEF GrantInv
<1>2. QED BY <1>1, GrantIsInvariant, PTL

\* Lost updates, stale stamps, failed saves and kills included, no process and
\* no file ever allows a user who was not named, approved or seeded.
THEOREM NobodyIsAllowedUnasked == Spec => []OnlyTheGrantedAreAllowed
<1>1. GrantInv => OnlyTheGrantedAreAllowed
  BY DEF GrantInv
<1>2. QED BY <1>1, GrantIsInvariant, PTL

-----------------------------------------------------------------------------
(* Processes that have not overwritten what they had not seen.             *)

\* The code a process has issued and not saved yet.
NewCode(p) == IF At(p, "save") /\ job[p].op = "dm" THEN {job[p].code} ELSE {}

\* A process whose list was read from the file at some time.
HasList(p) == stage[p] \notin {"off", "read"}

\* Users the setting never named stand alike in two lists.
Alike(A, B) == A \ everNamed = B \ everNamed

\* The list of p is what is on file, and what the job of p is about to make of it.
Mirrors(p) ==
  /\ Alike(mem[p].allow, IF At(p, "save") THEN Changed(p, file.allow) ELSE file.allow)
  /\ mem[p].codes = file.codes \cup NewCode(p)

\* Where a code may be: on file, too old, or used up.
Traced == file.codes \cup lapsed \cup spent

\* A code that is not saved yet is known to the process that issued it only.
NewCodesAreNew ==
  \A p \in Proc : At(p, "save") /\ job[p].op = "dm" =>
    /\ job[p].code \in mem[p].codes \ (file.codes \cup spent)
    /\ \A q \in Proc \ {p} : job[p].code \notin mem[q].codes

\* What holds as long as no process has saved or stamped over another.
NoLostUpdate ==
  /\ stamped \subseteq seen
  /\ \A p \in seen : HasList(p) => Mirrors(p)
  /\ Alike(file.allow, ideal)
  /\ \A p \in Proc : HasList(p) => mem[p].codes \ NewCode(p) \subseteq Traced
  /\ \A p \in Proc : At(p, "restamp") /\ job[p].op = "dm" => job[p].code \in Traced
  /\ told \subseteq Traced
  /\ spent \cap file.codes = {}

LoneInv ==
  /\ GrantInv
  /\ NewCodesAreNew
  /\ \A c \in spent : codeOf[c] \in User
  /\ ~clashed => NoLostUpdate

\* A step of p that leaves the file alone and issues no code keeps the invariant
\* when it does so for the list of p.
LEMMA QuietStep ==
  ASSUME LoneInv, GrantInv', NEW p \in Proc,
         UNCHANGED <<file, codeOf, ideal, spent>>,
         lapsed \subseteq lapsed', everNamed \subseteq everNamed',
         clashed => clashed',
         \A q \in Proc \ {p} : /\ mem'[q] = mem[q] /\ stage'[q] = stage[q]
                               /\ job'[q] = job[q] /\ (q \in seen' => q \in seen),
         stage'[p] = "save" => job'[p].op # "dm",
         mem'[p].codes \subseteq mem[p].codes \cup file.codes,
         ~clashed' => stamped' \subseteq seen',
         ~clashed' /\ p \in seen' /\ HasList(p)' => Mirrors(p)',
         ~clashed' /\ HasList(p)' => mem'[p].codes \subseteq Traced',
         ~clashed' /\ stage'[p] = "restamp" /\ job'[p].op = "dm" => job'[p].code \in Traced',
         ~clashed' => told' \subseteq Traced'
  PROVE  LoneInv'
<1>1. NewCodesAreNew'
  <2> SUFFICES ASSUME NEW q \in Proc, stage'[q] = "save", job'[q].op = "dm"
               PROVE  /\ job'[q].code \in mem'[q].codes \ (file.codes \cup spent)
                      /\ \A r \in Proc \ {q} : job'[q].code \notin mem'[r].codes
    BY DEF NewCodesAreNew, At
  <2>1. q # p
    OBVIOUS
  <2>2. /\ mem'[q] = mem[q] /\ job'[q] = job[q]
        /\ job[q].code \in mem[q].codes \ (file.codes \cup spent)
        /\ \A r \in Proc \ {q} : job[q].code \notin mem[r].codes
    BY <2>1 DEF LoneInv, NewCodesAreNew, At
  <2>3. ASSUME NEW r \in Proc \ {q} PROVE job[q].code \notin mem'[r].codes
    BY <2>1, <2>2
  <2> QED BY <2>2, <2>3
<1>2. \A c \in spent' : codeOf'[c] \in User
  BY DEF LoneInv
<1>3. ASSUME ~clashed' PROVE NoLostUpdate'
  <2>0. NoLostUpdate
    BY <1>3 DEF LoneInv
  <2>1. Traced \subseteq Traced'
    BY DEF Traced
  <2>2. ASSUME NEW q \in Proc \ {p}
        PROVE  /\ HasList(q)' <=> HasList(q)
               /\ NewCode(q)' = NewCode(q)
               /\ Mirrors(q) => Mirrors(q)'
    BY <2>2 DEF HasList, NewCode, Mirrors, At, Alike, Changed
  <2>3. ASSUME NEW q \in seen', HasList(q)' PROVE Mirrors(q)'
    <3>1. q \in Proc
      BY DEF GrantInv, PairingTypeOK
    <3> QED BY <1>3, <2>0, <2>2, <2>3, <3>1 DEF NoLostUpdate
  <2>4. Alike(file.allow, ideal)'
    BY <2>0 DEF NoLostUpdate, Alike
  <2>5. ASSUME NEW q \in Proc, HasList(q)' PROVE (mem[q].codes \ NewCode(q))' \subseteq Traced'
    <3>1. CASE q = p
      BY <1>3, <2>5, <3>1
    <3>2. CASE q # p
      BY <2>0, <2>1, <2>2, <2>5, <3>2 DEF NoLostUpdate
    <3> QED BY <3>1, <3>2
  <2>6. ASSUME NEW q \in Proc, At(q, "restamp")', (job[q].op = "dm")' PROVE job'[q].code \in Traced'
    BY <1>3, <2>0, <2>1, <2>6 DEF NoLostUpdate, At
  <2>7. (spent \cap file.codes = {})'
    BY <2>0 DEF NoLostUpdate
  <2> QED BY <1>3, <2>3, <2>4, <2>5, <2>6, <2>7 DEF NoLostUpdate
<1> QED BY <1>1, <1>2, <1>3 DEF LoneInv

\* The end of a job that saved nothing, or whose save is over.
LEMMA DoneStep ==
  ASSUME LoneInv, GrantInv', NEW p \in Proc,
         NEW m \in [allow : SUBSET User, codes : SUBSET Code],
         m.codes \subseteq mem[p].codes, Done(p, m),
         UNCHANGED <<file, setting, codeOf, lapsed, ideal, spent>>,
         clashed => clashed', seen' = seen,
         ~clashed' => stamped' \subseteq seen /\ told' \subseteq Traced,
         ~clashed' => m = mem[p] /\ HasList(p) /\ stage[p] # "save"
  PROVE  LoneInv'
<1>0. /\ stage \in [Proc -> Stage] /\ mem \in [Proc -> [allow : SUBSET User, codes : SUBSET Code]]
      /\ job \in [Proc -> [op : Op, user : User \cup {NoUser}, code : Code \cup {NoCode}]]
      /\ file.allow \in SUBSET User
  BY DEF LoneInv, GrantInv, PairingTypeOK
<1>1. /\ \A q \in Proc \ {p} : mem'[q] = mem[q] /\ stage'[q] = stage[q] /\ job'[q] = job[q]
      /\ stage'[p] = Rest(p) /\ job'[p].op = "none"
      /\ mem'[p] = IF p \in Admin THEN Empty ELSE m
  BY <1>0 DEF Done, GoTo, Idle
<1>2. Rest(p) \in {"idle", "off"} /\ (p \in Admin => Rest(p) = "off")
  BY PairingAssumption DEF Rest
<1>3. mem'[p].codes \subseteq mem[p].codes \cup file.codes
  BY <1>1 DEF Empty
<1>4. ~clashed => NoLostUpdate
  BY DEF LoneInv
<1>5. ASSUME ~clashed', HasList(p)' PROVE mem'[p] = mem[p] /\ NewCode(p) = {} /\ NewCode(p)' = {}
  BY <1>1, <1>2, <1>5 DEF HasList, NewCode, At
<1>6. ASSUME ~clashed', p \in seen', HasList(p)' PROVE Mirrors(p)'
  <2>1. Mirrors(p)
    BY <1>4, <1>6 DEF NoLostUpdate
  <2> QED BY <1>1, <1>2, <1>5, <1>6, <2>1 DEF Mirrors, At, Alike, setting
<1>7. Traced' = Traced
  BY DEF Traced
<1>8. ASSUME ~clashed', HasList(p)' PROVE mem'[p].codes \subseteq Traced'
  BY <1>4, <1>5, <1>7, <1>8 DEF NoLostUpdate
<1>9. stage'[p] \notin {"save", "restamp"}
  BY <1>1, <1>2
<1>10. everNamed \subseteq everNamed' /\ lapsed \subseteq lapsed'
  BY DEF setting
<1> QED BY <1>1, <1>3, <1>6, <1>7, <1>8, <1>9, <1>10, QuietStep

\* An atomic replace of the file by a process that saw it: what the list gains or
\* loses is what the job asked for, and codes leave it lapsed or used up.
LEMMA SaveStep ==
  ASSUME LoneInv, GrantInv', NEW p \in Proc, Save(p)
  PROVE  LoneInv'
<1>0. /\ stage \in [Proc -> Stage] /\ mem \in [Proc -> [allow : SUBSET User, codes : SUBSET Code]]
      /\ job \in [Proc -> [op : Op, user : User \cup {NoUser}, code : Code \cup {NoCode}]]
  BY DEF LoneInv, GrantInv, PairingTypeOK
<1>1. /\ stage[p] = "save" /\ stage'[p] = "restamp"
      /\ \A q \in Proc \ {p} : stage'[q] = stage[q] /\ mem'[q] = mem[q]
      /\ mem'[p].allow = mem[p].allow /\ mem'[p].codes = Kept(p)
      /\ file'.allow = mem[p].allow /\ file'.codes = Kept(p)
      /\ stamped' = {} /\ seen' = {p} /\ ideal' = Changed(p, ideal)
      /\ clashed' = (clashed \/ p \notin seen)
      /\ UNCHANGED <<job, codeOf, lapsed, told, everNamed, named>>
      /\ Kept(p) \subseteq mem[p].codes \ lapsed
  BY <1>0 DEF Save, At, GoTo, setting, Kept, Pending
<1>2. /\ spent' = IF Approves(p) THEN spent \cup CodesOf(p, job[p].user) ELSE spent
      /\ Kept(p) = IF Approves(p) THEN Pending(p) \ CodesOf(p, job[p].user) ELSE Pending(p)
  BY DEF Save, Kept
<1>3. job[p].op = "dm" => ~Approves(p)
  BY DEF Approves
<1>4. NewCodesAreNew'
  <2> SUFFICES ASSUME NEW q \in Proc, stage'[q] = "save", job'[q].op = "dm"
               PROVE  /\ job'[q].code \in mem'[q].codes \ (file'.codes \cup spent')
                      /\ \A r \in Proc \ {q} : job'[q].code \notin mem'[r].codes
    BY DEF NewCodesAreNew, At
  <2>1. q # p /\ stage[q] = "save" /\ job[q].op = "dm"
    BY <1>1
  <2>2. /\ job[q].code \in mem[q].codes \ (file.codes \cup spent)
        /\ \A r \in Proc \ {q} : job[q].code \notin mem[r].codes
    BY <2>1 DEF LoneInv, NewCodesAreNew, At
  <2>3. job[q].code \notin CodesOf(p, job[p].user) /\ job[q].code \notin Kept(p)
    BY <1>1, <2>1, <2>2 DEF CodesOf
  <2>4. job[q].code \notin spent'
    BY <1>2, <2>2, <2>3
  <2>5. ASSUME NEW r \in Proc \ {q} PROVE job[q].code \notin mem'[r].codes
    BY <1>1, <2>2, <2>3
  <2> QED BY <1>1, <2>1, <2>2, <2>3, <2>4, <2>5
<1>5. \A c \in spent' : codeOf'[c] \in User
  <2>1. \A c \in CodesOf(p, job[p].user) : codeOf[c] \in User
    BY DEF CodesOf, LoneInv, GrantInv, JobsAreWellFormed
  <2> QED BY <1>1, <1>2, <2>1 DEF LoneInv
<1>6. ASSUME ~clashed' PROVE NoLostUpdate'
  <2>0. NoLostUpdate /\ ~clashed /\ p \in seen /\ HasList(p) /\ Mirrors(p)
    BY <1>1, <1>6 DEF LoneInv, NoLostUpdate, HasList
  <2>1. Mirrors(p)'
    BY <1>1 DEF Mirrors, Alike, NewCode, At
  <2>2. Alike(file.allow, ideal)'
    <3>1. Alike(mem[p].allow, Changed(p, file.allow)) /\ Alike(file.allow, ideal)
      BY <1>1, <2>0 DEF Mirrors, At, NoLostUpdate
    <3>2. Alike(Changed(p, file.allow), Changed(p, ideal))
      BY <3>1 DEF Alike, Changed
    <3>3. Alike(mem[p].allow, Changed(p, ideal))
      BY <3>1, <3>2 DEF Alike
    <3> QED BY <1>1, <3>3 DEF Alike
  <2>3. file.codes \subseteq mem[p].codes /\ mem[p].codes \subseteq file.codes \cup NewCode(p)
    BY <2>0 DEF Mirrors
  <2>4. mem[p].codes \subseteq Traced'
    <3>1. mem[p].codes \subseteq Kept(p) \cup lapsed \cup spent'
      BY <1>2 DEF Pending
    <3> QED BY <1>1, <3>1 DEF Traced
  <2>5. Traced \subseteq Traced'
    <3>1. lapsed \subseteq Traced' /\ spent \subseteq Traced'
      BY <1>1, <1>2 DEF Traced
    <3> QED BY <2>3, <2>4, <3>1 DEF Traced
  <2>6. spent' \cap file'.codes = {}
    <3>1. spent \cap file.codes = {}
      BY <2>0 DEF NoLostUpdate
    <3>2. spent \cap NewCode(p) = {}
      BY <1>1 DEF LoneInv, NewCodesAreNew, NewCode, At
    <3>3. spent \cap mem[p].codes = {}
      BY <2>3, <3>1, <3>2
    <3> QED BY <1>1, <1>2, <3>3
  <2>7. ASSUME NEW q \in Proc, HasList(q)' PROVE (mem[q].codes \ NewCode(q))' \subseteq Traced'
    <3>1. CASE q = p
      BY <1>1, <2>4, <3>1
    <3>2. CASE q # p
      <4>1. /\ mem'[q] = mem[q] /\ NewCode(q)' = NewCode(q) /\ HasList(q)
        BY <1>1, <2>7, <3>2 DEF NewCode, HasList, At
      <4> QED BY <2>0, <2>5, <4>1 DEF NoLostUpdate
    <3> QED BY <3>1, <3>2
  <2>8. ASSUME NEW q \in Proc, At(q, "restamp")', (job[q].op = "dm")' PROVE job'[q].code \in Traced'
    <3>1. CASE q = p
      <4>1. job[p].code \in mem[p].codes
        BY <1>1, <2>8, <3>1 DEF LoneInv, NewCodesAreNew, At
      <4> QED BY <1>1, <2>4, <3>1, <4>1
    <3>2. CASE q # p
      BY <1>1, <2>0, <2>5, <2>8, <3>2 DEF NoLostUpdate, At
    <3> QED BY <3>1, <3>2
  <2>9. told' \subseteq Traced'
    BY <1>1, <2>0, <2>5 DEF NoLostUpdate
  <2> QED BY <1>1, <2>1, <2>2, <2>6, <2>7, <2>8, <2>9 DEF NoLostUpdate
<1> QED BY <1>4, <1>5, <1>6 DEF LoneInv

\* A new code is nowhere yet, so nobody has used it up or saved it.
LEMMA IssueStep ==
  ASSUME LoneInv, GrantInv', NEW p \in Proc, IssueCode(p)
  PROVE  LoneInv'
<1>0. /\ stage \in [Proc -> Stage] /\ mem \in [Proc -> [allow : SUBSET User, codes : SUBSET Code]]
      /\ job \in [Proc -> [op : Op, user : User \cup {NoUser}, code : Code \cup {NoCode}]]
      /\ codeOf \in [Code -> User \cup {NoUser}]
      /\ spent \in SUBSET Code /\ seen \in SUBSET Proc
  BY DEF LoneInv, GrantInv, PairingTypeOK
<1>1. PICK c \in Code : /\ codeOf[c] = NoUser
                        /\ codeOf' = [codeOf EXCEPT ![c] = job[p].user]
                        /\ mem' = [mem EXCEPT ![p].codes = @ \cup {c}]
                        /\ job' = [job EXCEPT ![p].code = c]
  BY DEF IssueCode
<1>2. /\ job[p].op = "dm" /\ job'[p].op = "dm" /\ job'[p].code = c
      /\ \A q \in Proc \ {p} : job'[q] = job[q] /\ mem'[q] = mem[q] /\ stage'[q] = stage[q]
      /\ mem'[p].allow = mem[p].allow /\ mem'[p].codes = mem[p].codes \cup {c}
      /\ stage[p] = "decide" /\ stage'[p] = "save"
      /\ job[p].user \in User
  BY <1>0, <1>1 DEF IssueCode, At, GoTo, LoneInv, GrantInv, JobsAreWellFormed
<1>3. UNCHANGED <<file, stamped, setting, lapsed, history>>
  BY DEF IssueCode
<1>4. /\ c \notin file.codes \cup spent
      /\ \A q \in Proc : c \notin mem[q].codes
  BY <1>1, PairingAssumption DEF LoneInv, GrantInv, JobsAreWellFormed
<1>5. NewCodesAreNew'
  <2> SUFFICES ASSUME NEW q \in Proc, stage'[q] = "save", job'[q].op = "dm"
               PROVE  /\ job'[q].code \in mem'[q].codes \ (file'.codes \cup spent')
                      /\ \A r \in Proc \ {q} : job'[q].code \notin mem'[r].codes
    BY DEF NewCodesAreNew, At
  <2>1. CASE q = p
    BY <1>2, <1>3, <1>4, <2>1 DEF history
  <2>2. CASE q # p
    <3>1. /\ job[q].code \in mem[q].codes \ (file.codes \cup spent)
          /\ \A r \in Proc \ {q} : job[q].code \notin mem[r].codes
      BY <1>2, <2>2 DEF LoneInv, NewCodesAreNew, At
    <3>2. job[q].code # c
      BY <1>4, <3>1
    <3>3. ASSUME NEW r \in Proc \ {q} PROVE job[q].code \notin mem'[r].codes
      BY <1>2, <3>1, <3>2
    <3> QED BY <1>2, <1>3, <2>2, <3>1, <3>3 DEF history
  <2> QED BY <2>1, <2>2
<1>6. \A d \in spent' : codeOf'[d] \in User
  BY <1>0, <1>1, <1>2, <1>3 DEF LoneInv, history
<1>7. ASSUME ~clashed' PROVE NoLostUpdate'
  <2>0. NoLostUpdate
    BY <1>3, <1>7 DEF LoneInv, history
  <2>1. Traced' = Traced
    BY <1>3 DEF Traced, history
  <2>2. \A q \in Proc \ {p} : /\ HasList(q)' <=> HasList(q)
                              /\ NewCode(q)' = NewCode(q)
                              /\ Mirrors(q) => Mirrors(q)'
    BY <1>2, <1>3 DEF HasList, NewCode, Mirrors, At, Alike, Changed, setting
  <2>3. HasList(p) /\ NewCode(p) = {} /\ NewCode(p)' = {c}
    BY <1>2 DEF HasList, NewCode, At
  <2>4. Mirrors(p) => Mirrors(p)'
    <3>1. Mirrors(p) => Alike(mem[p].allow, file.allow) /\ mem[p].codes = file.codes
      BY <1>2, <2>3 DEF Mirrors, At
    <3>2. Alike(mem[p].allow, file.allow) => Alike(mem[p].allow, Changed(p, file.allow))'
      BY <1>2, <1>3 DEF Alike, Changed, setting
    <3> QED BY <1>2, <1>3, <2>3, <3>1, <3>2 DEF Mirrors, At
  <2>5. ASSUME NEW q \in seen', HasList(q)' PROVE Mirrors(q)'
    BY <1>0, <1>3, <2>0, <2>2, <2>3, <2>4, <2>5 DEF NoLostUpdate, history
  <2>6. ASSUME NEW q \in Proc, HasList(q)' PROVE (mem[q].codes \ NewCode(q))' \subseteq Traced'
    <3>1. CASE q = p
      BY <1>2, <2>0, <2>1, <2>3, <3>1 DEF NoLostUpdate
    <3>2. CASE q # p
      BY <1>2, <2>0, <2>1, <2>2, <2>6, <3>2 DEF NoLostUpdate
    <3> QED BY <3>1, <3>2
  <2>7. ASSUME NEW q \in Proc, At(q, "restamp")', (job[q].op = "dm")' PROVE job'[q].code \in Traced'
    BY <1>2, <2>0, <2>1, <2>7 DEF NoLostUpdate, At
  <2>8. Alike(file.allow, ideal)'
    BY <1>3, <2>0 DEF NoLostUpdate, Alike, history, setting
  <2> QED BY <1>3, <2>0, <2>1, <2>5, <2>6, <2>7, <2>8 DEF NoLostUpdate, history
<1> QED BY <1>5, <1>6, <1>7 DEF LoneInv

LEMMA LapseStep ==
  ASSUME LoneInv, GrantInv', NEW c \in Code, CodeLapses(c)
  PROVE  LoneInv'
<1>1. /\ UNCHANGED <<file, stamped, mem, stage, job, setting, codeOf, history>>
      /\ lapsed \subseteq lapsed'
  BY DEF CodeLapses
<1>2. Traced \subseteq Traced'
  BY <1>1 DEF Traced, history
<1>3. \A q \in Proc : /\ NewCode(q)' = NewCode(q) /\ (HasList(q)' <=> HasList(q))
                      /\ Mirrors(q) => Mirrors(q)'
  BY <1>1 DEF HasList, NewCode, Mirrors, At, Alike, Changed, setting
<1>4. NewCodesAreNew' /\ \A d \in spent' : codeOf'[d] \in User
  BY <1>1 DEF LoneInv, NewCodesAreNew, At, history
<1>5. ASSUME ~clashed' PROVE NoLostUpdate'
  <2>0. NoLostUpdate /\ seen' = seen /\ seen \in SUBSET Proc
    BY <1>1, <1>5 DEF LoneInv, GrantInv, PairingTypeOK, history
  <2>1. \A q \in seen' : HasList(q)' => Mirrors(q)'
    BY <1>3, <2>0 DEF NoLostUpdate
  <2>2. Alike(file.allow, ideal)'
    BY <1>1, <2>0 DEF NoLostUpdate, Alike, history, setting
  <2>3. ASSUME NEW q \in Proc, HasList(q)' PROVE (mem[q].codes \ NewCode(q))' \subseteq Traced'
    BY <1>1, <1>2, <1>3, <2>0, <2>3 DEF NoLostUpdate
  <2>4. ASSUME NEW q \in Proc, At(q, "restamp")', (job[q].op = "dm")' PROVE job'[q].code \in Traced'
    BY <1>1, <1>2, <2>0, <2>4 DEF NoLostUpdate, At
  <2> QED BY <1>1, <1>2, <2>0, <2>1, <2>2, <2>3, <2>4 DEF NoLostUpdate, history
<1> QED BY <1>4, <1>5 DEF LoneInv

LEMMA LoneInitially == Init => LoneInv
<1> SUFFICES ASSUME Init PROVE LoneInv
  OBVIOUS
<1>1. GrantInv
  BY GrantInit
<1>2. NewCodesAreNew /\ (\A c \in spent : codeOf[c] \in User)
  BY DEF Init, NewCodesAreNew, At
<1>3. NoLostUpdate
  BY DEF Init, NoLostUpdate, HasList, At, Alike, Empty
<1> QED BY <1>1, <1>2, <1>3 DEF LoneInv

LEMMA LoneStep == LoneInv /\ [Next]_vars => LoneInv'
<1> SUFFICES ASSUME LoneInv, [Next]_vars PROVE LoneInv'
  OBVIOUS
<1>0. GrantInv'
  BY GrantStep DEF LoneInv
<1>1. /\ stage \in [Proc -> Stage] /\ mem \in [Proc -> [allow : SUBSET User, codes : SUBSET Code]]
      /\ job \in [Proc -> [op : Op, user : User \cup {NoUser}, code : Code \cup {NoCode}]]
      /\ named \subseteq everNamed
      /\ seen \subseteq Proc /\ Gateway \in Proc
  BY DEF LoneInv, GrantInv, PairingTypeOK, Proc
<1>2. ~clashed => NoLostUpdate
  BY DEF LoneInv
<1>3. ASSUME NEW p \in Proc, ReadFile(p) PROVE LoneInv'
  <2>1. /\ \A q \in Proc \ {p} : mem'[q] = mem[q] /\ stage'[q] = stage[q] /\ job'[q] = job[q]
        /\ mem'[p] = Loaded(p) /\ stage'[p] = "stamp" /\ seen' = seen \cup {p}
        /\ UNCHANGED <<file, stamped, job, setting, codeOf, lapsed, ideal, spent, told, clashed>>
    BY <1>1, <1>3 DEF ReadFile, GoTo
  <2>2. NewCode(p)' = {} /\ Traced' = Traced /\ everNamed' = everNamed
    BY <2>1 DEF NewCode, At, Traced, setting
  <2>3. mem'[p].allow = named \cup file.allow /\ mem'[p].codes = file.codes
    BY <2>1 DEF Loaded
  <2>4. Mirrors(p)'
    BY <1>1, <2>1, <2>2, <2>3 DEF Mirrors, Alike, At
  <2>5. file.codes \subseteq Traced
    BY DEF Traced
  <2> QED BY <1>0, <1>2, <2>1, <2>2, <2>3, <2>4, <2>5, QuietStep DEF NoLostUpdate
<1>4. ASSUME NEW p \in Proc, TakeStamp(p) PROVE LoneInv'
  <2>1. /\ \A q \in Proc \ {p} : stage'[q] = stage[q]
        /\ stage[p] = "stamp" /\ stage'[p] = "decide" /\ stamped' = stamped \cup {p}
        /\ clashed' = (clashed \/ p \notin seen)
        /\ UNCHANGED <<file, mem, job, setting, codeOf, lapsed, seen, ideal, spent, told>>
    BY <1>1, <1>4 DEF TakeStamp, GoTo, At
  <2>2. /\ HasList(p) /\ NewCode(p) = {} /\ NewCode(p)' = {} /\ Traced' = Traced
        /\ everNamed' = everNamed
    BY <2>1 DEF HasList, NewCode, At, Traced, setting
  <2>3. Mirrors(p) => Mirrors(p)'
    BY <2>1, <2>2 DEF Mirrors, Alike, At
  <2> QED BY <1>0, <1>2, <2>1, <2>2, <2>3, QuietStep DEF NoLostUpdate
<1>5. ASSUME NEW p \in Proc, FailSave(p) PROVE LoneInv'
  <2> DEFINE m == [mem[p] EXCEPT !.codes = Kept(p)]
  <2>1. m \in [allow : SUBSET User, codes : SUBSET Code] /\ m.codes \subseteq mem[p].codes
    BY <1>1, KeptIsASetOfCodes DEF LoneInv, GrantInv
  <2>2. /\ Done(p, m) /\ clashed'
        /\ UNCHANGED <<file, stamped, setting, codeOf, lapsed, seen, ideal, spent>>
    BY <1>5 DEF FailSave
  <2> HIDE DEF m
  <2> QED BY <1>0, <2>1, <2>2, DoneStep
<1>6. ASSUME NEW p \in Proc, Restamp(p) PROVE LoneInv'
  <2>1. /\ Done(p, mem[p]) /\ stage[p] = "restamp"
        /\ stamped' = stamped \cup {p} /\ clashed' = (clashed \/ p \notin seen)
        /\ told' = IF job[p].op = "dm" THEN told \cup {job[p].code} ELSE told
        /\ UNCHANGED <<file, setting, codeOf, lapsed, seen, ideal, spent>>
    BY <1>6 DEF Restamp, At
  <2>2. mem[p] \in [allow : SUBSET User, codes : SUBSET Code] /\ HasList(p)
    BY <1>1, <2>1 DEF HasList
  <2>3. ~clashed' => stamped' \subseteq seen /\ told' \subseteq Traced
    BY <1>2, <2>1 DEF NoLostUpdate, At
  <2> QED BY <1>0, <2>1, <2>2, <2>3, DoneStep
<1>7. ASSUME NEW p \in Proc, NothingToSave(p), stage[p] = "decide",
             ~clashed => told' \subseteq Traced
      PROVE  LoneInv'
  <2>1. /\ Done(p, mem[p])
        /\ UNCHANGED <<file, stamped, setting, codeOf, lapsed, seen, ideal, spent, clashed>>
    BY <1>7 DEF NothingToSave
  <2>2. mem[p] \in [allow : SUBSET User, codes : SUBSET Code] /\ HasList(p)
    BY <1>1, <1>7 DEF HasList
  <2> QED BY <1>0, <1>2, <1>7, <2>1, <2>2, DoneStep DEF NoLostUpdate
<1>8. ASSUME NEW p \in Proc, Boots(p) PROVE LoneInv'
  BY <1>2, <1>7, <1>8 DEF Boots, At, NoLostUpdate
<1>9. ASSUME NEW p \in Proc, AnswerDm(p) PROVE LoneInv'
  <2>1. stage[p] = "decide" /\ HasList(p) /\ NewCode(p) = {}
    BY <1>9 DEF AnswerDm, At, HasList, NewCode
  <2>2. told' \subseteq told \cup mem[p].codes
    BY <1>9 DEF AnswerDm, LiveCodes, CodesOf
  <2>3. ~clashed => told' \subseteq Traced
    BY <1>2, <2>1, <2>2 DEF NoLostUpdate
  <2> QED BY <1>7, <1>9, <2>1, <2>3 DEF AnswerDm
<1>10. ASSUME NEW p \in Proc, ChangeList(p) PROVE LoneInv'
  <2>1. stage[p] = "decide" /\ HasList(p) /\ NewCode(p) = {}
    BY <1>10 DEF ChangeList, At, HasList, NewCode
  <2>2. CASE NothingToSave(p) /\ UNCHANGED told
    BY <1>2, <1>7, <2>1, <2>2 DEF NoLostUpdate
  <2>3. CASE ~(NothingToSave(p) /\ UNCHANGED told)
    <3> DEFINE A == Changed(p, mem[p].allow)
    <3>1. /\ job[p].op \in {"approve", "code", "revoke", "seed"}
          /\ mem' = [mem EXCEPT ![p].allow = A]
          /\ stage' = [stage EXCEPT ![p] = "save"]
          /\ UNCHANGED <<file, stamped, job, setting, codeOf, lapsed, seen, ideal, spent, told, clashed>>
      BY <1>10, <2>3 DEF ChangeList, GoTo
    <3> HIDE DEF A
    <3>2. /\ \A q \in Proc \ {p} : mem'[q] = mem[q] /\ stage'[q] = stage[q]
          /\ mem'[p].allow = A /\ mem'[p].codes = mem[p].codes /\ stage'[p] = "save"
      BY <1>1, <3>1
    <3>3. NewCode(p)' = {} /\ Traced' = Traced /\ everNamed' = everNamed
      BY <3>1, <3>2 DEF NewCode, At, Traced, setting
    <3>4. Mirrors(p) => Mirrors(p)'
      <4>1. Mirrors(p) => Alike(mem[p].allow, file.allow) /\ mem[p].codes = file.codes
        BY <2>1 DEF Mirrors, At
      <4>2. Alike(mem[p].allow, file.allow) => Alike(A, Changed(p, file.allow))
        BY DEF A, Alike, Changed
      <4>3. Changed(p, file.allow)' = Changed(p, file.allow)
        BY <3>1 DEF Changed
      <4> QED BY <3>1, <3>2, <3>3, <4>1, <4>2, <4>3 DEF Mirrors, Alike, At
    <3> QED BY <1>0, <1>2, <2>1, <3>1, <3>2, <3>3, <3>4, QuietStep DEF NoLostUpdate
  <2> QED BY <2>2, <2>3
<1>11. ASSUME NEW p \in Proc, LookUpCode(p) PROVE LoneInv'
  <2>1. stage[p] = "decide" /\ HasList(p) /\ NewCode(p) = {}
    BY <1>11 DEF LookUpCode, At, HasList, NewCode
  <2>2. CASE NothingToSave(p) /\ UNCHANGED told
    BY <1>2, <1>7, <2>1, <2>2 DEF NoLostUpdate
  <2>3. CASE ~(NothingToSave(p) /\ UNCHANGED told)
    <3>1. /\ \A q \in Proc \ {p} : job'[q] = job[q]
          /\ UNCHANGED <<file, stamped, mem, stage, setting, codeOf, lapsed, history>>
      BY <1>1, <1>11, <2>3 DEF LookUpCode
    <3>2. /\ NewCode(p)' = {} /\ Traced' = Traced /\ everNamed' = everNamed
          /\ HasList(p)' /\ UNCHANGED <<seen, ideal, spent, told, clashed>>
      BY <2>1, <3>1 DEF NewCode, At, Traced, HasList, setting, history
    <3>3. Mirrors(p) => Mirrors(p)'
      BY <2>1, <3>1, <3>2 DEF Mirrors, Alike, At
    <3> QED BY <1>0, <1>2, <2>1, <3>1, <3>2, <3>3, QuietStep DEF NoLostUpdate
  <2> QED BY <2>2, <2>3
<1>12. ASSUME NEW p \in Proc, RunCommand(p) PROVE LoneInv'
  <2>1. /\ \A q \in Proc \ {p} : stage'[q] = stage[q] /\ job'[q] = job[q]
        /\ stage'[p] = "read" /\ seen' = seen \cup {p}
        /\ UNCHANGED <<file, stamped, mem, setting, codeOf, lapsed, ideal, spent, told, clashed>>
    BY <1>1, <1>12 DEF RunCommand, Begin, GoTo
  <2>2. ~HasList(p)' /\ Traced' = Traced /\ everNamed' = everNamed
    BY <2>1 DEF HasList, Traced, setting
  <2> QED BY <1>0, <1>2, <2>1, <2>2, QuietStep DEF NoLostUpdate
<1>13. CASE Boot
  <2>1. /\ \A q \in Proc \ {Gateway} : stage'[q] = stage[q] /\ job'[q] = job[q]
        /\ stage'[Gateway] = "read" /\ everNamed \subseteq everNamed'
        /\ UNCHANGED <<file, stamped, mem, codeOf, lapsed, history>>
    BY <1>1, <1>13 DEF Boot, Begin, GoTo
  <2>2. /\ ~HasList(Gateway)' /\ Traced' = Traced
        /\ UNCHANGED <<seen, ideal, spent, told, clashed>>
    BY <2>1 DEF HasList, Traced, history
  <2> QED BY <1>0, <1>1, <1>2, <2>1, <2>2, QuietStep DEF NoLostUpdate
<1>14. ASSUME NEW s \in {"read", "decide"}, NEW o \in {"seed", "dm"}, NEW u, At(Gateway, "idle"),
              Begin(Gateway, s, o, u, NoCode),
              UNCHANGED <<file, stamped, mem, setting, codeOf, lapsed, ideal, spent, told, clashed>>,
              seen' \in {seen, seen \cup {Gateway}},
              seen' = seen \/ s = "read" \/ Gateway \in stamped
       PROVE  LoneInv'
  <2>1. /\ \A q \in Proc \ {Gateway} : stage'[q] = stage[q] /\ job'[q] = job[q]
        /\ stage[Gateway] = "idle" /\ stage'[Gateway] = s
    BY <1>1, <1>14 DEF Begin, GoTo, At
  <2>2. /\ HasList(Gateway) /\ Traced' = Traced /\ everNamed' = everNamed
        /\ NewCode(Gateway) = {} /\ NewCode(Gateway)' = {}
    BY <1>14, <2>1 DEF HasList, Traced, NewCode, At, setting
  <2>3. Mirrors(Gateway) => Mirrors(Gateway)'
    BY <1>14, <2>1, <2>2 DEF Mirrors, Alike, At
  <2>4. ASSUME ~clashed', Gateway \in seen', HasList(Gateway)' PROVE Mirrors(Gateway)'
    <3>1. Gateway \in seen
      BY <1>2, <1>14, <2>1, <2>4 DEF NoLostUpdate, HasList
    <3> QED BY <1>2, <1>14, <2>2, <2>3, <2>4, <3>1 DEF NoLostUpdate
  <2>5. ~clashed' => mem'[Gateway].codes \subseteq Traced' /\ told' \subseteq Traced' /\ stamped' \subseteq seen'
    BY <1>1, <1>2, <1>14, <2>2 DEF NoLostUpdate
  <2>6. stage'[Gateway] \notin {"save", "restamp"}
    BY <2>1
  <2>7. /\ \A q \in Proc \ {Gateway} : q \in seen' => q \in seen
        /\ mem'[Gateway].codes \subseteq mem[Gateway].codes \cup file.codes
        /\ \A q \in Proc \ {Gateway} : mem'[q] = mem[q]
        /\ lapsed' = lapsed /\ UNCHANGED <<file, codeOf, ideal, spent, clashed>>
    BY <1>14
  <2> QED BY <1>0, <1>1, <2>1, <2>2, <2>4, <2>5, <2>6, <2>7, QuietStep
<1>15. CASE Seed
  BY <1>14, <1>15 DEF Seed, history
<1>16. ASSUME NEW u \in User, Dm(u) PROVE LoneInv'
  <2>1. AfterStat \in {"read", "decide"} /\ (AfterStat = "decide" => Gateway \in stamped)
    BY DEF AfterStat
  <2> QED BY <1>14, <1>16, <2>1 DEF Dm
<1>17. CASE UNCHANGED vars
  <2>1. UNCHANGED <<file, stamped, mem, stage, job, named, everNamed, codeOf, lapsed,
                    seen, ideal, spent, told, clashed>>
    BY <1>17 DEF vars, setting, history
  <2>2. /\ \A q \in Proc : /\ NewCode(q)' = NewCode(q) /\ (HasList(q)' <=> HasList(q))
                           /\ (Mirrors(q)' <=> Mirrors(q))
        /\ Traced' = Traced
    BY <2>1 DEF HasList, NewCode, Mirrors, At, Alike, Changed, Traced
  <2>3. NewCodesAreNew' /\ (\A c \in spent' : codeOf'[c] \in User)
    BY <2>1 DEF LoneInv, NewCodesAreNew, At
  <2>4. NoLostUpdate => NoLostUpdate'
    BY <1>1, <2>1, <2>2 DEF NoLostUpdate, Alike, At
  <2> QED BY <1>0, <2>1, <2>3, <2>4 DEF LoneInv
<1> QED
  BY <1>3, <1>4, <1>5, <1>6, <1>8, <1>9, <1>10, <1>11, <1>12, <1>13, <1>15, <1>16,
     <1>17, SaveStep, IssueStep, LapseStep, <1>0 DEF Next, Step

LEMMA LoneIsInvariant == Spec => []LoneInv
BY LoneInitially, LoneStep, PTL DEF Spec

\* As long as no process saves or stamps over a version it had not read, the
\* gateway decides the next direct message by the list that every approval,
\* revocation and seed so far makes, for the users the setting never named.
THEOREM ApprovalsReachTheGateway == Spec => []LoneRunsTakeEffect
<1>1. LoneInv => LoneRunsTakeEffect
  <2> SUFFICES ASSUME LoneInv, ~clashed, At(Gateway, "idle"), NEW u \in User \ everNamed
               PROVE  WouldAdmit(u) <=> u \in ideal
    BY DEF LoneRunsTakeEffect
  <2>1. NoLostUpdate /\ named \subseteq everNamed
    BY DEF LoneInv, GrantInv
  <2>2. u \in file.allow <=> u \in ideal
    BY <2>1 DEF NoLostUpdate, Alike
  <2>3. ASSUME Gateway \in stamped PROVE u \in mem[Gateway].allow <=> u \in file.allow
    <3>1. HasList(Gateway) /\ ~At(Gateway, "save")
      BY DEF At, HasList
    <3>2. Mirrors(Gateway)
      BY <2>1, <2>3, <3>1 DEF NoLostUpdate
    <3> QED BY <3>1, <3>2 DEF Mirrors, Alike
  <2> QED BY <2>1, <2>2, <2>3 DEF WouldAdmit
<1>2. QED BY <1>1, LoneIsInvariant, PTL

\* The replay guard, under the same condition: a code its user was told stays on
\* file until it lapses or is used up, and a used-up code is on file no more.
THEOREM CodesAreSpentOnce == Spec => []CodesLiveUntilSpent
<1>1. LoneInv => CodesLiveUntilSpent
  BY DEF LoneInv, NoLostUpdate, Traced, CodesLiveUntilSpent
<1>2. QED BY <1>1, LoneIsInvariant, PTL

=============================================================================
