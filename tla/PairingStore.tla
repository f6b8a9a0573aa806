---------------------------- MODULE PairingStore ----------------------------
(***************************************************************************)
(* The DM allow list and the pending pairing codes (zulip/policy.py): one  *)
(* JSON file that the running gateway and each run of the pairing command  *)
(* (zulip/pairing.py) load, change in memory and replace as a whole.       *)
(* There is no lock; a stamp from stat() is all a process knows of what    *)
(* the others did.  Every read, stat and replace of the file is a step.    *)
(*                                                                         *)
(* The owner is looked up from Zulip (ZULIP_OWNER_EMAIL is unset) and a    *)
(* missing file counts as an empty one.                                    *)
(***************************************************************************)
EXTENDS Naturals, FiniteSets

CONSTANTS
  User,
  Admin,      \* terminals, each with one pairing command at a time
  Gateway,    \* the gateway process
  Owner,      \* the user Zulip reports as the bot's owner
  NoUser,
  Namable,    \* users the operator may list in ZULIP_ALLOWED_USERS
  MaxCodes,   \* how many codes are ever issued
  MaxBoots,   \* how often the gateway starts
  MaxRuns     \* how often the pairing command is run

ASSUME PairingAssumption ==
  /\ Owner \in User /\ Namable \subseteq User /\ NoUser \notin User
  /\ Gateway \notin Admin
  /\ MaxCodes \in Nat /\ MaxBoots \in Nat /\ MaxRuns \in Nat

Proc == Admin \cup {Gateway}
Code == 1..MaxCodes
NoCode == 0

VARIABLES
  file,     \* what the data file holds: [allow, codes]
  stamped,  \* processes whose _loaded_stamp is what stat() says of the file now
  mem,      \* each process's [allow, codes]
  stage,    \* what each process does to the file next
  job,      \* what each process is at: [op, user, code]
  named,    \* ZULIP_ALLOWED_USERS, as last set by the operator
  mode,     \* ZULIP_DM_POLICY: "pairing" or "allowlist"
  codeOf,   \* the user each issued code belongs to
  lapsed,   \* codes older than the pairing TTL
  boots, runs,  \* starts of the gateway and of the command so far
  seen,     \* processes whose work rests on the file as it is now
  ideal,    \* the allow list if every run had been alone with the file
  everNamed,\* users ever named in the setting
  granted,  \* users ever approved or seeded
  spent,    \* codes used up by an approval
  told,     \* codes the bot has shown to their users
  clashed   \* has a process saved or stamped over what it had not seen?

history == <<seen, ideal, granted, spent, told, clashed>>
setting == <<named, everNamed, mode, boots>>
vars == <<file, stamped, mem, stage, job, setting, runs, codeOf, lapsed, history>>

Idle == [op |-> "none", user |-> NoUser, code |-> NoCode]
Empty == [allow |-> {}, codes |-> {}]

Init ==
  /\ file = Empty
  /\ stamped = {}
  /\ mem = [p \in Proc |-> Empty]
  /\ stage = [p \in Proc |-> "off"]
  /\ job = [p \in Proc |-> Idle]
  /\ named = {} /\ everNamed = {}
  /\ mode = "pairing"
  /\ codeOf = [c \in Code |-> NoUser]
  /\ lapsed = {}
  /\ boots = 0 /\ runs = 0
  /\ seen = {}
  /\ ideal = {} /\ granted = {} /\ spent = {} /\ told = {}
  /\ clashed = FALSE

Pending(p) == mem[p].codes \ lapsed
CodesOf(p, u) == {c \in mem[p].codes : codeOf[c] = u}

-----------------------------------------------------------------------------
(* Loading and saving, one file operation at a time. *)

At(p, s) == stage[p] = s
GoTo(p, s) == stage' = [stage EXCEPT ![p] = s]

\* Slip: whoever asks for access is let in.
LoadedWithRequests(p) ==
  [allow |-> named \cup file.allow \cup {codeOf[c] : c \in file.codes}, codes |-> file.codes]

\* _load_from_disk: the sets are rebuilt from settings and file, never merged.
Loaded(p) == [allow |-> named \cup file.allow, codes |-> file.codes]

ReadFile(p) ==
  /\ At(p, "read")
  /\ mem' = [mem EXCEPT ![p] = Loaded(p)]
  /\ seen' = seen \cup {p}
  /\ GoTo(p, "stamp")
  /\ UNCHANGED <<file, stamped, job, setting, runs, codeOf, lapsed, ideal, granted, spent, told, clashed>>

\* The stat() that follows, which may already see the next version.
TakeStamp(p) ==
  /\ At(p, "stamp")
  /\ stamped' = stamped \cup {p}
  /\ clashed' = (clashed \/ p \notin seen)
  /\ GoTo(p, "decide")
  /\ UNCHANGED <<file, mem, job, setting, runs, codeOf, lapsed, seen, ideal, granted, spent, told>>

\* What the job of p adds to and takes from an allow list.
Changed(p, allow) ==
  CASE job[p].op \in {"approve", "code", "seed"} -> allow \cup {job[p].user}
    [] job[p].op = "revoke" -> allow \ {job[p].user}
    [] OTHER -> allow

Approves(p) == job[p].op \in {"approve", "code"}

Rest(p) == IF p = Gateway THEN "idle" ELSE "off"

\* The job is done with m in memory; a command ends there and its memory with it.
Done(p, m) ==
  /\ GoTo(p, Rest(p))
  /\ job' = [job EXCEPT ![p] = Idle]
  /\ mem' = [mem EXCEPT ![p] = IF p \in Admin THEN Empty ELSE m]

\* Slip: only what this process has issued is written.
KeptOwn(p) == {c \in Pending(p) : c = job[p].code}

\* _prune_pairing, then os.replace of a file with all the process knows.
Kept(p) == Pending(p) \ (IF Approves(p) THEN CodesOf(p, job[p].user) ELSE {})

Save(p) ==
  /\ At(p, "save")
  /\ mem' = [mem EXCEPT ![p].codes = Kept(p)]
  /\ file' = [allow |-> mem[p].allow, codes |-> Kept(p)]
  /\ stamped' = {}
  /\ clashed' = (clashed \/ p \notin seen)
  /\ seen' = {p}
  /\ ideal' = Changed(p, ideal)
  /\ spent' = IF Approves(p) THEN spent \cup CodesOf(p, job[p].user) ELSE spent
  /\ GoTo(p, "restamp")
  /\ UNCHANGED <<job, setting, runs, codeOf, lapsed, granted, told>>

\* An OSError: logged, and the process goes on with its memory.
FailSave(p) ==
  /\ At(p, "save")
  /\ clashed' = TRUE
  /\ told' = IF job[p].op = "dm" THEN told \cup {job[p].code} ELSE told
  /\ Done(p, [mem[p] EXCEPT !.codes = Kept(p)])
  /\ UNCHANGED <<file, stamped, setting, runs, codeOf, lapsed, seen, ideal, granted, spent>>

Restamp(p) ==
  /\ At(p, "restamp")
  /\ stamped' = stamped \cup {p}
  /\ clashed' = (clashed \/ p \notin seen)
  /\ told' = IF job[p].op = "dm" THEN told \cup {job[p].code} ELSE told
  /\ Done(p, mem[p])
  /\ UNCHANGED <<file, setting, runs, codeOf, lapsed, seen, ideal, granted, spent>>

-----------------------------------------------------------------------------
(* What a process does with the list it has loaded. *)

NothingToSave(p) ==
  /\ Done(p, mem[p])
  /\ UNCHANGED <<file, stamped, setting, runs, codeOf, lapsed, seen, ideal, granted, spent, clashed>>

\* PolicyEngine.__init__ when there is no owner to seed.
Boots(p) ==
  /\ At(p, "decide") /\ job[p].op = "boot"
  /\ NothingToSave(p) /\ UNCHANGED told

\* check_dm.  An allowed sender and a sender with a live code change nothing.
Admits(p, u) == u \in mem[p].allow
LiveCodes(p, u) == CodesOf(p, u) \ lapsed

AnswerDm(p) ==
  /\ At(p, "decide") /\ job[p].op = "dm"
  /\ Admits(p, job[p].user) \/ mode = "allowlist" \/ LiveCodes(p, job[p].user) # {}
  /\ NothingToSave(p)
  /\ told' = IF mode = "pairing" /\ ~Admits(p, job[p].user)
               THEN told \cup LiveCodes(p, job[p].user) ELSE told

IssueCode(p) ==
  LET u == job[p].user IN
  /\ At(p, "decide") /\ job[p].op = "dm"
  /\ mode = "pairing" /\ ~Admits(p, u) /\ LiveCodes(p, u) = {}
  /\ \E c \in Code :
       /\ codeOf[c] = NoUser /\ \A d \in Code : d < c => codeOf[d] # NoUser
       /\ codeOf' = [codeOf EXCEPT ![c] = u]
       /\ mem' = [mem EXCEPT ![p].codes = @ \cup {c}]
       /\ job' = [job EXCEPT ![p].code = c]
  /\ GoTo(p, "save")
  /\ UNCHANGED <<file, stamped, setting, runs, lapsed, history>>

\* approve_email, revoke_email, seed_dm_allowlist, and the pairing command's
\* approve_code once the code has led to an email.
ChangeList(p) ==
  /\ At(p, "decide") /\ job[p].op \in {"approve", "code", "revoke", "seed"}
  /\ IF Changed(p, mem[p].allow) = mem[p].allow
       THEN NothingToSave(p) /\ UNCHANGED told
       ELSE /\ mem' = [mem EXCEPT ![p].allow = Changed(p, @)]
            /\ granted' = granted \cup (Changed(p, {}))
            /\ GoTo(p, "save")
            /\ UNCHANGED <<file, stamped, job, setting, runs, codeOf, lapsed, seen, ideal, spent, told, clashed>>

\* approve_code: only a code that is pending in the loaded file leads to a user.
LookUpCode(p) ==
  /\ At(p, "decide") /\ job[p].op = "lookup"
  /\ IF job[p].code \in Pending(p)
       THEN /\ job' = [job EXCEPT ![p] = [op |-> "code", user |-> codeOf[@.code], code |-> @.code]]
            /\ UNCHANGED <<file, stamped, mem, stage, setting, runs, codeOf, lapsed, history>>
       ELSE NothingToSave(p) /\ UNCHANGED told

-----------------------------------------------------------------------------
(* Who starts what. *)

Begin(p, s, op, u, c) ==
  /\ GoTo(p, s)
  /\ job' = [job EXCEPT ![p] = [op |-> op, user |-> u, code |-> c]]

\* A (re)start, with the settings the operator has by then; the gateway may
\* have been killed at any point.
Boot ==
  /\ boots < MaxBoots
  /\ boots' = boots + 1
  /\ named' \in SUBSET Namable /\ mode' \in {"pairing", "allowlist"}
  /\ everNamed' = everNamed \cup named'
  /\ Begin(Gateway, "read", "boot", NoUser, NoCode)
  /\ UNCHANGED <<file, stamped, mem, runs, codeOf, lapsed, history>>

\* seed_bot_owner_dm_allowlist, after its lookups: no refresh comes first.
\* The window a clash is judged by is the one since the last load.
Seed ==
  /\ At(Gateway, "idle") /\ mode = "allowlist"
  /\ Begin(Gateway, "decide", "seed", Owner, NoCode)
  /\ UNCHANGED <<file, stamped, mem, setting, runs, codeOf, lapsed, history>>

\* Slip: the list is not refreshed before the decision.
NeverRefresh == "decide"

\* A direct message: refresh_if_changed compares one stat() with the stamp.
AfterStat == IF Gateway \in stamped THEN "decide" ELSE "read"

Dm(u) ==
  /\ At(Gateway, "idle")
  /\ Begin(Gateway, AfterStat, "dm", u, NoCode)
  /\ seen' = seen \cup {Gateway}
  /\ UNCHANGED <<file, stamped, mem, setting, runs, codeOf, lapsed, ideal, granted, spent, told, clashed>>

\* One run of the pairing command.
RunCommand(p) ==
  /\ p \in Admin /\ At(p, "off")
  /\ runs < MaxRuns /\ runs' = runs + 1
  /\ \/ \E u \in User, op \in {"approve", "revoke"} : Begin(p, "read", op, u, NoCode)
     \/ \E c \in Code : codeOf[c] # NoUser /\ Begin(p, "read", "lookup", NoUser, c)
  /\ seen' = seen \cup {p}
  /\ UNCHANGED <<file, stamped, mem, setting, codeOf, lapsed, ideal, granted, spent, told, clashed>>

\* 24 hours pass for a code, whatever the processes are at.
CodeLapses(c) ==
  /\ codeOf[c] # NoUser /\ c \notin lapsed
  /\ lapsed' = lapsed \cup {c}
  /\ UNCHANGED <<file, stamped, mem, stage, job, setting, runs, codeOf, history>>

Step(p) ==
  \/ ReadFile(p) \/ TakeStamp(p) \/ Save(p) \/ FailSave(p) \/ Restamp(p)
  \/ Boots(p) \/ AnswerDm(p) \/ IssueCode(p) \/ ChangeList(p) \/ LookUpCode(p)

Next ==
  \/ \E p \in Proc : Step(p) \/ RunCommand(p)
  \/ Boot \/ Seed
  \/ \E u \in User : Dm(u)
  \/ \E c \in Code : CodeLapses(c)

Spec == Init /\ [][Next]_vars

-----------------------------------------------------------------------------
(* Properties *)

Op == {"none", "boot", "seed", "dm", "approve", "revoke", "lookup", "code"}
Stage == {"off", "read", "stamp", "decide", "save", "restamp", "idle"}

\* The shape of the state of the file and of the processes.
PairingTypeOK ==
  /\ file \in [allow : SUBSET User, codes : SUBSET Code]
  /\ mem \in [Proc -> [allow : SUBSET User, codes : SUBSET Code]]
  /\ stage \in [Proc -> Stage]
  /\ job \in [Proc -> [op : Op, user : User \cup {NoUser}, code : Code \cup {NoCode}]]
  /\ named \in SUBSET User /\ everNamed \in SUBSET User
  /\ mode \in {"pairing", "allowlist"} /\ boots \in 0..MaxBoots /\ runs \in 0..MaxRuns
  /\ codeOf \in [Code -> User \cup {NoUser}] /\ lapsed \in SUBSET Code
  /\ stamped \in SUBSET Proc /\ seen \in SUBSET Proc /\ ideal \in SUBSET User /\ granted \in SUBSET User
  /\ spent \in SUBSET Code /\ told \in SUBSET Code /\ clashed \in BOOLEAN

\* policy.py: whatever the processes overwrite of each other's work, no list in
\* memory or on disk holds a user whom nobody named, approved or seeded.
OnlyTheGrantedAreAllowed ==
  \A p \in Proc : mem[p].allow \cup file.allow \subseteq everNamed \cup granted

\* What the gateway would decide on if a direct message came now.
WouldAdmit(u) ==
  u \in IF Gateway \in stamped THEN mem[Gateway].allow ELSE named \cup file.allow

AdminsAreQuiet == \A p \in Admin : stage[p] = "off"

\* pairing.py:18: the gateway picks an approval or a revocation up with the next
\* direct message.  It does, for users the setting never named, as long as no
\* process saved over or stamped a version it had not read.
LoneRunsTakeEffect ==
  ~clashed /\ At(Gateway, "idle") /\ AdminsAreQuiet =>
    \A u \in User \ everNamed : WouldAdmit(u) <=> u \in ideal

\* policy.py:424 and 491, "the replay guard": a code shown to its user stays on
\* file until it lapses or an approval of the user uses it up, and then it is not
\* pending any more for whoever loads the file, as long as no save went over another.
CodesLiveUntilSpent ==
  ~clashed => told \subseteq file.codes \cup lapsed \cup spent /\ spent \cap file.codes = {}

=============================================================================
