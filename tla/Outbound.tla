------------------------------- MODULE Outbound -------------------------------
(***************************************************************************)
(* What a run sends, and what the room is told when it sends nothing:      *)
(* send, send_single and the media sends (zulip/outbound.py), the audit of *)
(* a turn from the start hook to the completion hook (adapter.py), and the *)
(* reactions that dispatch and completion put on its message (reactions.py,*)
(* inbound_queue.py).                                                      *)
(*                                                                         *)
(* Uploads, posts and reactions are calls to the server: each is a step of *)
(* its own, and what lies between two of them is one step.  The host       *)
(* starts and ends runs, and awaits the sends of a run before its end.     *)
(***************************************************************************)
EXTENDS TextUtils

CONSTANTS
  Run, Nobody,       \* work items; the sender that is none (a schedule, a tool)
  Key, KeyOf,        \* work_item_key of a run
  Replies, Notices,  \* what may be sent: [text, files]; texts of a notice
  Credential, Regret, Ref,   \* characters: a known secret, the want of a file, what refs may rewrite
  Uploadable, LinkOf,        \* the files that may be uploaded, and the texts of their links
  RefText, Prefix,           \* texts: of a rendered ref, before each message
  ChunkLimit, MaxLength, MarkerLength, ChunkMode,
  ClearOnFinish,
  MaxSends, MaxFaults

ASSUME OutboundAssumption ==
  /\ Nobody \notin Run /\ KeyOf \in [Run -> Key]
  /\ {ChunkLimit, MarkerLength} \subseteq Nat \ {0} /\ {MaxLength, MaxSends, MaxFaults} \subseteq Nat
  /\ ClearOnFinish \in BOOLEAN /\ ChunkMode \in {"length", "newline"}
  /\ Replies \subseteq [text : Seq(Nat), files : Seq(STRING)] /\ Notices \subseteq Seq(Nat)
  /\ {Credential, Regret, Ref} \subseteq Nat /\ Credential \notin {Newline, Marker}
  /\ Uploadable \subseteq STRING /\ LinkOf \in [Uploadable -> Seq(Nat)]
  /\ {RefText, Prefix} \subseteq Seq(Nat)

VARIABLES
  stage,      \* of a run: "idle", "running", what its completion waits for, "over"
  ending,     \* the outcome of a run; "failure" stands for "cancelled" too
  auditTurns, \* _audit_turns: "none", "armed", or "sent" once a delivery was tried
  empties,    \* deliver_empty lines of a run
  acknowledged, \* the dispatch of a run's message has put its tick
  marks,      \* reactions on it
  sends,      \* every send begun, by whom and how far it is
  spoken,     \* runs that sent something
  blurred,    \* runs whose key somebody else armed or used meanwhile
  early,      \* runs that ended after their dispatch was acknowledged
  disturbed,  \* runs one of whose reaction calls failed
  faults

outboundVars == <<stage, ending, auditTurns, empties, acknowledged, marks, sends, spoken, blurred, early, disturbed, faults>>

OutboundInit ==
  /\ stage = [r \in Run |-> "idle"] /\ ending = [r \in Run |-> "none"]
  /\ auditTurns = [k \in Key |-> "none"] /\ empties = [r \in Run |-> 0]
  /\ acknowledged = [r \in Run |-> FALSE] /\ marks = [r \in Run |-> {"start"}]
  /\ sends = <<>> /\ spoken = {} /\ blurred = {} /\ early = {} /\ disturbed = {} /\ faults = 0

\* Runs on key k that are between their two hooks.
Running(k) == {r \in Run : KeyOf[r] = k /\ stage[r] = "running"}

\* A call succeeds, or fails within the bound.
Outcome(ok) == IF ok THEN UNCHANGED faults ELSE faults < MaxFaults /\ faults' = faults + 1

-----------------------------------------------------------------------------
(* One send. *)

Leaks(text) == \E i \in DOMAIN text : text[i] = Credential

\* The links of the uploaded files come last, a line each.
Linked(s) ==
  LET links == FlattenSeq([i \in DOMAIN s.stored |->
        IF i = 1 THEN LinkOf[s.stored[i]] ELSE <<Newline>> \o LinkOf[s.stored[i]]]) IN
  IF s.wrapped \/ s.stored = <<>> THEN s.text
  ELSE IF s.text = <<>> THEN links ELSE s.text \o <<Newline, Newline>> \o links

\* render_refs rewrites the text with its links, or leaves it as it is.
Said(s) ==
  LET text == Linked(s) IN
  IF s.rendered THEN FlattenSeq([i \in DOMAIN text |-> IF text[i] = Ref THEN RefText ELSE <<text[i]>>])
  ELSE text

\* Slip: the cap comes before the links.
CappedFirst(s) ==
  LET capped == [s EXCEPT !.text = Truncated(@, MaxLength, MarkerLength)]
      chunks == Chunks(Said(capped), ChunkLimit, ChunkMode) IN
  [s EXCEPT !.at = "call", !.left = IF chunks = <<>> THEN <<<<>>>> ELSE chunks]

\* The cap, then the cut.
Chunked(s) ==
  LET chunks == Chunks(Truncated(Said(s), MaxLength, MarkerLength), ChunkLimit, ChunkMode) IN
  [s EXCEPT !.at = "call", !.left = IF chunks = <<>> THEN <<<<>>>> ELSE chunks]

HasRefs(s) == \E i \in DOMAIN Linked(s) : Linked(s)[i] = Ref

\* A ref is looked up on its server before the cut.
Finished(s) == IF HasRefs(s) THEN [s EXCEPT !.at = "render"] ELSE Chunked(s)

\* Slip: the guard looks at the text that is about to be cut.
GuardedLate(s) ==
  IF s.files # <<>> THEN [s EXCEPT !.at = "upload"]
  ELSE IF Leaks(s.text) THEN [s EXCEPT !.at = "refused"] ELSE Finished(s)

\* Refuse a text with a known secret, then upload, then cut.  What comes to the text
\* later is not looked at again.
Guarded(s) ==
  IF Leaks(s.text) THEN [s EXCEPT !.at = "refused"]
  ELSE IF s.files # <<>> THEN [s EXCEPT !.at = "upload"] ELSE Finished(s)

\* Addresses are no files.
Fresh(r, k, reply, c) ==
  [by |-> r, key |-> k, reply |-> reply, wrapped |-> FALSE, text |-> c.text,
   files |-> Without(c.files, {"url"}), stored |-> <<>>,
   rendered |-> FALSE, at |-> "guard", left |-> <<>>, shown |-> <<>>, lost |-> FALSE]

\* _note_delivery_attempt
Noted(s) == IF auditTurns[s.key] = "none" THEN auditTurns ELSE [auditTurns EXCEPT ![s.key] = "sent"]

\* Somebody else's delivery under the key of these runs.
Blurs(s) == blurred' = blurred \cup (Running(s.key) \ {s.by})

\* A refusal is a delivery that was tried, whatever was refused.
Put(q, s) ==
  /\ sends' = q
  /\ IF s.at = "refused" THEN auditTurns' = Noted(s) /\ Blurs(s) ELSE UNCHANGED <<auditTurns, blurred>>

Begin(s) == Len(sends) < MaxSends /\ Put(Append(sends, s), s)
Become(i, s) == Put([sends EXCEPT ![i] = s], s)

\* send, of a run or of nobody.
Send(r, k, c) ==
  /\ r # Nobody => stage[r] = "running" /\ KeyOf[r] = k
  /\ Begin(Guarded(Fresh(r, k, TRUE, c)))
  /\ spoken' = IF r = Nobody THEN spoken ELSE spoken \cup {r}
  /\ UNCHANGED <<stage, ending, empties, acknowledged, marks, early, disturbed, faults>>

\* send_image_file, send_document: the file is uploaded first.
SendFile(r, c) ==
  /\ stage[r] = "running" /\ c.files # <<>> /\ spoken' = spoken \cup {r}
  /\ Begin([Fresh(r, KeyOf[r], TRUE, c) EXCEPT !.wrapped = TRUE, !.files = <<Last(c.files)>>, !.at = "file"])
  /\ UNCHANGED <<stage, ending, empties, acknowledged, marks, early, disturbed, faults>>

\* upload_file_to_zulip refuses some names before any call.
Uploads(f, ok) == ok => f \in Uploadable

Captioned(text, line) == IF text = <<>> THEN line ELSE text \o <<Newline>> \o line

\* Its link, or a line of regret, becomes part of the text that send gets.
FileDone(i, ok) ==
  LET s == sends[i]
      f == Head(s.files) IN
  /\ s.at = "file" /\ Uploads(f, ok)
  /\ IF f \in Uploadable THEN Outcome(ok) ELSE UNCHANGED faults
  /\ Become(i, Guarded([s EXCEPT !.files = <<>>, !.stored = IF ok THEN <<f>> ELSE <<>>,
                                 !.text = Captioned(@, IF ok THEN LinkOf[f] ELSE <<Regret>>)]))
  /\ UNCHANGED <<stage, ending, empties, acknowledged, marks, spoken, early, disturbed>>

\* One of several files; a failure leaves it out.
UploadDone(i, ok) ==
  LET s == sends[i]
      rest == [s EXCEPT !.files = Tail(@), !.stored = IF ok THEN Append(@, Head(s.files)) ELSE @] IN
  /\ s.at = "upload" /\ Uploads(Head(s.files), ok)
  /\ IF Head(s.files) \in Uploadable THEN Outcome(ok) ELSE UNCHANGED faults
  /\ Become(i, Guarded(rest))
  /\ UNCHANGED <<stage, ending, empties, acknowledged, marks, spoken, early, disturbed>>

\* The refs are rewritten, or the attempt fails and the text goes as it is.
Render(i, ok) ==
  LET s == sends[i] IN
  /\ s.at = "render" /\ Outcome(ok) /\ sends' = [sends EXCEPT ![i] = Chunked([s EXCEPT !.rendered = ok])]
  /\ UNCHANGED <<stage, ending, auditTurns, empties, acknowledged, marks, spoken, blurred, early, disturbed>>

\* Slip: a notice is noted like a reply.
NotedAlways(s) == Noted(s)

\* counts_as_reply
NotedIfReply(s) == IF s.reply THEN Noted(s) ELSE auditTurns

\* send_single: the attempt is noted, then the message is posted ...
Calls(i) ==
  LET s == sends[i] IN
  /\ s.at = "call" /\ sends' = [sends EXCEPT ![i].at = "called"] /\ auditTurns' = NotedIfReply(s)
  /\ IF s.reply THEN Blurs(s) ELSE UNCHANGED blurred
  /\ UNCHANGED <<stage, ending, empties, acknowledged, marks, spoken, early, disturbed, faults>>

\* What is posted of a chunk.
Message(chunk) == IF chunk = <<>> THEN <<>> ELSE Prefix \o chunk

\* ... or not, or the answer is lost; the loop goes on with the next chunk.
Answered(i, lands, ok) ==
  LET s == sends[i]
      rest == Tail(s.left) IN
  /\ s.at = "called" /\ (ok => lands) /\ Outcome(ok)
  /\ sends' = [sends EXCEPT ![i] =
       [s EXCEPT !.left = rest, !.at = IF rest = <<>> THEN "done" ELSE "call",
                 !.shown = IF lands THEN Append(@, Message(Head(s.left))) ELSE @,
                 !.lost = @ \/ ~lands]]
  /\ UNCHANGED <<stage, ending, auditTurns, empties, acknowledged, marks, spoken, blurred, early, disturbed>>

-----------------------------------------------------------------------------
(* The dispatch of a message puts the tick on it when the host has taken it.     *)
(* The calls of one change of reactions are one step.                            *)

\* A failed call leaves the other one's effect.
Reacts(r, gone, new, ok) ==
  /\ Outcome(ok)
  /\ IF ok THEN /\ marks' = [marks EXCEPT ![r] = (@ \ gone) \cup {new}]
                /\ UNCHANGED disturbed
     ELSE /\ \E left \in {marks[r] \ gone, marks[r] \cup {new}} : marks' = [marks EXCEPT ![r] = left]
          /\ disturbed' = disturbed \cup {r}

Cleared(gone) == IF ClearOnFinish THEN gone ELSE {}

\* ReactionLifecycle.success
Acknowledge(r, ok) ==
  /\ ~acknowledged[r] /\ acknowledged' = [acknowledged EXCEPT ![r] = TRUE]
  /\ Reacts(r, Cleared({"start"}), "tick", ok)
  /\ UNCHANGED <<stage, ending, auditTurns, empties, sends, spoken, blurred, early>>

-----------------------------------------------------------------------------
(* The hooks. *)

\* on_processing_start
Arm(r) ==
  LET k == KeyOf[r] IN
  /\ stage[r] = "idle" /\ stage' = [stage EXCEPT ![r] = "running"]
  /\ auditTurns' = [auditTurns EXCEPT ![k] = "armed"]
  /\ blurred' = IF Running(k) = {} THEN blurred ELSE blurred \cup Running(k) \cup {r}
  /\ UNCHANGED <<ending, empties, acknowledged, marks, sends, spoken, early, disturbed, faults>>

\* _report_run_end: an answered run has nothing to add, one that was never armed neither.
Reports(attempted, outcome) == attempted = "armed" \/ (attempted = "sent" /\ outcome # "success")

\* The entry of a run's key goes with its end; the error reaction comes next.
Complete(r, outcome) ==
  LET k == KeyOf[r]
      attempted == auditTurns[k] IN
  /\ stage[r] = "running" /\ \A i \in DOMAIN sends : sends[i].by = r => sends[i].at \in {"done", "refused"}
  /\ auditTurns' = [auditTurns EXCEPT ![k] = "none"] /\ ending' = [ending EXCEPT ![r] = outcome]
  /\ empties' = IF attempted = "armed" THEN [empties EXCEPT ![r] = @ + 1] ELSE empties
  /\ stage' = [stage EXCEPT ![r] = IF Reports(attempted, outcome) THEN "marking" ELSE "over"]
  /\ early' = IF acknowledged[r] THEN early \cup {r} ELSE early
  /\ UNCHANGED <<acknowledged, marks, sends, spoken, blurred, disturbed, faults>>

AfterMark(r) == [stage EXCEPT ![r] = IF empties[r] = 0 THEN "over" ELSE "noticing"]

\* Slip: as when the dispatch itself failed, where there is no tick to take back.
ErrorAlone(r, ok) ==
  /\ stage[r] = "marking" /\ stage' = AfterMark(r)
  /\ Reacts(r, Cleared({"start"}), "error", ok)
  /\ UNCHANGED <<ending, auditTurns, empties, acknowledged, sends, spoken, blurred, early>>

\* ReactionLifecycle.error, replacing_success
ErrorReaction(r, ok) ==
  /\ stage[r] = "marking" /\ stage' = AfterMark(r)
  /\ Reacts(r, Cleared({"start", "tick"}), "error", ok)
  /\ UNCHANGED <<ending, auditTurns, empties, acknowledged, sends, spoken, blurred, early>>

\* _post_silent_run_notice, which says what the outcome gives as its reason.
Notice(r, text) ==
  /\ stage[r] = "noticing" /\ stage' = [stage EXCEPT ![r] = "over"]
  /\ Begin(Guarded(Fresh(r, KeyOf[r], FALSE, [text |-> text, files |-> <<>>])))
  /\ UNCHANGED <<ending, empties, acknowledged, marks, spoken, early, disturbed, faults>>

OutboundNext ==
  \/ \E r \in Run : Arm(r) \/ \E o \in {"success", "failure"} : Complete(r, o)
  \/ \E r \in Run, ok \in BOOLEAN : Acknowledge(r, ok) \/ ErrorReaction(r, ok)
  \/ \E r \in Run, text \in Notices : Notice(r, text)
  \/ \E c \in Replies : (\E r \in Run : Send(r, KeyOf[r], c) \/ SendFile(r, c)) \/ \E k \in Key : Send(Nobody, k, c)
  \/ \E i \in DOMAIN sends : Calls(i) \/ \E ok \in BOOLEAN :
       FileDone(i, ok) \/ UploadDone(i, ok) \/ Render(i, ok) \/ \E lands \in BOOLEAN : Answered(i, lands, ok)

OutboundSpec == OutboundInit /\ [][OutboundNext]_outboundVars
-----------------------------------------------------------------------------
(* Properties *)

NoticesOf(r) == {i \in DOMAIN sends : sends[i].by = r /\ ~sends[i].reply}

\* adapter.py:1008, "record deliver_empty for a dispatched run that never sent", and
\* 1029, "say so when a run ended silently": while nobody else uses its key, a run
\* is reported as silent, once, exactly when it sent nothing.  A failed or refused
\* send is no silence, and a notice is no answer of the run that follows.
SilenceIsReported ==
  \A r \in Run \ blurred :
    stage[r] \notin {"idle", "running"} =>
      /\ empties[r] = IF r \in spoken THEN 0 ELSE 1
      /\ Cardinality(NoticesOf(r)) = IF stage[r] = "over" THEN empties[r] ELSE 0

\* adapter.py:1034, "two shapes leave a person looking at a tick and then nothing":
\* a message shows the tick alone when its run answered and did not fail, the error
\* alone otherwise, if the dispatch was acknowledged before the run ended.
StatusTellsTheEnd ==
  \A r \in early \ (blurred \cup disturbed) :
    stage[r] = "over" /\ ClearOnFinish =>
      marks[r] = IF r \in spoken /\ ending[r] = "success" THEN {"tick"} ELSE {"error"}

\* A secret that came to the text after the guard: with the link of a file that send
\* uploaded, a ref, or the prefix.
LeaksLater(s) ==
  \/ Leaks(Prefix) \/ (s.rendered /\ Leaks(RefText))
  \/ ~s.wrapped /\ \E i \in DOMAIN s.stored : Leaks(LinkOf[s.stored[i]])

\* outbound.py:448, "a message we are about to refuse cannot leave a stray upload
\* behind", and 180: a refused send has shown and stored nothing, unless it is the
\* caption of a file; what was posted is of a text without a known secret, and shows
\* one only if it came to the text after the guard.
RefusalsLeaveNothing ==
  \A i \in DOMAIN sends : LET s == sends[i] IN
    /\ s.at = "refused" => s.shown = <<>> /\ (~s.wrapped => s.stored = <<>>)
    /\ s.shown # <<>> => ~Leaks(s.text)
    /\ \A c \in DOMAIN s.shown : Leaks(s.shown[c]) => LeaksLater(s)

\* outbound.py:6, "a known host credential is refused before anything leaves the
\* process": no message shows one.
NoCredentialIsShown == \A i \in DOMAIN sends : \A c \in DOMAIN sends[i].shown : ~Leaks(sends[i].shown[c])

\* The chunk of a message.
Unprefixed(message) == SubSeq(message, Len(Prefix) + 1, Len(message))

\* text_utils.py:69: when every chunk arrived, the messages without their prefixes, read
\* one after the other, are the text with its links and its refs, up to the cap, no
\* letter lost and none twice.  A message is a chunk that fits, behind the prefix, or it
\* is empty.  Spaces and newlines do not count, nor past the cap the letters of its marker.
RepliesArriveWhole ==
  \A i \in DOMAIN sends : LET s == sends[i] IN
    s.at = "done" =>
      /\ \A c \in DOMAIN s.shown :
           s.shown[c] # <<>> => IsPrefix(Prefix, s.shown[c]) /\ Len(Unprefixed(s.shown[c])) <= ChunkLimit
      /\ ~s.lost => LET read == FlattenSeq([c \in DOMAIN s.shown |-> Unprefixed(s.shown[c])])
                        whole == Said(s) IN
         IF MaxLength = 0 \/ Len(whole) <= MaxLength THEN Ink(read) = Ink(whole)
         ELSE /\ Len(read) <= MaxLength
              /\ IsPrefix(Without(read, Blank \cup {Marker}), Without(whole, Blank \cup {Marker}))

\* text_utils.py:69, "chunks that fit within Zulip's message limit": no message is
\* longer than that.  (The default of the chunk limit is the limit of a message.)
MessagesFit == \A i \in DOMAIN sends : \A c \in DOMAIN sends[i].shown : Len(sends[i].shown[c]) <= ChunkLimit

=============================================================================
