------------------------------- MODULE Pickers -------------------------------
(***************************************************************************)
(* Interactive pickers: the registry, the token scheme and the pages       *)
(* (zulip/model_picker.py), and the adapter's half, which posts the forms  *)
(* and answers the clicks (adapter.py).                                    *)
(*                                                                         *)
(* A form is a message with buttons; a click is a message that anybody may *)
(* send, at any time after the form was shown.  Every call to the server   *)
(* is awaited, so handlers of one picker interleave: a job is a handler    *)
(* that waits for such a call.                                             *)
(***************************************************************************)
EXTENDS Naturals, Sequences, FiniteSets

CONSTANTS
  Person, Nobody,
  Lists,         \* what a picker may offer: see ListShape
  ProviderPage, ModelPage, ChoicePage,   \* buttons on a page
  TTL, PickerLimit,
  MaxTime, MaxAsks, MaxPickers, MaxClicks, MaxFaults

Family == {"model", "choice"}

\* A model picker has the number of models of each provider, a choice picker one number.
ListShape == [family : Family, sizes : Seq(Nat \ {0})]

ASSUME PickerAssumption ==
  /\ Nobody \notin Person
  /\ \A l \in Lists : l \in ListShape /\ Len(l.sizes) > 0 /\ (l.family = "choice" => Len(l.sizes) = 1)
  /\ {ProviderPage, ModelPage, ChoicePage, PickerLimit} \subseteq Nat \ {0}
  /\ {TTL, MaxTime, MaxAsks, MaxPickers, MaxClicks, MaxFaults} \subseteq Nat

VARIABLES
  clock,
  noted,     \* _picker_initiators of one chat
  asks,      \* commands noted so far
  asked,     \* those on their way through the host: [by, n]
  crossing,  \* some note was taken or lost while another command was on its way
  pickers,   \* every picker that was opened
  open,      \* PickerRegistry._pickers of each family: tokens, the oldest is the least
  forms,     \* every form posted: [picker, shown]
  jobs,      \* handlers in an await
  disturbed, \* pickers with two jobs at once, or with a call that failed
  applied,   \* selections handed to the gateway: [picker, by, time]
  clicks, faults

vars == <<clock, noted, asks, asked, crossing, pickers, open, forms, jobs, disturbed, applied, clicks, faults>>

NoForm == 0

Init ==
  /\ clock = 0 /\ noted = Nobody /\ asks = 0 /\ asked = {} /\ crossing = FALSE
  /\ pickers = <<>> /\ open = [f \in Family |-> {}]
  /\ forms = <<>> /\ jobs = {} /\ disturbed = {} /\ applied = <<>> /\ clicks = 0 /\ faults = 0

-----------------------------------------------------------------------------
(* Pages.  A view is what a form shows; a reply is what a button sends.  Which  *)
(* page a form shows changes nothing but the form, so the steps below leave it  *)
(* out: anybody can type any reply.                                             *)

View(kind, at, page) == [kind |-> kind, at |-> at, page |-> page]
Turn(v) == [do |-> "turn", view |-> v]
Select(at, index) == [do |-> "select", view |-> View("none", at, index)]
Cancel == [do |-> "cancel", view |-> View("none", 0, 0)]

\* Slip: a last page that is not full is not counted.
FullPages(n, size) == IF n < size THEN 1 ELSE n \div size

PageCount(n, size) == (n + size - 1) \div size

Clamped(page, n, size) == IF page < PageCount(n, size) THEN page ELSE PageCount(n, size) - 1

Window(page, n, size) == {i \in 0..(n - 1) : i \div size = page}

\* Previous and next, where there is one.
Neighbours(v, n, size) ==
  {Turn(View(v.kind, v.at, q)) : q \in {q \in 0..(PageCount(n, size) - 1) : q + 1 = v.page \/ q = v.page + 1}}

ProviderButtons(l, v) ==
  {Turn(View("models", i, 0)) : i \in Window(v.page, Len(l.sizes), ProviderPage)}
    \cup Neighbours(v, Len(l.sizes), ProviderPage)

ModelButtons(l, v) ==
  {Select(v.at, i) : i \in Window(v.page, l.sizes[v.at + 1], ModelPage)}
    \cup Neighbours(v, l.sizes[v.at + 1], ModelPage) \cup {Turn(View("providers", 0, 0))}

ChoiceButtons(l, v) ==
  {Select(0, i) : i \in Window(v.page, l.sizes[1], ChoicePage)} \cup Neighbours(v, l.sizes[1], ChoicePage)

Buttons(l, v) ==
  {Cancel} \cup CASE v.kind = "providers" -> ProviderButtons(l, v)
                  [] v.kind = "models" -> ModelButtons(l, v)
                  [] v.kind = "choices" -> ChoiceButtons(l, v)

\* The view that a page turn renders: a provider out of range shows the first page.
Rendered(l, v) ==
  CASE v.kind = "choices" -> [v EXCEPT !.page = Clamped(@, l.sizes[1], ChoicePage)]
    [] v.kind = "models" /\ v.at < Len(l.sizes) -> [v EXCEPT !.page = Clamped(@, l.sizes[v.at + 1], ModelPage)]
    [] OTHER -> View("providers", 0, IF v.kind = "providers" THEN Clamped(v.page, Len(l.sizes), ProviderPage) ELSE 0)

FirstView(l) == IF l.family = "choice" THEN View("choices", 0, 0) ELSE View("providers", 0, 0)

\* model, value: what a selection stands for is on offer.
Offers(l, r) == r.view.at < Len(l.sizes) /\ r.view.page < l.sizes[r.view.at + 1]

\* What a reply does.
Deed == {"turn", "select", "stray", "cancel"}
DeedOf(l, r) == IF r.do = "select" /\ ~Offers(l, r) THEN "stray" ELSE r.do

-----------------------------------------------------------------------------
(* The registry. *)

Lapsed(t) == clock > pickers[t].opened + TTL

\* open: lapsed pickers go, then the oldest ones beyond the bound.
Remembered(f, t) ==
  LET kept == {x \in open[f] : ~Lapsed(x)} \cup {t} IN
  {x \in kept : Cardinality({y \in kept : y >= x}) <= PickerLimit}

\* peek
Live(f, t) == t \in open[f] /\ ~Lapsed(t)

-----------------------------------------------------------------------------
(* Opening a picker. *)

\* A bare /model, /reasoning or /fast on its way to the host: one note for a chat.
Note(p) ==
  /\ asks < MaxAsks /\ asks' = asks + 1
  /\ noted' = p /\ asked' = asked \cup {[by |-> p, n |-> asks]}
  /\ crossing' = (crossing \/ asked # {})
  /\ UNCHANGED <<clock, pickers, open, forms, jobs, disturbed, applied, clicks, faults>>

Posting(t, at, previous) == [picker |-> t, at |-> at, previous |-> previous, form |-> NoForm]
Dropping(t, previous) == [picker |-> t, at |-> "drop", previous |-> previous]
Applying(t, p, previous) == [picker |-> t, at |-> "apply", previous |-> previous, by |-> p, time |-> clock]

\* A handler of picker t starts to wait; two at a time disturb each other.
Starts(j) ==
  /\ jobs' = jobs \cup {j}
  /\ disturbed' = IF \E x \in jobs : x.picker = j.picker THEN disturbed \cup {j.picker} ELSE disturbed

\* Register a picker and render its first form.
Begin(f, by, asker) ==
  LET t == Len(pickers) + 1 IN
  /\ Len(pickers) < MaxPickers
  /\ pickers' = Append(pickers, [family |-> f, by |-> by, asker |-> asker, opened |-> clock, form |-> NoForm])
  /\ open' = [open EXCEPT ![f] = Remembered(f, t)]
  /\ Starts(Posting(t, "first", NoForm))
  /\ UNCHANGED <<clock, forms, applied, clicks, faults>>

\* The host renders the picker of a command: send_model_picker, send_choice_picker.
HostOpens(a, f) ==
  /\ a \in asked /\ asked' = asked \ {a} /\ UNCHANGED asks
  /\ Begin(f, noted, IF crossing THEN Nobody ELSE a.by)
  /\ noted' = Nobody /\ crossing' = (crossing /\ asked' # {})

\* Or one that nobody asked for in a message.
HostOpensAlone(f) ==
  /\ Begin(f, noted, Nobody)
  /\ noted' = Nobody /\ crossing' = (asked # {})
  /\ UNCHANGED <<asks, asked>>

\* Or answers a command in text; nobody takes the note.
HostDeclines(a) ==
  /\ a \in asked /\ asked' = asked \ {a} /\ crossing' = (crossing /\ asked' # {})
  /\ UNCHANGED <<clock, noted, asks, pickers, open, forms, jobs, disturbed, applied, clicks, faults>>

\* /pick-model, with a provider or without one.
PickModel(p) ==
  /\ Begin("model", p, p)
  /\ UNCHANGED <<noted, asks, asked, crossing>>

-----------------------------------------------------------------------------
(* A call to the server comes back. *)

Shown(t) == {i \in DOMAIN forms : forms[i].picker = t /\ forms[i].shown}

\* Slip: a page turn does not remember the form that it posted.
AdoptedOnce(t, i) == IF pickers[t].form = NoForm THEN [pickers EXCEPT ![t].form = i] ELSE pickers

Adopted(t, i) == [pickers EXCEPT ![t].form = i]

\* The form appears in the chat ...
Lands(j) ==
  /\ j.at \in {"first", "turn"} /\ j.form = NoForm
  /\ forms' = Append(forms, [picker |-> j.picker, shown |-> TRUE])
  /\ jobs' = (jobs \ {j}) \cup {[j EXCEPT !.form = Len(forms) + 1]}
  /\ UNCHANGED <<clock, noted, asks, asked, crossing, pickers, open, disturbed, applied, clicks, faults>>

\* ... and the answer tells its number: it takes the place of the former one, which
\* is deleted next.
Answered(j) ==
  /\ j.at \in {"first", "turn"} /\ j.form # NoForm
  /\ pickers' = Adopted(j.picker, j.form)
  /\ jobs' = (jobs \ {j}) \cup (IF j.previous = NoForm THEN {} ELSE {Dropping(j.picker, j.previous)})
  /\ UNCHANGED <<clock, noted, asks, asked, crossing, open, forms, disturbed, applied, clicks, faults>>

\* It is refused, or its answer is lost: a first form takes its picker with it.
PostFails(j) ==
  /\ j.at \in {"first", "turn"} /\ faults < MaxFaults /\ faults' = faults + 1
  /\ jobs' = jobs \ {j} /\ disturbed' = disturbed \cup {j.picker}
  /\ open' = IF j.at = "first" THEN [f \in Family |-> open[f] \ {j.picker}] ELSE open
  /\ UNCHANGED <<clock, noted, asks, asked, crossing, pickers, forms, applied, clicks>>

\* A delete is done, or fails and leaves the form.
Deletes(j, ok) ==
  /\ jobs' = jobs \ {j}
  /\ IF ok THEN /\ forms' = IF j.previous = NoForm THEN forms ELSE [forms EXCEPT ![j.previous].shown = FALSE]
                /\ UNCHANGED <<faults, disturbed>>
     ELSE /\ faults < MaxFaults /\ faults' = faults + 1
          /\ disturbed' = disturbed \cup {j.picker} /\ UNCHANGED forms
  /\ UNCHANGED <<clock, noted, asks, asked, crossing, pickers, open, clicks>>

Dropped(j, ok) == j.at = "drop" /\ Deletes(j, ok) /\ UNCHANGED applied

\* After its form is gone, the gateway applies a selection.
Applies(j, ok) ==
  /\ j.at = "apply" /\ Deletes(j, ok)
  /\ applied' = Append(applied, [picker |-> j.picker, by |-> j.by, time |-> j.time])

-----------------------------------------------------------------------------
(* Clicks. *)

\* handle_picker_reply: the family whose registry is asked.  A cancel goes to the
\* model pickers, whatever it cancels.
Asks(t, deed) == IF deed = "cancel" THEN "model" ELSE pickers[t].family

\* Slip: any click takes the picker over.
BoundAnew(t, p) == [pickers EXCEPT ![t].by = p]

\* The first click on a picker that nobody was noted for binds it.
Bound(t, p) == IF pickers[t].by = Nobody THEN [pickers EXCEPT ![t].by = p] ELSE pickers

\* Slip: the picker is consumed once the form is gone.
KeptOpen(f, t) == open[f]

Consumed(f, t) == open[f] \ {t}

\* A click on a form of picker t, shown now or earlier, or a reply typed by hand.
Click(p, t, deed) ==
  LET f == Asks(t, deed)
      form == pickers[t].form IN
  /\ clicks < MaxClicks /\ clicks' = clicks + 1
  /\ \/ /\ ~Live(f, t)    \* "expired", and out of the registry
        /\ open' = [open EXCEPT ![f] = @ \ {t}]
        /\ UNCHANGED <<pickers, jobs, disturbed>>
     \/ /\ Live(f, t) /\ Bound(t, p)[t].by # p    \* "belongs to someone else"
        /\ UNCHANGED <<pickers, open, jobs, disturbed>>
     \/ /\ Live(f, t) /\ Bound(t, p)[t].by = p /\ pickers' = Bound(t, p)
        /\ \/ /\ deed = "turn" /\ Starts(Posting(t, "turn", form))
              /\ UNCHANGED open
           \/ /\ deed \in {"cancel", "stray"}
              /\ open' = [open EXCEPT ![f] = @ \ {t}]
              /\ UNCHANGED <<jobs, disturbed>>
           \/ /\ deed = "select"
              /\ open' = [open EXCEPT ![f] = Consumed(f, t)]
              /\ Starts(Applying(t, p, form))
  /\ UNCHANGED <<clock, noted, asks, asked, crossing, forms, applied, faults>>

Tick ==
  /\ clock < MaxTime /\ clock' = clock + 1
  /\ UNCHANGED <<noted, asks, asked, crossing, pickers, open, forms, jobs, disturbed, applied, clicks, faults>>

Next ==
  \/ \E p \in Person : Note(p)
  \/ \E f \in Family : HostOpensAlone(f) \/ \E a \in asked : HostOpens(a, f)
  \/ \E a \in asked : HostDeclines(a)
  \/ \E p \in Person : PickModel(p)
  \/ \E j \in jobs : Lands(j) \/ Answered(j) \/ PostFails(j) \/ \E ok \in BOOLEAN : Dropped(j, ok) \/ Applies(j, ok)
  \/ \E p \in Person, deed \in Deed : \E t \in {forms[i].picker : i \in DOMAIN forms} : Click(p, t, deed)
  \/ Tick

Spec == Init /\ [][Next]_vars
-----------------------------------------------------------------------------
(* Properties *)

Picker == [family : Family, by : Person \cup {Nobody}, asker : Person \cup {Nobody}, opened : Nat, form : Nat]
Job == [picker : Nat, at : {"first", "turn"}, previous : Nat, form : Nat]
         \cup [picker : Nat, at : {"drop"}, previous : Nat]
         \cup [picker : Nat, at : {"apply"}, previous : Nat, by : Person, time : Nat]

\* The shape of the registries, the forms and the handlers.
PickerTypeOK ==
  /\ clock \in 0..MaxTime /\ asks \in 0..MaxAsks /\ clicks \in 0..MaxClicks /\ faults \in 0..MaxFaults
  /\ noted \in Person \cup {Nobody} /\ asked \in SUBSET [by : Person, n : Nat] /\ crossing \in BOOLEAN
  /\ pickers \in Seq(Picker) /\ open \in [Family -> SUBSET Nat]
  /\ forms \in Seq([picker : Nat, shown : BOOLEAN]) /\ jobs \in SUBSET Job /\ disturbed \in SUBSET Nat
  /\ applied \in Seq([picker : Nat, by : Person, time : Nat])

\* model_picker.py:29, "single-use, initiator-only": however clicks, page turns
\* and failures overlap, a picker changes something at most once, for the one it
\* is bound to, who clicked before it lapsed.
SelectionsAreSingle ==
  \A i \in DOMAIN applied : LET x == applied[i] IN
    /\ x.by = pickers[x.picker].by /\ x.time <= pickers[x.picker].opened + TTL
    /\ \A k \in DOMAIN applied : k # i => applied[k].picker # x.picker

\* adapter.py:2592, "the identity is captured where it does exist": unless two
\* commands of a chat were on their way together, a picker belongs to whoever
\* asked for it, from its opening to its end.
PickersBelongToTheirAskers ==
  \A t \in DOMAIN pickers : pickers[t].asker # Nobody => pickers[t].by = pickers[t].asker

\* README.md:296, "each page turn replaces the previous form rather than stacking
\* a second one": once nothing is under way, an undisturbed picker shows one form,
\* the one it will delete, and none when it was used.
FormsAreReplaced ==
  \A t \in DOMAIN pickers :
    t \notin disturbed /\ (\A j \in jobs : j.picker # t) =>
      Shown(t) = IF \E i \in DOMAIN applied : applied[i].picker = t THEN {} ELSE {pickers[t].form}

Reached(l, v) ==
  /\ \A q \in 1..v.page : Turn(View(v.kind, v.at, q)) \in Buttons(l, View(v.kind, v.at, q - 1))
  /\ \A r \in Buttons(l, v) : IF r.do = "turn" THEN Rendered(l, r.view) = r.view ELSE DeedOf(l, r) # "stray"

Reachable(l) ==
  IF l.family = "choice"
  THEN \A i \in 0..(l.sizes[1] - 1) :
         LET v == [FirstView(l) EXCEPT !.page = i \div ChoicePage] IN
         Select(0, i) \in Buttons(l, v) /\ Reached(l, v)
  ELSE \A p \in 0..(Len(l.sizes) - 1) :
         LET v == [FirstView(l) EXCEPT !.page = p \div ProviderPage] IN
         /\ Turn(View("models", p, 0)) \in Buttons(l, v) /\ Reached(l, v)
         /\ \A i \in 0..(l.sizes[p + 1] - 1) :
              LET m == View("models", p, i \div ModelPage) IN
              Select(p, i) \in Buttons(l, m) /\ Reached(l, m)

Complete == {f \in Family : \A l \in Lists : l.family = f => Reachable(l)}

\* model_picker.py:247-325: from the first form of a picker, whatever list it was
\* opened with, every choice can be reached by turning pages, every button leads to
\* the page it names, and none of them selects what is not there.
EveryModelIsAPageAway == \A t \in DOMAIN pickers : pickers[t].family \in Complete

=============================================================================
