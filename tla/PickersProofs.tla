---------------------------- MODULE PickersProofs ----------------------------
(***************************************************************************)
(* Proofs about Pickers, for any people, lists, pages and bounds: the type *)
(* invariant, that a picker changes something at most once and for its     *)
(* owner, that it belongs to whoever asked for it, that its forms replace  *)
(* each other, and that its pages lead to every choice.                    *)
(***************************************************************************)
EXTENDS Pickers, TLAPS

\* What the registries, the handlers and the forms name are pickers that were opened.
Registered ==
  /\ \A f \in Family : \A t \in open[f] : t \in DOMAIN pickers /\ pickers[t].family = f
  /\ \A j \in jobs : j.picker \in DOMAIN pickers
  /\ \A i \in DOMAIN forms : forms[i].picker \in DOMAIN pickers

ShapeInv == PickerTypeOK /\ Registered

\* While no two commands are on their way together, the note is the asker's.
NoteIsTheAskers == ~crossing => \A a \in asked : noted = a.by /\ \A b \in asked : a = b

\* Selections that are in order: of a spent picker, by its owner, before it lapsed.
Chosen == {c \in [picker : DOMAIN pickers, by : Person, time : Nat] :
             /\ c.by = pickers[c.picker].by /\ c.time <= pickers[c.picker].opened + TTL
             /\ \A f \in Family : c.picker \notin open[f]}

Selecting == {j \in jobs : j.at = "apply"}
Choice(j) == [picker |-> j.picker, by |-> j.by, time |-> j.time]

\* A selection that is under way or done is in order, and the only one of its picker.
SpentOnce ==
  /\ \A j \in Selecting : Choice(j) \in Chosen
  /\ \A i \in DOMAIN applied : applied[i] \in Chosen
  /\ \A j, k \in Selecting : j.picker = k.picker => j = k
  /\ \A j \in Selecting : \A i \in DOMAIN applied : applied[i].picker # j.picker
  /\ \A i, k \in DOMAIN applied : applied[i].picker = applied[k].picker => i = k

PickInv == ShapeInv /\ NoteIsTheAskers /\ PickersBelongToTheirAskers /\ SpentOnce

-----------------------------------------------------------------------------
(* Shapes *)

LEMMA Bounds ==
  /\ TTL \in Nat /\ MaxTime \in Nat /\ MaxAsks \in Nat /\ MaxPickers \in Nat /\ MaxClicks \in Nat /\ MaxFaults \in Nat
  /\ Nobody \notin Person
BY PickerAssumption

LEMMA PostingIsAJob ==
  ASSUME NEW t \in Nat, NEW at \in {"first", "turn"}, NEW previous \in Nat
  PROVE  Posting(t, at, previous) \in Job /\ Posting(t, at, previous).picker = t
                                          /\ Posting(t, at, previous).at = at
BY DEF Posting, Job, NoForm

LEMMA DroppingIsAJob ==
  ASSUME NEW t \in Nat, NEW previous \in Nat
  PROVE  Dropping(t, previous) \in Job /\ Dropping(t, previous).picker = t /\ Dropping(t, previous).at = "drop"
BY DEF Dropping, Job

LEMMA ApplyingIsAJob ==
  ASSUME NEW t \in Nat, NEW p \in Person, NEW previous \in Nat, clock \in Nat
  PROVE  LET j == Applying(t, p, previous) IN
         j \in Job /\ j.picker = t /\ j.at = "apply" /\ j.by = p /\ j.time = clock
BY DEF Applying, Job

LEMMA JobShapes ==
  ASSUME PickerTypeOK, NEW j \in jobs
  PROVE  /\ j.picker \in Nat /\ j.previous \in Nat /\ j.at \in {"first", "turn", "drop", "apply"}
         /\ j.at \in {"first", "turn"} => j \in [picker : Nat, at : {"first", "turn"}, previous : Nat, form : Nat]
         /\ j.at = "apply" => j.by \in Person /\ j.time \in Nat
BY DEF PickerTypeOK, Job

\* The fields of a picker.
LEMMA PickerShapes ==
  ASSUME PickerTypeOK, NEW t \in DOMAIN pickers
  PROVE  t \in Nat /\ pickers[t] \in Picker
BY DEF PickerTypeOK

\* A handler that starts to wait.
LEMMA StartsShape ==
  ASSUME PickerTypeOK, NEW j \in Job, Starts(j)
  PROVE  jobs' \in SUBSET Job /\ disturbed' \in SUBSET Nat /\ jobs' = jobs \cup {j}
<1>1. j.picker \in Nat
  BY DEF Job
<1>2. QED BY <1>1 DEF Starts, PickerTypeOK

\* Opening a picker remembers old ones of the family and the new one.
LEMMA RememberedShape ==
  ASSUME NEW f \in Family, NEW t
  PROVE  Remembered(f, t) \subseteq open[f] \cup {t}
BY DEF Remembered

LEMMA BeginShape ==
  ASSUME ShapeInv, NEW f \in Family, NEW by \in Person \cup {Nobody}, NEW asker \in Person \cup {Nobody},
         Begin(f, by, asker)
  PROVE  LET t == Len(pickers) + 1 IN
         /\ t \in Nat /\ t \notin DOMAIN pickers
         /\ pickers' \in Seq(Picker) /\ DOMAIN pickers' = DOMAIN pickers \cup {t}
         /\ \A x \in DOMAIN pickers : pickers'[x] = pickers[x]
         /\ pickers'[t].by = by /\ pickers'[t].asker = asker /\ pickers'[t].family = f
         /\ open' \in [Family -> SUBSET Nat]
         /\ \A g \in Family : open'[g] \subseteq open[g] \cup {t} /\ (g # f => open'[g] = open[g])
         /\ jobs' = jobs \cup {Posting(t, "first", NoForm)}
         /\ jobs' \in SUBSET Job /\ disturbed' \in SUBSET Nat
<1> DEFINE t == Len(pickers) + 1
           k == [family |-> f, by |-> by, asker |-> asker, opened |-> clock, form |-> NoForm]
<1>1. t \in Nat /\ t \notin DOMAIN pickers
  BY DEF ShapeInv, PickerTypeOK
<1>2. k \in Picker
  BY Bounds DEF ShapeInv, PickerTypeOK, Picker, NoForm
<1>3. pickers' = Append(pickers, k)
  BY DEF Begin
<1>4. /\ pickers' \in Seq(Picker) /\ DOMAIN pickers' = DOMAIN pickers \cup {t}
      /\ \A x \in DOMAIN pickers : pickers'[x] = pickers[x]
      /\ pickers'[t] = k
  <2> HIDE DEF k
  <2>1. QED BY <1>2, <1>3 DEF ShapeInv, PickerTypeOK
<1>5. /\ open' \in [Family -> SUBSET Nat]
      /\ \A g \in Family : open'[g] \subseteq open[g] \cup {t} /\ (g # f => open'[g] = open[g])
  <2>1. open' = [open EXCEPT ![f] = Remembered(f, t)]
    BY DEF Begin
  <2>2. QED BY <1>1, <2>1, RememberedShape DEF ShapeInv, PickerTypeOK
<1>6. Posting(t, "first", NoForm) \in Job /\ Starts(Posting(t, "first", NoForm))
  BY <1>1, PostingIsAJob DEF Begin, NoForm
<1>7. QED BY <1>1, <1>4, <1>5, <1>6, StartsShape DEF ShapeInv

-----------------------------------------------------------------------------
(* Every step keeps the shape. *)

LEMMA ShapeInit == Init => ShapeInv
<1> SUFFICES ASSUME Init PROVE ShapeInv
  OBVIOUS
<1>1. pickers \in Seq(Picker) /\ forms \in Seq([picker : Nat, shown : BOOLEAN])
        /\ applied \in Seq([picker : Nat, by : Person, time : Nat])
  BY DEF Init
<1>2. PickerTypeOK
  <2>1. 0 \in 0..MaxTime /\ 0 \in 0..MaxAsks /\ 0 \in 0..MaxClicks /\ 0 \in 0..MaxFaults
    BY Bounds
  <2>2. open \in [Family -> SUBSET Nat]
    BY DEF Init
  <2>3. QED BY <1>1, <2>1, <2>2 DEF Init, PickerTypeOK
<1>3. QED BY <1>2 DEF Init, ShapeInv, Registered

\* Pickers are only appended and rewritten in place.
LEMMA RegisteredKept ==
  ASSUME ShapeInv, PickerTypeOK', DOMAIN pickers \subseteq DOMAIN pickers',
         \A t \in DOMAIN pickers : pickers'[t].family = pickers[t].family,
         \A f \in Family : open'[f] \subseteq open[f],
         \A j \in jobs' : j.picker \in DOMAIN pickers,
         \A i \in DOMAIN forms' : forms'[i].picker \in DOMAIN pickers
  PROVE  ShapeInv'
<1>1. \A f \in Family : \A t \in open'[f] : t \in DOMAIN pickers' /\ pickers'[t].family = f
  BY DEF ShapeInv, Registered
<1>2. QED BY <1>1 DEF ShapeInv, Registered

LEMMA ShapeBegin ==
  ASSUME ShapeInv, NEW f \in Family, NEW by \in Person \cup {Nobody}, NEW asker \in Person \cup {Nobody},
         Begin(f, by, asker), noted' \in Person \cup {Nobody}, crossing' \in BOOLEAN,
         asked' \subseteq asked, UNCHANGED asks
  PROVE  ShapeInv'
<1>1. PickerTypeOK'
  BY BeginShape DEF Begin, ShapeInv, PickerTypeOK
<1>2. Registered'
  <2> DEFINE t == Len(pickers) + 1
  <2>1. \A g \in Family : \A x \in open'[g] : x \in DOMAIN pickers' /\ pickers'[x].family = g
    <3> TAKE g \in Family
    <3> TAKE x \in open'[g]
    <3>1. CASE x = t
      <4>1. x \notin open[g]
        BY <3>1, BeginShape DEF ShapeInv, Registered
      <4>2. g = f
        BY <4>1, BeginShape
      <4>3. QED BY <3>1, <4>2, BeginShape
    <3>2. CASE x # t
      <4>1. x \in open[g]
        BY <3>2, BeginShape
      <4>2. QED BY <4>1, BeginShape DEF ShapeInv, Registered
    <3>3. QED BY <3>1, <3>2
  <2>2. Posting(t, "first", NoForm).picker = t
    BY DEF Posting
  <2>3. \A j \in jobs' : j.picker \in DOMAIN pickers'
    <3>1. jobs' = jobs \cup {Posting(t, "first", NoForm)} /\ DOMAIN pickers' = DOMAIN pickers \cup {t}
      BY BeginShape
    <3>2. QED BY <2>2, <3>1 DEF ShapeInv, Registered
  <2>4. \A i \in DOMAIN forms' : forms'[i].picker \in DOMAIN pickers'
    <3>1. forms' = forms /\ DOMAIN pickers' = DOMAIN pickers \cup {t}
      BY BeginShape DEF Begin
    <3>2. QED BY <3>1 DEF ShapeInv, Registered
  <2>5. QED BY <2>1, <2>3, <2>4 DEF Registered
<1>3. QED BY <1>1, <1>2 DEF ShapeInv

\* A form that was posted becomes the picker's, and changes nothing else of it.
LEMMA AdoptedShape ==
  ASSUME PickerTypeOK, NEW t \in DOMAIN pickers, NEW i
  PROVE  /\ DOMAIN Adopted(t, i) = DOMAIN pickers
         /\ i \in Nat => Adopted(t, i) \in Seq(Picker)
         /\ \A x \in DOMAIN pickers :
              /\ Adopted(t, i)[x].family = pickers[x].family /\ Adopted(t, i)[x].opened = pickers[x].opened
              /\ Adopted(t, i)[x].asker = pickers[x].asker /\ Adopted(t, i)[x].by = pickers[x].by
<1> DEFINE k == [pickers[t] EXCEPT !.form = i]
<1>1. /\ i \in Nat => k \in Picker
      /\ k.family = pickers[t].family /\ k.opened = pickers[t].opened /\ k.by = pickers[t].by
      /\ k.asker = pickers[t].asker
  BY PickerShapes DEF Picker
<1>2. Adopted(t, i) = [pickers EXCEPT ![t] = k]
  BY DEF Adopted
<1> HIDE DEF k
<1>3. QED BY <1>1, <1>2 DEF PickerTypeOK

LEMMA ShapeCalls ==
  ASSUME ShapeInv, NEW j \in jobs, NEW ok \in BOOLEAN,
         Lands(j) \/ Answered(j) \/ PostFails(j) \/ Dropped(j, ok) \/ Applies(j, ok)
  PROVE  ShapeInv'
<1>0. j.picker \in DOMAIN pickers /\ j.picker \in Nat /\ j.previous \in Nat
  BY JobShapes, PickerShapes DEF ShapeInv, Registered
<1>1. CASE Lands(j)
  <2> DEFINE form == [picker |-> j.picker, shown |-> TRUE]
             k == [j EXCEPT !.form = Len(forms) + 1]
  <2>1. forms' = Append(forms, form) /\ form \in [picker : Nat, shown : BOOLEAN]
    BY <1>0, <1>1 DEF Lands
  <2>2. /\ forms' \in Seq([picker : Nat, shown : BOOLEAN])
        /\ \A i \in DOMAIN forms' : forms'[i] = form \/ (i \in DOMAIN forms /\ forms'[i] = forms[i])
    <3> HIDE DEF form
    <3>1. QED BY <2>1 DEF ShapeInv, PickerTypeOK
  <2>3. k \in Job /\ k.picker = j.picker
    <3>1. j \in [picker : Nat, at : {"first", "turn"}, previous : Nat, form : Nat] /\ Len(forms) + 1 \in Nat
      BY <1>1, JobShapes DEF Lands, ShapeInv, PickerTypeOK
    <3>2. k \in [picker : Nat, at : {"first", "turn"}, previous : Nat, form : Nat] /\ k.picker = j.picker
      BY <3>1
    <3>3. QED BY <3>2 DEF Job
  <2>4. jobs' \in SUBSET Job /\ \A x \in jobs' : x.picker \in DOMAIN pickers
    BY <1>0, <1>1, <2>3 DEF Lands, ShapeInv, PickerTypeOK, Registered
  <2>5. PickerTypeOK'
    BY <1>1, <2>2, <2>4 DEF Lands, ShapeInv, PickerTypeOK
  <2>6. \A i \in DOMAIN forms' : forms'[i].picker \in DOMAIN pickers
    BY <1>0, <2>2 DEF ShapeInv, Registered
  <2>7. UNCHANGED <<pickers, open>>
    BY <1>1 DEF Lands
  <2>8. QED BY <2>4, <2>5, <2>6, <2>7, RegisteredKept
<1>2. CASE Answered(j)
  <2>3. /\ pickers' \in Seq(Picker) /\ DOMAIN pickers' = DOMAIN pickers
        /\ \A t \in DOMAIN pickers : pickers'[t].family = pickers[t].family
    <3>1. j.form \in Nat
      BY <1>2, JobShapes DEF Answered, ShapeInv
    <3>2. QED BY <1>0, <1>2, <3>1, AdoptedShape DEF Answered, ShapeInv
  <2>4. jobs' \in SUBSET Job /\ \A x \in jobs' : x.picker \in DOMAIN pickers
    BY <1>0, <1>2, DroppingIsAJob DEF Answered, ShapeInv, PickerTypeOK, Registered
  <2>5. PickerTypeOK'
    BY <1>2, <2>3, <2>4 DEF Answered, ShapeInv, PickerTypeOK
  <2>6. UNCHANGED <<forms, open>>
    BY <1>2 DEF Answered
  <2>7. QED BY <2>3, <2>4, <2>5, <2>6, RegisteredKept DEF ShapeInv, Registered
<1>3. CASE PostFails(j)
  <2>1. open' \in [Family -> SUBSET Nat] /\ \A f \in Family : open'[f] \subseteq open[f]
    BY <1>3 DEF PostFails, ShapeInv, PickerTypeOK
  <2>2. faults' \in 0..MaxFaults
    BY <1>3, Bounds DEF PostFails, ShapeInv, PickerTypeOK
  <2>3. PickerTypeOK'
    BY <1>0, <1>3, <2>1, <2>2 DEF PostFails, ShapeInv, PickerTypeOK
  <2>4. jobs' \subseteq jobs /\ UNCHANGED <<pickers, forms>>
    BY <1>3 DEF PostFails
  <2>5. QED BY <2>1, <2>3, <2>4, RegisteredKept DEF ShapeInv, Registered
<1>4. ASSUME Deletes(j, ok), applied' \in Seq([picker : Nat, by : Person, time : Nat])
      PROVE  ShapeInv'
  <2>1. /\ forms' \in Seq([picker : Nat, shown : BOOLEAN]) /\ DOMAIN forms' = DOMAIN forms
        /\ \A i \in DOMAIN forms : forms'[i].picker = forms[i].picker
    <3>1. CASE forms' = forms
      BY <3>1 DEF ShapeInv, PickerTypeOK
    <3>2. CASE forms' = [forms EXCEPT ![j.previous].shown = FALSE]
      <4> DEFINE F == [picker : Nat, shown : BOOLEAN]
                 x == [forms[j.previous] EXCEPT !.shown = FALSE]
      <4>1. forms \in Seq(F) /\ forms' = [forms EXCEPT ![j.previous] = x]
        BY <3>2 DEF ShapeInv, PickerTypeOK
      <4>2. j.previous \in DOMAIN forms => x \in F /\ x.picker = forms[j.previous].picker
        <5>1. j.previous \in DOMAIN forms => forms[j.previous] \in F
          <6> HIDE DEF x, F
          <6>1. QED BY <4>1
        <5>2. QED BY <5>1
      <4> HIDE DEF x, F
      <4>3. Len(forms) \in Nat /\ DOMAIN forms = 1..Len(forms) /\ \A i \in DOMAIN forms : forms[i] \in F
        BY <4>1
      <4>4. DOMAIN forms' = DOMAIN forms /\ \A i \in DOMAIN forms : forms'[i] = IF i = j.previous THEN x ELSE forms[i]
        BY <4>1
      <4>5. forms' \in [1..Len(forms) -> F]
        BY <4>1, <4>2, <4>3, <4>4
      <4>6. forms' \in Seq(F)
        BY <4>3, <4>5
      <4>7. QED BY <4>2, <4>4, <4>6 DEF F
    <3>3. QED BY <1>4, <3>1, <3>2 DEF Deletes
  <2>2. faults' \in 0..MaxFaults /\ disturbed' \in SUBSET Nat
    <3>1. CASE ok
      BY <1>4, <3>1 DEF Deletes, ShapeInv, PickerTypeOK
    <3>2. CASE ~ok
      <4>1. faults \in Nat /\ faults < MaxFaults /\ faults' = faults + 1
        BY <1>4, <3>2, Bounds DEF Deletes, ShapeInv, PickerTypeOK
      <4>2. disturbed' = disturbed \cup {j.picker} /\ disturbed \in SUBSET Nat
        BY <1>4, <3>2 DEF Deletes, ShapeInv, PickerTypeOK
      <4>3. faults' \in 0..MaxFaults
        BY <4>1, Bounds
      <4>4. QED BY <1>0, <4>2, <4>3
    <3>3. QED BY <3>1, <3>2
  <2>3. PickerTypeOK'
    BY <1>4, <2>1, <2>2 DEF Deletes, ShapeInv, PickerTypeOK
  <2>4. jobs' \subseteq jobs /\ UNCHANGED <<pickers, open>>
    BY <1>4 DEF Deletes
  <2>5. QED BY <2>1, <2>3, <2>4, RegisteredKept DEF ShapeInv, Registered
<1>5. CASE Dropped(j, ok)
  BY <1>4, <1>5 DEF Dropped, ShapeInv, PickerTypeOK
<1>6. CASE Applies(j, ok)
  <2> DEFINE x == [picker |-> j.picker, by |-> j.by, time |-> j.time]
  <2>1. x \in [picker : Nat, by : Person, time : Nat]
    BY <1>0, <1>6, JobShapes DEF Applies, ShapeInv
  <2>2. applied' = Append(applied, x)
    BY <1>6 DEF Applies
  <2>3. applied' \in Seq([picker : Nat, by : Person, time : Nat])
    <3> HIDE DEF x
    <3>1. QED BY <2>1, <2>2 DEF ShapeInv, PickerTypeOK
  <2>4. QED BY <1>4, <1>6, <2>3 DEF Applies
<1>7. QED BY <1>1, <1>2, <1>3, <1>5, <1>6

\* The first click binds a picker, and changes nothing else of it.
LEMMA BoundShape ==
  ASSUME PickerTypeOK, NEW t \in DOMAIN pickers, NEW p \in Person
  PROVE  /\ Bound(t, p) \in Seq(Picker) /\ DOMAIN Bound(t, p) = DOMAIN pickers
         /\ \A x \in DOMAIN pickers :
              /\ Bound(t, p)[x].family = pickers[x].family /\ Bound(t, p)[x].opened = pickers[x].opened
              /\ Bound(t, p)[x].asker = pickers[x].asker /\ Bound(t, p)[x].form = pickers[x].form
              /\ pickers[x].by # Nobody => Bound(t, p)[x].by = pickers[x].by
<1> DEFINE k == [pickers[t] EXCEPT !.by = p]
<1>1. k \in Picker /\ k.family = pickers[t].family /\ k.opened = pickers[t].opened /\ k.form = pickers[t].form
        /\ k.asker = pickers[t].asker
  BY PickerShapes DEF Picker
<1>2. CASE pickers[t].by = Nobody
  <2>1. Bound(t, p) = [pickers EXCEPT ![t] = k]
    BY <1>2 DEF Bound
  <2> HIDE DEF k
  <2>2. QED BY <1>1, <1>2, <2>1 DEF PickerTypeOK
<1>3. CASE pickers[t].by # Nobody
  BY <1>3 DEF Bound, PickerTypeOK
<1>4. QED BY <1>2, <1>3

LEMMA ShapeClick ==
  ASSUME ShapeInv, NEW p \in Person, NEW t \in DOMAIN pickers, NEW deed \in Deed, Click(p, t, deed)
  PROVE  ShapeInv'
<1>0. t \in Nat /\ pickers[t].form \in Nat /\ pickers[t].family \in Family /\ clock \in Nat
  <2>1. t \in Nat /\ pickers[t] \in Picker
    BY PickerShapes DEF ShapeInv
  <2>2. clock \in Nat
    BY Bounds DEF ShapeInv, PickerTypeOK
  <2> QED
    BY <2>1, <2>2 DEF Picker
<1>1. Asks(t, deed) \in Family
  BY <1>0 DEF Asks, Family
<1>2. /\ pickers' \in Seq(Picker) /\ DOMAIN pickers' = DOMAIN pickers
      /\ \A x \in DOMAIN pickers : pickers'[x].family = pickers[x].family
  BY BoundShape DEF Click, ShapeInv, PickerTypeOK
<1>3. open' \in [Family -> SUBSET Nat] /\ \A f \in Family : open'[f] \subseteq open[f]
  BY <1>1 DEF Click, Consumed, ShapeInv, PickerTypeOK
<1>4. jobs' \in SUBSET Job /\ disturbed' \in SUBSET Nat /\ \A j \in jobs' : j.picker \in DOMAIN pickers
  <2>1. ASSUME NEW j \in Job, Starts(j), j.picker = t
        PROVE  jobs' \in SUBSET Job /\ disturbed' \in SUBSET Nat /\ \A x \in jobs' : x.picker \in DOMAIN pickers
    BY <2>1, StartsShape DEF ShapeInv, Registered
  <2>2. CASE Starts(Posting(t, "turn", pickers[t].form))
    BY <1>0, <2>1, <2>2, PostingIsAJob
  <2>3. CASE Starts(Applying(t, p, pickers[t].form))
    BY <1>0, <2>1, <2>3, ApplyingIsAJob
  <2>4. CASE UNCHANGED <<jobs, disturbed>>
    BY <2>4 DEF ShapeInv, PickerTypeOK, Registered
  <2>5. QED BY <2>2, <2>3, <2>4 DEF Click
<1>5. clicks' \in 0..MaxClicks
  BY Bounds DEF Click, ShapeInv, PickerTypeOK
<1>6. UNCHANGED <<clock, noted, asks, asked, crossing, forms, applied, faults>>
  BY DEF Click
<1>7. PickerTypeOK'
  BY <1>2, <1>3, <1>4, <1>5, <1>6 DEF ShapeInv, PickerTypeOK
<1>8. QED BY <1>2, <1>3, <1>4, <1>6, <1>7, RegisteredKept DEF ShapeInv, Registered

LEMMA ShapeStep == ShapeInv /\ [Next]_vars => ShapeInv'
<1> SUFFICES ASSUME ShapeInv, [Next]_vars PROVE ShapeInv'
  OBVIOUS
<1>1. ASSUME NEW p \in Person, Note(p) PROVE ShapeInv'
  <2>1. [by |-> p, n |-> asks] \in [by : Person, n : Nat]
    BY Bounds DEF ShapeInv, PickerTypeOK
  <2>2. asks' \in 0..MaxAsks
    BY <1>1, Bounds DEF Note, ShapeInv, PickerTypeOK
  <2>3. QED BY <1>1, <2>1, <2>2 DEF Note, ShapeInv, PickerTypeOK, Registered
<1>2. ASSUME NEW f \in Family, HostOpensAlone(f) PROVE ShapeInv'
  BY <1>2, ShapeBegin DEF HostOpensAlone, ShapeInv, PickerTypeOK
<1>3. ASSUME NEW f \in Family, NEW a \in asked, HostOpens(a, f) PROVE ShapeInv'
  <2>1. a.by \in Person
    BY DEF ShapeInv, PickerTypeOK
  <2>2. QED BY <1>3, <2>1, ShapeBegin DEF HostOpens, ShapeInv, PickerTypeOK
<1>4. ASSUME NEW a \in asked, HostDeclines(a) PROVE ShapeInv'
  BY <1>4 DEF HostDeclines, ShapeInv, PickerTypeOK, Registered
<1>5. ASSUME NEW p \in Person, PickModel(p) PROVE ShapeInv'
  BY <1>5, ShapeBegin DEF PickModel, ShapeInv, PickerTypeOK, Family
<1>6. ASSUME NEW p \in Person, NEW deed \in Deed, NEW i \in DOMAIN forms, Click(p, forms[i].picker, deed)
      PROVE ShapeInv'
  BY <1>6, ShapeClick DEF ShapeInv, Registered
<1>7. CASE Tick
  BY <1>7, Bounds DEF Tick, ShapeInv, PickerTypeOK, Registered
<1>8. CASE UNCHANGED vars
  BY <1>8 DEF vars, ShapeInv, PickerTypeOK, Registered
<1>9. QED BY <1>1, <1>2, <1>3, <1>4, <1>5, <1>6, <1>7, <1>8, ShapeCalls DEF Next

-----------------------------------------------------------------------------
(* A picker belongs to whoever asked for it. *)

LEMMA AskersStep ==
  ASSUME ShapeInv, NoteIsTheAskers, PickersBelongToTheirAskers, [Next]_vars
  PROVE  NoteIsTheAskers' /\ PickersBelongToTheirAskers'
<1>1. ASSUME NEW p \in Person, Note(p)
      PROVE  NoteIsTheAskers' /\ PickersBelongToTheirAskers'
  <2>1. pickers' = pickers /\ noted' = p /\ asked' = asked \cup {[by |-> p, n |-> asks]}
    BY <1>1 DEF Note
  <2>2. ~crossing' => asked = {}
    BY <1>1 DEF Note
  <2>3. NoteIsTheAskers'
    BY <2>1, <2>2 DEF NoteIsTheAskers
  <2>4. QED BY <2>1, <2>3 DEF PickersBelongToTheirAskers
<1>2. ASSUME NEW f \in Family, NEW by \in Person \cup {Nobody}, NEW asker \in Person \cup {Nobody},
             Begin(f, by, asker), asker # Nobody => by = asker
      PROVE  PickersBelongToTheirAskers'
  BY <1>2, BeginShape DEF PickersBelongToTheirAskers
<1>3. ASSUME NEW f \in Family, HostOpensAlone(f)
      PROVE  NoteIsTheAskers' /\ PickersBelongToTheirAskers'
  BY <1>2, <1>3 DEF HostOpensAlone, NoteIsTheAskers, ShapeInv, PickerTypeOK
<1>4. ASSUME NEW f \in Family, NEW a \in asked, HostOpens(a, f)
      PROVE  NoteIsTheAskers' /\ PickersBelongToTheirAskers'
  <2>1. a.by \in Person /\ noted \in Person \cup {Nobody}
    BY DEF ShapeInv, PickerTypeOK
  <2>2. ~crossing => noted = a.by
    BY DEF NoteIsTheAskers
  <2>3. ~crossing => asked \ {a} = {}
    BY DEF NoteIsTheAskers
  <2>4. NoteIsTheAskers'
    BY <1>4, <2>3 DEF HostOpens, NoteIsTheAskers
  <2>5. QED BY <1>2, <1>4, <2>1, <2>2, <2>4 DEF HostOpens
<1>5. ASSUME NEW a \in asked, HostDeclines(a)
      PROVE  NoteIsTheAskers' /\ PickersBelongToTheirAskers'
  BY <1>5 DEF HostDeclines, NoteIsTheAskers, PickersBelongToTheirAskers
<1>6. ASSUME NEW p \in Person, PickModel(p)
      PROVE  NoteIsTheAskers' /\ PickersBelongToTheirAskers'
  BY <1>2, <1>6 DEF PickModel, NoteIsTheAskers, Family
<1>7. ASSUME UNCHANGED <<noted, asked, crossing>>, DOMAIN pickers' = DOMAIN pickers,
             \A t \in DOMAIN pickers : /\ pickers'[t].asker = pickers[t].asker
                                       /\ pickers[t].by # Nobody => pickers'[t].by = pickers[t].by
      PROVE  NoteIsTheAskers' /\ PickersBelongToTheirAskers'
  BY <1>7 DEF NoteIsTheAskers, PickersBelongToTheirAskers
<1>8. ASSUME NEW j \in jobs, Answered(j)
      PROVE  NoteIsTheAskers' /\ PickersBelongToTheirAskers'
  BY <1>7, <1>8, AdoptedShape DEF Answered, ShapeInv, Registered
<1>9. ASSUME NEW j \in jobs, NEW ok \in BOOLEAN, Lands(j) \/ PostFails(j) \/ Dropped(j, ok) \/ Applies(j, ok)
      PROVE  NoteIsTheAskers' /\ PickersBelongToTheirAskers'
  BY <1>7, <1>9 DEF Lands, PostFails, Dropped, Applies, Deletes
<1>10. ASSUME NEW p \in Person, NEW deed \in Deed, NEW i \in DOMAIN forms, Click(p, forms[i].picker, deed)
       PROVE  NoteIsTheAskers' /\ PickersBelongToTheirAskers'
  <2> DEFINE t == forms[i].picker
  <2>1. t \in DOMAIN pickers
    BY DEF ShapeInv, Registered
  <2>2. pickers' = pickers \/ pickers' = Bound(t, p)
    BY <1>10 DEF Click
  <2>3. UNCHANGED <<noted, asked, crossing>>
    BY <1>10 DEF Click
  <2> HIDE DEF t
  <2>4. QED BY <1>7, <2>1, <2>2, <2>3, BoundShape DEF ShapeInv
<1>11. CASE Tick
  BY <1>7, <1>11 DEF Tick
<1>12. CASE UNCHANGED vars
  BY <1>7, <1>12 DEF vars
<1>13. QED BY <1>1, <1>3, <1>4, <1>5, <1>6, <1>8, <1>9, <1>10, <1>11, <1>12 DEF Next

-----------------------------------------------------------------------------
(* A picker is used once. *)

\* A step that keeps owners and times, and opens no old picker, keeps selections in order.
LEMMA ChosenKept ==
  ASSUME DOMAIN pickers \subseteq DOMAIN pickers',
         \A t \in DOMAIN pickers : /\ pickers'[t].opened = pickers[t].opened
                                   /\ pickers[t].by # Nobody => pickers'[t].by = pickers[t].by,
         \A f \in Family : open'[f] \cap DOMAIN pickers \subseteq open[f]
  PROVE  Chosen \subseteq Chosen'
<1> SUFFICES ASSUME NEW c \in Chosen PROVE c \in Chosen'
  OBVIOUS
<1>1. c.picker \in DOMAIN pickers /\ c.by \in Person /\ c.by # Nobody
  BY Bounds DEF Chosen
<1>2. c \in [picker : DOMAIN pickers', by : Person, time : Nat]
  BY DEF Chosen
<1>3. QED BY <1>1, <1>2 DEF Chosen

\* So does one that selects nothing besides.
LEMMA SpentKept ==
  ASSUME SpentOnce, DOMAIN pickers \subseteq DOMAIN pickers',
         \A t \in DOMAIN pickers : /\ pickers'[t].opened = pickers[t].opened
                                   /\ pickers[t].by # Nobody => pickers'[t].by = pickers[t].by,
         \A f \in Family : open'[f] \cap DOMAIN pickers \subseteq open[f],
         Selecting' \subseteq Selecting, applied' = applied
  PROVE  SpentOnce'
BY ChosenKept DEF SpentOnce, Choice

LEMMA SpentStep ==
  ASSUME ShapeInv, ShapeInv', SpentOnce, [Next]_vars
  PROVE  SpentOnce'
<1>0. \A f \in Family : open[f] \subseteq DOMAIN pickers
  BY DEF ShapeInv, Registered
<1>1. ASSUME UNCHANGED <<pickers, open, jobs, applied>>
      PROVE  SpentOnce'
  BY <1>1, SpentKept DEF Selecting
<1>2. ASSUME NEW f \in Family, NEW by \in Person \cup {Nobody}, NEW asker \in Person \cup {Nobody},
             Begin(f, by, asker)
      PROVE  SpentOnce'
  <2>1. Selecting' \subseteq Selecting
    <3>1. jobs' = jobs \cup {Posting(Len(pickers) + 1, "first", NoForm)}
      BY <1>2, BeginShape
    <3>2. QED BY <3>1 DEF Selecting, Posting
  <2>2. applied' = applied
    BY <1>2 DEF Begin
  <2>3. \A g \in Family : open'[g] \cap DOMAIN pickers \subseteq open[g]
    BY <1>2, BeginShape
  <2>4. DOMAIN pickers \subseteq DOMAIN pickers' /\ \A x \in DOMAIN pickers : pickers'[x] = pickers[x]
    BY <1>2, BeginShape
  <2>5. QED BY <2>1, <2>2, <2>3, <2>4, SpentKept
<1>3. ASSUME NEW j \in jobs, Lands(j) PROVE SpentOnce'
  <2>1. Selecting' \subseteq Selecting
    <3>1. j \in [picker : Nat, at : {"first", "turn"}, previous : Nat, form : Nat]
      BY <1>3, JobShapes DEF Lands, ShapeInv
    <3>2. [j EXCEPT !.form = Len(forms) + 1].at # "apply"
      BY <3>1
    <3>3. QED BY <1>3, <3>2 DEF Lands, Selecting
  <2>2. QED BY <1>3, <2>1, SpentKept DEF Lands
<1>4. ASSUME NEW j \in jobs, Answered(j) PROVE SpentOnce'
  <2>1. Selecting' \subseteq Selecting
    BY <1>4 DEF Answered, Selecting, Dropping
  <2>2. QED BY <1>0, <1>4, <2>1, SpentKept, AdoptedShape DEF Answered, ShapeInv, Registered
<1>5. ASSUME NEW j \in jobs, PostFails(j) PROVE SpentOnce'
  <2>1. Selecting' \subseteq Selecting
    BY <1>5 DEF PostFails, Selecting
  <2>2. \A f \in Family : open'[f] \subseteq open[f]
    BY <1>5 DEF PostFails
  <2>3. QED BY <1>5, <2>1, <2>2, SpentKept DEF PostFails
<1>6. ASSUME NEW j \in jobs, NEW ok \in BOOLEAN, Dropped(j, ok) PROVE SpentOnce'
  <2>1. Selecting' \subseteq Selecting
    BY <1>6 DEF Dropped, Deletes, Selecting
  <2>2. QED BY <1>6, <2>1, SpentKept DEF Dropped, Deletes
<1>7. ASSUME NEW j \in jobs, NEW ok \in BOOLEAN, Applies(j, ok) PROVE SpentOnce'
  <2>1. j \in Selecting /\ Selecting' = Selecting \ {j} /\ UNCHANGED <<pickers, open>>
    BY <1>7 DEF Applies, Deletes, Selecting
  <2>2. applied' = Append(applied, Choice(j))
    BY <1>7 DEF Applies, Choice
  <2>3. /\ DOMAIN applied' = DOMAIN applied \cup {Len(applied) + 1}
        /\ \A i \in DOMAIN applied : applied'[i] = applied[i]
        /\ applied'[Len(applied) + 1] = Choice(j) /\ Len(applied) + 1 \notin DOMAIN applied
    <3> DEFINE A == [picker : Nat, by : Person, time : Nat]
    <3>1. applied \in Seq(A)
      BY DEF ShapeInv, PickerTypeOK
    <3> HIDE DEF A
    <3>2. QED BY <2>2, <3>1
  <2>4. Choice(j).picker = j.picker
    BY DEF Choice
  <2>5. Chosen' = Chosen
    BY <2>1 DEF Chosen
  <2>6. \A i \in DOMAIN applied' : applied'[i] \in Chosen'
    BY <2>1, <2>3, <2>5 DEF SpentOnce
  <2>7. \A k \in Selecting' : \A i \in DOMAIN applied' : applied'[i].picker # k.picker
    BY <2>1, <2>3, <2>4 DEF SpentOnce
  <2>8. \A i, k \in DOMAIN applied' : applied'[i].picker = applied'[k].picker => i = k
    BY <2>1, <2>3, <2>4 DEF SpentOnce
  <2>9. \A k \in Selecting' : Choice(k) \in Chosen'
    BY <2>1, <2>5 DEF SpentOnce
  <2>10. \A k, m \in Selecting' : k.picker = m.picker => k = m
    BY <2>1 DEF SpentOnce
  <2>11. (\A k \in Selecting : Choice(k) \in Chosen)'
    BY <2>9 DEF Choice
  <2>12. QED BY <2>6, <2>7, <2>8, <2>10, <2>11 DEF SpentOnce
<1>8. ASSUME NEW p \in Person, NEW deed \in Deed, NEW i \in DOMAIN forms, Click(p, forms[i].picker, deed)
      PROVE  SpentOnce'
  <2> DEFINE t == forms[i].picker
             f == Asks(t, deed)
  <2>1. t \in DOMAIN pickers
    BY DEF ShapeInv, Registered
  <2>2. \A x \in DOMAIN pickers : /\ pickers'[x].opened = pickers[x].opened
                                  /\ pickers[x].by # Nobody => pickers'[x].by = pickers[x].by
    <3>1. pickers' = pickers \/ pickers' = Bound(t, p)
      BY <1>8 DEF Click
    <3> HIDE DEF t
    <3>2. QED BY <2>1, <3>1, BoundShape DEF ShapeInv
  <2>3. DOMAIN pickers' = DOMAIN pickers /\ applied' = applied
    <3>1. applied' = applied /\ (pickers' = pickers \/ pickers' = Bound(t, p))
      BY <1>8 DEF Click
    <3> HIDE DEF t
    <3>2. QED BY <2>1, <3>1, BoundShape DEF ShapeInv
  <2>4. f \in Family /\ t \in Nat /\ clock \in Nat
    <3>1. clock \in Nat
      BY Bounds DEF ShapeInv, PickerTypeOK
    <3>2. pickers[t].family \in Family /\ t \in Nat
      BY <2>1, PickerShapes DEF ShapeInv, Picker
    <3>3. QED BY <3>1, <3>2 DEF Asks, Family
  <2>5. \A g \in Family : open'[g] \subseteq open[g]
    BY <1>8, <2>4 DEF Click, Consumed, ShapeInv, PickerTypeOK
  <2>6. CASE UNCHANGED jobs
    BY <2>2, <2>3, <2>5, <2>6, SpentKept DEF Selecting
  <2>7. CASE jobs' = jobs \cup {Posting(t, "turn", pickers[t].form)}
    <3>1. Selecting' \subseteq Selecting
      BY <2>7 DEF Selecting, Posting
    <3>2. QED BY <2>2, <2>3, <2>5, <3>1, SpentKept
  <2>8. CASE /\ deed = "select" /\ Live(f, t) /\ pickers' = Bound(t, p) /\ Bound(t, p)[t].by = p
             /\ open' = [open EXCEPT ![f] = Consumed(f, t)] /\ jobs' = jobs \cup {Applying(t, p, pickers[t].form)}
    <3> DEFINE j == Applying(t, p, pickers[t].form)
    <3>1. Choice(j) = [picker |-> t, by |-> p, time |-> clock] /\ j.picker = t /\ j.at = "apply"
      BY DEF Applying, Choice
    <3>2. Selecting' = Selecting \cup {j}
      BY <2>8, <3>1 DEF Selecting
    <3> HIDE DEF j
    <3>3. f = pickers[t].family /\ t \in open[f] /\ clock <= pickers[t].opened + TTL
      BY <2>1, <2>4, <2>8, PickerShapes, Bounds DEF Live, Lapsed, Asks, ShapeInv, Picker
    <3>4. \A g \in Family : t \notin open'[g]
      BY <2>4, <2>8, <3>3 DEF Consumed, ShapeInv, PickerTypeOK, Registered
    <3>5. Choice(j) \in Chosen'
      <4>1. pickers'[t].by = p /\ pickers'[t].opened = pickers[t].opened /\ t \in DOMAIN pickers'
        BY <2>1, <2>2, <2>3, <2>8
      <4>2. QED BY <2>4, <3>1, <3>3, <3>4, <4>1 DEF Chosen
    <3>6. (\A k \in Selecting : k.picker # t) /\ \A k \in DOMAIN applied : applied[k].picker # t
      <4>1. \A c \in Chosen : c.picker # t
        BY <2>4, <3>3 DEF Chosen
      <4>2. \A k \in Selecting : Choice(k).picker = k.picker
        BY DEF Choice
      <4>3. QED BY <4>1, <4>2 DEF SpentOnce
    <3>7. Chosen \subseteq Chosen'
      BY <2>2, <2>3, <2>5, ChosenKept
    <3>8. (\A k \in Selecting : Choice(k) \in Chosen)'
      BY <3>2, <3>5, <3>7 DEF SpentOnce, Choice
    <3>9. \A m \in DOMAIN applied' : applied'[m] \in Chosen'
      BY <2>3, <3>7 DEF SpentOnce
    <3>10. QED BY <2>3, <3>1, <3>2, <3>6, <3>8, <3>9 DEF SpentOnce
  <2>9. QED BY <1>8, <2>6, <2>7, <2>8 DEF Click, Starts
<1>9. QED
  BY <1>1, <1>2, <1>3, <1>4, <1>5, <1>6, <1>7, <1>8
  DEF Next, vars, Note, HostOpensAlone, HostOpens, HostDeclines, PickModel, Tick, ShapeInv, PickerTypeOK, Family

-----------------------------------------------------------------------------
(* A form takes the place of the one before it. *)

JobsOf(t) == {j \in jobs : j.picker = t}
Used(t) == \E i \in DOMAIN applied : applied[i].picker = t

\* What may stand where the number of a form of picker t does.
Own(t) == {NoForm} \cup {i \in DOMAIN forms : forms[i].picker = t}

FormsAreOwn ==
  /\ \A t \in DOMAIN pickers : pickers[t].form \in Own(t)
  /\ \A j \in jobs : /\ j.previous \in Own(j.picker)
                     /\ j.at \in {"first", "turn"} => j.form \in Own(j.picker)

\* The forms on show while handler j of an unused picker waits.
Turning(t, j) ==
  /\ j.at \in {"first", "turn"} /\ j.previous = pickers[t].form /\ (j.form # NoForm => j.form # j.previous)
  /\ Shown(t) = {j.previous, j.form} \ {NoForm}

Clearing(t, j) ==
  /\ j.at = "drop" /\ j.previous # pickers[t].form
  /\ Shown(t) = {j.previous, pickers[t].form}

Closing(t, j) ==
  /\ j.at = "apply" /\ j.previous = pickers[t].form
  /\ Shown(t) = {pickers[t].form}

Underway(t, j) == JobsOf(t) = {j} /\ ~Used(t) /\ (Turning(t, j) \/ Clearing(t, j) \/ Closing(t, j))

\* Nothing is under way.
Calm(t) == JobsOf(t) = {} /\ Shown(t) = IF Used(t) THEN {} ELSE {pickers[t].form}

Replaced(t) == t \in disturbed \/ Calm(t) \/ \E j \in jobs : Underway(t, j)

FormsInv == FormsAreOwn /\ \A t \in DOMAIN pickers : Replaced(t)

\* A step that touches nothing of picker t.
LEMMA ReplacedFrame ==
  ASSUME NEW t, Replaced(t), JobsOf(t)' = JobsOf(t), pickers'[t].form = pickers[t].form, Shown(t)' = Shown(t),
         Used(t)' <=> Used(t), disturbed \subseteq disturbed'
  PROVE  Replaced(t)'
<1>1. CASE t \in disturbed
  BY <1>1 DEF Replaced
<1>2. CASE Calm(t)
  BY <1>2 DEF Replaced, Calm
<1>3. ASSUME NEW j \in jobs, Underway(t, j) PROVE Replaced(t)'
  <2>1. Underway(t, j)'
    BY <1>3 DEF Underway, Turning, Clearing, Closing
  <2>2. j \in jobs'
    BY <1>3 DEF Underway, JobsOf
  <2>3. QED BY <2>1, <2>2 DEF Replaced
<1>4. QED BY <1>1, <1>2, <1>3 DEF Replaced

LEMMA OwnKept ==
  ASSUME NEW t, DOMAIN forms \subseteq DOMAIN forms',
         \A i \in DOMAIN forms : forms'[i].picker = forms[i].picker
  PROVE  Own(t) \subseteq Own(t)'
BY DEF Own

\* The handlers of a picker when one of another is added.
LEMMA JobsOfAnother ==
  ASSUME NEW t, NEW j, j.picker # t, jobs' = jobs \cup {j}
  PROVE  JobsOf(t)' = JobsOf(t)
BY DEF JobsOf

\* Names that are kept stand for the same forms.
LEMMA OwnFrame ==
  ASSUME FormsAreOwn, DOMAIN forms \subseteq DOMAIN forms',
         \A i \in DOMAIN forms : forms'[i].picker = forms[i].picker,
         \A t \in DOMAIN pickers' : pickers'[t].form = NoForm \/ (t \in DOMAIN pickers /\ pickers'[t].form = pickers[t].form)
                                      \/ pickers'[t].form \in Own(t)',
         \A j \in jobs' : j \in jobs \/ (/\ j.previous \in Own(j.picker)'
                                         /\ j.at \in {"first", "turn"} => j.form \in Own(j.picker)')
  PROVE  FormsAreOwn'
<1>1. \A t : Own(t) \subseteq Own(t)'
  BY DEF Own
<1>2. \A t \in DOMAIN pickers' : pickers'[t].form \in Own(t)'
  <2> TAKE t \in DOMAIN pickers'
  <2>1. NoForm \in Own(t)'
    BY DEF Own
  <2>2. QED BY <1>1, <2>1 DEF FormsAreOwn
<1>3. \A j \in jobs' : /\ j.previous \in Own(j.picker)'
                       /\ j.at \in {"first", "turn"} => j.form \in Own(j.picker)'
  <2> TAKE j \in jobs'
  <2>1. Own(j.picker) \subseteq Own(j.picker)'
    BY OwnKept
  <2>2. QED BY <2>1 DEF FormsAreOwn
<1>4. QED BY <1>2, <1>3 DEF FormsAreOwn

FormsBase == ShapeInv /\ SpentOnce /\ FormsInv

\* A picker that opens has one handler and no form.
LEMMA FormsBegin ==
  ASSUME FormsBase, NEW f \in Family, NEW by \in Person \cup {Nobody}, NEW asker \in Person \cup {Nobody},
         Begin(f, by, asker)
  PROVE  FormsInv'
<1>s. PICK s : s = Len(pickers) + 1
  OBVIOUS
<1>j. PICK j : j = Posting(s, "first", NoForm)
  OBVIOUS
<1>1. /\ s \in Nat /\ s \notin DOMAIN pickers /\ DOMAIN pickers' = DOMAIN pickers \cup {s}
      /\ jobs' = jobs \cup {j}
      /\ \A x \in DOMAIN pickers : pickers'[x] = pickers[x]
  BY <1>s, <1>j, BeginShape DEF FormsBase
<1>2. pickers'[s].form = NoForm
  <2> DEFINE k == [family |-> f, by |-> by, asker |-> asker, opened |-> clock, form |-> NoForm]
  <2>1. pickers' = Append(pickers, k) /\ k.form = NoForm /\ pickers \in Seq(Picker)
    BY DEF Begin, FormsBase, ShapeInv, PickerTypeOK
  <2> HIDE DEF k
  <2>2. QED BY <1>s, <2>1
<1>3. forms' = forms /\ applied' = applied /\ disturbed \subseteq disturbed'
  BY DEF Begin, Starts
<1>4. j.picker = s /\ j.at = "first" /\ j.previous = NoForm /\ j.form = NoForm
  BY <1>j DEF Posting
<1>5. FormsAreOwn'
  <2>1. NoForm \in Own(s)'
    BY DEF Own
  <2>2. QED BY <1>1, <1>2, <1>3, <1>4, <2>1, OwnFrame DEF FormsBase, FormsInv
<1>6. ASSUME NEW t \in DOMAIN pickers PROVE Replaced(t)'
  <2>1. Replaced(t) /\ t # s
    BY <1>1 DEF FormsBase, FormsInv
  <2>2. Shown(t)' = Shown(t) /\ (Used(t)' <=> Used(t))
    BY <1>3 DEF Shown, Used
  <2>3. JobsOf(t)' = JobsOf(t)
    BY <1>1, <1>4, <2>1, JobsOfAnother
  <2>4. QED BY <1>1, <1>3, <2>1, <2>2, <2>3, ReplacedFrame
<1>7. Replaced(s)'
  <2>1. Shown(s)' = {} /\ ~Used(s)'
    <3>1. \A i \in DOMAIN forms : forms[i].picker # s
      BY <1>1 DEF FormsBase, ShapeInv, Registered
    <3>2. \A i \in DOMAIN applied : applied[i].picker # s
      BY <1>1 DEF FormsBase, SpentOnce, Chosen
    <3>3. QED BY <1>3, <3>1, <3>2 DEF Shown, Used
  <2>2. JobsOf(s)' = {j}
    BY <1>1, <1>4 DEF JobsOf, FormsBase, ShapeInv, Registered
  <2>3. Turning(s, j)'
    BY <1>2, <1>4, <2>1 DEF Turning
  <2>4. QED BY <1>1, <2>1, <2>2, <2>3 DEF Underway, Replaced
<1>8. \A t \in DOMAIN pickers' : Replaced(t)'
  <2> SUFFICES ASSUME NEW t \in DOMAIN pickers' PROVE Replaced(t)'
    OBVIOUS
  <2>1. QED BY <1>1, <1>6, <1>7
<1>9. QED BY <1>5, <1>8 DEF FormsInv

\* The handlers of a picker when one of another goes, and another may come in its place.
LEMMA JobsOfTheOthers ==
  ASSUME NEW t, NEW s, t # s, NEW j, NEW B, j.picker = s, \A k \in B : k.picker = s, jobs' = (jobs \ {j}) \cup B
  PROVE  JobsOf(t)' = JobsOf(t)
BY DEF JobsOf

LEMMA JobsOfItsOwn ==
  ASSUME NEW s, NEW j, NEW B, JobsOf(s) = {j}, \A k \in B : k.picker = s, jobs' = (jobs \ {j}) \cup B
  PROVE  JobsOf(s)' = B
BY DEF JobsOf

\* The handler of an undisturbed picker is its only one.
LEMMA AtWork ==
  ASSUME FormsBase, NEW j \in jobs, j.picker \notin disturbed
  PROVE  Underway(j.picker, j)
<1>1. Replaced(j.picker) /\ j \in JobsOf(j.picker)
  BY DEF FormsBase, FormsInv, ShapeInv, Registered, JobsOf
<1>2. PICK k \in jobs : Underway(j.picker, k)
  BY <1>1 DEF Replaced, Calm
<1>3. k = j
  BY <1>1, <1>2 DEF Underway
<1>4. QED BY <1>2, <1>3

\* A step of a handler concerns its own picker.
LEMMA OneHandler ==
  ASSUME FormsBase, NEW j \in jobs, NEW B, \A k \in B : k.picker = j.picker, jobs' = (jobs \ {j}) \cup B,
         DOMAIN pickers' = DOMAIN pickers, disturbed \subseteq disturbed',
         \A t \in DOMAIN pickers : t # j.picker => pickers'[t].form = pickers[t].form,
         DOMAIN forms \subseteq DOMAIN forms', \A i \in DOMAIN forms : forms'[i].picker = forms[i].picker,
         \A i \in DOMAIN forms : forms[i].picker # j.picker => forms'[i].shown = forms[i].shown,
         \A i \in DOMAIN forms' \ DOMAIN forms : forms'[i].picker = j.picker,
         \A t : t # j.picker => (Used(t)' <=> Used(t)),
         pickers'[j.picker].form \in Own(j.picker)',
         \A k \in B : k.previous \in Own(j.picker)' /\ (k.at \in {"first", "turn"} => k.form \in Own(j.picker)'),
         j.picker \notin disturbed' => Replaced(j.picker)'
  PROVE  FormsInv'
<1>1. FormsAreOwn'
  <2>1. \A t \in DOMAIN pickers' : pickers'[t].form = NoForm
          \/ (t \in DOMAIN pickers /\ pickers'[t].form = pickers[t].form) \/ pickers'[t].form \in Own(t)'
    <3> TAKE t \in DOMAIN pickers'
    <3>1. CASE t = j.picker
      BY <3>1
    <3>2. CASE t # j.picker
      BY <3>2
    <3>3. QED BY <3>1, <3>2
  <2>2. \A k \in jobs' : k \in jobs \/ (/\ k.previous \in Own(k.picker)'
                                        /\ k.at \in {"first", "turn"} => k.form \in Own(k.picker)')
    <3> TAKE k \in jobs'
    <3>1. CASE k \in B
      <4>1. k.picker = j.picker
        BY <3>1
      <4>2. QED BY <3>1, <4>1
    <3>2. QED BY <3>1
  <2>3. QED BY <2>1, <2>2, OwnFrame DEF FormsBase, FormsInv
<1>2. ASSUME NEW t \in DOMAIN pickers, t # j.picker PROVE Replaced(t)'
  <2>1. Replaced(t)
    BY DEF FormsBase, FormsInv
  <2>2. Shown(t)' = Shown(t)
    BY <1>2 DEF Shown
  <2>3. JobsOf(t)' = JobsOf(t)
    BY <1>2, JobsOfTheOthers
  <2>4. Used(t)' <=> Used(t)
    BY <1>2
  <2>5. QED BY <1>2, <2>1, <2>2, <2>3, <2>4, ReplacedFrame
<1>3. Replaced(j.picker)'
  BY DEF Replaced
<1>4. \A t \in DOMAIN pickers' : Replaced(t)'
  <2> SUFFICES ASSUME NEW t \in DOMAIN pickers' PROVE Replaced(t)'
    OBVIOUS
  <2>1. CASE t = j.picker
    BY <1>3, <2>1
  <2>2. QED BY <1>2, <2>1
<1>5. QED BY <1>1, <1>4 DEF FormsInv

\* The new form stands beside the former one ...
LEMMA FormsLands ==
  ASSUME FormsBase, NEW j \in jobs, Lands(j)
  PROVE  FormsInv'
<1>n. PICK n : n = Len(forms) + 1
  OBVIOUS
<1>k. PICK k : k = [j EXCEPT !.form = n]
  OBVIOUS
<1>s. PICK s : s = j.picker
  OBVIOUS
<1> DEFINE F == [picker : Nat, shown : BOOLEAN]
           form == [picker |-> s, shown |-> TRUE]
<1>1. s \in DOMAIN pickers /\ s \in Nat
  BY <1>s, PickerShapes DEF FormsBase, ShapeInv, Registered
<1>2. /\ DOMAIN forms' = DOMAIN forms \cup {n} /\ n \notin DOMAIN forms /\ n \in Nat \ {0}
      /\ \A i \in DOMAIN forms : forms'[i] = forms[i]
      /\ forms'[n].picker = s /\ forms'[n].shown = TRUE
  <2>1. forms \in Seq(F) /\ forms' = Append(forms, form) /\ form \in F /\ form.picker = s /\ form.shown = TRUE
    BY <1>s, <1>1 DEF Lands, FormsBase, ShapeInv, PickerTypeOK
  <2> HIDE DEF F, form
  <2>2. QED BY <1>n, <2>1
<1>3. k.picker = s /\ k.at = j.at /\ k.previous = j.previous /\ k.form = n
  <2>1. j \in [picker : Nat, at : {"first", "turn"}, previous : Nat, form : Nat]
    BY JobShapes DEF Lands, FormsBase, ShapeInv
  <2>2. QED BY <1>k, <1>s, <2>1
<1>4. jobs' = (jobs \ {j}) \cup {k} /\ UNCHANGED <<pickers, disturbed, applied>> /\ j.at \in {"first", "turn"} /\ j.form = NoForm
  BY <1>n, <1>k DEF Lands
<1>5. Own(s) \subseteq Own(s)' /\ n \in Own(s)'
  BY <1>2 DEF Own
<1>6. j.previous \in Own(s) /\ pickers[s].form \in Own(s)
  BY <1>1, <1>s DEF FormsBase, FormsInv, FormsAreOwn
<1>7. ASSUME s \notin disturbed' PROVE Replaced(s)'
  <2>1. Underway(s, j)
    BY <1>4, <1>7, <1>s, AtWork
  <2>2. Turning(s, j) /\ JobsOf(s) = {j} /\ ~Used(s)
    BY <1>4, <2>1 DEF Underway, Clearing, Closing
  <2>3. JobsOf(s)' = {k}
    BY <1>3, <1>4, <2>2, JobsOfItsOwn
  <2>4. ~Used(s)'
    BY <1>4, <2>2 DEF Used
  <2>5. Shown(s)' = Shown(s) \cup {n}
    BY <1>2 DEF Shown
  <2>6. n # j.previous
    BY <1>2, <1>6 DEF Own, NoForm
  <2>7. Turning(s, k)'
    BY <1>2, <1>3, <1>4, <2>2, <2>5, <2>6 DEF Turning, NoForm
  <2>8. QED BY <1>4, <2>3, <2>4, <2>7 DEF Underway, Replaced
<1>8. \A t : t # j.picker => (Used(t)' <=> Used(t))
  BY <1>4 DEF Used
<1>B. PICK B : B = {k}
  OBVIOUS
<1>9. \A x \in B : /\ x.picker = s /\ x.previous \in Own(s)'
                   /\ x.at \in {"first", "turn"} => x.form \in Own(s)'
  BY <1>3, <1>5, <1>6, <1>B
<1>10. jobs' = (jobs \ {j}) \cup B /\ pickers'[s].form \in Own(s)'
  BY <1>4, <1>5, <1>6, <1>B
<1>11. /\ DOMAIN forms \subseteq DOMAIN forms' /\ \A i \in DOMAIN forms : forms'[i].picker = forms[i].picker
       /\ \A i \in DOMAIN forms : forms[i].picker # s => forms'[i].shown = forms[i].shown
       /\ \A i \in DOMAIN forms' \ DOMAIN forms : forms'[i].picker = s
  BY <1>2
<1>12. pickers' = pickers /\ disturbed' = disturbed
  BY <1>4
<1>13. /\ DOMAIN pickers' = DOMAIN pickers /\ disturbed \subseteq disturbed'
       /\ \A t \in DOMAIN pickers : t # j.picker => pickers'[t].form = pickers[t].form
  BY <1>12
<1>14. j.picker \notin disturbed' => Replaced(j.picker)'
  BY <1>7, <1>s
<1>15. /\ \A i \in DOMAIN forms : forms[i].picker # j.picker => forms'[i].shown = forms[i].shown
       /\ \A i \in DOMAIN forms' \ DOMAIN forms : forms'[i].picker = j.picker
       /\ pickers'[j.picker].form \in Own(j.picker)'
       /\ \A x \in B : x.picker = j.picker
  BY <1>9, <1>10, <1>11, <1>s
<1>16. \A x \in B : x.previous \in Own(j.picker)' /\ (x.at \in {"first", "turn"} => x.form \in Own(j.picker)')
  BY <1>9, <1>s
<1>17. QED
  BY <1>8, <1>10, <1>11, <1>13, <1>14, <1>15, <1>16, OneHandler

\* ... and becomes the picker's; the former one goes next.
LEMMA FormsAnswered ==
  ASSUME FormsBase, NEW j \in jobs, Answered(j)
  PROVE  FormsInv'
<1>s. PICK s : s = j.picker
  OBVIOUS
<1>d. PICK d : d = Dropping(s, j.previous)
  OBVIOUS
<1>B. PICK B : B = IF j.previous = NoForm THEN {} ELSE {d}
  OBVIOUS
<1>1. s \in DOMAIN pickers /\ s \in Nat /\ j.form # NoForm /\ j.at \in {"first", "turn"}
  BY <1>s, PickerShapes DEF Answered, FormsBase, ShapeInv, Registered
<1>2. d.picker = s /\ d.at = "drop" /\ d.previous = j.previous
  BY <1>d DEF Dropping
<1>3. jobs' = (jobs \ {j}) \cup B /\ UNCHANGED <<forms, disturbed, applied>>
  BY <1>s, <1>d, <1>B DEF Answered
<1>4. /\ DOMAIN pickers' = DOMAIN pickers /\ pickers'[s].form = j.form
      /\ \A t \in DOMAIN pickers : t # s => pickers'[t] = pickers[t]
  <2> DEFINE k == [pickers[s] EXCEPT !.form = j.form]
  <2>1. k.form = j.form
    BY <1>1, PickerShapes DEF Picker, FormsBase, ShapeInv
  <2>2. pickers' = [pickers EXCEPT ![s] = k]
    BY <1>s DEF Answered, Adopted
  <2> HIDE DEF k
  <2>3. QED BY <1>1, <2>1, <2>2 DEF FormsBase, ShapeInv, PickerTypeOK
<1>5. Own(s)' = Own(s) /\ j.form \in Own(s) /\ j.previous \in Own(s)
  BY <1>1, <1>3, <1>s DEF Own, FormsBase, FormsInv, FormsAreOwn
<1>6. ASSUME s \notin disturbed' PROVE Replaced(s)'
  <2>1. Underway(s, j)
    BY <1>3, <1>6, <1>s, AtWork
  <2>2. Turning(s, j) /\ JobsOf(s) = {j} /\ ~Used(s)
    BY <1>1, <2>1 DEF Underway, Clearing, Closing
  <2>3. JobsOf(s)' = B
    BY <1>2, <1>3, <1>B, <2>2, JobsOfItsOwn
  <2>4. ~Used(s)' /\ Shown(s)' = Shown(s)
    BY <1>3, <2>2 DEF Used, Shown
  <2>5. Shown(s) = {j.previous, j.form} \ {NoForm} /\ j.form # j.previous
    BY <1>1, <2>2 DEF Turning
  <2>6. CASE j.previous = NoForm
    <3>1. Calm(s)'
      BY <1>1, <1>4, <1>B, <2>3, <2>4, <2>5, <2>6 DEF Calm
    <3>2. QED BY <3>1 DEF Replaced
  <2>7. CASE j.previous # NoForm
    <3>1. Clearing(s, d)'
      BY <1>1, <1>2, <1>4, <2>4, <2>5, <2>7 DEF Clearing
    <3>2. d \in jobs' /\ JobsOf(s)' = {d}
      BY <1>3, <1>B, <2>3, <2>7
    <3>3. QED BY <2>4, <3>1, <3>2 DEF Underway, Replaced
  <2>8. QED BY <2>6, <2>7
<1>7. \A t : t # j.picker => (Used(t)' <=> Used(t))
  BY <1>3 DEF Used
<1>8. \A k \in B : /\ k.picker = s /\ k.previous \in Own(s)'
                   /\ k.at \in {"first", "turn"} => k.form \in Own(s)'
  <2>1. \A k \in B : k = d
    BY <1>B
  <2>2. QED BY <1>2, <1>5, <2>1
<1>9. QED
  BY <1>1, <1>3, <1>4, <1>5, <1>6, <1>7, <1>8, <1>s, OneHandler

\* A picker with a call that failed is disturbed.
LEMMA FormsFails ==
  ASSUME FormsBase, NEW j \in jobs, UNCHANGED <<pickers, forms>>,
         jobs' = jobs \ {j}, disturbed' = disturbed \cup {j.picker},
         \A t : t # j.picker => (Used(t)' <=> Used(t))
  PROVE  FormsInv'
<1>B. PICK B : B = {}
  OBVIOUS
<1>1. jobs' = (jobs \ {j}) \cup B
  BY <1>B
<1>2. pickers'[j.picker].form \in Own(j.picker)'
  BY DEF Own, FormsBase, FormsInv, FormsAreOwn, ShapeInv, Registered
<1>3. QED BY <1>1, <1>2, <1>B, OneHandler

\* A form that is deleted is out of sight.
LEMMA FormsDeleted ==
  ASSUME FormsBase, NEW j \in jobs, j.at \in {"drop", "apply"}, Deletes(j, TRUE),
         \A t : t # j.picker => (Used(t)' <=> Used(t)),
         Used(j.picker)' <=> (Used(j.picker) \/ j.at = "apply")
  PROVE  FormsInv'
<1>s. PICK s : s = j.picker
  OBVIOUS
<1>B. PICK B : B = {}
  OBVIOUS
<1>1. s \in DOMAIN pickers /\ j.previous \in Own(s) /\ pickers[s].form \in Own(s)
  BY <1>s DEF FormsBase, FormsInv, FormsAreOwn, ShapeInv, Registered
<1>2. jobs' = (jobs \ {j}) \cup B /\ UNCHANGED <<pickers, disturbed>>
  BY <1>B DEF Deletes
<1>3. /\ DOMAIN forms' = DOMAIN forms /\ \A i \in DOMAIN forms : forms'[i].picker = forms[i].picker
      /\ \A i \in DOMAIN forms : forms'[i].shown = (forms[i].shown /\ i # j.previous)
  <2> DEFINE F == [picker : Nat, shown : BOOLEAN]
             x == [forms[j.previous] EXCEPT !.shown = FALSE]
  <2>1. forms \in Seq(F) /\ \A i \in DOMAIN forms : forms[i].shown \in BOOLEAN
    <3>1. forms \in Seq(F)
      BY DEF FormsBase, ShapeInv, PickerTypeOK
    <3>2. \A i \in DOMAIN forms : forms[i] \in F
      <4> HIDE DEF F
      <4>1. QED BY <3>1
    <3>3. QED BY <3>1, <3>2
  <2>2. CASE j.previous = NoForm
    <3>1. forms' = forms /\ NoForm \notin DOMAIN forms
      <4>1. NoForm \notin DOMAIN forms
        <5> HIDE DEF F
        <5>1. QED BY <2>1 DEF NoForm
      <4>2. QED BY <2>2, <4>1 DEF Deletes
    <3>2. QED BY <2>1, <2>2, <3>1
  <2>3. CASE j.previous # NoForm
    <3>1. forms' = [forms EXCEPT ![j.previous] = x] /\ j.previous \in DOMAIN forms
      BY <1>1, <2>3 DEF Deletes, Own
    <3>2. forms[j.previous] \in F
      <4> HIDE DEF F, x
      <4>1. QED BY <2>1, <3>1
    <3>3. x.picker = forms[j.previous].picker /\ x.shown = FALSE
      BY <3>2
    <3> HIDE DEF F, x
    <3>4. DOMAIN forms' = DOMAIN forms /\ \A i \in DOMAIN forms : forms'[i] = IF i = j.previous THEN x ELSE forms[i]
      BY <2>1, <3>1
    <3>5. QED BY <2>1, <3>3, <3>4
  <2>4. QED BY <2>2, <2>3
<1>4. Own(s)' = Own(s)
  BY <1>3 DEF Own
<1>5. ASSUME s \notin disturbed' PROVE Replaced(s)'
  <2>1. Underway(s, j) /\ JobsOf(s) = {j} /\ ~Used(s)
    BY <1>2, <1>5, <1>s, AtWork DEF Underway
  <2>2. Shown(s)' = Shown(s) \ {j.previous}
    BY <1>3 DEF Shown
  <2>3. JobsOf(s)' = {}
    BY <1>2, <1>B, <2>1, <1>s, JobsOfItsOwn
  <2>4. Shown(s)' = IF j.at = "apply" THEN {} ELSE {pickers[s].form}
    <3>1. CASE j.at = "apply"
      BY <2>1, <2>2, <3>1 DEF Underway, Turning, Clearing, Closing
    <3>2. CASE j.at = "drop"
      BY <2>1, <2>2, <3>2 DEF Underway, Turning, Clearing, Closing
    <3>3. QED BY <3>1, <3>2
  <2>5. Used(s)' <=> j.at = "apply"
    BY <2>1, <1>s
  <2>6. Calm(s)'
    BY <1>2, <2>3, <2>4, <2>5 DEF Calm
  <2>7. QED BY <2>6 DEF Replaced
<1>6. QED
  <2>1. \A i \in DOMAIN forms : forms[i].picker # j.picker => forms'[i].shown = forms[i].shown
    <3> TAKE i \in DOMAIN forms
    <3>1. forms[i].picker # j.picker => i # j.previous
      <4>1. i # NoForm
        BY DEF FormsBase, ShapeInv, PickerTypeOK, NoForm
      <4>2. QED BY <1>1, <1>s, <4>1 DEF Own
    <3>2. forms[i].shown \in BOOLEAN
      <4> DEFINE F == [picker : Nat, shown : BOOLEAN]
      <4>1. forms \in Seq(F)
        BY DEF FormsBase, ShapeInv, PickerTypeOK
      <4>2. forms[i] \in F
        <5> HIDE DEF F
        <5>1. QED BY <4>1
      <4>3. QED BY <4>2
    <3>3. QED BY <1>3, <3>1, <3>2
  <2>2. QED BY <1>1, <1>2, <1>3, <1>4, <1>5, <2>1, <1>s, <1>B, OneHandler

\* A step that touches neither handlers nor forms.
LEMMA FormsQuiet ==
  ASSUME FormsInv, UNCHANGED <<forms, jobs, applied, disturbed>>, DOMAIN pickers' = DOMAIN pickers,
         \A t \in DOMAIN pickers : pickers'[t].form = pickers[t].form
  PROVE  FormsInv'
<1>1. FormsAreOwn'
  BY OwnFrame DEF FormsInv
<1>2. ASSUME NEW t \in DOMAIN pickers PROVE Replaced(t)'
  BY ReplacedFrame DEF FormsInv, JobsOf, Shown, Used
<1>3. \A t \in DOMAIN pickers' : Replaced(t)'
  <2> SUFFICES ASSUME NEW t \in DOMAIN pickers' PROVE Replaced(t)'
    OBVIOUS
  <2>1. QED BY <1>2
<1>4. QED BY <1>1, <1>3 DEF FormsInv

\* A click that starts a handler of an unused picker: of a calm one, with its form
\* on show, or it disturbs the handler that waits.
LEMMA FormsStarts ==
  ASSUME FormsBase, NEW t \in DOMAIN pickers, NEW j, j.picker = t, j.previous = pickers[t].form,
         (j.at = "turn" /\ j.form = NoForm) \/ j.at = "apply",
         Starts(j), ~Used(t), UNCHANGED <<forms, applied>>, DOMAIN pickers' = DOMAIN pickers,
         \A x \in DOMAIN pickers : pickers'[x].form = pickers[x].form
  PROVE  FormsInv'
<1>1. jobs' = jobs \cup {j} /\ disturbed \subseteq disturbed'
  BY DEF Starts
<1>2. \A x : Own(x)' = Own(x)
  BY DEF Own
<1>3. FormsAreOwn'
  <2>1. j.previous \in Own(j.picker)' /\ (j.at \in {"first", "turn"} => j.form \in Own(j.picker)')
    <3>1. pickers[t].form \in Own(t) /\ NoForm \in Own(t)
      BY DEF FormsBase, FormsInv, FormsAreOwn, Own
    <3>2. QED BY <1>2, <3>1
  <2>2. QED BY <1>1, <2>1, OwnFrame DEF FormsBase, FormsInv
<1>4. ASSUME NEW x \in DOMAIN pickers, x # t PROVE Replaced(x)'
  <2>1. Replaced(x) /\ JobsOf(x)' = JobsOf(x)
    BY <1>1, <1>4, JobsOfAnother DEF FormsBase, FormsInv
  <2>2. QED BY <1>1, <2>1, ReplacedFrame DEF Shown, Used
<1>5. Replaced(t)'
  <2>1. CASE t \in disturbed'
    BY <2>1 DEF Replaced
  <2>2. CASE t \notin disturbed'
    <3>1. JobsOf(t) = {} /\ t \notin disturbed
      BY <2>2 DEF Starts, JobsOf
    <3>2. JobsOf(t)' = {j} /\ j \in jobs'
      BY <1>1, <3>1 DEF JobsOf
    <3>3. Calm(t)
      <4>1. Replaced(t)
        BY DEF FormsBase, FormsInv
      <4>2. QED BY <3>1, <4>1 DEF Replaced, Underway
    <3>4. Shown(t) = {pickers[t].form} /\ ~Used(t)' /\ Shown(t)' = Shown(t)
      BY <3>3 DEF Calm, Used, Shown
    <3>5. pickers[t].form # NoForm
      <4>1. NoForm \notin DOMAIN forms
        BY DEF FormsBase, ShapeInv, PickerTypeOK, NoForm
      <4>2. QED BY <3>4, <4>1 DEF Shown
    <3>6. Turning(t, j)' \/ Closing(t, j)'
      BY <3>4, <3>5 DEF Turning, Closing
    <3>7. QED BY <3>2, <3>4, <3>6 DEF Underway, Replaced
  <2>3. QED BY <2>1, <2>2
<1>6. \A x \in DOMAIN pickers' : Replaced(x)'
  <2> SUFFICES ASSUME NEW x \in DOMAIN pickers' PROVE Replaced(x)'
    OBVIOUS
  <2>1. QED BY <1>4, <1>5
<1>7. QED BY <1>3, <1>6 DEF FormsInv

LEMMA FormsClick ==
  ASSUME FormsBase, NEW p \in Person, NEW t \in DOMAIN pickers, NEW deed \in Deed, Click(p, t, deed)
  PROVE  FormsInv'
<1>1. UNCHANGED <<forms, applied>>
  BY DEF Click
<1>2. DOMAIN pickers' = DOMAIN pickers /\ \A x \in DOMAIN pickers : pickers'[x].form = pickers[x].form
  <2>1. pickers' = pickers \/ pickers' = Bound(t, p)
    BY DEF Click
  <2>2. QED BY <2>1, BoundShape DEF FormsBase, ShapeInv
<1>3. CASE UNCHANGED <<jobs, disturbed>>
  BY <1>1, <1>2, <1>3, FormsQuiet DEF FormsBase
<1>4. ASSUME Live(Asks(t, deed), t) PROVE ~Used(t)
  <2>1. Asks(t, deed) \in Family
    BY PickerShapes DEF Asks, Family, Picker, FormsBase, ShapeInv
  <2>2. \A c \in Chosen : c.picker # t
    BY <1>4, <2>1 DEF Live, Chosen
  <2>3. QED BY <2>2 DEF Used, FormsBase, SpentOnce
<1>5. CASE Live(Asks(t, deed), t) /\ Starts(Posting(t, "turn", pickers[t].form))
  <2>j. PICK j : j = Posting(t, "turn", pickers[t].form)
    OBVIOUS
  <2>1. j.picker = t /\ j.previous = pickers[t].form /\ j.at = "turn" /\ j.form = NoForm
    BY <2>j DEF Posting
  <2>2. Starts(j)
    BY <1>5, <2>j
  <2>3. QED BY <1>1, <1>2, <1>4, <1>5, <2>1, <2>2, FormsStarts
<1>6. CASE Live(Asks(t, deed), t) /\ Starts(Applying(t, p, pickers[t].form))
  <2>j. PICK j : j = Applying(t, p, pickers[t].form)
    OBVIOUS
  <2>1. j.picker = t /\ j.previous = pickers[t].form /\ j.at = "apply"
    BY <2>j DEF Applying
  <2>2. Starts(j)
    BY <1>6, <2>j
  <2>3. QED BY <1>1, <1>2, <1>4, <1>6, <2>1, <2>2, FormsStarts
<1>7. QED BY <1>3, <1>5, <1>6 DEF Click

LEMMA FormsStep ==
  ASSUME FormsBase, [Next]_vars
  PROVE  FormsInv'
<1>1. ASSUME UNCHANGED <<pickers, forms, jobs, applied, disturbed>> PROVE FormsInv'
  BY <1>1, FormsQuiet DEF FormsBase
<1>2. ASSUME NEW f \in Family, HostOpensAlone(f) PROVE FormsInv'
  BY <1>2, FormsBegin DEF HostOpensAlone, FormsBase, ShapeInv, PickerTypeOK
<1>3. ASSUME NEW f \in Family, NEW a \in asked, HostOpens(a, f) PROVE FormsInv'
  <2>1. a.by \in Person
    BY DEF FormsBase, ShapeInv, PickerTypeOK
  <2>2. QED BY <1>3, <2>1, FormsBegin DEF HostOpens, FormsBase, ShapeInv, PickerTypeOK
<1>4. ASSUME NEW p \in Person, PickModel(p) PROVE FormsInv'
  BY <1>4, FormsBegin DEF PickModel, Family
<1>5. ASSUME NEW j \in jobs, PostFails(j) PROVE FormsInv'
  BY <1>5, FormsFails DEF PostFails, Used
<1>6. ASSUME NEW j \in jobs, NEW ok \in BOOLEAN, Dropped(j, ok) PROVE FormsInv'
  <2>1. applied' = applied /\ j.at = "drop" /\ Deletes(j, ok)
    BY <1>6 DEF Dropped
  <2>2. \A t : Used(t)' <=> Used(t)
    BY <2>1 DEF Used
  <2>3. CASE ok
    <3>1. Deletes(j, TRUE)
      BY <2>1, <2>3
    <3>2. QED BY <2>1, <2>2, <3>1, FormsDeleted
  <2>4. CASE ~ok
    BY <2>1, <2>2, <2>4, FormsFails DEF Deletes
  <2>5. QED BY <2>3, <2>4
<1>7. ASSUME NEW j \in jobs, NEW ok \in BOOLEAN, Applies(j, ok) PROVE FormsInv'
  <2> DEFINE A == [picker : Nat, by : Person, time : Nat]
             x == [picker |-> j.picker, by |-> j.by, time |-> j.time]
  <2>1. applied' = Append(applied, x) /\ applied \in Seq(A) /\ x.picker = j.picker
    BY <1>7 DEF Applies, FormsBase, ShapeInv, PickerTypeOK
  <2>2. /\ DOMAIN applied' = DOMAIN applied \cup {Len(applied) + 1}
        /\ \A i \in DOMAIN applied : applied'[i] = applied[i]
        /\ applied'[Len(applied) + 1].picker = j.picker
    <3> HIDE DEF A, x
    <3>1. QED BY <2>1
  <2>3. (\A t : t # j.picker => (Used(t)' <=> Used(t))) /\ Used(j.picker)'
    BY <2>2 DEF Used
  <2>4. j.at = "apply" /\ Deletes(j, ok)
    BY <1>7 DEF Applies
  <2>5. CASE ok
    <3>1. Deletes(j, TRUE)
      BY <2>4, <2>5
    <3>2. QED BY <2>3, <2>4, <3>1, FormsDeleted
  <2>6. CASE ~ok
    BY <2>3, <2>4, <2>6, FormsFails DEF Deletes
  <2>7. QED BY <2>5, <2>6
<1>8. ASSUME NEW p \in Person, NEW deed \in Deed, NEW i \in DOMAIN forms, Click(p, forms[i].picker, deed)
      PROVE FormsInv'
  BY <1>8, FormsClick DEF FormsBase, ShapeInv, Registered
<1>9. QED
  BY <1>1, <1>2, <1>3, <1>4, <1>5, <1>6, <1>7, <1>8, FormsLands, FormsAnswered
  DEF Next, vars, Note, HostDeclines, Tick

-----------------------------------------------------------------------------
(* Every choice is on a page that can be reached. *)

\* Division.
LEMMA Division ==
  ASSUME NEW a \in Nat, NEW b \in Nat \ {0}
  PROVE  a \div b \in Nat /\ b * (a \div b) <= a /\ a < b * (a \div b) + b
OBVIOUS

LEMMA Times ==
  ASSUME NEW b \in Nat \ {0}, NEW c \in Nat, NEW d \in Nat, b * c < b * d
  PROVE  c < d
OBVIOUS

\* What is on offer lies on the pages that are counted.
LEMMA PagesCount ==
  ASSUME NEW n \in Nat, NEW size \in Nat \ {0}
  PROVE  /\ PageCount(n, size) \in Nat /\ (n > 0 => PageCount(n, size) > 0)
         /\ \A i \in 0..(n - 1) : i \div size \in 0..(PageCount(n, size) - 1)
<1> DEFINE p == PageCount(n, size)
<1>1. p \in Nat /\ n + size - 1 < size * p + size
  BY Division DEF PageCount
<1>2. n <= size * p /\ size * p \in Nat
  BY <1>1
<1>3. n > 0 => p > 0
  BY <1>1, <1>2
<1> HIDE DEF p
<1>4. ASSUME NEW i \in 0..(n - 1) PROVE i \div size \in 0..(p - 1)
  <2>1. i \in Nat /\ i < n
    OBVIOUS
  <2>2. i \div size \in Nat /\ size * (i \div size) <= i
    BY <2>1, Division
  <2>3. PICK d : d = i \div size
    OBVIOUS
  <2>4. size * d < size * p
    BY <1>2, <2>1, <2>2, <2>3
  <2>5. d < p
    BY <1>1, <2>2, <2>3, <2>4, Times
  <2>6. QED BY <1>1, <2>2, <2>3, <2>5
<1>5. QED BY <1>1, <1>3, <1>4 DEF p

\* A page that is counted is shown as it is.
LEMMA CountedPages ==
  ASSUME NEW n \in Nat, NEW size \in Nat \ {0}, NEW page \in 0..(PageCount(n, size) - 1)
  PROVE  Clamped(page, n, size) = page
BY PagesCount DEF Clamped

LEMMA FirstPages ==
  ASSUME NEW n \in Nat \ {0}, NEW size \in Nat \ {0}
  PROVE  0 \in 0..(PageCount(n, size) - 1)
BY PagesCount

\* The buttons that turn pages, seen from both sides.
LEMMA NeighbourPages ==
  ASSUME NEW kind, NEW at, NEW n \in Nat \ {0}, NEW size \in Nat \ {0}, NEW page \in 0..(PageCount(n, size) - 1),
         NEW q \in 1..page
  PROVE  Turn(View(kind, at, q)) \in Neighbours(View(kind, at, q - 1), n, size)
<1> DEFINE v == View(kind, at, q - 1)
<1>1. v.kind = kind /\ v.at = at /\ v.page = q - 1
  BY DEF View
<1>2. q \in 0..(PageCount(n, size) - 1) /\ q = v.page + 1
  <2>1. PageCount(n, size) \in Nat
    BY PagesCount
  <2>2. QED BY <1>1, <2>1
<1> HIDE DEF v
<1>3. Turn(View(v.kind, v.at, q)) \in Neighbours(v, n, size)
  BY <1>2 DEF Neighbours
<1>4. QED BY <1>1, <1>3 DEF v

LEMMA NeighbourButton ==
  ASSUME NEW kind, NEW at, NEW n, NEW size, NEW page, NEW r \in Neighbours(View(kind, at, page), n, size)
  PROVE  \E q \in 0..(PageCount(n, size) - 1) : r = Turn(View(kind, at, q))
<1> DEFINE v == View(kind, at, page)
<1>1. v.kind = kind /\ v.at = at
  BY DEF View
<1> HIDE DEF v
<1>2. r \in Neighbours(v, n, size)
  BY DEF v
<1>3. QED BY <1>1, <1>2 DEF Neighbours

LEMMA ListShapes ==
  ASSUME NEW l \in Lists
  PROVE  /\ l.family \in Family /\ Len(l.sizes) \in Nat \ {0}
         /\ \A i \in 0..(Len(l.sizes) - 1) : l.sizes[i + 1] \in Nat \ {0}
         /\ ProviderPage \in Nat \ {0} /\ ModelPage \in Nat \ {0} /\ ChoicePage \in Nat \ {0}
<1> DEFINE N == Nat \ {0}
<1>1. l \in [family : Family, sizes : Seq(N)] /\ Len(l.sizes) > 0
  BY PickerAssumption DEF ListShape
<1>2. l.sizes \in Seq(N)
  BY <1>1
<1>3. \A i \in 0..(Len(l.sizes) - 1) : l.sizes[i + 1] \in N
  <2> HIDE DEF N
  <2>1. QED BY <1>2
<1>4. QED BY <1>1, <1>2, <1>3, PickerAssumption

\* A selection of what is on offer is none that went astray.
LEMMA OnOffer ==
  ASSUME NEW l \in Lists, NEW at \in 0..(Len(l.sizes) - 1), NEW i \in 0..(l.sizes[at + 1] - 1)
  PROVE  Select(at, i).do = "select" /\ DeedOf(l, Select(at, i)) # "stray"
<1>1. Select(at, i).view.at = at /\ Select(at, i).view.page = i /\ Select(at, i).do = "select"
  BY DEF Select, View
<1>2. l.sizes[at + 1] \in Nat \ {0} /\ Len(l.sizes) \in Nat
  BY ListShapes
<1>3. at < Len(l.sizes) /\ i < l.sizes[at + 1]
  BY <1>2
<1>4. Offers(l, Select(at, i))
  BY <1>1, <1>3 DEF Offers
<1>5. QED BY <1>1, <1>4 DEF DeedOf

LEMMA CancelIsNoTurn ==
  ASSUME NEW l
  PROVE  Cancel.do = "cancel" /\ DeedOf(l, Cancel) # "stray"
BY DEF Cancel, DeedOf

\* A button that leads where it says, or does what it says.
Sound(l, r) == IF r.do = "turn" THEN Rendered(l, r.view) = r.view ELSE DeedOf(l, r) # "stray"

LEMMA TurnShape ==
  ASSUME NEW v
  PROVE  Turn(v).do = "turn" /\ Turn(v).view = v
BY DEF Turn

LEMMA ViewShape ==
  ASSUME NEW kind, NEW at, NEW page
  PROVE  View(kind, at, page).kind = kind /\ View(kind, at, page).at = at /\ View(kind, at, page).page = page
BY DEF View

\* Views that are shown as they are.
LEMMA ProviderViews ==
  ASSUME NEW l \in Lists, NEW q \in 0..(PageCount(Len(l.sizes), ProviderPage) - 1)
  PROVE  Sound(l, Turn(View("providers", 0, q)))
<1>1. Rendered(l, View("providers", 0, q)) = View("providers", 0, q)
  BY ViewShape, ListShapes, CountedPages DEF Rendered
<1>2. QED BY <1>1, TurnShape DEF Sound

LEMMA ModelViews ==
  ASSUME NEW l \in Lists, NEW at \in 0..(Len(l.sizes) - 1), NEW q \in 0..(PageCount(l.sizes[at + 1], ModelPage) - 1)
  PROVE  Sound(l, Turn(View("models", at, q)))
<1>v. PICK v : v = View("models", at, q)
  OBVIOUS
<1>1. v.kind = "models" /\ v.at = at /\ v.page = q /\ [v EXCEPT !.page = q] = v
  BY <1>v DEF View
<1>2. Clamped(q, l.sizes[at + 1], ModelPage) = q /\ at < Len(l.sizes)
  BY ListShapes, CountedPages
<1>3. Rendered(l, v) = [v EXCEPT !.page = Clamped(@, l.sizes[v.at + 1], ModelPage)]
  BY <1>1, <1>2 DEF Rendered
<1>4. Rendered(l, v) = v
  BY <1>1, <1>2, <1>3, <1>v DEF View
<1>5. QED BY <1>4, <1>v, TurnShape DEF Sound

LEMMA ChoiceViews ==
  ASSUME NEW l \in Lists, NEW q \in 0..(PageCount(l.sizes[1], ChoicePage) - 1)
  PROVE  Sound(l, Turn(View("choices", 0, q)))
<1>v. PICK v : v = View("choices", 0, q)
  OBVIOUS
<1>1. v.kind = "choices" /\ v.page = q
  BY <1>v DEF View
<1>2. l.sizes[1] \in Nat \ {0}
  BY ListShapes
<1>3. Clamped(q, l.sizes[1], ChoicePage) = q
  BY <1>2, ListShapes, CountedPages
<1>4. Rendered(l, v) = [v EXCEPT !.page = Clamped(@, l.sizes[1], ChoicePage)]
  BY <1>1 DEF Rendered
<1>5. Rendered(l, v) = v
  BY <1>1, <1>3, <1>4, <1>v DEF View
<1>6. QED BY <1>5, <1>v, TurnShape DEF Sound


LEMMA Reaching ==
  ASSUME NEW l, NEW v, \A q \in 1..v.page : Turn(View(v.kind, v.at, q)) \in Buttons(l, View(v.kind, v.at, q - 1)),
         \A r \in Buttons(l, v) : Sound(l, r)
  PROVE  Reached(l, v)
BY DEF Reached, Sound

\* The pages of the providers, of a provider's models, and of choices.
LEMMA ProvidersReached ==
  ASSUME NEW l \in Lists, NEW page \in 0..(PageCount(Len(l.sizes), ProviderPage) - 1)
  PROVE  Reached(l, View("providers", 0, page))
<1>v. PICK v : v = View("providers", 0, page)
  OBVIOUS
<1>n. PICK n : n = Len(l.sizes)
  OBVIOUS
<1>1. n \in Nat \ {0} /\ ProviderPage \in Nat \ {0}
  BY <1>n, ListShapes
<1>2. v.kind = "providers" /\ v.at = 0 /\ v.page = page
  BY <1>v, ViewShape
<1>3. \A q \in 1..page : Turn(View("providers", 0, q)) \in Buttons(l, View("providers", 0, q - 1))
  <2> TAKE q \in 1..page
  <2>1. Turn(View("providers", 0, q)) \in Neighbours(View("providers", 0, q - 1), n, ProviderPage)
    BY <1>1, <1>n, NeighbourPages
  <2>2. View("providers", 0, q - 1).kind = "providers"
    BY ViewShape
  <2>3. QED BY <1>n, <2>1, <2>2 DEF Buttons, ProviderButtons
<1>4. ASSUME NEW r \in Buttons(l, v) PROVE Sound(l, r)
  <2>1. r = Cancel \/ r \in ProviderButtons(l, v)
    BY <1>2 DEF Buttons
  <2>2. CASE r = Cancel
    BY <2>2, CancelIsNoTurn DEF Sound
  <2>3. ASSUME NEW i \in Window(page, n, ProviderPage), r = Turn(View("models", i, 0)) PROVE Sound(l, r)
    <3>1. i \in 0..(Len(l.sizes) - 1)
      BY <1>n DEF Window
    <3>2. 0 \in 0..(PageCount(l.sizes[i + 1], ModelPage) - 1)
      BY <3>1, ListShapes, FirstPages
    <3>3. QED BY <2>3, <3>1, <3>2, ModelViews
  <2>4. CASE r \in Neighbours(v, n, ProviderPage)
    <3>1. r \in Neighbours(View("providers", 0, page), n, ProviderPage)
      BY <1>v, <2>4
    <3>2. PICK q \in 0..(PageCount(n, ProviderPage) - 1) : r = Turn(View("providers", 0, q))
      BY <3>1, NeighbourButton
    <3>3. QED BY <1>n, <3>2, ProviderViews
  <2>5. QED BY <1>2, <1>n, <2>1, <2>2, <2>3, <2>4 DEF ProviderButtons
<1>5. QED BY <1>2, <1>3, <1>4, <1>v, Reaching

LEMMA ModelsReached ==
  ASSUME NEW l \in Lists, NEW at \in 0..(Len(l.sizes) - 1), NEW page \in 0..(PageCount(l.sizes[at + 1], ModelPage) - 1)
  PROVE  Reached(l, View("models", at, page))
<1>v. PICK v : v = View("models", at, page)
  OBVIOUS
<1>n. PICK n : n = l.sizes[at + 1]
  OBVIOUS
<1>1. n \in Nat \ {0} /\ ModelPage \in Nat \ {0}
  BY <1>n, ListShapes
<1>2. v.kind = "models" /\ v.at = at /\ v.page = page
  BY <1>v, ViewShape
<1>3. \A q \in 1..page : Turn(View("models", at, q)) \in Buttons(l, View("models", at, q - 1))
  <2> TAKE q \in 1..page
  <2>1. Turn(View("models", at, q)) \in Neighbours(View("models", at, q - 1), n, ModelPage)
    BY <1>1, <1>n, NeighbourPages
  <2>2. View("models", at, q - 1).kind = "models" /\ View("models", at, q - 1).at = at
    BY ViewShape
  <2>3. QED BY <1>n, <2>1, <2>2 DEF Buttons, ModelButtons
<1>4. ASSUME NEW r \in Buttons(l, v) PROVE Sound(l, r)
  <2>1. r = Cancel \/ r \in ModelButtons(l, v)
    BY <1>2 DEF Buttons
  <2>2. CASE r = Cancel
    BY <2>2, CancelIsNoTurn DEF Sound
  <2>3. ASSUME NEW i \in Window(page, n, ModelPage), r = Select(at, i) PROVE Sound(l, r)
    <3>1. i \in 0..(l.sizes[at + 1] - 1)
      BY <1>n DEF Window
    <3>2. QED BY <2>3, <3>1, OnOffer DEF Sound
  <2>4. CASE r \in Neighbours(v, n, ModelPage)
    <3>1. r \in Neighbours(View("models", at, page), n, ModelPage)
      BY <1>v, <2>4
    <3>2. PICK q \in 0..(PageCount(n, ModelPage) - 1) : r = Turn(View("models", at, q))
      BY <3>1, NeighbourButton
    <3>3. QED BY <1>n, <3>2, ModelViews
  <2>5. CASE r = Turn(View("providers", 0, 0))
    <3>1. 0 \in 0..(PageCount(Len(l.sizes), ProviderPage) - 1)
      BY ListShapes, FirstPages
    <3>2. QED BY <2>5, <3>1, ProviderViews
  <2>6. QED BY <1>2, <1>n, <2>1, <2>2, <2>3, <2>4, <2>5 DEF ModelButtons
<1>5. QED BY <1>2, <1>3, <1>4, <1>v, Reaching

LEMMA ChoicesReached ==
  ASSUME NEW l \in Lists, NEW page \in 0..(PageCount(l.sizes[1], ChoicePage) - 1)
  PROVE  Reached(l, View("choices", 0, page))
<1>v. PICK v : v = View("choices", 0, page)
  OBVIOUS
<1>n. PICK n : n = l.sizes[1]
  OBVIOUS
<1>1. n \in Nat \ {0} /\ ChoicePage \in Nat \ {0} /\ 0 \in 0..(Len(l.sizes) - 1)
  BY <1>n, ListShapes
<1>2. v.kind = "choices" /\ v.at = 0 /\ v.page = page
  BY <1>v, ViewShape
<1>3. \A q \in 1..page : Turn(View("choices", 0, q)) \in Buttons(l, View("choices", 0, q - 1))
  <2> TAKE q \in 1..page
  <2>1. Turn(View("choices", 0, q)) \in Neighbours(View("choices", 0, q - 1), n, ChoicePage)
    BY <1>1, <1>n, NeighbourPages
  <2>2. View("choices", 0, q - 1).kind = "choices"
    BY ViewShape
  <2>3. QED BY <1>n, <2>1, <2>2 DEF Buttons, ChoiceButtons
<1>4. ASSUME NEW r \in Buttons(l, v) PROVE Sound(l, r)
  <2>1. r = Cancel \/ r \in ChoiceButtons(l, v)
    BY <1>2 DEF Buttons
  <2>2. CASE r = Cancel
    BY <2>2, CancelIsNoTurn DEF Sound
  <2>3. ASSUME NEW i \in Window(page, n, ChoicePage), r = Select(0, i) PROVE Sound(l, r)
    <3>1. i \in 0..(l.sizes[0 + 1] - 1)
      BY <1>n DEF Window
    <3>2. QED BY <1>1, <2>3, <3>1, OnOffer DEF Sound
  <2>4. CASE r \in Neighbours(v, n, ChoicePage)
    <3>1. r \in Neighbours(View("choices", 0, page), n, ChoicePage)
      BY <1>v, <2>4
    <3>2. PICK q \in 0..(PageCount(n, ChoicePage) - 1) : r = Turn(View("choices", 0, q))
      BY <3>1, NeighbourButton
    <3>3. QED BY <1>n, <3>2, ChoiceViews
  <2>5. QED BY <1>2, <1>n, <2>1, <2>2, <2>3, <2>4 DEF ChoiceButtons
<1>5. QED BY <1>2, <1>3, <1>4, <1>v, Reaching

\* Whatever the list, every choice has a page, and every page is reached.
LEMMA EveryListIsReachable ==
  ASSUME NEW l \in Lists
  PROVE  Reachable(l)
<1>1. CASE l.family = "choice"
  <2>1. ASSUME NEW i \in 0..(l.sizes[1] - 1)
        PROVE  LET v == [FirstView(l) EXCEPT !.page = i \div ChoicePage] IN
               Select(0, i) \in Buttons(l, v) /\ Reached(l, v)
    <3>p. PICK p : p = i \div ChoicePage
      OBVIOUS
    <3>1. [FirstView(l) EXCEPT !.page = p] = View("choices", 0, p)
      BY <1>1 DEF FirstView, View
    <3>2. p \in 0..(PageCount(l.sizes[1], ChoicePage) - 1)
      <4>1. l.sizes[1] \in Nat /\ ChoicePage \in Nat \ {0}
        BY ListShapes
      <4>2. QED BY <3>p, <4>1, PagesCount
    <3>3. Reached(l, View("choices", 0, p))
      BY <3>2, ChoicesReached
    <3>4. View("choices", 0, p).kind = "choices" /\ i \in Window(p, l.sizes[1], ChoicePage)
                                                 /\ View("choices", 0, p).page = p
      BY <3>p, ViewShape DEF Window
    <3>5. Select(0, i) \in Buttons(l, View("choices", 0, p))
      BY <3>4 DEF Buttons, ChoiceButtons
    <3>6. QED BY <3>1, <3>3, <3>5, <3>p
  <2>2. QED BY <1>1, <2>1 DEF Reachable
<1>2. CASE l.family # "choice"
  <2>1. ASSUME NEW i \in 0..(Len(l.sizes) - 1)
        PROVE  LET v == [FirstView(l) EXCEPT !.page = i \div ProviderPage] IN
               Turn(View("models", i, 0)) \in Buttons(l, v) /\ Reached(l, v)
    <3>p. PICK p : p = i \div ProviderPage
      OBVIOUS
    <3>1. [FirstView(l) EXCEPT !.page = p] = View("providers", 0, p)
      BY <1>2 DEF FirstView, View
    <3>2. p \in 0..(PageCount(Len(l.sizes), ProviderPage) - 1)
      <4>1. Len(l.sizes) \in Nat /\ ProviderPage \in Nat \ {0}
        BY ListShapes
      <4>2. QED BY <3>p, <4>1, PagesCount
    <3>3. Reached(l, View("providers", 0, p))
      BY <3>2, ProvidersReached
    <3>4. View("providers", 0, p).kind = "providers" /\ i \in Window(p, Len(l.sizes), ProviderPage)
                                                     /\ View("providers", 0, p).page = p
      BY <3>p, ViewShape DEF Window
    <3>5. Turn(View("models", i, 0)) \in Buttons(l, View("providers", 0, p))
      BY <3>4 DEF Buttons, ProviderButtons
    <3>6. QED BY <3>1, <3>3, <3>5, <3>p
  <2>2. ASSUME NEW at \in 0..(Len(l.sizes) - 1), NEW i \in 0..(l.sizes[at + 1] - 1)
        PROVE  LET m == View("models", at, i \div ModelPage) IN
               Select(at, i) \in Buttons(l, m) /\ Reached(l, m)
    <3>p. PICK p : p = i \div ModelPage
      OBVIOUS
    <3>1. p \in 0..(PageCount(l.sizes[at + 1], ModelPage) - 1)
      <4>1. l.sizes[at + 1] \in Nat /\ ModelPage \in Nat \ {0}
        BY ListShapes
      <4>2. QED BY <3>p, <4>1, PagesCount
    <3>2. Reached(l, View("models", at, p))
      BY <3>1, ModelsReached
    <3>3. /\ View("models", at, p).kind = "models" /\ View("models", at, p).at = at
          /\ i \in Window(p, l.sizes[at + 1], ModelPage) /\ View("models", at, p).page = p
      BY <3>p, ViewShape DEF Window
    <3>4. Select(at, i) \in Buttons(l, View("models", at, p))
      BY <3>3 DEF Buttons, ModelButtons
    <3>5. QED BY <3>2, <3>4, <3>p
  <2>3. QED BY <1>2, <2>1, <2>2 DEF Reachable
<1>3. QED BY <1>1, <1>2

-----------------------------------------------------------------------------
(* Theorems *)

LEMMA PickInit == Init => PickInv
<1> SUFFICES ASSUME Init PROVE PickInv
  OBVIOUS
<1>1. NoteIsTheAskers /\ PickersBelongToTheirAskers /\ SpentOnce
  BY DEF Init, NoteIsTheAskers, PickersBelongToTheirAskers, SpentOnce, Selecting
<1>2. QED BY <1>1, ShapeInit DEF PickInv

LEMMA PickIsInvariant == Spec => []PickInv
<1>1. PickInv /\ [Next]_vars => PickInv'
  BY ShapeStep, AskersStep, SpentStep DEF PickInv
<1>2. QED BY <1>1, PickInit, PTL DEF Spec

\* The type invariant of the registries, the forms and the handlers.
THEOREM PickerTypes == Spec => []PickerTypeOK
<1>1. PickInv => PickerTypeOK
  BY DEF PickInv, ShapeInv
<1>2. QED BY <1>1, PickIsInvariant, PTL

\* Clicks, page turns, expiry and failures in any order: a picker changes
\* something at most once, for the one it is bound to, before it lapsed.
THEOREM PickersAreSpentOnce == Spec => []SelectionsAreSingle
<1>1. PickInv => SelectionsAreSingle
  BY DEF PickInv, SpentOnce, Chosen, SelectionsAreSingle
<1>2. QED BY <1>1, PickIsInvariant, PTL

\* Unless two commands of a chat are on their way together, a picker belongs to
\* whoever asked for it, from its opening to its end.
THEOREM AskersOwnTheirPickers == Spec => []PickersBelongToTheirAskers
<1>1. PickInv => PickersBelongToTheirAskers
  BY DEF PickInv
<1>2. QED BY <1>1, PickIsInvariant, PTL

LEMMA FormsInit == Init => FormsInv
BY DEF Init, FormsInv, FormsAreOwn

LEMMA FormsIsInvariant == Spec => []FormsInv
<1>1. Init => FormsInv
  BY FormsInit
<1>2. PickInv /\ FormsInv /\ [Next]_vars => FormsInv'
  BY FormsStep DEF FormsBase, PickInv
<1>3. QED BY <1>1, <1>2, PickIsInvariant, PTL DEF Spec

\* Clicks, page turns, answers, failures and expiry in any order: when nothing is
\* under way, a picker that nothing disturbed shows one form, the one it will
\* delete, and none once it was used.
THEOREM FormsReplaceEachOther == Spec => []FormsAreReplaced
<1>1. FormsInv => FormsAreReplaced
  <2> SUFFICES ASSUME FormsInv, NEW t \in DOMAIN pickers, t \notin disturbed, \A j \in jobs : j.picker # t
               PROVE  Shown(t) = IF \E i \in DOMAIN applied : applied[i].picker = t THEN {} ELSE {pickers[t].form}
    BY DEF FormsAreReplaced
  <2>1. Calm(t)
    BY DEF FormsInv, Replaced, Underway, JobsOf
  <2>2. QED BY <2>1 DEF Calm, Used
<1>2. QED BY <1>1, FormsIsInvariant, PTL

\* Whatever list a picker was opened with, every choice can be reached from its
\* first form by turning pages, every button leads to the page it names, and none
\* of them selects what is not there.
THEOREM PagesLeadEverywhere == Spec => []EveryModelIsAPageAway
<1>1. PickerTypeOK => EveryModelIsAPageAway
  <2> SUFFICES ASSUME PickerTypeOK, NEW t \in DOMAIN pickers PROVE pickers[t].family \in Complete
    BY DEF EveryModelIsAPageAway
  <2>1. pickers[t].family \in Family
    BY PickerShapes DEF Picker
  <2>2. QED BY <2>1, EveryListIsReachable DEF Complete
<1>2. QED BY <1>1, PickerTypes, PTL

=============================================================================
