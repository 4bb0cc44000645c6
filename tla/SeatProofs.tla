----------------------------- MODULE SeatProofs -----------------------------
(***************************************************************************)
(* What devices and a host window say, on its way to the desktop.          *)
(*                                                                         *)
(* Seat: whatever the keys, the bindings, the surfaces and the order of    *)
(* what the host says, the main world and the protocol world agree about   *)
(* the pressed keys, although one follows them as a frame begins and the   *)
(* other event by event as it ends; no client is told of half a shortcut,  *)
(* and nothing is held by keys that are up.                                *)
(*                                                                         *)
(* Pointer: what hands moved is panned or moves the pointer, once, and the *)
(* pointer ends on the output that has the focus.                          *)
(*                                                                         *)
(* NestedWindow: the output takes the size of the host window whatever     *)
(* crossed on the way, motions have an origin, and presentation times do   *)
(* not go back.                                                            *)
(***************************************************************************)
EXTENDS Input, TLAPS, SequenceTheorems, WellFoundedInduction, FiniteSetTheorems

-----------------------------------------------------------------------------
(* The inductive invariant.                                                *)

Same(p, q) == p.held = q.held /\ p.mods = q.mods
Loss == FocusEvent(FALSE)
Lost(q, n) == \E i \in 1 .. n : q[i] = Loss
Press(e) == e.kind = "key" /\ e.down

\* A press that is heard was not heard before, if what was heard then is to be relied on.
Fresh(p, q, known) ==
  \A i \in DOMAIN q :
    Press(q[i]) /\ (known \/ Lost(q, i - 1)) => q[i].key \notin HeardAll(p, SubSeq(q, 1, i - 1)).held

\* The queues of the frame, by what runs next.
Turns ==
  /\ stage = "poll" => frame = <<>>
  /\ stage # "poll" => queue = <<>> /\ active = wasActive
  /\ host = "tty" =>
       /\ \A i \in DOMAIN queue : queue[i].kind = "key"
       /\ Lost(frame, Len(frame)) => frame = <<Loss>>
       /\ stage = "poll" /\ ~active /\ ~wasActive /\ ~lapse => queue = <<>>

\* No shortcut is bound to nothing, and only those in Ending wait for a key to go up.
BindingsTrue ==
  \A id \in DOMAIN compiled :
    /\ compiled[id].key = None => compiled[id].mods # {}
    /\ Trigger[id] # "press" => compiled[id].key \in Ending \cup {None}

\* A host window tells of everything while it has the focus, a session unless it was switched
\* to and fro unnoticed.
Known == host = "window" \/ ~lapse

\* What will have been heard is down, and nothing is while the host has the focus elsewhere.
HeardTrue ==
  /\ stage = "poll" /\ Known =>
       HeardAll(keys, Coming).held \subseteq physical /\ Fresh(keys, Coming, TRUE)
  /\ stage = "main" /\ (Known \/ Lost(frame, Len(frame))) =>
       HeardAll(keys, frame).held \subseteq physical /\ Fresh(keys, frame, TRUE)
  /\ stage = "present" /\ (Known \/ Lost(frame, Len(frame))) => keys.held \subseteq physical
IdleTrue ==
  /\ stage = "poll" /\ host = "window" /\ ~active => HeardAll(keys, queue).held = {}
  /\ stage = "poll" /\ host = "tty" /\ ~wasActive => keys.held = {}
  /\ stage = "main" /\ ~active => HeardAll(keys, frame).held = {}
  /\ stage = "present" /\ ~active => keys.held = {}

\* The protocol world is where the main world was before the frame.
FilterTrue ==
  /\ stage # "present" /\ ~lapse => Same(keys, filter.keys)
  /\ stage = "present" /\ (~lapse \/ Lost(frame, Len(frame))) =>
       Same(keys, HeardAll(filter.keys, frame))
  /\ stage = "present" => Fresh(filter.keys, frame, ~lapse)

\* Modifiers are held by keys, and the shortcuts that hold are those of the keys.
ModsHeld(p) == p.mods \subseteq {ModifierOf[k] : k \in p.held} \ {None}
HoldsTrue ==
  /\ ModsHeld(keys)
  /\ on = {id \in DOMAIN compiled : Holds(keys, compiled[id])}

\* What fired did so by what the filter is about to go by as well; a configuration that compiles
\* and was not changed has been compiled.
FiredTrue ==
  /\ stage # "present" => keys.just = {} /\ keys.gone = {}
  /\ stage = "present" /\ ~lapse =>
       /\ keys = HeardAll(filter.keys, frame)
       /\ ~configChanged =>
            \A id \in fired :
              /\ id \in DOMAIN compiled
              /\ Triggered(id, keys, compiled[id], Holds(filter.keys, compiled[id]))
  /\ (stage = "present" \/ ~configChanged) /\ compiled = <<>> /\ Compiles(config) => Shortcut = {}

\* What the protocol world and the client have of a key, on p = [filter, seat, told, withheld,
\* excused]: a press that was taken is still down, and what the client has of it is known.
Plain(k) == ModifierOf[k] = None /\ k \notin Ending
Lookup(s) == IF s \in alive THEN s ELSE None
Passed == [filter |-> filter, seat |-> seat, told |-> told, withheld |-> withheld,
           excused |-> excused]
TakenTrue(p) ==
  /\ p.filter.keys.just = {} /\ p.filter.keys.gone = {}
  /\ p.filter.consumed \subseteq p.filter.keys.held /\ p.withheld \subseteq p.filter.consumed
  /\ compiled = <<>> => p.withheld = {}
  /\ ~p.seat.host => p.seat.held \subseteq p.excused
  /\ p.seat.focus = Lookup(p.seat.cached)
  /\ \A t \in p.told : t.to \in {None, focus} /\ (t.taken => t.down)
DownTrue(p) ==
  \A k \in p.seat.held \ p.excused : Plain(k) => k \in p.filter.keys.held \ p.filter.consumed
SeatTrue ==
  /\ TakenTrue(Passed) /\ (~lapse => DownTrue(Passed))
  /\ stage # "present" => seat.cached = IF seat.host THEN focus ELSE None
  /\ stage # "poll" => told = {}

IInv ==
  /\ TypeOK /\ Turns /\ BindingsTrue /\ HeardTrue /\ IdleTrue /\ FilterTrue /\ HoldsTrue
  /\ FiredTrue /\ SeatTrue

-----------------------------------------------------------------------------
(* What is heard of a sequence of events.                                  *)

\* Induction over the natural numbers, for a set.
LEMMA NatSetInduction ==
  ASSUME NEW T, T \subseteq Nat, 0 \in T, \A n \in T : n + 1 \in T
  PROVE  T = Nat
<1>1. SUFFICES ASSUME Nat \ T # {} PROVE FALSE
  OBVIOUS
<1>2. PICK m \in Nat \ T : \A k \in Nat \ T : ~ (<<k, m>> \in OpToRel(<, Nat))
  BY <1>1, NatLessThanWellFounded, WFMin
<1>3. m \in Nat /\ m # 0 /\ m \notin T
  BY <1>2
<1>4. m - 1 \in Nat /\ (m - 1) + 1 = m /\ m - 1 < m
  BY <1>3
<1>5. m - 1 \in T
  BY <1>2, <1>4 DEF OpToRel
<1>6. QED
  BY <1>3, <1>4, <1>5

\* h is what was heard of the first events of q, up to n.
HeardBy(h, p, q, n) ==
  h = [i \in 0 .. n |-> IF i = 0 THEN p ELSE Heard(h[i - 1], q[i])]

LEMMA HeardValues ==
  ASSUME NEW n \in Nat, NEW p, NEW q, NEW h, HeardBy(h, p, q, n)
  PROVE  /\ h[0] = p
         /\ \A i \in 1 .. n : h[i] = Heard(h[i - 1], q[i])
<1> DEFINE g == [i \in 0 .. n |-> IF i = 0 THEN p ELSE Heard(h[i - 1], q[i])]
<1>1. h = g
  BY DEF HeardBy
<1>2. g[0] = p
  OBVIOUS
<1>3. ASSUME NEW i \in 1 .. n PROVE g[i] = Heard(h[i - 1], q[i])
  <2>1. i \in 0 .. n /\ i # 0
    OBVIOUS
  <2>2. QED
    BY <2>1
<1> HIDE DEF g
<1>4. QED
  BY <1>1, <1>2, <1>3

LEMMA HeardExists ==
  ASSUME NEW N \in Nat, NEW p, NEW q
  PROVE  \E h : HeardBy(h, p, q, N)
<1> DEFINE T == {k \in Nat : \E h : HeardBy(h, p, q, k)}
<1>1. 0 \in T
  <2> DEFINE g == [i \in 0 .. 0 |-> p]
  <2>1. g = [i \in 0 .. 0 |-> IF i = 0 THEN p ELSE Heard(g[i - 1], q[i])]
    OBVIOUS
  <2>2. QED
    BY <2>1 DEF HeardBy
<1>2. ASSUME NEW k \in T PROVE k + 1 \in T
  <2>1. k \in Nat
    OBVIOUS
  <2>2. PICK h : HeardBy(h, p, q, k)
    OBVIOUS
  <2>3. h[0] = p /\ \A i \in 1 .. k : h[i] = Heard(h[i - 1], q[i])
    BY <2>1, <2>2, HeardValues
  <2> DEFINE last == Heard(h[k], q[k + 1])
             g == [i \in 0 .. k + 1 |-> IF i = k + 1 THEN last ELSE h[i]]
  <2>4. ASSUME NEW i \in 0 .. k + 1
        PROVE  g[i] = IF i = 0 THEN p ELSE Heard(g[i - 1], q[i])
    <3>1. CASE i = k + 1
      <4>1. i # 0 /\ i - 1 = k /\ i - 1 \in 0 .. k + 1 /\ i - 1 # k + 1
        BY <2>1, <3>1
      <4>2. g[i] = last /\ g[i - 1] = h[k]
        BY <3>1, <4>1
      <4>3. QED
        BY <3>1, <4>1, <4>2
    <3>2. CASE i # k + 1
      <4>1. i = 0 \/ i \in 1 .. k
        BY <2>1, <2>4, <3>2
      <4>2. i # 0 => i - 1 \in 0 .. k + 1 /\ i - 1 # k + 1
        BY <2>1, <2>4, <3>2
      <4>3. g[i] = h[i] /\ (i # 0 => g[i - 1] = h[i - 1])
        BY <3>2, <4>2
      <4> HIDE DEF g
      <4>4. QED
        BY <2>3, <4>1, <4>3
    <3>3. QED
      BY <3>1, <3>2
  <2>5. g = [i \in 0 .. k + 1 |-> IF i = 0 THEN p ELSE Heard(g[i - 1], q[i])]
    <3>1. g = [i \in 0 .. k + 1 |-> g[i]]
      OBVIOUS
    <3> HIDE DEF g
    <3>2. QED
      BY <2>4, <3>1
  <2>6. HeardBy(g, p, q, k + 1)
    BY <2>5 DEF HeardBy
  <2> HIDE DEF g
  <2>7. QED
    BY <2>1, <2>6
<1>3. T = Nat
  BY <1>1, <1>2, NatSetInduction
<1>4. QED
  BY <1>3

LEMMA HeardAllBy ==
  ASSUME NEW p, NEW q \in Seq(Event)
  PROVE  \E h : HeardBy(h, p, q, Len(q)) /\ HeardAll(p, q) = h[Len(q)]
<1> DEFINE Is(h) == h = [i \in 0 .. Len(q) |-> IF i = 0 THEN p ELSE Heard(h[i - 1], q[i])]
           heard == CHOOSE h : Is(h)
<1>1. Len(q) \in Nat
  BY LenProperties
<1>2. \E h : Is(h)
  <2>1. PICK h : HeardBy(h, p, q, Len(q))
    BY <1>1, HeardExists
  <2>2. Is(h)
    BY <2>1 DEF HeardBy
  <2> HIDE DEF Is
  <2>3. QED
    BY <2>2
<1>3. Is(heard)
  BY <1>2
<1>4. HeardAll(p, q) = heard[Len(q)]
  BY DEF HeardAll
<1> HIDE DEF heard
<1>5. QED
  BY <1>3, <1>4 DEF HeardBy

\* What was heard of the first n events.
After(p, q, n) == HeardAll(p, SubSeq(q, 1, n))

LEMMA PrefixIs ==
  ASSUME NEW q \in Seq(Event), NEW n \in 0 .. Len(q)
  PROVE  /\ SubSeq(q, 1, n) \in Seq(Event) /\ Len(SubSeq(q, 1, n)) = n
         /\ \A i \in 1 .. n : SubSeq(q, 1, n)[i] = q[i]
         /\ n = Len(q) => SubSeq(q, 1, n) = q
<1>1. Len(q) \in Nat /\ DOMAIN q = 1 .. Len(q) /\ \A i \in 1 .. Len(q) : q[i] \in Event
  BY LenProperties, ElementOfSeq
<1>2. n \in Nat /\ n <= Len(q)
  BY <1>1
<1>3. SubSeq(q, 1, n) \in Seq(Event) /\ Len(SubSeq(q, 1, n)) = n
      /\ \A i \in 1 .. n : SubSeq(q, 1, n)[i] = q[i]
  <2>1. SubSeq(q, 1, n) = [i \in 1 .. n |-> q[i]]
    BY <1>1, <1>2
  <2>2. [i \in 1 .. n |-> q[i]] \in [1 .. n -> Event]
    BY <1>1, <1>2
  <2>3. \A f \in [1 .. n -> Event] : f \in Seq(Event) /\ Len(f) = n
    BY <1>2
  <2>4. QED
    BY <2>1, <2>2, <2>3
<1>4. n = Len(q) => SubSeq(q, 1, n) = q
  BY <1>1, <1>2, <1>3, SeqEqual
<1>5. QED
  BY <1>3, <1>4

LEMMA HeardNothing ==
  ASSUME NEW p
  PROVE  HeardAll(p, <<>>) = p
<1>1. <<>> \in Seq(Event) /\ Len(<<>>) = 0
  OBVIOUS
<1>2. PICK h : HeardBy(h, p, <<>>, 0) /\ HeardAll(p, <<>>) = h[0]
  BY <1>1, HeardAllBy
<1>3. QED
  BY <1>2, HeardValues

\* Two that hear the same hear the same of it.
LEMMA HeardOnce ==
  ASSUME NEW p, NEW q, NEW r, NEW n \in Nat, NEW m \in Nat, n <= m,
         \A i \in 1 .. n : q[i] = r[i],
         NEW g, NEW h, HeardBy(g, p, q, n), HeardBy(h, p, r, m)
  PROVE  g[n] = h[n]
<1> DEFINE T == {k \in Nat : k <= n => g[k] = h[k]}
<1>1. g[0] = p /\ \A i \in 1 .. n : g[i] = Heard(g[i - 1], q[i])
  BY HeardValues
<1>2. h[0] = p /\ \A i \in 1 .. m : h[i] = Heard(h[i - 1], r[i])
  BY HeardValues
<1>3. 0 \in T
  BY <1>1, <1>2
<1>4. ASSUME NEW k \in T PROVE k + 1 \in T
  <2>1. SUFFICES ASSUME k + 1 <= n PROVE g[k + 1] = h[k + 1]
    OBVIOUS
  <2>2. k \in Nat /\ g[k] = h[k] /\ k + 1 \in 1 .. n /\ k + 1 \in 1 .. m /\ (k + 1) - 1 = k
    BY <1>4, <2>1
  <2>3. QED
    BY <1>1, <1>2, <2>2
<1>5. T = Nat
  BY <1>3, <1>4, NatSetInduction
<1>6. QED
  BY <1>5

\* Events are heard one by one.
LEMMA AfterSteps ==
  ASSUME NEW p, NEW q \in Seq(Event)
  PROVE  /\ After(p, q, 0) = p
         /\ \A i \in 1 .. Len(q) : After(p, q, i) = Heard(After(p, q, i - 1), q[i])
         /\ After(p, q, Len(q)) = HeardAll(p, q)
<1>1. Len(q) \in Nat
  BY LenProperties
<1>2. SubSeq(q, 1, 0) = <<>>
  <2>1. SubSeq(q, 1, 0) \in Seq(Event) /\ Len(SubSeq(q, 1, 0)) = 0
    BY <1>1, PrefixIs
  <2>2. QED
    BY <2>1, EmptySeq
<1>3. ASSUME NEW i \in 1 .. Len(q)
      PROVE  After(p, q, i) = Heard(After(p, q, i - 1), q[i])
  <2> DEFINE r == SubSeq(q, 1, i)
             s == SubSeq(q, 1, i - 1)
  <2>1. i \in Nat /\ i - 1 \in Nat /\ i \in 0 .. Len(q) /\ i - 1 \in 0 .. Len(q) /\ i - 1 <= i
    BY <1>1
  <2>2. r \in Seq(Event) /\ Len(r) = i /\ \A j \in 1 .. i : r[j] = q[j]
    BY <2>1, PrefixIs
  <2>3. s \in Seq(Event) /\ Len(s) = i - 1 /\ \A j \in 1 .. i - 1 : s[j] = q[j]
    BY <2>1, PrefixIs
  <2> HIDE DEF r, s
  <2>4. PICK h : HeardBy(h, p, r, i) /\ HeardAll(p, r) = h[i]
    BY <2>2, HeardAllBy
  <2>5. PICK g : HeardBy(g, p, s, i - 1) /\ HeardAll(p, s) = g[i - 1]
    BY <2>3, HeardAllBy
  <2>6. \A j \in 1 .. i - 1 : s[j] = r[j]
    BY <2>1, <2>2, <2>3
  <2>7. g[i - 1] = h[i - 1]
    BY <2>1, <2>4, <2>5, <2>6, HeardOnce
  <2>8. h[i] = Heard(h[i - 1], r[i])
    BY <2>1, <2>4, HeardValues
  <2>9. r[i] = q[i]
    BY <2>1, <2>2
  <2>10. QED
    BY <2>4, <2>5, <2>7, <2>8, <2>9 DEF After, r, s
<1>4. After(p, q, 0) = p
  BY <1>2, HeardNothing DEF After
<1>5. After(p, q, Len(q)) = HeardAll(p, q)
  <2>1. Len(q) \in 0 .. Len(q)
    BY <1>1
  <2>2. SubSeq(q, 1, Len(q)) = q
    BY <2>1, PrefixIs
  <2>3. QED
    BY <2>2 DEF After
<1>6. QED
  BY <1>3, <1>4, <1>5

\* One more event.
LEMMA AfterAppend ==
  ASSUME NEW p, NEW q \in Seq(Event), NEW e \in Event
  PROVE  /\ Append(q, e) \in Seq(Event)
         /\ HeardAll(p, Append(q, e)) = Heard(HeardAll(p, q), e)
         /\ \A i \in 0 .. Len(q) : After(p, Append(q, e), i) = After(p, q, i)
<1> DEFINE a == Append(q, e)
<1>1. /\ a \in Seq(Event) /\ Len(q) \in Nat /\ Len(a) = Len(q) + 1 /\ a[Len(q) + 1] = e
      /\ \A i \in 1 .. Len(q) : a[i] = q[i]
  BY AppendProperties, LenProperties
<1> HIDE DEF a
<1>2. ASSUME NEW i \in 0 .. Len(q) PROVE SubSeq(a, 1, i) = SubSeq(q, 1, i)
  <2>1. i \in 0 .. Len(a)
    BY <1>1
  <2>2. /\ SubSeq(a, 1, i) \in Seq(Event) /\ Len(SubSeq(a, 1, i)) = i
        /\ \A j \in 1 .. i : SubSeq(a, 1, i)[j] = a[j]
    BY <1>1, <2>1, PrefixIs
  <2>3. /\ SubSeq(q, 1, i) \in Seq(Event) /\ Len(SubSeq(q, 1, i)) = i
        /\ \A j \in 1 .. i : SubSeq(q, 1, i)[j] = q[j]
    BY PrefixIs
  <2>4. \A j \in 1 .. i : SubSeq(a, 1, i)[j] = SubSeq(q, 1, i)[j]
    BY <1>1, <2>2, <2>3
  <2>5. QED
    BY <2>2, <2>3, <2>4, SeqEqual
<1>3. \A i \in 0 .. Len(q) : After(p, a, i) = After(p, q, i)
  BY <1>2 DEF After
<1>4. HeardAll(p, a) = Heard(HeardAll(p, q), e)
  <2>1. Len(a) \in 1 .. Len(a) /\ Len(a) - 1 = Len(q) /\ Len(q) \in 0 .. Len(q)
    BY <1>1
  <2>2. /\ After(p, a, Len(a)) = HeardAll(p, a)
        /\ \A i \in 1 .. Len(a) : After(p, a, i) = Heard(After(p, a, i - 1), a[i])
    BY <1>1, AfterSteps
  <2>3. After(p, q, Len(q)) = HeardAll(p, q)
    BY AfterSteps
  <2>4. After(p, a, Len(a)) = Heard(After(p, a, Len(q)), e)
    BY <1>1, <2>1, <2>2
  <2>5. QED
    BY <1>3, <2>1, <2>2, <2>3, <2>4
<1>5. QED
  BY <1>1, <1>3, <1>4 DEF a

-----------------------------------------------------------------------------
(* Trackers.                                                               *)

LEMMA EventFields ==
  ASSUME NEW e \in Event
  PROVE  /\ e.kind \in {"key", "focus"}
         /\ e.kind = "key" => e.key \in Key /\ e.down \in BOOLEAN /\ e # Loss
         /\ e.kind = "focus" => e.focused \in BOOLEAN /\ (~e.focused => e = Loss)
<1>1. CASE e \in [kind : {"key"}, key : Key, down : BOOLEAN]
  <2>1. e.kind = "key" /\ e.key \in Key /\ e.down \in BOOLEAN
    BY <1>1
  <2>2. Loss.kind = "focus"
    BY DEF Loss, FocusEvent
  <2>3. QED
    BY <2>1, <2>2
<1>2. CASE e \in [kind : {"focus"}, focused : BOOLEAN]
  <2>1. e.kind = "focus" /\ e.focused \in BOOLEAN
    BY <1>2
  <2>2. e = [kind |-> "focus", focused |-> e.focused]
    BY <1>2
  <2>3. ASSUME ~e.focused PROVE e = Loss
    <3>1. e.focused = FALSE
      BY <2>1, <2>3
    <3>2. QED
      BY <2>2, <3>1 DEF Loss, FocusEvent
  <2>4. QED
    BY <2>1, <2>3
<1>3. QED
  BY <1>1, <1>2 DEF Event

LEMMA EventsAre ==
  /\ \A k \in Key, down \in BOOLEAN : KeyEvent(k, down) \in Event
  /\ \A b \in BOOLEAN : FocusEvent(b) \in Event
  /\ Loss \in Event
BY DEF KeyEvent, FocusEvent, Loss, Event

LEMMA ModifiersTyped ==
  ASSUME NEW p \in Tracker, NEW k \in Key, NEW down \in BOOLEAN
  PROVE  Modifiers(p.mods, k, down) \subseteq {ModifierOf[j] : j \in Key}
BY DEF Tracker, Modifiers

LEMMA RecordedTyped ==
  ASSUME NEW p \in Tracker, NEW k \in Key, NEW down \in BOOLEAN
  PROVE  /\ Recorded(p, k, down) \in Tracker
         /\ Settled(Recorded(p, k, down)) \in Tracker
<1> DEFINE r == Recorded(p, k, down)
<1>1. r \in Tracker
  <2>1. p.held \subseteq Key /\ p.just \subseteq Key /\ p.gone \subseteq Key
    BY DEF Tracker
  <2>2. QED
    BY <2>1, ModifiersTyped DEF Recorded, Tracker
<1> HIDE DEF r
<1>2. Settled(r) \in Tracker
  BY <1>1 DEF Settled, Tracker
<1>3. QED
  BY <1>1, <1>2 DEF r

LEMMA HeardTyped ==
  ASSUME NEW p \in Tracker, NEW e \in Event
  PROVE  Heard(p, e) \in Tracker
<1>1. NoKeys \in Tracker
  BY DEF NoKeys, Tracker
<1>2. QED
  BY <1>1, EventFields, RecordedTyped DEF Heard

\* What Recorded makes of the keys, and of the modifiers.
LEMMA RecordedIs ==
  ASSUME NEW p, NEW k, NEW down
  PROVE  /\ Recorded(p, k, down).held = IF down THEN p.held \cup {k} ELSE p.held \ {k}
         /\ Recorded(p, k, down).mods = Modifiers(p.mods, k, down)
         /\ Recorded(p, k, down).just = IF down /\ k \notin p.held THEN p.just \cup {k} ELSE p.just
         /\ Recorded(p, k, down).gone = IF ~down /\ k \in p.held THEN p.gone \cup {k} ELSE p.gone
BY DEF Recorded

LEMMA SettledIs ==
  ASSUME NEW p \in Tracker
  PROVE  /\ Settled(p) \in Tracker
         /\ Settled(p).held = p.held /\ Settled(p).mods = p.mods
         /\ Settled(p).just = {} /\ Settled(p).gone = {}
BY DEF Settled, Tracker

\* Modifiers are held by keys: the last event of a key that stands for one counts.
LEMMA ModsHeldHeard ==
  ASSUME NEW p \in Tracker, NEW e \in Event, ModsHeld(p)
  PROVE  ModsHeld(Heard(p, e))
<1>1. CASE e.kind = "key"
  <2> DEFINE r == Recorded(p, e.key, e.down)
  <2>1. /\ r.held = IF e.down THEN p.held \cup {e.key} ELSE p.held \ {e.key}
        /\ r.mods = Modifiers(p.mods, e.key, e.down)
    BY DEF Recorded
  <2>2. Heard(p, e) = r
    BY <1>1 DEF Heard
  <2>3. e.key \in Key /\ e.down \in BOOLEAN
    BY <1>1, EventFields
  <2> HIDE DEF r
  <2>4. ASSUME NEW m \in r.mods PROVE m # None /\ \E k \in r.held : m = ModifierOf[k]
    <3>1. CASE m \in p.mods /\ (e.down \/ m # ModifierOf[e.key])
      <4>1. PICK k \in p.held : m = ModifierOf[k] /\ m # None
        BY <3>1 DEF ModsHeld
      <4>2. k \in r.held
        BY <2>1, <3>1, <4>1
      <4>3. QED
        BY <4>1, <4>2
    <3>2. CASE e.down /\ m = ModifierOf[e.key] /\ m # None
      BY <2>1, <3>2
    <3>3. None \notin p.mods
      BY DEF ModsHeld
    <3>4. QED
      BY <2>1, <2>3, <2>4, <3>1, <3>2, <3>3 DEF Modifiers
  <2>5. QED
    BY <2>2, <2>4 DEF ModsHeld
<1>2. CASE e.kind # "key"
  <2>1. Heard(p, e) = p \/ Heard(p, e) = NoKeys
    BY <1>2 DEF Heard
  <2>2. ModsHeld(NoKeys)
    BY DEF ModsHeld, NoKeys
  <2>3. QED
    BY <2>1, <2>2
<1>3. QED
  BY <1>1, <1>2

LEMMA SameHeard ==
  ASSUME NEW p, NEW q, NEW e \in Event, Same(p, q) \/ e = Loss
  PROVE  Same(Heard(p, e), Heard(q, e))
<1>1. CASE e.kind = "key"
  <2>1. Same(p, q)
    BY <1>1, EventFields
  <2>2. Heard(p, e) = Recorded(p, e.key, e.down) /\ Heard(q, e) = Recorded(q, e.key, e.down)
    BY <1>1 DEF Heard
  <2>3. QED
    BY <2>1, <2>2 DEF Recorded, Same
<1>2. CASE e.kind # "key"
  <2>1. \/ Heard(p, e) = p /\ Heard(q, e) = q /\ e.focused
        \/ Heard(p, e) = NoKeys /\ Heard(q, e) = NoKeys
    BY <1>2 DEF Heard
  <2>2. Loss.focused = FALSE
    BY DEF Loss, FocusEvent
  <2>3. QED
    BY <2>1, <2>2 DEF Same
<1>3. QED
  BY <1>1, <1>2

LEMMA AfterTyped ==
  ASSUME NEW p \in Tracker, NEW q \in Seq(Event)
  PROVE  /\ \A i \in 0 .. Len(q) : After(p, q, i) \in Tracker
         /\ HeardAll(p, q) \in Tracker
<1> DEFINE T == {i \in Nat : i <= Len(q) => After(p, q, i) \in Tracker}
<1>1. /\ After(p, q, 0) = p
      /\ \A i \in 1 .. Len(q) : After(p, q, i) = Heard(After(p, q, i - 1), q[i])
      /\ After(p, q, Len(q)) = HeardAll(p, q)
  BY AfterSteps
<1>2. Len(q) \in Nat /\ \A i \in 1 .. Len(q) : q[i] \in Event
  BY LenProperties, ElementOfSeq
<1>3. 0 \in T
  BY <1>1
<1>4. ASSUME NEW i \in T PROVE i + 1 \in T
  <2>1. SUFFICES ASSUME i + 1 <= Len(q) PROVE After(p, q, i + 1) \in Tracker
    OBVIOUS
  <2>2. /\ i \in Nat /\ i + 1 \in 1 .. Len(q) /\ (i + 1) - 1 = i
        /\ After(p, q, i) \in Tracker /\ q[i + 1] \in Event
    BY <1>2, <1>4, <2>1
  <2>3. After(p, q, i + 1) = Heard(After(p, q, i), q[i + 1])
    BY <1>1, <2>2
  <2>4. QED
    BY <2>2, <2>3, HeardTyped
<1>5. T = Nat
  BY <1>3, <1>4, NatSetInduction
<1>6. QED
  BY <1>1, <1>2, <1>5

LEMMA AfterModsHeld ==
  ASSUME NEW p \in Tracker, NEW q \in Seq(Event), ModsHeld(p)
  PROVE  ModsHeld(HeardAll(p, q))
<1> DEFINE T == {i \in Nat : i <= Len(q) => ModsHeld(After(p, q, i))}
<1>1. /\ After(p, q, 0) = p
      /\ \A i \in 1 .. Len(q) : After(p, q, i) = Heard(After(p, q, i - 1), q[i])
      /\ After(p, q, Len(q)) = HeardAll(p, q)
  BY AfterSteps
<1>2. Len(q) \in Nat /\ \A i \in 1 .. Len(q) : q[i] \in Event
  BY LenProperties, ElementOfSeq
<1>3. 0 \in T
  BY <1>1
<1>4. ASSUME NEW i \in T PROVE i + 1 \in T
  <2>1. SUFFICES ASSUME i + 1 <= Len(q) PROVE ModsHeld(After(p, q, i + 1))
    OBVIOUS
  <2>2. /\ i \in Nat /\ i + 1 \in 1 .. Len(q) /\ (i + 1) - 1 = i
        /\ ModsHeld(After(p, q, i)) /\ q[i + 1] \in Event /\ i \in 0 .. Len(q)
    BY <1>2, <1>4, <2>1
  <2>3. After(p, q, i + 1) = Heard(After(p, q, i), q[i + 1]) /\ After(p, q, i) \in Tracker
    BY <1>1, <2>2, AfterTyped
  <2>4. QED
    BY <2>2, <2>3, ModsHeldHeard
<1>5. T = Nat
  BY <1>3, <1>4, NatSetInduction
<1>6. QED
  BY <1>1, <1>2, <1>5

\* Two that agree at first, or have both heard that the focus was lost, agree.
LEMMA SameAfter ==
  ASSUME NEW p, NEW r, NEW q \in Seq(Event), NEW n \in 0 .. Len(q),
         Same(p, r) \/ Lost(q, n)
  PROVE  Same(After(p, q, n), After(r, q, n))
<1> DEFINE T == {i \in Nat : i <= Len(q) /\ (Same(p, r) \/ Lost(q, i))
                               => Same(After(p, q, i), After(r, q, i))}
<1>1. /\ After(p, q, 0) = p
      /\ \A i \in 1 .. Len(q) : After(p, q, i) = Heard(After(p, q, i - 1), q[i])
  BY AfterSteps
<1>2. /\ After(r, q, 0) = r
      /\ \A i \in 1 .. Len(q) : After(r, q, i) = Heard(After(r, q, i - 1), q[i])
  BY AfterSteps
<1>3. Len(q) \in Nat /\ \A i \in 1 .. Len(q) : q[i] \in Event
  BY LenProperties, ElementOfSeq
<1>4. 0 \in T
  BY <1>1, <1>2 DEF Lost
<1>5. ASSUME NEW i \in T PROVE i + 1 \in T
  <2>1. SUFFICES ASSUME i + 1 <= Len(q), Same(p, r) \/ Lost(q, i + 1)
                 PROVE  Same(After(p, q, i + 1), After(r, q, i + 1))
    OBVIOUS
  <2>2. /\ i \in Nat /\ i <= Len(q) /\ i + 1 \in 1 .. Len(q) /\ (i + 1) - 1 = i
        /\ q[i + 1] \in Event
        /\ Same(p, r) \/ Lost(q, i) => Same(After(p, q, i), After(r, q, i))
    BY <1>3, <1>5, <2>1
  <2>3. Lost(q, i + 1) => Lost(q, i) \/ q[i + 1] = Loss
    BY <2>2 DEF Lost
  <2>4. Same(After(p, q, i), After(r, q, i)) \/ q[i + 1] = Loss
    BY <2>1, <2>2, <2>3
  <2>5. /\ After(p, q, i + 1) = Heard(After(p, q, i), q[i + 1])
        /\ After(r, q, i + 1) = Heard(After(r, q, i), q[i + 1])
    BY <1>1, <1>2, <2>2
  <2>6. QED
    BY <2>2, <2>4, <2>5, SameHeard
<1>6. T = Nat
  BY <1>4, <1>5, NatSetInduction
<1>7. QED
  BY <1>3, <1>6

LEMMA SameHeardAll ==
  ASSUME NEW p, NEW r, NEW q \in Seq(Event), Same(p, r) \/ Lost(q, Len(q))
  PROVE  Same(HeardAll(p, q), HeardAll(r, q))
<1>1. Len(q) \in 0 .. Len(q)
  BY LenProperties
<1>2. Same(After(p, q, Len(q)), After(r, q, Len(q)))
  BY <1>1, SameAfter
<1>3. After(p, q, Len(q)) = HeardAll(p, q) /\ After(r, q, Len(q)) = HeardAll(r, q)
  BY AfterSteps
<1>4. QED
  BY <1>2, <1>3

LEMMA FreshAfter ==
  ASSUME NEW p, NEW q, NEW known
  PROVE  Fresh(p, q, known) =
           \A i \in DOMAIN q :
             Press(q[i]) /\ (known \/ Lost(q, i - 1)) => q[i].key \notin After(p, q, i - 1).held
BY DEF Fresh, After

\* One more event of a key that was up.
LEMMA FreshAppend ==
  ASSUME NEW p, NEW q \in Seq(Event), NEW e \in Event, Fresh(p, q, TRUE),
         Press(e) => e.key \notin HeardAll(p, q).held
  PROVE  Fresh(p, Append(q, e), TRUE)
<1> DEFINE a == Append(q, e)
<1>1. /\ Len(q) \in Nat /\ DOMAIN q = 1 .. Len(q) /\ DOMAIN a = 1 .. Len(q) + 1
      /\ a[Len(q) + 1] = e /\ \A i \in 1 .. Len(q) : a[i] = q[i]
  BY AppendProperties, LenProperties
<1>2. \A i \in 0 .. Len(q) : After(p, a, i) = After(p, q, i)
  BY AfterAppend
<1> HIDE DEF a
<1>3. After(p, q, Len(q)) = HeardAll(p, q)
  BY AfterSteps
<1>4. ASSUME NEW i \in DOMAIN a, Press(a[i]) PROVE a[i].key \notin After(p, a, i - 1).held
  <2>1. CASE i \in 1 .. Len(q)
    <3>1. i - 1 \in 0 .. Len(q) /\ i \in DOMAIN q /\ a[i] = q[i]
      BY <1>1, <2>1
    <3>2. q[i].key \notin After(p, q, i - 1).held
      BY <1>4, <3>1, FreshAfter
    <3>3. QED
      BY <1>2, <3>1, <3>2
  <2>2. CASE i = Len(q) + 1
    <3>1. i - 1 = Len(q) /\ Len(q) \in 0 .. Len(q) /\ a[i] = e
      BY <1>1, <2>2
    <3>2. QED
      BY <1>2, <1>3, <1>4, <3>1
  <2>3. QED
    BY <1>1, <1>4, <2>1, <2>2
<1>5. QED
  BY <1>4, FreshAfter DEF a

LEMMA FreshNothing ==
  ASSUME NEW p, NEW known
  PROVE  Fresh(p, <<>>, known)
BY DEF Fresh

-----------------------------------------------------------------------------
(* Bindings.                                                               *)

\* A binding that parses names a key or at least one modifier.
LEMMA ComboIs ==
  ASSUME NEW b \in Seq(DOMAIN Meaning)
  PROVE  /\ Combo(b) \in Combination
         /\ Parses(b) /\ Combo(b).key = None => Combo(b).mods # {}
<1>1. /\ DOMAIN b = 1 .. Len(b) /\ Len(b) \in Nat
      /\ \A i \in DOMAIN b : b[i] \in DOMAIN Meaning
  BY LenProperties, ElementOfSeq
<1>2. \A i \in DOMAIN b : Meaning[b[i]].kind = "key" => Meaning[b[i]].name \in Key
  BY <1>1, MeaningAssumption
<1> DEFINE mods == {Meaning[b[i]].name : i \in Tokens(b, "mod")}
           at == CHOOSE i \in Tokens(b, "key") : TRUE
           key == IF Tokens(b, "key") = {} THEN None ELSE Meaning[b[at]].name
<1>3. Combo(b) = [mods |-> mods, key |-> key]
  BY DEF Combo
<1>4. Tokens(b, "key") # {} => at \in DOMAIN b /\ Meaning[b[at]].kind = "key"
  BY DEF Tokens
<1> HIDE DEF at
<1>5. key \in Key \cup {None} /\ (key = None => Tokens(b, "key") = {})
  BY <1>2, <1>4, KeysAssumption
<1>6. mods \subseteq {Meaning[t].name : t \in DOMAIN Meaning}
  BY <1>1 DEF Tokens
<1>7. Combo(b) \in Combination
  <2> HIDE DEF mods, key
  <2>1. QED
    BY <1>3, <1>5, <1>6 DEF Combination
<1>8. ASSUME Parses(b), key = None PROVE mods # {}
  <2>1. b # <<>> /\ Tokens(b, "none") = {} /\ Tokens(b, "key") = {}
    BY <1>5, <1>8 DEF Parses
  <2>2. 1 \in DOMAIN b
    BY <1>1, <2>1, EmptySeq
  <2>3. Meaning[b[1]].kind \in {"mod", "key", "none"}
    BY <1>1, <2>2, MeaningAssumption
  <2>4. 1 \in Tokens(b, "mod")
    BY <2>1, <2>2, <2>3 DEF Tokens
  <2>5. QED
    BY <2>4
<1>9. QED
  <2> HIDE DEF mods, key
  <2>1. QED
    BY <1>3, <1>7, <1>8

LEMMA CompiledIs ==
  ASSUME TypeOK, BindingsTrue
  PROVE  /\ Compiled \in {<<>>} \cup [Shortcut -> Combination]
         /\ \A id \in DOMAIN Compiled :
              /\ Compiled[id].key = None => Compiled[id].mods # {}
              /\ Trigger[id] # "press" => Compiled[id].key \in Ending \cup {None}
         /\ Compiled = <<>> => compiled = <<>>
<1> DEFINE made == [id \in Shortcut |-> Combo(Binding(config, id))]
<1>1. CASE Compiled = compiled
  BY <1>1 DEF TypeOK, BindingsTrue
<1>2. CASE Compiled = made /\ Compiles(config)
  <2>1. config \in Overrides
    BY DEF TypeOK
  <2>2. \A id \in Shortcut : Binding(config, id) \in Seq(DOMAIN Meaning) /\ Parses(Binding(config, id))
    BY <1>2, <2>1, BindingsAssumption DEF Binding, Compiles
  <2>3. \A id \in Shortcut : /\ Combo(Binding(config, id)) \in Combination
                             /\ Combo(Binding(config, id)).key = None
                                  => Combo(Binding(config, id)).mods # {}
    BY <2>2, ComboIs
  <2>4. made \in [Shortcut -> Combination] /\ DOMAIN made = Shortcut
        /\ \A id \in Shortcut : made[id] = Combo(Binding(config, id))
    BY <2>3
  <2>5. \A id \in Shortcut : Trigger[id] # "press" => Combo(Binding(config, id)).key \in Ending
    BY <2>1 DEF Ending
  <2>6. compiled \in {<<>>} \cup [Shortcut -> Combination]
    BY DEF TypeOK
  <2> HIDE DEF made
  <2>7. made = <<>> => Shortcut = {}
    BY <2>4
  <2>8. Shortcut = {} => \A f \in [Shortcut -> Combination] : f = <<>>
    OBVIOUS
  <2>9. QED
    BY <1>2, <2>3, <2>4, <2>5, <2>6, <2>7, <2>8
<1>3. QED
  BY <1>1, <1>2 DEF Compiled

-----------------------------------------------------------------------------
(* The protocol world, event by event.                                     *)

SeatState == [host : BOOLEAN, cached : Focusable, focus : Focusable, held : SUBSET Key]
FilterState == [keys : Tracker, consumed : SUBSET Key]
ToldKey == [key : Key, down : BOOLEAN, to : Focusable, taken : BOOLEAN]
PassState == [filter : FilterState, seat : SeatState, told : SUBSET ToldKey,
              withheld : SUBSET Key, excused : SUBSET Key]

LEMMA SyncedIs ==
  ASSUME NEW s \in SeatState, focus \in Focusable, alive \subseteq Surface,
         s.focus = Lookup(s.cached)
  PROVE  /\ Synced(s) \in SeatState
         /\ Synced(s).host = s.host /\ Synced(s).held = s.held
         /\ Synced(s).cached = IF s.host THEN focus ELSE None
         /\ Synced(s).focus = Lookup(Synced(s).cached)
<1> DEFINE desired == IF s.host THEN focus ELSE None
           sought == [s EXCEPT !.cached = desired, !.focus = Lookup(desired)]
<1>1. Synced(s) = IF s.cached = desired THEN s ELSE sought
  BY DEF Synced, Lookup
<1>2. desired \in Focusable /\ Lookup(desired) \in Focusable
  BY DEF Focusable, Lookup
<1>3. CASE s.cached = desired
  BY <1>1, <1>3
<1>4. CASE s.cached # desired
  <2> HIDE DEF desired
  <2>1. /\ sought \in SeatState /\ sought.host = s.host /\ sought.held = s.held
        /\ sought.cached = desired /\ sought.focus = Lookup(desired)
    BY <1>2 DEF SeatState
  <2> HIDE DEF sought
  <2>2. Synced(s) = sought
    BY <1>1, <1>4
  <2>3. QED
    BY <2>1, <2>2 DEF desired
<1>5. QED
  BY <1>3, <1>4

\* The focus comes or goes.
LEMMA DispatchedFocus ==
  ASSUME NEW s \in SeatState, NEW e \in Event, e.kind = "focus", focus \in Focusable,
         alive \subseteq Surface, s.focus = Lookup(s.cached)
  PROVE  /\ Dispatched(s, e) \in SeatState
         /\ Dispatched(s, e).host = e.focused /\ Dispatched(s, e).held = s.held
         /\ Dispatched(s, e).focus = Lookup(Dispatched(s, e).cached)
<1> DEFINE t == Synced(s)
           u == [t EXCEPT !.host = e.focused]
<1>1. /\ t \in SeatState /\ t.host = s.host /\ t.held = s.held /\ t.focus = Lookup(t.cached)
  BY SyncedIs
<1>2. e.focused \in BOOLEAN
  BY EventFields
<1> HIDE DEF t
<1>3. /\ u \in SeatState /\ u.host = e.focused /\ u.held = t.held /\ u.focus = t.focus
      /\ u.cached = t.cached
  BY <1>1, <1>2 DEF SeatState
<1>4. Dispatched(s, e) = Synced(u)
  BY DEF Dispatched, t
<1> HIDE DEF u
<1>5. u.focus = Lookup(u.cached)
  BY <1>1, <1>3
<1>6. QED
  BY <1>1, <1>3, <1>4, <1>5, SyncedIs

\* A key is told to whoever has the focus.
LEMMA DispatchedKey ==
  ASSUME NEW s \in SeatState, NEW e \in Event, e.kind = "key", focus \in Focusable,
         alive \subseteq Surface, s.focus = Lookup(s.cached)
  PROVE  /\ Dispatched(s, e) \in SeatState
         /\ Dispatched(s, e).host = s.host
         /\ Dispatched(s, e).held = IF ~s.host THEN s.held
                                    ELSE IF e.down THEN s.held \cup {e.key} ELSE s.held \ {e.key}
         /\ Dispatched(s, e).focus = Lookup(Dispatched(s, e).cached)
         /\ s.host => Dispatched(s, e).focus = Lookup(focus)
<1> DEFINE t == Synced(s)
           heldThen == IF e.down THEN t.held \cup {e.key} ELSE t.held \ {e.key}
           u == [t EXCEPT !.held = heldThen]
<1>1. /\ t \in SeatState /\ t.host = s.host /\ t.held = s.held /\ t.focus = Lookup(t.cached)
      /\ t.cached = IF s.host THEN focus ELSE None
  BY SyncedIs
<1>2. e.key \in Key /\ e.down \in BOOLEAN
  BY EventFields
<1>3. Dispatched(s, e) = IF s.host THEN u ELSE t
  BY DEF Dispatched, Typed
<1> HIDE DEF t
<1>4. heldThen \subseteq Key
  BY <1>1, <1>2 DEF SeatState
<1>5. heldThen = IF e.down THEN s.held \cup {e.key} ELSE s.held \ {e.key}
  BY <1>1
<1> HIDE DEF heldThen
<1>6. /\ u \in SeatState /\ u.host = t.host /\ u.held = heldThen /\ u.focus = t.focus
      /\ u.cached = t.cached
  BY <1>1, <1>4 DEF SeatState
<1> HIDE DEF u
<1>7. QED
  BY <1>1, <1>3, <1>5, <1>6

Taken(p, e) == compiled # <<>> /\ Consumes(p.filter, e)
Refiltered(p, e) == Filtered(p.filter, e, Taken(p, e))

\* The filter follows the keys as the main world does, and remembers the presses it took.
LEMMA FilteredKey ==
  ASSUME NEW p \in PassState, NEW e \in Event, e.kind = "key"
  PROVE  /\ Refiltered(p, e) \in FilterState
         /\ Refiltered(p, e).keys.just = {} /\ Refiltered(p, e).keys.gone = {}
         /\ Refiltered(p, e).keys.held =
              IF e.down THEN p.filter.keys.held \cup {e.key} ELSE p.filter.keys.held \ {e.key}
         /\ Same(Refiltered(p, e).keys, Heard(p.filter.keys, e))
         /\ Refiltered(p, e).consumed =
              IF ~e.down THEN p.filter.consumed \ {e.key}
              ELSE IF Taken(p, e) THEN p.filter.consumed \cup {e.key} ELSE p.filter.consumed
<1> DEFINE f == p.filter
           r == Recorded(f.keys, e.key, e.down)
           c == IF e.down /\ Taken(p, e) THEN f.consumed \cup {e.key}
                ELSE IF e.down THEN f.consumed ELSE f.consumed \ {e.key}
<1>1. f.keys \in Tracker /\ f.consumed \subseteq Key
  BY DEF PassState, FilterState
<1>2. e.key \in Key /\ e.down \in BOOLEAN
  BY EventFields
<1>3. r \in Tracker /\ r.held = IF e.down THEN f.keys.held \cup {e.key} ELSE f.keys.held \ {e.key}
  BY <1>1, <1>2, RecordedTyped DEF Recorded
<1>4. Heard(f.keys, e) = r
  BY DEF Heard
<1>5. Refiltered(p, e) = [keys |-> Settled(r), consumed |-> c]
  BY DEF Refiltered, Filtered
<1>6. c \subseteq Key
  BY <1>1, <1>2
<1> HIDE DEF r
<1>7. /\ Settled(r) \in Tracker /\ Settled(r).held = r.held /\ Settled(r).mods = r.mods
      /\ Settled(r).just = {} /\ Settled(r).gone = {}
  BY <1>3, SettledIs
<1>8. /\ Refiltered(p, e).keys = Settled(r) /\ Refiltered(p, e).consumed = c
      /\ Refiltered(p, e) \in FilterState
  <2> HIDE DEF c
  <2>1. QED
    BY <1>5, <1>6, <1>7 DEF FilterState
<1>9. QED
  BY <1>2, <1>3, <1>4, <1>7, <1>8 DEF Same

Forgotten == [keys |-> NoKeys, consumed |-> {}]

LEMMA PassFocus ==
  ASSUME NEW p \in PassState, NEW e \in Event, e.kind = "focus"
  PROVE  /\ Pass(p, e).filter = IF compiled = <<>> \/ e.focused THEN p.filter ELSE Forgotten
         /\ Pass(p, e).seat = Dispatched(p.seat, e)
         /\ Pass(p, e).told = p.told
         /\ Pass(p, e).withheld = IF e.focused THEN p.withheld ELSE {}
         /\ Pass(p, e).excused = IF e.focused THEN p.excused ELSE p.excused \cup p.seat.held
         /\ Pass(p, e) = [filter |-> Pass(p, e).filter, seat |-> Pass(p, e).seat,
                          told |-> Pass(p, e).told, withheld |-> Pass(p, e).withheld,
                          excused |-> Pass(p, e).excused]
BY DEF Pass, Filtered, Forgotten

LEMMA PassKey ==
  ASSUME NEW p \in PassState, NEW e \in Event, e.kind = "key"
  PROVE  /\ Pass(p, e).filter = IF compiled = <<>> THEN p.filter ELSE Refiltered(p, e)
         /\ Pass(p, e).seat = IF Taken(p, e) THEN p.seat ELSE Dispatched(p.seat, e)
         /\ Pass(p, e).told =
              IF Taken(p, e) \/ ~p.seat.host THEN p.told
              ELSE p.told \cup {[key |-> e.key, down |-> e.down, to |-> Dispatched(p.seat, e).focus,
                                 taken |-> e.key \in p.withheld]}
         /\ Pass(p, e).withheld =
              IF ~e.down THEN p.withheld \ {e.key}
              ELSE IF Taken(p, e) THEN p.withheld \cup {e.key} ELSE p.withheld
         /\ Pass(p, e).excused =
              IF Taken(p, e) \/ ~p.seat.host THEN p.excused ELSE p.excused \ {e.key}
         /\ Pass(p, e) = [filter |-> Pass(p, e).filter, seat |-> Pass(p, e).seat,
                          told |-> Pass(p, e).told, withheld |-> Pass(p, e).withheld,
                          excused |-> Pass(p, e).excused]
<1>1. e.kind # "focus"
  OBVIOUS
<1> DEFINE taken == e.kind = "key" /\ compiled # <<>> /\ Consumes(p.filter, e)
<1>2. taken = Taken(p, e) /\ taken \in BOOLEAN
  BY DEF Taken
<1>3. Pass(p, e) =
        [filter |-> IF compiled = <<>> THEN p.filter ELSE Filtered(p.filter, e, taken),
         seat   |-> IF ~taken THEN Dispatched(p.seat, e) ELSE p.seat,
         told   |-> IF ~ (~taken /\ p.seat.host) THEN p.told
                    ELSE p.told \cup {[key |-> e.key, down |-> e.down,
                                       to |-> (IF ~taken THEN Dispatched(p.seat, e) ELSE p.seat).focus,
                                       taken |-> e.key \in p.withheld]},
         withheld |-> IF e.down /\ taken THEN p.withheld \cup {e.key}
                      ELSE IF e.down THEN p.withheld ELSE p.withheld \ {e.key},
         excused |-> IF ~taken /\ p.seat.host THEN p.excused \ {e.key} ELSE p.excused]
  BY <1>1 DEF Pass
<1>4. e.down \in BOOLEAN /\ p.seat.host \in BOOLEAN
  BY EventFields DEF PassState, SeatState
<1>5. CASE Taken(p, e)
  <2>1. taken = TRUE /\ Refiltered(p, e) = Filtered(p.filter, e, TRUE)
    BY <1>2, <1>5 DEF Refiltered
  <2> HIDE DEF taken
  <2>2. QED
    BY <1>3, <1>4, <1>5, <2>1
<1>6. CASE ~Taken(p, e)
  <2>1. taken = FALSE /\ Refiltered(p, e) = Filtered(p.filter, e, FALSE)
    BY <1>2, <1>6 DEF Refiltered
  <2> DEFINE t == [key |-> e.key, down |-> e.down, to |-> Dispatched(p.seat, e).focus,
                   taken |-> e.key \in p.withheld]
  <2>2. Pass(p, e) =
          [filter |-> IF compiled = <<>> THEN p.filter ELSE Filtered(p.filter, e, FALSE),
           seat   |-> Dispatched(p.seat, e),
           told   |-> IF ~p.seat.host THEN p.told ELSE p.told \cup {t},
           withheld |-> IF e.down THEN p.withheld ELSE p.withheld \ {e.key},
           excused |-> IF p.seat.host THEN p.excused \ {e.key} ELSE p.excused]
    <3> HIDE DEF taken
    <3>1. QED
      BY <1>3, <2>1
  <2> HIDE DEF taken, t
  <2>3. /\ Pass(p, e).filter = IF compiled = <<>> THEN p.filter ELSE Filtered(p.filter, e, FALSE)
        /\ Pass(p, e).seat = Dispatched(p.seat, e)
        /\ Pass(p, e).told = IF ~p.seat.host THEN p.told ELSE p.told \cup {t}
        /\ Pass(p, e).withheld = IF e.down THEN p.withheld ELSE p.withheld \ {e.key}
        /\ Pass(p, e).excused = IF p.seat.host THEN p.excused \ {e.key} ELSE p.excused
        /\ Pass(p, e) = [filter |-> Pass(p, e).filter, seat |-> Pass(p, e).seat,
                         told |-> Pass(p, e).told, withheld |-> Pass(p, e).withheld,
                         excused |-> Pass(p, e).excused]
    BY <2>2
  <2>4. QED
    BY <1>4, <1>6, <2>1, <2>3 DEF t
<1>7. QED
  BY <1>5, <1>6

\* No release of a press that was taken is told, and only what the host held back is not known.
LEMMA PassKeeps ==
  ASSUME NEW p \in PassState, NEW e \in Event, focus \in Focusable, alive \subseteq Surface,
         TakenTrue(p)
  PROVE  Pass(p, e) \in PassState /\ TakenTrue(Pass(p, e))
<1>1. /\ p.filter \in FilterState /\ p.seat \in SeatState /\ p.told \subseteq ToldKey
      /\ p.withheld \subseteq Key /\ p.excused \subseteq Key
  BY DEF PassState
<1>2. /\ p.filter.keys.just = {} /\ p.filter.keys.gone = {}
      /\ p.filter.consumed \subseteq p.filter.keys.held /\ p.withheld \subseteq p.filter.consumed
      /\ compiled = <<>> => p.withheld = {}
      /\ ~p.seat.host => p.seat.held \subseteq p.excused
      /\ p.seat.focus = Lookup(p.seat.cached)
      /\ \A t \in p.told : t.to \in {None, focus} /\ (t.taken => t.down)
  BY DEF TakenTrue
<1>3. CASE e.kind = "focus"
  <2> DEFINE P == Pass(p, e)
  <2>1. /\ P.filter = IF compiled = <<>> \/ e.focused THEN p.filter ELSE Forgotten
        /\ P.seat = Dispatched(p.seat, e) /\ P.told = p.told
        /\ P.withheld = IF e.focused THEN p.withheld ELSE {}
        /\ P.excused = IF e.focused THEN p.excused ELSE p.excused \cup p.seat.held
        /\ P = [filter |-> P.filter, seat |-> P.seat, told |-> P.told, withheld |-> P.withheld,
                excused |-> P.excused]
    BY <1>3, PassFocus
  <2>2. /\ P.seat \in SeatState /\ P.seat.host = e.focused /\ P.seat.held = p.seat.held
        /\ P.seat.focus = Lookup(P.seat.cached)
    BY <1>1, <1>2, <1>3, <2>1, DispatchedFocus
  <2>3. e.focused \in BOOLEAN
    BY <1>3, EventFields
  <2>4. /\ Forgotten \in FilterState /\ Forgotten.consumed = {}
        /\ Forgotten.keys.just = {} /\ Forgotten.keys.gone = {}
    BY DEF Forgotten, FilterState, NoKeys, Tracker
  <2>5. p.seat.held \subseteq Key
    BY <1>1 DEF SeatState
  <2> HIDE DEF P
  <2>6. P \in PassState
    <3>1. P.filter \in FilterState /\ P.told \subseteq ToldKey /\ P.withheld \subseteq Key
          /\ P.excused \subseteq Key
      BY <1>1, <2>1, <2>4, <2>5
    <3>2. QED
      BY <2>1, <2>2, <3>1 DEF PassState
  <2>7. TakenTrue(P)
    <3>1. P.filter.keys.just = {} /\ P.filter.keys.gone = {}
          /\ P.filter.consumed \subseteq P.filter.keys.held
      BY <1>2, <2>1, <2>4
    <3>2. P.withheld \subseteq P.filter.consumed /\ (compiled = <<>> => P.withheld = {})
      BY <1>2, <2>1, <2>3
    <3>3. ~P.seat.host => P.seat.held \subseteq P.excused
      BY <2>1, <2>2
    <3>4. QED
      BY <1>2, <2>1, <2>2, <3>1, <3>2, <3>3 DEF TakenTrue
  <2>8. QED
    BY <2>6, <2>7 DEF P
<1>4. CASE e.kind = "key"
  <2> DEFINE P == Pass(p, e)
             d == Dispatched(p.seat, e)
             f == Refiltered(p, e)
             t == [key |-> e.key, down |-> e.down, to |-> d.focus, taken |-> e.key \in p.withheld]
  <2>1. /\ P.filter = IF compiled = <<>> THEN p.filter ELSE f
        /\ P.seat = IF Taken(p, e) THEN p.seat ELSE d
        /\ P.told = IF Taken(p, e) \/ ~p.seat.host THEN p.told ELSE p.told \cup {t}
        /\ P.withheld = IF ~e.down THEN p.withheld \ {e.key}
                        ELSE IF Taken(p, e) THEN p.withheld \cup {e.key} ELSE p.withheld
        /\ P.excused = IF Taken(p, e) \/ ~p.seat.host THEN p.excused ELSE p.excused \ {e.key}
        /\ P = [filter |-> P.filter, seat |-> P.seat, told |-> P.told, withheld |-> P.withheld,
                excused |-> P.excused]
    BY <1>4, PassKey
  <2>2. e.key \in Key /\ e.down \in BOOLEAN
    BY <1>4, EventFields
  <2>3. /\ d \in SeatState /\ d.host = p.seat.host
        /\ d.held = IF ~p.seat.host THEN p.seat.held
                    ELSE IF e.down THEN p.seat.held \cup {e.key} ELSE p.seat.held \ {e.key}
        /\ d.focus = Lookup(d.cached) /\ (p.seat.host => d.focus = Lookup(focus))
    BY <1>1, <1>2, <1>4, DispatchedKey
  <2>4. Taken(p, e) \in BOOLEAN
    BY DEF Taken
  <2>5. /\ f \in FilterState /\ f.keys.just = {} /\ f.keys.gone = {}
        /\ f.keys.held = IF e.down THEN p.filter.keys.held \cup {e.key}
                                   ELSE p.filter.keys.held \ {e.key}
        /\ f.consumed = IF ~e.down THEN p.filter.consumed \ {e.key}
                        ELSE IF Taken(p, e) THEN p.filter.consumed \cup {e.key}
                        ELSE p.filter.consumed
    BY <1>4, FilteredKey
  <2>6. ~e.down /\ e.key \in p.withheld => Taken(p, e)
    BY <1>2 DEF Taken, Consumes
  <2>7. compiled = <<>> => ~Taken(p, e)
    BY DEF Taken
  <2>8. t \in ToldKey /\ (p.seat.host => t.to \in {None, focus})
        /\ t.down = e.down /\ t.taken = (e.key \in p.withheld)
    <3>1. d.focus \in Focusable
      BY <2>3 DEF SeatState
    <3>2. p.seat.host => d.focus \in {None, focus}
      BY <2>3 DEF Lookup
    <3> HIDE DEF d
    <3>3. QED
      BY <2>2, <3>1, <3>2 DEF ToldKey
  <2> HIDE DEF P, d, f, t
  <2>9. P \in PassState
    <3>1. P.filter \in FilterState /\ P.seat \in SeatState /\ P.told \subseteq ToldKey
      BY <1>1, <2>1, <2>3, <2>5, <2>8
    <3>2. P.withheld \subseteq Key /\ P.excused \subseteq Key
      BY <1>1, <2>1, <2>2
    <3>3. QED
      BY <2>1, <3>1, <3>2 DEF PassState
  <2>10. TakenTrue(P)
    <3>1. P.filter.keys.just = {} /\ P.filter.keys.gone = {}
      BY <1>2, <2>1, <2>5
    <3>2. P.filter.consumed \subseteq P.filter.keys.held
      BY <1>2, <2>1, <2>5
    <3>3. P.withheld \subseteq P.filter.consumed
      BY <1>2, <2>1, <2>5, <2>7
    <3>4. compiled = <<>> => P.withheld = {}
      BY <1>2, <2>1, <2>7
    <3>5. ~P.seat.host => P.seat.held \subseteq P.excused
      BY <1>2, <2>1, <2>3
    <3>6. P.seat.focus = Lookup(P.seat.cached)
      BY <1>2, <2>1, <2>3
    <3>7. \A x \in P.told : x.to \in {None, focus} /\ (x.taken => x.down)
      BY <1>2, <2>1, <2>6, <2>8
    <3>8. QED
      BY <3>1, <3>2, <3>3, <3>4, <3>5, <3>6, <3>7 DEF TakenTrue
  <2>11. QED
    BY <2>9, <2>10 DEF P
<1>5. QED
  BY <1>3, <1>4, EventFields

\* A key that stands for no modifier and that no shortcut waits for goes up unnoticed by the
\* shortcuts, unless one of them took its press.
LEMMA PlainGoesUp ==
  ASSUME TypeOK, BindingsTrue, NEW p \in PassState, NEW e \in Event, e.kind = "key", ~e.down,
         Plain(e.key), e.key \notin p.filter.consumed,
         p.filter.keys.just = {}, p.filter.keys.gone = {}
  PROVE  ~Taken(p, e)
<1> DEFINE f == p.filter.keys
           next == Recorded(f, e.key, e.down)
<1>1. f \in Tracker /\ e.key \in Key
  BY EventFields DEF PassState, FilterState
<1>2. next.just = {} /\ next.gone \subseteq {e.key}
  BY DEF Recorded
<1>3. next.held = f.held \ {e.key} /\ next.mods = f.mods
  BY DEF Recorded, Modifiers, Plain
<1> HIDE DEF f, next
<1>4. ASSUME NEW id \in DOMAIN compiled
      PROVE  ~Triggered(id, next, compiled[id], Holds(f, compiled[id]))
  <2>1. /\ compiled \in [Shortcut -> Combination] \/ compiled = <<>>
        /\ Trigger[id] # "press" => compiled[id].key \in Ending \cup {None}
    BY <1>4 DEF TypeOK, BindingsTrue
  <2>2. id \in Shortcut /\ Trigger[id] \in {"press", "release", "hold"}
    BY <1>4, <2>1, BindingsAssumption
  <2> DEFINE c == compiled[id]
  <2>3. e.key \notin Ending \cup {None}
    BY <1>1, KeysAssumption DEF Plain
  <2>4. Trigger[id] # "press" => c.key \in Ending \cup {None}
    BY <2>1
  <2> HIDE DEF c
  <2>5. CASE c.key = None
    <3>1. Holds(next, c) = Holds(f, c)
      BY <1>3, <2>5 DEF Holds
    <3>2. QED
      BY <2>2, <2>5, <3>1 DEF Triggered, PressTriggered, ReleaseTriggered, c
  <2>6. CASE c.key # None
    <3>1. CASE Trigger[id] = "press"
      <4>1. Triggered(id, next, c, Holds(f, c)) = PressTriggered(next, c, Holds(f, c))
        BY <3>1 DEF Triggered
      <4>2. ~PressTriggered(next, c, Holds(f, c))
        BY <1>2, <2>6 DEF PressTriggered
      <4>3. QED
        BY <4>1, <4>2 DEF c
    <3>2. CASE Trigger[id] = "release"
      <4>1. Triggered(id, next, c, Holds(f, c)) = ReleaseTriggered(next, c, Holds(f, c))
        BY <3>2 DEF Triggered
      <4>2. ~ReleaseTriggered(next, c, Holds(f, c))
        BY <1>2, <2>3, <2>4, <2>6, <3>2 DEF ReleaseTriggered
      <4>3. QED
        BY <4>1, <4>2 DEF c
    <3>3. CASE Trigger[id] = "hold"
      <4>1. Triggered(id, next, c, Holds(f, c)) = (Holds(next, c) # Holds(f, c))
        BY <3>3 DEF Triggered
      <4>2. c.key # e.key
        BY <2>3, <2>4, <3>3
      <4>3. Holds(next, c) = Holds(f, c)
        BY <1>3, <2>6, <4>2 DEF Holds
      <4>4. QED
        BY <4>1, <4>3 DEF c
    <3>4. QED
      BY <2>2, <3>1, <3>2, <3>3
  <2>7. QED
    BY <2>5, <2>6
<1>5. Consumes(p.filter, e) =
        (\/ ~e.down /\ e.key \in p.filter.consumed
         \/ \E id \in DOMAIN compiled :
              Triggered(id, next, compiled[id], Holds(f, compiled[id])))
  BY DEF Consumes, next, f
<1>6. QED
  BY <1>4, <1>5 DEF Taken

\* What a client has of a plain key is known, if a press is of a key that was up.
LEMMA PassDown ==
  ASSUME TypeOK, BindingsTrue, NEW p \in PassState, NEW e \in Event, compiled # <<>>,
         TakenTrue(p), DownTrue(p) \/ e = Loss,
         Press(e) => e.key \notin p.filter.keys.held
  PROVE  DownTrue(Pass(p, e))
<1> DEFINE P == Pass(p, e)
<1>1. /\ p.filter \in FilterState /\ p.seat \in SeatState
      /\ focus \in Focusable /\ alive \subseteq Surface
  BY DEF PassState, TypeOK
<1>2. /\ p.filter.keys.just = {} /\ p.filter.keys.gone = {}
      /\ p.filter.consumed \subseteq p.filter.keys.held
      /\ ~p.seat.host => p.seat.held \subseteq p.excused
      /\ p.seat.focus = Lookup(p.seat.cached)
  BY DEF TakenTrue
<1>3. CASE e.kind = "focus"
  <2>1. /\ P.filter = IF compiled = <<>> \/ e.focused THEN p.filter ELSE Forgotten
        /\ P.seat = Dispatched(p.seat, e)
        /\ P.excused = IF e.focused THEN p.excused ELSE p.excused \cup p.seat.held
    BY <1>3, PassFocus
  <2>2. P.seat.held = p.seat.held
    BY <1>1, <1>2, <1>3, <2>1, DispatchedFocus
  <2>3. e.focused => e # Loss
    BY DEF Loss, FocusEvent
  <2> HIDE DEF P
  <2>4. DownTrue(P)
    BY <2>1, <2>2, <2>3 DEF DownTrue
  <2>5. QED
    BY <2>4 DEF P
<1>4. CASE e.kind = "key"
  <2> DEFINE d == Dispatched(p.seat, e)
             f == Refiltered(p, e)
  <2>1. /\ P.filter = f
        /\ P.seat = IF Taken(p, e) THEN p.seat ELSE d
        /\ P.excused = IF Taken(p, e) \/ ~p.seat.host THEN p.excused ELSE p.excused \ {e.key}
    BY <1>4, PassKey
  <2>2. e.key \in Key /\ e.down \in BOOLEAN /\ e # Loss
    BY <1>4, EventFields
  <2>3. /\ d.host = p.seat.host
        /\ d.held = IF ~p.seat.host THEN p.seat.held
                    ELSE IF e.down THEN p.seat.held \cup {e.key} ELSE p.seat.held \ {e.key}
    BY <1>1, <1>2, <1>4, DispatchedKey
  <2>4. /\ f.keys.held = IF e.down THEN p.filter.keys.held \cup {e.key}
                                   ELSE p.filter.keys.held \ {e.key}
        /\ f.consumed = IF ~e.down THEN p.filter.consumed \ {e.key}
                        ELSE IF Taken(p, e) THEN p.filter.consumed \cup {e.key}
                        ELSE p.filter.consumed
    BY <1>4, FilteredKey
  <2>5. DownTrue(p)
    BY <2>2
  <2>6. e.down => e.key \notin p.filter.keys.held
    BY <1>4 DEF Press
  <2>7. ~e.down /\ Plain(e.key) /\ e.key \notin p.filter.consumed => ~Taken(p, e)
    BY <1>2, <1>4, PlainGoesUp
  <2> HIDE DEF P, d, f
  <2>8. ASSUME NEW k \in P.seat.held \ P.excused, Plain(k)
        PROVE  k \in P.filter.keys.held \ P.filter.consumed
    <3>1. CASE ~p.seat.host
      BY <1>2, <2>1, <2>3, <2>8, <3>1
    <3>2. CASE p.seat.host /\ Taken(p, e)
      <4>1. k \in p.filter.keys.held \ p.filter.consumed
        BY <2>1, <2>5, <2>8, <3>2 DEF DownTrue
      <4>2. k # e.key
        BY <2>2, <2>6, <2>7, <2>8, <3>2, <4>1
      <4>3. QED
        BY <2>1, <2>4, <4>1, <4>2
    <3>3. CASE p.seat.host /\ ~Taken(p, e)
      <4>1. CASE k = e.key
        <5>1. e.down
          BY <2>1, <2>3, <2>8, <3>3, <4>1
        <5>2. QED
          BY <1>2, <2>1, <2>4, <2>6, <3>3, <4>1, <5>1
      <4>2. CASE k # e.key
        <5>1. k \in p.filter.keys.held \ p.filter.consumed
          BY <2>1, <2>3, <2>5, <2>8, <3>3, <4>2 DEF DownTrue
        <5>2. QED
          BY <2>1, <2>4, <4>2, <5>1
      <4>3. QED
        BY <4>1, <4>2
    <3>4. QED
      BY <3>1, <3>2, <3>3
  <2>9. DownTrue(P)
    BY <2>8 DEF DownTrue
  <2>10. QED
    BY <2>9 DEF P
<1>5. QED
  BY <1>3, <1>4, EventFields

-----------------------------------------------------------------------------
(* The protocol world, frame by frame.                                     *)

Start == [filter |-> filter, seat |-> seat, told |-> {}, withheld |-> withheld,
          excused |-> excused]
PassedBy(f, q, n) == f = [i \in 0 .. n |-> IF i = 0 THEN Start ELSE Pass(f[i - 1], q[i])]

LEMMA PassedValues ==
  ASSUME NEW n \in Nat, NEW q, NEW f, PassedBy(f, q, n)
  PROVE  /\ f[0] = Start
         /\ \A i \in 1 .. n : f[i] = Pass(f[i - 1], q[i])
<1> DEFINE g == [i \in 0 .. n |-> IF i = 0 THEN Start ELSE Pass(f[i - 1], q[i])]
<1>1. f = g
  BY DEF PassedBy
<1>2. g[0] = Start
  OBVIOUS
<1>3. ASSUME NEW i \in 1 .. n PROVE g[i] = Pass(f[i - 1], q[i])
  <2>1. i \in 0 .. n /\ i # 0
    OBVIOUS
  <2>2. QED
    BY <2>1
<1> HIDE DEF g
<1>4. QED
  BY <1>1, <1>2, <1>3

LEMMA PassedExists ==
  ASSUME NEW N \in Nat, NEW q
  PROVE  \E f : PassedBy(f, q, N)
<1> DEFINE T == {k \in Nat : \E f : PassedBy(f, q, k)}
<1>1. 0 \in T
  <2> DEFINE g == [i \in 0 .. 0 |-> Start]
  <2>1. g = [i \in 0 .. 0 |-> IF i = 0 THEN Start ELSE Pass(g[i - 1], q[i])]
    OBVIOUS
  <2>2. QED
    BY <2>1 DEF PassedBy
<1>2. ASSUME NEW k \in T PROVE k + 1 \in T
  <2>1. k \in Nat
    OBVIOUS
  <2>2. PICK f : PassedBy(f, q, k)
    OBVIOUS
  <2>3. f[0] = Start /\ \A i \in 1 .. k : f[i] = Pass(f[i - 1], q[i])
    BY <2>1, <2>2, PassedValues
  <2> DEFINE last == Pass(f[k], q[k + 1])
             g == [i \in 0 .. k + 1 |-> IF i = k + 1 THEN last ELSE f[i]]
  <2>4. ASSUME NEW i \in 0 .. k + 1
        PROVE  g[i] = IF i = 0 THEN Start ELSE Pass(g[i - 1], q[i])
    <3>1. CASE i = k + 1
      <4>1. i # 0 /\ i - 1 = k /\ i - 1 \in 0 .. k + 1 /\ i - 1 # k + 1
        BY <2>1, <3>1
      <4>2. g[i] = last /\ g[i - 1] = f[k]
        BY <3>1, <4>1
      <4>3. QED
        BY <3>1, <4>1, <4>2
    <3>2. CASE i # k + 1
      <4>1. i = 0 \/ i \in 1 .. k
        BY <2>1, <2>4, <3>2
      <4>2. i # 0 => i - 1 \in 0 .. k + 1 /\ i - 1 # k + 1
        BY <2>1, <2>4, <3>2
      <4>3. g[i] = f[i] /\ (i # 0 => g[i - 1] = f[i - 1])
        BY <3>2, <4>2
      <4> HIDE DEF g
      <4>4. QED
        BY <2>3, <4>1, <4>3
    <3>3. QED
      BY <3>1, <3>2
  <2>5. g = [i \in 0 .. k + 1 |-> IF i = 0 THEN Start ELSE Pass(g[i - 1], q[i])]
    <3>1. g = [i \in 0 .. k + 1 |-> g[i]]
      OBVIOUS
    <3> HIDE DEF g
    <3>2. QED
      BY <2>4, <3>1
  <2>6. PassedBy(g, q, k + 1)
    BY <2>5 DEF PassedBy
  <2> HIDE DEF g
  <2>7. QED
    BY <2>1, <2>6
<1>3. T = Nat
  BY <1>1, <1>2, NatSetInduction
<1>4. QED
  BY <1>3

LEMMA OutcomeBy ==
  ASSUME frame \in Seq(Event)
  PROVE  \E f : PassedBy(f, frame, Len(frame)) /\ Outcome = f[Len(frame)]
<1> DEFINE Is(f) == f = [i \in 0 .. Len(frame) |->
                           IF i = 0 THEN Start ELSE Pass(f[i - 1], frame[i])]
           passed == CHOOSE f : Is(f)
<1>1. Len(frame) \in Nat
  BY LenProperties
<1>2. \E f : Is(f)
  <2>1. PICK f : PassedBy(f, frame, Len(frame))
    BY <1>1, PassedExists
  <2>2. Is(f)
    BY <2>1 DEF PassedBy
  <2> HIDE DEF Is
  <2>3. QED
    BY <2>2
<1>3. Is(passed)
  BY <1>2
<1>4. Outcome = passed[Len(frame)]
  BY DEF Outcome, Start
<1> HIDE DEF passed
<1>5. QED
  BY <1>3, <1>4 DEF PassedBy

LEMMA PassSame ==
  ASSUME NEW p \in PassState, NEW e \in Event
  PROVE  /\ compiled = <<>> => Pass(p, e).filter = p.filter
         /\ compiled # <<>> => Same(Pass(p, e).filter.keys, Heard(p.filter.keys, e))
<1>1. CASE e.kind = "focus"
  <2>1. Pass(p, e).filter = IF compiled = <<>> \/ e.focused THEN p.filter ELSE Forgotten
    BY <1>1, PassFocus
  <2>2. Heard(p.filter.keys, e) = IF e.focused THEN p.filter.keys ELSE NoKeys
    BY <1>1 DEF Heard
  <2>3. QED
    BY <2>1, <2>2 DEF Same, Forgotten
<1>2. CASE e.kind = "key"
  <2>1. Pass(p, e).filter = IF compiled = <<>> THEN p.filter ELSE Refiltered(p, e)
    BY <1>2, PassKey
  <2>2. Same(Refiltered(p, e).keys, Heard(p.filter.keys, e))
    BY <1>2, FilteredKey
  <2>3. QED
    BY <2>1, <2>2
<1>3. QED
  BY <1>1, <1>2, EventFields

\* Where the protocol world is after the first i events of the frame.
ThereAfter(p, i) ==
  /\ p \in PassState /\ TakenTrue(p)
  /\ compiled = <<>> => p.filter = filter
  /\ compiled # <<>> => Same(p.filter.keys, After(filter.keys, frame, i))
  /\ compiled # <<>> /\ (~lapse \/ Lost(frame, i)) => DownTrue(p)

LEMMA PassGoesOn ==
  ASSUME TypeOK, BindingsTrue, Fresh(filter.keys, frame, ~lapse),
         NEW i \in 1 .. Len(frame), NEW p, ThereAfter(p, i - 1)
  PROVE  ThereAfter(Pass(p, frame[i]), i)
<1> DEFINE e == frame[i]
           P == Pass(p, e)
<1>1. /\ frame \in Seq(Event) /\ focus \in Focusable /\ alive \subseteq Surface
  BY DEF TypeOK
<1>2. e \in Event /\ i \in DOMAIN frame /\ Len(frame) \in Nat
  BY <1>1, LenProperties, ElementOfSeq
<1>3. /\ p \in PassState /\ TakenTrue(p)
      /\ compiled = <<>> => p.filter = filter
      /\ compiled # <<>> => Same(p.filter.keys, After(filter.keys, frame, i - 1))
      /\ compiled # <<>> /\ (~lapse \/ Lost(frame, i - 1)) => DownTrue(p)
  BY DEF ThereAfter
<1>4. After(filter.keys, frame, i) = Heard(After(filter.keys, frame, i - 1), e)
  BY <1>1, AfterSteps
<1>5. Lost(frame, i) => Lost(frame, i - 1) \/ e = Loss
  BY <1>2 DEF Lost
<1>6. Press(e) /\ (~lapse \/ Lost(frame, i - 1)) => e.key \notin After(filter.keys, frame, i - 1).held
  BY <1>2, FreshAfter
<1>7. ~Press(Loss)
  BY DEF Press, Loss, FocusEvent
<1> HIDE DEF e
<1>8. P \in PassState /\ TakenTrue(P)
  BY <1>1, <1>2, <1>3, PassKeeps
<1>9. /\ compiled = <<>> => P.filter = p.filter
      /\ compiled # <<>> => Same(P.filter.keys, Heard(p.filter.keys, e))
  BY <1>2, <1>3, PassSame
<1>10. compiled # <<>> => Same(Heard(p.filter.keys, e), Heard(After(filter.keys, frame, i - 1), e))
  BY <1>2, <1>3, SameHeard
<1>11. ASSUME compiled # <<>>, ~lapse \/ Lost(frame, i)
       PROVE  DownTrue(P)
  <2>1. DownTrue(p) \/ e = Loss
    BY <1>3, <1>5, <1>11
  <2>2. Press(e) => e.key \notin p.filter.keys.held
    BY <1>3, <1>5, <1>6, <1>7, <1>11 DEF Same
  <2>3. QED
    BY <1>2, <1>3, <1>11, <2>1, <2>2, PassDown
<1> HIDE DEF P
<1>12. compiled # <<>> => Same(P.filter.keys, After(filter.keys, frame, i))
  BY <1>4, <1>9, <1>10 DEF Same
<1>13. ThereAfter(P, i)
  BY <1>3, <1>8, <1>9, <1>11, <1>12 DEF ThereAfter
<1>14. QED
  BY <1>13 DEF P, e

LEMMA FrameGoesBy ==
  ASSUME TypeOK, BindingsTrue, Fresh(filter.keys, frame, ~lapse), ThereAfter(Start, 0)
  PROVE  /\ ThereAfter(Outcome, Len(frame))
         /\ frame = <<>> => Outcome = Start
<1>1. frame \in Seq(Event) /\ Len(frame) \in Nat
  BY LenProperties DEF TypeOK
<1>2. PICK f : PassedBy(f, frame, Len(frame)) /\ Outcome = f[Len(frame)]
  BY <1>1, OutcomeBy
<1>3. f[0] = Start /\ \A i \in 1 .. Len(frame) : f[i] = Pass(f[i - 1], frame[i])
  BY <1>1, <1>2, PassedValues
<1> DEFINE T == {i \in Nat : i <= Len(frame) => ThereAfter(f[i], i)}
<1>4. 0 \in T
  BY <1>3
<1>5. ASSUME NEW i \in T PROVE i + 1 \in T
  <2>1. SUFFICES ASSUME i + 1 <= Len(frame) PROVE ThereAfter(f[i + 1], i + 1)
    OBVIOUS
  <2>2. i \in Nat /\ i + 1 \in 1 .. Len(frame) /\ (i + 1) - 1 = i /\ ThereAfter(f[i], i)
    BY <1>1, <1>5, <2>1
  <2>3. f[i + 1] = Pass(f[i], frame[i + 1])
    BY <1>3, <2>2
  <2>4. ThereAfter(Pass(f[i], frame[i + 1]), i + 1)
    BY <2>2, PassGoesOn
  <2>5. QED
    BY <2>3, <2>4
<1>6. T = Nat
  BY <1>4, <1>5, NatSetInduction
<1>7. ThereAfter(f[Len(frame)], Len(frame))
  BY <1>1, <1>6
<1>8. frame = <<>> => Len(frame) = 0
  BY EmptySeq
<1>9. QED
  BY <1>2, <1>3, <1>7, <1>8

-----------------------------------------------------------------------------
(* What a frame will bring.                                                *)

LEMMA ComingIs ==
  ASSUME TypeOK
  PROVE  /\ host \in {"tty", "window"}
         /\ host = "window" => Coming = queue
         /\ host = "tty" /\ active = wasActive => Coming = IF active THEN queue ELSE <<>>
         /\ host = "tty" /\ active # wasActive =>
              Coming = IF active THEN <<FocusEvent(TRUE)>> \o queue ELSE <<Loss>>
BY HostsAssumption DEF TypeOK, Coming, Loss

\* One event more is heard after the others.
LEMMA PrependAppend ==
  ASSUME NEW q \in Seq(Event), NEW d \in Event, NEW e \in Event
  PROVE  <<d>> \o Append(q, e) = Append(<<d>> \o q, e)
<1>1. <<d>> \in Seq(Event) /\ Len(<<d>>) = 1
  OBVIOUS
<1>2. Append(q, e) = q \o <<e>>
  BY AppendIsConcat
<1>3. <<d>> \o q \in Seq(Event)
  BY <1>1, ConcatProperties
<1>4. Append(<<d>> \o q, e) = (<<d>> \o q) \o <<e>>
  BY <1>3, AppendIsConcat
<1>5. <<d>> \o (q \o <<e>>) = (<<d>> \o q) \o <<e>>
  <2>1. <<e>> \in Seq(Event)
    OBVIOUS
  <2>2. QED
    BY <1>1, <2>1, ConcatAssociative
<1>6. QED
  BY <1>2, <1>4, <1>5

LEMMA PrependTyped ==
  ASSUME NEW q \in Seq(Event), NEW d \in Event
  PROVE  /\ <<d>> \o q \in Seq(Event) /\ Len(<<d>> \o q) = 1 + Len(q)
         /\ (<<d>> \o q)[1] = d
         /\ \A i \in 1 .. Len(q) : (<<d>> \o q)[1 + i] = q[i]
<1>1. <<d>> \in Seq(Event) /\ Len(<<d>>) = 1 /\ <<d>>[1] = d /\ Len(q) \in Nat
  BY LenProperties
<1>2. /\ <<d>> \o q \in Seq(Event) /\ Len(<<d>> \o q) = Len(<<d>>) + Len(q)
      /\ \A i \in 1 .. Len(<<d>>) + Len(q) :
            (<<d>> \o q)[i] = IF i <= Len(<<d>>) THEN <<d>>[i] ELSE q[i - Len(<<d>>)]
  BY <1>1, ConcatProperties
<1>3. (<<d>> \o q)[1] = d
  BY <1>1, <1>2
<1>4. ASSUME NEW i \in 1 .. Len(q) PROVE (<<d>> \o q)[1 + i] = q[i]
  <2>1. 1 + i \in 1 .. Len(<<d>>) + Len(q) /\ ~(1 + i <= Len(<<d>>)) /\ (1 + i) - Len(<<d>>) = i
    BY <1>1
  <2>2. QED
    BY <1>2, <2>1
<1>5. QED
  BY <1>1, <1>2, <1>3, <1>4

LEMMA ComingTyped ==
  ASSUME TypeOK
  PROVE  Coming \in Seq(Event)
<1>1. queue \in Seq(Event) /\ active \in BOOLEAN /\ wasActive \in BOOLEAN
  BY DEF TypeOK
<1>2. FocusEvent(TRUE) \in Event /\ Loss \in Event
  BY EventsAre
<1>3. <<>> \in Seq(Event) /\ <<Loss>> \in Seq(Event)
  BY <1>2, EmptySeq
<1>4. <<FocusEvent(TRUE)>> \o queue \in Seq(Event)
  BY <1>1, <1>2, PrependTyped
<1>5. QED
  BY <1>1, <1>3, <1>4, ComingIs

\* What is heard of one event.
LEMMA HeardOne ==
  ASSUME NEW p, NEW e \in Event
  PROVE  HeardAll(p, <<e>>) = Heard(p, e)
<1>1. <<e>> \in Seq(Event) /\ Len(<<e>>) = 1 /\ <<e>>[1] = e
  OBVIOUS
<1>2. /\ After(p, <<e>>, 0) = p /\ After(p, <<e>>, Len(<<e>>)) = HeardAll(p, <<e>>)
      /\ \A i \in 1 .. Len(<<e>>) : After(p, <<e>>, i) = Heard(After(p, <<e>>, i - 1), <<e>>[i])
  BY <1>1, AfterSteps
<1>3. After(p, <<e>>, 1) = Heard(After(p, <<e>>, 0), <<e>>[1])
  BY <1>1, <1>2
<1>4. QED
  BY <1>1, <1>2, <1>3

LEMMA HeardFocus ==
  ASSUME NEW p
  PROVE  /\ Heard(p, Loss) = NoKeys /\ Heard(p, FocusEvent(TRUE)) = p
         /\ NoKeys.held = {}
         /\ HeardAll(p, <<Loss>>) = NoKeys /\ HeardAll(p, <<FocusEvent(TRUE)>>) = p
<1>1. Heard(p, Loss) = NoKeys /\ Heard(p, FocusEvent(TRUE)) = p
  BY DEF Heard, Loss, FocusEvent
<1>2. HeardAll(p, <<Loss>>) = Heard(p, Loss)
      /\ HeardAll(p, <<FocusEvent(TRUE)>>) = Heard(p, FocusEvent(TRUE))
  BY EventsAre, HeardOne
<1>3. QED
  BY <1>1, <1>2 DEF NoKeys

\* No press, no doubt about it.
LEMMA FreshOne ==
  ASSUME NEW p, NEW e \in Event, ~Press(e)
  PROVE  Fresh(p, <<e>>, TRUE)
<1>1. DOMAIN <<e>> = {1} /\ <<e>>[1] = e
  OBVIOUS
<1>2. QED
  BY <1>1 DEF Fresh

\* Nothing is held while the host has the focus elsewhere.
LEMMA NothingHeld ==
  ASSUME TypeOK, IdleTrue, stage = "poll", ~active
  PROVE  HeardAll(keys, Coming).held = {}
<1>1. CASE host = "window"
  BY <1>1, ComingIs DEF IdleTrue
<1>2. CASE host = "tty" /\ wasActive
  <2>1. Coming = <<Loss>>
    BY <1>2, ComingIs DEF TypeOK
  <2>2. QED
    BY <2>1, HeardFocus
<1>3. CASE host = "tty" /\ ~wasActive
  <2>1. Coming = <<>> /\ keys.held = {}
    BY <1>3, ComingIs DEF TypeOK, IdleTrue
  <2>2. QED
    BY <2>1, HeardNothing
<1>4. QED
  BY <1>1, <1>2, <1>3, ComingIs

\* A session tells of a loss and of nothing else, or of none.
LEMMA OneLoss ==
  ASSUME TypeOK, Turns, host = "tty", Lost(Coming, Len(Coming))
  PROVE  Coming = <<Loss>>
<1>1. queue \in Seq(Event) /\ active \in BOOLEAN /\ wasActive \in BOOLEAN
      /\ Len(queue) \in Nat /\ DOMAIN queue = 1 .. Len(queue)
  BY LenProperties DEF TypeOK
<1>2. \A i \in 1 .. Len(queue) : queue[i] # Loss
  <2>1. \A i \in 1 .. Len(queue) : queue[i].kind = "key"
    BY <1>1 DEF Turns
  <2>2. Loss.kind # "key"
    BY DEF Loss, FocusEvent
  <2>3. QED
    BY <2>1, <2>2
<1>3. CASE active = wasActive
  <2>1. Coming = queue \/ Coming = <<>>
    BY <1>3, ComingIs
  <2>2. Len(<<>>) = 0
    OBVIOUS
  <2>3. QED
    BY <1>1, <1>2, <2>1, <2>2 DEF Lost
<1>4. CASE active # wasActive /\ active
  <2> DEFINE d == FocusEvent(TRUE)
             q == <<d>> \o queue
  <2>1. Coming = q
    BY <1>4, ComingIs
  <2>2. /\ Len(q) = 1 + Len(queue) /\ q[1] = d
        /\ \A i \in 1 .. Len(queue) : q[1 + i] = queue[i]
    BY <1>1, EventsAre, PrependTyped
  <2>3. d # Loss
    BY DEF Loss, FocusEvent
  <2> HIDE DEF d, q
  <2>4. ASSUME NEW i \in 1 .. Len(q) PROVE q[i] # Loss
    <3>1. i = 1 \/ (i - 1 \in 1 .. Len(queue) /\ i = 1 + (i - 1))
      BY <1>1, <2>2
    <3>2. QED
      BY <1>2, <2>2, <2>3, <3>1
  <2>5. QED
    BY <2>1, <2>4 DEF Lost
<1>5. CASE active # wasActive /\ ~active
  BY <1>5, ComingIs
<1>6. QED
  BY <1>3, <1>4, <1>5

-----------------------------------------------------------------------------
(* Every step keeps it.                                                    *)

\* What a key event adds.
LEMMA StrikeIs ==
  ASSUME TypeOK, NEW k \in Key, Strike(k)
  PROVE  \E e \in Event :
           /\ e.kind = "key" /\ e.key = k /\ e.down = (k \notin physical)
           /\ active => queue' = Append(queue, e) /\ Coming' = Append(Coming, e)
           /\ ~active => queue' = queue /\ Coming' = Coming
           /\ queue' \in Seq(Event)
<1> DEFINE e == KeyEvent(k, k \notin physical)
<1>1. /\ queue \in Seq(Event) /\ active \in BOOLEAN /\ wasActive \in BOOLEAN
  BY DEF TypeOK
<1>2. e \in Event /\ e.kind = "key" /\ e.key = k /\ e.down = (k \notin physical)
  BY EventsAre DEF KeyEvent
<1>3. /\ queue' = IF active THEN Append(queue, e) ELSE queue
      /\ host' = host /\ active' = active /\ wasActive' = wasActive
  BY DEF Strike
<1> HIDE DEF e
<1>4. Append(queue, e) \in Seq(Event)
  BY <1>1, <1>2, AppendProperties
<1>5. <<FocusEvent(TRUE)>> \o Append(queue, e) = Append(<<FocusEvent(TRUE)>> \o queue, e)
  BY <1>1, <1>2, EventsAre, PrependAppend
<1>6. /\ ~active => Coming' = Coming
  BY <1>3 DEF Coming
<1>7. ASSUME active PROVE Coming' = Append(Coming, e)
  <2>1. queue' = Append(queue, e)
    BY <1>3, <1>7
  <2>2. CASE host = "window"
    BY <1>3, <2>1, <2>2 DEF Coming
  <2>3. CASE host = "tty" /\ active = wasActive
    <3>1. Coming = queue
      BY <1>7, <2>3, ComingIs
    <3>2. Coming' = queue'
      BY <1>3, <1>7, <2>3 DEF Coming
    <3>3. QED
      BY <2>1, <3>1, <3>2
  <2>4. CASE host = "tty" /\ active # wasActive
    <3>1. Coming = <<FocusEvent(TRUE)>> \o queue
      BY <1>7, <2>4, ComingIs
    <3>2. Coming' = <<FocusEvent(TRUE)>> \o queue'
      BY <1>3, <1>7, <2>4 DEF Coming
    <3>3. QED
      BY <1>5, <2>1, <3>1, <3>2
  <2>5. QED
    BY <2>2, <2>3, <2>4, ComingIs
<1>8. QED
  BY <1>1, <1>2, <1>3, <1>4, <1>6, <1>7

\* The host gives or takes the focus.
LEMMA ActivityIs ==
  ASSUME TypeOK, ChangeActivity
  PROVE  /\ queue' \in Seq(Event) /\ active' \in BOOLEAN /\ lapse' \in BOOLEAN
         /\ stage = "poll" /\ active' = ~active /\ (lapse => lapse')
         /\ host = "window" =>
              /\ lapse' = lapse
              /\ queue' = Append(queue, FocusEvent(active')) /\ Coming' = queue'
              /\ FocusEvent(active') \in {FocusEvent(TRUE), Loss} /\ FocusEvent(active') \in Event
              /\ ~active' => FocusEvent(active') = Loss
         /\ host = "tty" =>
              /\ queue' = queue /\ (active' = wasActive => lapse')
              /\ active' # wasActive =>
                   Coming' = IF active' THEN <<FocusEvent(TRUE)>> \o queue ELSE <<Loss>>
<1>1. /\ queue \in Seq(Event) /\ active \in BOOLEAN /\ wasActive \in BOOLEAN
      /\ lapse \in BOOLEAN /\ host \in {"tty", "window"}
  BY HostsAssumption DEF TypeOK
<1>2. /\ stage = "poll" /\ active' = ~active /\ host' = host /\ wasActive' = wasActive
      /\ lapse' = (lapse \/ (host = "tty" /\ active' = wasActive))
      /\ queue' = IF host = "window" THEN Append(queue, FocusEvent(active')) ELSE queue
  BY DEF ChangeActivity
<1>3. active' \in BOOLEAN /\ FocusEvent(active') \in Event
  BY <1>1, <1>2, EventsAre
<1>4. Append(queue, FocusEvent(active')) \in Seq(Event)
  BY <1>1, <1>3, AppendProperties
<1>5. /\ FocusEvent(active') \in {FocusEvent(TRUE), Loss}
      /\ ~active' => FocusEvent(active') = Loss
  BY <1>3 DEF FocusEvent, Loss
<1>6. host = "window" => Coming' = queue'
  BY <1>2 DEF Coming
<1>7. host = "tty" /\ active' # wasActive =>
        Coming' = IF active' THEN <<FocusEvent(TRUE)>> \o queue' ELSE <<FocusEvent(FALSE)>>
  BY <1>1, <1>2 DEF Coming
<1>8. QED
  BY <1>1, <1>2, <1>3, <1>4, <1>5, <1>6, <1>7 DEF Loss

\* The protocol world goes through the frame.
LEMMA PresentIs ==
  ASSUME IInv, Present
  PROVE  \E o \in PassState :
           /\ TakenTrue(o)
           /\ compiled # <<>> => Same(o.filter.keys, HeardAll(filter.keys, frame))
           /\ compiled # <<>> /\ (~lapse \/ Lost(frame, Len(frame))) => DownTrue(o)
           /\ compiled = <<>> => o.filter = filter
           /\ frame = <<>> => o = Passed
           /\ filter' = o.filter /\ seat' \in SeatState
           /\ seat'.host = o.seat.host /\ seat'.held = o.seat.held
           /\ seat'.cached = IF o.seat.host THEN focus ELSE None
           /\ seat'.focus = Lookup(seat'.cached)
           /\ told' = o.told /\ withheld' = o.withheld /\ excused' = o.excused
<1>1. stage = "present" /\ TypeOK /\ BindingsTrue /\ FilterTrue /\ SeatTrue
  BY DEF IInv, Present
<1>2. /\ frame \in Seq(Event) /\ focus \in Focusable /\ alive \subseteq Surface /\ lapse \in BOOLEAN
      /\ filter \in FilterState /\ seat \in SeatState
      /\ withheld \in SUBSET Key /\ excused \in SUBSET Key /\ {} \in SUBSET ToldKey
  BY <1>1 DEF TypeOK, FilterState, SeatState
<1>3. /\ TakenTrue(Passed) /\ (~lapse => DownTrue(Passed)) /\ told = {}
      /\ Fresh(filter.keys, frame, ~lapse)
  BY <1>1 DEF SeatTrue, FilterTrue
<1>4. Passed = Start
  BY <1>3 DEF Passed, Start
<1>5. Start \in PassState
  BY <1>2 DEF Start, PassState
<1>6. Start.filter = filter
  BY DEF Start
<1>7. After(filter.keys, frame, 0) = filter.keys /\ After(filter.keys, frame, Len(frame)) = HeardAll(filter.keys, frame)
  BY <1>2, AfterSteps
<1>8. ~Lost(frame, 0)
  BY DEF Lost
<1>9. ThereAfter(Start, 0)
  BY <1>3, <1>4, <1>5, <1>6, <1>7, <1>8 DEF ThereAfter, Same
<1>10. ThereAfter(Outcome, Len(frame)) /\ (frame = <<>> => Outcome = Start)
  BY <1>1, <1>3, <1>9, FrameGoesBy
<1>11. /\ filter' = Outcome.filter /\ seat' = Synced(Outcome.seat)
       /\ told' = Outcome.told /\ withheld' = Outcome.withheld /\ excused' = Outcome.excused
  BY DEF Present
<1>12. Outcome \in PassState /\ TakenTrue(Outcome)
  BY <1>10 DEF ThereAfter
<1>13. Outcome.seat \in SeatState /\ Outcome.seat.focus = Lookup(Outcome.seat.cached)
  BY <1>12 DEF PassState, TakenTrue
<1>14. /\ seat' \in SeatState
       /\ seat'.host = Outcome.seat.host /\ seat'.held = Outcome.seat.held
       /\ seat'.cached = IF Outcome.seat.host THEN focus ELSE None
       /\ seat'.focus = Lookup(seat'.cached)
  BY <1>2, <1>11, <1>13, SyncedIs
<1>15. /\ compiled # <<>> => Same(Outcome.filter.keys, HeardAll(filter.keys, frame))
       /\ compiled # <<>> /\ (~lapse \/ Lost(frame, Len(frame))) => DownTrue(Outcome)
       /\ compiled = <<>> => Outcome.filter = filter
  BY <1>7, <1>10 DEF ThereAfter
<1>16. QED
  BY <1>4, <1>10, <1>11, <1>12, <1>14, <1>15

LEMMA TypesKept ==
  ASSUME IInv, [Next]_vars
  PROVE  TypeOK'
<1>1. TypeOK /\ BindingsTrue
  BY DEF IInv
<1>2. ASSUME NEW k \in Key, Strike(k) PROVE TypeOK'
  <2>1. queue' \in Seq(Event)
    BY <1>1, <1>2, StrikeIs
  <2>2. QED
    BY <1>1, <1>2, <2>1 DEF Strike, TypeOK, main, history
<1>3. CASE ChangeActivity
  <2>1. queue' \in Seq(Event) /\ active' \in BOOLEAN /\ lapse' \in BOOLEAN
    BY <1>1, <1>3, ActivityIs
  <2>2. QED
    BY <1>1, <1>3, <2>1 DEF ChangeActivity, TypeOK, main
<1>4. ASSUME NEW s \in Surface, DestroySurface(s) PROVE TypeOK'
  <2>1. alive' \subseteq Surface
    BY <1>1, <1>4 DEF DestroySurface, TypeOK
  <2>2. seat' \in [host : BOOLEAN, cached : Focusable, focus : Focusable, held : SUBSET Key]
    <3>1. seat \in [host : BOOLEAN, cached : Focusable, focus : Focusable, held : SUBSET Key]
      BY <1>1 DEF TypeOK
    <3>2. None \in Focusable
      BY DEF Focusable
    <3>3. seat' = seat \/ seat' = [seat EXCEPT !.focus = None]
      BY <1>4 DEF DestroySurface
    <3>4. QED
      BY <3>1, <3>2, <3>3
  <2>3. QED
    BY <1>1, <1>4, <2>1, <2>2 DEF DestroySurface, TypeOK, backend, main, history
<1>5. ASSUME NEW b \in Overrides, Reload(b) PROVE TypeOK'
  BY <1>1, <1>5 DEF Reload, TypeOK, outside, backend, history
<1>6. CASE Extract
  <2>1. frame' \in Seq(Event)
    BY <1>1, <1>6, ComingTyped DEF Extract
  <2>2. queue' \in Seq(Event)
    BY <1>6, EmptySeq DEF Extract
  <2>3. QED
    BY <1>1, <1>6, <2>1, <2>2 DEF Extract, TypeOK, outside, main
<1>7. CASE Main
  <2>1. keys' \in Tracker
    <3>1. keys \in Tracker /\ frame \in Seq(Event)
      BY <1>1 DEF TypeOK
    <3>2. QED
      BY <1>7, <3>1, AfterTyped DEF Main
  <2>2. compiled' \in {<<>>} \cup [Shortcut -> Combination]
    BY <1>1, <1>7, CompiledIs DEF Main
  <2>3. DOMAIN compiled' \subseteq Shortcut
    BY <2>2
  <2>4. on' \subseteq Shortcut /\ fired' \subseteq Shortcut
    BY <1>7, <2>3 DEF Main
  <2>5. focus' \in Focusable
    BY <1>1, <1>7 DEF Main, TypeOK, Focusable
  <2>6. QED
    BY <1>1, <1>7, <2>1, <2>2, <2>4, <2>5 DEF Main, TypeOK, outside, backend, history
<1>8. CASE Present
  <2>1. PICK o \in PassState :
           /\ filter' = o.filter /\ seat' \in SeatState
           /\ told' = o.told /\ withheld' = o.withheld /\ excused' = o.excused
    BY <1>8, PresentIs
  <2>2. /\ filter' \in [keys : Tracker, consumed : SUBSET Key]
        /\ told' \subseteq [key : Key, down : BOOLEAN, to : Focusable, taken : BOOLEAN]
        /\ withheld' \subseteq Key /\ excused' \subseteq Key
    BY <2>1 DEF PassState, FilterState, ToldKey
  <2>3. seat' \in [host : BOOLEAN, cached : Focusable, focus : Focusable, held : SUBSET Key]
    BY <2>1 DEF SeatState
  <2>4. keys' \in Tracker
    BY <1>1, <1>8, SettledIs DEF Present, TypeOK
  <2>5. frame' \in Seq(Event)
    BY <1>8, EmptySeq DEF Present
  <2>6. lapse' \in BOOLEAN
    BY <1>1, <1>8 DEF Present, TypeOK
  <2>7. QED
    BY <1>1, <1>8, <2>2, <2>3, <2>4, <2>5, <2>6 DEF Present, TypeOK, outside
<1>9. CASE UNCHANGED vars
  BY <1>1, <1>9 DEF vars, outside, backend, main, history, TypeOK
<1>10. QED
  BY <1>2, <1>3, <1>4, <1>5, <1>6, <1>7, <1>8, <1>9 DEF Next

\* What every other step does to the events: nothing before the frame, Extract, Main, Present.
Still ==
  /\ UNCHANGED <<host, stage, physical, active, wasActive, queue, frame, lapse, keys, compiled, on>>
  /\ UNCHANGED <<filter, focus, told, withheld, excused>>

LEMMA StillIs ==
  ASSUME TypeOK,
         \/ \E s \in Surface : DestroySurface(s)
         \/ \E b \in Overrides : Reload(b)
         \/ UNCHANGED vars
  PROVE  Still /\ Coming' = Coming
<1>1. Still
  BY DEF Still, DestroySurface, Reload, vars, outside, backend, main, history
<1>2. QED
  BY <1>1 DEF Still, Coming

LEMMA TurnsKept ==
  ASSUME IInv, [Next]_vars
  PROVE  Turns'
<1>1. TypeOK /\ Turns
  BY DEF IInv
<1>2. /\ queue \in Seq(Event) /\ DOMAIN queue = 1 .. Len(queue) /\ Len(queue) \in Nat
      /\ active \in BOOLEAN /\ wasActive \in BOOLEAN
  BY <1>1, LenProperties DEF TypeOK
<1>3. ~Lost(<<>>, Len(<<>>)) /\ DOMAIN <<>> = {}
  BY EmptySeq DEF Lost
<1>4. ASSUME NEW k \in Key, Strike(k) PROVE Turns'
  <2>1. PICK e \in Event :
           /\ e.kind = "key" /\ (active => queue' = Append(queue, e)) /\ (~active => queue' = queue)
    BY <1>1, <1>4, StrikeIs
  <2>2. host = "tty" => \A i \in DOMAIN queue' : queue'[i].kind = "key"
    <3>1. host = "tty" => \A i \in DOMAIN queue : queue[i].kind = "key"
      BY <1>1 DEF Turns
    <3>2. /\ DOMAIN Append(queue, e) = 1 .. Len(queue) + 1
          /\ \A i \in 1 .. Len(queue) : Append(queue, e)[i] = queue[i]
          /\ Append(queue, e)[Len(queue) + 1] = e
      BY <1>2, AppendProperties, LenProperties
    <3>3. \A i \in 1 .. Len(queue) + 1 : i \in 1 .. Len(queue) \/ i = Len(queue) + 1
      BY <1>2
    <3>4. host = "tty" => \A i \in DOMAIN Append(queue, e) : Append(queue, e)[i].kind = "key"
      BY <1>2, <2>1, <3>1, <3>2, <3>3
    <3>5. CASE active
      BY <2>1, <3>4, <3>5
    <3>6. CASE ~active
      BY <2>1, <3>1, <3>6
    <3>7. QED
      BY <1>2, <3>5, <3>6
  <2>3. UNCHANGED <<host, stage, active, wasActive, frame, lapse>> /\ stage = "poll"
    BY <1>4 DEF Strike, history
  <2>4. QED
    BY <1>1, <2>1, <2>2, <2>3 DEF Turns
<1>5. CASE ChangeActivity
  <2>1. UNCHANGED <<host, stage, wasActive, frame>> /\ stage = "poll"
    BY <1>5 DEF ChangeActivity
  <2>2. /\ active' = ~active /\ (lapse => lapse')
        /\ host = "tty" => queue' = queue /\ (active' = wasActive => lapse')
    BY <1>1, <1>5, ActivityIs
  <2>3. QED
    BY <1>1, <1>2, <2>1, <2>2 DEF Turns
<1>6. CASE \/ \E s \in Surface : DestroySurface(s)
           \/ \E b \in Overrides : Reload(b)
           \/ UNCHANGED vars
  <2>1. Still
    BY <1>1, <1>6, StillIs
  <2>2. QED
    BY <1>1, <2>1 DEF Still, Turns
<1>7. CASE Extract
  <2>1. /\ stage' = "main" /\ host' = host /\ active' = active /\ wasActive' = active
        /\ queue' = <<>> /\ frame' = Coming
    BY <1>7 DEF Extract, outside
  <2>2. host = "tty" /\ Lost(Coming, Len(Coming)) => Coming = <<Loss>>
    BY <1>1, OneLoss
  <2>3. QED
    BY <1>3, <2>1, <2>2 DEF Turns
<1>8. CASE Main
  <2>1. UNCHANGED <<host, active, wasActive, queue, frame, lapse>> /\ stage = "main" /\ stage' = "present"
    BY <1>8 DEF Main, outside, backend, history
  <2>2. QED
    BY <1>1, <2>1 DEF Turns
<1>9. CASE Present
  <2>1. /\ UNCHANGED <<host, active, wasActive, queue>> /\ stage = "present" /\ stage' = "poll"
        /\ frame' = <<>>
    BY <1>9 DEF Present, outside
  <2>2. QED
    BY <1>1, <1>3, <2>1 DEF Turns
<1>10. QED
  BY <1>4, <1>5, <1>6, <1>7, <1>8, <1>9 DEF Next

LEMMA BindingsKept ==
  ASSUME IInv, [Next]_vars
  PROVE  BindingsTrue'
<1>1. TypeOK /\ BindingsTrue
  BY DEF IInv
<1>2. CASE Main
  <2>1. compiled' = Compiled
    BY <1>2 DEF Main
  <2>2. \A id \in DOMAIN Compiled :
          /\ Compiled[id].key = None => Compiled[id].mods # {}
          /\ Trigger[id] # "press" => Compiled[id].key \in Ending \cup {None}
    BY <1>1, CompiledIs
  <2>3. QED
    BY <2>1, <2>2 DEF BindingsTrue
<1>3. CASE compiled' = compiled
  BY <1>1, <1>3 DEF BindingsTrue
<1>4. Main \/ compiled' = compiled
  BY DEF Next, Strike, ChangeActivity, DestroySurface, Reload, Extract, Present, main, vars
<1>5. QED
  BY <1>2, <1>3, <1>4

LEMMA IdleKept ==
  ASSUME IInv, [Next]_vars
  PROVE  IdleTrue'
<1>1. TypeOK /\ Turns /\ IdleTrue
  BY DEF IInv
<1>2. /\ queue \in Seq(Event) /\ frame \in Seq(Event)
      /\ active \in BOOLEAN /\ wasActive \in BOOLEAN /\ host \in {"tty", "window"}
  BY <1>1, HostsAssumption DEF TypeOK
<1>3. ASSUME NEW k \in Key, Strike(k) PROVE IdleTrue'
  <2>1. UNCHANGED <<host, stage, active, wasActive, keys>> /\ stage = "poll"
    BY <1>3 DEF Strike, main
  <2>2. ~active => queue' = queue
    BY <1>1, <1>3, StrikeIs
  <2>3. QED
    BY <1>1, <2>1, <2>2 DEF IdleTrue
<1>4. CASE ChangeActivity
  <2>1. UNCHANGED <<host, stage, wasActive, keys>> /\ stage = "poll"
    BY <1>4 DEF ChangeActivity, main
  <2>2. host = "window" /\ ~active' => queue' = Append(queue, Loss) /\ Loss \in Event
    BY <1>1, <1>4, ActivityIs, EventsAre
  <2>3. host = "window" /\ ~active' => HeardAll(keys, queue').held = {}
    <3>1. HeardAll(keys, Append(queue, Loss)) = Heard(HeardAll(keys, queue), Loss)
      BY <1>2, EventsAre, AfterAppend
    <3>2. Heard(HeardAll(keys, queue), Loss) = NoKeys /\ NoKeys.held = {}
      BY HeardFocus
    <3>3. QED
      BY <2>2, <3>1, <3>2
  <2>4. QED
    BY <1>1, <2>1, <2>3 DEF IdleTrue
<1>5. CASE \/ \E s \in Surface : DestroySurface(s)
           \/ \E b \in Overrides : Reload(b)
           \/ UNCHANGED vars
  <2>1. Still
    BY <1>1, <1>5, StillIs
  <2>2. QED
    BY <1>1, <2>1 DEF Still, IdleTrue
<1>6. CASE Extract
  <2>1. /\ stage = "poll" /\ stage' = "main" /\ active' = active /\ keys' = keys
        /\ frame' = Coming
    BY <1>6 DEF Extract, outside, main
  <2>2. ~active => HeardAll(keys, Coming).held = {}
    BY <1>1, <2>1, NothingHeld
  <2>3. QED
    BY <2>1, <2>2 DEF IdleTrue
<1>7. CASE Main
  <2>1. /\ active' = active /\ stage = "main" /\ stage' = "present" /\ keys' = HeardAll(keys, frame)
    BY <1>7 DEF Main, outside
  <2>2. QED
    BY <1>1, <2>1 DEF IdleTrue
<1>8. CASE Present
  <2>1. /\ UNCHANGED <<host, active, wasActive, queue>> /\ stage = "present" /\ stage' = "poll"
        /\ keys' = Settled(keys)
    BY <1>8 DEF Present, outside
  <2>2. queue = <<>> /\ active = wasActive /\ (~active => keys.held = {})
    BY <1>1, <2>1 DEF Turns, IdleTrue
  <2>3. Settled(keys).held = keys.held
    BY <1>1, SettledIs DEF TypeOK
  <2>4. HeardAll(keys', queue') = keys'
    BY <2>1, <2>2, HeardNothing
  <2>5. QED
    BY <2>1, <2>2, <2>3, <2>4 DEF IdleTrue
<1>9. QED
  BY <1>3, <1>4, <1>5, <1>6, <1>7, <1>8 DEF Next

LEMMA HeardKept ==
  ASSUME IInv, [Next]_vars
  PROVE  HeardTrue'
<1>1. TypeOK /\ Turns /\ HeardTrue /\ IdleTrue
  BY DEF IInv
<1>2. /\ Coming \in Seq(Event) /\ frame \in Seq(Event) /\ queue \in Seq(Event)
      /\ active \in BOOLEAN /\ wasActive \in BOOLEAN /\ host \in {"tty", "window"}
  BY <1>1, ComingTyped, HostsAssumption DEF TypeOK
<1>3. ASSUME NEW k \in Key, Strike(k) PROVE HeardTrue'
  <2>1. /\ UNCHANGED <<host, stage, keys, lapse>> /\ stage = "poll"
        /\ physical' = IF k \in physical THEN physical \ {k} ELSE physical \cup {k}
    BY <1>3 DEF Strike, main, history
  <2>2. PICK e \in Event :
          /\ e.kind = "key" /\ e.key = k /\ e.down = (k \notin physical)
          /\ active => Coming' = Append(Coming, e)
          /\ ~active => Coming' = Coming
    BY <1>1, <1>3, StrikeIs
  <2>3. SUFFICES ASSUME Known
                 PROVE  HeardAll(keys, Coming').held \subseteq physical' /\ Fresh(keys, Coming', TRUE)
    BY <2>1 DEF HeardTrue, Known
  <2> DEFINE h == HeardAll(keys, Coming)
  <2>4. h.held \subseteq physical /\ Fresh(keys, Coming, TRUE)
    BY <1>1, <2>1, <2>3 DEF HeardTrue
  <2>5. ~active => h.held = {}
    BY <1>1, <2>1, NothingHeld
  <2>6. /\ HeardAll(keys, Append(Coming, e)) = Heard(h, e)
    BY <1>2, <2>2, AfterAppend
  <2>7. Heard(h, e).held = IF k \in physical THEN h.held \ {k} ELSE h.held \cup {k}
    BY <2>2 DEF Heard, Recorded
  <2>8. Press(e) => e.key \notin h.held
    BY <2>2, <2>4 DEF Press
  <2>9. Fresh(keys, Append(Coming, e), TRUE)
    BY <1>2, <2>2, <2>4, <2>8, FreshAppend
  <2> HIDE DEF h
  <2>10. CASE active
    BY <2>1, <2>2, <2>4, <2>6, <2>7, <2>9, <2>10
  <2>11. CASE ~active
    BY <2>1, <2>2, <2>4, <2>5, <2>11 DEF h
  <2>12. QED
    BY <1>2, <2>10, <2>11
<1>4. CASE ChangeActivity
  <2>1. UNCHANGED <<host, stage, wasActive, keys, physical>> /\ stage = "poll"
    BY <1>4 DEF ChangeActivity, main
  <2>2. SUFFICES ASSUME Known'
                 PROVE  HeardAll(keys, Coming').held \subseteq physical /\ Fresh(keys, Coming', TRUE)
    BY <2>1 DEF HeardTrue
  <2>3. CASE host = "window"
    <3>1. /\ FocusEvent(active') \in {FocusEvent(TRUE), Loss} /\ FocusEvent(active') \in Event
          /\ Coming' = Append(queue, FocusEvent(active')) /\ Coming = queue
      BY <1>1, <1>4, <2>3, ActivityIs, ComingIs
    <3>2. PICK e \in {FocusEvent(TRUE), Loss} : e \in Event /\ Coming' = Append(Coming, e)
      BY <3>1
    <3>3. HeardAll(keys, Coming).held \subseteq physical /\ Fresh(keys, Coming, TRUE)
      BY <1>1, <2>1, <2>3 DEF HeardTrue, Known
    <3>4. HeardAll(keys, Append(Coming, e)) = Heard(HeardAll(keys, Coming), e)
      BY <1>2, <3>2, AfterAppend
    <3>5. ~Press(e)
      BY <3>2 DEF Press, Loss, FocusEvent
    <3>6. Fresh(keys, Append(Coming, e), TRUE)
      BY <1>2, <3>2, <3>3, <3>5, FreshAppend
    <3>7. Heard(HeardAll(keys, Coming), e) \in {NoKeys, HeardAll(keys, Coming)} /\ NoKeys.held = {}
      BY <3>2, HeardFocus
    <3>8. QED
      BY <3>2, <3>3, <3>4, <3>6, <3>7
  <2>4. CASE host = "tty"
    <3>1. ~lapse' /\ ~lapse /\ active' # wasActive /\ active' = ~active
      BY <1>1, <1>4, <2>1, <2>2, <2>4, ActivityIs DEF Known
    <3>2. Coming' = IF active' THEN <<FocusEvent(TRUE)>> \o queue ELSE <<Loss>>
      BY <1>1, <1>4, <2>4, <3>1, ActivityIs
    <3>3. CASE active'
      <4>1. ~active /\ ~wasActive
        BY <1>2, <3>1, <3>3
      <4>2. queue = <<>> /\ keys.held = {}
        BY <1>1, <2>1, <2>4, <3>1, <4>1 DEF Turns, IdleTrue
      <4>3. Coming' = <<FocusEvent(TRUE)>>
        <5>1. <<FocusEvent(TRUE)>> \o <<>> = <<FocusEvent(TRUE)>>
          BY EventsAre, ConcatEmptySeq
        <5>2. QED
          BY <3>2, <3>3, <4>2, <5>1
      <4>4. HeardAll(keys, <<FocusEvent(TRUE)>>) = keys
        BY HeardFocus
      <4>5. ~Press(FocusEvent(TRUE))
        BY DEF Press, FocusEvent
      <4>6. Fresh(keys, <<FocusEvent(TRUE)>>, TRUE)
        BY <4>5, EventsAre, FreshOne
      <4>7. QED
        BY <4>2, <4>3, <4>4, <4>6
    <3>4. CASE ~active'
      <4>1. Coming' = <<Loss>>
        BY <3>2, <3>4
      <4>2. HeardAll(keys, <<Loss>>) = NoKeys /\ NoKeys.held = {}
        BY HeardFocus
      <4>3. ~Press(Loss)
        BY DEF Press, Loss, FocusEvent
      <4>4. Fresh(keys, <<Loss>>, TRUE)
        BY <4>3, EventsAre, FreshOne
      <4>5. QED
        BY <4>1, <4>2, <4>4
    <3>5. QED
      BY <3>3, <3>4
  <2>5. QED
    BY <1>2, <2>3, <2>4
<1>5. CASE \/ \E s \in Surface : DestroySurface(s)
           \/ \E b \in Overrides : Reload(b)
           \/ UNCHANGED vars
  <2>1. Still /\ Coming' = Coming
    BY <1>1, <1>5, StillIs
  <2>2. QED
    BY <1>1, <2>1 DEF Still, HeardTrue, Known
<1>6. CASE Extract
  <2>1. /\ stage = "poll" /\ stage' = "main" /\ frame' = Coming
        /\ UNCHANGED <<host, keys, physical, lapse>>
    BY <1>6 DEF Extract, outside, main
  <2>2. SUFFICES ASSUME Known \/ Lost(Coming, Len(Coming))
                 PROVE  HeardAll(keys, Coming).held \subseteq physical /\ Fresh(keys, Coming, TRUE)
    BY <2>1 DEF HeardTrue, Known
  <2>3. CASE Known
    BY <1>1, <2>1, <2>3 DEF HeardTrue
  <2>4. CASE ~Known
    <3>1. Coming = <<Loss>>
      BY <1>1, <1>2, <2>2, <2>4, OneLoss DEF Known
    <3>2. HeardAll(keys, <<Loss>>) = NoKeys /\ NoKeys.held = {}
      BY HeardFocus
    <3>3. ~Press(Loss)
      BY DEF Press, Loss, FocusEvent
    <3>4. Fresh(keys, <<Loss>>, TRUE)
      BY <3>3, EventsAre, FreshOne
    <3>5. QED
      BY <3>1, <3>2, <3>4
  <2>5. QED
    BY <2>3, <2>4
<1>7. CASE Main
  <2>1. /\ UNCHANGED <<host, physical, frame, lapse>> /\ stage = "main" /\ stage' = "present"
        /\ keys' = HeardAll(keys, frame)
    BY <1>7 DEF Main, outside, backend, history
  <2>2. QED
    BY <1>1, <2>1 DEF HeardTrue, Known
<1>8. CASE Present
  <2>1. /\ UNCHANGED <<host, active, wasActive, queue, physical>> /\ stage = "present" /\ stage' = "poll"
        /\ keys' = Settled(keys)
        /\ lapse' = IF compiled = <<>> THEN lapse \/ frame # <<>>
                    ELSE lapse /\ FocusEvent(FALSE) \notin ToSet(frame)
    BY <1>8 DEF Present, outside
  <2>2. SUFFICES ASSUME Known'
                 PROVE  HeardAll(keys', Coming').held \subseteq physical /\ Fresh(keys', Coming', TRUE)
    BY <2>1 DEF HeardTrue
  <2>3. queue = <<>> /\ active = wasActive
    BY <1>1, <2>1 DEF Turns
  <2>4. Coming' = <<>>
    BY <1>2, <2>1, <2>3 DEF Coming
  <2>5. FocusEvent(FALSE) \in ToSet(frame) => Lost(frame, Len(frame))
    BY <1>2, LenProperties DEF ToSet, Lost, Loss
  <2>6. Known \/ Lost(frame, Len(frame))
    BY <2>1, <2>2, <2>5 DEF Known
  <2>7. keys.held \subseteq physical
    BY <1>1, <2>1, <2>6 DEF HeardTrue
  <2>8. Settled(keys).held = keys.held
    BY <1>1, SettledIs DEF TypeOK
  <2>9. QED
    BY <2>1, <2>4, <2>7, <2>8, HeardNothing, FreshNothing
<1>9. QED
  BY <1>3, <1>4, <1>5, <1>6, <1>7, <1>8 DEF Next

LEMMA FilterKept ==
  ASSUME IInv, [Next]_vars
  PROVE  FilterTrue'
<1>1. TypeOK /\ Turns /\ HeardTrue /\ FilterTrue
  BY DEF IInv
<1>2. frame \in Seq(Event) /\ DOMAIN frame = 1 .. Len(frame) /\ Len(frame) \in Nat
  BY <1>1, LenProperties DEF TypeOK
<1>3. ASSUME NEW k \in Key, Strike(k) PROVE FilterTrue'
  <2>1. UNCHANGED <<stage, keys, filter, lapse>> /\ stage = "poll"
    BY <1>3 DEF Strike, main, history
  <2>2. QED
    BY <1>1, <2>1 DEF FilterTrue
<1>4. CASE ChangeActivity
  <2>1. UNCHANGED <<stage, keys, filter>> /\ stage = "poll" /\ (lapse => lapse')
    BY <1>4 DEF ChangeActivity, main
  <2>2. QED
    BY <1>1, <2>1 DEF FilterTrue
<1>5. CASE \/ \E s \in Surface : DestroySurface(s)
           \/ \E b \in Overrides : Reload(b)
           \/ UNCHANGED vars
  <2>1. Still
    BY <1>1, <1>5, StillIs
  <2>2. QED
    BY <1>1, <2>1 DEF Still, FilterTrue
<1>6. CASE Extract
  <2>1. UNCHANGED <<keys, filter, lapse>> /\ stage = "poll" /\ stage' = "main"
    BY <1>6 DEF Extract, main
  <2>2. QED
    BY <1>1, <2>1 DEF FilterTrue
<1>7. CASE Main
  <2>1. /\ UNCHANGED <<filter, frame, lapse>> /\ stage = "main" /\ stage' = "present"
        /\ keys' = HeardAll(keys, frame)
    BY <1>7 DEF Main, backend, history
  <2>2. ~lapse => Same(keys, filter.keys)
    BY <1>1, <2>1 DEF FilterTrue
  <2>3. ~lapse \/ Lost(frame, Len(frame)) => Same(HeardAll(keys, frame), HeardAll(filter.keys, frame))
    BY <1>2, <2>2, SameHeardAll
  <2>4. ASSUME NEW i \in DOMAIN frame, Press(frame[i]), ~lapse \/ Lost(frame, i - 1)
        PROVE  frame[i].key \notin After(filter.keys, frame, i - 1).held
    <3>1. i \in 1 .. Len(frame) /\ i - 1 \in 0 .. Len(frame)
      BY <1>2, <2>4
    <3>2. Known \/ Lost(frame, Len(frame))
      BY <1>2, <2>4, <3>1 DEF Known, Lost
    <3>3. Fresh(keys, frame, TRUE)
      BY <1>1, <2>1, <3>2 DEF HeardTrue
    <3>4. frame[i].key \notin After(keys, frame, i - 1).held
      BY <2>4, <3>3, FreshAfter
    <3>5. Same(After(keys, frame, i - 1), After(filter.keys, frame, i - 1))
      BY <1>2, <2>2, <2>4, <3>1, SameAfter
    <3>6. QED
      BY <3>4, <3>5 DEF Same
  <2>5. Fresh(filter.keys, frame, ~lapse)
    BY <2>4, FreshAfter
  <2>6. QED
    BY <2>1, <2>3, <2>5 DEF FilterTrue
<1>8. CASE Present
  <2>1. /\ stage = "present" /\ stage' = "poll" /\ keys' = Settled(keys)
        /\ lapse' = IF compiled = <<>> THEN lapse \/ frame # <<>>
                    ELSE lapse /\ FocusEvent(FALSE) \notin ToSet(frame)
    BY <1>8 DEF Present
  <2>2. SUFFICES ASSUME ~lapse' PROVE Same(keys', filter'.keys)
    BY <2>1 DEF FilterTrue
  <2>3. FocusEvent(FALSE) \in ToSet(frame) => Lost(frame, Len(frame))
    BY <1>2 DEF ToSet, Lost, Loss
  <2>4. ~lapse \/ Lost(frame, Len(frame))
    BY <2>1, <2>2, <2>3
  <2>5. Same(keys, HeardAll(filter.keys, frame))
    BY <1>1, <2>1, <2>4 DEF FilterTrue
  <2>6. Settled(keys).held = keys.held /\ Settled(keys).mods = keys.mods
    BY <1>1, SettledIs DEF TypeOK
  <2>7. /\ compiled # <<>> => Same(filter'.keys, HeardAll(filter.keys, frame))
        /\ compiled = <<>> => filter' = filter
    BY <1>8, PresentIs
  <2>8. compiled = <<>> => HeardAll(filter.keys, frame) = filter.keys
    BY <2>1, <2>2, HeardNothing
  <2>9. QED
    BY <2>1, <2>5, <2>6, <2>7, <2>8 DEF Same
<1>9. QED
  BY <1>3, <1>4, <1>5, <1>6, <1>7, <1>8 DEF Next

LEMMA HoldsKept ==
  ASSUME IInv, [Next]_vars
  PROVE  HoldsTrue'
<1>1. TypeOK /\ HoldsTrue
  BY DEF IInv
<1>2. CASE Main
  <2>1. /\ keys' = HeardAll(keys, frame)
        /\ on' = {id \in DOMAIN compiled' : Holds(keys', compiled'[id])}
    BY <1>2 DEF Main
  <2>2. keys \in Tracker /\ frame \in Seq(Event) /\ ModsHeld(keys)
    BY <1>1 DEF TypeOK, HoldsTrue
  <2>3. ModsHeld(HeardAll(keys, frame))
    BY <2>2, AfterModsHeld
  <2>4. QED
    BY <2>1, <2>3 DEF HoldsTrue
<1>3. CASE Present
  <2>1. keys' = Settled(keys) /\ compiled' = compiled /\ on' = on
    BY <1>3 DEF Present
  <2>2. Settled(keys).held = keys.held /\ Settled(keys).mods = keys.mods
    BY <1>1, SettledIs DEF TypeOK
  <2>3. QED
    BY <1>1, <2>1, <2>2 DEF HoldsTrue, ModsHeld, Holds
<1>4. CASE UNCHANGED <<keys, on, compiled>>
  BY <1>1, <1>4 DEF HoldsTrue
<1>5. QED
  BY <1>2, <1>3, <1>4
  DEF Next, Strike, ChangeActivity, DestroySurface, Reload, Extract, main, vars

LEMMA HoldsIs ==
  ASSUME NEW p, NEW c
  PROVE  Holds(p, c) \in BOOLEAN
<1>1. CASE c.key = None
  BY <1>1 DEF Holds
<1>2. CASE c.key # None
  BY <1>2 DEF Holds
<1>3. QED
  BY <1>1, <1>2

LEMMA FiredKept ==
  ASSUME IInv, [Next]_vars
  PROVE  FiredTrue'
<1>1. TypeOK /\ FilterTrue /\ HoldsTrue /\ FiredTrue /\ SeatTrue
  BY DEF IInv
<1>2. CASE Main
  <2>1. /\ stage = "main" /\ stage' = "present" /\ UNCHANGED <<filter, frame, lapse, config, configChanged>>
        /\ keys' = HeardAll(keys, frame) /\ compiled' = Compiled
        /\ fired' = {id \in DOMAIN compiled' : Triggered(id, keys', compiled'[id], id \in on)}
    BY <1>2 DEF Main, backend, history
  <2>2. ~lapse => keys = filter.keys
    <3>1. keys \in Tracker /\ filter.keys \in Tracker
      BY <1>1 DEF TypeOK
    <3>2. filter.keys.just = {} /\ filter.keys.gone = {}
      BY <1>1 DEF SeatTrue, TakenTrue, Passed
    <3>3. keys.just = {} /\ keys.gone = {}
      BY <1>1, <2>1 DEF FiredTrue
    <3>4. ~lapse => keys.held = filter.keys.held /\ keys.mods = filter.keys.mods
      BY <1>1, <2>1 DEF FilterTrue, Same
    <3>5. QED
      BY <3>1, <3>2, <3>3, <3>4 DEF Tracker
  <2>3. Compiled = IF Compiles(config) /\ (configChanged \/ compiled = <<>>)
                   THEN [id \in Shortcut |-> Combo(Binding(config, id))] ELSE compiled
    BY DEF Compiled
  <2>4. Compiled = <<>> /\ Compiles(config) => Shortcut = {}
    <3>1. DOMAIN <<>> = {}
      BY EmptySeq
    <3>2. QED
      BY <2>3, <3>1
  <2>5. ~configChanged => Compiled = compiled \/ DOMAIN Compiled = {}
    BY <1>1, <2>1, <2>3 DEF FiredTrue
  <2>6. ASSUME ~lapse, ~configChanged, NEW id \in fired'
        PROVE  /\ id \in DOMAIN compiled'
               /\ Triggered(id, keys', compiled'[id], Holds(filter.keys, compiled'[id]))
    <3>1. /\ id \in DOMAIN compiled' /\ compiled' = compiled
          /\ Triggered(id, keys', compiled'[id], id \in on)
      BY <2>1, <2>5, <2>6
    <3>2. id \in on <=> Holds(filter.keys, compiled'[id])
      BY <1>1, <2>2, <2>6, <3>1 DEF HoldsTrue
    <3>3. Trigger[id] \in {"press", "release", "hold"}
      BY <1>1, <3>1, BindingsAssumption DEF TypeOK
    <3> DEFINE P == id \in on
               Q == Holds(filter.keys, compiled'[id])
               H == Holds(keys', compiled'[id])
               only == compiled'[id].key = None
               pressed == compiled'[id].key \in keys'.just /\ keys'.mods = compiled'[id].mods
               released == compiled'[id].key \in keys'.gone /\ keys'.mods = compiled'[id].mods
    <3>4. CASE Trigger[id] = "press"
      <4>1. /\ Triggered(id, keys', compiled'[id], P) <=> IF only THEN H /\ ~P ELSE pressed
            /\ Triggered(id, keys', compiled'[id], Q) <=> IF only THEN H /\ ~Q ELSE pressed
        BY <3>4 DEF Triggered, PressTriggered
      <4>2. QED
        BY <3>1, <3>2, <4>1
    <3>5. CASE Trigger[id] = "release"
      <4>1. /\ Triggered(id, keys', compiled'[id], P) <=> IF only THEN ~H /\ P ELSE released
            /\ Triggered(id, keys', compiled'[id], Q) <=> IF only THEN ~H /\ Q ELSE released
        BY <3>5 DEF Triggered, ReleaseTriggered
      <4>2. QED
        BY <3>1, <3>2, <4>1
    <3>6. CASE Trigger[id] = "hold"
      <4>1. /\ Triggered(id, keys', compiled'[id], P) <=> (H # P)
            /\ Triggered(id, keys', compiled'[id], Q) <=> (H # Q)
        BY <3>6 DEF Triggered
      <4>2. H \in BOOLEAN /\ P \in BOOLEAN /\ Q \in BOOLEAN
        BY HoldsIs
      <4>3. P = Q
        BY <3>2, <4>2
      <4>4. QED
        BY <3>1, <4>1, <4>3
    <3>7. QED
      BY <3>3, <3>4, <3>5, <3>6
  <2>7. QED
    BY <2>1, <2>2, <2>4, <2>6 DEF FiredTrue
<1>3. CASE Present
  <2>1. /\ stage = "present" /\ stage' = "poll" /\ keys' = Settled(keys)
        /\ UNCHANGED <<compiled, config>>
    BY <1>3 DEF Present
  <2>2. Settled(keys).just = {} /\ Settled(keys).gone = {}
    BY <1>1, SettledIs DEF TypeOK
  <2>3. QED
    BY <1>1, <2>1, <2>2 DEF FiredTrue
<1>4. CASE /\ UNCHANGED <<keys, compiled>> /\ stage = "poll" /\ stage' # "present"
           /\ configChanged' \/ UNCHANGED <<config, configChanged>>
  BY <1>1, <1>4 DEF FiredTrue
<1>5. CASE UNCHANGED vars
  BY <1>1, <1>5 DEF FiredTrue, vars, main, backend, history
<1>6. QED
  BY <1>2, <1>3, <1>4, <1>5
  DEF Next, Strike, ChangeActivity, DestroySurface, Reload, Extract, main

\* Nothing the seat is about changes.
LEMMA SeatRests ==
  ASSUME SeatTrue, UNCHANGED <<stage, filter, seat, told, withheld, excused, compiled, focus, alive>>,
         lapse => lapse'
  PROVE  SeatTrue'
<1>1. Passed' = Passed
  BY DEF Passed
<1>2. QED
  BY <1>1 DEF SeatTrue, TakenTrue, DownTrue, Lookup

LEMMA SeatKept ==
  ASSUME IInv, [Next]_vars
  PROVE  SeatTrue'
<1>1. TypeOK /\ BindingsTrue /\ SeatTrue
  BY DEF IInv
<1>2. ASSUME NEW k \in Key, Strike(k) PROVE SeatTrue'
  <2>1. UNCHANGED <<stage, filter, seat, told, withheld, excused, compiled, focus, alive, lapse>>
    BY <1>2 DEF Strike, main, history
  <2>2. QED
    BY <1>1, <2>1, SeatRests
<1>3. CASE ChangeActivity
  <2>1. /\ UNCHANGED <<stage, filter, seat, told, withheld, excused, compiled, focus, alive>>
        /\ lapse => lapse'
    BY <1>3 DEF ChangeActivity, main
  <2>2. QED
    BY <1>1, <2>1, SeatRests
<1>4. ASSUME NEW b \in Overrides, Reload(b) PROVE SeatTrue'
  <2>1. UNCHANGED <<stage, filter, seat, told, withheld, excused, compiled, focus, alive, lapse>>
    BY <1>4 DEF Reload, outside, history
  <2>2. QED
    BY <1>1, <2>1, SeatRests
<1>5. CASE UNCHANGED vars
  <2>1. UNCHANGED <<stage, filter, seat, told, withheld, excused, compiled, focus, alive, lapse>>
    BY <1>5 DEF vars, outside, main, history
  <2>2. QED
    BY <1>1, <2>1, SeatRests
<1>6. ASSUME NEW s \in Surface, DestroySurface(s) PROVE SeatTrue'
  <2>1. /\ UNCHANGED <<stage, filter, told, withheld, excused, compiled, focus, lapse>>
        /\ alive' = alive \ {s}
        /\ seat' = IF seat.focus = s THEN [seat EXCEPT !.focus = None] ELSE seat
    BY <1>6 DEF DestroySurface, main, history
  <2>2. seat \in SeatState /\ s # None
    BY <1>1, KeysAssumption DEF TypeOK, SeatState
  <2>3. /\ seat'.host = seat.host /\ seat'.held = seat.held /\ seat'.cached = seat.cached
        /\ seat'.focus = IF seat.focus = s THEN None ELSE seat.focus
    <3>1. CASE seat.focus = s
      <4>1. seat' = [seat EXCEPT !.focus = None]
        BY <2>1, <3>1
      <4>2. QED
        BY <2>2, <3>1, <4>1 DEF SeatState
    <3>2. CASE seat.focus # s
      BY <2>1, <3>2
    <3>3. QED
      BY <3>1, <3>2
  <2> DEFINE P == [filter |-> filter, seat |-> seat', told |-> told, withheld |-> withheld,
                   excused |-> excused]
  <2>4. Passed' = P
    BY <2>1 DEF Passed
  <2>5. seat.focus = IF seat.cached \in alive THEN seat.cached ELSE None
    BY <1>1 DEF SeatTrue, TakenTrue, Passed, Lookup
  <2>6. seat'.focus = IF seat'.cached \in alive' THEN seat'.cached ELSE None
    BY <2>1, <2>2, <2>3, <2>5
  <2>7. TakenTrue(Passed)'
    BY <1>1, <2>1, <2>3, <2>6 DEF SeatTrue, TakenTrue, Passed, Lookup
  <2>8. ~lapse' => DownTrue(Passed)'
    BY <1>1, <2>1, <2>3 DEF SeatTrue, DownTrue, Passed
  <2>9. QED
    BY <1>1, <2>1, <2>3, <2>7, <2>8 DEF SeatTrue
<1>7. CASE Extract
  <2>1. /\ UNCHANGED <<filter, seat, withheld, excused, compiled, focus, alive, lapse>>
        /\ told' = {} /\ stage = "poll" /\ stage' = "main"
    BY <1>7 DEF Extract, outside, main
  <2>2. TakenTrue(Passed)'
    BY <1>1, <2>1 DEF SeatTrue, TakenTrue, Passed, Lookup
  <2>3. ~lapse' => DownTrue(Passed)'
    BY <1>1, <2>1 DEF SeatTrue, DownTrue, Passed
  <2>4. QED
    BY <1>1, <2>1, <2>2, <2>3 DEF SeatTrue
<1>8. CASE Main
  <2>1. /\ UNCHANGED <<filter, seat, told, withheld, excused, alive, lapse>>
        /\ stage = "main" /\ stage' = "present" /\ compiled' = Compiled
    BY <1>8 DEF Main, outside, history
  <2>2. compiled' = <<>> => compiled = <<>>
    BY <1>1, <2>1, CompiledIs
  <2>3. told = {}
    BY <1>1, <2>1 DEF SeatTrue
  <2>4. TakenTrue(Passed)'
    BY <1>1, <2>1, <2>2, <2>3 DEF SeatTrue, TakenTrue, Passed, Lookup
  <2>5. ~lapse' => DownTrue(Passed)'
    BY <1>1, <2>1 DEF SeatTrue, DownTrue, Passed
  <2>6. QED
    BY <2>1, <2>3, <2>4, <2>5 DEF SeatTrue
<1>9. CASE Present
  <2>1. PICK o \in PassState :
           /\ TakenTrue(o)
           /\ compiled # <<>> /\ (~lapse \/ Lost(frame, Len(frame))) => DownTrue(o)
           /\ frame = <<>> => o = Passed
           /\ filter' = o.filter
           /\ seat'.host = o.seat.host /\ seat'.held = o.seat.held
           /\ seat'.cached = IF o.seat.host THEN focus ELSE None
           /\ seat'.focus = Lookup(seat'.cached)
           /\ told' = o.told /\ withheld' = o.withheld /\ excused' = o.excused
    BY <1>9, PresentIs
  <2>2. /\ stage = "present" /\ stage' = "poll" /\ UNCHANGED <<compiled, focus, alive>>
        /\ lapse' = IF compiled = <<>> THEN lapse \/ frame # <<>>
                    ELSE lapse /\ FocusEvent(FALSE) \notin ToSet(frame)
    BY <1>9 DEF Present, outside
  <2>3. TakenTrue(Passed)'
    BY <2>1, <2>2 DEF TakenTrue, Passed, Lookup
  <2>4. FocusEvent(FALSE) \in ToSet(frame) => Lost(frame, Len(frame))
    <3>1. DOMAIN frame = 1 .. Len(frame)
      BY <1>1, LenProperties DEF TypeOK
    <3>2. QED
      BY <3>1 DEF ToSet, Lost, Loss
  <2>5. ASSUME ~lapse' PROVE DownTrue(o)
    <3>1. CASE compiled # <<>>
      BY <2>1, <2>2, <2>4, <2>5, <3>1
    <3>2. CASE compiled = <<>>
      BY <1>1, <2>1, <2>2, <2>5, <3>2 DEF SeatTrue
    <3>3. QED
      BY <3>1, <3>2
  <2>6. ~lapse' => DownTrue(Passed)'
    BY <2>1, <2>5 DEF DownTrue, Passed
  <2>7. QED
    BY <2>1, <2>2, <2>3, <2>6 DEF SeatTrue
<1>10. QED
  BY <1>2, <1>3, <1>4, <1>5, <1>6, <1>7, <1>8, <1>9 DEF Next

-----------------------------------------------------------------------------

LEMMA Invariance == Spec => []IInv
<1>1. Init => IInv
  <2>1. SUFFICES ASSUME Init PROVE IInv
    OBVIOUS
  <2>2. /\ stage = "poll" /\ queue = <<>> /\ frame = <<>> /\ keys = NoKeys /\ active /\ wasActive
        /\ compiled = <<>> /\ on = {} /\ focus = None /\ lapse = FALSE /\ told = {} /\ withheld = {}
        /\ filter = [keys |-> NoKeys, consumed |-> {}]
        /\ seat = [host |-> TRUE, cached |-> None, focus |-> None, held |-> {}]
        /\ physical = {} /\ active = TRUE /\ wasActive = TRUE
    BY <2>1 DEF Init
  <2>3. TypeOK
    <3>1. <<>> \in Seq(Event)
      BY EmptySeq
    <3>2. NoKeys \in Tracker
      BY DEF NoKeys, Tracker
    <3>3. None \in Focusable
      BY DEF Focusable
    <3>4. filter \in [keys : Tracker, consumed : SUBSET Key]
      BY <2>2, <3>2
    <3>5. seat \in [host : BOOLEAN, cached : Focusable, focus : Focusable, held : SUBSET Key]
      BY <2>2, <3>3
    <3>6. /\ host \in Hosts /\ config \in Overrides /\ configChanged \in BOOLEAN
          /\ alive \subseteq Surface /\ fired \subseteq Shortcut
          /\ withheld \subseteq Key /\ excused \subseteq Key
      BY <2>1 DEF Init
    <3>7. QED
      BY <2>2, <3>1, <3>2, <3>3, <3>4, <3>5, <3>6 DEF TypeOK
  <2>4. DOMAIN <<>> = {} /\ ~Lost(<<>>, Len(<<>>))
    BY EmptySeq DEF Lost
  <2>5. Turns
    BY <2>2, <2>4 DEF Turns
  <2>6. BindingsTrue
    BY <2>2, <2>4 DEF BindingsTrue
  <2>7. Coming = <<>>
    BY <2>2, <2>3, ComingIs
  <2>8. HeardTrue
    <3>1. HeardAll(keys, Coming) = keys /\ Fresh(keys, Coming, TRUE)
      BY <2>7, HeardNothing, FreshNothing
    <3>2. keys.held = {}
      BY <2>2 DEF NoKeys
    <3>3. QED
      BY <2>2, <3>1, <3>2 DEF HeardTrue
  <2>9. IdleTrue
    BY <2>2 DEF IdleTrue
  <2>10. FilterTrue
    BY <2>2 DEF FilterTrue, Same
  <2>11. HoldsTrue
    BY <2>2 DEF HoldsTrue, ModsHeld, NoKeys
  <2>12. FiredTrue
    BY <2>1, <2>2 DEF FiredTrue, NoKeys, Init
  <2>13. SeatTrue
    BY <2>2 DEF SeatTrue, Passed, TakenTrue, DownTrue, Lookup, NoKeys
  <2>14. QED
    BY <2>3, <2>5, <2>6, <2>8, <2>9, <2>10, <2>11, <2>12, <2>13 DEF IInv
<1>2. IInv /\ [Next]_vars => IInv'
  BY TypesKept, TurnsKept, BindingsKept, HeardKept, IdleKept, FilterKept, HoldsKept, FiredKept, SeatKept
  DEF IInv
<1>3. QED
  BY <1>1, <1>2, PTL DEF Spec

LEMMA KeysFollow == IInv => KeysTrue
<1>1. SUFFICES ASSUME IInv PROVE KeysTrue
  OBVIOUS
<1>2. TypeOK /\ Turns /\ BindingsTrue /\ HeardTrue /\ FilterTrue /\ HoldsTrue /\ SeatTrue
  BY <1>1 DEF IInv
<1>3. TrackersAgree
  BY <1>2 DEF TrackersAgree, FilterTrue, Same
<1>4. TakenTrue(Passed)
  BY <1>2 DEF SeatTrue
<1>5. /\ seat.focus = IF seat.cached \in alive THEN seat.cached ELSE None
      /\ \A t \in told : t.to \in {None, focus} /\ (t.taken => t.down)
  BY <1>4 DEF TakenTrue, Passed, Lookup
<1>6. FocusFollows
  BY <1>2, <1>5 DEF FocusFollows, SeatTrue
<1>7. NoOrphanRelease
  BY <1>5 DEF NoOrphanRelease
<1>8. NoKeyStuck
  <2>1. SUFFICES ASSUME stage = "poll", queue = <<>>, active = wasActive, ~lapse,
                        NEW k \in seat.held \ (physical \cup excused), Plain(k)
                 PROVE  FALSE
    BY DEF NoKeyStuck, Plain
  <2>2. k \in filter.keys.held
    BY <1>2, <2>1 DEF SeatTrue, DownTrue, Passed
  <2>3. k \in keys.held
    BY <1>2, <2>1, <2>2 DEF FilterTrue, Same
  <2>4. Coming = <<>>
    BY <1>2, <2>1, ComingIs
  <2>5. HeardAll(keys, Coming).held \subseteq physical
    BY <1>2, <2>1 DEF HeardTrue, Known
  <2>6. QED
    BY <2>1, <2>3, <2>4, <2>5, HeardNothing
<1>9. HoldsEnd
  <2>1. SUFFICES ASSUME stage = "present", physical = {}, ~lapse, NEW id \in on
                 PROVE  FALSE
    BY DEF HoldsEnd
  <2>2. keys.held = {}
    BY <1>2, <2>1 DEF HeardTrue, Known
  <2>3. keys.mods = {}
    BY <1>2, <2>2 DEF HoldsTrue, ModsHeld
  <2>4. id \in DOMAIN compiled /\ Holds(keys, compiled[id])
    BY <1>2, <2>1 DEF HoldsTrue
  <2>5. compiled[id].key = None => compiled[id].mods # {}
    BY <1>2, <2>4 DEF BindingsTrue
  <2>6. QED
    BY <2>2, <2>3, <2>4, <2>5 DEF Holds
<1>10. QED
  BY <1>2, <1>3, <1>6, <1>7, <1>8, <1>9 DEF KeysTrue

\* A frame that brings one event.
LEMMA OutcomeOne ==
  ASSUME frame \in Seq(Event), Len(frame) = 1
  PROVE  Outcome = Pass(Start, frame[1]) /\ frame = <<frame[1]>> /\ frame[1] \in Event
<1>1. frame[1] \in Event /\ frame = <<frame[1]>>
  BY LenProperties, ElementOfSeq
<1>2. PICK f : PassedBy(f, frame, 1) /\ Outcome = f[1]
  BY OutcomeBy
<1>3. f[0] = Start /\ \A i \in 1 .. 1 : f[i] = Pass(f[i - 1], frame[i])
  BY <1>2, PassedValues
<1>4. f[1] = Pass(f[0], frame[1])
  BY <1>3
<1>5. QED
  BY <1>1, <1>2, <1>3, <1>4

LEMMA FiredIsTaken ==
  ASSUME IInv, Present, ~lapse, ~configChanged, Len(frame) = 1
  PROVE  fired = {} \/ told' = {}
<1>1. SUFFICES ASSUME NEW id \in fired PROVE told' = {}
  OBVIOUS
<1>2. TypeOK /\ stage = "present" /\ FiredTrue
  BY DEF IInv, Present
<1> DEFINE e == frame[1]
<1>3. /\ frame \in Seq(Event) /\ filter \in FilterState /\ seat \in SeatState
      /\ withheld \in SUBSET Key /\ excused \in SUBSET Key /\ {} \in SUBSET ToldKey
  BY <1>2 DEF TypeOK, FilterState, SeatState
<1>4. Start \in PassState /\ Start.told = {} /\ Start.filter = filter
  BY <1>3 DEF Start, PassState
<1>5. Outcome = Pass(Start, e) /\ frame = <<e>> /\ e \in Event
  BY <1>3, OutcomeOne
<1>6. told' = Pass(Start, e).told
  BY <1>5 DEF Present
<1>7. HeardAll(filter.keys, <<e>>) = Heard(filter.keys, e)
  BY <1>5, HeardOne
<1>8. /\ id \in DOMAIN compiled
      /\ Triggered(id, keys, compiled[id], Holds(filter.keys, compiled[id]))
      /\ keys = HeardAll(filter.keys, frame)
  BY <1>1, <1>2 DEF FiredTrue
<1>9. keys = Heard(filter.keys, e)
  BY <1>5, <1>7, <1>8
<1> HIDE DEF e
<1>10. CASE e.kind = "focus"
  BY <1>4, <1>5, <1>6, <1>10, PassFocus
<1>11. CASE e.kind = "key"
  <2>1. keys = Recorded(filter.keys, e.key, e.down)
    BY <1>9, <1>11 DEF Heard
  <2>2. Consumes(filter, e)
    BY <1>8, <2>1 DEF Consumes
  <2>3. compiled # <<>>
    <3>1. DOMAIN <<>> = {}
      BY EmptySeq
    <3>2. QED
      BY <1>8, <3>1
  <2>4. Taken(Start, e)
    BY <1>4, <2>2, <2>3 DEF Taken
  <2>5. QED
    BY <1>4, <1>5, <1>6, <1>11, <2>4, PassKey
<1>12. QED
  BY <1>5, <1>10, <1>11, EventFields

(***************************************************************************)
(* Whatever the keys, the modifiers they stand for, the shortcuts and      *)
(* their bindings: both worlds agree about what is pressed, the client     *)
(* with the focus of the shell is the one that is told, no client hears    *)
(* the end of what a shortcut took, no plain key stays down there, and     *)
(* no shortcut holds once every key is up (keyboard_input_system,          *)
(* shortcut_match_system, filter_consumed_shortcut_input_system,           *)
(* dispatch_seat_input_system).                                            *)
(***************************************************************************)
THEOREM KeysAreTrue == Spec => []KeysTrue
BY Invariance, KeysFollow, PTL

(***************************************************************************)
(* A key event that comes alone in its frame fires a shortcut or is told   *)
(* to a client, never both, although the main world and the protocol       *)
(* world decide by trackers of their own (shortcut_match_system,           *)
(* should_consume_shortcut_key_event).                                     *)
(***************************************************************************)
THEOREM NeverBoth == Spec => OneAddressee
<1>1. IInv /\ [Next]_vars =>
        [stage = "present" /\ stage' = "poll" /\ ~lapse /\ ~configChanged /\ Len(frame) = 1
           => fired = {} \/ told' = {}]_vars
  <2>1. SUFFICES ASSUME IInv, Next, stage = "present", stage' = "poll", ~lapse, ~configChanged,
                        Len(frame) = 1
                 PROVE  fired = {} \/ told' = {}
    OBVIOUS
  <2>2. Present
    BY <2>1 DEF Next, Strike, ChangeActivity, DestroySurface, Reload, Extract, Main
  <2>3. QED
    BY <2>1, <2>2, FiredIsTaken
<1>2. QED
  BY <1>1, Invariance, PTL DEF Spec, OneAddressee

-----------------------------------------------------------------------------
(* The pointer.  The inductive invariant.                                  *)

MotionEvent == [is : {"moved"}, at : Int, by : Int] \cup [is : {"delta"}, by : Int] \cup [is : {"lost"}]
Place == [at : Int, known : BOOLEAN, resync : BOOLEAN]
Motions == [physical : Place, delta : Int]

MotionTyped ==
  /\ plugged \subseteq Outputs /\ shown \subseteq Outputs
  /\ bound \in [at : Int, bound : Int] /\ moved \in Seq(MotionEvent)
  /\ position \in Place /\ pointer \in Int /\ focused \in Outputs \cup {None}
  /\ gesture \in [output : Outputs \cup {None}, rest : Int, engaged : BOOLEAN]
  /\ panned \in Int /\ travel \in Int /\ hand \in Nat
  /\ step \in [made : Int, hands : Nat, anchored : BOOLEAN, sound : BOOLEAN]

\* What devices moved went to viewports or waits, also while no output has the gesture.
PanSum == travel = 2 * panned + gesture.rest /\ Motion!Abs(gesture.rest) < 2

\* What will have been heard of the queue is where the device is, and no more than hands moved.
AllHeard == Motion!HeardAll(pointer, [physical |-> position, delta |-> 0], moved)
NoneLost == \A i \in DOMAIN moved : moved[i].is # "lost"
HandsCounted ==
  /\ AllHeard.physical.known => AllHeard.physical.at = bound.at
  /\ Motion!Anchored => AllHeard.physical.known \/ AllHeard.physical.resync
  /\ step.anchored /\ NoneLost => Motion!Abs(AllHeard.delta) <= hand

PointerInv == MotionTyped /\ PanSum /\ HandsCounted /\ Motion!NeverJumps

-----------------------------------------------------------------------------
(* Numbers.                                                                *)

LEMMA ClampIs ==
  ASSUME NEW v \in Int, NEW lo \in Int, NEW hi \in Int
  PROVE  /\ Motion!Clamp(v, lo, hi) \in Int
         /\ lo <= hi => lo <= Motion!Clamp(v, lo, hi) /\ Motion!Clamp(v, lo, hi) <= hi
         /\ \A u \in lo .. hi, w \in Int : v = u + w => Motion!Abs(Motion!Clamp(v, lo, hi) - u) <= Motion!Abs(w)
BY DEF Motion!Clamp, Motion!Abs

LEMMA LargestOfTwo ==
  ASSUME NEW a \in Int, NEW b \in Int
  PROVE  /\ Motion!Largest({a, b}) \in {a, b}
         /\ a <= Motion!Largest({a, b}) /\ b <= Motion!Largest({a, b})
<1>1. \E v \in {a, b} : \A u \in {a, b} : u <= v
  <2>1. CASE a <= b
    BY <2>1
  <2>2. CASE ~ (a <= b)
    BY <2>2
  <2>3. QED
    BY <2>1, <2>2
<1>2. QED
  BY <1>1 DEF Motion!Largest

LEMMA LargerOfTwo ==
  ASSUME NEW a \in Nat, NEW b \in Nat
  PROVE  Motion!Largest({a, b}) \in Nat /\ a <= Motion!Largest({a, b}) /\ b <= Motion!Largest({a, b})
BY LargestOfTwo

\* A finite set of numbers has a largest.
LEMMA LargestIsOne ==
  ASSUME NEW S, S \subseteq Int, IsFiniteSet(S), S # {}
  PROVE  Motion!Largest(S) \in S /\ \A u \in S : u <= Motion!Largest(S)
<1>0. PICK n \in Nat : ExistsBijection(1 .. n, S)
  BY FS_NatBijection
<1>1. PICK f \in Bijection(1 .. n, S) : TRUE
  BY <1>0 DEF ExistsBijection
<1>2. /\ \A i \in 1 .. n : f[i] \in S
      /\ \A v \in S : \E i \in 1 .. n : f[i] = v
  BY <1>1 DEF Bijection, Injection, Surjection
<1> DEFINE Top(k, m) == m \in 1 .. k /\ \A i \in 1 .. k : f[i] <= f[m]
           T == {k \in Nat : k \in 1 .. n => \E m \in 1 .. n : Top(k, m)}
<1>3. 0 \in T
  OBVIOUS
<1>4. ASSUME NEW k \in T PROVE k + 1 \in T
  <2>1. SUFFICES ASSUME k + 1 \in 1 .. n PROVE \E m \in 1 .. n : Top(k + 1, m)
    OBVIOUS
  <2>0. k \in Nat /\ n \in Nat /\ (k \in 1 .. n => \E m \in 1 .. n : Top(k, m))
    BY <1>0
  <2> HIDE DEF T
  <2>2. \A i \in 1 .. k + 1 : i \in 1 .. n /\ f[i] \in Int /\ (i \in 1 .. k \/ i = k + 1)
    <3>1. TAKE i \in 1 .. k + 1
    <3>2. i \in 1 .. n /\ (i \in 1 .. k \/ i = k + 1)
      BY <2>0, <2>1
    <3>3. f[i] \in S
      BY <1>2, <3>2
    <3>4. QED
      BY <3>2, <3>3
  <2>3. CASE k = 0
    <3>1. Top(k + 1, k + 1)
      BY <2>0, <2>2, <2>3
    <3>2. QED
      BY <2>1, <3>1
  <2>4. CASE k # 0
    <3>1. PICK m \in 1 .. n : Top(k, m)
      BY <2>0, <2>1, <2>4
    <3>2. f[m] \in Int /\ f[k + 1] \in Int /\ m \in 1 .. k + 1 /\ k + 1 \in 1 .. k + 1
      BY <2>0, <2>2, <3>1
    <3>3. ASSUME f[m] <= f[k + 1] PROVE Top(k + 1, k + 1)
      BY <2>0, <2>2, <3>1, <3>2, <3>3
    <3>4. ASSUME ~ (f[m] <= f[k + 1]) PROVE Top(k + 1, m)
      BY <2>0, <2>2, <3>1, <3>2, <3>4
    <3>5. QED
      BY <2>1, <3>3, <3>4
  <2>5. QED
    BY <2>3, <2>4
<1>5. T = Nat
  <2> HIDE DEF T
  <2>1. QED
    BY <1>3, <1>4, NatSetInduction DEF T
<1>6. n \in 1 .. n
  <2>1. PICK v \in S : TRUE
    OBVIOUS
  <2>2. QED
    BY <1>2, <2>1
<1>7. PICK m \in 1 .. n : Top(n, m)
  BY <1>5, <1>6
<1>8. f[m] \in S /\ \A u \in S : u <= f[m]
  BY <1>2, <1>7
<1>9. QED
  BY <1>8 DEF Motion!Largest

LEMMA LeastIsOne ==
  ASSUME NEW S, S \subseteq Nat, S # {}
  PROVE  Motion!Least(S) \in S
<1>1. PICK m \in S : \A k \in S : ~ (<<k, m>> \in OpToRel(<, Nat))
  BY NatLessThanWellFounded, WFMin
<1>2. ASSUME NEW k \in S PROVE m <= k
  <2>1. m \in Nat /\ k \in Nat /\ ~ (<<k, m>> \in OpToRel(<, Nat))
    BY <1>1
  <2>2. QED
    BY <2>1 DEF OpToRel
<1>3. QED
  BY <1>2 DEF Motion!Least

-----------------------------------------------------------------------------
(* What is heard of motions.                                               *)

\* What a list of steps, each a function of states, makes of a state.
Runs(R, p, n, f) ==
  \E h \in [0 .. n -> R] : h[0] = p /\ \A i \in 1 .. n : h[i] = f[i][h[i - 1]]

\* What is defined one step upon the other stays in the set the steps stay in.
LEMMA Recursion ==
  ASSUME NEW R, NEW p \in R, NEW n \in Nat, NEW f, \A i \in 1 .. n, r \in R : f[i][r] \in R
  PROVE  Runs(R, p, n, f)
<1> DEFINE Upto(h, k) == h \in [0 .. k -> R] /\ h[0] = p /\ \A i \in 1 .. k : h[i] = f[i][h[i - 1]]
           T == {k \in Nat : k <= n => \E h : Upto(h, k)}
<1>1. 0 \in T
  <2>1. Upto([i \in 0 .. 0 |-> p], 0)
    OBVIOUS
  <2>2. QED
    BY <2>1
<1>2. ASSUME NEW k \in T PROVE k + 1 \in T
  <2>1. SUFFICES ASSUME k \in Nat, k + 1 <= n PROVE \E h : Upto(h, k + 1)
    OBVIOUS
  <2>2. k <= n /\ k + 1 \in 1 .. n
    BY <2>1
  <2>3. PICK h : Upto(h, k)
    BY <2>2
  <2> DEFINE last == f[k + 1][h[k]]
             g == [i \in 0 .. k + 1 |-> IF i = k + 1 THEN last ELSE h[i]]
  <2>4. h[k] \in R /\ last \in R
    BY <2>1, <2>2, <2>3
  <2>5. \A i \in 0 .. k : g[i] = h[i]
    BY <2>1
  <2>6. g[k + 1] = last
    BY <2>1
  <2>7. g \in [0 .. k + 1 -> R] /\ g[0] = p
    BY <2>1, <2>3, <2>4, <2>5
  <2> HIDE DEF g
  <2>8. ASSUME NEW i \in 1 .. k + 1 PROVE g[i] = f[i][g[i - 1]]
    <3>1. i - 1 \in 0 .. k /\ (i = k + 1 => i - 1 = k) /\ (i # k + 1 => i \in 1 .. k /\ i \in 0 .. k)
      BY <2>1
    <3>2. g[i - 1] = h[i - 1]
      BY <2>5, <3>1
    <3>3. CASE i = k + 1
      BY <2>6, <3>1, <3>2, <3>3
    <3>4. CASE i # k + 1
      BY <2>3, <2>5, <3>1, <3>2, <3>4
    <3>5. QED
      BY <3>3, <3>4
  <2>9. QED
    BY <2>7, <2>8
<1>3. T = Nat
  <2> HIDE DEF T
  <2>1. QED
    BY <1>1, <1>2, NatSetInduction DEF T
<1>4. PICK h : Upto(h, n)
  BY <1>3
<1>5. QED
  BY <1>4 DEF Runs

LEMMA MotionEventFields ==
  ASSUME NEW e \in MotionEvent
  PROVE  /\ e.is \in {"moved", "delta", "lost"}
         /\ e.is = "moved" => e.at \in Int /\ e.by \in Int
         /\ e.is = "delta" => e.by \in Int
BY DEF MotionEvent

LEMMA FieldsReplaced ==
  ASSUME NEW A, NEW B, NEW p \in [at : A, known : B, resync : B], NEW k \in B, NEW s \in B
  PROVE  /\ [p EXCEPT !.known = k, !.resync = s] \in [at : A, known : B, resync : B]
         /\ [p EXCEPT !.known = k, !.resync = s].at = p.at
         /\ [p EXCEPT !.known = k, !.resync = s].known = k
         /\ [p EXCEPT !.known = k, !.resync = s].resync = s
OBVIOUS

LEMMA PlaceReplaced ==
  ASSUME NEW p \in Place, NEW k \in BOOLEAN, NEW s \in BOOLEAN
  PROVE  /\ [p EXCEPT !.known = k, !.resync = s] \in Place
         /\ [p EXCEPT !.known = k, !.resync = s].at = p.at
         /\ [p EXCEPT !.known = k, !.resync = s].known = k
         /\ [p EXCEPT !.known = k, !.resync = s].resync = s
BY FieldsReplaced, Zenon DEF Place

LEMMA MotionHeardTyped ==
  ASSUME NEW from \in Int, NEW r \in Motions, NEW e \in MotionEvent
  PROVE  Motion!Heard(from, r, e) \in Motions
<1>1. r.physical \in Place /\ r.delta \in Int
  BY DEF Motions
<1>2. r.physical.at \in Int
  BY <1>1 DEF Place
<1>3. CASE e.is = "moved"
  <2> DEFINE p == [at |-> e.at, known |-> TRUE, resync |-> FALSE]
             d == IF r.physical.resync THEN r.delta
                  ELSE r.delta + e.at - (IF r.physical.known THEN r.physical.at ELSE from)
  <2>1. p \in Place /\ d \in Int
    BY <1>1, <1>2, <1>3, MotionEventFields DEF Place
  <2>2. Motion!Heard(from, r, e) = [physical |-> p, delta |-> d]
    BY <1>3 DEF Motion!Heard
  <2> HIDE DEF p, d
  <2>3. QED
    BY <2>1, <2>2 DEF Motions
<1>4. CASE e.is = "delta"
  <2> DEFINE p == [r.physical EXCEPT !.known = FALSE, !.resync = TRUE]
             d == r.delta + e.by
  <2>1. p \in Place /\ d \in Int
    <3>1. p \in Place
      BY <1>1, PlaceReplaced
    <3>2. QED
      BY <1>1, <1>4, <3>1, MotionEventFields
  <2>2. Motion!Heard(from, r, e) = [physical |-> p, delta |-> d]
    BY <1>4 DEF Motion!Heard
  <2> HIDE DEF p, d
  <2>3. QED
    BY <2>1, <2>2 DEF Motions
<1>5. CASE e.is = "lost"
  <2> DEFINE p == [r.physical EXCEPT !.known = FALSE, !.resync = FALSE]
  <2>1. p \in Place
    BY <1>1, PlaceReplaced
  <2>2. Motion!Heard(from, r, e) = [physical |-> p, delta |-> 0]
    BY <1>5 DEF Motion!Heard
  <2> HIDE DEF p
  <2>3. QED
    BY <2>1, <2>2 DEF Motions
<1>6. QED
  BY <1>3, <1>4, <1>5, MotionEventFields

\* h says what was heard of the first n events of q.
MotionHeardBy(h, from, r, q, n) ==
  /\ h \in [0 .. n -> Motions]
  /\ h[0] = r /\ \A i \in 1 .. n : h[i] = Motion!Heard(from, h[i - 1], q[i])

LEMMA MotionHeardOne ==
  ASSUME NEW from \in Int, NEW r \in Motions, NEW q \in Seq(MotionEvent)
  PROVE  \E h : /\ MotionHeardBy(h, from, r, q, Len(q))
                /\ Motion!HeardAll(from, r, q) = h[Len(q)]
<1> DEFINE n == Len(q)
           f == [i \in 1 .. n |-> [s \in Motions |-> Motion!Heard(from, s, q[i])]]
           Is(h) == h = [i \in 0 .. n |-> IF i = 0 THEN r ELSE Motion!Heard(from, h[i - 1], q[i])]
           all == CHOOSE h : Is(h)
<1>1. n \in Nat /\ \A i \in 1 .. n : q[i] \in MotionEvent
  BY LenProperties, ElementOfSeq
<1>2. \A i \in 1 .. n, s \in Motions : f[i][s] \in Motions
  BY <1>1, MotionHeardTyped
<1>3. \A i \in 1 .. n, s \in Motions : f[i][s] = Motion!Heard(from, s, q[i])
  OBVIOUS
<1> HIDE DEF f, n
<1>4. PICK h \in [0 .. n -> Motions] : h[0] = r /\ \A i \in 1 .. n : h[i] = f[i][h[i - 1]]
  <2>1. Runs(Motions, r, n, f)
    BY <1>1, <1>2, Recursion
  <2>2. QED
    BY <2>1 DEF Runs
<1>5. \A i \in 1 .. n : h[i] = Motion!Heard(from, h[i - 1], q[i])
  <2>1. \A i \in 1 .. n : i - 1 \in 0 .. n
    BY <1>1
  <2>2. QED
    BY <1>3, <1>4, <2>1
<1>6. Is(h)
  BY <1>1, <1>4, <1>5
<1>7. Is(all)
  BY <1>6
<1> HIDE DEF all
<1>8. all[0] = r /\ \A i \in 1 .. n : all[i] = Motion!Heard(from, all[i - 1], q[i])
  <2> DEFINE g == [i \in 0 .. n |-> IF i = 0 THEN r ELSE Motion!Heard(from, all[i - 1], q[i])]
  <2>1. g[0] = r
    BY <1>1
  <2>2. \A i \in 1 .. n : g[i] = Motion!Heard(from, all[i - 1], q[i])
    BY <1>1
  <2> HIDE DEF g
  <2>3. QED
    BY <1>7, <2>1, <2>2 DEF g
<1>9. Motion!HeardAll(from, r, q) = all[n]
  BY DEF Motion!HeardAll, all, n
<1>10. all \in [0 .. n -> Motions]
  <2> DEFINE T == {k \in Nat : k <= n => all[k] \in Motions}
  <2>1. 0 \in T
    BY <1>8
  <2>2. ASSUME NEW k \in T PROVE k + 1 \in T
    <3>1. SUFFICES ASSUME k \in Nat, k + 1 <= n PROVE all[k + 1] \in Motions
      OBVIOUS
    <3>2. k + 1 \in 1 .. n /\ (k + 1) - 1 = k /\ k <= n
      BY <1>1, <3>1
    <3>3. all[k] \in Motions /\ all[k + 1] = Motion!Heard(from, all[k], q[k + 1])
      BY <1>8, <3>2
    <3>4. QED
      BY <1>1, <3>2, <3>3, MotionHeardTyped
  <2>3. T = Nat
    <3> HIDE DEF T
    <3>1. QED
      BY <2>1, <2>2, NatSetInduction DEF T
  <2>4. \A k \in 0 .. n : all[k] \in Motions
    BY <1>1, <2>3
  <2>5. DOMAIN all = 0 .. n
    BY <1>7
  <2>6. all = [i \in 0 .. n |-> all[i]]
    BY <1>7, <2>5
  <2>7. QED
    BY <2>4, <2>6
<1>11. QED
  BY <1>1, <1>8, <1>9, <1>10 DEF MotionHeardBy, n

\* Hearing one event more is hearing it after the others.
LEMMA MotionHeardNext ==
  ASSUME NEW from \in Int, NEW r \in Motions, NEW q \in Seq(MotionEvent), NEW e \in MotionEvent
  PROVE  /\ Append(q, e) \in Seq(MotionEvent)
         /\ Motion!HeardAll(from, r, Append(q, e)) = Motion!Heard(from, Motion!HeardAll(from, r, q), e)
<1> DEFINE a == Append(q, e)
           n == Len(q)
<1>1. /\ a \in Seq(MotionEvent) /\ n \in Nat /\ Len(a) = n + 1 /\ a[n + 1] = e
      /\ \A i \in 1 .. n : a[i] = q[i]
  BY AppendProperties, LenProperties
<1> HIDE DEF a
<1>2. PICK g : MotionHeardBy(g, from, r, q, n) /\ Motion!HeardAll(from, r, q) = g[n]
  BY MotionHeardOne
<1>3. PICK h : MotionHeardBy(h, from, r, a, n + 1) /\ Motion!HeardAll(from, r, a) = h[n + 1]
  BY <1>1, MotionHeardOne
<1> HIDE DEF n
<1> DEFINE T == {k \in Nat : k <= n => g[k] = h[k]}
<1>4. 0 \in T
  BY <1>2, <1>3 DEF MotionHeardBy
<1>5. ASSUME NEW k \in T PROVE k + 1 \in T
  <2>1. SUFFICES ASSUME k \in Nat, k + 1 <= n PROVE g[k + 1] = h[k + 1]
    OBVIOUS
  <2>2. k + 1 \in 1 .. n /\ k + 1 \in 1 .. n + 1 /\ (k + 1) - 1 = k /\ k <= n
    BY <1>1, <2>1
  <2>3. g[k] = h[k]
    BY <2>2
  <2>4. g[k + 1] = Motion!Heard(from, g[k], q[k + 1])
    BY <1>2, <2>2 DEF MotionHeardBy
  <2>5. h[k + 1] = Motion!Heard(from, h[k], a[k + 1])
    BY <1>3, <2>2 DEF MotionHeardBy
  <2>6. QED
    BY <1>1, <2>2, <2>3, <2>4, <2>5
<1>6. T = Nat
  <2> HIDE DEF T
  <2>1. QED
    BY <1>4, <1>5, NatSetInduction DEF T
<1>7. g[n] = h[n]
  BY <1>1, <1>6
<1>8. h[n + 1] = Motion!Heard(from, h[n], e)
  <2>1. n + 1 \in 1 .. n + 1 /\ (n + 1) - 1 = n
    BY <1>1
  <2>2. QED
    BY <1>1, <1>3, <2>1 DEF MotionHeardBy
<1>9. QED
  BY <1>1, <1>2, <1>3, <1>7, <1>8 DEF a

LEMMA MotionHeardAllTyped ==
  ASSUME NEW from \in Int, NEW r \in Motions, NEW q \in Seq(MotionEvent)
  PROVE  Motion!HeardAll(from, r, q) \in Motions
<1>1. PICK h : MotionHeardBy(h, from, r, q, Len(q)) /\ Motion!HeardAll(from, r, q) = h[Len(q)]
  BY MotionHeardOne
<1>2. Len(q) \in Nat
  BY LenProperties
<1>3. QED
  BY <1>1, <1>2 DEF MotionHeardBy

LEMMA NoMotion ==
  ASSUME NEW from \in Int, NEW r \in Motions
  PROVE  Motion!HeardAll(from, r, <<>>) = r
<1>1. <<>> \in Seq(MotionEvent) /\ Len(<<>>) = 0
  OBVIOUS
<1>2. PICK h : MotionHeardBy(h, from, r, <<>>, 0) /\ Motion!HeardAll(from, r, <<>>) = h[0]
  BY <1>1, MotionHeardOne
<1>3. QED
  BY <1>2 DEF MotionHeardBy

-----------------------------------------------------------------------------
(* The pointer's invariant.                                                *)

LEMMA MotionAssumed ==
  /\ Outputs \subseteq Nat /\ IsFiniteSet(Outputs) /\ None \notin Outputs
  /\ \A o \in Outputs : Left[o] \in Nat /\ Width[o] \in Nat /\ Width[o] # 0
  /\ Configured \in Nat /\ Fallback \in Nat /\ Strides \subseteq Int
<1>1. Motion!IsFiniteSet(Outputs) => IsFiniteSet(Outputs)
  BY DEF Motion!IsFiniteSet, IsFiniteSet
<1>2. QED
  BY <1>1, PointerAssumption DEF Motion!OutputsAssumption, Motion!BoundsAssumption

LEMMA BoundIsNumber ==
  ASSUME shown \subseteq Outputs
  PROVE  Motion!Bound \in Int
<1>1. CASE shown = {}
  BY <1>1, MotionAssumed DEF Motion!Bound
<1>2. CASE shown # {}
  <2> DEFINE W == {Width[o] : o \in shown}
             f == [o \in shown |-> Width[o]]
  <2>1. W \subseteq Int /\ W # {}
    <3>1. \A o \in shown : Width[o] \in Int
      BY MotionAssumed
    <3>2. PICK o \in shown : TRUE
      BY <1>2
    <3>3. Width[o] \in W
      OBVIOUS
    <3>4. QED
      BY <3>1, <3>3
  <2>2. IsFiniteSet(shown)
    BY MotionAssumed, FS_Subset
  <2>3. f \in Surjection(shown, W)
    BY DEF Surjection
  <2>4. IsFiniteSet(W)
    BY <2>2, <2>3, FS_Surjection
  <2> HIDE DEF W
  <2>5. Motion!Largest(W) \in Int
    BY <2>1, <2>4, LargestIsOne
  <2>6. QED
    BY <1>2, <2>5 DEF Motion!Bound, W
<1>3. QED
  BY <1>1, <1>2

\* A clamped position is on one of the outputs shown.
LEMMA ClampedLands ==
  ASSUME shown \subseteq Outputs, shown # {}, NEW v \in Int
  PROVE  /\ Motion!Clamped(v) \in Int
         /\ \E o \in shown : Motion!Holds(o, Motion!Clamped(v))
<1> DEFINE o == CASE focused \in shown -> focused
                  [] focused \notin shown /\ Motion!Over(pointer) # {} -> Motion!Least(Motion!Over(pointer))
                  [] focused \notin shown /\ Motion!Over(pointer) = {} /\ Motion!Over(v) # {} -> Motion!Least(Motion!Over(v))
                  [] OTHER -> Motion!Least(shown)
<1>1. \A u : Motion!Over(u) \subseteq shown
  BY DEF Motion!Over
<1>2. \A S \in SUBSET shown : S # {} => Motion!Least(S) \in shown
  BY MotionAssumed, LeastIsOne
<1>3. o \in shown
  BY <1>1, <1>2
<1>4. Motion!Clamped(v) = Motion!Clamp(v, Left[o], Left[o] + Width[o] - 1)
  BY DEF Motion!Clamped
<1> HIDE DEF o
<1>5. Left[o] \in Int /\ Width[o] \in Nat /\ Width[o] # 0
  BY <1>3, MotionAssumed
<1>6. Left[o] <= Left[o] + Width[o] - 1 /\ Left[o] + Width[o] - 1 \in Int
  BY <1>5
<1>7. /\ Motion!Clamped(v) \in Int
      /\ Left[o] <= Motion!Clamped(v) /\ Motion!Clamped(v) <= Left[o] + Width[o] - 1
  BY <1>4, <1>5, <1>6, ClampIs
<1>8. Motion!Holds(o, Motion!Clamped(v))
  BY <1>5, <1>7 DEF Motion!Holds
<1>9. QED
  BY <1>3, <1>7, <1>8

\* From the output that has it the pointer moves no further than it was asked to.
LEMMA ClampedNear ==
  ASSUME shown \subseteq Outputs, pointer \in Int, focused \in shown, Motion!Holds(focused, pointer),
         NEW d \in Int
  PROVE  Motion!Abs(Motion!Clamped(pointer + d) - pointer) <= Motion!Abs(d)
<1>1. Left[focused] \in Int /\ Width[focused] \in Int
  BY MotionAssumed
<1>2. Motion!Clamped(pointer + d) = Motion!Clamp(pointer + d, Left[focused], Left[focused] + Width[focused] - 1)
  BY DEF Motion!Clamped
<1>3. pointer \in Left[focused] .. Left[focused] + Width[focused] - 1
  BY <1>1 DEF Motion!Holds
<1>4. pointer + d \in Int /\ Left[focused] + Width[focused] - 1 \in Int
  BY <1>1
<1>5. QED
  BY <1>1, <1>2, <1>3, <1>4, ClampIs

LEMMA TruncIs ==
  ASSUME NEW v \in Int
  PROVE  Motion!Trunc(v) \in Int /\ Motion!Abs(v - 2 * Motion!Trunc(v)) < 2
BY DEF Motion!Trunc, Motion!Abs

LEMMA AllHeardTyped ==
  ASSUME MotionTyped
  PROVE  /\ [physical |-> position, delta |-> 0] \in Motions
         /\ AllHeard \in Motions
         /\ AllHeard.physical \in Place /\ AllHeard.delta \in Int /\ AllHeard.physical.at \in Int
<1>1. [physical |-> position, delta |-> 0] \in Motions
  BY DEF MotionTyped, Motions
<1>2. AllHeard \in Motions
  BY <1>1, MotionHeardAllTyped DEF AllHeard, MotionTyped
<1>3. AllHeard.physical \in Place /\ AllHeard.delta \in Int
  BY <1>2 DEF Motions
<1>4. QED
  BY <1>1, <1>2, <1>3 DEF Place

LEMMA PointerInvInit ==
  ASSUME Motion!Init
  PROVE  PointerInv
<1> USE DEF Motion!Init
<1>1. MotionTyped
  <2>1. position \in Place
    BY DEF Place
  <2>2. moved \in Seq(MotionEvent) /\ plugged \subseteq Outputs /\ shown \subseteq Outputs /\ bound \in [at : Int, bound : Int]
    BY MotionAssumed
  <2>3. gesture \in [output : Outputs \cup {None}, rest : Int, engaged : BOOLEAN]
    BY DEF Motion!NoGesture
  <2>4. step \in [made : Int, hands : Nat, anchored : BOOLEAN, sound : BOOLEAN]
    OBVIOUS
  <2>5. QED
    BY <2>1, <2>2, <2>3, <2>4 DEF MotionTyped
<1>2. PanSum
  BY DEF PanSum, Motion!NoGesture, Motion!Abs
<1>3. HandsCounted
  <2>1. [physical |-> position, delta |-> 0] \in Motions
    BY <1>1, AllHeardTyped
  <2>2. AllHeard = [physical |-> position, delta |-> 0]
    BY <1>1, <2>1, NoMotion DEF AllHeard, MotionTyped
  <2>3. ~ position.known /\ ~ Motion!Anchored /\ ~ step.anchored
    BY DEF Motion!Anchored
  <2>4. QED
    BY <2>2, <2>3 DEF HandsCounted
<1>4. Motion!NeverJumps
  BY DEF Motion!NeverJumps
<1>5. QED
  BY <1>1, <1>2, <1>3, <1>4 DEF PointerInv

\* What is heard with one event more.
LEMMA OneMoreHeard ==
  ASSUME MotionTyped, NEW e \in MotionEvent
  PROVE  LET all == AllHeard
             more == Motion!HeardAll(pointer, [physical |-> position, delta |-> 0], Append(moved, e)) IN
         /\ Append(moved, e) \in Seq(MotionEvent)
         /\ e.is = "moved" =>
              /\ more.physical = [at |-> e.at, known |-> TRUE, resync |-> FALSE]
              /\ more.delta = IF all.physical.resync THEN all.delta
                              ELSE all.delta + e.at - (IF all.physical.known THEN all.physical.at ELSE pointer)
         /\ e.is = "delta" =>
              /\ more.physical.at = all.physical.at /\ ~ more.physical.known /\ more.physical.resync
              /\ more.delta = all.delta + e.by
         /\ e.is = "lost" =>
              /\ more.physical.at = all.physical.at /\ ~ more.physical.known /\ ~ more.physical.resync
              /\ more.delta = 0
<1> DEFINE more == Motion!HeardAll(pointer, [physical |-> position, delta |-> 0], Append(moved, e))
<1>1. pointer \in Int /\ moved \in Seq(MotionEvent)
  BY DEF MotionTyped
<1>2. Append(moved, e) \in Seq(MotionEvent) /\ more = Motion!Heard(pointer, AllHeard, e)
  BY <1>1, AllHeardTyped, MotionHeardNext DEF AllHeard
<1>3. AllHeard.physical \in Place
  BY AllHeardTyped
<1> HIDE DEF more
<1>4. e.is = "moved" =>
        /\ more.physical = [at |-> e.at, known |-> TRUE, resync |-> FALSE]
        /\ more.delta = IF AllHeard.physical.resync THEN AllHeard.delta
                        ELSE AllHeard.delta + e.at - (IF AllHeard.physical.known THEN AllHeard.physical.at ELSE pointer)
  BY <1>2 DEF Motion!Heard
<1>5. ASSUME e.is = "delta"
      PROVE  /\ more.physical.at = AllHeard.physical.at /\ ~ more.physical.known /\ more.physical.resync
             /\ more.delta = AllHeard.delta + e.by
  <2>1. /\ more.physical = [AllHeard.physical EXCEPT !.known = FALSE, !.resync = TRUE]
        /\ more.delta = AllHeard.delta + e.by
    BY <1>2, <1>5 DEF Motion!Heard
  <2>2. more.physical.at = AllHeard.physical.at /\ more.physical.known = FALSE /\ more.physical.resync = TRUE
    BY <1>3, <2>1, PlaceReplaced
  <2>3. QED
    BY <2>1, <2>2
<1>6. ASSUME e.is = "lost"
      PROVE  /\ more.physical.at = AllHeard.physical.at /\ ~ more.physical.known /\ ~ more.physical.resync
             /\ more.delta = 0
  <2>1. /\ more.physical = [AllHeard.physical EXCEPT !.known = FALSE, !.resync = FALSE]
        /\ more.delta = 0
    BY <1>2, <1>6 DEF Motion!Heard
  <2>2. more.physical.at = AllHeard.physical.at /\ more.physical.known = FALSE /\ more.physical.resync = FALSE
    BY <1>3, <2>1, PlaceReplaced
  <2>3. QED
    BY <2>1, <2>2
<1>7. QED
  BY <1>2, <1>4, <1>5, <1>6, Zenon DEF more

\* Where the device is when nobody lost it, and a position to start from.
LEMMA NotLostIsAnchored ==
  ASSUME MotionTyped, step.anchored, NoneLost
  PROVE  Motion!Anchored
<1>1. CASE moved = <<>>
  BY <1>1 DEF Motion!Anchored
<1>2. CASE moved # <<>>
  <2>1. Len(moved) \in DOMAIN moved
    BY <1>2, LenProperties, EmptySeq DEF MotionTyped
  <2>2. QED
    BY <1>2, <2>1 DEF Motion!Anchored, NoneLost
<1>3. QED
  BY <1>1, <1>2

LEMMA Appended ==
  ASSUME NEW q \in Seq(MotionEvent), NEW e \in MotionEvent
  PROVE  LET a == Append(q, e) IN
         /\ a # <<>> /\ a[Len(a)] = e
         /\ (\A i \in DOMAIN a : a[i].is # "lost") => (\A i \in DOMAIN q : q[i].is # "lost") /\ e.is # "lost"
<1> DEFINE a == Append(q, e)
<1>1. /\ a \in Seq(MotionEvent) /\ Len(q) \in Nat /\ Len(a) = Len(q) + 1 /\ a[Len(q) + 1] = e
      /\ \A i \in 1 .. Len(q) : a[i] = q[i]
  BY AppendProperties, LenProperties
<1>2. DOMAIN a = 1 .. Len(q) + 1 /\ DOMAIN q = 1 .. Len(q)
  BY <1>1, LenProperties
<1> HIDE DEF a
<1>3. a # <<>> /\ a[Len(a)] = e
  BY <1>1
<1>4. ASSUME \A i \in DOMAIN a : a[i].is # "lost"
      PROVE  (\A i \in DOMAIN q : q[i].is # "lost") /\ e.is # "lost"
  <2>1. \A i \in DOMAIN q : i \in DOMAIN a /\ a[i] = q[i]
    BY <1>1, <1>2
  <2>2. Len(q) + 1 \in DOMAIN a
    BY <1>1, <1>2
  <2>3. QED
    BY <1>1, <1>4, <2>1, <2>2
<1>5. QED
  BY <1>3, <1>4 DEF a

LEMMA AbsIs ==
  ASSUME NEW v \in Int
  PROVE  Motion!Abs(v) \in Nat
BY DEF Motion!Abs

LEMMA AbsSum ==
  ASSUME NEW v \in Int, NEW w \in Int, NEW m \in Nat, NEW n \in Nat,
         Motion!Abs(v) <= m, Motion!Abs(w) <= n
  PROVE  Motion!Abs(v + w) <= m + n
BY DEF Motion!Abs

\* A motion is counted in full, however far the device went with it.
LEMMA MovedKeeps ==
  ASSUME PointerInv, NEW d \in Int, NEW e \in MotionEvent, Motion!Moved(d, e),
         bound' \in [at : Int, bound : Int],
         \/ e.is = "moved" /\ e.at = bound'.at
         \/ e.is = "delta" /\ e.by = d /\ bound' = bound
  PROVE  PointerInv'
<1> USE DEF PointerInv
<1>0. /\ hand' = hand + Motion!Largest({Motion!Abs(d), Motion!Abs(bound'.at - bound.at)})
      /\ moved' = Append(moved, e)
      /\ UNCHANGED <<device, plugged, shown, held, position, pointer, focused, gesture, panned, travel, step>>
  BY DEF Motion!Moved
<1> DEFINE far == Motion!Largest({Motion!Abs(d), Motion!Abs(bound'.at - bound.at)})
<1>1. /\ bound.at \in Int /\ bound'.at \in Int /\ pointer \in Int /\ hand \in Nat
      /\ moved \in Seq(MotionEvent)
  BY DEF MotionTyped
<1>2. /\ Motion!Abs(d) \in Nat /\ Motion!Abs(bound'.at - bound.at) \in Nat
      /\ far \in Nat /\ Motion!Abs(d) <= far /\ Motion!Abs(bound'.at - bound.at) <= far
  <2>1. Motion!Abs(d) \in Nat /\ Motion!Abs(bound'.at - bound.at) \in Nat
    BY <1>1 DEF Motion!Abs
  <2>2. QED
    BY <2>1, LargerOfTwo
<1> HIDE DEF far
<1>3. hand' = hand + far /\ moved' = Append(moved, e) /\ moved' \in Seq(MotionEvent)
  BY <1>0, OneMoreHeard DEF far
<1>4. MotionTyped'
  BY <1>0, <1>1, <1>2, <1>3 DEF MotionTyped
<1>5. PanSum'
  BY <1>0 DEF PanSum
<1>6. HandsCounted'
  <2> DEFINE all == AllHeard
             more == AllHeard'
  <2>1. /\ all.physical \in Place /\ all.delta \in Int /\ all.physical.at \in Int
        /\ all.physical.known \in BOOLEAN /\ all.physical.resync \in BOOLEAN
    BY AllHeardTyped DEF Place
  <2>2. more = Motion!HeardAll(pointer, [physical |-> position, delta |-> 0], Append(moved, e))
    BY <1>0 DEF AllHeard
  <2>3. /\ e.is = "moved" =>
              /\ more.physical = [at |-> e.at, known |-> TRUE, resync |-> FALSE]
              /\ more.delta = IF all.physical.resync THEN all.delta
                              ELSE all.delta + e.at - (IF all.physical.known THEN all.physical.at ELSE pointer)
        /\ e.is = "delta" =>
              /\ more.physical.at = all.physical.at /\ ~ more.physical.known /\ more.physical.resync
              /\ more.delta = all.delta + e.by
    BY <2>2, OneMoreHeard
  <2>4. /\ all.physical.known => all.physical.at = bound.at
        /\ Motion!Anchored => all.physical.known \/ all.physical.resync
        /\ step.anchored /\ NoneLost => Motion!Abs(all.delta) <= hand
    BY DEF HandsCounted
  <2> HIDE DEF all, more
  <2>5. (more.physical.known => more.physical.at = bound'.at) /\ (more.physical.known \/ more.physical.resync)
    BY <2>3
  <2>6. ASSUME step'.anchored, NoneLost' PROVE Motion!Abs(more.delta) <= hand'
    <3>1. step.anchored /\ NoneLost
      BY <1>0, <2>6, <1>1, <1>3, Appended DEF NoneLost
    <3>2. all.physical.known \/ all.physical.resync
      BY <3>1, <2>4, NotLostIsAnchored
    <3>3. Motion!Abs(all.delta) <= hand
      BY <3>1, <2>4
    <3>4. CASE e.is = "moved"
      <4>1. CASE all.physical.resync
        <5>1. more.delta = all.delta
          BY <2>3, <3>4, <4>1
        <5>2. Motion!Abs(all.delta) <= hand + far
          <6>1. Motion!Abs(all.delta) \in Nat
            BY <2>1, AbsIs
          <6>2. QED
            BY <1>1, <1>2, <3>3, <6>1
        <5>3. QED
          BY <1>3, <5>1, <5>2, Zenon
      <4>2. CASE ~ all.physical.resync
        <5>1. more.delta = all.delta + (bound'.at - bound.at)
          BY <1>1, <2>1, <2>3, <2>4, <3>2, <3>4, <4>2
        <5>2. bound'.at - bound.at \in Int
          BY <1>1
        <5>3. Motion!Abs(all.delta + (bound'.at - bound.at)) <= hand + far
          BY <1>1, <1>2, <2>1, <3>3, <5>2, AbsSum
        <5>4. QED
          BY <1>3, <5>1, <5>3, Zenon
      <4>3. QED
        BY <4>1, <4>2
    <3>5. CASE e.is = "delta"
      <4>1. more.delta = all.delta + d
        BY <2>3, <3>5
      <4>2. Motion!Abs(all.delta + d) <= hand + far
        BY <1>1, <1>2, <2>1, <3>3, AbsSum
      <4>3. QED
        BY <1>3, <4>1, <4>2, Zenon
    <3>6. QED
      BY <3>4, <3>5
  <2>7. QED
    BY <2>5, <2>6 DEF HandsCounted, more
<1>7. Motion!NeverJumps'
  BY <1>0 DEF Motion!NeverJumps
<1>8. QED
  BY <1>4, <1>5, <1>6, <1>7

\* A motion the device or the host reports.
LEMMA MotionsKeep ==
  ASSUME PointerInv, NEW d \in Strides,
         Motion!HandMoves(d) \/ Motion!CursorMoves(d) \/ Motion!CapturedMoves(d)
  PROVE  PointerInv'
<1>1. d \in Int /\ bound \in [at : Int, bound : Int] /\ bound.at \in Int /\ bound.bound \in Int
  BY MotionAssumed DEF PointerInv, MotionTyped
<1>2. ASSUME NEW n \in Int, bound' = [bound EXCEPT !.at = n],
             Motion!Moved(d, [is |-> "moved", at |-> bound'.at, by |-> d])
      PROVE  PointerInv'
  <2>1. bound' \in [at : Int, bound : Int] /\ bound'.at \in Int
    BY <1>1, <1>2
  <2> DEFINE e == [is |-> "moved", at |-> bound'.at, by |-> d]
  <2>2. e \in MotionEvent /\ e.is = "moved" /\ e.at = bound'.at
    BY <1>1, <2>1 DEF MotionEvent
  <2> HIDE DEF e
  <2>3. Motion!Moved(d, e)
    BY <1>2 DEF e
  <2>4. QED
    BY <1>1, <2>1, <2>2, <2>3, MovedKeeps
<1>3. CASE Motion!HandMoves(d)
  <2> DEFINE n == Motion!Clamp(bound.at + d, 0, bound.bound - 2)
  <2>1. bound.at + d \in Int /\ bound.bound - 2 \in Int /\ 0 \in Int
    BY <1>1
  <2>2. n \in Int
    BY <2>1, ClampIs
  <2>3. bound' = [bound EXCEPT !.at = n] /\ Motion!Moved(d, [is |-> "moved", at |-> bound'.at, by |-> d])
    BY <1>3 DEF Motion!HandMoves
  <2>4. QED
    BY <1>2, <2>2, <2>3
<1>4. CASE Motion!CursorMoves(d)
  <2>1. bound' = [bound EXCEPT !.at = @ + d] /\ Motion!Moved(d, [is |-> "moved", at |-> bound'.at, by |-> d])
    BY <1>4 DEF Motion!CursorMoves
  <2>2. bound.at + d \in Int
    BY <1>1
  <2>3. QED
    BY <1>2, <2>1, <2>2
<1>5. CASE Motion!CapturedMoves(d)
  <2> DEFINE e == [is |-> "delta", by |-> d]
  <2>1. e \in MotionEvent /\ e.is = "delta" /\ e.by = d
    BY <1>1 DEF MotionEvent
  <2> HIDE DEF e
  <2>2. bound' = bound /\ Motion!Moved(d, e)
    BY <1>5 DEF Motion!CapturedMoves, e
  <2>3. QED
    BY <1>1, <2>1, <2>2, MovedKeeps
<1>6. QED
  BY <1>3, <1>4, <1>5

\* A shortcut or a loss of the focus.
LEMMA TurnsKeep ==
  ASSUME PointerInv, Motion!PressOrRelease \/ Motion!LoseFocus
  PROVE  PointerInv'
<1>0. PICK more \in {<<>>, <<[is |-> "lost"]>>} :
        /\ moved' = moved \o more
        /\ UNCHANGED <<device, plugged, shown, bound, position, pointer, focused, gesture, panned, travel, hand, step>>
  BY DEF Motion!PressOrRelease, Motion!LoseFocus, Motion!Turn, Motion!inputVars
<1>1. MotionTyped /\ PanSum /\ HandsCounted /\ Motion!NeverJumps /\ moved \in Seq(MotionEvent)
  BY DEF PointerInv, MotionTyped
<1>2. CASE more = <<>>
  <2>1. moved' = moved
    BY <1>0, <1>1, <1>2, ConcatEmptySeq
  <2>2. AllHeard' = AllHeard /\ Motion!Anchored' = Motion!Anchored /\ NoneLost' = NoneLost
    BY <1>0, <2>1 DEF AllHeard, Motion!Anchored, NoneLost
  <2>3. QED
    BY <1>0, <1>1, <2>1, <2>2 DEF PointerInv, MotionTyped, PanSum, HandsCounted, Motion!NeverJumps
<1>3. CASE more = <<[is |-> "lost"]>>
  <2> DEFINE e == [is |-> "lost"]
  <2>1. e \in MotionEvent /\ e.is = "lost"
    BY DEF MotionEvent
  <2>2. moved' = Append(moved, e)
    BY <1>0, <1>1, <1>3, <2>1, AppendIsConcat
  <2> HIDE DEF e
  <2>3. moved' \in Seq(MotionEvent) /\ moved' # <<>> /\ moved'[Len(moved')].is = "lost" /\ ~ NoneLost'
    BY <1>1, <2>1, <2>2, OneMoreHeard, Appended DEF NoneLost
  <2>4. ~ AllHeard'.physical.known
    <3>1. AllHeard' = Motion!HeardAll(pointer, [physical |-> position, delta |-> 0], Append(moved, e))
      BY <1>0, <2>2 DEF AllHeard
    <3>2. QED
      BY <1>1, <2>1, <3>1, OneMoreHeard
  <2>5. ~ Motion!Anchored'
    BY <2>3 DEF Motion!Anchored
  <2>6. QED
    BY <1>0, <1>1, <2>3, <2>4, <2>5 DEF PointerInv, MotionTyped, PanSum, HandsCounted, Motion!NeverJumps
<1>4. QED
  BY <1>2, <1>3

\* An output comes or goes, or nothing happens.
LEMMA ReplugKeeps ==
  ASSUME PointerInv, (\E o \in Outputs : Motion!Replug(o)) \/ UNCHANGED pointerVars
  PROVE  PointerInv'
<1>1. /\ plugged' \subseteq Outputs
      /\ UNCHANGED <<device, shown, bound, moved, position, pointer, focused, gesture, panned, travel, hand, step>>
  BY DEF Motion!Replug, pointerVars, PointerInv, MotionTyped, Motion!inputVars
<1>2. AllHeard' = AllHeard /\ Motion!Anchored' = Motion!Anchored /\ NoneLost' = NoneLost
  BY <1>1 DEF AllHeard, Motion!Anchored, NoneLost
<1>3. QED
  BY <1>1, <1>2 DEF PointerInv, MotionTyped, PanSum, HandsCounted, Motion!NeverJumps

\* What a frame makes of a motion: it pans, or moves the pointer, or neither.
LEMMA PannedIs ==
  ASSUME MotionTyped, PanSum, NEW delta \in Int
  PROVE  LET pan == Motion!Panned(delta) IN
         /\ pan.gesture \in [output : Outputs \cup {None}, rest : Int, engaged : BOOLEAN]
         /\ pan.by \in Int /\ pan.left \in {0, delta} /\ pan.left \in Int
         /\ Motion!Abs(pan.gesture.rest) < 2
         /\ held => pan.gesture.rest + 2 * pan.by + pan.left = gesture.rest + delta
         /\ ~ held => pan.gesture.rest = 0
<1> DEFINE chosen == IF gesture.output = None THEN focused ELSE gesture.output
           sum == delta + gesture.rest
<1>1. /\ gesture \in [output : Outputs \cup {None}, rest : Int, engaged : BOOLEAN]
      /\ gesture.rest \in Int /\ chosen \in Outputs \cup {None} /\ gesture.engaged \in BOOLEAN
      /\ Motion!Abs(gesture.rest) < 2
  BY DEF MotionTyped, PanSum
<1>2. sum \in Int /\ Motion!Trunc(sum) \in Int /\ Motion!Abs(sum - 2 * Motion!Trunc(sum)) < 2
  BY <1>1, TruncIs
<1>3. CASE ~ held
  <2>1. Motion!Panned(delta) = [gesture |-> [output |-> None, rest |-> 0, engaged |-> FALSE], by |-> 0, left |-> delta]
    BY <1>3 DEF Motion!Panned, Motion!NoGesture
  <2>2. Motion!Abs(0) < 2
    BY DEF Motion!Abs
  <2>3. QED
    BY <1>3, <2>1, <2>2
<1>4. CASE held /\ chosen = None
  <2>1. Motion!Panned(delta) = [gesture |-> gesture, by |-> 0, left |-> delta]
    BY <1>4 DEF Motion!Panned
  <2>2. QED
    BY <1>1, <1>4, <2>1
<1>5. CASE held /\ chosen # None
  <2> DEFINE all == Motion!Trunc(sum)
             engaged == gesture.engaged \/ all # 0
             next == [output |-> chosen, rest |-> sum - 2 * all, engaged |-> engaged]
  <2>1. Motion!Panned(delta) = [gesture |-> next, by |-> all, left |-> 0]
    BY <1>5 DEF Motion!Panned
  <2>2. sum - 2 * all \in Int /\ engaged \in BOOLEAN
    BY <1>1, <1>2
  <2>3. (sum - 2 * all) + 2 * all + 0 = gesture.rest + delta
    BY <1>1, <1>2
  <2> HIDE DEF chosen, sum, all, engaged
  <2>4. next \in [output : Outputs \cup {None}, rest : Int, engaged : BOOLEAN] /\ next.rest = sum - 2 * all
    BY <1>1, <2>2
  <2>5. Motion!Abs(next.rest) < 2 /\ all \in Int
    BY <1>2, <2>4 DEF all
  <2> HIDE DEF next
  <2>6. QED
    BY <1>5, <2>1, <2>3, <2>4, <2>5
<1>6. QED
  BY <1>3, <1>4, <1>5

\* A frame hears all there is, and starts anew where the device is.
LEMMA MotionFrameKeeps ==
  ASSUME PointerInv, Motion!Frame
  PROVE  PointerInv'
<1> DEFINE pan == Motion!Panned(AllHeard.delta)
<1>1. /\ position' = AllHeard.physical /\ gesture' = pan.gesture
      /\ panned' = IF held THEN panned + pan.by ELSE 0
      /\ travel' = IF held THEN travel + AllHeard.delta - pan.left ELSE 0
      /\ pointer' = IF pan.left = 0 THEN pointer ELSE Motion!Clamped(pointer + pan.left)
      /\ focused' = Motion!Tracked(pointer')
      /\ step' = [made |-> pointer' - pointer, hands |-> hand,
                 anchored |-> Motion!Anchored,
                 sound |-> /\ step.anchored
                           /\ \A i \in DOMAIN moved : moved[i].is # "lost"
                           /\ focused \in shown /\ Motion!Holds(focused, pointer)]
      /\ hand' = 0
      /\ bound' = IF device = "tty" THEN [bound EXCEPT !.bound = Motion!Bound] ELSE bound
      /\ moved' = <<>> /\ shown' = plugged
      /\ UNCHANGED <<device, plugged, held, left>>
  BY DEF Motion!Frame, AllHeard
<1>2. /\ MotionTyped /\ PanSum /\ HandsCounted
      /\ pointer \in Int /\ hand \in Nat /\ panned \in Int /\ travel \in Int /\ gesture.rest \in Int
      /\ shown \subseteq Outputs /\ bound \in [at : Int, bound : Int]
  BY DEF PointerInv, MotionTyped
<1>3. AllHeard.physical \in Place /\ AllHeard.delta \in Int /\ AllHeard.physical.at \in Int
  BY <1>2, AllHeardTyped
<1>4. /\ pan.gesture \in [output : Outputs \cup {None}, rest : Int, engaged : BOOLEAN] /\ pan.gesture.rest \in Int
      /\ pan.by \in Int /\ pan.left \in {0, AllHeard.delta} /\ pan.left \in Int
      /\ Motion!Abs(pan.gesture.rest) < 2
      /\ held => pan.gesture.rest + 2 * pan.by + pan.left = gesture.rest + AllHeard.delta
      /\ ~ held => pan.gesture.rest = 0
  BY <1>2, <1>3, PannedIs
<1> HIDE DEF pan
<1>5. bound' \in [at : Int, bound : Int] /\ bound'.at = bound.at
  <2>1. Motion!Bound \in Int
    BY <1>2, BoundIsNumber
  <2>2. QED
    BY <1>1, <1>2, <2>1
<1>6. pointer' \in Int
  <2>1. pointer + pan.left \in Int
    BY <1>2, <1>4
  <2>2. CASE shown = {}
    BY <1>1, <1>2, <2>1, <2>2 DEF Motion!Clamped
  <2>3. CASE shown # {}
    <3>1. Motion!Clamped(pointer + pan.left) \in Int
      BY <1>2, <2>1, <2>3, ClampedLands
    <3>2. QED
      BY <1>1, <1>2, <3>1
  <2>4. QED
    BY <2>2, <2>3
<1>7. focused' \in Outputs \cup {None}
  <2>1. Motion!Over(pointer') # {} => Motion!Least(Motion!Over(pointer')) \in Motion!Over(pointer')
    <3>1. Motion!Over(pointer') \subseteq Nat
      BY <1>2, MotionAssumed DEF Motion!Over
    <3>2. QED
      BY <3>1, LeastIsOne
  <2>2. Motion!Over(pointer') \subseteq Outputs
    BY <1>2 DEF Motion!Over
  <2>3. QED
    BY <1>1, <1>2, <2>1, <2>2 DEF Motion!Tracked
<1>8. /\ step'.made = pointer' - pointer /\ step'.hands = hand /\ step'.anchored = Motion!Anchored
      /\ step'.sound => step.anchored /\ NoneLost /\ focused \in shown /\ Motion!Holds(focused, pointer)
      /\ step' \in [made : Int, hands : Nat, anchored : BOOLEAN, sound : BOOLEAN]
  <2>1. step.anchored \in BOOLEAN /\ Motion!Anchored \in BOOLEAN
    BY <1>2 DEF MotionTyped, Motion!Anchored
  <2>2. pointer' - pointer \in Int
    BY <1>2, <1>6
  <2> DEFINE sound == /\ step.anchored
                      /\ \A i \in DOMAIN moved : moved[i].is # "lost"
                      /\ focused \in shown /\ Motion!Holds(focused, pointer)
  <2>3. sound \in BOOLEAN /\ (sound => step.anchored /\ NoneLost /\ focused \in shown /\ Motion!Holds(focused, pointer))
    BY <2>1 DEF NoneLost
  <2>4. step' = [made |-> pointer' - pointer, hands |-> hand, anchored |-> Motion!Anchored, sound |-> sound]
    BY <1>1
  <2> HIDE DEF sound
  <2>5. QED
    BY <1>2, <2>1, <2>2, <2>3, <2>4
<1>9. MotionTyped'
  <2>1. panned' \in Int /\ travel' \in Int /\ hand' \in Nat
    <3>1. /\ panned' = IF held THEN panned + pan.by ELSE 0
          /\ travel' = IF held THEN travel + AllHeard.delta - pan.left ELSE 0
          /\ hand' = 0
      BY <1>1
    <3>2. pan.by \in Int /\ pan.left \in Int /\ AllHeard.delta \in Int /\ panned \in Int /\ travel \in Int
      BY <1>2, <1>3, <1>4
    <3>3. QED
      BY <3>1, <3>2
  <2>2. moved' \in Seq(MotionEvent) /\ plugged' \subseteq Outputs /\ shown' \subseteq Outputs
    BY <1>1, <1>2 DEF MotionTyped
  <2>3. position' \in Place /\ gesture' \in [output : Outputs \cup {None}, rest : Int, engaged : BOOLEAN]
    BY <1>1, <1>3, <1>4
  <2>4. QED
    BY <1>5, <1>6, <1>7, <1>8, <2>1, <2>2, <2>3 DEF MotionTyped
<1>10. PanSum'
  <2>1. travel = 2 * panned + gesture.rest
    BY <1>2 DEF PanSum
  <2>2. gesture'.rest = pan.gesture.rest /\ Motion!Abs(gesture'.rest) < 2
    BY <1>1, <1>4
  <2>3. travel' = 2 * panned' + gesture'.rest
    <3>1. /\ panned' = IF held THEN panned + pan.by ELSE 0
          /\ travel' = IF held THEN travel + AllHeard.delta - pan.left ELSE 0
          /\ gesture'.rest = pan.gesture.rest
      BY <1>1, <2>2
    <3>2. /\ pan.by \in Int /\ pan.left \in Int /\ AllHeard.delta \in Int /\ panned \in Int /\ travel \in Int
          /\ gesture.rest \in Int /\ pan.gesture.rest \in Int
      BY <1>2, <1>3, <1>4
    <3>3. CASE held
      <4>1. pan.gesture.rest + 2 * pan.by + pan.left = gesture.rest + AllHeard.delta
        BY <1>4, <3>3
      <4>2. QED
        BY <2>1, <3>1, <3>2, <3>3, <4>1
    <3>4. CASE ~ held
      <4>1. pan.gesture.rest = 0
        BY <1>4, <3>4
      <4>2. QED
        BY <3>1, <3>4, <4>1
    <3>5. QED
      BY <3>3, <3>4
  <2>4. QED
    BY <2>2, <2>3 DEF PanSum
<1>11. HandsCounted'
  <2>1. AllHeard' = [physical |-> AllHeard.physical, delta |-> 0]
    <3>1. AllHeard' = Motion!HeardAll(pointer', [physical |-> AllHeard.physical, delta |-> 0], <<>>)
      BY <1>1 DEF AllHeard
    <3>2. [physical |-> AllHeard.physical, delta |-> 0] \in Motions
      BY <1>3 DEF Motions
    <3>3. QED
      BY <1>6, <3>1, <3>2, NoMotion
  <2>2. Motion!Anchored' <=> Motion!Anchored
    BY <1>1, <1>8 DEF Motion!Anchored
  <2>3. /\ AllHeard.physical.known => AllHeard.physical.at = bound.at
        /\ Motion!Anchored => AllHeard.physical.known \/ AllHeard.physical.resync
    BY <1>2 DEF HandsCounted
  <2>4. AllHeard'.physical = AllHeard.physical /\ AllHeard'.delta = 0
    BY <2>1
  <2>5. Motion!Abs(0) <= 0 /\ hand' = 0
    BY <1>1 DEF Motion!Abs
  <2>6. QED
    BY <1>5, <2>2, <2>3, <2>4, <2>5 DEF HandsCounted
<1>12. Motion!NeverJumps'
  <2>1. SUFFICES ASSUME step'.sound PROVE Motion!Abs(pointer' - pointer) <= hand
    BY <1>8 DEF Motion!NeverJumps
  <2>2. step.anchored /\ NoneLost /\ focused \in shown /\ Motion!Holds(focused, pointer)
    BY <1>8, <2>1
  <2>3. Motion!Abs(AllHeard.delta) <= hand
    BY <1>2, <2>2 DEF HandsCounted
  <2>4. CASE pan.left = 0
    <3>1. pointer' - pointer = 0
      BY <1>1, <1>2, <2>4
    <3>2. Motion!Abs(0) = 0
      BY DEF Motion!Abs
    <3>3. QED
      BY <1>2, <3>1, <3>2
  <2>5. CASE pan.left # 0
    <3>1. pan.left = AllHeard.delta
      BY <1>4, <2>5
    <3>2. pointer' = Motion!Clamped(pointer + AllHeard.delta)
      BY <1>1, <2>5, <3>1
    <3>3. Motion!Abs(pointer' - pointer) <= Motion!Abs(AllHeard.delta)
      BY <1>2, <1>3, <2>2, <3>2, ClampedNear
    <3>4. Motion!Abs(pointer' - pointer) \in Nat /\ Motion!Abs(AllHeard.delta) \in Nat
      <4>1. pointer' - pointer \in Int
        BY <1>2, <1>6
      <4>2. QED
        BY <1>3, <4>1, AbsIs
    <3>5. QED
      BY <1>2, <2>3, <3>3, <3>4
  <2>6. QED
    BY <2>4, <2>5
<1>13. QED
  BY <1>9, <1>10, <1>11, <1>12 DEF PointerInv

-----------------------------------------------------------------------------
(* The pointer.                                                            *)

LEMMA PointerInvNext ==
  ASSUME PointerInv, [Motion!Next]_pointerVars
  PROVE  PointerInv'
<1>1. CASE \E d \in Strides : Motion!HandMoves(d) \/ Motion!CursorMoves(d) \/ Motion!CapturedMoves(d)
  BY <1>1, MotionsKeep
<1>2. CASE Motion!PressOrRelease \/ Motion!LoseFocus
  BY <1>2, TurnsKeep
<1>3. CASE (\E o \in Outputs : Motion!Replug(o)) \/ UNCHANGED pointerVars
  BY <1>3, ReplugKeeps
<1>4. CASE Motion!Frame
  BY <1>4, MotionFrameKeeps
<1>5. QED
  BY <1>1, <1>2, <1>3, <1>4 DEF Motion!Next

LEMMA MotionVars ==
  ASSUME UNCHANGED Motion!vars
  PROVE  UNCHANGED pointerVars
BY DEF Motion!vars, pointerVars

\* Where the pointer is follows from what hands did: everything the device or the host reported
\* is accounted for, also what is still in the queue (pointer.rs, seat.rs).
THEOREM PointerInvariant == Motion!Spec => []PointerInv
<1>1. Motion!Init => PointerInv
  BY PointerInvInit
<1>2. PointerInv /\ [Motion!Next]_(Motion!vars) => PointerInv'
  BY PointerInvNext, MotionVars
<1>3. QED
  BY <1>1, <1>2, PTL DEF Motion!Spec

\* A pan is exact, and the pointer moves no further than hands did, for all outputs, strides
\* and queues.
THEOREM PointerAlwaysTrue == Motion!Spec => []PointerTrue
<1>1. PointerInv => PointerTrue
  BY DEF PointerInv, PanSum, PointerTrue, Motion!PointerTrue, Motion!PanIsExact
<1>2. QED
  BY <1>1, PointerInvariant, PTL

\* The pointer ends on the output that has the focus from then on, whichever outputs overlap,
\* leave gaps, come or go.
THEOREM StaysOnOutputAlways == Motion!Spec => StaysOnOutput
<1>1. ASSUME PointerInv, [Motion!Next]_(Motion!vars)
      PROVE  [pointer' # pointer /\ shown # {} => focused' \in shown /\ Motion!Holds(focused', pointer')]_(Motion!vars)
  <2>1. SUFFICES ASSUME Motion!Next, pointer' # pointer, shown # {}
                 PROVE  focused' \in shown /\ Motion!Holds(focused', pointer')
    BY <1>1
  <2>2. Motion!Frame
    BY <2>1 DEF Motion!Next, Motion!HandMoves, Motion!CursorMoves, Motion!CapturedMoves, Motion!Moved,
                Motion!PressOrRelease, Motion!LoseFocus, Motion!Turn, Motion!Replug, Motion!inputVars
  <2>3. shown \subseteq Outputs /\ pointer \in Int /\ AllHeard.delta \in Int /\ MotionTyped /\ PanSum
    BY <1>1, AllHeardTyped DEF PointerInv, MotionTyped
  <2> DEFINE pan == Motion!Panned(AllHeard.delta)
  <2>4. pointer' = Motion!Clamped(pointer + pan.left) /\ focused' = Motion!Tracked(pointer')
    BY <2>1, <2>2 DEF Motion!Frame, AllHeard
  <2>5. pan.left \in Int
    BY <2>3, PannedIs
  <2> HIDE DEF pan
  <2>6. pointer + pan.left \in Int
    BY <2>3, <2>5
  <2>7. \E o \in shown : Motion!Holds(o, pointer')
    BY <2>1, <2>3, <2>4, <2>6, ClampedLands
  <2>8. Motion!Over(pointer') # {} /\ Motion!Over(pointer') \subseteq Nat
    BY <2>3, <2>7, MotionAssumed DEF Motion!Over
  <2>9. focused' \in Motion!Over(pointer')
    BY <2>4, <2>8, LeastIsOne DEF Motion!Tracked
  <2>10. QED
    BY <2>9 DEF Motion!Over
<1>2. QED
  BY <1>1, PointerInvariant, PTL DEF Motion!Spec, StaysOnOutput, Motion!StaysOnOutput

-----------------------------------------------------------------------------
(* The host window: what holds of it at every step.                        *)

Framed(S, B, Q) == [size : S, focused : B, fullscreen : B, redraw : B, broken : B, spoke : B, queue : Q]
Handed(B, I, T, W, C, S) ==
  [active : B, input : I, stamps : T, window : W, capture : C, closed : B, ready : B, spec : S]

WindowEvent ==
  [kind : {"redraw", "moved", "motion", "delta", "close"}] \cup [kind : {"resized"}, size : Sizes]
    \cup [kind : {"focus"}, on : BOOLEAN]
Windows == Framed(Sizes, BOOLEAN, Seq(WindowEvent))
Word == {"centre", "moved", "delta", "focus"}
Capture == {"locked", "confined", "free"}
Spec0 == [name : {"configured", "output", "winit"}, size : Sizes]
Sharing == Handed(BOOLEAN, Seq(Word), Seq(Nat), Sizes \cup {None}, Capture, Spec0)
Device == [id : Nat, size : Sizes, period : Periods]
Clock == [of : Nat, anchor : Nat, period : Periods, sequence : Nat]
Line == [of : Nat, period : Periods, time : Nat, sequence : Nat]

NestedTyped ==
  /\ scene \in Scenes /\ turn \in {"poll", "extract", "apply", "present"} /\ acts \in Nat /\ now \in Nat
  /\ window \in Windows /\ shared \in Sharing /\ shortcuts \in BOOLEAN \cup {None}
  /\ configured \in Sizes \cup {None} /\ output \in Device \cup {None}
  /\ seen \in [output : Device \cup {None}, config : Sizes \cup {None}]
  /\ clock \in Clock \cup {None} /\ timeline \in Line \cup {None}

\* A size the host reported is on its way, was handed over, or is that of the output.
NoSize(q) == \A i \in DOMAIN q : q[i].kind # "resized"
SizedBy(q, s) ==
  \A i \in DOMAIN q :
    q[i].kind = "resized" /\ (\A j \in DOMAIN q : j > i => q[j].kind # "resized") => q[i].size = s
SizesKnown(q, s, reported, out) ==
  /\ SizedBy(q, s)
  /\ NoSize(q) => IF reported # None THEN reported = s ELSE out # None /\ out.size = s
SizesSound ==
  /\ scene.driver = "host" /\ window.spoke => SizesKnown(window.queue, window.size, shared.window, output)
  /\ turn = "extract" => seen.output = output

\* The last absolute position of some input, or the one before.
Absolutes(input) == {i \in DOMAIN input : input[i] \in {"moved", "centre"}}
LastIn(a, input) ==
  IF Absolutes(input) = {} THEN a
  ELSE input[CHOOSE i \in Absolutes(input) : \A j \in Absolutes(input) : j <= i]
Seeded(a, input, capture) ==
  /\ \A i \in DOMAIN input : input[i] = "delta" => LastIn(a, SubSeq(input, 1, i)) = "centre"
  /\ capture = "locked" => LastIn(a, input) = "centre"

\* A clock counts from its anchor, up to a time before everything that is pending.
Counted(c) == c.anchor + (c.sequence - 1) * c.period
StampsSound(s) == \A i \in DOMAIN s : s[i] <= now /\ (\A j \in DOMAIN s : j <= i => s[j] <= s[i])
ClockSound ==
  /\ StampsSound(shared.stamps)
  /\ clock # None => /\ clock.sequence >= 1 /\ Counted(clock) <= now
                     /\ \A i \in DOMAIN shared.stamps : Counted(clock) <= shared.stamps[i]
  /\ timeline # None => /\ clock # None /\ timeline.of = clock.of /\ timeline.period = clock.period
                        /\ timeline.sequence = clock.sequence /\ timeline.time = Counted(clock)

NestedInv ==
  /\ NestedTyped /\ SizesSound /\ Seeded(absolute, shared.input, shared.capture)
  /\ Nested!ShortcutsReturned /\ Nested!KeepsDrawing /\ ClockSound

LEMMA NestedAssumed ==
  /\ Sizes \subseteq Nat /\ IsFiniteSet(Sizes) /\ Standard \in Sizes
  /\ Periods \subseteq Nat \ {0} /\ Periods # {}
  /\ None \notin Sizes /\ None \notin BOOLEAN /\ None \notin Device /\ None \notin Clock /\ None \notin Line
  /\ \A s \in Scenes : s.driver \in {"host", "timer"} /\ s.grabs \subseteq {"locked", "confined"}
                       /\ s.honours \in BOOLEAN /\ s.inhibits \in BOOLEAN /\ s.configs \subseteq Sizes \cup {None}
                       /\ s.bound \in Nat
<1>1. Nested!IsFiniteSet(Sizes) => IsFiniteSet(Sizes)
  BY DEF Nested!IsFiniteSet, IsFiniteSet
<1>2. Nested!SizesAssumption /\ Nested!ScenesAssumption /\ Nested!PeriodsAssumption /\ Nested!NoneAssumption
  BY NestedAssumption
<1>3. QED
  BY <1>1, <1>2 DEF Nested!SizesAssumption, Nested!ScenesAssumption, Nested!PeriodsAssumption,
                    Nested!NoneAssumption, Device, Clock, Line

-----------------------------------------------------------------------------
(* Records with some fields replaced.                                      *)

IsWindow(v, s, f, u, r, b, k, q) ==
  /\ v.size = s /\ v.focused = f /\ v.fullscreen = u /\ v.redraw = r
  /\ v.broken = b /\ v.spoke = k /\ v.queue = q

LEMMA FrameReplaced ==
  ASSUME NEW S, NEW B, NEW Q, NEW w \in Framed(S, B, Q)
  PROVE  /\ \A x \in S : [w EXCEPT !.size = x] \in Framed(S, B, Q)
              /\ IsWindow([w EXCEPT !.size = x],
                   x, w.focused, w.fullscreen, w.redraw, w.broken, w.spoke, w.queue)
         /\ \A x \in B : [w EXCEPT !.focused = x] \in Framed(S, B, Q)
              /\ IsWindow([w EXCEPT !.focused = x],
                   w.size, x, w.fullscreen, w.redraw, w.broken, w.spoke, w.queue)
         /\ \A x \in B : [w EXCEPT !.fullscreen = x] \in Framed(S, B, Q)
              /\ IsWindow([w EXCEPT !.fullscreen = x],
                   w.size, w.focused, x, w.redraw, w.broken, w.spoke, w.queue)
         /\ \A x \in B : [w EXCEPT !.redraw = x] \in Framed(S, B, Q)
              /\ IsWindow([w EXCEPT !.redraw = x],
                   w.size, w.focused, w.fullscreen, x, w.broken, w.spoke, w.queue)
         /\ \A x \in B : [w EXCEPT !.broken = x] \in Framed(S, B, Q)
              /\ IsWindow([w EXCEPT !.broken = x],
                   w.size, w.focused, w.fullscreen, w.redraw, x, w.spoke, w.queue)
         /\ \A x \in B : [w EXCEPT !.spoke = x] \in Framed(S, B, Q)
              /\ IsWindow([w EXCEPT !.spoke = x],
                   w.size, w.focused, w.fullscreen, w.redraw, w.broken, x, w.queue)
         /\ \A x \in Q : [w EXCEPT !.queue = x] \in Framed(S, B, Q)
              /\ IsWindow([w EXCEPT !.queue = x],
                   w.size, w.focused, w.fullscreen, w.redraw, w.broken, w.spoke, x)
BY DEF Framed, IsWindow

LEMMA WindowReplaced ==
  ASSUME NEW w \in Windows
  PROVE  /\ \A x \in Sizes : [w EXCEPT !.size = x] \in Windows
              /\ IsWindow([w EXCEPT !.size = x],
                   x, w.focused, w.fullscreen, w.redraw, w.broken, w.spoke, w.queue)
         /\ \A x \in BOOLEAN : [w EXCEPT !.focused = x] \in Windows
              /\ IsWindow([w EXCEPT !.focused = x],
                   w.size, x, w.fullscreen, w.redraw, w.broken, w.spoke, w.queue)
         /\ \A x \in BOOLEAN : [w EXCEPT !.fullscreen = x] \in Windows
              /\ IsWindow([w EXCEPT !.fullscreen = x],
                   w.size, w.focused, x, w.redraw, w.broken, w.spoke, w.queue)
         /\ \A x \in BOOLEAN : [w EXCEPT !.redraw = x] \in Windows
              /\ IsWindow([w EXCEPT !.redraw = x],
                   w.size, w.focused, w.fullscreen, x, w.broken, w.spoke, w.queue)
         /\ \A x \in BOOLEAN : [w EXCEPT !.broken = x] \in Windows
              /\ IsWindow([w EXCEPT !.broken = x],
                   w.size, w.focused, w.fullscreen, w.redraw, x, w.spoke, w.queue)
         /\ \A x \in BOOLEAN : [w EXCEPT !.spoke = x] \in Windows
              /\ IsWindow([w EXCEPT !.spoke = x],
                   w.size, w.focused, w.fullscreen, w.redraw, w.broken, x, w.queue)
         /\ \A x \in Seq(WindowEvent) : [w EXCEPT !.queue = x] \in Windows
              /\ IsWindow([w EXCEPT !.queue = x],
                   w.size, w.focused, w.fullscreen, w.redraw, w.broken, w.spoke, x)
BY FrameReplaced, Zenon DEF Windows

LEMMA WindowFields ==
  ASSUME NEW w \in Windows
  PROVE  /\ w.size \in Sizes /\ w.focused \in BOOLEAN /\ w.fullscreen \in BOOLEAN /\ w.redraw \in BOOLEAN
         /\ w.broken \in BOOLEAN /\ w.spoke \in BOOLEAN /\ w.queue \in Seq(WindowEvent)
BY DEF Windows, Framed

IsShared(v, a, i, t, w, c, l, r, s) ==
  /\ v.active = a /\ v.input = i /\ v.stamps = t /\ v.window = w
  /\ v.capture = c /\ v.closed = l /\ v.ready = r /\ v.spec = s

LEMMA HandReplaced ==
  ASSUME NEW B, NEW I, NEW T, NEW W, NEW C, NEW S, NEW w \in Handed(B, I, T, W, C, S)
  PROVE  /\ \A x \in B : [w EXCEPT !.active = x] \in Handed(B, I, T, W, C, S)
              /\ IsShared([w EXCEPT !.active = x],
                   x, w.input, w.stamps, w.window, w.capture, w.closed, w.ready, w.spec)
         /\ \A x \in I : [w EXCEPT !.input = x] \in Handed(B, I, T, W, C, S)
              /\ IsShared([w EXCEPT !.input = x],
                   w.active, x, w.stamps, w.window, w.capture, w.closed, w.ready, w.spec)
         /\ \A x \in T : [w EXCEPT !.stamps = x] \in Handed(B, I, T, W, C, S)
              /\ IsShared([w EXCEPT !.stamps = x],
                   w.active, w.input, x, w.window, w.capture, w.closed, w.ready, w.spec)
         /\ \A x \in W : [w EXCEPT !.window = x] \in Handed(B, I, T, W, C, S)
              /\ IsShared([w EXCEPT !.window = x],
                   w.active, w.input, w.stamps, x, w.capture, w.closed, w.ready, w.spec)
         /\ \A x \in C : [w EXCEPT !.capture = x] \in Handed(B, I, T, W, C, S)
              /\ IsShared([w EXCEPT !.capture = x],
                   w.active, w.input, w.stamps, w.window, x, w.closed, w.ready, w.spec)
         /\ \A x \in B : [w EXCEPT !.closed = x] \in Handed(B, I, T, W, C, S)
              /\ IsShared([w EXCEPT !.closed = x],
                   w.active, w.input, w.stamps, w.window, w.capture, x, w.ready, w.spec)
         /\ \A x \in B : [w EXCEPT !.ready = x] \in Handed(B, I, T, W, C, S)
              /\ IsShared([w EXCEPT !.ready = x],
                   w.active, w.input, w.stamps, w.window, w.capture, w.closed, x, w.spec)
         /\ \A x \in S : [w EXCEPT !.spec = x] \in Handed(B, I, T, W, C, S)
              /\ IsShared([w EXCEPT !.spec = x],
                   w.active, w.input, w.stamps, w.window, w.capture, w.closed, w.ready, x)
BY DEF Handed, IsShared

LEMMA SharedReplaced ==
  ASSUME NEW w \in Sharing
  PROVE  /\ \A x \in BOOLEAN : [w EXCEPT !.active = x] \in Sharing
              /\ IsShared([w EXCEPT !.active = x],
                   x, w.input, w.stamps, w.window, w.capture, w.closed, w.ready, w.spec)
         /\ \A x \in Seq(Word) : [w EXCEPT !.input = x] \in Sharing
              /\ IsShared([w EXCEPT !.input = x],
                   w.active, x, w.stamps, w.window, w.capture, w.closed, w.ready, w.spec)
         /\ \A x \in Seq(Nat) : [w EXCEPT !.stamps = x] \in Sharing
              /\ IsShared([w EXCEPT !.stamps = x],
                   w.active, w.input, x, w.window, w.capture, w.closed, w.ready, w.spec)
         /\ \A x \in Sizes \cup {None} : [w EXCEPT !.window = x] \in Sharing
              /\ IsShared([w EXCEPT !.window = x],
                   w.active, w.input, w.stamps, x, w.capture, w.closed, w.ready, w.spec)
         /\ \A x \in Capture : [w EXCEPT !.capture = x] \in Sharing
              /\ IsShared([w EXCEPT !.capture = x],
                   w.active, w.input, w.stamps, w.window, x, w.closed, w.ready, w.spec)
         /\ \A x \in BOOLEAN : [w EXCEPT !.closed = x] \in Sharing
              /\ IsShared([w EXCEPT !.closed = x],
                   w.active, w.input, w.stamps, w.window, w.capture, x, w.ready, w.spec)
         /\ \A x \in BOOLEAN : [w EXCEPT !.ready = x] \in Sharing
              /\ IsShared([w EXCEPT !.ready = x],
                   w.active, w.input, w.stamps, w.window, w.capture, w.closed, x, w.spec)
         /\ \A x \in Spec0 : [w EXCEPT !.spec = x] \in Sharing
              /\ IsShared([w EXCEPT !.spec = x],
                   w.active, w.input, w.stamps, w.window, w.capture, w.closed, w.ready, x)
BY HandReplaced, Zenon DEF Sharing

LEMMA SharedFields ==
  ASSUME NEW w \in Sharing
  PROVE  /\ w.active \in BOOLEAN /\ w.input \in Seq(Word) /\ w.stamps \in Seq(Nat) /\ w.window \in Sizes \cup {None}
         /\ w.capture \in Capture /\ w.closed \in BOOLEAN /\ w.ready \in BOOLEAN /\ w.spec \in Spec0
BY DEF Sharing, Handed

\* What the event loop works on: the window, what is shared, and the inhibitor.
Holding(W, S, C) == [host : W, shared : S, shortcuts : C]
Inhibitor == BOOLEAN \cup {None}
Polls == Holding(Windows, Sharing, Inhibitor)

IsPoll(v, h, s, c) == v.host = h /\ v.shared = s /\ v.shortcuts = c

LEMMA HoldingReplaced ==
  ASSUME NEW W, NEW S, NEW C, NEW p \in Holding(W, S, C)
  PROVE  /\ \A x \in W : [p EXCEPT !.host = x] \in Holding(W, S, C)
              /\ IsPoll([p EXCEPT !.host = x], x, p.shared, p.shortcuts)
         /\ \A x \in S : [p EXCEPT !.shared = x] \in Holding(W, S, C)
              /\ IsPoll([p EXCEPT !.shared = x], p.host, x, p.shortcuts)
         /\ \A x \in C : [p EXCEPT !.shortcuts = x] \in Holding(W, S, C)
              /\ IsPoll([p EXCEPT !.shortcuts = x], p.host, p.shared, x)
BY DEF Holding, IsPoll

LEMMA PollReplaced ==
  ASSUME NEW p \in Polls
  PROVE  /\ \A x \in Windows : [p EXCEPT !.host = x] \in Polls
              /\ IsPoll([p EXCEPT !.host = x], x, p.shared, p.shortcuts)
         /\ \A x \in Sharing : [p EXCEPT !.shared = x] \in Polls
              /\ IsPoll([p EXCEPT !.shared = x], p.host, x, p.shortcuts)
         /\ \A x \in Inhibitor : [p EXCEPT !.shortcuts = x] \in Polls
              /\ IsPoll([p EXCEPT !.shortcuts = x], p.host, p.shared, x)
BY HoldingReplaced, Zenon DEF Polls

LEMMA PollFields ==
  ASSUME NEW p \in Polls
  PROVE  p.host \in Windows /\ p.shared \in Sharing /\ p.shortcuts \in Inhibitor
BY DEF Polls, Holding

LEMMA PathReplaced ==
  ASSUME NEW p \in Polls, NEW x
  PROVE  /\ [p EXCEPT !.shared.input = x] = [p EXCEPT !.shared = [p.shared EXCEPT !.input = x]]
         /\ [p EXCEPT !.shared.capture = x] = [p EXCEPT !.shared = [p.shared EXCEPT !.capture = x]]
         /\ [p EXCEPT !.shared.window = x] = [p EXCEPT !.shared = [p.shared EXCEPT !.window = x]]
         /\ [p EXCEPT !.shared.closed = x] = [p EXCEPT !.shared = [p.shared EXCEPT !.closed = x]]
         /\ [p EXCEPT !.host.redraw = x] = [p EXCEPT !.host = [p.host EXCEPT !.redraw = x]]
OBVIOUS

-----------------------------------------------------------------------------
(* Queues of the window.                                                   *)

LEMMA WindowEventFields ==
  ASSUME NEW e \in WindowEvent
  PROVE  /\ e.kind \in {"redraw", "moved", "motion", "delta", "close", "resized", "focus"}
         /\ e.kind = "resized" => e.size \in Sizes
         /\ e.kind = "focus" => e.on \in BOOLEAN
BY DEF WindowEvent

LEMMA WindowEventMade ==
  /\ \A k \in {"redraw", "moved", "motion", "delta", "close"} : [kind |-> k] \in WindowEvent
  /\ \A s \in Sizes : [kind |-> "resized", size |-> s] \in WindowEvent
  /\ \A b \in BOOLEAN : [kind |-> "focus", on |-> b] \in WindowEvent
BY DEF WindowEvent

Has(q, kind) == \E i \in DOMAIN q : q[i].kind = kind

LEMMA WindowQueued ==
  ASSUME NEW q \in Seq(WindowEvent), NEW e \in WindowEvent
  PROVE  /\ Append(q, e) \in Seq(WindowEvent)
         /\ \A k : Has(q, k) => Has(Append(q, e), k)
         /\ Has(Append(q, e), e.kind)
         /\ e.kind # "resized" => /\ NoSize(Append(q, e)) => NoSize(q)
                                  /\ \A s : SizedBy(q, s) => SizedBy(Append(q, e), s)
         /\ e.kind = "resized" => ~ NoSize(Append(q, e)) /\ SizedBy(Append(q, e), e.size)
<1> DEFINE a == Append(q, e)
           n == Len(q)
<1>1. /\ a \in Seq(WindowEvent) /\ n \in Nat /\ Len(a) = n + 1 /\ a[n + 1] = e
      /\ \A i \in 1 .. n : a[i] = q[i]
  BY AppendProperties, LenProperties
<1>2. DOMAIN a = 1 .. n + 1 /\ DOMAIN q = 1 .. n
  BY <1>1, LenProperties
<1> HIDE DEF a, n
<1>3. /\ n + 1 \in DOMAIN a /\ \A i \in DOMAIN q : i \in DOMAIN a /\ a[i] = q[i] /\ n + 1 > i
      /\ \A i \in DOMAIN a : i \in DOMAIN q \/ i = n + 1
  BY <1>1, <1>2
<1>4. (\A k : Has(q, k) => Has(a, k)) /\ Has(a, e.kind)
  BY <1>1, <1>3 DEF Has
<1>5. ASSUME e.kind # "resized"
      PROVE  /\ NoSize(a) => NoSize(q)
             /\ \A s : SizedBy(q, s) => SizedBy(a, s)
  <2>1. NoSize(a) => NoSize(q)
    BY <1>3 DEF NoSize
  <2>2. ASSUME NEW s, SizedBy(q, s), NEW i \in DOMAIN a, a[i].kind = "resized",
               \A j \in DOMAIN a : j > i => a[j].kind # "resized"
        PROVE  a[i].size = s
    <3>1. i \in DOMAIN q /\ a[i] = q[i]
      BY <1>1, <1>3, <1>5, <2>2
    <3>2. \A j \in DOMAIN q : j > i => q[j].kind # "resized"
      BY <1>3, <2>2
    <3>3. QED
      BY <2>2, <3>1, <3>2 DEF SizedBy
  <2>3. QED
    BY <2>1, <2>2 DEF SizedBy
<1>6. ASSUME e.kind = "resized"
      PROVE  ~ NoSize(a) /\ SizedBy(a, e.size)
  <2>1. ~ NoSize(a)
    BY <1>1, <1>3, <1>6 DEF NoSize
  <2>2. ASSUME NEW i \in DOMAIN a, \A j \in DOMAIN a : j > i => a[j].kind # "resized"
        PROVE  a[i].size = e.size
    <3>1. i = n + 1
      BY <1>1, <1>3, <1>6, <2>2
    <3>2. QED
      BY <1>1, <3>1
  <2>3. QED
    BY <2>1, <2>2 DEF SizedBy
<1>7. QED
  BY <1>1, <1>4, <1>5, <1>6 DEF a

-----------------------------------------------------------------------------
(* Absolute positions.                                                     *)

LEMMA LastInNext ==
  ASSUME NEW a, NEW s \in Seq(Word), NEW x \in Word
  PROVE  LastIn(a, Append(s, x)) = IF x \in {"moved", "centre"} THEN x ELSE LastIn(a, s)
<1> DEFINE t == Append(s, x)
           n == Len(s)
           All == Absolutes(s)
<1>1. /\ t \in Seq(Word) /\ n \in Nat /\ Len(t) = n + 1 /\ t[n + 1] = x
      /\ \A i \in 1 .. n : t[i] = s[i]
  BY AppendProperties, LenProperties
<1>2. DOMAIN t = 1 .. n + 1 /\ DOMAIN s = 1 .. n
  BY <1>1, LenProperties
<1> HIDE DEF t, n
<1>3. CASE x \in {"moved", "centre"}
  <2>1. n + 1 \in Absolutes(t) /\ \A j \in Absolutes(t) : j <= n + 1 /\ j \in Nat
    BY <1>1, <1>2, <1>3 DEF Absolutes
  <2>2. \A i \in Absolutes(t) : (\A j \in Absolutes(t) : j <= i) => i = n + 1
    BY <1>1, <2>1
  <2>3. (CHOOSE i \in Absolutes(t) : \A j \in Absolutes(t) : j <= i) = n + 1
    BY <2>1, <2>2
  <2>4. QED
    BY <1>1, <1>3, <2>1, <2>3 DEF LastIn, t
<1>4. CASE x \notin {"moved", "centre"}
  <2>1. Absolutes(t) = All
    BY <1>1, <1>2, <1>4 DEF Absolutes
  <2>2. CASE All = {}
    BY <1>4, <2>1, <2>2 DEF LastIn, t
  <2>3. CASE All # {}
    <3> DEFINE last == CHOOSE i \in All : \A j \in All : j <= i
    <3>1. All \subseteq 1 .. n
      BY <1>2 DEF Absolutes
    <3>2. IsFiniteSet(All)
      BY <1>1, <3>1, FS_Interval, FS_Subset
    <3>3. \E i \in All : \A j \in All : j <= i
      BY <1>1, <2>3, <3>1, <3>2, LargestIsOne DEF Motion!Largest
    <3> HIDE DEF All
    <3>4. last \in All
      BY <3>3
    <3>5. t[last] = s[last]
      BY <1>1, <3>1, <3>4
    <3>6. LastIn(a, t) = t[last] /\ LastIn(a, s) = s[last]
      BY <2>1, <2>3 DEF LastIn, All
    <3>7. QED
      BY <1>4, <3>5, <3>6 DEF t
  <2>4. QED
    BY <2>2, <2>3
<1>5. QED
  BY <1>3, <1>4

LEMMA SeededNext ==
  ASSUME NEW a, NEW s \in Seq(Word), NEW c, NEW d, NEW x \in Word, Seeded(a, s, c),
         x = "delta" => c = "locked",
         d = "locked" => LastIn(a, Append(s, x)) = "centre"
  PROVE  Seeded(a, Append(s, x), d)
<1> DEFINE t == Append(s, x)
           n == Len(s)
<1>1. /\ t \in Seq(Word) /\ n \in Nat /\ Len(t) = n + 1 /\ t[n + 1] = x
      /\ \A i \in 1 .. n : t[i] = s[i]
  BY AppendProperties, LenProperties
<1>2. DOMAIN t = 1 .. n + 1 /\ DOMAIN s = 1 .. n
  BY <1>1, LenProperties
<1>3. \A i \in 1 .. n : SubSeq(t, 1, i) = SubSeq(s, 1, i)
  <2>1. t = s \o <<x>> /\ <<x>> \in Seq(Word)
    BY AppendIsConcat
  <2>2. TAKE i \in 1 .. n
  <2>3. 1 \in 1 .. n /\ i \in 1 .. n
    BY <1>1
  <2> HIDE DEF t
  <2>4. QED
    BY <2>1, <2>3, SubSeqOfConcat1 DEF n
<1>4. SubSeq(t, 1, n + 1) = t
  BY <1>1, SubSeqFull
<1>5. LastIn(a, t) = IF x \in {"moved", "centre"} THEN x ELSE LastIn(a, s)
  BY LastInNext
<1> HIDE DEF t, n
<1>6. ASSUME NEW i \in DOMAIN t, t[i] = "delta" PROVE LastIn(a, SubSeq(t, 1, i)) = "centre"
  <2>1. CASE i = n + 1
    BY <1>1, <1>4, <1>5, <1>6, <2>1 DEF Seeded
  <2>2. CASE i # n + 1
    <3>1. i \in 1 .. n /\ i \in DOMAIN s
      BY <1>1, <1>2, <2>2
    <3>2. QED
      BY <1>1, <1>3, <1>6, <3>1 DEF Seeded
  <2>3. QED
    BY <2>1, <2>2
<1>7. QED
  BY <1>6 DEF Seeded, t

-----------------------------------------------------------------------------
(* The event loop delivers what the host queued.                           *)

LEMMA InhibitorSynced ==
  ASSUME NEW p \in Polls
  PROVE  LET r == Nested!SyncedNow(p) IN
         /\ r \in Polls /\ r.host = p.host /\ r.shared = p.shared
         /\ r.shortcuts = TRUE => Nested!Inhibits(p.host)
<1> DEFINE c == Nested!Synced(p.shortcuts, p.host)
<1>1. c \in Inhibitor /\ (c = TRUE => Nested!Inhibits(p.host))
  BY NestedAssumed DEF Nested!Synced, Nested!Inhibits, Inhibitor
<1>2. Nested!SyncedNow(p) = [p EXCEPT !.shortcuts = c]
  BY DEF Nested!SyncedNow
<1> HIDE DEF c
<1>3. QED
  BY <1>1, <1>2, PollReplaced DEF IsPoll

LEMMA CapturedIs ==
  ASSUME NEW want
  PROVE  /\ Nested!Captured(want) \in Capture
         /\ Nested!Captured(want) = "locked" => Nested!Centre(Nested!Captured(want)) = <<"centre">>
         /\ Nested!Captured(want) # "locked" => Nested!Centre(Nested!Captured(want)) = <<>>
BY DEF Nested!Captured, Nested!Centre, Capture

\* Something is handed to the shell.
LEMMA SaidIs ==
  ASSUME NEW p \in Polls, NEW x \in Word
  PROVE  LET r == Nested!Input(p, x) IN
         /\ r \in Polls /\ r.host = p.host /\ r.shortcuts = p.shortcuts
         /\ IsShared(r.shared, p.shared.active, Append(p.shared.input, x), p.shared.stamps, p.shared.window,
                     p.shared.capture, p.shared.closed, p.shared.ready, p.shared.spec)
<1> DEFINE q == Append(p.shared.input, x)
           sh == [p.shared EXCEPT !.input = q]
<1>1. p.shared \in Sharing /\ p.shared.input \in Seq(Word)
  BY PollFields, SharedFields
<1>2. q \in Seq(Word)
  BY <1>1, AppendProperties
<1>3. Nested!Input(p, x) = [p EXCEPT !.shared = sh]
  <2>1. Nested!Input(p, x) = [p EXCEPT !.shared.input = q]
    BY DEF Nested!Input
  <2>2. QED
    BY <2>1, PathReplaced
<1> HIDE DEF q
<1>4. sh \in Sharing /\ IsShared(sh, p.shared.active, q, p.shared.stamps, p.shared.window,
                                 p.shared.capture, p.shared.closed, p.shared.ready, p.shared.spec)
  BY <1>1, <1>2, SharedReplaced
<1> HIDE DEF sh
<1>5. [p EXCEPT !.shared = sh] \in Polls /\ IsPoll([p EXCEPT !.shared = sh], p.host, sh, p.shortcuts)
  BY <1>4, PollReplaced
<1>6. QED
  BY <1>3, <1>4, <1>5 DEF IsPoll, q

\* What an event may change, and what it may not.
Heeded(p, r, e, a) ==
  /\ r \in Polls
  /\ r.host.size = p.host.size /\ r.host.focused = p.host.focused /\ r.host.fullscreen = p.host.fullscreen
  /\ r.host.broken = p.host.broken /\ r.host.spoke = p.host.spoke /\ r.host.queue = p.host.queue
  /\ p.host.redraw => r.host.redraw
  /\ e.kind = "redraw" /\ ~ p.shared.closed => r.host.redraw
  /\ p.shared.closed => r.shared.closed
  /\ r.shared.window = IF e.kind = "resized" THEN e.size ELSE p.shared.window
  /\ Seeded(a, r.shared.input, r.shared.capture)
  /\ r.shared.stamps = p.shared.stamps \/ r.shared.stamps = Append(p.shared.stamps, now)
  /\ r.shortcuts = TRUE =>
       Nested!Inhibits(p.host) \/ (p.shortcuts = TRUE /\ e.kind \notin {"focus", "resized"})

LEMMA RedrawnIs ==
  ASSUME NEW p \in Polls, NEW e \in WindowEvent, NEW a, Seeded(a, p.shared.input, p.shared.capture),
         e.kind = "redraw", now \in Nat
  PROVE  Heeded(p, Nested!Redrawn(p), e, a)
<1>1. p.shared \in Sharing /\ p.host \in Windows
  BY PollFields
<1>2. CASE p.shared.closed
  <2>1. Nested!Redrawn(p) = p
    BY <1>2 DEF Nested!Redrawn
  <2>2. QED
    BY <1>2, <2>1 DEF Heeded
<1>3. CASE ~ p.shared.closed
  <2> DEFINE stamps == IF p.shared.active THEN Append(p.shared.stamps, now) ELSE p.shared.stamps
             ready == [p.shared EXCEPT !.ready = TRUE]
             sh == [ready EXCEPT !.stamps = stamps]
             w == [p.host EXCEPT !.redraw = TRUE]
             one == [p EXCEPT !.shared = sh]
             two == [one EXCEPT !.host = w]
  <2>1. stamps \in Seq(Nat)
    BY <1>1, SharedFields, AppendProperties
  <2>2. ready \in Sharing /\ IsShared(ready, p.shared.active, p.shared.input, p.shared.stamps, p.shared.window,
                                      p.shared.capture, p.shared.closed, TRUE, p.shared.spec)
    BY <1>1, SharedReplaced
  <2> HIDE DEF stamps, ready
  <2>3. sh \in Sharing /\ IsShared(sh, ready.active, ready.input, stamps, ready.window,
                                   ready.capture, ready.closed, ready.ready, ready.spec)
    BY <2>1, <2>2, SharedReplaced
  <2>4. w \in Windows /\ IsWindow(w, p.host.size, p.host.focused, p.host.fullscreen, TRUE, p.host.broken,
                                  p.host.spoke, p.host.queue)
    BY <1>1, WindowReplaced
  <2> HIDE DEF sh, w
  <2>5. one \in Polls /\ IsPoll(one, p.host, sh, p.shortcuts)
    BY <2>3, PollReplaced
  <2> HIDE DEF one
  <2>6. two \in Polls /\ IsPoll(two, w, one.shared, one.shortcuts)
    BY <2>4, <2>5, PollReplaced
  <2> HIDE DEF two
  <2>7. Nested!Redrawn(p) = Nested!SyncedNow(two)
    BY <1>3 DEF Nested!Redrawn, two, one, sh, w, ready, stamps
  <2> DEFINE r == Nested!SyncedNow(two)
  <2>8. r \in Polls /\ r.host = two.host /\ r.shared = two.shared /\ (r.shortcuts = TRUE => Nested!Inhibits(two.host))
    BY <2>6, InhibitorSynced
  <2> HIDE DEF r
  <2>9. /\ r.host.size = p.host.size /\ r.host.focused = p.host.focused /\ r.host.fullscreen = p.host.fullscreen
        /\ r.host.broken = p.host.broken /\ r.host.spoke = p.host.spoke /\ r.host.queue = p.host.queue
        /\ r.host.redraw
    BY <2>4, <2>6, <2>8 DEF IsPoll, IsWindow
  <2>10. /\ r.shared.window = p.shared.window /\ r.shared.stamps = stamps
         /\ r.shared.input = p.shared.input /\ r.shared.capture = p.shared.capture
    BY <2>2, <2>3, <2>5, <2>6, <2>8 DEF IsPoll, IsShared
  <2>11. r.shortcuts = TRUE => Nested!Inhibits(p.host)
    BY <2>8, <2>9 DEF Nested!Inhibits
  <2>12. r.shared.stamps = p.shared.stamps \/ r.shared.stamps = Append(p.shared.stamps, now)
    BY <2>10 DEF stamps
  <2>13. Heeded(p, r, e, a)
    BY <1>3, <2>8, <2>9, <2>10, <2>11, <2>12 DEF Heeded
  <2>14. QED
    BY <2>7, <2>13 DEF r
<1>4. QED
  BY <1>2, <1>3

LEMMA ResizedIs ==
  ASSUME NEW p \in Polls, NEW e \in WindowEvent, NEW a, Seeded(a, p.shared.input, p.shared.capture),
         e.kind = "resized"
  PROVE  Heeded(p, Nested!SyncedNow([p EXCEPT !.shared.window = e.size]), e, a)
<1> DEFINE sh == [p.shared EXCEPT !.window = e.size]
           one == [p EXCEPT !.shared = sh]
           r == Nested!SyncedNow(one)
<1>1. p.shared \in Sharing /\ p.host \in Windows /\ e.size \in Sizes \cup {None}
  BY PollFields, WindowEventFields
<1>2. sh \in Sharing /\ IsShared(sh, p.shared.active, p.shared.input, p.shared.stamps, e.size,
                                 p.shared.capture, p.shared.closed, p.shared.ready, p.shared.spec)
  BY <1>1, SharedReplaced
<1>3. [p EXCEPT !.shared.window = e.size] = one
  BY PathReplaced
<1> HIDE DEF sh
<1>4. one \in Polls /\ IsPoll(one, p.host, sh, p.shortcuts)
  BY <1>2, PollReplaced
<1> HIDE DEF one
<1>5. r \in Polls /\ r.host = one.host /\ r.shared = one.shared /\ (r.shortcuts = TRUE => Nested!Inhibits(one.host))
  BY <1>4, InhibitorSynced
<1> HIDE DEF r
<1>6. r.host = p.host /\ r.shared = sh /\ (r.shortcuts = TRUE => Nested!Inhibits(p.host))
  BY <1>4, <1>5 DEF IsPoll
<1>7. Heeded(p, r, e, a)
  BY <1>2, <1>5, <1>6 DEF Heeded, IsShared
<1>8. QED
  BY <1>3, <1>7 DEF r

\* The host says what is pressed only to whom it is there: a delta while the pointer is locked.
LEMMA MovesAre ==
  ASSUME NEW p \in Polls, NEW e \in WindowEvent, NEW a, Seeded(a, p.shared.input, p.shared.capture),
         e.kind \in {"moved", "delta"}, Nested!Forwards(p.shared.capture, e.kind)
  PROVE  Heeded(p, Nested!Input(p, e.kind), e, a)
<1> DEFINE r == Nested!Input(p, e.kind)
<1>1. p.shared.input \in Seq(Word) /\ e.kind \in Word
  BY PollFields, SharedFields DEF Word
<1>2. /\ r \in Polls /\ r.host = p.host /\ r.shortcuts = p.shortcuts
      /\ IsShared(r.shared, p.shared.active, Append(p.shared.input, e.kind), p.shared.stamps, p.shared.window,
                  p.shared.capture, p.shared.closed, p.shared.ready, p.shared.spec)
  BY <1>1, SaidIs
<1> HIDE DEF r
<1>3. /\ e.kind = "delta" => p.shared.capture = "locked"
      /\ p.shared.capture = "locked" => e.kind # "moved"
  BY DEF Nested!Forwards
<1>4. p.shared.capture = "locked" => LastIn(a, Append(p.shared.input, e.kind)) = "centre"
  BY <1>1, <1>3, LastInNext DEF Seeded
<1>5. Seeded(a, Append(p.shared.input, e.kind), p.shared.capture)
  BY <1>1, <1>3, <1>4, SeededNext
<1>6. r.shared.input = Append(p.shared.input, e.kind) /\ r.shared.capture = p.shared.capture
  BY <1>2 DEF IsShared
<1>7. Seeded(a, r.shared.input, r.shared.capture)
  BY <1>5, <1>6
<1>8. Heeded(p, r, e, a)
  BY <1>2, <1>7 DEF Heeded, IsShared
<1>9. QED
  BY <1>8 DEF r

\* A pointer that is locked starts from the middle, before the shell hears of the focus.
LEMMA FocusedIs ==
  ASSUME NEW p \in Polls, NEW e \in WindowEvent, NEW a, Seeded(a, p.shared.input, p.shared.capture),
         e.kind = "focus"
  PROVE  Heeded(p, Nested!FocusedNow(p, e.on), e, a)
<1> DEFINE c == Nested!Captured(e.on)
           grabbed == [p.shared EXCEPT !.capture = c]
           start == p.shared.input \o Nested!Centre(c)
           sh == [grabbed EXCEPT !.input = start]
           one == [p EXCEPT !.shared = sh]
           two == Nested!SyncedNow(one)
           r == Nested!Input(two, "focus")
<1>1. p.shared \in Sharing /\ p.host \in Windows /\ p.shared.input \in Seq(Word)
  BY PollFields, SharedFields
<1>2. c \in Capture /\ Nested!Centre(c) = IF c = "locked" THEN <<"centre">> ELSE <<>>
  BY CapturedIs
<1>3. Nested!FocusedNow(p, e.on) = r
  BY DEF Nested!FocusedNow
<1>4. grabbed \in Sharing /\ IsShared(grabbed, p.shared.active, p.shared.input, p.shared.stamps, p.shared.window,
                                      c, p.shared.closed, p.shared.ready, p.shared.spec)
  BY <1>1, <1>2, SharedReplaced
<1>5. start \in Seq(Word) /\ Seeded(a, start, c) /\ (c = "locked" => LastIn(a, start) = "centre")
  <2>1. CASE c = "locked"
    <3>1. start = Append(p.shared.input, "centre") /\ "centre" \in Word
      BY <1>1, <1>2, <2>1, AppendIsConcat DEF Word
    <3>2. LastIn(a, start) = "centre" /\ start \in Seq(Word)
      <4>1. LastIn(a, Append(p.shared.input, "centre")) = "centre" /\ Append(p.shared.input, "centre") \in Seq(Word)
        BY <1>1, <3>1, LastInNext, AppendProperties
      <4>2. QED
        BY <3>1, <4>1
    <3>3. Seeded(a, start, c)
      BY <1>1, <3>1, <3>2, SeededNext
    <3>4. QED
      BY <3>2, <3>3
  <2>2. CASE c # "locked"
    <3>1. start = p.shared.input
      BY <1>1, <1>2, <2>2, ConcatEmptySeq
    <3>2. QED
      BY <1>1, <2>2, <3>1 DEF Seeded
  <2>3. QED
    BY <2>1, <2>2
<1> HIDE DEF c, grabbed, start
<1>6. sh \in Sharing /\ IsShared(sh, grabbed.active, start, grabbed.stamps, grabbed.window,
                                 grabbed.capture, grabbed.closed, grabbed.ready, grabbed.spec)
  BY <1>4, <1>5, SharedReplaced
<1> HIDE DEF sh
<1>7. one \in Polls /\ IsPoll(one, p.host, sh, p.shortcuts)
  BY <1>6, PollReplaced
<1> HIDE DEF one
<1>8. two \in Polls /\ two.host = one.host /\ two.shared = one.shared /\ (two.shortcuts = TRUE => Nested!Inhibits(one.host))
  BY <1>7, InhibitorSynced
<1> HIDE DEF two
<1>9. /\ r \in Polls /\ r.host = two.host /\ r.shortcuts = two.shortcuts
      /\ IsShared(r.shared, two.shared.active, Append(two.shared.input, "focus"), two.shared.stamps, two.shared.window,
                  two.shared.capture, two.shared.closed, two.shared.ready, two.shared.spec)
  BY <1>8, SaidIs DEF Word
<1> HIDE DEF r
<1>10. r.host = p.host /\ two.shared = sh /\ (r.shortcuts = TRUE => Nested!Inhibits(p.host))
  BY <1>7, <1>8, <1>9 DEF IsPoll
<1>11. /\ r.shared.stamps = p.shared.stamps /\ r.shared.window = p.shared.window /\ r.shared.closed = p.shared.closed
       /\ r.shared.capture = c /\ r.shared.input = Append(start, "focus")
  BY <1>4, <1>6, <1>9, <1>10 DEF IsShared
<1>12. Seeded(a, r.shared.input, r.shared.capture)
  <2>1. "focus" \in Word
    BY DEF Word
  <2>2. LastIn(a, Append(start, "focus")) = LastIn(a, start)
    BY <1>5, <2>1, LastInNext
  <2>3. Seeded(a, Append(start, "focus"), c)
    BY <1>5, <2>1, <2>2, SeededNext
  <2>4. QED
    BY <1>11, <2>3
<1>13. Heeded(p, r, e, a)
  BY <1>9, <1>10, <1>11, <1>12 DEF Heeded
<1>14. QED
  BY <1>3, <1>13

LEMMA DeliveredIs ==
  ASSUME NEW p \in Polls, NEW e \in WindowEvent, NEW a, Seeded(a, p.shared.input, p.shared.capture), now \in Nat
  PROVE  Heeded(p, Nested!Delivered(p, e), e, a)
<1>1. CASE e.kind = "redraw"
  BY <1>1, RedrawnIs DEF Nested!Delivered
<1>2. CASE e.kind = "resized"
  BY <1>2, ResizedIs DEF Nested!Delivered
<1>3. CASE e.kind = "focus"
  BY <1>3, FocusedIs DEF Nested!Delivered
<1>4. CASE e.kind = "close"
  <2> DEFINE sh == [p.shared EXCEPT !.closed = TRUE]
             r == [p EXCEPT !.shared = sh]
  <2>1. Nested!Delivered(p, e) = r
    BY <1>4, PathReplaced DEF Nested!Delivered
  <2>2. sh \in Sharing /\ IsShared(sh, p.shared.active, p.shared.input, p.shared.stamps, p.shared.window,
                                   p.shared.capture, TRUE, p.shared.ready, p.shared.spec)
    BY PollFields, SharedReplaced
  <2> HIDE DEF sh
  <2>3. r \in Polls /\ IsPoll(r, p.host, sh, p.shortcuts)
    BY <2>2, PollReplaced
  <2> HIDE DEF r
  <2>4. Heeded(p, r, e, a)
    BY <1>4, <2>2, <2>3 DEF Heeded, IsPoll, IsShared
  <2>5. QED
    BY <2>1, <2>4
<1>5. CASE e.kind \in {"moved", "delta"}
  <2>1. CASE Nested!Forwards(p.shared.capture, e.kind)
    BY <1>5, <2>1, MovesAre DEF Nested!Delivered
  <2>2. CASE ~ Nested!Forwards(p.shared.capture, e.kind)
    <3>1. Nested!Delivered(p, e) = p
      BY <1>5, <2>2 DEF Nested!Delivered
    <3>2. QED
      BY <1>5, <3>1 DEF Heeded
  <2>3. QED
    BY <2>1, <2>2
<1>6. CASE e.kind = "motion"
  <2>1. Nested!Delivered(p, e) = p
    BY <1>6 DEF Nested!Delivered
  <2>2. QED
    BY <1>6, <2>1 DEF Heeded
<1>7. QED
  BY <1>1, <1>2, <1>3, <1>4, <1>5, <1>6, WindowEventFields

StampsFrom(s, lo) == \A i \in DOMAIN s : lo <= s[i]

LEMMA StampsNext ==
  ASSUME NEW s \in Seq(Nat), now \in Nat, StampsSound(s)
  PROVE  /\ StampsSound(Append(s, now))
         /\ \A lo \in Int : lo <= now /\ StampsFrom(s, lo) => StampsFrom(Append(s, now), lo)
<1> DEFINE t == Append(s, now)
           n == Len(s)
<1>1. /\ t \in Seq(Nat) /\ n \in Nat /\ Len(t) = n + 1 /\ t[n + 1] = now
      /\ \A i \in 1 .. n : t[i] = s[i]
  BY AppendProperties, LenProperties
<1>2. DOMAIN t = 1 .. n + 1 /\ DOMAIN s = 1 .. n
  BY <1>1, LenProperties
<1> HIDE DEF t, n
<1>3. \A i \in DOMAIN t : (i \in DOMAIN s /\ t[i] = s[i]) \/ (i = n + 1 /\ t[i] = now)
  BY <1>1, <1>2
<1>4. \A i \in DOMAIN t : t[i] <= now
  BY <1>3 DEF StampsSound
<1>5. ASSUME NEW i \in DOMAIN t, NEW j \in DOMAIN t, j <= i PROVE t[j] <= t[i]
  <2>1. CASE i = n + 1
    BY <1>1, <1>4, <2>1
  <2>2. CASE i # n + 1
    <3>1. i \in DOMAIN s /\ j \in DOMAIN s /\ t[i] = s[i] /\ t[j] = s[j]
      BY <1>1, <1>2, <1>3, <1>5, <2>2
    <3>2. QED
      BY <1>5, <3>1 DEF StampsSound
  <2>3. QED
    BY <2>1, <2>2
<1>6. \A lo \in Int : lo <= now /\ StampsFrom(s, lo) => StampsFrom(t, lo)
  BY <1>3 DEF StampsFrom
<1>7. QED
  BY <1>4, <1>5, <1>6 DEF StampsSound, t

\* What the first k events of a queue changed, and what they did not.
Upto(p, q, k, r, a) ==
  /\ r \in Polls
  /\ r.host.size = p.host.size /\ r.host.focused = p.host.focused /\ r.host.fullscreen = p.host.fullscreen
  /\ r.host.broken = p.host.broken /\ r.host.spoke = p.host.spoke /\ r.host.queue = p.host.queue
  /\ p.host.redraw => r.host.redraw
  /\ (\E i \in 1 .. k : q[i].kind = "redraw") => r.host.redraw \/ r.shared.closed
  /\ p.shared.closed => r.shared.closed
  /\ \/ (\A i \in 1 .. k : q[i].kind # "resized") /\ r.shared.window = p.shared.window
     \/ \E i \in 1 .. k : /\ q[i].kind = "resized" /\ r.shared.window = q[i].size
                          /\ \A j \in 1 .. k : j > i => q[j].kind # "resized"
  /\ Seeded(a, r.shared.input, r.shared.capture)
  /\ StampsSound(r.shared.stamps)
  /\ \A lo \in Int : lo <= now /\ StampsFrom(p.shared.stamps, lo) => StampsFrom(r.shared.stamps, lo)
  /\ r.shortcuts = TRUE =>
       \/ Nested!Inhibits(p.host)
       \/ p.shortcuts = TRUE /\ \A i \in 1 .. k : q[i].kind \notin {"focus", "resized"}

LEMMA UptoNext ==
  ASSUME NEW p \in Polls, NEW q \in Seq(WindowEvent), NEW k \in Nat, k + 1 <= Len(q), NEW v, NEW r, NEW a,
         NEW e \in WindowEvent, e = q[k + 1] \/ (q[k + 1].kind = "motion" /\ e.kind = "delta"),
         Upto(p, q, k, v, a), Heeded(v, r, e, a), now \in Nat
  PROVE  Upto(p, q, k + 1, r, a)
<1>1. /\ \A i \in 1 .. k + 1 : i \in 1 .. k \/ i = k + 1
      /\ \A i \in 1 .. k : i \in 1 .. k + 1 /\ k + 1 > i
      /\ k + 1 \in 1 .. k + 1
  OBVIOUS
<1>2. /\ e.kind = "redraw" <=> q[k + 1].kind = "redraw"
      /\ e.kind = "focus" <=> q[k + 1].kind = "focus"
      /\ e.kind = "resized" <=> q[k + 1].kind = "resized"
      /\ e.kind = "resized" => e.size = q[k + 1].size
  OBVIOUS
<1>3. v \in Polls /\ r \in Polls /\ v.shared.stamps \in Seq(Nat)
  BY PollFields, SharedFields DEF Upto, Heeded
<1>4. /\ r.host.size = p.host.size /\ r.host.focused = p.host.focused /\ r.host.fullscreen = p.host.fullscreen
      /\ r.host.broken = p.host.broken /\ r.host.spoke = p.host.spoke /\ r.host.queue = p.host.queue
  BY Zenon DEF Upto, Heeded
<1>5. /\ p.host.redraw => r.host.redraw
      /\ p.shared.closed => r.shared.closed
      /\ Seeded(a, r.shared.input, r.shared.capture)
  BY Zenon DEF Upto, Heeded
<1>6. (\E i \in 1 .. k + 1 : q[i].kind = "redraw") => r.host.redraw \/ r.shared.closed
  <2>1. /\ (\E i \in 1 .. k : q[i].kind = "redraw") => v.host.redraw \/ v.shared.closed
        /\ v.host.redraw => r.host.redraw
        /\ v.shared.closed => r.shared.closed
        /\ e.kind = "redraw" /\ ~ v.shared.closed => r.host.redraw
    BY Zenon DEF Upto, Heeded
  <2>2. QED
    BY <1>1, <1>2, <2>1
<1>7. \/ (\A i \in 1 .. k + 1 : q[i].kind # "resized") /\ r.shared.window = p.shared.window
      \/ \E i \in 1 .. k + 1 : /\ q[i].kind = "resized" /\ r.shared.window = q[i].size
                               /\ \A j \in 1 .. k + 1 : j > i => q[j].kind # "resized"
  <2>1. r.shared.window = IF e.kind = "resized" THEN e.size ELSE v.shared.window
    BY DEF Heeded
  <2>2. CASE e.kind = "resized"
    <3>1. q[k + 1].kind = "resized" /\ r.shared.window = q[k + 1].size
      BY <1>2, <2>1, <2>2
    <3>2. \A j \in 1 .. k + 1 : ~ (j > k + 1)
      OBVIOUS
    <3>3. QED
      BY <1>1, <3>1, <3>2
  <2>3. CASE e.kind # "resized"
    <3>1. r.shared.window = v.shared.window /\ q[k + 1].kind # "resized"
      BY <1>2, <2>1, <2>3
    <3>2. CASE (\A i \in 1 .. k : q[i].kind # "resized") /\ v.shared.window = p.shared.window
      BY <1>1, <3>1, <3>2
    <3>3. CASE \E i \in 1 .. k : /\ q[i].kind = "resized" /\ v.shared.window = q[i].size
                                /\ \A j \in 1 .. k : j > i => q[j].kind # "resized"
      BY <1>1, <3>1, <3>3
    <3>4. QED
      BY <3>2, <3>3 DEF Upto
  <2>4. QED
    BY <2>2, <2>3
<1>8. /\ StampsSound(r.shared.stamps)
      /\ \A lo \in Int : lo <= now /\ StampsFrom(p.shared.stamps, lo) => StampsFrom(r.shared.stamps, lo)
  <2>1. /\ StampsSound(v.shared.stamps)
        /\ \A lo \in Int : lo <= now /\ StampsFrom(p.shared.stamps, lo) => StampsFrom(v.shared.stamps, lo)
        /\ r.shared.stamps = v.shared.stamps \/ r.shared.stamps = Append(v.shared.stamps, now)
    BY Zenon DEF Upto, Heeded
  <2>2. /\ StampsSound(Append(v.shared.stamps, now))
        /\ \A lo \in Int : lo <= now /\ StampsFrom(v.shared.stamps, lo) => StampsFrom(Append(v.shared.stamps, now), lo)
    BY <1>3, <2>1, StampsNext
  <2>3. CASE r.shared.stamps = v.shared.stamps
    BY <2>1, <2>3, Zenon
  <2>4. CASE r.shared.stamps = Append(v.shared.stamps, now)
    BY <2>1, <2>2, <2>4, Zenon
  <2>5. QED
    BY <2>1, <2>3, <2>4
<1>9. r.shortcuts = TRUE =>
        \/ Nested!Inhibits(p.host)
        \/ p.shortcuts = TRUE /\ \A i \in 1 .. k + 1 : q[i].kind \notin {"focus", "resized"}
  <2>1. /\ v.shortcuts = TRUE => \/ Nested!Inhibits(p.host)
                                 \/ p.shortcuts = TRUE /\ \A i \in 1 .. k : q[i].kind \notin {"focus", "resized"}
        /\ r.shortcuts = TRUE => Nested!Inhibits(v.host) \/ (v.shortcuts = TRUE /\ e.kind \notin {"focus", "resized"})
        /\ v.host.focused = p.host.focused /\ v.host.fullscreen = p.host.fullscreen
    BY Zenon DEF Upto, Heeded
  <2>2. Nested!Inhibits(v.host) <=> Nested!Inhibits(p.host)
    BY <2>1 DEF Nested!Inhibits
  <2>3. QED
    BY <1>1, <1>2, <2>1, <2>2
<1>10. QED
  BY <1>3, <1>4, <1>5, <1>6, <1>7, <1>8, <1>9, Zenon DEF Upto

\* The polls whose motions have an origin.
Origins(a) == {p \in Polls : Seeded(a, p.shared.input, p.shared.capture)}

LEMMA TranslatedIs ==
  ASSUME NEW e \in WindowEvent, NEW c
  PROVE  /\ Nested!Translated(e, c) \in WindowEvent
         /\ \/ Nested!Translated(e, c) = e
            \/ e.kind = "motion" /\ Nested!Translated(e, c).kind = "delta"
BY WindowEventMade DEF Nested!Translated

\* One delivery after the other.
LEMMA PumpedOne ==
  ASSUME NEW a, NEW p \in Origins(a), NEW q \in Seq(WindowEvent), NEW before, now \in Nat
  PROVE  \E h \in [0 .. Len(q) -> Origins(a)] :
           /\ h[0] = p /\ Nested!Pumped(p, q, before) = h[Len(q)]
           /\ \A i \in 1 .. Len(q) :
                \E e \in WindowEvent : /\ e = q[i] \/ (q[i].kind = "motion" /\ e.kind = "delta")
                                       /\ Heeded(h[i - 1], h[i], e, a)
<1> DEFINE n == Len(q)
           early == p.shared.capture
           E(i, s) == Nested!Translated(q[i], IF i <= before THEN early ELSE s.shared.capture)
           R == Origins(a)
           f == [i \in 1 .. n |-> [s \in R |-> Nested!Delivered(s, E(i, s))]]
           Is(h) == h = [i \in 0 .. n |-> IF i = 0 THEN p ELSE Nested!Delivered(h[i - 1], E(i, h[i - 1]))]
           all == CHOOSE h : Is(h)
<1>1. n \in Nat /\ \A i \in 1 .. n : q[i] \in WindowEvent
  BY LenProperties, ElementOfSeq
<1>2. \A i \in 1 .. n : \A s :
        /\ E(i, s) \in WindowEvent
        /\ E(i, s) = q[i] \/ (q[i].kind = "motion" /\ E(i, s).kind = "delta")
  BY <1>1, TranslatedIs
<1>3. Nested!Pumped(p, q, before) = all[n]
  BY DEF Nested!Pumped
<1> HIDE DEF E
<1>4. \A i \in 1 .. n, s \in R : Heeded(s, Nested!Delivered(s, E(i, s)), E(i, s), a) /\ Nested!Delivered(s, E(i, s)) \in R
  <2>1. TAKE i \in 1 .. n, s \in R
  <2>2. s \in Polls /\ Seeded(a, s.shared.input, s.shared.capture) /\ E(i, s) \in WindowEvent
    BY <1>2 DEF Origins
  <2>3. Heeded(s, Nested!Delivered(s, E(i, s)), E(i, s), a)
    BY <2>2, DeliveredIs
  <2>4. QED
    BY <2>3 DEF Heeded, Origins
<1> HIDE DEF R
<1>5. \A i \in 1 .. n, s \in R : f[i][s] \in R /\ f[i][s] = Nested!Delivered(s, E(i, s))
  BY <1>4
<1> HIDE DEF f, n
<1>6. PICK h \in [0 .. n -> R] : h[0] = p /\ \A i \in 1 .. n : h[i] = f[i][h[i - 1]]
  <2>1. Runs(R, p, n, f)
    BY <1>1, <1>5, Recursion DEF R
  <2>2. QED
    BY <2>1 DEF Runs
<1>7. \A i \in 1 .. n : h[i] = Nested!Delivered(h[i - 1], E(i, h[i - 1]))
  <2>1. \A i \in 1 .. n : i - 1 \in 0 .. n
    BY <1>1
  <2>2. QED
    BY <1>5, <1>6, <2>1
<1>8. Is(h)
  BY <1>1, <1>6, <1>7
<1>9. Is(all)
  BY <1>8
<1> HIDE DEF all
<1>10. all[0] = p /\ \A i \in 1 .. n : all[i] = Nested!Delivered(all[i - 1], E(i, all[i - 1]))
  <2> DEFINE g == [i \in 0 .. n |-> IF i = 0 THEN p ELSE Nested!Delivered(all[i - 1], E(i, all[i - 1]))]
  <2>1. g[0] = p
    BY <1>1
  <2>2. \A i \in 1 .. n : g[i] = Nested!Delivered(all[i - 1], E(i, all[i - 1]))
    BY <1>1
  <2> HIDE DEF g
  <2>3. QED
    BY <1>9, <2>1, <2>2 DEF g
<1>11. \A k \in 0 .. n : all[k] \in R
  <2> DEFINE T == {k \in Nat : k <= n => all[k] \in R}
  <2>1. 0 \in T
    BY <1>10 DEF R
  <2>2. ASSUME NEW k \in T PROVE k + 1 \in T
    <3>1. SUFFICES ASSUME k \in Nat, k + 1 <= n PROVE all[k + 1] \in R
      OBVIOUS
    <3>2. k + 1 \in 1 .. n /\ (k + 1) - 1 = k /\ k <= n
      BY <1>1, <3>1
    <3>3. all[k] \in R /\ all[k + 1] = Nested!Delivered(all[k], E(k + 1, all[k]))
      BY <1>10, <3>2
    <3>4. QED
      BY <1>4, <3>2, <3>3
  <2>3. T = Nat
    <3> HIDE DEF T
    <3>1. QED
      BY <2>1, <2>2, NatSetInduction DEF T
  <2>4. QED
    BY <1>1, <2>3
<1>12. all \in [0 .. n -> R]
  <2>1. all = [i \in 0 .. n |-> all[i]]
    BY <1>9
  <2>2. QED
    BY <1>11, <2>1
<1>13. ASSUME NEW i \in 1 .. n
       PROVE  \E e \in WindowEvent : /\ e = q[i] \/ (q[i].kind = "motion" /\ e.kind = "delta")
                                     /\ Heeded(all[i - 1], all[i], e, a)
  <2>1. i - 1 \in 0 .. n
    BY <1>1
  <2>2. all[i - 1] \in R /\ all[i] = Nested!Delivered(all[i - 1], E(i, all[i - 1]))
    BY <1>10, <1>11, <2>1
  <2>3. Heeded(all[i - 1], all[i], E(i, all[i - 1]), a)
    BY <1>4, <2>2
  <2>4. QED
    BY <1>2, <2>3
<1>14. QED
  BY <1>3, <1>10, <1>12, <1>13 DEF R, n

LEMMA PumpedIs ==
  ASSUME NEW a, NEW p \in Origins(a), NEW q \in Seq(WindowEvent), NEW before, now \in Nat, StampsSound(p.shared.stamps)
  PROVE  Upto(p, q, Len(q), Nested!Pumped(p, q, before), a)
<1>1. PICK h \in [0 .. Len(q) -> Origins(a)] :
        /\ h[0] = p /\ Nested!Pumped(p, q, before) = h[Len(q)]
        /\ \A i \in 1 .. Len(q) :
             \E e \in WindowEvent : /\ e = q[i] \/ (q[i].kind = "motion" /\ e.kind = "delta")
                                    /\ Heeded(h[i - 1], h[i], e, a)
  BY PumpedOne
<1>2. Len(q) \in Nat /\ p \in Polls /\ Seeded(a, p.shared.input, p.shared.capture)
  BY LenProperties DEF Origins
<1> DEFINE T == {k \in Nat : k <= Len(q) => Upto(p, q, k, h[k], a)}
<1>3. 0 \in T
  <2>1. \A i \in 1 .. 0 : FALSE
    OBVIOUS
  <2>2. Upto(p, q, 0, p, a)
    BY <1>2, <2>1 DEF Upto
  <2>3. QED
    BY <1>1, <2>2
<1>4. ASSUME NEW k \in T PROVE k + 1 \in T
  <2>1. SUFFICES ASSUME k \in Nat, k + 1 <= Len(q) PROVE Upto(p, q, k + 1, h[k + 1], a)
    OBVIOUS
  <2>2. k + 1 \in 1 .. Len(q) /\ (k + 1) - 1 = k /\ k <= Len(q)
    BY <1>2, <2>1
  <2>3. Upto(p, q, k, h[k], a)
    BY <2>2
  <2>4. PICK e \in WindowEvent : /\ e = q[k + 1] \/ (q[k + 1].kind = "motion" /\ e.kind = "delta")
                                 /\ Heeded(h[k], h[k + 1], e, a)
    BY <1>1, <2>2
  <2>5. QED
    BY <1>2, <2>1, <2>3, <2>4, UptoNext
<1>5. T = Nat
  <2> HIDE DEF T
  <2>1. QED
    BY <1>3, <1>4, NatSetInduction DEF T
<1>6. Upto(p, q, Len(q), h[Len(q)], a)
  BY <1>2, <1>5
<1>7. QED
  BY <1>1, <1>6

-----------------------------------------------------------------------------
(* Presentation times.                                                     *)

LEMMA Products ==
  ASSUME NEW x \in Int, NEW y \in Int, NEW p \in Nat
  PROVE  /\ x * p \in Int
         /\ x \in Nat => x * p \in Nat
         /\ x <= y => x * p <= y * p
         /\ (x + 1) * p = x * p + p
         /\ x * p < y * p => x < y
<1>1. x * p \in Int /\ y * p \in Int /\ (x + 1) * p = x * p + p
  OBVIOUS
<1>2. ASSUME NEW d \in Nat PROVE d * p \in Nat
  OBVIOUS
<1>3. ASSUME NEW v \in Int, NEW w \in Int, v <= w PROVE v * p <= w * p
  <2>1. w - v \in Nat
    BY <1>3
  <2>2. (w - v) * p \in Nat
    BY <1>2, <2>1
  <2>3. (w - v) * p = w * p - v * p
    OBVIOUS
  <2>4. v * p \in Int /\ w * p \in Int
    OBVIOUS
  <2>5. QED
    BY <2>2, <2>3, <2>4
<1>4. x * p < y * p => x < y
  <2>1. SUFFICES ASSUME ~ (x < y) PROVE ~ (x * p < y * p)
    OBVIOUS
  <2>2. y * p <= x * p
    BY <1>3, <2>1
  <2>3. QED
    BY <1>1, <2>2
<1>5. QED
  BY <1>1, <1>2, <1>3, <1>4

LEMMA Quotient ==
  ASSUME NEW x \in Int, NEW p \in Nat, p # 0
  PROVE  /\ x \div p \in Int
         /\ x \in Nat => x \div p \in Nat
         /\ (x \div p) * p <= x /\ x < (x \div p) * p + p
<1>1. x \div p \in Int /\ x % p \in 0 .. p - 1
  OBVIOUS
<1>2. x = p * (x \div p) + (x % p)
  OBVIOUS
<1>3. p * (x \div p) = (x \div p) * p /\ (x \div p) * p \in Int
  BY <1>1
<1>4. (x \div p) * p <= x /\ x < (x \div p) * p + p
  BY <1>1, <1>2, <1>3
<1>5. x \in Nat => x \div p \in Nat
  <2>1. SUFFICES ASSUME x \in Nat, ~ (x \div p >= 0) PROVE FALSE
    BY <1>1
  <2>2. x \div p <= -1
    BY <1>1, <2>1
  <2>3. (x \div p) * p <= (-1) * p
    BY <1>1, <2>2, Products
  <2>4. QED
    BY <1>3, <1>4, <2>1, <2>3
<1>6. QED
  BY <1>1, <1>4, <1>5

\* A clock as it may come out of any time, before it is known that times go forward.
AnyClock == [of : Nat, anchor : Nat, period : Periods, sequence : Int] \cup {None}
AnyRound == [clock : AnyClock, event : [of : Nat, period : Periods, time : Int, sequence : Int] \cup {None}]

LEMMA DeviceFields ==
  ASSUME NEW o \in Device
  PROVE  o.id \in Nat /\ o.size \in Sizes /\ o.period \in Periods /\ o.period \in Nat /\ o.period # 0
BY NestedAssumed DEF Device

\* What the clock counts from.
Base(c, o, t) ==
  IF c = None \/ c.of # o.id \/ c.period # o.period
  THEN [of |-> o.id, anchor |-> t, period |-> o.period, sequence |-> 0] ELSE c

LEMMA BaseIs ==
  ASSUME NEW o \in Device, NEW c \in AnyClock, NEW t \in Nat
  PROVE  /\ Base(c, o, t) \in [of : Nat, anchor : Nat, period : Periods, sequence : Int]
         /\ Base(c, o, t).of = o.id /\ Base(c, o, t).period = o.period /\ Base(c, o, t).anchor \in Nat
BY DeviceFields DEF Base, AnyClock

LEMMA CompletedRound ==
  ASSUME NEW o \in Device, NEW c \in AnyClock, NEW t \in Nat
  PROVE  LET b == Base(c, o, t)
             done == (t - b.anchor) \div o.period
             r == Nested!Completed(c, o, t) IN
         /\ r.clock = [b EXCEPT !.sequence = done + 1]
         /\ r.event = [of |-> o.id, period |-> o.period, time |-> b.anchor + done * o.period, sequence |-> done + 1]
         /\ done \in Int /\ r \in AnyRound
<1> DEFINE b == Base(c, o, t)
           done == (t - b.anchor) \div o.period
           r == Nested!Completed(c, o, t)
<1>1. /\ b \in [of : Nat, anchor : Nat, period : Periods, sequence : Int] /\ b.period = o.period /\ b.anchor \in Nat
      /\ o.id \in Nat /\ o.period \in Nat /\ o.period # 0 /\ o.period \in Periods
  BY BaseIs, DeviceFields
<1>2. r = [clock |-> [b EXCEPT !.sequence = ((t - b.anchor) \div b.period) + 1],
           event |-> [of |-> o.id, period |-> o.period, time |-> b.anchor + ((t - b.anchor) \div b.period) * b.period,
                      sequence |-> ((t - b.anchor) \div b.period) + 1]]
  BY DEF Nested!Completed, Base
<1> HIDE DEF b
<1>3. r = [clock |-> [b EXCEPT !.sequence = done + 1],
           event |-> [of |-> o.id, period |-> o.period, time |-> b.anchor + done * o.period, sequence |-> done + 1]]
  BY <1>1, <1>2
<1>4. done \in Int
  BY <1>1, Quotient
<1> HIDE DEF done
<1>5. b.anchor + done * o.period \in Int /\ done + 1 \in Int
  BY <1>1, <1>4, Products
<1>6. [b EXCEPT !.sequence = done + 1] \in AnyClock
  BY <1>1, <1>5 DEF AnyClock
<1> DEFINE time == b.anchor + done * o.period
           next == done + 1
           cl == [b EXCEPT !.sequence = next]
           event == [of |-> o.id, period |-> o.period, time |-> time, sequence |-> next]
<1>7. event \in [of : Nat, period : Periods, time : Int, sequence : Int] \cup {None}
  <2> HIDE DEF time, next
  <2>1. time \in Int /\ next \in Int
    BY <1>5 DEF time, next
  <2>2. QED
    BY <1>1, <2>1
<1>8. r = [clock |-> cl, event |-> event] /\ cl \in AnyClock
  BY <1>3, <1>6
<1> HIDE DEF cl, event
<1>9. r \in AnyRound
  BY <1>7, <1>8 DEF AnyRound
<1>10. QED
  BY <1>3, <1>4, <1>9 DEF b, done, r

\* A time is rounded down to whole intervals since the anchor, and counted on.
Rounded(r, o, t, c) ==
  /\ r.clock \in Clock /\ r.clock.of = o.id /\ r.clock.period = o.period /\ r.clock.sequence >= 1
  /\ Counted(r.clock) \in Nat /\ Counted(r.clock) <= t /\ t < Counted(r.clock) + o.period
  /\ r.event \in Line /\ r.event.of = o.id /\ r.event.period = o.period
  /\ r.event.sequence = r.clock.sequence /\ r.event.time = Counted(r.clock)
  /\ c # None /\ c.of = o.id /\ c.period = o.period =>
       r.clock.anchor = c.anchor /\ r.clock.sequence >= c.sequence

LEMMA CompletedIs ==
  ASSUME NEW o \in Device, NEW c \in Clock \cup {None}, NEW t \in Nat,
         c # None => c.sequence >= 1 /\ Counted(c) <= t
  PROVE  Rounded(Nested!Completed(c, o, t), o, t, c)
<1> DEFINE b == Base(c, o, t)
           p == o.period
           done == (t - b.anchor) \div p
           r == Nested!Completed(c, o, t)
<1>1. c \in AnyClock
  BY DEF Clock, AnyClock
<1>2. /\ b \in [of : Nat, anchor : Nat, period : Periods, sequence : Int] /\ b.anchor \in Nat /\ b.of = o.id /\ b.period = p
      /\ p \in Nat /\ p # 0 /\ p \in Periods /\ o.id \in Nat
  BY <1>1, BaseIs, DeviceFields
<1>3. /\ r.clock = [b EXCEPT !.sequence = done + 1]
      /\ r.event = [of |-> o.id, period |-> p, time |-> b.anchor + done * p, sequence |-> done + 1]
  BY <1>1, CompletedRound
<1>4. (b = c /\ c # None) \/ b.anchor = t
  BY DEF Base
<1>5. ASSUME b = c, c # None
      PROVE  /\ c.sequence \in Nat /\ c.sequence >= 1 /\ b.anchor = c.anchor
             /\ b.anchor + (c.sequence - 1) * p <= t /\ (c.sequence - 1) * p \in Nat
  <2>1. c.sequence \in Nat /\ c.sequence >= 1 /\ Counted(c) <= t
    BY <1>5 DEF Clock
  <2>2. Counted(c) = b.anchor + (c.sequence - 1) * p
    BY <1>2, <1>5 DEF Counted
  <2>3. c.sequence - 1 \in Nat
    BY <2>1
  <2>4. (c.sequence - 1) * p \in Nat
    BY <1>2, <2>3, Products
  <2>5. QED
    BY <1>5, <2>1, <2>2, <2>4
<1> HIDE DEF b, p
<1>6. b.anchor <= t
  BY <1>2, <1>4, <1>5
<1>7. /\ done \in Nat /\ done * p <= t - b.anchor /\ t - b.anchor < done * p + p
      /\ done * p \in Nat /\ (done + 1) * p = done * p + p
  <2>1. t - b.anchor \in Nat
    BY <1>2, <1>6
  <2>2. done \in Nat /\ done * p <= t - b.anchor /\ t - b.anchor < done * p + p
    BY <1>2, <2>1, Quotient
  <2> HIDE DEF done
  <2>3. QED
    BY <1>2, <2>2, Products
<1> HIDE DEF done, r
<1>8. /\ r.clock \in Clock /\ r.clock.of = o.id /\ r.clock.period = p /\ r.clock.sequence = done + 1
      /\ r.clock.anchor = b.anchor
  <2> DEFINE next == done + 1
  <2>1. next \in Nat
    BY <1>7
  <2>2. r.clock = [b EXCEPT !.sequence = next]
    BY <1>3
  <2> HIDE DEF next
  <2>3. r.clock \in Clock /\ r.clock.of = o.id /\ r.clock.period = p /\ r.clock.sequence = next /\ r.clock.anchor = b.anchor
    BY <1>2, <2>1, <2>2 DEF Clock
  <2>4. QED
    BY <2>3 DEF next
<1>9. Counted(r.clock) = b.anchor + done * p
  <2>1. (r.clock.sequence - 1) = done
    BY <1>7, <1>8
  <2>2. QED
    BY <1>8, <2>1 DEF Counted
<1>10. Counted(r.clock) \in Nat /\ Counted(r.clock) <= t /\ t < Counted(r.clock) + p
  BY <1>2, <1>7, <1>9
<1>11. /\ r.event \in Line /\ r.event.of = o.id /\ r.event.period = p
       /\ r.event.sequence = r.clock.sequence /\ r.event.time = Counted(r.clock)
  <2> DEFINE next == done + 1
             time == b.anchor + done * p
  <2>1. next \in Nat /\ time \in Nat
    BY <1>2, <1>7
  <2>2. r.event = [of |-> o.id, period |-> p, time |-> time, sequence |-> next]
    BY <1>3
  <2>3. r.clock.sequence = next /\ Counted(r.clock) = time
    BY <1>8, <1>9
  <2> HIDE DEF next, time
  <2>4. QED
    BY <1>2, <2>1, <2>2, <2>3 DEF Line
<1>12. ASSUME c # None, c.of = o.id, c.period = o.period
       PROVE  r.clock.anchor = c.anchor /\ r.clock.sequence >= c.sequence
  <2>1. b = c
    BY <1>12 DEF b, Base
  <2>2. /\ c.sequence \in Nat /\ b.anchor = c.anchor /\ b.anchor + (c.sequence - 1) * p <= t
        /\ (c.sequence - 1) * p \in Nat
    BY <1>5, <1>12, <2>1
  <2>3. (c.sequence - 1) * p < (done + 1) * p
    BY <1>2, <1>7, <2>2
  <2>4. c.sequence - 1 < done + 1
    <3>1. c.sequence - 1 \in Int /\ done + 1 \in Int
      BY <1>7, <2>2
    <3>2. QED
      BY <1>2, <2>3, <3>1, Products
  <2>5. QED
    BY <1>7, <1>8, <2>2, <2>4
<1>13. r.clock.sequence >= 1
  BY <1>7, <1>8
<1>14. QED
  BY <1>8, <1>10, <1>11, <1>12, <1>13 DEF Rounded, r, p

\* One round after the other, and with no output none that counts.
LEMMA EmittedOne ==
  ASSUME NEW o \in Device \cup {None}, NEW c \in Clock \cup {None}, NEW s \in Seq(Nat)
  PROVE  \E h \in [0 .. Len(s) -> AnyRound] :
           /\ h[0] = [clock |-> c, event |-> None] /\ Nested!Emitted(s, c, o) = h[Len(s)]
           /\ \A i \in 1 .. Len(s) : h[i] = IF o = None THEN [clock |-> None, event |-> None]
                                            ELSE Nested!Completed(h[i - 1].clock, o, s[i])
<1> DEFINE n == Len(s)
           p == [clock |-> c, event |-> None]
           R == AnyRound
           D(i, r) == IF o = None THEN [clock |-> None, event |-> None] ELSE Nested!Completed(r.clock, o, s[i])
           f == [i \in 1 .. n |-> [r \in R |-> D(i, r)]]
           Is(h) == h = [i \in 0 .. n |-> IF i = 0 THEN p ELSE D(i, h[i - 1])]
           all == CHOOSE h : Is(h)
<1>1. n \in Nat /\ \A i \in 1 .. n : s[i] \in Nat
  BY LenProperties, ElementOfSeq
<1>2. p \in R
  BY DEF AnyRound, AnyClock, Clock
<1>3. \A i \in 1 .. n, r \in R : D(i, r) \in R
  <2>1. TAKE i \in 1 .. n, r \in R
  <2>2. CASE o = None
    BY <2>2 DEF AnyRound, AnyClock
  <2>3. CASE o # None
    <3>1. r.clock \in AnyClock
      BY DEF AnyRound
    <3>2. QED
      BY <1>1, <2>3, <3>1, CompletedRound
  <2>4. QED
    BY <2>2, <2>3
<1>4. Nested!Emitted(s, c, o) = all[n]
  BY DEF Nested!Emitted
<1> HIDE DEF R, p, D
<1>5. \A i \in 1 .. n, r \in R : f[i][r] \in R /\ f[i][r] = D(i, r)
  BY <1>3
<1> HIDE DEF f, n
<1>6. PICK h \in [0 .. n -> R] : h[0] = p /\ \A i \in 1 .. n : h[i] = f[i][h[i - 1]]
  <2>1. Runs(R, p, n, f)
    BY <1>1, <1>2, <1>5, Recursion
  <2>2. QED
    BY <2>1 DEF Runs
<1>7. \A i \in 1 .. n : h[i] = D(i, h[i - 1])
  <2>1. \A i \in 1 .. n : i - 1 \in 0 .. n
    BY <1>1
  <2>2. QED
    BY <1>5, <1>6, <2>1
<1>8. Is(h)
  BY <1>1, <1>6, <1>7
<1>9. Is(all)
  BY <1>8
<1> HIDE DEF all
<1>10. all[0] = p /\ \A i \in 1 .. n : all[i] = D(i, all[i - 1])
  <2> DEFINE g == [i \in 0 .. n |-> IF i = 0 THEN p ELSE D(i, all[i - 1])]
  <2>1. g[0] = p
    BY <1>1
  <2>2. \A i \in 1 .. n : g[i] = D(i, all[i - 1])
    BY <1>1
  <2> HIDE DEF g
  <2>3. QED
    BY <1>9, <2>1, <2>2 DEF g
<1>11. \A k \in 0 .. n : all[k] \in R
  <2> DEFINE T == {k \in Nat : k <= n => all[k] \in R}
  <2>1. 0 \in T
    BY <1>2, <1>10
  <2>2. ASSUME NEW k \in T PROVE k + 1 \in T
    <3>1. SUFFICES ASSUME k \in Nat, k + 1 <= n PROVE all[k + 1] \in R
      OBVIOUS
    <3>2. k + 1 \in 1 .. n /\ (k + 1) - 1 = k /\ k <= n
      BY <1>1, <3>1
    <3>3. all[k] \in R /\ all[k + 1] = D(k + 1, all[k])
      BY <1>10, <3>2
    <3>4. QED
      BY <1>3, <3>2, <3>3
  <2>3. T = Nat
    <3> HIDE DEF T
    <3>1. QED
      BY <2>1, <2>2, NatSetInduction DEF T
  <2>4. QED
    BY <1>1, <2>3
<1>12. all \in [0 .. n -> R]
  <2>1. all = [i \in 0 .. n |-> all[i]]
    BY <1>9
  <2>2. QED
    BY <1>11, <2>1
<1>13. QED
  BY <1>4, <1>10, <1>12 DEF R, D, p, n

\* With an output and times in order, the last round is rounded from the last time.
LEMMA EmittedIs ==
  ASSUME NEW o \in Device, NEW c \in Clock \cup {None}, NEW s \in Seq(Nat), s # <<>>, StampsSound(s),
         c # None => c.sequence >= 1 /\ StampsFrom(s, Counted(c))
  PROVE  Rounded(Nested!Emitted(s, c, o), o, s[Len(s)], c)
<1>1. PICK h \in [0 .. Len(s) -> AnyRound] :
        /\ h[0] = [clock |-> c, event |-> None] /\ Nested!Emitted(s, c, o) = h[Len(s)]
        /\ \A i \in 1 .. Len(s) : h[i] = IF o = None THEN [clock |-> None, event |-> None]
                                         ELSE Nested!Completed(h[i - 1].clock, o, s[i])
  BY EmittedOne
<1>2. Len(s) \in Nat /\ Len(s) >= 1 /\ DOMAIN s = 1 .. Len(s) /\ \A i \in 1 .. Len(s) : s[i] \in Nat
  BY LenProperties, EmptySeq, ElementOfSeq
<1>3. \A i \in 1 .. Len(s) : h[i] = Nested!Completed(h[i - 1].clock, o, s[i])
  BY <1>1, NestedAssumed
<1> DEFINE T == {k \in Nat : k + 1 <= Len(s) => Rounded(h[k + 1], o, s[k + 1], c)}
<1>4. 0 \in T
  <2>1. h[1] = Nested!Completed(c, o, s[1]) /\ s[1] \in Nat /\ 1 \in DOMAIN s
    BY <1>1, <1>2, <1>3
  <2>2. c # None => c.sequence >= 1 /\ Counted(c) <= s[1]
    BY <2>1 DEF StampsFrom
  <2>3. Rounded(h[1], o, s[1], c)
    BY <2>1, <2>2, CompletedIs
  <2>4. QED
    BY <2>3
<1>5. ASSUME NEW k \in T PROVE k + 1 \in T
  <2>0. k \in Nat
    OBVIOUS
  <2>1. SUFFICES ASSUME k + 2 <= Len(s) PROVE Rounded(h[k + 2], o, s[k + 2], c)
    BY <2>0
  <2>2. /\ k + 2 \in 1 .. Len(s) /\ k + 1 \in 1 .. Len(s) /\ k + 1 <= Len(s) /\ k + 1 <= k + 2 /\ (k + 2) - 1 = k + 1
        /\ s[k + 1] \in Nat /\ s[k + 2] \in Nat
    BY <1>2, <2>0, <2>1
  <2>3. Rounded(h[k + 1], o, s[k + 1], c)
    BY <2>2
  <2>4. s[k + 1] <= s[k + 2]
    BY <1>2, <2>2 DEF StampsSound
  <2> DEFINE d == h[k + 1].clock
  <2>5. d \in Clock /\ d.of = o.id /\ d.period = o.period /\ d.sequence >= 1 /\ Counted(d) \in Nat /\ Counted(d) <= s[k + 1]
    BY <2>3 DEF Rounded
  <2>6. h[k + 2] = Nested!Completed(d, o, s[k + 2])
    BY <1>3, <2>2
  <2>7. d # None /\ Counted(d) <= s[k + 2]
    BY <2>2, <2>4, <2>5, NestedAssumed
  <2> HIDE DEF d
  <2>8. Rounded(h[k + 2], o, s[k + 2], d)
    BY <2>2, <2>5, <2>6, <2>7, CompletedIs
  <2>9. ASSUME c # None, c.of = o.id, c.period = o.period
        PROVE  h[k + 2].clock.anchor = c.anchor /\ h[k + 2].clock.sequence >= c.sequence
    <3>1. d.anchor = c.anchor /\ d.sequence >= c.sequence
      BY <2>3, <2>9 DEF Rounded, d
    <3>2. h[k + 2].clock.anchor = d.anchor /\ h[k + 2].clock.sequence >= d.sequence /\ h[k + 2].clock \in Clock
      BY <2>5, <2>7, <2>8 DEF Rounded
    <3>3. h[k + 2].clock.sequence \in Nat /\ d.sequence \in Nat /\ c.sequence \in Nat
      BY <2>5, <2>9, <3>2 DEF Clock
    <3>4. QED
      BY <3>1, <3>2, <3>3
  <2>10. QED
    BY <2>8, <2>9 DEF Rounded
<1>6. T = Nat
  <2> HIDE DEF T
  <2>1. QED
    BY <1>4, <1>5, NatSetInduction DEF T
<1>7. Rounded(h[Len(s)], o, s[Len(s)], c)
  <2>1. Len(s) - 1 \in Nat /\ (Len(s) - 1) + 1 = Len(s) /\ Len(s) <= Len(s)
    BY <1>2
  <2>2. Len(s) - 1 \in T
    BY <1>6, <2>1, Zenon
  <2>3. QED
    BY <2>1, <2>2
<1>8. QED
  BY <1>1, <1>7

LEMMA EmittedNothing ==
  ASSUME NEW o \in Device \cup {None}, NEW c \in Clock \cup {None}, NEW s \in Seq(Nat), s = <<>> \/ o = None
  PROVE  Nested!Emitted(s, c, o) = [clock |-> IF s = <<>> THEN c ELSE None, event |-> None]
<1>1. PICK h \in [0 .. Len(s) -> AnyRound] :
        /\ h[0] = [clock |-> c, event |-> None] /\ Nested!Emitted(s, c, o) = h[Len(s)]
        /\ \A i \in 1 .. Len(s) : h[i] = IF o = None THEN [clock |-> None, event |-> None]
                                         ELSE Nested!Completed(h[i - 1].clock, o, s[i])
  BY EmittedOne
<1>2. CASE s = <<>>
  BY <1>1, <1>2
<1>3. CASE s # <<>> /\ o = None
  <2>1. Len(s) \in 1 .. Len(s)
    BY <1>3, LenProperties, EmptySeq
  <2>2. QED
    BY <1>1, <1>3, <2>1
<1>4. QED
  BY <1>2, <1>3

-----------------------------------------------------------------------------
(* The window: asked for a size by the compositor, changed by its user.    *)

LEMMA AskedIs ==
  ASSUME NEW w \in Windows, NEW s \in Sizes, scene \in Scenes
  PROVE  LET r == Nested!Asked(w, s) IN
         /\ r \in Windows /\ r.redraw
         /\ r.focused = w.focused /\ r.fullscreen = w.fullscreen /\ r.broken = w.broken
         /\ \/ r.queue = Append(w.queue, [kind |-> "resized", size |-> s]) /\ r.size = s
            \/ r.queue = w.queue /\ r.size = w.size /\ r.spoke = w.spoke
<1> DEFINE granted == scene.honours /\ s # w.size
           e == [kind |-> "resized", size |-> s]
           size == IF granted THEN s ELSE w.size
           spoke == granted \/ w.spoke
           grown == IF granted THEN Append(w.queue, e) ELSE w.queue
           one == [w EXCEPT !.redraw = TRUE]
           two == [one EXCEPT !.size = size]
           three == [two EXCEPT !.spoke = spoke]
           four == [three EXCEPT !.queue = grown]
<1>1. /\ w.size \in Sizes /\ w.spoke \in BOOLEAN /\ w.queue \in Seq(WindowEvent) /\ w.redraw \in BOOLEAN
      /\ e \in WindowEvent /\ granted \in BOOLEAN
  BY WindowFields, WindowEventMade, NestedAssumed
<1>2. Nested!Asked(w, s) = four
  BY DEF Nested!Asked
<1> HIDE DEF granted, e
<1>3. size \in Sizes /\ spoke \in BOOLEAN /\ grown \in Seq(WindowEvent)
  BY <1>1, WindowQueued
<1>4. /\ granted => size = s /\ grown = Append(w.queue, e)
      /\ ~ granted => size = w.size /\ grown = w.queue /\ spoke = w.spoke
  BY <1>1
<1> HIDE DEF size, spoke, grown
<1>5. one \in Windows /\ IsWindow(one, w.size, w.focused, w.fullscreen, TRUE, w.broken, w.spoke, w.queue)
  BY WindowReplaced
<1> HIDE DEF one
<1>6. two \in Windows /\ IsWindow(two, size, one.focused, one.fullscreen, one.redraw, one.broken, one.spoke, one.queue)
  BY <1>3, <1>5, WindowReplaced
<1> HIDE DEF two
<1>7. three \in Windows /\ IsWindow(three, two.size, two.focused, two.fullscreen, two.redraw, two.broken, spoke, two.queue)
  BY <1>3, <1>6, WindowReplaced
<1> HIDE DEF three
<1>8. four \in Windows /\ IsWindow(four, three.size, three.focused, three.fullscreen, three.redraw, three.broken, three.spoke, grown)
  BY <1>3, <1>7, WindowReplaced
<1> HIDE DEF four
<1>9. /\ four.redraw /\ four.focused = w.focused /\ four.fullscreen = w.fullscreen /\ four.broken = w.broken
      /\ four.size = size /\ four.spoke = spoke /\ four.queue = grown
  BY <1>5, <1>6, <1>7, <1>8 DEF IsWindow
<1>10. \/ four.queue = Append(w.queue, e) /\ four.size = s
       \/ four.queue = w.queue /\ four.size = w.size /\ four.spoke = w.spoke
  BY <1>4, <1>9
<1>11. QED
  BY <1>2, <1>8, <1>9, <1>10 DEF e

Rest == <<scene, turn, now, shared, shortcuts, clock, configured, output, seen, timeline, absolute>>

\* What of the invariant is about other things than the window.
LEMMA RestKeeps ==
  ASSUME NestedInv, window' \in Windows, acts' \in Nat, UNCHANGED Rest,
         scene.driver = "host" /\ window'.spoke => SizesKnown(window'.queue, window'.size, shared.window, output),
         Nested!ShortcutsReturned', Nested!KeepsDrawing'
  PROVE  NestedInv'
<1> USE DEF NestedInv, Rest
<1>1. NestedTyped'
  BY DEF NestedTyped
<1>2. SizesSound'
  BY DEF SizesSound
<1>3. ClockSound'
  BY DEF ClockSound, StampsSound
<1>4. QED
  BY <1>1, <1>2, <1>3

\* A queue that grew by other events than sizes.
Grown(q, r) ==
  /\ r \in Seq(WindowEvent)
  /\ \A k : Has(q, k) => Has(r, k)
  /\ NoSize(r) => NoSize(q)
  /\ \A s : SizedBy(q, s) => SizedBy(r, s)

LEMMA QueuesAre == \A k : Nested!Queues(k) <=> Has(window.queue, k)
BY DEF Nested!Queues, Has

LEMMA GrownKeeps ==
  ASSUME NestedInv, window' \in Windows, acts' \in Nat, UNCHANGED Rest,
         Grown(window.queue, window'.queue),
         window'.size = window.size, window'.spoke => window.spoke,
         \/ window'.broken
         \/ window'.broken = window.broken /\ Nested!Inhibits(window') = Nested!Inhibits(window)
         \/ Has(window'.queue, "focus"),
         window'.redraw \/ ~ window.redraw \/ Has(window'.queue, "redraw")
  PROVE  NestedInv'
<1>1. scene.driver = "host" /\ window'.spoke => SizesKnown(window'.queue, window'.size, shared.window, output)
  BY DEF NestedInv, SizesSound, SizesKnown, Grown
<1>2. \A k : Nested!Queues(k)' <=> Has(window'.queue, k)
  BY DEF Nested!Queues, Has
<1>3. Nested!ShortcutsReturned'
  <2>1. SUFFICES ASSUME shortcuts' = TRUE, ~ Nested!Inhibits(window')
                 PROVE  Has(window'.queue, "focus") \/ Has(window'.queue, "resized") \/ window'.broken
    BY <1>2 DEF Nested!ShortcutsReturned
  <2>2. shortcuts = TRUE
    BY <2>1 DEF Rest
  <2>3. CASE Nested!Inhibits(window') = Nested!Inhibits(window) /\ window'.broken = window.broken
    <3>1. Has(window.queue, "focus") \/ Has(window.queue, "resized") \/ window.broken
      BY <2>1, <2>2, <2>3, QueuesAre DEF NestedInv, Nested!ShortcutsReturned
    <3>2. QED
      BY <2>3, <3>1 DEF Grown
  <2>4. QED
    BY <2>3
<1>4. Nested!KeepsDrawing'
  <2>1. scene'.driver = scene.driver /\ shared'.closed = shared.closed
    BY DEF Rest
  <2>2. scene.driver = "host" /\ ~ shared.closed => window.redraw \/ Has(window.queue, "redraw")
    BY QueuesAre DEF NestedInv, Nested!KeepsDrawing
  <2>3. QED
    BY <1>2, <2>1, <2>2 DEF Nested!KeepsDrawing, Grown
<1>5. QED
  BY <1>1, <1>3, <1>4, RestKeeps

\* A new size of the window is on its way to the backend.
LEMMA SizedKeeps ==
  ASSUME NestedInv, window' \in Windows, acts' \in Nat, UNCHANGED Rest,
         NEW s \in Sizes, window'.size = s,
         window'.queue = Append(window.queue, [kind |-> "resized", size |-> s]),
         window'.redraw \/ ~ window.redraw
  PROVE  NestedInv'
<1> DEFINE e == [kind |-> "resized", size |-> s]
<1>1. e \in WindowEvent /\ e.kind = "resized" /\ e.size = s /\ window.queue \in Seq(WindowEvent)
  BY WindowEventMade, WindowFields DEF NestedInv, NestedTyped
<1>2. window'.queue = Append(window.queue, e)
  OBVIOUS
<1> HIDE DEF e
<1>3. /\ ~ NoSize(window'.queue) /\ SizedBy(window'.queue, s) /\ Has(window'.queue, "resized")
      /\ \A k : Has(window.queue, k) => Has(window'.queue, k)
  BY <1>1, <1>2, WindowQueued
<1>4. \A k : Nested!Queues(k)' <=> Has(window'.queue, k)
  BY DEF Nested!Queues, Has
<1>5. SizesKnown(window'.queue, window'.size, shared.window, output)
  BY <1>3 DEF SizesKnown
<1>6. Nested!ShortcutsReturned'
  BY <1>3, <1>4 DEF Nested!ShortcutsReturned
<1>7. Nested!KeepsDrawing'
  <2>1. scene'.driver = scene.driver /\ shared'.closed = shared.closed
    BY DEF Rest
  <2>2. scene.driver = "host" /\ ~ shared.closed => window.redraw \/ Has(window.queue, "redraw")
    BY QueuesAre DEF NestedInv, Nested!KeepsDrawing
  <2>3. QED
    BY <1>3, <1>4, <2>1, <2>2 DEF Nested!KeepsDrawing
<1>8. QED
  BY <1>5, <1>6, <1>7, RestKeeps

LEMMA GrownBy ==
  ASSUME NEW q \in Seq(WindowEvent)
  PROVE  /\ Grown(q, q)
         /\ \A e \in WindowEvent : e.kind # "resized" => Grown(q, Append(q, e)) /\ Has(Append(q, e), e.kind)
         /\ \A r \in Seq(WindowEvent), e \in WindowEvent : Grown(q, r) /\ e.kind # "resized" => Grown(q, Append(r, e))
<1>1. Grown(q, q)
  BY DEF Grown
<1>2. \A r \in Seq(WindowEvent), e \in WindowEvent : Grown(q, r) /\ e.kind # "resized" => Grown(q, Append(r, e))
  <2>1. TAKE r \in Seq(WindowEvent), e \in WindowEvent
  <2>2. SUFFICES ASSUME Grown(q, r), e.kind # "resized" PROVE Grown(q, Append(r, e))
    OBVIOUS
  <2>3. QED
    BY <2>2, WindowQueued DEF Grown
<1>3. QED
  BY <1>1, <1>2, WindowQueued

LEMMA HostChangesIs ==
  ASSUME NEW h, Nested!HostChanges(h), NestedInv
  PROVE  /\ window' = h /\ UNCHANGED Rest /\ window \in Windows /\ window.queue \in Seq(WindowEvent)
         /\ window.size \in Sizes /\ window.focused \in BOOLEAN /\ window.fullscreen \in BOOLEAN
         /\ window.redraw \in BOOLEAN /\ window.broken \in BOOLEAN /\ window.spoke \in BOOLEAN /\ acts \in Nat
<1>1. window' = h /\ UNCHANGED Rest
  BY DEF Nested!HostChanges, Rest, Nested!backend, Nested!shell
<1>2. QED
  BY <1>1, WindowFields DEF NestedInv, NestedTyped

\* An event is queued and nothing else changes.
LEMMA QueuedKeeps ==
  ASSUME NestedInv, NEW w \in Windows, NEW e \in WindowEvent, e.kind # "resized",
         Nested!HostChanges(Nested!Queued(w, e)), acts' \in Nat,
         w.queue = window.queue, w.size = window.size, w.spoke => window.spoke,
         \/ w.broken = window.broken /\ Nested!Inhibits(w) = Nested!Inhibits(window)
         \/ e.kind = "focus",
         w.redraw \/ ~ window.redraw \/ e.kind = "redraw"
  PROVE  NestedInv'
<1>1. /\ window' = [w EXCEPT !.queue = Append(w.queue, e)] /\ UNCHANGED Rest
      /\ window.queue \in Seq(WindowEvent)
  BY HostChangesIs DEF Nested!Queued
<1> DEFINE q == Append(window.queue, e)
<1>2. q \in Seq(WindowEvent) /\ Grown(window.queue, q) /\ Has(q, e.kind)
  BY <1>1, WindowQueued, GrownBy
<1> HIDE DEF q
<1>3. window' = [w EXCEPT !.queue = q]
  BY <1>1 DEF q
<1>4. window' \in Windows /\ IsWindow(window', w.size, w.focused, w.fullscreen, w.redraw, w.broken, w.spoke, q)
  BY <1>2, <1>3, WindowReplaced
<1>5. /\ window'.size = w.size /\ window'.focused = w.focused /\ window'.fullscreen = w.fullscreen
      /\ window'.redraw = w.redraw /\ window'.broken = w.broken /\ window'.spoke = w.spoke /\ window'.queue = q
  BY <1>4 DEF IsWindow
<1>6. Nested!Inhibits(window') = Nested!Inhibits(w)
  BY <1>5 DEF Nested!Inhibits
<1>7. /\ \/ window'.broken = window.broken /\ Nested!Inhibits(window') = Nested!Inhibits(window)
         \/ Has(window'.queue, "focus")
      /\ window'.redraw \/ ~ window.redraw \/ Has(window'.queue, "redraw")
  BY <1>2, <1>5, <1>6
<1>8. QED
  BY <1>1, <1>2, <1>4, <1>5, <1>7, GrownKeeps

\* The greatest size there is.
LEMMA GreatestSize == (CHOOSE t \in Sizes : \A u \in Sizes : u <= t) \in Sizes
<1>1. Sizes \subseteq Int /\ Sizes # {} /\ IsFiniteSet(Sizes)
  BY NestedAssumed
<1>2. \E t \in Sizes : \A u \in Sizes : u <= t
  BY <1>1, LargestIsOne
<1>3. QED
  BY <1>2

LEMMA QuickestPeriod == (CHOOSE p \in Periods : \A q \in Periods : p <= q) \in Periods
<1>1. Periods \subseteq Nat /\ Periods # {}
  BY NestedAssumed
<1>2. PICK m \in Periods : \A k \in Periods : ~ (<<k, m>> \in OpToRel(<, Nat))
  BY <1>1, NatLessThanWellFounded, WFMin
<1>3. ASSUME NEW k \in Periods PROVE m <= k
  <2>1. m \in Nat /\ k \in Nat /\ ~ (<<k, m>> \in OpToRel(<, Nat))
    BY <1>1, <1>2
  <2>2. QED
    BY <2>1 DEF OpToRel
<1>4. QED
  BY <1>3

LEMMA UserKeeps ==
  ASSUME NestedInv,
         \/ Nested!UserResizes \/ Nested!UserFocuses \/ Nested!UserFullscreens \/ Nested!UserPoints
         \/ Nested!UserCloses \/ Nested!HostDisconnects \/ Nested!HostRedraws
  PROVE  NestedInv'
<1>1. window \in Windows /\ acts \in Nat
  BY DEF NestedInv, NestedTyped
<1>0. /\ window.queue \in Seq(WindowEvent) /\ window.focused \in BOOLEAN /\ window.fullscreen \in BOOLEAN
      /\ window.size \in Sizes /\ window.redraw \in BOOLEAN /\ window.broken \in BOOLEAN /\ window.spoke \in BOOLEAN
  BY <1>1, WindowFields
<1>2. CASE Nested!UserResizes
  <2>1. PICK s \in Sizes : Nested!HostChanges(Nested!Queued([window EXCEPT !.size = s, !.spoke = TRUE],
                                                            [kind |-> "resized", size |-> s]))
    BY <1>2 DEF Nested!UserResizes
  <2> DEFINE one == [window EXCEPT !.size = s]
             two == [one EXCEPT !.spoke = TRUE]
             q == Append(window.queue, [kind |-> "resized", size |-> s])
  <2>2. one \in Windows /\ IsWindow(one, s, window.focused, window.fullscreen, window.redraw, window.broken, window.spoke, window.queue)
    BY <1>1, WindowReplaced
  <2>3. Nested!HostChanges(Nested!Queued(two, [kind |-> "resized", size |-> s]))
    BY <2>1
  <2> HIDE DEF one
  <2>4. two \in Windows /\ IsWindow(two, one.size, one.focused, one.fullscreen, one.redraw, one.broken, TRUE, one.queue)
    BY <2>2, WindowReplaced
  <2>5. two.size = s /\ two.redraw = window.redraw /\ two.queue = window.queue
    BY <2>2, <2>4 DEF IsWindow
  <2>6. q \in Seq(WindowEvent)
    BY <1>0, WindowEventMade, WindowQueued
  <2> HIDE DEF two
  <2>11. acts' \in Nat
    <3>1. Nested!May("resize")
      BY <1>2, Zenon DEF Nested!UserResizes
    <3>2. QED
      BY <1>1, <3>1 DEF Nested!May
  <2>12. Nested!HostChanges([two EXCEPT !.queue = q])
    BY <2>3, <2>5 DEF Nested!Queued
  <2> HIDE DEF q
  <2>7. window' = [two EXCEPT !.queue = q] /\ UNCHANGED Rest /\ acts' \in Nat
    BY <2>11, <2>12, HostChangesIs
  <2>8. window' \in Windows /\ IsWindow(window', two.size, two.focused, two.fullscreen, two.redraw, two.broken, two.spoke, q)
    BY <2>4, <2>6, <2>7, WindowReplaced
  <2>9. window'.size = s /\ window'.redraw = window.redraw /\ window'.queue = q
    BY <2>5, <2>8 DEF IsWindow
  <2>10. QED
    BY <1>0, <2>7, <2>8, <2>9, SizedKeeps DEF q
<1>3. CASE Nested!UserFullscreens
  <2> DEFINE s == IF window.fullscreen THEN Standard ELSE CHOOSE t \in Sizes : \A u \in Sizes : u <= t
             full == ~ window.fullscreen
             zero == [window EXCEPT !.fullscreen = full]
             one == [zero EXCEPT !.size = s]
             two == [one EXCEPT !.spoke = TRUE]
             q == Append(window.queue, [kind |-> "resized", size |-> s])
  <2>1. s \in Sizes
    BY GreatestSize, NestedAssumed
  <2>2. Nested!HostChanges(Nested!Queued(two, [kind |-> "resized", size |-> s])) /\ acts' \in Nat
    BY <1>1, <1>3 DEF Nested!UserFullscreens, Nested!May
  <2> HIDE DEF s
  <2>3. zero \in Windows /\ IsWindow(zero, window.size, window.focused, full, window.redraw, window.broken, window.spoke, window.queue)
    BY <1>0, <1>1, WindowReplaced
  <2> HIDE DEF zero
  <2>4. one \in Windows /\ IsWindow(one, s, zero.focused, zero.fullscreen, zero.redraw, zero.broken, zero.spoke, zero.queue)
    BY <2>1, <2>3, WindowReplaced
  <2> HIDE DEF one
  <2>5. two \in Windows /\ IsWindow(two, one.size, one.focused, one.fullscreen, one.redraw, one.broken, TRUE, one.queue)
    BY <2>4, WindowReplaced
  <2>6. two.size = s /\ two.redraw = window.redraw /\ two.queue = window.queue
    BY <2>3, <2>4, <2>5 DEF IsWindow
  <2>7. q \in Seq(WindowEvent)
    BY <1>0, <2>1, WindowEventMade, WindowQueued
  <2> HIDE DEF two
  <2>8. window' = [two EXCEPT !.queue = q] /\ UNCHANGED Rest
    BY <1>1, <2>2, <2>6, HostChangesIs DEF Nested!Queued
  <2> HIDE DEF q
  <2>9. window' \in Windows /\ IsWindow(window', two.size, two.focused, two.fullscreen, two.redraw, two.broken, two.spoke, q)
    BY <2>5, <2>7, <2>8, WindowReplaced
  <2>10. window'.size = s /\ window'.redraw = window.redraw /\ window'.queue = q
    BY <2>6, <2>9 DEF IsWindow
  <2>11. QED
    BY <1>0, <2>1, <2>2, <2>8, <2>9, <2>10, SizedKeeps DEF q
<1>4. CASE Nested!UserFocuses
  <2> DEFINE turned == ~ window.focused
             w == [window EXCEPT !.focused = turned]
             e == [kind |-> "focus", on |-> turned]
  <2>1. Nested!HostChanges(Nested!Queued(w, e)) /\ acts' \in Nat
    BY <1>1, <1>4 DEF Nested!UserFocuses, Nested!May
  <2>2. e \in WindowEvent /\ e.kind = "focus" /\ turned \in BOOLEAN
    BY <1>0, WindowEventMade
  <2>3. w \in Windows /\ IsWindow(w, window.size, turned, window.fullscreen, window.redraw, window.broken, window.spoke, window.queue)
    BY <1>0, <1>1, <2>2, WindowReplaced
  <2> HIDE DEF w, e
  <2>4. QED
    BY <1>0, <2>1, <2>2, <2>3, QueuedKeeps DEF IsWindow
<1>5. CASE Nested!UserCloses
  <2> DEFINE e == [kind |-> "close"]
  <2>1. Nested!HostChanges(Nested!Queued(window, e)) /\ acts' \in Nat
    BY <1>1, <1>5 DEF Nested!UserCloses, Nested!May
  <2>2. e \in WindowEvent /\ e.kind = "close"
    BY WindowEventMade
  <2> HIDE DEF e
  <2>3. QED
    BY <1>0, <1>1, <2>1, <2>2, QueuedKeeps
<1>6. CASE Nested!HostRedraws
  <2> DEFINE e == [kind |-> "redraw"]
             w == [window EXCEPT !.redraw = FALSE]
  <2>1. Nested!HostChanges(Nested!Queued(w, e)) /\ acts' \in Nat
    BY <1>1, <1>6 DEF Nested!HostRedraws
  <2>2. e \in WindowEvent /\ e.kind = "redraw"
    BY WindowEventMade
  <2>3. w \in Windows /\ IsWindow(w, window.size, window.focused, window.fullscreen, FALSE, window.broken, window.spoke, window.queue)
    BY <1>1, WindowReplaced
  <2> HIDE DEF w, e
  <2>4. Nested!Inhibits(w) = Nested!Inhibits(window)
    BY <2>3 DEF IsWindow, Nested!Inhibits
  <2>5. QED
    BY <1>0, <2>1, <2>2, <2>3, <2>4, QueuedKeeps DEF IsWindow
<1>7. CASE Nested!HostDisconnects
  <2>1. window' = [window EXCEPT !.broken = TRUE] /\ UNCHANGED Rest /\ acts' \in Nat
    BY <1>1, <1>7, HostChangesIs DEF Nested!HostDisconnects, Nested!May
  <2>2. window' \in Windows /\ IsWindow(window', window.size, window.focused, window.fullscreen, window.redraw, TRUE, window.spoke, window.queue)
    BY <1>1, <2>1, WindowReplaced
  <2>3. /\ window'.size = window.size /\ window'.redraw = window.redraw /\ window'.broken
        /\ window'.spoke = window.spoke /\ window'.queue = window.queue
    BY <2>2 DEF IsWindow
  <2>4. Grown(window.queue, window'.queue)
    BY <1>0, <2>3, GrownBy
  <2>5. QED
    BY <1>0, <2>1, <2>2, <2>3, <2>4, GrownKeeps
<1>8. CASE Nested!UserPoints
  <2> DEFINE moves == IF shared.capture = "locked" THEN <<>> ELSE <<[kind |-> "moved"]>>
             raw == IF window.focused THEN <<[kind |-> "motion"]>> ELSE <<>>
             mid == window.queue \o moves
             q == mid \o raw
  <2>0. acts' \in Nat
    BY <1>1, <1>8 DEF Nested!UserPoints, Nested!May
  <2>8. Nested!HostChanges([window EXCEPT !.queue = q])
    BY <1>8 DEF Nested!UserPoints
  <2>1. window' = [window EXCEPT !.queue = q] /\ UNCHANGED Rest /\ acts' \in Nat
    <3> HIDE DEF q
    <3>1. QED
      BY <2>0, <2>8, HostChangesIs
  <2>2. [kind |-> "moved"] \in WindowEvent /\ [kind |-> "motion"] \in WindowEvent
    BY WindowEventMade
  <2>3. mid \in Seq(WindowEvent) /\ Grown(window.queue, mid)
    <3>1. mid = window.queue \/ mid = Append(window.queue, [kind |-> "moved"])
      BY <1>0, <2>2, ConcatEmptySeq, AppendIsConcat
    <3>2. Append(window.queue, [kind |-> "moved"]) \in Seq(WindowEvent) /\ Grown(window.queue, Append(window.queue, [kind |-> "moved"]))
      BY <1>0, <2>2, WindowQueued, GrownBy
    <3>3. QED
      BY <1>0, <3>1, <3>2, GrownBy
  <2> HIDE DEF mid
  <2>4. q \in Seq(WindowEvent) /\ Grown(window.queue, q)
    <3>1. q = mid \/ q = Append(mid, [kind |-> "motion"])
      BY <2>2, <2>3, ConcatEmptySeq, AppendIsConcat
    <3>2. Append(mid, [kind |-> "motion"]) \in Seq(WindowEvent) /\ Grown(window.queue, Append(mid, [kind |-> "motion"]))
      BY <1>0, <2>2, <2>3, WindowQueued, GrownBy
    <3>3. QED
      BY <2>3, <3>1, <3>2
  <2> HIDE DEF q
  <2>5. window' \in Windows /\ IsWindow(window', window.size, window.focused, window.fullscreen, window.redraw, window.broken, window.spoke, q)
    BY <1>1, <2>1, <2>4, WindowReplaced
  <2>6. /\ window'.size = window.size /\ window'.redraw = window.redraw /\ window'.broken = window.broken
        /\ window'.spoke = window.spoke /\ window'.queue = q /\ Nested!Inhibits(window') = Nested!Inhibits(window)
    BY <2>5 DEF IsWindow, Nested!Inhibits
  <2>7. QED
    BY <1>0, <2>1, <2>4, <2>5, <2>6, GrownKeeps
<1>9. QED
  BY <1>2, <1>3, <1>4, <1>5, <1>6, <1>7, <1>8

-----------------------------------------------------------------------------
(* The shell between two frames, time, and the end of a frame.             *)

Quiet == <<scene, now, shortcuts, clock, seen, timeline, absolute>>

\* What the shell may do: another configuration, mode or output, but no other window.
LEMMA ShellKeeps ==
  ASSUME NestedInv, turn = "poll", acts' \in Nat, UNCHANGED Quiet, UNCHANGED <<turn, shared>>,
         configured' \in Sizes \cup {None}, output' \in Device \cup {None}, window' \in Windows,
         window'.size = window.size, window'.queue = window.queue, window'.redraw = window.redraw,
         window'.broken = window.broken, Nested!Inhibits(window') = Nested!Inhibits(window),
         window'.spoke => window.spoke /\ (output' = output \/ output = None)
  PROVE  NestedInv'
<1>1. NestedTyped'
  BY DEF NestedInv, NestedTyped, Quiet
<1>2. SizesSound'
  <2>1. turn' # "extract" /\ scene' = scene /\ shared' = shared
    BY DEF Quiet
  <2>2. SUFFICES ASSUME scene.driver = "host", window'.spoke
                 PROVE  SizesKnown(window'.queue, window'.size, shared.window, output')
    BY <2>1 DEF SizesSound
  <2>3. SizesKnown(window.queue, window.size, shared.window, output)
    BY <2>2 DEF NestedInv, SizesSound
  <2>4. QED
    BY <2>2, <2>3 DEF SizesKnown
<1>3. ClockSound'
  BY DEF NestedInv, Quiet, ClockSound, StampsSound
<1>4. \A k : Nested!Queues(k)' <=> Has(window.queue, k)
  BY DEF Nested!Queues, Has
<1>5. Nested!ShortcutsReturned'
  <2>1. shortcuts' = shortcuts
    BY DEF Quiet
  <2>2. QED
    BY <1>4, <2>1, QueuesAre DEF NestedInv, Nested!ShortcutsReturned
<1>6. Nested!KeepsDrawing'
  <2>1. scene'.driver = scene.driver /\ shared'.closed = shared.closed
    BY DEF Quiet
  <2>2. QED
    BY <1>4, <2>1, QueuesAre DEF NestedInv, Nested!KeepsDrawing
<1>7. Seeded(absolute, shared.input, shared.capture)'
  BY DEF NestedInv, Quiet
<1>8. QED
  BY <1>1, <1>2, <1>3, <1>5, <1>6, <1>7 DEF NestedInv

LEMMA ShellChanged ==
  ASSUME NestedInv, Nested!ShellChanges
  PROVE  turn = "poll" /\ UNCHANGED Quiet /\ UNCHANGED <<turn, shared>>
BY DEF Nested!ShellChanges, Nested!backend, Quiet

\* A size that was set by the shell.
LEMMA SizedByShellIs ==
  ASSUME NestedInv, Nested!SizedByShell
  PROVE  /\ window' \in Windows /\ window'.size = window.size /\ window'.queue = window.queue
         /\ window'.redraw = window.redraw /\ window'.broken = window.broken
         /\ Nested!Inhibits(window') = Nested!Inhibits(window) /\ ~ window'.spoke
<1>1. window \in Windows /\ window' = [window EXCEPT !.spoke = FALSE]
  BY DEF NestedInv, NestedTyped, Nested!SizedByShell
<1>2. window' \in Windows /\ IsWindow(window', window.size, window.focused, window.fullscreen, window.redraw,
                                      window.broken, FALSE, window.queue)
  BY <1>1, WindowReplaced
<1>3. QED
  BY <1>2 DEF IsWindow, Nested!Inhibits

LEMMA DeviceMade ==
  /\ \A i \in Nat, s \in Sizes, p \in Periods : [id |-> i, size |-> s, period |-> p] \in Device
  /\ \A o \in Device, s \in Sizes, p \in Periods : [[o EXCEPT !.size = s] EXCEPT !.period = p] \in Device
  /\ \A o \in Device, s \in Sizes : [o EXCEPT !.size = s] \in Device /\ [o EXCEPT !.size = s].size = s
BY DEF Device

LEMMA ShellStepKeeps ==
  ASSUME NestedInv, Nested!Shell
  PROVE  NestedInv'
<1>1. window \in Windows /\ acts \in Nat /\ configured \in Sizes \cup {None} /\ output \in Device \cup {None}
  BY DEF NestedInv, NestedTyped
<1>2. CASE Nested!OutputOff
  <2>1. Nested!May("toggle") /\ output' = None /\ Nested!SizedByShell /\ Nested!ShellChanges /\ configured' = configured
    BY <1>2, Zenon DEF Nested!OutputOff
  <2>2. acts' \in Nat
    BY <1>1, <2>1 DEF Nested!May
  <2>3. QED
    BY <1>1, <2>1, <2>2, ShellChanged, SizedByShellIs, ShellKeeps
<1>3. CASE Nested!OutputOn
  <2>1. /\ Nested!May("toggle") /\ output = None /\ Nested!ShellChanges /\ UNCHANGED <<configured, window>>
        /\ output' = [id |-> acts', size |-> Nested!Blueprint(None, None),
                      period |-> CHOOSE p \in Periods : \A q \in Periods : p <= q]
    BY <1>3, Zenon DEF Nested!OutputOn
  <2>2. acts' \in Nat
    BY <1>1, <2>1 DEF Nested!May
  <2>3. Nested!Blueprint(None, None) \in Sizes
    BY NestedAssumed DEF Nested!Blueprint
  <2>4. output' \in Device
    BY <2>1, <2>2, <2>3, QuickestPeriod, DeviceMade
  <2>5. Nested!Inhibits(window') = Nested!Inhibits(window)
    BY <2>1
  <2>6. QED
    BY <1>1, <2>1, <2>2, <2>4, <2>5, ShellChanged, ShellKeeps
<1>4. CASE Nested!ModeSet
  <2>1. /\ Nested!May("mode") /\ output # None /\ Nested!ShellChanges /\ Nested!SizedByShell /\ configured' = configured
        /\ \E s \in Sizes, p \in Periods : output' = [output EXCEPT !.size = s, !.period = p]
    BY <1>4, Zenon DEF Nested!ModeSet
  <2>2. acts' \in Nat
    BY <1>1, <2>1 DEF Nested!May
  <2>3. output' \in Device
    <3>1. PICK s \in Sizes, p \in Periods : output' = [[output EXCEPT !.size = s] EXCEPT !.period = p]
      BY <2>1
    <3>2. output \in Device
      BY <1>1, <2>1
    <3>3. [[output EXCEPT !.size = s] EXCEPT !.period = p] \in Device
      BY <3>2, DeviceMade
    <3>4. QED
      BY <3>1, <3>3
  <2>4. QED
    BY <1>1, <2>1, <2>2, <2>3, ShellChanged, SizedByShellIs, ShellKeeps
<1>5. CASE Nested!Reconfigured
  <2>1. /\ Nested!May("config") /\ Nested!ShellChanges /\ UNCHANGED <<output, window>>
        /\ configured' \in ({None} \cup Sizes) \ {configured}
    BY <1>5, Zenon DEF Nested!Reconfigured
  <2>2. acts' \in Nat
    BY <1>1, <2>1 DEF Nested!May
  <2>3. Nested!Inhibits(window') = Nested!Inhibits(window)
    BY <2>1
  <2>4. QED
    BY <1>1, <2>1, <2>2, <2>3, ShellChanged, ShellKeeps
<1>6. QED
  BY <1>2, <1>3, <1>4, <1>5 DEF Nested!Shell

LEMMA TickKeeps ==
  ASSUME NestedInv, Nested!Tick
  PROVE  NestedInv'
<1>1. now' = now + 1 /\ now \in Nat
  BY DEF Nested!Tick, Nested!backend, Nested!shell, NestedInv, NestedTyped
<1>2. UNCHANGED <<scene, turn, acts, window, shared, shortcuts, clock, configured, output, seen, timeline, absolute>>
  BY DEF Nested!Tick, Nested!backend, Nested!shell
<1>3. NestedTyped'
  BY <1>1, <1>2 DEF NestedInv, NestedTyped
<1>4. SizesSound' /\ Seeded(absolute, shared.input, shared.capture)' /\ Nested!ShortcutsReturned' /\ Nested!KeepsDrawing'
  BY <1>2 DEF NestedInv, SizesSound, Nested!ShortcutsReturned, Nested!KeepsDrawing, Nested!Queues
<1>5. ClockSound'
  <2>1. shared.stamps \in Seq(Nat) /\ StampsSound(shared.stamps)
    BY SharedFields DEF NestedInv, NestedTyped, ClockSound
  <2>2. StampsSound(shared.stamps)'
    <3>1. \A i \in DOMAIN shared.stamps : shared.stamps[i] \in Nat /\ shared.stamps[i] <= now
      BY <2>1 DEF StampsSound
    <3>2. \A i \in DOMAIN shared.stamps : shared.stamps[i] <= now'
      BY <1>1, <3>1
    <3>3. QED
      BY <1>2, <2>1, <3>2 DEF StampsSound
  <2>3. clock # None => Counted(clock) <= now'
    <3>1. SUFFICES ASSUME clock # None PROVE Counted(clock) <= now'
      OBVIOUS
    <3>2. clock \in Clock
      BY <3>1 DEF NestedInv, NestedTyped
    <3>3. Counted(clock) \in Int
      <4>1. clock.anchor \in Nat /\ clock.sequence \in Nat /\ clock.period \in Nat
        BY <3>2, NestedAssumed DEF Clock
      <4>2. (clock.sequence - 1) * clock.period \in Int
        BY <4>1, Products
      <4>3. QED
        BY <4>1, <4>2 DEF Counted
    <3>4. QED
      BY <1>1, <3>1, <3>3 DEF NestedInv, ClockSound
  <2>4. QED
    BY <1>2, <2>2, <2>3 DEF NestedInv, ClockSound, Counted
<1>6. QED
  BY <1>3, <1>4, <1>5 DEF NestedInv

LEMMA TimerKeeps ==
  ASSUME NestedInv, Nested!Timer
  PROVE  NestedInv'
<1>1. /\ scene.driver = "timer" /\ turn = "poll" /\ shared.stamps = <<>> /\ shared \in Sharing /\ now \in Nat
      /\ shared' = [shared EXCEPT !.stamps = <<now>>]
      /\ UNCHANGED <<scene, turn, acts, now, window, shortcuts, clock, configured, output, seen, timeline, absolute>>
  BY DEF Nested!Timer, Nested!shell, NestedInv, NestedTyped
<1> DEFINE t == <<now>>
<1>2. t \in Seq(Nat) /\ StampsSound(t) /\ \A i \in DOMAIN t : t[i] = now
  BY <1>1 DEF StampsSound
<1>3. shared' = [shared EXCEPT !.stamps = t]
  BY <1>1
<1> HIDE DEF t
<1>4. shared' \in Sharing /\ IsShared(shared', shared.active, shared.input, t, shared.window, shared.capture,
                                      shared.closed, shared.ready, shared.spec)
  BY <1>1, <1>2, <1>3, SharedReplaced
<1>5. /\ shared'.input = shared.input /\ shared'.stamps = t /\ shared'.window = shared.window
      /\ shared'.capture = shared.capture /\ shared'.closed = shared.closed
  BY <1>4 DEF IsShared
<1>6. NestedTyped'
  BY <1>1, <1>4 DEF NestedInv, NestedTyped
<1>7. SizesSound'
  BY <1>1 DEF SizesSound
<1>8. Seeded(absolute, shared.input, shared.capture)'
  BY <1>1, <1>5 DEF NestedInv
<1>9. Nested!ShortcutsReturned' /\ Nested!KeepsDrawing'
  BY <1>1 DEF NestedInv, Nested!ShortcutsReturned, Nested!KeepsDrawing, Nested!Queues
<1>10. ClockSound'
  <2>1. StampsSound(shared.stamps)'
    BY <1>1, <1>2, <1>5 DEF StampsSound
  <2>2. clock # None => \A i \in DOMAIN t : Counted(clock) <= t[i]
    BY <1>1, <1>2 DEF NestedInv, ClockSound
  <2>3. QED
    BY <1>1, <1>5, <2>1, <2>2 DEF NestedInv, ClockSound, Counted
<1>11. QED
  BY <1>6, <1>7, <1>8, <1>9, <1>10 DEF NestedInv

\* The end of a frame: the window is asked for something, and what was seen is done with.
Lasting == <<scene, acts, now, shortcuts, clock, configured, output, seen, timeline, absolute>>

LEMMA TurnKeeps ==
  ASSUME NestedInv, UNCHANGED Lasting, turn' \in {"present", "poll"},
         window' \in Windows, shared' \in Sharing,
         shared'.input = shared.input, shared'.stamps = shared.stamps, shared'.window = shared.window,
         shared'.capture = shared.capture, shared'.closed = shared.closed,
         window'.broken = window.broken, Nested!Inhibits(window') = Nested!Inhibits(window),
         window'.redraw \/ ~ window.redraw,
         \A k : Has(window.queue, k) => Has(window'.queue, k),
         scene.driver = "host" /\ window'.spoke => SizesKnown(window'.queue, window'.size, shared.window, output)
  PROVE  NestedInv'
<1>1. NestedTyped'
  BY DEF NestedInv, NestedTyped, Lasting
<1>2. SizesSound'
  BY DEF SizesSound, Lasting
<1>3. ClockSound'
  BY DEF NestedInv, Lasting, ClockSound, StampsSound, Counted
<1>4. \A k : Nested!Queues(k)' <=> Has(window'.queue, k)
  BY DEF Nested!Queues, Has
<1>5. Nested!ShortcutsReturned'
  <2>1. shortcuts' = shortcuts
    BY DEF Lasting
  <2>2. QED
    BY <1>4, <2>1, QueuesAre DEF NestedInv, Nested!ShortcutsReturned
<1>6. Nested!KeepsDrawing'
  <2>1. scene'.driver = scene.driver /\ shared'.closed = shared.closed
    BY DEF Lasting
  <2>2. scene.driver = "host" /\ ~ shared.closed => window.redraw \/ Has(window.queue, "redraw")
    BY QueuesAre DEF NestedInv, Nested!KeepsDrawing
  <2>3. QED
    BY <1>4, <2>1, <2>2 DEF Nested!KeepsDrawing
<1>7. Seeded(absolute, shared.input, shared.capture)'
  BY DEF NestedInv, Lasting
<1>8. QED
  BY <1>1, <1>2, <1>3, <1>5, <1>6, <1>7 DEF NestedInv

LEMMA PresentKeeps ==
  ASSUME NestedInv, Nested!Present
  PROVE  NestedInv'
<1>1. /\ turn' = "poll" /\ UNCHANGED Lasting /\ shared' = shared /\ window \in Windows /\ shared \in Sharing
      /\ window' = window \/ window' = [window EXCEPT !.redraw = TRUE]
  BY DEF Nested!Present, Nested!backend, Nested!shell, Lasting, NestedInv, NestedTyped
<1>2. /\ window' \in Windows /\ window'.size = window.size /\ window'.broken = window.broken
      /\ window'.spoke = window.spoke /\ window'.queue = window.queue
      /\ Nested!Inhibits(window') = Nested!Inhibits(window) /\ (window'.redraw \/ ~ window.redraw)
  <2>1. CASE window' = window
    BY <1>1, <2>1
  <2>2. CASE window' = [window EXCEPT !.redraw = TRUE]
    <3>1. window' \in Windows /\ IsWindow(window', window.size, window.focused, window.fullscreen, TRUE, window.broken,
                                          window.spoke, window.queue)
      BY <1>1, <2>2, WindowReplaced
    <3>2. QED
      BY <3>1 DEF IsWindow, Nested!Inhibits
  <2>3. QED
    BY <1>1, <2>1, <2>2
<1>3. scene.driver = "host" /\ window'.spoke => SizesKnown(window'.queue, window'.size, shared.window, output)
  BY <1>2 DEF NestedInv, SizesSound
<1>4. \A k : Has(window.queue, k) => Has(window'.queue, k)
  BY <1>2
<1>5. /\ turn' \in {"present", "poll"} /\ shared' \in Sharing /\ shared'.input = shared.input
      /\ shared'.stamps = shared.stamps /\ shared'.window = shared.window
      /\ shared'.capture = shared.capture /\ shared'.closed = shared.closed /\ UNCHANGED Lasting
  BY <1>1
<1>6. QED
  BY <1>2, <1>3, <1>4, <1>5, TurnKeeps

LEMMA ApplyKeeps ==
  ASSUME NestedInv, Nested!Apply
  PROVE  NestedInv'
<1> DEFINE s == Nested!DesiredSpec(seen.config, seen.output)
<1>1. /\ turn' = "present" /\ UNCHANGED Lasting /\ window \in Windows /\ shared \in Sharing /\ scene \in Scenes
      /\ shared' = [shared EXCEPT !.spec = s]
      /\ window' = window \/ window' = Nested!Asked(window, s.size)
  BY DEF Nested!Apply, Nested!shell, Lasting, NestedInv, NestedTyped
<1>2. s \in Spec0 /\ s.size \in Sizes
  <2>1. seen.config \in Sizes \cup {None} /\ seen.output \in Device \cup {None}
    BY DEF NestedInv, NestedTyped
  <2>2. seen.config = None /\ seen.output # None => seen.output.size \in Sizes
    BY <2>1, DeviceFields
  <2>3. QED
    BY <2>1, <2>2, NestedAssumed DEF Nested!DesiredSpec, Spec0
<1> HIDE DEF s
<1>3. shared' \in Sharing /\ IsShared(shared', shared.active, shared.input, shared.stamps, shared.window, shared.capture,
                                      shared.closed, shared.ready, s)
  BY <1>1, <1>2, SharedReplaced
<1>4. /\ shared'.input = shared.input /\ shared'.stamps = shared.stamps /\ shared'.window = shared.window
      /\ shared'.capture = shared.capture /\ shared'.closed = shared.closed
  BY <1>3 DEF IsShared
<1>5. window.queue \in Seq(WindowEvent)
  BY <1>1, WindowFields
<1>6. CASE window' = window
  <2>1. scene.driver = "host" /\ window'.spoke => SizesKnown(window'.queue, window'.size, shared.window, output)
    BY <1>6 DEF NestedInv, SizesSound
  <2>2. QED
    BY <1>1, <1>3, <1>4, <1>6, <2>1, TurnKeeps
<1>7. CASE window' = Nested!Asked(window, s.size)
  <2> DEFINE e == [kind |-> "resized", size |-> s.size]
  <2>1. /\ window' \in Windows /\ window'.redraw /\ window'.broken = window.broken
        /\ window'.focused = window.focused /\ window'.fullscreen = window.fullscreen
        /\ \/ window'.queue = Append(window.queue, e) /\ window'.size = s.size
           \/ window'.queue = window.queue /\ window'.size = window.size /\ window'.spoke = window.spoke
    BY <1>1, <1>2, <1>7, AskedIs
  <2>2. e \in WindowEvent /\ e.kind = "resized" /\ e.size = s.size
    BY <1>2, WindowEventMade
  <2> HIDE DEF e
  <2>3. Nested!Inhibits(window') = Nested!Inhibits(window)
    BY <2>1 DEF Nested!Inhibits
  <2>4. CASE window'.queue = Append(window.queue, e) /\ window'.size = s.size
    <3>1. /\ ~ NoSize(window'.queue) /\ SizedBy(window'.queue, window'.size)
          /\ \A k : Has(window.queue, k) => Has(window'.queue, k)
      BY <1>5, <2>2, <2>4, WindowQueued
    <3>2. SizesKnown(window'.queue, window'.size, shared.window, output)
      BY <3>1 DEF SizesKnown
    <3>3. QED
      BY <1>1, <1>3, <1>4, <2>1, <2>3, <3>1, <3>2, TurnKeeps
  <2>5. CASE window'.queue = window.queue /\ window'.size = window.size /\ window'.spoke = window.spoke
    <3>1. scene.driver = "host" /\ window'.spoke => SizesKnown(window'.queue, window'.size, shared.window, output)
      BY <2>5 DEF NestedInv, SizesSound
    <3>2. QED
      BY <1>1, <1>3, <1>4, <2>1, <2>3, <2>5, <3>1, TurnKeeps
  <2>6. QED
    BY <2>1, <2>4, <2>5
<1>8. QED
  BY <1>1, <1>6, <1>7

\* A time on the clock is a number.
LEMMA CountedIs ==
  ASSUME NEW c \in Clock
  PROVE  /\ Counted(c) \in Int /\ c.of \in Nat /\ c.anchor \in Nat /\ c.period \in Periods /\ c.period \in Nat
         /\ c.period # 0 /\ c.sequence \in Nat
<1>1. c.of \in Nat /\ c.anchor \in Nat /\ c.sequence \in Nat /\ c.period \in Periods
  BY DEF Clock
<1>2. c.period \in Nat /\ c.period # 0
  BY <1>1, NestedAssumed
<1>3. (c.sequence - 1) * c.period \in Int
  BY <1>1, <1>2, Products
<1>4. QED
  BY <1>1, <1>2, <1>3 DEF Counted

LEMMA PollKeeps ==
  ASSUME NestedInv, Nested!Poll
  PROVE  NestedInv'
<1> DEFINE w == [window EXCEPT !.queue = <<>>]
           p == [host |-> w, shared |-> shared, shortcuts |-> shortcuts]
           q == window.queue
<1>1. /\ turn' = "extract" /\ seen' = [output |-> output, config |-> configured]
      /\ UNCHANGED <<scene, acts, now, clock, configured, output, timeline, absolute>>
  BY DEF Nested!Poll
<1>2. PICK before \in 0 .. Len(q) :
        \E r \in {Nested!Pumped(p, q, before)} : window' = r.host /\ shared' = r.shared /\ shortcuts' = r.shortcuts
  BY Zenon DEF Nested!Poll
<1> DEFINE r == Nested!Pumped(p, q, before)
<1>3. window' = r.host /\ shared' = r.shared /\ shortcuts' = r.shortcuts
  BY <1>2, Zenon
<1>4. /\ window \in Windows /\ shared \in Sharing /\ shortcuts \in Inhibitor /\ now \in Nat
      /\ configured \in Sizes \cup {None} /\ output \in Device \cup {None}
      /\ Seeded(absolute, shared.input, shared.capture) /\ StampsSound(shared.stamps)
  BY DEF NestedInv, NestedTyped, Inhibitor, ClockSound
<1>5. q \in Seq(WindowEvent) /\ q = window.queue /\ <<>> \in Seq(WindowEvent)
  BY <1>4, WindowFields
<1>6. w \in Windows /\ IsWindow(w, window.size, window.focused, window.fullscreen, window.redraw, window.broken,
                                window.spoke, <<>>)
  BY <1>4, <1>5, WindowReplaced
<1> HIDE DEF w, q
<1>7. p \in Polls /\ p.host = w /\ p.shared = shared /\ p.shortcuts = shortcuts
  BY <1>4, <1>6 DEF Polls, Holding
<1> HIDE DEF p
<1>8. p \in Origins(absolute) /\ StampsSound(p.shared.stamps)
  BY <1>4, <1>7 DEF Origins
<1>9. Upto(p, q, Len(q), r, absolute)
  BY <1>4, <1>5, <1>8, PumpedIs
<1> HIDE DEF r
<1>10. DOMAIN q = 1 .. Len(q)
  BY <1>5
<1>11. r \in Polls /\ window' \in Windows /\ shared' \in Sharing /\ shortcuts' \in Inhibitor
  BY <1>3, <1>9, PollFields DEF Upto
<1>12. /\ window'.size = window.size /\ window'.focused = window.focused /\ window'.fullscreen = window.fullscreen
       /\ window'.broken = window.broken /\ window'.spoke = window.spoke /\ window'.queue = <<>>
       /\ window.redraw => window'.redraw
  BY <1>3, <1>6, <1>7, <1>9 DEF Upto, IsWindow
<1>13. /\ Has(q, "redraw") => window'.redraw \/ shared'.closed
       /\ shared.closed => shared'.closed
       /\ \/ NoSize(q) /\ shared'.window = shared.window
          \/ \E i \in DOMAIN q : /\ q[i].kind = "resized" /\ shared'.window = q[i].size
                                 /\ \A j \in DOMAIN q : j > i => q[j].kind # "resized"
       /\ Seeded(absolute, shared'.input, shared'.capture) /\ StampsSound(shared'.stamps)
       /\ \A lo \in Int : lo <= now /\ StampsFrom(shared.stamps, lo) => StampsFrom(shared'.stamps, lo)
  BY <1>3, <1>7, <1>9, <1>10 DEF Upto, Has, NoSize
<1>14. /\ Nested!Inhibits(w) = Nested!Inhibits(window) /\ Nested!Inhibits(window') = Nested!Inhibits(window)
       /\ shortcuts' = TRUE =>
            Nested!Inhibits(window) \/ (shortcuts = TRUE /\ ~ Has(q, "focus") /\ ~ Has(q, "resized"))
  <2>1. Nested!Inhibits(w) = Nested!Inhibits(window)
    BY <1>6 DEF IsWindow, Nested!Inhibits
  <2>2. Nested!Inhibits(window') = Nested!Inhibits(window)
    BY <1>12 DEF Nested!Inhibits
  <2>3. QED
    BY <1>3, <1>7, <1>9, <1>10, <2>1, <2>2 DEF Upto, Has
<1>15. NestedTyped'
  BY <1>1, <1>4, <1>11 DEF NestedInv, NestedTyped, Inhibitor
<1>16. SizesSound'
  <2>1. (turn = "extract" => seen.output = output)'
    BY <1>1
  <2>2. SUFFICES ASSUME scene.driver = "host", window.spoke
                 PROVE  SizesKnown(<<>>, window.size, shared'.window, output)
    BY <1>1, <1>12, <2>1 DEF SizesSound
  <2>3. SizesKnown(q, window.size, shared.window, output)
    BY <1>5, <2>2 DEF NestedInv, SizesSound
  <2>4. SizedBy(<<>>, window.size)
    BY DEF SizedBy
  <2>5. CASE NoSize(q) /\ shared'.window = shared.window
    BY <2>3, <2>4, <2>5 DEF SizesKnown
  <2>6. CASE \E i \in DOMAIN q : /\ q[i].kind = "resized" /\ shared'.window = q[i].size
                                 /\ \A j \in DOMAIN q : j > i => q[j].kind # "resized"
    <3>1. shared'.window = window.size
      BY <2>3, <2>6 DEF SizesKnown, SizedBy
    <3>2. window.size # None
      BY <1>4, WindowFields, NestedAssumed
    <3>3. QED
      BY <2>4, <3>1, <3>2 DEF SizesKnown
  <2>7. QED
    BY <1>13, <2>5, <2>6
<1>17. \A k : Nested!Queues(k) <=> Has(q, k)
  BY QueuesAre DEF q
<1>18. Nested!ShortcutsReturned'
  BY <1>12, <1>14, <1>17 DEF NestedInv, Nested!ShortcutsReturned
<1>19. Nested!KeepsDrawing'
  BY <1>1, <1>12, <1>13, <1>17 DEF NestedInv, Nested!KeepsDrawing
<1>20. ClockSound'
  <2>1. StampsSound(shared.stamps)'
    BY <1>1, <1>13 DEF StampsSound
  <2>2. clock # None => \A i \in DOMAIN shared'.stamps : Counted(clock) <= shared'.stamps[i]
    <3>1. SUFFICES ASSUME clock # None PROVE StampsFrom(shared'.stamps, Counted(clock))
      BY DEF StampsFrom
    <3>2. Counted(clock) \in Int
      BY <3>1, CountedIs DEF NestedInv, NestedTyped
    <3>3. Counted(clock) <= now /\ StampsFrom(shared.stamps, Counted(clock))
      BY <3>1 DEF NestedInv, ClockSound, StampsFrom
    <3>4. QED
      BY <1>13, <3>2, <3>3
  <2>3. QED
    BY <1>1, <2>1, <2>2 DEF NestedInv, ClockSound, Counted
<1>21. Seeded(absolute, shared.input, shared.capture)'
  BY <1>1, <1>13
<1>22. QED
  BY <1>15, <1>16, <1>18, <1>19, <1>20, <1>21 DEF NestedInv

-----------------------------------------------------------------------------
(* What a frame hands to the shell.                                        *)

\* The presentation times of a frame: nothing, nothing and no clock, or one whole round.
LEMMA EmittedNow ==
  ASSUME NestedInv, turn = "extract"
  PROVE  LET r == Nested!Emitted(shared.stamps, clock, seen.output) IN
         \/ shared.stamps = <<>> /\ r.clock = clock /\ r.event = None
         \/ shared.stamps # <<>> /\ output = None /\ r.clock = None /\ r.event = None
         \/ /\ shared.stamps # <<>> /\ output # None /\ shared.stamps \in Seq(Nat)
            /\ Rounded(r, output, shared.stamps[Len(shared.stamps)], clock)
            /\ shared.stamps[Len(shared.stamps)] \in Nat /\ shared.stamps[Len(shared.stamps)] <= now
<1> DEFINE s == shared.stamps
           r == Nested!Emitted(s, clock, seen.output)
<1>1. /\ s \in Seq(Nat) /\ seen.output = output /\ output \in Device \cup {None} /\ clock \in Clock \cup {None}
      /\ StampsSound(s) /\ now \in Nat
      /\ clock # None => clock.sequence >= 1 /\ StampsFrom(s, Counted(clock))
  BY SharedFields DEF NestedInv, NestedTyped, SizesSound, ClockSound, StampsFrom
<1> HIDE DEF s
<1>2. CASE s = <<>>
  <2>1. r = [clock |-> clock, event |-> None]
    BY <1>1, <1>2, EmittedNothing
  <2>2. QED
    BY <1>2, <2>1 DEF s
<1>3. CASE s # <<>> /\ output = None
  <2>1. r = [clock |-> None, event |-> None]
    BY <1>1, <1>3, EmittedNothing
  <2>2. QED
    BY <1>3, <2>1 DEF s
<1>4. CASE s # <<>> /\ output # None
  <2>1. output \in Device
    BY <1>1, <1>4
  <2>2. Rounded(r, output, s[Len(s)], clock)
    BY <1>1, <1>4, <2>1, EmittedIs
  <2>3. Len(s) \in DOMAIN s /\ s[Len(s)] \in Nat /\ s[Len(s)] <= now
    <3>1. Len(s) \in DOMAIN s /\ s[Len(s)] \in Nat
      BY <1>1, <1>4, EmptySeq, LenProperties, ElementOfSeq
    <3>2. QED
      BY <1>1, <3>1 DEF StampsSound
  <2>4. QED
    BY <1>1, <1>4, <2>2, <2>3 DEF s
<1>5. QED
  BY <1>2, <1>3, <1>4

LEMMA ExtractIs ==
  ASSUME NestedInv, Nested!Extract
  PROVE  LET r == Nested!Emitted(shared.stamps, clock, seen.output) IN
         /\ turn = "extract" /\ turn' = "apply" /\ clock' = r.clock
         /\ timeline' = Nested!Presented(timeline, r.event, seen.output)
         /\ seen.output = output
         /\ UNCHANGED <<scene, acts, now, window, shortcuts, configured, seen>>
BY DEF Nested!Extract, NestedInv, SizesSound

LEMMA OutputSized ==
  ASSUME NestedInv, Nested!Extract
  PROVE  /\ output' \in Device \cup {None}
         /\ output = None \/ shared.window = None => output' = output \/ output = None
         /\ output # None /\ shared.window # None => output' # None /\ output'.size = shared.window
<1> DEFINE mode == CHOOSE p \in Periods : \A q \in Periods : p <= q
           size == Nested!Blueprint(shared.window, seen.config)
           new == [id |-> acts, size |-> size, period |-> mode]
           same == [output EXCEPT !.size = shared.window]
           fresh == seen.output = None /\ seeded # Nested!Name(seen.config) /\ output = None
<1>1. /\ seen.output = output /\ output \in Device \cup {None} /\ acts \in Nat /\ seen.config \in Sizes \cup {None}
      /\ shared.window \in Sizes \cup {None}
  BY ExtractIs, SharedFields DEF NestedInv, NestedTyped
<1>2. output' = CASE fresh -> new
                  [] seen.output # None /\ shared.window # None /\ output # None -> same
                  [] OTHER -> output
  BY DEF Nested!Extract
<1>3. new \in Device
  <2>1. mode \in Periods
    BY QuickestPeriod
  <2>2. size \in Sizes
    BY <1>1, NestedAssumed DEF Nested!Blueprint
  <2> HIDE DEF mode, size
  <2>3. QED
    BY <1>1, <2>1, <2>2, DeviceMade
<1>4. output # None /\ shared.window # None => same \in Device /\ same.size = shared.window /\ same # None
  <2>1. SUFFICES ASSUME output # None, shared.window # None
                 PROVE  same \in Device /\ same.size = shared.window /\ same # None
    OBVIOUS
  <2>2. output \in Device /\ shared.window \in Sizes
    BY <1>1, <2>1
  <2>3. same \in Device /\ same.size = shared.window
    BY <2>2, DeviceMade
  <2>4. QED
    BY <2>3, NestedAssumed
<1> HIDE DEF new, same
<1>5. CASE output = None
  BY <1>1, <1>2, <1>3, <1>5
<1>6. CASE output # None
  BY <1>1, <1>2, <1>4, <1>6
<1>7. QED
  BY <1>5, <1>6

LEMMA HandedOver ==
  ASSUME NestedInv, Nested!Extract
  PROVE  /\ shared' \in Sharing /\ shared'.input = <<>> /\ shared'.stamps = <<>>
         /\ shared'.capture = shared.capture /\ shared'.closed = shared.closed
         /\ shared'.window = IF output # None THEN None ELSE shared.window
<1> DEFINE zero == Nested!ResizedTaken(shared)
           one == [zero EXCEPT !.input = <<>>]
           two == [one EXCEPT !.stamps = <<>>]
           live == seen.output # None /\ ~ shared.closed
<1>1. shared \in Sharing /\ seen.output = output /\ shared.closed \in BOOLEAN
  BY ExtractIs, SharedFields DEF NestedInv, NestedTyped
<1>2. shared' = [two EXCEPT !.active = live]
  BY DEF Nested!Extract
<1>3. live \in BOOLEAN /\ <<>> \in Seq(Word) /\ <<>> \in Seq(Nat)
  BY <1>1
<1>4. /\ zero \in Sharing /\ zero.capture = shared.capture /\ zero.closed = shared.closed
      /\ zero.window = IF output # None THEN None ELSE shared.window
  <2>1. CASE output # None
    <3>1. zero = [shared EXCEPT !.window = None]
      BY <1>1, <2>1 DEF Nested!ResizedTaken
    <3>2. zero \in Sharing /\ IsShared(zero, shared.active, shared.input, shared.stamps, None, shared.capture,
                                       shared.closed, shared.ready, shared.spec)
      BY <1>1, <3>1, SharedReplaced
    <3>3. QED
      BY <2>1, <3>2 DEF IsShared
  <2>2. CASE output = None
    BY <1>1, <2>2 DEF Nested!ResizedTaken
  <2>3. QED
    BY <2>1, <2>2
<1> HIDE DEF zero, live
<1>5. one \in Sharing /\ IsShared(one, zero.active, <<>>, zero.stamps, zero.window, zero.capture, zero.closed, zero.ready,
                                  zero.spec)
  BY <1>3, <1>4, SharedReplaced
<1> HIDE DEF one
<1>6. two \in Sharing /\ IsShared(two, one.active, one.input, <<>>, one.window, one.capture, one.closed, one.ready, one.spec)
  BY <1>3, <1>5, SharedReplaced
<1> HIDE DEF two
<1>7. shared' \in Sharing /\ IsShared(shared', live, two.input, two.stamps, two.window, two.capture, two.closed, two.ready,
                                      two.spec)
  BY <1>2, <1>3, <1>6, SharedReplaced
<1>8. QED
  BY <1>4, <1>5, <1>6, <1>7 DEF IsShared

LEMMA LastAbsoluteIs == \A input : Nested!LastAbsolute(input) = LastIn(absolute, input)
BY DEF Nested!LastAbsolute, LastIn, Absolutes

LEMMA ExtractKeeps ==
  ASSUME NestedInv, Nested!Extract
  PROVE  NestedInv'
<1> DEFINE r == Nested!Emitted(shared.stamps, clock, seen.output)
<1>1. /\ turn = "extract" /\ turn' = "apply" /\ clock' = r.clock
      /\ timeline' = Nested!Presented(timeline, r.event, output)
      /\ UNCHANGED <<scene, acts, now, window, shortcuts, configured, seen>>
  BY ExtractIs
<1>2. /\ shared' \in Sharing /\ shared'.input = <<>> /\ shared'.stamps = <<>>
      /\ shared'.capture = shared.capture /\ shared'.closed = shared.closed
      /\ shared'.window = IF output # None THEN None ELSE shared.window
  BY HandedOver
<1>3. /\ clock' \in Clock \cup {None} /\ timeline' \in Line \cup {None}
      /\ clock' # None => clock'.sequence >= 1 /\ Counted(clock') <= now
      /\ timeline' # None => /\ clock' # None /\ timeline'.of = clock'.of /\ timeline'.period = clock'.period
                             /\ timeline'.sequence = clock'.sequence /\ timeline'.time = Counted(clock')
  <2>1. /\ clock \in Clock \cup {None} /\ timeline \in Line \cup {None} /\ now \in Nat
        /\ clock # None => clock.sequence >= 1 /\ Counted(clock) <= now
        /\ timeline # None => /\ clock # None /\ timeline.of = clock.of /\ timeline.period = clock.period
                              /\ timeline.sequence = clock.sequence /\ timeline.time = Counted(clock)
    BY DEF NestedInv, NestedTyped, ClockSound
  <2>2. CASE shared.stamps = <<>> /\ r.clock = clock /\ r.event = None
    <3>1. clock' = clock /\ (timeline' = timeline \/ timeline' = None)
      BY <1>1, <2>2 DEF Nested!Presented
    <3>2. QED
      BY <2>1, <3>1
  <2>3. CASE shared.stamps # <<>> /\ output = None /\ r.clock = None /\ r.event = None
    <3>1. clock' = None /\ timeline' = None
      BY <1>1, <2>3 DEF Nested!Presented
    <3>2. QED
      BY <3>1
  <2>4. CASE /\ shared.stamps # <<>> /\ output # None /\ shared.stamps \in Seq(Nat)
             /\ Rounded(r, output, shared.stamps[Len(shared.stamps)], clock)
             /\ shared.stamps[Len(shared.stamps)] \in Nat /\ shared.stamps[Len(shared.stamps)] <= now
    <3> DEFINE t == shared.stamps[Len(shared.stamps)]
    <3>1. Rounded(r, output, t, clock) /\ t \in Nat /\ t <= now
      BY <2>4
    <3> HIDE DEF r, t
    <3>2. /\ r.clock \in Clock /\ r.clock.sequence >= 1 /\ Counted(r.clock) \in Nat /\ Counted(r.clock) <= t
          /\ r.event \in Line /\ r.event.of = r.clock.of /\ r.event.period = r.clock.period
          /\ r.event.sequence = r.clock.sequence /\ r.event.time = Counted(r.clock)
      BY <3>1 DEF Rounded
    <3>3. r.event # None /\ r.clock # None
      BY <3>2, NestedAssumed
    <3>4. timeline' = r.event /\ clock' = r.clock
      BY <1>1, <3>3 DEF Nested!Presented
    <3>5. Counted(r.clock) <= now
      BY <2>1, <3>1, <3>2
    <3>6. QED
      BY <3>2, <3>3, <3>4, <3>5
  <2>5. QED
    BY <1>1, <2>2, <2>3, <2>4, EmittedNow
<1> HIDE DEF r
<1>4. NestedTyped'
  BY <1>1, <1>2, <1>3, OutputSized DEF NestedInv, NestedTyped
<1>5. SizesSound'
  <2>1. SUFFICES ASSUME scene.driver = "host", window.spoke, NoSize(window.queue)
                 PROVE  IF shared'.window # None THEN shared'.window = window.size
                        ELSE output' # None /\ output'.size = window.size
    BY <1>1 DEF NestedInv, SizesSound, SizesKnown
  <2>2. IF shared.window # None THEN shared.window = window.size ELSE output # None /\ output.size = window.size
    BY <2>1 DEF NestedInv, SizesSound, SizesKnown
  <2>3. QED
    BY <1>2, <2>2, OutputSized
<1>6. Seeded(absolute, shared.input, shared.capture)'
  <2>1. absolute' = LastIn(absolute, shared.input)
    BY LastAbsoluteIs DEF Nested!Extract
  <2>2. shared.capture = "locked" => absolute' = "centre"
    BY <2>1 DEF NestedInv, Seeded
  <2>3. LastIn(absolute', <<>>) = absolute'
    BY DEF LastIn, Absolutes
  <2>4. QED
    BY <1>2, <2>2, <2>3 DEF Seeded
<1>7. Nested!ShortcutsReturned' /\ Nested!KeepsDrawing'
  BY <1>1, <1>2 DEF NestedInv, Nested!ShortcutsReturned, Nested!KeepsDrawing, Nested!Queues
<1>8. ClockSound'
  BY <1>1, <1>2, <1>3 DEF ClockSound, StampsSound, Counted
<1>9. QED
  BY <1>4, <1>5, <1>6, <1>7, <1>8 DEF NestedInv

\* A round counts on from where the last one stopped.
LEMMA ExtractForward ==
  ASSUME NestedInv, Nested!Extract
  PROVE  /\ timeline # None /\ timeline' # None /\ timeline.of = timeline'.of /\ timeline.period = timeline'.period =>
              timeline'.time >= timeline.time /\ timeline'.sequence >= timeline.sequence
         /\ shared.stamps # <<>> /\ turn = "extract" /\ turn' = "apply" /\ seen.output # None =>
              /\ timeline'.time <= Nested!Last(shared.stamps)
              /\ timeline'.time + timeline'.period > Nested!Last(shared.stamps)
<1> DEFINE r == Nested!Emitted(shared.stamps, clock, seen.output)
           t == shared.stamps[Len(shared.stamps)]
<1>1. /\ turn = "extract" /\ timeline' = Nested!Presented(timeline, r.event, output) /\ seen.output = output
  BY ExtractIs
<1>2. /\ timeline \in Line \cup {None} /\ clock \in Clock \cup {None} /\ output \in Device \cup {None}
      /\ timeline # None => /\ clock # None /\ timeline.of = clock.of /\ timeline.period = clock.period
                            /\ timeline.sequence = clock.sequence /\ timeline.time = Counted(clock)
  BY DEF NestedInv, NestedTyped, ClockSound
<1>3. t = Nested!Last(shared.stamps)
  BY DEF Nested!Last
<1>4. CASE r.event = None /\ (shared.stamps = <<>> \/ output = None)
  <2>1. timeline' = timeline \/ timeline' = None
    BY <1>1, <1>4 DEF Nested!Presented
  <2>2. timeline # None => timeline.time \in Nat /\ timeline.sequence \in Nat
    BY <1>2 DEF Line
  <2>3. QED
    BY <1>1, <1>4, <2>1, <2>2
<1>5. CASE output # None /\ Rounded(r, output, t, clock) /\ t \in Nat
  <2> HIDE DEF r, t
  <2>1. /\ r.clock \in Clock /\ r.clock.period = output.period /\ Counted(r.clock) \in Nat /\ Counted(r.clock) <= t
        /\ t < Counted(r.clock) + output.period
        /\ r.event \in Line /\ r.event.of = output.id /\ r.event.period = output.period
        /\ r.event.sequence = r.clock.sequence /\ r.event.time = Counted(r.clock)
        /\ clock # None /\ clock.of = output.id /\ clock.period = output.period =>
             r.clock.anchor = clock.anchor /\ r.clock.sequence >= clock.sequence
    BY <1>5 DEF Rounded
  <2>2. r.event # None /\ output.period \in Nat
    BY <1>2, <1>5, <2>1, NestedAssumed, DeviceFields
  <2>3. timeline' = r.event
    BY <1>1, <2>2 DEF Nested!Presented
  <2>4. timeline'.time <= t /\ timeline'.time + timeline'.period > t
    BY <1>5, <2>1, <2>2, <2>3
  <2>5. ASSUME timeline # None, timeline.of = timeline'.of, timeline.period = timeline'.period
        PROVE  timeline'.time >= timeline.time /\ timeline'.sequence >= timeline.sequence
    <3>1. /\ clock \in Clock /\ clock # None /\ clock.of = output.id /\ clock.period = output.period
          /\ timeline.sequence = clock.sequence /\ timeline.time = Counted(clock)
      BY <1>2, <2>1, <2>3, <2>5
    <3>2. r.clock.anchor = clock.anchor /\ r.clock.sequence >= clock.sequence
      BY <2>1, <3>1
    <3> DEFINE x == clock.sequence - 1
               y == r.clock.sequence - 1
               p == output.period
    <3>3. clock.sequence \in Nat /\ r.clock.sequence \in Nat /\ clock.anchor \in Nat
      BY <2>1, <3>1, CountedIs
    <3>4. x \in Int /\ y \in Int /\ x <= y /\ p \in Nat
      BY <2>2, <3>2, <3>3
    <3>5. x * p <= y * p /\ x * p \in Int /\ y * p \in Int
      <4> HIDE DEF x, y, p
      <4>1. QED
        BY <3>4, Products
    <3>6. Counted(clock) = clock.anchor + x * p /\ Counted(r.clock) = clock.anchor + y * p
      BY <2>1, <3>1, <3>2 DEF Counted
    <3> HIDE DEF x, y, p
    <3>7. Counted(clock) <= Counted(r.clock)
      BY <3>3, <3>5, <3>6
    <3>8. QED
      BY <2>1, <2>3, <3>1, <3>2, <3>3, <3>5, <3>6, <3>7
  <2>6. QED
    BY <1>3, <2>4, <2>5
<1>6. \/ r.event = None /\ (shared.stamps = <<>> \/ output = None)
      \/ output # None /\ Rounded(r, output, t, clock) /\ t \in Nat
  BY <1>1, EmittedNow
<1>7. QED
  BY <1>4, <1>5, <1>6

-----------------------------------------------------------------------------
(* NestedWindow: what follows for every run.                               *)

LEMMA NestedInvNext ==
  ASSUME NestedInv, [Nested!Next]_(Nested!vars)
  PROVE  NestedInv'
<1>1. CASE UNCHANGED Nested!vars
  <2>1. UNCHANGED Rest /\ UNCHANGED <<acts, window>>
    BY <1>1 DEF Nested!vars, Nested!backend, Nested!shell, Rest
  <2>2. NestedTyped' /\ SizesSound'
    BY <2>1 DEF NestedInv, NestedTyped, SizesSound, Rest
  <2>3. Nested!ShortcutsReturned' /\ Nested!KeepsDrawing' /\ Seeded(absolute, shared.input, shared.capture)'
    BY <2>1 DEF NestedInv, Nested!ShortcutsReturned, Nested!KeepsDrawing, Nested!Queues, Rest
  <2>4. ClockSound'
    BY <2>1 DEF NestedInv, ClockSound, StampsSound, Rest
  <2>5. QED
    BY <2>2, <2>3, <2>4 DEF NestedInv
<1>2. CASE Nested!Frame
  BY <1>2, PollKeeps, ExtractKeeps, ApplyKeeps, PresentKeeps DEF Nested!Frame
<1>3. CASE Nested!Outside
  BY <1>3, UserKeeps, TickKeeps, TimerKeeps DEF Nested!Outside
<1>4. CASE Nested!Shell
  BY <1>4, ShellStepKeeps
<1>5. QED
  BY <1>1, <1>2, <1>3, <1>4 DEF Nested!Next

\* The window that is opened, before it is asked for a size.
Opened == [size |-> Standard, focused |-> FALSE, fullscreen |-> FALSE, redraw |-> FALSE, broken |-> FALSE,
           spoke |-> TRUE, queue |-> <<>>]

LEMMA SeededAtFirst ==
  ASSUME NEW c, c = "free" \/ c = Nested!Captured(TRUE),
         NEW input, input = IF c = "free" THEN <<>> ELSE Nested!Centre(c)
  PROVE  input \in Seq(Word) /\ c \in Capture /\ Seeded(None, input, c)
<1>1. c \in Capture /\ (c = "locked" => input = <<"centre">>) /\ (c # "locked" => input = <<>>)
  <2>1. CASE c = "free"
    BY <2>1 DEF Capture
  <2>2. CASE c # "free"
    BY <2>2, CapturedIs
  <2>3. QED
    BY <2>1, <2>2
<1>2. Seeded(None, <<>>, "free") /\ <<>> \in Seq(Word)
  BY DEF Seeded
<1>3. CASE c = "locked"
  <2> DEFINE one == Append(<<>>, "centre")
  <2>1. one \in Seq(Word) /\ one = <<"centre">>
    BY DEF Word
  <2>2. LastIn(None, one) = "centre" /\ "centre" \in Word
    BY <1>2, LastInNext DEF Word
  <2> HIDE DEF one
  <2>3. Seeded(None, Append(<<>>, "centre"), c)
    BY <1>2, <2>2, SeededNext DEF one
  <2>4. QED
    BY <1>1, <1>3, <2>1, <2>3 DEF one
<1>4. CASE c # "locked"
  BY <1>1, <1>2, <1>4 DEF Seeded
<1>5. QED
  BY <1>3, <1>4

LEMMA NestedInvInit == Nested!Init => NestedInv
<1>1. SUFFICES ASSUME Nested!Init PROVE NestedInv
  OBVIOUS
<1> DEFINE s == Nested!DesiredSpec(configured, None)
           hosted == scene.driver = "host"
           input == IF hosted THEN Nested!Centre(Nested!Captured(TRUE)) ELSE <<>>
           capture == IF hosted THEN Nested!Captured(TRUE) ELSE "free"
           reported == IF hosted THEN Standard ELSE None
<1>2. /\ scene \in Scenes /\ turn = "poll" /\ acts = 0 /\ now = 0 /\ configured \in scene.configs /\ output = None
      /\ seen = [output |-> None, config |-> configured] /\ clock = None /\ timeline = None /\ absolute = None
  BY <1>1 DEF Nested!Init
<1>3. window = IF hosted THEN Nested!Asked(Opened, s.size) ELSE Opened
  BY <1>1 DEF Nested!Init, Opened
<1>4. /\ shared = [active |-> FALSE, input |-> input, stamps |-> <<>>, window |-> reported, capture |-> capture,
                   closed |-> FALSE, ready |-> FALSE, spec |-> s]
      /\ shortcuts = FALSE \/ shortcuts = None
  BY <1>1 DEF Nested!Init
<1>5. configured \in Sizes \cup {None}
  BY <1>2, NestedAssumed
<1>6. s \in Spec0 /\ s.size \in Sizes
  BY <1>5, NestedAssumed DEF Nested!DesiredSpec, Spec0
<1>7. input \in Seq(Word) /\ capture \in Capture /\ Seeded(None, input, capture)
  <2>1. CASE hosted
    <3>1. Nested!Captured(TRUE) # "locked" => Nested!Centre(Nested!Captured(TRUE)) = <<>>
      BY CapturedIs
    <3>2. capture = Nested!Captured(TRUE) /\ input = (IF capture = "free" THEN <<>> ELSE Nested!Centre(capture))
      BY <2>1, <3>1
    <3> HIDE DEF capture, input
    <3>3. QED
      BY <3>2, SeededAtFirst
  <2>2. CASE ~ hosted
    <3>1. capture = "free" /\ input = <<>>
      BY <2>2
    <3> HIDE DEF capture, input
    <3>2. QED
      BY <3>1, SeededAtFirst
  <2>3. QED
    BY <2>1, <2>2
<1>8. reported \in Sizes \cup {None} /\ Standard # None /\ Standard \in Sizes
  BY NestedAssumed
<1>9. Opened \in Windows /\ Opened.queue = <<>> /\ Opened.size = Standard
  <2>1. <<>> \in Seq(WindowEvent)
    OBVIOUS
  <2>2. QED
    BY <1>8, <2>1 DEF Opened, Windows, Framed
<1> HIDE DEF s, input, capture
<1>10. /\ shared \in Sharing /\ shared.input = input /\ shared.stamps = <<>> /\ shared.capture = capture
       /\ shared.window = reported
  <2> HIDE DEF reported
  <2>1. <<>> \in Seq(Nat)
    OBVIOUS
  <2>2. shared \in Sharing
    BY <1>4, <1>6, <1>7, <1>8, <2>1 DEF Sharing, Handed
  <2>3. QED
    BY <1>4, <2>2
<1>11. window \in Windows /\ (hosted => window.redraw /\ SizesKnown(window.queue, window.size, reported, None))
  <2>1. SizedBy(<<>>, Standard)
    BY DEF SizedBy
  <2>2. CASE hosted
    <3> DEFINE e == [kind |-> "resized", size |-> s.size]
    <3>1. /\ window \in Windows /\ window.redraw
          /\ \/ window.queue = Append(<<>>, e) /\ window.size = s.size
             \/ window.queue = <<>> /\ window.size = Standard
      BY <1>2, <1>3, <1>6, <1>9, <2>2, AskedIs
    <3>2. e \in WindowEvent /\ e.kind = "resized" /\ e.size = s.size
      BY <1>6, WindowEventMade
    <3> HIDE DEF e
    <3>3. CASE window.queue = Append(<<>>, e) /\ window.size = s.size
      <4>1. <<>> \in Seq(WindowEvent)
        OBVIOUS
      <4>2. ~ NoSize(window.queue) /\ SizedBy(window.queue, window.size)
        BY <3>2, <3>3, <4>1, WindowQueued
      <4>3. QED
        BY <3>1, <4>2 DEF SizesKnown
    <3>4. CASE window.queue = <<>> /\ window.size = Standard
      BY <1>8, <2>1, <2>2, <3>1, <3>4 DEF SizesKnown
    <3>5. QED
      BY <3>1, <3>3, <3>4
  <2>3. CASE ~ hosted
    BY <1>3, <1>9, <2>3
  <2>4. QED
    BY <2>2, <2>3
<1>12. NestedTyped
  BY <1>2, <1>4, <1>5, <1>10, <1>11 DEF NestedTyped
<1>13. SizesSound
  BY <1>2, <1>10, <1>11 DEF SizesSound
<1>14. Seeded(absolute, shared.input, shared.capture)
  BY <1>2, <1>7, <1>10
<1>15. Nested!ShortcutsReturned
  BY <1>4, NestedAssumed DEF Nested!ShortcutsReturned
<1>16. Nested!KeepsDrawing
  BY <1>11 DEF Nested!KeepsDrawing
<1>17. ClockSound
  BY <1>2, <1>10 DEF ClockSound, StampsSound
<1>18. QED
  BY <1>12, <1>13, <1>14, <1>15, <1>16, <1>17 DEF NestedInv

\* What each side of the host window knows of the other, for every host, set of sizes and
\* refresh rates (backend.rs, host.rs, presentation.rs of the winit backend).
THEOREM NestedInvariant == Nested!Spec => []NestedInv
<1>1. NestedInv /\ [Nested!Next]_(Nested!vars) => NestedInv'
  BY NestedInvNext
<1>2. QED
  BY <1>1, NestedInvInit, PTL DEF Nested!Spec

\* Host window and output agree once nothing is on its way, a relative motion follows the position
\* it is relative to, held shortcuts are given back and a window that is open is drawn.
THEOREM NestedAlwaysTrue == Nested!Spec => []NestedTrue
<1>1. NestedInv => NestedTrue
  <2>1. SUFFICES ASSUME NestedInv PROVE NestedTrue
    OBVIOUS
  <2>2. Nested!TypeOK
    <3>1. /\ turn \in {"poll", "extract", "apply", "present"} /\ window.size \in Sizes
          /\ shared.capture \in Capture /\ shared.window \in Sizes \cup {None}
          /\ shortcuts \in BOOLEAN \cup {None} /\ configured \in Sizes \cup {None} /\ output \in Device \cup {None}
      BY <2>1, WindowFields, SharedFields DEF NestedInv, NestedTyped
    <3>2. output # None => output.size \in Sizes /\ output.period \in Periods
      BY <3>1, DeviceFields
    <3>3. QED
      BY <3>1, <3>2 DEF Nested!TypeOK, Capture
  <2>3. Nested!SizesAgree
    <3>1. SUFFICES ASSUME Nested!Rest, scene.driver = "host", output # None, window.spoke
                   PROVE  output.size = window.size
      BY DEF Nested!SizesAgree
    <3>2. NoSize(window.queue) /\ shared.window = None
      BY <3>1 DEF Nested!Rest, NoSize
    <3>3. QED
      BY <2>1, <3>1, <3>2 DEF NestedInv, SizesSound, SizesKnown
  <2>4. Nested!DeltasAreSeeded
    BY <2>1, LastAbsoluteIs DEF NestedInv, Seeded, Nested!DeltasAreSeeded
  <2>5. QED
    BY <2>1, <2>2, <2>3, <2>4 DEF NestedInv, NestedTrue, Nested!NestedTrue
<1>2. QED
  BY <1>1, NestedInvariant, PTL

\* Presentation times and sequence numbers never go back, and a time is less than an interval old.
THEOREM TimelineForwardAlways == Nested!Spec => TimelineForward
<1> DEFINE Later ==
      timeline # None /\ timeline' # None /\ timeline.of = timeline'.of /\ timeline.period = timeline'.period =>
        timeline'.time >= timeline.time /\ timeline'.sequence >= timeline.sequence
    Exact ==
      shared.stamps # <<>> /\ turn = "extract" /\ turn' = "apply" /\ seen.output # None =>
        /\ timeline'.time <= Nested!Last(shared.stamps)
        /\ timeline'.time + timeline'.period > Nested!Last(shared.stamps)
<1>1. ASSUME NestedInv, Nested!Next PROVE Later /\ Exact
  <2>1. timeline \in Line \cup {None}
    BY <1>1 DEF NestedInv, NestedTyped
  <2>2. CASE timeline' = timeline /\ ~ (turn = "extract" /\ turn' = "apply")
    <3>1. timeline # None => timeline.time \in Nat /\ timeline.sequence \in Nat
      BY <2>1 DEF Line
    <3>2. QED
      BY <2>2, <3>1
  <2>3. CASE Nested!Extract
    BY <1>1, <2>3, ExtractForward
  <2>4. (timeline' = timeline /\ ~ (turn = "extract" /\ turn' = "apply")) \/ Nested!Extract
    <3>1. CASE Nested!Frame
      BY <3>1 DEF Nested!Frame, Nested!Poll, Nested!Apply, Nested!Present, Nested!backend, Nested!shell
    <3>2. CASE Nested!Outside
      BY <3>2 DEF Nested!Outside, Nested!UserResizes, Nested!UserFocuses, Nested!UserFullscreens, Nested!UserPoints,
           Nested!UserCloses, Nested!HostDisconnects, Nested!HostRedraws, Nested!Tick, Nested!Timer,
           Nested!HostChanges, Nested!shell
    <3>3. CASE Nested!Shell
      BY <3>3 DEF Nested!Shell, Nested!OutputOff, Nested!OutputOn, Nested!ModeSet, Nested!Reconfigured, Nested!ShellChanges
    <3>4. QED
      BY <1>1, <3>1, <3>2, <3>3 DEF Nested!Next
  <2>5. QED
    BY <2>2, <2>3, <2>4
<1>2. NestedInv /\ [Nested!Next]_(Nested!vars) => [Later /\ Exact]_(Nested!vars)
  BY <1>1
<1>3. TimelineForward <=> [][Later /\ Exact]_(Nested!vars)
  BY PTL DEF TimelineForward, Nested!TimelineForward
<1>4. QED
  BY <1>2, <1>3, NestedInvariant, PTL DEF Nested!Spec
=============================================================================
