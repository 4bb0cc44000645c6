--------------------------- MODULE ServicesProofs ---------------------------
(***************************************************************************)
(* What holds of the services whatever the clients, windows, layouts and   *)
(* outputs: each part of Services is proved by itself, since the parts     *)
(* share no state.                                                         *)
(***************************************************************************)
EXTENDS Services, TLAPS, FiniteSetTheorems, SequenceTheorems, WellFoundedInduction

-----------------------------------------------------------------------------
(* Recursion over a sequence of events, for a set of states.               *)

\* Induction over the natural numbers, for a set.
LEMMA NatSetInduction ==
  ASSUME NEW T, T \subseteq Nat, 0 \in T, \A n \in T : n + 1 \in T
  PROVE  T = Nat
<1>1. SUFFICES ASSUME Nat \ T # {} PROVE FALSE
  OBVIOUS
<1>2. PICK m \in Nat \ T : \A k \in Nat \ T : ~ (<<k, m>> \in OpToRel(<, Nat))
  BY <1>1, NatLessThanWellFounded, WFMin
<1>3. m \in Nat /\ m # 0 /\ m \notin T
  BY <1>2
<1>4. m - 1 \in Nat /\ (m - 1) + 1 = m /\ m - 1 < m
  BY <1>3
<1>5. m - 1 \in T
  BY <1>2, <1>4 DEF OpToRel
<1> QED  BY <1>3, <1>4, <1>5

\* What a list of steps, each a function of states, makes of a state.
Runs(R, p, N, step) ==
  \E h \in [0..N -> R] : h[0] = p /\ \A i \in 1..N : h[i] = step[i][h[i - 1]]

\* What is defined one step upon the other stays in the set the steps stay in.
LEMMA Recursion ==
  ASSUME NEW R, NEW p \in R, NEW N \in Nat, NEW step, \A i \in 1..N, r \in R : step[i][r] \in R
  PROVE  Runs(R, p, N, step)
<1> DEFINE Upto(h, k) == h \in [0..k -> R] /\ h[0] = p /\ \A i \in 1..k : h[i] = step[i][h[i - 1]]
           T == {k \in Nat : k <= N => \E h : Upto(h, k)}
<1>1. 0 \in T
  <2>1. Upto([i \in 0..0 |-> p], 0)
    OBVIOUS
  <2> QED  BY <2>1
<1>2. ASSUME NEW k \in T PROVE k + 1 \in T
  <2>1. SUFFICES ASSUME k \in Nat, k + 1 <= N PROVE \E h : Upto(h, k + 1)
    OBVIOUS
  <2>2. k <= N /\ k + 1 \in 1..N
    BY <2>1
  <2>3. PICK h : Upto(h, k)
    BY <2>2
  <2> DEFINE last == step[k + 1][h[k]]
             g == [i \in 0..k + 1 |-> IF i = k + 1 THEN last ELSE h[i]]
  <2>4. h[k] \in R /\ last \in R
    BY <2>1, <2>2, <2>3
  <2>5. \A i \in 0..k : g[i] = h[i]
    BY <2>1
  <2>6. g[k + 1] = last
    BY <2>1
  <2>7. g \in [0..k + 1 -> R] /\ g[0] = p
    BY <2>1, <2>3, <2>4, <2>5
  <2> HIDE DEF g
  <2>8. ASSUME NEW i \in 1..k + 1 PROVE g[i] = step[i][g[i - 1]]
    <3>1. i - 1 \in 0..k /\ (i = k + 1 => i - 1 = k) /\ (i # k + 1 => i \in 1..k /\ i \in 0..k)
      BY <2>1
    <3>2. g[i - 1] = h[i - 1]
      BY <2>5, <3>1
    <3>3. CASE i = k + 1
      BY <2>6, <3>1, <3>2, <3>3
    <3>4. CASE i # k + 1
      BY <2>3, <2>5, <3>1, <3>2, <3>4
    <3> QED  BY <3>3, <3>4
  <2> QED  BY <2>7, <2>8
<1>3. T = Nat
  <2> HIDE DEF T
  <2> QED  BY <1>1, <1>2, NatSetInduction DEF T
<1>4. PICK h : Upto(h, N)
  BY <1>3
<1> QED  BY <1>4 DEF Runs

-----------------------------------------------------------------------------
(* ClientMirrors: the inductive invariant.                                 *)

\* The keymap follows the layout that was told last.
KeymapFollows ==
  /\ lastLayout # None => lastLayout \in Known
  /\ keyboard # None /\ lastLayout # None => keyboard = lastLayout
  /\ M!KeymapTrue

\* Every surface has the scale of the one wl_output, which is the last that was told.
ScaleFollows ==
  /\ lastTiming # None => primary = lastTiming
  /\ \A w \in DOMAIN toplevels : toplevels[w] = primary.scale
  /\ turn = "present" /\ M!Timing # None => primary = M!Timing

\* Formats only come; what a client was offered is still there.
OffersGrow ==
  /\ backend \in {{}, Offers} /\ support \subseteq backend
  /\ DOMAIN clients = Clients
  /\ \A c \in Clients : clients[c] \notin {None, Killed} =>
       /\ clients[c] \in [seen : {clients[c].seen}, offered : {clients[c].offered}]
       /\ clients[c].offered # None => clients[c].offered \subseteq support
  /\ refused = {}

\* Handles are numbered as they are made.
HandlesNumbered ==
  /\ IsFiniteSet(DOMAIN titles) /\ IsFiniteSet(DOMAIN snapshot)
  /\ given \in Nat
  /\ \A w \in DOMAIN handles : handles[w].id \in 1..given
  /\ M!HandlesApart

MirrorsInv == KeymapFollows /\ ScaleFollows /\ OffersGrow /\ HandlesNumbered

\* An instance has its own name for what its module takes from the library.
LEMMA MirrorsLibrary ==
  /\ \A s : M!Cardinality(s) = Cardinality(s)
  /\ \A s, t : M!Bijection(s, t) = Bijection(s, t)
BY DEF M!Cardinality, Cardinality, M!Bijection, Bijection, M!Injection, Injection, M!Surjection, Surjection,
       M!IsInjective, IsInjective

\* Before anything happened no client has been told anything.
LEMMA MirrorsInit == M!Init => MirrorsInv
<1> SUFFICES ASSUME M!Init PROVE MirrorsInv  OBVIOUS
<1>1. KeymapFollows
  BY DEF M!Init, KeymapFollows, M!KeymapTrue
<1>2. ScaleFollows
  BY DEF M!Init, ScaleFollows
<1>3. OffersGrow
  BY DEF M!Init, OffersGrow
<1>4. HandlesNumbered
  BY FS_EmptySet DEF M!Init, HandlesNumbered, M!HandlesApart
<1> QED  BY <1>1, <1>2, <1>3, <1>4 DEF MirrorsInv

\* A frame's second half decides about the keymap, or it stays and its time has passed.
LEMMA KeymapStep == MirrorsInv /\ [M!Next]_M!vars => KeymapFollows'
<1> SUFFICES ASSUME MirrorsInv, [M!Next]_M!vars PROVE KeymapFollows'  OBVIOUS
<1> USE DEF MirrorsInv, KeymapFollows, M!KeymapTrue
<1>0. Known \subseteq Layouts /\ None \notin Layouts
  BY MirrorsAssumption DEF M!MirrorsAssumption
<1>1. CASE M!Normalize
  BY <1>0, <1>1 DEF M!Normalize, M!SyncLayout, M!seat, M!copies
<1>2. CASE M!Present
  BY <1>2 DEF M!Present, M!seat
<1>3. CASE turn' # "present" /\ UNCHANGED <<keyboard, lastLayout, wanted>>
  BY <1>3
<1>4. CASE UNCHANGED <<turn, keyboard, lastLayout, wanted>>
  BY <1>4
<1>5. ASSUME M!Next PROVE M!Normalize \/ M!Present \/ (turn' # "present" /\ UNCHANGED <<keyboard, lastLayout, wanted>>)
                          \/ UNCHANGED <<turn, keyboard, lastLayout, wanted>>
  <2>1. CASE \E c \in Clients : M!Connect(c) \/ M!Bind(c) \/ M!Notice(c) \/ \E f \in Offers : M!Allocate(c, f)
    BY <2>1 DEF M!Connect, M!Bind, M!Notice, M!Allocate, M!seat, M!copies
  <2>2. CASE \E w \in Windows : M!NewToplevel(w) \/ M!DestroyToplevel(w) \/ M!Turn(w) \/ M!Forget(w)
    BY <2>2 DEF M!NewToplevel, M!DestroyToplevel, M!Turn, M!Forget, M!Change, M!seat, M!copies
  <2>3. CASE \E w \in Windows, t \in Titles : M!Map(w, t) \/ M!Retitle(w, t)
    BY <2>3 DEF M!Map, M!Retitle, M!Change, M!seat, M!copies
  <2>4. CASE \E l \in Layouts : M!SetLayout(l)
    BY <2>4 DEF M!SetLayout, M!Change, M!seat, M!copies
  <2>5. CASE \E n \in Names : M!RemoveOutput(n) \/ \E s \in Scales : M!SetOutput(n, s)
    BY <2>5 DEF M!RemoveOutput, M!SetOutput, M!Change, M!seat, M!copies
  <2>6. CASE M!Extract
    BY <2>6 DEF M!Extract, M!seat, M!copies
  <2> QED  BY <1>5, <2>1, <2>2, <2>3, <2>4, <2>5, <2>6 DEF M!Next
<1>6. CASE UNCHANGED M!vars
  BY <1>6 DEF M!vars
<1> QED  BY <1>1, <1>2, <1>3, <1>4, <1>5, <1>6

\* A new timing is told to every surface there is; one that comes later is told the last.
LEMMA ScaleStep == MirrorsInv /\ [M!Next]_M!vars => ScaleFollows'
<1> SUFFICES ASSUME MirrorsInv, [M!Next]_M!vars PROVE ScaleFollows'  OBVIOUS
<1> USE DEF MirrorsInv, ScaleFollows
<1>1. CASE M!Normalize
  <2>1. M!Timing' = M!Timing
    BY <1>1 DEF M!Normalize, M!Timing, M!world
  <2>2. CASE M!Timing \in {None, lastTiming}
    BY <1>1, <2>1, <2>2 DEF M!Normalize, M!SyncTiming, M!screen
  <2>3. CASE M!Timing \notin {None, lastTiming}
    BY <1>1, <2>1, <2>3 DEF M!Normalize, M!SyncTiming
  <2> QED  BY <2>2, <2>3
<1>2. CASE M!Present
  BY <1>2 DEF M!Present, M!screen
<1>3. ASSUME NEW w \in Windows, M!NewToplevel(w) PROVE ScaleFollows'
  BY <1>3 DEF M!NewToplevel, M!screen
<1>4. ASSUME NEW w \in Windows, M!DestroyToplevel(w) PROVE ScaleFollows'
  BY <1>4 DEF M!DestroyToplevel, M!screen, M!Restrict
<1>5. CASE turn # "present" /\ UNCHANGED turn /\ UNCHANGED <<M!screen, toplevels>>
  BY <1>5 DEF M!screen
<1>6. CASE turn' = "main" /\ UNCHANGED <<M!screen, toplevels>>
  BY <1>6 DEF M!screen
<1>7. CASE UNCHANGED M!vars
  BY <1>7 DEF M!vars, M!Timing
<1>8. CASE M!Next
  <2>1. CASE \E c \in Clients : M!Connect(c) \/ M!Bind(c) \/ M!Notice(c) \/ \E f \in Offers : M!Allocate(c, f)
    BY <1>5, <2>1 DEF M!Connect, M!Bind, M!Notice, M!Allocate
  <2>2. CASE \E w \in Windows : M!NewToplevel(w) \/ M!DestroyToplevel(w) \/ M!Turn(w) \/ M!Forget(w)
    BY <1>3, <1>4, <1>5, <2>2 DEF M!Turn, M!Forget, M!Change
  <2>3. CASE \E w \in Windows, t \in Titles : M!Map(w, t) \/ M!Retitle(w, t)
    BY <1>5, <2>3 DEF M!Map, M!Retitle, M!Change
  <2>4. CASE \E l \in Layouts : M!SetLayout(l)
    BY <1>5, <2>4 DEF M!SetLayout, M!Change
  <2>5. CASE \E n \in Names : M!RemoveOutput(n) \/ \E s \in Scales : M!SetOutput(n, s)
    BY <1>5, <2>5 DEF M!RemoveOutput, M!SetOutput, M!Change
  <2>6. CASE M!Extract
    BY <1>6, <2>6 DEF M!Extract
  <2> QED  BY <1>1, <1>2, <1>8, <2>1, <2>2, <2>3, <2>4, <2>5, <2>6 DEF M!Next
<1> QED  BY <1>7, <1>8

\* What is added to the support was imported by the backend, which loses nothing.
LEMMA OffersStep == MirrorsInv /\ [M!Next]_M!vars => OffersGrow'
<1> SUFFICES ASSUME MirrorsInv, [M!Next]_M!vars PROVE OffersGrow'  OBVIOUS
<1> USE DEF MirrorsInv, OffersGrow
<1>1. CASE M!Normalize
  BY <1>1 DEF M!Normalize, M!SyncDmabuf
<1>2. CASE M!Extract
  BY <1>2 DEF M!Extract, M!buffers
<1>3. ASSUME NEW c \in Clients, M!Connect(c) PROVE OffersGrow'
  <2>1. DOMAIN clients' = Clients
    BY <1>3 DEF M!Connect
  <2>2. clients'[c] = [seen |-> global, offered |-> None] /\ \A d \in Clients \ {c} : clients'[d] = clients[d]
    BY <1>3 DEF M!Connect
  <2> QED  BY <1>3, <2>1, <2>2 DEF M!Connect, M!buffers
<1>4. ASSUME NEW c \in Clients, M!Bind(c) PROVE OffersGrow'
  <2>1. DOMAIN clients' = Clients
    BY <1>4 DEF M!Bind
  <2>2. \/ clients'[c] = Killed
        \/ clients'[c] = [clients[c] EXCEPT !.offered = support]
    BY <1>4 DEF M!Bind
  <2>3. \A d \in Clients \ {c} : clients'[d] = clients[d]
    BY <1>4 DEF M!Bind
  <2>4. clients[c] \in [seen : {clients[c].seen}, offered : {clients[c].offered}]
    BY <1>4 DEF M!Bind
  <2> QED  BY <1>4, <2>1, <2>2, <2>3, <2>4 DEF M!Bind, M!buffers
<1>5. ASSUME NEW c \in Clients, M!Notice(c) PROVE OffersGrow'
  <2>1. DOMAIN clients' = Clients
    BY <1>5 DEF M!Notice
  <2>2. clients'[c] = [clients[c] EXCEPT !.seen = global] /\ \A d \in Clients \ {c} : clients'[d] = clients[d]
    BY <1>5 DEF M!Notice
  <2>4. clients[c] \in [seen : {clients[c].seen}, offered : {clients[c].offered}]
    BY <1>5 DEF M!Notice
  <2> QED  BY <1>5, <2>1, <2>2, <2>4 DEF M!Notice, M!buffers
<1>6. ASSUME NEW c \in Clients, NEW f \in Offers, M!Allocate(c, f) PROVE FALSE
  BY <1>6 DEF M!Allocate
<1>7. CASE UNCHANGED <<backend, support, clients, refused>>
  BY <1>7
<1>8. CASE UNCHANGED M!vars
  BY <1>7, <1>8 DEF M!vars
<1>9. CASE M!Next
  <2>1. CASE \E c \in Clients : M!Connect(c) \/ M!Bind(c) \/ M!Notice(c) \/ \E f \in Offers : M!Allocate(c, f)
    BY <1>3, <1>4, <1>5, <1>6, <2>1
  <2>2. CASE \E w \in Windows : M!NewToplevel(w) \/ M!DestroyToplevel(w) \/ M!Turn(w) \/ M!Forget(w)
    BY <1>7, <2>2 DEF M!NewToplevel, M!DestroyToplevel, M!Turn, M!Forget, M!Change, M!buffers
  <2>3. CASE \E w \in Windows, t \in Titles : M!Map(w, t) \/ M!Retitle(w, t)
    BY <1>7, <2>3 DEF M!Map, M!Retitle, M!Change, M!buffers
  <2>4. CASE \E l \in Layouts : M!SetLayout(l)
    BY <1>7, <2>4 DEF M!SetLayout, M!Change, M!buffers
  <2>5. CASE \E n \in Names : M!RemoveOutput(n) \/ \E s \in Scales : M!SetOutput(n, s)
    BY <1>7, <2>5 DEF M!RemoveOutput, M!SetOutput, M!Change, M!buffers
  <2>6. CASE M!Present
    BY <1>7, <2>6 DEF M!Present, M!buffers
  <2> QED  BY <1>1, <1>2, <1>9, <2>1, <2>2, <2>3, <2>4, <2>5, <2>6 DEF M!Next
<1> QED  BY <1>8, <1>9

\* The windows a frame hears of are numbered from the last handle on, each once.
LEMMA HandlesStep == MirrorsInv /\ [M!Next]_M!vars => HandlesNumbered'
<1> SUFFICES ASSUME MirrorsInv, [M!Next]_M!vars PROVE HandlesNumbered'  OBVIOUS
<1> USE DEF MirrorsInv, HandlesNumbered, M!HandlesApart
<1>1. CASE M!Present
  <2>1. PICK order \in Bijection(M!Fresh, 1..Cardinality(M!Fresh)) : M!Listed(M!Fresh, order)
    BY <1>1, MirrorsLibrary DEF M!Present, M!List
  <2> DEFINE n == Cardinality(M!Fresh)
  <2>2. n \in Nat
    <3>1. IsFiniteSet(M!Fresh)
      BY FS_Subset DEF M!Fresh
    <3> QED  BY <3>1, FS_CardinalityType
  <2>3. \A w \in M!Fresh : order[w] \in 1..n
    BY <2>1 DEF Bijection, Injection
  <2>4. \A v, w \in M!Fresh : order[v] = order[w] => v = w
    BY <2>1 DEF Bijection, Injection, IsInjective
  <2>5. given' = given + n /\ DOMAIN handles' = DOMAIN snapshot
    BY <2>1, MirrorsLibrary DEF M!Listed
  <2>6. \A w \in M!Fresh : handles'[w].id = given + order[w]
    BY <2>1 DEF M!Listed, M!Fresh
  <2>7. \A w \in DOMAIN snapshot \ M!Fresh : w \in DOMAIN handles /\ handles'[w].id = handles[w].id
    BY <2>1 DEF M!Listed, M!Fresh
  <2> HIDE DEF n
  <2>8. given' \in Nat /\ \A w \in DOMAIN handles' : handles'[w].id \in 1..given'
    BY <2>2, <2>3, <2>5, <2>6, <2>7
  <2>9. \A v, w \in DOMAIN handles' : handles'[v].id = handles'[w].id => v = w
    BY <2>2, <2>3, <2>4, <2>5, <2>6, <2>7
  <2>10. UNCHANGED titles
    BY <1>1 DEF M!Present, M!world
  <2>11. IsFiniteSet(DOMAIN snapshot')
    BY <1>1, FS_Subset DEF M!Present, M!ToList, M!Shown
  <2> QED  BY <2>8, <2>9, <2>10, <2>11
<1>2. ASSUME NEW w \in Windows, NEW t \in Titles, M!Map(w, t) PROVE HandlesNumbered'
  BY <1>2, FS_AddElement DEF M!Map, M!Change, M!copies, M!list
<1>3. ASSUME NEW w \in Windows, NEW t \in Titles, M!Retitle(w, t) PROVE HandlesNumbered'
  BY <1>3 DEF M!Retitle, M!Change, M!copies, M!list
<1>4. ASSUME NEW w \in Windows, M!Turn(w) PROVE HandlesNumbered'
  BY <1>4 DEF M!Turn, M!Change, M!copies, M!list
<1>5. ASSUME NEW w \in Windows, M!Forget(w) PROVE HandlesNumbered'
  BY <1>5, FS_Subset DEF M!Forget, M!Change, M!copies, M!list, M!Restrict
<1>6. CASE UNCHANGED <<titles, snapshot, handles, given>>
  BY <1>6
<1>7. CASE UNCHANGED M!vars
  BY <1>6, <1>7 DEF M!vars
<1>8. CASE M!Next
  <2>1. CASE \E c \in Clients : M!Connect(c) \/ M!Bind(c) \/ M!Notice(c) \/ \E f \in Offers : M!Allocate(c, f)
    BY <1>6, <2>1 DEF M!Connect, M!Bind, M!Notice, M!Allocate, M!world, M!copies, M!list
  <2>2. CASE \E w \in Windows : M!NewToplevel(w) \/ M!DestroyToplevel(w) \/ M!Turn(w) \/ M!Forget(w)
    BY <1>4, <1>5, <1>6, <2>2 DEF M!NewToplevel, M!DestroyToplevel, M!copies, M!list
  <2>3. CASE \E w \in Windows, t \in Titles : M!Map(w, t) \/ M!Retitle(w, t)
    BY <1>2, <1>3, <2>3
  <2>4. CASE \E l \in Layouts : M!SetLayout(l)
    BY <1>6, <2>4 DEF M!SetLayout, M!Change, M!copies, M!list
  <2>5. CASE \E n \in Names : M!RemoveOutput(n) \/ \E s \in Scales : M!SetOutput(n, s)
    BY <1>6, <2>5 DEF M!RemoveOutput, M!SetOutput, M!Change, M!copies, M!list
  <2>6. CASE M!Extract \/ M!Normalize
    BY <1>6, <2>6 DEF M!Extract, M!Normalize, M!world, M!copies, M!list
  <2> QED  BY <1>1, <1>8, <2>1, <2>2, <2>3, <2>4, <2>5, <2>6 DEF M!Next
<1> QED  BY <1>7, <1>8

\* What each mirror remembers agrees with what the clients were told, in every step.
THEOREM MirrorsInvariant == M!Spec => []MirrorsInv
<1>1. MirrorsInv /\ [M!Next]_M!vars => MirrorsInv'
  BY KeymapStep, ScaleStep, OffersStep, HandlesStep DEF MirrorsInv
<1> QED  BY <1>1, MirrorsInit, PTL DEF M!Spec

\* Whatever the keymaps, scales, data offers and windows become, and whenever a client comes,
\* each is told what is so now, and no two windows have one handle.
THEOREM MirrorsAlwaysTrue == M!Spec => []MirrorsTrue
<1>1. MirrorsInv => MirrorsTrue
  BY DEF MirrorsInv, KeymapFollows, ScaleFollows, OffersGrow, HandlesNumbered,
         MirrorsTrue, M!MirrorsTrue, M!ScreenTrue, M!OfferTrue
<1> QED  BY <1>1, MirrorsInvariant, PTL

\* The list of windows a client is shown loses no window that is still there, and a window
\* keeps its handle while it is shown.
THEOREM ListAlwaysTrue == M!Spec => ListTrue
<1> DEFINE ListStep ==
  turn = "present" /\ turn' = "poll" =>
    /\ DOMAIN handles' = DOMAIN snapshot
    /\ \A w \in DOMAIN snapshot : handles'[w].title = snapshot[w]
    /\ \A w \in DOMAIN snapshot \intersect DOMAIN handles : handles'[w].id = handles[w].id
<1>1. [M!Next]_M!vars => ListStep
  <2> SUFFICES ASSUME M!Next, turn = "present", turn' = "poll" PROVE ListStep
    BY DEF M!vars
  <2>1. M!Present
    BY DEF M!Next, M!Connect, M!Bind, M!Notice, M!Allocate, M!NewToplevel, M!DestroyToplevel, M!Turn, M!Forget,
           M!Map, M!Retitle, M!SetLayout, M!RemoveOutput, M!SetOutput, M!Change, M!Extract, M!Normalize
  <2>2. PICK order \in Bijection(M!Fresh, 1..Cardinality(M!Fresh)) : M!Listed(M!Fresh, order)
    BY <2>1, MirrorsLibrary DEF M!Present, M!List
  <2> QED  BY <2>2 DEF M!Listed, M!Fresh
<1>2. [M!Next]_M!vars => [ListStep]_M!vars
  BY <1>1
<1> QED  BY <1>2, PTL DEF M!Spec, ListTrue, M!ListTrue
-----------------------------------------------------------------------------
(* Selections: the inductive invariant.                                    *)

Asking == [generation : Nat, kinds : SUBSET Kinds]
Pipe   == [kind : Kinds, copy : Nat, got : {"none", "part", "all"}, closed : BOOLEAN]
Copied == [by : Copiers, kinds : SUBSET Kinds]
Capturing ==
  [generation : Nat, installed : Nat \cup {None}, request : Asking \cup {None},
   active : SUBSET Pipe, captured : SUBSET S!Datum]

CopiesTyped ==
  /\ alive \subseteq Copiers /\ copies \in Seq(Copied)
  /\ holder \in {None} \cup S!Source \cup S!Taken
  /\ capture \in Capturing
  /\ selection \in {None} \cup S!Shown

\* The last copy, who made it and what it offers.
Newest == copies[Len(copies)]
Gone == Newest.by \notin alive
ByClient == holder \in S!Source
ByServer == holder \in S!Taken

\* What is asked for, read and kept is of the last copy, and asked for at most once.
OfTheLast ==
  /\ Len(copies) = 0 => holder = None /\ capture.request = None
  /\ ByClient => holder.copy = Len(copies) /\ holder.by = Newest.by /\ holder.kinds = Newest.kinds /\ Newest.kinds # {}
  /\ holder = None => capture.active = {} /\ capture.captured = {}
  /\ holder = None /\ Len(copies) # 0 => Newest.kinds = {}
  /\ capture.request # None =>
       /\ capture.request.kinds = Newest.kinds /\ capture.request.generation = capture.generation
       /\ capture.active = {} /\ capture.captured = {} /\ ~ByServer
  /\ \A p \in capture.active :
       /\ p.copy = Len(copies) /\ p.kind \in Newest.kinds
       /\ p.got = "all" => p.closed
       /\ p.closed => p.got = "all" \/ Gone
  /\ \A d \in capture.captured : d.copy = Len(copies) /\ d.kind \in Newest.kinds /\ (d.whole \/ Gone)

\* A kind that was asked for is on its way or was read, unless it is too long.
NothingMissed ==
  /\ capture.request = None /\ (capture.active # {} \/ capture.captured # {}) =>
       \A k \in Newest.kinds \ Big :
         (\E p \in capture.active : p.kind = k) \/ (\E d \in capture.captured : d.kind = k)
  /\ capture.request = None /\ ByClient /\ capture.active = {} => Gone \/ Newest.kinds \subseteq Big

\* The compositor takes the selection when the last pipe has ended, once.
TakenOnce ==
  /\ capture.installed = IF ByServer THEN capture.generation ELSE None
  /\ ByServer => holder.data = capture.captured /\ capture.active = {} /\ capture.captured # {}
  /\ capture.active = {} /\ capture.captured # {} => ByServer

\* The shell has heard of the last copy, or is about to.
Rightly ==
  IF holder = None THEN None
  ELSE [kinds |-> Newest.kinds, owner |-> IF ByServer THEN "compositor" ELSE "client",
        persisted |-> IF ByServer THEN S!KindsOf(holder.data) ELSE {}]
ShellFollows ==
  /\ told \in Seq([is : {"changed"}, kinds : SUBSET Kinds])
  /\ told = <<>> <=> capture.request = None
  /\ told # <<>> => told[Len(told)].kinds = Newest.kinds
  /\ told = <<>> => selection = Rightly

CopiesInv == CopiesTyped /\ OfTheLast /\ NothingMissed /\ TakenOnce /\ ShellFollows

\* What stands for nothing is no copy, no datum and no source.
LEMMA Absence ==
  /\ "compositor" \notin Copiers
  /\ None \notin Nat /\ None \notin Asking /\ None \notin S!Source /\ None \notin S!Taken /\ None \notin S!Shown
  /\ Big \subseteq Kinds
BY SelectionsAssumption DEF S!AbsenceAssumption, S!BigAssumption, Asking, S!Source, S!Taken, S!Shown, S!Datum

\* Nothing is copied at first.
LEMMA CopiesInit == S!Init => CopiesInv
<1> SUFFICES ASSUME S!Init PROVE CopiesInv  OBVIOUS
<1> USE DEF S!Init
<1>1. CopiesTyped
  BY DEF CopiesTyped, Capturing
<1>2. ~ByClient /\ ~ByServer /\ Len(copies) = 0
  BY Absence DEF ByClient, ByServer
<1>3. OfTheLast /\ NothingMissed /\ TakenOnce /\ ShellFollows
  BY <1>2 DEF OfTheLast, NothingMissed, TakenOnce, ShellFollows, Rightly
<1> QED  BY <1>1, <1>3 DEF CopiesInv

\* A copy puts an end to what was asked of the one before it.
LEMMA CopyKeeps ==
  ASSUME CopiesInv, NEW c \in Copiers, NEW kinds \in SUBSET Kinds, S!Copy(c, kinds)
  PROVE  CopiesInv'
<1> USE DEF CopiesInv
<1> DEFINE n == Len(copies) + 1
           request == [generation |-> capture.generation + 1, kinds |-> kinds]
<1>1. Len(copies) \in Nat /\ copies' \in Seq(Copied) /\ Len(copies') = n /\ Newest' = [by |-> c, kinds |-> kinds]
  <2>1. [by |-> c, kinds |-> kinds] \in Copied
    BY DEF Copied
  <2> QED  BY <2>1, AppendProperties, LenProperties DEF S!Copy, CopiesTyped, Newest
<1>2. capture' = [generation |-> capture.generation + 1, installed |-> None, request |-> request,
                  active |-> {}, captured |-> {}]
  BY DEF S!Copy, S!Noted
<1>3. request \in Asking /\ capture' \in Capturing
  BY <1>2 DEF CopiesTyped, Capturing, Asking
<1>4. \/ kinds = {} /\ holder' = None
      \/ kinds # {} /\ holder' = [by |-> c, copy |-> n, kinds |-> kinds]
  BY DEF S!Copy, S!Latest
<1>5. [by |-> c, copy |-> n, kinds |-> kinds] \in S!Source
  BY <1>1 DEF S!Source
<1>6. CopiesTyped'
  BY <1>1, <1>3, <1>4, <1>5 DEF CopiesTyped, S!Copy
<1>7. ~ByServer' /\ (ByClient' <=> kinds # {})
  BY <1>4, <1>5, Absence DEF ByServer, ByClient, S!Source, S!Taken
<1>8. OfTheLast'
  <2>1. /\ capture'.request.kinds = kinds /\ capture'.request.generation = capture'.generation
        /\ capture'.active = {} /\ capture'.captured = {}
    BY <1>2
  <2>2. Len(copies') # 0 /\ Newest'.kinds = kinds /\ Newest'.by = c
    BY <1>1
  <2>3. ByClient' => holder'.copy = n /\ holder'.by = c /\ holder'.kinds = kinds /\ kinds # {}
    BY <1>4, <1>7
  <2>4. holder' = None => kinds = {}
    BY <1>4, <1>5, Absence
  <2> HIDE DEF request
  <2> QED  BY <1>1, <1>7, <2>1, <2>2, <2>3, <2>4 DEF OfTheLast
<1>9. NothingMissed' /\ TakenOnce'
  BY <1>2, <1>3, <1>7, Absence DEF NothingMissed, TakenOnce
<1>10. ShellFollows'
  <2> DEFINE e == [is |-> "changed", kinds |-> kinds]
  <2>1. told' = Append(told, e)
    BY DEF S!Copy
  <2>2. told' \in Seq([is : {"changed"}, kinds : SUBSET Kinds]) /\ told'[Len(told')] = e /\ told' # <<>>
    BY <2>1, AppendProperties, LenProperties DEF ShellFollows
  <2> QED  BY <1>1, <1>2, <1>3, <2>2, Absence DEF ShellFollows
<1> QED  BY <1>6, <1>8, <1>9, <1>10

\* Whatever becomes of the pipes, each carries what it was opened for, and is closed by a client that
\* has written all or has ended.
LEMMA PipesKeep ==
  ASSUME CopiesInv, NEW pipes \in SUBSET Pipe, UNCHANGED <<copies, holder, told, selection>>,
         alive' \subseteq alive, capture' = [capture EXCEPT !.active = pipes],
         \A p \in pipes : \E q \in capture.active : p.copy = q.copy /\ p.kind = q.kind,
         \A q \in capture.active : \E p \in pipes : p.kind = q.kind,
         \A p \in pipes : (p.got = "all" => p.closed) /\ (p.closed => p.got = "all" \/ Gone')
  PROVE  CopiesInv'
<1> USE DEF CopiesInv
<1>1. /\ capture \in Capturing /\ capture' \in Capturing /\ capture'.active = pipes
      /\ capture'.generation = capture.generation /\ capture'.installed = capture.installed
      /\ capture'.request = capture.request /\ capture'.captured = capture.captured
  BY DEF CopiesTyped, Capturing
<1>2. Newest' = Newest /\ (ByClient' <=> ByClient) /\ (ByServer' <=> ByServer) /\ (Gone => Gone')
  BY DEF Newest, ByClient, ByServer, Gone
<1>3. pipes = {} <=> capture.active = {}
  OBVIOUS
<1>4. CopiesTyped'
  BY <1>1 DEF CopiesTyped
<1>5. OfTheLast'
  <2>1. \A p \in capture'.active : p.copy = Len(copies') /\ p.kind \in Newest'.kinds
    BY <1>1, <1>2 DEF OfTheLast
  <2>2. \A p \in capture'.active : (p.got = "all" => p.closed) /\ (p.closed => p.got = "all" \/ Gone')
    BY <1>1
  <2> QED  BY <1>1, <1>2, <1>3, <2>1, <2>2 DEF OfTheLast
<1>6. NothingMissed'
  BY <1>1, <1>2, <1>3 DEF NothingMissed
<1>7. TakenOnce'
  BY <1>1, <1>2, <1>3 DEF TakenOnce
<1>8. ShellFollows'
  <2>1. Rightly' = Rightly
    BY <1>2 DEF S!KindsOf, Rightly
  <2> QED  BY <1>1, <1>2, <2>1 DEF ShellFollows
<1> QED  BY <1>4, <1>5, <1>6, <1>7, <1>8

\* A client writes into the pipe it was handed.
LEMMA ServeKeeps ==
  ASSUME CopiesInv, NEW c \in Copiers, S!Serve(c)
  PROVE  CopiesInv'
<1>1. PICK p \in capture.active : \E q \in {[p EXCEPT !.got = "part"], [p EXCEPT !.got = "all", !.closed = TRUE]} :
        capture' = [capture EXCEPT !.active = (@ \ {p}) \cup {q}] /\ ~p.closed
  BY DEF S!Serve
<1>0. PICK q \in {[p EXCEPT !.got = "part"], [p EXCEPT !.got = "all", !.closed = TRUE]} :
        capture' = [capture EXCEPT !.active = (@ \ {p}) \cup {q}] /\ ~p.closed
  BY <1>1
<1> DEFINE pipes == (capture.active \ {p}) \cup {q}
<1>2. capture.active \subseteq Pipe
  BY DEF CopiesInv, CopiesTyped, Capturing
<1>3. q \in Pipe /\ q.copy = p.copy /\ q.kind = p.kind
      /\ (q.got = "all" => q.closed) /\ (q.closed => q.got = "all")
  BY <1>0, <1>2 DEF Pipe
<1>4. UNCHANGED <<alive, copies, holder, told, selection>>
  BY DEF S!Serve
<1>5. capture' = [capture EXCEPT !.active = pipes]
  BY <1>0, <1>2 DEF CopiesInv, CopiesTyped, Capturing
<1>6. \A r \in pipes : (r.got = "all" => r.closed) /\ (r.closed => r.got = "all" \/ Gone')
  BY <1>3, <1>4 DEF CopiesInv, OfTheLast, Gone, Newest
<1>7. pipes \in SUBSET Pipe
  BY <1>2, <1>3
<1> QED  BY <1>3, <1>4, <1>5, <1>6, <1>7, PipesKeep

\* A client that ends closes its pipes, and what it had copied is nobody's.
LEMMA DieKeeps ==
  ASSUME CopiesInv, NEW c \in Copiers, S!Die(c)
  PROVE  CopiesInv'
<1> DEFINE Left(p) == IF copies[p.copy].by = c THEN [p EXCEPT !.closed = TRUE] ELSE p
           pipes == {Left(p) : p \in capture.active}
<1>1. capture.active \subseteq Pipe /\ alive' = alive \ {c} /\ UNCHANGED <<copies, holder, told, selection>>
  BY DEF CopiesInv, CopiesTyped, Capturing, S!Die
<1>2. ASSUME NEW p \in capture.active
      PROVE  /\ Left(p) \in Pipe /\ Left(p).copy = p.copy /\ Left(p).kind = p.kind
             /\ Left(p).got = "all" => Left(p).closed
             /\ Left(p).closed => Left(p).got = "all" \/ Gone'
  <2>1. CASE copies[p.copy].by = c
    <3>1. Gone'
      BY <1>1, <2>1 DEF CopiesInv, OfTheLast, Gone, Newest
    <3> QED  BY <1>1, <2>1, <3>1 DEF Pipe
  <2>2. CASE copies[p.copy].by # c
    BY <1>1, <2>2 DEF CopiesInv, OfTheLast, Gone, Newest
  <2> QED  BY <2>1, <2>2
<1>3. capture' = [capture EXCEPT !.active = pipes]
  BY DEF S!Die
<1> HIDE DEF Left
<1>4. pipes \in SUBSET Pipe
  BY <1>2
<1> QED  BY <1>1, <1>2, <1>3, <1>4, PipesKeep

\* What the shell makes of a queue is what it makes of one event after the other.
LEMMA ToldOneByOne ==
  ASSUME NEW sel \in {None} \cup S!Shown,
         NEW q \in Seq([is : {"changed", "persisted"}, kinds : SUBSET Kinds])
  PROVE  \E h : /\ h[0] = sel /\ \A i \in 1..Len(q) : h[i] = S!Told(h[i - 1], q[i])
                /\ S!ToldAll(sel, q) = h[Len(q)]
<1> DEFINE n == Len(q)
           R == {None} \cup S!Shown
           step == [i \in 1..n |-> [r \in R |-> S!Told(r, q[i])]]
           Is(h) == h = [i \in 0..n |-> IF i = 0 THEN sel ELSE S!Told(h[i - 1], q[i])]
           all == CHOOSE h : Is(h)
<1>1. n \in Nat /\ \A i \in 1..n : q[i] \in [is : {"changed", "persisted"}, kinds : SUBSET Kinds]
  BY LenProperties, ElementOfSeq
<1>2. ASSUME NEW r \in R, NEW i \in 1..n PROVE S!Told(r, q[i]) \in R
  BY <1>1 DEF S!Told, S!Shown
<1>3. sel \in R /\ \A i \in 1..n, r \in R : step[i][r] \in R
  BY <1>2
<1>4. \A i \in 1..n, r \in R : step[i][r] = S!Told(r, q[i])
  OBVIOUS
<1> HIDE DEF step, n, R
<1>5. PICK h \in [0..n -> R] : h[0] = sel /\ \A i \in 1..n : h[i] = step[i][h[i - 1]]
  <2>1. n \in Nat
    BY <1>1
  <2>2. Runs(R, sel, n, step)
    BY <1>3, <2>1, Recursion
  <2> QED  BY <2>2 DEF Runs
<1>6. \A i \in 1..n : h[i] = S!Told(h[i - 1], q[i])
  <2>1. \A i \in 1..n : i - 1 \in 0..n
    BY <1>1
  <2> QED  BY <1>4, <1>5, <2>1
<1>7. Is(h)
  BY <1>1, <1>5, <1>6
<1>8. Is(all)
  BY <1>7
<1> HIDE DEF all
<1>9. all[0] = sel /\ \A i \in 1..n : all[i] = S!Told(all[i - 1], q[i])
  <2> DEFINE g == [i \in 0..n |-> IF i = 0 THEN sel ELSE S!Told(all[i - 1], q[i])]
  <2>1. g[0] = sel
    BY <1>1
  <2>2. \A i \in 1..n : g[i] = S!Told(all[i - 1], q[i])
    BY <1>1
  <2> HIDE DEF g
  <2> QED  BY <1>8, <2>1, <2>2 DEF g
<1>10. S!ToldAll(sel, q) = all[n]
  BY DEF S!ToldAll, all, n
<1> QED  BY <1>9, <1>10 DEF n

\* What a frame asks for is all of what was copied last; a client that has ended may not be asked.
LEMMA AskedRight ==
  ASSUME CopiesInv, NEW refuses \in BOOLEAN, NEW a, a = S!Asked(capture, refuses)
  PROVE  /\ a \in Capturing /\ a.request = None
         /\ a.installed = IF ByServer THEN a.generation ELSE None
         /\ holder = None => a.active = {} /\ a.captured = {}
         /\ ByServer => holder.data = a.captured /\ a.active = {} /\ a.captured # {}
         /\ a.active = {} /\ a.captured # {} => ByServer
         /\ \A p \in a.active : /\ p.copy = Len(copies) /\ p.kind \in Newest.kinds
                                /\ p.got = "all" => p.closed
                                /\ p.closed => p.got = "all" \/ Gone
         /\ \A d \in a.captured : d.copy = Len(copies) /\ d.kind \in Newest.kinds /\ (d.whole \/ Gone)
         /\ a.active # {} \/ a.captured # {} =>
              \A k \in Newest.kinds \ Big :
                (\E p \in a.active : p.kind = k) \/ (\E d \in a.captured : d.kind = k)
         /\ ByClient /\ a.active = {} => Gone \/ Newest.kinds \subseteq Big
<1> USE DEF CopiesInv
<1>1. CASE capture.request = None
  BY <1>1 DEF S!Asked, CopiesTyped, OfTheLast, NothingMissed, TakenOnce
<1>2. CASE capture.request # None
  <2> DEFINE pipes == IF holder # None /\ ~(refuses /\ holder.by \notin alive)
                      THEN {[kind |-> k, copy |-> holder.copy, got |-> "none",
                             closed |-> holder.by \notin alive] : k \in capture.request.kinds}
                      ELSE {}
  <2>1. /\ capture \in Capturing /\ capture.request \in Asking
        /\ capture.request.kinds = Newest.kinds /\ capture.request.generation = capture.generation
        /\ capture.captured = {} /\ ~ByServer /\ Len(copies) # 0
    BY <1>2 DEF CopiesTyped, OfTheLast, Capturing
  <2>2. Newest \in Copied /\ Len(copies) \in Nat
    BY <2>1, LenProperties, ElementOfSeq DEF CopiesTyped, Newest
  <2>3. \/ ByClient /\ holder.copy = Len(copies) /\ holder.by = Newest.by /\ Newest.kinds # {} /\ holder # None
        \/ ~ByClient /\ holder = None /\ Newest.kinds = {}
    BY <2>1, Absence DEF CopiesTyped, OfTheLast, ByClient, ByServer
  <2>4. a = [capture EXCEPT !.request = None, !.installed = None, !.captured = {},
               !.generation = IF capture.request.kinds = {} THEN @ ELSE capture.request.generation,
               !.active = pipes]
    BY <1>2 DEF S!Asked
  <2>5. pipes = {} \/ pipes = {[kind |-> k, copy |-> Len(copies), got |-> "none", closed |-> Gone] : k \in Newest.kinds}
    BY <2>1, <2>3 DEF Gone
  <2>6. \/ pipes = {} /\ (ByClient => Gone)
        \/ pipes # {} /\ ByClient /\ \A k \in Newest.kinds : \E p \in pipes : p.kind = k
    <3>1. CASE ~ByClient
      BY <2>3, <3>1
    <3>2. CASE ByClient /\ refuses /\ Gone
      BY <2>3, <3>2 DEF Gone
    <3>3. CASE ByClient /\ ~(refuses /\ Gone)
      <4>1. pipes = {[kind |-> k, copy |-> Len(copies), got |-> "none", closed |-> Gone] : k \in Newest.kinds}
        BY <2>1, <2>3, <3>3 DEF Gone
      <4>2. ASSUME NEW k \in Newest.kinds PROVE \E p \in pipes : p.kind = k
        <5>1. [kind |-> k, copy |-> Len(copies), got |-> "none", closed |-> Gone] \in pipes
          BY <4>1
        <5> QED  BY <5>1
      <4> HIDE DEF pipes
      <4> QED  BY <2>3, <3>3, <4>2
    <3> QED  BY <3>1, <3>2, <3>3
  <2> HIDE DEF pipes
  <2>8. ASSUME NEW p \in pipes
        PROVE  /\ p \in Pipe /\ p.copy = Len(copies) /\ p.kind \in Newest.kinds
               /\ p.got = "none" /\ (p.closed => Gone)
    <3>1. PICK k \in Newest.kinds : p = [kind |-> k, copy |-> Len(copies), got |-> "none", closed |-> Gone]
      BY <2>5
    <3>2. Gone \in BOOLEAN
      BY DEF Gone
    <3>3. k \in Kinds
      BY <2>2 DEF Copied
    <3> HIDE DEF Gone
    <3> QED  BY <2>2, <3>1, <3>2, <3>3 DEF Pipe
  <2>7. /\ a \in Capturing /\ a.request = None /\ a.installed = None /\ a.captured = {} /\ a.active = pipes
    <3>1. pipes \in SUBSET Pipe
      BY <2>8
    <3> QED  BY <2>1, <2>4, <3>1 DEF Capturing, Asking
  <2> QED  BY <2>1, <2>3, <2>6, <2>7, <2>8
<1> QED  BY <1>1, <1>2

\* What has ended and is not too long has been read; the rest is on its way.
LEMMA PolledRight ==
  ASSUME CopiesInv, NEW refuses \in BOOLEAN, NEW b, b = S!Polled(S!Asked(capture, refuses))
  PROVE  /\ b \in Capturing /\ b.request = None
         /\ b.installed = IF ByServer THEN b.generation ELSE None
         /\ holder = None => b.active = {} /\ b.captured = {}
         /\ ByServer => holder.data = b.captured /\ b.active = {} /\ b.captured # {}
         /\ \A p \in b.active : /\ p.copy = Len(copies) /\ p.kind \in Newest.kinds
                                /\ p.got = "all" => p.closed
                                /\ p.closed => p.got = "all" \/ Gone
         /\ \A d \in b.captured : d.copy = Len(copies) /\ d.kind \in Newest.kinds /\ (d.whole \/ Gone)
         /\ b.active # {} \/ b.captured # {} =>
              \A k \in Newest.kinds \ Big :
                (\E p \in b.active : p.kind = k) \/ (\E d \in b.captured : d.kind = k)
         /\ ByClient /\ b.active = {} /\ b.captured = {} => Gone \/ Newest.kinds \subseteq Big
<1> DEFINE a == S!Asked(capture, refuses)
           open == {p \in a.active : ~p.closed}
           done == S!Complete(a)
<1>1. /\ a \in Capturing /\ a.request = None
      /\ a.installed = IF ByServer THEN a.generation ELSE None
      /\ holder = None => a.active = {} /\ a.captured = {}
      /\ ByServer => holder.data = a.captured /\ a.active = {} /\ a.captured # {}
      /\ \A p \in a.active : /\ p.copy = Len(copies) /\ p.kind \in Newest.kinds
                             /\ p.got = "all" => p.closed
                             /\ p.closed => p.got = "all" \/ Gone
      /\ \A d \in a.captured : d.copy = Len(copies) /\ d.kind \in Newest.kinds /\ (d.whole \/ Gone)
      /\ a.active # {} \/ a.captured # {} =>
           \A k \in Newest.kinds \ Big :
             (\E p \in a.active : p.kind = k) \/ (\E d \in a.captured : d.kind = k)
      /\ ByClient /\ a.active = {} => Gone \/ Newest.kinds \subseteq Big
  BY AskedRight
<1>2. b = [a EXCEPT !.active = open, !.captured = @ \cup done]
  BY DEF S!Polled
<1>3. /\ done = {[kind |-> p.kind, copy |-> p.copy, whole |-> p.got = "all"] :
                   p \in {q \in a.active : q.closed /\ ~(q.got = "all" /\ q.kind \in Big)}}
  BY DEF S!Complete, S!TooMuch
<1> HIDE DEF a, done
<1>4. a.active \subseteq Pipe /\ a.captured \subseteq S!Datum
  BY <1>1 DEF Capturing
<1>5. ASSUME NEW d \in done
      PROVE  d \in S!Datum /\ d.copy = Len(copies) /\ d.kind \in Newest.kinds /\ (d.whole \/ Gone)
  <2>1. PICK p \in a.active : p.closed /\ d = [kind |-> p.kind, copy |-> p.copy, whole |-> p.got = "all"]
    BY <1>3
  <2> QED  BY <1>1, <1>4, <2>1 DEF Pipe, S!Datum
<1>6. ASSUME NEW p \in a.active, p.kind \notin Big
      PROVE  p \in open \/ \E d \in done : d.kind = p.kind
  <2>1. p.closed \in BOOLEAN
    BY <1>4 DEF Pipe
  <2>2. CASE ~p.closed
    BY <2>2
  <2>3. CASE p.closed
    <3>1. [kind |-> p.kind, copy |-> p.copy, whole |-> p.got = "all"] \in done
      BY <1>3, <1>6, <2>3
    <3> QED  BY <3>1
  <2> QED  BY <2>1, <2>2, <2>3
<1>7. /\ b \in Capturing /\ b.active = open /\ b.captured = a.captured \cup done
      /\ b.request = None /\ b.installed = a.installed /\ b.generation = a.generation
  <2>1. open \in SUBSET Pipe /\ a.captured \cup done \in SUBSET S!Datum
    BY <1>4, <1>5
  <2> QED  BY <1>1, <1>2, <2>1 DEF Capturing
<1>8. a.active = {} => open = {} /\ done = {}
  BY <1>3
<1>9. b.active # {} \/ b.captured # {} => a.active # {} \/ a.captured # {}
  BY <1>7, <1>8
<1>10. \A k \in Newest.kinds \ Big : a.active # {} \/ a.captured # {} =>
          (\E p \in b.active : p.kind = k) \/ (\E d \in b.captured : d.kind = k)
  BY <1>1, <1>6, <1>7
<1>11. ByClient /\ b.active = {} /\ b.captured = {} => Gone \/ Newest.kinds \subseteq Big
  BY <1>1, <1>7, <1>10
<1> HIDE DEF open
<1>12. holder = None => b.active = {} /\ b.captured = {}
  BY <1>1, <1>7, <1>8
<1>13. ByServer => holder.data = b.captured /\ b.active = {} /\ b.captured # {}
  BY <1>1, <1>7, <1>8
<1>14. \A p \in b.active : p \in a.active
  BY <1>7 DEF open
<1>15. \A d \in b.captured : d.copy = Len(copies) /\ d.kind \in Newest.kinds /\ (d.whole \/ Gone)
  BY <1>1, <1>5, <1>7
<1> QED  BY <1>1, <1>7, <1>9, <1>10, <1>11, <1>12, <1>13, <1>14, <1>15

\* After what was told, the shell has the last copy, whatever came in between.
LEMMA ToldRight ==
  ASSUME CopiesInv
  PROVE  /\ S!ToldAll(selection, told) = Rightly
         /\ \A kinds \in SUBSET Kinds :
              S!ToldAll(selection, Append(told, [is |-> "persisted", kinds |-> kinds]))
                = S!Told(Rightly, [is |-> "persisted", kinds |-> kinds])
<1> USE DEF CopiesInv
<1> DEFINE n == Len(told)
           Notes == [is : {"changed", "persisted"}, kinds : SUBSET Kinds]
<1>1. /\ told \in Seq([is : {"changed"}, kinds : SUBSET Kinds]) /\ n \in Nat
      /\ \A i \in 1..n : told[i] \in [is : {"changed"}, kinds : SUBSET Kinds]
  BY LenProperties, ElementOfSeq DEF ShellFollows
<1>2. selection \in {None} \cup S!Shown
  BY DEF CopiesTyped
<1>3. told \in Seq(Notes)
  <2>1. [is : {"changed"}, kinds : SUBSET Kinds] \subseteq Notes
    OBVIOUS
  <2> HIDE DEF Notes
  <2> QED  BY <1>1, <2>1, SeqMonotonic
<1>4. ASSUME NEW h, h[0] = selection, n # 0 => h[n] = S!Told(h[n - 1], told[n]) PROVE h[n] = Rightly
  <2>1. CASE n = 0
    <3>1. told = <<>>
      BY <1>1, <2>1, EmptySeq
    <3> QED  BY <1>4, <2>1, <3>1 DEF ShellFollows
  <2>2. CASE n # 0
    <3>1. /\ told # <<>> /\ capture.request # None /\ told[n].is = "changed" /\ told[n].kinds = Newest.kinds
      BY <1>1, <2>2 DEF ShellFollows
    <3>2. ~ByServer /\ Len(copies) # 0
      BY <3>1 DEF OfTheLast
    <3>3. holder = None <=> Newest.kinds = {}
      BY <3>2, Absence DEF CopiesTyped, OfTheLast, ByClient, ByServer
    <3>4. S!Told(h[n - 1], told[n]) = IF Newest.kinds = {} THEN None
                                     ELSE [kinds |-> Newest.kinds, owner |-> "client", persisted |-> {}]
      BY <3>1 DEF S!Told
    <3>5. Rightly = IF Newest.kinds = {} THEN None
                    ELSE [kinds |-> Newest.kinds, owner |-> "client", persisted |-> {}]
      BY <3>2, <3>3 DEF Rightly
    <3> QED  BY <1>4, <2>2, <3>4, <3>5
  <2> QED  BY <2>1, <2>2
<1>5. S!ToldAll(selection, told) = Rightly
  <2>1. PICK h : /\ h[0] = selection /\ \A i \in 1..n : h[i] = S!Told(h[i - 1], told[i])
                 /\ S!ToldAll(selection, told) = h[n]
    BY <1>2, <1>3, ToldOneByOne
  <2> QED  BY <1>1, <1>4, <2>1
<1>6. ASSUME NEW kinds \in SUBSET Kinds
      PROVE  S!ToldAll(selection, Append(told, [is |-> "persisted", kinds |-> kinds]))
               = S!Told(Rightly, [is |-> "persisted", kinds |-> kinds])
  <2> DEFINE e == [is |-> "persisted", kinds |-> kinds]
             q == Append(told, e)
  <2>1. e \in Notes
    OBVIOUS
  <2> HIDE DEF e, Notes
  <2>2. q \in Seq(Notes) /\ Len(q) = n + 1 /\ q[n + 1] = e /\ \A i \in 1..n : q[i] = told[i]
    BY <1>3, <2>1, AppendProperties, LenProperties
  <2> HIDE DEF q
  <2>3. PICK h : /\ h[0] = selection /\ \A i \in 1..Len(q) : h[i] = S!Told(h[i - 1], q[i])
                 /\ S!ToldAll(selection, q) = h[Len(q)]
    BY <1>2, <2>2, ToldOneByOne DEF Notes
  <2>4. n # 0 => h[n] = S!Told(h[n - 1], told[n])
    BY <1>1, <2>2, <2>3
  <2>5. h[n] = Rightly
    BY <1>4, <2>3, <2>4
  <2>6. h[n + 1] = S!Told(h[n], e)
    BY <1>1, <2>2, <2>3
  <2> QED  BY <2>2, <2>3, <2>5, <2>6 DEF q, e
<1> QED  BY <1>5, <1>6

\* A frame asks, reads, takes what is complete, and tells the shell.
LEMMA FrameKeeps ==
  ASSUME CopiesInv, S!Frame
  PROVE  CopiesInv'
<1>0. PICK refuses \in BOOLEAN :
        LET cap  == S!Polled(S!Asked(capture, refuses))
            take == S!Installs(cap)
            q == IF take THEN Append(told, [is |-> "persisted", kinds |-> S!KindsOf(cap.captured)]) ELSE told
        IN /\ capture' = IF take THEN [cap EXCEPT !.installed = cap.generation] ELSE cap
           /\ holder' = IF take THEN [by |-> "compositor", data |-> cap.captured]
                        ELSE IF capture.request # None /\ capture.request.kinds = {} THEN None ELSE holder
           /\ told' = <<>> /\ selection' = S!ToldAll(selection, q)
           /\ UNCHANGED <<alive, copies>>
  BY DEF S!Frame
<1> DEFINE cap == S!Polled(S!Asked(capture, refuses))
           take == S!Installs(cap)
<1>1. /\ capture' = IF take THEN [cap EXCEPT !.installed = cap.generation] ELSE cap
      /\ holder' = IF take THEN [by |-> "compositor", data |-> cap.captured]
                   ELSE IF capture.request # None /\ capture.request.kinds = {} THEN None ELSE holder
      /\ told' = <<>> /\ UNCHANGED <<alive, copies>>
      /\ selection' = S!ToldAll(selection, IF take THEN Append(told, [is |-> "persisted", kinds |-> S!KindsOf(cap.captured)])
                                           ELSE told)
  BY <1>0
<1>2. /\ cap \in Capturing /\ cap.request = None
      /\ cap.installed = IF ByServer THEN cap.generation ELSE None
      /\ holder = None => cap.active = {} /\ cap.captured = {}
      /\ ByServer => holder.data = cap.captured /\ cap.active = {} /\ cap.captured # {}
      /\ \A p \in cap.active : /\ p.copy = Len(copies) /\ p.kind \in Newest.kinds
                               /\ p.got = "all" => p.closed
                               /\ p.closed => p.got = "all" \/ Gone
      /\ \A d \in cap.captured : d.copy = Len(copies) /\ d.kind \in Newest.kinds /\ (d.whole \/ Gone)
      /\ cap.active # {} \/ cap.captured # {} =>
           \A k \in Newest.kinds \ Big :
             (\E p \in cap.active : p.kind = k) \/ (\E d \in cap.captured : d.kind = k)
      /\ ByClient /\ cap.active = {} /\ cap.captured = {} => Gone \/ Newest.kinds \subseteq Big
  BY PolledRight
<1> HIDE DEF cap, take
<1>3. Newest' = Newest /\ Gone' = Gone /\ Len(copies') = Len(copies)
  BY <1>1 DEF Newest, Gone
<1>4. cap.generation \in Nat /\ cap.captured \subseteq S!Datum /\ S!KindsOf(cap.captured) \in SUBSET Kinds
  BY <1>2 DEF Capturing, S!Datum, S!KindsOf
<1>5. capture.request # None /\ capture.request.kinds = {} => holder = None
  BY Absence DEF CopiesInv, CopiesTyped, OfTheLast, ByClient, ByServer
<1>6. take <=> cap.active = {} /\ cap.captured # {} /\ ~ByServer
  BY <1>2, <1>4, Absence DEF take, S!Installs
<1>7. CASE ~take
  <2>1. capture' = cap /\ holder' = holder /\ selection' = Rightly
    BY <1>1, <1>5, <1>7, ToldRight
  <2>2. (ByClient' <=> ByClient) /\ (ByServer' <=> ByServer)
    BY <2>1 DEF ByClient, ByServer
  <2>3. Rightly' = Rightly
    BY <1>3, <2>1, <2>2 DEF Rightly, S!KindsOf
  <2>4. CopiesTyped'
    <3>1. Rightly \in {None} \cup S!Shown
      <4>1. CASE holder = None
        BY <4>1 DEF Rightly
      <4>2. CASE holder # None
        <5>1. Newest.kinds \in SUBSET Kinds
          <6>1. Len(copies) # 0 /\ copies \in Seq(Copied)
            BY <4>2 DEF CopiesInv, CopiesTyped, OfTheLast
          <6>2. Newest \in Copied
            BY <6>1, LenProperties, ElementOfSeq DEF Newest
          <6> QED  BY <6>2 DEF Copied
        <5>2. ByServer => S!KindsOf(holder.data) \in SUBSET Kinds
          BY DEF ByServer, S!Taken, S!Datum, S!KindsOf
        <5> HIDE DEF ByServer
        <5> QED  BY <4>2, <5>1, <5>2 DEF Rightly, S!Shown
      <4> QED  BY <4>1, <4>2
    <3> QED  BY <1>1, <1>2, <2>1, <3>1 DEF CopiesInv, CopiesTyped
  <2>5. OfTheLast'
    BY <1>2, <1>3, <2>1, <2>2 DEF CopiesInv, OfTheLast
  <2>6. NothingMissed'
    <3>1. ~(ByClient /\ ByServer)
      BY Absence DEF ByClient, ByServer, S!Source, S!Taken
    <3> QED  BY <1>2, <1>3, <1>6, <1>7, <2>1, <2>2, <3>1 DEF NothingMissed
  <2>7. TakenOnce'
    BY <1>2, <1>6, <1>7, <2>1, <2>2 DEF TakenOnce
  <2>8. ShellFollows'
    BY <1>1, <1>2, <2>1, <2>3 DEF ShellFollows
  <2> QED  BY <2>4, <2>5, <2>6, <2>7, <2>8 DEF CopiesInv
<1>8. CASE take
  <2> DEFINE data == cap.captured
             kinds == S!KindsOf(data)
  <2>1. /\ capture' = [cap EXCEPT !.installed = cap.generation]
        /\ holder' = [by |-> "compositor", data |-> data]
        /\ selection' = S!Told(Rightly, [is |-> "persisted", kinds |-> kinds])
    BY <1>1, <1>4, <1>8, ToldRight
  <2>2. holder # None /\ Len(copies) # 0 /\ ~ByServer /\ data # {} /\ cap.active = {}
    BY <1>2, <1>6, <1>8 DEF CopiesInv, OfTheLast
  <2>3. holder' \in S!Taken /\ ByServer' /\ ~ByClient' /\ holder' # None
    BY <1>4, <2>1, Absence DEF S!Taken, S!Source, ByServer, ByClient
  <2>4. /\ capture' \in Capturing /\ capture'.installed = capture'.generation /\ capture'.request = None
        /\ capture'.active = {} /\ capture'.captured = data
    BY <1>2, <1>4, <2>1, <2>2 DEF Capturing
  <2>5. Newest \in Copied
    BY <2>2, LenProperties, ElementOfSeq DEF CopiesInv, CopiesTyped, Newest
  <2>6. Rightly = [kinds |-> Newest.kinds, owner |-> "client", persisted |-> {}] /\ Rightly \in S!Shown
    BY <2>2, <2>5 DEF Rightly, S!Shown, Copied
  <2>7. selection' = [kinds |-> Newest.kinds, owner |-> "compositor", persisted |-> kinds]
    BY <2>1, <2>6, Absence DEF S!Told
  <2>8. selection' \in S!Shown
    BY <1>4, <2>5, <2>7 DEF S!Shown, Copied
  <2>9. selection' = Rightly'
    BY <1>3, <2>1, <2>3, <2>7 DEF Rightly, S!KindsOf
  <2> HIDE DEF data
  <2>10. CopiesTyped'
    BY <1>1, <2>3, <2>4, <2>8 DEF CopiesInv, CopiesTyped
  <2>11. OfTheLast'
    BY <1>2, <1>3, <2>2, <2>3, <2>4 DEF OfTheLast, data
  <2>12. NothingMissed'
    BY <1>2, <1>3, <2>2, <2>3, <2>4 DEF NothingMissed, data
  <2>13. TakenOnce'
    BY <2>1, <2>2, <2>3, <2>4 DEF TakenOnce
  <2>14. ShellFollows'
    BY <1>1, <2>4, <2>9 DEF ShellFollows
  <2> QED  BY <2>10, <2>11, <2>12, <2>13, <2>14 DEF CopiesInv
<1> QED  BY <1>7, <1>8

\* Every pipe belongs to a copy, every copy that is not yet held is asked for or read, and the
\* shell has heard of the last one that is.
THEOREM CopiesInvariant == S!Spec => []CopiesInv
<1>1. CopiesInv /\ [S!Next]_S!vars => CopiesInv'
  <2> SUFFICES ASSUME CopiesInv, [S!Next]_S!vars PROVE CopiesInv'
    OBVIOUS
  <2>1. ASSUME NEW c \in Copiers, NEW kinds \in SUBSET Kinds, S!Copy(c, kinds) PROVE CopiesInv'
    BY <2>1, CopyKeeps
  <2>2. ASSUME NEW c \in Copiers, S!Serve(c) PROVE CopiesInv'
    BY <2>2, ServeKeeps
  <2>3. ASSUME NEW c \in Copiers, S!Die(c) PROVE CopiesInv'
    BY <2>3, DieKeeps
  <2>4. CASE S!Frame
    BY <2>4, FrameKeeps
  <2>5. CASE UNCHANGED S!vars
    <3>1. UNCHANGED <<alive, copies, holder, capture, told, selection>>
      BY <2>5 DEF S!vars
    <3>2. UNCHANGED <<ByClient, ByServer, Newest, Gone, Rightly>>
      BY <3>1 DEF ByClient, ByServer, Newest, Gone, Rightly, S!KindsOf
    <3> QED  BY <3>1, <3>2 DEF CopiesInv, CopiesTyped, OfTheLast, NothingMissed, TakenOnce, ShellFollows
  <2> QED  BY <2>1, <2>2, <2>3, <2>4, <2>5 DEF S!Next
<1> QED  BY <1>1, CopiesInit, PTL DEF S!Spec

\* However copies, pipes and ends of clients follow each other, what is pasted is what was
\* copied last.
THEOREM SelectionsAlwaysTrue == S!Spec => []SelectionsTrue
<1>1. CopiesInv => SelectionsTrue
  <2> SUFFICES ASSUME CopiesInv PROVE SelectionsTrue  OBVIOUS
  <2> USE DEF CopiesInv
  <2>1. S!Latest = Len(copies) /\ copies[Len(copies)] = Newest
    BY DEF S!Latest, Newest
  <2>2. S!ByCompositor <=> ByServer
    BY Absence DEF S!ByCompositor, ByServer, CopiesTyped, S!Source, S!Taken
  <2>3. ByServer => /\ capture.request = None /\ holder # None /\ capture.active = {}
                    /\ holder.data = capture.captured /\ capture.captured # {}
    BY Absence DEF OfTheLast, TakenOnce, ByServer
  <2>4. holder \in {None} \cup S!Source \cup S!Taken
    BY DEF CopiesTyped
  <2>5. S!NoStalePaste
    BY <2>1, <2>2, <2>3 DEF S!NoStalePaste, S!KindsOf, OfTheLast, NothingMissed, Gone
  <2>6. S!ShellAgrees
    <3>1. SUFFICES ASSUME told = <<>> PROVE
               /\ (selection = None) = (holder = None)
               /\ selection # None =>
                    /\ selection.kinds = Newest.kinds
                    /\ selection.owner = (IF ByServer THEN "compositor" ELSE "client")
                    /\ selection.persisted = (IF ByServer THEN S!KindsOf(holder.data) ELSE {})
      BY <2>1, <2>2 DEF S!ShellAgrees
    <3>2. selection = Rightly /\ selection \in {None} \cup S!Shown
      BY <3>1 DEF ShellFollows, CopiesTyped
    <3>3. holder # None => selection # None
      <4>1. SUFFICES ASSUME holder # None PROVE selection # None
        OBVIOUS
      <4>2. Newest \in Copied
        BY <4>1, LenProperties, ElementOfSeq DEF OfTheLast, CopiesTyped, Newest
      <4>3. S!KindsOf(holder.data) \in SUBSET Kinds \/ ~ByServer
        BY DEF ByServer, S!Taken, S!Datum, S!KindsOf
      <4>4. Rightly \in S!Shown
        BY <4>1, <4>2, <4>3 DEF Rightly, S!Shown, Copied
      <4> QED  BY <3>2, <4>4, Absence
    <3>4. holder = None => selection = None
      BY <3>2 DEF Rightly
    <3> QED  BY <3>2, <3>3, <3>4 DEF Rightly
  <2>7. S!OutlivesItsClient
    BY <2>1, <2>2, <2>4 DEF S!OutlivesItsClient, NothingMissed, ByClient, ByServer, Gone
  <2> QED  BY <2>5, <2>6, <2>7 DEF SelectionsTrue, S!SelectionsTrue
<1> QED  BY <1>1, CopiesInvariant, PTL

-----------------------------------------------------------------------------
(* ControlPlane: the inductive invariant.                                  *)

\* What a message says, by its topic.
Notes ==
  [topic : {"tree"}, value : Nat] \cup [topic : {"config"}, value : Configurations]
    \cup [topic : {"layouts"}, value : LayoutStates] \cup [topic : {"command"}, value : Outcomes]
    \cup [topic : {"created"}, value : Popups] \cup [topic : {"dismissed"}, value : {None}]
    \cup [topic : {"geometry"}, value : {0, 1}] \cup [topic : {"grab"}, value : BOOLEAN]
Answers == [topic : {"reply"}, value : Snapshots] \cup [topic : {"reply"}, value : {"ok", "error"}]

Peers ==
  [link : {"none", "waits", "kept", "closed"}, asks : {None, "subscribe", "query", "answered"} \cup Commands,
   sent : {"nothing", "part", "bare", "line"}, eof : BOOLEAN, reads : BOOLEAN, done : BOOLEAN,
   subscribed : BOOLEAN, out : Seq(Notes \cup Answers), down : Seq(Notes \cup Answers)]
Requested == [reload : BOOLEAN, quit : BOOLEAN, commands : Seq(Others), controls : Nat]

ControlTyped ==
  /\ scene \in Scenes /\ reloadFirst \in BOOLEAN
  /\ stage \in {"poll", "mid", "shell", "render", "stopped"}
  /\ conns \in [Conns -> Peers] /\ queue \in Seq(Conns) /\ events \in Seq(Notes)
  /\ cache \in Snapshots /\ seen \in {None, cache}
  /\ file \in ConfigFiles /\ notice \in BOOLEAN /\ watch \in BOOLEAN
  /\ config \in Configurations /\ layouts \in LayoutStates
  /\ requests \in Requested /\ startup \in StartupStates
  /\ messages \in Seq(Outcomes) /\ results \in Seq(Outcomes)
  /\ history \in [limit : Nat, items : Seq(Outcomes)]
  /\ world \in Worlds /\ changes \in Nat /\ edits \in Nat

\* What a connection has asked and been answered; the server knows those it keeps.
PeerTrue(k, c) ==
  /\ k.link = "none" => k = Closed
  /\ k.link = "waits" => ~k.done
  /\ k.link # "none" => k.asks # None
  /\ ~k.done => k.out = <<>> /\ k.down = <<>>
  /\ k.done => k.sent # "nothing"
  /\ ~k.reads => k.eof
  /\ k.subscribed => c = "stream" /\ k.done
  /\ c \notin Others => k.reads /\ ~k.eof /\ k.sent \in {"nothing", "line"}
  /\ c = "stream" => /\ k.asks \in {None, "subscribe", "answered"} /\ k.link # "closed"
                     /\ k.done => k.subscribed
                     /\ k.asks = "answered" => k.done
  /\ c = "query" => k.asks \in {None, "query"}
  /\ c \in Others => k.asks \in {None} \cup Commands
  /\ Len(k.down) <= Capacity
  /\ k.link = "closed" => k.done /\ (k.out = <<>> \/ ~k.reads)

ConnsTrue ==
  /\ \A c \in Conns : PeerTrue(conns[c], c)
  /\ \A c \in Conns : conns[c].link = "kept" <=> c \in ToSet(queue)
  /\ stage = "shell" => \A c \in Conns : conns[c].link = "kept" /\ ~conns[c].reads => conns[c].sent = "nothing"

\* An accepted command waits or has had its result, never twice.
Launches(k) == k.done /\ k.asks = "spawn" /\ k.sent # "part"
HadResult(c) == \E i \in DOMAIN results : results[i].origin = c
Awaited(ks, commands) ==
  /\ \A i, j \in DOMAIN commands : commands[i] = commands[j] => i = j
  /\ \A i \in DOMAIN commands : Launches(ks[commands[i]]) /\ ~HadResult(commands[i])
  /\ \A c \in Others : Launches(ks[c]) => HadResult(c) \/ \E i \in DOMAIN commands : commands[i] = c
  /\ \A c \in Others : HadResult(c) => ks[c].done
CommandsOnce ==
  /\ \A i, j \in DOMAIN results : results[i].origin = results[j].origin => i = j
  /\ Awaited(conns, requests.commands)
  /\ stage \in {"poll", "render", "stopped"} => requests.commands = <<>>
  /\ \A i \in DOMAIN results : results[i].origin = "startup" => startup.queued
  /\ startup.queued => startup.xwayland \in {"off", "ready"}
  /\ Len(history.items) <= history.limit
  /\ \E n \in 0..Len(results) : history.items = SubSeq(results, n + 1, Len(results))

\* A notification is left, or what is in the file is in force.
FileFollowed ==
  /\ ~notice /\ ~watch /\ file.kind = "good" => config = [v |-> file.v, error |-> None]
  /\ layouts.names = Configs[config.v].layouts

\* What a snapshot says, fact by fact; the messages that speak of a fact, and what they say of it.
Facts == {"tree", "config", "layouts", "there", "box", "grab"}
Fact(f, m) ==
  CASE f = "tree" -> m.tree [] f = "config" -> m.config [] f = "layouts" -> m.layouts
    [] f = "there" -> m.popup # None
    [] f = "box"   -> IF m.popup = None THEN None ELSE m.popup.box
    [] f = "grab"  -> IF m.popup = None THEN None ELSE m.popup.grab
Topics(f) ==
  CASE f \in {"tree", "config", "layouts"} -> {f}
    [] f = "there" -> {"created", "dismissed"}
    [] f = "box"   -> {"created", "dismissed", "geometry"}
    [] f = "grab"  -> {"created", "dismissed", "grab"}
Says(f, e) ==
  CASE f \in {"tree", "config", "layouts"} -> e.value
    [] f = "there" -> e.topic = "created"
    [] f = "box"   -> IF e.topic = "created" THEN e.value.box ELSE e.value
    [] f = "grab"  -> IF e.topic = "created" THEN e.value.grab ELSE e.value

Silent(f, p) == \A i \in DOMAIN p : p[i].topic \notin Topics(f)
\* The last message about a fact says what is so now.
LastSays(f, p, m) ==
  \A i \in DOMAIN p :
    p[i].topic \in Topics(f) /\ (\A j \in i + 1 .. Len(p) : p[j].topic \notin Topics(f)) => Says(f, p[i]) = Fact(f, m)
Replies(p) == \A i \in DOMAIN p : p[i].topic = "reply"
\* Who knows m and will be told p will know s.
Reported(p) == {p[i].value : i \in {j \in DOMAIN p : p[j].topic = "command"}}
Knows(m, p, s) ==
  /\ \A f \in Facts : Silent(f, p) => Fact(f, m) = Fact(f, s)
  /\ Silent("there", p) => m.popup \in {None} \cup Popups
  /\ ToSet(s.commands) \subseteq m.commands \cup Reported(p)

\* One sequence and then another; hidden, the provers look it up instead of computing it.
Joined(p, q) == p \o q

\* What a connection still has to read, what the subscriber has, and what the other client has.
Way(k) == Joined(k.down, k.out)
OnTheWay == Joined(Way(conns["stream"]), events)
Replied == Way(conns["query"])
Mirror(m) == [tree |-> m.tree, popup |-> m.popup, config |-> m.config, layouts |-> m.layouts,
              commands |-> m.commands]
Known1(v) == [v EXCEPT !.commands = ToSet(@)]

MirrorFollows ==
  /\ \A f \in Facts : LastSays(f, OnTheWay, cache)
  /\ mirror # None => mirror = Mirror(mirror) /\ Knows(mirror, OnTheWay, cache)
  /\ \A i \in DOMAIN Replied :
       Replied[i].topic = "reply" /\ Replied[i].value \in Snapshots /\ Knows(Known1(Replied[i].value), OnTheWay, cache)
  /\ \A c \in Others : Replies(Way(conns[c]))
  /\ seen = None =>
       /\ mirror = None /\ conns["query"].link = "none" /\ conns["stream"].asks # "answered"
       /\ Replies(OnTheWay)
       /\ stage = "poll" => ~conns["stream"].done
  /\ stage \in {"mid", "shell", "render"} => events = <<>>
  /\ conns["query"].link # "none" => conns["stream"].asks = "answered"
  /\ mirror # None => conns["query"].done /\ Replied = <<>>
  /\ Len(Replied) <= 1
  /\ stage # "render" => cache.commands = history.items /\ messages = <<>>
  /\ stage = "render" => ToSet(history.items) \subseteq ToSet(cache.commands) \cup ToSet(messages)

ControlInv == ControlTyped /\ ConnsTrue /\ CommandsOnce /\ FileFollowed /\ MirrorFollows

\* What the assumptions say, as the steps use it.
LEMMA ControlConstants ==
  /\ "stream" \in Conns /\ "query" \in Conns /\ "stream" \notin Others /\ "query" \notin Others
  /\ "startup" \notin Others /\ Others \subseteq Conns
  /\ \A c \in Conns : c \in Others \/ c = "stream" \/ c = "query"
  /\ Capacity \in Nat /\ Capacity # 0
  /\ None # "subscribe" /\ None # "query" /\ None # "answered" /\ None # "junk" /\ None # "spawn"
  /\ None # "next" /\ None # "reload" /\ None # "quit" /\ None # "control"
  /\ None # 0 /\ None # 1 /\ None # TRUE /\ None # FALSE /\ None \notin Popups /\ None \notin Snapshots
<1>1. "stream" \notin Others /\ "query" \notin Others /\ "startup" \notin Others
  BY OthersAssumption
<1>2. "stream" \in Conns /\ "query" \in Conns /\ Others \subseteq Conns
      /\ \A c \in Conns : c \in Others \/ c = "stream" \/ c = "query"
  BY DEF Conns
<1>4. None # 0 /\ None # 1 /\ None # TRUE /\ None # FALSE /\ None \notin Popups /\ None \notin Snapshots
  BY NoneAssumption
<1>5. Capacity \in Nat /\ Capacity # 0
  BY CapacityAssumption
<1>6. None # "subscribe" /\ None # "query" /\ None # "answered" /\ None # "junk" /\ None # "spawn"
  BY NoneAssumption DEF Commands
<1>7. None # "next" /\ None # "reload" /\ None # "quit" /\ None # "control"
  BY NoneAssumption DEF Commands
<1> QED  BY <1>1, <1>2, <1>4, <1>5, <1>6, <1>7

\* Every content of the file has layouts, the configured one among them.
LEMMA ConfigsSound ==
  /\ 1 \in DOMAIN Configs
  /\ \A v \in DOMAIN Configs :
       /\ Configs[v].layouts \in Seq(STRING) /\ Len(Configs[v].layouts) \in Nat \ {0}
       /\ DOMAIN Configs[v].layouts = 1..Len(Configs[v].layouts)
       /\ Configs[v].limit \in Nat /\ Configs[v].startup \in BOOLEAN
       /\ \E i \in DOMAIN Configs[v].layouts : Configs[v].layouts[i] = Configs[v].current
<1> DEFINE C == [layouts : Seq(STRING), current : STRING, limit : Nat, startup : BOOLEAN]
<1>1. Configs \in Seq(C) /\ Configs # <<>>
  BY ConfigsAssumption
<1>2. Len(Configs) \in Nat /\ DOMAIN Configs = 1..Len(Configs) /\ Len(Configs) # 0
  BY <1>1, LenProperties, EmptySeq
<1>3. ASSUME NEW v \in DOMAIN Configs
      PROVE  /\ Configs[v].layouts \in Seq(STRING) /\ Len(Configs[v].layouts) \in Nat \ {0}
             /\ DOMAIN Configs[v].layouts = 1..Len(Configs[v].layouts)
             /\ Configs[v].limit \in Nat /\ Configs[v].startup \in BOOLEAN
             /\ \E i \in DOMAIN Configs[v].layouts : Configs[v].layouts[i] = Configs[v].current
  <2>1. Configs[v] \in C
    BY <1>1, <1>2, ElementOfSeq
  <2>2. \E i \in DOMAIN Configs[v].layouts : Configs[v].layouts[i] = Configs[v].current
    BY ConfigsAssumption DEF ToSet
  <2>3. Configs[v].layouts \in Seq(STRING) /\ Configs[v].limit \in Nat /\ Configs[v].startup \in BOOLEAN
    BY <2>1
  <2>4. Len(Configs[v].layouts) \in Nat /\ DOMAIN Configs[v].layouts = 1..Len(Configs[v].layouts)
    BY <2>3, LenProperties
  <2> QED  BY <2>2, <2>3, <2>4
<1> QED  BY <1>2, <1>3

\* What is known of a state of the keyboard layouts.
LEMMA LayoutStateIs ==
  ASSUME NEW l
  PROVE  l \in LayoutStates <=>
           \E v \in DOMAIN Configs : \E i \in DOMAIN Configs[v].layouts :
             l = [names |-> Configs[v].layouts, active |-> i]
BY DEF LayoutStates

\* The first entry of a name is one of that name.
LEMMA PositionFound ==
  ASSUME NEW names, NEW name, \E i \in DOMAIN names : names[i] = name
  PROVE  Position(names, name) \in DOMAIN names /\ names[Position(names, name)] = name
BY DEF Position

\* What a filter leaves: the members of A, each as often as before, and no other.
LEMMA ThoseLeft ==
  ASSUME NEW Y, NEW s \in Seq(Y), NEW A
  PROVE  /\ Those(s, A) \in Seq(Y)
         /\ \E g \in [1..Len(Those(s, A)) -> 1..Len(s)] :
              /\ \A i \in 1..Len(Those(s, A)) : Those(s, A)[i] = s[g[i]] /\ s[g[i]] \in A
              /\ \A i, j \in 1..Len(Those(s, A)) : g[i] = g[j] => i = j
              /\ \A k \in 1..Len(s) : s[k] \in A => \E i \in 1..Len(Those(s, A)) : g[i] = k
<1> DEFINE n == Len(s)
           R == Seq(Y)
           Next1(r, i) == IF s[i] \in A THEN Append(r, s[i]) ELSE r
           step == [i \in 1..n |-> [r \in R |-> Next1(r, i)]]
           Is(h) == h = [i \in 0..n |-> IF i = 0 THEN <<>> ELSE IF s[i] \in A THEN Append(h[i - 1], s[i]) ELSE h[i - 1]]
           all == CHOOSE h : Is(h)
<1>1. n \in Nat /\ \A i \in 1..n : s[i] \in Y
  BY LenProperties, ElementOfSeq
<1>2. ASSUME NEW r \in R, NEW i \in 1..n PROVE Next1(r, i) \in R
  BY <1>1, AppendProperties
<1>3. <<>> \in R /\ \A i \in 1..n, r \in R : step[i][r] \in R
  BY <1>2
<1>4. \A i \in 1..n, r \in R : step[i][r] = Next1(r, i)
  OBVIOUS
<1> HIDE DEF step, n, R, Next1
<1>5. PICK h \in [0..n -> R] : h[0] = <<>> /\ \A i \in 1..n : h[i] = step[i][h[i - 1]]
  <2>1. n \in Nat
    BY <1>1
  <2>2. Runs(R, <<>>, n, step)
    BY <1>3, <2>1, Recursion
  <2> QED  BY <2>2 DEF Runs
<1>6. \A i \in 1..n : h[i] = Next1(h[i - 1], i)
  <2>1. \A i \in 1..n : i - 1 \in 0..n
    BY <1>1
  <2> QED  BY <1>4, <1>5, <2>1
<1>7. Is(h)
  <2> DEFINE g == [i \in 0..n |-> IF i = 0 THEN <<>> ELSE IF s[i] \in A THEN Append(h[i - 1], s[i]) ELSE h[i - 1]]
  <2>1. \A i \in 0..n : g[i] = h[i]
    <3> SUFFICES ASSUME NEW i \in 0..n PROVE g[i] = h[i]
      OBVIOUS
    <3>1. CASE i = 0
      BY <3>1, <1>5
    <3>2. CASE i # 0
      <4>1. i \in 1..n
        BY <3>2, <1>1
      <4>2. h[i] = Next1(h[i - 1], i)
        BY <4>1, <1>6
      <4> QED  BY <3>2, <4>2 DEF Next1
    <3> QED  BY <3>1, <3>2
  <2>2. g = [i \in 0..n |-> g[i]]
    OBVIOUS
  <2> HIDE DEF g
  <2>3. g = h
    BY <2>1, <2>2, <1>5
  <2> QED  BY <2>3 DEF g
<1>8. Is(all)
  BY <1>7
<1> HIDE DEF all
<1>9. \A i \in 0..n : all[i] = IF i = 0 THEN <<>> ELSE IF s[i] \in A THEN Append(all[i - 1], s[i]) ELSE all[i - 1]
  <2> DEFINE g == [i \in 0..n |-> IF i = 0 THEN <<>> ELSE IF s[i] \in A THEN Append(all[i - 1], s[i]) ELSE all[i - 1]]
  <2>1. \A i \in 0..n : g[i] = IF i = 0 THEN <<>> ELSE IF s[i] \in A THEN Append(all[i - 1], s[i]) ELSE all[i - 1]
    OBVIOUS
  <2> HIDE DEF g
  <2> QED  BY <1>8, <2>1 DEF g
<1>10. Those(s, A) = all[n]
  BY DEF Those, all, n
<1> DEFINE Good(t, k) ==
             /\ t \in Seq(Y)
             /\ \E g \in [1..Len(t) -> 1..k] :
                  /\ \A i \in 1..Len(t) : t[i] = s[g[i]] /\ s[g[i]] \in A
                  /\ \A i, j \in 1..Len(t) : g[i] = g[j] => i = j
                  /\ \A m \in 1..k : s[m] \in A => \E i \in 1..Len(t) : g[i] = m
           K == {k \in Nat : k <= n => Good(all[k], k)}
<1>11. 0 \in K
  <2>0. 0 \in 0..n
    BY <1>1
  <2>1. all[0] = <<>> /\ Len(<<>>) = 0 /\ <<>> \in Seq(Y)
    BY <2>0, <1>9, EmptySeq
  <2>2. [i \in 1..0 |-> 1] \in [1..0 -> 1..0]
    OBVIOUS
  <2>3. 1..Len(all[0]) = {}
    BY <2>1
  <2> QED  BY <2>1, <2>2, <2>3
<1>12. ASSUME NEW k \in K PROVE k + 1 \in K
  <2>1. SUFFICES ASSUME k \in Nat, k + 1 <= n PROVE Good(all[k + 1], k + 1)
    OBVIOUS
  <2> HIDE DEF Good, K
  <2>2. k <= n /\ k + 1 \in 1..n /\ k + 1 \in 0..n /\ k + 1 # 0 /\ (k + 1) - 1 = k /\ s[k + 1] \in Y
    BY <2>1, <1>1
  <2> DEFINE t == all[k]
             u == all[k + 1]
  <2>3. Good(t, k)
    BY <2>1, <2>2 DEF K
  <2>4. u = IF s[k + 1] \in A THEN Append(t, s[k + 1]) ELSE t
    BY <2>2, <1>9
  <2> HIDE DEF t, u
  <2>5. PICK g \in [1..Len(t) -> 1..k] :
                  /\ \A i \in 1..Len(t) : t[i] = s[g[i]] /\ s[g[i]] \in A
                  /\ \A i, j \in 1..Len(t) : g[i] = g[j] => i = j
                  /\ \A m \in 1..k : s[m] \in A => \E i \in 1..Len(t) : g[i] = m
    BY <2>3 DEF Good
  <2>6. t \in Seq(Y) /\ Len(t) \in Nat
    BY <2>3, LenProperties DEF Good
  <2>7. CASE s[k + 1] \notin A
    <3>1. u = t
      BY <2>4, <2>7
    <3>2. g \in [1..Len(t) -> 1..k + 1]
      BY <2>1, <2>5
    <3>3. \A m \in 1..k + 1 : s[m] \in A => \E i \in 1..Len(t) : g[i] = m
      <4> SUFFICES ASSUME NEW m \in 1..k + 1, s[m] \in A PROVE \E i \in 1..Len(t) : g[i] = m
        OBVIOUS
      <4>1. m # k + 1
        BY <2>7
      <4>2. m \in 1..k
        BY <4>1, <2>1
      <4> QED  BY <4>2, <2>5
    <3>4. Good(t, k + 1)
      BY <3>2, <3>3, <2>5, <2>6 DEF Good
    <3> QED  BY <3>1, <3>4 DEF u
  <2>8. CASE s[k + 1] \in A
    <3>1. u = Append(t, s[k + 1])
      BY <2>4, <2>8
    <3>2. u \in Seq(Y) /\ Len(u) = Len(t) + 1 /\ u[Len(t) + 1] = s[k + 1] /\ \A i \in 1..Len(t) : u[i] = t[i]
      BY <3>1, <2>2, <2>6, AppendProperties
    <3> DEFINE f == [i \in 1..Len(t) + 1 |-> IF i = Len(t) + 1 THEN k + 1 ELSE g[i]]
    <3>3. f[Len(t) + 1] = k + 1 /\ \A i \in 1..Len(t) : f[i] = g[i] /\ f[i] \in 1..k
      BY <2>5, <2>6
    <3>4. f \in [1..Len(t) + 1 -> 1..k + 1]
      BY <2>1, <2>5, <2>6
    <3> HIDE DEF f
    <3>5. \A i \in 1..Len(t) + 1 : i \in 1..Len(t) \/ i = Len(t) + 1
      BY <2>6
    <3>6. \A i \in 1..Len(t) + 1 : u[i] = s[f[i]] /\ s[f[i]] \in A
      BY <3>2, <3>3, <3>5, <2>5, <2>8
    <3>7. \A i, j \in 1..Len(t) + 1 : f[i] = f[j] => i = j
      <4>1. \A i \in 1..Len(t) : f[i] # k + 1
        BY <3>3, <2>1
      <4> QED  BY <4>1, <3>3, <3>5, <2>5
    <3>8. \A m \in 1..k + 1 : s[m] \in A => \E i \in 1..Len(t) + 1 : f[i] = m
      <4> SUFFICES ASSUME NEW m \in 1..k + 1, s[m] \in A PROVE \E i \in 1..Len(t) + 1 : f[i] = m
        OBVIOUS
      <4>1. CASE m = k + 1
        <5>1. Len(t) + 1 \in 1..Len(t) + 1
          BY <2>6
        <5> QED  BY <4>1, <5>1, <3>3
      <4>2. CASE m # k + 1
        <5>1. m \in 1..k
          BY <4>2, <2>1
        <5>2. PICK i \in 1..Len(t) : g[i] = m
          BY <5>1, <2>5
        <5>3. i \in 1..Len(t) + 1
          BY <2>6
        <5> QED  BY <5>2, <5>3, <3>3
      <4> QED  BY <4>1, <4>2
    <3>9. Len(u) = Len(t) + 1
      BY <3>2
    <3>10. u \in Seq(Y) /\ f \in [1..Len(u) -> 1..k + 1]
      BY <3>2, <3>4, <3>9
    <3>11. /\ \A i \in 1..Len(u) : u[i] = s[f[i]] /\ s[f[i]] \in A
           /\ \A i, j \in 1..Len(u) : f[i] = f[j] => i = j
           /\ \A m \in 1..k + 1 : s[m] \in A => \E i \in 1..Len(u) : f[i] = m
      BY <3>6, <3>7, <3>8, <3>9
    <3>12. Good(u, k + 1)
      BY <3>10, <3>11 DEF Good
    <3> QED  BY <3>12 DEF u
  <2> QED  BY <2>7, <2>8
<1>13. K = Nat
  <2> HIDE DEF K
  <2> QED  BY <1>11, <1>12, NatSetInduction DEF K
<1> HIDE DEF Good
<1>14. Good(all[n], n)
  <2>1. n \in Nat /\ n <= n
    BY <1>1
  <2>2. n \in K
    BY <2>1, <1>13
  <2> QED  BY <2>1, <2>2
<1>15. Good(Those(s, A), n)
  BY <1>10, <1>14
<1> QED  BY <1>15 DEF Good, n

LEMMA ThoseMembers ==
  ASSUME NEW Y, NEW s \in Seq(Y), NEW A
  PROVE  Those(s, A) \in Seq(Y) /\ \A x : x \in ToSet(Those(s, A)) <=> x \in ToSet(s) /\ x \in A
<1> DEFINE p == Those(s, A)
<1>1. /\ Those(s, A) \in Seq(Y)
      /\ \E g \in [1..Len(Those(s, A)) -> 1..Len(s)] :
           /\ \A i \in 1..Len(Those(s, A)) : Those(s, A)[i] = s[g[i]] /\ s[g[i]] \in A
           /\ \A i, j \in 1..Len(Those(s, A)) : g[i] = g[j] => i = j
           /\ \A k \in 1..Len(s) : s[k] \in A => \E i \in 1..Len(Those(s, A)) : g[i] = k
  BY ThoseLeft
<1>2. p \in Seq(Y)
  BY <1>1
<1>3. PICK g \in [1..Len(p) -> 1..Len(s)] :
           /\ \A i \in 1..Len(p) : p[i] = s[g[i]] /\ s[g[i]] \in A
           /\ \A k \in 1..Len(s) : s[k] \in A => \E i \in 1..Len(p) : g[i] = k
  BY <1>1
<1> HIDE DEF p
<1>4. DOMAIN p = 1..Len(p) /\ DOMAIN s = 1..Len(s)
  BY <1>2, LenProperties
<1>5. ASSUME NEW x, x \in ToSet(p) PROVE x \in ToSet(s) /\ x \in A
  <2>1. PICK i \in 1..Len(p) : x = p[i]
    BY <1>4, <1>5 DEF ToSet
  <2>2. g[i] \in DOMAIN s /\ x = s[g[i]] /\ x \in A
    BY <1>3, <1>4, <2>1
  <2> QED  BY <2>2 DEF ToSet
<1>6. ASSUME NEW x, x \in ToSet(s), x \in A PROVE x \in ToSet(p)
  <2>1. PICK k \in 1..Len(s) : x = s[k]
    BY <1>4, <1>6 DEF ToSet
  <2>2. PICK i \in 1..Len(p) : g[i] = k
    BY <1>3, <1>6, <2>1
  <2>3. i \in DOMAIN p /\ x = p[i]
    BY <1>3, <1>4, <2>1, <2>2
  <2> QED  BY <2>3 DEF ToSet
<1> QED  BY <1>2, <1>5, <1>6 DEF p

-----------------------------------------------------------------------------
(* ControlPlane: one connection served.                                    *)

PassStates ==
  [conns : [Conns -> Peers], queue : Seq(Conns), requests : Requested, layouts : LayoutStates,
   config : Configurations, watch : BOOLEAN]

\* A request is a kind of request, what cannot be decoded, or not there yet.
LEMMA FrameIs ==
  ASSUME NEW c \in Conns, NEW k \in Peers, PeerTrue(k, c), k.link # "none", ~k.done
  PROVE  /\ c = "stream" => Frame(k) \in {None, "subscribe"}
         /\ c = "query" => Frame(k) \in {None, "query"}
         /\ c \in Others => Frame(k) \in {None, "junk"} \cup Commands
         /\ Frame(k) # None => k.sent # "nothing"
         /\ Frame(k) = "spawn" => k.asks = "spawn" /\ k.sent # "part"
         /\ Frame(k) = "next" => k.asks = "next"
         /\ k.asks = "spawn" /\ k.sent # "part" /\ Frame(k) # None => Frame(k) = "spawn"
         /\ k.sent # "nothing" /\ k.eof => Frame(k) # None
<1>1. k.sent \in {"nothing", "part", "bare", "line"} /\ k.eof \in BOOLEAN
  BY DEF Peers
<1>2. c \notin Others => ~k.eof /\ k.sent \in {"nothing", "line"}
  BY DEF PeerTrue
<1>3. /\ c = "stream" => k.asks = "subscribe"
      /\ c = "query" => k.asks = "query"
      /\ c \in Others => k.asks \in Commands
      /\ k.asks # None
  BY ControlConstants DEF PeerTrue
<1>4. k.sent = "line" => Frame(k) = k.asks
  BY DEF Frame
<1>5. k.sent = "bare" => Frame(k) = IF k.eof THEN k.asks ELSE None
  BY DEF Frame
<1>6. k.sent = "part" => Frame(k) = IF k.eof THEN "junk" ELSE None
  BY DEF Frame
<1>7. k.sent = "nothing" => Frame(k) = None
  BY DEF Frame
<1>8. "junk" # "spawn" /\ "junk" # "next" /\ None # "junk" /\ None # "spawn" /\ None # "next"
  BY ControlConstants
<1>9. /\ c = "stream" => Frame(k) \in {None, "subscribe"}
      /\ c = "query" => Frame(k) \in {None, "query"}
  BY <1>1, <1>2, <1>3, <1>4, <1>7, ControlConstants
<1>10. c \in Others => Frame(k) \in {None, "junk"} \cup Commands
  BY <1>1, <1>3, <1>4, <1>5, <1>6, <1>7
<1>11. /\ Frame(k) # None => k.sent # "nothing"
       /\ Frame(k) = "spawn" => k.asks = "spawn" /\ k.sent # "part"
       /\ Frame(k) = "next" => k.asks = "next"
  BY <1>1, <1>4, <1>5, <1>6, <1>7, <1>8
<1>12. /\ k.asks = "spawn" /\ k.sent # "part" /\ Frame(k) # None => Frame(k) = "spawn"
       /\ k.sent # "nothing" /\ k.eof => Frame(k) # None
  BY <1>1, <1>3, <1>4, <1>5, <1>6, <1>7, <1>8
<1> QED  BY <1>9, <1>10, <1>11, <1>12

\* A layout is switched within the list.
LEMMA SwitchedIs ==
  ASSUME NEW l \in LayoutStates
  PROVE  Switched(l) \in LayoutStates /\ Switched(l).names = l.names
<1>1. PICK v \in DOMAIN Configs : \E i \in DOMAIN Configs[v].layouts : l = [names |-> Configs[v].layouts, active |-> i]
  BY LayoutStateIs
<1>2. PICK i \in DOMAIN Configs[v].layouts : l = [names |-> Configs[v].layouts, active |-> i]
  BY <1>1
<1> DEFINE n == Len(Configs[v].layouts)
<1>3. n \in Nat \ {0} /\ DOMAIN Configs[v].layouts = 1..n /\ i \in 1..n
  BY <1>2, ConfigsSound
<1>4. Len(l.names) = n /\ l.active = i
  BY <1>2
<1> HIDE DEF n
<1>5. (i % n) + 1 \in 1..n
  BY <1>3
<1>6. Switched(l) = [l EXCEPT !.active = (i % n) + 1]
  BY <1>4 DEF Switched
<1>7. Switched(l) = [names |-> Configs[v].layouts, active |-> (i % n) + 1]
  BY <1>2, <1>6
<1> QED  BY <1>2, <1>3, <1>5, <1>7, LayoutStateIs

\* The reply to a query is the snapshot.
LEMMA ReplyIs ==
  ASSUME ControlTyped, NEW r
  PROVE  /\ Reply(r) \in Answers /\ Reply(r).topic = "reply"
         /\ r = "query" => Reply(r) = Event("reply", cache)
<1>1. cache \in Snapshots
  BY DEF ControlTyped
<1> QED  BY <1>1 DEF Reply, Event, Answers

\* A connection with its answer, and in place of another.
AnswerTo(k, r) == [k EXCEPT !.done = TRUE, !.out = <<Reply(r)>>, !.subscribed = (r = "subscribe")]
Put(s, c, l) == [s EXCEPT !.conns[c] = l]

\* The first half of pump: a request that is complete is carried out, once.
LEMMA AnsweredIs ==
  ASSUME ControlTyped, NEW s \in PassStates, NEW c \in Conns, PeerTrue(s.conns[c], c), s.conns[c].link # "none",
         NEW k, k = s.conns[c], NEW r, r = Frame(k), NEW a, a = Answered(s, c)
  PROVE  /\ k.done \/ r = None => a = s
         /\ ~k.done /\ r # None =>
              /\ a \in PassStates
              /\ a.conns = [s.conns EXCEPT ![c] = AnswerTo(k, r)]
              /\ a.requests = Queued(s.requests, r, c)
              /\ a.layouts = IF r = "next" THEN Switched(s.layouts) ELSE s.layouts
              /\ a.queue = s.queue /\ a.config = s.config /\ a.watch = s.watch
<1>1. CASE k.done \/ r = None
  BY <1>1 DEF Answered
<1>2. CASE ~k.done /\ r # None
  <2> DEFINE e == Effect(s, r, c)
             l == [k EXCEPT !.done = TRUE, !.out = <<Reply(r)>>, !.subscribed = (r = "subscribe")]
  <2>1. k \in Peers
    BY DEF PassStates
  <2>2. /\ e.conns = s.conns /\ e.queue = s.queue /\ e.config = s.config /\ e.watch = s.watch
        /\ e.layouts = IF r = "next" THEN Switched(s.layouts) ELSE s.layouts
        /\ e.requests = Queued(s.requests, r, c)
        /\ e = [conns |-> e.conns, queue |-> e.queue, requests |-> e.requests, layouts |-> e.layouts,
                config |-> e.config, watch |-> e.watch]
    <3>1. s = [conns |-> s.conns, queue |-> s.queue, requests |-> s.requests, layouts |-> s.layouts,
               config |-> s.config, watch |-> s.watch]
      BY DEF PassStates
    <3>2. e = [s EXCEPT !.layouts = IF r = "next" THEN Switched(s.layouts) ELSE s.layouts,
                        !.requests = Queued(s.requests, r, c)]
      BY <3>1 DEF Effect
    <3>3. e = [conns |-> s.conns, queue |-> s.queue, requests |-> Queued(s.requests, r, c),
               layouts |-> IF r = "next" THEN Switched(s.layouts) ELSE s.layouts,
               config |-> s.config, watch |-> s.watch]
      <4> HIDE DEF e
      <4> QED  BY <3>1, <3>2
    <3> HIDE DEF e
    <3> QED  BY <3>3
  <2>3. a = [e EXCEPT !.conns = [e.conns EXCEPT ![c] = l]]
    BY <1>2 DEF Answered
  <2> HIDE DEF e
  <2>4. s.conns \in [Conns -> Peers] /\ s.conns[c] = k
    BY DEF PassStates
  <2>5. a = [e EXCEPT !.conns = [s.conns EXCEPT ![c] = l]]
    BY <2>2, <2>3
  <2>6. <<Reply(r)>> \in Seq(Notes \cup Answers)
    BY ReplyIs
  <2>7. l \in Peers
    BY <2>1, <2>6 DEF Peers
  <2> HIDE DEF l
  <2>8. [s.conns EXCEPT ![c] = l] \in [Conns -> Peers]
    BY <2>4, <2>7
  <2>9. s.requests \in Requested /\ s.layouts \in LayoutStates /\ s.queue \in Seq(Conns)
        /\ s.config \in Configurations /\ s.watch \in BOOLEAN
    BY DEF PassStates
  <2>10. e.layouts \in LayoutStates
    BY <2>2, <2>9, SwitchedIs
  <2>11. e.requests \in Requested
    <3>1. r = "spawn" => c \in Others
      BY <1>2, <2>1, FrameIs, ControlConstants
    <3>2. c \in Others => Append(s.requests.commands, c) \in Seq(Others)
      BY <2>9, AppendProperties DEF Requested
    <3>3. CASE r = "spawn"
      BY <2>2, <2>9, <3>1, <3>2, <3>3 DEF Queued, Requested
    <3>4. CASE r \in {"reload", "quit", "control"}
      <4>1. e.requests \in {[s.requests EXCEPT !.reload = TRUE], [s.requests EXCEPT !.quit = TRUE],
                            [s.requests EXCEPT !.controls = @ + 1]}
        BY <2>2, <3>4 DEF Queued
      <4>2. \A q \in Requested : [q EXCEPT !.reload = TRUE] \in Requested
        BY DEF Requested
      <4>3. \A q \in Requested : [q EXCEPT !.quit = TRUE] \in Requested
        BY DEF Requested
      <4>4. \A q \in Requested : [q EXCEPT !.controls = @ + 1] \in Requested
        BY DEF Requested
      <4> QED  BY <2>9, <4>1, <4>2, <4>3, <4>4
    <3>5. CASE r \notin {"spawn", "reload", "quit", "control"}
      BY <2>2, <2>9, <3>5 DEF Queued
    <3> QED  BY <3>3, <3>4, <3>5
  <2>12. a = [conns |-> [s.conns EXCEPT ![c] = l], queue |-> e.queue, requests |-> e.requests,
              layouts |-> e.layouts, config |-> e.config, watch |-> e.watch]
    BY <2>2, <2>5
  <2>13. a \in PassStates
    BY <2>2, <2>8, <2>9, <2>10, <2>11, <2>12 DEF PassStates
  <2> QED  BY <1>2, <2>2, <2>12, <2>13 DEF l, AnswerTo
<1> QED  BY <1>1, <1>2

LEMMA JoinedIs ==
  ASSUME NEW Y
  PROVE  \A p, q \in Seq(Y) :
           /\ Joined(p, q) \in Seq(Y) /\ Len(Joined(p, q)) = Len(p) + Len(q)
           /\ \A i \in 1 .. Len(p) + Len(q) : Joined(p, q)[i] = IF i <= Len(p) THEN p[i] ELSE q[i - Len(p)]
BY ConcatProperties DEF Joined

LEMMA JoinedTwice ==
  ASSUME NEW Y
  PROVE  \A p, q, r \in Seq(Y) : Joined(Joined(p, q), r) = Joined(p, Joined(q, r))
BY ConcatAssociative DEF Joined

LEMMA JoinedEmpty ==
  ASSUME NEW Y
  PROVE  \A p \in Seq(Y) : Joined(p, <<>>) = p /\ Joined(<<>>, p) = p
BY ConcatEmptySeq DEF Joined

LEMMA CutInTwo ==
  ASSUME NEW Y, NEW out \in Seq(Y), NEW n \in 0..Len(out)
  PROVE  Joined(SubSeq(out, 1, n), SubSeq(out, n + 1, Len(out))) = out
<1>1. Len(out) \in Nat
  BY LenProperties
<1>2. 1 \in 1 .. Len(out) + 1 /\ n \in 1 - 1 .. Len(out) /\ Len(out) \in n .. Len(out)
  BY <1>1
<1>3. SubSeq(out, 1, n) \o SubSeq(out, n + 1, Len(out)) = SubSeq(out, 1, Len(out))
  BY <1>2, ConcatAdjacentSubSeq
<1> QED  BY <1>3, SubSeqFull DEF Joined

\* What is written is moved from one queue into the other.
LEMMA Moved ==
  ASSUME NEW Y, NEW out \in Seq(Y), NEW down \in Seq(Y), NEW n \in 0..Len(out)
  PROVE  /\ SubSeq(out, n + 1, Len(out)) \in Seq(Y)
         /\ Joined(down, SubSeq(out, 1, n)) \in Seq(Y) /\ Len(Joined(down, SubSeq(out, 1, n))) = Len(down) + n
         /\ Joined(Joined(down, SubSeq(out, 1, n)), SubSeq(out, n + 1, Len(out))) = Joined(down, out)
         /\ out = <<>> => SubSeq(out, n + 1, Len(out)) = <<>> /\ Joined(down, SubSeq(out, 1, n)) = down
<1>1. Len(out) \in Nat /\ n \in Nat /\ n \in Int /\ n + 1 \in Int /\ 1 \in Int /\ n <= Len(out) /\ Len(out) \in Int
  BY LenProperties
<1>2. \A i \in 1..n : out[i] \in Y
  BY <1>1, ElementOfSeq
<1>3. \A i \in n + 1 .. Len(out) : out[i] \in Y
  BY <1>1, ElementOfSeq
<1>4. SubSeq(out, 1, n) \in Seq(Y) /\ Len(SubSeq(out, 1, n)) = IF 1 <= n THEN n - 1 + 1 ELSE 0
  BY <1>1, <1>2, SubSeqProperties
<1>5. Len(SubSeq(out, 1, n)) = n
  BY <1>1, <1>4
<1>6. SubSeq(out, n + 1, Len(out)) \in Seq(Y)
  BY <1>1, <1>3, SubSeqProperties
<1>7. Joined(SubSeq(out, 1, n), SubSeq(out, n + 1, Len(out))) = out
  BY CutInTwo
<1>8. out = <<>> => SubSeq(out, n + 1, Len(out)) = <<>> /\ SubSeq(out, 1, n) = <<>>
  <2> SUFFICES ASSUME out = <<>> PROVE SubSeq(out, n + 1, Len(out)) = <<>> /\ SubSeq(out, 1, n) = <<>>
    OBVIOUS
  <2>1. Len(out) = 0 /\ n = 0
    BY <1>1, EmptySeq
  <2> QED  BY <2>1, SubSeqEmpty
<1> DEFINE p == SubSeq(out, 1, n)
           q == SubSeq(out, n + 1, Len(out))
<1>9. p \in Seq(Y) /\ q \in Seq(Y) /\ Len(p) = n /\ Joined(p, q) = out /\ (out = <<>> => p = <<>> /\ q = <<>>)
  BY <1>4, <1>5, <1>6, <1>7, <1>8
<1> SUFFICES /\ q \in Seq(Y)
             /\ Joined(down, p) \in Seq(Y) /\ Len(Joined(down, p)) = Len(down) + n
             /\ Joined(Joined(down, p), q) = Joined(down, out)
             /\ out = <<>> => q = <<>> /\ Joined(down, p) = down
  OBVIOUS
<1> HIDE DEF p, q
<1>10. Joined(down, p) \in Seq(Y) /\ Len(Joined(down, p)) = Len(down) + n
  BY <1>9, JoinedIs
<1>11. Joined(Joined(down, p), q) = Joined(down, out)
  BY <1>9, JoinedTwice
<1>12. out = <<>> => Joined(down, p) = down
  BY <1>9, JoinedEmpty
<1> QED  BY <1>9, <1>10, <1>11, <1>12

\* What is written of what a connection has still to read.
WrittenTo(k, l) ==
  /\ l.asks = k.asks /\ l.sent = k.sent /\ l.eof = k.eof /\ l.reads = k.reads /\ l.done = k.done
  /\ l.subscribed = k.subscribed
  /\ l.link = k.link \/ l.link = "closed"
  /\ Way(l) = Way(k)
  /\ k.out = <<>> => l.out = <<>> /\ l.down = k.down
  /\ Len(l.down) <= Capacity
  /\ l.link = "closed" => k.link = "closed" \/ (k.out # <<>> /\ ~k.reads)
                            \/ (k.done /\ (k.subscribed => k.eof))
  /\ l.link = "closed" /\ k.link # "closed" => ~k.reads \/ l.out = <<>>
  /\ ~k.reads /\ k.done /\ (k.subscribed => k.eof) => l.link = "closed"

\* The second half of pump: nothing is lost on the way, and what is over is closed.
LEMMA WrittenIs ==
  ASSUME NEW s, NEW c, NEW full, NEW k
  PROVE  k = s.conns[c] /\ k \in Peers /\ Len(k.down) <= Capacity =>
           \E l \in Peers : WrittenTo(k, l) /\ Written(s, c, full) = Put(s, c, l)
<1>1. SUFFICES ASSUME k = s.conns[c], k \in Peers, Len(k.down) <= Capacity
               PROVE  \E l \in Peers : WrittenTo(k, l) /\ Written(s, c, full) = Put(s, c, l)
  OBVIOUS
<1>2. k.out \in Seq(Notes \cup Answers) /\ k.down \in Seq(Notes \cup Answers)
      /\ k.link \in {"none", "waits", "kept", "closed"} /\ k.done \in BOOLEAN /\ k.reads \in BOOLEAN
  BY <1>1 DEF Peers
<1>3. Len(k.out) \in Nat /\ Len(k.down) \in Nat
  BY <1>2, LenProperties
<1> DEFINE Y == Notes \cup Answers
           out == k.out
           down == k.down
           room == IF c \in full THEN 0 ELSE Capacity - Len(down)
           n    == IF Len(out) < room THEN Len(out) ELSE room
           rest == SubSeq(out, n + 1, Len(out))
           moved == Joined(down, SubSeq(out, 1, n))
           over == \/ k.out # <<>> /\ ~k.reads
                   \/ rest = <<>> /\ k.done /\ (k.subscribed => k.eof)
           l    == [k EXCEPT !.out  = IF k.reads THEN rest ELSE @,
                             !.down = IF k.reads THEN @ \o SubSeq(k.out, 1, n) ELSE @,
                             !.link = IF over THEN "closed" ELSE @]
<1>4. Written(s, c, full) = Put(s, c, l)
  BY <1>1 DEF Written, Put
<1>5. room \in Nat /\ Len(down) + room <= Capacity
  <2>1. Capacity \in Nat
    BY ControlConstants
  <2>2. Capacity - Len(down) \in Nat /\ Len(down) + (Capacity - Len(down)) = Capacity
    BY <1>1, <1>3, <2>1
  <2>3. CASE c \in full
    <3>1. room = 0
      BY <2>3
    <3> QED  BY <1>3, <2>2, <3>1
  <2>4. CASE c \notin full
    <3>1. room = Capacity - Len(down)
      BY <2>4
    <3> QED  BY <2>2, <3>1
  <2> QED  BY <2>3, <2>4
<1> HIDE DEF room
<1>6. n \in 0..Len(out) /\ n <= room /\ n \in Nat
  BY <1>3, <1>5
<1>w. Way(k) = Joined(down, out)
  BY DEF Way
<1>11. l = [k EXCEPT !.out  = IF k.reads THEN rest ELSE out,
                     !.down = IF k.reads THEN moved ELSE down,
                     !.link = IF over THEN "closed" ELSE k.link]
  BY <1>1 DEF Peers, Joined
<1>a. down \in Seq(Y) /\ out \in Seq(Y)
  BY <1>2
<1> HIDE DEF n, Y, l
<1>7. /\ rest \in Seq(Y) /\ moved \in Seq(Y)
      /\ Len(moved) = Len(down) + n
      /\ Joined(moved, rest) = Joined(down, out)
      /\ out = <<>> => rest = <<>> /\ moved = down
  <2> HIDE DEF down, out
  <2>1. /\ SubSeq(out, n + 1, Len(out)) \in Seq(Y)
        /\ Joined(down, SubSeq(out, 1, n)) \in Seq(Y) /\ Len(Joined(down, SubSeq(out, 1, n))) = Len(down) + n
        /\ Joined(Joined(down, SubSeq(out, 1, n)), SubSeq(out, n + 1, Len(out))) = Joined(down, out)
        /\ out = <<>> => SubSeq(out, n + 1, Len(out)) = <<>> /\ Joined(down, SubSeq(out, 1, n)) = down
    <3> HIDE DEF rest, moved, over
    <3> QED  BY <1>a, <1>6, Moved
  <2> QED  BY <2>1
<1>10. Len(moved) <= Capacity
  <2>1. Len(moved) = Len(down) + n /\ n <= room /\ Len(down) + room <= Capacity
    BY <1>5, <1>6, <1>7
  <2>2. Capacity \in Nat /\ Len(down) \in Nat /\ n \in Nat /\ room \in Nat
    BY <1>3, <1>5, <1>6, ControlConstants
  <2> HIDE DEF moved, down
  <2> QED  BY <2>1, <2>2
<1>p. rest \in Seq(Notes \cup Answers) /\ moved \in Seq(Notes \cup Answers)
  BY <1>7 DEF Y
<1> HIDE DEF moved, rest
<1>12. l = [link |-> IF over THEN "closed" ELSE k.link, asks |-> k.asks, sent |-> k.sent, eof |-> k.eof,
            reads |-> k.reads, done |-> k.done, subscribed |-> k.subscribed,
            out |-> IF k.reads THEN rest ELSE out, down |-> IF k.reads THEN moved ELSE down]
  <2> HIDE DEF over
  <2> QED  BY <1>1, <1>11 DEF Peers
<1>13. l \in Peers
  <2> HIDE DEF over
  <2>1. (IF k.reads THEN rest ELSE out) \in Seq(Notes \cup Answers)
        /\ (IF k.reads THEN moved ELSE down) \in Seq(Notes \cup Answers)
    BY <1>2, <1>p
  <2>2. (IF over THEN "closed" ELSE k.link) \in {"none", "waits", "kept", "closed"}
    BY <1>2
  <2> QED  BY <1>1, <1>12, <2>1, <2>2 DEF Peers
<1>15. /\ l.asks = k.asks /\ l.sent = k.sent /\ l.eof = k.eof /\ l.reads = k.reads /\ l.done = k.done
       /\ l.subscribed = k.subscribed
       /\ l.link = IF over THEN "closed" ELSE k.link
       /\ l.out = IF k.reads THEN rest ELSE k.out
       /\ l.down = IF k.reads THEN moved ELSE k.down
  <2> HIDE DEF over
  <2> QED  BY <1>12
<1>16. Way(l) = Way(k) /\ Len(l.down) <= Capacity
       /\ (k.out = <<>> => l.out = <<>> /\ l.down = k.down)
  <2> HIDE DEF over
  <2>1. CASE k.reads
    <3>1. l.out = rest /\ l.down = moved
      BY <1>15, <2>1
    <3> QED  BY <1>7, <1>10, <1>w, <3>1 DEF Way
  <2>2. CASE ~k.reads
    <3>1. l.out = k.out /\ l.down = k.down
      BY <1>15, <2>2
    <3> QED  BY <1>1, <3>1 DEF Way
  <2> QED  BY <2>1, <2>2
<1>17. /\ l.link = "closed" => k.link = "closed" \/ (k.out # <<>> /\ ~k.reads)
                                     \/ (k.done /\ (k.subscribed => k.eof))
       /\ l.link = "closed" /\ k.link # "closed" => ~k.reads \/ l.out = <<>>
  BY <1>15 DEF over
<1>18. ~k.reads /\ k.done /\ (k.subscribed => k.eof) => l.link = "closed"
  BY <1>7, <1>15 DEF over
<1>19. WrittenTo(k, l)
  <2>1. l.link = k.link \/ l.link = "closed"
    BY <1>15
  <2> QED  BY <1>15, <1>16, <1>17, <1>18, <2>1 DEF WrittenTo
<1> QED  BY <1>4, <1>13, <1>19

\* What serving a connection does to it.
PeerServed(k, l, c) ==
  /\ l.asks = k.asks /\ l.sent = k.sent /\ l.eof = k.eof /\ l.reads = k.reads
  /\ k.done => l.done
  /\ k.link \notin {"kept", "closed"} => l = k
  /\ l.link = k.link \/ (k.link = "kept" /\ l.link = "closed")
  /\ \/ Way(l) = Way(k)
     \/ /\ Way(k) = <<>> /\ ~k.done /\ l.done
        /\ \E r \in Answers : Way(l) = <<r>> /\ (c = "query" => r = Event("reply", cache))
Attended(l) == l.link = "kept" /\ ~l.reads => l.sent = "nothing"

\* What its request does to the rest.
Asked(s, u, c) ==
  \/ u.conns[c].done = s.conns[c].done /\ u.requests = s.requests /\ u.layouts = s.layouts
  \/ /\ ~s.conns[c].done /\ u.conns[c].done
     /\ \E r : /\ c \in Others => r \in {"junk"} \cup Commands
               /\ c \notin Others => r \in {"subscribe", "query"}
               /\ r = "next" => u.conns[c].asks = "next"
               /\ r = "spawn" <=> Launches(u.conns[c])
               /\ u.requests = Queued(s.requests, r, c)
               /\ u.layouts = IF r = "next" THEN Switched(s.layouts) ELSE s.layouts
Pumped(s, u, c) ==
  /\ u \in PassStates /\ u.queue = s.queue /\ u.config = s.config /\ u.watch = s.watch
  /\ \A d \in Conns \ {c} : u.conns[d] = s.conns[d]
  /\ PeerTrue(u.conns[c], c) /\ PeerServed(s.conns[c], u.conns[c], c) /\ Attended(u.conns[c])
  /\ Asked(s, u, c)

\* A connection in place of another.
LEMMA ConnPut ==
  ASSUME NEW s \in PassStates, NEW c \in Conns, NEW l \in Peers, NEW u, u = Put(s, c, l)
  PROVE  /\ u \in PassStates /\ u.conns[c] = l /\ \A d \in Conns \ {c} : u.conns[d] = s.conns[d]
         /\ u.queue = s.queue /\ u.requests = s.requests /\ u.layouts = s.layouts
         /\ u.config = s.config /\ u.watch = s.watch
<1>1. s.conns \in [Conns -> Peers]
  BY DEF PassStates
<1>2. [s.conns EXCEPT ![c] = l] \in [Conns -> Peers]
  BY <1>1
<1>3. u = [s EXCEPT !.conns = [s.conns EXCEPT ![c] = l]]
  BY DEF Put
<1>4. s = [conns |-> s.conns, queue |-> s.queue, requests |-> s.requests, layouts |-> s.layouts,
           config |-> s.config, watch |-> s.watch]
  BY DEF PassStates
<1>5. u = [conns |-> [s.conns EXCEPT ![c] = l], queue |-> s.queue, requests |-> s.requests, layouts |-> s.layouts,
           config |-> s.config, watch |-> s.watch]
  BY <1>3, <1>4
<1>6. u \in PassStates
  BY <1>2, <1>5 DEF PassStates
<1> QED  BY <1>1, <1>5, <1>6

\* A connection with nothing to answer.
LEMMA PumpWrites ==
  ASSUME NEW k \in Peers, NEW l, NEW c \in Conns
  PROVE  WrittenTo(k, l) /\ PeerTrue(k, c) /\ k.link \in {"kept", "closed"} /\ (k.done \/ Frame(k) = None)
         => PeerTrue(l, c) /\ PeerServed(k, l, c) /\ Attended(l)
<1> SUFFICES ASSUME WrittenTo(k, l), PeerTrue(k, c), k.link \in {"kept", "closed"}, k.done \/ Frame(k) = None
             PROVE  PeerTrue(l, c) /\ PeerServed(k, l, c) /\ Attended(l)
  OBVIOUS
<1>1. /\ l.asks = k.asks /\ l.sent = k.sent /\ l.eof = k.eof /\ l.reads = k.reads /\ l.done = k.done
      /\ l.subscribed = k.subscribed
      /\ l.link = k.link \/ l.link = "closed"
      /\ Way(l) = Way(k)
      /\ k.out = <<>> => l.out = <<>> /\ l.down = k.down
      /\ Len(l.down) <= Capacity
  BY DEF WrittenTo
<1>2. /\ l.link = "closed" => k.link = "closed" \/ (k.out # <<>> /\ ~k.reads)
                            \/ (k.done /\ (k.subscribed => k.eof))
      /\ l.link = "closed" /\ k.link # "closed" => ~k.reads \/ l.out = <<>>
      /\ ~k.reads /\ k.done /\ (k.subscribed => k.eof) => l.link = "closed"
  BY DEF WrittenTo
<1>3. /\ ~k.done => k.out = <<>> /\ k.down = <<>>
      /\ k.done => k.sent # "nothing"
      /\ ~k.reads => k.eof
      /\ k.asks # None
      /\ k.link = "closed" => k.done /\ (k.out = <<>> \/ ~k.reads)
  BY DEF PeerTrue
<1>4. /\ k.subscribed => c = "stream" /\ k.done
      /\ c \notin Others => k.reads /\ ~k.eof /\ k.sent \in {"nothing", "line"}
      /\ c = "stream" => /\ k.asks \in {None, "subscribe", "answered"} /\ k.link # "closed"
                         /\ k.done => k.subscribed
                         /\ k.asks = "answered" => k.done
      /\ c = "query" => k.asks \in {None, "query"}
      /\ c \in Others => k.asks \in {None} \cup Commands
  BY DEF PeerTrue
<1>5. l.link = "closed" => l.done /\ (l.out = <<>> \/ ~l.reads)
  BY <1>1, <1>2, <1>3
<1>6. c = "stream" => l.link # "closed"
  BY <1>1, <1>2, <1>4, ControlConstants
<1>7. l.link \in {"kept", "closed"}
  BY <1>1
<1>8. /\ l.link # "none" /\ l.link # "waits"
      /\ l.asks # None
      /\ ~l.done => l.out = <<>> /\ l.down = <<>>
      /\ l.done => l.sent # "nothing"
      /\ ~l.reads => l.eof
  BY <1>1, <1>3, <1>7
<1>9. /\ l.subscribed => c = "stream" /\ l.done
      /\ c \notin Others => l.reads /\ ~l.eof /\ l.sent \in {"nothing", "line"}
      /\ c = "query" => l.asks \in {None, "query"}
      /\ c \in Others => l.asks \in {None} \cup Commands
  BY <1>1, <1>4
<1>10. c = "stream" => /\ l.asks \in {None, "subscribe", "answered"} /\ l.link # "closed"
                       /\ l.done => l.subscribed
                       /\ l.asks = "answered" => l.done
  BY <1>1, <1>4, <1>6
<1>11. PeerTrue(l, c)
  BY <1>1, <1>5, <1>8, <1>9, <1>10 DEF PeerTrue
<1>12. PeerServed(k, l, c)
  BY <1>1 DEF PeerServed
<1>13. Attended(l)
  <2> SUFFICES ASSUME l.link = "kept", ~l.reads, l.sent # "nothing" PROVE FALSE
    BY DEF Attended
  <2>1. k.eof /\ k.sent # "nothing" /\ ~k.reads
    BY <1>1, <1>3
  <2>2. k.done
    BY <2>1, FrameIs
  <2>3. k.subscribed => k.eof
    BY <2>1
  <2> QED  BY <1>1, <1>2, <2>1, <2>2, <2>3
<1> QED  BY <1>11, <1>12, <1>13

\* A connection that is answered: k, with the answer m, with what is written of it l.
LEMMA PumpAnswers ==
  ASSUME ControlTyped, NEW k \in Peers, NEW l, NEW c \in Conns, NEW r, NEW m
  PROVE  /\ r = Frame(k) /\ ~k.done /\ r # None /\ k.link \in {"kept", "closed"} /\ PeerTrue(k, c)
         /\ m = AnswerTo(k, r)
         /\ WrittenTo(m, l)
         => /\ PeerTrue(l, c) /\ PeerServed(k, l, c) /\ Attended(l) /\ l.done /\ l.asks = k.asks
            /\ c \in Others => r \in {"junk"} \cup Commands
            /\ c \notin Others => r \in {"subscribe", "query"}
            /\ r = "next" => l.asks = "next"
            /\ r = "spawn" <=> Launches(l)
<1> SUFFICES ASSUME r = Frame(k), ~k.done, r # None, k.link \in {"kept", "closed"}, PeerTrue(k, c),
                    m = AnswerTo(k, r),
                    WrittenTo(m, l)
             PROVE  /\ PeerTrue(l, c) /\ PeerServed(k, l, c) /\ Attended(l) /\ l.done /\ l.asks = k.asks
                    /\ c \in Others => r \in {"junk"} \cup Commands
                    /\ c \notin Others => r \in {"subscribe", "query"}
                    /\ r = "next" => l.asks = "next"
                    /\ r = "spawn" <=> Launches(l)
  OBVIOUS
<1>1. m = [link |-> k.link, asks |-> k.asks, sent |-> k.sent, eof |-> k.eof, reads |-> k.reads, done |-> TRUE,
           subscribed |-> (r = "subscribe"), out |-> <<Reply(r)>>, down |-> k.down]
  BY DEF Peers, AnswerTo
<1>2. /\ m.link = k.link /\ m.asks = k.asks /\ m.sent = k.sent /\ m.eof = k.eof /\ m.reads = k.reads
      /\ m.done = TRUE /\ m.subscribed = (r = "subscribe") /\ m.out = <<Reply(r)>> /\ m.down = k.down
  BY <1>1
<1>3. /\ l.asks = m.asks /\ l.sent = m.sent /\ l.eof = m.eof /\ l.reads = m.reads /\ l.done = m.done
      /\ l.subscribed = m.subscribed
      /\ l.link = m.link \/ l.link = "closed"
      /\ Way(l) = Way(m)
      /\ Len(l.down) <= Capacity
      /\ l.link = "closed" /\ m.link # "closed" => ~m.reads \/ l.out = <<>>
      /\ l.link = "closed" => m.link = "closed" \/ (m.out # <<>> /\ ~m.reads)
                                \/ (m.done /\ (m.subscribed => m.eof))
      /\ ~m.reads /\ m.done /\ (m.subscribed => m.eof) => l.link = "closed"
  BY DEF WrittenTo
<1>4. /\ k.out = <<>> /\ k.down = <<>> /\ k.link = "kept"
      /\ ~k.reads => k.eof
      /\ c \notin Others => k.reads /\ ~k.eof /\ k.sent \in {"nothing", "line"}
      /\ c = "stream" => k.asks \in {None, "subscribe", "answered"}
      /\ c = "query" => k.asks \in {None, "query"}
      /\ c \in Others => k.asks \in {None} \cup Commands
      /\ k.asks # None
  BY DEF PeerTrue
<1>5. /\ c = "stream" => r = "subscribe"
      /\ c = "query" => r = "query"
      /\ c \in Others => r \in {"junk"} \cup Commands
      /\ k.sent # "nothing"
      /\ r = "spawn" => k.asks = "spawn" /\ k.sent # "part"
      /\ r = "next" => k.asks = "next"
      /\ k.asks = "spawn" /\ k.sent # "part" => r = "spawn"
  BY FrameIs
<1>6. r = "subscribe" => c = "stream"
  BY <1>5, ControlConstants DEF Commands
<1>7. /\ l.asks = k.asks /\ l.sent = k.sent /\ l.eof = k.eof /\ l.reads = k.reads /\ l.done
      /\ l.subscribed = (r = "subscribe") /\ l.link \in {"kept", "closed"}
      /\ l.link = "closed" => ~l.reads \/ l.out = <<>>
  BY <1>2, <1>3, <1>4
<1>8. c = "stream" => l.link # "closed"
  <2>1. c = "stream" => m.link = "kept" /\ m.reads /\ ~m.eof /\ m.subscribed
    BY <1>2, <1>4, <1>5, ControlConstants
  <2> QED  BY <1>3, <2>1
<1>9. /\ l.subscribed => c = "stream" /\ l.done
      /\ c \notin Others => l.reads /\ ~l.eof /\ l.sent \in {"nothing", "line"}
      /\ c = "query" => l.asks \in {None, "query"}
      /\ c \in Others => l.asks \in {None} \cup Commands
      /\ c = "stream" => l.asks \in {None, "subscribe", "answered"} /\ l.subscribed
      /\ l.asks # None /\ l.sent # "nothing" /\ (~l.reads => l.eof)
  BY <1>4, <1>5, <1>6, <1>7
<1>10. PeerTrue(l, c)
  BY <1>3, <1>7, <1>8, <1>9 DEF PeerTrue
<1>11. Way(k) = <<>> /\ Way(l) = <<Reply(r)>>
  <2>1. <<>> \in Seq(Answers) /\ <<Reply(r)>> \in Seq(Answers)
    BY ReplyIs
  <2>2. Joined(<<>>, <<>>) = <<>> /\ Joined(<<>>, <<Reply(r)>>) = <<Reply(r)>>
    BY <2>1, JoinedEmpty
  <2> QED  BY <1>2, <1>3, <1>4, <2>2 DEF Way
<1>12. PeerServed(k, l, c)
  <2>1. Reply(r) \in Answers /\ (c = "query" => Reply(r) = Event("reply", cache))
    BY <1>5, ReplyIs
  <2> QED  BY <1>4, <1>7, <1>11, <2>1 DEF PeerServed
<1>13. Attended(l)
  <2> SUFFICES ASSUME l.link = "kept", ~l.reads PROVE FALSE
    BY DEF Attended
  <2>1. k.eof /\ ~m.reads /\ m.done /\ m.eof
    BY <1>2, <1>4, <1>7
  <2> QED  BY <1>3, <2>1
<1>14. r = "spawn" <=> Launches(l)
  BY <1>5, <1>7 DEF Launches
<1>15. c \notin Others => r \in {"subscribe", "query"}
  BY <1>5, ControlConstants
<1> QED  BY <1>5, <1>7, <1>10, <1>12, <1>13, <1>14, <1>15

\* One connection served: pump.
LEMMA PumpIs ==
  ASSUME ControlTyped, NEW s \in PassStates, NEW c \in Conns, NEW full, PeerTrue(s.conns[c], c),
         s.conns[c].link \in {"kept", "closed"}
  PROVE  Pumped(s, Written(Answered(s, c), c, full), c)
<1>1. PICK k \in Peers : k = s.conns[c]
  BY DEF PassStates
<1>2. PICK r : r = Frame(k)
  OBVIOUS
<1>3. PICK a : a = Answered(s, c)
  OBVIOUS
<1>4. PICK u : u = Written(a, c, full)
  OBVIOUS
<1>5. PeerTrue(k, c) /\ k.link \in {"kept", "closed"} /\ k.link # "none" /\ Len(k.down) <= Capacity
  BY <1>1 DEF PeerTrue
<1>6. s.conns[c].link # "none"
  OBVIOUS
<1>7. /\ k.done \/ r = None => a = s
      /\ ~k.done /\ r # None =>
           /\ a \in PassStates
           /\ a.conns = [s.conns EXCEPT ![c] = AnswerTo(k, r)]
           /\ a.requests = Queued(s.requests, r, c)
           /\ a.layouts = IF r = "next" THEN Switched(s.layouts) ELSE s.layouts
           /\ a.queue = s.queue /\ a.config = s.config /\ a.watch = s.watch
  BY <1>1, <1>2, <1>3, <1>6, AnsweredIs
<1>8. CASE k.done \/ r = None
  <2>1. a = s /\ a.conns[c] = k
    BY <1>1, <1>7, <1>8
  <2>2. PICK l \in Peers : WrittenTo(k, l) /\ u = Put(a, c, l)
    BY <1>4, <1>5, <2>1, WrittenIs
  <2>3. /\ u \in PassStates /\ u.conns[c] = l /\ \A d \in Conns \ {c} : u.conns[d] = s.conns[d]
        /\ u.queue = s.queue /\ u.requests = s.requests /\ u.layouts = s.layouts
        /\ u.config = s.config /\ u.watch = s.watch
    BY <2>1, <2>2, ConnPut
  <2>4. PeerTrue(l, c) /\ PeerServed(k, l, c) /\ Attended(l)
    BY <1>2, <1>5, <1>8, <2>2, PumpWrites
  <2>5. l.done = k.done
    BY <2>2 DEF WrittenTo
  <2>6. Asked(s, u, c)
    BY <1>1, <2>3, <2>5 DEF Asked
  <2> QED  BY <1>1, <1>3, <1>4, <2>3, <2>4, <2>6 DEF Pumped
<1>9. CASE ~k.done /\ r # None
  <2>0. PICK m : m = AnswerTo(k, r)
    OBVIOUS
  <2>1. /\ a \in PassStates /\ a.conns = [s.conns EXCEPT ![c] = m]
        /\ a.requests = Queued(s.requests, r, c)
        /\ a.layouts = IF r = "next" THEN Switched(s.layouts) ELSE s.layouts
        /\ a.queue = s.queue /\ a.config = s.config /\ a.watch = s.watch
    BY <1>7, <1>9, <2>0
  <2>2. s.conns \in [Conns -> Peers] /\ a.conns \in [Conns -> Peers]
    BY <2>1 DEF PassStates
  <2>3. a.conns[c] = m /\ m \in Peers /\ \A d \in Conns \ {c} : a.conns[d] = s.conns[d]
    BY <2>1, <2>2
  <2>4. m.down = k.down
    BY <2>0 DEF Peers, AnswerTo
  <2>5. PICK l \in Peers : WrittenTo(m, l) /\ u = Put(a, c, l)
    BY <1>4, <1>5, <2>3, <2>4, WrittenIs
  <2>6. /\ u \in PassStates /\ u.conns[c] = l /\ \A d \in Conns \ {c} : u.conns[d] = a.conns[d]
        /\ u.queue = a.queue /\ u.requests = a.requests /\ u.layouts = a.layouts
        /\ u.config = a.config /\ u.watch = a.watch
    <3>1. a \in PassStates /\ u = Put(a, c, l)
      BY <2>1, <2>5
    <3> QED  BY <3>1, ConnPut
  <2>7. /\ PeerTrue(l, c) /\ PeerServed(k, l, c) /\ Attended(l) /\ l.done /\ l.asks = k.asks
        /\ c \in Others => r \in {"junk"} \cup Commands
        /\ c \notin Others => r \in {"subscribe", "query"}
        /\ r = "next" => l.asks = "next"
        /\ r = "spawn" <=> Launches(l)
    BY <1>2, <1>5, <1>9, <2>0, <2>5, PumpAnswers
  <2>8. Asked(s, u, c)
    BY <1>1, <1>9, <2>1, <2>6, <2>7 DEF Asked
  <2>9. \A d \in Conns \ {c} : u.conns[d] = s.conns[d]
    BY <2>3, <2>6
  <2> QED  BY <1>1, <1>3, <1>4, <2>1, <2>6, <2>7, <2>8, <2>9 DEF Pumped
<1> QED  BY <1>8, <1>9

-----------------------------------------------------------------------------
(* ControlPlane: a pass over the connections.                              *)

NextAsked(s, t) == \E c \in Others : s.conns[c].asks = "next" /\ ~s.conns[c].done /\ t.conns[c].done

\* What holds of a state a pass began in and of one it has come to.
PassTrue(s, t) ==
  /\ t.queue = s.queue /\ t.config = s.config /\ t.watch = s.watch
  /\ t.layouts.names = s.layouts.names /\ (t.layouts = s.layouts \/ NextAsked(s, t))
  /\ \A c \in Conns : PeerTrue(t.conns[c], c) /\ PeerServed(s.conns[c], t.conns[c], c)
  /\ Awaited(t.conns, t.requests.commands)

\* Who is served twice is served once.
LEMMA ServedTwice ==
  ASSUME NEW k, NEW l, NEW m, NEW c
  PROVE  PeerServed(k, l, c) /\ PeerServed(l, m, c) => PeerServed(k, m, c)
<1> SUFFICES ASSUME PeerServed(k, l, c), PeerServed(l, m, c) PROVE PeerServed(k, m, c)
  OBVIOUS
<1>1. /\ m.asks = k.asks /\ m.sent = k.sent /\ m.eof = k.eof /\ m.reads = k.reads
      /\ k.done => m.done
      /\ k.link \notin {"kept", "closed"} => m = k
      /\ m.link = k.link \/ (k.link = "kept" /\ m.link = "closed")
  BY DEF PeerServed
<1>2. \A r : <<r>> # <<>>
  OBVIOUS
<1>3. \/ Way(m) = Way(k)
      \/ /\ Way(k) = <<>> /\ ~k.done /\ m.done
         /\ \E r \in Answers : Way(m) = <<r>> /\ (c = "query" => r = Event("reply", cache))
  BY <1>2 DEF PeerServed
<1> QED  BY <1>1, <1>3 DEF PeerServed

\* A command waits from when it is accepted.
LEMMA PumpAwaits ==
  ASSUME ControlTyped, NEW s \in PassStates, NEW u, NEW c \in Conns
  PROVE  Pumped(s, u, c) /\ Awaited(s.conns, s.requests.commands) => Awaited(u.conns, u.requests.commands)
<1> SUFFICES ASSUME Pumped(s, u, c), Awaited(s.conns, s.requests.commands)
             PROVE  Awaited(u.conns, u.requests.commands)
  OBVIOUS
<1> DEFINE k == s.conns[c]
           l == u.conns[c]
           q == s.requests.commands
<1>1. /\ \A d \in Conns \ {c} : u.conns[d] = s.conns[d]
      /\ l.asks = k.asks /\ l.sent = k.sent /\ (k.done => l.done)
  BY DEF Pumped, PeerServed
<1>2. q \in Seq(Others) /\ s.requests \in Requested
  BY DEF PassStates, Requested
<1>3. /\ \A i, j \in DOMAIN q : q[i] = q[j] => i = j
      /\ \A i \in DOMAIN q : Launches(s.conns[q[i]]) /\ ~HadResult(q[i])
      /\ \A d \in Others : Launches(s.conns[d]) => HadResult(d) \/ \E i \in DOMAIN q : q[i] = d
      /\ \A d \in Others : HadResult(d) => s.conns[d].done
  BY DEF Awaited
<1>4. Len(q) \in Nat /\ DOMAIN q = 1..Len(q) /\ \A i \in 1..Len(q) : q[i] \in Others /\ q[i] \in Conns
  BY <1>2, LenProperties, ElementOfSeq, ControlConstants
<1>5. \A d \in Others : d \in Conns
  BY ControlConstants
<1>6. \A d \in Others : HadResult(d) => u.conns[d].done
  <2> SUFFICES ASSUME NEW d \in Others, HadResult(d) PROVE u.conns[d].done
    OBVIOUS
  <2>1. s.conns[d].done
    BY <1>3
  <2> HIDE DEF q
  <2> QED  BY <1>1, <1>5, <2>1
<1>7. Asked(s, u, c)
  BY DEF Pumped
<1>8. CASE u.conns[c].done = s.conns[c].done /\ u.requests = s.requests
  <2>1. \A d \in Conns : Launches(u.conns[d]) <=> Launches(s.conns[d])
    <3> SUFFICES ASSUME NEW d \in Conns PROVE Launches(u.conns[d]) <=> Launches(s.conns[d])
      OBVIOUS
    <3>1. CASE d = c
      BY <1>1, <1>8, <3>1 DEF Launches
    <3>2. CASE d # c
      BY <1>1, <3>2
    <3> QED  BY <3>1, <3>2
  <2>2. u.requests.commands = q
    BY <1>8
  <2> HIDE DEF q, k, l
  <2>3. \A i \in DOMAIN q : Launches(u.conns[q[i]])
    BY <1>3, <1>4, <2>1
  <2>4. \A d \in Others : Launches(u.conns[d]) => Launches(s.conns[d])
    BY <1>5, <2>1
  <2>5. \A d \in Others : Launches(u.conns[d]) => HadResult(d) \/ \E i \in DOMAIN q : q[i] = d
    BY <1>3, <2>4
  <2> QED  BY <1>3, <1>6, <2>2, <2>3, <2>5 DEF Awaited
<1>9. CASE ~s.conns[c].done /\ u.conns[c].done /\ \E r :
            /\ c \notin Others => r \in {"subscribe", "query"}
            /\ r = "spawn" <=> Launches(u.conns[c])
            /\ u.requests = Queued(s.requests, r, c)
  <2>1. PICK r : /\ c \notin Others => r \in {"subscribe", "query"}
                 /\ r = "spawn" <=> Launches(u.conns[c])
                 /\ u.requests = Queued(s.requests, r, c)
    BY <1>9
  <2>2. ~Launches(s.conns[c])
    BY <1>9 DEF Launches
  <2>3. c \in Others => ~HadResult(c)
    BY <1>3, <1>9
  <2>4. \A i \in 1..Len(q) : q[i] # c
    BY <1>3, <1>4, <2>2
  <2>5. \A i \in 1..Len(q) : u.conns[q[i]] = s.conns[q[i]]
    BY <1>1, <1>4, <2>4
  <2>6. \A d \in Others : d # c => u.conns[d] = s.conns[d]
    BY <1>1, <1>5
  <2>7. CASE r = "spawn"
    <3>1. c \in Others /\ ~HadResult(c) /\ Launches(u.conns[c])
      BY <2>1, <2>3, <2>7
    <3>2. u.requests = [s.requests EXCEPT !.commands = Append(s.requests.commands, c)]
      BY <2>1, <2>7 DEF Queued
    <3> DEFINE p == u.requests.commands
    <3>3. p = Append(q, c)
      BY <1>2, <3>2 DEF Requested
    <3> HIDE DEF p, q, k, l
    <3>4. Len(p) = Len(q) + 1 /\ p[Len(q) + 1] = c /\ (\A i \in 1..Len(q) : p[i] = q[i]) /\ p \in Seq(Others)
      BY <1>2, <3>1, <3>3, AppendProperties
    <3>5. DOMAIN p = 1..Len(q) + 1
      BY <3>4, LenProperties
    <3>6. \A i \in 1..Len(q) + 1 : i \in 1..Len(q) \/ i = Len(q) + 1
      BY <1>4
    <3>7. \A i, j \in DOMAIN p : p[i] = p[j] => i = j
      BY <1>3, <1>4, <2>4, <3>4, <3>5, <3>6
    <3>8. \A i \in DOMAIN p : Launches(u.conns[p[i]]) /\ ~HadResult(p[i])
      BY <1>3, <1>4, <2>5, <3>1, <3>4, <3>5, <3>6
    <3>9. \A d \in Others : Launches(u.conns[d]) => HadResult(d) \/ \E i \in DOMAIN p : p[i] = d
      <4> SUFFICES ASSUME NEW d \in Others, Launches(u.conns[d]), ~HadResult(d) PROVE \E i \in DOMAIN p : p[i] = d
        OBVIOUS
      <4>1. CASE d = c
        <5>1. Len(q) + 1 \in DOMAIN p
          BY <1>4, <3>5
        <5> QED  BY <3>4, <4>1, <5>1
      <4>2. CASE d # c
        <5>1. PICK i \in DOMAIN q : q[i] = d
          BY <1>3, <2>6, <4>2
        <5>2. i \in DOMAIN p /\ p[i] = d
          BY <1>4, <3>4, <3>5, <5>1
        <5> QED  BY <5>2
      <4> QED  BY <4>1, <4>2
    <3> QED  BY <1>6, <3>7, <3>8, <3>9 DEF Awaited, p
  <2>8. CASE r # "spawn"
    <3>1. u.requests.commands = q
      <4>1. u.requests \in {s.requests, [s.requests EXCEPT !.reload = TRUE], [s.requests EXCEPT !.quit = TRUE],
                            [s.requests EXCEPT !.controls = @ + 1]}
        BY <2>1, <2>8 DEF Queued
      <4> QED  BY <1>2, <4>1 DEF Requested
    <3> HIDE DEF q, k, l
    <3>2. \A i \in DOMAIN q : Launches(u.conns[q[i]])
      BY <1>3, <1>4, <2>5
    <3>3. \A d \in Others : Launches(u.conns[d]) => HadResult(d) \/ \E i \in DOMAIN q : q[i] = d
      BY <1>3, <2>1, <2>6, <2>8
    <3> QED  BY <1>3, <1>6, <3>1, <3>2, <3>3 DEF Awaited
  <2> QED  BY <2>7, <2>8
<1> QED  BY <1>7, <1>8, <1>9 DEF Asked

\* One connection of a pass.
LEMMA PumpKeeps ==
  ASSUME ControlTyped, NEW s \in PassStates, NEW t \in PassStates, NEW u, NEW c \in Conns
  PROVE  PassTrue(s, t) /\ Pumped(t, u, c) => u \in PassStates /\ PassTrue(s, u)
<1> SUFFICES ASSUME PassTrue(s, t), Pumped(t, u, c) PROVE u \in PassStates /\ PassTrue(s, u)
  OBVIOUS
<1>1. /\ u \in PassStates /\ u.queue = t.queue /\ u.config = t.config /\ u.watch = t.watch
      /\ \A d \in Conns \ {c} : u.conns[d] = t.conns[d]
      /\ PeerTrue(u.conns[c], c) /\ PeerServed(t.conns[c], u.conns[c], c)
  BY DEF Pumped
<1>2. /\ t.queue = s.queue /\ t.config = s.config /\ t.watch = s.watch
      /\ t.layouts.names = s.layouts.names /\ (t.layouts = s.layouts \/ NextAsked(s, t))
      /\ \A d \in Conns : PeerTrue(t.conns[d], d) /\ PeerServed(s.conns[d], t.conns[d], d)
      /\ Awaited(t.conns, t.requests.commands)
  BY DEF PassTrue
<1>3. \A d \in Conns : PeerTrue(u.conns[d], d) /\ PeerServed(s.conns[d], u.conns[d], d)
  <2> SUFFICES ASSUME NEW d \in Conns PROVE PeerTrue(u.conns[d], d) /\ PeerServed(s.conns[d], u.conns[d], d)
    OBVIOUS
  <2>1. CASE d = c
    BY <1>1, <1>2, <2>1, ServedTwice
  <2>2. CASE d # c
    BY <1>1, <1>2, <2>2
  <2> QED  BY <2>1, <2>2
<1>4. Awaited(u.conns, u.requests.commands)
  BY <1>2, PumpAwaits
<1>5. \A d \in Conns : t.conns[d].done => u.conns[d].done
  <2> SUFFICES ASSUME NEW d \in Conns PROVE t.conns[d].done => u.conns[d].done
    OBVIOUS
  <2>1. CASE d = c
    BY <1>1, <2>1 DEF PeerServed
  <2>2. CASE d # c
    BY <1>1, <2>2
  <2> QED  BY <2>1, <2>2
<1>6. NextAsked(s, t) => NextAsked(s, u)
  BY <1>5, ControlConstants DEF NextAsked
<1>7. Asked(t, u, c)
  BY DEF Pumped
<1>8. u.layouts.names = s.layouts.names /\ (u.layouts = s.layouts \/ NextAsked(s, u))
  <2>1. CASE u.layouts = t.layouts
    BY <1>2, <1>6, <2>1
  <2>2. CASE u.layouts # t.layouts
    <3>1. PICK r : /\ ~t.conns[c].done /\ u.conns[c].done
                   /\ c \notin Others => r \in {"subscribe", "query"}
                   /\ r = "next" => u.conns[c].asks = "next"
                   /\ u.layouts = IF r = "next" THEN Switched(t.layouts) ELSE t.layouts
      BY <1>7, <2>2 DEF Asked
    <3>2. r = "next" /\ u.layouts = Switched(t.layouts)
      BY <2>2, <3>1
    <3>3. c \in Others
      BY <3>1, <3>2
    <3>4. t.layouts \in LayoutStates
      BY DEF PassStates
    <3>5. u.layouts.names = t.layouts.names
      BY <3>2, <3>4, SwitchedIs
    <3>6. s.conns[c].asks = "next" /\ ~s.conns[c].done
      BY <1>1, <1>2, <3>1, <3>2 DEF PeerServed
    <3> QED  BY <1>2, <3>1, <3>3, <3>5, <3>6 DEF NextAsked
  <2> QED  BY <2>1, <2>2
<1> QED  BY <1>1, <1>2, <1>3, <1>4, <1>8 DEF PassTrue

\* The whole pass, before what was closed is taken out.
PassFrom(s, full) ==
  LET pass[i \in 0..Len(s.queue)] ==
        IF i = 0 THEN s ELSE Written(Answered(pass[i - 1], s.queue[i]), s.queue[i], full)
  IN  pass[Len(s.queue)]

Keeps(s) ==
  /\ s \in PassStates
  /\ \A c \in Conns : PeerTrue(s.conns[c], c)
  /\ \A c \in Conns : s.conns[c].link = "kept" <=> c \in ToSet(s.queue)
  /\ Awaited(s.conns, s.requests.commands)

LEMMA PassStarts ==
  ASSUME NEW s
  PROVE  Keeps(s) => PassTrue(s, s)
<1> SUFFICES ASSUME Keeps(s) PROVE PassTrue(s, s)
  OBVIOUS
<1>1. \A c \in Conns : PeerServed(s.conns[c], s.conns[c], c)
  BY DEF PeerServed
<1> QED  BY <1>1 DEF PassTrue, Keeps

LEMMA PassIs ==
  ASSUME ControlTyped, NEW s, NEW full, Keeps(s)
  PROVE  /\ PassFrom(s, full) \in PassStates /\ PassTrue(s, PassFrom(s, full))
         /\ \A c \in ToSet(s.queue) : Attended(PassFrom(s, full).conns[c])
<1> DEFINE q == s.queue
           n == Len(q)
           R == {t \in PassStates : PassTrue(s, t)}
           Next1(r, i) == Written(Answered(r, q[i]), q[i], full)
           step == [i \in 1..n |-> [r \in R |-> Next1(r, i)]]
           Is(h) == h = [i \in 0..n |-> IF i = 0 THEN s ELSE Next1(h[i - 1], i)]
           all == CHOOSE h : Is(h)
<1>1. s \in PassStates /\ s.queue \in Seq(Conns)
  BY DEF Keeps, PassStates
<1>2. n \in Nat /\ \A i \in 1..n : q[i] \in Conns /\ q[i] \in ToSet(q)
  BY <1>1, LenProperties, ElementOfSeq DEF ToSet
<1>3. ASSUME NEW r \in R, NEW i \in 1..n PROVE Next1(r, i) \in R /\ Pumped(r, Next1(r, i), q[i])
  <2>1. q[i] \in Conns /\ r \in PassStates /\ PassTrue(s, r)
    BY <1>2
  <2>2. s.conns[q[i]].link = "kept"
    BY <1>2 DEF Keeps
  <2>3. PeerTrue(r.conns[q[i]], q[i]) /\ r.conns[q[i]].link \in {"kept", "closed"}
    BY <2>1, <2>2 DEF PassTrue, PeerServed
  <2> HIDE DEF R, q, n
  <2>4. Pumped(r, Next1(r, i), q[i])
    BY <2>1, <2>3, PumpIs
  <2>5. Next1(r, i) \in PassStates /\ PassTrue(s, Next1(r, i))
    BY <1>1, <2>1, <2>4, PumpKeeps
  <2> QED  BY <2>4, <2>5 DEF R
<1>4. s \in R /\ \A i \in 1..n, r \in R : step[i][r] \in R
  BY <1>1, <1>3, PassStarts
<1>5. \A i \in 1..n, r \in R : step[i][r] = Next1(r, i)
  OBVIOUS
<1> HIDE DEF step, n, R, Next1
<1>6. PICK h \in [0..n -> R] : h[0] = s /\ \A i \in 1..n : h[i] = step[i][h[i - 1]]
  <2>1. n \in Nat
    BY <1>2
  <2>2. Runs(R, s, n, step)
    BY <1>4, <2>1, Recursion
  <2> QED  BY <2>2 DEF Runs
<1>7. \A i \in 1..n : h[i] = Next1(h[i - 1], i)
  <2>1. \A i \in 1..n : i - 1 \in 0..n
    BY <1>2
  <2> QED  BY <1>5, <1>6, <2>1
<1>8. Is(h)
  <2> DEFINE g == [i \in 0..n |-> IF i = 0 THEN s ELSE Next1(h[i - 1], i)]
  <2>1. \A i \in 0..n : g[i] = h[i]
    <3> SUFFICES ASSUME NEW i \in 0..n PROVE g[i] = h[i]
      OBVIOUS
    <3>1. CASE i = 0
      BY <3>1, <1>6
    <3>2. CASE i # 0
      <4>1. i \in 1..n
        BY <3>2, <1>2
      <4> QED  BY <3>2, <4>1, <1>7
    <3> QED  BY <3>1, <3>2
  <2>2. g = [i \in 0..n |-> g[i]]
    OBVIOUS
  <2> HIDE DEF g
  <2>3. g = h
    BY <2>1, <2>2, <1>6
  <2> QED  BY <2>3 DEF g
<1>9. Is(all)
  BY <1>8
<1> HIDE DEF all
<1>10. \A i \in 0..n : all[i] = IF i = 0 THEN s ELSE Next1(all[i - 1], i)
  <2> DEFINE g == [i \in 0..n |-> IF i = 0 THEN s ELSE Next1(all[i - 1], i)]
  <2>1. \A i \in 0..n : g[i] = IF i = 0 THEN s ELSE Next1(all[i - 1], i)
    OBVIOUS
  <2> HIDE DEF g
  <2> QED  BY <1>9, <2>1 DEF g
<1>11. PassFrom(s, full) = all[n]
  BY DEF PassFrom, all, n, q, Next1
<1> DEFINE Good(t, k) == t \in R /\ \A i \in 1..k : Attended(t.conns[q[i]])
           K == {k \in Nat : k <= n => Good(all[k], k)}
<1>12. 0 \in K
  <2>1. all[0] = s
    BY <1>2, <1>10
  <2> QED  BY <1>4, <2>1
<1>13. ASSUME NEW k \in K PROVE k + 1 \in K
  <2>1. SUFFICES ASSUME k \in Nat, k + 1 <= n PROVE Good(all[k + 1], k + 1)
    OBVIOUS
  <2> HIDE DEF K, Good, q
  <2>2. k <= n /\ k + 1 \in 1..n /\ k + 1 \in 0..n /\ k + 1 # 0 /\ (k + 1) - 1 = k
    BY <2>1, <1>2
  <2> DEFINE t == all[k]
             u == all[k + 1]
             c == q[k + 1]
  <2>3. Good(t, k)
    BY <2>1, <2>2 DEF K
  <2>4. u = Next1(t, k + 1)
    BY <2>2, <1>10
  <2> HIDE DEF t, u
  <2>5. t \in R
    BY <2>3 DEF Good
  <2>6. u \in R /\ Pumped(t, u, c)
    BY <2>2, <2>4, <2>5, <1>3
  <2>7. \A i \in 1..k : q[i] \in Conns /\ Attended(t.conns[q[i]])
    BY <1>2, <2>1, <2>3 DEF Good
  <2>8. Attended(u.conns[c]) /\ \A d \in Conns \ {c} : u.conns[d] = t.conns[d]
    BY <2>6 DEF Pumped
  <2>9. ASSUME NEW i \in 1..k + 1 PROVE Attended(u.conns[q[i]])
    <3>1. CASE q[i] = c
      BY <2>8, <3>1
    <3>2. CASE q[i] # c
      <4>1. i # k + 1
        BY <3>2
      <4>2. i \in 1..k
        BY <4>1, <2>1
      <4> QED  BY <2>7, <2>8, <3>2, <4>2
    <3> QED  BY <3>1, <3>2
  <2> QED  BY <2>6, <2>9 DEF u, Good
<1>14. K = Nat
  <2> HIDE DEF K
  <2> QED  BY <1>12, <1>13, NatSetInduction DEF K
<1> HIDE DEF Good
<1>15. Good(all[n], n)
  <2>1. n \in Nat /\ n <= n
    BY <1>2
  <2>2. n \in K
    BY <2>1, <1>14
  <2> QED  BY <2>1, <2>2
<1>16. \A c \in ToSet(s.queue) : \E i \in 1..n : c = q[i]
  BY <1>1, LenProperties DEF ToSet, n
<1> QED  BY <1>11, <1>15, <1>16 DEF Good, R

\* A pass: what is closed is taken out of the queue, and who has a request that is complete, or is
\* gone without one, is served.
LEMMA ProcessedIs ==
  ASSUME ControlTyped, NEW s, NEW full, Keeps(s), NEW u, u = Processed(s, full)
  PROVE  /\ Keeps(u)
         /\ u.config = s.config /\ u.watch = s.watch
         /\ u.layouts.names = s.layouts.names /\ (u.layouts = s.layouts \/ NextAsked(s, u))
         /\ \A c \in Conns : PeerServed(s.conns[c], u.conns[c], c) /\ Attended(u.conns[c])
<1> DEFINE t == PassFrom(s, full)
           A == {c \in Conns : t.conns[c].link = "kept"}
<1>1. u = [t EXCEPT !.queue = Those(t.queue, A)]
  BY DEF Processed, PassFrom
<1>2. /\ t \in PassStates /\ PassTrue(s, t)
      /\ \A c \in ToSet(s.queue) : Attended(t.conns[c])
  BY PassIs
<1> HIDE DEF t
<1>3. /\ t.queue = s.queue /\ t.config = s.config /\ t.watch = s.watch
      /\ t.layouts.names = s.layouts.names /\ (t.layouts = s.layouts \/ NextAsked(s, t))
      /\ \A c \in Conns : PeerTrue(t.conns[c], c) /\ PeerServed(s.conns[c], t.conns[c], c)
      /\ Awaited(t.conns, t.requests.commands)
  BY <1>2 DEF PassTrue
<1>4. s.queue \in Seq(Conns) /\ t.queue \in Seq(Conns)
  BY <1>2, <1>3 DEF PassStates
<1> DEFINE p == Those(t.queue, A)
<1> HIDE DEF A
<1>5. p \in Seq(Conns) /\ \A c : c \in ToSet(p) <=> c \in ToSet(t.queue) /\ c \in A
  BY <1>4, ThoseMembers
<1> HIDE DEF p
<1>8. t = [conns |-> t.conns, queue |-> t.queue, requests |-> t.requests, layouts |-> t.layouts,
           config |-> t.config, watch |-> t.watch]
  BY <1>2 DEF PassStates
<1>9. u = [conns |-> t.conns, queue |-> p, requests |-> t.requests, layouts |-> t.layouts,
           config |-> t.config, watch |-> t.watch]
  BY <1>1, <1>8 DEF p
<1>10. /\ u.conns = t.conns /\ u.queue = p /\ u.requests = t.requests /\ u.layouts = t.layouts
       /\ u.config = t.config /\ u.watch = t.watch
  BY <1>9
<1>11. u \in PassStates
  BY <1>2, <1>5, <1>9 DEF PassStates
<1>12. \A c \in Conns : u.conns[c].link = "kept" <=> c \in ToSet(u.queue)
  <2> SUFFICES ASSUME NEW c \in Conns PROVE t.conns[c].link = "kept" <=> c \in ToSet(p)
    BY <1>10
  <2>1. t.conns[c].link = "kept" => s.conns[c].link = "kept"
    BY <1>3 DEF PeerServed
  <2>2. s.conns[c].link = "kept" => c \in ToSet(t.queue)
    BY <1>3 DEF Keeps
  <2>3. c \in A <=> t.conns[c].link = "kept"
    BY DEF A
  <2> QED  BY <1>5, <2>1, <2>2, <2>3
<1>13. Keeps(u)
  BY <1>3, <1>10, <1>11, <1>12 DEF Keeps
<1>14. \A c \in Conns : Attended(u.conns[c])
  <2> SUFFICES ASSUME NEW c \in Conns, t.conns[c].link = "kept" PROVE Attended(t.conns[c])
    BY <1>10 DEF Attended
  <2>1. s.conns[c].link = "kept"
    BY <1>3 DEF PeerServed
  <2>2. c \in ToSet(s.queue)
    BY <2>1 DEF Keeps
  <2> QED  BY <1>2, <2>2
<1>15. NextAsked(s, t) => NextAsked(s, u)
  BY <1>10 DEF NextAsked
<1> QED  BY <1>3, <1>10, <1>13, <1>14, <1>15

-----------------------------------------------------------------------------
(* ControlPlane: messages on their way.                                    *)

\* Every message about a fact says what is so in m.
AllSay(f, q, m) == \A i \in DOMAIN q : q[i].topic \in Topics(f) => Says(f, q[i]) = Fact(f, m)

\* Where a message of two sequences is.
LEMMA JoinedPlaces ==
  ASSUME NEW Y, NEW p \in Seq(Y), NEW q \in Seq(Y)
  PROVE  /\ DOMAIN Joined(p, q) = 1..Len(p) + Len(q) /\ DOMAIN p = 1..Len(p) /\ DOMAIN q = 1..Len(q)
         /\ Len(p) \in Nat /\ Len(q) \in Nat /\ Len(Joined(p, q)) = Len(p) + Len(q)
         /\ \A i \in DOMAIN p : i \in DOMAIN Joined(p, q) /\ Joined(p, q)[i] = p[i]
         /\ \A i \in DOMAIN q : Len(p) + i \in DOMAIN Joined(p, q) /\ Joined(p, q)[Len(p) + i] = q[i]
         /\ \A i \in DOMAIN Joined(p, q) :
              \/ i \in DOMAIN p /\ Joined(p, q)[i] = p[i]
              \/ \E j \in DOMAIN q : i = Len(p) + j /\ Joined(p, q)[i] = q[j]
<1> DEFINE r == Joined(p, q)
<1>1. r \in Seq(Y) /\ Len(r) = Len(p) + Len(q)
      /\ \A i \in 1 .. Len(p) + Len(q) : r[i] = IF i <= Len(p) THEN p[i] ELSE q[i - Len(p)]
  BY JoinedIs
<1> HIDE DEF r
<1>2. DOMAIN r = 1..Len(r) /\ DOMAIN p = 1..Len(p) /\ DOMAIN q = 1..Len(q) /\ Len(p) \in Nat /\ Len(q) \in Nat
  BY <1>1, LenProperties
<1>3. \A i \in DOMAIN p : i \in DOMAIN r /\ r[i] = p[i]
  BY <1>1, <1>2
<1>4. \A i \in DOMAIN q : Len(p) + i \in DOMAIN r /\ r[Len(p) + i] = q[i]
  <2> SUFFICES ASSUME NEW i \in 1..Len(q) PROVE Len(p) + i \in DOMAIN r /\ r[Len(p) + i] = q[i]
    BY <1>2
  <2>1. Len(p) + i \in 1 .. Len(p) + Len(q) /\ ~(Len(p) + i <= Len(p)) /\ (Len(p) + i) - Len(p) = i
    BY <1>2
  <2> QED  BY <1>1, <1>2, <2>1
<1>5. ASSUME NEW i \in DOMAIN r, i \notin DOMAIN p PROVE \E j \in DOMAIN q : i = Len(p) + j /\ r[i] = q[j]
  <2>1. i \in 1 .. Len(p) + Len(q) /\ ~(i <= Len(p)) /\ i - Len(p) \in 1..Len(q) /\ i = Len(p) + (i - Len(p))
    BY <1>1, <1>2, <1>5
  <2>2. r[i] = q[i - Len(p)]
    BY <1>1, <2>1
  <2> QED  BY <1>2, <2>1, <2>2
<1> QED  BY <1>1, <1>2, <1>3, <1>4, <1>5 DEF r

LEMMA JoinedMembers ==
  ASSUME NEW Y
  PROVE  \A p, q \in Seq(Y) : ToSet(Joined(p, q)) = ToSet(p) \cup ToSet(q)
<1> SUFFICES ASSUME NEW p \in Seq(Y), NEW q \in Seq(Y) PROVE ToSet(Joined(p, q)) = ToSet(p) \cup ToSet(q)
  OBVIOUS
<1> DEFINE r == Joined(p, q)
<1>1. /\ \A i \in DOMAIN p : i \in DOMAIN r /\ r[i] = p[i]
      /\ \A i \in DOMAIN q : Len(p) + i \in DOMAIN r /\ r[Len(p) + i] = q[i]
      /\ \A i \in DOMAIN r : \/ i \in DOMAIN p /\ r[i] = p[i]
                             \/ \E j \in DOMAIN q : i = Len(p) + j /\ r[i] = q[j]
  BY JoinedPlaces
<1> HIDE DEF r
<1>2. ASSUME NEW x, x \in ToSet(r) PROVE x \in ToSet(p) \cup ToSet(q)
  BY <1>1, <1>2 DEF ToSet
<1>3. ASSUME NEW x, x \in ToSet(p) PROVE x \in ToSet(r)
  BY <1>1, <1>3 DEF ToSet
<1>4. ASSUME NEW x, x \in ToSet(q) PROVE x \in ToSet(r)
  <2>1. PICK i \in DOMAIN q : x = q[i]
    BY <1>4 DEF ToSet
  <2>2. Len(p) + i \in DOMAIN r /\ r[Len(p) + i] = x
    BY <1>1, <2>1
  <2> QED  BY <2>2 DEF ToSet
<1> QED  BY <1>2, <1>3, <1>4 DEF r

\* What is silent, what is reported and what all say depends on the members only.
LEMMA ByMembers ==
  ASSUME NEW p
  PROVE  /\ \A f : Silent(f, p) <=> \A e \in ToSet(p) : e.topic \notin Topics(f)
         /\ Reported(p) = {e.value : e \in {d \in ToSet(p) : d.topic = "command"}}
         /\ \A f, m : AllSay(f, p, m) <=> \A e \in ToSet(p) : e.topic \in Topics(f) => Says(f, e) = Fact(f, m)
<1>1. \A f : Silent(f, p) <=> \A e \in ToSet(p) : e.topic \notin Topics(f)
  BY DEF Silent, ToSet
<1>2. \A f, m : AllSay(f, p, m) <=> \A e \in ToSet(p) : e.topic \in Topics(f) => Says(f, e) = Fact(f, m)
  BY DEF AllSay, ToSet
<1>3. Reported(p) = {e.value : e \in {d \in ToSet(p) : d.topic = "command"}}
  <2>1. ASSUME NEW x, x \in Reported(p) PROVE \E e \in ToSet(p) : e.topic = "command" /\ x = e.value
    BY <2>1 DEF Reported, ToSet
  <2>2. ASSUME NEW e, e \in ToSet(p), e.topic = "command" PROVE e.value \in Reported(p)
    BY <2>2 DEF Reported, ToSet
  <2> QED  BY <2>1, <2>2
<1> QED  BY <1>1, <1>2, <1>3

LEMMA SilentJoined ==
  ASSUME NEW Y
  PROVE  \A p, q \in Seq(Y) : /\ \A f : Silent(f, Joined(p, q)) <=> Silent(f, p) /\ Silent(f, q)
                              /\ Reported(Joined(p, q)) = Reported(p) \cup Reported(q)
<1> SUFFICES ASSUME NEW p \in Seq(Y), NEW q \in Seq(Y)
             PROVE  /\ \A f : Silent(f, Joined(p, q)) <=> Silent(f, p) /\ Silent(f, q)
                    /\ Reported(Joined(p, q)) = Reported(p) \cup Reported(q)
  OBVIOUS
<1>1. ToSet(Joined(p, q)) = ToSet(p) \cup ToSet(q)
  BY JoinedMembers
<1>2. \A f : Silent(f, Joined(p, q)) <=> Silent(f, p) /\ Silent(f, q)
  BY <1>1, ByMembers
<1>3. Reported(Joined(p, q)) = Reported(p) \cup Reported(q)
  <2> DEFINE T(D) == {e.value : e \in {d \in D : d.topic = "command"}}
  <2>1. T(ToSet(p) \cup ToSet(q)) = T(ToSet(p)) \cup T(ToSet(q))
    OBVIOUS
  <2> QED  BY <1>1, <2>1, ByMembers
<1> QED  BY <1>2, <1>3

\* A message about a fact has a last one after it, or is the last.
LEMMA LastExists ==
  ASSUME NEW Y, NEW p \in Seq(Y), NEW f, ~Silent(f, p)
  PROVE  \E i \in DOMAIN p : p[i].topic \in Topics(f) /\ \A j \in i + 1 .. Len(p) : p[j].topic \notin Topics(f)
<1> DEFINE n == Len(p)
           About(i) == p[i].topic \in Topics(f)
           Latest == \E i \in DOMAIN p : About(i) /\ \A j \in i + 1 .. n : ~About(j)
           K == {k \in Nat : \A i \in 1..n : n - i <= k /\ About(i) => Latest}
<1>1. n \in Nat /\ DOMAIN p = 1..n
  BY LenProperties
<1>2. PICK x \in DOMAIN p : About(x)
  BY DEF Silent
<1> HIDE DEF n, About
<1>3. 0 \in K
  <2>1. \A i \in 1..n : n - i <= 0 => i + 1 .. n = {}
    BY <1>1
  <2> QED  BY <1>1, <2>1
<1>4. ASSUME NEW k \in K PROVE k + 1 \in K
  <2>1. \A i \in 1..n : n - i <= k /\ About(i) => Latest
    BY <1>4
  <2>2. k \in Nat
    BY <1>4
  <2> HIDE DEF K
  <2>3. ASSUME NEW i \in 1..n, n - i <= k + 1, About(i) PROVE Latest
    <3>1. CASE \E j \in i + 1 .. n : About(j)
      <4>1. PICK j \in i + 1 .. n : About(j)
        BY <3>1
      <4>2. j \in 1..n /\ n - j <= k
        BY <1>1, <2>2, <2>3
      <4> HIDE DEF Latest
      <4> QED  BY <2>1, <4>1, <4>2
    <3>2. CASE \A j \in i + 1 .. n : ~About(j)
      BY <1>1, <2>3, <3>2
    <3> QED  BY <3>1, <3>2
  <2> HIDE DEF Latest
  <2> QED  BY <2>2, <2>3 DEF K
<1>5. K = Nat
  <2> HIDE DEF K
  <2>1. K \subseteq Nat
    BY DEF K
  <2> QED  BY <1>3, <1>4, <2>1, NatSetInduction
<1>6. n - x \in K /\ x \in 1..n /\ n - x <= n - x
  BY <1>1, <1>5
<1>7. Latest
  BY <1>2, <1>6
<1> QED  BY <1>7 DEF About, n

\* What was read before does not matter to what is said last.
LEMMA LastOfTail ==
  ASSUME NEW Y
  PROVE  \A p, q \in Seq(Y) : \A f, m : LastSays(f, Joined(p, q), m) => LastSays(f, q, m)
<1> SUFFICES ASSUME NEW p \in Seq(Y), NEW q \in Seq(Y), NEW f, NEW m, LastSays(f, Joined(p, q), m),
                    NEW i \in DOMAIN q, q[i].topic \in Topics(f), \A j \in i + 1 .. Len(q) : q[j].topic \notin Topics(f)
             PROVE  Says(f, q[i]) = Fact(f, m)
  BY DEF LastSays
<1> DEFINE r == Joined(p, q)
<1>1. /\ Len(p) \in Nat /\ Len(q) \in Nat /\ Len(r) = Len(p) + Len(q) /\ DOMAIN q = 1..Len(q)
      /\ \A j \in DOMAIN q : Len(p) + j \in DOMAIN r /\ r[Len(p) + j] = q[j]
  BY JoinedPlaces
<1>2. LastSays(f, r, m)
  OBVIOUS
<1> HIDE DEF r
<1>3. r[Len(p) + i].topic \in Topics(f)
  BY <1>1
<1>4. ASSUME NEW j \in Len(p) + i + 1 .. Len(r) PROVE r[j].topic \notin Topics(f)
  <2>1. j - Len(p) \in i + 1 .. Len(q) /\ j - Len(p) \in DOMAIN q /\ Len(p) + (j - Len(p)) = j
    BY <1>1
  <2>2. r[j] = q[j - Len(p)]
    BY <1>1, <2>1
  <2> QED  BY <2>1, <2>2
<1>5. Says(f, r[Len(p) + i]) = Fact(f, m)
  BY <1>1, <1>2, <1>3, <1>4 DEF LastSays
<1> QED  BY <1>1, <1>5

\* A sequence of one message; hidden, the provers do not compute with it.
Only(p, e) == p = <<e>>

\* The first message is the last about a fact when the rest is silent about it.
LEMMA FirstIsLast ==
  ASSUME NEW Y
  PROVE  \A p, q \in Seq(Y) : \A e \in Y : \A f, m :
           Only(p, e) /\ LastSays(f, Joined(p, q), m) /\ e.topic \in Topics(f) /\ Silent(f, q) => Says(f, e) = Fact(f, m)
<1> TAKE p, q \in Seq(Y)
<1> DEFINE r == Joined(p, q)
<1>0. /\ DOMAIN p = 1..Len(p) /\ DOMAIN q = 1..Len(q)
      /\ Len(q) \in Nat /\ Len(r) = Len(p) + Len(q)
      /\ \A i \in DOMAIN p : i \in DOMAIN r /\ r[i] = p[i]
      /\ \A j \in DOMAIN q : Len(p) + j \in DOMAIN r /\ r[Len(p) + j] = q[j]
  BY JoinedPlaces
<1> TAKE e \in Y
<1> TAKE f, m
<1> HAVE Only(p, e) /\ LastSays(f, Joined(p, q), m) /\ e.topic \in Topics(f) /\ Silent(f, q)
<1>1. Len(p) = 1 /\ p[1] = e
  BY DEF Only
<1>2. LastSays(f, r, m) /\ e.topic \in Topics(f)
  OBVIOUS
<1> HIDE DEF r
<1>3. /\ Len(q) \in Nat /\ Len(r) = 1 + Len(q) /\ DOMAIN q = 1..Len(q) /\ DOMAIN p = 1..1
      /\ \A i \in DOMAIN p : i \in DOMAIN r /\ r[i] = p[i]
      /\ \A j \in DOMAIN q : 1 + j \in DOMAIN r /\ r[1 + j] = q[j]
  BY <1>0, <1>1
<1>4. 1 \in DOMAIN r /\ r[1] = e
  BY <1>1, <1>3
<1>5. ASSUME NEW j \in 1 + 1 .. Len(r) PROVE r[j].topic \notin Topics(f)
  <2>1. j - 1 \in DOMAIN q /\ 1 + (j - 1) = j
    BY <1>3
  <2>2. r[j] = q[j - 1]
    BY <1>3, <2>1
  <2> QED  BY <2>1, <2>2 DEF Silent
<1> QED  BY <1>2, <1>4, <1>5 DEF LastSays

\* A silent beginning does not matter.
LEMMA LastAfterSilence ==
  ASSUME NEW Y
  PROVE  \A p, q \in Seq(Y) : \A f, m : Silent(f, p) /\ LastSays(f, q, m) => LastSays(f, Joined(p, q), m)
<1> SUFFICES ASSUME NEW p \in Seq(Y), NEW q \in Seq(Y), NEW f, NEW m, Silent(f, p), LastSays(f, q, m),
                    NEW i \in DOMAIN Joined(p, q), Joined(p, q)[i].topic \in Topics(f),
                    \A j \in i + 1 .. Len(Joined(p, q)) : Joined(p, q)[j].topic \notin Topics(f)
             PROVE  Says(f, Joined(p, q)[i]) = Fact(f, m)
  BY DEF LastSays
<1> DEFINE r == Joined(p, q)
<1>1. /\ Len(p) \in Nat /\ Len(q) \in Nat /\ Len(r) = Len(p) + Len(q) /\ DOMAIN q = 1..Len(q)
      /\ \A j \in DOMAIN q : Len(p) + j \in DOMAIN r /\ r[Len(p) + j] = q[j]
      /\ \A j \in DOMAIN r : \/ j \in DOMAIN p /\ r[j] = p[j]
                             \/ \E l \in DOMAIN q : j = Len(p) + l /\ r[j] = q[l]
  BY JoinedPlaces
<1>2. i \in DOMAIN r /\ r[i].topic \in Topics(f) /\ \A j \in i + 1 .. Len(r) : r[j].topic \notin Topics(f)
  OBVIOUS
<1> HIDE DEF r
<1>3. ~(i \in DOMAIN p /\ r[i] = p[i])
  BY <1>2 DEF Silent
<1>4. PICK l \in DOMAIN q : i = Len(p) + l /\ r[i] = q[l]
  BY <1>1, <1>2, <1>3
<1>5. ASSUME NEW j \in l + 1 .. Len(q) PROVE q[j].topic \notin Topics(f)
  <2>1. j \in DOMAIN q /\ Len(p) + j \in i + 1 .. Len(r)
    BY <1>1, <1>4
  <2> QED  BY <1>1, <1>2, <2>1
<1>6. Says(f, q[l]) = Fact(f, m)
  BY <1>2, <1>4, <1>5 DEF LastSays
<1> QED  BY <1>4, <1>6 DEF r

\* A silent end changes nothing, if what is so stays so.
LEMMA LastBeforeSilence ==
  ASSUME NEW Y
  PROVE  \A p, q \in Seq(Y) : \A f, m, n :
           LastSays(f, p, m) /\ Silent(f, q) /\ Fact(f, n) = Fact(f, m) => LastSays(f, Joined(p, q), n)
<1> SUFFICES ASSUME NEW p \in Seq(Y), NEW q \in Seq(Y), NEW f, NEW m, NEW n,
                    LastSays(f, p, m), Silent(f, q), Fact(f, n) = Fact(f, m),
                    NEW i \in DOMAIN Joined(p, q), Joined(p, q)[i].topic \in Topics(f),
                    \A j \in i + 1 .. Len(Joined(p, q)) : Joined(p, q)[j].topic \notin Topics(f)
             PROVE  Says(f, Joined(p, q)[i]) = Fact(f, n)
  BY DEF LastSays
<1> DEFINE r == Joined(p, q)
<1>1. /\ Len(p) \in Nat /\ Len(q) \in Nat /\ Len(r) = Len(p) + Len(q) /\ DOMAIN p = 1..Len(p)
      /\ \A j \in DOMAIN p : j \in DOMAIN r /\ r[j] = p[j]
      /\ \A j \in DOMAIN r : \/ j \in DOMAIN p /\ r[j] = p[j]
                             \/ \E l \in DOMAIN q : j = Len(p) + l /\ r[j] = q[l]
  BY JoinedPlaces
<1>2. i \in DOMAIN r /\ r[i].topic \in Topics(f) /\ \A j \in i + 1 .. Len(r) : r[j].topic \notin Topics(f)
  OBVIOUS
<1> HIDE DEF r
<1>3. i \in DOMAIN p /\ r[i] = p[i]
  BY <1>1, <1>2 DEF Silent
<1>4. ASSUME NEW j \in i + 1 .. Len(p) PROVE p[j].topic \notin Topics(f)
  <2>1. j \in DOMAIN p /\ j \in i + 1 .. Len(r)
    BY <1>1, <1>3
  <2> QED  BY <1>1, <1>2, <2>1
<1>5. Says(f, p[i]) = Fact(f, m)
  BY <1>2, <1>3, <1>4 DEF LastSays
<1> QED  BY <1>3, <1>5 DEF r

\* What the end says counts, if it says anything.
LEMMA LastOfNew ==
  ASSUME NEW Y
  PROVE  \A p, q \in Seq(Y) : \A f, n : AllSay(f, q, n) /\ ~Silent(f, q) => LastSays(f, Joined(p, q), n)
<1> SUFFICES ASSUME NEW p \in Seq(Y), NEW q \in Seq(Y), NEW f, NEW n, AllSay(f, q, n), ~Silent(f, q),
                    NEW i \in DOMAIN Joined(p, q), Joined(p, q)[i].topic \in Topics(f),
                    \A j \in i + 1 .. Len(Joined(p, q)) : Joined(p, q)[j].topic \notin Topics(f)
             PROVE  Says(f, Joined(p, q)[i]) = Fact(f, n)
  BY DEF LastSays
<1> DEFINE r == Joined(p, q)
<1>1. /\ Len(p) \in Nat /\ Len(q) \in Nat /\ Len(r) = Len(p) + Len(q) /\ DOMAIN p = 1..Len(p) /\ DOMAIN q = 1..Len(q)
      /\ \A j \in DOMAIN q : Len(p) + j \in DOMAIN r /\ r[Len(p) + j] = q[j]
      /\ \A j \in DOMAIN r : \/ j \in DOMAIN p /\ r[j] = p[j]
                             \/ \E l \in DOMAIN q : j = Len(p) + l /\ r[j] = q[l]
  BY JoinedPlaces
<1>2. i \in DOMAIN r /\ r[i].topic \in Topics(f) /\ \A j \in i + 1 .. Len(r) : r[j].topic \notin Topics(f)
  OBVIOUS
<1> HIDE DEF r
<1>3. PICK l \in DOMAIN q : q[l].topic \in Topics(f)
  BY DEF Silent
<1>4. i \notin DOMAIN p
  <2>1. r[Len(p) + l].topic \in Topics(f) /\ Len(p) + l \in 1 .. Len(r)
    BY <1>1, <1>3
  <2>2. i \in DOMAIN p => Len(p) + l \in i + 1 .. Len(r)
    BY <1>1, <1>3, <2>1
  <2> QED  BY <1>2, <2>1, <2>2
<1>5. PICK k \in DOMAIN q : r[i] = q[k]
  BY <1>1, <1>2, <1>4
<1> QED  BY <1>2, <1>5 DEF AllSay, r

\* What comes with a message before it.
LEMMA OneMember ==
  ASSUME NEW Y, NEW e \in Y, NEW p, Only(p, e)
  PROVE  /\ p \in Seq(Y) /\ ToSet(p) = {e}
         /\ \A f : Silent(f, p) <=> e.topic \notin Topics(f)
         /\ Reported(p) = IF e.topic = "command" THEN {e.value} ELSE {}
<1>1. p \in Seq(Y) /\ ToSet(p) = {e}
  BY DEF ToSet, Only
<1>2. /\ \A f : Silent(f, p) <=> e.topic \notin Topics(f)
      /\ Reported(p) = IF e.topic = "command" THEN {e.value} ELSE {}
  BY <1>1, ByMembers
<1> QED  BY <1>1, <1>2

-----------------------------------------------------------------------------
(* ControlPlane: what the subscriber makes of a message.                   *)

\* The facts one by one.
LEMMA FactsAre ==
  /\ \A f \in Facts : f \in {"tree", "config", "layouts", "there", "box", "grab"}
  /\ \A m : /\ Fact("tree", m) = m.tree /\ Fact("config", m) = m.config /\ Fact("layouts", m) = m.layouts
            /\ Fact("there", m) = (m.popup # None)
            /\ Fact("box", m) = IF m.popup = None THEN None ELSE m.popup.box
            /\ Fact("grab", m) = IF m.popup = None THEN None ELSE m.popup.grab
  /\ Topics("tree") = {"tree"} /\ Topics("config") = {"config"} /\ Topics("layouts") = {"layouts"}
  /\ Topics("there") = {"created", "dismissed"} /\ Topics("box") = {"created", "dismissed", "geometry"}
  /\ Topics("grab") = {"created", "dismissed", "grab"}
  /\ \A e : /\ Says("tree", e) = e.value /\ Says("config", e) = e.value /\ Says("layouts", e) = e.value
            /\ Says("there", e) = (e.topic = "created")
            /\ Says("box", e) = IF e.topic = "created" THEN e.value.box ELSE e.value
            /\ Says("grab", e) = IF e.topic = "created" THEN e.value.grab ELSE e.value
<1>1. \A f \in Facts : f \in {"tree", "config", "layouts", "there", "box", "grab"}
  BY DEF Facts
<1>2. \A m : /\ Fact("tree", m) = m.tree /\ Fact("config", m) = m.config /\ Fact("layouts", m) = m.layouts
             /\ Fact("there", m) = (m.popup # None)
  BY DEF Fact
<1>3. \A m : /\ Fact("box", m) = IF m.popup = None THEN None ELSE m.popup.box
             /\ Fact("grab", m) = IF m.popup = None THEN None ELSE m.popup.grab
  BY DEF Fact
<1>4. /\ Topics("tree") = {"tree"} /\ Topics("config") = {"config"} /\ Topics("layouts") = {"layouts"}
      /\ Topics("there") = {"created", "dismissed"} /\ Topics("box") = {"created", "dismissed", "geometry"}
      /\ Topics("grab") = {"created", "dismissed", "grab"}
  BY DEF Topics
<1>5. \A e : /\ Says("tree", e) = e.value /\ Says("config", e) = e.value /\ Says("layouts", e) = e.value
             /\ Says("there", e) = (e.topic = "created")
  BY DEF Says
<1>6. \A e : /\ Says("box", e) = IF e.topic = "created" THEN e.value.box ELSE e.value
             /\ Says("grab", e) = IF e.topic = "created" THEN e.value.grab ELSE e.value
  BY DEF Says
<1> QED  BY <1>1, <1>2, <1>3, <1>4, <1>5, <1>6

\* The messages one by one.
LEMMA NotesAre ==
  ASSUME NEW e \in Notes \cup Answers
  PROVE  /\ e.topic \in {"tree", "config", "layouts", "command", "created", "dismissed", "geometry", "grab", "reply"}
         /\ e.topic = "created" => e.value \in Popups
         /\ e.topic = "dismissed" => e.value = None
         /\ e.topic = "geometry" => e.value \in {0, 1}
         /\ e.topic = "grab" => e.value \in BOOLEAN
         /\ e.topic = "command" => e.value \in Outcomes
         /\ e.topic = "reply" <=> e \in Answers
         /\ e.topic = "reply" => \A f \in Facts : e.topic \notin Topics(f)
         /\ e.topic = "command" => \A f \in Facts : e.topic \notin Topics(f)
<1>1. e \in Notes => /\ e.topic \in {"tree", "config", "layouts", "command", "created", "dismissed", "geometry", "grab"}
                     /\ e.topic = "created" => e.value \in Popups
                     /\ e.topic = "dismissed" => e.value = None
                     /\ e.topic = "geometry" => e.value \in {0, 1}
                     /\ e.topic = "grab" => e.value \in BOOLEAN
                     /\ e.topic = "command" => e.value \in Outcomes
  BY DEF Notes
<1>2. e \in Answers => e.topic = "reply"
  BY DEF Answers
<1>3. \A f \in Facts : Topics(f) \subseteq {"tree", "config", "layouts", "created", "dismissed", "geometry", "grab"}
  BY FactsAre
<1> QED  BY <1>1, <1>2, <1>3

\* A popup with another geometry, or another grab.
Boxed(b, v) == [b EXCEPT !.box = v]
Grabbed(b, v) == [b EXCEPT !.grab = v]

\* What a message leaves of the mirror.
LEMMA ToldIs ==
  ASSUME NEW m, m = Mirror(m), NEW e \in Notes
  PROVE  /\ Told(m, e) = Mirror(Told(m, e))
         /\ Told(m, e).tree = IF e.topic = "tree" THEN e.value ELSE m.tree
         /\ Told(m, e).config = IF e.topic = "config" THEN e.value ELSE m.config
         /\ Told(m, e).layouts = IF e.topic = "layouts" THEN e.value ELSE m.layouts
         /\ Told(m, e).commands = IF e.topic = "command" THEN m.commands \cup {e.value} ELSE m.commands
         /\ e.topic \in {"tree", "config", "layouts", "command"} => Told(m, e).popup = m.popup
         /\ e.topic \in {"created", "dismissed"} => Told(m, e).popup = e.value
         /\ e.topic = "geometry" => Told(m, e).popup = Boxed(m.popup, e.value)
         /\ e.topic = "grab" => Told(m, e).popup = Grabbed(m.popup, e.value)
<1>1. m = [tree |-> m.tree, popup |-> m.popup, config |-> m.config, layouts |-> m.layouts, commands |-> m.commands]
  BY DEF Mirror
<1>2. /\ e.topic \in {"tree", "config", "layouts", "command", "created", "dismissed", "geometry", "grab", "reply"}
      /\ e.topic = "dismissed" => e.value = None
      /\ e.topic # "reply"
  <2>1. e \in Notes \cup Answers /\ e.topic # "reply"
    BY DEF Notes
  <2> QED  BY <2>1, NotesAre
<1> DEFINE n == Told(m, e)
<1>3. CASE e.topic = "tree"
  <2>1. n = [m EXCEPT !.tree = e.value]
    BY <1>3 DEF Told
  <2> HIDE DEF n
  <2>2. n = [tree |-> e.value, popup |-> m.popup, config |-> m.config, layouts |-> m.layouts, commands |-> m.commands]
    BY <1>1, <2>1
  <2> QED  BY <1>3, <2>2 DEF n, Mirror
<1>4. CASE e.topic = "config"
  <2>1. n = [m EXCEPT !.config = e.value]
    BY <1>4 DEF Told
  <2> HIDE DEF n
  <2>2. n = [tree |-> m.tree, popup |-> m.popup, config |-> e.value, layouts |-> m.layouts, commands |-> m.commands]
    BY <1>1, <2>1
  <2> QED  BY <1>4, <2>2 DEF n, Mirror
<1>5. CASE e.topic = "layouts"
  <2>1. n = [m EXCEPT !.layouts = e.value]
    BY <1>5 DEF Told
  <2> HIDE DEF n
  <2>2. n = [tree |-> m.tree, popup |-> m.popup, config |-> m.config, layouts |-> e.value, commands |-> m.commands]
    BY <1>1, <2>1
  <2> QED  BY <1>5, <2>2 DEF n, Mirror
<1>6. CASE e.topic = "command"
  <2>1. n = [m EXCEPT !.commands = m.commands \cup {e.value}]
    BY <1>6 DEF Told
  <2> HIDE DEF n
  <2>2. n = [tree |-> m.tree, popup |-> m.popup, config |-> m.config, layouts |-> m.layouts,
             commands |-> m.commands \cup {e.value}]
    BY <1>1, <2>1
  <2> QED  BY <1>6, <2>2 DEF n, Mirror
<1>7. CASE e.topic \in {"created", "dismissed"}
  <2>1. n = [m EXCEPT !.popup = e.value]
    BY <1>2, <1>7 DEF Told
  <2> HIDE DEF n
  <2>2. n = [tree |-> m.tree, popup |-> e.value, config |-> m.config, layouts |-> m.layouts, commands |-> m.commands]
    BY <1>1, <2>1
  <2> QED  BY <1>7, <2>2 DEF n, Mirror
<1>8. CASE e.topic = "geometry"
  <2>1. n = [m EXCEPT !.popup = [m.popup EXCEPT !.box = e.value]]
    BY <1>8 DEF Told
  <2>2. PICK b : b = [m.popup EXCEPT !.box = e.value] /\ b = Boxed(m.popup, e.value)
    BY DEF Boxed
  <2> HIDE DEF n
  <2>3. n = [tree |-> m.tree, popup |-> b, config |-> m.config, layouts |-> m.layouts, commands |-> m.commands]
    BY <1>1, <2>1, <2>2
  <2> QED  BY <1>8, <2>2, <2>3 DEF n, Mirror
<1>9. CASE e.topic = "grab"
  <2>1. n = [m EXCEPT !.popup = [m.popup EXCEPT !.grab = e.value]]
    BY <1>9 DEF Told
  <2>2. PICK b : b = [m.popup EXCEPT !.grab = e.value] /\ b = Grabbed(m.popup, e.value)
    BY DEF Grabbed
  <2> HIDE DEF n
  <2>3. n = [tree |-> m.tree, popup |-> b, config |-> m.config, layouts |-> m.layouts, commands |-> m.commands]
    BY <1>1, <2>1, <2>2
  <2> QED  BY <1>9, <2>2, <2>3 DEF n, Mirror
<1> QED  BY <1>2, <1>3, <1>4, <1>5, <1>6, <1>7, <1>8, <1>9

\* While a popup's geometry or grab is on its way and nothing else about it, the popup is there.
LEMMA PopupIsThere ==
  ASSUME NEW p \in Seq(Notes \cup Answers), NEW m, NEW s \in Snapshots,
         \A f \in Facts : LastSays(f, p, s), Silent("there", p), Fact("there", m) = Fact("there", s),
         m.popup \in {None} \cup Popups, ~Silent("box", p) \/ ~Silent("grab", p)
  PROVE  m.popup \in Popups
<1>1. s.popup # None
  <2>0. Len(p) \in Nat /\ DOMAIN p = 1..Len(p) /\ \A i \in 1..Len(p) : p[i] \in Notes \cup Answers
    BY LenProperties, ElementOfSeq
  <2>1. CASE ~Silent("box", p)
    <3>1. PICK i \in DOMAIN p : p[i].topic \in Topics("box") /\ \A j \in i + 1 .. Len(p) : p[j].topic \notin Topics("box")
      BY <2>1, LastExists
    <3>2. Says("box", p[i]) = Fact("box", s)
      <4>1. LastSays("box", p, s)
        BY DEF Facts
      <4> QED  BY <3>1, <4>1 DEF LastSays
    <3>3. p[i].topic = "geometry" /\ p[i] \in Notes \cup Answers
      BY <2>0, <3>1, FactsAre DEF Silent
    <3>4. p[i].value \in {0, 1}
      BY <3>3, NotesAre
    <3>5. Says("box", p[i]) = p[i].value
      BY <3>3, FactsAre
    <3> QED  BY <3>2, <3>4, <3>5, FactsAre, ControlConstants
  <2>2. CASE ~Silent("grab", p)
    <3>1. PICK i \in DOMAIN p : p[i].topic \in Topics("grab") /\ \A j \in i + 1 .. Len(p) : p[j].topic \notin Topics("grab")
      BY <2>2, LastExists
    <3>2. Says("grab", p[i]) = Fact("grab", s)
      <4>1. LastSays("grab", p, s)
        BY DEF Facts
      <4> QED  BY <3>1, <4>1 DEF LastSays
    <3>3. p[i].topic = "grab" /\ p[i] \in Notes \cup Answers
      BY <2>0, <3>1, FactsAre DEF Silent
    <3>4. p[i].value \in BOOLEAN
      BY <3>3, NotesAre
    <3>5. Says("grab", p[i]) = p[i].value
      BY <3>3, FactsAre
    <3>6. None # p[i].value
      BY <3>4, NoneAssumption
    <3> QED  BY <3>2, <3>5, <3>6, FactsAre
  <2> QED  BY <2>1, <2>2
<1>2. Fact("there", m) = (m.popup # None) /\ Fact("there", s) = (s.popup # None)
  BY FactsAre
<1> QED  BY <1>1, <1>2

\* What is known before and after a message is read.
LEMMA BeforeAndAfter ==
  ASSUME NEW e \in Notes \cup Answers, NEW q \in Seq(Notes \cup Answers), NEW p, Only(p, e)
  PROVE  /\ p \in Seq(Notes \cup Answers) /\ Joined(p, q) \in Seq(Notes \cup Answers)
         /\ \A f : Silent(f, Joined(p, q)) <=> e.topic \notin Topics(f) /\ Silent(f, q)
         /\ Reported(Joined(p, q)) = (IF e.topic = "command" THEN {e.value} ELSE {}) \cup Reported(q)
<1> DEFINE Y == Notes \cup Answers
<1>1. p \in Seq(Y) /\ (\A f : Silent(f, p) <=> e.topic \notin Topics(f))
      /\ Reported(p) = IF e.topic = "command" THEN {e.value} ELSE {}
  BY OneMember
<1>2. p \in Seq(Y) /\ q \in Seq(Y)
  BY <1>1
<1> HIDE DEF Y
<1>3. Joined(p, q) \in Seq(Y)
  BY <1>2, JoinedIs
<1>4. (\A f : Silent(f, Joined(p, q)) <=> Silent(f, p) /\ Silent(f, q))
      /\ Reported(Joined(p, q)) = Reported(p) \cup Reported(q)
  BY <1>2, SilentJoined
<1> QED  BY <1>1, <1>3, <1>4 DEF Y

\* A reply tells nothing of what is so.
LEMMA ReplyKnows ==
  ASSUME NEW e \in Answers, NEW q \in Seq(Notes \cup Answers), NEW p, Only(p, e)
  PROVE  \A m, s : Knows(m, Joined(p, q), s) <=> Knows(m, q, s)
<1>0. e \in Notes \cup Answers
  OBVIOUS
<1>1. e.topic = "reply" /\ \A f \in Facts : e.topic \notin Topics(f)
  BY <1>0, NotesAre
<1>2. /\ \A f : Silent(f, Joined(p, q)) <=> e.topic \notin Topics(f) /\ Silent(f, q)
      /\ Reported(Joined(p, q)) = (IF e.topic = "command" THEN {e.value} ELSE {}) \cup Reported(q)
  BY <1>0, BeforeAndAfter
<1>3. Reported(Joined(p, q)) = Reported(q)
  BY <1>1, <1>2
<1>4. "there" \in Facts /\ \A f \in Facts : Silent(f, Joined(p, q)) <=> Silent(f, q)
  BY <1>1, <1>2 DEF Facts
<1> QED  BY <1>3, <1>4 DEF Knows

\* A message tells the subscriber what the rest of them does not.
LEMMA ToldKnows ==
  ASSUME NEW s \in Snapshots, NEW m, m = Mirror(m), NEW e \in Notes, NEW q \in Seq(Notes \cup Answers), NEW p, Only(p, e),
         \A f \in Facts : LastSays(f, Joined(p, q), s), Knows(m, Joined(p, q), s)
  PROVE  Knows(Told(m, e), q, s)
<1> DEFINE r == Joined(p, q)
           n == Told(m, e)
<1>0. e \in Notes \cup Answers
  OBVIOUS
<1>1. /\ p \in Seq(Notes \cup Answers) /\ r \in Seq(Notes \cup Answers)
      /\ \A f : Silent(f, r) <=> e.topic \notin Topics(f) /\ Silent(f, q)
      /\ Reported(r) = (IF e.topic = "command" THEN {e.value} ELSE {}) \cup Reported(q)
  BY <1>0, BeforeAndAfter
<1>2. \A f \in Facts : e.topic \in Topics(f) /\ Silent(f, q) => Says(f, e) = Fact(f, s)
  <2>1. p \in Seq(Notes \cup Answers) /\ Only(p, e)
    BY <1>1
  <2> QED  BY <1>0, <2>1, FirstIsLast
<1>3. (\A f \in Facts : LastSays(f, r, s)) /\ Knows(m, r, s)
  OBVIOUS
<1> HIDE DEF r
<1>4. /\ n.tree = IF e.topic = "tree" THEN e.value ELSE m.tree
      /\ n.config = IF e.topic = "config" THEN e.value ELSE m.config
      /\ n.layouts = IF e.topic = "layouts" THEN e.value ELSE m.layouts
      /\ n.commands = IF e.topic = "command" THEN m.commands \cup {e.value} ELSE m.commands
      /\ e.topic \in {"tree", "config", "layouts", "command"} => n.popup = m.popup
      /\ e.topic \in {"created", "dismissed"} => n.popup = e.value
      /\ e.topic = "geometry" => n.popup = Boxed(m.popup, e.value)
      /\ e.topic = "grab" => n.popup = Grabbed(m.popup, e.value)
  BY ToldIs
<1>5. /\ \A f \in Facts : Silent(f, r) => Fact(f, m) = Fact(f, s)
      /\ Silent("there", r) => m.popup \in {None} \cup Popups
      /\ ToSet(s.commands) \subseteq m.commands \cup Reported(r)
  BY <1>3 DEF Knows
<1>6. /\ e.topic \in {"tree", "config", "layouts", "command", "created", "dismissed", "geometry", "grab"}
      /\ e.topic = "created" => e.value \in Popups
      /\ e.topic = "dismissed" => e.value = None
      /\ e.topic = "geometry" => e.value \in {0, 1}
      /\ e.topic = "grab" => e.value \in BOOLEAN
  <2>1. e.topic # "reply"
    BY DEF Notes
  <2> QED  BY <1>0, <2>1, NotesAre
<1> HIDE DEF n
<1>7. ToSet(s.commands) \subseteq n.commands \cup Reported(q)
  BY <1>1, <1>4, <1>5
<1>8. /\ "tree" \in Facts /\ "config" \in Facts /\ "layouts" \in Facts /\ "there" \in Facts /\ "box" \in Facts
      /\ "grab" \in Facts
  BY DEF Facts
<1>9. ASSUME NEW f \in {"tree", "config", "layouts"}, Silent(f, q) PROVE Fact(f, n) = Fact(f, s)
  <2>1. CASE e.topic = f
    <3>1. Says(f, e) = e.value /\ f \in Topics(f)
      BY <1>9, FactsAre
    <3>2. Fact(f, n) = e.value
      BY <1>4, <1>9, <2>1, FactsAre
    <3> QED  BY <1>2, <1>8, <1>9, <2>1, <3>1, <3>2
  <2>2. CASE e.topic # f
    <3>1. Fact(f, n) = Fact(f, m)
      BY <1>4, <1>9, <2>2, FactsAre
    <3>2. Silent(f, r)
      BY <1>1, <1>9, <2>2, FactsAre
    <3> QED  BY <1>5, <1>8, <1>9, <3>1, <3>2
  <2> QED  BY <2>1, <2>2
<1>10. Topics("there") \subseteq Topics("box") /\ Topics("there") \subseteq Topics("grab")
  BY FactsAre
<1>11. \A f \in {"there", "box", "grab"} : Silent(f, q) => Silent("there", q)
  BY <1>10 DEF Silent
<1>12. ASSUME Silent("there", q), e.topic \notin {"created", "dismissed"}
       PROVE  /\ m.popup \in {None} \cup Popups /\ Fact("there", m) = Fact("there", s)
              /\ e.topic \in {"geometry", "grab"} => m.popup \in Popups
  <2>1. Silent("there", r)
    BY <1>1, <1>12, FactsAre
  <2>2. m.popup \in {None} \cup Popups /\ Fact("there", m) = Fact("there", s)
    BY <1>5, <1>8, <2>1
  <2>3. e.topic \in {"geometry", "grab"} => ~Silent("box", r) \/ ~Silent("grab", r)
    BY <1>1, FactsAre
  <2>4. r \in Seq(Notes \cup Answers) /\ \A f \in Facts : LastSays(f, r, s)
    BY <1>1, <1>3
  <2>5. e.topic \in {"geometry", "grab"} => m.popup \in Popups
    BY <2>1, <2>2, <2>3, <2>4, PopupIsThere
  <2> QED  BY <2>2, <2>5
<1>13. \A b \in Popups : \A v \in {0, 1} : /\ Boxed(b, v) \in Popups
                                           /\ Boxed(b, v).box = v /\ Boxed(b, v).grab = b.grab
  BY DEF Popups, Boxed
<1>14. \A b \in Popups : \A v \in BOOLEAN : /\ Grabbed(b, v) \in Popups
                                            /\ Grabbed(b, v).grab = v /\ Grabbed(b, v).box = b.box
  BY DEF Popups, Grabbed
<1>15. None \notin Popups
  BY ControlConstants
\* What became of the popup.
<1>16. ASSUME Silent("there", q)
       PROVE  /\ n.popup \in {None} \cup Popups /\ Fact("there", n) = Fact("there", s)
              /\ Silent("box", q) => Fact("box", n) = Fact("box", s)
              /\ Silent("grab", q) => Fact("grab", n) = Fact("grab", s)
  <2>1. CASE e.topic \in {"created", "dismissed"}
    <3>1. n.popup = e.value /\ e.value \in {None} \cup Popups /\ (e.topic = "created" <=> e.value # None)
      BY <1>4, <1>6, <1>15, <2>1
    <3>2. e.topic \in Topics("there") /\ e.topic \in Topics("box") /\ e.topic \in Topics("grab")
      BY <2>1, FactsAre
    <3>3. /\ Says("there", e) = Fact("there", s) /\ (Silent("box", q) => Says("box", e) = Fact("box", s))
          /\ Silent("grab", q) => Says("grab", e) = Fact("grab", s)
      BY <1>2, <1>8, <1>16, <3>2
    <3>4. Fact("there", n) = Says("there", e)
      BY <3>1, FactsAre
    <3>5. Fact("box", n) = Says("box", e)
      BY <3>1, FactsAre
    <3>6. Fact("grab", n) = Says("grab", e)
      BY <3>1, FactsAre
    <3> QED  BY <3>1, <3>3, <3>4, <3>5, <3>6
  <2>2. CASE e.topic \in {"tree", "config", "layouts", "command"}
    <3>1. n.popup = m.popup
      BY <1>4, <2>2
    <3>2. m.popup \in {None} \cup Popups /\ Fact("there", m) = Fact("there", s)
      BY <1>12, <1>16, <2>2
    <3>3. e.topic \notin Topics("box") /\ e.topic \notin Topics("grab")
      BY <2>2, FactsAre
    <3>4. /\ Silent("box", q) => Fact("box", m) = Fact("box", s)
          /\ Silent("grab", q) => Fact("grab", m) = Fact("grab", s)
      BY <1>1, <1>5, <1>8, <3>3
    <3>5. Fact("there", n) = Fact("there", m) /\ Fact("box", n) = Fact("box", m) /\ Fact("grab", n) = Fact("grab", m)
      BY <3>1, FactsAre
    <3> QED  BY <3>1, <3>2, <3>4, <3>5
  <2>3. CASE e.topic = "geometry"
    <3>1. m.popup \in Popups /\ Fact("there", m) = Fact("there", s) /\ e.value \in {0, 1}
      BY <1>6, <1>12, <1>16, <2>3
    <3>2. n.popup \in Popups /\ n.popup.box = e.value /\ n.popup.grab = m.popup.grab
      BY <1>4, <1>13, <2>3, <3>1
    <3>3. Fact("there", n) = Fact("there", m) /\ Fact("grab", n) = Fact("grab", m) /\ Fact("box", n) = e.value
      BY <1>15, <3>1, <3>2, FactsAre
    <3>4. e.topic \in Topics("box") /\ e.topic \notin Topics("grab") /\ Says("box", e) = e.value
      BY <2>3, FactsAre
    <3>5. Silent("grab", q) => Fact("grab", m) = Fact("grab", s)
      BY <1>1, <1>5, <1>8, <3>4
    <3>6. Silent("box", q) => e.value = Fact("box", s)
      BY <1>2, <1>8, <3>4
    <3> QED  BY <3>1, <3>2, <3>3, <3>5, <3>6
  <2>4. CASE e.topic = "grab"
    <3>1. m.popup \in Popups /\ Fact("there", m) = Fact("there", s) /\ e.value \in BOOLEAN
      BY <1>6, <1>12, <1>16, <2>4
    <3>2. n.popup \in Popups /\ n.popup.grab = e.value /\ n.popup.box = m.popup.box
      BY <1>4, <1>14, <2>4, <3>1
    <3>3. Fact("there", n) = Fact("there", m) /\ Fact("box", n) = Fact("box", m) /\ Fact("grab", n) = e.value
      BY <1>15, <3>1, <3>2, FactsAre
    <3>4. e.topic \in Topics("grab") /\ e.topic \notin Topics("box") /\ Says("grab", e) = e.value
      BY <2>4, FactsAre
    <3>5. Silent("box", q) => Fact("box", m) = Fact("box", s)
      BY <1>1, <1>5, <1>8, <3>4
    <3>6. Silent("grab", q) => e.value = Fact("grab", s)
      BY <1>2, <1>8, <3>4
    <3> QED  BY <3>1, <3>2, <3>3, <3>5, <3>6
  <2> QED  BY <1>6, <2>1, <2>2, <2>3, <2>4
<1>17. \A f \in Facts : Silent(f, q) => Fact(f, n) = Fact(f, s)
  <2> SUFFICES ASSUME NEW f \in Facts, Silent(f, q) PROVE Fact(f, n) = Fact(f, s)
    OBVIOUS
  <2>1. CASE f \in {"tree", "config", "layouts"}
    BY <1>9, <2>1
  <2>2. CASE f \in {"there", "box", "grab"}
    BY <1>11, <1>16, <2>2
  <2> QED  BY <2>1, <2>2, FactsAre
<1> QED  BY <1>7, <1>16, <1>17 DEF Knows, n

-----------------------------------------------------------------------------
(* ControlPlane: a reload, new connections and the fan-out of events.      *)

Followed(s) == ~s.watch /\ file.kind = "good" => s.config = [v |-> file.v, error |-> None]
Named(s) == s.layouts.names = Configs[s.config.v].layouts
InUse(l) == l.names[l.active]
\* The layout in use of l is in use in s, or has no place there.
StaysInUse(l, s) ==
  \/ InUse(s.layouts) = InUse(l)
  \/ InUse(l) \notin ToSet(s.layouts.names) /\ InUse(s.layouts) = Configs[s.config.v].current

\* apply_layouts: the layout in use is looked up by its name.
LEMMA AppliedIs ==
  ASSUME NEW v \in DOMAIN Configs, NEW l, NEW n, n = Applied(Configs[v].layouts, Configs[v].current, l)
  PROVE  /\ n \in LayoutStates /\ n.names = Configs[v].layouts
         /\ InUse(n) = InUse(l) \/ (InUse(l) \notin ToSet(n.names) /\ InUse(n) = Configs[v].current)
<1> DEFINE N == Configs[v].layouts
           name == InUse(l)
           x == IF name \in ToSet(N) THEN name ELSE Configs[v].current
<1>1. n = [names |-> N, active |-> Position(N, x)]
  BY DEF Applied, InUse
<1>2. \E i \in DOMAIN N : N[i] = x
  BY ConfigsSound DEF ToSet
<1> HIDE DEF name
<1>3. Position(N, x) \in DOMAIN N /\ N[Position(N, x)] = x
  <2> HIDE DEF x, N
  <2> QED  BY <1>2, PositionFound
<1>4. n \in LayoutStates
  BY <1>1, <1>3, LayoutStateIs
<1>5. n.names = N /\ InUse(n) = x
  <2> HIDE DEF x, N
  <2> QED  BY <1>1, <1>3 DEF InUse
<1> QED  BY <1>4, <1>5 DEF name

LEMMA ReloadedIs ==
  ASSUME file \in ConfigFiles, NEW s \in PassStates, Named(s), NEW u, u = Reloaded(s)
  PROVE  /\ u \in PassStates /\ Named(u) /\ StaysInUse(s.layouts, u) /\ (Followed(s) => Followed(u))
         /\ u.conns = s.conns /\ u.queue = s.queue /\ u.requests.commands = s.requests.commands
<1>0. file.v \in DOMAIN Configs /\ file.kind \in {"good", "invalid", "unreadable"}
  BY DEF ConfigFiles
<1>1. s = [conns |-> s.conns, queue |-> s.queue, requests |-> s.requests, layouts |-> s.layouts,
           config |-> s.config, watch |-> s.watch]
      /\ s.requests \in Requested /\ s.layouts \in LayoutStates /\ s.config \in Configurations /\ s.watch \in BOOLEAN
      /\ s.conns \in [Conns -> Peers] /\ s.queue \in Seq(Conns)
  BY DEF PassStates
<1>2. CASE ~s.requests.reload /\ ~s.watch
  <2>1. u = s
    BY <1>2 DEF Reloaded
  <2> QED  BY <2>1 DEF StaysInUse
<1>3. CASE s.requests.reload \/ s.watch
  <2> DEFINE t == [s EXCEPT !.requests.reload = FALSE, !.watch = @ /\ s.requests.reload /\ scene.watched]
  <2>1. PICK r : r = [s.requests EXCEPT !.reload = FALSE]
    OBVIOUS
  <2>2. r \in Requested /\ r.commands = s.requests.commands
    BY <1>1, <2>1 DEF Requested
  <2>3. PICK w : w = (s.watch /\ s.requests.reload /\ scene.watched)
    OBVIOUS
  <2>4. w \in BOOLEAN /\ (~w \/ s.requests.reload)
    BY <1>1, <2>3
  <2>5. t = [conns |-> s.conns, queue |-> s.queue, requests |-> r, layouts |-> s.layouts,
             config |-> s.config, watch |-> w]
    <3>1. t = [s EXCEPT !.requests = r, !.watch = w]
      BY <2>1, <2>3
    <3>2. s = [conns |-> s.conns, queue |-> s.queue, requests |-> s.requests, layouts |-> s.layouts,
               config |-> s.config, watch |-> s.watch]
      BY <1>1
    <3> HIDE DEF t
    <3> QED  BY <3>1, <3>2
  <2>6. u = CASE file.kind = "good" ->
                   [t EXCEPT !.config = [v |-> file.v, error |-> None],
                             !.layouts = Applied(Configs[file.v].layouts, Configs[file.v].current, @)]
              [] file.kind = "invalid"    -> t
              [] file.kind = "unreadable" -> [t EXCEPT !.config.error = file.kind]
    BY <1>3 DEF Reloaded
  <2> HIDE DEF t
  <2>7. CASE file.kind = "good"
    <3>1. PICK l : l = Applied(Configs[file.v].layouts, Configs[file.v].current, s.layouts)
      OBVIOUS
    <3>2. /\ l \in LayoutStates /\ l.names = Configs[file.v].layouts
          /\ InUse(l) = InUse(s.layouts)
             \/ (InUse(s.layouts) \notin ToSet(l.names) /\ InUse(l) = Configs[file.v].current)
      BY <1>0, <3>1, AppliedIs
    <3>3. PICK g : g = [v |-> file.v, error |-> None]
      OBVIOUS
    <3>4. g \in Configurations /\ g.v = file.v
      BY <1>0, <3>3 DEF Configurations
    <3>5. u = [t EXCEPT !.config = g, !.layouts = l]
      BY <2>5, <2>6, <2>7, <3>1, <3>3
    <3>6. u = [conns |-> s.conns, queue |-> s.queue, requests |-> r, layouts |-> l, config |-> g, watch |-> w]
      BY <2>5, <3>5
    <3>7. u \in PassStates
      BY <1>1, <2>2, <2>4, <3>2, <3>4, <3>6 DEF PassStates
    <3>8. Named(u) /\ StaysInUse(s.layouts, u)
      BY <3>2, <3>4, <3>6 DEF Named, StaysInUse
    <3>9. Followed(u)
      BY <3>3, <3>6 DEF Followed
    <3> QED  BY <2>2, <3>6, <3>7, <3>8, <3>9
  <2>8. CASE file.kind = "invalid"
    <3>1. u = [conns |-> s.conns, queue |-> s.queue, requests |-> r, layouts |-> s.layouts,
               config |-> s.config, watch |-> w]
      BY <2>5, <2>6, <2>8
    <3>2. u \in PassStates
      BY <1>1, <2>2, <2>4, <3>1 DEF PassStates
    <3>3. Named(u) /\ StaysInUse(s.layouts, u)
      BY <3>1 DEF Named, StaysInUse
    <3>4. Followed(u)
      BY <2>8 DEF Followed
    <3> QED  BY <2>2, <3>1, <3>2, <3>3, <3>4
  <2>9. CASE file.kind = "unreadable"
    <3>1. PICK g : g = [s.config EXCEPT !.error = "unreadable"]
      OBVIOUS
    <3>2. g \in Configurations /\ g.v = s.config.v
      BY <1>1, <3>1 DEF Configurations
    <3>3. u = [t EXCEPT !.config = g]
      BY <2>5, <2>6, <2>9, <3>1
    <3>4. u = [conns |-> s.conns, queue |-> s.queue, requests |-> r, layouts |-> s.layouts,
               config |-> g, watch |-> w]
      BY <2>5, <3>3
    <3>5. u \in PassStates
      BY <1>1, <2>2, <2>4, <3>2, <3>4 DEF PassStates
    <3>6. Named(u) /\ StaysInUse(s.layouts, u)
      BY <3>2, <3>4 DEF Named, StaysInUse
    <3>7. Followed(u)
      BY <2>9 DEF Followed
    <3> QED  BY <2>2, <3>4, <3>5, <3>6, <3>7
  <2> QED  BY <1>0, <2>7, <2>8, <2>9
<1> QED  BY <1>2, <1>3

\* An order of the connections that wait names each of them.
LEMMA OrdersAre ==
  ASSUME NEW W \in SUBSET Conns, NEW q \in Orders(W)
  PROVE  q \in Seq(Conns) /\ ToSet(q) = W
<1>1. IsFiniteSet(Conns)
  <2>1. IsFiniteSet(Others)
    BY OthersAssumption
  <2>2. IsFiniteSet({"stream"} \cup {"query"})
    BY FS_Singleton, FS_Union
  <2>3. {"stream", "query"} = {"stream"} \cup {"query"}
    OBVIOUS
  <2> QED  BY <2>1, <2>2, <2>3, FS_Union DEF Conns
<1>2. Cardinality(W) \in Nat
  BY <1>1, FS_Subset, FS_CardinalityType
<1>3. q \in [1..Cardinality(W) -> W] /\ ToSet(q) = W
  BY DEF Orders
<1>4. q \in [1..Cardinality(W) -> Conns]
  BY <1>3
<1> QED  BY <1>2, <1>3, <1>4, SeqDef

\* A connection that the server keeps from now on, and one with more to read.
Kept(k) == [k EXCEPT !.link = "kept"]
More(k, q) == [k EXCEPT !.out = Joined(k.out, q)]

LEMMA KeptIs ==
  ASSUME NEW k \in Peers, NEW l, l = Kept(k)
  PROVE  /\ l \in Peers /\ l.link = "kept" /\ l.asks = k.asks /\ l.sent = k.sent /\ l.eof = k.eof /\ l.reads = k.reads
         /\ l.done = k.done /\ l.subscribed = k.subscribed /\ l.out = k.out /\ l.down = k.down
BY DEF Kept, Peers

LEMMA MoreIs ==
  ASSUME NEW k \in Peers, NEW q \in Seq(Notes), NEW l, l = More(k, q)
  PROVE  /\ l \in Peers /\ l.link = k.link /\ l.asks = k.asks /\ l.sent = k.sent /\ l.eof = k.eof /\ l.reads = k.reads
         /\ l.done = k.done /\ l.subscribed = k.subscribed /\ l.down = k.down
         /\ l.out = Joined(k.out, q) /\ Way(l) = Joined(Way(k), q)
<1> DEFINE Y == Notes \cup Answers
<1>1. k.out \in Seq(Y) /\ k.down \in Seq(Y)
  BY DEF Peers
<1>2. q \in Seq(Y)
  <2>1. Notes \subseteq Y
    OBVIOUS
  <2> HIDE DEF Y
  <2>2. Len(q) \in Nat /\ q \in [1..Len(q) -> Notes]
    BY LenProperties
  <2>3. q \in [1..Len(q) -> Y]
    BY <2>1, <2>2
  <2> QED  BY <2>2, <2>3, SeqDef
<1> HIDE DEF Y
<1>3. PICK o : o = Joined(k.out, q)
  OBVIOUS
<1>4. o \in Seq(Y)
  BY <1>1, <1>2, <1>3, JoinedIs
<1>5. l = [k EXCEPT !.out = o]
  BY <1>3 DEF More
<1>6. /\ l \in Peers /\ l.link = k.link /\ l.asks = k.asks /\ l.sent = k.sent /\ l.eof = k.eof /\ l.reads = k.reads
      /\ l.done = k.done /\ l.subscribed = k.subscribed /\ l.down = k.down /\ l.out = o
  BY <1>4, <1>5 DEF Peers, Y
<1>7. Joined(k.down, o) = Joined(Joined(k.down, k.out), q)
  BY <1>1, <1>2, <1>3, JoinedTwice
<1> QED  BY <1>3, <1>6, <1>7 DEF Way

\* What the rest of a state has to do with the connections.
LEMMA AwaitedAgain ==
  ASSUME NEW ks, NEW ls, NEW q \in Seq(Others),
         \A c \in Conns : ls[c].done = ks[c].done /\ ls[c].asks = ks[c].asks /\ ls[c].sent = ks[c].sent
  PROVE  Awaited(ks, q) => Awaited(ls, q)
<1>1. Len(q) \in Nat /\ DOMAIN q = 1..Len(q) /\ \A i \in 1..Len(q) : q[i] \in Others
  BY LenProperties, ElementOfSeq
<1>2. \A c \in Others : c \in Conns
  BY ControlConstants
<1>3. \A c \in Others : Launches(ls[c]) <=> Launches(ks[c])
  BY <1>2 DEF Launches
<1>4. \A i \in DOMAIN q : Launches(ls[q[i]]) <=> Launches(ks[q[i]])
  BY <1>1, <1>3
<1> QED  BY <1>2, <1>3, <1>4 DEF Awaited

LEMMA AcceptedIs ==
  ASSUME NEW s, Keeps(s), NEW q \in Orders({c \in Conns : s.conns[c].link = "waits"}), NEW u, u = Accepted(s, q)
  PROVE  /\ Keeps(u) /\ u.config = s.config /\ u.watch = s.watch /\ u.layouts = s.layouts /\ u.requests = s.requests
         /\ \A c \in Conns : u.conns[c] = IF s.conns[c].link = "waits" THEN Kept(s.conns[c]) ELSE s.conns[c]
<1> DEFINE W == {c \in Conns : s.conns[c].link = "waits"}
           cs == [c \in Conns |-> IF s.conns[c].link = "waits" THEN Kept(s.conns[c]) ELSE s.conns[c]]
<1>1. q \in Seq(Conns) /\ ToSet(q) = W
  BY OrdersAre
<1>2. /\ s = [conns |-> s.conns, queue |-> s.queue, requests |-> s.requests, layouts |-> s.layouts,
              config |-> s.config, watch |-> s.watch]
      /\ s.requests \in Requested /\ s.layouts \in LayoutStates /\ s.config \in Configurations /\ s.watch \in BOOLEAN
      /\ s.conns \in [Conns -> Peers] /\ s.queue \in Seq(Conns)
  BY DEF Keeps, PassStates
<1>3. PICK j : j = Joined(s.queue, q)
  OBVIOUS
<1>4. u = [s EXCEPT !.queue = j, !.conns = cs]
  BY <1>3 DEF Accepted, Kept, Joined
<1>5. \A c \in Conns : s.conns[c] \in Peers /\ cs[c] = IF s.conns[c].link = "waits" THEN Kept(s.conns[c]) ELSE s.conns[c]
  BY <1>2
<1>6. cs \in [Conns -> Peers]
  <2>1. \A c \in Conns : (IF s.conns[c].link = "waits" THEN Kept(s.conns[c]) ELSE s.conns[c]) \in Peers
    BY <1>5, KeptIs
  <2> QED  BY <2>1
<1> HIDE DEF cs
<1>7. u = [conns |-> cs, queue |-> j, requests |-> s.requests, layouts |-> s.layouts,
           config |-> s.config, watch |-> s.watch]
  BY <1>2, <1>4
<1>8. j \in Seq(Conns) /\ ToSet(j) = ToSet(s.queue) \cup W
  <2>1. s.queue \in Seq(Conns) /\ q \in Seq(Conns) /\ ToSet(q) = W
    BY <1>1, <1>2
  <2> HIDE DEF W
  <2>2. Joined(s.queue, q) \in Seq(Conns)
    BY <2>1, JoinedIs
  <2>3. ToSet(Joined(s.queue, q)) = ToSet(s.queue) \cup ToSet(q)
    BY <2>1, JoinedMembers
  <2> QED  BY <1>3, <2>1, <2>2, <2>3
<1>9. u \in PassStates
  BY <1>2, <1>6, <1>7, <1>8 DEF PassStates
<1>10. /\ u.conns = cs /\ u.queue = j /\ u.requests = s.requests /\ u.layouts = s.layouts
       /\ u.config = s.config /\ u.watch = s.watch
  BY <1>7
<1>11. ASSUME NEW c \in Conns
       PROVE  /\ PeerTrue(cs[c], c) /\ (cs[c].link = "kept" <=> c \in ToSet(j))
              /\ cs[c].done = s.conns[c].done /\ cs[c].asks = s.conns[c].asks /\ cs[c].sent = s.conns[c].sent
  <2>1. PeerTrue(s.conns[c], c) /\ (s.conns[c].link = "kept" <=> c \in ToSet(s.queue))
    BY DEF Keeps
  <2>2. CASE s.conns[c].link # "waits"
    <3>1. cs[c] = s.conns[c]
      BY <1>5, <2>2
    <3>2. c \notin W
      BY <2>2
    <3> QED  BY <1>8, <2>1, <3>1, <3>2
  <2>3. CASE s.conns[c].link = "waits"
    <3>1. PICK k : k = s.conns[c]
      OBVIOUS
    <3>2. k \in Peers /\ PeerTrue(k, c) /\ k.link = "waits"
      BY <1>5, <2>1, <2>3, <3>1
    <3>3. PICK l : l = Kept(k) /\ cs[c] = l
      BY <1>5, <2>3, <3>1
    <3>4. /\ l.link = "kept" /\ l.asks = k.asks /\ l.sent = k.sent /\ l.eof = k.eof /\ l.reads = k.reads
          /\ l.done = k.done /\ l.subscribed = k.subscribed /\ l.out = k.out /\ l.down = k.down
      BY <3>2, <3>3, KeptIs
    <3>5. PeerTrue(l, c)
      BY <3>2, <3>4 DEF PeerTrue
    <3>6. c \in W
      BY <2>3
    <3> QED  BY <1>8, <3>1, <3>3, <3>4, <3>5, <3>6
  <2> QED  BY <2>2, <2>3
<1>12. Awaited(cs, s.requests.commands)
  <2>1. s.requests.commands \in Seq(Others)
    BY <1>2 DEF Requested
  <2>2. Awaited(s.conns, s.requests.commands)
    BY DEF Keeps
  <2> QED  BY <1>11, <2>1, <2>2, AwaitedAgain
<1>13. Keeps(u)
  BY <1>9, <1>10, <1>11, <1>12 DEF Keeps
<1> QED  BY <1>5, <1>10, <1>13

LEMMA FannedIs ==
  ASSUME events \in Seq(Notes), NEW s, Keeps(s), NEW u, u = Fanned(s)
  PROVE  /\ Keeps(u) /\ u.config = s.config /\ u.watch = s.watch /\ u.layouts = s.layouts /\ u.requests = s.requests
         /\ \A c \in Conns : u.conns[c] = IF s.conns[c].subscribed /\ s.conns[c].link = "kept"
                                           THEN More(s.conns[c], events) ELSE s.conns[c]
<1> DEFINE cs == [c \in Conns |-> IF s.conns[c].subscribed /\ s.conns[c].link = "kept"
                                   THEN More(s.conns[c], events) ELSE s.conns[c]]
<1>2. /\ s = [conns |-> s.conns, queue |-> s.queue, requests |-> s.requests, layouts |-> s.layouts,
              config |-> s.config, watch |-> s.watch]
      /\ s.requests \in Requested /\ s.layouts \in LayoutStates /\ s.config \in Configurations /\ s.watch \in BOOLEAN
      /\ s.conns \in [Conns -> Peers] /\ s.queue \in Seq(Conns)
  BY DEF Keeps, PassStates
<1>4. u = [s EXCEPT !.conns = cs]
  BY DEF Fanned, More, Joined
<1>5. \A c \in Conns : s.conns[c] \in Peers /\ cs[c] = IF s.conns[c].subscribed /\ s.conns[c].link = "kept"
                                                       THEN More(s.conns[c], events) ELSE s.conns[c]
  BY <1>2
<1>6. cs \in [Conns -> Peers]
  <2>1. \A c \in Conns : (IF s.conns[c].subscribed /\ s.conns[c].link = "kept"
                            THEN More(s.conns[c], events) ELSE s.conns[c]) \in Peers
    BY <1>5, MoreIs
  <2> QED  BY <2>1
<1> HIDE DEF cs
<1>7. u = [conns |-> cs, queue |-> s.queue, requests |-> s.requests, layouts |-> s.layouts,
           config |-> s.config, watch |-> s.watch]
  BY <1>2, <1>4
<1>9. u \in PassStates
  BY <1>2, <1>6, <1>7 DEF PassStates
<1>10. /\ u.conns = cs /\ u.queue = s.queue /\ u.requests = s.requests /\ u.layouts = s.layouts
       /\ u.config = s.config /\ u.watch = s.watch
  BY <1>7
<1>11. ASSUME NEW c \in Conns
       PROVE  /\ PeerTrue(cs[c], c) /\ cs[c].link = s.conns[c].link
              /\ cs[c].done = s.conns[c].done /\ cs[c].asks = s.conns[c].asks /\ cs[c].sent = s.conns[c].sent
  <2>1. PeerTrue(s.conns[c], c)
    BY DEF Keeps
  <2>2. CASE ~(s.conns[c].subscribed /\ s.conns[c].link = "kept")
    BY <1>5, <2>1, <2>2
  <2>3. CASE s.conns[c].subscribed /\ s.conns[c].link = "kept"
    <3>1. PICK k : k = s.conns[c]
      OBVIOUS
    <3>2. k \in Peers /\ PeerTrue(k, c) /\ k.link = "kept" /\ k.subscribed
      BY <1>5, <2>1, <2>3, <3>1
    <3>3. PICK l : l = More(k, events) /\ cs[c] = l
      BY <1>5, <2>3, <3>1
    <3>4. /\ l.link = k.link /\ l.asks = k.asks /\ l.sent = k.sent /\ l.eof = k.eof /\ l.reads = k.reads
          /\ l.done = k.done /\ l.subscribed = k.subscribed /\ l.down = k.down
      <4>1. k \in Peers /\ l = More(k, events)
        BY <3>2, <3>3
      <4> QED  BY <4>1, MoreIs
    <3>5. k.done
      BY <3>2 DEF PeerTrue
    <3>6. PeerTrue(l, c)
      BY <3>2, <3>4, <3>5 DEF PeerTrue
    <3> QED  BY <3>1, <3>3, <3>4, <3>6
  <2> QED  BY <2>2, <2>3
<1>12. Awaited(cs, s.requests.commands)
  <2>1. s.requests.commands \in Seq(Others)
    BY <1>2 DEF Requested
  <2>2. Awaited(s.conns, s.requests.commands)
    BY DEF Keeps
  <2> QED  BY <1>11, <2>1, <2>2, AwaitedAgain
<1>13. Keeps(u)
  <2>1. \A c \in Conns : s.conns[c].link = "kept" <=> c \in ToSet(s.queue)
    BY DEF Keeps
  <2> QED  BY <1>9, <1>10, <1>11, <1>12, <2>1 DEF Keeps
<1> QED  BY <1>5, <1>10, <1>13

-----------------------------------------------------------------------------
(* ControlPlane: the two passes of a frame.                                *)

\* What a connection has to read after a pass that made k of it: as before, or its answer.
Heard(k, w, l, c) ==
  \/ w = Way(k)
  \/ /\ Way(k) = <<>> /\ ~k.done /\ l.done
     /\ \E r \in Answers : Only(w, r) /\ (c = "query" => r = Event("reply", cache))
\* What a frame makes of a connection; the subscriber has events to read as well.
Served(k, l, c) ==
  /\ l.asks = k.asks /\ l.sent = k.sent /\ l.eof = k.eof /\ l.reads = k.reads
  /\ k.done => l.done
  /\ l.link = "none" <=> k.link = "none"
  /\ c # "stream" => Heard(k, Way(l), l, c)
  /\ c = "stream" => \/ ~l.done /\ Way(l) = <<>>
                     \/ \E w \in Seq(Notes \cup Answers) : Heard(k, w, l, c) /\ Way(l) = Joined(w, events)

LEMMA ServedHeard ==
  ASSUME NEW k, NEW l, NEW c
  PROVE  PeerServed(k, l, c) => Heard(k, Way(l), l, c)
<1> SUFFICES ASSUME PeerServed(k, l, c) PROVE Heard(k, Way(l), l, c)
  OBVIOUS
<1>1. CASE Way(l) = Way(k)
  BY <1>1 DEF Heard
<1>2. CASE Way(l) # Way(k)
  <2>1. Way(k) = <<>> /\ ~k.done /\ l.done
    BY <1>2 DEF PeerServed
  <2>2. PICK r \in Answers : Way(l) = <<r>> /\ (c = "query" => r = Event("reply", cache))
    BY <1>2 DEF PeerServed
  <2>3. Only(Way(l), r)
    BY <2>2 DEF Only
  <2> QED  BY <2>1, <2>2, <2>3 DEF Heard
<1> QED  BY <1>1, <1>2

LEMMA WayTyped ==
  ASSUME NEW k \in Peers
  PROVE  /\ k.out \in Seq(Notes \cup Answers) /\ k.down \in Seq(Notes \cup Answers) /\ Way(k) \in Seq(Notes \cup Answers)
         /\ k.out = <<>> /\ k.down = <<>> => Way(k) = <<>>
<1> DEFINE Y == Notes \cup Answers
<1>1. k.out \in Seq(Y) /\ k.down \in Seq(Y)
  BY DEF Peers
<1> HIDE DEF Y
<1>2. Joined(k.down, k.out) \in Seq(Y)
  BY <1>1, JoinedIs
<1>3. k.out = <<>> => Joined(k.down, k.out) = k.down
  BY <1>1, JoinedEmpty
<1> QED  BY <1>1, <1>2, <1>3 DEF Way, Y

LEMMA StateKeeps ==
  ASSUME ControlInv
  PROVE  Keeps(State) /\ Named(State) /\ State.layouts = layouts /\ State.conns = conns
<1>1. State \in PassStates
  BY DEF ControlInv, ControlTyped, State, PassStates
<1>2. /\ State.conns = conns /\ State.queue = queue /\ State.requests = requests /\ State.layouts = layouts
      /\ State.config = config
  BY DEF State
<1>3. (\A c \in Conns : PeerTrue(conns[c], c)) /\ (\A c \in Conns : conns[c].link = "kept" <=> c \in ToSet(queue))
  BY DEF ControlInv, ConnsTrue
<1>4. Awaited(conns, requests.commands) /\ layouts.names = Configs[config.v].layouts
  BY DEF ControlInv, CommandsOnce, FileFollowed
<1> QED  BY <1>1, <1>2, <1>3, <1>4 DEF Keeps, Named

\* Keeps speaks of no more of a state than a reload leaves alone.
LEMMA KeepsAgain ==
  ASSUME NEW s, NEW u \in PassStates, u.conns = s.conns, u.queue = s.queue, u.requests.commands = s.requests.commands
  PROVE  Keeps(s) => Keeps(u)
BY DEF Keeps

LEMMA AcceptIs ==
  ASSUME ControlInv, Accept
  PROVE  \E s : /\ Becomes(s) /\ Keeps(s) /\ Named(s) /\ (Followed(State) => Followed(s))
                /\ StaysInUse(layouts, s) \/ NextAsked(State, s)
                /\ \A c \in Conns : Served(conns[c], s.conns[c], c)
<1> DEFINE z == IF reloadFirst THEN Reloaded(State) ELSE State
<1>0. PICK q \in Orders({c \in Conns : conns[c].link = "waits"}), full \in Blocked :
        \E s \in {Fanned(Processed(Accepted(z, q), full))} : Becomes(s)
  BY DEF Accept
<1>1. PICK a : a = z
  OBVIOUS
<1>2. PICK b : b = Accepted(a, q)
  OBVIOUS
<1>3. PICK p : p = Processed(b, full)
  OBVIOUS
<1>4. PICK s : s = Fanned(p)
  OBVIOUS
<1>5. Becomes(s)
  BY <1>0, <1>1, <1>2, <1>3, <1>4
<1>6. Keeps(State) /\ Named(State) /\ State.layouts = layouts /\ State.conns = conns /\ State \in PassStates
  BY StateKeeps DEF Keeps
<1>7. file \in ConfigFiles /\ ControlTyped /\ events \in Seq(Notes)
  BY DEF ControlInv, ControlTyped
<1>8. /\ Keeps(a) /\ Named(a) /\ StaysInUse(layouts, a) /\ (Followed(State) => Followed(a)) /\ a.conns = conns
  <2>1. CASE reloadFirst
    <3>1. a = Reloaded(State)
      BY <1>1, <2>1
    <3>2. /\ a \in PassStates /\ Named(a) /\ StaysInUse(State.layouts, a) /\ (Followed(State) => Followed(a))
          /\ a.conns = State.conns /\ a.queue = State.queue /\ a.requests.commands = State.requests.commands
      <4>1. State \in PassStates /\ Named(State) /\ file \in ConfigFiles
        BY <1>6, <1>7
      <4> QED  BY <3>1, <4>1, ReloadedIs
    <3>3. Keeps(a)
      <4>1. /\ a \in PassStates /\ a.conns = State.conns /\ a.queue = State.queue
            /\ a.requests.commands = State.requests.commands
        BY <3>2
      <4>2. Keeps(State)
        BY <1>6
      <4> QED  BY <4>1, <4>2, KeepsAgain
    <3> QED  BY <1>6, <3>2, <3>3
  <2>2. CASE ~reloadFirst
    <3>1. a = State
      BY <1>1, <2>2
    <3>2. StaysInUse(layouts, State)
      BY <1>6 DEF StaysInUse
    <3> QED  BY <1>6, <3>1, <3>2
  <2> QED  BY <2>1, <2>2
<1>9. /\ Keeps(b) /\ b.config = a.config /\ b.watch = a.watch /\ b.layouts = a.layouts /\ b.requests = a.requests
      /\ \A c \in Conns : b.conns[c] = IF a.conns[c].link = "waits" THEN Kept(a.conns[c]) ELSE a.conns[c]
  <2>1. Keeps(a) /\ q \in Orders({c \in Conns : a.conns[c].link = "waits"})
    BY <1>8
  <2> QED  BY <1>2, <2>1, AcceptedIs
<1>10. /\ Keeps(p) /\ p.config = b.config /\ p.watch = b.watch
       /\ p.layouts.names = b.layouts.names /\ (p.layouts = b.layouts \/ NextAsked(b, p))
       /\ \A c \in Conns : PeerServed(b.conns[c], p.conns[c], c)
  <2>1. ControlTyped /\ Keeps(b)
    BY <1>7, <1>9
  <2> QED  BY <1>3, <2>1, ProcessedIs
<1>11. /\ Keeps(s) /\ s.config = p.config /\ s.watch = p.watch /\ s.layouts = p.layouts /\ s.requests = p.requests
       /\ \A c \in Conns : s.conns[c] = IF p.conns[c].subscribed /\ p.conns[c].link = "kept"
                                        THEN More(p.conns[c], events) ELSE p.conns[c]
  <2>1. events \in Seq(Notes) /\ Keeps(p)
    BY <1>7, <1>10
  <2> QED  BY <1>4, <2>1, FannedIs
<1>12. \A c \in Conns : conns[c] \in Peers /\ b.conns[c] \in Peers /\ p.conns[c] \in Peers
  BY <1>7, <1>9, <1>10 DEF ControlTyped, Keeps, PassStates
\* What accepting a connection leaves of it.
<1>13. ASSUME NEW c \in Conns
       PROVE  /\ b.conns[c].asks = conns[c].asks /\ b.conns[c].sent = conns[c].sent /\ b.conns[c].eof = conns[c].eof
              /\ b.conns[c].reads = conns[c].reads /\ b.conns[c].done = conns[c].done
              /\ (b.conns[c].link = "none" <=> conns[c].link = "none") /\ Way(b.conns[c]) = Way(conns[c])
  <2>1. CASE conns[c].link = "waits"
    <3>1. b.conns[c] = Kept(conns[c]) /\ conns[c] \in Peers
      BY <1>8, <1>9, <1>12, <2>1
    <3> QED  BY <2>1, <3>1, KeptIs DEF Way
  <2>2. CASE conns[c].link # "waits"
    BY <1>8, <1>9, <2>2
  <2> QED  BY <2>1, <2>2
<1>14. ASSUME NEW c \in Conns
       PROVE  /\ s.conns[c].asks = p.conns[c].asks /\ s.conns[c].sent = p.conns[c].sent /\ s.conns[c].eof = p.conns[c].eof
              /\ s.conns[c].reads = p.conns[c].reads /\ s.conns[c].done = p.conns[c].done
              /\ s.conns[c].link = p.conns[c].link
              /\ ~(p.conns[c].subscribed /\ p.conns[c].link = "kept") => Way(s.conns[c]) = Way(p.conns[c])
              /\ p.conns[c].subscribed /\ p.conns[c].link = "kept" => Way(s.conns[c]) = Joined(Way(p.conns[c]), events)
  <2>1. CASE p.conns[c].subscribed /\ p.conns[c].link = "kept"
    <3>1. s.conns[c] = More(p.conns[c], events) /\ p.conns[c] \in Peers /\ events \in Seq(Notes)
      BY <1>7, <1>11, <1>12, <2>1
    <3> QED  BY <2>1, <3>1, MoreIs
  <2>2. CASE ~(p.conns[c].subscribed /\ p.conns[c].link = "kept")
    BY <1>11, <2>2
  <2> QED  BY <2>1, <2>2
<1>15. ASSUME NEW c \in Conns
       PROVE  Served(conns[c], s.conns[c], c)
  <2>1. PeerServed(b.conns[c], p.conns[c], c)
    BY <1>10
  <2>2. /\ s.conns[c].asks = conns[c].asks /\ s.conns[c].sent = conns[c].sent /\ s.conns[c].eof = conns[c].eof
        /\ s.conns[c].reads = conns[c].reads /\ (conns[c].done => s.conns[c].done)
        /\ s.conns[c].link = "none" <=> conns[c].link = "none"
    BY <1>13, <1>14, <2>1 DEF PeerServed
  <2>3. Heard(b.conns[c], Way(p.conns[c]), p.conns[c], c)
    BY <2>1, ServedHeard
  <2>4. Heard(conns[c], Way(p.conns[c]), s.conns[c], c)
    BY <1>13, <1>14, <2>3 DEF Heard
  <2>5. PeerTrue(p.conns[c], c)
    BY <1>10 DEF Keeps
  <2>6. c # "stream" => Way(s.conns[c]) = Way(p.conns[c])
    BY <1>14, <2>5 DEF PeerTrue
  <2>7. ASSUME c = "stream", s.conns[c].done
        PROVE  \E w \in Seq(Notes \cup Answers) : Heard(conns[c], w, s.conns[c], c) /\ Way(s.conns[c]) = Joined(w, events)
    <3>1. p.conns[c].done
      BY <1>14, <2>7
    <3>2. p.conns[c].link \in {"none", "waits", "kept", "closed"}
      BY <1>12 DEF Peers
    <3>3. p.conns[c].link # "none"
      BY <2>5, <3>1 DEF PeerTrue, Closed
    <3>4. p.conns[c].subscribed /\ p.conns[c].link = "kept"
      BY <2>5, <2>7, <3>1, <3>2, <3>3 DEF PeerTrue
    <3>5. Way(s.conns[c]) = Joined(Way(p.conns[c]), events) /\ Way(p.conns[c]) \in Seq(Notes \cup Answers)
      BY <1>12, <1>14, <3>4, WayTyped
    <3> QED  BY <2>4, <3>5
  <2>8. ASSUME c = "stream", ~s.conns[c].done PROVE Way(s.conns[c]) = <<>>
    <3>1. ~p.conns[c].done
      BY <1>14, <2>8
    <3>2. p.conns[c].out = <<>> /\ p.conns[c].down = <<>> /\ ~p.conns[c].subscribed
      BY <2>5, <3>1 DEF PeerTrue
    <3>3. Way(p.conns[c]) = <<>>
      BY <1>12, <3>2, WayTyped
    <3> QED  BY <1>14, <3>2, <3>3
  <2> QED  BY <2>2, <2>4, <2>6, <2>7, <2>8 DEF Served
<1>16. Named(s) /\ (Followed(State) => Followed(s))
  BY <1>8, <1>9, <1>10, <1>11 DEF Named, Followed
<1>17. StaysInUse(layouts, s) \/ NextAsked(State, s)
  <2>1. CASE p.layouts = b.layouts
    <3>1. s.layouts = a.layouts /\ s.config = a.config
      BY <1>9, <1>10, <1>11, <2>1
    <3> QED  BY <1>8, <3>1 DEF StaysInUse
  <2>2. CASE NextAsked(b, p)
    <3>1. PICK c \in Others : b.conns[c].asks = "next" /\ ~b.conns[c].done /\ p.conns[c].done
      BY <2>2 DEF NextAsked
    <3>2. c \in Conns
      BY ControlConstants
    <3>3. conns[c].asks = "next" /\ ~conns[c].done /\ s.conns[c].done
      BY <1>13, <1>14, <3>1, <3>2
    <3> QED  BY <1>6, <3>3 DEF NextAsked
  <2> QED  BY <1>10, <2>1, <2>2
<1> QED  BY <1>5, <1>11, <1>15, <1>16, <1>17

LEMMA FlushIs ==
  ASSUME ControlInv, Flush, events = <<>>
  PROVE  \E s : /\ Becomes(s) /\ Keeps(s) /\ Named(s) /\ (Followed(State) => Followed(s))
                /\ StaysInUse(layouts, s) \/ NextAsked(State, s)
                /\ \A c \in Conns : Served(conns[c], s.conns[c], c) /\ Attended(s.conns[c])
<1>0. PICK full \in Blocked : \E s \in {Processed(State, full)} : Becomes(IF reloadFirst THEN s ELSE Reloaded(s))
  BY DEF Flush
<1>1. PICK p : p = Processed(State, full)
  OBVIOUS
<1>2. PICK s : s = IF reloadFirst THEN p ELSE Reloaded(p)
  OBVIOUS
<1>3. Becomes(s)
  BY <1>0, <1>1, <1>2
<1>4. Keeps(State) /\ Named(State) /\ State.layouts = layouts /\ State.conns = conns
  BY StateKeeps
<1>5. file \in ConfigFiles /\ ControlTyped
  BY DEF ControlInv, ControlTyped
<1>6. /\ Keeps(p) /\ p.config = State.config /\ p.watch = State.watch
      /\ p.layouts.names = State.layouts.names /\ (p.layouts = State.layouts \/ NextAsked(State, p))
      /\ \A c \in Conns : PeerServed(State.conns[c], p.conns[c], c) /\ Attended(p.conns[c])
  <2>1. Keeps(State) /\ ControlTyped
    BY <1>4, <1>5
  <2> QED  BY <1>1, <2>1, ProcessedIs
<1>7. Named(p) /\ (Followed(State) => Followed(p)) /\ p \in PassStates
  BY <1>4, <1>6 DEF Named, Followed, Keeps
<1>8. /\ Keeps(s) /\ Named(s) /\ StaysInUse(p.layouts, s) /\ (Followed(p) => Followed(s)) /\ s.conns = p.conns
  <2>1. CASE ~reloadFirst
    <3>1. s = Reloaded(p)
      BY <1>2, <2>1
    <3>2. /\ s \in PassStates /\ Named(s) /\ StaysInUse(p.layouts, s) /\ (Followed(p) => Followed(s))
          /\ s.conns = p.conns /\ s.queue = p.queue /\ s.requests.commands = p.requests.commands
      <4>1. p \in PassStates /\ Named(p) /\ file \in ConfigFiles
        BY <1>5, <1>7
      <4> QED  BY <3>1, <4>1, ReloadedIs
    <3>3. Keeps(s)
      <4>1. s \in PassStates /\ s.conns = p.conns /\ s.queue = p.queue /\ s.requests.commands = p.requests.commands
        BY <3>2
      <4>2. Keeps(p)
        BY <1>6
      <4> QED  BY <4>1, <4>2, KeepsAgain
    <3> QED  BY <3>2, <3>3
  <2>2. CASE reloadFirst
    <3>1. s = p
      BY <1>2, <2>2
    <3>2. StaysInUse(p.layouts, p)
      BY DEF StaysInUse
    <3> QED  BY <1>6, <1>7, <3>1, <3>2
  <2> QED  BY <2>1, <2>2
<1>9. ASSUME NEW c \in Conns PROVE Served(conns[c], s.conns[c], c)
  <2>1. PeerServed(conns[c], s.conns[c], c)
    BY <1>4, <1>6, <1>8
  <2>2. Heard(conns[c], Way(s.conns[c]), s.conns[c], c)
    BY <2>1, ServedHeard
  <2>3. s.conns[c] \in Peers
    BY <1>8 DEF Keeps, PassStates
  <2>4. Way(s.conns[c]) \in Seq(Notes \cup Answers)
    BY <2>3, WayTyped
  <2>5. Joined(Way(s.conns[c]), events) = Way(s.conns[c])
    BY <2>4, JoinedEmpty
  <2>6. /\ s.conns[c].asks = conns[c].asks /\ s.conns[c].sent = conns[c].sent /\ s.conns[c].eof = conns[c].eof
        /\ s.conns[c].reads = conns[c].reads /\ (conns[c].done => s.conns[c].done)
        /\ s.conns[c].link = "none" <=> conns[c].link = "none"
    BY <2>1 DEF PeerServed
  <2> QED  BY <2>2, <2>4, <2>5, <2>6 DEF Served
<1>10. StaysInUse(layouts, s) \/ NextAsked(State, s)
  <2>1. CASE p.layouts = State.layouts
    BY <1>4, <1>8, <2>1
  <2>2. CASE NextAsked(State, p)
    BY <1>8, <2>2 DEF NextAsked
  <2> QED  BY <1>6, <2>1, <2>2
<1> QED  BY <1>3, <1>6, <1>7, <1>8, <1>9, <1>10

-----------------------------------------------------------------------------
(* ControlPlane: the passes keep the invariant.                            *)

LEMMA RepliesJoined ==
  ASSUME NEW Y
  PROVE  \A p, q \in Seq(Y) : Replies(Joined(p, q)) <=> Replies(p) /\ Replies(q)
<1>1. \A p : Replies(p) <=> \A e \in ToSet(p) : e.topic = "reply"
  BY DEF Replies, ToSet
<1> QED  BY <1>1, JoinedMembers

LEMMA OnlyIs ==
  ASSUME NEW p, NEW e, Only(p, e)
  PROVE  Len(p) = 1 /\ DOMAIN p = {1} /\ p[1] = e /\ p # <<>>
BY DEF Only

\* Who has read a snapshot knows what it shows.
LEMMA SnapshotKnown ==
  ASSUME NEW v \in Snapshots
  PROVE  /\ Known1(v) = Mirror(Known1(v)) /\ \A p : Knows(Known1(v), p, v)
<1>1. v = [tree |-> v.tree, popup |-> v.popup, config |-> v.config, layouts |-> v.layouts, commands |-> v.commands]
      /\ v.popup \in {None} \cup Popups
  BY DEF Snapshots
<1> DEFINE n == Known1(v)
<1>2. n = [tree |-> v.tree, popup |-> v.popup, config |-> v.config, layouts |-> v.layouts, commands |-> ToSet(v.commands)]
  BY <1>1 DEF Known1
<1> HIDE DEF n
<1>3. n.tree = v.tree /\ n.popup = v.popup /\ n.config = v.config /\ n.layouts = v.layouts /\ n.commands = ToSet(v.commands)
      /\ n = Mirror(n)
  BY <1>2 DEF Mirror
<1>4. \A f \in Facts : Fact(f, n) = Fact(f, v)
  BY <1>3, FactsAre
<1>5. \A p : Knows(n, p, v)
  BY <1>1, <1>3, <1>4 DEF Knows
<1> QED  BY <1>3, <1>5 DEF n

\* What a pass leaves of what is on its way.
LEMMA StreamServed ==
  ASSUME ControlInv, NEW k, k = conns["stream"], NEW l \in Peers, Served(k, l, "stream"), PeerTrue(l, "stream")
  PROVE  /\ \A f \in Facts : LastSays(f, Way(l), cache)
         /\ k.done => Way(l) = OnTheWay
         /\ Replies(OnTheWay) => Replies(Way(l))
<1> DEFINE Y == Notes \cup Answers
<1>1. k \in Peers /\ PeerTrue(k, "stream")
  BY ControlConstants DEF ControlInv, ControlTyped, ConnsTrue
<1>2. Way(k) \in Seq(Y) /\ events \in Seq(Y)
  <2>1. events \in Seq(Notes)
    BY DEF ControlInv, ControlTyped
  <2>2. Len(events) \in Nat /\ events \in [1..Len(events) -> Notes]
    BY <2>1, LenProperties
  <2>3. events \in [1..Len(events) -> Y]
    BY <2>2
  <2> QED  BY <1>1, <2>2, <2>3, SeqDef, WayTyped
<1>3. OnTheWay = Joined(Way(k), events) /\ \A f \in Facts : LastSays(f, OnTheWay, cache)
  BY DEF OnTheWay, ControlInv, MirrorFollows
<1> HIDE DEF Y
<1>4. CASE ~l.done /\ Way(l) = <<>>
  <2>1. ~k.done
    BY <1>4 DEF Served
  <2>2. \A f \in Facts : LastSays(f, <<>>, cache)
    BY DEF LastSays
  <2>3. Replies(<<>>)
    BY DEF Replies
  <2> QED  BY <1>4, <2>1, <2>2, <2>3
<1>5. CASE ~(~l.done /\ Way(l) = <<>>)
  <2>1. PICK w \in Seq(Y) : Heard(k, w, l, "stream") /\ Way(l) = Joined(w, events)
    BY <1>5 DEF Served, Y
  <2>2. CASE w = Way(k)
    BY <1>3, <2>1, <2>2
  <2>3. CASE w # Way(k)
    <3>1. Way(k) = <<>> /\ ~k.done
      BY <2>1, <2>3 DEF Heard
    <3>2. PICK r \in Answers : Only(w, r)
      BY <2>1, <2>3 DEF Heard
    <3>3. OnTheWay = events
      BY <1>2, <1>3, <3>1, JoinedEmpty
    <3>4. r \in Notes \cup Answers /\ r \in Y
      BY DEF Y
    <3>5. r.topic = "reply" /\ \A f \in Facts : r.topic \notin Topics(f)
      BY <3>4, NotesAre
    <3>6. \A f \in Facts : Silent(f, w)
      <4>1. \A f : Silent(f, w) <=> r.topic \notin Topics(f)
        BY <3>2, <3>4, OneMember
      <4> QED  BY <3>5, <4>1
    <3>7. \A f \in Facts : LastSays(f, Joined(w, events), cache)
      BY <1>2, <1>3, <3>3, <3>6, LastAfterSilence
    <3>8. Replies(w)
      BY <3>2, <3>5, OnlyIs DEF Replies
    <3>9. Replies(events) => Replies(Joined(w, events))
      BY <1>2, <3>8, RepliesJoined
    <3> QED  BY <2>1, <3>1, <3>3, <3>7, <3>9
  <2> QED  BY <2>2, <2>3
<1> QED  BY <1>4, <1>5

\* A subscriber that was not answered has asked for nothing else, and there is no mirror.
LEMMA NotYet ==
  ASSUME ControlInv, ~conns["stream"].done
  PROVE  conns["query"].link = "none" /\ ~conns["query"].done /\ mirror = None /\ Replied = <<>>
<1>1. conns["query"].link = "none"
  <2>1. PeerTrue(conns["stream"], "stream")
    BY ControlConstants DEF ControlInv, ConnsTrue
  <2>2. conns["stream"].asks # "answered"
    BY <2>1 DEF PeerTrue
  <2> QED  BY <2>2 DEF ControlInv, MirrorFollows
<1>2. conns["query"] = Closed
  <2>1. PeerTrue(conns["query"], "query")
    BY ControlConstants DEF ControlInv, ConnsTrue
  <2> QED  BY <1>1, <2>1 DEF PeerTrue
<1>3. ~conns["query"].done /\ conns["query"].out = <<>> /\ conns["query"].down = <<>>
  BY <1>2 DEF Closed
<1>4. Replied = <<>>
  <2>1. conns["query"] \in Peers
    BY ControlConstants DEF ControlInv, ControlTyped
  <2> QED  BY <1>3, <2>1, WayTyped DEF Replied
<1>5. mirror # None => conns["query"].done
  BY DEF ControlInv, MirrorFollows
<1> QED  BY <1>1, <1>3, <1>4, <1>5

LEMMA MirrorPasses ==
  ASSUME ControlInv, conns' \in [Conns -> Peers],
         \A c \in Conns : Served(conns[c], conns'[c], c) /\ PeerTrue(conns'[c], c),
         events' = <<>>, stage' \in {"mid", "shell"}, stage # "render",
         cache' = cache, seen' = seen, mirror' = mirror, messages' = messages, history' = history
  PROVE  MirrorFollows'
<1> DEFINE k == conns["stream"]
           l == conns'["stream"]
           g == conns["query"]
           h == conns'["query"]
<1>0. "stream" \in Conns /\ "query" \in Conns /\ "query" # "stream" /\ Others \subseteq Conns /\ "stream" \notin Others
  BY ControlConstants
<1>1. /\ l \in Peers /\ Served(k, l, "stream") /\ PeerTrue(l, "stream")
      /\ h \in Peers /\ Served(g, h, "query") /\ PeerTrue(h, "query") /\ g \in Peers /\ PeerTrue(g, "query")
  BY <1>0 DEF ControlInv, ControlTyped, ConnsTrue
<1>2. OnTheWay' = Way(l)
  <2>1. OnTheWay' = Joined(Way(l), events')
    BY DEF OnTheWay
  <2>2. Way(l) \in Seq(Notes \cup Answers)
    BY <1>1, WayTyped
  <2> QED  BY <2>1, <2>2, JoinedEmpty
<1>3. Replied' = Way(h)
  BY DEF Replied
<1>4. /\ \A f \in Facts : LastSays(f, Way(l), cache)
      /\ k.done => Way(l) = OnTheWay
      /\ Replies(OnTheWay) => Replies(Way(l))
  BY <1>1, StreamServed
<1>5. \A f \in Facts : LastSays(f, OnTheWay', cache')
  BY <1>2, <1>4
<1>6. ~k.done => g.link = "none" /\ ~g.done /\ mirror = None /\ Replied = <<>>
  BY NotYet
<1>7. g.done => k.done
  BY <1>6
<1>8. MirrorFollows
  BY DEF ControlInv
<1>9. /\ l.asks = k.asks /\ (g.done => h.done) /\ (h.link = "none" <=> g.link = "none") /\ Heard(g, Way(h), h, "query")
      /\ k.done => l.done
  BY <1>0, <1>1 DEF Served
<1>10. g.link # "none" => k.done
  BY <1>6
<1>11. h.done => h.link # "none"
  BY <1>1 DEF PeerTrue, Closed
\* What the other client has to read.
<1>12. \/ Replied' = Replied
       \/ Replied = <<>> /\ ~g.done /\ k.done /\ h.done /\ Only(Replied', Event("reply", cache))
  BY <1>3, <1>9, <1>10, <1>11 DEF Heard, Replied
<1>13. mirror' # None => mirror' = Mirror(mirror') /\ Knows(mirror', OnTheWay', cache')
  <2> SUFFICES ASSUME mirror # None PROVE mirror = Mirror(mirror) /\ Knows(mirror, Way(l), cache)
    BY <1>2
  <2>1. k.done
    BY <1>6
  <2>2. mirror = Mirror(mirror) /\ Knows(mirror, OnTheWay, cache)
    BY <1>8 DEF MirrorFollows
  <2> QED  BY <1>4, <2>1, <2>2
<1>14. cache \in Snapshots
  BY DEF ControlInv, ControlTyped
<1>15. ASSUME NEW i \in DOMAIN Replied'
       PROVE  Replied'[i].topic = "reply" /\ Replied'[i].value \in Snapshots
              /\ Knows(Known1(Replied'[i].value), OnTheWay', cache')
  <2>1. CASE Replied' = Replied
    <3>1. k.done
      <4>1. Replied # <<>>
        BY <1>15, <2>1
      <4> QED  BY <1>6, <4>1
    <3>2. Replied[i].topic = "reply" /\ Replied[i].value \in Snapshots
          /\ Knows(Known1(Replied[i].value), OnTheWay, cache)
      BY <1>8, <1>15, <2>1 DEF MirrorFollows
    <3> QED  BY <1>2, <1>4, <2>1, <3>1, <3>2
  <2>2. CASE Only(Replied', Event("reply", cache))
    <3>1. Replied'[i] = Event("reply", cache)
      BY <1>15, <2>2, OnlyIs
    <3>2. Replied'[i].topic = "reply" /\ Replied'[i].value = cache
      BY <3>1 DEF Event
    <3>3. Knows(Known1(cache), OnTheWay', cache)
      BY <1>14, SnapshotKnown
    <3> QED  BY <1>14, <3>2, <3>3
  <2> QED  BY <1>12, <2>1, <2>2
<1>16. \A c \in Others : Replies(Way(conns'[c]))
  <2> SUFFICES ASSUME NEW c \in Others PROVE Replies(Way(conns'[c]))
    OBVIOUS
  <2>1. Heard(conns[c], Way(conns'[c]), conns'[c], c)
    BY <1>0 DEF Served
  <2>2. Replies(Way(conns[c]))
    BY <1>8 DEF MirrorFollows
  <2>3. ASSUME NEW r \in Answers, Only(Way(conns'[c]), r) PROVE Replies(Way(conns'[c]))
    <3>1. r.topic = "reply"
      BY DEF Answers
    <3> QED  BY <2>3, <3>1, OnlyIs DEF Replies
  <2> QED  BY <2>1, <2>2, <2>3 DEF Heard
<1>17. seen' = None =>
         /\ mirror' = None /\ h.link = "none" /\ l.asks # "answered"
         /\ Replies(OnTheWay') /\ (stage' = "poll" => ~l.done)
  <2> SUFFICES ASSUME seen = None PROVE mirror = None /\ h.link = "none" /\ l.asks # "answered" /\ Replies(Way(l))
    BY <1>2
  <2>1. mirror = None /\ g.link = "none" /\ k.asks # "answered" /\ Replies(OnTheWay)
    BY <1>8 DEF MirrorFollows
  <2> QED  BY <1>4, <1>9, <2>1
<1>18. h.link # "none" => l.asks = "answered"
  BY <1>8, <1>9 DEF MirrorFollows
<1>19. mirror' # None => h.done /\ Replied' = <<>>
  BY <1>8, <1>9, <1>12 DEF MirrorFollows
<1>20. Len(Replied') <= 1
  <2>1. Len(Replied) <= 1
    BY <1>8 DEF MirrorFollows
  <2>2. Only(Replied', Event("reply", cache)) => Len(Replied') = 1
    BY OnlyIs
  <2>3. CASE Replied' = Replied
    BY <2>1, <2>3
  <2>4. CASE Only(Replied', Event("reply", cache))
    <3>1. Len(Replied') = 1
      BY <2>2, <2>4
    <3> QED  BY <3>1
  <2> QED  BY <1>12, <2>3, <2>4
<1>21. cache'.commands = history'.items /\ messages' = <<>>
  BY <1>8 DEF MirrorFollows
<1> QED  BY <1>5, <1>13, <1>15, <1>16, <1>17, <1>18, <1>19, <1>20, <1>21 DEF MirrorFollows

\* A pass keeps the rest of the invariant.
LEMMA PassesHold ==
  ASSUME ControlInv, NEW s, Becomes(s), Keeps(s), Named(s), Followed(State) => Followed(s),
         \A c \in Conns : Served(conns[c], s.conns[c], c),
         events' = <<>>, stage' \in {"mid", "shell"}, stage \in {"poll", "mid"},
         stage' = "shell" => \A c \in Conns : Attended(s.conns[c]),
         UNCHANGED <<scene, reloadFirst, cache, seen, mirror, disk, startup, messages, results, history, world, changes>>
  PROVE  ControlInv'
<1>1. /\ conns' = s.conns /\ queue' = s.queue /\ requests' = s.requests /\ layouts' = s.layouts
      /\ config' = s.config /\ watch' = s.watch
  BY DEF Becomes
<1>2. /\ scene' = scene /\ reloadFirst' = reloadFirst /\ cache' = cache /\ seen' = seen /\ mirror' = mirror
      /\ file' = file /\ notice' = notice /\ edits' = edits /\ startup' = startup /\ messages' = messages
      /\ results' = results /\ history' = history /\ world' = world /\ changes' = changes
  BY DEF disk
<1>3. /\ s.conns \in [Conns -> Peers] /\ s.queue \in Seq(Conns) /\ s.requests \in Requested
      /\ s.layouts \in LayoutStates /\ s.config \in Configurations /\ s.watch \in BOOLEAN
  BY DEF Keeps, PassStates
<1>4. ControlTyped'
  <2>1. ControlTyped
    BY DEF ControlInv
  <2>2. <<>> \in Seq(Notes)
    OBVIOUS
  <2>3. scene' \in Scenes /\ reloadFirst' \in BOOLEAN /\ stage' \in {"poll", "mid", "shell", "render", "stopped"}
        /\ cache' \in Snapshots /\ seen' \in {None, cache'}
        /\ file' \in ConfigFiles /\ notice' \in BOOLEAN /\ startup' \in StartupStates
    BY <1>2, <2>1 DEF ControlTyped
  <2>4. /\ messages' \in Seq(Outcomes) /\ results' \in Seq(Outcomes) /\ history' \in [limit : Nat, items : Seq(Outcomes)]
        /\ world' \in Worlds /\ changes' \in Nat /\ edits' \in Nat
    BY <1>2, <2>1 DEF ControlTyped
  <2>5. events' \in Seq(Notes)
    BY <2>2
  <2>6. /\ conns' \in [Conns -> Peers] /\ queue' \in Seq(Conns) /\ requests' \in Requested /\ layouts' \in LayoutStates
        /\ config' \in Configurations /\ watch' \in BOOLEAN
    BY <1>1, <1>3
  <2> QED  BY <2>3, <2>4, <2>5, <2>6 DEF ControlTyped
<1>5. ConnsTrue'
  <2>1. /\ \A c \in Conns : PeerTrue(s.conns[c], c)
        /\ \A c \in Conns : s.conns[c].link = "kept" <=> c \in ToSet(s.queue)
    BY DEF Keeps
  <2>2. stage' = "shell" => \A c \in Conns : s.conns[c].link = "kept" /\ ~s.conns[c].reads => s.conns[c].sent = "nothing"
    BY DEF Attended
  <2> QED  BY <1>1, <2>1, <2>2 DEF ConnsTrue
<1>6. CommandsOnce'
  <2>1. Awaited(s.conns, s.requests.commands)
    BY DEF Keeps
  <2>2. Awaited(conns, requests.commands)'
    BY <1>1, <1>2, <2>1 DEF Awaited, HadResult
  <2>3. CommandsOnce
    BY DEF ControlInv
  <2> QED  BY <1>2, <2>2, <2>3 DEF CommandsOnce
<1>7. FileFollowed'
  <2>1. FileFollowed /\ State.watch = watch /\ State.config = config
    BY DEF ControlInv, State
  <2>2. layouts'.names = Configs[config'.v].layouts
    BY <1>1 DEF Named
  <2>3. ASSUME ~notice', ~watch', file'.kind = "good" PROVE config' = [v |-> file'.v, error |-> None]
    <3>1. ~notice /\ ~s.watch /\ file.kind = "good"
      BY <1>1, <1>2, <2>3
    <3>2. Followed(State)
      BY <2>1, <3>1 DEF FileFollowed, Followed
    <3>3. Followed(s)
      BY <3>2
    <3> QED  BY <1>1, <1>2, <3>1, <3>3 DEF Followed
  <2> QED  BY <2>2, <2>3 DEF FileFollowed
<1>8. MirrorFollows'
  <2>1. conns' \in [Conns -> Peers]
    BY <1>1, <1>3
  <2>2. \A c \in Conns : Served(conns[c], conns'[c], c) /\ PeerTrue(conns'[c], c)
    BY <1>1 DEF Keeps
  <2>3. cache' = cache /\ seen' = seen /\ mirror' = mirror /\ messages' = messages /\ history' = history /\ stage # "render"
    BY <1>2
  <2> QED  BY <2>1, <2>2, <2>3, MirrorPasses
<1> QED  BY <1>4, <1>5, <1>6, <1>7, <1>8 DEF ControlInv

LEMMA AcceptHolds ==
  ASSUME ControlInv, Accept
  PROVE  ControlInv'
<1>1. PICK s : /\ Becomes(s) /\ Keeps(s) /\ Named(s) /\ (Followed(State) => Followed(s))
               /\ \A c \in Conns : Served(conns[c], s.conns[c], c)
  BY AcceptIs
<1>2. /\ events' = <<>> /\ stage' = "mid" /\ stage = "poll"
      /\ UNCHANGED <<scene, reloadFirst, cache, seen, mirror, disk, startup, messages, results, history, world, changes>>
  BY DEF Accept
<1> QED  BY <1>1, <1>2, PassesHold

LEMMA FlushHolds ==
  ASSUME ControlInv, Flush
  PROVE  ControlInv'
<1>1. events = <<>>
  BY DEF ControlInv, MirrorFollows, Flush
<1>2. PICK s : /\ Becomes(s) /\ Keeps(s) /\ Named(s) /\ (Followed(State) => Followed(s))
               /\ \A c \in Conns : Served(conns[c], s.conns[c], c) /\ Attended(s.conns[c])
  BY <1>1, FlushIs
<1>3. /\ events' = <<>> /\ stage' = "shell" /\ stage = "mid"
      /\ UNCHANGED <<scene, reloadFirst, cache, seen, mirror, disk, startup, messages, results, history, world, changes>>
  BY <1>1 DEF Flush
<1> QED  BY <1>2, <1>3, PassesHold

-----------------------------------------------------------------------------
(* ControlPlane: the clients and the file.                                 *)

\* A connection becomes l.
Becoming(c, l) == conns' = [conns EXCEPT ![c] = l]

\* What a client does to its connection leaves the rest as it is.
LEMMA ClientKeeps ==
  ASSUME ControlInv, NEW c \in Conns, NEW k, k = conns[c], NEW l \in Peers, Becoming(c, l),
         PeerTrue(l, c), l.link = "kept" <=> k.link = "kept",
         l.done = k.done, c \in Others /\ k.done => l.asks = k.asks /\ l.sent = k.sent,
         stage # "shell", UNCHANGED disk, Outside
  PROVE  ControlTyped' /\ ConnsTrue' /\ CommandsOnce' /\ FileFollowed'
<1>1. /\ scene' = scene /\ reloadFirst' = reloadFirst /\ stage' = stage /\ queue' = queue /\ events' = events
      /\ cache' = cache /\ seen' = seen /\ watch' = watch /\ config' = config /\ layouts' = layouts
      /\ requests' = requests /\ startup' = startup /\ messages' = messages /\ results' = results
      /\ history' = history /\ world' = world /\ changes' = changes
      /\ file' = file /\ notice' = notice /\ edits' = edits
  BY DEF Outside, disk
<1>2. ControlTyped /\ ConnsTrue /\ CommandsOnce /\ FileFollowed
  BY DEF ControlInv
<1>3. conns \in [Conns -> Peers]
  BY <1>2 DEF ControlTyped
<1>4. conns' \in [Conns -> Peers] /\ conns'[c] = l /\ \A d \in Conns \ {c} : conns'[d] = conns[d]
  BY <1>3 DEF Becoming
<1>5. \A d \in Conns : /\ conns'[d].link = "kept" <=> conns[d].link = "kept"
                       /\ conns'[d].done = conns[d].done /\ PeerTrue(conns'[d], d)
                       /\ d \in Others => (Launches(conns'[d]) <=> Launches(conns[d]))
  <2> SUFFICES ASSUME NEW d \in Conns
               PROVE  /\ conns'[d].link = "kept" <=> conns[d].link = "kept"
                      /\ conns'[d].done = conns[d].done /\ PeerTrue(conns'[d], d)
                      /\ d \in Others => (Launches(conns'[d]) <=> Launches(conns[d]))
    OBVIOUS
  <2>1. c \in Others => (Launches(l) <=> Launches(k))
    BY DEF Launches
  <2>2. PeerTrue(conns[d], d)
    BY <1>2 DEF ConnsTrue
  <2> QED  BY <1>4, <2>1, <2>2
<1>6. ControlTyped'
  BY <1>1, <1>2, <1>4 DEF ControlTyped
<1>7. ConnsTrue'
  <2>1. \A d \in Conns : conns[d].link = "kept" <=> d \in ToSet(queue)
    BY <1>2 DEF ConnsTrue
  <2>2. stage' # "shell"
    BY <1>1
  <2> QED  BY <1>1, <1>5, <2>1, <2>2 DEF ConnsTrue
<1>8. CommandsOnce'
  <2>1. requests.commands \in Seq(Others)
    BY <1>2 DEF ControlTyped, Requested
  <2>2. DOMAIN requests.commands = 1..Len(requests.commands)
        /\ \A i \in 1..Len(requests.commands) : requests.commands[i] \in Others /\ requests.commands[i] \in Conns
    BY <2>1, LenProperties, ElementOfSeq, ControlConstants
  <2>3. Awaited(conns, requests.commands)
    BY <1>2 DEF CommandsOnce
  <2>4. \A d \in Others : d \in Conns
    BY ControlConstants
  <2>5. Awaited(conns, requests.commands)'
    BY <1>1, <1>5, <2>2, <2>3, <2>4 DEF Awaited, HadResult
  <2> QED  BY <1>1, <1>2, <2>5 DEF CommandsOnce
<1>9. FileFollowed'
  BY <1>1, <1>2 DEF FileFollowed
<1> QED  BY <1>6, <1>7, <1>8, <1>9

\* A client that does not read leaves what is on its way.
LEMMA ClientHolds ==
  ASSUME ControlInv, NEW c \in Conns, NEW k, k = conns[c], NEW l \in Peers, Becoming(c, l),
         PeerTrue(l, c), Way(l) = Way(k), l.link = "kept" <=> k.link = "kept",
         l.done = k.done, k.done => l.asks = k.asks /\ l.sent = k.sent,
         c = "stream" => (l.asks = "answered" <=> k.asks = "answered"),
         c = "query" /\ l.link # "none" => k.link # "none" \/ conns["stream"].asks = "answered",
         stage # "shell", UNCHANGED <<mirror, disk>>, Outside
  PROVE  ControlInv'
<1>1. /\ stage' = stage /\ events' = events /\ cache' = cache /\ seen' = seen
      /\ messages' = messages /\ history' = history /\ mirror' = mirror
  BY DEF Outside
<1>2. conns \in [Conns -> Peers] /\ MirrorFollows
  BY DEF ControlInv, ControlTyped
<1>3. conns'[c] = l /\ \A d \in Conns \ {c} : conns'[d] = conns[d]
  BY <1>2 DEF Becoming
<1>4. \A d \in Conns : Way(conns'[d]) = Way(conns[d]) /\ conns'[d].done = conns[d].done
  <2> SUFFICES ASSUME NEW d \in Conns PROVE Way(conns'[d]) = Way(conns[d]) /\ conns'[d].done = conns[d].done
    OBVIOUS
  <2> QED  BY <1>3
<1>5. ControlTyped' /\ ConnsTrue' /\ CommandsOnce' /\ FileFollowed'
  <2>1. UNCHANGED disk /\ (c \in Others /\ k.done => l.asks = k.asks /\ l.sent = k.sent)
    OBVIOUS
  <2> QED  BY <2>1, ClientKeeps
<1>6. MirrorFollows'
  <2>1. OnTheWay' = OnTheWay /\ Replied' = Replied
    BY <1>1, <1>4, ControlConstants DEF OnTheWay, Replied
  <2>2. \A d \in Others : Way(conns'[d]) = Way(conns[d])
    BY <1>4, ControlConstants
  <2>3. conns'["stream"].asks = "answered" <=> conns["stream"].asks = "answered"
    BY <1>3, ControlConstants
  <2>4. conns'["query"].link # "none" => conns["query"].link # "none" \/ conns["stream"].asks = "answered"
    BY <1>3, ControlConstants
  <2>5. conns'["stream"].done = conns["stream"].done /\ conns'["query"].done = conns["query"].done
    BY <1>4, ControlConstants
  <2> QED  BY <1>1, <1>2, <2>1, <2>2, <2>3, <2>4, <2>5 DEF MirrorFollows
<1> QED  BY <1>5, <1>6 DEF ControlInv

LEMMA ConnectHolds ==
  ASSUME ControlInv, NEW c \in Conns, NEW request \in scene.requests \cup {"subscribe", "query"}, Connect(c, request)
  PROVE  ControlInv'
<1>1. PICK k : k = conns[c]
  OBVIOUS
<1>2. PICK l : l = [k EXCEPT !.link = "waits", !.asks = request]
  OBVIOUS
<1>3. conns \in [Conns -> Peers] /\ PeerTrue(k, c) /\ scene \in Scenes
  BY <1>1 DEF ControlInv, ControlTyped, ConnsTrue
<1>4. k.link = "none" /\ k \in Peers /\ k = Closed
  BY <1>1, <1>3 DEF Connect, PeerTrue
<1>5. /\ k.asks = None /\ k.sent = "nothing" /\ k.eof = FALSE /\ k.reads = TRUE /\ k.done = FALSE
      /\ k.subscribed = FALSE /\ k.out = <<>> /\ k.down = <<>>
  BY <1>4 DEF Closed
<1>6. request \in {"subscribe", "query"} \cup Commands
  BY <1>3, ScenesAssumption
<1>7. /\ l \in Peers /\ l.link = "waits" /\ l.asks = request /\ l.sent = k.sent /\ l.eof = k.eof /\ l.reads = k.reads
      /\ l.done = k.done /\ l.subscribed = k.subscribed /\ l.out = k.out /\ l.down = k.down
  BY <1>2, <1>4, <1>6 DEF Peers
<1>8. /\ c = "stream" => request = "subscribe"
      /\ c = "query" => request = "query" /\ conns["stream"].asks = "answered"
      /\ c \in Others => request \in Commands
  BY <1>3, ScenesAssumption DEF Connect
<1>9. request # None
  BY <1>6, NoneAssumption
<1>10. PeerTrue(l, c)
  <2>1. Len(<<>>) <= Capacity
    BY ControlConstants
  <2>2. c \in Others => c # "stream"
    BY ControlConstants
  <2> QED  BY <1>5, <1>7, <1>8, <1>9, <2>1, <2>2 DEF PeerTrue
<1>11. Becoming(c, l)
  BY <1>1, <1>2 DEF Becoming, Connect
<1>12. Way(l) = Way(k)
  BY <1>7 DEF Way
<1>13. c = "stream" => ~(l.asks = "answered") /\ ~(k.asks = "answered")
  BY <1>5, <1>7, <1>8, ControlConstants
<1>14. stage # "shell" /\ UNCHANGED <<mirror, disk>> /\ Outside
  BY DEF Connect
<1>15. /\ l.link = "kept" <=> k.link = "kept"
       /\ l.done = k.done /\ (k.done => l.asks = k.asks /\ l.sent = k.sent)
       /\ c = "stream" => (l.asks = "answered" <=> k.asks = "answered")
       /\ c = "query" /\ l.link # "none" => k.link # "none" \/ conns["stream"].asks = "answered"
  BY <1>4, <1>5, <1>7, <1>8, <1>13
<1> QED  BY <1>1, <1>7, <1>10, <1>11, <1>12, <1>14, <1>15, ClientHolds

LEMMA SendHolds ==
  ASSUME ControlInv, NEW c \in Conns, NEW amount \in {"part", "bare", "line"}, Send(c, amount)
  PROVE  ControlInv'
<1>1. PICK k : k = conns[c]
  OBVIOUS
<1>2. PICK l : l = [k EXCEPT !.sent = amount]
  OBVIOUS
<1>3. k \in Peers /\ PeerTrue(k, c)
  BY <1>1 DEF ControlInv, ControlTyped, ConnsTrue
<1>4. /\ k.link \in {"waits", "kept"} /\ ~k.eof /\ k.reads /\ ~k.done
      /\ amount = "line" \/ c \in Others
  BY <1>1 DEF Send
<1>5. /\ l \in Peers /\ l.link = k.link /\ l.asks = k.asks /\ l.sent = amount /\ l.eof = k.eof /\ l.reads = k.reads
      /\ l.done = k.done /\ l.subscribed = k.subscribed /\ l.out = k.out /\ l.down = k.down
  BY <1>2, <1>3 DEF Peers
<1>6. PeerTrue(l, c)
  BY <1>3, <1>4, <1>5 DEF PeerTrue
<1>7. Becoming(c, l)
  BY <1>1, <1>2 DEF Becoming, Send
<1>8. Way(l) = Way(k)
  BY <1>5 DEF Way
<1>9. stage # "shell" /\ UNCHANGED <<mirror, disk>> /\ Outside
  BY DEF Send
<1>10. /\ l.link = "kept" <=> k.link = "kept"
       /\ l.done = k.done /\ (k.done => l.asks = k.asks /\ l.sent = k.sent)
       /\ c = "stream" => (l.asks = "answered" <=> k.asks = "answered")
       /\ c = "query" /\ l.link # "none" => k.link # "none" \/ conns["stream"].asks = "answered"
  BY <1>4, <1>5
<1> QED  BY <1>1, <1>5, <1>6, <1>7, <1>8, <1>9, <1>10, ClientHolds

LEMMA ShutHolds ==
  ASSUME ControlInv, NEW c \in Conns, NEW reading \in BOOLEAN, Shut(c, reading)
  PROVE  ControlInv'
<1>1. PICK k : k = conns[c]
  OBVIOUS
<1>2. PICK l : l = [k EXCEPT !.eof = TRUE, !.reads = reading]
  OBVIOUS
<1>3. k \in Peers /\ PeerTrue(k, c)
  BY <1>1 DEF ControlInv, ControlTyped, ConnsTrue
<1>4. k.link \in {"waits", "kept"} /\ k.reads /\ c \in Others
  BY <1>1 DEF Shut
<1>5. /\ l \in Peers /\ l.link = k.link /\ l.asks = k.asks /\ l.sent = k.sent /\ l.eof = TRUE
      /\ l.done = k.done /\ l.subscribed = k.subscribed /\ l.out = k.out /\ l.down = k.down
  BY <1>2, <1>3 DEF Peers
<1>6. c # "stream" /\ c # "query"
  BY <1>4, ControlConstants
<1>7. PeerTrue(l, c)
  BY <1>3, <1>4, <1>5, <1>6 DEF PeerTrue
<1>8. Becoming(c, l)
  BY <1>1, <1>2 DEF Becoming, Shut
<1>9. Way(l) = Way(k)
  BY <1>5 DEF Way
<1>10. stage # "shell" /\ UNCHANGED <<mirror, disk>> /\ Outside
  BY DEF Shut
<1>11. /\ l.link = "kept" <=> k.link = "kept"
       /\ l.done = k.done /\ (k.done => l.asks = k.asks /\ l.sent = k.sent)
       /\ c = "stream" => (l.asks = "answered" <=> k.asks = "answered")
       /\ c = "query" /\ l.link # "none" => k.link # "none" \/ conns["stream"].asks = "answered"
  BY <1>5, <1>6
<1> QED  BY <1>1, <1>5, <1>7, <1>8, <1>9, <1>10, <1>11, ClientHolds

\* The connections and what is said of them depend on nothing else.
LEMMA OthersHold ==
  ASSUME ControlInv, UNCHANGED <<stage, socket, cache, seen, requests, messages, results, history>>,
         UNCHANGED <<scene, reloadFirst, config, layouts, world, changes>>,
         file' \in ConfigFiles, notice' \in BOOLEAN, watch' \in BOOLEAN, edits' \in Nat, startup' \in StartupStates,
         startup'.queued = startup.queued,
         startup.xwayland \in {"off", "ready"} => startup'.xwayland = startup.xwayland,
         FileFollowed'
  PROVE  ControlInv'
<1>1. /\ scene' = scene /\ reloadFirst' = reloadFirst /\ stage' = stage /\ queue' = queue /\ events' = events
      /\ cache' = cache /\ seen' = seen /\ config' = config /\ layouts' = layouts
      /\ requests' = requests /\ messages' = messages /\ results' = results /\ conns' = conns
      /\ history' = history /\ world' = world /\ changes' = changes /\ mirror' = mirror
  BY DEF socket
<1>2. ControlTyped /\ ConnsTrue /\ CommandsOnce /\ MirrorFollows
  BY DEF ControlInv
<1>3. ControlTyped'
  BY <1>1, <1>2 DEF ControlTyped
<1>4. ConnsTrue'
  BY <1>1, <1>2 DEF ConnsTrue
<1>5. CommandsOnce'
  <2>1. Awaited(conns, requests.commands)'
    BY <1>1, <1>2 DEF CommandsOnce, Awaited, HadResult
  <2> QED  BY <1>1, <1>2, <2>1 DEF CommandsOnce
<1>6. MirrorFollows'
  <2>1. OnTheWay' = OnTheWay /\ Replied' = Replied
    BY <1>1 DEF OnTheWay, Replied
  <2> QED  BY <1>1, <1>2, <2>1 DEF MirrorFollows
<1> QED  BY <1>3, <1>4, <1>5, <1>6 DEF ControlInv

LEMMA EditHolds ==
  ASSUME ControlInv, NEW kind \in {"good", "invalid", "unreadable"}, NEW v \in DOMAIN Configs, Edit(kind, v)
  PROVE  ControlInv'
<1>1. /\ UNCHANGED <<stage, socket, cache, seen, requests, messages, results, history>>
      /\ UNCHANGED <<scene, reloadFirst, config, layouts, world, changes>>
      /\ startup' = startup /\ file' = [kind |-> kind, v |-> v] /\ edits' = edits + 1
      /\ (watch' = watch /\ notice' = TRUE) \/ (watch' = TRUE /\ notice' = notice)
  BY DEF Edit, socket
<1>2. watch \in BOOLEAN /\ notice \in BOOLEAN /\ startup \in StartupStates /\ edits \in Nat /\ FileFollowed
  BY DEF ControlInv, ControlTyped
<1>3. file' \in ConfigFiles /\ edits' \in Nat
  BY <1>1, <1>2 DEF ConfigFiles
<1>4. notice' \in BOOLEAN /\ watch' \in BOOLEAN
  BY <1>1, <1>2
<1>5. FileFollowed'
  BY <1>1, <1>2 DEF FileFollowed
<1>6. startup' \in StartupStates /\ startup'.queued = startup.queued
      /\ (startup.xwayland \in {"off", "ready"} => startup'.xwayland = startup.xwayland)
  BY <1>1, <1>2
<1> QED  BY <1>1, <1>3, <1>4, <1>5, <1>6, OthersHold

LEMMA XWaylandHolds ==
  ASSUME ControlInv, NEW outcome \in {"ready", "failed"}, XWayland(outcome)
  PROVE  ControlInv'
<1>1. /\ UNCHANGED <<stage, socket, cache, seen, requests, messages, results, history>>
      /\ UNCHANGED <<scene, reloadFirst, config, layouts, world, changes>>
      /\ watch' = watch /\ startup' = [startup EXCEPT !.xwayland = outcome] /\ startup.xwayland = "starting"
      /\ notice' = notice /\ file' = file /\ edits' = edits
  BY DEF XWayland, socket, disk
<1>2. watch \in BOOLEAN /\ startup \in StartupStates /\ edits \in Nat /\ FileFollowed /\ file \in ConfigFiles /\ notice \in BOOLEAN
  BY DEF ControlInv, ControlTyped
<1>3. startup' \in StartupStates /\ startup'.queued = startup.queued
  BY <1>1, <1>2 DEF StartupStates
<1>4. FileFollowed'
  BY <1>1, <1>2 DEF FileFollowed
<1> QED  BY <1>1, <1>2, <1>3, <1>4, OthersHold

LEMMA NotifiedHolds ==
  ASSUME ControlInv, Notified
  PROVE  ControlInv'
<1>1. /\ UNCHANGED <<stage, socket, cache, seen, requests, messages, results, history>>
      /\ UNCHANGED <<scene, reloadFirst, config, layouts, world, changes>>
      /\ watch' = TRUE /\ startup' = startup
      /\ notice' = FALSE /\ file' = file /\ edits' = edits
  BY DEF Notified, socket
<1>2. startup \in StartupStates /\ edits \in Nat /\ FileFollowed /\ file \in ConfigFiles
  BY DEF ControlInv, ControlTyped
<1>3. FileFollowed'
  BY <1>1, <1>2 DEF FileFollowed
<1> QED  BY <1>1, <1>2, <1>3, OthersHold

LEMMA StutterHolds ==
  ASSUME ControlInv, UNCHANGED vars
  PROVE  ControlInv'
<1>1. /\ UNCHANGED <<stage, socket, cache, seen, requests, messages, results, history>>
      /\ UNCHANGED <<scene, reloadFirst, config, layouts, world, changes>>
      /\ watch' = watch /\ startup' = startup /\ notice' = notice /\ file' = file /\ edits' = edits
  BY DEF vars, socket, disk
<1>2. /\ startup \in StartupStates /\ edits \in Nat /\ FileFollowed /\ file \in ConfigFiles
      /\ watch \in BOOLEAN /\ notice \in BOOLEAN
  BY DEF ControlInv, ControlTyped
<1>3. FileFollowed'
  BY <1>1, <1>2 DEF FileFollowed
<1> QED  BY <1>1, <1>2, <1>3, OthersHold

\* A message is taken off the way.
LEMMA TakenOff ==
  ASSUME NEW k \in Peers, NEW l, k.down # <<>>, l.down = Tail(k.down), l.out = k.out
  PROVE  \E e \in Notes \cup Answers : \E w \in Seq(Notes \cup Answers) :
           /\ e = Head(k.down) /\ Only(w, e) /\ Way(l) \in Seq(Notes \cup Answers) /\ Way(k) = Joined(w, Way(l))
           /\ l.down \in Seq(Notes \cup Answers) /\ Len(l.down) = Len(k.down) - 1 /\ Len(k.down) \in Nat
<1> DEFINE Y == Notes \cup Answers
<1>1. k.out \in Seq(Y) /\ k.down \in Seq(Y)
  BY WayTyped
<1> HIDE DEF Y
<1>2. PICK p : p = k.down
  OBVIOUS
<1>3. p \in Seq(Y) /\ p # <<>>
  BY <1>1, <1>2
<1>4. PICK e : e = Head(p)
  OBVIOUS
<1>5. PICK d : d = Tail(p)
  OBVIOUS
<1>6. PICK w : w = <<e>>
  OBVIOUS
<1>7. /\ e \in Y /\ d \in Seq(Y) /\ Len(d) = Len(p) - 1 /\ Len(p) \in Nat
      /\ \A i \in 1..Len(d) : d[i] = p[i + 1]
      /\ e = p[1] /\ Len(p) > 0
  BY <1>3, <1>4, <1>5, HeadTailProperties, LenProperties, EmptySeq
<1>8. w \in Seq(Y) /\ Len(w) = 1 /\ w[1] = e /\ Only(w, e)
  BY <1>6, <1>7 DEF Only
<1>9. p = Joined(w, d)
  <2>1. PICK j : j = Joined(w, d)
    OBVIOUS
  <2>2. w \in Seq(Y) /\ d \in Seq(Y)
    BY <1>7, <1>8
  <2>3. j \in Seq(Y) /\ Len(j) = Len(w) + Len(d)
        /\ \A i \in 1 .. Len(w) + Len(d) : j[i] = IF i <= Len(w) THEN w[i] ELSE d[i - Len(w)]
    BY <2>1, <2>2, JoinedIs
  <2>4. Len(j) = Len(p)
    BY <1>7, <1>8, <2>3
  <2>5. ASSUME NEW i \in 1..Len(p) PROVE j[i] = p[i]
    <3>1. j[i] = IF i <= 1 THEN w[i] ELSE d[i - 1]
      BY <1>7, <1>8, <2>3
    <3>2. i # 1 => i - 1 \in 1..Len(d) /\ (i - 1) + 1 = i
      BY <1>7
    <3> QED  BY <1>7, <1>8, <3>1, <3>2
  <2> QED  BY <1>3, <2>1, <2>3, <2>4, <2>5, SeqEqual
<1>10. Joined(d, k.out) \in Seq(Y) /\ Joined(Joined(w, d), k.out) = Joined(w, Joined(d, k.out))
  <2>1. PICK o : o = k.out
    OBVIOUS
  <2>2. w \in Seq(Y) /\ d \in Seq(Y) /\ o \in Seq(Y)
    BY <1>1, <1>7, <1>8, <2>1
  <2>3. Joined(d, o) \in Seq(Y)
    BY <2>2, JoinedIs
  <2>4. Joined(Joined(w, d), o) = Joined(w, Joined(d, o))
    BY <2>2, JoinedTwice
  <2> QED  BY <2>1, <2>3, <2>4
<1>11. Way(l) = Joined(d, k.out) /\ Way(k) = Joined(w, Way(l)) /\ l.down = d
  BY <1>2, <1>5, <1>9, <1>10 DEF Way
<1> QED  BY <1>2, <1>4, <1>7, <1>8, <1>10, <1>11 DEF Y

LEMMA ReadHolds ==
  ASSUME ControlInv, NEW c \in Conns, Read(c)
  PROVE  ControlInv'
<1> DEFINE Y == Notes \cup Answers
<1>1. PICK k : k = conns[c]
  OBVIOUS
<1>2. k \in Peers /\ PeerTrue(k, c) /\ k.down # <<>> /\ conns \in [Conns -> Peers] /\ stage = "poll"
  BY <1>1 DEF ControlInv, ControlTyped, ConnsTrue, Read
<1>3. PICK l : l = [k EXCEPT !.down = Tail(@), !.asks = IF c = "stream" THEN "answered" ELSE @]
  OBVIOUS
<1>4. /\ k = [link |-> k.link, asks |-> k.asks, sent |-> k.sent, eof |-> k.eof, reads |-> k.reads, done |-> k.done,
              subscribed |-> k.subscribed, out |-> k.out, down |-> k.down]
      /\ k.link \in {"none", "waits", "kept", "closed"} /\ k.eof \in BOOLEAN /\ k.reads \in BOOLEAN /\ k.done \in BOOLEAN
      /\ k.asks \in {None, "subscribe", "query", "answered"} \cup Commands /\ k.subscribed \in BOOLEAN
      /\ k.sent \in {"nothing", "part", "bare", "line"} /\ k.out \in Seq(Y)
  BY <1>2 DEF Peers
<1> HIDE DEF Y
<1>5. /\ l.link = k.link /\ l.sent = k.sent /\ l.eof = k.eof /\ l.reads = k.reads /\ l.done = k.done
      /\ l.subscribed = k.subscribed /\ l.out = k.out /\ l.down = Tail(k.down)
      /\ l.asks = IF c = "stream" THEN "answered" ELSE k.asks
      /\ l = [link |-> l.link, asks |-> l.asks, sent |-> l.sent, eof |-> l.eof, reads |-> l.reads, done |-> l.done,
              subscribed |-> l.subscribed, out |-> l.out, down |-> l.down]
  BY <1>3, <1>4
<1>6. PICK e \in Y, w \in Seq(Y) :
        /\ e = Head(k.down) /\ Only(w, e) /\ Way(l) \in Seq(Y) /\ Way(k) = Joined(w, Way(l))
        /\ l.down \in Seq(Y) /\ Len(l.down) = Len(k.down) - 1 /\ Len(k.down) \in Nat
  <2>1. k \in Peers /\ k.down # <<>> /\ l.down = Tail(k.down) /\ l.out = k.out
    BY <1>2, <1>5
  <2> QED  BY <2>1, TakenOff DEF Y
<1>7. l \in Peers
  <2>1. l.asks \in {None, "subscribe", "query", "answered"} \cup Commands
    BY <1>4, <1>5
  <2> QED  BY <1>4, <1>5, <1>6, <2>1 DEF Peers, Y
<1>8. k.done /\ k.link # "none" /\ k.link # "waits"
  <2>1. k.done
    BY <1>2 DEF PeerTrue
  <2> QED  BY <1>2, <2>1 DEF PeerTrue, Closed
<1>9. PeerTrue(l, c)
  <2>1. Len(l.down) <= Capacity
    <3>1. Len(k.down) <= Capacity /\ Capacity \in Nat
      BY <1>2, ControlConstants DEF PeerTrue
    <3> QED  BY <1>6, <3>1
  <2>2. l.asks # None
    BY <1>2, <1>5, <1>8, ControlConstants DEF PeerTrue
  <2>3. c = "stream" => c # "query" /\ c \notin Others
    BY ControlConstants
  <2>4. /\ ~k.reads => k.eof
        /\ k.done => k.sent # "nothing"
        /\ k.subscribed => c = "stream" /\ k.done
        /\ c \notin Others => k.reads /\ ~k.eof /\ k.sent \in {"nothing", "line"}
        /\ c = "stream" => k.link # "closed" /\ (k.done => k.subscribed)
        /\ k.link = "closed" => k.done /\ (k.out = <<>> \/ ~k.reads)
    BY <1>2 DEF PeerTrue
  <2>5. /\ c = "query" => k.asks \in {None, "query"}
        /\ c \in Others => k.asks \in {None} \cup Commands
    BY <1>2 DEF PeerTrue
  <2>6. c = "stream" => l.asks = "answered"
    BY <1>5
  <2>7. /\ c = "query" => l.asks \in {None, "query"}
        /\ c \in Others => l.asks \in {None} \cup Commands
    BY <1>5, <2>3, <2>5
  <2> QED  BY <1>5, <1>8, <2>1, <2>2, <2>4, <2>6, <2>7 DEF PeerTrue
<1>10. Becoming(c, l) /\ UNCHANGED disk /\ Outside
  BY <1>1, <1>3 DEF Read, Becoming
<1>11. ControlTyped' /\ ConnsTrue' /\ CommandsOnce' /\ FileFollowed'
  <2>1. /\ l.link = "kept" <=> k.link = "kept"
        /\ l.done = k.done /\ (c \in Others /\ k.done => l.asks = k.asks /\ l.sent = k.sent)
        /\ stage # "shell"
    BY <1>2, <1>5, ControlConstants
  <2> QED  BY <1>1, <1>7, <1>9, <1>10, <2>1, ClientKeeps
<1>12. conns'[c] = l /\ \A d \in Conns \ {c} : conns'[d] = conns[d]
  BY <1>2, <1>10 DEF Becoming
<1>13. /\ stage' = stage /\ events' = events /\ cache' = cache /\ seen' = seen
       /\ messages' = messages /\ history' = history
  BY <1>10 DEF Outside
<1>14. /\ e.topic # "reply" => mirror # None
       /\ mirror' = IF c = "query" THEN Known1(e.value) ELSE IF e.topic = "reply" THEN mirror ELSE Told(mirror, e)
  BY <1>1, <1>6 DEF Read, Known1
<1>15. MirrorFollows /\ cache \in Snapshots
  BY DEF ControlInv, ControlTyped
<1>16. /\ e.topic = "reply" <=> e \in Answers
       /\ e.topic # "reply" => e \in Notes
  <2>1. e \in Notes \cup Answers
    BY DEF Y
  <2> QED  BY <2>1, NotesAre
<1>17. events \in Seq(Y)
  <2>1. events \in Seq(Notes)
    BY DEF ControlInv, ControlTyped
  <2>2. Len(events) \in Nat /\ events \in [1..Len(events) -> Notes]
    BY <2>1, LenProperties
  <2>3. events \in [1..Len(events) -> Y]
    BY <2>2 DEF Y
  <2> QED  BY <2>2, <2>3, SeqDef
<1>18. /\ \A f \in Facts : LastSays(f, OnTheWay, cache)
       /\ mirror # None => mirror = Mirror(mirror) /\ Knows(mirror, OnTheWay, cache)
       /\ \A i \in DOMAIN Replied :
            Replied[i].topic = "reply" /\ Replied[i].value \in Snapshots /\ Knows(Known1(Replied[i].value), OnTheWay, cache)
       /\ \A d \in Others : Replies(Way(conns[d]))
       /\ seen = None => /\ mirror = None /\ conns["query"].link = "none" /\ conns["stream"].asks # "answered"
                         /\ Replies(OnTheWay) /\ ~conns["stream"].done
       /\ conns["query"].link # "none" => conns["stream"].asks = "answered"
       /\ mirror # None => conns["query"].done /\ Replied = <<>>
       /\ Len(Replied) <= 1
       /\ cache.commands = history.items /\ messages = <<>>
  BY <1>2, <1>15 DEF MirrorFollows
<1>19. CASE c = "stream"
  <2>1. k = conns["stream"] /\ conns'["stream"] = l /\ conns'["query"] = conns["query"] /\ \A d \in Others : conns'[d] = conns[d]
    BY <1>1, <1>12, <1>19, ControlConstants
  <2>2. OnTheWay' = Joined(Way(l), events) /\ Replied' = Replied
    BY <1>13, <2>1 DEF OnTheWay, Replied
  <2>3. PICK q : q = Joined(Way(l), events)
    OBVIOUS
  <2>4. q \in Seq(Y) /\ OnTheWay = Joined(w, q) /\ w \in Seq(Y)
    <3>1. w \in Seq(Y) /\ Way(l) \in Seq(Y) /\ events \in Seq(Y)
      BY <1>6, <1>17
    <3>2. Joined(Way(l), events) \in Seq(Y)
      BY <3>1, JoinedIs
    <3>3. Joined(Joined(w, Way(l)), events) = Joined(w, Joined(Way(l), events))
      BY <3>1, JoinedTwice
    <3>4. OnTheWay = Joined(Joined(w, Way(l)), events)
      BY <1>6, <2>1 DEF OnTheWay
    <3> QED  BY <2>3, <3>1, <3>2, <3>3, <3>4
  <2>5. \A f \in Facts : LastSays(f, q, cache)
    <3>1. \A f \in Facts : LastSays(f, Joined(w, q), cache)
      BY <1>18, <2>4
    <3> QED  BY <2>4, <3>1, LastOfTail
  <2>6. seen # None
    BY <1>8, <1>18, <2>1
  <2>7. ASSUME e \in Answers
        PROVE  /\ mirror' = mirror /\ \A m : Knows(m, OnTheWay, cache) <=> Knows(m, q, cache)
    <3>1. mirror' = mirror
      BY <1>14, <1>16, <1>19, <2>7, ControlConstants
    <3>2. q \in Seq(Notes \cup Answers) /\ Only(w, e)
      BY <1>6, <2>4 DEF Y
    <3>3. \A m, s : Knows(m, Joined(w, q), s) <=> Knows(m, q, s)
      BY <2>7, <3>2, ReplyKnows
    <3> QED  BY <2>4, <3>1, <3>3
  <2>8. ASSUME e \notin Answers
        PROVE  /\ mirror # None /\ mirror' = Mirror(mirror') /\ Knows(mirror', q, cache)
    <3>1. e \in Notes /\ mirror # None /\ mirror' = Told(mirror, e)
      BY <1>14, <1>16, <1>19, <2>8, ControlConstants
    <3>2. mirror = Mirror(mirror) /\ Knows(mirror, OnTheWay, cache)
      BY <1>18, <3>1
    <3>3. PICK m : m = mirror
      OBVIOUS
    <3>4. m = Mirror(m) /\ Knows(m, Joined(w, q), cache) /\ \A f \in Facts : LastSays(f, Joined(w, q), cache)
      BY <1>18, <2>4, <3>2, <3>3
    <3>5. q \in Seq(Notes \cup Answers) /\ Only(w, e) /\ cache \in Snapshots
      BY <1>6, <1>15, <2>4 DEF Y
    <3>6. Knows(Told(m, e), q, cache)
      BY <3>1, <3>4, <3>5, ToldKnows
    <3>7. Told(m, e) = Mirror(Told(m, e))
      BY <3>1, <3>4, ToldIs
    <3> QED  BY <3>1, <3>3, <3>6, <3>7
  <2>9. mirror' # None => mirror # None
    BY <2>7, <2>8
  <2>10. mirror' # None => mirror' = Mirror(mirror') /\ Knows(mirror', q, cache)
    BY <1>18, <2>7, <2>8
  <2>11. \A i \in DOMAIN Replied :
           Replied[i].topic = "reply" /\ Replied[i].value \in Snapshots /\ Knows(Known1(Replied[i].value), q, cache)
    <3>1. CASE e \in Answers
      BY <1>18, <2>7, <3>1
    <3>2. CASE e \notin Answers
      <4>1. Replied = <<>>
        BY <1>18, <2>8, <3>2
      <4> QED  BY <4>1
    <3> QED  BY <3>1, <3>2
  <2>12. OnTheWay' = q /\ conns'["stream"].asks = "answered"
    BY <1>5, <1>19, <2>1, <2>2, <2>3
  <2>13. MirrorFollows'
    BY <1>2, <1>13, <1>18, <2>1, <2>2, <2>5, <2>6, <2>9, <2>10, <2>11, <2>12 DEF MirrorFollows
  <2> QED  BY <1>11, <2>13 DEF ControlInv
<1>20. CASE c = "query"
  <2>1. k = conns["query"] /\ conns'["query"] = l /\ conns'["stream"] = conns["stream"] /\ \A d \in Others : conns'[d] = conns[d]
    BY <1>1, <1>12, <1>20, ControlConstants
  <2>2. OnTheWay' = OnTheWay /\ Replied' = Way(l) /\ Replied = Joined(w, Way(l))
    BY <1>6, <1>13, <2>1 DEF OnTheWay, Replied
  <2>3. PICK q : q = Way(l)
    OBVIOUS
  <2>4. PICK r : r = Replied
    OBVIOUS
  <2>5. q \in Seq(Y) /\ w \in Seq(Y) /\ r = Joined(w, q) /\ Len(r) <= 1
    BY <1>6, <1>18, <2>2, <2>3, <2>4
  <2>6. Len(w) = 1 /\ w[1] = e /\ DOMAIN w = {1}
    BY <1>6, OnlyIs
  <2>7. /\ Len(q) \in Nat /\ Len(r) = Len(w) + Len(q)
        /\ \A i \in DOMAIN w : i \in DOMAIN r /\ r[i] = w[i]
    <3>1. w \in Seq(Y) /\ q \in Seq(Y) /\ r = Joined(w, q)
      BY <2>5
    <3>2. /\ Len(q) \in Nat /\ Len(Joined(w, q)) = Len(w) + Len(q)
          /\ \A i \in DOMAIN w : i \in DOMAIN Joined(w, q) /\ Joined(w, q)[i] = w[i]
      BY <3>1, JoinedPlaces
    <3> QED  BY <3>1, <3>2
  <2>8. q = <<>> /\ 1 \in DOMAIN r /\ r[1] = e
    <3>1. Len(q) = 0
      BY <2>5, <2>6, <2>7
    <3> QED  BY <2>5, <2>6, <2>7, <3>1, EmptySeq
  <2>9. e.value \in Snapshots /\ Knows(Known1(e.value), OnTheWay, cache)
    BY <1>18, <2>4, <2>8
  <2>10. mirror' = Known1(e.value) /\ mirror' = Mirror(mirror')
    <3>1. Known1(e.value) = Mirror(Known1(e.value))
      BY <2>9, SnapshotKnown
    <3>2. mirror' = Known1(e.value)
      BY <1>14, <1>20
    <3> QED  BY <3>1, <3>2
  <2>11. seen # None
    BY <1>8, <1>18, <2>1
  <2>12. l.done /\ l.link = k.link /\ Replied' = <<>> /\ DOMAIN <<>> = {} /\ Len(<<>>) = 0
    BY <1>5, <1>8, <2>2, <2>3, <2>8
  <2>13. \A i \in DOMAIN Replied' : FALSE
    BY <2>12
  <2>14. Len(Replied') <= 1
    BY <2>12
  <2>15. conns'["query"].done /\ (conns'["query"].link # "none" => conns'["stream"].asks = "answered")
    BY <1>18, <2>1, <2>12
  <2>16. mirror' # None => mirror' = Mirror(mirror') /\ Knows(mirror', OnTheWay', cache')
    BY <1>13, <2>2, <2>9, <2>10
  <2>17. \A f \in Facts : LastSays(f, OnTheWay', cache')
    BY <1>13, <1>18, <2>2
  <2>18. \A d \in Others : Replies(Way(conns'[d]))
    BY <1>18, <2>1
  <2>19. stage' = "poll" /\ seen' # None /\ cache'.commands = history'.items /\ messages' = <<>>
    BY <1>2, <1>13, <1>18, <2>11
  <2>20. MirrorFollows'
    BY <2>12, <2>13, <2>14, <2>15, <2>16, <2>17, <2>18, <2>19 DEF MirrorFollows
  <2> QED  BY <1>11, <2>20 DEF ControlInv
<1>21. CASE c \in Others
  <2>1. conns'["query"] = conns["query"] /\ conns'["stream"] = conns["stream"]
    BY <1>12, <1>21, ControlConstants
  <2>2. OnTheWay' = OnTheWay /\ Replied' = Replied
    BY <1>13, <2>1 DEF OnTheWay, Replied
  <2>3. Replies(w) /\ Replies(Way(l))
    <3>1. Replies(Joined(w, Way(l)))
      BY <1>1, <1>6, <1>18, <1>21
    <3>2. w \in Seq(Y) /\ Way(l) \in Seq(Y)
      BY <1>6
    <3> QED  BY <3>1, <3>2, RepliesJoined
  <2>4. e.topic = "reply"
    <3>1. w[1] = e /\ 1 \in DOMAIN w
      BY <1>6, OnlyIs
    <3> QED  BY <2>3, <3>1 DEF Replies
  <2>5. mirror' = mirror
    BY <1>14, <1>21, <2>4, ControlConstants
  <2>6. \A d \in Others : Replies(Way(conns'[d]))
    BY <1>12, <1>18, <2>3, ControlConstants
  <2>7. MirrorFollows'
    BY <1>2, <1>13, <1>18, <2>1, <2>2, <2>5, <2>6 DEF MirrorFollows
  <2> QED  BY <1>11, <2>7 DEF ControlInv
<1> QED  BY <1>19, <1>20, <1>21, ControlConstants

-----------------------------------------------------------------------------
(* ControlPlane: the shell launches what waits.                            *)

\* The end of a sequence, and of one whose length and places are known.
EndOf(a, r) == \E n \in 0..Len(r) : a = SubSeq(r, n + 1, Len(r))
Ends(a, r) == Len(a) <= Len(r) /\ \A i \in 1..Len(a) : a[i] = r[Len(r) - Len(a) + i]

LEMMA EndIs ==
  ASSUME NEW Y, NEW r \in Seq(Y), NEW a \in Seq(Y)
  PROVE  EndOf(a, r) <=> Ends(a, r)
<1>1. Len(r) \in Nat /\ Len(a) \in Nat /\ \A i \in 1..Len(r) : r[i] \in Y
  BY LenProperties, ElementOfSeq
<1>0. PICK x, y : x = Len(a) /\ y = Len(r)
  OBVIOUS
<1>2. ASSUME NEW n \in 0..y
      PROVE  /\ SubSeq(r, n + 1, Len(r)) \in Seq(Y) /\ Len(SubSeq(r, n + 1, Len(r))) = y - n
             /\ \A i \in 1..y - n : SubSeq(r, n + 1, Len(r))[i] = r[n + i]
  <2>1. n + 1 \in Int /\ Len(r) \in Int /\ \A i \in n + 1 .. Len(r) : r[i] \in Y
    BY <1>0, <1>1
  <2>2. /\ SubSeq(r, n + 1, Len(r)) \in Seq(Y)
        /\ Len(SubSeq(r, n + 1, Len(r))) = IF n + 1 <= Len(r) THEN Len(r) - (n + 1) + 1 ELSE 0
        /\ \A i \in 1 .. Len(r) - (n + 1) + 1 : SubSeq(r, n + 1, Len(r))[i] = r[(n + 1) + i - 1]
    BY <2>1, SubSeqProperties
  <2>3. (IF n + 1 <= Len(r) THEN Len(r) - (n + 1) + 1 ELSE 0) = y - n /\ Len(r) - (n + 1) + 1 = y - n
    BY <1>0, <1>1
  <2>4. \A i \in 1..y - n : (n + 1) + i - 1 = n + i
    BY <1>0, <1>1
  <2>5. PICK b : b = SubSeq(r, n + 1, Len(r))
    OBVIOUS
  <2>6. b \in Seq(Y) /\ Len(b) = y - n /\ \A i \in 1..y - n : b[i] = r[(n + 1) + i - 1]
    BY <2>2, <2>3, <2>5
  <2>7. \A i \in 1..y - n : b[i] = r[n + i]
    BY <2>4, <2>6
  <2> QED  BY <2>5, <2>6, <2>7
<1>3. ASSUME EndOf(a, r) PROVE Ends(a, r)
  <2>1. PICK n \in 0..y : a = SubSeq(r, n + 1, Len(r))
    BY <1>0, <1>3 DEF EndOf
  <2>2. Len(a) = y - n /\ \A i \in 1..y - n : a[i] = r[n + i]
    BY <1>2, <2>1
  <2>3. y \in Nat /\ x = y - n
    BY <1>0, <1>1, <2>2
  <2>4. y - x = n /\ x <= y
    BY <2>3
  <2> QED  BY <1>0, <2>2, <2>3, <2>4 DEF Ends
<1>4. ASSUME Ends(a, r) PROVE EndOf(a, r)
  <2>1. x \in Nat /\ y \in Nat /\ x <= y /\ \A i \in 1..x : a[i] = r[y - x + i]
    BY <1>0, <1>1, <1>4 DEF Ends
  <2>2. PICK n : n = y - x
    OBVIOUS
  <2>3. n \in 0..y /\ x = y - n
    BY <2>1, <2>2
  <2>4. PICK b : b = SubSeq(r, n + 1, Len(r))
    OBVIOUS
  <2>5. b \in Seq(Y) /\ Len(b) = y - n /\ \A i \in 1..y - n : b[i] = r[n + i]
    BY <1>2, <2>3, <2>4
  <2>6. \A i \in 1..x : a[i] = b[i]
    BY <2>1, <2>2, <2>3, <2>5
  <2>7. a = b
    BY <1>0, <2>3, <2>5, <2>6, SeqEqual
  <2> QED  BY <1>0, <2>3, <2>4, <2>7 DEF EndOf
<1> QED  BY <1>3, <1>4

\* What is remembered is the end of what was.
LEMMA TrimmedIs ==
  ASSUME NEW Y, NEW a \in Seq(Y), NEW limit \in Nat
  PROVE  /\ Trimmed(a, limit) \in Seq(Y) /\ Len(Trimmed(a, limit)) <= limit
         /\ Ends(Trimmed(a, limit), a)
<1>1. Len(a) \in Nat /\ \A i \in 1..Len(a) : a[i] \in Y
  BY LenProperties, ElementOfSeq
<1>2. CASE Len(a) <= limit
  <2>1. Trimmed(a, limit) = a
    BY <1>2 DEF Trimmed
  <2>2. \A i \in 1..Len(a) : Len(a) - Len(a) + i = i
    BY <1>1
  <2>3. Ends(a, a)
    BY <1>1, <2>2 DEF Ends
  <2> QED  BY <1>2, <2>1, <2>3
<1>3. CASE ~(Len(a) <= limit)
  <2>1. PICK x : x = Len(a)
    OBVIOUS
  <2>2. PICK n : n = x - limit
    OBVIOUS
  <2>3. n \in 0..x /\ x \in Nat /\ limit = x - n /\ x - limit + 1 = n + 1
    BY <1>1, <1>3, <2>1, <2>2
  <2>4. n + 1 \in Int /\ Len(a) \in Int /\ \A i \in n + 1 .. Len(a) : a[i] \in Y
    BY <1>1, <2>3
  <2>5. /\ SubSeq(a, n + 1, Len(a)) \in Seq(Y)
        /\ Len(SubSeq(a, n + 1, Len(a))) = IF n + 1 <= Len(a) THEN Len(a) - (n + 1) + 1 ELSE 0
    BY <2>4, SubSeqProperties
  <2>6. Trimmed(a, limit) = SubSeq(a, n + 1, Len(a))
    BY <1>3, <2>1, <2>3 DEF Trimmed
  <2>7. PICK t : t = SubSeq(a, n + 1, Len(a))
    OBVIOUS
  <2>8. t \in Seq(Y) /\ Len(t) = IF n + 1 <= x THEN x - (n + 1) + 1 ELSE 0
    BY <2>1, <2>5, <2>7
  <2>9. (IF n + 1 <= x THEN x - (n + 1) + 1 ELSE 0) = limit
    BY <2>3
  <2>10. Len(t) = limit
    BY <2>8, <2>9
  <2>11. EndOf(t, a)
    BY <2>1, <2>3, <2>7 DEF EndOf
  <2>12. Ends(t, a)
    BY <2>8, <2>11, EndIs
  <2> QED  BY <2>6, <2>7, <2>8, <2>10, <2>12
<1> QED  BY <1>2, <1>3

\* The end of a sequence, with more after it, is the end of the longer one; the end of an end is one.
LEMMA EndsJoined ==
  ASSUME NEW Y, NEW r \in Seq(Y), NEW a \in Seq(Y), NEW new \in Seq(Y)
  PROVE  Ends(a, r) => Ends(Joined(a, new), Joined(r, new))
<1> SUFFICES ASSUME Ends(a, r) PROVE Ends(Joined(a, new), Joined(r, new))
  OBVIOUS
<1>1. PICK b, u : b = Joined(a, new) /\ u = Joined(r, new)
  OBVIOUS
<1>2. PICK x, y, z : x = Len(a) /\ y = Len(r) /\ z = Len(new)
  OBVIOUS
<1>3. x \in Nat /\ y \in Nat /\ z \in Nat
  BY <1>2, LenProperties
<1>4. x <= y /\ \A i \in 1..x : a[i] = r[y - x + i]
  BY <1>2 DEF Ends
<1>5. Len(b) = x + z /\ \A i \in 1 .. x + z : b[i] = IF i <= x THEN a[i] ELSE new[i - x]
  BY <1>1, <1>2, JoinedIs
<1>6. Len(u) = y + z /\ \A i \in 1 .. y + z : u[i] = IF i <= y THEN r[i] ELSE new[i - y]
  BY <1>1, <1>2, JoinedIs
<1>7. ASSUME NEW i \in 1 .. x + z PROVE b[i] = u[y - x + i]
  <2>1. y - x + i \in 1 .. y + z /\ (y - x + i <= y <=> i <= x) /\ (y - x + i) - y = i - x
    BY <1>3, <1>4
  <2>2. PICK k : k = y - x + i
    OBVIOUS
  <2>3. u[k] = IF k <= y THEN r[k] ELSE new[k - y]
    BY <1>6, <2>1, <2>2
  <2>4. CASE i <= x
    <3>1. i \in 1..x
      BY <1>3, <2>4
    <3> QED  BY <1>4, <1>5, <2>1, <2>2, <2>3, <2>4, <3>1
  <2>5. CASE ~(i <= x)
    BY <1>5, <2>1, <2>2, <2>3, <2>5
  <2> QED  BY <2>4, <2>5
<1>8. x + z <= y + z /\ \A i \in 1 .. x + z : (y + z) - (x + z) + i = y - x + i
  BY <1>3, <1>4
<1>9. Ends(b, u)
  BY <1>5, <1>6, <1>7, <1>8 DEF Ends
<1> QED  BY <1>1, <1>9

LEMMA EndsOfEnds ==
  ASSUME NEW Y, NEW u \in Seq(Y), NEW b \in Seq(Y), NEW t \in Seq(Y)
  PROVE  Ends(t, b) /\ Ends(b, u) => Ends(t, u)
<1> SUFFICES ASSUME Ends(t, b), Ends(b, u) PROVE Ends(t, u)
  OBVIOUS
<1>2. PICK x, y, z : x = Len(t) /\ y = Len(b) /\ z = Len(u)
  OBVIOUS
<1>3. x \in Nat /\ y \in Nat /\ z \in Nat
  BY <1>2, LenProperties
<1>4. x <= y /\ \A i \in 1..x : t[i] = b[y - x + i]
  BY <1>2 DEF Ends
<1>5. y <= z /\ \A i \in 1..y : b[i] = u[z - y + i]
  BY <1>2 DEF Ends
<1>6. ASSUME NEW i \in 1..x PROVE t[i] = u[z - x + i]
  <2>1. y - x + i \in 1..y /\ z - y + (y - x + i) = z - x + i
    BY <1>3, <1>4
  <2> QED  BY <1>4, <1>5, <2>1
<1>7. x <= z
  BY <1>3, <1>4, <1>5
<1> QED  BY <1>2, <1>6, <1>7 DEF Ends

\* Each member of an end is one of the whole.
LEMMA EndMembers ==
  ASSUME NEW Y, NEW u \in Seq(Y), NEW t \in Seq(Y)
  PROVE  Ends(t, u) => ToSet(t) \subseteq ToSet(u)
<1> SUFFICES ASSUME Ends(t, u) PROVE ToSet(t) \subseteq ToSet(u)
  OBVIOUS
<1>2. PICK x, z : x = Len(t) /\ z = Len(u)
  OBVIOUS
<1>3. x \in Nat /\ z \in Nat /\ DOMAIN t = 1..x /\ DOMAIN u = 1..z
  BY <1>2, LenProperties
<1>4. x <= z /\ \A i \in 1..x : t[i] = u[z - x + i]
  BY <1>2 DEF Ends
<1>5. \A i \in 1..x : z - x + i \in 1..z
  BY <1>3, <1>4
<1> QED  BY <1>3, <1>4, <1>5 DEF ToSet

\* What is remembered of the results, with the new ones.
LEMMA RememberedIs ==
  ASSUME NEW Y, NEW r \in Seq(Y), NEW a \in Seq(Y), NEW new \in Seq(Y), NEW limit \in Nat, EndOf(a, r)
  PROVE  /\ Trimmed(Joined(a, new), limit) \in Seq(Y)
         /\ Len(Trimmed(Joined(a, new), limit)) <= limit
         /\ EndOf(Trimmed(Joined(a, new), limit), Joined(r, new))
         /\ ToSet(Trimmed(Joined(a, new), limit)) \subseteq ToSet(a) \cup ToSet(new)
<1>1. PICK b, u : b = Joined(a, new) /\ u = Joined(r, new)
  OBVIOUS
<1>2. b \in Seq(Y) /\ u \in Seq(Y) /\ ToSet(b) = ToSet(a) \cup ToSet(new)
  <2>1. a \in Seq(Y) /\ new \in Seq(Y) /\ r \in Seq(Y)
    OBVIOUS
  <2>2. Joined(a, new) \in Seq(Y) /\ Joined(r, new) \in Seq(Y)
    BY ONLY <2>1, JoinedIs
  <2>3. ToSet(Joined(a, new)) = ToSet(a) \cup ToSet(new)
    BY ONLY <2>1, JoinedMembers
  <2> QED  BY ONLY <1>1, <2>2, <2>3
<1>3. Ends(b, u)
  BY <1>1, EndIs, EndsJoined
<1>4. PICK t : t = Trimmed(b, limit)
  OBVIOUS
<1>5. t \in Seq(Y) /\ Len(t) <= limit /\ Ends(t, b)
  BY <1>2, <1>4, TrimmedIs
<1>6. Ends(t, u)
  BY <1>2, <1>3, <1>5, EndsOfEnds
<1>7. EndOf(t, u) /\ ToSet(t) \subseteq ToSet(b)
  BY <1>2, <1>5, <1>6, EndIs, EndMembers
<1> QED  BY <1>1, <1>2, <1>4, <1>5, <1>7

\* Which places of a sequence are left.
Picks(w, r, B) ==
  \E g \in [1..Len(w) -> 1..Len(r)] :
    /\ \A i \in 1..Len(w) : w[i] = r[g[i]] /\ r[g[i]] \in B
    /\ \A i, j \in 1..Len(w) : g[i] = g[j] => i = j
    /\ \A k \in 1..Len(r) : r[k] \in B => \E i \in 1..Len(w) : g[i] = k

\* Whose results these are, and that nobody has two of them.
Origins(r) == {r[i].origin : i \in DOMAIN r}
Once(r) == \A i, j \in DOMAIN r : r[i].origin = r[j].origin => i = j

\* Every command that is due has one result.
LEMMA LaunchedIs ==
  ASSUME NEW D, NEW due \in Seq(D), IsInjective(due),
         NEW ok \in [DOMAIN due -> BOOLEAN], NEW m, m = Launched(due, ok)
  PROVE  m \in Seq([origin : D, launched : BOOLEAN]) /\ Once(m) /\ Origins(m) = ToSet(due)
<1> DEFINE R == [origin : D, launched : BOOLEAN]
           ends == [i \in DOMAIN due |-> [origin |-> due[i], launched |-> ok[i]]]
           A(b) == [origin : ToSet(due), launched : {b}]
           n == Len(due)
<1>1. n \in Nat /\ DOMAIN due = 1..n /\ \A i \in 1..n : due[i] \in D /\ due[i] \in ToSet(due) /\ ok[i] \in BOOLEAN
  BY LenProperties, ElementOfSeq DEF ToSet
<1>2. PICK p, q : p = Those(ends, A(TRUE)) /\ q = Those(ends, A(FALSE)) /\ m = Joined(p, q)
  BY DEF Launched, Joined
<1>3. ends \in [1..n -> R] /\ \A i \in 1..n : ends[i] = [origin |-> due[i], launched |-> ok[i]]
  BY <1>1
<1>4. \A i \in 1..n : /\ ends[i].origin = due[i]
                      /\ \A b \in BOOLEAN : ends[i] \in A(b) <=> ok[i] = b
  BY <1>1, <1>3
<1> HIDE DEF ends, A, R, n
<1>5. ends \in Seq(R) /\ Len(ends) = n
  <2>1. ends \in Seq(R)
    BY <1>1, <1>3, SeqDef
  <2> QED  BY <1>1, <1>3, <2>1, LenProperties
<1>6. ASSUME NEW B, NEW w, w = Those(ends, B) PROVE w \in Seq(R) /\ Picks(w, ends, B)
  <2>1. ends \in Seq(R)
    BY <1>5
  <2>2. Those(ends, B) \in Seq(R) /\ Picks(Those(ends, B), ends, B)
    BY ONLY <2>1, ThoseLeft DEF Picks
  <2> QED  BY ONLY <1>6, <2>2
<1>7. p \in Seq(R) /\ q \in Seq(R) /\ Picks(p, ends, A(TRUE)) /\ Picks(q, ends, A(FALSE))
  <2>1. PICK B, C : B = A(TRUE) /\ C = A(FALSE)
    OBVIOUS
  <2>2. p = Those(ends, B) /\ q = Those(ends, C)
    BY <1>2, <2>1
  <2>3. p \in Seq(R) /\ Picks(p, ends, B)
    BY ONLY <1>6, <2>2
  <2>4. q \in Seq(R) /\ Picks(q, ends, C)
    BY ONLY <1>6, <2>2
  <2> QED  BY ONLY <2>1, <2>3, <2>4
<1>8. PICK g \in [1..Len(p) -> 1..n] :
              /\ \A i \in 1..Len(p) : p[i] = ends[g[i]] /\ ends[g[i]] \in A(TRUE)
              /\ \A i, j \in 1..Len(p) : g[i] = g[j] => i = j
              /\ \A k \in 1..n : ends[k] \in A(TRUE) => \E i \in 1..Len(p) : g[i] = k
  BY <1>5, <1>7 DEF Picks
<1>9. PICK h \in [1..Len(q) -> 1..n] :
              /\ \A i \in 1..Len(q) : q[i] = ends[h[i]] /\ ends[h[i]] \in A(FALSE)
              /\ \A i, j \in 1..Len(q) : h[i] = h[j] => i = j
              /\ \A k \in 1..n : ends[k] \in A(FALSE) => \E i \in 1..Len(q) : h[i] = k
  BY <1>5, <1>7 DEF Picks
<1>10. p \in Seq(R) /\ q \in Seq(R)
  BY <1>7
<1>11. m \in Seq(R)
  <2>1. Joined(p, q) \in Seq(R)
    BY ONLY <1>10, JoinedIs
  <2> QED  BY <1>2, <2>1
<1>12. /\ DOMAIN p = 1..Len(p) /\ DOMAIN q = 1..Len(q) /\ Len(p) \in Nat /\ Len(q) \in Nat
       /\ \A i \in DOMAIN p : i \in DOMAIN m /\ m[i] = p[i]
       /\ \A i \in DOMAIN q : Len(p) + i \in DOMAIN m /\ m[Len(p) + i] = q[i]
       /\ \A i \in DOMAIN m : \/ i \in DOMAIN p /\ m[i] = p[i]
                              \/ \E j \in DOMAIN q : i = Len(p) + j /\ m[i] = q[j]
  <2>1. /\ DOMAIN Joined(p, q) = 1..Len(p) + Len(q) /\ DOMAIN p = 1..Len(p) /\ DOMAIN q = 1..Len(q)
        /\ Len(p) \in Nat /\ Len(q) \in Nat
        /\ \A i \in DOMAIN p : i \in DOMAIN Joined(p, q) /\ Joined(p, q)[i] = p[i]
        /\ \A i \in DOMAIN q : Len(p) + i \in DOMAIN Joined(p, q) /\ Joined(p, q)[Len(p) + i] = q[i]
        /\ \A i \in DOMAIN Joined(p, q) : \/ i \in DOMAIN p /\ Joined(p, q)[i] = p[i]
                                          \/ \E j \in DOMAIN q : i = Len(p) + j /\ Joined(p, q)[i] = q[j]
    BY ONLY <1>10, JoinedPlaces
  <2>2. m = Joined(p, q)
    BY <1>2
  <2> QED  BY ONLY <2>1, <2>2
\* Which command a result is of.
<1>13. \A i \in DOMAIN p : g[i] \in 1..n /\ p[i].origin = due[g[i]] /\ ok[g[i]] = TRUE
  <2> SUFFICES ASSUME NEW i \in DOMAIN p PROVE g[i] \in 1..n /\ p[i].origin = due[g[i]] /\ ok[g[i]] = TRUE
    OBVIOUS
  <2>1. i \in 1..Len(p)
    BY <1>12
  <2>2. g[i] \in 1..n /\ p[i] = ends[g[i]] /\ ends[g[i]] \in A(TRUE)
    BY <1>8, <2>1
  <2>3. \A k \in 1..n : ends[k].origin = due[k] /\ (ends[k] \in A(TRUE) => ok[k] = TRUE)
    BY <1>4
  <2> QED  BY ONLY <2>2, <2>3
<1>14. \A i \in DOMAIN q : h[i] \in 1..n /\ q[i].origin = due[h[i]] /\ ok[h[i]] = FALSE
  <2> SUFFICES ASSUME NEW i \in DOMAIN q PROVE h[i] \in 1..n /\ q[i].origin = due[h[i]] /\ ok[h[i]] = FALSE
    OBVIOUS
  <2>1. i \in 1..Len(q)
    BY <1>12
  <2>2. h[i] \in 1..n /\ q[i] = ends[h[i]] /\ ends[h[i]] \in A(FALSE)
    BY <1>9, <2>1
  <2>3. \A k \in 1..n : ends[k].origin = due[k] /\ (ends[k] \in A(FALSE) => ok[k] = FALSE)
    BY <1>4
  <2> QED  BY ONLY <2>2, <2>3
<1>15. \A i, j \in 1..n : due[i] = due[j] => i = j
  BY <1>1 DEF IsInjective
<1>16. ASSUME NEW i \in DOMAIN m, NEW j \in DOMAIN m, m[i].origin = m[j].origin PROVE i = j
  <2>1. CASE i \in DOMAIN p /\ m[i] = p[i] /\ j \in DOMAIN p /\ m[j] = p[j]
    <3>1. g[i] = g[j]
      BY <1>13, <1>15, <1>16, <2>1
    <3> QED  BY <1>8, <1>12, <2>1, <3>1
  <2>2. ASSUME NEW k \in DOMAIN q, NEW l \in DOMAIN q, i = Len(p) + k, m[i] = q[k], j = Len(p) + l, m[j] = q[l] PROVE i = j
    <3>0. q[k].origin = q[l].origin
      BY <1>16, <2>2
    <3>1. h[k] = h[l]
      BY <1>14, <1>15, <3>0
    <3>2. k = l
      BY <1>9, <1>12, <3>1
    <3> QED  BY <2>2, <3>2
  <2>3. ASSUME NEW x \in DOMAIN p, NEW k \in DOMAIN q, p[x].origin = q[k].origin PROVE FALSE
    <3>1. g[x] = h[k]
      BY <1>13, <1>14, <1>15, <2>3
    <3> QED  BY <1>13, <1>14, <3>1
  <2> QED  BY <1>12, <1>16, <2>1, <2>2, <2>3
<1>17. \A i \in DOMAIN m : m[i].origin \in ToSet(due)
  <2>1. \A i \in DOMAIN p : p[i].origin \in ToSet(due)
    BY <1>1, <1>13
  <2>2. \A i \in DOMAIN q : q[i].origin \in ToSet(due)
    BY <1>1, <1>14
  <2> QED  BY <1>12, <2>1, <2>2
<1>18. ASSUME NEW x \in ToSet(due) PROVE \E i \in DOMAIN m : m[i].origin = x
  <2>1. PICK k \in 1..n : x = due[k]
    BY <1>1 DEF ToSet
  <2>2. CASE ok[k] = TRUE
    <3>1. PICK i \in 1..Len(p) : g[i] = k
      BY <1>4, <1>8, <2>2
    <3> QED  BY <1>12, <1>13, <2>1, <3>1
  <2>3. CASE ok[k] = FALSE
    <3>1. PICK i \in 1..Len(q) : h[i] = k
      BY <1>4, <1>9, <2>3
    <3>2. Len(p) + i \in DOMAIN m /\ m[Len(p) + i].origin = x
      BY <1>12, <1>14, <2>1, <3>1
    <3> QED  BY <3>2
  <2> QED  BY <1>1, <2>2, <2>3
<1>19. Once(m)
  BY <1>16 DEF Once
<1>20. Origins(m) = ToSet(due)
  <2>1. Origins(m) \subseteq ToSet(due)
    BY <1>17 DEF Origins
  <2>2. ToSet(due) \subseteq Origins(m)
    BY <1>18 DEF Origins
  <2> QED  BY <2>1, <2>2
<1> QED  BY <1>11, <1>19, <1>20 DEF R

-----------------------------------------------------------------------------
(* ControlPlane: the shell keeps the invariant.                            *)

LEMMA OriginsJoined ==
  ASSUME NEW Y
  PROVE  \A p, q \in Seq(Y) :
           /\ Origins(Joined(p, q)) = Origins(p) \cup Origins(q)
           /\ Once(p) /\ Once(q) /\ Origins(p) \cap Origins(q) = {} => Once(Joined(p, q))
<1> SUFFICES ASSUME NEW p \in Seq(Y), NEW q \in Seq(Y)
             PROVE  /\ Origins(Joined(p, q)) = Origins(p) \cup Origins(q)
                    /\ Once(p) /\ Once(q) /\ Origins(p) \cap Origins(q) = {} => Once(Joined(p, q))
  OBVIOUS
<1>1. PICK r : r = Joined(p, q)
  OBVIOUS
<1>2. /\ DOMAIN p = 1..Len(p) /\ DOMAIN q = 1..Len(q) /\ Len(p) \in Nat /\ Len(q) \in Nat
      /\ \A i \in DOMAIN p : i \in DOMAIN r /\ r[i] = p[i]
      /\ \A i \in DOMAIN q : Len(p) + i \in DOMAIN r /\ r[Len(p) + i] = q[i]
      /\ \A i \in DOMAIN r : \/ i \in DOMAIN p /\ r[i] = p[i]
                             \/ \E j \in DOMAIN q : i = Len(p) + j /\ r[i] = q[j]
  BY <1>1, JoinedPlaces
<1>3. Origins(r) = Origins(p) \cup Origins(q)
  <2>1. \A x \in Origins(r) : x \in Origins(p) \cup Origins(q)
    BY <1>2 DEF Origins
  <2>2. \A x \in Origins(p) \cup Origins(q) : x \in Origins(r)
    BY <1>2 DEF Origins
  <2> QED  BY <2>1, <2>2
<1>4. ASSUME Once(p), Once(q), Origins(p) \cap Origins(q) = {} PROVE Once(r)
  <2>1. \A i \in DOMAIN p, j \in DOMAIN q : p[i].origin # q[j].origin
    BY <1>4 DEF Origins
  <2>2. \A i, j \in DOMAIN r : r[i].origin = r[j].origin => i = j
    BY <1>2, <1>4, <2>1 DEF Once
  <2> QED  BY <2>2 DEF Once
<1> QED  BY <1>1, <1>3, <1>4

\* One more behind a sequence without it.
LEMMA LastAdded ==
  ASSUME NEW D, NEW q \in Seq(D), NEW e \in D, e \notin ToSet(q), NEW p, Only(p, e)
  PROVE  /\ Joined(q, p) \in Seq(D) /\ ToSet(Joined(q, p)) = {e} \cup ToSet(q)
         /\ IsInjective(q) => IsInjective(Joined(q, p))
<1>1. Len(p) = 1 /\ DOMAIN p = {1} /\ p[1] = e
  BY OnlyIs
<1>2. p \in Seq(D)
  <2>1. p = <<e>>
    BY DEF Only
  <2> QED  BY <2>1
<1>3. PICK r : r = Joined(q, p)
  OBVIOUS
<1>4. /\ \A i \in DOMAIN q : i \in DOMAIN r /\ r[i] = q[i]
      /\ \A i \in DOMAIN p : Len(q) + i \in DOMAIN r /\ r[Len(q) + i] = p[i]
      /\ \A i \in DOMAIN r : \/ i \in DOMAIN q /\ r[i] = q[i]
                             \/ \E j \in DOMAIN p : i = Len(q) + j /\ r[i] = p[j]
  BY <1>2, <1>3, JoinedPlaces
<1>5. r \in Seq(D) /\ ToSet(r) = ToSet(p) \cup ToSet(q) /\ ToSet(p) = {e}
  <2>1. ToSet(p) = {e}
    BY <1>1 DEF ToSet
  <2>2. p \in Seq(D) /\ q \in Seq(D)
    BY <1>2
  <2>3. Joined(q, p) \in Seq(D) /\ ToSet(Joined(q, p)) = ToSet(q) \cup ToSet(p)
    BY ONLY <2>2, JoinedIs, JoinedMembers
  <2> QED  BY <1>3, <2>1, <2>3
<1>6. ASSUME IsInjective(q) PROVE IsInjective(r)
  <2>1. \A i, j \in DOMAIN q : q[i] = q[j] => i = j
    BY <1>6 DEF IsInjective
  <2>2. \A i \in DOMAIN q : q[i] # e
    BY DEF ToSet
  <2>3. \A i, j \in DOMAIN r : r[i] = r[j] => i = j
    BY <1>1, <1>4, <2>1, <2>2
  <2> QED  BY <2>3 DEF IsInjective
<1> QED  BY <1>3, <1>5, <1>6

\* The commands that are due: the accepted ones, and the startup actions once they may run.
DueNow ==
  IF StartupDue /\ Configs[config.v].startup
    THEN requests.commands \o <<"startup">> ELSE requests.commands

LEMMA DueIs ==
  ASSUME ControlInv
  PROVE  /\ DueNow \in Seq(Others \cup {"startup"}) /\ IsInjective(DueNow)
         /\ \A x \in ToSet(requests.commands) : x \in ToSet(DueNow)
         /\ \A x \in ToSet(DueNow) : x \in ToSet(requests.commands) \/ (x = "startup" /\ StartupDue)
<1> DEFINE q == requests.commands
           D == Others \cup {"startup"}
<1>1. q \in Seq(Others)
  BY DEF ControlInv, ControlTyped, Requested
<1>2. q \in Seq(D) /\ "startup" \in D /\ "startup" \notin ToSet(q)
  <2>1. \A i \in DOMAIN q : q[i] \in Others
    BY <1>1, ElementOfSeq, LenProperties
  <2>2. "startup" \notin ToSet(q)
    BY <2>1, ControlConstants DEF ToSet
  <2>3. q \in Seq(D)
    BY <1>1, SeqMonotonic
  <2> QED  BY <2>2, <2>3
<1>3. IsInjective(q)
  BY DEF ControlInv, CommandsOnce, Awaited, IsInjective
<1> HIDE DEF q, D
<1>4. PICK p : p = <<"startup">>
  OBVIOUS
<1>5. Only(p, "startup")
  BY <1>4 DEF Only
<1>6. Joined(q, p) \in Seq(D) /\ ToSet(Joined(q, p)) = {"startup"} \cup ToSet(q) /\ IsInjective(Joined(q, p))
  BY ONLY <1>2, <1>3, <1>5, LastAdded
<1>7. DueNow = IF StartupDue /\ Configs[config.v].startup THEN Joined(q, p) ELSE q
  BY <1>4 DEF DueNow, Joined, q
<1>8. /\ DueNow \in Seq(D) /\ IsInjective(DueNow)
      /\ \A x \in ToSet(q) : x \in ToSet(DueNow)
      /\ \A x \in ToSet(DueNow) : x \in ToSet(q) \/ (x = "startup" /\ StartupDue)
  BY ONLY <1>2, <1>3, <1>6, <1>7
<1> QED  BY <1>8 DEF D, q

\* What the world does in a frame.
LEMMA WorldTyped ==
  ASSUME world \in Worlds, changes \in Nat,
         (IF requests.controls > 0
            THEN world' = [world EXCEPT !.tree = @ + 1] /\ UNCHANGED changes
            ELSE WorldMoves)
  PROVE  world' \in Worlds /\ changes' \in Nat
<1> SUFFICES world' \in Worlds
  BY DEF WorldMoves
<1>1. PICK t \in Nat, b \in {None} \cup Popups : world = [tree |-> t, popup |-> b]
  BY DEF Worlds
<1>2. ASSUME NEW u \in Nat, NEW d \in {None} \cup Popups PROVE [tree |-> u, popup |-> d] \in Worlds
  BY DEF Worlds
<1>3. CASE world' = [world EXCEPT !.tree = @ + 1]
  <2>1. world' = [tree |-> t + 1, popup |-> b]
    BY <1>1, <1>3
  <2> QED  BY <1>2, <2>1
<1>4. CASE world' = [world EXCEPT !.popup = [box |-> 0, grab |-> FALSE]]
  <2>1. [box |-> 0, grab |-> FALSE] \in Popups
    BY DEF Popups
  <2>2. world' = [tree |-> t, popup |-> [box |-> 0, grab |-> FALSE]]
    BY <1>1, <1>4
  <2> QED  BY <1>2, <2>1, <2>2
<1>5. CASE world' = [world EXCEPT !.popup = None]
  <2>1. world' = [tree |-> t, popup |-> None]
    BY <1>1, <1>5
  <2> QED  BY <1>2, <2>1
<1>6. CASE world.popup # None /\ world' = [world EXCEPT !.popup.box = 1 - @]
  <2>1. PICK x \in {0, 1}, g \in BOOLEAN : b = [box |-> x, grab |-> g]
    BY <1>1, <1>6 DEF Popups
  <2>2. world' = [tree |-> t, popup |-> [box |-> 1 - x, grab |-> g]]
    BY <1>1, <1>6, <2>1
  <2>3. 1 - x \in {0, 1}
    OBVIOUS
  <2>4. [box |-> 1 - x, grab |-> g] \in Popups
    BY <2>3 DEF Popups
  <2> QED  BY <1>2, <2>2, <2>4
<1>7. CASE world.popup # None /\ world' = [world EXCEPT !.popup.grab = ~@, !.tree = @ + 1]
  <2>1. PICK x \in {0, 1}, g \in BOOLEAN : b = [box |-> x, grab |-> g]
    BY <1>1, <1>7 DEF Popups
  <2>2. world' = [tree |-> t + 1, popup |-> [box |-> x, grab |-> ~g]]
    BY <1>1, <1>7, <2>1
  <2>3. [box |-> x, grab |-> ~g] \in Popups
    BY DEF Popups
  <2> QED  BY <1>2, <2>2, <2>3
<1> QED  BY <1>3, <1>4, <1>5, <1>6, <1>7 DEF WorldMoves

\* Each command that is due has its result now, and had none before.
LEMMA ShellIs ==
  ASSUME ControlInv, Shell
  PROVE  /\ messages' \in Seq(Outcomes) /\ Once(messages') /\ Origins(messages') = ToSet(DueNow)
         /\ results' = Joined(results, messages') /\ results' \in Seq(Outcomes) /\ Once(results')
         /\ Origins(results') = Origins(results) \cup ToSet(DueNow)
<1>1. PICK due : due = DueNow
  OBVIOUS
<1>2. /\ due \in Seq(Others \cup {"startup"}) /\ IsInjective(due)
      /\ \A x \in ToSet(due) : x \in ToSet(requests.commands) \/ (x = "startup" /\ StartupDue)
  BY <1>1, DueIs
<1>3. PICK ok \in [DOMAIN due -> BOOLEAN] : messages' = Launched(due, ok)
  BY <1>1 DEF Shell, DueNow
<1>4. PICK m : m = Launched(due, ok)
  OBVIOUS
<1>5. PICK D : D = Others \cup {"startup"}
  OBVIOUS
<1>6. due \in Seq(D) /\ IsInjective(due) /\ ok \in [DOMAIN due -> BOOLEAN]
  BY <1>2, <1>5
<1>7. m \in Seq([origin : D, launched : BOOLEAN]) /\ Once(m) /\ Origins(m) = ToSet(due)
  BY ONLY <1>4, <1>6, LaunchedIs
<1>8. m \in Seq(Outcomes) /\ Once(m) /\ Origins(m) = ToSet(due)
  BY <1>5, <1>7 DEF Outcomes
<1>9. results \in Seq(Outcomes) /\ Once(results)
  BY DEF ControlInv, ControlTyped, CommandsOnce, Once
<1>10. Origins(results) \cap ToSet(due) = {}
  <2> SUFFICES ASSUME NEW x \in ToSet(due), x \in Origins(results) PROVE FALSE
    OBVIOUS
  <2>1. HadResult(x)
    BY DEF HadResult, Origins
  <2>2. CASE x \in ToSet(requests.commands)
    <3>1. \A i \in DOMAIN requests.commands : ~HadResult(requests.commands[i])
      BY DEF ControlInv, CommandsOnce, Awaited
    <3> QED  BY <2>1, <2>2, <3>1 DEF ToSet
  <2>3. CASE x = "startup" /\ StartupDue
    <3>1. startup.queued
      BY <2>1, <2>3 DEF ControlInv, CommandsOnce, HadResult
    <3> QED  BY <2>3, <3>1 DEF StartupDue
  <2> QED  BY <1>2, <2>2, <2>3
<1>11. PICK r : r = Joined(results, m)
  OBVIOUS
<1>12. r \in Seq(Outcomes) /\ Once(r) /\ Origins(r) = Origins(results) \cup ToSet(due)
  <2>1. m \in Seq(Outcomes) /\ results \in Seq(Outcomes)
    BY <1>8, <1>9
  <2>2. /\ Joined(results, m) \in Seq(Outcomes)
        /\ Origins(Joined(results, m)) = Origins(results) \cup Origins(m)
        /\ Once(results) /\ Once(m) /\ Origins(results) \cap Origins(m) = {} => Once(Joined(results, m))
    <3>1. Joined(results, m) \in Seq(Outcomes)
      BY ONLY <2>1, JoinedIs
    <3>2. /\ Origins(Joined(results, m)) = Origins(results) \cup Origins(m)
          /\ Once(results) /\ Once(m) /\ Origins(results) \cap Origins(m) = {} => Once(Joined(results, m))
      BY ONLY <2>1, OriginsJoined
    <3> QED  BY ONLY <3>1, <3>2
  <2> QED  BY <1>8, <1>9, <1>10, <1>11, <2>2
<1>13. messages' = m /\ results' = r
  <2>1. results' = Joined(results, messages')
    BY DEF Shell, Joined
  <2> QED  BY <1>3, <1>4, <1>11, <2>1
<1> QED  BY <1>1, <1>8, <1>11, <1>12, <1>13

LEMMA ShellHolds ==
  ASSUME ControlInv, Shell
  PROVE  ControlInv'
<1>1. /\ stage = "shell" /\ stage' = "render" /\ scene' = scene /\ reloadFirst' = reloadFirst
      /\ conns' = conns /\ queue' = queue /\ events' = events /\ mirror' = mirror /\ cache' = cache /\ seen' = seen
      /\ file' = file /\ notice' = notice /\ edits' = edits
      /\ watch' = watch /\ config' = config /\ layouts' = layouts
  BY DEF Shell, socket, disk
<1>2. ControlTyped /\ ConnsTrue /\ CommandsOnce /\ FileFollowed /\ MirrorFollows
  BY DEF ControlInv
<1>3. PICK m, r : m = messages' /\ r = results'
  OBVIOUS
<1>4. /\ m \in Seq(Outcomes) /\ Once(m) /\ Origins(m) = ToSet(DueNow)
      /\ r = Joined(results, m) /\ r \in Seq(Outcomes) /\ Once(r)
      /\ Origins(r) = Origins(results) \cup ToSet(DueNow)
  BY <1>3, ShellIs
<1>5. startup' = [startup EXCEPT !.queued = @ \/ StartupDue]
  BY DEF Shell
<1>6. startup \in StartupStates
  BY <1>2 DEF ControlTyped
<1>7. /\ startup' \in StartupStates /\ startup'.queued = (startup.queued \/ StartupDue)
      /\ startup'.xwayland = startup.xwayland
  BY <1>5, <1>6 DEF StartupStates, StartupDue
<1>8. requests' \in Requested /\ requests'.commands = <<>>
  <2>1. requests \in Requested
    BY <1>2 DEF ControlTyped
  <2>2. requests' = [requests EXCEPT !.commands = <<>>, !.controls = 0]
    BY DEF Shell
  <2>3. requests' = [reload |-> requests.reload, quit |-> requests.quit, commands |-> <<>>, controls |-> 0]
    BY <2>1, <2>2 DEF Requested
  <2> QED  BY <2>1, <2>3 DEF Requested
<1>9. world' \in Worlds /\ changes' \in Nat
  <2>1. world \in Worlds /\ changes \in Nat
    BY <1>2 DEF ControlTyped
  <2>2. IF requests.controls > 0
          THEN world' = [world EXCEPT !.tree = @ + 1] /\ UNCHANGED changes
          ELSE WorldMoves
    BY DEF Shell
  <2> QED  BY <2>1, <2>2, WorldTyped
<1>10. /\ history' \in [limit : Nat, items : Seq(Outcomes)] /\ Len(history'.items) <= history'.limit
       /\ EndOf(history'.items, r) /\ ToSet(history'.items) \subseteq ToSet(history.items) \cup ToSet(m)
  <2>1. PICK a, limit : a = history.items /\ limit = Configs[config.v].limit
    OBVIOUS
  <2>2. a \in Seq(Outcomes) /\ results \in Seq(Outcomes) /\ m \in Seq(Outcomes)
    BY <1>2, <1>4, <2>1 DEF ControlTyped
  <2>3. limit \in Nat
    <3>1. config.v \in DOMAIN Configs
      BY <1>2 DEF ControlTyped, Configurations
    <3> QED  BY <2>1, <3>1, ConfigsSound
  <2>4. EndOf(a, results)
    BY <1>2, <2>1 DEF CommandsOnce, EndOf
  <2>5. PICK t : t = Trimmed(Joined(a, m), limit)
    OBVIOUS
  <2>6. /\ t \in Seq(Outcomes) /\ Len(t) <= limit /\ EndOf(t, Joined(results, m))
        /\ ToSet(t) \subseteq ToSet(a) \cup ToSet(m)
    <3>1. /\ Trimmed(Joined(a, m), limit) \in Seq(Outcomes)
          /\ Len(Trimmed(Joined(a, m), limit)) <= limit
          /\ EndOf(Trimmed(Joined(a, m), limit), Joined(results, m))
          /\ ToSet(Trimmed(Joined(a, m), limit)) \subseteq ToSet(a) \cup ToSet(m)
      BY ONLY <2>2, <2>3, <2>4, RememberedIs
    <3> QED  BY ONLY <2>5, <3>1
  <2>7. history' = [limit |-> limit, items |-> t]
    <3>1. history' = [limit |-> limit, items |-> Trimmed(Joined(history.items, messages'), limit)]
      BY <2>1 DEF Shell, Remembered, Joined
    <3> QED  BY <1>3, <2>1, <2>5, <3>1
  <2>8. history'.items = t /\ history'.limit = limit
    BY <2>7
  <2> QED  BY <1>4, <2>1, <2>3, <2>6, <2>7, <2>8
<1>11. ControlTyped'
  BY <1>1, <1>2, <1>3, <1>4, <1>7, <1>8, <1>9, <1>10 DEF ControlTyped
<1>12. ConnsTrue'
  BY <1>1, <1>2 DEF ConnsTrue
<1>13. FileFollowed'
  BY <1>1, <1>2 DEF FileFollowed
<1>14. Awaited(conns, requests.commands)'
  <2> DEFINE q == requests.commands
  <2>1. \A c : HadResult(c) <=> c \in Origins(results)
    BY DEF HadResult, Origins
  <2>2. \A c : (\E i \in DOMAIN results' : results'[i].origin = c) <=> c \in Origins(r)
    BY <1>3 DEF Origins
  <2>3. /\ \A i \in DOMAIN q : Launches(conns[q[i]])
        /\ \A c \in Others : Launches(conns[c]) => HadResult(c) \/ \E i \in DOMAIN q : q[i] = c
        /\ \A c \in Others : HadResult(c) => conns[c].done
    BY <1>2 DEF CommandsOnce, Awaited
  <2>4. \A c : c \in ToSet(q) <=> \E i \in DOMAIN q : q[i] = c
    BY DEF ToSet
  <2>5. /\ \A x \in ToSet(q) : x \in ToSet(DueNow)
        /\ \A x \in ToSet(DueNow) : x \in ToSet(q) \/ x = "startup"
    BY DueIs
  <2> HIDE DEF q
  <2>6. \A c \in Others : Launches(conns[c]) => c \in Origins(r)
    BY <1>4, <2>1, <2>3, <2>4, <2>5
  <2>7. \A c \in Others : c \in Origins(r) => conns[c].done
    <3> SUFFICES ASSUME NEW c \in Others, c \in Origins(r) PROVE conns[c].done
      OBVIOUS
    <3>1. CASE c \in Origins(results)
      BY <2>1, <2>3, <3>1
    <3>2. CASE c \in ToSet(q)
      <4>1. Launches(conns[c])
        BY <2>3, <2>4, <3>2
      <4> QED  BY <4>1 DEF Launches
    <3> QED  BY <1>4, <2>5, <3>1, <3>2, ControlConstants
  <2>8. DOMAIN requests'.commands = {}
    BY <1>8
  <2> QED  BY <1>1, <2>2, <2>6, <2>7, <2>8 DEF Awaited, HadResult, Launches
<1>15. CommandsOnce'
  <2>1. \A i, j \in DOMAIN results' : results'[i].origin = results'[j].origin => i = j
    BY <1>3, <1>4 DEF Once
  <2>2. \A i \in DOMAIN results' : results'[i].origin = "startup" => startup'.queued
    <3> SUFFICES ASSUME "startup" \in Origins(r) PROVE startup'.queued
      BY <1>3 DEF Origins
    <3>1. CASE "startup" \in Origins(results)
      <4>1. startup.queued
        BY <1>2, <3>1 DEF CommandsOnce, Origins
      <4> QED  BY <1>7, <4>1
    <3>2. CASE "startup" \in ToSet(DueNow)
      <4>1. "startup" \notin ToSet(requests.commands)
        <5>1. requests.commands \in Seq(Others)
          BY <1>2 DEF ControlTyped, Requested
        <5>2. \A i \in DOMAIN requests.commands : requests.commands[i] \in Others
          BY <5>1, ElementOfSeq, LenProperties
        <5> QED  BY <5>2, ControlConstants DEF ToSet
      <4>2. StartupDue
        BY <3>2, <4>1, DueIs
      <4> QED  BY <1>7, <4>2
    <3> QED  BY <1>4, <3>1, <3>2
  <2>3. startup'.queued => startup'.xwayland \in {"off", "ready"}
    BY <1>2, <1>7 DEF CommandsOnce, StartupDue
  <2>4. \E n \in 0..Len(results') : history'.items = SubSeq(results', n + 1, Len(results'))
    BY <1>3, <1>10 DEF EndOf
  <2> QED  BY <1>8, <1>10, <1>14, <2>1, <2>2, <2>3, <2>4 DEF CommandsOnce
<1>16. MirrorFollows'
  <2>1. OnTheWay' = OnTheWay /\ Replied' = Replied
    BY <1>1 DEF OnTheWay, Replied
  <2>2. cache.commands = history.items /\ events = <<>>
    BY <1>1, <1>2 DEF MirrorFollows
  <2>3. ToSet(history'.items) \subseteq ToSet(cache'.commands) \cup ToSet(messages')
    BY <1>1, <1>3, <1>10, <2>2
  <2> QED  BY <1>1, <1>2, <2>1, <2>2, <2>3 DEF MirrorFollows
<1> QED  BY <1>11, <1>12, <1>13, <1>15, <1>16 DEF ControlInv

-----------------------------------------------------------------------------
(* ControlPlane: the events of a frame.                                    *)

\* An event if there is reason for it.
LEMMA IfIs ==
  ASSUME NEW b \in BOOLEAN, NEW topic, NEW v, NEW p, p = If(b, topic, v), b => Event(topic, v) \in Notes
  PROVE  p \in Seq(Notes) /\ ToSet(p) = IF b THEN {Event(topic, v)} ELSE {}
<1>1. CASE b
  <2>1. PICK e : e = Event(topic, v)
    OBVIOUS
  <2>2. p = <<e>> /\ e \in Notes
    BY <1>1, <2>1 DEF If
  <2>3. Only(p, e)
    BY <2>2 DEF Only
  <2>4. ToSet(p) = {e}
    BY <2>3, OnlyIs DEF ToSet
  <2>5. p \in Seq(Notes)
    BY <2>2
  <2> QED  BY <1>1, <2>1, <2>4, <2>5
<1>2. CASE ~b
  <2>1. p = <<>>
    BY <1>2 DEF If
  <2> QED  BY <1>2, <2>1 DEF ToSet
<1> QED  BY <1>1, <1>2

\* What became of a popup.
PopupTold(old, new, e) ==
  \/ old = None /\ new # None /\ e = Event("created", new)
  \/ old # None /\ new = None /\ e = Event("dismissed", None)
  \/ old # None /\ new # None /\ old.box # new.box /\ e = Event("geometry", new.box)
  \/ old # None /\ new # None /\ old.grab # new.grab /\ e = Event("grab", new.grab)
ValueTold(old, new, e) ==
  \/ old.tree # new.tree /\ e = Event("tree", new.tree)
  \/ old.config # new.config /\ e = Event("config", new.config)
  \/ old.layouts # new.layouts /\ e = Event("layouts", new.layouts)

LEMMA PopupEventsAre ==
  ASSUME NEW old \in {None} \cup Popups, NEW new \in {None} \cup Popups, NEW p, p = PopupEvents(old, new)
  PROVE  p \in Seq(Notes) /\ \A e : e \in ToSet(p) <=> PopupTold(old, new, e)
<1>1. CASE old = None \/ new = None
  <2>1. PICK q, r : q = If(old = None /\ new # None, "created", new) /\ r = If(old # None /\ new = None, "dismissed", None)
    OBVIOUS
  <2>2. p = Joined(q, r)
    BY <1>1, <2>1 DEF PopupEvents, Joined
  <2>3. new # None => Event("created", new) \in Notes
    BY DEF Notes, Event
  <2>4. Event("dismissed", None) \in Notes
    BY DEF Notes, Event
  <2>5. q \in Seq(Notes) /\ ToSet(q) = IF old = None /\ new # None THEN {Event("created", new)} ELSE {}
    BY <2>1, <2>3, IfIs
  <2>6. r \in Seq(Notes) /\ ToSet(r) = IF old # None /\ new = None THEN {Event("dismissed", None)} ELSE {}
    BY <2>1, <2>4, IfIs
  <2>7. q \in Seq(Notes) /\ r \in Seq(Notes)
    BY <2>5, <2>6
  <2>8. Joined(q, r) \in Seq(Notes) /\ ToSet(Joined(q, r)) = ToSet(q) \cup ToSet(r)
    BY ONLY <2>7, JoinedIs, JoinedMembers
  <2> QED  BY <1>1, <2>2, <2>5, <2>6, <2>8 DEF PopupTold
<1>2. CASE old # None /\ new # None
  <2>1. PICK q, r : q = If(old.box # new.box, "geometry", new.box) /\ r = If(old.grab # new.grab, "grab", new.grab)
    OBVIOUS
  <2>2. p = Joined(q, r)
    BY <1>2, <2>1 DEF PopupEvents, Joined
  <2>0. new.box \in {0, 1} /\ new.grab \in BOOLEAN
    BY <1>2 DEF Popups
  <2>3. Event("geometry", new.box) \in Notes
    BY <2>0 DEF Notes, Event
  <2>4. Event("grab", new.grab) \in Notes
    BY <2>0 DEF Notes, Event
  <2>5. q \in Seq(Notes) /\ ToSet(q) = IF old.box # new.box THEN {Event("geometry", new.box)} ELSE {}
    BY <2>1, <2>3, IfIs
  <2>6. r \in Seq(Notes) /\ ToSet(r) = IF old.grab # new.grab THEN {Event("grab", new.grab)} ELSE {}
    BY <2>1, <2>4, IfIs
  <2>7. q \in Seq(Notes) /\ r \in Seq(Notes)
    BY <2>5, <2>6
  <2>8. Joined(q, r) \in Seq(Notes) /\ ToSet(Joined(q, r)) = ToSet(q) \cup ToSet(r)
    BY ONLY <2>7, JoinedIs, JoinedMembers
  <2> QED  BY <1>2, <2>2, <2>5, <2>6, <2>8 DEF PopupTold
<1> QED  BY <1>1, <1>2

LEMMA ValueEventsAre ==
  ASSUME NEW old \in Snapshots, NEW new \in Snapshots, NEW p, p = ValueEvents(old, new)
  PROVE  p \in Seq(Notes) /\ \A e : e \in ToSet(p) <=> ValueTold(old, new, e)
<1>1. PICK q, r, t : /\ q = If(old.tree # new.tree, "tree", new.tree)
                     /\ r = If(old.config # new.config, "config", new.config)
                     /\ t = If(old.layouts # new.layouts, "layouts", new.layouts)
  OBVIOUS
<1>2. p = Joined(Joined(q, r), t)
  BY <1>1 DEF ValueEvents, Joined
<1>3. new.tree \in Nat /\ new.config \in Configurations /\ new.layouts \in LayoutStates
  BY DEF Snapshots
<1>4. Event("tree", new.tree) \in Notes
  BY <1>3 DEF Notes, Event
<1>5. Event("config", new.config) \in Notes
  BY <1>3 DEF Notes, Event
<1>6. Event("layouts", new.layouts) \in Notes
  BY <1>3 DEF Notes, Event
<1>7. q \in Seq(Notes) /\ ToSet(q) = IF old.tree # new.tree THEN {Event("tree", new.tree)} ELSE {}
  BY <1>1, <1>4, IfIs
<1>8. r \in Seq(Notes) /\ ToSet(r) = IF old.config # new.config THEN {Event("config", new.config)} ELSE {}
  BY <1>1, <1>5, IfIs
<1>9. t \in Seq(Notes) /\ ToSet(t) = IF old.layouts # new.layouts THEN {Event("layouts", new.layouts)} ELSE {}
  BY <1>1, <1>6, IfIs
<1>10. q \in Seq(Notes) /\ r \in Seq(Notes) /\ t \in Seq(Notes)
  BY <1>7, <1>8, <1>9
<1>11. Joined(q, r) \in Seq(Notes) /\ ToSet(Joined(q, r)) = ToSet(q) \cup ToSet(r)
  BY ONLY <1>10, JoinedIs, JoinedMembers
<1>12. PICK u : u = Joined(q, r)
  OBVIOUS
<1>13. u \in Seq(Notes) /\ t \in Seq(Notes)
  BY ONLY <1>10, <1>11, <1>12
<1>14. Joined(u, t) \in Seq(Notes) /\ ToSet(Joined(u, t)) = ToSet(u) \cup ToSet(t)
  BY ONLY <1>13, JoinedIs, JoinedMembers
<1> QED  BY <1>2, <1>7, <1>8, <1>9, <1>11, <1>12, <1>14 DEF ValueTold

\* The events that lead from one snapshot to the next say what changed, and what they say is so.
LEMMA EventsLead ==
  ASSUME NEW old \in Snapshots, NEW new \in Snapshots, NEW p,
         p = PopupEvents(old.popup, new.popup) \o ValueEvents(old, new)
  PROVE  /\ p \in Seq(Notes)
         /\ \A f \in Facts : AllSay(f, p, new) /\ (Silent(f, p) => Fact(f, new) = Fact(f, old))
<1>1. PICK q, r : q = PopupEvents(old.popup, new.popup) /\ r = ValueEvents(old, new)
  OBVIOUS
<1>2. old.popup \in {None} \cup Popups /\ new.popup \in {None} \cup Popups
  BY DEF Snapshots
<1>3. q \in Seq(Notes) /\ \A e : e \in ToSet(q) <=> PopupTold(old.popup, new.popup, e)
  BY <1>1, <1>2, PopupEventsAre
<1>4. r \in Seq(Notes) /\ \A e : e \in ToSet(r) <=> ValueTold(old, new, e)
  BY <1>1, ValueEventsAre
<1>5. q \in Seq(Notes) /\ r \in Seq(Notes)
  BY <1>3, <1>4
<1>6. Joined(q, r) \in Seq(Notes) /\ ToSet(Joined(q, r)) = ToSet(q) \cup ToSet(r)
  BY ONLY <1>5, JoinedIs, JoinedMembers
<1>7. p = Joined(q, r)
  BY <1>1 DEF Joined
<1>8. p \in Seq(Notes) /\ \A e : e \in ToSet(p) <=> PopupTold(old.popup, new.popup, e) \/ ValueTold(old, new, e)
  BY ONLY <1>3, <1>4, <1>6, <1>7
<1>9. PICK a, b : a = old.popup /\ b = new.popup
  OBVIOUS
<1>10. /\ \A e : PopupTold(a, b, e) =>
             /\ e.topic = "created" => b # None /\ e.value = b
             /\ e.topic = "dismissed" => b = None /\ e.value = None
             /\ e.topic = "geometry" => b # None /\ e.value = b.box
             /\ e.topic = "grab" => b # None /\ e.value = b.grab
             /\ e.topic \in {"created", "dismissed", "geometry", "grab"}
       /\ \A e : ValueTold(old, new, e) =>
             /\ e.topic = "tree" => e.value = new.tree
             /\ e.topic = "config" => e.value = new.config
             /\ e.topic = "layouts" => e.value = new.layouts
             /\ e.topic \in {"tree", "config", "layouts"}
  BY DEF PopupTold, ValueTold, Event
<1>11. \A f \in Facts : AllSay(f, p, new)
  <2>1. \A e \in ToSet(p) :
          /\ e.topic \in Topics("tree") => Says("tree", e) = Fact("tree", new)
          /\ e.topic \in Topics("config") => Says("config", e) = Fact("config", new)
          /\ e.topic \in Topics("layouts") => Says("layouts", e) = Fact("layouts", new)
    BY <1>8, <1>9, <1>10, FactsAre
  <2>2. \A e \in ToSet(p) : e.topic \in Topics("there") => Says("there", e) = Fact("there", new)
    BY <1>8, <1>9, <1>10, FactsAre
  <2>3. \A e \in ToSet(p) : e.topic \in Topics("box") => Says("box", e) = Fact("box", new)
    BY <1>8, <1>9, <1>10, FactsAre
  <2>4. \A e \in ToSet(p) : e.topic \in Topics("grab") => Says("grab", e) = Fact("grab", new)
    BY <1>8, <1>9, <1>10, FactsAre
  <2>5. \A f \in Facts : \A e \in ToSet(p) : e.topic \in Topics(f) => Says(f, e) = Fact(f, new)
    BY <2>1, <2>2, <2>3, <2>4 DEF Facts
  <2> QED  BY <2>5, ByMembers
<1>12. ASSUME NEW f \in Facts, Silent(f, p) PROVE Fact(f, new) = Fact(f, old)
  <2>1. \A e \in ToSet(p) : e.topic \notin Topics(f)
    BY <1>12, ByMembers
  <2>2. \A e : PopupTold(a, b, e) \/ ValueTold(old, new, e) => e.topic \notin Topics(f)
    BY <1>8, <1>9, <2>1
  <2>3. \A t, v : Event(t, v).topic = t
    BY DEF Event
  <2>4. CASE f = "tree"
    <3>1. ~ValueTold(old, new, Event("tree", new.tree))
      BY <2>2, <2>3, <2>4, FactsAre
    <3>2. old.tree = new.tree
      BY <3>1 DEF ValueTold
    <3> QED  BY <2>4, <3>2, FactsAre
  <2>5. CASE f = "config"
    <3>1. ~ValueTold(old, new, Event("config", new.config))
      BY <2>2, <2>3, <2>5, FactsAre
    <3>2. old.config = new.config
      BY <3>1 DEF ValueTold
    <3> QED  BY <2>5, <3>2, FactsAre
  <2>6. CASE f = "layouts"
    <3>1. ~ValueTold(old, new, Event("layouts", new.layouts))
      BY <2>2, <2>3, <2>6, FactsAre
    <3>2. old.layouts = new.layouts
      BY <3>1 DEF ValueTold
    <3> QED  BY <2>6, <3>2, FactsAre
  <2>7. f \in {"there", "box", "grab"} => (a = None <=> b = None)
    <3> SUFFICES ASSUME f \in {"there", "box", "grab"} PROVE a = None <=> b = None
      OBVIOUS
    <3>1. "created" \in Topics(f) /\ "dismissed" \in Topics(f)
      BY FactsAre
    <3>2. ~PopupTold(a, b, Event("created", b)) /\ ~PopupTold(a, b, Event("dismissed", None))
      BY <2>2, <2>3, <3>1
    <3> QED  BY <3>2 DEF PopupTold
  <2>8. CASE f = "there"
    BY <1>9, <2>7, <2>8, FactsAre
  <2>9. CASE f = "box"
    <3>1. ~PopupTold(a, b, Event("geometry", b.box))
      BY <2>2, <2>3, <2>9, FactsAre
    <3>2. a # None /\ b # None => a.box = b.box
      BY <3>1 DEF PopupTold
    <3> QED  BY <1>9, <2>7, <2>9, <3>2, FactsAre
  <2>10. CASE f = "grab"
    <3>1. ~PopupTold(a, b, Event("grab", b.grab))
      BY <2>2, <2>3, <2>10, FactsAre
    <3>2. a # None /\ b # None => a.grab = b.grab
      BY <3>1 DEF PopupTold
    <3> QED  BY <1>9, <2>7, <2>10, <3>2, FactsAre
  <2> QED  BY <2>4, <2>5, <2>6, <2>8, <2>9, <2>10 DEF Facts
<1> QED  BY <1>8, <1>11, <1>12

\* The messages about commands.
LEMMA CommandsTold ==
  ASSUME NEW s \in Seq(Outcomes), NEW p, p = [i \in DOMAIN s |-> Event("command", s[i])]
  PROVE  /\ p \in Seq(Notes) /\ Reported(p) = ToSet(s)
         /\ \A f \in Facts : Silent(f, p) /\ \A m : AllSay(f, p, m)
<1>1. DOMAIN s = 1..Len(s) /\ Len(s) \in Nat /\ \A i \in 1..Len(s) : s[i] \in Outcomes
  BY LenProperties, ElementOfSeq
<1>2. \A v \in Outcomes : Event("command", v) \in Notes /\ Event("command", v).topic = "command" /\ Event("command", v).value = v
  BY DEF Notes, Event
<1>3. DOMAIN p = DOMAIN s /\ \A i \in DOMAIN s : p[i] = Event("command", s[i])
  OBVIOUS
<1>4. \A i \in DOMAIN p : p[i] \in Notes /\ p[i].topic = "command" /\ p[i].value = s[i]
  BY <1>1, <1>2, <1>3
<1>5. p \in Seq(Notes)
  <2>1. p \in [1..Len(s) -> Notes]
    BY <1>1, <1>3, <1>4
  <2> QED  BY <1>1, <2>1, SeqDef
<1>6. Reported(p) = ToSet(s)
  BY <1>3, <1>4 DEF Reported, ToSet
<1>7. \A f \in Facts : "command" \notin Topics(f)
  BY FactsAre DEF Facts
<1> QED  BY <1>4, <1>5, <1>6, <1>7 DEF Silent, AllSay

\* More on the way, which leads from what was last said to what is so.
LEMMA LedOn ==
  ASSUME NEW old \in Snapshots, NEW new \in Snapshots,
         NEW p \in Seq(Notes \cup Answers), NEW q \in Seq(Notes \cup Answers),
         \A f \in Facts : AllSay(f, q, new) /\ (Silent(f, q) => Fact(f, new) = Fact(f, old)),
         ToSet(new.commands) \subseteq ToSet(old.commands) \cup Reported(q)
  PROVE  /\ (\A f \in Facts : LastSays(f, p, old)) => \A f \in Facts : LastSays(f, Joined(p, q), new)
         /\ \A m : Knows(m, p, old) => Knows(m, Joined(p, q), new)
<1>0. p \in Seq(Notes \cup Answers) /\ q \in Seq(Notes \cup Answers)
  OBVIOUS
<1>1. PICK r : r = Joined(p, q)
  OBVIOUS
<1>2. /\ \A f : Silent(f, r) <=> Silent(f, p) /\ Silent(f, q)
      /\ Reported(r) = Reported(p) \cup Reported(q)
  BY <1>1, SilentJoined
<1>3. ASSUME \A f \in Facts : LastSays(f, p, old), NEW f \in Facts PROVE LastSays(f, r, new)
  <2>1. CASE Silent(f, q)
    <3>1. LastSays(f, p, old) /\ Silent(f, q) /\ Fact(f, new) = Fact(f, old)
      BY <1>3, <2>1
    <3>2. LastSays(f, Joined(p, q), new)
      BY ONLY <1>0, <3>1, LastBeforeSilence
    <3> QED  BY <1>1, <3>2
  <2>2. CASE ~Silent(f, q)
    <3>1. AllSay(f, q, new) /\ ~Silent(f, q)
      BY <2>2
    <3>2. LastSays(f, Joined(p, q), new)
      BY ONLY <1>0, <3>1, LastOfNew
    <3> QED  BY <1>1, <3>2
  <2> QED  BY <2>1, <2>2
<1>4. ASSUME NEW m, Knows(m, p, old) PROVE Knows(m, r, new)
  <2>1. \A f \in Facts : Silent(f, r) => Fact(f, m) = Fact(f, new)
    BY <1>2, <1>4 DEF Knows
  <2>2. Silent("there", r) => m.popup \in {None} \cup Popups
    BY <1>2, <1>4 DEF Knows
  <2>3. ToSet(new.commands) \subseteq m.commands \cup Reported(r)
    BY <1>2, <1>4 DEF Knows
  <2> QED  BY <2>1, <2>2, <2>3 DEF Knows
<1> QED  BY <1>1, <1>3, <1>4

\* Replies and commands say nothing of the facts.
LEMMA NothingSaid ==
  ASSUME NEW p \in Seq(Notes \cup Answers), NEW q \in Seq(Notes \cup Answers), Replies(p),
         \A f \in Facts : Silent(f, q)
  PROVE  \A f \in Facts : \A m : LastSays(f, Joined(p, q), m)
<1>1. \A f \in Facts : "reply" \notin Topics(f)
  BY FactsAre DEF Facts
<1>2. \A f \in Facts : Silent(f, p)
  BY <1>1 DEF Replies, Silent
<1>3. PICK r : r = Joined(p, q)
  OBVIOUS
<1>4. \A f \in Facts : Silent(f, r)
  BY <1>2, <1>3, SilentJoined
<1> QED  BY <1>3, <1>4 DEF Silent, LastSays

LEMMA RenderHolds ==
  ASSUME ControlInv, Render
  PROVE  ControlInv'
<1>1. PICK new : new = Snapshot(world, config, layouts, history)
  OBVIOUS
<1>2. /\ stage = "render" /\ stage' \in {"stopped", "poll"} /\ scene' = scene /\ reloadFirst' = reloadFirst
      /\ conns' = conns /\ queue' = queue /\ mirror' = mirror /\ cache' = new /\ seen' = new
      /\ file' = file /\ notice' = notice /\ edits' = edits
      /\ watch' = watch /\ config' = config /\ layouts' = layouts /\ requests' = requests
      /\ startup' = startup /\ results' = results /\ history' = history /\ world' = world /\ changes' = changes
      /\ messages' = <<>>
  BY <1>1 DEF Render, disk
<1>3. ControlTyped /\ ConnsTrue /\ CommandsOnce /\ FileFollowed /\ MirrorFollows
  BY DEF ControlInv
<1>4. new \in Snapshots /\ new # None /\ new.commands = history.items
  <2>1. new = [tree |-> world.tree, popup |-> world.popup, config |-> config, layouts |-> layouts,
               commands |-> history.items]
    BY <1>1 DEF Snapshot
  <2>2. world.tree \in Nat /\ world.popup \in {None} \cup Popups
    BY <1>3 DEF ControlTyped, Worlds
  <2>3. config \in Configurations /\ layouts \in LayoutStates /\ history.items \in Seq(Outcomes)
    BY <1>3 DEF ControlTyped
  <2>4. new \in Snapshots
    BY <2>1, <2>2, <2>3 DEF Snapshots
  <2> QED  BY <2>1, <2>4, ControlConstants
<1>5. PICK C, D : /\ C = [i \in DOMAIN messages |-> Event("command", messages[i])]
                  /\ D = IF seen = None THEN <<>> ELSE PopupEvents(seen.popup, new.popup) \o ValueEvents(seen, new)
  OBVIOUS
<1>6. events' = Joined(C, D)
  BY <1>1, <1>5 DEF Render, Joined
<1>7. messages \in Seq(Outcomes) /\ cache \in Snapshots /\ seen \in {None, cache} /\ cache # None
  BY <1>3, ControlConstants DEF ControlTyped
<1>8. /\ C \in Seq(Notes) /\ Reported(C) = ToSet(messages)
      /\ \A f \in Facts : Silent(f, C) /\ \A m : AllSay(f, C, m)
  BY <1>5, <1>7, CommandsTold
<1>9. /\ D \in Seq(Notes)
      /\ seen = None => D = <<>>
      /\ seen # None => \A f \in Facts : AllSay(f, D, new) /\ (Silent(f, D) => Fact(f, new) = Fact(f, cache))
  <2>1. CASE seen = None
    BY <1>5, <2>1
  <2>2. CASE seen # None
    <3>1. D = PopupEvents(cache.popup, new.popup) \o ValueEvents(cache, new)
      BY <1>5, <1>7, <2>2
    <3>2. cache \in Snapshots /\ new \in Snapshots
      BY <1>4, <1>7
    <3>3. /\ D \in Seq(Notes)
          /\ \A f \in Facts : AllSay(f, D, new) /\ (Silent(f, D) => Fact(f, new) = Fact(f, cache))
      BY ONLY <3>1, <3>2, EventsLead
    <3> QED  BY <2>2, <3>3
  <2> QED  BY <2>1, <2>2
<1>10. PICK E : E = Joined(C, D)
  OBVIOUS
<1>11. C \in Seq(Notes) /\ D \in Seq(Notes)
  BY <1>8, <1>9
<1>12. /\ Joined(C, D) \in Seq(Notes) /\ ToSet(Joined(C, D)) = ToSet(C) \cup ToSet(D)
       /\ Reported(Joined(C, D)) = Reported(C) \cup Reported(D)
       /\ \A f : Silent(f, Joined(C, D)) <=> Silent(f, C) /\ Silent(f, D)
  <2>1. Joined(C, D) \in Seq(Notes)
    BY ONLY <1>11, JoinedIs
  <2>2. ToSet(Joined(C, D)) = ToSet(C) \cup ToSet(D)
    BY ONLY <1>11, JoinedMembers
  <2>3. /\ Reported(Joined(C, D)) = Reported(C) \cup Reported(D)
        /\ \A f : Silent(f, Joined(C, D)) <=> Silent(f, C) /\ Silent(f, D)
    BY ONLY <1>11, SilentJoined
  <2> QED  BY ONLY <2>1, <2>2, <2>3
<1>13. /\ E \in Seq(Notes) /\ ToSet(E) = ToSet(C) \cup ToSet(D)
       /\ ToSet(messages) \subseteq Reported(E)
       /\ \A f : Silent(f, E) <=> Silent(f, C) /\ Silent(f, D)
  BY ONLY <1>8, <1>10, <1>12
<1>14. seen # None => \A f \in Facts : AllSay(f, E, new) /\ (Silent(f, E) => Fact(f, new) = Fact(f, cache))
  <2>1. seen # None => \A f \in Facts : \A e \in ToSet(E) : e.topic \in Topics(f) => Says(f, e) = Fact(f, new)
    BY <1>8, <1>9, <1>13, ByMembers
  <2> QED  BY <1>9, <1>13, <2>1, ByMembers
<1>15. seen = None => \A f \in Facts : Silent(f, E)
  <2>1. \A f : Silent(f, <<>>)
    BY DEF Silent
  <2> QED  BY <1>8, <1>9, <1>13, <2>1
<1>16. E \in Seq(Notes \cup Answers)
  BY <1>13, SeqMonotonic
<1>17. PICK W : W = Way(conns["stream"])
  OBVIOUS
<1>18. W \in Seq(Notes \cup Answers)
  <2>1. conns["stream"] \in Peers
    BY <1>3, ControlConstants DEF ControlTyped
  <2> QED  BY <1>17, <2>1, WayTyped
<1>19. OnTheWay = W /\ OnTheWay' = Joined(W, E) /\ Replied' = Replied
  <2>1. events = <<>>
    BY <1>2, <1>3 DEF MirrorFollows
  <2>2. OnTheWay = Joined(W, <<>>)
    BY <1>17, <2>1 DEF OnTheWay
  <2>3. Joined(W, <<>>) = W
    BY ONLY <1>18, JoinedEmpty
  <2>4. events' = E
    BY <1>6, <1>10
  <2>5. OnTheWay' = Joined(W, E)
    BY <1>2, <1>17, <2>4 DEF OnTheWay
  <2>6. Replied' = Replied
    BY <1>2 DEF Replied
  <2> QED  BY <2>2, <2>3, <2>5, <2>6
<1>20. ToSet(new.commands) \subseteq ToSet(cache.commands) \cup Reported(E)
  BY <1>2, <1>3, <1>4, <1>13 DEF MirrorFollows
<1>21. seen # None =>
         /\ (\A f \in Facts : LastSays(f, W, cache)) => \A f \in Facts : LastSays(f, Joined(W, E), new)
         /\ \A m : Knows(m, W, cache) => Knows(m, Joined(W, E), new)
  BY <1>4, <1>7, <1>14, <1>16, <1>18, <1>20, LedOn
<1>22. ControlTyped'
  BY <1>2, <1>3, <1>4, <1>6, <1>10, <1>13 DEF ControlTyped
<1>23. ConnsTrue'
  BY <1>2, <1>3 DEF ConnsTrue
<1>24. CommandsOnce'
  <2>1. Awaited(conns, requests.commands)'
    BY <1>2, <1>3 DEF CommandsOnce, Awaited, HadResult
  <2>2. requests.commands = <<>>
    BY <1>2, <1>3 DEF CommandsOnce
  <2> QED  BY <1>2, <1>3, <2>1, <2>2 DEF CommandsOnce
<1>25. FileFollowed'
  BY <1>2, <1>3 DEF FileFollowed
<1>26. \A f \in Facts : LastSays(f, Joined(W, E), new)
  <2>1. CASE seen = None
    <3>1. Replies(W)
      BY <1>3, <1>19, <2>1 DEF MirrorFollows
    <3>2. \A f \in Facts : Silent(f, E)
      BY <1>15, <2>1
    <3> QED  BY ONLY <1>16, <1>18, <3>1, <3>2, NothingSaid
  <2>2. CASE seen # None
    <3>1. \A f \in Facts : LastSays(f, W, cache)
      BY <1>3, <1>19 DEF MirrorFollows
    <3> QED  BY <1>21, <2>2, <3>1
  <2> QED  BY <2>1, <2>2
<1>27. seen = None => mirror = None /\ Replied = <<>>
  <2> SUFFICES ASSUME seen = None PROVE mirror = None /\ Replied = <<>>
    OBVIOUS
  <2>1. mirror = None /\ conns["query"].link = "none"
    BY <1>3 DEF MirrorFollows
  <2>2. conns["query"] = Closed /\ conns["query"] \in Peers
    BY <1>3, <2>1, ControlConstants DEF ConnsTrue, PeerTrue, ControlTyped
  <2>3. conns["query"].out = <<>> /\ conns["query"].down = <<>>
    BY <2>2 DEF Closed
  <2>4. Way(conns["query"]) = <<>>
    BY <2>2, <2>3, WayTyped
  <2> QED  BY <2>1, <2>4 DEF Replied
<1>28. mirror # None => mirror = Mirror(mirror) /\ Knows(mirror, Joined(W, E), new)
  BY <1>3, <1>19, <1>21, <1>27 DEF MirrorFollows
<1>29. \A i \in DOMAIN Replied :
         /\ Replied[i].topic = "reply" /\ Replied[i].value \in Snapshots
         /\ Knows(Known1(Replied[i].value), Joined(W, E), new)
  <2> SUFFICES ASSUME NEW i \in DOMAIN Replied
               PROVE  /\ Replied[i].topic = "reply" /\ Replied[i].value \in Snapshots
                      /\ Knows(Known1(Replied[i].value), Joined(W, E), new)
    OBVIOUS
  <2>1. seen # None
    BY <1>27
  <2>2. /\ Replied[i].topic = "reply" /\ Replied[i].value \in Snapshots
        /\ Knows(Known1(Replied[i].value), W, cache)
    BY <1>3, <1>19 DEF MirrorFollows
  <2> QED  BY <1>21, <2>1, <2>2
<1>30. MirrorFollows'
  <2>1. \A f \in Facts : LastSays(f, OnTheWay', cache')
    BY <1>2, <1>19, <1>26
  <2>2. mirror' # None => mirror' = Mirror(mirror') /\ Knows(mirror', OnTheWay', cache')
    BY <1>2, <1>19, <1>28
  <2>3. \A i \in DOMAIN Replied' : /\ Replied'[i].topic = "reply" /\ Replied'[i].value \in Snapshots
                                   /\ Knows(Known1(Replied'[i].value), OnTheWay', cache')
    BY <1>2, <1>19, <1>29
  <2>4. \A c \in Others : Replies(Way(conns'[c]))
    BY <1>2, <1>3 DEF MirrorFollows
  <2>5. seen' # None /\ stage' \notin {"mid", "shell", "render"}
    BY <1>2, <1>4
  <2>6. /\ conns'["query"].link # "none" => conns'["stream"].asks = "answered"
        /\ mirror' # None => conns'["query"].done /\ Replied' = <<>>
        /\ Len(Replied') <= 1
    BY <1>2, <1>3, <1>19 DEF MirrorFollows
  <2>7. cache'.commands = history'.items /\ messages' = <<>>
    BY <1>2, <1>4
  <2> QED  BY <2>1, <2>2, <2>3, <2>4, <2>5, <2>6, <2>7 DEF MirrorFollows
<1> QED  BY <1>22, <1>23, <1>24, <1>25, <1>30 DEF ControlInv

-----------------------------------------------------------------------------
(* ControlPlane: the theorems.                                             *)

LEMMA ControlInitial == Init => ControlInv
<1> SUFFICES ASSUME Init PROVE ControlInv
  OBVIOUS
<1>1. /\ scene \in Scenes /\ reloadFirst \in BOOLEAN /\ stage = "poll"
      /\ conns = [c \in Conns |-> Closed] /\ queue = <<>> /\ events = <<>> /\ mirror = None
      /\ file = [kind |-> "good", v |-> 1] /\ notice = FALSE /\ edits = 0 /\ watch = FALSE
      /\ config = [v |-> 1, error |-> None] /\ layouts = LayoutsOf(1)
      /\ requests = [reload |-> FALSE, quit |-> FALSE, commands |-> <<>>, controls |-> 0]
      /\ messages = <<>> /\ results = <<>> /\ history = [limit |-> Configs[1].limit, items |-> <<>>]
      /\ world = [tree |-> 0, popup |-> None] /\ changes = 0
      /\ cache = Snapshot(world, config, layouts, history) /\ seen = None
  BY DEF Init
<1>2. startup \in StartupStates /\ ~startup.queued
  <2>1. startup \in [queued : {FALSE}, xwayland : scene.xwayland] /\ scene.xwayland \subseteq {"off", "starting"}
    BY ScenesAssumption DEF Init
  <2> QED  BY <2>1 DEF StartupStates
<1>3. Closed \in Peers /\ \A c \in Conns : PeerTrue(Closed, c)
  <2>1. <<>> \in Seq(Notes \cup Answers) /\ Len(<<>>) = 0 /\ 0 <= Capacity
    BY ControlConstants
  <2>2. /\ Closed.link = "none" /\ Closed.asks = None /\ Closed.sent = "nothing" /\ ~Closed.eof /\ Closed.reads
        /\ ~Closed.done /\ ~Closed.subscribed /\ Closed.out = <<>> /\ Closed.down = <<>>
    BY DEF Closed
  <2>3. Closed \in Peers
    BY <2>1 DEF Closed, Peers
  <2>4. \A c \in Conns : PeerTrue(Closed, c)
    BY <2>1, <2>2, ControlConstants DEF PeerTrue
  <2> QED  BY <2>3, <2>4
<1>4. \A c \in Conns : conns[c] = Closed
  BY <1>1
<1>5. layouts \in LayoutStates /\ layouts.names = Configs[1].layouts
  <2>1. 1 \in DOMAIN Configs /\ \E i \in DOMAIN Configs[1].layouts : Configs[1].layouts[i] = Configs[1].current
    BY ConfigsSound
  <2>2. PICK i : i = Position(Configs[1].layouts, Configs[1].current)
    OBVIOUS
  <2>3. i \in DOMAIN Configs[1].layouts
    BY <2>1, <2>2, PositionFound
  <2>4. layouts = [names |-> Configs[1].layouts, active |-> i]
    BY <1>1, <2>2 DEF LayoutsOf
  <2> QED  BY <2>1, <2>3, <2>4, LayoutStateIs
<1>6. config \in Configurations /\ file \in ConfigFiles /\ world \in Worlds /\ requests \in Requested
  BY <1>1, ConfigsSound DEF Configurations, ConfigFiles, Worlds, Requested
<1>7. history \in [limit : Nat, items : Seq(Outcomes)] /\ history.items = <<>>
  BY <1>1, ConfigsSound
<1>8. cache \in Snapshots /\ cache.commands = <<>>
  <2>1. cache = [tree |-> 0, popup |-> None, config |-> config, layouts |-> layouts, commands |-> <<>>]
    BY <1>1 DEF Snapshot
  <2>2. <<>> \in Seq(Outcomes)
    OBVIOUS
  <2> QED  BY <1>5, <1>6, <2>1, <2>2 DEF Snapshots
<1>9. ControlTyped
  <2>1. conns \in [Conns -> Peers]
    BY <1>1, <1>3
  <2>2. queue \in Seq(Conns) /\ events \in Seq(Notes) /\ messages \in Seq(Outcomes) /\ results \in Seq(Outcomes)
    BY <1>1
  <2>3. /\ scene \in Scenes /\ reloadFirst \in BOOLEAN /\ stage \in {"poll", "mid", "shell", "render", "stopped"}
        /\ notice \in BOOLEAN /\ watch \in BOOLEAN /\ seen \in {None, cache} /\ changes \in Nat /\ edits \in Nat
    BY <1>1
  <2> QED  BY <1>2, <1>5, <1>6, <1>7, <1>8, <2>1, <2>2, <2>3 DEF ControlTyped
<1>10. ConnsTrue
  <2>1. ToSet(queue) = {}
    BY <1>1 DEF ToSet
  <2>2. \A c \in Conns : conns[c].link # "kept"
    BY <1>4 DEF Closed
  <2> QED  BY <1>1, <1>3, <1>4, <2>1, <2>2 DEF ConnsTrue
<1>11. CommandsOnce
  <2>1. DOMAIN results = {} /\ DOMAIN requests.commands = {}
    BY <1>1
  <2>2. \A c \in Others : ~Launches(conns[c])
    BY <1>4, ControlConstants DEF Closed, Launches
  <2>3. Awaited(conns, requests.commands)
    BY <2>1, <2>2 DEF Awaited, HadResult
  <2>4. Len(history.items) <= history.limit
    BY <1>1, <1>7, ConfigsSound
  <2>5. \E n \in 0..Len(results) : history.items = SubSeq(results, n + 1, Len(results))
    <3>1. results = <<>> /\ Len(<<>>) = 0 /\ SubSeq(<<>>, 0 + 1, 0) = <<>>
      BY <1>1
    <3> QED  BY <1>7, <3>1
  <2> QED  BY <1>1, <1>2, <2>1, <2>3, <2>4, <2>5 DEF CommandsOnce
<1>12. FileFollowed
  BY <1>1, <1>5 DEF FileFollowed
<1>13. MirrorFollows
  <2>1. \A c \in Conns : Way(conns[c]) = <<>>
    BY <1>3, <1>4, WayTyped DEF Closed
  <2>2. <<>> \in Seq(Notes \cup Answers)
    OBVIOUS
  <2>3. Joined(<<>>, <<>>) = <<>>
    BY ONLY <2>2, JoinedEmpty
  <2>4. OnTheWay = <<>> /\ Replied = <<>>
    BY <1>1, <2>1, <2>3, ControlConstants DEF OnTheWay, Replied
  <2>5. /\ \A f, m : LastSays(f, <<>>, m)
        /\ Replies(<<>>) /\ DOMAIN <<>> = {} /\ Len(<<>>) = 0
    BY DEF LastSays, Replies
  <2>6. \A c \in Others : Replies(Way(conns[c]))
    BY <2>1, <2>5, ControlConstants
  <2>7. conns["query"].link = "none" /\ conns["stream"].asks # "answered" /\ ~conns["stream"].done
    BY <1>4, ControlConstants DEF Closed
  <2> QED  BY <1>1, <1>7, <1>8, <2>4, <2>5, <2>6, <2>7 DEF MirrorFollows
<1> QED  BY <1>9, <1>10, <1>11, <1>12, <1>13 DEF ControlInv

LEMMA ControlKept == ControlInv /\ [Next]_vars => ControlInv'
<1> SUFFICES ASSUME ControlInv, [Next]_vars PROVE ControlInv'
  OBVIOUS
<1>1. ASSUME NEW c \in Conns, NEW request \in scene.requests \cup {"subscribe", "query"}, Connect(c, request)
      PROVE  ControlInv'
  BY <1>1, ConnectHolds
<1>2. ASSUME NEW c \in Conns, NEW amount \in {"part", "bare", "line"}, Send(c, amount) PROVE ControlInv'
  BY <1>2, SendHolds
<1>3. ASSUME NEW c \in Conns, NEW reading \in BOOLEAN, Shut(c, reading) PROVE ControlInv'
  BY <1>3, ShutHolds
<1>4. ASSUME NEW c \in Conns, Read(c) PROVE ControlInv'
  BY <1>4, ReadHolds
<1>5. ASSUME NEW kind \in {"good", "invalid", "unreadable"}, NEW v \in DOMAIN Configs, Edit(kind, v) PROVE ControlInv'
  BY <1>5, EditHolds
<1>6. ASSUME NEW outcome \in {"ready", "failed"}, XWayland(outcome) PROVE ControlInv'
  BY <1>6, XWaylandHolds
<1>7. CASE Notified
  BY <1>7, NotifiedHolds
<1>8. CASE Accept
  BY <1>8, AcceptHolds
<1>9. CASE Flush
  BY <1>9, FlushHolds
<1>10. CASE Shell
  BY <1>10, ShellHolds
<1>11. CASE Render
  BY <1>11, RenderHolds
<1>12. CASE Stopped \/ UNCHANGED vars
  BY <1>12, StutterHolds DEF Stopped
<1> QED  BY <1>1, <1>2, <1>3, <1>4, <1>5, <1>6, <1>7, <1>8, <1>9, <1>10, <1>11, <1>12 DEF Next

\* What the control plane keeps true in every state: what each connection was asked and answered,
\* what is on the way to the subscriber and what it will know when it has read it, what was
\* accepted and has had its result, and what a reload has still to look at.
THEOREM ControlInvariant == Spec => []ControlInv
<1>1. Init => ControlInv
  BY ControlInitial
<1>2. ControlInv /\ [Next]_vars => ControlInv'
  BY ControlKept
<1> QED  BY <1>1, <1>2, PTL DEF Spec

LEMMA ControlIsTrue == ControlInv => ControlTrue
<1> SUFFICES ASSUME ControlInv PROVE ControlTrue
  OBVIOUS
<1>1. ControlTyped /\ ConnsTrue /\ CommandsOnce /\ FileFollowed /\ MirrorFollows
  BY DEF ControlInv
<1>2. TypeOK
  <2>1. \A c \in Conns : conns[c] \in Peers /\ Len(conns[c].down) <= Capacity
    BY <1>1 DEF ControlTyped, ConnsTrue, PeerTrue
  <2> QED  BY <1>1, <2>1 DEF ControlTyped, TypeOK, Peers
<1>3. Mirrors
  <2> SUFFICES ASSUME stage = "poll", mirror # None, events = <<>>,
                      conns["stream"].out = <<>>, conns["stream"].down = <<>>
               PROVE  /\ <<mirror.tree, mirror.popup, mirror.config, mirror.layouts>>
                           = <<cache.tree, cache.popup, cache.config, cache.layouts>>
                      /\ ToSet(cache.commands) \subseteq mirror.commands
    BY DEF Mirrors
  <2>1. conns["stream"] \in Peers
    BY <1>1, ControlConstants DEF ControlTyped
  <2>2. Way(conns["stream"]) = <<>>
    BY <2>1, WayTyped
  <2>3. <<>> \in Seq(Notes \cup Answers)
    OBVIOUS
  <2>4. Joined(<<>>, <<>>) = <<>>
    BY ONLY <2>3, JoinedEmpty
  <2>5. OnTheWay = <<>>
    BY <2>2, <2>4 DEF OnTheWay
  <2>6. \A f : Silent(f, <<>>)
    BY DEF Silent
  <2>7. Reported(<<>>) = {}
    BY DEF Reported
  <2>8. Knows(mirror, <<>>, cache)
    BY <1>1, <2>5 DEF MirrorFollows
  <2>9. /\ \A f \in Facts : Fact(f, mirror) = Fact(f, cache)
        /\ mirror.popup \in {None} \cup Popups
        /\ ToSet(cache.commands) \subseteq mirror.commands
    BY <2>6, <2>7, <2>8 DEF Knows
  <2>10. cache.popup \in {None} \cup Popups
    BY <1>1 DEF ControlTyped, Snapshots
  <2>11. /\ Fact("tree", mirror) = Fact("tree", cache) /\ Fact("config", mirror) = Fact("config", cache)
         /\ Fact("layouts", mirror) = Fact("layouts", cache) /\ Fact("there", mirror) = Fact("there", cache)
         /\ Fact("box", mirror) = Fact("box", cache) /\ Fact("grab", mirror) = Fact("grab", cache)
    BY <2>9 DEF Facts
  <2>12. mirror.tree = cache.tree /\ mirror.config = cache.config /\ mirror.layouts = cache.layouts
    BY <2>11, FactsAre
  <2>13. mirror.popup = cache.popup
    <3>1. PICK a, b : a = mirror.popup /\ b = cache.popup
      OBVIOUS
    <3>2. a = None <=> b = None
      BY <2>11, <3>1, FactsAre
    <3>3. a # None => a.box = b.box /\ a.grab = b.grab
      BY <2>11, <3>1, <3>2, FactsAre
    <3>4. a \in {None} \cup Popups /\ b \in {None} \cup Popups
      BY <2>9, <2>10, <3>1
    <3>5. a = b
      BY <3>2, <3>3, <3>4 DEF Popups
    <3> QED  BY <3>1, <3>5
  <2> QED  BY <2>9, <2>12, <2>13
<1>4. Delivered
  BY <1>1 DEF ConnsTrue, PeerTrue, Delivered
<1>5. ReportedOnce
  <2>1. \A i \in DOMAIN results : results[i].origin = "startup" => startup.xwayland \in {"off", "ready"}
    BY <1>1 DEF CommandsOnce
  <2>2. ASSUME stage = "poll", NEW c \in Others, Launches(conns[c]) PROVE \E i \in DOMAIN results : results[i].origin = c
    <3>1. DOMAIN requests.commands = {}
      BY <1>1, <2>2 DEF CommandsOnce
    <3> QED  BY <1>1, <2>2, <3>1 DEF CommandsOnce, Awaited, HadResult
  <2> QED  BY <1>1, <2>1, <2>2 DEF CommandsOnce, ReportedOnce, Launches
<1>6. ReloadSettles
  BY <1>1 DEF FileFollowed, ReloadSettles
<1> QED  BY <1>2, <1>3, <1>4, <1>5, <1>6 DEF ControlTrue

\* Subscribers follow the snapshot however slowly they read, no connection is dropped before its
\* reply is out, each accepted command has one result, and what is in the file is in force when no
\* notification is left (IpcConnection::pump, subscription_dispatch_system, hot_reload_system).
THEOREM ControlAlwaysTrue == Spec => []ControlTrue
BY ControlInvariant, ControlIsTrue, PTL

LEMMA LayoutSteps ==
  ASSUME ControlInv, [Next]_vars
  PROVE  [LET name  == layouts.names[layouts.active]
              Asked1 == \E c \in Others : conns[c].asks = "next" /\ ~conns[c].done /\ conns'[c].done
          IN  ~Asked1 => \/ layouts'.names[layouts'.active] = name
                         \/ /\ name \notin ToSet(layouts'.names)
                            /\ layouts'.names[layouts'.active] = Configs[config'.v].current]_vars
<1>1. CASE Accept
  <2>1. PICK s : Becomes(s) /\ (StaysInUse(layouts, s) \/ NextAsked(State, s))
    BY <1>1, AcceptIs
  <2> QED  BY <2>1 DEF Becomes, StaysInUse, InUse, NextAsked, State
<1>2. CASE Flush
  <2>1. events = <<>>
    BY <1>2 DEF ControlInv, MirrorFollows, Flush
  <2>2. PICK s : Becomes(s) /\ (StaysInUse(layouts, s) \/ NextAsked(State, s))
    BY <1>2, <2>1, FlushIs
  <2> QED  BY <2>2 DEF Becomes, StaysInUse, InUse, NextAsked, State
<1>3. CASE ~Accept /\ ~Flush
  <2>1. layouts' = layouts
    BY <1>3 DEF Next, Connect, Send, Shut, Read, Edit, XWayland, Notified, Shell, Render, Stopped, Outside, vars
  <2> QED  BY ONLY <2>1
<1> QED  BY <1>1, <1>2, <1>3

\* Only a request for the next layout changes the one in use: a reload keeps it while it exists
\* and falls back to the configured one otherwise (apply_layouts, hot_reload_system).
THEOREM LayoutKeptAlways == Spec => LayoutKept
<1>1. ControlInv /\ [Next]_vars =>
        [LET name  == layouts.names[layouts.active]
             Asked1 == \E c \in Others : conns[c].asks = "next" /\ ~conns[c].done /\ conns'[c].done
         IN  ~Asked1 => \/ layouts'.names[layouts'.active] = name
                        \/ /\ name \notin ToSet(layouts'.names)
                           /\ layouts'.names[layouts'.active] = Configs[config'.v].current]_vars
  BY LayoutSteps
<1> QED  BY <1>1, ControlInvariant, PTL DEF Spec, LayoutKept
=============================================================================
