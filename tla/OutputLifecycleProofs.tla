----------------------- MODULE OutputLifecycleProofs -----------------------
(***************************************************************************)
(* What holds of the outputs whatever the connectors, the configurations   *)
(* and the commands: a connector has one output at most, an output goes    *)
(* only if it was turned off, and one that comes back shows what it showed. *)
(***************************************************************************)
EXTENDS Displays, TLAPS, SequenceTheorems, FiniteSetTheorems, WellFoundedInduction

-----------------------------------------------------------------------------
(* The inductive invariant.                                                *)

\* An output, an announcement or a command that is a connector's bears its name.
Alike(e) == e.owner \in Connectors => e.name = e.owner

\* The outputs there are: a connector has at most one.
OutputsOnce ==
  /\ IsFiniteSet(DOMAIN outs)
  /\ \A s \in DOMAIN outs : Alike(outs[s])
  /\ \A s, t \in DOMAIN outs :
       outs[s].owner = outs[t].owner /\ outs[s].owner \in Connectors => s = t
  /\ \A o \in seen : Alike(o)

\* A plan announces a connector once, and disconnects one only if it was turned off.
SoundChange ==
  {c \in Change : /\ Alike(c)
                  /\ c.change = "disconnected" /\ c.owner \in Connectors => c.name \in turnedOff}
OnceEach(plan) ==
  \A i, j \in DOMAIN plan :
    /\ plan[i].change = "connected" /\ plan[j].change = "connected"
    /\ plan[i].owner = plan[j].owner /\ plan[i].owner \in Connectors
    => i = j
PlansSound ==
  /\ events \in Seq(SoundChange) /\ OnceEach(events)
  /\ ingress.lifecycle \in Seq(SoundChange) /\ OnceEach(ingress.lifecycle)

\* Whoever disables an output has turned it off.
FoundedRequest == {r \in Request : r.op = "disable" => r.name \in turnedOff}
FoundedControl == {c \in Control : c.enabled = FALSE => c.name \in turnedOff}
RequestsFounded ==
  /\ mainRequests \in Seq(FoundedRequest) /\ cmds \in Seq(FoundedRequest)
  /\ requests \in Seq(FoundedRequest)
  /\ controls \in Seq(FoundedControl) /\ deferredControls \in Seq(FoundedControl)

\* A queued spawn is the only one that will give its connector an output, in a slot no
\* other command names, and shows what was there last.
SpawnSound(i) ==
  /\ commands[i].slot \notin DOMAIN outs
  /\ \A j \in DOMAIN commands : commands[j].slot = commands[i].slot => j = i
  /\ Alike(commands[i].output)
  /\ commands[i].output.viewport = lastViewport[commands[i].output.name]
  /\ commands[i].output.owner \in Connectors =>
       /\ \A s \in DOMAIN outs : outs[s].owner # commands[i].output.owner
       /\ \A j \in DOMAIN commands :
            commands[j].op = "spawn" /\ commands[j].output.owner = commands[i].output.owner
              => j = i
       /\ \A k \in DOMAIN ingress.lifecycle :
            ~ (/\ ingress.lifecycle[k].change = "connected"
               /\ ingress.lifecycle[k].owner = commands[i].output.owner)

\* An insert keeps a connector's output its own, a despawn takes what was turned off.
InsertSound(i) ==
  commands[i].slot \in DOMAIN outs /\ outs[commands[i].slot].owner \in Connectors
    => commands[i].name = outs[commands[i].slot].owner
DespawnSound(i) ==
  commands[i].slot \in DOMAIN outs /\ outs[commands[i].slot].owner \in Connectors
    => outs[commands[i].slot].owner \in turnedOff

CommandsSound ==
  /\ stage # "materialize" => commands = <<>>
  /\ \A i \in DOMAIN commands :
       /\ commands[i].op = "spawn" => SpawnSound(i)
       /\ commands[i].op = "insert" => InsertSound(i)
       /\ commands[i].op = "despawn" => DespawnSound(i)

\* What is remembered of an output is what it showed last.
MemoryTrue == \A n \in Names : Restored(n) = lastViewport[n]

IInv ==
  /\ TypeOK /\ OutputsOnce /\ PlansSound /\ RequestsFounded /\ CommandsSound /\ MemoryTrue

-----------------------------------------------------------------------------
(* Sequences and numbers.                                                  *)

\* A sequence of one element.
LEMMA Single ==
  ASSUME NEW S, NEW e \in S
  PROVE  <<e>> \in Seq(S) /\ Len(<<e>>) = 1 /\ <<e>>[1] = e
OBVIOUS

\* A function on the first numbers is a sequence.
LEMMA FunctionIsSeq ==
  ASSUME NEW S, NEW n \in Nat, NEW f \in [1 .. n -> S]
  PROVE  f \in Seq(S) /\ Len(f) = n
OBVIOUS

\* Sequences may be joined.
LEMMA Joined ==
  ASSUME NEW S, NEW s \in Seq(S), NEW t \in Seq(S)
  PROVE  s \o t \in Seq(S)
BY ConcatProperties

\* Induction over the natural numbers, for a set.
LEMMA NatSetInduction ==
  ASSUME NEW T, T \subseteq Nat, 0 \in T, \A n \in T : n + 1 \in T
  PROVE  T = Nat
<1>1. SUFFICES ASSUME Nat \ T # {} PROVE FALSE
  OBVIOUS
<1>2. PICK m \in Nat \ T : \A k \in Nat \ T : ~ (<<k, m>> \in OpToRel(<, Nat))
  BY <1>1, NatLessThanWellFounded, WFMin
<1>3. m \in Nat /\ m # 0 /\ m \notin T
  BY <1>2
<1>4. m - 1 \in Nat /\ (m - 1) + 1 = m /\ m - 1 < m
  BY <1>3
<1>5. m - 1 \in T
  BY <1>2, <1>4 DEF OpToRel
<1>6. QED
  BY <1>3, <1>4, <1>5

\* joined are the sequences of parts up to n, one after the other.
JoinedBy(joined, parts, N) ==
  joined = [n \in 0 .. N |-> IF n = 0 THEN <<>> ELSE joined[n - 1] \o parts[n]]
Joins(joined, S, parts, N) == joined \in [0 .. N -> Seq(S)] /\ JoinedBy(joined, parts, N)
Joinable(S, parts, N) == \E joined : Joins(joined, S, parts, N)

LEMMA JoinedValues ==
  ASSUME NEW N \in Nat, NEW parts, NEW f, JoinedBy(f, parts, N)
  PROVE  /\ f[0] = <<>>
         /\ \A n \in 1 .. N : f[n] = f[n - 1] \o parts[n]
<1> DEFINE g == [n \in 0 .. N |-> IF n = 0 THEN <<>> ELSE f[n - 1] \o parts[n]]
<1>1. f = g
  BY DEF JoinedBy
<1>2. g[0] = <<>>
  OBVIOUS
<1>3. ASSUME NEW n \in 1 .. N PROVE g[n] = f[n - 1] \o parts[n]
  <2>1. n \in 0 .. N /\ n # 0
    OBVIOUS
  <2>2. QED
    BY <2>1
<1> HIDE DEF g
<1>4. QED
  BY <1>1, <1>2, <1>3

LEMMA JoinsExist ==
  ASSUME NEW S, NEW N \in Nat, NEW parts \in [1 .. N -> Seq(S)]
  PROVE  Joinable(S, parts, N)
<1> DEFINE T == {k \in Nat : k <= N => Joinable(S, parts, k)}
<1>1. 0 \in T
  <2> DEFINE g == [n \in 0 .. 0 |-> <<>>]
  <2>1. g \in [0 .. 0 -> Seq(S)]
    OBVIOUS
  <2>2. g = [n \in 0 .. 0 |-> IF n = 0 THEN <<>> ELSE g[n - 1] \o parts[n]]
    OBVIOUS
  <2>3. QED
    BY <2>1, <2>2 DEF Joins, JoinedBy, Joinable
<1>2. ASSUME NEW k \in T PROVE k + 1 \in T
  <2>1. SUFFICES ASSUME k + 1 <= N PROVE Joinable(S, parts, k + 1)
    OBVIOUS
  <2>2. k \in Nat /\ k <= N /\ Joinable(S, parts, k)
    BY <1>2, <2>1
  <2>3. PICK f : Joins(f, S, parts, k)
    BY <2>2 DEF Joinable
  <2> DEFINE last == f[k] \o parts[k + 1]
             g == [n \in 0 .. k + 1 |-> IF n = k + 1 THEN last ELSE f[n]]
  <2>4. f \in [0 .. k -> Seq(S)] /\ f[k] \in Seq(S) /\ parts[k + 1] \in Seq(S)
    BY <2>1, <2>2, <2>3 DEF Joins
  <2>5. last \in Seq(S)
    BY <2>4, Joined
  <2>6. g \in [0 .. k + 1 -> Seq(S)]
    <3> HIDE DEF last
    <3>1. QED
      BY <2>2, <2>4, <2>5
  <2>10. f[0] = <<>> /\ \A n \in 1 .. k : f[n] = f[n - 1] \o parts[n]
    BY <2>2, <2>3, JoinedValues DEF Joins
  <2>7. ASSUME NEW n \in 0 .. k + 1
        PROVE  g[n] = IF n = 0 THEN <<>> ELSE g[n - 1] \o parts[n]
    <3>1. CASE n = k + 1
      <4>1. n # 0 /\ n - 1 = k /\ n - 1 \in 0 .. k + 1 /\ n - 1 # k + 1
        BY <2>2, <3>1
      <4>2. g[n] = last /\ g[n - 1] = f[k]
        BY <3>1, <4>1
      <4>3. QED
        BY <3>1, <4>1, <4>2
    <3>2. CASE n # k + 1
      <4>1. n = 0 \/ n \in 1 .. k
        BY <2>2, <2>7, <3>2
      <4>2. n # 0 => n - 1 \in 0 .. k + 1 /\ n - 1 # k + 1
        BY <2>2, <2>7, <3>2
      <4>3. g[n] = f[n] /\ (n # 0 => g[n - 1] = f[n - 1])
        BY <3>2, <4>2
      <4> HIDE DEF g
      <4>4. QED
        BY <2>10, <4>1, <4>3
    <3>3. QED
      BY <3>1, <3>2
  <2>8. g = [n \in 0 .. k + 1 |-> IF n = 0 THEN <<>> ELSE g[n - 1] \o parts[n]]
    <3>1. g = [n \in 0 .. k + 1 |-> g[n]]
      OBVIOUS
    <3> HIDE DEF g
    <3>2. QED
      BY <2>7, <3>1
  <2>9. QED
    BY <2>6, <2>8 DEF Joins, JoinedBy, Joinable
<1>3. T = Nat
  BY <1>1, <1>2, NatSetInduction
<1>4. QED
  BY <1>3

\* Whatever function joins the parts of a sequence, it does so with sequences.
LEMMA JoinedParts ==
  ASSUME NEW S, NEW N \in Nat, NEW parts \in [1 .. N -> Seq(S)],
         NEW f, JoinedBy(f, parts, N)
  PROVE  f[N] \in Seq(S)
<1> DEFINE T == {k \in Nat : k <= N => f[k] \in Seq(S)}
<1>1. f[0] = <<>> /\ \A n \in 1 .. N : f[n] = f[n - 1] \o parts[n]
  BY JoinedValues
<1>2. 0 \in T
  BY <1>1, EmptySeq
<1>3. ASSUME NEW k \in T PROVE k + 1 \in T
  <2>1. SUFFICES ASSUME k + 1 <= N PROVE f[k + 1] \in Seq(S)
    OBVIOUS
  <2>2. /\ k \in Nat /\ f[k] \in Seq(S) /\ parts[k + 1] \in Seq(S)
        /\ k + 1 \in 1 .. N /\ (k + 1) - 1 = k
    BY <1>3, <2>1
  <2>3. f[k + 1] = f[k] \o parts[k + 1]
    BY <1>1, <2>2
  <2>4. QED
    BY <2>2, <2>3, Joined
<1>4. T = Nat
  BY <1>2, <1>3, NatSetInduction
<1>5. QED
  BY <1>4

\* The elements of a finite set in a row.
LEMMA SetToSeqIs ==
  ASSUME NEW S, IsFiniteSet(S)
  PROVE  /\ SetToSeq(S) \in [1 .. Cardinality(S) -> S]
         /\ Cardinality(S) \in Nat
<1> DEFINE n == Cardinality(S)
<1>1. n \in Nat /\ ExistsBijection(1 .. n, S)
  BY FS_CardinalityType
<1>2. PICK g \in [1 .. n -> S] : IsInjective(g)
  BY <1>1 DEF ExistsBijection, Bijection, Injection
<1>3. QED
  BY <1>1, <1>2 DEF SetToSeq

\* Among the first numbers there is one more than any finite set has.
LEMMA FreshNumber ==
  ASSUME NEW S, IsFiniteSet(S)
  PROVE  \E s \in 1 .. Cardinality(S) + 1 : s \notin S
<1>1. Cardinality(S) \in Nat
  BY FS_CardinalityType
<1> DEFINE N == Cardinality(S) + 1
<1>2. IsFiniteSet(1 .. N) /\ Cardinality(1 .. N) = N
  BY <1>1, FS_Interval
<1>3. ASSUME 1 .. N \subseteq S PROVE FALSE
  <2>1. Cardinality(1 .. N) <= Cardinality(S)
    BY <1>3, FS_Subset
  <2>2. QED
    BY <1>1, <1>2, <2>1
<1>4. QED
  BY <1>3

-----------------------------------------------------------------------------
(* Types.                                                                  *)

\* Where names and owners come from.
LEMMA NamesAre ==
  /\ Connectors \subseteq Names /\ Connectors \subseteq Owners /\ IsFiniteSet(Connectors)
  /\ Virtual => Primary \in Owners
  /\ Primary \notin Connectors
  /\ Fallback \in Names
<1>1. Connectors \subseteq Names /\ Connectors \subseteq Owners
  BY DEF Names, Owners
<1>2. IsFiniteSet(Connectors)
  BY <1>1, FiniteNames, FS_Subset
<1>3. QED
  BY <1>1, <1>2, NamesType, OwnersType DEF Names, Owners

\* What a resumed session announces: every connector once, and nothing else.
LEMMA AnnouncedSound ==
  ASSUME NEW announced \in Announcement
  PROVE  /\ announced \in Seq(SoundChange)
         /\ OnceEach(announced)
         /\ \A i \in DOMAIN announced : announced[i].owner \in Connectors
<1>1. CASE announced = <<>>
  BY <1>1, EmptySeq DEF OnceEach
<1>2. CASE announced # <<>>
  <2> DEFINE n == Cardinality(Connectors)
  <2>1. PICK order \in SetToSeqs(Connectors) :
               announced = [i \in DOMAIN order |-> Connected(order[i], order[i], Preferred)]
    BY <1>2 DEF Announcement
  <2>2. n \in Nat
    BY NamesAre, FS_CardinalityType
  <2>3. /\ order \in [1 .. n -> Connectors]
        /\ \A i, j \in 1 .. n : i # j => order[i] # order[j]
    BY <2>1 DEF SetToSeqs
  <2> HIDE DEF n
  <2>4. DOMAIN announced = 1 .. n
        /\ \A i \in 1 .. n : announced[i] = Connected(order[i], order[i], Preferred)
    BY <2>1, <2>3
  <2>5. \A c \in Connectors : Connected(c, c, Preferred) \in SoundChange
    BY NamesAre, ModesType DEF Connected, SoundChange, Change, Alike
  <2>6. announced \in [1 .. n -> SoundChange]
    <3>1. announced = [i \in 1 .. n |-> Connected(order[i], order[i], Preferred)]
      BY <2>1, <2>3
    <3>2. \A i \in 1 .. n : Connected(order[i], order[i], Preferred) \in SoundChange
      BY <2>3, <2>5
    <3> HIDE DEF n
    <3>3. QED
      BY <3>1, <3>2
  <2>7. announced \in Seq(SoundChange)
    BY <2>2, <2>6, FunctionIsSeq
  <2>8. \A i \in 1 .. n : announced[i].owner = order[i] /\ order[i] \in Connectors
    BY <2>3, <2>4 DEF Connected
  <2>9. OnceEach(announced)
    BY <2>3, <2>4, <2>8 DEF OnceEach
  <2>10. QED
    BY <2>4, <2>7, <2>8, <2>9
<1>3. QED
  BY <1>1, <1>2

LEMMA DesiredNamed ==
  ASSUME TypeOK, NEW pending
  PROVE  DesiredName(pending) \in Names
<1>1. config \in Seq(ConfiguredOutput)
  BY ConfigsType DEF TypeOK
<1>2. \A i \in DOMAIN config : config[i].name \in Names
  <2>1. DOMAIN config = 1 .. Len(config)
    BY <1>1, LenProperties
  <2>2. \A i \in 1 .. Len(config) : config[i] \in ConfiguredOutput
    BY <1>1, ElementOfSeq
  <2>3. QED
    BY <2>1, <2>2 DEF ConfiguredOutput
<1>3. CASE \E i \in DOMAIN config : FirstEnabled(i) /\ ~Occupied(config[i].name, pending)
  <2>1. (CHOOSE i \in DOMAIN config : FirstEnabled(i)) \in DOMAIN config
    BY <1>3
  <2>2. QED
    BY <1>2, <1>3, <2>1 DEF DesiredName
<1>4. QED
  BY <1>3, NamesAre DEF DesiredName

LEMMA SeededSound ==
  ASSUME TypeOK, NEW pending
  PROVE  /\ Seeded(pending) \in Seq(SoundChange)
         /\ \A i \in DOMAIN Seeded(pending) : Seeded(pending)[i].owner \notin Connectors
<1> DEFINE c == Connected(Primary, DesiredName(pending), Preferred)
<1>1. CASE Seeded(pending) = <<>>
  BY <1>1, EmptySeq
<1>2. CASE Seeded(pending) # <<>>
  <2>1. Seeded(pending) = <<c>> /\ Virtual
    BY <1>2 DEF Seeded
  <2>2. c \in SoundChange /\ c.owner \notin Connectors
    BY <2>1, DesiredNamed, NamesAre, ModesType DEF Connected, SoundChange, Change, Alike
  <2> HIDE DEF c
  <2>3. QED
    BY <2>1, <2>2, Single
<1>3. QED
  BY <1>1, <1>2

\* What the configuration asks for are requests.
LEMMA ConfigRequestsTyped ==
  ASSUME TypeOK
  PROVE  ConfigRequests \in Seq(Request)
<1> DEFINE N == Len(config)
           parts == [i \in 1 .. N |-> EntryRequests(config[i])]
           Made(f) == [i \in 0 .. N |-> IF i = 0 THEN <<>> ELSE f[i - 1] \o EntryRequests(config[i])]
           upTo == CHOOSE f : f = Made(f)
           extra == [i \in 1 .. Cardinality(Unlisted) |-> DisableRequest(SetToSeq(Unlisted)[i])]
<1>1. config \in Seq(ConfiguredOutput) /\ N \in Nat
  BY ConfigsType, LenProperties DEF TypeOK
<1>2. \A o \in ConfiguredOutput : EntryRequests(o) \in Seq(Request)
  <2> TAKE o \in ConfiguredOutput
  <2>1. /\ EnableRequest(o.name) \in Request
        /\ DisableRequest(o.name) \in Request
        /\ ConfigureRequest(o.name, o.mode) \in Request
    BY DEF ConfiguredOutput, EnableRequest, DisableRequest, ConfigureRequest, Request
  <2>2. /\ <<EnableRequest(o.name)>> \in Seq(Request)
        /\ <<DisableRequest(o.name)>> \in Seq(Request)
        /\ <<ConfigureRequest(o.name, o.mode)>> \in Seq(Request)
        /\ <<>> \in Seq(Request)
    BY <2>1, Single, EmptySeq
  <2> DEFINE on == IF Present(o.name) THEN <<>> ELSE <<EnableRequest(o.name)>>
             as == IF \E p \in seen : p.name = o.name /\ p.mode = o.mode
                     THEN <<>> ELSE <<ConfigureRequest(o.name, o.mode)>>
  <2>3. on \in Seq(Request) /\ as \in Seq(Request)
    BY <2>2
  <2>4. on \o as \in Seq(Request)
    <3> HIDE DEF on, as
    <3>1. QED
      BY <2>3, Joined
  <2>5. \/ EntryRequests(o) = <<>> \/ EntryRequests(o) = on \o as
        \/ EntryRequests(o) = <<DisableRequest(o.name)>>
    BY DEF EntryRequests
  <2> HIDE DEF on, as
  <2>6. QED
    BY <2>2, <2>4, <2>5
<1>3. \A i \in 1 .. N : config[i] \in ConfiguredOutput
  BY <1>1, ElementOfSeq
<1>4. parts \in [1 .. N -> Seq(Request)]
  BY <1>2, <1>3
<1>5. upTo = Made(upTo)
  <2>1. PICK f : Joins(f, Request, parts, N)
    BY <1>1, <1>4, JoinsExist DEF Joinable
  <2>2. f = Made(f)
    <3>1. f = [n \in 0 .. N |-> IF n = 0 THEN <<>> ELSE f[n - 1] \o parts[n]]
      BY <2>1 DEF Joins, JoinedBy
    <3>2. \A n \in 0 .. N : n # 0 => parts[n] = EntryRequests(config[n])
      OBVIOUS
    <3> HIDE DEF parts
    <3>3. Made(f) = [n \in 0 .. N |-> IF n = 0 THEN <<>> ELSE f[n - 1] \o parts[n]]
      BY <3>2
    <3>4. QED
      BY <3>1, <3>3
  <2> HIDE DEF Made
  <2>3. QED
    BY <2>2
<1>6. JoinedBy(upTo, parts, N)
  <2> HIDE DEF upTo
  <2>1. \A n \in 0 .. N : n # 0 => parts[n] = EntryRequests(config[n])
    OBVIOUS
  <2> HIDE DEF parts
  <2>2. Made(upTo) = [n \in 0 .. N |-> IF n = 0 THEN <<>> ELSE upTo[n - 1] \o parts[n]]
    BY <2>1
  <2>3. QED
    BY <1>5, <2>2 DEF JoinedBy
<1>7. upTo[N] \in Seq(Request)
  <2> HIDE DEF upTo, parts, N
  <2>1. QED
    BY <1>1, <1>4, <1>6, JoinedParts
<1>8. Unlisted \subseteq Names /\ IsFiniteSet(Unlisted)
  <2>1. Unlisted \subseteq Names
    BY DEF Unlisted, TypeOK, Seen
  <2>2. QED
    BY <2>1, FiniteNames, FS_Subset
<1>9. extra \in Seq(Request)
  <2>1. /\ SetToSeq(Unlisted) \in [1 .. Cardinality(Unlisted) -> Unlisted]
        /\ Cardinality(Unlisted) \in Nat
    BY <1>8, SetToSeqIs
  <2>2. \A n \in Names : DisableRequest(n) \in Request
    BY DEF DisableRequest, Request
  <2>3. extra \in [1 .. Cardinality(Unlisted) -> Request]
    BY <1>8, <2>1, <2>2
  <2> HIDE DEF extra
  <2>4. QED
    BY <2>1, <2>3, FunctionIsSeq
<1>10. ConfigRequests = upTo[N] \o extra
  BY DEF ConfigRequests
<1> HIDE DEF upTo, extra, N
<1>11. QED
  BY <1>7, <1>9, <1>10, Joined

\* A new output gets a slot no output and no command has.
LEMMA FreeSlotFresh ==
  ASSUME TypeOK, IsFiniteSet(DOMAIN outs)
  PROVE  /\ FreeSlot \in Nat /\ FreeSlot \notin DOMAIN outs
         /\ \A i \in DOMAIN commands : commands[i].slot # FreeSlot
<1> DEFINE slots == {commands[i].slot : i \in DOMAIN commands}
           taken == DOMAIN outs \cup slots
<1>1. IsFiniteSet(slots)
  <2>1. DOMAIN commands = 1 .. Len(commands) /\ Len(commands) \in Nat
    BY LenProperties DEF TypeOK
  <2>2. IsFiniteSet(DOMAIN commands)
    BY <2>1, FS_Interval
  <2>3. slots = {commands[i].slot : i \in DOMAIN commands}
    OBVIOUS
  <2> DEFINE slotOf == [i \in DOMAIN commands |-> commands[i].slot]
  <2>4. slotOf \in Surjection(DOMAIN commands, slots)
    BY DEF Surjection
  <2>5. QED
    BY <2>2, <2>4, FS_Surjection
<1>2. IsFiniteSet(taken)
  BY <1>1, FS_Union
<1>3. Cardinality(taken) \in Nat
  BY <1>2, FS_CardinalityType
<1>4. \E s \in 1 .. Cardinality(taken) + 1 : s \notin taken
  <2> HIDE DEF taken
  <2>1. QED
    BY <1>2, FreshNumber
<1>5. FreeSlot = CHOOSE s \in 1 .. Cardinality(taken) + 1 : s \notin taken
  BY DEF FreeSlot
<1>6. FreeSlot \in 1 .. Cardinality(taken) + 1 /\ FreeSlot \notin taken
  <2> HIDE DEF taken
  <2>1. QED
    BY <1>4, <1>5
<1>7. FreeSlot \in Nat
  <2> HIDE DEF taken
  <2>1. QED
    BY <1>3, <1>6
<1>8. QED
  BY <1>6, <1>7

LEMMA RestoredTyped ==
  ASSUME TypeOK, NEW n \in Names
  PROVE  Restored(n) \in Viewports
BY ViewportsType DEF TypeOK, Restored

LEMMA InitTyped == Init => TypeOK
<1> SUFFICES ASSUME Init PROVE TypeOK
  OBVIOUS
<1> USE DEF Init
<1>1. EmptyPlan \in Plan
  BY EmptySeq DEF EmptyPlan, Plan
<1>2. Nothing \in [on : BOOLEAN, mode : Modes \cup {Invalid, None}, origin : Viewports \cup {None}]
  BY DEF Nothing
<1>3. asked \in [Names -> [on : BOOLEAN, mode : Modes \cup {Invalid, None},
                           origin : Viewports \cup {None}]]
  BY <1>2
<1>4. /\ spent \in [{"controls", "reloads", "switches"} -> Nat]
      /\ DOMAIN outs \subseteq Nat /\ outs \in [DOMAIN outs -> Output]
      /\ remembered \in [Names -> Viewports \cup {None}]
      /\ lastViewport \in [Names -> Viewports]
  BY ViewportsType
<1>5. QED
  BY <1>1, <1>3, <1>4, EmptySeq DEF TypeOK

-----------------------------------------------------------------------------
(* Every action keeps the types.                                           *)

LEMMA ExtractTyped ==
  ASSUME TypeOK, Extract
  PROVE  TypeOK'
<1>1. PICK announced \in Announcement : events' = announced \o Seeded(announced)
  BY DEF Extract
<1>2. events' \in Seq(Change)
  <2>1. announced \in Seq(SoundChange) /\ Seeded(announced) \in Seq(SoundChange)
    BY AnnouncedSound, SeededSound
  <2>2. events' \in Seq(SoundChange)
    BY <1>1, <2>1, Joined
  <2>3. QED
    BY <2>2, SeqMonotonic DEF SoundChange
<1>3. seen' \subseteq Seen
  BY DEF Extract, Snapshot, Seen, Output, TypeOK
<1>4. QED
  BY <1>2, <1>3 DEF Extract, TypeOK, world, shell, outside, history

LEMMA SyncConfiguredTyped ==
  ASSUME TypeOK, SyncConfigured
  PROVE  TypeOK'
<1>1. requests' \in Seq(Request)
  <2>1. requests \in Seq(Request) /\ ConfigRequests \in Seq(Request)
    BY ConfigRequestsTyped DEF TypeOK
  <2>2. requests' = requests \/ requests' = requests \o ConfigRequests
    BY DEF SyncConfigured
  <2>3. QED
    BY <2>1, <2>2, Joined
<1>2. turnedOff' \subseteq Names
  <2>1. Disables(ConfigRequests) \subseteq Names
    <3>1. ToSet(ConfigRequests) \subseteq Request
      BY ConfigRequestsTyped, LenProperties, ElementOfSeq DEF ToSet
    <3>2. QED
      BY <3>1 DEF Disables, Request
  <2>2. QED
    BY <2>1 DEF SyncConfigured, TypeOK
<1>3. QED
  BY <1>1, <1>2 DEF SyncConfigured, TypeOK, world, shell, outside

LEMMA RequestTyped ==
  ASSUME TypeOK, NEW op, IsRequest(op)
  PROVE  /\ CurrentRequest \in Request /\ CurrentRequest.name \in Names
         /\ Tail(requests) \in Seq(Request)
BY HeadTailProperties DEF TypeOK, IsRequest, CurrentRequest, Request

LEMMA RequestsTyped ==
  ASSUME TypeOK, EnableOutput \/ DisableOutput \/ ConfigureOutput \/ EndRequests
  PROVE  TypeOK'
<1>1. CASE EnableOutput
  <2> DEFINE n == CurrentRequest.name
             c == Connected(Primary, n, Preferred)
  <2>1. n \in Names /\ Tail(requests) \in Seq(Request)
    BY <1>1, RequestTyped DEF EnableOutput
  <2>2. Virtual => c \in Change
    BY <2>1, NamesAre, ModesType DEF Connected, Change
  <2>3. events' = events \/ (Virtual /\ events' = Append(events, c))
    BY <1>1 DEF EnableOutput
  <2> HIDE DEF c
  <2>6. events \in Seq(Change)
    BY DEF TypeOK
  <2>4. events' \in Seq(Change)
    BY <2>2, <2>3, <2>6, AppendProperties
  <2>5. QED
    BY <1>1, <2>1, <2>4 DEF EnableOutput, NextRequest, TypeOK, outside, world, shell, history
<1>2. CASE DisableOutput
  <2> DEFINE n == CurrentRequest.name
  <2>1. n \in Names /\ Tail(requests) \in Seq(Request)
    BY <1>2, RequestTyped DEF DisableOutput
  <2>2. \A owner \in OwnersOf(n) : Disconnected(owner, n) \in Change
    BY <2>1 DEF OwnersOf, TypeOK, Seen, Disconnected, Change
  <2>3. events' = events \/ \E owner \in OwnersOf(n) : events' = Append(events, Disconnected(owner, n))
    BY <1>2 DEF DisableOutput
  <2>6. events \in Seq(Change)
    BY DEF TypeOK
  <2>4. events' \in Seq(Change)
    <3>1. CASE events' = events
      BY <2>6, <3>1
    <3>2. CASE events' # events
      <4>1. PICK owner \in OwnersOf(n) : events' = Append(events, Disconnected(owner, n))
        BY <2>3, <3>2
      <4>2. Disconnected(owner, n) \in Change
        BY <2>2
      <4>3. QED
        BY <2>6, <4>1, <4>2, AppendProperties
    <3>3. QED
      BY <3>1, <3>2
  <2>5. QED
    BY <1>2, <2>1, <2>4 DEF DisableOutput, NextRequest, TypeOK, outside, world, shell, history
<1>3. CASE ConfigureOutput
  <2> DEFINE n == CurrentRequest.name
             Made(owner) == [owner |-> owner, mode |-> CurrentRequest.mode]
  <2>1. CurrentRequest \in Request /\ Tail(requests) \in Seq(Request)
    BY <1>3, RequestTyped DEF ConfigureOutput
  <2>2. CurrentRequest.op = "configure"
    BY <1>3 DEF ConfigureOutput, IsRequest
  <2>3. CurrentRequest.mode \in Modes \cup {Invalid}
    BY <2>1, <2>2 DEF Request
  <2>4. \A owner \in OwnersOf(n) : CurrentRequest.mode # Invalid => Made(owner) \in Update
    BY <2>3 DEF OwnersOf, TypeOK, Seen, Update
  <2>5. \/ updates' = updates
        \/ CurrentRequest.mode # Invalid
           /\ \E owner \in OwnersOf(n) : updates' = Append(updates, Made(owner))
    BY <1>3 DEF ConfigureOutput
  <2>8. updates \in Seq(Update)
    BY DEF TypeOK
  <2> HIDE DEF Made
  <2>6. updates' \in Seq(Update)
    <3>1. CASE updates' = updates
      BY <2>8, <3>1
    <3>2. CASE updates' # updates
      <4>1. PICK owner \in OwnersOf(n) : CurrentRequest.mode # Invalid /\ updates' = Append(updates, Made(owner))
        BY <2>5, <3>2
      <4>2. QED
        BY <2>4, <2>8, <4>1, AppendProperties
    <3>3. QED
      BY <3>1, <3>2
  <2>7. QED
    BY <1>3, <2>1, <2>6 DEF ConfigureOutput, NextRequest, TypeOK, outside, world, shell, history
<1>4. CASE EndRequests
  BY <1>4 DEF EndRequests, TypeOK, outside, world, shell, subapp, history
<1>5. QED
  BY <1>1, <1>2, <1>3, <1>4

\* What the head of a plan is, and what is left of the plan.
LEMMA ChangeTyped ==
  ASSUME TypeOK, NEW change, IsChange(change)
  PROVE  /\ ingress.lifecycle \in Seq(Change) /\ ingress.lifecycle # <<>>
         /\ Head(ingress.lifecycle) \in Change /\ Head(ingress.lifecycle).change = change
         /\ [ingress EXCEPT !.lifecycle = Tail(@)] \in Plan
<1>1. ingress.lifecycle \in Seq(Change) /\ ingress.updates \in Seq(Update) /\ ingress \in Plan
  BY DEF TypeOK, Plan
<1>2. ingress.lifecycle # <<>> /\ Head(ingress.lifecycle).change = change
  BY DEF IsChange
<1>3. Head(ingress.lifecycle) \in Change /\ Tail(ingress.lifecycle) \in Seq(Change)
  BY <1>1, <1>2, HeadTailProperties
<1>4. QED
  BY <1>1, <1>2, <1>3 DEF Plan

LEMMA ConnectedTyped ==
  ASSUME TypeOK, IsFiniteSet(DOMAIN outs), MaterializeConnected
  PROVE  TypeOK'
<1> DEFINE c == Head(ingress.lifecycle)
           Insert(s) == [op |-> "insert", slot |-> s, name |-> c.name, mode |-> c.mode]
           born == [name |-> c.name, owner |-> c.owner, mode |-> c.mode,
                    viewport |-> Restored(c.name), target |-> None]
           spawn == [op |-> "spawn", slot |-> FreeSlot, output |-> born]
<1>1. c \in Change /\ c.change = "connected" /\ [ingress EXCEPT !.lifecycle = Tail(@)] \in Plan
  BY ChangeTyped DEF MaterializeConnected
<1>2. c.name \in Names /\ c.owner \in Owners /\ c.mode \in Modes
  BY <1>1 DEF Change
<1>3. \A s \in DOMAIN outs : Insert(s) \in Command
  <2>1. DOMAIN outs \subseteq Nat
    BY DEF TypeOK
  <2> HIDE DEF c
  <2>2. QED
    BY <1>2, <2>1 DEF Command
<1>4. spawn \in Command
  <2>1. Restored(c.name) \in Viewports /\ FreeSlot \in Nat
    BY <1>2, RestoredTyped, FreeSlotFresh
  <2> HIDE DEF c
  <2>2. born \in Output
    BY <1>2, <2>1 DEF Output
  <2> HIDE DEF born
  <2>3. QED
    BY <2>1, <2>2 DEF Command
<1>5. \/ \E s \in DOMAIN outs : commands' = Append(commands, Insert(s))
      \/ commands' = Append(commands, spawn)
  BY DEF MaterializeConnected, Match, Owned
<1>6. commands \in Seq(Command)
  BY DEF TypeOK
<1> HIDE DEF c, Insert, spawn
<1>7. commands' \in Seq(Command)
  BY <1>3, <1>4, <1>5, <1>6, AppendProperties
<1>8. QED
  BY <1>1, <1>7 DEF MaterializeConnected, NextChange, TypeOK, outside, subapp, history

\* The commands a disconnection queues.
LEMMA DoomedTyped ==
  ASSUME TypeOK, IsFiniteSet(DOMAIN outs), NEW owner
  PROVE  /\ IsFiniteSet(Owned(owner)) /\ Cardinality(Owned(owner)) \in Nat
         /\ SetToSeq(Owned(owner)) \in [1 .. Cardinality(Owned(owner)) -> Owned(owner)]
         /\ [i \in DOMAIN SetToSeq(Owned(owner)) |->
               [op |-> "despawn", slot |-> SetToSeq(Owned(owner))[i]]] \in Seq(Command)
<1> DEFINE doomed == SetToSeq(Owned(owner))
           n == Cardinality(Owned(owner))
<1>1. Owned(owner) \subseteq DOMAIN outs /\ IsFiniteSet(Owned(owner))
  BY FS_Subset DEF Owned
<1>2. doomed \in [1 .. n -> Owned(owner)] /\ n \in Nat
  BY <1>1, SetToSeqIs
<1>3. \A s \in DOMAIN outs : [op |-> "despawn", slot |-> s] \in Command
  BY DEF TypeOK, Command
<1> HIDE DEF doomed, n
<1>4. [i \in DOMAIN doomed |-> [op |-> "despawn", slot |-> doomed[i]]] \in [1 .. n -> Command]
  BY <1>1, <1>2, <1>3
<1>5. [i \in DOMAIN doomed |-> [op |-> "despawn", slot |-> doomed[i]]] \in Seq(Command)
  BY <1>2, <1>4, FunctionIsSeq
<1>6. QED
  BY <1>1, <1>2, <1>5 DEF doomed, n

LEMMA DisconnectedTyped ==
  ASSUME TypeOK, IsFiniteSet(DOMAIN outs), MaterializeDisconnected
  PROVE  TypeOK'
<1> DEFINE doomed == SetToSeq(Owned(Head(ingress.lifecycle).owner))
           despawns == [i \in DOMAIN doomed |-> [op |-> "despawn", slot |-> doomed[i]]]
<1>1. [ingress EXCEPT !.lifecycle = Tail(@)] \in Plan
  BY ChangeTyped DEF MaterializeDisconnected
<1>2. despawns \in Seq(Command)
  BY DoomedTyped
<1>3. commands' = commands \o despawns
  BY DEF MaterializeDisconnected
<1> HIDE DEF despawns
<1>4. commands' \in Seq(Command)
  BY <1>2, <1>3, Joined DEF TypeOK
<1>5. QED
  BY <1>1, <1>4 DEF MaterializeDisconnected, NextChange, TypeOK, outside, subapp, history

\* What a change of an output's fields leaves is an output.
LEMMA OutputFields ==
  ASSUME NEW o \in Output, NEW m \in Modes, NEW n \in Names, NEW v \in Viewports
  PROVE  /\ [o EXCEPT !.mode = m] \in Output
         /\ [o EXCEPT !.name = n, !.mode = m] \in Output
         /\ [o EXCEPT !.target = v] \in Output
         /\ [o EXCEPT !.target = None] \in Output
         /\ o.target # None => Arrived(o) \in Output
BY DEF Output, Arrived

LEMMA UpdatePropertiesTyped ==
  ASSUME TypeOK, UpdateProperties
  PROVE  TypeOK'
<1> DEFINE u == Head(ingress.updates)
<1>1. /\ ingress \in Plan /\ ingress.lifecycle \in Seq(Change) /\ ingress.updates \in Seq(Update)
      /\ ingress.updates # <<>>
  BY DEF TypeOK, Plan, UpdateProperties
<1>2. u \in Update /\ Tail(ingress.updates) \in Seq(Update)
  BY <1>1, HeadTailProperties
<1>3. ingress' \in Plan
  BY <1>1, <1>2 DEF Plan, UpdateProperties
<1>4. outs \in [DOMAIN outs -> Output] /\ DOMAIN outs \subseteq Nat /\ u.mode \in Modes
  BY <1>2 DEF TypeOK, Update
<1>5. outs' = outs \/ \E s \in DOMAIN outs : outs' = [outs EXCEPT ![s].mode = u.mode]
  BY DEF UpdateProperties, Owned
<1> HIDE DEF u
<1>6. outs' \in [DOMAIN outs -> Output]
  <2>1. \A s \in DOMAIN outs : [outs[s] EXCEPT !.mode = u.mode] \in Output
    BY <1>4, OutputFields, ViewportsType, NamesAre
  <2>2. QED
    BY <1>4, <1>5, <2>1
<1>7. DOMAIN outs' \subseteq Nat /\ outs' \in [DOMAIN outs' -> Output]
  BY <1>4, <1>6
<1>8. QED
  BY <1>3, <1>7 DEF UpdateProperties, TypeOK, outside, subapp, history

LEMMA ApplyCommandTyped ==
  ASSUME TypeOK, ApplyCommand
  PROVE  TypeOK'
<1> DEFINE c == Head(commands)
<1>1. c \in Command /\ Tail(commands) \in Seq(Command)
  BY HeadTailProperties DEF TypeOK, ApplyCommand
<1>2. outs \in [DOMAIN outs -> Output] /\ DOMAIN outs \subseteq Nat /\ outs' = Applied(c)
  BY DEF TypeOK, ApplyCommand
<1> HIDE DEF c
<1>3. DOMAIN outs' \subseteq Nat /\ outs' \in [DOMAIN outs' -> Output]
  <2>1. CASE c.op = "spawn"
    <3>1. outs' = [s \in DOMAIN outs \cup {c.slot} |-> IF s = c.slot THEN c.output ELSE outs[s]]
      BY <1>2, <2>1 DEF Applied
    <3>2. c.slot \in Nat /\ c.output \in Output
      BY <1>1, <2>1 DEF Command
    <3>3. QED
      BY <1>2, <3>1, <3>2
  <2>2. CASE c.op = "insert"
    <3>1. outs' = [s \in DOMAIN outs |->
                     IF s = c.slot THEN [outs[s] EXCEPT !.name = c.name, !.mode = c.mode]
                                   ELSE outs[s]]
      BY <1>2, <2>2 DEF Applied
    <3>2. c.name \in Names /\ c.mode \in Modes
      BY <1>1, <2>2 DEF Command
    <3>3. \A s \in DOMAIN outs : [outs[s] EXCEPT !.name = c.name, !.mode = c.mode] \in Output
      BY <1>2, <3>2, OutputFields, ViewportsType
    <3>4. QED
      BY <1>2, <3>1, <3>3
  <2>3. CASE c.op = "despawn"
    <3>1. outs' = [s \in DOMAIN outs \ {c.slot} |-> outs[s]]
      BY <1>2, <2>3 DEF Applied
    <3>2. QED
      BY <1>2, <3>1
  <2>4. QED
    BY <1>1, <2>1, <2>2, <2>3 DEF Command
<1>4. commands' \in Seq(Command)
  BY <1>1 DEF ApplyCommand, c
<1>5. QED
  BY <1>3, <1>4 DEF ApplyCommand, TypeOK, outside, shell, subapp, history

\* The head of the controls, and what it asks for.
LEMMA ControlTyped ==
  ASSUME TypeOK, controls # <<>>
  PROVE  /\ Head(controls) \in Control /\ Tail(controls) \in Seq(Control)
         /\ ControlRequests(Head(controls)) \in Seq(Request)
         /\ MoveWaits(Head(controls)) \in Seq(Control)
<1> DEFINE c == Head(controls)
<1>1. c \in Control /\ Tail(controls) \in Seq(Control)
  BY HeadTailProperties DEF TypeOK
<1> HIDE DEF c
<1>2. /\ EnableRequest(c.name) \in Request /\ DisableRequest(c.name) \in Request
      /\ c.mode # None => ConfigureRequest(c.name, c.mode) \in Request
      /\ [c EXCEPT !.enabled = None, !.mode = None] \in Control
  BY <1>1 DEF Control, Request, EnableRequest, DisableRequest, ConfigureRequest
<1> DEFINE on == CASE c.enabled = None -> <<>>
                   [] c.enabled = TRUE -> <<EnableRequest(c.name)>>
                   [] c.enabled = FALSE -> <<DisableRequest(c.name)>>
           as == IF c.mode = None THEN <<>> ELSE <<ConfigureRequest(c.name, c.mode)>>
<1>3. on \in Seq(Request)
  <2>1. <<>> \in Seq(Request) /\ <<EnableRequest(c.name)>> \in Seq(Request)
        /\ <<DisableRequest(c.name)>> \in Seq(Request)
    BY <1>2, Single, EmptySeq
  <2>2. c.enabled = None \/ c.enabled = TRUE \/ c.enabled = FALSE
    BY <1>1 DEF Control
  <2>3. QED
    BY <2>1, <2>2
<1>4. as \in Seq(Request)
  BY <1>2, Single, EmptySeq
<1>5. ControlRequests(c) = on \o as
  BY DEF ControlRequests
<1>6. ControlRequests(c) \in Seq(Request)
  <2> HIDE DEF on, as
  <2>1. QED
    BY <1>3, <1>4, <1>5, Joined
<1>7. MoveWaits(c) \in Seq(Control)
  BY <1>2, Single, EmptySeq DEF MoveWaits
<1>8. QED
  BY <1>1, <1>6, <1>7 DEF c

LEMMA ApplyControlTyped ==
  ASSUME TypeOK, ApplyControl
  PROVE  TypeOK'
<1> DEFINE c == Head(controls)
<1>1. controls # <<>>
  BY DEF ApplyControl
<1>2. /\ c \in Control /\ Tail(controls) \in Seq(Control)
      /\ ControlRequests(c) \in Seq(Request) /\ MoveWaits(c) \in Seq(Control)
  BY <1>1, ControlTyped
<1>3. /\ mainRequests \in Seq(Request) /\ deferredControls \in Seq(Control)
      /\ outs \in [DOMAIN outs -> Output] /\ DOMAIN outs \subseteq Nat
  BY DEF TypeOK
<1>4. /\ mainRequests' = mainRequests \o ControlRequests(c)
      /\ deferredControls' = deferredControls \/ deferredControls' = deferredControls \o MoveWaits(c)
      /\ outs' = outs \/ \E s \in DOMAIN outs : outs' = [outs EXCEPT ![s] = Moved(@, c.origin)]
      /\ controls' = Tail(controls)
  BY DEF ApplyControl, Named
<1> HIDE DEF c
<1>5. mainRequests' \in Seq(Request) /\ deferredControls' \in Seq(Control)
  <2>1. mainRequests \o ControlRequests(c) \in Seq(Request)
    BY <1>2, <1>3, Joined
  <2>2. deferredControls \o MoveWaits(c) \in Seq(Control)
    BY <1>2, <1>3, Joined
  <2>3. QED
    BY <1>3, <1>4, <2>1, <2>2
<1>6. DOMAIN outs' \subseteq Nat /\ outs' \in [DOMAIN outs' -> Output]
  <2>1. \A s \in DOMAIN outs : Moved(outs[s], c.origin) \in Output
    <3>1. c.origin \in Viewports \cup {None}
      BY <1>2 DEF Control
    <3>2. ASSUME NEW s \in DOMAIN outs PROVE Moved(outs[s], c.origin) \in Output
      <4>1. outs[s] \in Output
        BY <1>3
      <4>2. CASE c.origin = None
        BY <4>1, <4>2 DEF Moved
      <4>3. CASE c.origin # None
        BY <3>1, <4>1, <4>3 DEF Moved, Output
      <4>4. QED
        BY <4>2, <4>3
    <3>3. QED
      BY <3>2
  <2>2. QED
    BY <1>3, <1>4, <2>1
<1>7. QED
  BY <1>2, <1>4, <1>5, <1>6 DEF ApplyControl, TypeOK, outside, subapp, history

LEMMA FinishFrameTyped ==
  ASSUME TypeOK, NEW arriving \in SUBSET Animated, FinishFrame(arriving)
  PROVE  TypeOK'
<1>1. outs \in [DOMAIN outs -> Output] /\ DOMAIN outs \subseteq Nat
  BY DEF TypeOK
<1>2. outs' = [s \in DOMAIN outs |-> IF s \in arriving THEN Arrived(outs[s]) ELSE outs[s]]
  BY DEF FinishFrame
<1>3. \A s \in arriving : Arrived(outs[s]) \in Output
  BY <1>1, OutputFields, ModesType, NamesAre, ViewportsType DEF Animated
<1>4. DOMAIN outs' = DOMAIN outs /\ outs' \in [DOMAIN outs -> Output]
  BY <1>1, <1>2, <1>3
<1>5. PICK last \in [{n \in Names : Named(n) # {}} -> DOMAIN outs] :
        /\ remembered' = [n \in Names |-> IF n \in DOMAIN last THEN RememberedAfter(n, last[n])
                                                              ELSE remembered[n]]
        /\ lastViewport' = [n \in Names |-> IF n \in DOMAIN last THEN outs'[last[n]].viewport
                                                                ELSE lastViewport[n]]
  BY DEF FinishFrame
<1>6. \A s \in DOMAIN outs : outs'[s].viewport \in Viewports
  BY <1>4 DEF Output
<1>7. /\ remembered \in [Names -> Viewports \cup {None}] /\ lastViewport \in [Names -> Viewports]
      /\ DOMAIN last \subseteq Names /\ \A n \in DOMAIN last : last[n] \in DOMAIN outs
  BY DEF TypeOK
<1>8. remembered' \in [Names -> Viewports \cup {None}]
  BY <1>5, <1>6, <1>7 DEF RememberedAfter
<1>9. lastViewport' \in [Names -> Viewports]
  BY <1>5, <1>6, <1>7
<1>10. ingress' \in Plan /\ events' \in Seq(Change) /\ updates' \in Seq(Update)
       /\ deferredControls' \in Seq(Control)
  BY EmptySeq DEF FinishFrame, TypeOK, Plan
<1>11. DOMAIN outs' \subseteq Nat /\ outs' \in [DOMAIN outs' -> Output]
  BY <1>1, <1>4
<1>12. QED
  BY <1>8, <1>9, <1>10, <1>11 DEF FinishFrame, TypeOK, outside

\* A control with one field set is added or replaces that field.
LEMMA MergedIs ==
  ASSUME NEW S, controls \in Seq(S), NEW n, NEW field, NEW value,
         [Blank(n) EXCEPT ![field] = value] \in S,
         \A c \in S : c.name = n => [c EXCEPT ![field] = value] \in S
  PROVE  Merged(n, field, value) \in Seq(S)
<1> DEFINE known == {i \in DOMAIN controls : controls[i].name = n}
           added == [Blank(n) EXCEPT ![field] = value]
           Set(c) == [c EXCEPT ![field] = value]
           set == [i \in DOMAIN controls |-> IF i \in known THEN Set(controls[i]) ELSE controls[i]]
<1>1. Len(controls) \in Nat /\ DOMAIN controls = 1 .. Len(controls)
      /\ \A i \in DOMAIN controls : controls[i] \in S
  BY LenProperties
<1>2. Merged(n, field, value) = IF known = {} THEN Append(controls, added) ELSE set
  BY DEF Merged
<1>3. Append(controls, added) \in Seq(S)
  BY AppendProperties
<1>4. set \in Seq(S)
  <2>1. \A i \in DOMAIN controls : i \in known => Set(controls[i]) \in S
    BY <1>1
  <2> HIDE DEF Set, known
  <2>2. set \in [1 .. Len(controls) -> S]
    BY <1>1, <2>1
  <2> HIDE DEF set
  <2>3. QED
    BY <1>1, <2>2, FunctionIsSeq
<1> HIDE DEF known, added, set
<1>5. QED
  BY <1>2, <1>3, <1>4

LEMMA UsersTyped ==
  ASSUME TypeOK, Users
  PROVE  TypeOK'
<1>1. PICK n \in Names :
        \/ \E on \in BOOLEAN : TurnOutput(n, on)
        \/ \E mode \in Modes \cup {Invalid} : SetMode(n, mode)
        \/ \E v \in Viewports : MoveViewport(n, v)
  BY DEF Users
<1> DEFINE Asked == [on : BOOLEAN, mode : Modes \cup {Invalid, None}, origin : Viewports \cup {None}]
<1>2. ASSUME NEW what, NEW max, Spend(what, max), what \in {"controls", "reloads", "switches"}
      PROVE  spent' \in [{"controls", "reloads", "switches"} -> Nat]
  BY <1>2 DEF Spend, TypeOK
<1>3. asked \in [Names -> Asked]
  BY DEF TypeOK
<1>4. CASE \E on \in BOOLEAN : TurnOutput(n, on)
  <2>1. PICK on \in BOOLEAN : TurnOutput(n, on)
    BY <1>4
  <2>2. controls' \in Seq(Control)
    <3>1. [Blank(n) EXCEPT !.enabled = on] \in Control
          /\ \A c \in Control : [c EXCEPT !.enabled = on] \in Control
      BY DEF Blank, Control
    <3>2. Merged(n, "enabled", on) \in Seq(Control)
      BY <3>1, MergedIs DEF TypeOK
    <3>3. QED
      BY <2>1, <3>2 DEF TurnOutput, GiveCommand
  <2>3. asked' \in [Names -> Asked]
    <3>1. asked[n] \in Asked
      BY <1>3
    <3> DEFINE new == [asked[n] EXCEPT !.on = on, !.mode = None]
    <3>2. new \in Asked
      BY <3>1
    <3>3. asked' = [asked EXCEPT ![n] = new]
      BY <2>1 DEF TurnOutput
    <3> HIDE DEF new, Asked
    <3>4. QED
      BY <1>3, <3>2, <3>3
  <2>4. turnedOff' \subseteq Names
    BY <2>1 DEF TurnOutput, TypeOK
  <2>5. spent' \in [{"controls", "reloads", "switches"} -> Nat]
    BY <1>2, <2>1 DEF TurnOutput, GiveCommand
  <2>6. QED
    BY <2>1, <2>2, <2>3, <2>4, <2>5 DEF TurnOutput, GiveCommand, TypeOK, world, subapp
<1>5. CASE \E mode \in Modes \cup {Invalid} : SetMode(n, mode)
  <2>1. PICK mode \in Modes \cup {Invalid} : SetMode(n, mode)
    BY <1>5
  <2>2. controls' \in Seq(Control)
    <3>1. [Blank(n) EXCEPT !.mode = mode] \in Control
          /\ \A c \in Control : [c EXCEPT !.mode = mode] \in Control
      BY DEF Blank, Control
    <3>2. Merged(n, "mode", mode) \in Seq(Control)
      BY <3>1, MergedIs DEF TypeOK
    <3>3. QED
      BY <2>1, <3>2 DEF SetMode, GiveCommand
  <2>3. asked' \in [Names -> Asked]
    <3>1. asked[n] \in Asked
      BY <1>3
    <3> DEFINE new == [asked[n] EXCEPT !.mode = mode]
    <3>2. new \in Asked
      BY <3>1
    <3>3. asked' = [asked EXCEPT ![n] = new]
      BY <2>1 DEF SetMode
    <3> HIDE DEF new, Asked
    <3>4. QED
      BY <1>3, <3>2, <3>3
  <2>5. spent' \in [{"controls", "reloads", "switches"} -> Nat]
    BY <1>2, <2>1 DEF SetMode, GiveCommand
  <2>6. QED
    BY <2>1, <2>2, <2>3, <2>5 DEF SetMode, GiveCommand, TypeOK, world, subapp
<1>6. CASE \E v \in Viewports : MoveViewport(n, v)
  <2>1. PICK v \in Viewports : MoveViewport(n, v)
    BY <1>6
  <2>2. controls' \in Seq(Control)
    <3>1. [Blank(n) EXCEPT !.origin = v] \in Control
          /\ \A c \in Control : [c EXCEPT !.origin = v] \in Control
      BY DEF Blank, Control
    <3>2. Merged(n, "origin", v) \in Seq(Control)
      BY <3>1, MergedIs DEF TypeOK
    <3>3. QED
      BY <2>1, <3>2 DEF MoveViewport, GiveCommand
  <2>3. asked' \in [Names -> Asked]
    <3>1. asked[n] \in Asked
      BY <1>3
    <3> DEFINE new == [asked[n] EXCEPT !.origin = v]
    <3>2. new \in Asked
      BY <3>1
    <3>3. asked' = [asked EXCEPT ![n] = new]
      BY <2>1 DEF MoveViewport
    <3> HIDE DEF new, Asked
    <3>4. QED
      BY <1>3, <3>2, <3>3
  <2>5. spent' \in [{"controls", "reloads", "switches"} -> Nat]
    BY <1>2, <2>1 DEF MoveViewport, GiveCommand
  <2>6. QED
    BY <2>1, <2>2, <2>3, <2>5 DEF MoveViewport, GiveCommand, TypeOK, world, subapp
<1>7. QED
  BY <1>1, <1>4, <1>5, <1>6

LEMMA TypesKept ==
  ASSUME TypeOK, IsFiniteSet(DOMAIN outs), [Next]_vars
  PROVE  TypeOK'
<1>1. CASE Extract \/ SyncConfigured
  BY <1>1, ExtractTyped, SyncConfiguredTyped
<1>2. CASE EnableOutput \/ DisableOutput \/ ConfigureOutput \/ EndRequests
  BY <1>2, RequestsTyped
<1>3. CASE MaterializeConnected \/ MaterializeDisconnected
  BY <1>3, ConnectedTyped, DisconnectedTyped
<1>4. CASE UpdateProperties \/ ApplyCommand
  BY <1>4, UpdatePropertiesTyped, ApplyCommandTyped
<1>5. CASE EndMaterialize
  BY <1>5 DEF EndMaterialize, TypeOK, outside, world, shell, subapp, history
<1>6. CASE ApplyControl \/ \E arriving \in SUBSET Animated : FinishFrame(arriving)
  BY <1>6, ApplyControlTyped, FinishFrameTyped
<1>7. CASE Users
  BY <1>7, UsersTyped
<1>8. CASE ReloadConfig
  BY <1>8 DEF ReloadConfig, Spend, TypeOK, world, shell, subapp, history
<1>9. CASE SwitchSession
  BY <1>9 DEF SwitchSession, Spend, TypeOK, world, shell, subapp, history
<1>10. CASE UNCHANGED vars
  BY <1>10 DEF vars, TypeOK, outside, world, shell, subapp, history
<1>11. QED
  BY <1>1, <1>2, <1>3, <1>4, <1>5, <1>6, <1>7, <1>8, <1>9, <1>10 DEF Next, Frame

-----------------------------------------------------------------------------
(* What is turned off stays in that set.                                   *)

LEMMA TurnedOffGrows ==
  ASSUME TypeOK, [Next]_vars
  PROVE  turnedOff \subseteq turnedOff'
<1>1. CASE Users
  BY <1>1 DEF Users, TurnOutput, SetMode, MoveViewport
<1>2. CASE UNCHANGED vars
  BY <1>2 DEF vars, history
<1>3. CASE ReloadConfig \/ SwitchSession
  BY <1>3 DEF ReloadConfig, SwitchSession, history
<1>4. CASE Extract \/ SyncConfigured
  BY <1>4 DEF Extract, SyncConfigured, history
<1>5. CASE EnableOutput \/ DisableOutput \/ ConfigureOutput \/ EndRequests
  BY <1>5 DEF EnableOutput, DisableOutput, ConfigureOutput, EndRequests, NextRequest, history
<1>6. CASE MaterializeConnected \/ MaterializeDisconnected \/ UpdateProperties \/ ApplyCommand
           \/ EndMaterialize
  BY <1>6 DEF MaterializeConnected, MaterializeDisconnected, UpdateProperties, ApplyCommand,
              EndMaterialize, NextChange, history
<1>7. CASE ApplyControl \/ \E arriving \in SUBSET Animated : FinishFrame(arriving)
  BY <1>7 DEF ApplyControl, FinishFrame, history
<1>8. QED
  BY <1>1, <1>2, <1>3, <1>4, <1>5, <1>6, <1>7 DEF Next, Frame

\* What was well founded stays so.
LEMMA FoundedGrows ==
  ASSUME turnedOff \subseteq turnedOff'
  PROVE  /\ \A q \in Seq(FoundedRequest) : q \in Seq(FoundedRequest')
         /\ \A q \in Seq(FoundedControl) : q \in Seq(FoundedControl')
         /\ \A q \in Seq(SoundChange) : q \in Seq(SoundChange')
<1>1. /\ FoundedRequest \subseteq FoundedRequest' /\ FoundedControl \subseteq FoundedControl'
      /\ SoundChange \subseteq SoundChange'
  BY DEF FoundedRequest, FoundedControl, SoundChange, Alike
<1>2. QED
  BY <1>1, SeqMonotonic

-----------------------------------------------------------------------------
(* Requests and controls.                                                  *)

\* The requests a configuration makes are founded once it is read.
LEMMA ConfigRequestsFounded ==
  ASSUME TypeOK, Disables(ConfigRequests) \subseteq turnedOff'
  PROVE  ConfigRequests \in Seq(FoundedRequest')
<1>1. ConfigRequests \in Seq(Request)
  BY ConfigRequestsTyped
<1> DEFINE q == ConfigRequests
<1>2. q \in Seq(Request) /\ Len(q) \in Nat /\ DOMAIN q = 1 .. Len(q)
      /\ \A i \in 1 .. Len(q) : q[i] \in Request
  BY <1>1, LenProperties
<1>3. \A i \in 1 .. Len(q) : q[i].op = "disable" => q[i].name \in turnedOff'
  BY <1>2 DEF Disables, ToSet
<1> HIDE DEF q
<1>4. q \in [1 .. Len(q) -> FoundedRequest']
  BY <1>2, <1>3, LenProperties DEF FoundedRequest
<1>5. q \in Seq(FoundedRequest')
  BY <1>2, <1>4, FunctionIsSeq
<1>6. QED
  BY <1>5 DEF q

LEMMA ControlFounded ==
  ASSUME TypeOK, NEW c \in FoundedControl
  PROVE  /\ ControlRequests(c) \in Seq(FoundedRequest)
         /\ MoveWaits(c) \in Seq(FoundedControl)
<1>1. c \in Control /\ (c.enabled = FALSE => c.name \in turnedOff)
  BY DEF FoundedControl
<1>2. /\ EnableRequest(c.name) \in FoundedRequest
      /\ c.enabled = FALSE => DisableRequest(c.name) \in FoundedRequest
      /\ c.mode # None => ConfigureRequest(c.name, c.mode) \in FoundedRequest
  BY <1>1 DEF Control, FoundedRequest, Request, EnableRequest, DisableRequest, ConfigureRequest
<1>3. [c EXCEPT !.enabled = None, !.mode = None] \in Control
  BY <1>1 DEF Control
<1> DEFINE on == CASE c.enabled = None -> <<>>
                   [] c.enabled = TRUE -> <<EnableRequest(c.name)>>
                   [] c.enabled = FALSE -> <<DisableRequest(c.name)>>
           as == IF c.mode = None THEN <<>> ELSE <<ConfigureRequest(c.name, c.mode)>>
<1>4. on \in Seq(FoundedRequest)
  <2>1. CASE c.enabled = None
    <3>1. on = <<>>
      BY <2>1, MarkersType
    <3>2. QED
      BY <3>1, EmptySeq
  <2>2. CASE c.enabled # None
    <3>1. c.enabled = TRUE \/ c.enabled = FALSE
      BY <1>1, <2>2 DEF Control
    <3>2. CASE c.enabled = TRUE
      BY <1>2, <2>2, <3>2, Single
    <3>3. CASE c.enabled = FALSE
      BY <1>2, <2>2, <3>3, Single
    <3>4. QED
      BY <3>1, <3>2, <3>3
  <2>3. QED
    BY <2>1, <2>2
<1>5. as \in Seq(FoundedRequest)
  BY <1>2, Single, EmptySeq
<1>6. ControlRequests(c) = on \o as
  BY DEF ControlRequests
<1>7. ControlRequests(c) \in Seq(FoundedRequest)
  <2> HIDE DEF on, as
  <2>1. QED
    BY <1>4, <1>5, <1>6, Joined
<1>8. MoveWaits(c) \in Seq(FoundedControl)
  <2> DEFINE waiting == [c EXCEPT !.enabled = None, !.mode = None]
  <2>1. waiting.enabled = None
    BY <1>1 DEF Control
  <2>2. waiting \in FoundedControl
    BY <1>3, <2>1, MarkersType DEF FoundedControl
  <2>3. MoveWaits(c) = <<>> \/ MoveWaits(c) = <<waiting>>
    BY DEF MoveWaits
  <2> HIDE DEF waiting
  <2>4. QED
    BY <2>2, <2>3, Single, EmptySeq
<1>9. QED
  BY <1>7, <1>8

LEMMA RequestsFoundedKept ==
  ASSUME TypeOK, RequestsFounded, [Next]_vars
  PROVE  RequestsFounded'
<1>1. turnedOff \subseteq turnedOff'
  BY TurnedOffGrows
<1>2. /\ mainRequests \in Seq(FoundedRequest') /\ cmds \in Seq(FoundedRequest')
      /\ requests \in Seq(FoundedRequest')
      /\ controls \in Seq(FoundedControl') /\ deferredControls \in Seq(FoundedControl')
  BY <1>1, FoundedGrows DEF RequestsFounded
<1>3. CASE Extract
  BY <1>2, <1>3 DEF Extract, RequestsFounded, shell
<1>4. CASE SyncConfigured
  <2>1. requests' \in Seq(FoundedRequest')
    <3>1. CASE requests' = requests
      BY <1>2, <3>1
    <3>2. CASE requests' # requests
      <4>1. /\ requests' = requests \o ConfigRequests
            /\ turnedOff' = turnedOff \cup Disables(ConfigRequests)
        BY <1>4, <3>2 DEF SyncConfigured
      <4>2. ConfigRequests \in Seq(FoundedRequest')
        BY <4>1, ConfigRequestsFounded
      <4>3. QED
        BY <1>2, <4>1, <4>2, Joined
    <3>3. QED
      BY <3>1, <3>2
  <2>2. QED
    BY <1>2, <1>4, <2>1 DEF SyncConfigured, RequestsFounded, shell
<1>5. CASE EnableOutput \/ DisableOutput \/ ConfigureOutput
  <2>1. requests # <<>> /\ requests' = Tail(requests)
    BY <1>5 DEF EnableOutput, DisableOutput, ConfigureOutput, NextRequest, IsRequest
  <2>2. requests' \in Seq(FoundedRequest')
    BY <1>2, <2>1, HeadTailProperties
  <2>3. QED
    BY <1>2, <1>5, <2>2
    DEF EnableOutput, DisableOutput, ConfigureOutput, NextRequest, RequestsFounded, shell
<1>6. CASE EndRequests
  BY <1>2, <1>6 DEF EndRequests, RequestsFounded, shell, subapp
<1>7. CASE MaterializeConnected \/ MaterializeDisconnected \/ UpdateProperties \/ ApplyCommand
           \/ EndMaterialize
  BY <1>2, <1>7 DEF MaterializeConnected, MaterializeDisconnected, UpdateProperties, ApplyCommand,
              EndMaterialize, NextChange, RequestsFounded, shell, subapp
<1>8. CASE ApplyControl
  <2> DEFINE c == Head(controls)
  <2>1. c \in FoundedControl /\ Tail(controls) \in Seq(FoundedControl)
    BY <1>8, HeadTailProperties DEF ApplyControl, RequestsFounded
  <2>2. ControlRequests(c) \in Seq(FoundedRequest) /\ MoveWaits(c) \in Seq(FoundedControl)
    BY <2>1, ControlFounded
  <2>3. /\ mainRequests' = mainRequests \o ControlRequests(c)
        /\ deferredControls' = deferredControls \/ deferredControls' = deferredControls \o MoveWaits(c)
        /\ controls' = Tail(controls)
    BY <1>8 DEF ApplyControl
  <2> HIDE DEF c
  <2>4. mainRequests' \in Seq(FoundedRequest)
    BY <2>2, <2>3, Joined DEF RequestsFounded
  <2>5. deferredControls \o MoveWaits(c) \in Seq(FoundedControl)
    BY <2>2, Joined DEF RequestsFounded
  <2>6. deferredControls' \in Seq(FoundedControl) /\ controls' \in Seq(FoundedControl)
    BY <2>1, <2>3, <2>5 DEF RequestsFounded
  <2>7. /\ mainRequests' \in Seq(FoundedRequest') /\ controls' \in Seq(FoundedControl')
        /\ deferredControls' \in Seq(FoundedControl')
    BY <1>1, <2>4, <2>6, FoundedGrows
  <2>8. QED
    BY <1>2, <1>8, <2>7 DEF ApplyControl, RequestsFounded, subapp
<1>9. CASE \E arriving \in SUBSET Animated : FinishFrame(arriving)
  <2>1. /\ controls' = deferredControls /\ deferredControls' = <<>> /\ cmds' = mainRequests
        /\ requests' = requests /\ mainRequests' = mainRequests
    BY <1>9 DEF FinishFrame
  <2>2. QED
    BY <1>2, <2>1, EmptySeq DEF RequestsFounded
<1>10. CASE Users
  <2>1. PICK n \in Names :
          \/ \E on \in BOOLEAN : TurnOutput(n, on)
          \/ \E mode \in Modes \cup {Invalid} : SetMode(n, mode)
          \/ \E v \in Viewports : MoveViewport(n, v)
    BY <1>10 DEF Users
  <2>2. controls' \in Seq(FoundedControl')
    <3>1. CASE \E on \in BOOLEAN : TurnOutput(n, on)
      <4>1. PICK on \in BOOLEAN : TurnOutput(n, on)
        BY <3>1
      <4>2. on = FALSE => n \in turnedOff'
        BY <4>1 DEF TurnOutput
      <4>3. [Blank(n) EXCEPT !.enabled = on] \in FoundedControl'
        BY <4>2 DEF Blank, Control, FoundedControl
      <4>4. \A c \in FoundedControl' : c.name = n => [c EXCEPT !.enabled = on] \in FoundedControl'
        BY <4>2 DEF Control, FoundedControl
      <4>5. Merged(n, "enabled", on) \in Seq(FoundedControl')
        BY <1>2, <4>3, <4>4, MergedIs
      <4>6. QED
        BY <4>1, <4>5 DEF TurnOutput, GiveCommand
    <3>2. CASE \E mode \in Modes \cup {Invalid} : SetMode(n, mode)
      <4>1. PICK mode \in Modes \cup {Invalid} : SetMode(n, mode)
        BY <3>2
      <4>3. [Blank(n) EXCEPT !.mode = mode] \in FoundedControl'
        BY MarkersType DEF Blank, Control, FoundedControl
      <4>4. \A c \in FoundedControl' : c.name = n => [c EXCEPT !.mode = mode] \in FoundedControl'
        BY DEF Control, FoundedControl
      <4>5. Merged(n, "mode", mode) \in Seq(FoundedControl')
        BY <1>2, <4>3, <4>4, MergedIs
      <4>6. QED
        BY <4>1, <4>5 DEF SetMode, GiveCommand
    <3>3. CASE \E v \in Viewports : MoveViewport(n, v)
      <4>1. PICK v \in Viewports : MoveViewport(n, v)
        BY <3>3
      <4>3. [Blank(n) EXCEPT !.origin = v] \in FoundedControl'
        BY MarkersType DEF Blank, Control, FoundedControl
      <4>4. \A c \in FoundedControl' : c.name = n => [c EXCEPT !.origin = v] \in FoundedControl'
        BY DEF Control, FoundedControl
      <4>5. Merged(n, "origin", v) \in Seq(FoundedControl')
        BY <1>2, <4>3, <4>4, MergedIs
      <4>6. QED
        BY <4>1, <4>5 DEF MoveViewport, GiveCommand
    <3>4. QED
      BY <2>1, <3>1, <3>2, <3>3
  <2>3. QED
    BY <1>2, <2>1, <2>2
    DEF TurnOutput, SetMode, MoveViewport, GiveCommand, RequestsFounded, subapp
<1>11. CASE ReloadConfig \/ SwitchSession
  BY <1>2, <1>11 DEF ReloadConfig, SwitchSession, RequestsFounded, shell, subapp
<1>12. CASE UNCHANGED vars
  BY <1>2, <1>12 DEF vars, RequestsFounded, shell, subapp
<1>13. QED
  BY <1>3, <1>4, <1>5, <1>6, <1>7, <1>8, <1>9, <1>10, <1>11, <1>12 DEF Next, Frame

-----------------------------------------------------------------------------
(* Plans.                                                                  *)

\* What does not announce a connector can be added to a plan.
LEMMA OnceAppended ==
  ASSUME NEW q \in Seq(Change), OnceEach(q), NEW e \in Change,
         e.change = "connected" => e.owner \notin Connectors
  PROVE  OnceEach(Append(q, e))
<1>1. /\ Len(q) \in Nat /\ DOMAIN q = 1 .. Len(q)
      /\ DOMAIN Append(q, e) = 1 .. Len(q) + 1
      /\ \A i \in 1 .. Len(q) : Append(q, e)[i] = q[i]
      /\ Append(q, e)[Len(q) + 1] = e
  BY AppendProperties, LenProperties
<1> DEFINE a == Append(q, e)
<1> HIDE DEF a
<1>2. SUFFICES ASSUME NEW i \in DOMAIN a, NEW j \in DOMAIN a,
                      a[i].change = "connected", a[j].change = "connected",
                      a[i].owner = a[j].owner, a[i].owner \in Connectors
               PROVE  i = j
  BY DEF OnceEach, a
<1>3. i # Len(q) + 1 /\ j # Len(q) + 1
  BY <1>1, <1>2 DEF a
<1>4. i \in DOMAIN q /\ j \in DOMAIN q
  BY <1>1, <1>2, <1>3 DEF a
<1>5. a[i] = q[i] /\ a[j] = q[j]
  BY <1>1, <1>4 DEF a
<1>6. QED
  BY <1>2, <1>4, <1>5 DEF OnceEach

LEMMA OnceLeft ==
  ASSUME NEW q \in Seq(Change), OnceEach(q), q # <<>>
  PROVE  OnceEach(Tail(q))
<1>1. /\ Len(q) \in Nat /\ DOMAIN q = 1 .. Len(q) /\ DOMAIN Tail(q) = 1 .. Len(q) - 1
      /\ \A i \in 1 .. Len(q) - 1 : Tail(q)[i] = q[i + 1]
  BY HeadTailProperties, LenProperties
<1>2. \A i \in DOMAIN Tail(q) : i + 1 \in DOMAIN q /\ Tail(q)[i] = q[i + 1] /\ i \in Int
  BY <1>1
<1>3. \A i, j \in DOMAIN Tail(q) : i + 1 = j + 1 => i = j
  BY <1>1
<1>4. QED
  BY <1>2, <1>3 DEF OnceEach

LEMMA OnceJoined ==
  ASSUME NEW p \in Seq(Change), OnceEach(p), NEW q \in Seq(Change),
         \A i \in DOMAIN q : q[i].owner \notin Connectors
  PROVE  OnceEach(p \o q)
<1> DEFINE a == p \o q
<1>1. /\ Len(p) \in Nat /\ DOMAIN p = 1 .. Len(p)
      /\ Len(q) \in Nat /\ DOMAIN q = 1 .. Len(q)
      /\ DOMAIN a = 1 .. Len(p) + Len(q)
      /\ \A i \in 1 .. Len(p) + Len(q) : a[i] = IF i <= Len(p) THEN p[i] ELSE q[i - Len(p)]
  BY ConcatProperties, LenProperties
<1> HIDE DEF a
<1>2. SUFFICES ASSUME NEW i \in DOMAIN a, NEW j \in DOMAIN a,
                      a[i].change = "connected", a[j].change = "connected",
                      a[i].owner = a[j].owner, a[i].owner \in Connectors
               PROVE  i = j
  BY DEF OnceEach, a
<1>3. \A k \in DOMAIN a : a[k].owner \in Connectors => k \in DOMAIN p /\ a[k] = p[k]
  <2>1. ASSUME NEW k \in DOMAIN a, a[k].owner \in Connectors PROVE k <= Len(p)
    <3>1. ASSUME ~ (k <= Len(p)) PROVE FALSE
      <4>1. k - Len(p) \in DOMAIN q /\ a[k] = q[k - Len(p)]
        BY <1>1, <3>1
      <4>2. QED
        BY <2>1, <4>1
    <3>2. QED
      BY <3>1
  <2>2. QED
    BY <1>1, <2>1
<1>4. QED
  BY <1>2, <1>3 DEF OnceEach

LEMMA PlansSoundKept ==
  ASSUME TypeOK, OutputsOnce, RequestsFounded, PlansSound, [Next]_vars
  PROVE  PlansSound'
<1>1. turnedOff \subseteq turnedOff'
  BY TurnedOffGrows
<1>2. /\ events \in Seq(SoundChange') /\ OnceEach(events)
      /\ ingress.lifecycle \in Seq(SoundChange') /\ OnceEach(ingress.lifecycle)
  BY <1>1, FoundedGrows DEF PlansSound
<1>3. \A q \in Seq(SoundChange) : q \in Seq(Change)
  BY SeqMonotonic DEF SoundChange
<1>4. /\ events \in Seq(Change) /\ ingress.lifecycle \in Seq(Change)
      /\ events \in Seq(SoundChange) /\ ingress.lifecycle \in Seq(SoundChange)
  BY <1>3 DEF PlansSound
<1>5. CASE Extract
  <2>1. PICK announced \in Announcement : events' = announced \o Seeded(announced)
    BY <1>5 DEF Extract
  <2>2. /\ announced \in Seq(SoundChange) /\ OnceEach(announced)
        /\ Seeded(announced) \in Seq(SoundChange)
        /\ \A i \in DOMAIN Seeded(announced) : Seeded(announced)[i].owner \notin Connectors
    BY AnnouncedSound, SeededSound
  <2>3. events' \in Seq(SoundChange)
    BY <2>1, <2>2, Joined
  <2>4. OnceEach(events')
    BY <1>3, <2>1, <2>2, OnceJoined
  <2>5. events' \in Seq(SoundChange')
    BY <1>1, <2>3, FoundedGrows
  <2>6. QED
    BY <1>2, <1>5, <2>4, <2>5 DEF Extract, PlansSound, shell, OnceEach
<1>6. CASE EnableOutput
  <2> DEFINE c == Connected(Primary, CurrentRequest.name, Preferred)
  <2>1. CASE events' = events
    BY <1>2, <1>6, <2>1 DEF EnableOutput, NextRequest, PlansSound, shell, OnceEach
  <2>2. CASE events' # events
    <3>1. events' = Append(events, c) /\ Virtual
      BY <1>6, <2>2 DEF EnableOutput
    <3>2. CurrentRequest.name \in Names
      BY <1>6, RequestTyped DEF EnableOutput
    <3>3. c \in Change /\ c.owner = Primary /\ c.change = "connected"
      BY <3>1, <3>2, NamesAre, ModesType DEF Connected, Change
    <3> HIDE DEF c
    <3>4. c \in SoundChange
      BY <3>3, NamesAre DEF SoundChange, Alike
    <3>5. events' \in Seq(SoundChange) /\ OnceEach(events')
      BY <1>2, <1>4, <3>1, <3>3, <3>4, NamesAre, AppendProperties, OnceAppended
    <3>6. events' \in Seq(SoundChange')
      BY <1>1, <3>5, FoundedGrows
    <3>7. QED
      BY <1>2, <1>6, <3>5, <3>6 DEF EnableOutput, NextRequest, PlansSound, shell, OnceEach
  <2>3. QED
    BY <2>1, <2>2
<1>7. CASE DisableOutput
  <2> DEFINE n == CurrentRequest.name
  <2>1. CASE events' = events
    BY <1>2, <1>7, <2>1 DEF DisableOutput, NextRequest, PlansSound, shell, OnceEach
  <2>2. CASE events' # events
    <3>1. PICK owner \in OwnersOf(n) : events' = Append(events, Disconnected(owner, n))
      BY <1>7, <2>2 DEF DisableOutput
    <3>2. n \in Names
      BY <1>7, RequestTyped DEF DisableOutput
    <3>3. PICK o \in seen : o.name = n /\ o.owner = owner
      BY DEF OwnersOf
    <3>4. owner \in Owners /\ (owner \in Connectors => n = owner)
      BY <3>3 DEF OutputsOnce, Alike, TypeOK, Seen
    <3>5. n \in turnedOff
      <4>1. requests # <<>> /\ CurrentRequest.op = "disable"
        BY <1>7 DEF DisableOutput, IsRequest
      <4>2. CurrentRequest \in FoundedRequest
        BY <4>1, HeadTailProperties DEF RequestsFounded, CurrentRequest
      <4>3. QED
        BY <4>1, <4>2 DEF FoundedRequest
    <3> DEFINE c == Disconnected(owner, n)
    <3>6. c \in SoundChange /\ c.change = "disconnected"
      BY <3>2, <3>4, <3>5 DEF Disconnected, SoundChange, Change, Alike
    <3>7. c \in Change
      BY <3>6 DEF SoundChange
    <3> HIDE DEF c
    <3>8. events' = Append(events, c)
      BY <3>1 DEF c
    <3>9. events' \in Seq(SoundChange) /\ OnceEach(events')
      BY <1>2, <1>4, <3>6, <3>7, <3>8, AppendProperties, OnceAppended
    <3>10. events' \in Seq(SoundChange')
      BY <1>1, <3>9, FoundedGrows
    <3>11. QED
      BY <1>2, <1>7, <3>9, <3>10 DEF DisableOutput, NextRequest, PlansSound, shell, OnceEach
  <2>3. QED
    BY <2>1, <2>2
<1>8. CASE MaterializeConnected \/ MaterializeDisconnected
  <2>1. /\ ingress.lifecycle # <<>>
        /\ ingress' = [ingress EXCEPT !.lifecycle = Tail(@)]
        /\ events' = events
    BY <1>8 DEF MaterializeConnected, MaterializeDisconnected, NextChange, IsChange, subapp
  <2>2. ingress.lifecycle' = Tail(ingress.lifecycle)
    BY <2>1 DEF TypeOK, Plan
  <2>3. Tail(ingress.lifecycle) \in Seq(SoundChange') /\ OnceEach(Tail(ingress.lifecycle))
    BY <1>2, <1>4, <2>1, HeadTailProperties, OnceLeft
  <2>4. QED
    BY <1>2, <2>1, <2>2, <2>3 DEF PlansSound, OnceEach
<1>9. CASE UpdateProperties
  <2>1. ingress.lifecycle' = ingress.lifecycle /\ events' = events
    BY <1>9 DEF UpdateProperties, TypeOK, Plan, subapp
  <2>2. QED
    BY <1>2, <2>1 DEF PlansSound, OnceEach
<1>10. CASE \E arriving \in SUBSET Animated : FinishFrame(arriving)
  <2>1. ingress.lifecycle' = events /\ events' = <<>>
    BY <1>10 DEF FinishFrame
  <2>2. events' \in Seq(SoundChange') /\ OnceEach(events')
    BY <2>1, EmptySeq DEF OnceEach
  <2>3. QED
    BY <1>2, <2>1, <2>2 DEF PlansSound, OnceEach
<1>11. CASE UNCHANGED <<events, ingress>>
  BY <1>2, <1>11 DEF PlansSound, OnceEach
<1>12. UNCHANGED <<events, ingress>> \/ Extract \/ EnableOutput \/ DisableOutput
       \/ MaterializeConnected \/ MaterializeDisconnected \/ UpdateProperties
       \/ \E arriving \in SUBSET Animated : FinishFrame(arriving)
  <2>1. CASE SyncConfigured \/ ConfigureOutput \/ EndRequests \/ ApplyCommand \/ EndMaterialize
             \/ ApplyControl
    BY <2>1 DEF SyncConfigured, ConfigureOutput, NextRequest, EndRequests, ApplyCommand,
                EndMaterialize, ApplyControl, shell, subapp
  <2>2. CASE Users \/ ReloadConfig \/ SwitchSession
    BY <2>2 DEF Users, TurnOutput, SetMode, MoveViewport, GiveCommand, ReloadConfig, SwitchSession,
                shell, subapp
  <2>3. CASE UNCHANGED vars
    BY <2>3 DEF vars, shell, subapp
  <2>4. QED
    BY <2>1, <2>2, <2>3 DEF Next, Frame
<1>13. QED
  BY <1>5, <1>6, <1>7, <1>8, <1>9, <1>10, <1>11, <1>12

-----------------------------------------------------------------------------
(* Outputs and the commands for them.                                      *)

\* The outputs are the same, with the same names and owners.
SameOutputs ==
  /\ DOMAIN outs' = DOMAIN outs
  /\ \A s \in DOMAIN outs : outs'[s].name = outs[s].name /\ outs'[s].owner = outs[s].owner

\* Only a command changes which outputs there are.
LEMMA OutputsSame ==
  ASSUME TypeOK, [Next]_vars, ~ApplyCommand
  PROVE  SameOutputs
<1>1. outs \in [DOMAIN outs -> Output]
  BY DEF TypeOK
<1>2. CASE UpdateProperties
  <2>1. outs' = outs \/ \E s \in DOMAIN outs : outs' = [outs EXCEPT ![s].mode = Head(ingress.updates).mode]
    BY <1>2 DEF UpdateProperties, Owned
  <2>2. \A m : \A o \in Output : [o EXCEPT !.mode = m].name = o.name /\ [o EXCEPT !.mode = m].owner = o.owner
    BY DEF Output
  <2>3. CASE outs' = outs
    BY <2>3 DEF SameOutputs
  <2>4. CASE outs' # outs
    <3>1. PICK s \in DOMAIN outs : outs' = [outs EXCEPT ![s].mode = Head(ingress.updates).mode]
      BY <2>1, <2>4
    <3> DEFINE m == Head(ingress.updates).mode
    <3>2. outs' = [outs EXCEPT ![s] = [outs[s] EXCEPT !.mode = m]]
      BY <3>1
    <3> HIDE DEF m
    <3>3. QED
      BY <1>1, <2>2, <3>2 DEF SameOutputs
  <2>5. QED
    BY <2>3, <2>4
<1>3. CASE ApplyControl
  <2> DEFINE v == Head(controls).origin
  <2>1. outs' = outs \/ \E s \in DOMAIN outs : outs' = [outs EXCEPT ![s] = Moved(@, v)]
    BY <1>3 DEF ApplyControl, Named
  <2>2. \A o \in Output : Moved(o, v).name = o.name /\ Moved(o, v).owner = o.owner
    BY DEF Output, Moved
  <2> HIDE DEF v
  <2>3. QED
    BY <1>1, <2>1, <2>2 DEF SameOutputs
<1>4. CASE \E arriving \in SUBSET Animated : FinishFrame(arriving)
  <2>1. PICK arriving \in SUBSET Animated : FinishFrame(arriving)
    BY <1>4
  <2>2. outs' = [s \in DOMAIN outs |-> IF s \in arriving THEN Arrived(outs[s]) ELSE outs[s]]
    BY <2>1 DEF FinishFrame
  <2>3. \A o \in Output : Arrived(o).name = o.name /\ Arrived(o).owner = o.owner
    BY DEF Output, Arrived
  <2>4. QED
    BY <1>1, <2>2, <2>3 DEF SameOutputs
<1>5. CASE outs' = outs
  BY <1>5 DEF SameOutputs
<1>6. outs' = outs \/ UpdateProperties \/ ApplyControl
      \/ \E arriving \in SUBSET Animated : FinishFrame(arriving)
  <2>1. CASE Extract \/ SyncConfigured \/ EnableOutput \/ DisableOutput \/ ConfigureOutput
             \/ EndRequests \/ MaterializeConnected \/ MaterializeDisconnected \/ EndMaterialize
    BY <2>1 DEF Extract, SyncConfigured, EnableOutput, DisableOutput, ConfigureOutput, NextRequest,
                EndRequests, MaterializeConnected, MaterializeDisconnected, NextChange,
                EndMaterialize, world
  <2>2. CASE Users \/ ReloadConfig \/ SwitchSession
    BY <2>2 DEF Users, TurnOutput, SetMode, MoveViewport, GiveCommand, ReloadConfig, SwitchSession,
                world
  <2>3. CASE UNCHANGED vars
    BY <2>3 DEF vars, world
  <2>4. QED
    BY <2>1, <2>2, <2>3 DEF Next, Frame
<1>7. QED
  BY <1>2, <1>3, <1>4, <1>5, <1>6

\* A command stands before those that are left.
LEMMA CommandsLeft ==
  ASSUME TypeOK, ApplyCommand
  PROVE  /\ commands \in Seq(Command) /\ Len(commands) \in Nat /\ DOMAIN commands = 1 .. Len(commands)
         /\ 1 \in DOMAIN commands /\ Head(commands) = commands[1] /\ commands[1] \in Command
         /\ commands' = Tail(commands)
         /\ DOMAIN commands' = 1 .. Len(commands) - 1
         /\ \A i \in DOMAIN commands' : i + 1 \in DOMAIN commands /\ commands'[i] = commands[i + 1]
                                        /\ i + 1 # 1 /\ i \in Int
         /\ outs' = Applied(commands[1])
<1>1. commands \in Seq(Command) /\ commands # <<>> /\ commands' = Tail(commands)
      /\ outs' = Applied(Head(commands))
  BY DEF TypeOK, ApplyCommand
<1>2. Len(commands) \in Nat /\ DOMAIN commands = 1 .. Len(commands) /\ Len(commands) # 0
  BY <1>1, LenProperties, EmptySeq
<1>3. Head(commands) = commands[1]
  BY <1>1
<1>4. /\ Tail(commands) \in Seq(Command) /\ Len(Tail(commands)) = Len(commands) - 1
      /\ \A i \in 1 .. Len(Tail(commands)) : Tail(commands)[i] = commands[i + 1]
      /\ Head(commands) \in Command
  BY <1>1, HeadTailProperties
<1>5. DOMAIN Tail(commands) = 1 .. Len(commands) - 1
  BY <1>4, LenProperties
<1>6. QED
  BY <1>1, <1>2, <1>3, <1>4, <1>5

\* What one command does to the outputs.
LEMMA AppliedIs ==
  ASSUME TypeOK, NEW c \in Command
  PROVE  /\ c.op \in {"spawn", "insert", "despawn"}
         /\ c.op = "spawn" =>
              /\ DOMAIN Applied(c) = DOMAIN outs \cup {c.slot} /\ Applied(c)[c.slot] = c.output
              /\ \A s \in DOMAIN outs : s # c.slot => Applied(c)[s] = outs[s]
         /\ c.op = "insert" =>
              /\ DOMAIN Applied(c) = DOMAIN outs
              /\ \A s \in DOMAIN outs :
                   /\ Applied(c)[s].owner = outs[s].owner
                   /\ s # c.slot => Applied(c)[s] = outs[s]
                   /\ s = c.slot => Applied(c)[s].name = c.name
         /\ c.op = "despawn" =>
              /\ DOMAIN Applied(c) = DOMAIN outs \ {c.slot}
              /\ \A s \in DOMAIN outs \ {c.slot} : Applied(c)[s] = outs[s]
<1>1. c.op \in {"spawn", "insert", "despawn"}
  BY DEF Command
<1>2. CASE c.op = "spawn"
  <2>1. Applied(c) = [s \in DOMAIN outs \cup {c.slot} |-> IF s = c.slot THEN c.output ELSE outs[s]]
    BY <1>2 DEF Applied
  <2>2. QED
    BY <1>2, <2>1
<1>3. CASE c.op = "insert"
  <2>1. Applied(c) = [s \in DOMAIN outs |->
                        IF s = c.slot THEN [outs[s] EXCEPT !.name = c.name, !.mode = c.mode]
                                      ELSE outs[s]]
    BY <1>3 DEF Applied
  <2>2. \A n, m : \A o \in Output : /\ [o EXCEPT !.name = n, !.mode = m].owner = o.owner
                                    /\ [o EXCEPT !.name = n, !.mode = m].name = n
    BY DEF Output
  <2>3. \A s \in DOMAIN outs : outs[s] \in Output
    BY DEF TypeOK
  <2>4. ASSUME NEW s \in DOMAIN outs
        PROVE  /\ Applied(c)[s].owner = outs[s].owner
               /\ s # c.slot => Applied(c)[s] = outs[s]
               /\ s = c.slot => Applied(c)[s].name = c.name
    <3>1. CASE s = c.slot
      <4>1. Applied(c)[s] = [outs[s] EXCEPT !.name = c.name, !.mode = c.mode]
        BY <2>1, <3>1
      <4>2. QED
        BY <2>2, <2>3, <3>1, <4>1
    <3>2. CASE s # c.slot
      BY <2>1, <3>2
    <3>3. QED
      BY <3>1, <3>2
  <2>5. DOMAIN Applied(c) = DOMAIN outs
    BY <2>1
  <2>6. QED
    BY <1>3, <2>4, <2>5
<1>4. CASE c.op = "despawn"
  <2>1. Applied(c) = [s \in DOMAIN outs \ {c.slot} |-> outs[s]]
    BY <1>4 DEF Applied
  <2>2. QED
    BY <1>4, <2>1
<1>5. QED
  BY <1>1, <1>2, <1>3, <1>4

LEMMA OutputsOnceKept ==
  ASSUME TypeOK, OutputsOnce, CommandsSound, [Next]_vars
  PROVE  OutputsOnce'
<1>1. \A o \in seen' : Alike(o)
  <2>1. CASE Extract
    <3>1. seen' = Snapshot
      BY <2>1 DEF Extract
    <3>2. \A s \in DOMAIN outs : Alike(outs[s])
      BY DEF OutputsOnce
    <3>3. QED
      BY <3>1, <3>2 DEF Snapshot, Alike
  <2>2. CASE seen' = seen
    BY <2>2 DEF OutputsOnce
  <2>3. Extract \/ seen' = seen
    <3>1. CASE SyncConfigured \/ EnableOutput \/ DisableOutput \/ ConfigureOutput \/ EndRequests
               \/ MaterializeConnected \/ MaterializeDisconnected \/ UpdateProperties \/ ApplyCommand
               \/ EndMaterialize
      BY <3>1 DEF SyncConfigured, EnableOutput, DisableOutput, ConfigureOutput, NextRequest,
                  EndRequests, MaterializeConnected, MaterializeDisconnected, UpdateProperties,
                  ApplyCommand, EndMaterialize, NextChange, subapp
    <3>2. CASE ApplyControl \/ \E arriving \in SUBSET Animated : FinishFrame(arriving)
      BY <3>2 DEF ApplyControl, FinishFrame, subapp
    <3>3. CASE Users \/ ReloadConfig \/ SwitchSession
      BY <3>3 DEF Users, TurnOutput, SetMode, MoveViewport, GiveCommand, ReloadConfig,
                  SwitchSession, subapp
    <3>4. CASE UNCHANGED vars
      BY <3>4 DEF vars, subapp
    <3>5. QED
      BY <3>1, <3>2, <3>3, <3>4 DEF Next, Frame
  <2>4. QED
    BY <2>1, <2>2, <2>3
<1>2. CASE ~ApplyCommand
  <2>1. SameOutputs
    BY <1>2, OutputsSame
  <2>2. QED
    BY <1>1, <2>1 DEF SameOutputs, OutputsOnce, Alike
<1>3. CASE ApplyCommand
  <2> DEFINE c == commands[1]
  <2>1. 1 \in DOMAIN commands /\ c \in Command /\ outs' = Applied(c)
    BY <1>3, CommandsLeft
  <2>2. /\ c.op = "spawn" => SpawnSound(1)
        /\ c.op = "insert" => InsertSound(1)
    BY <2>1 DEF CommandsSound
  <2>3. CASE c.op = "spawn"
    <3>1. /\ DOMAIN outs' = DOMAIN outs \cup {c.slot} /\ outs'[c.slot] = c.output
          /\ \A s \in DOMAIN outs : s # c.slot => outs'[s] = outs[s]
      BY <2>1, <2>3, AppliedIs
    <3>2. /\ c.slot \notin DOMAIN outs /\ Alike(c.output)
          /\ c.output.owner \in Connectors => \A s \in DOMAIN outs : outs[s].owner # c.output.owner
      BY <2>2, <2>3 DEF SpawnSound
    <3> HIDE DEF c
    <3>3. IsFiniteSet(DOMAIN outs')
      BY <3>1, FS_AddElement DEF OutputsOnce
    <3>4. \A s \in DOMAIN outs' : Alike(outs'[s])
      BY <3>1, <3>2 DEF OutputsOnce
    <3>5. \A s, t \in DOMAIN outs' :
            outs'[s].owner = outs'[t].owner /\ outs'[s].owner \in Connectors => s = t
      BY <3>1, <3>2 DEF OutputsOnce
    <3>6. QED
      BY <1>1, <3>3, <3>4, <3>5 DEF OutputsOnce, Alike
  <2>4. CASE c.op = "insert"
    <3>1. /\ DOMAIN outs' = DOMAIN outs
          /\ \A s \in DOMAIN outs : /\ outs'[s].owner = outs[s].owner
                                    /\ s # c.slot => outs'[s] = outs[s]
                                    /\ s = c.slot => outs'[s].name = c.name
      BY <2>1, <2>4, AppliedIs
    <3>2. c.slot \in DOMAIN outs /\ outs[c.slot].owner \in Connectors => c.name = outs[c.slot].owner
      BY <2>2, <2>4 DEF InsertSound
    <3> HIDE DEF c
    <3>3. \A s \in DOMAIN outs' : Alike(outs'[s])
      BY <3>1, <3>2 DEF OutputsOnce, Alike
    <3>4. QED
      BY <1>1, <3>1, <3>3 DEF OutputsOnce, Alike
  <2>5. CASE c.op = "despawn"
    <3>1. /\ DOMAIN outs' = DOMAIN outs \ {c.slot}
          /\ \A s \in DOMAIN outs \ {c.slot} : outs'[s] = outs[s]
      BY <2>1, <2>5, AppliedIs
    <3> HIDE DEF c
    <3>2. IsFiniteSet(DOMAIN outs')
      BY <3>1, FS_Subset DEF OutputsOnce
    <3>3. QED
      BY <1>1, <3>1, <3>2 DEF OutputsOnce, Alike
  <2>6. QED
    BY <2>1, <2>3, <2>4, <2>5, AppliedIs
<1>4. QED
  BY <1>2, <1>3

LEMMA MemoryKept ==
  ASSUME TypeOK, MemoryTrue, [Next]_vars
  PROVE  MemoryTrue'
<1>1. CASE UNCHANGED <<remembered, lastViewport>>
  BY <1>1 DEF MemoryTrue, Restored
<1>2. CASE \E arriving \in SUBSET Animated : FinishFrame(arriving)
  <2>1. PICK arriving \in SUBSET Animated : FinishFrame(arriving)
    BY <1>2
  <2>2. PICK last \in [{n \in Names : Named(n) # {}} -> DOMAIN outs] :
          /\ remembered' = [n \in Names |-> IF n \in DOMAIN last THEN RememberedAfter(n, last[n])
                                                                ELSE remembered[n]]
          /\ lastViewport' = [n \in Names |-> IF n \in DOMAIN last THEN outs'[last[n]].viewport
                                                                  ELSE lastViewport[n]]
    BY <2>1 DEF FinishFrame
  <2>3. TypeOK' /\ SameOutputs
    <3>1. TypeOK'
      BY <2>1, FinishFrameTyped
    <3>2. ~ApplyCommand
      BY <2>1 DEF FinishFrame, ApplyCommand
    <3>3. QED
      BY <3>1, <3>2, OutputsSame
  <2>4. ASSUME NEW n \in Names PROVE Restored(n)' = lastViewport'[n]
    <3>1. CASE n \in DOMAIN last
      <4>1. last[n] \in DOMAIN outs'
        BY <2>3, <3>1 DEF SameOutputs
      <4>2. outs'[last[n]].viewport \in Viewports
        BY <2>3, <4>1 DEF TypeOK, Output
      <4>3. remembered'[n] = outs'[last[n]].viewport /\ lastViewport'[n] = outs'[last[n]].viewport
        BY <2>2, <3>1 DEF RememberedAfter
      <4>4. QED
        BY <4>2, <4>3, ViewportsType DEF Restored
    <3>2. CASE n \notin DOMAIN last
      <4>1. remembered'[n] = remembered[n] /\ lastViewport'[n] = lastViewport[n]
        BY <2>2, <3>2
      <4>2. QED
        BY <4>1 DEF Restored, MemoryTrue
    <3>3. QED
      BY <3>1, <3>2
  <2>5. QED
    BY <2>4 DEF MemoryTrue
<1>3. UNCHANGED <<remembered, lastViewport>> \/ \E arriving \in SUBSET Animated : FinishFrame(arriving)
  <2>1. CASE Extract \/ SyncConfigured \/ EnableOutput \/ DisableOutput \/ ConfigureOutput
             \/ EndRequests \/ MaterializeConnected \/ MaterializeDisconnected
             \/ UpdateProperties \/ ApplyCommand \/ EndMaterialize \/ ApplyControl
    BY <2>1 DEF Extract, SyncConfigured, EnableOutput, DisableOutput, ConfigureOutput, NextRequest,
                EndRequests, MaterializeConnected, MaterializeDisconnected, UpdateProperties,
                ApplyCommand, EndMaterialize, ApplyControl, NextChange, world, history
  <2>2. CASE Users \/ ReloadConfig \/ SwitchSession
    BY <2>2 DEF Users, TurnOutput, SetMode, MoveViewport, GiveCommand, ReloadConfig, SwitchSession,
                world, history
  <2>3. CASE UNCHANGED vars
    BY <2>3 DEF vars, world, history
  <2>4. QED
    BY <2>1, <2>2, <2>3 DEF Next, Frame
<1>4. QED
  BY <1>1, <1>2, <1>3

\* What is said of the commands stays true while the outputs, the commands and the plan
\* are the same or the plan gets shorter.
LEMMA CommandsSoundUnchanged ==
  ASSUME CommandsSound, SameOutputs, commands' = commands, lastViewport' = lastViewport,
         turnedOff \subseteq turnedOff', stage' = stage,
         \A k \in DOMAIN ingress'.lifecycle :
           \E m \in DOMAIN ingress.lifecycle : ingress'.lifecycle[k] = ingress.lifecycle[m]
  PROVE  CommandsSound'
<1>1. \A i \in DOMAIN commands : SpawnSound(i) => SpawnSound(i)'
  BY DEF SpawnSound, SameOutputs, Alike
<1>2. \A i \in DOMAIN commands : InsertSound(i) => InsertSound(i)'
  BY DEF InsertSound, SameOutputs
<1>3. \A i \in DOMAIN commands : DespawnSound(i) => DespawnSound(i)'
  BY DEF DespawnSound, SameOutputs
<1>4. QED
  BY <1>1, <1>2, <1>3 DEF CommandsSound

\* One more command at the end, and a plan that is shorter by the change it is for.
LEMMA CommandsSoundAppended ==
  ASSUME TypeOK, CommandsSound, NEW c \in Command, NEW n \in Nat, n = Len(commands),
         stage = "materialize", stage' = stage, outs' = outs, lastViewport' = lastViewport,
         turnedOff' = turnedOff, commands' = Append(commands, c),
         \A k \in DOMAIN ingress'.lifecycle :
           \E m \in DOMAIN ingress.lifecycle : ingress'.lifecycle[k] = ingress.lifecycle[m],
         \A i \in DOMAIN commands : commands[i].op = "spawn" =>
           commands[i].slot # c.slot /\
           (commands[i].output.owner \in Connectors /\ c.op = "spawn" =>
              c.output.owner # commands[i].output.owner),
         c.op = "spawn" => SpawnSound(n + 1)',
         c.op = "insert" => InsertSound(n + 1)',
         c.op = "despawn" => DespawnSound(n + 1)'
  PROVE  CommandsSound'
<1>1. /\ DOMAIN commands = 1 .. n /\ DOMAIN commands' = 1 .. n + 1
      /\ \A i \in 1 .. n : commands'[i] = commands[i]
      /\ commands'[n + 1] = c
  BY AppendProperties, LenProperties DEF TypeOK
<1>2. ASSUME NEW i \in DOMAIN commands
      PROVE  /\ commands'[i].op = "spawn" => SpawnSound(i)'
             /\ commands'[i].op = "insert" => InsertSound(i)'
             /\ commands'[i].op = "despawn" => DespawnSound(i)'
  <2>1. commands'[i] = commands[i] /\ i # n + 1 /\ i \in DOMAIN commands'
    BY <1>1
  <2>2. CASE commands[i].op = "spawn"
    <3>1. SpawnSound(i)
      BY <2>2 DEF CommandsSound
    <3>2. \A j \in DOMAIN commands' : j \in DOMAIN commands \/ j = n + 1
      BY <1>1
    <3>3. \A j \in DOMAIN commands' : commands'[j].slot = commands'[i].slot => j = i
      <4>1. ASSUME NEW j \in DOMAIN commands', commands'[j].slot = commands'[i].slot PROVE j = i
        <5>1. CASE j \in DOMAIN commands
          BY <1>1, <2>1, <3>1, <4>1, <5>1 DEF SpawnSound
        <5>2. CASE j = n + 1
          BY <1>1, <2>1, <2>2, <4>1, <5>2
        <5>3. QED
          BY <3>2, <5>1, <5>2
      <4>2. QED
        BY <4>1
    <3>4. ASSUME commands'[i].output.owner \in Connectors, NEW j \in DOMAIN commands',
                 commands'[j].op = "spawn", commands'[j].output.owner = commands'[i].output.owner
          PROVE  j = i
      <4>1. CASE j \in DOMAIN commands
        BY <1>1, <2>1, <3>1, <3>4, <4>1 DEF SpawnSound
      <4>2. CASE j = n + 1
        BY <1>1, <2>1, <2>2, <3>4, <4>2
      <4>3. QED
        BY <3>2, <4>1, <4>2
    <3>5. ASSUME commands'[i].output.owner \in Connectors, NEW k \in DOMAIN ingress'.lifecycle
          PROVE  ~ (/\ ingress'.lifecycle[k].change = "connected"
                    /\ ingress'.lifecycle[k].owner = commands'[i].output.owner)
      BY <2>1, <3>1, <3>5 DEF SpawnSound
    <3>6. SpawnSound(i)'
      BY <2>1, <3>1, <3>3, <3>4, <3>5 DEF SpawnSound, Alike
    <3>7. QED
      BY <2>1, <2>2, <3>6
  <2>3. CASE commands[i].op # "spawn"
    BY <2>1, <2>3 DEF CommandsSound, InsertSound, DespawnSound
  <2>4. QED
    BY <2>2, <2>3
<1>3. \A i \in DOMAIN commands' : i \in DOMAIN commands \/ i = n + 1
  BY <1>1
<1>4. /\ commands'[n + 1].op = "spawn" => SpawnSound(n + 1)'
      /\ commands'[n + 1].op = "insert" => InsertSound(n + 1)'
      /\ commands'[n + 1].op = "despawn" => DespawnSound(n + 1)'
  BY <1>1
<1>5. ASSUME NEW i \in DOMAIN commands'
      PROVE  /\ commands'[i].op = "spawn" => SpawnSound(i)'
             /\ commands'[i].op = "insert" => InsertSound(i)'
             /\ commands'[i].op = "despawn" => DespawnSound(i)'
  <2>1. CASE i = n + 1
    BY <1>4, <2>1
  <2>2. QED
    BY <1>2, <1>3, <2>1
<1>6. QED
  BY <1>5 DEF CommandsSound

\* What a change of the plan leaves of it.
LEMMA PlanShrinks ==
  ASSUME TypeOK, NEW change, IsChange(change), NextChange
  PROVE  /\ ingress'.lifecycle = Tail(ingress.lifecycle)
         /\ 1 \in DOMAIN ingress.lifecycle /\ Head(ingress.lifecycle) = ingress.lifecycle[1]
         /\ \A k \in DOMAIN ingress'.lifecycle :
              /\ k + 1 \in DOMAIN ingress.lifecycle /\ k + 1 # 1
              /\ ingress'.lifecycle[k] = ingress.lifecycle[k + 1]
         /\ \A k \in DOMAIN ingress'.lifecycle :
              \E m \in DOMAIN ingress.lifecycle : ingress'.lifecycle[k] = ingress.lifecycle[m]
         /\ stage = "materialize" /\ stage' = stage /\ outs' = outs
         /\ lastViewport' = lastViewport /\ turnedOff' = turnedOff
<1> DEFINE q == ingress.lifecycle
<1>1. q \in Seq(Change) /\ q # <<>>
  BY ChangeTyped
<1>2. ingress'.lifecycle = Tail(q)
  BY DEF NextChange, TypeOK, Plan
<1> HIDE DEF q
<1>3. /\ Len(q) \in Nat /\ Len(q) # 0 /\ DOMAIN q = 1 .. Len(q) /\ Head(q) = q[1]
      /\ DOMAIN Tail(q) = 1 .. Len(q) - 1
      /\ \A k \in 1 .. Len(q) - 1 : Tail(q)[k] = q[k + 1]
  BY <1>1, LenProperties, HeadTailProperties, EmptySeq
<1>4. \A k \in DOMAIN Tail(q) : k + 1 \in DOMAIN q /\ k + 1 # 1 /\ Tail(q)[k] = q[k + 1]
  BY <1>3
<1>5. 1 \in DOMAIN q /\ Head(q) = q[1]
  BY <1>3
<1>6. stage = "materialize" /\ stage' = stage /\ outs' = outs
      /\ lastViewport' = lastViewport /\ turnedOff' = turnedOff
  BY DEF IsChange, NextChange, history
<1>7. QED
  BY <1>2, <1>4, <1>5, <1>6 DEF q

LEMMA ConnectedSound ==
  ASSUME TypeOK, OutputsOnce, PlansSound, CommandsSound, MemoryTrue, MaterializeConnected
  PROVE  CommandsSound'
<1> DEFINE e == Head(ingress.lifecycle)
           Insert(s) == [op |-> "insert", slot |-> s, name |-> e.name, mode |-> e.mode]
           born == [name |-> e.name, owner |-> e.owner, mode |-> e.mode,
                    viewport |-> Restored(e.name), target |-> None]
           spawn == [op |-> "spawn", slot |-> FreeSlot, output |-> born]
<1>0. PICK n \in Nat : n = Len(commands)
  BY LenProperties DEF TypeOK
<1>1. IsChange("connected") /\ NextChange
  BY DEF MaterializeConnected
<1>2. e \in Change /\ e.change = "connected" /\ e.name \in Names /\ e.owner \in Owners
      /\ e.mode \in Modes
  <2>1. e \in Change /\ e.change = "connected"
    BY <1>1, ChangeTyped
  <2> HIDE DEF e
  <2>2. QED
    BY <2>1 DEF Change
<1>3. Alike(e)
  <2>1. e \in SoundChange
    BY <1>1, ChangeTyped, HeadTailProperties DEF PlansSound
  <2> HIDE DEF e
  <2>2. QED
    BY <2>1 DEF SoundChange
<1>4. /\ 1 \in DOMAIN ingress.lifecycle /\ e = ingress.lifecycle[1]
      /\ \A k \in DOMAIN ingress'.lifecycle :
           /\ k + 1 \in DOMAIN ingress.lifecycle /\ k + 1 # 1
           /\ ingress'.lifecycle[k] = ingress.lifecycle[k + 1]
      /\ \A k \in DOMAIN ingress'.lifecycle :
           \E m \in DOMAIN ingress.lifecycle : ingress'.lifecycle[k] = ingress.lifecycle[m]
      /\ stage = "materialize" /\ stage' = stage /\ outs' = outs
      /\ lastViewport' = lastViewport /\ turnedOff' = turnedOff
  BY <1>1, PlanShrinks
<1>5. commands \in Seq(Command) /\ n \in Nat /\ DOMAIN commands = 1 .. n
  BY <1>0, LenProperties DEF TypeOK
<1>6. \A i \in DOMAIN commands : commands[i].op = "spawn" => SpawnSound(i)
  BY DEF CommandsSound
<1>7. CASE \E s \in DOMAIN outs : outs[s].owner = e.owner /\ commands' = Append(commands, Insert(s))
  <2>1. PICK s \in DOMAIN outs : outs[s].owner = e.owner /\ commands' = Append(commands, Insert(s))
    BY <1>7
  <2> DEFINE c == Insert(s)
  <2>2. c \in Command /\ c.op = "insert" /\ c.slot = s /\ c.name = e.name
    <3>1. s \in Nat
      BY DEF TypeOK
    <3> HIDE DEF e
    <3>2. QED
      BY <1>2, <3>1 DEF Command
  <2> HIDE DEF c, e
  <2>3. commands' = Append(commands, c)
    BY <2>1 DEF c, e
  <2>4. DOMAIN commands' = 1 .. n + 1 /\ commands'[n + 1] = c
    BY <1>0, <1>5, <2>2, <2>3, AppendProperties, LenProperties
  <2>5. InsertSound(n + 1)'
    BY <1>3, <1>4, <2>1, <2>2, <2>4 DEF InsertSound, Alike
  <2>6. \A i \in DOMAIN commands : commands[i].op = "spawn" => commands[i].slot # c.slot
    BY <1>6, <2>1, <2>2 DEF SpawnSound
  <2>7. QED
    BY <1>0, <1>4, <1>5, <2>2, <2>3, <2>5, <2>6, CommandsSoundAppended
<1>8. CASE Owned(e.owner) = {} /\ commands' = Append(commands, spawn)
  <2> DEFINE c == spawn
  <2>1. FreeSlot \in Nat /\ FreeSlot \notin DOMAIN outs
        /\ \A i \in DOMAIN commands : commands[i].slot # FreeSlot
    BY FreeSlotFresh DEF OutputsOnce
  <2>2. c \in Command /\ c.op = "spawn" /\ c.slot = FreeSlot /\ c.output.owner = e.owner
        /\ c.output.name = e.name /\ c.output.viewport = Restored(e.name)
    <3>1. Restored(e.name) \in Viewports
      BY <1>2, RestoredTyped
    <3> HIDE DEF e
    <3>2. born \in Output
      BY <1>2, <3>1 DEF Output
    <3>3. born.owner = e.owner /\ born.name = e.name /\ born.viewport = Restored(e.name)
      OBVIOUS
    <3> HIDE DEF born
    <3>4. QED
      BY <2>1, <3>2, <3>3 DEF Command
  <2>3. commands' = Append(commands, c)
    BY <1>8
  <2> HIDE DEF c, e
  <2>4. /\ DOMAIN commands' = 1 .. n + 1 /\ commands'[n + 1] = c
        /\ \A i \in 1 .. n : commands'[i] = commands[i]
    BY <1>0, <1>5, <2>2, <2>3, AppendProperties, LenProperties
  <2>5. \A i \in DOMAIN commands :
          commands[i].op = "spawn" /\ commands[i].output.owner \in Connectors
            => commands[i].output.owner # e.owner
    BY <1>2, <1>4, <1>6 DEF SpawnSound
  <2>6. SpawnSound(n + 1)'
    <3>1. \A j \in DOMAIN commands' : j \in DOMAIN commands \/ j = n + 1
      BY <1>5, <2>4
    <3>2. \A j \in DOMAIN commands' : commands'[j].slot = c.slot => j = n + 1
      BY <1>5, <2>1, <2>2, <2>4, <3>1
    <3>3. c.output.viewport = lastViewport'[c.output.name]
      BY <1>2, <1>4, <2>2 DEF MemoryTrue
    <3>4. \A s \in DOMAIN outs' : outs'[s].owner # c.output.owner
      BY <1>4, <1>8, <2>2 DEF Owned
    <3>5. \A j \in DOMAIN commands' :
            c.output.owner \in Connectors /\ commands'[j].op = "spawn"
              /\ commands'[j].output.owner = c.output.owner => j = n + 1
      BY <1>5, <2>2, <2>4, <2>5, <3>1
    <3>6. ASSUME c.output.owner \in Connectors, NEW k \in DOMAIN ingress'.lifecycle
          PROVE  ~ (/\ ingress'.lifecycle[k].change = "connected"
                    /\ ingress'.lifecycle[k].owner = c.output.owner)
      <4>1. /\ k + 1 \in DOMAIN ingress.lifecycle /\ k + 1 # 1
            /\ ingress'.lifecycle[k] = ingress.lifecycle[k + 1]
        BY <1>4
      <4>2. QED
        BY <1>2, <1>4, <2>2, <3>6, <4>1 DEF PlansSound, OnceEach
    <3>7. c.slot \notin DOMAIN outs' /\ Alike(c.output)
      BY <1>3, <1>4, <2>1, <2>2 DEF Alike
    <3>8. QED
      BY <2>4, <3>2, <3>3, <3>4, <3>5, <3>6, <3>7 DEF SpawnSound, Alike
  <2>7. \A i \in DOMAIN commands : commands[i].op = "spawn" =>
           commands[i].slot # c.slot /\
           (commands[i].output.owner \in Connectors /\ c.op = "spawn" =>
              c.output.owner # commands[i].output.owner)
    BY <2>1, <2>2, <2>5
  <2>8. QED
    BY <1>0, <1>4, <1>5, <2>2, <2>3, <2>6, <2>7, CommandsSoundAppended
<1>9. QED
  BY <1>7, <1>8 DEF MaterializeConnected, Match, Owned

LEMMA DisconnectedSound ==
  ASSUME TypeOK, OutputsOnce, PlansSound, CommandsSound, MaterializeDisconnected
  PROVE  CommandsSound'
<1> DEFINE e == Head(ingress.lifecycle)
           doomed == SetToSeq(Owned(e.owner))
           ds == [i \in DOMAIN doomed |-> [op |-> "despawn", slot |-> doomed[i]]]
           n == Len(commands)
<1>1. IsChange("disconnected") /\ NextChange /\ commands' = commands \o ds
  BY DEF MaterializeDisconnected
<1>2. /\ \A k \in DOMAIN ingress'.lifecycle :
           \E m \in DOMAIN ingress.lifecycle : ingress'.lifecycle[k] = ingress.lifecycle[m]
      /\ stage = "materialize" /\ stage' = stage /\ outs' = outs
      /\ lastViewport' = lastViewport /\ turnedOff' = turnedOff
  BY <1>1, PlanShrinks
<1>3. e.owner \in Connectors => e.owner \in turnedOff
  <2>1. e \in SoundChange /\ e.change = "disconnected"
    BY <1>1, ChangeTyped, HeadTailProperties DEF PlansSound
  <2> HIDE DEF e
  <2>2. QED
    BY <2>1 DEF SoundChange, Alike
<1> HIDE DEF e
<1>4. doomed \in [1 .. Cardinality(Owned(e.owner)) -> Owned(e.owner)] /\ ds \in Seq(Command)
      /\ Cardinality(Owned(e.owner)) \in Nat
  BY DoomedTyped DEF OutputsOnce
<1>5. \A i \in DOMAIN ds : /\ ds[i].op = "despawn" /\ ds[i].slot \in DOMAIN outs
                           /\ outs[ds[i].slot].owner = e.owner
  BY <1>4 DEF Owned
<1> HIDE DEF ds
<1>6. commands \in Seq(Command) /\ n \in Nat /\ DOMAIN commands = 1 .. n
      /\ Len(ds) \in Nat /\ DOMAIN ds = 1 .. Len(ds)
  BY <1>4, LenProperties DEF TypeOK
<1> HIDE DEF n
<1>7. /\ DOMAIN commands' = 1 .. n + Len(ds)
      /\ \A i \in 1 .. n + Len(ds) : commands'[i] = IF i <= n THEN commands[i] ELSE ds[i - n]
  BY <1>1, <1>4, <1>6, ConcatProperties, LenProperties DEF n
<1>8. \A i \in DOMAIN commands : i \in DOMAIN commands' /\ commands'[i] = commands[i]
  BY <1>6, <1>7
<1>9. \A i \in DOMAIN commands' \ DOMAIN commands :
        /\ commands'[i].op = "despawn" /\ commands'[i].slot \in DOMAIN outs
        /\ outs[commands'[i].slot].owner = e.owner
  <2>1. ASSUME NEW i \in DOMAIN commands' \ DOMAIN commands
        PROVE  i - n \in DOMAIN ds /\ commands'[i] = ds[i - n]
    BY <1>6, <1>7
  <2>2. QED
    BY <1>5, <2>1
<1>10. ASSUME NEW i \in DOMAIN commands'
       PROVE  /\ commands'[i].op = "spawn" => SpawnSound(i)'
              /\ commands'[i].op = "insert" => InsertSound(i)'
              /\ commands'[i].op = "despawn" => DespawnSound(i)'
  <2>1. CASE i \in DOMAIN commands /\ commands[i].op = "spawn"
    <3>1. SpawnSound(i) /\ commands'[i] = commands[i]
      BY <1>8, <2>1 DEF CommandsSound
    <3>2. \A j \in DOMAIN commands' : commands'[j].slot = commands'[i].slot => j = i
      BY <1>8, <1>9, <3>1 DEF SpawnSound
    <3>3. \A j \in DOMAIN commands' :
            commands'[i].output.owner \in Connectors /\ commands'[j].op = "spawn"
              /\ commands'[j].output.owner = commands'[i].output.owner => j = i
      BY <1>8, <1>9, <2>1, <3>1 DEF SpawnSound
    <3>4. commands'[i].output.owner \in Connectors =>
            \A k \in DOMAIN ingress'.lifecycle :
              ~ (/\ ingress'.lifecycle[k].change = "connected"
                 /\ ingress'.lifecycle[k].owner = commands'[i].output.owner)
      BY <1>2, <3>1 DEF SpawnSound
    <3>5. SpawnSound(i)'
      BY <1>2, <3>1, <3>2, <3>3, <3>4 DEF SpawnSound, Alike
    <3>6. QED
      BY <2>1, <3>1, <3>5
  <2>2. CASE i \in DOMAIN commands /\ commands[i].op # "spawn"
    BY <1>2, <1>8, <2>2 DEF CommandsSound, InsertSound, DespawnSound
  <2>3. CASE i \notin DOMAIN commands
    BY <1>2, <1>3, <1>9, <2>3 DEF DespawnSound
  <2>4. QED
    BY <2>1, <2>2, <2>3
<1>11. QED
  BY <1>2, <1>10 DEF CommandsSound

LEMMA AppliedSound ==
  ASSUME TypeOK, OutputsOnce, CommandsSound, ApplyCommand
  PROVE  CommandsSound'
<1> DEFINE c == commands[1]
<1>1. /\ 1 \in DOMAIN commands /\ c \in Command /\ outs' = Applied(c)
      /\ \A i \in DOMAIN commands' : i + 1 \in DOMAIN commands /\ commands'[i] = commands[i + 1]
                                     /\ i + 1 # 1 /\ i \in Int
  BY CommandsLeft
<1>2. /\ stage = "materialize" /\ stage' = stage /\ lastViewport' = lastViewport
      /\ turnedOff' = turnedOff /\ ingress' = ingress
  BY DEF ApplyCommand, shell, history
<1>3. /\ c.op \in {"spawn", "insert", "despawn"}
      /\ c.op = "spawn" =>
           /\ DOMAIN outs' = DOMAIN outs \cup {c.slot} /\ outs'[c.slot] = c.output
           /\ \A s \in DOMAIN outs : s # c.slot => outs'[s] = outs[s]
           /\ SpawnSound(1)
      /\ c.op = "insert" =>
           /\ DOMAIN outs' = DOMAIN outs
           /\ \A s \in DOMAIN outs : outs'[s].owner = outs[s].owner
      /\ c.op = "despawn" =>
           /\ DOMAIN outs' = DOMAIN outs \ {c.slot}
           /\ \A s \in DOMAIN outs \ {c.slot} : outs'[s] = outs[s]
  BY <1>1, AppliedIs DEF CommandsSound
<1>4. ASSUME NEW i \in DOMAIN commands'
      PROVE  /\ commands'[i].op = "spawn" => SpawnSound(i)'
             /\ commands'[i].op = "insert" => InsertSound(i)'
             /\ commands'[i].op = "despawn" => DespawnSound(i)'
  <2> DEFINE j == i + 1
  <2>1. j \in DOMAIN commands /\ commands'[i] = commands[j] /\ j # 1
    BY <1>1
  <2> HIDE DEF c, j
  \* The output that is new is none the other commands speak of.
  <2>2. c.op = "spawn" => c.slot # commands[j].slot
    BY <1>3, <2>1 DEF SpawnSound, c
  <2>3. CASE commands[j].op = "spawn"
    <3>1. SpawnSound(j)
      BY <2>1, <2>3 DEF CommandsSound
    <3>2. commands'[i].slot \notin DOMAIN outs'
      BY <1>3, <2>1, <2>2, <3>1 DEF SpawnSound
    <3>3. \A k \in DOMAIN commands' : commands'[k].slot = commands'[i].slot => k = i
      <4>1. ASSUME NEW k \in DOMAIN commands', commands'[k].slot = commands'[i].slot PROVE k = i
        <5>1. k + 1 \in DOMAIN commands /\ commands'[k] = commands[k + 1] /\ k \in Int /\ i \in Int
          BY <1>1
        <5>2. k + 1 = i + 1
          BY <2>1, <3>1, <4>1, <5>1 DEF SpawnSound, j
        <5>3. QED
          BY <5>1, <5>2
      <4>2. QED
        BY <4>1
    <3>4. ASSUME commands'[i].output.owner \in Connectors, NEW k \in DOMAIN commands',
                 commands'[k].op = "spawn", commands'[k].output.owner = commands'[i].output.owner
          PROVE  k = i
      <4>1. k + 1 \in DOMAIN commands /\ commands'[k] = commands[k + 1] /\ k \in Int /\ i \in Int
        BY <1>1
      <4>2. k + 1 = i + 1
        BY <2>1, <3>1, <3>4, <4>1 DEF SpawnSound, j
      <4>3. QED
        BY <4>1, <4>2
    <3>5. ASSUME commands'[i].output.owner \in Connectors, NEW s \in DOMAIN outs'
          PROVE  outs'[s].owner # commands'[i].output.owner
      <4>1. c.op = "spawn" => c.output.owner # commands[j].output.owner
        BY <1>1, <2>1, <2>3, <3>1, <3>5 DEF SpawnSound, c
      <4>2. QED
        BY <1>3, <2>1, <3>1, <3>5, <4>1 DEF SpawnSound
    <3>6. SpawnSound(i)'
      BY <1>2, <2>1, <3>1, <3>2, <3>3, <3>4, <3>5 DEF SpawnSound, Alike
    <3>7. QED
      BY <2>1, <2>3, <3>6
  <2>4. CASE commands[j].op = "insert"
    <3>1. InsertSound(j)
      BY <2>1, <2>4 DEF CommandsSound
    <3>2. QED
      BY <1>3, <2>1, <2>2, <2>4, <3>1 DEF InsertSound
  <2>5. CASE commands[j].op = "despawn"
    <3>1. DespawnSound(j)
      BY <2>1, <2>5 DEF CommandsSound
    <3>2. QED
      BY <1>2, <1>3, <2>1, <2>2, <2>5, <3>1 DEF DespawnSound
  <2>6. QED
    BY <2>1, <2>3, <2>4, <2>5
<1>5. QED
  BY <1>2, <1>4 DEF CommandsSound
LEMMA CommandsSoundKept ==
  ASSUME TypeOK, OutputsOnce, PlansSound, CommandsSound, MemoryTrue, [Next]_vars
  PROVE  CommandsSound'
<1>1. CASE MaterializeConnected \/ MaterializeDisconnected
  BY <1>1, ConnectedSound, DisconnectedSound
<1>2. CASE ApplyCommand
  BY <1>2, AppliedSound
<1>3. CASE UpdateProperties
  <2>1. SameOutputs
    <3>1. ~ApplyCommand
      BY <1>3 DEF UpdateProperties, ApplyCommand, EmptyPlan
    <3>2. QED
      BY <1>3, <3>1, OutputsSame DEF Next, Frame
  <2>2. /\ commands' = commands /\ lastViewport' = lastViewport /\ turnedOff' = turnedOff
        /\ stage' = stage
    BY <1>3 DEF UpdateProperties, history
  <2>3. ingress'.lifecycle = ingress.lifecycle
    BY <1>3 DEF UpdateProperties, TypeOK, Plan
  <2>4. QED
    BY <2>1, <2>2, <2>3, CommandsSoundUnchanged
<1>4. CASE UNCHANGED vars
  <2>1. /\ outs' = outs /\ commands' = commands /\ lastViewport' = lastViewport
        /\ turnedOff' = turnedOff /\ stage' = stage /\ ingress' = ingress
    BY <1>4 DEF vars, world, shell, history
  <2>2. SameOutputs
    BY <2>1 DEF SameOutputs
  <2>3. QED
    BY <2>1, <2>2, CommandsSoundUnchanged
<1>5. CASE stage # "materialize" /\ commands' = commands
  <2>1. commands' = <<>>
    BY <1>5 DEF CommandsSound
  <2>2. QED
    BY <2>1 DEF CommandsSound
<1>6. CASE EndMaterialize
  <2>1. commands' = <<>>
    BY <1>6 DEF EndMaterialize, world
  <2>2. QED
    BY <2>1 DEF CommandsSound
<1>7. CASE Extract \/ SyncConfigured \/ EnableOutput \/ DisableOutput \/ ConfigureOutput \/ EndRequests
  <2>1. stage # "materialize" /\ commands' = commands
    BY <1>7 DEF Extract, SyncConfigured, EnableOutput, DisableOutput, ConfigureOutput, IsRequest,
                NextRequest, EndRequests, world
  <2>2. QED
    BY <1>5, <2>1
<1>8. CASE ApplyControl \/ \E arriving \in SUBSET Animated : FinishFrame(arriving)
  <2>1. stage # "materialize" /\ commands' = commands
    BY <1>8 DEF ApplyControl, FinishFrame
  <2>2. QED
    BY <1>5, <2>1
<1>9. CASE Users \/ ReloadConfig \/ SwitchSession
  <2>1. stage # "materialize" /\ commands' = commands
    BY <1>9 DEF Users, TurnOutput, SetMode, MoveViewport, GiveCommand, ReloadConfig, SwitchSession,
                Spend, world
  <2>2. QED
    BY <1>5, <2>1
<1>10. QED
  BY <1>1, <1>2, <1>3, <1>4, <1>6, <1>7, <1>8, <1>9 DEF Next, Frame

-----------------------------------------------------------------------------
(* The invariant and what follows from it.                                 *)

LEMMA InitInv == Init => IInv
<1> SUFFICES ASSUME Init PROVE IInv
  OBVIOUS
<1>1. TypeOK
  BY InitTyped
<1>2. DOMAIN outs = {} /\ seen = {}
  BY DEF Init
<1>3. OutputsOnce
  BY <1>2, FS_EmptySet DEF OutputsOnce
<1>4. \A S : <<>> \in Seq(S)
  OBVIOUS
<1>5. PlansSound
  <2>1. events = <<>> /\ ingress.lifecycle = <<>>
    BY DEF Init, EmptyPlan
  <2>2. QED
    BY <1>4, <2>1 DEF PlansSound, OnceEach
<1>6. RequestsFounded
  BY <1>4 DEF Init, RequestsFounded
<1>7. CommandsSound
  <2>1. commands = <<>>
    BY DEF Init
  <2>2. QED
    BY <2>1 DEF CommandsSound
<1>8. MemoryTrue
  BY DEF Init, MemoryTrue, Restored
<1>9. QED
  BY <1>1, <1>3, <1>5, <1>6, <1>7, <1>8 DEF IInv

LEMMA StepInv == IInv /\ [Next]_vars => IInv'
<1> SUFFICES ASSUME IInv, [Next]_vars PROVE IInv'
  OBVIOUS
<1>1. TypeOK /\ OutputsOnce /\ PlansSound /\ RequestsFounded /\ CommandsSound /\ MemoryTrue
  BY DEF IInv
<1>2. TypeOK'
  BY <1>1, TypesKept DEF OutputsOnce
<1>3. OutputsOnce'
  BY <1>1, OutputsOnceKept
<1>4. RequestsFounded' /\ PlansSound'
  BY <1>1, RequestsFoundedKept, PlansSoundKept
<1>5. CommandsSound' /\ MemoryTrue'
  BY <1>1, CommandsSoundKept, MemoryKept
<1>6. QED
  BY <1>2, <1>3, <1>4, <1>5 DEF IInv

LEMMA Invariance == Spec => []IInv
BY InitInv, StepInv, PTL DEF Spec

\* A connector has one output at most, and both worlds keep of outputs what they may,
\* although plans are made on one state of the outputs and carried out on a later one.
THEOREM OutputsAreSound == Spec => []OutputsSound
<1>1. IInv => OutputsSound
  <2> SUFFICES ASSUME IInv PROVE OutputsSound
    OBVIOUS
  <2>1. ASSUME NEW c \in Connectors PROVE Cardinality(Owned(c)) <= 1
    <3>1. \A s, t \in Owned(c) : s = t
      BY <2>1 DEF IInv, OutputsOnce, Owned
    <3>2. CASE Owned(c) = {}
      BY <3>2, FS_EmptySet
    <3>3. CASE Owned(c) # {}
      <4>1. PICK s \in Owned(c) : TRUE
        BY <3>3
      <4>2. Owned(c) = {s}
        BY <3>1, <4>1
      <4>3. Cardinality({s}) = 1
        BY FS_Singleton
      <4>4. QED
        BY <4>2, <4>3
    <3>4. QED
      BY <3>2, <3>3
  <2>2. QED
    BY <2>1 DEF IInv, OutputsSound, ConnectorsOnce
<1>2. QED
  BY <1>1, Invariance, PTL

\* An output goes only if it is a virtual one or was turned off, and one that appears
\* shows what was last seen on an output of its name, whatever was asked for since the
\* plan that brings it was made.
LEMMA OutputStep ==
  ASSUME IInv, [Next]_vars
  PROVE  /\ \A s \in DOMAIN outs :
              s \notin DOMAIN outs' => outs[s].owner = Primary \/ outs[s].name \in turnedOff
         /\ \A s \in DOMAIN outs' \ DOMAIN outs :
              outs'[s].viewport = lastViewport[outs'[s].name]
<1>1. TypeOK /\ OutputsOnce /\ CommandsSound
  BY DEF IInv
<1>2. CASE ~ApplyCommand
  BY <1>1, <1>2, OutputsSame DEF SameOutputs
<1>3. CASE ApplyCommand
  <2> DEFINE c == commands[1]
  <2>1. 1 \in DOMAIN commands /\ c \in Command /\ outs' = Applied(c)
    BY <1>1, <1>3, CommandsLeft
  <2>2. /\ c.op = "spawn" => SpawnSound(1)
        /\ c.op = "despawn" => DespawnSound(1)
    BY <1>1, <2>1 DEF CommandsSound
  <2>3. c.op \in {"spawn", "insert", "despawn"}
    BY <1>1, <2>1, AppliedIs
  <2>4. CASE c.op = "spawn"
    <3>1. DOMAIN outs' = DOMAIN outs \cup {c.slot} /\ outs'[c.slot] = c.output
      BY <1>1, <2>1, <2>4, AppliedIs
    <3>2. c.output.viewport = lastViewport[c.output.name]
      BY <2>2, <2>4 DEF SpawnSound
    <3> HIDE DEF c
    <3>3. QED
      BY <3>1, <3>2
  <2>5. CASE c.op = "insert"
    <3>1. DOMAIN outs' = DOMAIN outs
      BY <1>1, <2>1, <2>5, AppliedIs
    <3>2. QED
      BY <3>1
  <2>6. CASE c.op = "despawn"
    <3>1. DOMAIN outs' = DOMAIN outs \ {c.slot}
      BY <1>1, <2>1, <2>6, AppliedIs
    <3>2. c.slot \in DOMAIN outs /\ outs[c.slot].owner \in Connectors
            => outs[c.slot].owner \in turnedOff
      BY <2>2, <2>6 DEF DespawnSound
    <3>3. \A s \in DOMAIN outs : outs[s].owner \in Connectors => outs[s].name = outs[s].owner
      BY <1>1 DEF OutputsOnce, Alike
    <3>4. \A s \in DOMAIN outs : outs[s].owner \in Connectors \cup {Primary}
      BY <1>1 DEF TypeOK, Output, Owners
    <3> HIDE DEF c
    <3>5. QED
      BY <3>1, <3>2, <3>3, <3>4
  <2>7. QED
    BY <2>3, <2>4, <2>5, <2>6
<1>4. QED
  BY <1>2, <1>3

\* An output stays until it is turned off by name, and comes back as it was: through
\* pauses, reloads and plans that are a frame behind.
THEOREM OutputsDoStay == Spec => OutputsStay
<1>1. IInv /\ [Next]_vars =>
        [\A s \in DOMAIN outs :
           s \notin DOMAIN outs' => outs[s].owner = Primary \/ outs[s].name \in turnedOff]_vars
  BY OutputStep
<1>2. IInv /\ [Next]_vars =>
        [\A s \in DOMAIN outs' \ DOMAIN outs :
           outs'[s].viewport = lastViewport[outs'[s].name]]_vars
  BY OutputStep
<1>3. QED
  BY <1>1, <1>2, Invariance, PTL DEF Spec, OutputsStay, OnlyTurnedOffGo, ViewportSurvives

-----------------------------------------------------------------------------
(* The DRM device.                                                         *)

\* What is dropped is dropped together, a device is opened only when nothing is left
\* of the last one, and what is kept of its renderer has then survived a pause.
LEMMA ExtractKeepsOpening == D!OneOpening /\ D!Extract => D!OneOpening'
<1> SUFFICES ASSUME D!OneOpening, D!Extract PROVE D!OneOpening'
  OBVIOUS
<1> DEFINE kept == IF D!Dropped THEN None ELSE device
           gbmKept == IF D!Dropped THEN None ELSE gbm
           rendererKept == IF D!Dropped THEN None ELSE renderer
<1>1. /\ gbmKept \in {None, kept} /\ rendererKept \in {None, gbmKept}
      /\ \A c \in DOMAIN surfaces' : surfaces'[c].on = kept
      /\ DOMAIN surfaces' # {} => rendererKept # None
      /\ \A k \in DOMAIN execution \ survivors' :
           rendererKept # None /\ execution[k] = rendererKept
  <2>1. CASE D!Dropped
    BY <2>1 DEF D!Extract, D!KeptSurfaces, D!Empty
  <2>2. CASE ~ D!Dropped
    BY <2>2 DEF D!Extract, D!KeptSurfaces, D!OneOpening
  <2>3. QED
    BY <2>1, <2>2
<1>2. PICK opened, allocated \in BOOLEAN :
        /\ opened => kept = None
        /\ device' = IF opened THEN openings + 1 ELSE kept
        /\ allocated => gbmKept = None
        /\ gbm' = IF allocated THEN device' ELSE gbmKept
  BY DEF D!Extract
<1>3. renderer' = rendererKept /\ execution' = execution
  BY DEF D!Extract
<1> HIDE DEF kept, gbmKept, rendererKept
<1>4. gbm' \in {None, device'} /\ renderer' \in {None, gbm'}
  BY <1>1, <1>2, <1>3
<1>5. \A c \in DOMAIN surfaces' : surfaces'[c].on = device'
  BY <1>1, <1>2
<1>6. QED
  BY <1>1, <1>3, <1>4, <1>5 DEF D!OneOpening

\* A surface is made on the open device, by a renderer, and a target by that renderer
\* unless there is one already.
LEMMA DrawKeepsOpening ==
  ASSUME D!OneOpening, D!Draw, UNCHANGED <<device, gbm, survivors>>
  PROVE  D!OneOpening'
<1>1. gbm # None /\ renderer' = IF renderer = None THEN gbm ELSE renderer
  BY DEF D!Draw, D!Ready
<1>2. PICK made \in SUBSET (D!Seen \ DOMAIN surfaces) :
      \E prepared \in SUBSET (D!Seen \cap (made \cup DOMAIN surfaces)), shared \in SUBSET {Shaders} :
        /\ surfaces' = D!Only([c \in made \cup DOMAIN surfaces |->
             IF c \in made THEN [on |-> device, crtc |-> heads[c]] ELSE surfaces[c]], D!Seen)
        /\ execution' = [k \in DOMAIN execution \cup prepared \cup shared |->
             IF k \in DOMAIN execution THEN execution[k] ELSE renderer']
  BY Zenon DEF D!Draw
<1>3. PICK more : execution' = [k \in DOMAIN execution \cup more |->
                    IF k \in DOMAIN execution THEN execution[k] ELSE renderer']
  <2>1. PICK prepared \in SUBSET (D!Seen \cap (made \cup DOMAIN surfaces)),
             shared \in SUBSET {Shaders} :
               execution' = [k \in DOMAIN execution \cup prepared \cup shared |->
                 IF k \in DOMAIN execution THEN execution[k] ELSE renderer']
    BY <1>2
  <2>2. DOMAIN execution \cup prepared \cup shared = DOMAIN execution \cup (prepared \cup shared)
    OBVIOUS
  <2>3. QED
    BY <2>1, <2>2
<1>4. renderer' # None /\ renderer' \in {None, gbm'}
  BY <1>1 DEF D!OneOpening
<1>5. \A c \in DOMAIN surfaces' : surfaces'[c].on = device'
  BY <1>2 DEF D!Only, D!OneOpening
<1>6. \A k \in DOMAIN execution' \ survivors' : execution'[k] = renderer'
  <2>1. ASSUME NEW k \in DOMAIN execution' \ survivors' PROVE execution'[k] = renderer'
    <3>1. CASE k \in DOMAIN execution
      <4>1. renderer # None /\ execution[k] = renderer
        BY <2>1, <3>1 DEF D!OneOpening
      <4>2. QED
        BY <1>1, <1>3, <3>1, <4>1
    <3>2. CASE k \notin DOMAIN execution
      BY <1>3, <2>1, <3>2
    <3>3. QED
      BY <3>1, <3>2
  <2>2. QED
    BY <2>1
<1>7. QED
  BY <1>4, <1>5, <1>6 DEF D!OneOpening

LEMMA PresentKeepsOpening == D!OneOpening /\ D!Present => D!OneOpening'
<1> SUFFICES ASSUME D!OneOpening, D!Present PROVE D!OneOpening'
  OBVIOUS
<1>1. UNCHANGED <<device, gbm, survivors>>
  BY DEF D!Present
<1>2. CASE D!Draw
  BY <1>1, <1>2, DrawKeepsOpening
<1>3. CASE UNCHANGED <<renderer, surfaces, execution>>
  BY <1>1, <1>3 DEF D!OneOpening
<1>4. QED
  BY <1>2, <1>3 DEF D!Present, D!NoRenderer

\* What is forgotten of an output is neither kept nor counted as a survivor.
LEMMA ReconfigureKeepsOpening ==
  ASSUME D!OneOpening, NEW c \in Heads, D!Reconfigure(c)
  PROVE  D!OneOpening'
<1>1. UNCHANGED <<device, gbm, renderer, surfaces>>
  BY DEF D!Reconfigure, D!Enable, D!Disable, D!Resize, D!Fill, D!pipeline
<1>2. CASE UNCHANGED <<execution, survivors>>
  BY <1>1, <1>2 DEF D!OneOpening
<1>3. CASE D!Forget(c)
  <2>1. \A k \in DOMAIN execution' \ survivors' :
          k \in DOMAIN execution \ survivors /\ execution'[k] = execution[k]
    BY <1>3 DEF D!Forget, D!Only
  <2>2. QED
    BY <1>1, <2>1 DEF D!OneOpening
<1>4. QED
  BY <1>2, <1>3 DEF D!Reconfigure, D!Enable, D!Disable, D!Resize, D!Fill

\* In every session, whatever fails and however often it is tried again, what is opened
\* is opened on the device that is open now, and of what earlier renderers made only
\* that is left which was there when a session was paused.
THEOREM OneOpeningAlways == D!Spec => []OneOpening
<1>1. D!Init => OneOpening
  BY DEF D!Init, OneOpening, D!OneOpening, D!Empty
<1>2. OneOpening /\ [D!Next]_(D!vars) => OneOpening'
  <2> SUFFICES ASSUME D!OneOpening, [D!Next]_(D!vars) PROVE D!OneOpening'
    BY DEF OneOpening
  <2>1. CASE UNCHANGED <<device, gbm, renderer, surfaces, execution, survivors>>
    BY <2>1 DEF D!OneOpening
  <2>2. CASE D!Extract
    BY <2>2, ExtractKeepsOpening
  <2>3. CASE D!Present
    BY <2>3, PresentKeepsOpening
  <2>4. CASE \E c \in Heads : D!Reconfigure(c)
    BY <2>4, ReconfigureKeepsOpening
  <2>5. QED
    BY <2>1, <2>2, <2>3, <2>4 DEF D!Next, D!vars, D!SwitchSession, D!pipeline
<1>3. QED
  BY <1>1, <1>2, PTL DEF D!Spec
=============================================================================
