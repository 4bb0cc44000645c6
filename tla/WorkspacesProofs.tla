-------------------------- MODULE WorkspacesProofs --------------------------
(***************************************************************************)
(* Proofs about Workspaces.                                                *)
(*                                                                         *)
(* The types hold because the snapshot the controls are resolved in is     *)
(* always the set of the workspaces there are.  That no two workspaces     *)
(* have the same id rests on the same fact and on the next id being larger *)
(* than every id; that outputs never share a workspace rests on both and   *)
(* on what the two loops of housekeeping have done so far.                 *)
(***************************************************************************)
EXTENDS Workspaces, FiniteSetTheorems, WellFoundedInduction, TLAPS

-----------------------------------------------------------------------------
(* The largest id                                                          *)

LEMMA LeastExists ==
  ASSUME NEW T \in SUBSET Nat, T # {}
  PROVE  \E x \in T : \A y \in T : x <= y
<1>. DEFINE R == {ss \in Nat \X Nat : ss[1] < ss[2]}
<1>1. R = OpToRel(<, Nat)
  BY DEF OpToRel
<1>2. IsWellFoundedOn(R, Nat)
  BY <1>1, NatLessThanWellFounded
<1>3. \E x \in T : \A y \in T : <<y, x>> \notin R
  <2>. HIDE DEF R
  <2>. QED BY <1>2, WFMin
<1>4. PICK x \in T : \A y \in T : <<y, x>> \notin R
  BY <1>3
<1>5. \A y \in T : x <= y
  <2>. TAKE y \in T
  <2>1. <<y, x>> \in Nat \X Nat /\ ~ (y < x)
    BY <1>4
  <2>. QED BY <2>1
<1>. QED BY <1>5

\* The largest member of a set of ids is one of them and as large as any.
LEMMA MaxIsLargest ==
  ASSUME NEW S \in SUBSET Ids, S # {}
  PROVE  Max(S) \in S /\ \A x \in S : x <= Max(S)
<1>. USE MaxIdType DEF Ids
<1>. DEFINE T == {MaxId - x : x \in S}
<1>1. T \in SUBSET Nat /\ T # {}
  <2>1. \A x \in S : MaxId - x \in Nat
    OBVIOUS
  <2>. QED BY <2>1
<1>2. PICK t \in T : \A y \in T : t <= y
  <2>. HIDE DEF T
  <2>. QED BY <1>1, LeastExists
<1>3. PICK m \in S : t = MaxId - m
  BY <1>2
<1>4. \A x \in S : m >= x
  <2>. TAKE x \in S
  <2>1. MaxId - x \in T /\ MaxId - m <= MaxId - x
    BY <1>2, <1>3
  <2>. QED BY <2>1
<1>. QED BY <1>4 DEF Max

\* The next id is the id of none of the workspaces it was computed from.
LEMMA NextIdIsNew ==
  ASSUME id \in [Entities -> Ids], NEW S \in SUBSET Entities
  PROVE  \A e \in S : id[e] # NextId(S)
<1>1. CASE S = {}
  BY <1>1
<1>2. CASE S # {}
  <2>1. IdsOf(S) \in SUBSET Ids /\ IdsOf(S) # {} /\ \A e \in S : id[e] \in IdsOf(S)
    BY <1>2 DEF IdsOf
  <2>2. Max(IdsOf(S)) \in Int /\ \A x \in IdsOf(S) : x <= Max(IdsOf(S))
    BY <2>1, MaxIsLargest, MaxIdType DEF Ids
  <2>3. \A e \in S : id[e] \in Int /\ id[e] <= Max(IdsOf(S))
    BY <2>1, <2>2, MaxIdType DEF Ids
  <2>. QED BY <1>2, <2>2, <2>3 DEF NextId
<1>. QED BY <1>1, <1>2

-----------------------------------------------------------------------------
(* Types                                                                   *)

LEMMA ControlParts ==
  ASSUME NEW c \in Controls, c.kind \in {"create", "switch"}
  PROVE  c.target.key \in Int
BY ControlsType DEF Control, Lookup

LEMMA FreshIsFree ==
  ASSUME NEW i, Room(i)
  PROVE  FreshEntity(i) \in Entities /\ FreshEntity(i) \notin live /\ i \in Ids
BY DEF Room, FreshEntity, Free

\* While the controls of a batch are carried out, the workspaces its snapshot
\* knows are the ones there are, and its switches go to an output there is.
SnapshotAgrees ==
  pc = "command" => /\ batch.known = live
                    /\ IF connected = {} THEN batch.aim = None ELSE batch.aim \in connected

Typed == TypeOK /\ SnapshotAgrees

BatchType == [known : SUBSET Entities, lit : SUBSET Entities, entities : SUBSET Entities,
              routes : [Outputs -> Ids \cup {NoId}], aim : Outputs \cup {None},
              homes : [Windows -> Entities \cup {None, Gone}], moved : SUBSET Windows]

LEMMA InitTyped == Init => Typed
<1>. SUFFICES ASSUME Init PROVE Typed
  OBVIOUS
<1>1. 0 \in Ids /\ 0 \in Int
  BY MaxIdType DEF Ids
<1>2. NoBatch \in BatchType
  BY DEF NoBatch, BatchType, NoRoutes
<1>3. TypeOK
  BY <1>1, <1>2 DEF Init, TypeOK, BatchType, NoRoutes
<1>. QED BY <1>3 DEF Init, Typed, SnapshotAgrees

LEMMA NextTyped == Typed /\ [Next]_vars => Typed'
<1>. SUFFICES ASSUME Typed, [Next]_vars PROVE Typed'
  OBVIOUS
<1>. USE DEF Typed
<1>0. batch \in BatchType
  BY DEF TypeOK, BatchType
<1>a. ASSUME NEW e, NEW i \in Ids, NEW lit, Show(e, i, lit)
       PROVE  /\ route' \in [Outputs -> Ids \cup {NoId}]
              /\ switched' \in [Outputs -> Ids \cup {NoId}]
  <2>1. /\ route \in [Outputs -> Ids \cup {NoId}]
        /\ switched \in [Outputs -> Ids \cup {NoId}]
    BY DEF TypeOK
  <2>2. \/ UNCHANGED <<route, switched>>
        \/ \E o : route' = [route EXCEPT ![o] = i] /\ switched' = [switched EXCEPT ![o] = i]
    BY <1>a DEF Show
  <2>. QED BY <2>1, <2>2
<1>1. CASE StartFrame
  <2>. DEFINE first == CHOOSE e \in Entities : TRUE
  <2>1. first \in Entities /\ 1 \in Ids /\ 1 \in Int
    BY EntitiesType, MaxIdType DEF Ids
  <2>2. live' \subseteq Entities /\ active' \subseteq live' /\ hidden' \subseteq live'
    BY <1>1, <2>1 DEF StartFrame, TypeOK, Lowest
  <2>3. id' \in [Entities -> Ids] /\ name' \in [Entities -> Int]
    BY <1>1, <2>1 DEF StartFrame, TypeOK
  <2>4. PICK o \in IF connected = {} THEN {None} ELSE Preferred :
          batch' = [known |-> live', lit |-> active', entities |-> live', routes |-> route,
                    aim |-> o, homes |-> home, moved |-> {}]
    BY <1>1 DEF StartFrame
  <2>5. batch' \in BatchType
    BY <2>2, <2>4 DEF TypeOK, BatchType, Preferred
  <2>6. TypeOK'
    BY <1>1, <2>2, <2>3, <2>5
    DEF StartFrame, TypeOK, BatchType, outputs, pointer, windows
  <2>7. SnapshotAgrees'
    BY <1>1, <2>4 DEF SnapshotAgrees, Preferred, StartFrame, outputs
  <2>. QED BY <2>6, <2>7
<1>2. CASE CreateSpace
  <2>. DEFINE i == NewId(Next1.target)
              e == FreshEntity(i)
  <2>1. Next1 \in Controls /\ pending' \in Seq(Controls)
    BY <1>2 DEF CreateSpace, Consume, Next1, TypeOK
  <2>2. e \in Entities /\ i \in Ids /\ Next1.target.key \in Int
    BY <1>2, <2>1, FreshIsFree, ControlParts DEF CreateSpace
  <2>3. batch' = [batch EXCEPT !.known = @ \cup {e}]
    BY <1>2 DEF CreateSpace
  <2>4. batch' \in BatchType /\ batch'.known = batch.known \cup {e}
        /\ batch'.aim = batch.aim
    BY <1>0, <2>2, <2>3 DEF BatchType
  <2>5. live' = live \cup {e} /\ active' = active /\ id' = [id EXCEPT ![e] = i]
        /\ name' = [name EXCEPT ![e] = Next1.target.key]
    BY <1>2 DEF CreateSpace, Spawn, NewName
  <2>6. TypeOK'
    BY <1>2, <2>1, <2>2, <2>4, <2>5
    DEF CreateSpace, TypeOK, BatchType, outputs, pointer, windows, history
  <2>7. SnapshotAgrees'
    BY <1>2, <2>4, <2>5 DEF SnapshotAgrees, CreateSpace, Consume, outputs
  <2>. QED BY <2>6, <2>7
<1>3. CASE SwitchSpace
  <2>1. PICK e \in Matches(batch.known, Next1.target) :
          /\ Show(e, id[e], active)
          /\ batch' = [batch EXCEPT !.lit = {f \in batch.known : id[f] = id[e]}]
    BY <1>3 DEF SwitchSpace
  <2>2. e \in Entities /\ e \in live /\ id[e] \in Ids
    BY <1>3, <2>1 DEF Matches, TypeOK, SnapshotAgrees, SwitchSpace, Consume
  <2>3. pending' \in Seq(Controls)
    BY <1>3 DEF SwitchSpace, Consume, TypeOK
  <2>4. batch' \in BatchType /\ batch'.known = batch.known /\ batch'.aim = batch.aim
    BY <1>0, <2>1 DEF BatchType
  <2>5. active' \subseteq live
    BY <2>1, <2>2 DEF Show, TypeOK
  <2>6. route' \in [Outputs -> Ids \cup {NoId}] /\ switched' \in [Outputs -> Ids \cup {NoId}]
    BY <1>a, <2>1, <2>2
  <2>7. TypeOK'
    BY <1>3, <2>3, <2>4, <2>5, <2>6
    DEF SwitchSpace, TypeOK, BatchType, pointer, windows
  <2>8. SnapshotAgrees'
    BY <1>3, <2>4 DEF SnapshotAgrees, SwitchSpace
  <2>. QED BY <2>7, <2>8
<1>4. CASE SwitchToNewSpace
  <2>. DEFINE i == NewId(Next1.target)
              e == FreshEntity(i)
  <2>1. Next1 \in Controls /\ pending' \in Seq(Controls)
    BY <1>4 DEF SwitchToNewSpace, Consume, Next1, TypeOK
  <2>2. e \in Entities /\ i \in Ids /\ Next1.target.key \in Int
    BY <1>4, <2>1, FreshIsFree, ControlParts DEF SwitchToNewSpace
  <2>3. /\ live' = live \cup {e} /\ id' = [id EXCEPT ![e] = i]
        /\ name' = [name EXCEPT ![e] = Next1.target.key]
        /\ Show(e, i, active \cup {e})
        /\ batch' = [batch EXCEPT !.known = @ \cup {e},
                                  !.lit = {e} \cup {f \in batch.known : id[f] = i}]
    BY <1>4 DEF SwitchToNewSpace, NewName
  <2>4. batch' \in BatchType /\ batch'.known = batch.known \cup {e}
        /\ batch'.aim = batch.aim
    BY <1>0, <2>2, <2>3 DEF BatchType
  <2>5. active' \subseteq live'
    BY <2>3 DEF Show, TypeOK
  <2>6. route' \in [Outputs -> Ids \cup {NoId}] /\ switched' \in [Outputs -> Ids \cup {NoId}]
    BY <1>a, <2>2, <2>3
  <2>7. /\ live' \subseteq Entities /\ hidden' \subseteq live'
        /\ id' \in [Entities -> Ids] /\ name' \in [Entities -> Int]
    <3>1. hidden' = hidden
      BY <1>4 DEF SwitchToNewSpace
    <3>. HIDE DEF i, e
    <3>. QED BY <2>2, <2>3, <3>1 DEF TypeOK
  <2>8. UNCHANGED <<pc, connected, memory, pointer, windows, todo, assigned, needs, before, doomed>>
    BY <1>4 DEF SwitchToNewSpace
  <2>9. TypeOK'
    BY <2>1, <2>4, <2>5, <2>6, <2>7, <2>8 DEF TypeOK, BatchType, pointer, windows
  <2>10. SnapshotAgrees'
    BY <1>4, <2>3, <2>4 DEF SnapshotAgrees, SwitchToNewSpace, Consume
  <2>. QED BY <2>9, <2>10
<1>5. CASE DestroySpace
  <2>1. PICK target \in Selected(batch.known, batch.lit, Next1.target) :
          \E fallback \in Fallbacks(target) :
            /\ live' = live \ {target}
            /\ id' = [id EXCEPT ![target] = 0] /\ name' = [name EXCEPT ![target] = 0]
            /\ hidden' = hidden \ {target}
            /\ active' = ((active \ batch.entities)
                          \cup {e \in live \cap batch.entities : id[e] = id[fallback]})
                         \ {target}
            /\ Rehome(target, fallback)
            /\ route' = [o \in Outputs |->
                           IF o \in connected /\ batch.routes[o] = id[target]
                           THEN id[fallback] ELSE route[o]]
            /\ doomed' = doomed \cup {id[target]}
    BY <1>5 DEF DestroySpace
  <2>2. PICK fallback \in Fallbacks(target) :
            /\ live' = live \ {target}
            /\ id' = [id EXCEPT ![target] = 0] /\ name' = [name EXCEPT ![target] = 0]
            /\ hidden' = hidden \ {target}
            /\ active' = ((active \ batch.entities)
                          \cup {e \in live \cap batch.entities : id[e] = id[fallback]})
                         \ {target}
            /\ Rehome(target, fallback)
            /\ route' = [o \in Outputs |->
                           IF o \in connected /\ batch.routes[o] = id[target]
                           THEN id[fallback] ELSE route[o]]
            /\ doomed' = doomed \cup {id[target]}
    BY <2>1
  <2>3. target \in Entities /\ target \in batch.known
    BY <1>5, <2>1 DEF Selected, Matches, Lowest, TypeOK
  <2>4. fallback \in Entities /\ id[fallback] \in Ids /\ id[target] \in Ids
    BY <2>2, <2>3 DEF Fallbacks, TypeOK
  <2>5. 0 \in Ids /\ 0 \in Int
    BY MaxIdType DEF Ids
  <2>6. home' \in [Windows -> Entities \cup {None, Gone}] /\ asleep' \subseteq Windows
        /\ mapped' = mapped
    BY <2>2, <2>4 DEF Rehome, TypeOK
  <2>7. batch' \in BatchType /\ batch'.known = batch.known \ {target}
        /\ batch'.aim = batch.aim
    <3>1. PICK lit1 \in SUBSET Entities, moved1 \in SUBSET Windows :
            batch' = [batch EXCEPT !.known = @ \ {target}, !.lit = lit1, !.moved = moved1]
      <4>. DEFINE home1 == [w \in Windows |-> IF home[w] # Gone /\ batch.homes[w] = target
                                              THEN fallback ELSE home[w]]
      <4>1. batch' = [batch EXCEPT !.known = @ \ {target},
                        !.lit = {e \in batch.known \ {target} : id[e] = id[fallback]},
                        !.moved = @ \cup {w \in Windows : home1[w] # home[w]}]
        BY <2>2 DEF Rehome
      <4>. HIDE DEF home1
      <4>2. {e \in batch.known \ {target} : id[e] = id[fallback]} \in SUBSET Entities
        BY DEF TypeOK
      <4>3. batch.moved \cup {w \in Windows : home1[w] # home[w]} \in SUBSET Windows
        BY DEF TypeOK
      <4>. QED BY <4>1, <4>2, <4>3
    <3>. QED BY <1>0, <3>1 DEF BatchType
  <2>8. live' \subseteq Entities /\ active' \subseteq live' /\ hidden' \subseteq live'
    BY <2>2 DEF TypeOK
  <2>9. id' \in [Entities -> Ids] /\ name' \in [Entities -> Int]
    BY <2>2, <2>5 DEF TypeOK
  <2>10. route' \in [Outputs -> Ids \cup {NoId}] /\ doomed' \subseteq Ids
    BY <2>2, <2>4 DEF TypeOK
  <2>11. pending' \in Seq(Controls)
    BY <1>5 DEF DestroySpace, Consume, TypeOK
  <2>12. TypeOK'
    BY <1>5, <2>6, <2>7, <2>8, <2>9, <2>10, <2>11
    DEF DestroySpace, TypeOK, BatchType, pointer
  <2>13. SnapshotAgrees'
    BY <1>5, <2>2, <2>7 DEF SnapshotAgrees, DestroySpace, Consume
  <2>. QED BY <2>12, <2>13
<1>6. CASE IgnoreControl
  <2>1. pending' \in Seq(Controls)
    BY <1>6 DEF IgnoreControl, Consume, TypeOK
  <2>. QED BY <1>6, <2>1
       DEF IgnoreControl, TypeOK, SnapshotAgrees, spaces, outputs, pointer, windows, locals, history
<1>7. CASE EndCommands
  <2>1. batch' \in BatchType
    BY <1>7 DEF EndCommands, NoBatch, BatchType, NoRoutes
  <2>. QED BY <1>7, <2>1
       DEF EndCommands, TypeOK, BatchType, SnapshotAgrees, spaces, outputs, pointer, windows,
           history
<1>8. ASSUME NEW o \in Outputs, KeepRoute(o) PROVE Typed'
  BY <1>8 DEF KeepRoute, Keeps, TypeOK, SnapshotAgrees, spaces, outputs, pointer, windows, history
<1>9. ASSUME NEW o \in Outputs, NeedRoute(o) PROVE Typed'
  BY <1>9 DEF NeedRoute, TypeOK, SnapshotAgrees, spaces, outputs, pointer, windows, history
<1>10. CASE EndSurvey
  BY <1>10
  DEF EndSurvey, TypeOK, SnapshotAgrees, spaces, outputs, pointer, windows, locals, history
<1>11. ASSUME NEW i \in Ids, needs # <<>>, Assign(i)
       PROVE  /\ route' \in [Outputs -> Ids \cup {NoId}]
              /\ memory' \in [Outputs -> Ids \cup {NoId}]
              /\ assigned' \subseteq Ids /\ needs' \in Seq(Outputs)
  BY <1>11 DEF Assign, TypeOK
<1>12. CASE AssignRemembered
  <2>1. PICK e \in Remembered(Head(needs)) : Assign(id[e])
    BY <1>12 DEF AssignRemembered
  <2>2. id[e] \in Ids
    BY <2>1 DEF Remembered, HasId, TypeOK
  <2>. QED BY <1>11, <1>12, <2>1, <2>2
       DEF AssignRemembered, Assign, TypeOK, SnapshotAgrees, spaces, pointer, windows, history
<1>13. CASE AssignUnassigned
  <2>1. PICK e \in Unassigned : Assign(id[e])
    BY <1>13 DEF AssignUnassigned
  <2>2. id[e] \in Ids
    BY <2>1 DEF Unassigned, TypeOK
  <2>. QED BY <1>11, <1>13, <2>1, <2>2
       DEF AssignUnassigned, Assign, TypeOK, SnapshotAgrees, spaces, pointer, windows, history
<1>14. CASE AssignNew
  <2>. DEFINE i == NextId(live)
              e == FreshEntity(i)
  <2>1. e \in Entities /\ i \in Ids /\ i \in Int
    BY <1>14, FreshIsFree, MaxIdType DEF AssignNew, Ids
  <2>2. live' = live \cup {e} /\ active' = active /\ id' = [id EXCEPT ![e] = i]
        /\ name' = [name EXCEPT ![e] = i] /\ Assign(i) /\ hidden' = hidden
    BY <1>14 DEF AssignNew, Spawn
  <2>3. needs # <<>> /\ pc = "assign"
    BY <1>14 DEF AssignNew
  <2>. HIDE DEF e, i
  <2>4. live' \subseteq Entities /\ active' \subseteq live' /\ hidden' \subseteq live'
        /\ id' \in [Entities -> Ids] /\ name' \in [Entities -> Int]
    BY <2>1, <2>2 DEF TypeOK
  <2>. QED BY <1>11, <2>1, <2>2, <2>3, <2>4
       DEF Assign, TypeOK, SnapshotAgrees, pointer, windows, history
<1>15. CASE EndHousekeeping
  BY <1>15
  DEF EndHousekeeping, TypeOK, SnapshotAgrees, spaces, outputs, pointer, windows, history
<1>16. CASE Remember
  BY <1>16 DEF Remember, TypeOK, SnapshotAgrees, spaces, pointer, windows, locals, history
<1>17. CASE Mark
  BY <1>17
  DEF Mark, HasId, Lowest, TypeOK, SnapshotAgrees, outputs, pointer, windows, locals, history
<1>18. CASE Sleep
  BY <1>18 DEF Sleep, NoRoutes, TypeOK, SnapshotAgrees, outputs, pointer, locals
<1>19. ASSUME NEW o \in Outputs, Connect(o) \/ Disconnect(o) PROVE Typed'
  BY <1>19
  DEF Connect, Disconnect, TypeOK, SnapshotAgrees, spaces, outputs, pointer, windows, locals, history
<1>20. ASSUME NEW o \in connected \cup {None}, \/ FocusOutput(o)
                                               \/ o \in connected /\ ChoosePrimary(o)
       PROVE  Typed'
  BY <1>20
  DEF FocusOutput, ChoosePrimary, TypeOK, SnapshotAgrees, spaces, outputs, windows, locals, history
<1>21. ASSUME NEW c \in Controls, Stage(c) PROVE Typed'
  BY <1>21
  DEF Stage, TypeOK, SnapshotAgrees, spaces, outputs, pointer, windows, locals, history
<1>22. ASSUME NEW w \in Windows, Upsert(w) PROVE Typed'
  <2>1. TargetSpaces \subseteq Entities
    BY DEF TargetSpaces, HasId, TypeOK
  <2>2. home' \in [Windows -> Entities \cup {None, Gone}] /\ mapped' \subseteq Windows
    BY <1>22, <2>1 DEF Upsert, TypeOK
  <2>. QED BY <1>22, <2>2
       DEF Upsert, TypeOK, SnapshotAgrees, spaces, outputs, pointer, locals, history
<1>23. ASSUME NEW w \in Windows, Close(w) PROVE Typed'
  BY <1>23 DEF Close, TypeOK, SnapshotAgrees, spaces, outputs, pointer, locals, history
<1>24. CASE UNCHANGED vars
  BY <1>24
  DEF vars, TypeOK, SnapshotAgrees, spaces, outputs, pointer, windows, locals, history
<1>. QED
  BY <1>1, <1>2, <1>3, <1>4, <1>5, <1>6, <1>7, <1>8, <1>9, <1>10, <1>12, <1>13, <1>14, <1>15,
     <1>16, <1>17, <1>18, <1>19, <1>20, <1>21, <1>22, <1>23, <1>24
  DEF Next, Frame, Outside

\* The state of workspaces, outputs and windows always has the shape the
\* shell's components and resources give it.
THEOREM TypeCorrect == Spec => []TypeOK
<1>1. Spec => []Typed
  BY InitTyped, NextTyped, PTL DEF Spec
<1>. QED BY <1>1, PTL DEF Typed

-----------------------------------------------------------------------------
(* What housekeeping has done so far                                       *)

Waiting == {needs[k] : k \in 1 .. Len(needs)}
Served == connected \ (todo \cup Waiting)

\* Every output is still to be looked at, waits for a workspace or is served,
\* and those served show workspaces of their own among the ones given out.
Progress ==
  /\ todo \subseteq connected /\ Waiting \subseteq connected \ todo
  /\ \A j, k \in 1 .. Len(needs) : needs[j] = needs[k] => j = k
  /\ assigned \subseteq IdsOf(live)
  /\ \A o \in Served : route[o] \in assigned
  /\ \A o, p \in Served : route[o] = route[p] => o = p

Working == pc \in {"survey", "assign"}

Housekept ==
  /\ \A o \in Outputs \ connected : route[o] = NoId
  /\ pc # "survey" => todo = {}
  /\ ~Working => needs = <<>> /\ assigned = {}
  /\ Working => Progress
  /\ RoutesExclusive

IInv == Typed /\ IdsUnique /\ Housekept

-----------------------------------------------------------------------------
(* No two workspaces have the same id                                      *)

\* A workspace whose id no other has may be added.
LEMMA SpawnUnique ==
  ASSUME Typed, IdsUnique, NEW e \in Entities \ live, NEW i \in Ids,
         \A f \in live : id[f] # i,
         live' = live \cup {e}, id' = [id EXCEPT ![e] = i]
  PROVE  IdsUnique'
<1>1. \A f \in live' : IF f = e THEN id'[f] = i ELSE f \in live /\ id'[f] = id[f]
  BY DEF Typed, TypeOK
<1>. QED BY <1>1 DEF IdsUnique

\* What a control creates has an id no workspace has: its target's, which the
\* snapshot does not know, or the next one.
LEMMA NewIdIsNew ==
  ASSUME Typed, pc = "command", NEW l, Matches(batch.known, l) = {}
  PROVE  \A f \in live : id[f] # NewId(l)
<1>1. batch.known = live /\ live \in SUBSET Entities /\ id \in [Entities -> Ids]
  BY DEF Typed, SnapshotAgrees, TypeOK
<1>2. CASE l.by = "id"
  BY <1>1, <1>2 DEF NewId, Matches
<1>3. CASE l.by # "id"
  <2>1. NewId(l) = NextId(live)
    BY <1>1, <1>3 DEF NewId
  <2>. QED BY <1>1, <2>1, NextIdIsNew
<1>. QED BY <1>2, <1>3

LEMMA NextUnique == Typed /\ IdsUnique /\ [Next]_vars => IdsUnique'
<1>. SUFFICES ASSUME Typed, IdsUnique, [Next]_vars PROVE IdsUnique'
  OBVIOUS
<1>1. CASE StartFrame
  <2>1. CASE live = {}
    BY <1>1, <2>1 DEF StartFrame, IdsUnique
  <2>2. CASE live # {}
    BY <1>1, <2>2 DEF StartFrame, IdsUnique
  <2>. QED BY <2>1, <2>2
<1>2. CASE CreateSpace
  <2>. DEFINE i == NewId(Next1.target)
              e == FreshEntity(i)
  <2>1. Room(i) /\ live' = live \cup {e} /\ id' = [id EXCEPT ![e] = i]
        /\ \A f \in live : id[f] # i
    BY <1>2, NewIdIsNew DEF CreateSpace, Consume, Spawn
  <2>2. e \in Entities \ live /\ i \in Ids
    BY <2>1, FreshIsFree
  <2>. QED BY <2>1, <2>2, SpawnUnique
<1>3. CASE SwitchSpace
  BY <1>3 DEF SwitchSpace, IdsUnique
<1>4. CASE SwitchToNewSpace
  <2>. DEFINE i == NewId(Next1.target)
              e == FreshEntity(i)
  <2>1. Room(i) /\ live' = live \cup {e} /\ id' = [id EXCEPT ![e] = i]
        /\ \A f \in live : id[f] # i
    BY <1>4, NewIdIsNew DEF SwitchToNewSpace, Consume
  <2>2. e \in Entities \ live /\ i \in Ids
    BY <2>1, FreshIsFree
  <2>. QED BY <2>1, <2>2, SpawnUnique
<1>5. CASE DestroySpace
  <2>1. PICK target \in Selected(batch.known, batch.lit, Next1.target) :
          live' = live \ {target} /\ id' = [id EXCEPT ![target] = 0]
    BY <1>5 DEF DestroySpace
  <2>2. \A f \in live' : f \in live /\ id'[f] = id[f]
    BY <2>1 DEF Typed, TypeOK
  <2>. QED BY <2>2 DEF IdsUnique
<1>6. CASE AssignNew
  <2>. DEFINE i == NextId(live)
              e == FreshEntity(i)
  <2>1. Room(i) /\ live' = live \cup {e} /\ id' = [id EXCEPT ![e] = i]
    BY <1>6 DEF AssignNew, Spawn
  <2>2. e \in Entities \ live /\ i \in Ids
    BY <2>1, FreshIsFree
  <2>3. \A f \in live : id[f] # i
    BY NextIdIsNew DEF Typed, TypeOK
  <2>. QED BY <2>1, <2>2, <2>3, SpawnUnique
<1>7. CASE \/ IgnoreControl \/ EndCommands \/ EndSurvey \/ AssignRemembered \/ AssignUnassigned
           \/ EndHousekeeping \/ Remember \/ Mark \/ Sleep \/ UNCHANGED vars
           \/ \E o \in Outputs : KeepRoute(o) \/ NeedRoute(o)
  BY <1>7
  DEF IgnoreControl, EndCommands, EndSurvey, AssignRemembered, AssignUnassigned,
      EndHousekeeping, Remember, Mark, Sleep, vars, KeepRoute, NeedRoute, spaces, IdsUnique
<1>8. CASE Outside
  BY <1>8
  DEF Outside, Connect, Disconnect, FocusOutput, ChoosePrimary, Stage, Upsert, Close, spaces,
      IdsUnique
<1>. QED
  BY <1>1, <1>2, <1>3, <1>4, <1>5, <1>6, <1>7, <1>8 DEF Next, Frame

\* However workspaces are created by number, by name and for outputs, and
\* destroyed, no two have the same id.
THEOREM NoIdTwice == Spec => []IdsUnique
<1>1. Init => IdsUnique
  BY DEF Init, IdsUnique
<1>2. Spec => [](Typed /\ IdsUnique)
  BY <1>1, InitTyped, NextTyped, NextUnique, PTL DEF Spec
<1>. QED BY <1>2, PTL

-----------------------------------------------------------------------------
(* No two outputs show the same workspace                                  *)

\* One output fewer to look at, served or waiting.
LEMMA SurveyParts ==
  ASSUME Typed, Progress, NEW o \in Outputs, KeepRoute(o) \/ NeedRoute(o)
  PROVE  /\ o \in todo /\ o \notin Served /\ todo' = todo \ {o}
         /\ UNCHANGED <<connected, route, memory, live, id, before, switched, doomed>>
         /\ KeepRoute(o) => Waiting' = Waiting /\ Served' = Served \cup {o}
         /\ NeedRoute(o) => Waiting' = Waiting \cup {o} /\ Served' = Served
         /\ NeedRoute(o) => \A j, k \in 1 .. Len(needs') : needs'[j] = needs'[k] => j = k
<1>1. /\ o \in todo /\ o \notin Served /\ todo' = todo \ {o} /\ needs \in Seq(Outputs)
      /\ UNCHANGED <<connected, route, memory, live, id, before, switched, doomed>>
  BY DEF KeepRoute, NeedRoute, outputs, spaces, history, Served, Typed, TypeOK
<1>2. CASE KeepRoute(o)
  <2>1. needs' = needs
    BY <1>2 DEF KeepRoute
  <2>2. Waiting' = Waiting /\ Served' = Served \cup {o}
    BY <1>1, <2>1 DEF Waiting, Served, Progress
  <2>3. ~ NeedRoute(o)
    BY <1>2 DEF KeepRoute, NeedRoute
  <2>. QED BY <1>1, <2>2, <2>3
<1>3. CASE NeedRoute(o)
  <2>1. needs' = Append(needs, o)
    BY <1>3 DEF NeedRoute
  <2>2. Len(needs') = Len(needs) + 1 /\ needs'[Len(needs) + 1] = o /\ Len(needs) \in Nat
        /\ \A k \in 1 .. Len(needs) : needs'[k] = needs[k]
    BY <1>1, <2>1
  <2>3. Waiting' = Waiting \cup {o}
    BY <2>2 DEF Waiting
  <2>4. Served' = Served
    BY <1>1, <2>3 DEF Served
  <2>5. \A k \in 1 .. Len(needs) : needs[k] # o
    BY <1>1 DEF Waiting, Progress
  <2>6. \A j, k \in 1 .. Len(needs') : needs'[j] = needs'[k] => j = k
    BY <2>2, <2>5 DEF Progress
  <2>7. ~ KeepRoute(o)
    BY <1>3 DEF KeepRoute, NeedRoute
  <2>. QED BY <1>1, <2>3, <2>4, <2>6, <2>7
<1>. QED BY <1>2, <1>3

\* The first loop looks at one more output: it keeps its workspace, which no
\* output looked at before has, or it waits.
LEMMA SurveyProgress ==
  ASSUME Typed, Progress, NEW o \in Outputs, KeepRoute(o) \/ NeedRoute(o)
  PROVE  Progress'
<1>1. IdsOf(live)' = IdsOf(live)
  BY SurveyParts DEF IdsOf
<1>2. CASE KeepRoute(o)
  <2>1. needs' = needs /\ assigned' = assigned \cup {route[o]} /\ Keeps(o)
    BY <1>2 DEF KeepRoute
  <2>2. route[o] \notin assigned /\ route[o] \in IdsOf(live)
    BY <2>1 DEF Keeps, HasId, IdsOf
  <2>. QED BY <1>1, <1>2, <2>1, <2>2, SurveyParts DEF Progress
<1>3. CASE NeedRoute(o)
  <2>1. assigned' = assigned
    BY <1>3 DEF NeedRoute
  <2>. QED BY <1>1, <1>3, <2>1, SurveyParts DEF Progress
<1>. QED BY <1>2, <1>3

\* The first output that waits is served and no other.
LEMMA AssignParts ==
  ASSUME Typed, Progress, needs # <<>>, NEW i \in Ids, Assign(i)
  PROVE  /\ Head(needs) \in Outputs /\ Head(needs) \in Waiting /\ Head(needs) \notin Served
         /\ Waiting' = Waiting \ {Head(needs)} /\ Served' = Served \cup {Head(needs)}
         /\ route' = [route EXCEPT ![Head(needs)] = i]
         /\ memory' = [memory EXCEPT ![Head(needs)] = i]
         /\ \A j, k \in 1 .. Len(needs') : needs'[j] = needs'[k] => j = k
<1>. DEFINE o == Head(needs)
<1>1. needs \in Seq(Outputs) /\ o = needs[1] /\ Len(needs) \in Nat \ {0} /\ o \in Outputs
  BY DEF Typed, TypeOK
<1>2. needs' = Tail(needs) /\ assigned' = assigned \cup {i} /\ route' = [route EXCEPT ![o] = i]
      /\ memory' = [memory EXCEPT ![o] = i] /\ connected' = connected /\ todo' = todo
  BY DEF Assign
<1>3. Len(needs') = Len(needs) - 1 /\ \A k \in 1 .. Len(needs') : needs'[k] = needs[k + 1]
  BY <1>1, <1>2
<1>4. \A j, k \in 1 .. Len(needs') : needs'[j] = needs'[k] => j = k
  <2>. TAKE j, k \in 1 .. Len(needs')
  <2>1. j + 1 \in 1 .. Len(needs) /\ k + 1 \in 1 .. Len(needs)
        /\ needs'[j] = needs[j + 1] /\ needs'[k] = needs[k + 1]
    BY <1>1, <1>3
  <2>2. needs[j + 1] = needs[k + 1] => j + 1 = k + 1
    BY <2>1 DEF Progress
  <2>3. Len(needs') \in Nat
    BY <1>1, <1>3
  <2>. QED BY <2>1, <2>2, <2>3
<1>5. Waiting' = Waiting \ {o} /\ o \in Waiting
  <2>1. \A k \in 1 .. Len(needs') : needs'[k] # o /\ needs'[k] \in Waiting
    <3>. TAKE k \in 1 .. Len(needs')
    <3>1. k + 1 \in 1 .. Len(needs) /\ 1 \in 1 .. Len(needs) /\ k + 1 # 1
          /\ needs'[k] = needs[k + 1]
      BY <1>1, <1>3
    <3>. QED BY <1>1, <3>1 DEF Progress, Waiting
  <2>2. \A k \in 1 .. Len(needs) : needs[k] = o \/ needs[k] \in Waiting'
    <3>. TAKE k \in 1 .. Len(needs)
    <3>1. CASE k = 1
      BY <1>1, <3>1
    <3>2. CASE k # 1
      <4>1. k - 1 \in 1 .. Len(needs') /\ needs'[k - 1] = needs[k]
        BY <1>1, <1>3, <3>2
      <4>. QED BY <4>1 DEF Waiting
    <3>. QED BY <3>1, <3>2
  <2>3. o \in Waiting
    BY <1>1 DEF Waiting
  <2>. QED BY <2>1, <2>2, <2>3 DEF Waiting
<1>6. Served' = Served \cup {o} /\ o \notin Served
  BY <1>2, <1>5 DEF Served, Progress
<1>. QED BY <1>1, <1>2, <1>4, <1>5, <1>6

\* The second loop serves the first output that waits with an id it has not
\* given out.
LEMMA AssignProgress ==
  ASSUME Typed, Progress, needs # <<>>, NEW i \in Ids \ assigned, Assign(i),
         i \in IdsOf(live)', IdsOf(live) \subseteq IdsOf(live)'
  PROVE  Progress'
<1>. DEFINE o == Head(needs)
<1>1. o \in Outputs /\ Served' = Served \cup {o} /\ o \notin Served /\ Waiting' = Waiting \ {o}
      /\ route' = [route EXCEPT ![o] = i]
      /\ \A j, k \in 1 .. Len(needs') : needs'[j] = needs'[k] => j = k
  BY AssignParts
<1>2. assigned' = assigned \cup {i} /\ connected' = connected /\ todo' = todo
  BY DEF Assign
<1>3. route'[o] = i /\ \A p \in Served : route'[p] = route[p]
  BY <1>1 DEF Typed, TypeOK
<1>4. \A p \in Served : route'[p] \in assigned
  BY <1>3 DEF Progress
<1>. QED BY <1>1, <1>2, <1>3, <1>4 DEF Progress

\* While housekeeping works it goes on as it should.
LEMMA NextProgress ==
  ASSUME IInv, Working, Frame
  PROVE  Working' => Progress'
<1>. USE DEF IInv, Housekept, Working
<1>1. Progress
  OBVIOUS
<1>2. ASSUME NEW o \in Outputs, KeepRoute(o) \/ NeedRoute(o) PROVE Progress'
  BY <1>1, <1>2, SurveyProgress
<1>3. CASE EndSurvey
  BY <1>1, <1>3
  DEF EndSurvey, Progress, Waiting, Served, IdsOf, spaces, outputs, locals
<1>4. CASE AssignRemembered
  <2>1. PICK e \in Remembered(Head(needs)) : Assign(id[e])
    BY <1>4 DEF AssignRemembered
  <2>2. needs # <<>> /\ live' = live /\ id' = id
    BY <1>4 DEF AssignRemembered, spaces
  <2>3. e \in live /\ id[e] \in Ids \ assigned /\ IdsOf(live)' = IdsOf(live)
        /\ id[e] \in IdsOf(live)
    BY <2>1, <2>2 DEF Remembered, HasId, IdsOf, Typed, TypeOK
  <2>. QED BY <1>1, <2>1, <2>2, <2>3, AssignProgress
<1>5. CASE AssignUnassigned
  <2>1. PICK e \in Unassigned : Assign(id[e])
    BY <1>5 DEF AssignUnassigned
  <2>2. needs # <<>> /\ live' = live /\ id' = id
    BY <1>5 DEF AssignUnassigned, spaces
  <2>3. e \in live /\ id[e] \in Ids \ assigned /\ IdsOf(live)' = IdsOf(live)
        /\ id[e] \in IdsOf(live)
    BY <2>1, <2>2 DEF Unassigned, IdsOf, Typed, TypeOK
  <2>. QED BY <1>1, <2>1, <2>2, <2>3, AssignProgress
<1>6. CASE AssignNew
  <2>. DEFINE i == NextId(live)
              e == FreshEntity(i)
  <2>1. Room(i) /\ live' = live \cup {e} /\ id' = [id EXCEPT ![e] = i] /\ Assign(i)
        /\ needs # <<>>
    BY <1>6 DEF AssignNew, Spawn
  <2>2. e \in Entities \ live /\ i \in Ids
    BY <2>1, FreshIsFree
  <2>3. i \notin IdsOf(live)
    BY NextIdIsNew DEF IdsOf, Typed, TypeOK
  <2>4. live \subseteq Entities /\ id \in [Entities -> Ids]
    BY DEF Typed, TypeOK
  <2>. HIDE DEF i, e
  <2>5. \A f \in live : f \in live' /\ id'[f] = id[f]
    BY <2>1, <2>2, <2>4
  <2>6. e \in live' /\ id'[e] = i
    BY <2>1, <2>2, <2>4
  <2>7. IdsOf(live) \subseteq IdsOf(live)' /\ i \in IdsOf(live)'
    BY <2>5, <2>6 DEF IdsOf
  <2>8. i \in Ids \ assigned
    BY <1>1, <2>2, <2>3 DEF Progress
  <2>. QED BY <1>1, <2>1, <2>7, <2>8, AssignProgress
<1>7. CASE EndHousekeeping
  BY <1>7 DEF EndHousekeeping
<1>. QED
  BY <1>2, <1>3, <1>4, <1>5, <1>6, <1>7
  DEF Frame, StartFrame, CreateSpace, SwitchSpace, SwitchToNewSpace, DestroySpace,
      IgnoreControl, EndCommands, Consume, Remember, Mark, Sleep

\* Housekeeping leaves every output served.
LEMMA AllServed ==
  ASSUME Typed, Progress, todo = {}, needs = <<>>
  PROVE  \A o \in connected : /\ route[o] # NoId /\ HasId(route[o]) # {}
                              /\ \A p \in connected \ {o} : route[p] # route[o]
<1>1. Waiting = {}
  BY DEF Waiting
<1>2. Served = connected
  BY <1>1 DEF Served
<1>3. NoId \notin Ids
  BY MaxIdType DEF NoId, Ids
<1>4. \A o \in connected : route[o] \in Ids /\ HasId(route[o]) # {}
  BY <1>2 DEF Progress, IdsOf, HasId, Typed, TypeOK
<1>. QED BY <1>2, <1>3, <1>4 DEF Progress

LEMMA NextHousekept == IInv /\ [Next]_vars => Housekept'
<1>. SUFFICES ASSUME IInv, [Next]_vars PROVE Housekept'
  OBVIOUS
<1>. USE DEF IInv, Housekept, Working
<1>1. CASE StartFrame
  BY <1>1 DEF StartFrame, RoutesExclusive, Settled, outputs
<1>2. ASSUME pc = "command", pc' = "command", UNCHANGED <<connected, todo, needs, assigned>>,
             \A o \in Outputs \ connected : route'[o] = route[o]
      PROVE  Housekept'
  BY <1>2 DEF RoutesExclusive, Settled
<1>3. ASSUME pc = "command", NEW e, NEW i, NEW lit, Show(e, i, lit)
      PROVE  \A o \in Outputs \ connected : route'[o] = route[o]
  <2>1. CASE batch.aim = None
    BY <1>3, <2>1 DEF Show
  <2>2. CASE batch.aim # None
    <3>1. route' = [route EXCEPT ![batch.aim] = i]
      BY <1>3, <2>2 DEF Show
    <3>2. batch.aim \in connected
      BY <1>3, <2>2 DEF Typed, SnapshotAgrees
    <3>. QED BY <3>1, <3>2 DEF Typed, TypeOK
  <2>. QED BY <2>1, <2>2
<1>4. CASE CreateSpace
  BY <1>2, <1>4 DEF CreateSpace, Consume, outputs
<1>5. CASE SwitchSpace
  BY <1>2, <1>3, <1>5 DEF SwitchSpace, Consume
<1>6. CASE SwitchToNewSpace
  BY <1>2, <1>3, <1>6 DEF SwitchToNewSpace, Consume
<1>7. CASE DestroySpace
  <2>1. PICK target \in Selected(batch.known, batch.lit, Next1.target) :
          \E fallback \in Fallbacks(target) :
            route' = [o \in Outputs |->
                        IF o \in connected /\ batch.routes[o] = id[target]
                        THEN id[fallback] ELSE route[o]]
    BY <1>7 DEF DestroySpace
  <2>2. \A o \in Outputs \ connected : route'[o] = route[o]
    BY <2>1
  <2>. QED BY <1>2, <1>7, <2>2 DEF DestroySpace, Consume
<1>8. CASE IgnoreControl
  BY <1>2, <1>8 DEF IgnoreControl, Consume, outputs, locals
<1>9. CASE EndCommands
  <2>1. UNCHANGED <<live, id, connected, route, needs, assigned>> /\ todo' = connected
        /\ needs = <<>> /\ assigned = {}
    BY <1>9 DEF EndCommands, spaces, outputs
  <2>2. Waiting' = {} /\ Served' = {}
    BY <2>1 DEF Waiting, Served
  <2>3. Progress'
    BY <2>1, <2>2 DEF Progress
  <2>4. RoutesExclusive'
    BY <1>9, <2>1 DEF EndCommands, RoutesExclusive, Settled
  <2>. QED BY <1>9, <2>1, <2>3, <2>4 DEF EndCommands
<1>10. ASSUME Working, Frame, UNCHANGED connected, Working',
              \A o \in Outputs \ connected : route'[o] = route[o],
              pc' # "survey" => todo' = {}
       PROVE  Housekept'
  BY <1>10, NextProgress DEF RoutesExclusive, Settled
<1>11. ASSUME NEW o \in Outputs, KeepRoute(o) \/ NeedRoute(o) PROVE Housekept'
  BY <1>10, <1>11 DEF KeepRoute, NeedRoute, Frame, outputs
<1>12. CASE EndSurvey
  BY <1>10, <1>12 DEF EndSurvey, Frame, outputs, locals
<1>13. ASSUME NEW i, Assign(i), pc = "assign", needs # <<>>, Frame PROVE Housekept'
  <2>1. needs \in Seq(Outputs) /\ Head(needs) = needs[1] /\ 1 \in 1 .. Len(needs)
    BY <1>13 DEF Typed, TypeOK
  <2>2. Head(needs) \in connected
    BY <1>13, <2>1 DEF Progress, Waiting
  <2>3. \A o \in Outputs \ connected : route'[o] = route[o]
    BY <1>13, <2>2 DEF Assign, Typed, TypeOK
  <2>. QED BY <1>10, <1>13, <2>3 DEF Assign
<1>14. CASE AssignRemembered \/ AssignUnassigned \/ AssignNew
  BY <1>13, <1>14 DEF AssignRemembered, AssignUnassigned, AssignNew, Frame
<1>15. CASE EndHousekeeping
  <2>1. todo = {} /\ Progress /\ needs = <<>>
    BY <1>15 DEF EndHousekeeping
  <2>2. \A o \in connected : /\ route[o] # NoId /\ HasId(route[o]) # {}
                             /\ \A p \in connected \ {o} : route[p] # route[o]
    BY <2>1, AllServed
  <2>3. RoutesExclusive'
    BY <1>15, <2>2 DEF EndHousekeeping, RoutesExclusive, HasId, spaces, outputs
  <2>. QED BY <1>15, <2>1, <2>3 DEF EndHousekeeping, outputs
<1>16. CASE Remember \/ Mark \/ Sleep
  <2>1. UNCHANGED <<live, id, connected, route, todo, needs, assigned>> /\ Settled
        /\ ~Working' /\ (Settled' \/ pc' = "idle") /\ pc' # "survey"
    BY <1>16 DEF Remember, Mark, Sleep, Settled, spaces, outputs, locals
  <2>2. RoutesExclusive'
    BY <2>1 DEF RoutesExclusive, HasId
  <2>. QED BY <2>1, <2>2 DEF Settled
<1>17. ASSUME pc = "idle", UNCHANGED <<pc, live, id, todo, needs, assigned>>,
              \A o \in connected' : o \in connected \/ route'[o] = NoId,
              \A o \in connected \cap connected' : route'[o] = route[o],
              \A o \in Outputs \ connected' : route'[o] = NoId
       PROVE  Housekept'
  BY <1>17 DEF RoutesExclusive, HasId, Settled
<1>18. ASSUME NEW o \in Outputs, Connect(o) PROVE Housekept'
  BY <1>17, <1>18 DEF Connect, spaces, locals
<1>19. ASSUME NEW o \in Outputs, Disconnect(o) PROVE Housekept'
  BY <1>17, <1>19 DEF Disconnect, spaces, locals, Typed, TypeOK
<1>20. ASSUME pc = "idle", UNCHANGED <<pc, spaces, outputs, locals>> PROVE Housekept'
  BY <1>17, <1>20 DEF spaces, outputs, locals
<1>21. ASSUME NEW o, FocusOutput(o) \/ ChoosePrimary(o)
       PROVE  Housekept'
  BY <1>20, <1>21 DEF FocusOutput, ChoosePrimary
<1>22. ASSUME NEW c \in Controls, Stage(c) PROVE Housekept'
  BY <1>20, <1>22 DEF Stage
<1>23. ASSUME NEW w \in Windows, Upsert(w) \/ Close(w) PROVE Housekept'
  BY <1>20, <1>23 DEF Upsert, Close
<1>24. CASE UNCHANGED vars
  BY <1>24
  DEF vars, spaces, outputs, locals, RoutesExclusive, HasId, Settled, Progress, Waiting, Served,
      IdsOf
<1>. QED
  BY <1>1, <1>4, <1>5, <1>6, <1>7, <1>8, <1>9, <1>11, <1>12, <1>14, <1>15, <1>16, <1>18, <1>19,
     <1>21, <1>22, <1>23, <1>24
  DEF Next, Frame, Outside

LEMMA InitInv == Init => IInv
<1>. SUFFICES ASSUME Init PROVE IInv
  OBVIOUS
<1>1. IdsUnique /\ Housekept
  BY DEF Init, IdsUnique, Housekept, Working, RoutesExclusive, NoRoutes
<1>. QED BY <1>1, InitTyped DEF IInv

LEMMA NextInv == IInv /\ [Next]_vars => IInv'
BY NextTyped, NextUnique, NextHousekept DEF IInv

\* Whatever was switched, destroyed, unplugged and plugged in again, once
\* housekeeping has run every output shows a workspace that exists and that no
\* other output shows.
THEOREM RoutesStayExclusive == Spec => []RoutesExclusive
<1>1. IInv => RoutesExclusive
  BY DEF IInv, Housekept
<1>. QED BY <1>1, InitInv, NextInv, PTL DEF Spec

\* Every variable keeps its type, and neither an id nor a route is given out
\* twice.
THEOREM SpacesAreSound == Spec => []SpacesSound
<1>1. TypeOK /\ IdsUnique /\ RoutesExclusive => SpacesSound
  BY DEF SpacesSound
<1>. QED BY <1>1, TypeCorrect, NoIdTwice, RoutesStayExclusive, PTL

-----------------------------------------------------------------------------
(* What is active is shown                                                 *)

LEMMA InvAlways == Spec => []IInv
BY InitInv, NextInv, PTL DEF Spec

LEMMA NextActive == IInv /\ ActiveShown /\ [Next]_vars => ActiveShown'
<1>. SUFFICES ASSUME IInv, ActiveShown, [Next]_vars PROVE ActiveShown'
  OBVIOUS
<1>1. CASE Mark
  <2>. DEFINE routed == UNION {HasId(route[o]) : o \in Preferred}
  <2>1. PICK e \in IF routed # {} THEN routed ELSE Lowest(live) : active' = {e}
    BY <1>1 DEF Mark
  <2>2. UNCHANGED <<live, id, connected, route, focused>> /\ pc = "mark"
    BY <1>1 DEF Mark, outputs, pointer
  <2>3. Cardinality(active') = 1
    BY <2>1, FS_Singleton
  <2>4. \A o \in connected : HasId(route[o]) # {}
    BY <2>2 DEF IInv, Housekept, RoutesExclusive, Settled
  <2>5. Preferred \subseteq connected /\ (connected # {} => Preferred # {})
        /\ (focused \in connected => Preferred = {focused})
    BY DEF Preferred
  <2>6. connected # {} => \E o \in Preferred : e \in HasId(route[o])
    BY <2>1, <2>4, <2>5
  <2>7. connected # {} => \E o \in connected : route[o] = id[e]
    BY <2>5, <2>6 DEF HasId
  <2>8. focused \in connected => HasId(route[focused]) = {e}
    BY <2>5, <2>6 DEF HasId, IInv, IdsUnique
  <2>9. HasId(route[focused])' = HasId(route[focused])
    BY <2>2 DEF HasId
  <2>. QED BY <2>1, <2>2, <2>3, <2>7, <2>8, <2>9 DEF ActiveShown
<1>2. CASE UNCHANGED vars
  BY <1>2 DEF vars, spaces, outputs, pointer, ActiveShown, HasId
<1>3. CASE Next /\ ~ Mark
  <2>1. pc' # "sleep"
    BY <1>3
    DEF Next, Frame, Outside, StartFrame, CreateSpace, SwitchSpace, SwitchToNewSpace,
        DestroySpace, IgnoreControl, EndCommands, Consume, KeepRoute, NeedRoute, EndSurvey,
        AssignRemembered, AssignUnassigned, AssignNew, Assign, EndHousekeeping, Remember, Sleep,
        Connect, Disconnect, FocusOutput, ChoosePrimary, Stage, Upsert, Close
  <2>. QED BY <2>1 DEF ActiveShown
<1>. QED BY <1>1, <1>2, <1>3

\* When the windows are put to sleep or woken, one workspace is active; an
\* output shows it, the focused one if there is one.
THEOREM ActiveIsShown == Spec => []ActiveShown
<1>1. Init => ActiveShown
  BY DEF Init, ActiveShown
<1>. QED BY <1>1, NextActive, InvAlways, PTL DEF Spec

-----------------------------------------------------------------------------
(* The windows of a destroyed workspace                                    *)

\* A window is where the batch saw it, gone, or moved by the batch.
HomesKept ==
  pc = "command" => \A w \in Windows : home[w] \in {batch.homes[w], Gone} \/ w \in batch.moved

LEMMA RehomeMoves ==
  ASSUME Typed, pc = "command", HomesKept,
         NEW target \in Entities, NEW fallback \in Entities, target # fallback,
         Rehome(target, fallback)
  PROVE  \A w \in Windows : /\ home'[w] \in {batch'.homes[w], Gone} \/ w \in batch'.moved
                            /\ home[w] # Gone /\ home'[w] = Gone => w \in batch.moved
<1>. DEFINE home1 == [w \in Windows |-> IF home[w] # Gone /\ batch.homes[w] = target
                                        THEN fallback ELSE home[w]]
            lit1 == {e \in batch.known \ {target} : id[e] = id[fallback]}
            moved1 == batch.moved \cup {w \in Windows : home1[w] # home[w]}
<1>1. home' = [w \in Windows |-> IF home1[w] = target THEN Gone ELSE home1[w]]
  BY DEF Rehome
<1>2. batch' = [batch EXCEPT !.known = @ \ {target}, !.lit = lit1, !.moved = moved1]
  BY DEF Rehome
<1>3. batch'.homes = batch.homes /\ batch'.moved = moved1
  <2>. HIDE DEF lit1, moved1
  <2>. QED BY <1>2 DEF Typed, TypeOK
<1>4. Gone \notin Entities
  BY MarkersType
<1>. SUFFICES ASSUME NEW w \in Windows
              PROVE  /\ home'[w] \in {batch.homes[w], Gone} \/ w \in moved1
                     /\ home[w] # Gone /\ home'[w] = Gone => w \in batch.moved
  BY <1>3
<1>5. home[w] \in {batch.homes[w], Gone} \/ w \in batch.moved
  BY DEF HomesKept
<1>6. home'[w] = IF home1[w] = target THEN Gone ELSE home1[w]
  BY <1>1
<1>7. home1[w] = IF home[w] # Gone /\ batch.homes[w] = target THEN fallback ELSE home[w]
  OBVIOUS
<1>. QED BY <1>4, <1>5, <1>6, <1>7

\* One destroy of the batch, as far as windows are concerned.
LEMMA DestroyMoves ==
  ASSUME Typed, HomesKept, DestroySpace
  PROVE  HomesKept' /\ \A w \in Windows : home[w] # Gone /\ home'[w] = Gone => w \in batch.moved
<1>1. PICK target \in Selected(batch.known, batch.lit, Next1.target) :
        \E fallback \in Fallbacks(target) : Rehome(target, fallback)
  BY DEF DestroySpace
<1>2. PICK fallback \in Fallbacks(target) : Rehome(target, fallback)
  BY <1>1
<1>3. target \in batch.known /\ batch.known \subseteq Entities
  BY <1>1 DEF Selected, Matches, Lowest, DestroySpace, Typed, TypeOK
<1>4. fallback \in batch.known /\ id[fallback] # id[target]
  BY <1>2 DEF Fallbacks
<1>5. pc = "command"
  BY DEF DestroySpace, Consume
<1>. QED BY <1>2, <1>3, <1>4, <1>5, RehomeMoves DEF HomesKept

LEMMA NextHomes == Typed /\ HomesKept /\ [Next]_vars => HomesKept'
<1>. SUFFICES ASSUME Typed, HomesKept, [Next]_vars PROVE HomesKept'
  OBVIOUS
<1>1. CASE StartFrame
  BY <1>1 DEF StartFrame, HomesKept, windows
<1>2. ASSUME UNCHANGED windows, batch'.homes = batch.homes, batch'.moved = batch.moved,
             pc = "command"
      PROVE  HomesKept'
  BY <1>2 DEF HomesKept, windows
<1>3. CASE CreateSpace
  <2>1. \E S : batch' = [batch EXCEPT !.known = S] /\ UNCHANGED windows /\ pc = "command"
    BY <1>3 DEF CreateSpace, Consume
  <2>. QED BY <1>2, <2>1 DEF Typed, TypeOK
<1>4. CASE SwitchSpace
  <2>1. \E S : batch' = [batch EXCEPT !.lit = S] /\ UNCHANGED windows /\ pc = "command"
    BY <1>4 DEF SwitchSpace, Consume
  <2>. QED BY <1>2, <2>1 DEF Typed, TypeOK
<1>5. CASE SwitchToNewSpace
  <2>1. \E S, L : batch' = [batch EXCEPT !.known = S, !.lit = L] /\ UNCHANGED windows
                  /\ pc = "command"
    BY <1>5 DEF SwitchToNewSpace, Consume
  <2>. QED BY <1>2, <2>1 DEF Typed, TypeOK
<1>6. CASE DestroySpace
  BY <1>6, DestroyMoves
<1>7. CASE IgnoreControl
  BY <1>2, <1>7 DEF IgnoreControl, Consume, locals
<1>8. CASE UNCHANGED vars
  BY <1>8 DEF vars, windows, locals, HomesKept
<1>9. CASE Next /\ ~ (StartFrame \/ CreateSpace \/ SwitchSpace \/ SwitchToNewSpace
                      \/ DestroySpace \/ IgnoreControl)
  <2>1. pc' # "command"
    BY <1>9
    DEF Next, Frame, Outside, EndCommands, KeepRoute, NeedRoute, EndSurvey,
        AssignRemembered, AssignUnassigned, AssignNew, Assign, EndHousekeeping, Remember, Mark,
        Sleep, Connect, Disconnect, FocusOutput, ChoosePrimary, Stage, Upsert, Close
  <2>. QED BY <2>1 DEF HomesKept
<1>. QED BY <1>1, <1>3, <1>4, <1>5, <1>6, <1>7, <1>8, <1>9

\* A window whose client keeps it mapped is lost with a workspace only when an
\* earlier destroy of the same batch had moved it there.
THEOREM OnlyTheMovedAreLost == Spec => LostOnlyOnTheMove
<1>1. Init => HomesKept
  BY DEF Init, HomesKept
<1>2. ASSUME Typed, HomesKept, [Next]_vars
      PROVE  [\A w \in mapped' : home[w] # Gone /\ home'[w] = Gone => w \in batch.moved]_vars
  <2>. SUFFICES ASSUME Next, NEW w \in mapped', home[w] # Gone, home'[w] = Gone
                PROVE  w \in batch.moved
    BY <1>2
  <2>. USE <1>2
  <2>1. CASE DestroySpace
    <3>1. w \in Windows
      BY <2>1 DEF DestroySpace, Rehome, Typed, TypeOK
    <3>. QED BY <2>1, <3>1, DestroyMoves
  <2>2. ASSUME NEW v \in Windows, Upsert(v) PROVE FALSE
    <3>1. (Gone \notin Entities /\ Gone # None) \/ Gone = None
      BY MarkersType
    <3>2. TargetSpaces \subseteq Entities
      BY DEF TargetSpaces, HasId, Typed, TypeOK
    <3>. QED BY <2>2, <3>1, <3>2, MarkersType DEF Upsert, Typed, TypeOK
  <2>3. ASSUME NEW v \in Windows, Close(v) PROVE FALSE
    BY <2>3 DEF Close, Typed, TypeOK
  <2>4. CASE ~ DestroySpace /\ ~ \E v \in Windows : Upsert(v) \/ Close(v)
    <3>1. home' = home
      BY <2>4
      DEF Next, Frame, Outside, StartFrame, CreateSpace, SwitchSpace, SwitchToNewSpace,
          IgnoreControl, EndCommands, KeepRoute, NeedRoute, EndSurvey, AssignRemembered,
          AssignUnassigned, AssignNew, Assign, EndHousekeeping, Remember, Mark, Sleep, Connect,
          Disconnect, FocusOutput, ChoosePrimary, Stage, windows
    <3>. QED BY <3>1
  <2>. QED BY <2>1, <2>2, <2>3, <2>4
<1>. QED BY <1>1, <1>2, InitTyped, NextTyped, NextHomes, PTL DEF Spec, LostOnlyOnTheMove

-----------------------------------------------------------------------------
(* An output keeps its workspace, and a switch is answered                 *)

\* What an output showed last is no reason to show it again.
Excused(o) == before[o] \in doomed \cup {NoId} \/ switched[o] # NoId

\* Nothing but a switch or a destroy has taken the workspace of the output.
Untouched(o) == Excused(o) \/ route[o] \in {NoId, before[o]}

\* The output shows the target of its switch, which exists.
Pointed(o) == \/ switched[o] \in doomed \cup {NoId}
              \/ route[o] = switched[o] /\ HasId(switched[o]) # {}

Kept(o) == \/ Excused(o) \/ route[o] = before[o] \/ HasId(before[o]) = {}
           \/ \E p \in Served \ {o} : route[p] = before[o]

Answered(o) == \/ switched[o] \in doomed \cup {NoId, route[o]}
               \/ \E p \in Served \ {o} : route[p] = switched[o]

Last(o) == IF route[o] # NoId THEN route[o] ELSE before[o]

\* The memory is what the output showed last.
MemoryTrue ==
  /\ pc \in {"command", "survey"} => \A o \in Outputs : memory[o] = before[o]
  /\ \A o \in Outputs \ connected : memory[o] = before[o]
  /\ pc \in {"mark", "sleep", "idle"} => \A o \in Outputs : memory[o] = Last(o)
  /\ pc = "idle" => doomed = {} /\ \A o \in Outputs : switched[o] = NoId

\* All switches of a batch go to one output; the snapshot's active workspaces
\* are those of the last switch that was not undone.
BatchTrue ==
  pc = "command" =>
    \A o \in connected :
      /\ Untouched(o) /\ Pointed(o)
      /\ batch.routes[o] \in {NoId, before[o]}
      /\ switched[o] # NoId => o = batch.aim
      /\ switched[o] \in doomed \cup {NoId} \/ batch.lit = HasId(switched[o])

\* Housekeeping takes the workspace of an output only for another output.
WorkTrue ==
  Working =>
    /\ \A i \in assigned : \E p \in Served : route[p] = i
    /\ \A o \in todo : Untouched(o) /\ Pointed(o)
    /\ \A o \in Waiting : /\ memory[o] = before[o]
                          /\ \/ switched[o] \in doomed \cup {NoId}
                             \/ \E p \in Served : route[p] = switched[o]
    /\ \A o \in Served : Kept(o) /\ Answered(o)

RoutesInv == MemoryTrue /\ BatchTrue /\ WorkTrue /\ RouteKept /\ SwitchAnswered

\* While controls are carried out nothing else can be wrong.
LEMMA InBatch ==
  ASSUME RoutesInv, pc = "command", pc' = "command", BatchTrue', memory' = memory,
         before' = before, connected' = connected
  PROVE  RoutesInv'
BY DEF RoutesInv, MemoryTrue, WorkTrue, Working, RouteKept, SwitchAnswered, Settled

\* A workspace is added, no output is switched to it.
LEMMA CreateKeeps == IInv /\ RoutesInv /\ CreateSpace => RoutesInv'
<1>. SUFFICES ASSUME IInv, RoutesInv, CreateSpace PROVE RoutesInv'
  OBVIOUS
<1>. DEFINE i == NewId(Next1.target)
            e == FreshEntity(i)
<1>1. /\ pc = "command" /\ pc' = "command"
      /\ Room(i) /\ live' = live \cup {e} /\ id' = [id EXCEPT ![e] = i]
      /\ batch' = [batch EXCEPT !.known = @ \cup {e}]
      /\ UNCHANGED <<connected, route, memory, before, switched, doomed>>
      /\ \A f \in live : id[f] # i
  BY NewIdIsNew DEF CreateSpace, Consume, Spawn, outputs, history, IInv
<1>2. e \in Entities \ live /\ i \in Ids
  BY <1>1, FreshIsFree
<1>3. live \in SUBSET Entities /\ id \in [Entities -> Ids]
  BY DEF IInv, Typed, TypeOK
<1>4. batch'.lit = batch.lit /\ batch'.routes = batch.routes /\ batch'.aim = batch.aim
  <2>. HIDE DEF e
  <2>. QED BY <1>1 DEF IInv, Typed, TypeOK
<1>. HIDE DEF i, e
<1>5. \A j : j # i => HasId(j)' = HasId(j)
  BY <1>1, <1>2, <1>3 DEF HasId
<1>6. \A j : HasId(j) # {} => HasId(j)' = HasId(j)
  BY <1>1, <1>5 DEF HasId
<1>7. BatchTrue'
  BY <1>1, <1>4, <1>6 DEF RoutesInv, BatchTrue, Untouched, Excused, Pointed
<1>. QED BY <1>1, <1>7, InBatch

\* The output the batch aims at shows workspace i.
LEMMA ShowKeeps ==
  ASSUME IInv, RoutesInv, pc = "command", NEW e, NEW i \in Ids, NEW lit, Show(e, i, lit),
         pc' = "command", UNCHANGED <<connected, memory, before, doomed>>,
         batch'.lit = {f \in live' : id'[f] = i}, batch'.lit # {}, batch'.aim = batch.aim,
         batch'.routes = batch.routes
  PROVE  RoutesInv'
<1>1. CASE connected = {}
  BY <1>1, InBatch DEF BatchTrue
<1>2. CASE connected # {}
  <2>. DEFINE a == batch.aim
  <2>1. a \in connected /\ a \in Outputs /\ a # None
    BY <1>2, MarkersType DEF IInv, Typed, TypeOK, SnapshotAgrees
  <2>2. route' = [route EXCEPT ![a] = i] /\ switched' = [switched EXCEPT ![a] = i]
    BY <2>1 DEF Show
  <2>3. route \in [Outputs -> Ids \cup {NoId}] /\ switched \in [Outputs -> Ids \cup {NoId}]
        /\ connected \subseteq Outputs
    BY DEF IInv, Typed, TypeOK
  <2>4. i # NoId
    BY MaxIdType DEF Ids, NoId
  <2>5. \A o \in connected : o # a => /\ switched[o] = NoId
                                      /\ route'[o] = route[o] /\ switched'[o] = switched[o]
    BY <2>2, <2>3 DEF RoutesInv, BatchTrue
  <2>6. route'[a] = i /\ switched'[a] = i
    BY <2>1, <2>2, <2>3
  <2>. HIDE DEF a
  <2>7. /\ switched'[a] \notin {NoId} /\ batch'.routes[a] \in {NoId, before'[a]}
        /\ batch'.lit = {f \in live' : id'[f] = switched'[a]} /\ batch'.lit # {}
        /\ a = batch'.aim
    BY <2>1, <2>4, <2>6 DEF RoutesInv, BatchTrue, a
  <2>8. \A o \in connected : o # a =>
          /\ before'[o] \in doomed' \cup {NoId} \/ route'[o] \in {NoId, before'[o]}
          /\ batch'.routes[o] \in {NoId, before'[o]} /\ switched'[o] = NoId
    BY <2>5 DEF RoutesInv, BatchTrue, Untouched, Excused
  <2>9. BatchTrue'
    BY <2>6, <2>7, <2>8 DEF BatchTrue, Untouched, Excused, Pointed, HasId
  <2>. QED BY <2>9, InBatch
<1>. QED BY <1>1, <1>2

LEMMA SwitchKeeps == IInv /\ RoutesInv /\ (SwitchSpace \/ SwitchToNewSpace) => RoutesInv'
<1>. SUFFICES ASSUME IInv, RoutesInv, SwitchSpace \/ SwitchToNewSpace PROVE RoutesInv'
  OBVIOUS
<1>0. live \in SUBSET Entities /\ id \in [Entities -> Ids]
  BY DEF IInv, Typed, TypeOK
<1>1. CASE SwitchSpace
  <2>1. PICK e \in Matches(batch.known, Next1.target) :
          /\ Show(e, id[e], active)
          /\ batch' = [batch EXCEPT !.lit = {f \in batch.known : id[f] = id[e]}]
    BY <1>1 DEF SwitchSpace
  <2>2. /\ pc = "command" /\ pc' = "command"
        /\ UNCHANGED <<connected, memory, before, doomed, live, id>>
    BY <1>1 DEF SwitchSpace, Consume
  <2>3. e \in live /\ id[e] \in Ids /\ batch.known = live
    BY <1>0, <2>1, <2>2 DEF Matches, IInv, Typed, SnapshotAgrees
  <2>. DEFINE L == {f \in batch.known : id[f] = id[e]}
  <2>4. L = {f \in live' : id'[f] = id[e]} /\ L # {}
    BY <2>2, <2>3
  <2>5. batch'.lit = L /\ batch'.aim = batch.aim /\ batch'.routes = batch.routes
    <3>1. batch' = [batch EXCEPT !.lit = L]
      BY <2>1
    <3>. HIDE DEF L
    <3>. QED BY <3>1 DEF IInv, Typed, TypeOK
  <2>. HIDE DEF L
  <2>. QED BY <2>1, <2>2, <2>3, <2>4, <2>5, ShowKeeps
<1>2. CASE SwitchToNewSpace
  <2>. DEFINE i == NewId(Next1.target)
              e == FreshEntity(i)
              K == batch.known \cup {e}
              L == {e} \cup {f \in batch.known : id[f] = i}
  <2>1. /\ Show(e, i, active \cup {e}) /\ Room(i)
        /\ batch' = [batch EXCEPT !.known = K, !.lit = L]
        /\ live' = live \cup {e} /\ id' = [id EXCEPT ![e] = i]
        /\ Matches(batch.known, Next1.target) = {}
        /\ pc = "command" /\ pc' = "command"
        /\ UNCHANGED <<connected, memory, before, doomed>>
    BY <1>2 DEF SwitchToNewSpace, Consume
  <2>2. e \in Entities \ live /\ i \in Ids /\ batch.known = live
    BY <2>1, FreshIsFree DEF IInv, Typed, SnapshotAgrees
  <2>3. \A f \in live : id[f] # i
    BY <2>1, NewIdIsNew DEF IInv
  <2>4. L = {e}
    BY <2>2, <2>3
  <2>5. batch'.lit = {e} /\ batch'.aim = batch.aim /\ batch'.routes = batch.routes
    <3>. HIDE DEF K, L, e, i
    <3>. QED BY <2>1, <2>4 DEF IInv, Typed, TypeOK
  <2>. HIDE DEF e, i
  <2>6. \A f \in live' : id'[f] = i <=> f = e
    BY <1>0, <2>1, <2>2, <2>3
  <2>7. {e} = {f \in live' : id'[f] = i}
    BY <2>1, <2>6
  <2>. QED BY <2>1, <2>2, <2>5, <2>7, ShowKeeps
<1>. QED BY <1>1, <1>2

\* The outputs that showed a destroyed workspace show another one, unless they
\* have been switched away.
LEMMA DestroyKeeps == IInv /\ RoutesInv /\ DestroySpace => RoutesInv'
<1>. SUFFICES ASSUME IInv, RoutesInv, DestroySpace PROVE RoutesInv'
  OBVIOUS
<1>1. PICK target \in Selected(batch.known, batch.lit, Next1.target) :
        \E fallback \in Fallbacks(target) :
          /\ live' = live \ {target} /\ id' = [id EXCEPT ![target] = 0]
          /\ Rehome(target, fallback)
          /\ route' = [o \in Outputs |->
                         IF o \in connected /\ batch.routes[o] = id[target]
                         THEN id[fallback] ELSE route[o]]
          /\ doomed' = doomed \cup {id[target]}
  BY DEF DestroySpace
<1>2. PICK fallback \in Fallbacks(target) :
          /\ live' = live \ {target} /\ id' = [id EXCEPT ![target] = 0]
          /\ Rehome(target, fallback)
          /\ route' = [o \in Outputs |->
                         IF o \in connected /\ batch.routes[o] = id[target]
                         THEN id[fallback] ELSE route[o]]
          /\ doomed' = doomed \cup {id[target]}
  BY <1>1
<1>3. /\ pc = "command" /\ pc' = "command"
      /\ UNCHANGED <<connected, memory, before, switched>>
  BY DEF DestroySpace, Consume
<1>4. /\ batch.known = live /\ live \in SUBSET Entities /\ id \in [Entities -> Ids]
      /\ connected \subseteq Outputs /\ NoId \notin Ids
  BY <1>3, MaxIdType DEF IInv, Typed, TypeOK, SnapshotAgrees, Ids, NoId
<1>5. target \in live
  BY <1>1, <1>4 DEF Selected, Matches, Lowest
<1>. DEFINE L == {e \in batch.known \ {target} : id[e] = id[fallback]}
<1>6. batch'.lit = L /\ batch'.aim = batch.aim /\ batch'.routes = batch.routes
  <2>1. \E K, M : batch' = [batch EXCEPT !.known = K, !.lit = L, !.moved = M]
    BY <1>2 DEF Rehome
  <2>. HIDE DEF L
  <2>. QED BY <2>1 DEF IInv, Typed, TypeOK
<1>7. fallback \in live /\ id[fallback] # id[target] /\ id[fallback] \in Ids /\ id[target] \in Ids
  BY <1>2, <1>4, <1>5 DEF Fallbacks
<1>8. \A j : j # id[target] => HasId(j)' = HasId(j)
  BY <1>2, <1>4, <1>5 DEF HasId
<1>9. L = HasId(id[fallback])
  BY <1>4, <1>7 DEF HasId
<1>10. ASSUME NEW o \in connected
       PROVE  /\ before[o] \in doomed' \cup {NoId} \/ switched[o] # NoId
                 \/ route'[o] \in {NoId, before[o]}
              /\ batch.routes[o] \in {NoId, before[o]}
              /\ switched[o] # NoId => o = batch.aim
  <2>1. o \in Outputs
    BY <1>4
  <2>2. route'[o] = IF batch.routes[o] = id[target] THEN id[fallback] ELSE route[o]
    BY <1>2, <2>1
  <2>3. /\ Untouched(o) /\ batch.routes[o] \in {NoId, before[o]}
        /\ switched[o] # NoId => o = batch.aim
    BY <1>3 DEF RoutesInv, BatchTrue
  <2>4. CASE batch.routes[o] = id[target]
    BY <1>2, <1>4, <1>7, <2>3, <2>4
  <2>5. CASE batch.routes[o] # id[target]
    BY <1>2, <2>2, <2>3, <2>5 DEF Untouched, Excused
  <2>. QED BY <2>3, <2>4, <2>5
<1>11. ASSUME NEW o \in connected
       PROVE  \/ switched[o] \in doomed' \cup {NoId}
              \/ /\ route'[o] = switched[o] /\ HasId(switched[o])' # {}
                 /\ batch'.lit = HasId(switched[o])'
  <2>. SUFFICES ASSUME switched[o] \notin doomed', switched[o] # NoId
                PROVE  /\ route'[o] = switched[o] /\ HasId(switched[o])' # {}
                       /\ batch'.lit = HasId(switched[o])'
    OBVIOUS
  <2>1. /\ batch.lit = HasId(switched[o]) /\ HasId(switched[o]) # {} /\ route[o] = switched[o]
        /\ switched[o] # id[target]
    BY <1>2, <1>3 DEF RoutesInv, BatchTrue, Pointed
  <2>2. target \notin batch.lit
    BY <2>1 DEF HasId
  <2>3. {e \in batch.known : id[e] # id[target]} \cap batch.lit = batch.lit
    BY <1>4, <2>1 DEF HasId
  <2>4. fallback \in batch.lit
    BY <1>2, <2>1, <2>2, <2>3 DEF Fallbacks
  <2>5. id[fallback] = switched[o]
    BY <2>1, <2>4 DEF HasId
  <2>6. route'[o] = switched[o]
    BY <1>2, <1>4, <2>1, <2>5
  <2>7. HasId(switched[o])' = HasId(switched[o])
    BY <1>3, <1>2, <1>4, <1>5, <2>1 DEF HasId
  <2>. QED BY <1>6, <1>9, <2>1, <2>5, <2>6, <2>7
<1>. HIDE DEF L
<1>12. BatchTrue'
  BY <1>3, <1>6, <1>10, <1>11 DEF BatchTrue, Untouched, Excused, Pointed
<1>. QED BY <1>3, <1>12, InBatch

\* The first loop: an output that keeps its workspace is served as it should
\* be, one that waits has its workspace taken by an output before it.
LEMMA SurveyKeeps ==
  ASSUME IInv, RoutesInv, NEW o \in Outputs, KeepRoute(o) \/ NeedRoute(o)
  PROVE  RoutesInv'
<1>1. /\ pc = "survey" /\ pc' = "survey" /\ Typed /\ Progress /\ WorkTrue /\ MemoryTrue
  BY DEF KeepRoute, NeedRoute, IInv, Housekept, Working, RoutesInv
<1>2. /\ o \in todo /\ o \notin Served /\ todo' = todo \ {o}
      /\ UNCHANGED <<connected, route, memory, live, id, before, switched, doomed>>
      /\ KeepRoute(o) => Waiting' = Waiting /\ Served' = Served \cup {o}
      /\ NeedRoute(o) => Waiting' = Waiting \cup {o} /\ Served' = Served
  BY <1>1, SurveyParts
<1>3. Untouched(o) /\ Pointed(o) /\ memory[o] = before[o]
  BY <1>1, <1>2 DEF WorkTrue, Working, MemoryTrue
<1>4. \A q \in todo' : Untouched(q)' /\ Pointed(q)'
  BY <1>1, <1>2 DEF WorkTrue, Working, Untouched, Excused, Pointed, HasId
<1>5. Served \subseteq Served'
  BY <1>2
<1>6. \A q \in Served : Kept(q)' /\ Answered(q)'
  BY <1>1, <1>2, <1>5 DEF WorkTrue, Working, Kept, Excused, Answered, HasId
<1>7. \A q \in Waiting : /\ memory'[q] = before'[q]
                         /\ \/ switched'[q] \in doomed' \cup {NoId}
                            \/ \E p \in Served' : route'[p] = switched'[q]
  BY <1>1, <1>2, <1>5 DEF WorkTrue, Working
<1>8. CASE KeepRoute(o)
  <2>1. route[o] \notin assigned \cup {NoId} /\ assigned' = assigned \cup {route[o]}
    BY <1>8 DEF KeepRoute, Keeps
  <2>2. \A i \in assigned' : \E p \in Served' : route'[p] = i
    BY <1>1, <1>2, <1>8, <2>1 DEF WorkTrue, Working
  <2>3. Kept(o)' /\ Answered(o)'
    BY <1>2, <1>3, <2>1 DEF Kept, Untouched, Excused, Answered, Pointed
  <2>4. WorkTrue'
    BY <1>2, <1>4, <1>6, <1>7, <1>8, <2>2, <2>3 DEF WorkTrue
  <2>. QED BY <1>1, <1>2, <2>4
       DEF RoutesInv, MemoryTrue, BatchTrue, RouteKept, SwitchAnswered, Settled
<1>9. CASE NeedRoute(o)
  <2>1. assigned' = assigned /\ (route[o] \in assigned \cup {NoId} \/ HasId(route[o]) = {})
    BY <1>9 DEF NeedRoute, Keeps
  <2>2. \A i \in assigned' : \E p \in Served' : route'[p] = i
    BY <1>1, <1>2, <1>9, <2>1 DEF WorkTrue, Working
  <2>3. /\ memory'[o] = before'[o]
        /\ \/ switched'[o] \in doomed' \cup {NoId}
           \/ \E p \in Served' : route'[p] = switched'[o]
    BY <1>1, <1>2, <1>3, <1>9, <2>1 DEF Pointed, WorkTrue, Working
  <2>4. WorkTrue'
    BY <1>2, <1>4, <1>6, <1>7, <1>9, <2>2, <2>3 DEF WorkTrue
  <2>. QED BY <1>1, <1>2, <2>4
       DEF RoutesInv, MemoryTrue, BatchTrue, RouteKept, SwitchAnswered, Settled
<1>. QED BY <1>8, <1>9

\* The second loop: an output does not get back what it showed last only if
\* that is gone or an output shows it; what is created while the loop runs is
\* shown by the output it is created for.
LEMMA AssignKeeps ==
  ASSUME IInv, RoutesInv, pc = "assign", pc' = "assign", needs # <<>>,
         NEW i \in Ids, Assign(i),
         \/ i = memory[Head(needs)]
         \/ HasId(memory[Head(needs)]) = {} \/ memory[Head(needs)] \in assigned,
         \A j : HasId(j)' = HasId(j) \/ j = i
  PROVE  RoutesInv'
<1>o. PICK o : o = Head(needs)
  OBVIOUS
<1>1. Typed /\ Progress /\ WorkTrue /\ MemoryTrue
  BY DEF IInv, Housekept, Working, RoutesInv
<1>2. /\ o \in Outputs /\ o \in Waiting /\ o \notin Served
      /\ Waiting' = Waiting \ {o} /\ Served' = Served \cup {o}
      /\ route' = [route EXCEPT ![o] = i] /\ memory' = [memory EXCEPT ![o] = i]
  BY <1>1, <1>o, AssignParts
<1>3. /\ UNCHANGED <<connected, todo, before, switched, doomed>>
      /\ assigned' = assigned \cup {i} /\ todo = {}
  BY DEF Assign, history, IInv, Housekept
<1>4. /\ route \in [Outputs -> Ids \cup {NoId}] /\ memory \in [Outputs -> Ids \cup {NoId}]
      /\ connected \subseteq Outputs /\ Waiting \subseteq connected
  BY <1>1 DEF Typed, TypeOK, Progress
<1>5. route'[o] = i /\ memory'[o] = i /\ \A p : p # o /\ p \in Outputs =>
                              route'[p] = route[p] /\ memory'[p] = memory[p]
  BY <1>2, <1>4
<1>6. Served \subseteq Outputs /\ Waiting \subseteq Outputs
  BY <1>4 DEF Served
<1>7. /\ \A j \in assigned : \E p \in Served : route[p] = j
      /\ memory[o] = before[o]
      /\ switched[o] \in doomed \cup {NoId} \/ \E p \in Served : route[p] = switched[o]
  BY <1>1, <1>2 DEF WorkTrue, Working
<1>8. \A j \in assigned' : \E p \in Served' : route'[p] = j
  BY <1>2, <1>3, <1>5, <1>6, <1>7
<1>9. \A q \in Waiting' : /\ memory'[q] = before'[q]
                          /\ \/ switched'[q] \in doomed' \cup {NoId}
                             \/ \E p \in Served' : route'[p] = switched'[q]
  BY <1>1, <1>2, <1>3, <1>5, <1>6 DEF WorkTrue, Working
<1>10. ASSUME NEW q \in Served PROVE Kept(q)' /\ Answered(q)'
  <2>1. q # o /\ route'[q] = route[q] /\ Kept(q) /\ Answered(q)
    BY <1>1, <1>2, <1>5, <1>6 DEF WorkTrue, Working
  <2>2. \A p \in Served \ {q} : p \in Served' \ {q} /\ route'[p] = route[p]
    BY <1>2, <1>5, <1>6
  <2>3. HasId(before[q])' = HasId(before[q]) \/ before[q] = route'[o]
    BY <1>3, <1>5
  <2>4. Kept(q)'
    BY <1>2, <1>3, <2>1, <2>2, <2>3 DEF Kept, Excused, HasId
  <2>. QED BY <1>3, <2>1, <2>2, <2>4 DEF Answered
<1>11. Kept(o)' /\ Answered(o)'
  <2>1. \A p \in Served : p \in Served' \ {o} /\ route'[p] = route[p]
    BY <1>2, <1>5, <1>6
  <2>2. Answered(o)'
    BY <1>3, <1>7, <2>1 DEF Answered
  <2>3. route'[o] = before[o] \/ HasId(before[o]) = {} \/ before[o] \in assigned
    BY <1>5, <1>7, <1>o
  <2>4. HasId(before[o])' = HasId(before[o]) \/ before[o] = route'[o]
    BY <1>3, <1>5
  <2>5. before[o] \in assigned => \E p \in Served' \ {o} : route'[p] = before[o]
    BY <1>7, <2>1
  <2>6. Kept(o)'
    BY <1>3, <2>3, <2>4, <2>5 DEF Kept, HasId
  <2>. QED BY <2>2, <2>6
<1>12. WorkTrue'
  BY <1>2, <1>3, <1>8, <1>9, <1>10, <1>11 DEF WorkTrue
<1>13. MemoryTrue'
  BY <1>1, <1>2, <1>3, <1>4, <1>5 DEF MemoryTrue
<1>. QED BY <1>12, <1>13 DEF RoutesInv, BatchTrue, RouteKept, SwitchAnswered, Settled

LEMMA NextRoutes == IInv /\ RoutesInv /\ [Next]_vars => RoutesInv'
<1>. SUFFICES ASSUME IInv, RoutesInv, [Next]_vars PROVE RoutesInv'
  OBVIOUS
<1>0. Typed /\ (Working => Progress)
  BY DEF IInv, Housekept
<1>1. CASE StartFrame
  <2>1. /\ pc = "idle" /\ pc' = "command"
        /\ before' = [o \in Outputs |-> IF route[o] # NoId THEN route[o] ELSE before[o]]
        /\ UNCHANGED <<connected, route, memory, switched, doomed>>
        /\ batch'.routes = route
    BY <1>1 DEF StartFrame, outputs
  <2>2. connected \subseteq Outputs
    BY <1>0 DEF Typed, TypeOK
  <2>3. MemoryTrue'
    BY <2>1 DEF RoutesInv, MemoryTrue, Last
  <2>4. BatchTrue'
    BY <2>1, <2>2 DEF RoutesInv, MemoryTrue, BatchTrue, Untouched, Excused, Pointed
  <2>. QED BY <2>1, <2>3, <2>4 DEF RoutesInv, WorkTrue, Working, RouteKept, SwitchAnswered, Settled
<1>2. CASE CreateSpace \/ SwitchSpace \/ SwitchToNewSpace \/ DestroySpace
  BY <1>2, CreateKeeps, SwitchKeeps, DestroyKeeps
<1>3. CASE IgnoreControl
  <2>1. BatchTrue' /\ pc = "command" /\ pc' = "command"
        /\ UNCHANGED <<memory, before, connected>>
    BY <1>3
    DEF IgnoreControl, Consume, spaces, outputs, locals, history, RoutesInv, BatchTrue, Untouched,
        Excused, Pointed, HasId
  <2>. QED BY <2>1, InBatch
<1>4. CASE EndCommands
  <2>1. /\ pc = "command" /\ pc' = IF connected = {} THEN "remember" ELSE "survey"
        /\ todo' = connected
        /\ UNCHANGED <<live, id, connected, route, memory, assigned, needs, before, switched, doomed>>
    BY <1>4 DEF EndCommands, spaces, outputs, history
  <2>2. assigned = {} /\ needs = <<>>
    BY <2>1 DEF IInv, Housekept, Working
  <2>3. Waiting' = {} /\ Served' = {}
    BY <2>1, <2>2 DEF Waiting, Served
  <2>4. WorkTrue'
    BY <2>1, <2>2, <2>3
    DEF RoutesInv, BatchTrue, WorkTrue, Working, Untouched, Excused, Pointed, HasId
  <2>. QED BY <2>1, <2>4
       DEF RoutesInv, MemoryTrue, BatchTrue, RouteKept, SwitchAnswered, Settled
<1>5. ASSUME NEW o \in Outputs, KeepRoute(o) \/ NeedRoute(o) PROVE RoutesInv'
  BY <1>5, SurveyKeeps
<1>6. CASE EndSurvey
  <2>1. /\ pc = "survey" /\ pc' = "assign"
        /\ UNCHANGED <<live, id, connected, route, memory, assigned, needs, todo, before, switched,
                       doomed>>
    BY <1>6 DEF EndSurvey, spaces, outputs, locals, history
  <2>2. Waiting' = Waiting /\ Served' = Served
    BY <2>1 DEF Waiting, Served
  <2>3. WorkTrue'
    BY <2>1, <2>2
    DEF RoutesInv, WorkTrue, Working, Untouched, Excused, Pointed, HasId, Kept, Answered
  <2>. QED BY <2>1, <2>3
       DEF RoutesInv, MemoryTrue, BatchTrue, RouteKept, SwitchAnswered, Settled
<1>7. CASE AssignRemembered
  <2>1. PICK e \in Remembered(Head(needs)) : Assign(id[e])
    BY <1>7 DEF AssignRemembered
  <2>2. /\ pc = "assign" /\ pc' = "assign" /\ needs # <<>> /\ live' = live /\ id' = id
    BY <1>7, <2>1 DEF AssignRemembered, Assign, spaces
  <2>3. id[e] \in Ids /\ id[e] = memory[Head(needs)]
    BY <1>0, <2>1 DEF Remembered, HasId, Typed, TypeOK
  <2>4. \A j : HasId(j)' = HasId(j)
    BY <2>2 DEF HasId
  <2>. QED BY <2>1, <2>2, <2>3, <2>4, AssignKeeps
<1>8. CASE AssignUnassigned
  <2>1. PICK e \in Unassigned : Assign(id[e])
    BY <1>8 DEF AssignUnassigned
  <2>2. /\ pc = "assign" /\ pc' = "assign" /\ needs # <<>> /\ live' = live /\ id' = id
        /\ Remembered(Head(needs)) = {}
    BY <1>8, <2>1 DEF AssignUnassigned, Assign, spaces
  <2>3. id[e] \in Ids
    BY <1>0, <2>1 DEF Unassigned, Typed, TypeOK
  <2>4. HasId(memory[Head(needs)]) = {} \/ memory[Head(needs)] \in assigned
    BY <2>2 DEF Remembered, HasId
  <2>5. \A j : HasId(j)' = HasId(j)
    BY <2>2 DEF HasId
  <2>. QED BY <2>1, <2>2, <2>3, <2>4, <2>5, AssignKeeps
<1>9. CASE AssignNew
  <2>. DEFINE i == NextId(live)
              e == FreshEntity(i)
  <2>1. /\ Room(i) /\ live' = live \cup {e} /\ id' = [id EXCEPT ![e] = i] /\ Assign(i)
        /\ pc = "assign" /\ pc' = "assign" /\ needs # <<>> /\ Remembered(Head(needs)) = {}
    BY <1>9 DEF AssignNew, Spawn, Assign
  <2>2. e \in Entities \ live /\ i \in Ids /\ live \in SUBSET Entities /\ id \in [Entities -> Ids]
    BY <1>0, <2>1, FreshIsFree DEF Typed, TypeOK
  <2>3. HasId(memory[Head(needs)]) = {} \/ memory[Head(needs)] \in assigned
    BY <2>1 DEF Remembered, HasId
  <2>. HIDE DEF e, i
  <2>4. \A j : HasId(j)' = HasId(j) \/ j = i
    BY <2>1, <2>2 DEF HasId
  <2>. QED BY <2>1, <2>2, <2>3, <2>4, AssignKeeps
<1>10. CASE EndHousekeeping
  <2>1. /\ pc = "assign" /\ pc' = "remember" /\ needs = <<>> /\ todo = {}
        /\ UNCHANGED <<live, id, connected, route, memory, before, switched, doomed>>
    BY <1>10 DEF EndHousekeeping, spaces, outputs, history, IInv, Housekept
  <2>2. Served = connected
    BY <2>1 DEF Served, Waiting
  <2>3. RouteKept' /\ SwitchAnswered'
    BY <2>1, <2>2
    DEF RoutesInv, WorkTrue, Working, Kept, Excused, Answered, RouteKept, SwitchAnswered, HasId
  <2>. QED BY <2>1, <2>3 DEF RoutesInv, MemoryTrue, BatchTrue, WorkTrue, Working
<1>11. CASE Remember
  <2>1. /\ pc = "remember" /\ pc' = "mark"
        /\ memory' = [o \in Outputs |-> IF o \in connected /\ route[o] # NoId THEN route[o]
                                         ELSE memory[o]]
        /\ UNCHANGED <<live, id, connected, route, before, switched, doomed>>
    BY <1>11 DEF Remember, spaces, history
  <2>2. \A o \in connected : route[o] # NoId
    BY <2>1 DEF IInv, Housekept, RoutesExclusive, Settled
  <2>3. \A o \in Outputs \ connected : route[o] = NoId
    BY DEF IInv, Housekept
  <2>4. MemoryTrue'
    BY <2>1, <2>2, <2>3 DEF RoutesInv, MemoryTrue, Last
  <2>5. RouteKept' /\ SwitchAnswered'
    BY <2>1 DEF RoutesInv, RouteKept, SwitchAnswered, Settled, HasId
  <2>. QED BY <2>1, <2>4, <2>5 DEF RoutesInv, BatchTrue, WorkTrue, Working
<1>12. CASE Mark
  <2>1. /\ pc = "mark" /\ pc' = "sleep"
        /\ UNCHANGED <<live, id, connected, route, memory, before, switched, doomed>>
    BY <1>12 DEF Mark, outputs, history
  <2>2. MemoryTrue'
    BY <2>1 DEF RoutesInv, MemoryTrue, Last
  <2>3. RouteKept' /\ SwitchAnswered'
    BY <2>1 DEF RoutesInv, RouteKept, SwitchAnswered, Settled, HasId
  <2>. QED BY <2>1, <2>2, <2>3 DEF RoutesInv, BatchTrue, WorkTrue, Working
<1>13. CASE Sleep
  <2>1. /\ pc = "sleep" /\ pc' = "idle" /\ switched' = NoRoutes /\ doomed' = {}
        /\ UNCHANGED <<connected, route, memory, before>>
    BY <1>13 DEF Sleep, outputs
  <2>2. MemoryTrue'
    BY <2>1 DEF RoutesInv, MemoryTrue, Last, NoRoutes
  <2>. QED BY <2>1, <2>2
       DEF RoutesInv, BatchTrue, WorkTrue, Working, RouteKept, SwitchAnswered, Settled
<1>14. ASSUME pc = "idle", pc' = "idle", MemoryTrue' PROVE RoutesInv'
  BY <1>14 DEF RoutesInv, BatchTrue, WorkTrue, Working, RouteKept, SwitchAnswered, Settled
<1>15. ASSUME NEW o \in Outputs, Connect(o) PROVE RoutesInv'
  <2>1. MemoryTrue'
    BY <1>15 DEF Connect, history, RoutesInv, MemoryTrue, Last
  <2>. QED BY <1>14, <1>15, <2>1 DEF Connect
<1>16. ASSUME NEW o \in Outputs, Disconnect(o) PROVE RoutesInv'
  <2>1. /\ pc = "idle" /\ connected' = connected \ {o}
        /\ route' = [route EXCEPT ![o] = NoId]
        /\ before' = [before EXCEPT ![o] = IF route[o] = NoId THEN @ ELSE route[o]]
        /\ UNCHANGED <<pc, memory, switched, doomed>>
    BY <1>16 DEF Disconnect
  <2>2. route \in [Outputs -> Ids \cup {NoId}] /\ before \in [Outputs -> Ids \cup {NoId}]
    BY <1>0 DEF Typed, TypeOK
  <2>3. \A p \in Outputs : /\ route'[p] = IF p = o THEN NoId ELSE route[p]
                           /\ before'[p] = IF p = o THEN Last(o) ELSE before[p]
    BY <2>1, <2>2 DEF Last
  <2>4. MemoryTrue'
    BY <2>1, <2>3 DEF RoutesInv, MemoryTrue, Last
  <2>. QED BY <1>14, <2>1, <2>4
<1>17. CASE \/ \E o \in connected \cup {None} : FocusOutput(o)
            \/ \E o \in connected : ChoosePrimary(o)
            \/ \E c \in Controls : Stage(c)
            \/ \E w \in Windows : Upsert(w) \/ Close(w)
  <2>1. pc = "idle" /\ UNCHANGED <<pc, connected, route, memory, before, switched, doomed>>
    BY <1>17 DEF FocusOutput, ChoosePrimary, Stage, Upsert, Close, outputs, history
  <2>2. MemoryTrue'
    BY <2>1 DEF RoutesInv, MemoryTrue, Last
  <2>. QED BY <1>14, <2>1, <2>2
<1>18. CASE UNCHANGED vars
  <2>1. UNCHANGED <<pc, live, id, connected, route, memory, batch, todo, assigned, needs,
                    before, switched, doomed>>
    BY <1>18 DEF vars, spaces, outputs, locals, history
  <2>2. Waiting' = Waiting /\ Served' = Served
    BY <2>1 DEF Waiting, Served
  <2>3. MemoryTrue' /\ RouteKept' /\ SwitchAnswered'
    BY <2>1 DEF RoutesInv, MemoryTrue, Last, RouteKept, SwitchAnswered, Settled, HasId
  <2>4. BatchTrue'
    BY <2>1 DEF RoutesInv, BatchTrue, Untouched, Excused, Pointed, HasId
  <2>5. WorkTrue'
    BY <2>1, <2>2
    DEF RoutesInv, WorkTrue, Working, Untouched, Excused, Pointed, Kept, Answered, HasId
  <2>. QED BY <2>3, <2>4, <2>5 DEF RoutesInv
<1>. QED
  BY <1>1, <1>2, <1>3, <1>4, <1>5, <1>6, <1>7, <1>8, <1>9, <1>10, <1>11, <1>12, <1>13, <1>15,
     <1>16, <1>17, <1>18
  DEF Next, Frame, Outside

\* An output shows what it showed last, unless it was switched away, the
\* workspace was destroyed, or another output shows it; the output a batch
\* switched shows the target, unless that was destroyed or another output has
\* it; and what is active is shown: however controls, outputs and pointer
\* interleave.
THEOREM RoutesAreTrue == Spec => []RoutesTrue
<1>1. Init => RoutesInv
  BY DEF Init, RoutesInv, MemoryTrue, BatchTrue, WorkTrue, Working, RouteKept, SwitchAnswered,
         Settled, Last, NoRoutes
<1>2. RoutesInv /\ ActiveShown => RoutesTrue
  BY DEF RoutesInv, RoutesTrue
<1>. QED BY <1>1, <1>2, NextRoutes, InvAlways, ActiveIsShown, PTL DEF Spec

=============================================================================
