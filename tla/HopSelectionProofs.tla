------------------------- MODULE HopSelectionProofs -------------------------
(***************************************************************************)
(* Proofs about HopSelection, for every set of nodes, every order of the   *)
(* map and every skip: the hop chosen is allowed, and a choice that fails  *)
(* had at least half of the map to avoid.                                  *)
(***************************************************************************)
EXTENDS HopSelection, FiniteSetTheorems, TLAPS

(* One more position has been passed in the running loop.                  *)
LEMMA OneMore ==
    ASSUME NEW S, NEW T \in SUBSET S, IsFiniteSet(S), NEW x \in S \ T
    PROVE  Cardinality(T \cup {x}) = Cardinality(T) + 1
<1>1. IsFiniteSet(T)
  BY FS_Subset
<1>2. QED
  BY <1>1, FS_AddElement

(* A loop that has passed a proper part of the map is not at its end.      *)
LEMMA Remaining ==
    ASSUME NEW S, NEW T \in SUBSET S, IsFiniteSet(S)
    PROVE  /\ Cardinality(T) \in Nat /\ Cardinality(S) \in Nat
           /\ Cardinality(T) <= Cardinality(S)
           /\ Cardinality(T) = Cardinality(S) => T = S
BY FS_Subset, FS_CardinalityType

Inv == TypeOK /\ HopAllowed /\ LoopCount

LEMMA InvStep == Inv /\ [Next]_vars => Inv'
<1> SUFFICES ASSUME Inv, [Next]_vars
             PROVE  Inv'
  OBVIOUS
<1>0. /\ IsFiniteSet(listed) /\ IsFiniteSet(Nodes)
      /\ Cardinality(listed) \in Nat /\ Cardinality(seen) \in Nat
      /\ \A l \in Loops : IsFiniteSet(tested[l]) /\ Cardinality(tested[l]) \in Nat
  BY NodesAssumption, FS_Subset, FS_CardinalityType DEF Inv, TypeOK
<1>1. CASE Request
  <2>1. /\ pc' = "first" /\ listed' \in SUBSET Nodes /\ listed' # {}
        /\ skip' \in 0..(Cardinality(listed') - 1)
        /\ i' = 0 /\ seen' = {} /\ result' = None
        /\ tested' = [l \in Loops |-> {}]
        /\ avoid' \subseteq Nodes \cup {Asker} /\ Asker \in avoid'
    BY <1>1 DEF Request, MakeAvoidMap
  <2>2. /\ IsFiniteSet(listed') /\ Cardinality(listed') \in Nat
        /\ Cardinality({}) = 0
    BY <1>0, <2>1, FS_Subset, FS_CardinalityType, FS_EmptySet
  <2>3. TypeOK'
    BY <2>1, <2>2 DEF TypeOK, Loops
  <2>4. HopAllowed'
    BY <2>1 DEF HopAllowed
  <2>5. LoopCount'
    BY <2>1, <2>2 DEF LoopCount, Loops
  <2>6. QED
    BY <2>3, <2>4, <2>5 DEF Inv
<1>2. ASSUME NEW n \in Nodes, SkipOver(n)
      PROVE  Inv'
  <2>1. /\ pc \in Loops /\ n \in listed \ seen /\ ~Tests
        /\ i' = i + 1 /\ seen' = seen \cup {n}
        /\ UNCHANGED <<pc, listed, avoid, skip, tested, result>>
    BY <1>2 DEF SkipOver
  <2>2. Cardinality(seen') = Cardinality(seen) + 1
    BY <1>0, <2>1, OneMore DEF Inv, TypeOK
  <2>3. TypeOK' /\ HopAllowed'
    BY <2>1 DEF Inv, TypeOK, HopAllowed, Loops
  <2>4. LoopCount'
    BY <1>0, <2>1, <2>2 DEF Inv, TypeOK, LoopCount, Loops, Tests
  <2>5. QED
    BY <2>3, <2>4 DEF Inv
<1>3. ASSUME NEW n \in Nodes, PassOver(n)
      PROVE  Inv'
  <2>1. /\ pc \in Loops /\ n \in listed \ seen /\ Tests /\ n \in avoid
        /\ i' = i + 1 /\ seen' = seen \cup {n}
        /\ tested' = [tested EXCEPT ![pc] = tested[pc] \cup {n}]
        /\ UNCHANGED <<pc, listed, avoid, skip, result>>
    BY <1>3 DEF PassOver
  <2>2. Cardinality(seen') = Cardinality(seen) + 1
    BY <1>0, <2>1, OneMore DEF Inv, TypeOK
  <2>3. /\ tested'[pc] = tested[pc] \cup {n}
        /\ \A l \in Loops : l # pc => tested'[l] = tested[l]
        /\ Cardinality(tested'[pc]) = Cardinality(tested[pc]) + 1
    <3>1. n \notin tested[pc] /\ tested[pc] \in SUBSET listed
      BY <2>1 DEF Inv, TypeOK, LoopCount
    <3>2. Cardinality(tested[pc] \cup {n}) = Cardinality(tested[pc]) + 1
      BY <1>0, <2>1, <3>1, OneMore
    <3>3. QED
      BY <2>1, <3>2 DEF Inv, TypeOK
  <2>4. TypeOK' /\ HopAllowed'
    BY <2>1, <2>3 DEF Inv, TypeOK, HopAllowed, Loops
  <2>5. CASE pc = "first"
    <3>1. /\ i > skip /\ i \in Nat /\ skip \in Nat
          /\ Cardinality(tested["first"]) = i - (skip + 1)
          /\ i = Cardinality(seen) /\ tested["second"] = {}
      BY <2>1, <2>5 DEF Inv, TypeOK, LoopCount, Tests
    <3>2. /\ tested'["first"] = tested["first"] \cup {n}
          /\ tested'["second"] = {}
          /\ Cardinality(tested'["first"]) = i' - (skip' + 1) /\ i' > skip'
      BY <2>1, <2>3, <2>5, <3>1 DEF Loops
    <3>3. \A l \in Loops : tested'[l] \subseteq avoid'
      BY <2>1, <3>1, <3>2 DEF Inv, LoopCount, Loops
    <3>4. LoopCount'
      BY <2>1, <2>2, <2>5, <3>1, <3>2, <3>3 DEF Inv, LoopCount, Loops
    <3>5. QED
      BY <2>4, <3>4 DEF Inv
  <2>6. CASE pc = "second"
    <3>1. /\ i <= skip /\ i \in Nat /\ skip \in Nat
          /\ Cardinality(tested["second"]) = i
          /\ i = Cardinality(seen)
      BY <2>1, <2>6 DEF Inv, TypeOK, LoopCount, Tests
    <3>2. /\ tested'["second"] = tested["second"] \cup {n}
          /\ tested'["first"] = tested["first"]
          /\ Cardinality(tested'["second"]) = i + 1
      BY <2>1, <2>3, <2>6, <3>1 DEF Loops
    <3>3. \A l \in Loops : tested'[l] \subseteq avoid'
      BY <2>1, <3>2 DEF Inv, LoopCount, Loops
    <3>4. LoopCount'
      BY <2>1, <2>2, <2>6, <3>1, <3>2, <3>3 DEF Inv, LoopCount, Loops
    <3>5. QED
      BY <2>4, <3>4 DEF Inv
  <2>7. QED
    BY <2>1, <2>4, <2>5, <2>6 DEF Inv, Loops
<1>4. ASSUME NEW n \in Nodes, Take(n)
      PROVE  Inv'
  <2>1. /\ pc \in Loops /\ n \in listed /\ n \notin avoid
        /\ result' = n /\ pc' = "unlock"
        /\ UNCHANGED <<listed, avoid, skip, i, seen, tested>>
    BY <1>4 DEF Take
  <2>2. n # None /\ n # Asker
    BY <2>1, NodesAssumption DEF Inv, LoopCount
  <2>3. QED
    BY <2>1, <2>2 DEF Inv, TypeOK, HopAllowed, LoopCount, Loops
<1>5. CASE EndLoop
  <2>1. /\ pc \in Loops /\ seen = listed
        /\ UNCHANGED <<listed, avoid, skip, tested, result>>
    BY <1>5 DEF EndLoop
  <2>2. Cardinality({}) = 0
    BY FS_EmptySet
  <2>3. CASE pc = "first" /\ pc' = "second" /\ i' = 0 /\ seen' = {}
    <3>1. /\ skip \in Nat /\ i = Cardinality(listed)
          /\ skip + 1 <= Cardinality(listed)
          /\ Cardinality(tested["first"]) = i - (skip + 1)
          /\ tested["second"] = {} /\ result = None
      BY <1>0, <2>1, <2>3 DEF Inv, TypeOK, LoopCount
    <3>2. LoopCount'
      BY <1>0, <2>1, <2>2, <2>3, <3>1 DEF Inv, LoopCount, Loops
    <3>3. TypeOK' /\ HopAllowed'
      BY <2>1, <2>3 DEF Inv, TypeOK, HopAllowed, Loops
    <3>4. QED
      BY <3>2, <3>3 DEF Inv
  <2>4. CASE pc = "second" /\ pc' = "unlock" /\ UNCHANGED <<i, seen>>
    BY <1>0, <2>1, <2>4
       DEF Inv, TypeOK, HopAllowed, LoopCount, Loops
  <2>5. QED
    BY <1>5, <2>3, <2>4 DEF EndLoop
<1>6. CASE Unlock
  BY <1>6 DEF Unlock, Inv, TypeOK, HopAllowed, LoopCount, Loops
<1>7. CASE UNCHANGED vars
  BY <1>7 DEF vars, Inv, TypeOK, HopAllowed, LoopCount, Loops
<1>8. QED
  BY <1>1, <1>2, <1>3, <1>4, <1>5, <1>6, <1>7 DEF Next, Choose

LEMMA InvInit == Init => Inv
<1>1. Cardinality({}) = 0
  BY FS_EmptySet
<1>2. QED
  BY <1>1 DEF Init, Inv, TypeOK, HopAllowed, LoopCount, Loops

THEOREM InvHolds == Spec => []Inv
BY InvInit, InvStep, PTL DEF Spec

(* GetExit and GetGuard keep their locals in range, and return a name of   *)
(* the map or none.                                                        *)
THEOREM Typing == Spec => []TypeOK
<1>1. Inv => TypeOK
  BY DEF Inv
<1>2. QED
  BY <1>1, InvHolds, PTL

(* The hop GetExit or GetGuard returns is in its map, is not the client    *)
(* that asked, and is none of those it asked to avoid.                     *)
THEOREM Allowed == Spec => []HopAllowed
<1>1. Inv => HopAllowed
  BY DEF Inv
<1>2. QED
  BY <1>1, InvHolds, PTL

(* With fewer than half of a map to avoid, a request is always answered.   *)
THEOREM MissBounded == Spec => []MissBound
<1>1. ASSUME Inv, pc = "unlock", result = None
      PROVE  Cardinality(listed) <= 2 * Cardinality(listed \cap avoid)
  <2> DEFINE both == listed \cap avoid
  <2>1. IsFiniteSet(both) /\ IsFiniteSet(listed)
    BY <1>1, NodesAssumption, FS_Subset DEF Inv, TypeOK
  <2>2. tested["first"] \in SUBSET both /\ tested["second"] \in SUBSET both
    BY <1>1 DEF Inv, TypeOK, LoopCount, Loops
  <2>3. /\ Cardinality(tested["first"]) \in Nat
        /\ Cardinality(tested["second"]) \in Nat
        /\ Cardinality(both) \in Nat
        /\ Cardinality(tested["first"]) <= Cardinality(both)
        /\ Cardinality(tested["second"]) <= Cardinality(both)
    <3> HIDE DEF both
    <3>1. QED
      BY <2>1, <2>2, Remaining
  <2>4. /\ Cardinality(tested["first"]) + skip + 1 = Cardinality(listed)
        /\ Cardinality(tested["second"]) = skip + 1
        /\ skip \in Nat
    BY <1>1 DEF Inv, TypeOK, LoopCount
  <2>5. QED
    BY <2>3, <2>4
<1>2. Inv => MissBound
  BY <1>1 DEF MissBound
<1>3. QED
  BY <1>2, InvHolds, PTL

-----------------------------------------------------------------------------
(* makeAvoidMap holds no more than the asker and the names in D0.          *)
AvoidFew == IsFiniteSet(avoid) /\ Cardinality(avoid) <= MaxAvoid + 1

(* A map with more than twice as many nodes as a request avoids serves     *)
(* every request, in whatever order it is walked: for a bridge, seven.     *)
LargeMapServes ==
    pc = "unlock" /\ Cardinality(listed) > 2 * (MaxAvoid + 1)
       => result # None

LEMMA AvoidFewHolds == Spec => []AvoidFew
<1>1. Init => AvoidFew
  BY FS_EmptySet, MaxAvoidAssumption DEF Init, AvoidFew
<1>2. AvoidFew /\ [Next]_vars => AvoidFew'
  <2> SUFFICES ASSUME AvoidFew, [Next]_vars
               PROVE  AvoidFew'
    OBVIOUS
  <2>1. CASE Request
    <3>1. PICK names \in SUBSET Nodes :
             Cardinality(names) <= MaxAvoid /\ avoid' = {Asker} \cup names
      BY <2>1 DEF Request, MakeAvoidMap
    <3>2. IsFiniteSet(names) /\ Cardinality(names) \in Nat
      BY NodesAssumption, FS_Subset, FS_CardinalityType
    <3>3. /\ IsFiniteSet(names \cup {Asker})
          /\ \/ Cardinality(names \cup {Asker}) = Cardinality(names)
             \/ Cardinality(names \cup {Asker}) = Cardinality(names) + 1
      BY <3>2, FS_AddElement
    <3>4. avoid' = names \cup {Asker}
      BY <3>1
    <3>5. Cardinality(names \cup {Asker}) <= MaxAvoid + 1
      BY <3>1, <3>2, <3>3, MaxAvoidAssumption
    <3>6. QED
      BY <3>3, <3>4, <3>5 DEF AvoidFew
  <2>2. CASE Choose \/ UNCHANGED vars
    <3>1. UNCHANGED avoid
      BY <2>2 DEF Choose, SkipOver, PassOver, Take, EndLoop, Unlock, vars
    <3>2. QED
      BY <3>1 DEF AvoidFew
  <2>3. QED
    BY <2>1, <2>2 DEF Next
<1>3. QED
  BY <1>1, <1>2, PTL DEF Spec

(* GetExit and GetGuard never give up (result none) over a map that is     *)
(* large enough for what a request may ask to avoid.                       *)
THEOREM LargeMapAnswers == Spec => []LargeMapServes
<1>1. ASSUME TypeOK, MissBound, AvoidFew
      PROVE  LargeMapServes
  <2>1. /\ IsFiniteSet(listed) /\ IsFiniteSet(avoid)
    BY <1>1, NodesAssumption, FS_Subset DEF TypeOK, AvoidFew
  <2>2. /\ Cardinality(listed \cap avoid) \in Nat
        /\ Cardinality(avoid) \in Nat /\ Cardinality(listed) \in Nat
        /\ Cardinality(listed \cap avoid) <= Cardinality(avoid)
    BY <2>1, FS_Subset, FS_CardinalityType
  <2>3. QED
    BY <1>1, <2>2, MaxAvoidAssumption
       DEF LargeMapServes, MissBound, AvoidFew
<1>2. QED
  BY <1>1, Typing, MissBounded, AvoidFewHolds, PTL
=============================================================================
