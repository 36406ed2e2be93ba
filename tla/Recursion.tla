----------------------------- MODULE Recursion ------------------------------
(***************************************************************************)
(* What a proof needs to know of a function that is defined step by step   *)
(* along a sequence, f[i] from f[i - 1]: that it exists, and that what     *)
(* holds at its beginning and survives every step holds everywhere.  The   *)
(* latter rests on the least number of a set: whoever fails at some step   *)
(* has a first step at which it fails.                                     *)
(***************************************************************************)
EXTENDS Naturals, Sequences, WellFoundedInduction, NaturalsInduction, TLAPS

(* A set of numbers that is not empty has a least one. *)
LEMMA LeastNumber ==
  ASSUME NEW T \in SUBSET Nat, T # {}
  PROVE  \E n \in T : \A k \in T : n <= k
<1>1. IsWellFoundedOn(OpToRel(<, Nat), Nat)
  BY NatLessThanWellFounded
<1>2. PICK n \in T : \A k \in T : ~(<<k, n>> \in OpToRel(<, Nat))
  BY <1>1, WFMin
<1>3. \A k \in T : ~(k < n)
  BY <1>2 DEF OpToRel
<1> QED
  BY <1>3

(* The set of the steps at which something holds is all of them, if it has 0
   and with every step the next one. *)
LEMMA EveryStep ==
  ASSUME NEW N \in Nat, NEW T, 0 \in T, \A i \in 1 .. N : i - 1 \in T => i \in T
  PROVE  0 .. N \subseteq T
<1> SUFFICES ASSUME ~(0 .. N \subseteq T) PROVE FALSE
  OBVIOUS
<1> DEFINE F == {i \in 0 .. N : i \notin T}
<1>1. F \in SUBSET Nat /\ F # {}
  OBVIOUS
<1>2. PICK i \in F : \A k \in F : i <= k
  <2> HIDE DEF F
  <2> QED
    BY <1>1, LeastNumber
<1>3. i \in 1 .. N /\ i \notin T
  BY <1>2
<1>4. i - 1 \in 0 .. N /\ i - 1 \notin F
  BY <1>2, <1>3
<1>5. i - 1 \in T
  BY <1>4
<1> QED
  BY <1>3, <1>5

(* A function over 0 .. N whose every value is made from the one before it. *)
LEMMA RecursionIsDefined ==
  ASSUME NEW S, NEW base \in S, NEW N \in Nat, NEW step \in [1 .. N -> [S -> S]]
  PROVE  \E f \in [0 .. N -> S] :
           f[0] = base /\ \A i \in 1 .. N : f[i] = step[i][f[i - 1]]
<1> DEFINE Steps(f, M) == f[0] = base /\ \A i \in 1 .. M : f[i] = step[i][f[i - 1]]
           T == {M \in 0 .. N : \E f \in [0 .. M -> S] : Steps(f, M)}
<1>1. 0 \in T
  <2>1. PICK f : f = [i \in 0 .. 0 |-> base]
    OBVIOUS
  <2>2. f \in [0 .. 0 -> S] /\ f[0] = base
    BY <2>1
  <2>3. Steps(f, 0)
    BY <2>2
  <2> HIDE DEF Steps
  <2> QED
    BY <2>2, <2>3
<1>2. ASSUME NEW M \in 1 .. N, M - 1 \in T PROVE M \in T
  <2>1. PICK f \in [0 .. M - 1 -> S] : Steps(f, M - 1)
    <3> HIDE DEF Steps
    <3> QED
      BY <1>2
  <2>2. f[M - 1] \in S /\ step[M] \in [S -> S]
    <3>1. M - 1 \in 0 .. M - 1
      OBVIOUS
    <3> HIDE DEF T, Steps
    <3> QED
      BY <3>1
  <2>3. PICK next : next = step[M][f[M - 1]]
    OBVIOUS
  <2>4. next \in S
    BY <2>2, <2>3
  <2>5. PICK g : g = [i \in 0 .. M |-> IF i = M THEN next ELSE f[i]]
    OBVIOUS
  <2>6. g \in [0 .. M -> S]
    <3> HIDE DEF T, Steps
    <3> QED
      BY <2>4, <2>5
  <2>7. g[M] = next /\ \A i \in 0 .. M - 1 : g[i] = f[i]
    <3> HIDE DEF T, Steps
    <3> QED
      BY <2>5
  <2>8. Steps(g, M)
    <3>1. g[0] = base
      BY <2>1, <2>7
    <3>2. \A i \in 1 .. M - 1 : g[i] = step[i][g[i - 1]]
      BY <2>1, <2>7
    <3>3. g[M] = step[M][g[M - 1]]
      BY <2>3, <2>7
    <3> QED
      BY <3>1, <3>2, <3>3
  <2> HIDE DEF Steps
  <2> QED
    BY <2>6, <2>8
<1>3. 0 .. N \subseteq T
  <2> HIDE DEF T
  <2> QED
    BY <1>1, <1>2, EveryStep
<1>4. PICK f \in [0 .. N -> S] : Steps(f, N)
  <2> HIDE DEF Steps
  <2> QED
    BY <1>3
<1> QED
  BY <1>4
=============================================================================
