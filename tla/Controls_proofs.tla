---------------------------- MODULE Controls_proofs ----------------------------
(***************************************************************************)
(* Proofs about the camera controls.                                       *)
(***************************************************************************)
EXTENDS Controls, WellFoundedInduction, TLAPS

(* Induction on a set of naturals: a number that is missing would be the   *)
(* least one.                                                              *)
LEMMA NatInductionOnSet ==
  ASSUME NEW S, 0 \in S, \A k \in Nat : k \in S => k + 1 \in S
  PROVE  Nat \subseteq S
<1> DEFINE T == Nat \ S
<1> SUFFICES ASSUME T # {} PROVE FALSE
  OBVIOUS
<1>1. T \subseteq Nat
  OBVIOUS
<1> HIDE DEF T
<1>2. PICK x \in T : \A y \in T : <<y, x>> \notin OpToRel(<, Nat)
  BY <1>1, NatLessThanWellFounded, WFMin, Zenon
<1> USE DEF T
<1>3. x \in Nat /\ x # 0 /\ x \notin S
  BY <1>2
<1>4. x - 1 \in Nat /\ x - 1 < x /\ x - 1 + 1 = x
  BY <1>3
<1>5. <<x - 1, x>> \in OpToRel(<, Nat)
  BY <1>3, <1>4 DEF OpToRel
<1>6. x - 1 \in S
  BY <1>2, <1>4, <1>5
<1>. QED
  BY <1>3, <1>4, <1>6

(* What holds of h[0], and of h[k] when it holds of h[k - 1], holds of     *)
(* all.                                                                    *)
LEMMA FamilyInduction ==
  ASSUME NEW n \in Nat, NEW T, NEW h, h[0] \in T[0],
         \A k \in 1 .. n : h[k - 1] \in T[k - 1] => h[k] \in T[k]
  PROVE  \A k \in 0 .. n : h[k] \in T[k]
<1> DEFINE S == {k \in Nat : k <= n => h[k] \in T[k]}
<1>1. 0 \in S
  OBVIOUS
<1>2. ASSUME NEW k \in Nat, k \in S PROVE k + 1 \in S
  <2> SUFFICES ASSUME k + 1 <= n PROVE h[k + 1] \in T[k + 1]
    OBVIOUS
  <2>1. k + 1 \in 1 .. n /\ k + 1 - 1 = k /\ k <= n
    OBVIOUS
  <2>. QED
    BY <1>2, <2>1
<1> HIDE DEF S
<1>3. Nat \subseteq S
  BY <1>1, <1>2, NatInductionOnSet
<1>. QED
  BY <1>3 DEF S

(* What the recursive function of a loop is: a, then G[k] of the one before. *)
Loops(n, a, G, g) == g = [k \in 0 .. n |-> IF k = 0 THEN a ELSE G[k][g[k - 1]]]

(* A function that is defined by recursion on 0 .. n exists.               *)
LEMMA LoopExists ==
  ASSUME NEW n \in Nat, NEW a, NEW G
  PROVE  \E g : Loops(n, a, G, g)
<1> DEFINE Up(g, j) == g = [k \in 0 .. j |-> IF k = 0 THEN a ELSE G[k][g[k - 1]]]
           S == {j \in Nat : \E g : Up(g, j)}
<1>1. 0 \in S
  <2>1. Up([k \in 0 .. 0 |-> a], 0)
    OBVIOUS
  <2>. QED
    BY <2>1
<1>2. ASSUME NEW j \in Nat, j \in S PROVE j + 1 \in S
  <2>1. PICK g : Up(g, j)
    BY <1>2
  <2> DEFINE f == [k \in 0 .. j + 1 |-> IF k = j + 1 THEN G[j + 1][g[j]] ELSE g[k]]
             e == [k \in 0 .. j + 1 |-> IF k = 0 THEN a ELSE G[k][f[k - 1]]]
  <2>2. ASSUME NEW k \in 0 .. j + 1 PROVE f[k] = e[k]
    <3>1. CASE k = j + 1
      <4>1. k - 1 = j /\ j \in 0 .. j + 1 /\ k # 0 /\ j # j + 1
        BY <3>1
      <4>. QED
        BY <3>1, <4>1
    <3>2. CASE k # j + 1
      <4>1. k \in 0 .. j /\ (k # 0 => k - 1 \in 0 .. j + 1 /\ k - 1 # j + 1)
        BY <3>2
      <4>2. g[k] = IF k = 0 THEN a ELSE G[k][g[k - 1]]
        BY <2>1, <4>1
      <4>. QED
        BY <3>2, <4>1, <4>2
    <3>. QED
      BY <3>1, <3>2
  <2>3. f = e
    BY <2>2
  <2>4. Up(f, j + 1)
    BY <2>3
  <2> HIDE DEF f, Up
  <2>. QED
    BY <2>4
<1> HIDE DEF S
<1>3. n \in S
  BY <1>1, <1>2, NatInductionOnSet
<1>. QED
  BY <1>3 DEF S, Loops

(* What T[0] has and G[k] takes from T[k - 1] to T[k] is in T[k] after k   *)
(* turns.                                                                  *)
LEMMA LoopStays ==
  ASSUME NEW n \in Nat, NEW a, NEW G, NEW T, a \in T[0],
         \A k \in 1 .. n : \A x \in T[k - 1] : G[k][x] \in T[k]
  PROVE  \E g : Loops(n, a, G, g) /\ \A k \in 0 .. n : g[k] \in T[k]
<1>1. PICK g : Loops(n, a, G, g)
  BY LoopExists, Zenon
<1>2. g = [k \in 0 .. n |-> IF k = 0 THEN a ELSE G[k][g[k - 1]]]
  BY <1>1 DEF Loops
<1>3. g[0] \in T[0]
  BY <1>2
<1>4. ASSUME NEW k \in 1 .. n, g[k - 1] \in T[k - 1] PROVE g[k] \in T[k]
  <2>1. k \in 0 .. n /\ k # 0
    OBVIOUS
  <2>2. g[k] = G[k][g[k - 1]]
    BY <1>2, <2>1
  <2>. QED
    BY <1>4, <2>2
<1>5. \A k \in 0 .. n : g[k] \in T[k]
  BY <1>3, <1>4, FamilyInduction
<1>. QED
  BY <1>1, <1>5
-----------------------------------------------------------------------------
(* The loop of SetUpTo.                                                    *)
LEMMA SetUpToStays ==
  ASSUME NEW dev, NEW items, NEW places, NEW n, NEW T, n \in Nat, dev \in T[0],
         \A k \in 1 .. n : \A x \in T[k - 1] : (IF k \in places THEN SetOne(x, items[k]) ELSE x) \in T[k]
  PROVE  SetUpTo(dev, items, places, n) \in T[n]
<1> DEFINE N == n
           A == dev
           G == [k \in 1 .. N |-> [x \in T[k - 1] |-> (IF k \in places THEN SetOne(x, items[k]) ELSE x)]]
           b == CHOOSE g : g = [k \in 0 .. n |-> IF k = 0 THEN dev ELSE (IF k \in places THEN SetOne(g[k - 1], items[k]) ELSE g[k - 1])]
<1>1. \A k \in 1 .. N : \A x \in T[k - 1] : G[k][x] = (IF k \in places THEN SetOne(x, items[k]) ELSE x) /\ G[k][x] \in T[k]
  OBVIOUS
<1>2. N \in Nat
  OBVIOUS
<1>a. A \in T[0]
  OBVIOUS
<1> HIDE DEF G, N, A
<1>3. PICK g : Loops(N, A, G, g) /\ \A k \in 0 .. N : g[k] \in T[k]
  <2>1. \A k \in 1 .. N : \A x \in T[k - 1] : G[k][x] \in T[k]
    BY <1>1
  <2>. QED
    BY <1>2, <1>a, <2>1, LoopStays, Zenon
<1>4. g = [k \in 0 .. N |-> IF k = 0 THEN A ELSE G[k][g[k - 1]]]
  BY <1>3 DEF Loops
<1>5. g = [k \in 0 .. N |-> IF k = 0 THEN A ELSE (IF k \in places THEN SetOne(g[k - 1], items[k]) ELSE g[k - 1])]
  <2>1. ASSUME NEW k \in 0 .. N, k # 0 PROVE G[k][g[k - 1]] = (IF k \in places THEN SetOne(g[k - 1], items[k]) ELSE g[k - 1])
    <3>1. k - 1 \in 0 .. N /\ k \in 1 .. N
      BY <1>2, <2>1
    <3>. QED
      BY <1>1, <1>3, <3>1
  <2>. QED
    BY <1>4, <2>1
<1>6. b = [k \in 0 .. N |-> IF k = 0 THEN A ELSE (IF k \in places THEN SetOne(b[k - 1], items[k]) ELSE b[k - 1])]
  BY <1>5, Zenon DEF N, A
<1>7. SetUpTo(dev, items, places, n) = b[N]
  BY Zenon DEF N, SetUpTo, A
<1> HIDE DEF b
<1>8. \A k \in 0 .. N : b[k] \in T[k]
  <2>1. b[0] \in T[0]
    BY <1>2, <1>6, <1>a
  <2>2. ASSUME NEW k \in 1 .. N, b[k - 1] \in T[k - 1] PROVE b[k] \in T[k]
    <3>1. k \in 0 .. N /\ k # 0
      BY <1>2
    <3>2. b[k] = (IF k \in places THEN SetOne(b[k - 1], items[k]) ELSE b[k - 1])
      BY <1>6, <3>1
    <3>. QED
      BY <1>1, <2>2, <3>2
  <2>. QED
    BY <1>2, <2>1, <2>2, FamilyInduction
<1>9. b[N] \in T[N]
  BY <1>2, <1>8
<1>. QED
  BY <1>7, <1>9, Zenon DEF N

(* The loop of set_ctrl_values.                                            *)
LEMMA SetValuesStays ==
  ASSUME NEW p, NEW items, NEW T, Len(items) - 1 \in Nat, NoBatch(p) \in T[0],
         \A k \in 1 .. Len(items) - 1 : \A x \in T[k - 1] : SetStep(x, items, k) \in T[k]
  PROVE  \E x \in T[Len(items) - 1] : set_ctrl_values(p, items) = x.panel
<1> DEFINE N == Len(items) - 1
           A == NoBatch(p)
           G == [k \in 1 .. N |-> [x \in T[k - 1] |-> SetStep(x, items, k)]]
           b == CHOOSE g : g = [k \in 0 .. Len(items) - 1 |-> IF k = 0 THEN NoBatch(p) ELSE SetStep(g[k - 1], items, k)]
<1>1. \A k \in 1 .. N : \A x \in T[k - 1] : G[k][x] = SetStep(x, items, k) /\ G[k][x] \in T[k]
  OBVIOUS
<1>2. N \in Nat
  OBVIOUS
<1>a. A \in T[0]
  OBVIOUS
<1> HIDE DEF G, N, A
<1>3. PICK g : Loops(N, A, G, g) /\ \A k \in 0 .. N : g[k] \in T[k]
  <2>1. \A k \in 1 .. N : \A x \in T[k - 1] : G[k][x] \in T[k]
    BY <1>1
  <2>. QED
    BY <1>2, <1>a, <2>1, LoopStays, Zenon
<1>4. g = [k \in 0 .. N |-> IF k = 0 THEN A ELSE G[k][g[k - 1]]]
  BY <1>3 DEF Loops
<1>5. g = [k \in 0 .. N |-> IF k = 0 THEN A ELSE SetStep(g[k - 1], items, k)]
  <2>1. ASSUME NEW k \in 0 .. N, k # 0 PROVE G[k][g[k - 1]] = SetStep(g[k - 1], items, k)
    <3>1. k - 1 \in 0 .. N /\ k \in 1 .. N
      BY <1>2, <2>1
    <3>. QED
      BY <1>1, <1>3, <3>1
  <2>. QED
    BY <1>4, <2>1
<1>6. b = [k \in 0 .. N |-> IF k = 0 THEN A ELSE SetStep(b[k - 1], items, k)]
  BY <1>5, Zenon DEF N, A
<1>7. set_ctrl_values(p, items) = b[N].panel
  BY Zenon DEF N, set_ctrl_values, A
<1> HIDE DEF b
<1>8. \A k \in 0 .. N : b[k] \in T[k]
  <2>1. b[0] \in T[0]
    BY <1>2, <1>6, <1>a
  <2>2. ASSUME NEW k \in 1 .. N, b[k - 1] \in T[k - 1] PROVE b[k] \in T[k]
    <3>1. k \in 0 .. N /\ k # 0
      BY <1>2
    <3>2. b[k] = SetStep(b[k - 1], items, k)
      BY <1>6, <3>1
    <3>. QED
      BY <1>1, <2>2, <3>2
  <2>. QED
    BY <1>2, <2>1, <2>2, FamilyInduction
<1>9. b[N] \in T[N]
  BY <1>2, <1>8
<1>. QED
  BY <1>7, <1>9, Zenon DEF N

(* The loop of get_ctrl_values.                                            *)
LEMMA GetValuesStays ==
  ASSUME NEW p, NEW junk, NEW T, Count - 1 \in Nat, NoBatch(p) \in T[0],
         \A k \in 1 .. Count - 1 : \A x \in T[k - 1] : GetStep(x, k, junk) \in T[k]
  PROVE  \E x \in T[Count - 1] : get_ctrl_values(p, junk) = update_ctrl_list_flags(x.panel)
<1> DEFINE N == Count - 1
           A == NoBatch(p)
           G == [k \in 1 .. N |-> [x \in T[k - 1] |-> GetStep(x, k, junk)]]
           b == CHOOSE g : g = [k \in 0 .. Count - 1 |-> IF k = 0 THEN NoBatch(p) ELSE GetStep(g[k - 1], k, junk)]
<1>1. \A k \in 1 .. N : \A x \in T[k - 1] : G[k][x] = GetStep(x, k, junk) /\ G[k][x] \in T[k]
  OBVIOUS
<1>2. N \in Nat
  OBVIOUS
<1>a. A \in T[0]
  OBVIOUS
<1> HIDE DEF G, N, A
<1>3. PICK g : Loops(N, A, G, g) /\ \A k \in 0 .. N : g[k] \in T[k]
  <2>1. \A k \in 1 .. N : \A x \in T[k - 1] : G[k][x] \in T[k]
    BY <1>1
  <2>. QED
    BY <1>2, <1>a, <2>1, LoopStays, Zenon
<1>4. g = [k \in 0 .. N |-> IF k = 0 THEN A ELSE G[k][g[k - 1]]]
  BY <1>3 DEF Loops
<1>5. g = [k \in 0 .. N |-> IF k = 0 THEN A ELSE GetStep(g[k - 1], k, junk)]
  <2>1. ASSUME NEW k \in 0 .. N, k # 0 PROVE G[k][g[k - 1]] = GetStep(g[k - 1], k, junk)
    <3>1. k - 1 \in 0 .. N /\ k \in 1 .. N
      BY <1>2, <2>1
    <3>. QED
      BY <1>1, <1>3, <3>1
  <2>. QED
    BY <1>4, <2>1
<1>6. b = [k \in 0 .. N |-> IF k = 0 THEN A ELSE GetStep(b[k - 1], k, junk)]
  BY <1>5, Zenon DEF N, A
<1>7. get_ctrl_values(p, junk) = update_ctrl_list_flags(b[N].panel)
  BY Zenon DEF N, get_ctrl_values, A
<1> HIDE DEF b
<1>8. \A k \in 0 .. N : b[k] \in T[k]
  <2>1. b[0] \in T[0]
    BY <1>2, <1>6, <1>a
  <2>2. ASSUME NEW k \in 1 .. N, b[k - 1] \in T[k - 1] PROVE b[k] \in T[k]
    <3>1. k \in 0 .. N /\ k # 0
      BY <1>2
    <3>2. b[k] = GetStep(b[k - 1], k, junk)
      BY <1>6, <3>1
    <3>. QED
      BY <1>1, <2>2, <3>2
  <2>. QED
    BY <1>2, <2>1, <2>2, FamilyInduction
<1>9. b[N] \in T[N]
  BY <1>2, <1>8
<1>. QED
  BY <1>7, <1>9, Zenon DEF N

(* The loop of update_ctrl_list_flags.                                     *)
LEMMA ListFlagsStays ==
  ASSUME NEW p, NEW T, Count - 1 \in Nat, p \in T[0],
         \A k \in 1 .. Count - 1 : \A x \in T[k - 1] : update_ctrl_flags(x, k) \in T[k]
  PROVE  update_ctrl_list_flags(p) \in T[Count - 1]
<1> DEFINE N == Count - 1
           A == p
           G == [k \in 1 .. N |-> [x \in T[k - 1] |-> update_ctrl_flags(x, k)]]
           b == CHOOSE g : g = [k \in 0 .. Count - 1 |-> IF k = 0 THEN p ELSE update_ctrl_flags(g[k - 1], k)]
<1>1. \A k \in 1 .. N : \A x \in T[k - 1] : G[k][x] = update_ctrl_flags(x, k) /\ G[k][x] \in T[k]
  OBVIOUS
<1>2. N \in Nat
  OBVIOUS
<1>a. A \in T[0]
  OBVIOUS
<1> HIDE DEF G, N, A
<1>3. PICK g : Loops(N, A, G, g) /\ \A k \in 0 .. N : g[k] \in T[k]
  <2>1. \A k \in 1 .. N : \A x \in T[k - 1] : G[k][x] \in T[k]
    BY <1>1
  <2>. QED
    BY <1>2, <1>a, <2>1, LoopStays, Zenon
<1>4. g = [k \in 0 .. N |-> IF k = 0 THEN A ELSE G[k][g[k - 1]]]
  BY <1>3 DEF Loops
<1>5. g = [k \in 0 .. N |-> IF k = 0 THEN A ELSE update_ctrl_flags(g[k - 1], k)]
  <2>1. ASSUME NEW k \in 0 .. N, k # 0 PROVE G[k][g[k - 1]] = update_ctrl_flags(g[k - 1], k)
    <3>1. k - 1 \in 0 .. N /\ k \in 1 .. N
      BY <1>2, <2>1
    <3>. QED
      BY <1>1, <1>3, <3>1
  <2>. QED
    BY <1>4, <2>1
<1>6. b = [k \in 0 .. N |-> IF k = 0 THEN A ELSE update_ctrl_flags(b[k - 1], k)]
  BY <1>5, Zenon DEF N, A
<1>7. update_ctrl_list_flags(p) = b[N]
  BY Zenon DEF N, update_ctrl_list_flags, A
<1> HIDE DEF b
<1>8. \A k \in 0 .. N : b[k] \in T[k]
  <2>1. b[0] \in T[0]
    BY <1>2, <1>6, <1>a
  <2>2. ASSUME NEW k \in 1 .. N, b[k - 1] \in T[k - 1] PROVE b[k] \in T[k]
    <3>1. k \in 0 .. N /\ k # 0
      BY <1>2
    <3>2. b[k] = update_ctrl_flags(b[k - 1], k)
      BY <1>6, <3>1
    <3>. QED
      BY <1>1, <2>2, <3>2
  <2>. QED
    BY <1>2, <2>1, <2>2, FamilyInduction
<1>9. b[N] \in T[N]
  BY <1>2, <1>8
<1>. QED
  BY <1>7, <1>9, Zenon DEF N

(* The first loop of set_default_values.                                   *)
LEMMA ToDefaultsStays ==
  ASSUME NEW p, NEW T, Count - 1 \in Nat, [panel |-> p, skip |-> FALSE] \in T[0],
         \A k \in 1 .. Count - 1 : \A x \in T[k - 1] : DefaultStep(x, k) \in T[k]
  PROVE  ToDefaults(p) \in T[Count - 1]
<1> DEFINE N == Count - 1
           A == [panel |-> p, skip |-> FALSE]
           G == [k \in 1 .. N |-> [x \in T[k - 1] |-> DefaultStep(x, k)]]
           b == CHOOSE g : g = [k \in 0 .. Count - 1 |-> IF k = 0 THEN [panel |-> p, skip |-> FALSE] ELSE DefaultStep(g[k - 1], k)]
<1>1. \A k \in 1 .. N : \A x \in T[k - 1] : G[k][x] = DefaultStep(x, k) /\ G[k][x] \in T[k]
  OBVIOUS
<1>2. N \in Nat
  OBVIOUS
<1>a. A \in T[0]
  OBVIOUS
<1> HIDE DEF G, N, A
<1>3. PICK g : Loops(N, A, G, g) /\ \A k \in 0 .. N : g[k] \in T[k]
  <2>1. \A k \in 1 .. N : \A x \in T[k - 1] : G[k][x] \in T[k]
    BY <1>1
  <2>. QED
    BY <1>2, <1>a, <2>1, LoopStays, Zenon
<1>4. g = [k \in 0 .. N |-> IF k = 0 THEN A ELSE G[k][g[k - 1]]]
  BY <1>3 DEF Loops
<1>5. g = [k \in 0 .. N |-> IF k = 0 THEN A ELSE DefaultStep(g[k - 1], k)]
  <2>1. ASSUME NEW k \in 0 .. N, k # 0 PROVE G[k][g[k - 1]] = DefaultStep(g[k - 1], k)
    <3>1. k - 1 \in 0 .. N /\ k \in 1 .. N
      BY <1>2, <2>1
    <3>. QED
      BY <1>1, <1>3, <3>1
  <2>. QED
    BY <1>4, <2>1
<1>6. b = [k \in 0 .. N |-> IF k = 0 THEN A ELSE DefaultStep(b[k - 1], k)]
  BY <1>5, Zenon DEF N, A
<1>7. ToDefaults(p) = b[N]
  BY Zenon DEF N, ToDefaults, A
<1> HIDE DEF b
<1>8. \A k \in 0 .. N : b[k] \in T[k]
  <2>1. b[0] \in T[0]
    BY <1>2, <1>6, <1>a
  <2>2. ASSUME NEW k \in 1 .. N, b[k - 1] \in T[k - 1] PROVE b[k] \in T[k]
    <3>1. k \in 0 .. N /\ k # 0
      BY <1>2
    <3>2. b[k] = DefaultStep(b[k - 1], k)
      BY <1>6, <3>1
    <3>. QED
      BY <1>1, <2>2, <3>2
  <2>. QED
    BY <1>2, <2>1, <2>2, FamilyInduction
<1>9. b[N] \in T[N]
  BY <1>2, <1>8
<1>. QED
  BY <1>7, <1>9, Zenon DEF N

(* The loop that saves a profile.                                          *)
LEMMA SavedStays ==
  ASSUME NEW p, NEW T, Count \in Nat, <<>> \in T[0],
         \A k \in 1 .. Count : \A x \in T[k - 1] : (IF p.flags[k] = {} THEN Append(x, Listed(p)[k]) ELSE x) \in T[k]
  PROVE  Saved(p) \in T[Count]
<1> DEFINE N == Count
           A == <<>>
           Add(k, x) == IF p.flags[k] = {} THEN Append(x, Listed(p)[k]) ELSE x
           G == [k \in 1 .. N |-> [x \in T[k - 1] |-> Add(k, x)]]
           b == CHOOSE g : g = [k \in 0 .. Count |-> IF k = 0 THEN <<>> ELSE Add(k, g[k - 1])]
<1>1. \A k \in 1 .. N : \A x \in T[k - 1] : G[k][x] = Add(k, x) /\ G[k][x] \in T[k]
  OBVIOUS
<1>2. N \in Nat
  OBVIOUS
<1>a. A \in T[0]
  OBVIOUS
<1> HIDE DEF G, N, A, Add
<1>3. PICK g : Loops(N, A, G, g) /\ \A k \in 0 .. N : g[k] \in T[k]
  <2>1. \A k \in 1 .. N : \A x \in T[k - 1] : G[k][x] \in T[k]
    BY <1>1
  <2>. QED
    BY <1>2, <1>a, <2>1, LoopStays, Zenon
<1>4. g = [k \in 0 .. N |-> IF k = 0 THEN A ELSE G[k][g[k - 1]]]
  BY <1>3 DEF Loops
<1>5. g = [k \in 0 .. N |-> IF k = 0 THEN A ELSE Add(k, g[k - 1])]
  <2>1. ASSUME NEW k \in 0 .. N, k # 0 PROVE G[k][g[k - 1]] = Add(k, g[k - 1])
    <3>1. k - 1 \in 0 .. N /\ k \in 1 .. N
      BY <1>2, <2>1
    <3>. QED
      BY <1>1, <1>3, <3>1
  <2>. QED
    BY <1>4, <2>1
<1>6. b = [k \in 0 .. N |-> IF k = 0 THEN A ELSE Add(k, b[k - 1])]
  BY <1>5, Zenon DEF N, A, Add
<1>7. Saved(p) = b[N]
  BY Zenon DEF N, Saved, A, Add
<1> HIDE DEF b
<1>8. \A k \in 0 .. N : b[k] \in T[k]
  <2>1. b[0] \in T[0]
    BY <1>2, <1>6, <1>a
  <2>2. ASSUME NEW k \in 1 .. N, b[k - 1] \in T[k - 1] PROVE b[k] \in T[k]
    <3>1. k \in 0 .. N /\ k # 0
      BY <1>2
    <3>2. b[k] = Add(k, b[k - 1])
      BY <1>6, <3>1
    <3>. QED
      BY <1>1, <2>2, <3>2
  <2>. QED
    BY <1>2, <2>1, <2>2, FamilyInduction
<1>9. b[N] \in T[N]
  BY <1>2, <1>8
<1>. QED
  BY <1>7, <1>9, Zenon DEF N

(* The loop that turns the automatic controls of a profile off.            *)
LEMMA AutosOffStays ==
  ASSUME NEW p, NEW items, NEW T, Len(items) \in Nat, p \in T[0],
         \A k \in 1 .. Len(items) : \A x \in T[k - 1] : disable_special_auto(x, items[k].id) \in T[k]
  PROVE  AutosOff(p, items) \in T[Len(items)]
<1> DEFINE N == Len(items)
           A == p
           G == [k \in 1 .. N |-> [x \in T[k - 1] |-> disable_special_auto(x, items[k].id)]]
           b == CHOOSE g : g = [k \in 0 .. Len(items) |-> IF k = 0 THEN p ELSE disable_special_auto(g[k - 1], items[k].id)]
<1>1. \A k \in 1 .. N : \A x \in T[k - 1] : G[k][x] = disable_special_auto(x, items[k].id) /\ G[k][x] \in T[k]
  OBVIOUS
<1>2. N \in Nat
  OBVIOUS
<1>a. A \in T[0]
  OBVIOUS
<1> HIDE DEF G, N, A
<1>3. PICK g : Loops(N, A, G, g) /\ \A k \in 0 .. N : g[k] \in T[k]
  <2>1. \A k \in 1 .. N : \A x \in T[k - 1] : G[k][x] \in T[k]
    BY <1>1
  <2>. QED
    BY <1>2, <1>a, <2>1, LoopStays, Zenon
<1>4. g = [k \in 0 .. N |-> IF k = 0 THEN A ELSE G[k][g[k - 1]]]
  BY <1>3 DEF Loops
<1>5. g = [k \in 0 .. N |-> IF k = 0 THEN A ELSE disable_special_auto(g[k - 1], items[k].id)]
  <2>1. ASSUME NEW k \in 0 .. N, k # 0 PROVE G[k][g[k - 1]] = disable_special_auto(g[k - 1], items[k].id)
    <3>1. k - 1 \in 0 .. N /\ k \in 1 .. N
      BY <1>2, <2>1
    <3>. QED
      BY <1>1, <1>3, <3>1
  <2>. QED
    BY <1>4, <2>1
<1>6. b = [k \in 0 .. N |-> IF k = 0 THEN A ELSE disable_special_auto(b[k - 1], items[k].id)]
  BY <1>5, Zenon DEF N, A
<1>7. AutosOff(p, items) = b[N]
  BY Zenon DEF N, AutosOff, A
<1> HIDE DEF b
<1>8. \A k \in 0 .. N : b[k] \in T[k]
  <2>1. b[0] \in T[0]
    BY <1>2, <1>6, <1>a
  <2>2. ASSUME NEW k \in 1 .. N, b[k - 1] \in T[k - 1] PROVE b[k] \in T[k]
    <3>1. k \in 0 .. N /\ k # 0
      BY <1>2
    <3>2. b[k] = disable_special_auto(b[k - 1], items[k].id)
      BY <1>6, <3>1
    <3>. QED
      BY <1>1, <2>2, <3>2
  <2>. QED
    BY <1>2, <2>1, <2>2, FamilyInduction
<1>9. b[N] \in T[N]
  BY <1>2, <1>8
<1>. QED
  BY <1>7, <1>9, Zenon DEF N

(* The loop that makes the widgets.                                        *)
LEMMA WidgetsStays ==
  ASSUME NEW dev, NEW T, Count \in Nat, Unread(dev) \in T[0],
         \A k \in 1 .. Count : \A x \in T[k - 1] : get_ctrl(x, k) \in T[k]
  PROVE  create_control_widgets(dev) \in T[Count]
<1> DEFINE N == Count
           A == Unread(dev)
           G == [k \in 1 .. N |-> [x \in T[k - 1] |-> get_ctrl(x, k)]]
           b == CHOOSE g : g = [k \in 0 .. Count |-> IF k = 0 THEN Unread(dev) ELSE get_ctrl(g[k - 1], k)]
<1>1. \A k \in 1 .. N : \A x \in T[k - 1] : G[k][x] = get_ctrl(x, k) /\ G[k][x] \in T[k]
  OBVIOUS
<1>2. N \in Nat
  OBVIOUS
<1>a. A \in T[0]
  OBVIOUS
<1> HIDE DEF G, N, A
<1>3. PICK g : Loops(N, A, G, g) /\ \A k \in 0 .. N : g[k] \in T[k]
  <2>1. \A k \in 1 .. N : \A x \in T[k - 1] : G[k][x] \in T[k]
    BY <1>1
  <2>. QED
    BY <1>2, <1>a, <2>1, LoopStays, Zenon
<1>4. g = [k \in 0 .. N |-> IF k = 0 THEN A ELSE G[k][g[k - 1]]]
  BY <1>3 DEF Loops
<1>5. g = [k \in 0 .. N |-> IF k = 0 THEN A ELSE get_ctrl(g[k - 1], k)]
  <2>1. ASSUME NEW k \in 0 .. N, k # 0 PROVE G[k][g[k - 1]] = get_ctrl(g[k - 1], k)
    <3>1. k - 1 \in 0 .. N /\ k \in 1 .. N
      BY <1>2, <2>1
    <3>. QED
      BY <1>1, <1>3, <3>1
  <2>. QED
    BY <1>4, <2>1
<1>6. b = [k \in 0 .. N |-> IF k = 0 THEN A ELSE get_ctrl(b[k - 1], k)]
  BY <1>5, Zenon DEF N, A
<1>7. create_control_widgets(dev) = b[N]
  BY Zenon DEF N, create_control_widgets, A
<1> HIDE DEF b
<1>8. \A k \in 0 .. N : b[k] \in T[k]
  <2>1. b[0] \in T[0]
    BY <1>2, <1>6, <1>a
  <2>2. ASSUME NEW k \in 1 .. N, b[k - 1] \in T[k - 1] PROVE b[k] \in T[k]
    <3>1. k \in 0 .. N /\ k # 0
      BY <1>2
    <3>2. b[k] = get_ctrl(b[k - 1], k)
      BY <1>6, <3>1
    <3>. QED
      BY <1>1, <2>2, <3>2
  <2>. QED
    BY <1>2, <2>1, <2>2, FamilyInduction
<1>9. b[N] \in T[N]
  BY <1>2, <1>8
<1>. QED
  BY <1>7, <1>9, Zenon DEF N

-----------------------------------------------------------------------------
(***************************************************************************)
(* The camera, the values and flags that a panel can have, and what the    *)
(* properties say of one control.                                          *)
(***************************************************************************)
Lawful == camera \in Cameras /\ OrderlyAutos(camera)

Settings == {v \in [Controls -> Nat] : \A k \in Controls : v[k] <= camera[k].max}
FlagSets ==
  {f \in [Controls -> SUBSET {"ro", "wo", Busy}] :
     \A k \in Controls : f[k] \subseteq camera[k].flags \cup {Busy}}
Panels == [dev : Settings, value : Settings, flags : FlagSets]
Item == {e \in [id : Controls, value : Nat] : e.value <= camera[e.id].max}

ShowsValue(p, k) == Readable(k) => p.value[k] = p.dev[k]
ShowsAuto(p, k) ==
  camera[k].auto # 0 => (Busy \in p.flags[k] <=> p.value[camera[k].auto] \in camera[k].busy)

LEMMA CameraFacts ==
  ASSUME Lawful
  PROVE  /\ Count \in Nat /\ Count >= 1 /\ Controls = 1 .. Count
         /\ \A k \in Controls :
              /\ camera[k].class \in Nat /\ camera[k].max \in Nat
              /\ camera[k].default \in Nat /\ camera[k].default <= camera[k].max
              /\ camera[k].auto \in Nat /\ camera[k].auto # k
              /\ camera[k].auto # 0 => camera[k].auto \in Controls
              /\ camera[k].special \in BOOLEAN /\ camera[k].flags \subseteq {"ro", "wo"}
              /\ camera[k].special => "ro" \notin camera[k].flags
<1> USE DEF Controls, Count
<1>1. camera \in Seq(ControlRec) /\ Len(camera) > 0 /\ camera \in Cameras
  BY ControlsAssumption DEF Lawful
<1>2. Len(camera) \in Nat
  BY <1>1
<1>3. ASSUME NEW k \in Controls
      PROVE  /\ camera[k].class \in Nat /\ camera[k].max \in Nat
             /\ camera[k].default \in Nat /\ camera[k].default <= camera[k].max
             /\ camera[k].auto \in Nat /\ camera[k].auto # k
             /\ camera[k].auto # 0 => camera[k].auto \in Controls
             /\ camera[k].special \in BOOLEAN /\ camera[k].flags \subseteq {"ro", "wo"}
             /\ camera[k].special => "ro" \notin camera[k].flags
  <2>1. camera[k] \in ControlRec
    BY <1>1
  <2>2. camera[k].auto \in 0 .. Len(camera) \ {k} /\ camera[k].default <= camera[k].max
    BY <1>1, ControlsAssumption
  <2>3. camera[k].special => "ro" \notin camera[k].flags
    BY DEF Lawful, OrderlyAutos
  <2>. QED
    BY <1>2, <2>1, <2>2, <2>3 DEF ControlRec
<1>. QED
  BY <1>1, <1>2, <1>3

LEMMA ClassesAscend ==
  ASSUME Lawful, NEW j \in Controls, NEW k \in Controls, j <= k
  PROVE  camera[j].class <= camera[k].class
  BY ControlsAssumption DEF Lawful, Controls

LEMMA AutoFacts ==
  ASSUME Lawful, NEW k \in Controls, camera[k].auto # 0
  PROVE  /\ camera[k].auto \in Controls
         /\ "wo" \notin camera[camera[k].auto].flags
         /\ camera[k].auto > k => /\ camera[camera[k].auto].special
                                  /\ camera[camera[k].auto].auto = 0
                                  /\ 0 \notin camera[k].busy
                                  /\ "ro" \notin camera[camera[k].auto].flags
                                  /\ "ro" \notin camera[camera[k].auto - 1].flags
<1>1. camera[k].auto \in Controls
  BY CameraFacts
<1>. QED
  BY <1>1, CameraFacts DEF Lawful, OrderlyAutos, Controls
-----------------------------------------------------------------------------
(* One control.                                                            *)
LEMMA UpdateFlags ==
  ASSUME Lawful, NEW p \in Panels, NEW id \in Controls
  PROVE  /\ update_ctrl_flags(p, id) \in Panels
         /\ update_ctrl_flags(p, id).dev = p.dev
         /\ update_ctrl_flags(p, id).value = p.value
         /\ \A k \in Controls :
              /\ camera[k].auto # id => update_ctrl_flags(p, id).flags[k] = p.flags[k]
              /\ camera[k].auto = id => ShowsAuto(update_ctrl_flags(p, id), k)
<1> DEFINE f == [k \in Controls |->
                   IF camera[k].auto # id THEN p.flags[k]
                   ELSE IF p.value[id] \in camera[k].busy THEN p.flags[k] \cup {Busy} ELSE {}]
<1>1. update_ctrl_flags(p, id) = [dev |-> p.dev, value |-> p.value, flags |-> f]
  <2>1. update_ctrl_flags(p, id) = [p EXCEPT !.flags = f]
    BY Zenon DEF update_ctrl_flags
  <2> HIDE DEF f
  <2>. QED
    BY <2>1 DEF Panels
<1>2. p.flags \in FlagSets
  BY DEF Panels
<1>3. \A k \in Controls : p.flags[k] \subseteq {"ro", "wo", Busy} /\ p.flags[k] \subseteq camera[k].flags \cup {Busy}
  BY <1>2 DEF FlagSets
<1>4. \A k \in Controls : f[k] \subseteq {"ro", "wo", Busy} /\ f[k] \subseteq camera[k].flags \cup {Busy}
  BY <1>3
<1>5. f \in FlagSets
  BY <1>4 DEF FlagSets
<1>6. update_ctrl_flags(p, id) \in Panels
  BY <1>1, <1>5 DEF Panels
<1>7. ASSUME NEW k \in Controls, camera[k].auto = id PROVE ShowsAuto(update_ctrl_flags(p, id), k)
  BY <1>1, <1>7 DEF ShowsAuto
<1>. QED
  BY <1>1, <1>6, <1>7

LEMMA GetCtrl ==
  ASSUME Lawful, NEW p \in Panels, NEW id \in Controls
  PROVE  /\ get_ctrl(p, id) \in Panels
         /\ get_ctrl(p, id).dev = p.dev
         /\ \A k \in Controls \ {id} : get_ctrl(p, id).value[k] = p.value[k]
         /\ \A k \in Controls : camera[k].auto # id => get_ctrl(p, id).flags[k] = p.flags[k]
         /\ \A k \in Controls : (camera[k].auto = id \/ ShowsAuto(p, k)) => ShowsAuto(get_ctrl(p, id), k)
         /\ \A k \in Controls : (k = id \/ ShowsValue(p, k)) => ShowsValue(get_ctrl(p, id), k)
<1> DEFINE r == IF Readable(id) THEN [p EXCEPT !.value[id] = p.dev[id]] ELSE p
           q == get_ctrl(p, id)
<1>1. p.dev \in Settings /\ p.value \in Settings /\ p.flags \in FlagSets
  BY DEF Panels
<1>2. r \in Panels /\ r.dev = p.dev /\ r.flags = p.flags
      /\ (\A k \in Controls \ {id} : r.value[k] = p.value[k]) /\ (Readable(id) => r.value[id] = p.dev[id])
  <2>1. CASE Readable(id)
    <3>1. r = [dev |-> p.dev, value |-> [p.value EXCEPT ![id] = p.dev[id]], flags |-> p.flags]
      BY <2>1 DEF Panels
    <3>2. [p.value EXCEPT ![id] = p.dev[id]] \in Settings
      BY <1>1 DEF Settings
    <3>3. \A k \in Controls : [p.value EXCEPT ![id] = p.dev[id]][k] = IF k = id THEN p.dev[id] ELSE p.value[k]
      BY <1>1 DEF Settings
    <3>. QED
      BY <1>1, <3>1, <3>2, <3>3 DEF Panels
  <2>2. CASE ~Readable(id)
    BY <2>2
  <2>. QED
    BY <2>1, <2>2
<1> HIDE DEF r
<1>3. CASE "wo" \in p.flags[id]
  <2>1. q = p
    BY <1>3 DEF get_ctrl
  <2>2. "wo" \in camera[id].flags
    BY <1>1, <1>3 DEF FlagSets, Busy
  <2>3. \A k \in Controls : camera[k].auto # id
    <3> SUFFICES ASSUME NEW k \in Controls, camera[k].auto = id PROVE FALSE
      OBVIOUS
    <3>1. camera[k].auto # 0
      BY CameraFacts
    <3>. QED
      BY <2>2, <3>1, AutoFacts
  <2>. QED
    BY <2>1, <2>2, <2>3 DEF ShowsValue, Readable
<1>4. CASE "wo" \notin p.flags[id]
  <2>1. q = update_ctrl_flags(r, id)
    BY <1>4 DEF get_ctrl, r
  <2> HIDE DEF q
  <2>2. /\ q \in Panels /\ q.dev = r.dev /\ q.value = r.value
        /\ \A k \in Controls :
              /\ camera[k].auto # id => q.flags[k] = r.flags[k]
              /\ camera[k].auto = id => ShowsAuto(q, k)
    <3>1. r \in Panels
      BY <1>2
    <3>. QED
      BY <2>1, <3>1, UpdateFlags
  <2>3. ASSUME NEW k \in Controls, camera[k].auto = id \/ ShowsAuto(p, k) PROVE ShowsAuto(q, k)
    <3>1. CASE camera[k].auto = id
      BY <2>2, <3>1
    <3>2. CASE camera[k].auto # id /\ camera[k].auto # 0
      <4>1. camera[k].auto \in Controls \ {id}
        BY <3>2, CameraFacts
      <4>2. q.value[camera[k].auto] = p.value[camera[k].auto] /\ q.flags[k] = p.flags[k]
        BY <1>2, <2>2, <3>2, <4>1
      <4>. QED
        BY <2>3, <3>2, <4>2 DEF ShowsAuto
    <3>3. CASE camera[k].auto = 0
      BY <3>3 DEF ShowsAuto
    <3>. QED
      BY <3>1, <3>2, <3>3
  <2>4. ASSUME NEW k \in Controls, k = id \/ ShowsValue(p, k) PROVE ShowsValue(q, k)
    BY <1>2, <2>2, <2>4 DEF ShowsValue
  <2>. QED
    BY <1>2, <2>2, <2>3, <2>4 DEF q
<1>. QED
  BY <1>3, <1>4

LEMMA SetOneFacts ==
  ASSUME Lawful, NEW x \in Settings, NEW e \in Item
  PROVE  /\ SetOne(x, e) \in Settings
         /\ SetOne(x, e)[e.id] = IF Refuses(x, e.id) THEN x[e.id] ELSE e.value
         /\ \A k \in Controls \ {e.id} : SetOne(x, e)[k] = x[k]
<1>1. e.id \in Controls /\ e.value \in Nat /\ e.value <= camera[e.id].max
  BY DEF Item
<1>2. x \in [Controls -> Nat] /\ \A k \in Controls : x[k] <= camera[k].max
  BY DEF Settings
<1> DEFINE y == [x EXCEPT ![e.id] = e.value]
<1>3. y \in [Controls -> Nat] /\ \A k \in Controls : y[k] = IF k = e.id THEN e.value ELSE x[k]
  BY <1>1, <1>2
<1> HIDE DEF y
<1>4. y \in Settings
  BY <1>1, <1>2, <1>3 DEF Settings
<1>5. SetOne(x, e) = IF Refuses(x, e.id) THEN x ELSE y
  BY DEF SetOne, y
<1>. QED
  BY <1>1, <1>3, <1>4, <1>5

LEMMA SetCtrl ==
  ASSUME Lawful, NEW p \in Panels, NEW id \in Controls
  PROVE  /\ set_ctrl(p, id) \in Panels
         /\ "ro" \in p.flags[id] => set_ctrl(p, id) = p
         /\ \A k \in Controls \ {id} : set_ctrl(p, id).dev[k] = p.dev[k] /\ set_ctrl(p, id).value[k] = p.value[k]
         /\ \A k \in Controls : camera[k].auto # id => set_ctrl(p, id).flags[k] = p.flags[k]
         /\ "ro" \notin p.flags[id] =>
              set_ctrl(p, id).dev[id] = IF Refuses(p.dev, id) THEN p.dev[id] ELSE p.value[id]
         /\ \A k \in Controls : "ro" \notin p.flags[id] \/ (camera[k].auto # id /\ k # id) =>
              /\ (camera[k].auto = id \/ ShowsAuto(p, k)) => ShowsAuto(set_ctrl(p, id), k)
              /\ (k = id \/ ShowsValue(p, k)) => ShowsValue(set_ctrl(p, id), k)
<1> DEFINE e == [id |-> id, value |-> p.value[id]]
           d == SetOne(p.dev, e)
           r == [p EXCEPT !.dev = d]
           q == set_ctrl(p, id)
<1>1. p.dev \in Settings /\ p.value \in Settings /\ p.flags \in FlagSets
  BY DEF Panels
<1>2. e \in Item /\ e.id = id /\ e.value = p.value[id]
  BY <1>1 DEF Item, Settings
<1> HIDE DEF e
<1>3. /\ d \in Settings
      /\ d[id] = IF Refuses(p.dev, id) THEN p.dev[id] ELSE p.value[id]
      /\ \A k \in Controls \ {id} : d[k] = p.dev[k]
  BY <1>1, <1>2, SetOneFacts
<1> HIDE DEF d
<1>4. r = [dev |-> d, value |-> p.value, flags |-> p.flags]
  BY DEF Panels
<1>5. r \in Panels /\ r.dev = d /\ r.value = p.value /\ r.flags = p.flags
  BY <1>1, <1>3, <1>4 DEF Panels
<1>6. ASSUME NEW k \in Controls, k # id
      PROVE  (ShowsValue(p, k) => ShowsValue(r, k))
  BY <1>3, <1>5, <1>6 DEF ShowsValue
<1>7. ASSUME NEW k \in Controls, ShowsAuto(p, k) PROVE ShowsAuto(r, k)
  BY <1>5, <1>7 DEF ShowsAuto
<1>8. CASE "ro" \in p.flags[id]
  <2>1. q = p
    BY <1>8, Zenon DEF set_ctrl
  <2>. QED
    BY <1>8, <2>1
<1>9. CASE "ro" \notin p.flags[id]
  <2>1. q = get_ctrl(r, id)
    BY <1>9, Zenon DEF set_ctrl, r, d, e
  <2> HIDE DEF q, r
  <2>2. /\ q \in Panels
        /\ q.dev = d
        /\ \A k \in Controls \ {id} : q.value[k] = p.value[k]
        /\ \A k \in Controls : camera[k].auto # id => q.flags[k] = p.flags[k]
        /\ \A k \in Controls : (camera[k].auto = id \/ ShowsAuto(r, k)) => ShowsAuto(q, k)
        /\ \A k \in Controls : (k = id \/ ShowsValue(r, k)) => ShowsValue(q, k)
    BY <1>5, <2>1, GetCtrl, SMTT(30)
  <2>. QED
    BY <1>3, <1>6, <1>7, <1>9, <2>2 DEF q
<1>. QED
  BY <1>8, <1>9

(* Turning a special automatic control off brings it to 0, when nothing    *)
(* keeps it from being set, and leaves the panel as true as it was.        *)
LEMMA DisableSpecialAuto ==
  ASSUME Lawful, NEW p \in Panels, NEW id \in Controls
  PROVE  /\ disable_special_auto(p, id) \in Panels
         /\ \A k \in Controls \ {id} :
              /\ disable_special_auto(p, id).dev[k] = p.dev[k]
              /\ disable_special_auto(p, id).value[k] = p.value[k]
         /\ (camera[id].special /\ camera[id].auto = 0 /\ "ro" \notin camera[id].flags) =>
              disable_special_auto(p, id).dev[id] = 0
         /\ \A k \in Controls : ShowsAuto(p, k) => ShowsAuto(disable_special_auto(p, id), k)
         /\ \A k \in Controls : ShowsValue(p, k) => ShowsValue(disable_special_auto(p, id), k)
<1> DEFINE r == [p EXCEPT !.value[id] = 0]
           q == disable_special_auto(p, id)
<1>1. p.dev \in Settings /\ p.value \in Settings /\ p.flags \in FlagSets
  BY DEF Panels
<1>2. camera[id].max \in Nat /\ camera[id].special \in BOOLEAN
      /\ (camera[id].special => "ro" \notin camera[id].flags)
  BY CameraFacts
<1> DEFINE v == [p.value EXCEPT ![id] = 0]
<1>3. v \in Settings /\ \A k \in Controls : v[k] = IF k = id THEN 0 ELSE p.value[k]
  BY <1>1, <1>2 DEF Settings
<1>4. r = [dev |-> p.dev, value |-> v, flags |-> p.flags]
  BY DEF Panels
<1> HIDE DEF v
<1>5. r \in Panels /\ r.dev = p.dev /\ r.value = v /\ r.flags = p.flags
  BY <1>1, <1>3, <1>4 DEF Panels
<1>6. CASE ~camera[id].special
  BY <1>6 DEF disable_special_auto
<1>7. CASE camera[id].special
  <2>1. q = set_ctrl(r, id)
    BY <1>7 DEF disable_special_auto
  <2> HIDE DEF q, r
  <2>2. /\ q \in Panels
        /\ "ro" \in r.flags[id] => q = r
        /\ \A k \in Controls \ {id} : q.dev[k] = r.dev[k] /\ q.value[k] = r.value[k]
        /\ "ro" \notin r.flags[id] => q.dev[id] = IF Refuses(r.dev, id) THEN r.dev[id] ELSE r.value[id]
        /\ \A k \in Controls : "ro" \notin r.flags[id] \/ (camera[k].auto # id /\ k # id) =>
              ((camera[k].auto = id \/ ShowsAuto(r, k)) => ShowsAuto(q, k))
        /\ "ro" \notin r.flags[id] =>
             \A k \in Controls : (k = id \/ ShowsValue(r, k)) => ShowsValue(q, k)
    BY <1>5, <2>1, SetCtrl
  <2>3. ASSUME "ro" \notin camera[id].flags PROVE "ro" \notin r.flags[id]
    BY <1>1, <1>5, <2>3 DEF FlagSets, Busy
  <2>4. ASSUME camera[id].auto = 0, "ro" \notin camera[id].flags PROVE q.dev[id] = 0
    <3>1. ~Refuses(r.dev, id)
      BY <2>4 DEF Refuses
    <3>. QED
      BY <1>3, <1>5, <2>2, <2>3, <2>4, <3>1
  <2>5. ASSUME NEW k \in Controls, ShowsAuto(p, k) PROVE ShowsAuto(q, k)
    <3>1. CASE camera[k].auto = id
      <4>1. "ro" \notin camera[id].flags
        BY <1>2, <1>7
      <4>. QED
        BY <2>2, <2>3, <3>1, <4>1
    <3>2. CASE camera[k].auto # id
      <4>1. ShowsAuto(r, k)
        <5>1. CASE camera[k].auto = 0
          BY <5>1 DEF ShowsAuto
        <5>2. CASE camera[k].auto # 0
          <6>1. camera[k].auto \in Controls
            BY <5>2, CameraFacts
          <6>2. r.value[camera[k].auto] = p.value[camera[k].auto]
            BY <1>3, <1>5, <3>2, <6>1
          <6>. QED
            BY <1>5, <2>5, <6>2 DEF ShowsAuto
        <5>. QED
          BY <5>1, <5>2
      <4>2. CASE "ro" \notin r.flags[id]
        BY <2>2, <4>1, <4>2
      <4>3. CASE "ro" \in r.flags[id]
        BY <2>2, <4>1, <4>3
      <4>. QED
        BY <4>2, <4>3
    <3>. QED
      BY <3>1, <3>2
  <2>6. ASSUME NEW k \in Controls, ShowsValue(p, k) PROVE ShowsValue(q, k)
    <3>1. "ro" \notin r.flags[id]
      BY <1>2, <1>7, <2>3
    <3>2. k = id \/ ShowsValue(r, k)
      BY <1>3, <1>5, <2>6 DEF ShowsValue
    <3>. QED
      BY <2>2, <3>1, <3>2
  <2>. QED
    BY <1>3, <1>5, <2>2, <2>4, <2>5, <2>6 DEF q
<1>. QED
  BY <1>6, <1>7

-----------------------------------------------------------------------------
(* The flags of all controls.                                              *)
LEMMA ListFlags ==
  ASSUME Lawful, NEW p \in Panels
  PROVE  /\ update_ctrl_list_flags(p) \in Panels
         /\ update_ctrl_list_flags(p).dev = p.dev
         /\ update_ctrl_list_flags(p).value = p.value
         /\ \A k \in Controls :
              camera[k].auto # Count \/ ShowsAuto(p, k) => ShowsAuto(update_ctrl_list_flags(p), k)
<1> DEFINE S(n) == {x \in Panels :
                      /\ x.dev = p.dev /\ x.value = p.value
                      /\ \A k \in Controls : (camera[k].auto <= n \/ ShowsAuto(p, k)) => ShowsAuto(x, k)}
           T == [n \in 0 .. Count - 1 |-> S(n)]
<1>1. Count \in Nat /\ Count >= 1 /\ Controls = 1 .. Count
  BY CameraFacts
<1> HIDE DEF S
<1>2. Count - 1 \in Nat /\ 0 \in 0 .. Count - 1 /\ Count - 1 \in 0 .. Count - 1
  BY <1>1
<1>3. p \in S(0)
  <2>1. ASSUME NEW k \in Controls, camera[k].auto <= 0 PROVE ShowsAuto(p, k)
    BY <2>1, CameraFacts DEF ShowsAuto
  <2>. QED
    BY <2>1 DEF S
<1>4. ASSUME NEW n \in 1 .. Count - 1, NEW x \in S(n - 1) PROVE update_ctrl_flags(x, n) \in S(n)
  <2> DEFINE q == update_ctrl_flags(x, n)
  <2>1. /\ x \in Panels /\ x.dev = p.dev /\ x.value = p.value
        /\ \A k \in Controls : (camera[k].auto <= n - 1 \/ ShowsAuto(p, k)) => ShowsAuto(x, k)
    BY <1>4 DEF S
  <2>2. n \in Controls
    BY <1>1
  <2>3. /\ q \in Panels /\ q.dev = x.dev /\ q.value = x.value
        /\ \A k \in Controls :
              /\ camera[k].auto # n => q.flags[k] = x.flags[k]
              /\ camera[k].auto = n => ShowsAuto(q, k)
    BY <2>1, <2>2, UpdateFlags
  <2> HIDE DEF q
  <2>4. ASSUME NEW k \in Controls, camera[k].auto <= n \/ ShowsAuto(p, k) PROVE ShowsAuto(q, k)
    <3>1. CASE camera[k].auto = n
      BY <2>3, <3>1
    <3>2. CASE camera[k].auto # n
      <4>1. camera[k].auto \in Nat /\ n \in Nat
        BY CameraFacts, <2>2, <1>1
      <4>2. ShowsAuto(x, k)
        BY <2>1, <2>4, <3>2, <4>1
      <4>. QED
        BY <2>3, <3>2, <4>2 DEF ShowsAuto
    <3>. QED
      BY <3>1, <3>2
  <2>. QED
    BY <2>1, <2>3, <2>4 DEF S, q
<1>5. T[0] = S(0) /\ T[Count - 1] = S(Count - 1)
  BY <1>2
<1>6. \A n \in 1 .. Count - 1 : T[n - 1] = S(n - 1) /\ T[n] = S(n)
  BY <1>1
<1> HIDE DEF T
<1>7. update_ctrl_list_flags(p) \in T[Count - 1]
  <2>1. p \in T[0] /\ \A n \in 1 .. Count - 1 : \A x \in T[n - 1] : update_ctrl_flags(x, n) \in T[n]
    BY <1>3, <1>4, <1>5, <1>6
  <2>. QED
    BY <1>2, <2>1, ListFlagsStays
<1> DEFINE q == update_ctrl_list_flags(p)
<1>8. q \in S(Count - 1)
  BY <1>5, <1>7
<1> HIDE DEF q
<1>9. ASSUME NEW k \in Controls, camera[k].auto # Count \/ ShowsAuto(p, k) PROVE ShowsAuto(q, k)
  <2>1. camera[k].auto <= Count - 1 \/ camera[k].auto = Count
    <3>1. camera[k].auto \in Nat /\ (camera[k].auto # 0 => camera[k].auto \in 1 .. Count)
      BY <1>1, CameraFacts
    <3>. QED
      BY <1>1, <3>1
  <2>. QED
    BY <1>8, <1>9, <2>1 DEF S
<1>. QED
  BY <1>8, <1>9 DEF S, q

(* A control of a class that another one follows, where the last one the   *)
(* loop takes is of that class.                                            *)
Ends(k, flag, n) ==
  \E m \in k .. n :
    /\ camera[m].class = camera[k].class
    /\ camera[m + 1].class # camera[m].class
    /\ flag \notin camera[m].flags

(* After n turns of the loop that reads: the batch has all readable        *)
(* controls of the class that is under way and nothing of a class that was *)
(* read, and those of a class that was read are shown.                     *)
Reading(p, n) ==
  {a \in [panel : Panels, batch : SUBSET (1 .. n)] :
     /\ a.panel.dev = p.dev /\ a.panel.flags = p.flags
     /\ \A k \in Controls : k > n => a.panel.value[k] = p.value[k]
     /\ \A k \in 1 .. n : Readable(k) /\ camera[k].class = camera[n + 1].class => k \in a.batch
     /\ \A m \in 1 .. n : "wo" \notin camera[m].flags /\ camera[m + 1].class # camera[m].class =>
          \A k \in a.batch : k > m
     /\ \A k \in 1 .. n : Readable(k) /\ Ends(k, "wo", n) => a.panel.value[k] = p.dev[k]}

LEMMA GetClassFacts ==
  ASSUME Lawful, NEW p \in Panels, NEW batch \in SUBSET Controls, NEW n \in Controls, NEW junk \in Settings
  PROVE  /\ GetClass(p, batch, n, junk) \in Panels
         /\ GetClass(p, batch, n, junk).dev = p.dev
         /\ GetClass(p, batch, n, junk).flags = p.flags
         /\ \A k \in Controls \ batch : GetClass(p, batch, n, junk).value[k] = p.value[k]
         /\ \A k \in batch : Readable(k) /\ camera[k].class = camera[n].class =>
              GetClass(p, batch, n, junk).value[k] = p.dev[k]
<1> DEFINE read == {k \in batch : Readable(k) /\ Single(k, camera[n].class)}
           v == [k \in Controls |->
                   IF k \in read THEN p.dev[k] ELSE IF k \in batch THEN junk[k] ELSE p.value[k]]
           q == GetClass(p, batch, n, junk)
<1>1. p.dev \in Settings /\ p.value \in Settings /\ p.flags \in FlagSets
  BY DEF Panels
<1>2. q = [p EXCEPT !.value = v]
  BY Zenon DEF GetClass
<1>3. \A k \in Controls : v[k] = IF k \in read THEN p.dev[k] ELSE IF k \in batch THEN junk[k] ELSE p.value[k]
  OBVIOUS
<1>4. v \in Settings
  BY <1>1 DEF Settings
<1>5. \A k \in batch : Readable(k) /\ camera[k].class = camera[n].class => k \in read
  BY DEF Single
<1> HIDE DEF v, read, q
<1>6. q = [dev |-> p.dev, value |-> v, flags |-> p.flags]
  BY <1>2 DEF Panels
<1>7. q \in Panels /\ q.dev = p.dev /\ q.flags = p.flags /\ q.value = v
  BY <1>1, <1>4, <1>6 DEF Panels
<1>8. \A k \in Controls \ batch : v[k] = p.value[k]
  BY <1>3 DEF read
<1>9. \A k \in batch : Readable(k) /\ camera[k].class = camera[n].class => v[k] = p.dev[k]
  BY <1>3, <1>5
<1>. QED
  BY <1>7, <1>8, <1>9 DEF q

LEMMA ReadingStep ==
  ASSUME Lawful, NEW p \in Panels, NEW n \in 1 .. Count - 1, NEW junk \in Settings, NEW a \in Reading(p, n - 1)
  PROVE  GetStep(a, n, junk) \in Reading(p, n)
<1> DEFINE batch == a.batch \cup {n}
           g == GetClass(a.panel, batch, n, junk)
           r == GetStep(a, n, junk)
           class(k) == camera[k].class
           Last(m) == camera[m + 1].class # camera[m].class
<1>1. Count \in Nat /\ Controls = 1 .. Count /\ n \in Controls /\ n + 1 \in Controls /\ n \in Nat /\ n - 1 + 1 = n
  BY CameraFacts
<1>2. /\ a.panel \in Panels /\ a.batch \subseteq 1 .. n - 1
      /\ a = [panel |-> a.panel, batch |-> a.batch]
      /\ a.panel.dev = p.dev /\ a.panel.flags = p.flags
      /\ \A k \in Controls : k > n - 1 => a.panel.value[k] = p.value[k]
      /\ \A k \in 1 .. n - 1 : Readable(k) /\ class(k) = class(n) => k \in a.batch
      /\ \A m \in 1 .. n - 1 : "wo" \notin camera[m].flags /\ Last(m) => \A k \in a.batch : k > m
      /\ \A k \in 1 .. n - 1 : Readable(k) /\ Ends(k, "wo", n - 1) => a.panel.value[k] = p.dev[k]
  BY <1>1 DEF Reading
<1>3. ASSUME NEW k \in 1 .. n, Ends(k, "wo", n)
      PROVE  \/ k \in 1 .. n - 1 /\ Ends(k, "wo", n - 1)
             \/ class(n) = class(k) /\ Last(n) /\ "wo" \notin camera[n].flags
  <2>1. PICK m \in k .. n : class(m) = class(k) /\ Last(m) /\ "wo" \notin camera[m].flags
    BY <1>3 DEF Ends
  <2>2. CASE m = n
    BY <2>1, <2>2
  <2>3. CASE m # n
    <3>1. m \in k .. n - 1 /\ k \in 1 .. n - 1
      BY <1>1, <2>3
    <3>. QED
      BY <2>1, <3>1 DEF Ends
  <2>. QED
    BY <2>2, <2>3
<1>4. EndsClass(Listed(a.panel), n) <=> Last(n)
  BY <1>1 DEF EndsClass, Listed
<1>5. ASSUME NEW k \in 1 .. n PROVE class(k) <= class(n) /\ class(n) <= class(n + 1) /\ class(k) \in Nat /\ class(n) \in Nat /\ class(n + 1) \in Nat
  <2>1. k \in Controls /\ k <= n /\ n <= n + 1
    BY <1>1
  <2>. QED
    BY <1>1, <2>1, ClassesAscend, CameraFacts
<1>6. batch \subseteq 1 .. n /\ batch \subseteq Controls /\ a.batch \subseteq 1 .. n
  BY <1>1, <1>2
<1>7. /\ "wo" \notin a.panel.flags[n] => r = IF Last(n) THEN [panel |-> g, batch |-> {}] ELSE [a EXCEPT !.batch = batch]
      /\ "wo" \in a.panel.flags[n] => r = a
  BY <1>4, Zenon DEF GetStep
<1>8. /\ g \in Panels /\ g.dev = a.panel.dev /\ g.flags = a.panel.flags
      /\ \A k \in Controls \ batch : g.value[k] = a.panel.value[k]
      /\ \A k \in batch : Readable(k) /\ class(k) = class(n) => g.value[k] = a.panel.dev[k]
  <2>1. a.panel \in Panels /\ batch \in SUBSET Controls
    BY <1>2, <1>6
  <2>2. n \in Controls
    BY <1>1
  <2> HIDE DEF batch
  <2>3. g \in Panels /\ g.dev = a.panel.dev /\ g.flags = a.panel.flags
    BY <2>1, <2>2, GetClassFacts, ZenonT(60)
  <2>4. \A k \in Controls \ batch : g.value[k] = a.panel.value[k]
    BY <2>1, <2>2, GetClassFacts, ZenonT(60)
  <2>5. \A k \in batch : Readable(k) /\ class(k) = class(n) => g.value[k] = a.panel.dev[k]
    BY <2>1, <2>2, GetClassFacts, ZenonT(60)
  <2>. QED
    BY <2>3, <2>4, <2>5, Zenon
<1>9. "wo" \notin camera[n].flags => "wo" \notin a.panel.flags[n]
  <2>1. a.panel.flags \in FlagSets
    BY <1>2 DEF Panels
  <2>. QED
    BY <1>1, <2>1 DEF FlagSets, Busy
<1> HIDE DEF g, r
<1>10. CASE "wo" \in a.panel.flags[n]
  <2>1. r = a
    BY <1>7, <1>10
  <2>2. "wo" \in camera[n].flags
    BY <1>9, <1>10
  <2>3. \A k \in Controls : k > n => a.panel.value[k] = p.value[k]
    BY <1>1, <1>2
  <2>4. ASSUME NEW k \in 1 .. n, Readable(k), class(k) = class(n + 1) PROVE k \in a.batch
    <3>1. k # n
      BY <2>2, <2>4 DEF Readable
    <3>2. k \in 1 .. n - 1
      BY <1>1, <3>1
    <3>3. class(k) = class(n)
      BY <1>5, <2>4
    <3>. QED
      BY <1>2, <2>4, <3>2, <3>3
  <2>5. ASSUME NEW m \in 1 .. n, "wo" \notin camera[m].flags, Last(m) PROVE \A k \in a.batch : k > m
    <3>1. m \in 1 .. n - 1
      BY <1>1, <2>2, <2>5
    <3>. QED
      BY <1>2, <2>5, <3>1
  <2>6. ASSUME NEW k \in 1 .. n, Readable(k), Ends(k, "wo", n) PROVE a.panel.value[k] = p.dev[k]
    BY <1>2, <1>3, <2>2, <2>6
  <2>7. a \in [panel : Panels, batch : SUBSET (1 .. n)]
    BY <1>2, <1>6
  <2>8. a \in Reading(p, n)
    BY <1>2, <2>3, <2>4, <2>5, <2>6, <2>7 DEF Reading
  <2>. QED
    BY <2>1, <2>8 DEF r
<1>11. CASE "wo" \notin a.panel.flags[n] /\ Last(n)
  <2>1. r = [panel |-> g, batch |-> {}]
    BY <1>7, <1>11
  <2>2. ASSUME NEW k \in Controls, k > n PROVE g.value[k] = p.value[k]
    <3>1. k \in Controls \ batch /\ k > n - 1
      BY <1>1, <1>6, <2>2
    <3>. QED
      BY <1>2, <1>8, <3>1
  <2>3. ASSUME NEW k \in 1 .. n PROVE class(k) # class(n + 1)
    BY <1>5, <1>11
  <2>4. ASSUME NEW k \in 1 .. n, Readable(k), Ends(k, "wo", n) PROVE g.value[k] = p.dev[k]
    <3>1. CASE class(k) = class(n)
      <4>1. k \in batch
        BY <1>1, <1>2, <2>4, <3>1
      <4>. QED
        BY <1>2, <1>8, <2>4, <3>1, <4>1
    <3>2. CASE class(k) # class(n)
      <4>1. k \in 1 .. n - 1 /\ Ends(k, "wo", n - 1)
        BY <1>3, <2>4, <3>2
      <4>2. PICK m \in k .. n - 1 : class(m) = class(k) /\ Last(m) /\ "wo" \notin camera[m].flags
        BY <4>1 DEF Ends
      <4>3. m \in 1 .. n - 1 /\ m \in Nat /\ k \in Nat /\ k <= m /\ k # n
        BY <1>1, <4>1, <4>2
      <4>4. k \notin a.batch
        BY <1>2, <4>2, <4>3
      <4>5. k \in Controls \ batch
        BY <1>1, <4>1, <4>3, <4>4
      <4>6. g.value[k] = a.panel.value[k]
        BY <1>8, <4>5
      <4>. QED
        BY <1>2, <2>4, <4>1, <4>6
    <3>. QED
      BY <3>1, <3>2
  <2> DEFINE q == [panel |-> g, batch |-> {}]
  <2>5. q.panel = g /\ q.batch = {} /\ q \in [panel : Panels, batch : SUBSET (1 .. n)]
    BY <1>8
  <2> HIDE DEF q
  <2>6. q \in Reading(p, n)
    BY <1>2, <1>8, <2>2, <2>3, <2>4, <2>5 DEF Reading
  <2>. QED
    BY <2>1, <2>6 DEF q, r
<1>12. CASE "wo" \notin a.panel.flags[n] /\ ~Last(n)
  <2>1. r = [panel |-> a.panel, batch |-> batch]
    BY <1>2, <1>7, <1>12
  <2>3. \A k \in Controls : k > n => a.panel.value[k] = p.value[k]
    BY <1>1, <1>2
  <2>4. ASSUME NEW k \in 1 .. n, Readable(k), class(k) = class(n + 1) PROVE k \in batch
    BY <1>1, <1>2, <1>12, <2>4
  <2>5. ASSUME NEW m \in 1 .. n, "wo" \notin camera[m].flags, Last(m) PROVE \A k \in batch : k > m
    <3>1. m \in 1 .. n - 1 /\ m < n
      BY <1>1, <1>12, <2>5
    <3>. QED
      BY <1>2, <2>5, <3>1
  <2>6. ASSUME NEW k \in 1 .. n, Readable(k), Ends(k, "wo", n) PROVE a.panel.value[k] = p.dev[k]
    BY <1>2, <1>3, <1>12, <2>6
  <2> DEFINE q == [panel |-> a.panel, batch |-> batch]
  <2>7. q.panel = a.panel /\ q.batch = batch /\ q \in [panel : Panels, batch : SUBSET (1 .. n)]
    BY <1>2, <1>6
  <2> HIDE DEF q, batch
  <2>8. q \in Reading(p, n)
    BY <1>2, <2>3, <2>4, <2>5, <2>6, <2>7 DEF Reading
  <2>. QED
    BY <2>1, <2>8 DEF q, r
<1>. QED
  BY <1>10, <1>11, <1>12 DEF r

(* Reading all controls makes the panel true but for the last one, and the *)
(* flags of those under it: the loop does not come to it.                  *)
LEMMA GetValues ==
  ASSUME Lawful, NEW p \in Panels, NEW junk \in Settings
  PROVE  /\ get_ctrl_values(p, junk) \in Panels
         /\ get_ctrl_values(p, junk).dev = p.dev
         /\ get_ctrl_values(p, junk).value[Count] = p.value[Count]
         /\ \A k \in Controls :
              camera[k].auto # Count \/ ShowsAuto(p, k) => ShowsAuto(get_ctrl_values(p, junk), k)
         /\ \A k \in Controls : Readable(k) /\ Ends(k, "wo", Count - 1) =>
              get_ctrl_values(p, junk).value[k] = p.dev[k]
<1> DEFINE T == [n \in 0 .. Count - 1 |-> Reading(p, n)]
<1>1. Count \in Nat /\ Count >= 1 /\ Controls = 1 .. Count
  BY CameraFacts
<1>2. Count - 1 \in Nat /\ 0 \in 0 .. Count - 1 /\ Count - 1 \in 0 .. Count - 1
  BY <1>1
<1>3. NoBatch(p) \in Reading(p, 0)
  <2> DEFINE q == [panel |-> p, batch |-> {}]
  <2>1. q.panel = p /\ q.batch = {} /\ q \in [panel : Panels, batch : SUBSET (1 .. 0)] /\ 1 .. 0 = {}
    OBVIOUS
  <2> HIDE DEF q
  <2>2. q \in Reading(p, 0)
    BY <2>1 DEF Reading
  <2>. QED
    BY <2>2 DEF NoBatch, q
<1>4. \A n \in 1 .. Count - 1 : \A a \in Reading(p, n - 1) : GetStep(a, n, junk) \in Reading(p, n)
  BY ReadingStep
<1>5. T[0] = Reading(p, 0) /\ T[Count - 1] = Reading(p, Count - 1)
      /\ \A n \in 1 .. Count - 1 : T[n - 1] = Reading(p, n - 1) /\ T[n] = Reading(p, n)
  BY <1>1, <1>2
<1> HIDE DEF T
<1>6. \E x \in T[Count - 1] : get_ctrl_values(p, junk) = update_ctrl_list_flags(x.panel)
  <2>1. NoBatch(p) \in T[0] /\ \A n \in 1 .. Count - 1 : \A a \in T[n - 1] : GetStep(a, n, junk) \in T[n]
    BY <1>3, <1>4, <1>5
  <2>. QED
    BY <1>2, <2>1, GetValuesStays
<1>7. PICK x \in Reading(p, Count - 1) : get_ctrl_values(p, junk) = update_ctrl_list_flags(x.panel)
  BY <1>5, <1>6
<1> DEFINE q == x.panel  r == get_ctrl_values(p, junk)
<1>8. /\ q \in Panels /\ q.dev = p.dev /\ q.flags = p.flags
      /\ \A k \in Controls : k > Count - 1 => q.value[k] = p.value[k]
      /\ \A k \in 1 .. Count - 1 : Readable(k) /\ Ends(k, "wo", Count - 1) => q.value[k] = p.dev[k]
  BY <1>7 DEF Reading
<1>0. q.value[Count] = p.value[Count]
  BY <1>1, <1>8
<1>9. ASSUME NEW k \in Controls, camera[k].auto # Count \/ ShowsAuto(p, k)
      PROVE  camera[k].auto # Count \/ ShowsAuto(q, k)
  BY <1>0, <1>8, <1>9 DEF ShowsAuto
<1> HIDE DEF q
<1>10. r = update_ctrl_list_flags(q)
  BY <1>7 DEF q
<1> HIDE DEF r
<1>11. /\ r \in Panels /\ r.dev = q.dev /\ r.value = q.value
       /\ \A k \in Controls : camera[k].auto # Count \/ ShowsAuto(q, k) => ShowsAuto(r, k)
  BY <1>8, <1>10, ListFlags
<1>12. ASSUME NEW k \in Controls, Readable(k), Ends(k, "wo", Count - 1) PROVE r.value[k] = p.dev[k]
  <2>1. k \in 1 .. Count - 1
    BY <1>1, <1>12 DEF Ends
  <2>. QED
    BY <1>8, <1>11, <1>12, <2>1
<1>. QED
  BY <1>0, <1>8, <1>9, <1>11, <1>12 DEF r

-----------------------------------------------------------------------------
(* Lists of settings are in the order of the controls.                     *)
ItemLists == {s \in Seq(Item) : \A i, j \in 1 .. Len(s) : i < j => s[i].id < s[j].id}
ClassAt(items, i) == camera[items[i].id].class

(* The setting is in the device; or it is refused, and nothing that is     *)
(* still to be set can change that.                                        *)
Arrived(x, items, i) ==
  \/ x[items[i].id] = items[i].value
  \/ /\ Refuses(x, items[i].id)
     /\ \A m \in i + 1 .. Len(items) - 1 : items[m].id # camera[items[i].id].auto

(* No automatic control that is set later refuses it now.                  *)
Free(x, items, i) ==
  /\ "ro" \notin camera[items[i].id].flags
  /\ \A m \in i + 1 .. Len(items) - 1 :
       items[m].id = camera[items[i].id].auto => x[items[m].id] \notin camera[items[i].id].busy

LEMMA ItemFacts ==
  ASSUME Lawful, NEW items \in ItemLists
  PROVE  /\ Len(items) \in Nat
         /\ \A i \in 1 .. Len(items) :
              /\ items[i] \in Item /\ items[i].id \in Controls /\ items[i].id \in Nat
              /\ items[i].value \in Nat /\ ClassAt(items, i) \in Nat
         /\ \A i, j \in 1 .. Len(items) : i < j => items[i].id < items[j].id
         /\ \A i, j \in 1 .. Len(items) : items[i].id = items[j].id => i = j
         /\ \A i, j \in 1 .. Len(items) : i <= j => ClassAt(items, i) <= ClassAt(items, j)
<1>1. items \in Seq(Item) /\ Len(items) \in Nat
      /\ \A i, j \in 1 .. Len(items) : i < j => items[i].id < items[j].id
  BY DEF ItemLists
<1>2. ASSUME NEW i \in 1 .. Len(items)
      PROVE  /\ items[i] \in Item /\ items[i].id \in Controls /\ items[i].id \in Nat
             /\ items[i].value \in Nat /\ ClassAt(items, i) \in Nat
  <2>1. items[i] \in Item
    BY <1>1
  <2>2. items[i].id \in Controls /\ items[i].value \in Nat
    BY <2>1 DEF Item
  <2>. QED
    BY <2>1, <2>2, CameraFacts DEF ClassAt
<1>3. ASSUME NEW i \in 1 .. Len(items), NEW j \in 1 .. Len(items), items[i].id = items[j].id PROVE i = j
  <2>1. items[i].id \in Nat /\ items[j].id \in Nat
    BY <1>2
  <2>2. ~(items[i].id < items[j].id) /\ ~(items[j].id < items[i].id)
    BY <1>3, <2>1
  <2>. QED
    BY <1>1, <2>2
<1>4. ASSUME NEW i \in 1 .. Len(items), NEW j \in 1 .. Len(items), i <= j
      PROVE  ClassAt(items, i) <= ClassAt(items, j)
  <2>1. items[i].id <= items[j].id
    <3>1. CASE i = j
      BY <1>2, <3>1
    <3>2. CASE i < j
      BY <1>1, <1>2, <3>2
    <3>. QED
      BY <1>4, <3>1, <3>2
  <2>2. items[i].id \in Controls /\ items[j].id \in Controls
    BY <1>2
  <2>. QED
    BY <2>1, <2>2, ClassesAscend DEF ClassAt
<1>. QED
  BY <1>1, <1>2, <1>3, <1>4

(* What arrived stays, when only what comes later in the list is set.      *)
LEMMA ArrivedStays ==
  ASSUME Lawful, NEW items \in ItemLists, NEW i \in 1 .. Len(items), NEW x, NEW y, Arrived(x, items, i),
         \A c \in Controls : (\A m \in i + 1 .. Len(items) - 1 : items[m].id # c) => y[c] = x[c]
  PROVE  Arrived(y, items, i)
<1> DEFINE id == items[i].id  auto == camera[id].auto
<1>1. id \in Controls
  BY ItemFacts
<1>2. y[id] = x[id]
  <2>1. ASSUME NEW m \in i + 1 .. Len(items) - 1 PROVE items[m].id # id
    <3>1. Len(items) \in Nat
      BY ItemFacts
    <3>2. m \in 1 .. Len(items) /\ m # i
      BY <3>1
    <3>. QED
      BY <3>2, ItemFacts
  <2>. QED
    BY <1>1, <2>1
<1>3. CASE x[id] = items[i].value
  BY <1>2, <1>3 DEF Arrived
<1>4. CASE Refuses(x, id) /\ \A m \in i + 1 .. Len(items) - 1 : items[m].id # auto
  <2>1. auto # 0 => y[auto] = x[auto]
    BY <1>1, <1>4, AutoFacts
  <2>2. Refuses(y, id)
    BY <1>4, <2>1 DEF Refuses
  <2>. QED
    BY <1>4, <2>2 DEF Arrived
<1>. QED
  BY <1>3, <1>4 DEF Arrived

(* The device after the places up to k of a call.                          *)
SetSoFar(x, items, places, k) ==
  {y \in Settings :
     \A c \in Controls : (\A m \in places : m <= k => items[m].id # c) => y[c] = x[c]}

LEMMA SetSoFarStep ==
  ASSUME Lawful, NEW x \in Settings, NEW items \in ItemLists, NEW places \in SUBSET (1 .. Len(items)),
         NEW k \in 1 .. Len(items), NEW y \in SetSoFar(x, items, places, k - 1)
  PROVE  (IF k \in places THEN SetOne(y, items[k]) ELSE y) \in SetSoFar(x, items, places, k)
<1>1. Len(items) \in Nat /\ items[k] \in Item /\ items[k].id \in Controls /\ places \subseteq Nat
  BY ItemFacts
<1>2. y \in Settings /\ \A c \in Controls : (\A m \in places : m <= k - 1 => items[m].id # c) => y[c] = x[c]
  BY DEF SetSoFar
<1>3. ASSUME NEW c \in Controls, \A m \in places : m <= k => items[m].id # c PROVE y[c] = x[c]
  <2>1. \A m \in places : m <= k - 1 => m <= k
    BY <1>1
  <2>. QED
    BY <1>2, <1>3, <2>1
<1>4. CASE k \in places
  <2> DEFINE z == SetOne(y, items[k])
  <2>1. z \in Settings /\ \A c \in Controls \ {items[k].id} : z[c] = y[c]
    BY <1>1, <1>2, SetOneFacts
  <2> HIDE DEF z
  <2>2. ASSUME NEW c \in Controls, \A m \in places : m <= k => items[m].id # c PROVE z[c] = x[c]
    <3>1. c # items[k].id
      BY <1>4, <2>2
    <3>. QED
      BY <1>3, <2>1, <2>2, <3>1
  <2>3. z \in SetSoFar(x, items, places, k)
    BY <2>1, <2>2 DEF SetSoFar
  <2>. QED
    BY <1>4, <2>3 DEF z
<1>5. CASE k \notin places
  <2>1. y \in SetSoFar(x, items, places, k)
    BY <1>2, <1>3 DEF SetSoFar
  <2>. QED
    BY <1>5, <2>1
<1>. QED
  BY <1>4, <1>5

(* A call leaves alone what it does not name.                              *)
LEMMA SetUpToKeeps ==
  ASSUME Lawful, NEW x \in Settings, NEW items \in ItemLists, NEW n \in 0 .. Len(items),
         NEW places \in SUBSET (1 .. n)
  PROVE  /\ SetUpTo(x, items, places, n) \in Settings
         /\ \A c \in Controls : (\A m \in places : items[m].id # c) => SetUpTo(x, items, places, n)[c] = x[c]
<1> DEFINE T == [k \in 0 .. n |-> SetSoFar(x, items, places, k)]
<1>1. Len(items) \in Nat /\ n \in Nat /\ 0 \in 0 .. n /\ n \in 0 .. n /\ places \in SUBSET (1 .. Len(items))
  BY ItemFacts
<1>2. T[0] = SetSoFar(x, items, places, 0) /\ T[n] = SetSoFar(x, items, places, n)
      /\ \A k \in 1 .. n : T[k - 1] = SetSoFar(x, items, places, k - 1) /\ T[k] = SetSoFar(x, items, places, k)
                           /\ k \in 1 .. Len(items)
  BY <1>1
<1> HIDE DEF T
<1>3. x \in T[0]
  BY <1>2 DEF SetSoFar
<1>4. \A k \in 1 .. n : \A y \in T[k - 1] : (IF k \in places THEN SetOne(y, items[k]) ELSE y) \in T[k]
  BY <1>1, <1>2, SetSoFarStep
<1>5. SetUpTo(x, items, places, n) \in T[n]
  BY <1>1, <1>3, <1>4, SetUpToStays
<1> DEFINE y == SetUpTo(x, items, places, n)
<1>6. y \in SetSoFar(x, items, places, n)
  BY <1>2, <1>5
<1> HIDE DEF y
<1>7. \A m \in places : m <= n
  BY <1>1
<1>. QED
  BY <1>6, <1>7 DEF SetSoFar, y

(* A call that names a setting brings it to the device, or leaves it       *)
(* refused.                                                                *)
LEMMA SetUpToArrives ==
  ASSUME Lawful, NEW x \in Settings, NEW items \in ItemLists, NEW n \in 0 .. Len(items) - 1,
         NEW places \in SUBSET (1 .. n), NEW i \in places, Free(x, items, i)
  PROVE  Arrived(SetUpTo(x, items, places, n), items, i)
<1> DEFINE S(k) == {y \in SetSoFar(x, items, places, k) : i <= k => Arrived(y, items, i)}
           T == [k \in 0 .. n |-> S(k)]
           id == items[i].id  auto == camera[id].auto
<1>1. Len(items) \in Nat /\ n \in Nat /\ n <= Len(items) - 1
  BY ItemFacts
<1>2. /\ 0 \in 0 .. n /\ n \in 0 .. n /\ places \in SUBSET (1 .. Len(items)) /\ places \subseteq Nat
      /\ i \in 1 .. n /\ i \in 1 .. Len(items)
  BY <1>1
<1> HIDE DEF S
<1>3. T[0] = S(0) /\ T[n] = S(n) /\ \A k \in 1 .. n : T[k - 1] = S(k - 1) /\ T[k] = S(k)
  BY <1>1, <1>2
<1> HIDE DEF T
<1>4. x \in S(0)
  <2>1. ~(i <= 0)
    BY <1>2
  <2>. QED
    BY <2>1 DEF S, SetSoFar
<1>5. ASSUME NEW k \in 1 .. n, NEW y \in S(k - 1)
      PROVE  (IF k \in places THEN SetOne(y, items[k]) ELSE y) \in S(k)
  <2> DEFINE z == IF k \in places THEN SetOne(y, items[k]) ELSE y
  <2>1. k \in 1 .. Len(items) /\ k \in Nat
    BY <1>1
  <2>2. y \in SetSoFar(x, items, places, k - 1) /\ (i <= k - 1 => Arrived(y, items, i))
    BY DEF S
  <2>3. z \in SetSoFar(x, items, places, k)
    BY <1>2, <2>1, <2>2, SetSoFarStep
  <2>4. y \in Settings
    BY <2>2 DEF SetSoFar
  <2>5. items[k] \in Item /\ items[k].id \in Controls
    BY <2>1, ItemFacts
  <2>6. /\ k \in places => z[items[k].id] = IF Refuses(y, items[k].id) THEN y[items[k].id] ELSE items[k].value
        /\ \A c \in Controls \ {items[k].id} : z[c] = y[c]
    <3>1. CASE k \in places
      BY <2>4, <2>5, <3>1, SetOneFacts
    <3>2. CASE k \notin places
      BY <3>2
    <3>. QED
      BY <3>1, <3>2
  <2> HIDE DEF z
  <2>7. CASE k < i
    <3>1. ~(i <= k)
      BY <1>2, <2>1, <2>7
    <3>. QED
      BY <2>3, <3>1 DEF S, z
  <2>8. CASE k = i
    <3>1. id \in Controls
      BY <2>5, <2>8
    <3>2. CASE ~Refuses(y, id)
      <4>1. z[id] = items[i].value
        BY <2>6, <2>8, <3>2
      <4>. QED
        BY <2>3, <4>1 DEF S, z, Arrived
    <3>3. CASE Refuses(y, id)
      <4>1. auto # 0 /\ y[auto] \in camera[id].busy
        BY <3>3 DEF Refuses, Free
      <4>2. auto \in Controls /\ auto # id
        BY <3>1, <4>1, CameraFacts
      <4>3. ASSUME NEW m \in i + 1 .. Len(items) - 1, items[m].id = auto PROVE FALSE
        <5>1. m \in 1 .. Len(items) /\ m \in Nat /\ m > i
          BY <1>1, <1>2
        <5>2. ASSUME NEW j \in places, j <= k - 1 PROVE items[j].id # auto
          <6>1. j \in 1 .. Len(items) /\ j # m
            BY <1>2, <2>1, <2>8, <5>1, <5>2
          <6>. QED
            BY <4>3, <5>1, <6>1, ItemFacts
        <5>3. y[auto] = x[auto]
          BY <2>2, <4>2, <5>2 DEF SetSoFar
        <5>4. x[auto] \notin camera[id].busy
          BY <4>3 DEF Free
        <5>. QED
          BY <4>1, <5>3, <5>4
      <4>4. z[auto] = y[auto]
        BY <2>6, <2>8, <4>2
      <4>5. Refuses(z, id)
        BY <4>1, <4>4 DEF Refuses
      <4>6. Arrived(z, items, i)
        BY <4>3, <4>5 DEF Arrived
      <4>. QED
        BY <2>3, <4>6 DEF S, z
    <3>. QED
      BY <3>2, <3>3
  <2>9. CASE k > i
    <3>1. i <= k - 1 /\ k \in i + 1 .. Len(items) - 1
      BY <1>1, <1>2, <2>1, <2>9
    <3>2. Arrived(y, items, i)
      BY <2>2, <3>1
    <3>3. ASSUME NEW c \in Controls, \A m \in i + 1 .. Len(items) - 1 : items[m].id # c PROVE z[c] = y[c]
      BY <2>6, <3>1, <3>3
    <3>a. i \in 1 .. Len(items)
      BY <1>2
    <3>4. Arrived(z, items, i)
      BY <3>a, <3>2, <3>3, ArrivedStays, Zenon
    <3>. QED
      BY <2>3, <3>4 DEF S, z
  <2>10. k < i \/ k = i \/ k > i
    BY <1>2, <2>1
  <2>. QED
    BY <2>7, <2>8, <2>9, <2>10, Zenon
<1>6. SetUpTo(x, items, places, n) \in T[n]
  <2>1. x \in T[0] /\ \A k \in 1 .. n : \A y \in T[k - 1] : (IF k \in places THEN SetOne(y, items[k]) ELSE y) \in T[k]
    <3>1. ASSUME NEW k \in 1 .. n, NEW y \in T[k - 1]
          PROVE  (IF k \in places THEN SetOne(y, items[k]) ELSE y) \in T[k]
      <4>1. T[k - 1] = S(k - 1) /\ T[k] = S(k)
        BY <1>3
      <4>2. y \in S(k - 1)
        BY <4>1
      <4>3. (IF k \in places THEN SetOne(y, items[k]) ELSE y) \in S(k)
        BY <1>5, <4>2, Zenon
      <4>. QED
        BY <4>1, <4>3
    <3>. QED
      BY <1>3, <1>4, <3>1, Zenon
  <2>. QED
    BY <1>1, <2>1, SetUpToStays
<1>. QED
  BY <1>2, <1>3, <1>6 DEF S

(***************************************************************************)
(* After n turns of the loop that sets: the batch has all settings of the  *)
(* class that is under way but those that are shown as read-only, and      *)
(* nothing of a class that was set; what is in the batch, or was left out  *)
(* as read-only, is not set; and the free ones of a class that was set     *)
(* arrived.                                                                *)
(***************************************************************************)
EndsAt(items, j, skip, n) ==
  \E m \in j .. n :
    /\ ClassAt(items, m) = ClassAt(items, j)
    /\ ClassAt(items, m + 1) # ClassAt(items, m)
    /\ skip \notin camera[items[m].id].flags
Shut(p, items, m) == "ro" \in p.flags[items[m].id]

Setting(p, items, n) ==
  {a \in [panel : Panels, batch : SUBSET (1 .. n)] :
     /\ a.panel.value = p.value /\ a.panel.flags = p.flags
     /\ \A k \in a.batch : ~Shut(p, items, k)
     /\ \A i \in 1 .. n : ~Shut(p, items, i) /\ ClassAt(items, i) = ClassAt(items, n + 1) => i \in a.batch
     /\ \A m \in 1 .. n :
          "ro" \notin camera[items[m].id].flags /\ ClassAt(items, m + 1) # ClassAt(items, m) =>
            \A k \in a.batch : k > m
     /\ \A c \in Controls :
          (\A m \in 1 .. n : items[m].id = c => m \in a.batch \/ Shut(p, items, m)) =>
            a.panel.dev[c] = p.dev[c]
     /\ \A i \in 1 .. n :
          Free(p.dev, items, i) /\ EndsAt(items, i, "ro", n) => Arrived(a.panel.dev, items, i)}

(* A call for a class sets some places of the batch, with all of the class. *)
SetsClass(p, items, batch, n, q) ==
  \E places \in SUBSET batch :
    /\ \A k \in batch : ClassAt(items, k) = ClassAt(items, n) => k \in places
    /\ q \in Panels /\ q.value = p.value /\ q.flags = p.flags
    /\ q.dev = SetUpTo(p.dev, items, places, n)

LEMMA SetClassFacts ==
  ASSUME NEW p \in Panels, NEW items, NEW batch, NEW n,
         \A places \in SUBSET batch : SetUpTo(p.dev, items, places, n) \in Settings
  PROVE  SetsClass(p, items, batch, n, SetClass(p, items, batch, n))
<1> DEFINE class == camera[items[n].id].class
           places == IF TakesAll(p.dev, items, batch, class) THEN batch
                     ELSE {k \in batch : Single(items[k].id, class)}
           d == SetUpTo(p.dev, items, places, n)
           q == SetClass(p, items, batch, n)
<1>1. places \in SUBSET batch
  OBVIOUS
<1>2. \A k \in batch : ClassAt(items, k) = ClassAt(items, n) => k \in places
  BY DEF ClassAt, Single
<1>3. q = [p EXCEPT !.dev = d]
  BY Zenon DEF SetClass
<1> HIDE DEF places, q
<1>4. d \in Settings
  BY <1>1
<1> HIDE DEF d
<1>5. q = [dev |-> d, value |-> p.value, flags |-> p.flags] /\ p.value \in Settings /\ p.flags \in FlagSets
  BY <1>3 DEF Panels
<1>6. q \in Panels /\ q.value = p.value /\ q.flags = p.flags /\ q.dev = d
  BY <1>4, <1>5 DEF Panels
<1>. QED
  BY <1>1, <1>2, <1>6 DEF d, q, SetsClass

LEMMA SettingStep ==
  ASSUME Lawful, NEW p \in Panels, NEW items \in ItemLists, NEW n \in 1 .. Len(items) - 1,
         NEW a \in Setting(p, items, n - 1)
  PROVE  SetStep(a, items, n) \in Setting(p, items, n)
<1> DEFINE batch == a.batch \cup {n}
           r == SetStep(a, items, n)
           class(i) == ClassAt(items, i)
           Last(m) == ClassAt(items, m + 1) # ClassAt(items, m)
           x == a.panel.dev
<1>1. /\ Len(items) \in Nat /\ n \in Nat /\ n \in 1 .. Len(items) /\ n + 1 \in 1 .. Len(items)
      /\ n - 1 + 1 = n /\ n <= Len(items) - 1
  BY ItemFacts
<1>2. /\ a.panel \in Panels /\ a.batch \subseteq 1 .. n - 1 /\ a.batch \subseteq 1 .. n
      /\ a = [panel |-> a.panel, batch |-> a.batch]
      /\ a.panel.value = p.value /\ a.panel.flags = p.flags
      /\ \A k \in a.batch : ~Shut(p, items, k)
      /\ \A i \in 1 .. n - 1 : ~Shut(p, items, i) /\ class(i) = class(n) => i \in a.batch
      /\ \A m \in 1 .. n - 1 : "ro" \notin camera[items[m].id].flags /\ Last(m) => \A k \in a.batch : k > m
      /\ \A c \in Controls :
          (\A m \in 1 .. n - 1 : items[m].id = c => m \in a.batch \/ Shut(p, items, m)) => x[c] = p.dev[c]
      /\ \A i \in 1 .. n - 1 : Free(p.dev, items, i) /\ EndsAt(items, i, "ro", n - 1) => Arrived(x, items, i)
  <2>1. \A k : k \in 1 .. n - 1 => k \in 1 .. n
    BY <1>1
  <2>. QED
    BY <1>1, <2>1 DEF Setting
<1>3. ASSUME NEW i \in 1 .. n, EndsAt(items, i, "ro", n)
      PROVE  \/ i \in 1 .. n - 1 /\ EndsAt(items, i, "ro", n - 1)
             \/ class(n) = class(i) /\ Last(n) /\ "ro" \notin camera[items[n].id].flags
  <2>1. PICK m \in i .. n : class(m) = class(i) /\ Last(m) /\ "ro" \notin camera[items[m].id].flags
    BY <1>3 DEF EndsAt
  <2>2. CASE m = n
    BY <2>1, <2>2
  <2>3. CASE m # n
    <3>1. m \in i .. n - 1 /\ i \in 1 .. n - 1
      BY <1>1, <2>3
    <3>. QED
      BY <2>1, <3>1 DEF EndsAt
  <2>. QED
    BY <2>2, <2>3
<1>4. EndsClass(items, n) <=> Last(n)
  BY DEF EndsClass, ClassAt
<1>5. ASSUME NEW i \in 1 .. n
      PROVE  /\ class(i) <= class(n) /\ class(n) <= class(n + 1)
             /\ class(i) \in Nat /\ class(n) \in Nat /\ class(n + 1) \in Nat
  <2>1. i \in 1 .. Len(items) /\ i <= n /\ n <= n + 1
    BY <1>1
  <2>. QED
    BY <1>1, <2>1, ItemFacts
<1>6. batch \subseteq 1 .. n /\ n - 1 \in Nat
  BY <1>1, <1>2
<1>7. /\ ~Shut(p, items, n) =>
           r = IF Last(n) THEN [panel |-> SetClass(a.panel, items, batch, n), batch |-> {}]
               ELSE [a EXCEPT !.batch = batch]
      /\ Shut(p, items, n) => r = a
  <2>1. Shut(p, items, n) <=> "ro" \in a.panel.flags[items[n].id]
    BY <1>2 DEF Shut
  <2>. QED
    BY <1>4, <2>1, Zenon DEF SetStep
<1>8. ASSUME NEW i \in 1 .. Len(items), "ro" \notin camera[items[i].id].flags PROVE ~Shut(p, items, i)
  <2>1. items[i].id \in Controls
    BY ItemFacts
  <2>2. p.flags \in FlagSets
    BY DEF Panels
  <2>. QED
    BY <1>8, <2>1, <2>2 DEF FlagSets, Busy, Shut
<1> HIDE DEF r, x
<1>9. CASE Shut(p, items, n)
  <2>1. r = a
    BY <1>7, <1>9
  <2>2. "ro" \in camera[items[n].id].flags
    BY <1>1, <1>8, <1>9
  <2>3. ASSUME NEW i \in 1 .. n, ~Shut(p, items, i), class(i) = class(n + 1) PROVE i \in a.batch
    <3>1. i \in 1 .. n - 1 /\ class(i) = class(n)
      BY <1>1, <1>5, <1>9, <2>3
    <3>. QED
      BY <1>2, <2>3, <3>1
  <2>4. ASSUME NEW m \in 1 .. n, "ro" \notin camera[items[m].id].flags, Last(m) PROVE \A k \in a.batch : k > m
    <3>1. m \in 1 .. n - 1
      BY <1>1, <2>2, <2>4
    <3>. QED
      BY <1>2, <2>4, <3>1
  <2>5. ASSUME NEW c \in Controls, \A m \in 1 .. n : items[m].id = c => m \in a.batch \/ Shut(p, items, m)
        PROVE  x[c] = p.dev[c]
    <3>1. \A m \in 1 .. n - 1 : m \in 1 .. n
      BY <1>1
    <3>. QED
      BY <1>2, <2>5, <3>1
  <2>6. ASSUME NEW i \in 1 .. n, Free(p.dev, items, i), EndsAt(items, i, "ro", n) PROVE Arrived(x, items, i)
    BY <1>2, <1>3, <2>2, <2>6
  <2>7. a \in [panel : Panels, batch : SUBSET (1 .. n)]
    BY <1>2
  <2>8. a \in Setting(p, items, n)
    BY <1>2, <2>3, <2>4, <2>5, <2>6, <2>7 DEF Setting, x
  <2>. QED
    BY <2>1, <2>8 DEF r
<1>10. CASE ~Shut(p, items, n) /\ ~Last(n)
  <2>1. r = [panel |-> a.panel, batch |-> batch]
    BY <1>2, <1>7, <1>10
  <2>3. ASSUME NEW i \in 1 .. n, ~Shut(p, items, i), class(i) = class(n + 1) PROVE i \in batch
    BY <1>1, <1>2, <1>10, <2>3
  <2>4. ASSUME NEW m \in 1 .. n, "ro" \notin camera[items[m].id].flags, Last(m) PROVE \A k \in batch : k > m
    <3>1. m \in 1 .. n - 1 /\ n > m
      BY <1>1, <1>10, <2>4
    <3>. QED
      BY <1>2, <2>4, <3>1
  <2>5. ASSUME NEW c \in Controls, \A m \in 1 .. n : items[m].id = c => m \in batch \/ Shut(p, items, m)
        PROVE  x[c] = p.dev[c]
    <3>1. \A m \in 1 .. n - 1 : m \in 1 .. n /\ m # n
      BY <1>1
    <3>. QED
      BY <1>2, <2>5, <3>1
  <2>6. ASSUME NEW i \in 1 .. n, Free(p.dev, items, i), EndsAt(items, i, "ro", n) PROVE Arrived(x, items, i)
    BY <1>2, <1>3, <1>10, <2>6
  <2>7. \A k \in batch : ~Shut(p, items, k)
    BY <1>2, <1>10
  <2> DEFINE q == [panel |-> a.panel, batch |-> batch]
  <2>8. q.panel = a.panel /\ q.batch = batch /\ q \in [panel : Panels, batch : SUBSET (1 .. n)]
    BY <1>2, <1>6
  <2> HIDE DEF q, batch
  <2>9. q \in Setting(p, items, n)
    BY <1>2, <2>3, <2>4, <2>5, <2>6, <2>7, <2>8 DEF Setting, x
  <2>. QED
    BY <2>1, <2>9 DEF q, r
<1>11. CASE ~Shut(p, items, n) /\ Last(n)
  <2> DEFINE g == SetClass(a.panel, items, batch, n)
  <2>1. r = [panel |-> g, batch |-> {}]
    BY <1>7, <1>11
  <2>2. x \in Settings
    BY <1>2 DEF Panels, x
  <2>3. n \in 0 .. Len(items) /\ n \in 0 .. Len(items) - 1
    BY <1>1
  <2>4. ASSUME NEW places \in SUBSET batch
        PROVE  /\ places \in SUBSET (1 .. n)
               /\ SetUpTo(x, items, places, n) \in Settings
               /\ \A c \in Controls :
                    (\A m \in places : items[m].id # c) => SetUpTo(x, items, places, n)[c] = x[c]
    <3>1. places \in SUBSET (1 .. n)
      BY <1>6
    <3>. QED
      BY <2>2, <2>3, <3>1, SetUpToKeeps
  <2>5. PICK places \in SUBSET batch :
          /\ \A k \in batch : class(k) = class(n) => k \in places
          /\ g \in Panels /\ g.value = p.value /\ g.flags = p.flags
          /\ g.dev = SetUpTo(x, items, places, n)
    <3>1. \A places \in SUBSET batch : SetUpTo(a.panel.dev, items, places, n) \in Settings
      BY <2>4 DEF x
    <3>2. a.panel \in Panels
      BY <1>2
    <3> HIDE DEF batch
    <3>3. SetsClass(a.panel, items, batch, n, g)
      BY <3>1, <3>2, SetClassFacts, Zenon
    <3> HIDE DEF g
    <3>. QED
      BY <1>2, <3>3 DEF x, SetsClass
  <2> HIDE DEF g
  <2>6. ASSUME NEW c \in Controls, \A m \in places : items[m].id # c PROVE g.dev[c] = x[c]
    BY <2>4, <2>5, <2>6
  <2>7. ASSUME NEW i \in 1 .. n PROVE class(i) # class(n + 1)
    BY <1>5, <1>11
  <2>8. ASSUME NEW c \in Controls, \A m \in 1 .. n : items[m].id = c => Shut(p, items, m)
        PROVE  g.dev[c] = p.dev[c]
    <3>1. ASSUME NEW m \in places PROVE items[m].id # c
      <4>1. m \in 1 .. n /\ ~Shut(p, items, m)
        BY <1>2, <1>6, <1>11
      <4>. QED
        BY <2>8, <4>1
    <3>2. \A m \in 1 .. n - 1 : m \in 1 .. n
      BY <1>1
    <3>. QED
      BY <1>2, <2>6, <2>8, <3>1, <3>2
  <2>9. ASSUME NEW i \in 1 .. n, Free(p.dev, items, i), EndsAt(items, i, "ro", n) PROVE Arrived(g.dev, items, i)
    <3> DEFINE id == items[i].id  auto == camera[id].auto
    <3>1. i \in 1 .. Len(items) /\ i \in Nat
      BY <1>1
    <3>2. "ro" \notin camera[id].flags /\ ~Shut(p, items, i)
      BY <1>8, <2>9, <3>1 DEF Free
    <3>3. CASE class(i) = class(n)
      <4>1. i \in batch
        BY <1>1, <1>2, <3>2, <3>3
      <4>2. i \in places
        BY <2>5, <3>3, <4>1
      <4>3. ASSUME NEW m \in i + 1 .. Len(items) - 1, items[m].id = auto PROVE x[auto] \notin camera[id].busy
        <5>1. m \in 1 .. Len(items) /\ i <= m /\ i # m /\ m \in Nat
          BY <1>1, <3>1
        <5>2. auto \in Controls
          BY <4>3, <5>1, ItemFacts
        <5>3. ASSUME NEW j \in 1 .. n - 1, items[j].id = auto PROVE j \in a.batch \/ Shut(p, items, j)
          <6>1. j \in 1 .. Len(items)
            BY <1>1
          <6>2. j = m
            BY <4>3, <5>1, <5>3, <6>1, ItemFacts
          <6>3. class(i) <= class(j)
            BY <3>1, <5>1, <6>2, ItemFacts
          <6>4. j \in 1 .. n
            BY <1>1
          <6>5. class(j) <= class(n) /\ class(j) \in Nat /\ class(n) \in Nat /\ class(i) \in Nat
            BY <1>5, <6>4
          <6>6. class(j) = class(n)
            BY <3>3, <6>3, <6>5
          <6>. QED
            BY <1>2, <6>6
        <5>4. x[auto] = p.dev[auto]
          BY <1>2, <5>2, <5>3
        <5>5. p.dev[auto] \notin camera[id].busy
          BY <2>9, <4>3 DEF Free
        <5>. QED
          BY <5>4, <5>5
      <4>4. Free(x, items, i)
        BY <3>2, <4>3 DEF Free
      <4>5. places \in SUBSET (1 .. n)
        BY <2>4
      <4>6. Arrived(SetUpTo(x, items, places, n), items, i)
        BY <2>2, <2>3, <4>2, <4>4, <4>5, SetUpToArrives
      <4>. QED
        BY <2>5, <4>6
    <3>4. CASE class(i) # class(n)
      <4>1. i \in 1 .. n - 1 /\ EndsAt(items, i, "ro", n - 1)
        BY <1>3, <2>9, <3>4
      <4>2. PICK m \in i .. n - 1 : class(m) = class(i) /\ Last(m) /\ "ro" \notin camera[items[m].id].flags
        BY <4>1 DEF EndsAt
      <4>3. m \in 1 .. n - 1 /\ m \in Nat /\ i <= m
        BY <1>1, <4>1, <4>2
      <4>4. ASSUME NEW k \in places PROVE k \in i + 1 .. Len(items) - 1
        <5>1. CASE k = n
          BY <1>1, <3>1, <4>1, <5>1
        <5>2. CASE k # n
          <6>1. k \in a.batch /\ k > m /\ k \in 1 .. n
            BY <1>2, <4>2, <4>3, <5>2
          <6>. QED
            BY <1>1, <3>1, <4>3, <6>1
        <5>. QED
          BY <5>1, <5>2
      <4>5. ASSUME NEW c \in Controls, \A j \in i + 1 .. Len(items) - 1 : items[j].id # c PROVE g.dev[c] = x[c]
        BY <2>6, <4>4, <4>5
      <4>6. Arrived(x, items, i)
        BY <1>2, <2>9, <4>1
      <4>. QED
        BY <3>1, <4>5, <4>6, ArrivedStays, Zenon
    <3>. QED
      BY <3>3, <3>4
  <2> DEFINE q == [panel |-> g, batch |-> {}]
  <2>10. q.panel = g /\ q.batch = {} /\ q \in [panel : Panels, batch : SUBSET (1 .. n)]
    BY <2>5
  <2> HIDE DEF q
  <2>11. q \in Setting(p, items, n)
    BY <2>5, <2>7, <2>8, <2>9, <2>10 DEF Setting
  <2>. QED
    BY <2>1, <2>11 DEF q, r
<1>. QED
  BY <1>9, <1>10, <1>11 DEF r

(* Setting a list changes the device alone, and what is free of a class    *)
(* that another one follows arrives.                                       *)
LEMMA SetValues ==
  ASSUME Lawful, NEW p \in Panels, NEW items \in ItemLists, Len(items) > 0
  PROVE  /\ set_ctrl_values(p, items) \in Panels
         /\ set_ctrl_values(p, items).value = p.value
         /\ set_ctrl_values(p, items).flags = p.flags
         /\ set_ctrl_values(p, items).dev[Count] = p.dev[Count]
         /\ \A i \in 1 .. Len(items) :
              Free(p.dev, items, i) /\ Followed(items, i, "ro") => Arrived(set_ctrl_values(p, items).dev, items, i)
<1> DEFINE N == Len(items) - 1
           T == [n \in 0 .. N |-> Setting(p, items, n)]
<1>1. Len(items) \in Nat /\ N \in Nat /\ 0 \in 0 .. N /\ N \in 0 .. N
  BY ItemFacts
<1>2. NoBatch(p) \in Setting(p, items, 0)
  <2> DEFINE q == [panel |-> p, batch |-> {}]
  <2>1. q.panel = p /\ q.batch = {} /\ q \in [panel : Panels, batch : SUBSET (1 .. 0)] /\ 1 .. 0 = {}
    OBVIOUS
  <2> HIDE DEF q
  <2>2. q \in Setting(p, items, 0)
    BY <2>1 DEF Setting
  <2>. QED
    BY <2>2 DEF NoBatch, q
<1>3. \A n \in 1 .. N : \A a \in Setting(p, items, n - 1) : SetStep(a, items, n) \in Setting(p, items, n)
  BY SettingStep
<1>4. T[0] = Setting(p, items, 0) /\ T[N] = Setting(p, items, N)
      /\ \A n \in 1 .. N : T[n - 1] = Setting(p, items, n - 1) /\ T[n] = Setting(p, items, n)
  BY <1>1
<1> HIDE DEF T
<1>5. \E x \in T[Len(items) - 1] : set_ctrl_values(p, items) = x.panel
  <2>1. NoBatch(p) \in T[0] /\ \A n \in 1 .. N : \A a \in T[n - 1] : SetStep(a, items, n) \in T[n]
    BY <1>2, <1>3, <1>4
  <2>. QED
    BY <1>1, <2>1, SetValuesStays
<1>6. PICK x \in Setting(p, items, N) : set_ctrl_values(p, items) = x.panel
  BY <1>4, <1>5
<1>7. ASSUME NEW i \in 1 .. Len(items), Free(p.dev, items, i), Followed(items, i, "ro")
      PROVE  Arrived(x.panel.dev, items, i)
  <2>1. EndsAt(items, i, "ro", N)
    BY <1>7 DEF Followed, EndsAt, ClassAt
  <2>2. i \in 1 .. N
    BY <1>1, <2>1 DEF EndsAt
  <2>. QED
    BY <1>6, <1>7, <2>1, <2>2 DEF Setting
<1>8. x.panel.dev[Count] = p.dev[Count]
  <2>1. Count \in Nat /\ Count \in Controls /\ Controls = 1 .. Count
    BY CameraFacts
  <2>2. ASSUME NEW m \in 1 .. N PROVE items[m].id # Count
    <3>1. m \in 1 .. Len(items) /\ m + 1 \in 1 .. Len(items) /\ m < m + 1
      BY <1>1
    <3>2. items[m].id < items[m + 1].id /\ items[m + 1].id \in Controls /\ items[m].id \in Nat
      BY <3>1, ItemFacts
    <3>. QED
      BY <2>1, <3>2
  <2>. QED
    BY <1>6, <2>1, <2>2 DEF Setting
<1>. QED
  BY <1>6, <1>7, <1>8 DEF Setting

-----------------------------------------------------------------------------
(* Turning off the special automatic controls of a list leaves the panel   *)
(* true of the automatic ones, and those that nothing keeps from being set *)
(* are at 0.                                                               *)
AlwaysSet(id) == camera[id].special /\ camera[id].auto = 0 /\ "ro" \notin camera[id].flags

LEMMA AutosOffFacts ==
  ASSUME Lawful, NEW p \in Panels, NEW items \in ItemLists
  PROVE  /\ AutosOff(p, items) \in Panels
         /\ \A k \in Controls : ShowsAuto(p, k) => ShowsAuto(AutosOff(p, items), k)
         /\ \A k \in Controls : ShowsValue(p, k) => ShowsValue(AutosOff(p, items), k)
         /\ \A i \in 1 .. Len(items) : AlwaysSet(items[i].id) => AutosOff(p, items).dev[items[i].id] = 0
<1> DEFINE N == Len(items)
           S(n) == {x \in Panels :
                      /\ \A k \in Controls : ShowsAuto(p, k) => ShowsAuto(x, k)
                      /\ \A k \in Controls : ShowsValue(p, k) => ShowsValue(x, k)
                      /\ \A i \in 1 .. n : AlwaysSet(items[i].id) => x.dev[items[i].id] = 0}
           T == [n \in 0 .. N |-> S(n)]
<1>1. N \in Nat /\ 0 \in 0 .. N /\ N \in 0 .. N
  BY ItemFacts
<1> HIDE DEF S
<1>2. p \in S(0)
  BY DEF S
<1>3. ASSUME NEW n \in 1 .. N, NEW x \in S(n - 1) PROVE disable_special_auto(x, items[n].id) \in S(n)
  <2> DEFINE id == items[n].id  q == disable_special_auto(x, id)
  <2>1. /\ x \in Panels /\ \A k \in Controls : ShowsAuto(p, k) => ShowsAuto(x, k)
        /\ \A k \in Controls : ShowsValue(p, k) => ShowsValue(x, k)
        /\ \A i \in 1 .. n - 1 : AlwaysSet(items[i].id) => x.dev[items[i].id] = 0
    BY DEF S
  <2>2. id \in Controls
    BY ItemFacts
  <2> HIDE DEF id
  <2>3. /\ q \in Panels
        /\ \A k \in Controls \ {id} : q.dev[k] = x.dev[k]
        /\ AlwaysSet(id) => q.dev[id] = 0
        /\ \A k \in Controls : ShowsAuto(x, k) => ShowsAuto(q, k)
        /\ \A k \in Controls : ShowsValue(x, k) => ShowsValue(q, k)
    BY <2>1, <2>2, DisableSpecialAuto DEF AlwaysSet
  <2> HIDE DEF q
  <2>4. ASSUME NEW i \in 1 .. n, AlwaysSet(items[i].id) PROVE q.dev[items[i].id] = 0
    <3>1. CASE i = n
      BY <2>3, <2>4, <3>1 DEF id
    <3>2. CASE i # n
      <4>1. i \in 1 .. n - 1 /\ i \in 1 .. N /\ n \in 1 .. N
        BY <1>1, <3>2
      <4>2. items[i].id \in Controls /\ items[i].id # id
        BY <3>2, <4>1, ItemFacts DEF id
      <4>. QED
        BY <2>1, <2>3, <2>4, <4>1, <4>2
    <3>. QED
      BY <3>1, <3>2
  <2>. QED
    BY <2>1, <2>3, <2>4 DEF S, q, id
<1>4. T[0] = S(0) /\ T[N] = S(N) /\ \A n \in 1 .. N : T[n - 1] = S(n - 1) /\ T[n] = S(n)
  BY <1>1
<1> HIDE DEF T
<1>5. AutosOff(p, items) \in T[Len(items)]
  <2>1. ASSUME NEW n \in 1 .. N, NEW x \in T[n - 1] PROVE disable_special_auto(x, items[n].id) \in T[n]
    <3>1. x \in S(n - 1)
      BY <1>4
    <3>. QED
      BY <1>3, <1>4, <3>1
  <2>. QED
    BY <1>1, <1>2, <1>4, <2>1, AutosOffStays
<1>6. AutosOff(p, items) \in S(N)
  BY <1>4, <1>5
<1>. QED
  BY <1>6 DEF S

(***************************************************************************)
(* After n turns of the loop that takes the defaults over: as long as no   *)
(* control is read-only all of them have their default, a special          *)
(* automatic control that is not skipped is off, and only one that is      *)
(* read-only makes the loop skip.                                          *)
(***************************************************************************)
Defaulting(p, n) ==
  {a \in [panel : Panels, skip : BOOLEAN] :
     /\ \A k \in Controls : camera[k].auto = Count /\ ShowsAuto(p, k) => ShowsAuto(a.panel, k)
     /\ a.panel.value[Count] = p.value[Count] /\ a.panel.dev[Count] = p.dev[Count]
     /\ \A j \in 1 .. n : (\A i \in 1 .. j : "ro" \notin camera[i].flags) => a.panel.value[j] = camera[j].default
     /\ a.skip => n > 0 /\ "ro" \in camera[n].flags
     /\ \A j \in 1 .. n : AlwaysSet(j) /\ j > 1 /\ "ro" \notin camera[j - 1].flags => a.panel.dev[j] = 0}

LEMMA ToDefaultFacts ==
  ASSUME Lawful, NEW p \in Panels, NEW id \in Controls, id # Count
  PROVE  /\ ToDefault(p, id) \in Panels
         /\ ToDefault(p, id).value[id] = camera[id].default
         /\ \A k \in Controls \ {id} :
              ToDefault(p, id).value[k] = p.value[k] /\ ToDefault(p, id).dev[k] = p.dev[k]
         /\ AlwaysSet(id) => ToDefault(p, id).dev[id] = 0
         /\ \A k \in Controls : camera[k].auto = Count /\ ShowsAuto(p, k) => ShowsAuto(ToDefault(p, id), k)
<1> DEFINE d == disable_special_auto(p, id)
           v == [d.value EXCEPT ![id] = camera[id].default]
           q == ToDefault(p, id)
<1>1. /\ d \in Panels
      /\ \A k \in Controls \ {id} : d.dev[k] = p.dev[k] /\ d.value[k] = p.value[k]
      /\ AlwaysSet(id) => d.dev[id] = 0
      /\ \A k \in Controls : ShowsAuto(p, k) => ShowsAuto(d, k)
  BY DisableSpecialAuto DEF AlwaysSet
<1>2. q = [d EXCEPT !.value[id] = camera[id].default]
  BY Zenon DEF ToDefault
<1> HIDE DEF d, q
<1>3. d.dev \in Settings /\ d.value \in Settings /\ d.flags \in FlagSets
  BY <1>1 DEF Panels
<1>4. v \in Settings /\ \A k \in Controls : v[k] = IF k = id THEN camera[id].default ELSE d.value[k]
  BY <1>3, CameraFacts DEF Settings
<1>5. q = [dev |-> d.dev, value |-> v, flags |-> d.flags]
  BY <1>1, <1>2 DEF Panels
<1> HIDE DEF v
<1>6. q \in Panels /\ q.dev = d.dev /\ q.value = v /\ q.flags = d.flags
  BY <1>3, <1>4, <1>5 DEF Panels
<1>7. ASSUME NEW k \in Controls, camera[k].auto = Count, ShowsAuto(p, k) PROVE ShowsAuto(q, k)
  <2>1. Count \in Controls /\ Count \in Nat /\ Count >= 1
    BY CameraFacts
  <2>2. v[Count] = d.value[Count]
    BY <1>4, <2>1
  <2>. QED
    BY <1>1, <1>6, <1>7, <2>2 DEF ShowsAuto
<1>. QED
  BY <1>1, <1>4, <1>6, <1>7 DEF q

LEMMA DefaultingStep ==
  ASSUME Lawful, NEW p \in Panels, NEW n \in 1 .. Count - 1, NEW a \in Defaulting(p, n - 1)
  PROVE  DefaultStep(a, n) \in Defaulting(p, n)
<1> DEFINE r == DefaultStep(a, n)
           g == ToDefault(a.panel, n)
           Clear(j) == \A i \in 1 .. j : "ro" \notin camera[i].flags
           ro == "ro" \in a.panel.flags[n]
<1>1. Count \in Nat /\ Controls = 1 .. Count /\ n \in Controls /\ n # Count /\ n \in Nat /\ n > 0
      /\ Count \in Controls
  BY CameraFacts
<1>2. /\ a.panel \in Panels /\ a.skip \in BOOLEAN /\ a = [panel |-> a.panel, skip |-> a.skip]
      /\ \A k \in Controls : camera[k].auto = Count /\ ShowsAuto(p, k) => ShowsAuto(a.panel, k)
      /\ a.panel.value[Count] = p.value[Count] /\ a.panel.dev[Count] = p.dev[Count]
      /\ \A j \in 1 .. n - 1 : Clear(j) => a.panel.value[j] = camera[j].default
      /\ a.skip => n - 1 > 0 /\ "ro" \in camera[n - 1].flags
      /\ \A j \in 1 .. n - 1 : AlwaysSet(j) /\ j > 1 /\ "ro" \notin camera[j - 1].flags => a.panel.dev[j] = 0
  BY DEF Defaulting
<1>3. ro => "ro" \in camera[n].flags
  <2>1. a.panel.flags \in FlagSets
    BY <1>2 DEF Panels
  <2>. QED
    BY <1>1, <2>1 DEF FlagSets, Busy
<1>4. /\ a.skip => r = [a EXCEPT !.skip = FALSE]
      /\ ~a.skip /\ ro => r = [a EXCEPT !.skip = TRUE]
      /\ ~a.skip /\ ~ro => r = [a EXCEPT !.panel = g]
  BY Zenon DEF DefaultStep
<1>5. Clear(n) => "ro" \notin camera[n].flags /\ (n - 1 > 0 => "ro" \notin camera[n - 1].flags)
  BY <1>1
<1>6. \A j \in 1 .. n : j \in 1 .. n - 1 \/ j = n
  BY <1>1
<1> HIDE DEF r, g, ro
<1>7. CASE a.skip
  <2> DEFINE q == [panel |-> a.panel, skip |-> FALSE]
  <2>1. r = q /\ q.panel = a.panel /\ ~q.skip /\ q \in [panel : Panels, skip : BOOLEAN]
    BY <1>2, <1>4, <1>7
  <2> HIDE DEF q
  <2>2. "ro" \in camera[n - 1].flags /\ ~Clear(n)
    BY <1>2, <1>5, <1>7
  <2>3. ASSUME NEW j \in 1 .. n, Clear(j) PROVE a.panel.value[j] = camera[j].default
    BY <1>2, <1>6, <2>2, <2>3
  <2>4. ASSUME NEW j \in 1 .. n, AlwaysSet(j), j > 1, "ro" \notin camera[j - 1].flags PROVE a.panel.dev[j] = 0
    BY <1>2, <1>6, <2>2, <2>4
  <2>5. q \in Defaulting(p, n)
    BY <1>2, <2>1, <2>3, <2>4 DEF Defaulting
  <2>. QED
    BY <2>1, <2>5 DEF r
<1>8. CASE ~a.skip /\ ro
  <2> DEFINE q == [panel |-> a.panel, skip |-> TRUE]
  <2>1. r = q /\ q.panel = a.panel /\ q.skip /\ q \in [panel : Panels, skip : BOOLEAN]
    BY <1>2, <1>4, <1>8
  <2> HIDE DEF q
  <2>2. "ro" \in camera[n].flags /\ ~Clear(n) /\ ~AlwaysSet(n)
    BY <1>3, <1>5, <1>8 DEF AlwaysSet
  <2>3. ASSUME NEW j \in 1 .. n, Clear(j) PROVE a.panel.value[j] = camera[j].default
    BY <1>2, <1>6, <2>2, <2>3
  <2>4. ASSUME NEW j \in 1 .. n, AlwaysSet(j), j > 1, "ro" \notin camera[j - 1].flags PROVE a.panel.dev[j] = 0
    BY <1>2, <1>6, <2>2, <2>4
  <2>5. q \in Defaulting(p, n)
    BY <1>1, <1>2, <2>1, <2>2, <2>3, <2>4 DEF Defaulting
  <2>. QED
    BY <2>1, <2>5 DEF r
<1>9. CASE ~a.skip /\ ~ro
  <2> DEFINE q == [panel |-> g, skip |-> FALSE]
  <2>1. /\ g \in Panels /\ g.value[n] = camera[n].default
        /\ \A k \in Controls \ {n} : g.value[k] = a.panel.value[k] /\ g.dev[k] = a.panel.dev[k]
        /\ AlwaysSet(n) => g.dev[n] = 0
        /\ \A k \in Controls : camera[k].auto = Count /\ ShowsAuto(a.panel, k) => ShowsAuto(g, k)
    BY <1>1, <1>2, ToDefaultFacts DEF g
  <2>2. r = q /\ q.panel = g /\ ~q.skip /\ q \in [panel : Panels, skip : BOOLEAN]
    BY <1>2, <1>4, <1>9, <2>1
  <2> HIDE DEF q
  <2>3. \A j \in 1 .. n - 1 : j \in Controls \ {n}
    BY <1>1
  <2>4. ASSUME NEW j \in 1 .. n, Clear(j) PROVE g.value[j] = camera[j].default
    BY <1>2, <1>6, <2>1, <2>3, <2>4
  <2>5. ASSUME NEW j \in 1 .. n, AlwaysSet(j), j > 1, "ro" \notin camera[j - 1].flags PROVE g.dev[j] = 0
    BY <1>2, <1>6, <2>1, <2>3, <2>5
  <2>6. q \in Defaulting(p, n)
    BY <1>1, <1>2, <2>1, <2>2, <2>4, <2>5 DEF Defaulting
  <2>. QED
    BY <2>2, <2>6 DEF r
<1>. QED
  BY <1>2, <1>7, <1>8, <1>9 DEF r

LEMMA ToDefaultsFacts ==
  ASSUME Lawful, NEW p \in Panels
  PROVE  ToDefaults(p) \in Defaulting(p, Count - 1)
<1> DEFINE N == Count - 1
           a == [panel |-> p, skip |-> FALSE]
           T == [n \in 0 .. N |-> Defaulting(p, n)]
<1>1. N \in Nat /\ 0 \in 0 .. N /\ N \in 0 .. N
  BY CameraFacts
<1>2. a.panel = p /\ ~a.skip /\ a \in [panel : Panels, skip : BOOLEAN]
  OBVIOUS
<1> HIDE DEF a
<1>3. a \in Defaulting(p, 0)
  BY <1>2 DEF Defaulting
<1>4. \A n \in 1 .. N : \A x \in Defaulting(p, n - 1) : DefaultStep(x, n) \in Defaulting(p, n)
  BY DefaultingStep
<1>5. T[0] = Defaulting(p, 0) /\ T[N] = Defaulting(p, N)
      /\ \A n \in 1 .. N : T[n - 1] = Defaulting(p, n - 1) /\ T[n] = Defaulting(p, n)
  BY <1>1
<1> HIDE DEF T
<1>6. ToDefaults(p) \in T[Count - 1]
  <2>1. [panel |-> p, skip |-> FALSE] \in T[0]
    BY <1>3, <1>5 DEF a
  <2>2. \A n \in 1 .. N : \A x \in T[n - 1] : DefaultStep(x, n) \in T[n]
    BY <1>4, <1>5
  <2>. QED
    BY <1>1, <2>1, <2>2, ToDefaultsStays
<1>. QED
  BY <1>5, <1>6

(* A profile has its settings in the order of the controls.                *)
LEMMA SavedFacts ==
  ASSUME Lawful, NEW p \in Panels
  PROVE  Saved(p) \in ItemLists
<1> DEFINE N == Count
           S(n) == {s \in ItemLists : \A i \in 1 .. Len(s) : s[i].id <= n}
           T == [n \in 0 .. N |-> S(n)]
<1>1. N \in Nat /\ 0 \in 0 .. N /\ N \in 0 .. N /\ Controls = 1 .. N
  BY CameraFacts
<1> HIDE DEF S
<1>2. <<>> \in S(0)
  BY DEF S, ItemLists
<1>3. ASSUME NEW n \in 1 .. N, NEW s \in S(n - 1)
      PROVE  (IF p.flags[n] = {} THEN Append(s, Listed(p)[n]) ELSE s) \in S(n)
  <2> DEFINE e == Listed(p)[n]  t == Append(s, e)
  <2>1. n \in Controls /\ n \in Nat
    BY <1>1
  <2>2. e = [id |-> n, value |-> p.value[n]]
    BY <2>1 DEF Listed
  <2>3. p.value \in Settings
    BY DEF Panels
  <2>4. e \in Item /\ e.id = n
    BY <2>1, <2>2, <2>3 DEF Item, Settings
  <2>5. s \in ItemLists /\ \A i \in 1 .. Len(s) : s[i].id <= n - 1
    BY DEF S
  <2>6. /\ s \in Seq(Item) /\ Len(s) \in Nat
        /\ \A i, j \in 1 .. Len(s) : i < j => s[i].id < s[j].id
        /\ \A i \in 1 .. Len(s) : s[i].id \in Nat
    BY <2>5, ItemFacts DEF ItemLists
  <2> HIDE DEF e
  <2>7. /\ t \in Seq(Item) /\ Len(t) = Len(s) + 1 /\ t[Len(s) + 1] = e
        /\ \A i \in 1 .. Len(s) : t[i] = s[i]
    BY <2>4, <2>6
  <2> HIDE DEF t
  <2>8. \A i \in 1 .. Len(s) : s[i].id <= n /\ s[i].id < n
    BY <2>1, <2>5, <2>6
  <2>9. \A i \in 1 .. Len(t) : i \in 1 .. Len(s) \/ i = Len(s) + 1
    BY <2>6, <2>7
  <2>10. ASSUME NEW i \in 1 .. Len(t), NEW j \in 1 .. Len(t), i < j PROVE t[i].id < t[j].id
    <3>1. i \in 1 .. Len(s)
      BY <2>6, <2>7, <2>10
    <3>2. CASE j \in 1 .. Len(s)
      BY <2>6, <2>7, <2>10, <3>1, <3>2
    <3>3. CASE j = Len(s) + 1
      BY <2>4, <2>7, <2>8, <3>1, <3>3
    <3>. QED
      BY <2>9, <3>2, <3>3
  <2>11. \A i \in 1 .. Len(t) : t[i].id <= n
    BY <2>1, <2>4, <2>7, <2>8, <2>9
  <2>12. t \in S(n)
    BY <2>7, <2>10, <2>11 DEF S, ItemLists
  <2>13. s \in S(n)
    BY <2>5, <2>8 DEF S
  <2>. QED
    BY <2>12, <2>13 DEF t, e
<1>4. T[0] = S(0) /\ T[N] = S(N) /\ \A n \in 1 .. N : T[n - 1] = S(n - 1) /\ T[n] = S(n)
  BY <1>1
<1> HIDE DEF T
<1>5. Saved(p) \in T[Count]
  <2>1. Count \in Nat /\ <<>> \in T[0]
    BY <1>1, <1>2, <1>4
  <2>2. ASSUME NEW n \in 1 .. Count, NEW s \in T[n - 1]
        PROVE  (IF p.flags[n] = {} THEN Append(s, Listed(p)[n]) ELSE s) \in T[n]
    <3>1. s \in S(n - 1)
      BY <1>4
    <3>2. (IF p.flags[n] = {} THEN Append(s, Listed(p)[n]) ELSE s) \in S(n)
      BY <1>3, <3>1, Zenon
    <3>. QED
      BY <1>4, <3>2, Zenon
  <2>. QED
    BY <2>1, <2>2, SavedStays, Zenon
<1>6. Saved(p) \in S(N)
  BY <1>4, <1>5
<1>. QED
  BY <1>6 DEF S

-----------------------------------------------------------------------------
(* Defaults and Load.                                                      *)
IsRead(k) == k = Count \/ Ends(k, "wo", Count - 1)
Grabs(p, k) == Busy \in p.flags[k] <=> p.dev[camera[k].auto] \in camera[k].busy

(* The panel is true, but of what the user moved.                          *)
ShowsAll(p, gone) ==
  /\ \A k \in Controls : camera[k].auto \notin gone => ShowsAuto(p, k)
  /\ \A k \in Controls : IsRead(k) /\ k \notin gone => ShowsValue(p, k)
  /\ \A k \in Controls : camera[k].auto # 0 /\ Ends(camera[k].auto, "wo", Count - 1) => Grabs(p, k)

(* What reading makes true, and that it leaves the last control alone.     *)
Refreshed(p, q) ==
  /\ \A k \in Controls : camera[k].auto # Count \/ ShowsAuto(p, k) => ShowsAuto(q, k)
  /\ \A k \in Controls : Ends(k, "wo", Count - 1) => ShowsValue(q, k)
  /\ ShowsValue(p, Count) => ShowsValue(q, Count)
AllArrived(dev, list) ==
  \A j \in 1 .. Len(list) :
    Followed(list, j, "ro") /\ NoneReadOnly(list, j) =>
      dev[list[j].id] = list[j].value \/ Refuses(dev, list[j].id)

LEMMA ListedFacts ==
  ASSUME Lawful, NEW p \in Panels
  PROVE  /\ Listed(p) \in ItemLists /\ Len(Listed(p)) = Count
         /\ \A k \in Controls : Listed(p)[k].id = k /\ Listed(p)[k].value = p.value[k]
<1> DEFINE s == Listed(p)
<1>1. Count \in Nat /\ Controls = 1 .. Count
  BY CameraFacts
<1>2. p.value \in Settings
  BY DEF Panels
<1>3. ASSUME NEW k \in Controls PROVE s[k] \in Item /\ s[k].id = k /\ s[k].value = p.value[k]
  <2>1. s[k] = [id |-> k, value |-> p.value[k]]
    BY DEF Listed
  <2>. QED
    BY <1>2, <2>1 DEF Item, Settings
<1>4. s = [k \in 1 .. Count |-> s[k]]
  BY <1>1 DEF Listed
<1> HIDE DEF s
<1>5. s \in Seq(Item) /\ Len(s) = Count
  BY <1>1, <1>3, <1>4
<1>6. \A i, j \in 1 .. Len(s) : i < j => s[i].id < s[j].id
  BY <1>1, <1>3, <1>5
<1>. QED
  BY <1>3, <1>5, <1>6 DEF s, ItemLists

LEMMA JunkFacts == ASSUME Lawful, NEW junk \in Junk PROVE junk \in Settings
<1>1. PICK j \in Values : junk = [k \in Controls |-> j] /\ \A k \in Controls : j <= camera[k].max
  BY DEF Junk
<1>2. j \in Nat
  BY ControlsAssumption
<1>. QED
  BY <1>1, <1>2 DEF Settings

LEMMA SettingsOfArrived ==
  ASSUME NEW x, NEW items, NEW i, Arrived(x, items, i)
  PROVE  x[items[i].id] = items[i].value \/ Refuses(x, items[i].id)
  BY DEF Arrived

LEMMA GrabsWhatIsShown ==
  ASSUME Lawful, NEW p \in Panels, NEW k \in Controls, camera[k].auto # 0,
         ShowsAuto(p, k), ShowsValue(p, camera[k].auto)
  PROVE  Grabs(p, k)
  BY AutoFacts DEF Grabs, ShowsAuto, ShowsValue, Readable

LEMMA RefreshedShowsAll ==
  ASSUME Lawful, NEW p \in Panels, NEW q \in Panels, NEW gone, ShowsAll(p, gone), Refreshed(p, q)
  PROVE  ShowsAll(q, gone \cap {Count})
<1>1. Count \in Nat /\ Count \in Controls /\ Controls = 1 .. Count
  BY CameraFacts
<1>2. ASSUME NEW k \in Controls, camera[k].auto \notin gone \cap {Count} PROVE ShowsAuto(q, k)
  BY <1>2 DEF ShowsAll, Refreshed
<1>3. ASSUME NEW k \in Controls, IsRead(k), k \notin gone \cap {Count} PROVE ShowsValue(q, k)
  <2>1. CASE k = Count
    <3>1. ShowsValue(p, Count)
      BY <1>1, <1>3, <2>1 DEF ShowsAll, IsRead
    <3>. QED
      BY <2>1, <3>1 DEF Refreshed
  <2>2. CASE k # Count
    BY <1>3, <2>2 DEF IsRead, Refreshed
  <2>. QED
    BY <2>1, <2>2
<1>4. ASSUME NEW k \in Controls, camera[k].auto # 0, Ends(camera[k].auto, "wo", Count - 1) PROVE Grabs(q, k)
  <2>1. camera[k].auto \in Controls
    BY <1>4, CameraFacts
  <2>2. camera[k].auto # Count
    BY <1>1, <1>4 DEF Ends
  <2>3. ShowsAuto(q, k) /\ ShowsValue(q, camera[k].auto)
    BY <1>4, <2>1, <2>2 DEF Refreshed
  <2>. QED
    BY <1>4, <2>3, GrabsWhatIsShown
<1>. QED
  BY <1>2, <1>3, <1>4 DEF ShowsAll

LEMMA LoadProfileFacts ==
  ASSUME Lawful, NEW p \in Panels, NEW junk \in Settings,
         profile \in ItemLists, profile # <<>>
  PROVE  /\ LoadProfile(p, junk) \in Panels /\ Refreshed(p, LoadProfile(p, junk))
         /\ AllArrived(LoadProfile(p, junk).dev, profile)
<1> DEFINE d == AutosOff(p, profile)
           s == set_ctrl_values(d, profile)
           q == LoadProfile(p, junk)
<1>1. /\ d \in Panels /\ \A k \in Controls : ShowsAuto(p, k) => ShowsAuto(d, k)
      /\ \A k \in Controls : ShowsValue(p, k) => ShowsValue(d, k)
      /\ \A i \in 1 .. Len(profile) : AlwaysSet(profile[i].id) => d.dev[profile[i].id] = 0
  BY AutosOffFacts
<1>2. Len(profile) > 0 /\ Len(profile) \in Nat
  BY DEF ItemLists
<1> HIDE DEF d
<1>3. /\ s \in Panels /\ s.value = d.value /\ s.flags = d.flags /\ s.dev[Count] = d.dev[Count]
      /\ \A i \in 1 .. Len(profile) :
           Free(d.dev, profile, i) /\ Followed(profile, i, "ro") => Arrived(s.dev, profile, i)
  BY <1>1, <1>2, SetValues
<1>4. q = get_ctrl_values(s, junk)
  BY Zenon DEF LoadProfile, d
<1> HIDE DEF s, q
<1>5. \A k \in Controls : ShowsAuto(p, k) => ShowsAuto(s, k)
  BY <1>1, <1>3 DEF ShowsAuto
<1>6. /\ q \in Panels /\ q.dev = s.dev /\ q.value[Count] = s.value[Count]
      /\ \A k \in Controls : camera[k].auto # Count \/ ShowsAuto(s, k) => ShowsAuto(q, k)
      /\ \A k \in Controls : Readable(k) /\ Ends(k, "wo", Count - 1) => q.value[k] = s.dev[k]
  BY <1>3, <1>4, GetValues
<1>7. ASSUME NEW i \in 1 .. Len(profile), NoneReadOnly(profile, i) PROVE Free(d.dev, profile, i)
  <2> DEFINE id == profile[i].id  auto == camera[id].auto
  <2>1. id \in Controls /\ id \in Nat /\ i \in Nat
    BY <1>2, ItemFacts
  <2>2. "ro" \notin camera[id].flags
    BY <1>7, <1>2 DEF NoneReadOnly
  <2>3. ASSUME NEW m \in i + 1 .. Len(profile) - 1, profile[m].id = auto PROVE d.dev[auto] \notin camera[id].busy
    <3>1. m \in 1 .. Len(profile) /\ i < m
      BY <1>2, <2>1
    <3>2. auto \in Controls /\ auto > id
      BY <2>1, <2>3, <3>1, ItemFacts
    <3>3. AlwaysSet(auto) /\ 0 \notin camera[id].busy
      <4>1. auto # 0
        BY <3>2, CameraFacts
      <4>. QED
        BY <2>1, <3>2, <4>1, AutoFacts DEF AlwaysSet
    <3>4. d.dev[auto] = 0
      BY <1>1, <2>3, <3>1, <3>3
    <3>. QED
      BY <3>3, <3>4
  <2>. QED
    BY <2>2, <2>3 DEF Free
<1>8. ASSUME NEW i \in 1 .. Len(profile), Followed(profile, i, "ro"), NoneReadOnly(profile, i)
      PROVE  q.dev[profile[i].id] = profile[i].value \/ Refuses(q.dev, profile[i].id)
  BY <1>3, <1>6, <1>7, <1>8, SettingsOfArrived
<1>9. Refreshed(p, q)
  <2>1. Count \in Controls
    BY CameraFacts
  <2>2. ShowsValue(p, Count) => ShowsValue(q, Count)
    BY <1>1, <1>3, <1>6, <2>1 DEF ShowsValue
  <2>. QED
    BY <1>5, <1>6, <2>2 DEF Refreshed, ShowsValue
<1>10. AllArrived(q.dev, profile)
  BY <1>8 DEF AllArrived
<1>. QED
  BY <1>6, <1>9, <1>10 DEF q

LEMMA SetDefaultsFacts ==
  ASSUME Lawful, NEW p \in Panels, NEW junk \in Settings
  PROVE  /\ set_default_values(p, junk) \in Panels /\ Refreshed(p, set_default_values(p, junk))
         /\ AllArrived(set_default_values(p, junk).dev, AllDefaults)
<1> DEFINE d == ToDefaults(p).panel
           items == Listed(d)
           s == set_ctrl_values(d, items)
           q == set_default_values(p, junk)
<1>1. Count \in Nat /\ Count >= 1 /\ Controls = 1 .. Count
  BY CameraFacts
<1>2. /\ d \in Panels
      /\ \A k \in Controls : camera[k].auto = Count /\ ShowsAuto(p, k) => ShowsAuto(d, k)
      /\ d.value[Count] = p.value[Count] /\ d.dev[Count] = p.dev[Count]
      /\ \A j \in 1 .. Count - 1 :
           (\A i \in 1 .. j : "ro" \notin camera[i].flags) => d.value[j] = camera[j].default
      /\ \A j \in 1 .. Count - 1 : AlwaysSet(j) /\ j > 1 /\ "ro" \notin camera[j - 1].flags => d.dev[j] = 0
  <2>1. ToDefaults(p) \in Defaulting(p, Count - 1)
    BY ToDefaultsFacts
  <2>. QED
    BY <2>1 DEF Defaulting
<1>3. q = get_ctrl_values(s, junk)
  BY Zenon DEF set_default_values
<1> HIDE DEF d
<1>4. /\ items \in ItemLists /\ Len(items) = Count
      /\ \A k \in Controls : items[k].id = k /\ items[k].value = d.value[k]
  BY <1>2, ListedFacts
<1> HIDE DEF items
<1>5. /\ s \in Panels /\ s.value = d.value /\ s.flags = d.flags /\ s.dev[Count] = d.dev[Count]
      /\ \A i \in 1 .. Count :
           Free(d.dev, items, i) /\ Followed(items, i, "ro") => Arrived(s.dev, items, i)
  <2>1. Len(items) > 0
    BY <1>1, <1>4
  <2>2. /\ s \in Panels /\ s.value = d.value /\ s.flags = d.flags /\ s.dev[Count] = d.dev[Count]
        /\ \A i \in 1 .. Len(items) :
             Free(d.dev, items, i) /\ Followed(items, i, "ro") => Arrived(s.dev, items, i)
    BY <1>2, <1>4, <2>1, SetValues
  <2>. QED
    BY <1>4, <2>2
<1> HIDE DEF s, q
<1>6. \A k \in Controls : camera[k].auto = Count /\ ShowsAuto(p, k) => ShowsAuto(s, k)
  BY <1>2, <1>5 DEF ShowsAuto
<1>7. /\ q \in Panels /\ q.dev = s.dev /\ q.value[Count] = s.value[Count]
      /\ \A k \in Controls : camera[k].auto # Count \/ ShowsAuto(s, k) => ShowsAuto(q, k)
      /\ \A k \in Controls : Readable(k) /\ Ends(k, "wo", Count - 1) => q.value[k] = s.dev[k]
  BY <1>3, <1>5, GetValues
<1>8. /\ Len(AllDefaults) = Count
      /\ \A k \in Controls : AllDefaults[k].id = k /\ AllDefaults[k].value = camera[k].default
  <2>1. AllDefaults = [k \in 1 .. Count |-> [id |-> k, value |-> camera[k].default]]
    BY <1>1 DEF AllDefaults
  <2>2. Len(AllDefaults) = Count
    BY <1>1, <2>1
  <2>3. \A k \in 1 .. Count : AllDefaults[k] = [id |-> k, value |-> camera[k].default]
    BY <2>1
  <2>. QED
    BY <1>1, <2>2, <2>3
<1>9. ASSUME NEW j \in 1 .. Count, Followed(AllDefaults, j, "ro"), NoneReadOnly(AllDefaults, j)
      PROVE  q.dev[j] = camera[j].default \/ Refuses(q.dev, j)
  <2>1. PICK m \in j .. Count - 1 :
          /\ camera[AllDefaults[m].id].class = camera[AllDefaults[j].id].class
          /\ camera[AllDefaults[m + 1].id].class # camera[AllDefaults[m].id].class
          /\ "ro" \notin camera[AllDefaults[m].id].flags
    BY <1>8, <1>9 DEF Followed
  <2>2. j \in 1 .. Count - 1 /\ j \in Nat /\ m \in Controls /\ m + 1 \in Controls /\ j \in Controls
    BY <1>1, <2>1
  <2>3. Followed(items, j, "ro")
    BY <1>4, <1>8, <2>1, <2>2 DEF Followed
  <2>4. \A i \in 1 .. j : "ro" \notin camera[i].flags
    <3>1. \A i \in 1 .. j : i \in Controls
      BY <1>1, <2>2
    <3>. QED
      BY <1>8, <1>9, <3>1 DEF NoneReadOnly
  <2>5. d.value[j] = camera[j].default
    BY <1>2, <2>2, <2>4
  <2>6. ASSUME NEW i \in j + 1 .. Count - 1, i = camera[j].auto PROVE d.dev[i] \notin camera[j].busy
    <3>1. i \in Nat /\ i # 0 /\ i > j /\ i > 1 /\ i \in 1 .. Count - 1
      BY <1>1, <2>2
    <3>2. AlwaysSet(i) /\ 0 \notin camera[j].busy /\ "ro" \notin camera[i - 1].flags
      BY <2>2, <2>6, <3>1, AutoFacts DEF AlwaysSet
    <3>3. d.dev[i] = 0
      BY <1>2, <3>1, <3>2
    <3>. QED
      BY <3>2, <3>3
  <2>7. Free(d.dev, items, j)
    <3>1. items[j].id = j /\ "ro" \notin camera[j].flags
      BY <1>4, <2>2, <2>4
    <3>2. \A i \in j + 1 .. Count - 1 : items[i].id = i
      BY <1>1, <1>4, <2>2
    <3>. QED
      BY <1>4, <2>6, <3>1, <3>2 DEF Free
  <2>8. Arrived(s.dev, items, j)
    BY <1>5, <2>3, <2>7
  <2>9. s.dev[items[j].id] = items[j].value \/ Refuses(s.dev, items[j].id)
    BY <2>8, SettingsOfArrived
  <2>. QED
    BY <1>4, <1>7, <2>2, <2>5, <2>9
<1>10. AllArrived(q.dev, AllDefaults)
  BY <1>1, <1>8, <1>9 DEF AllArrived
<1>11. Refreshed(p, q)
  <2>1. ShowsValue(p, Count) => ShowsValue(q, Count)
    BY <1>2, <1>5, <1>7 DEF ShowsValue
  <2>. QED
    BY <1>6, <1>7, <2>1 DEF Refreshed, ShowsValue
<1>. QED
  BY <1>7, <1>10, <1>11 DEF q

(* Every control is read when its widget is made.                          *)
LEMMA WidgetsFacts ==
  ASSUME Lawful, NEW dev \in Settings
  PROVE  create_control_widgets(dev) \in Panels /\ ShowsAll(create_control_widgets(dev), {})
<1> DEFINE N == Count
           S(n) == {x \in Panels :
                      /\ \A k \in Controls : camera[k].auto <= n => ShowsAuto(x, k)
                      /\ \A k \in Controls : k <= n => ShowsValue(x, k)}
           T == [n \in 0 .. N |-> S(n)]
           u == Unread(dev)
<1>1. N \in Nat /\ 0 \in 0 .. N /\ N \in 0 .. N /\ Controls = 1 .. N
  BY CameraFacts
<1> HIDE DEF S
<1>2. u \in S(0)
  <2>1. [k \in Controls |-> 0] \in Settings
    BY CameraFacts DEF Settings
  <2>2. [k \in Controls |-> camera[k].flags] \in FlagSets
    BY CameraFacts DEF FlagSets
  <2>3. u \in Panels
    BY <2>1, <2>2 DEF Unread, Panels
  <2>4. ASSUME NEW k \in Controls, camera[k].auto <= 0 PROVE ShowsAuto(u, k)
    BY <2>4, CameraFacts DEF ShowsAuto
  <2>5. \A k \in Controls : ~(k <= 0)
    BY <1>1
  <2>. QED
    BY <2>3, <2>4, <2>5 DEF S
<1>3. ASSUME NEW n \in 1 .. N, NEW x \in S(n - 1) PROVE get_ctrl(x, n) \in S(n)
  <2> DEFINE q == get_ctrl(x, n)
  <2>1. /\ x \in Panels
        /\ \A k \in Controls : camera[k].auto <= n - 1 => ShowsAuto(x, k)
        /\ \A k \in Controls : k <= n - 1 => ShowsValue(x, k)
    BY DEF S
  <2>2. n \in Controls /\ n \in Nat
    BY <1>1
  <2>3. /\ q \in Panels
        /\ \A k \in Controls : (camera[k].auto = n \/ ShowsAuto(x, k)) => ShowsAuto(q, k)
        /\ \A k \in Controls : (k = n \/ ShowsValue(x, k)) => ShowsValue(q, k)
    BY <2>1, <2>2, GetCtrl
  <2> HIDE DEF q
  <2>4. \A k \in Controls : /\ camera[k].auto <= n => camera[k].auto = n \/ camera[k].auto <= n - 1
                            /\ k <= n => k = n \/ k <= n - 1
    <3>1. \A k \in Controls : camera[k].auto \in Nat /\ k \in Nat
      BY <1>1, CameraFacts
    <3>. QED
      BY <2>2, <3>1
  <2>. QED
    BY <2>1, <2>3, <2>4 DEF S, q
<1>4. T[0] = S(0) /\ T[N] = S(N) /\ \A n \in 1 .. N : T[n - 1] = S(n - 1) /\ T[n] = S(n)
  BY <1>1
<1> HIDE DEF T
<1>5. create_control_widgets(dev) \in T[Count]
  <2>1. ASSUME NEW n \in 1 .. N, NEW x \in T[n - 1] PROVE get_ctrl(x, n) \in T[n]
    <3>1. x \in S(n - 1)
      BY <1>4
    <3>. QED
      BY <1>3, <1>4, <3>1
  <2>. QED
    BY <1>1, <1>2, <1>4, <2>1, WidgetsStays
<1> DEFINE q == create_control_widgets(dev)
<1>6. q \in S(N)
  BY <1>4, <1>5
<1> HIDE DEF q
<1>7. ASSUME NEW k \in Controls PROVE ShowsAuto(q, k) /\ ShowsValue(q, k)
  <2>1. camera[k].auto \in Nat /\ (camera[k].auto # 0 => camera[k].auto \in 1 .. N) /\ k <= N
    BY <1>1, CameraFacts
  <2>2. camera[k].auto <= N
    BY <1>1, <2>1
  <2>. QED
    BY <1>6, <2>1, <2>2 DEF S
<1>8. q \in Panels
  BY <1>6 DEF S
<1>9. ASSUME NEW k \in Controls, camera[k].auto # 0 PROVE Grabs(q, k)
  <2>1. camera[k].auto \in Controls
    BY <1>9, CameraFacts
  <2>2. ShowsAuto(q, k) /\ ShowsValue(q, camera[k].auto)
    BY <1>7, <2>1
  <2>. QED
    BY <1>8, <1>9, <2>2, GrabsWhatIsShown
<1>. QED
  BY <1>7, <1>8, <1>9 DEF ShowsAll, q

(* A control that the user sets is read back, and so are those it takes    *)
(* care of.  A read-only one keeps what the user made of it: it is moved,  *)
(* and nothing else changes.                                               *)
LEMMA UserSetsFacts ==
  ASSUME Lawful, NEW p \in Panels, NEW gone, ShowsAll(p, gone), NEW id \in Controls,
         NEW v \in 0 .. camera[id].max
  PROVE  LET q == set_ctrl([p EXCEPT !.value[id] = v], id)
         IN q \in Panels /\ ShowsAll(q, IF "ro" \in p.flags[id] THEN gone \cup {id} ELSE gone \ {id})
<1> DEFINE w == [p.value EXCEPT ![id] = v]
           r == [p EXCEPT !.value[id] = v]
           q == set_ctrl(r, id)
<1>1. p.dev \in Settings /\ p.value \in Settings /\ p.flags \in FlagSets
  BY DEF Panels
<1>2. v \in Nat /\ v <= camera[id].max
  BY CameraFacts
<1>3. w \in Settings /\ \A k \in Controls : w[k] = IF k = id THEN v ELSE p.value[k]
  BY <1>1, <1>2 DEF Settings
<1>4. r = [dev |-> p.dev, value |-> w, flags |-> p.flags]
  BY DEF Panels
<1> HIDE DEF w, r
<1>5. r \in Panels /\ r.dev = p.dev /\ r.value = w /\ r.flags = p.flags
  BY <1>1, <1>3, <1>4 DEF Panels
<1>6. ASSUME NEW k \in Controls, camera[k].auto # id, ShowsAuto(p, k) PROVE ShowsAuto(r, k)
  <2>1. camera[k].auto # 0 => camera[k].auto \in Controls
    BY CameraFacts
  <2>. QED
    BY <1>3, <1>5, <1>6, <2>1 DEF ShowsAuto
<1>7. ASSUME NEW k \in Controls, k # id, ShowsValue(p, k) PROVE ShowsValue(r, k)
  BY <1>3, <1>5, <1>7 DEF ShowsValue
<1>8. ASSUME NEW k \in Controls, Grabs(p, k) PROVE Grabs(r, k)
  BY <1>5, <1>8 DEF Grabs
<1>9. CASE "ro" \in p.flags[id]
  <2>1. q = r
    BY <1>5, <1>9, SetCtrl
  <2> HIDE DEF q
  <2>2. ShowsAll(r, gone \cup {id})
    BY <1>6, <1>7, <1>8 DEF ShowsAll
  <2>. QED
    BY <1>5, <1>9, <2>1, <2>2 DEF q, r
<1>10. CASE "ro" \notin p.flags[id]
  <2>1. /\ q \in Panels
        /\ \A k \in Controls \ {id} : q.dev[k] = r.dev[k]
        /\ \A k \in Controls : camera[k].auto # id => q.flags[k] = r.flags[k]
        /\ \A k \in Controls : (camera[k].auto = id \/ ShowsAuto(r, k)) => ShowsAuto(q, k)
        /\ \A k \in Controls : (k = id \/ ShowsValue(r, k)) => ShowsValue(q, k)
    BY <1>5, <1>10, SetCtrl
  <2> HIDE DEF q
  <2>2. ASSUME NEW k \in Controls, camera[k].auto \notin gone \ {id} PROVE ShowsAuto(q, k)
    BY <1>6, <2>1, <2>2 DEF ShowsAll
  <2>3. ASSUME NEW k \in Controls, IsRead(k), k \notin gone \ {id} PROVE ShowsValue(q, k)
    BY <1>7, <2>1, <2>3 DEF ShowsAll
  <2>4. ASSUME NEW k \in Controls, camera[k].auto # 0, Ends(camera[k].auto, "wo", Count - 1)
        PROVE  Grabs(q, k)
    <3>1. CASE camera[k].auto = id
      BY <2>1, <2>4, <3>1, GrabsWhatIsShown
    <3>2. CASE camera[k].auto # id
      <4>1. Grabs(r, k) /\ camera[k].auto \in Controls \ {id}
        BY <1>8, <2>4, <3>2, CameraFacts DEF ShowsAll
      <4>. QED
        BY <2>1, <3>2, <4>1 DEF Grabs
    <3>. QED
      BY <3>1, <3>2
  <2>5. ShowsAll(q, gone \ {id})
    BY <2>2, <2>3, <2>4 DEF ShowsAll
  <2>. QED
    BY <1>10, <2>1, <2>5 DEF q, r
<1>. QED
  BY <1>9, <1>10

-----------------------------------------------------------------------------
(***************************************************************************)
(* The inductive invariant: the panel is true of every automatic control   *)
(* and of the values of the last control and the classes that are read,    *)
(* those apart that the user moved and cannot set; it grabs what the       *)
(* device refuses; profiles are in the order of the controls; and what was *)
(* asked for arrived.                                                      *)
(***************************************************************************)
ControlsOK(p, list, wanted, gone) ==
  p \in Panels /\ ShowsAll(p, gone) /\ list \in ItemLists /\ AllArrived(p.dev, wanted)

ControlsInv == camera \in Cameras /\ ControlsOK(panel, profile, asked, moved) /\ crashed \in BOOLEAN

LEMMA ControlsInvPrimed ==
  ASSUME camera' = camera, camera \in Cameras, ControlsOK(panel', profile', asked', moved'), crashed' \in BOOLEAN
  PROVE  ControlsInv'
<1>1. Controls' = Controls /\ Count' = Count
  BY DEF Controls, Count
<1>2. Settings' = Settings /\ FlagSets' = FlagSets /\ Item' = Item
  BY <1>1 DEF Settings, FlagSets, Item
<1>3. Panels' = Panels /\ ItemLists' = ItemLists
  BY <1>2 DEF Panels, ItemLists
<1>4. ShowsAll(panel, moved)'
  <2>1. ShowsAll(panel', moved')
    BY DEF ControlsOK
  <2>. QED
    BY <1>1, <2>1 DEF ShowsAll, ShowsAuto, ShowsValue, Grabs, IsRead, Readable, Ends
<1>5. AllArrived(panel.dev, asked)'
  <2>1. AllArrived(panel'.dev, asked')
    BY DEF ControlsOK
  <2>. QED
    BY <1>1, <2>1 DEF AllArrived, Followed, NoneReadOnly, Refuses
<1>. QED
  BY <1>3, <1>4, <1>5 DEF ControlsInv, ControlsOK

LEMMA NothingAsked == ASSUME NEW dev PROVE AllArrived(dev, <<>>)
  BY DEF AllArrived

(* The widgets are made from what the device has.                          *)
LEMMA ControlsInvInit ==
  ASSUME \A c \in Cameras : OrderlyAutos(c)
  PROVE  ControlsInit => ControlsInv
<1> SUFFICES ASSUME ControlsInit PROVE ControlsInv
  OBVIOUS
<1>1. Lawful /\ camera \in Cameras /\ crashed \in BOOLEAN
  BY DEF ControlsInit, Lawful
<1>2. PICK dev \in [Controls -> Values] :
        (\A k \in Controls : dev[k] <= camera[k].max) /\ panel = create_control_widgets(dev)
  BY DEF ControlsInit
<1>3. dev \in Settings
  BY <1>2, ControlsAssumption DEF Settings
<1>4. panel \in Panels /\ ShowsAll(panel, {})
  BY <1>1, <1>2, <1>3, WidgetsFacts
<1>5. profile = <<>> /\ asked = <<>> /\ moved = {}
  BY DEF ControlsInit
<1>6. profile \in ItemLists
  BY <1>5 DEF ItemLists
<1>7. AllArrived(panel.dev, asked)
  BY <1>5, NothingAsked
<1>. QED
  BY <1>1, <1>4, <1>5, <1>6, <1>7 DEF ControlsInv, ControlsOK

LEMMA ControlsInvNext ==
  ASSUME \A c \in Cameras : OrderlyAutos(c), ControlsInv, [ControlsNext]_controlsVars
  PROVE  ControlsInv'
<1>1. Lawful /\ camera \in Cameras
  BY DEF Lawful, ControlsInv
<1>2. panel \in Panels /\ ShowsAll(panel, moved) /\ profile \in ItemLists /\ AllArrived(panel.dev, asked)
      /\ crashed \in BOOLEAN
  BY DEF ControlsInv, ControlsOK
<1>4. CASE \E k \in Controls : \E v \in 0 .. camera[k].max : UserSets(k, v)
  <2>0. PICK k \in Controls : \E v \in 0 .. camera[k].max : UserSets(k, v)
    BY <1>4
  <2>1. PICK v \in 0 .. camera[k].max : UserSets(k, v)
    BY <2>0
  <2>2. /\ moved' = IF "ro" \in panel.flags[k] THEN moved \cup {k} ELSE moved \ {k}
        /\ panel' = set_ctrl([panel EXCEPT !.value[k] = v], k)
        /\ asked' = <<>> /\ camera' = camera /\ profile' = profile /\ crashed' = crashed
    BY <2>1 DEF UserSets
  <2>3. panel' \in Panels /\ ShowsAll(panel', moved')
    BY <1>1, <1>2, <2>2, UserSetsFacts
  <2>4. AllArrived(panel'.dev, asked')
    BY <2>2, NothingAsked
  <2>5. ControlsOK(panel', profile', asked', moved')
    BY <1>2, <2>2, <2>3, <2>4 DEF ControlsOK
  <2>. QED
    BY <1>1, <1>2, <2>2, <2>5, ControlsInvPrimed
<1>5. CASE DefaultsClicked
  <2>1. camera' = camera /\ profile' = profile
    BY <1>5 DEF DefaultsClicked
  <2>2. CASE ToDefaults(panel).skip
    <3>1. crashed' = TRUE /\ panel' = panel /\ asked' = asked /\ moved' = moved
      BY <1>5, <2>2 DEF DefaultsClicked
    <3>2. ControlsOK(panel', profile', asked', moved')
      BY <1>2, <2>1, <3>1 DEF ControlsOK
    <3>. QED
      BY <1>1, <2>1, <3>1, <3>2, ControlsInvPrimed
  <2>3. CASE ~ToDefaults(panel).skip
    <3>1. PICK junk \in Junk : panel' = set_default_values(panel, junk)
      BY <1>5, <2>3 DEF DefaultsClicked
    <3>2. asked' = AllDefaults /\ moved' = moved \cap {Count} /\ crashed' = crashed
      BY <1>5, <2>3 DEF DefaultsClicked
    <3>3. junk \in Settings
      BY <1>1, JunkFacts
    <3>4. panel' \in Panels /\ Refreshed(panel, panel') /\ AllArrived(panel'.dev, AllDefaults)
      BY <1>1, <1>2, <3>1, <3>3, SetDefaultsFacts
    <3>6. ShowsAll(panel', moved')
      BY <1>1, <1>2, <3>2, <3>4, RefreshedShowsAll
    <3>5. ControlsOK(panel', profile', asked', moved')
      BY <1>2, <2>1, <3>2, <3>4, <3>6 DEF ControlsOK
    <3>. QED
      BY <1>1, <1>2, <2>1, <3>2, <3>5, ControlsInvPrimed
  <2>. QED
    BY <2>2, <2>3
<1>6. CASE SaveControls
  <2>1. camera' = camera /\ panel' = panel /\ asked' = asked /\ moved' = moved /\ crashed' = crashed /\ profile' = Saved(panel)
    BY <1>6 DEF SaveControls
  <2>2. profile' \in ItemLists
    BY <1>1, <1>2, <2>1, SavedFacts
  <2>3. ControlsOK(panel', profile', asked', moved')
    BY <1>2, <2>1, <2>2 DEF ControlsOK
  <2>. QED
    BY <1>1, <1>2, <2>1, <2>3, ControlsInvPrimed
<1>7. CASE LoadControls
  <2>1. camera' = camera /\ profile' = profile
    BY <1>7 DEF LoadControls
  <2>2. CASE profile = <<>>
    <3>1. crashed' = TRUE /\ panel' = panel /\ asked' = asked /\ moved' = moved
      BY <1>7, <2>2 DEF LoadControls
    <3>2. ControlsOK(panel', profile', asked', moved')
      BY <1>2, <2>1, <3>1 DEF ControlsOK
    <3>. QED
      BY <1>1, <2>1, <3>1, <3>2, ControlsInvPrimed
  <2>3. CASE profile # <<>>
    <3>1. PICK junk \in Junk : panel' = LoadProfile(panel, junk)
      BY <1>7, <2>3 DEF LoadControls
    <3>2. asked' = profile /\ moved' = moved \cap {Count} /\ crashed' = crashed
      BY <1>7, <2>3 DEF LoadControls
    <3>3. junk \in Settings
      BY <1>1, JunkFacts
    <3>4. panel' \in Panels /\ Refreshed(panel, panel') /\ AllArrived(panel'.dev, profile)
      BY <1>1, <1>2, <2>3, <3>1, <3>3, LoadProfileFacts
    <3>6. ShowsAll(panel', moved')
      BY <1>1, <1>2, <3>2, <3>4, RefreshedShowsAll
    <3>5. ControlsOK(panel', profile', asked', moved')
      BY <1>2, <2>1, <3>2, <3>4, <3>6 DEF ControlsOK
    <3>. QED
      BY <1>1, <1>2, <2>1, <3>2, <3>5, ControlsInvPrimed
  <2>. QED
    BY <2>2, <2>3
<1>8. CASE UNCHANGED controlsVars
  <2>1. camera' = camera /\ panel' = panel /\ asked' = asked /\ moved' = moved /\ crashed' = crashed /\ profile' = profile
    BY <1>8 DEF controlsVars
  <2>2. ControlsOK(panel', profile', asked', moved')
    BY <1>2, <2>1 DEF ControlsOK
  <2>. QED
    BY <1>1, <1>2, <2>1, <2>2, ControlsInvPrimed
<1>. QED
  BY <1>4, <1>5, <1>6, <1>7, <1>8 DEF ControlsNext

LEMMA ControlsInvImplies ==
  ASSUME \A c \in Cameras : OrderlyAutos(c), ControlsInv
  PROVE  ControlsTypeOK /\ SettingsArrive /\ PanelShowsDevice
<1>1. Lawful
  BY DEF Lawful, ControlsInv
<1>2. panel \in Panels /\ ShowsAll(panel, moved) /\ AllArrived(panel.dev, asked) /\ crashed \in BOOLEAN
  BY DEF ControlsInv, ControlsOK
<1>3. ControlsTypeOK
  <2>1. panel.dev \in Settings /\ panel.value \in Settings /\ panel.flags \in FlagSets
    BY <1>2 DEF Panels
  <2>. QED
    BY <1>2, <2>1 DEF ControlsTypeOK, Settings, FlagSets
<1>4. SettingsArrive
  BY <1>2 DEF SettingsArrive, AllArrived
<1>5. ASSUME NEW k \in Controls, Listened(k) PROVE Ends(k, "wo", Count - 1)
  <2>1. /\ Len(Listed(panel)) = Count /\ Count \in Nat /\ Controls = 1 .. Count
        /\ \A j \in Controls : Listed(panel)[j].id = j
    BY <1>1, <1>2, ListedFacts, CameraFacts
  <2>2. PICK m \in k .. Count - 1 :
          /\ camera[Listed(panel)[m].id].class = camera[Listed(panel)[k].id].class
          /\ camera[Listed(panel)[m + 1].id].class # camera[Listed(panel)[m].id].class
          /\ "wo" \notin camera[Listed(panel)[m].id].flags
    BY <1>5, <2>1 DEF Listened, Followed
  <2>3. m \in Controls /\ m + 1 \in Controls
    BY <2>1, <2>2
  <2>. QED
    BY <2>1, <2>2, <2>3 DEF Ends
<1>6. ASSUME NEW k \in Controls, Readable(k), Listened(k) \/ k = Count, k \notin moved
      PROVE  panel.value[k] = panel.dev[k]
  BY <1>2, <1>5, <1>6 DEF ShowsAll, IsRead, ShowsValue
<1>7. ASSUME NEW k \in Controls, camera[k].auto # 0, Listened(camera[k].auto)
      PROVE  Busy \in panel.flags[k] <=> panel.dev[camera[k].auto] \in camera[k].busy
  <2>1. camera[k].auto \in Controls
    BY <1>1, <1>7, CameraFacts
  <2>. QED
    BY <1>2, <1>5, <1>7, <2>1 DEF ShowsAll, Grabs
<1>8. ASSUME NEW k \in Controls, camera[k].auto \notin moved \cup {0}
      PROVE  Busy \in panel.flags[k] <=> panel.value[camera[k].auto] \in camera[k].busy
  BY <1>2, <1>8 DEF ShowsAll, ShowsAuto
<1>9. PanelShowsDevice
  BY <1>6, <1>7, <1>8 DEF PanelShowsDevice
<1>. QED
  BY <1>3, <1>4, <1>9

(* The inductive invariant holds, of cameras whose automatic controls are  *)
(* orderly.                                                                *)
THEOREM ControlsInvariant ==
  ASSUME \A c \in Cameras : OrderlyAutos(c)
  PROVE  ControlsSpec => []ControlsInv
<1>1. ControlsInit => ControlsInv
  BY ControlsInvInit
<1>2. ControlsInv /\ [ControlsNext]_controlsVars => ControlsInv'
  BY ControlsInvNext
<1>. QED
  BY <1>1, <1>2, PTL DEF ControlsSpec

(* Values stay in the range of their control, and flags are the camera's.  *)
THEOREM ControlsTypeCorrect ==
  ASSUME \A c \in Cameras : OrderlyAutos(c)
  PROVE  ControlsSpec => []ControlsTypeOK
<1>1. ControlsInv => ControlsTypeOK
  BY ControlsInvImplies
<1>. QED
  BY <1>1, ControlsInvariant, PTL

(* After Defaults, or a profile that was loaded, every setting is in the   *)
(* device or refused there, whatever the batches were and in whatever      *)
(* order the automatic controls come.                                      *)
THEOREM SettingsAreSet ==
  ASSUME \A c \in Cameras : OrderlyAutos(c)
  PROVE  ControlsSpec => []SettingsArrive
<1>1. ControlsInv => SettingsArrive
  BY ControlsInvImplies
<1>. QED
  BY <1>1, ControlsInvariant, PTL

(* The panel shows what the device has and grabs exactly the controls that *)
(* the device refuses for an automatic one; of the read-only controls that *)
(* the user moved it shows what the user made of them, until it is read.   *)
THEOREM PanelIsTrue ==
  ASSUME \A c \in Cameras : OrderlyAutos(c)
  PROVE  ControlsSpec => []PanelShowsDevice
<1>1. ControlsInv => PanelShowsDevice
  BY ControlsInvImplies
<1>. QED
  BY <1>1, ControlsInvariant, PTL

=============================================================================
