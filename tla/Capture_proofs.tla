--------------------------- MODULE Capture_proofs ---------------------------
(***************************************************************************)
(* Proofs about Capture, for every number of IO threads and of dialogs and *)
(* every set of command lines and of failures.                             *)
(***************************************************************************)
EXTENDS Capture, SequenceTheorems, FiniteSetTheorems, TLAPS

-----------------------------------------------------------------------------
(***************************************************************************)
(* Stacks: the next step first.                                            *)
(***************************************************************************)
LEMMA Pushed ==
  ASSUME NEW S, NEW q \in Seq(S), NEW x \in S
  PROVE  /\ <<x>> \o q \in Seq(S) /\ <<x>> \o q # <<>>
         /\ Head(<<x>> \o q) = x /\ Tail(<<x>> \o q) = q
         /\ Len(<<x>> \o q) = Len(q) + 1 /\ Len(q) \in Nat
         /\ (<<x>> \o q)[1] = x
         /\ \A i \in 1 .. Len(q) : (<<x>> \o q)[i + 1] = q[i]
<1> DEFINE p == <<x>> \o q
<1>1. <<x>> \in Seq(S) /\ Len(<<x>>) = 1 /\ <<x>>[1] = x
  OBVIOUS
<1>2. Len(q) \in Nat
  OBVIOUS
<1>3. /\ p \in Seq(S) /\ Len(p) = 1 + Len(q)
      /\ \A i \in 1 .. 1 + Len(q) : p[i] = IF i <= 1 THEN <<x>>[i] ELSE q[i - 1]
  BY <1>1, ConcatProperties
<1>4. p[1] = x /\ \A i \in 1 .. Len(q) : p[i + 1] = q[i]
  BY <1>1, <1>2, <1>3
<1> HIDE DEF p
<1>5. p # <<>>
  BY <1>2, <1>3, EmptySeq
<1>6. Head(p) = x
  BY <1>3, <1>4, <1>5
<1>7. Tail(p) = q
  <2>1. /\ Tail(p) \in Seq(S) /\ Len(Tail(p)) = Len(p) - 1
        /\ \A i \in 1 .. Len(Tail(p)) : Tail(p)[i] = p[i + 1]
    BY <1>3, <1>5, HeadTailProperties
  <2>2. Len(Tail(p)) = Len(q) /\ \A i \in 1 .. Len(Tail(p)) : Tail(p)[i] = q[i]
    BY <2>1, <1>2, <1>3, <1>4
  <2> QED
    BY <2>1, <2>2, SeqEqual
<1> QED
  BY <1>2, <1>3, <1>4, <1>5, <1>6, <1>7 DEF p

LEMMA Popped ==
  ASSUME NEW S, NEW q \in Seq(S), q # <<>>
  PROVE  /\ Head(q) \in S /\ Tail(q) \in Seq(S)
         /\ q = <<Head(q)>> \o Tail(q)
<1> DEFINE p == <<Head(q)>> \o Tail(q)
<1>1. /\ Head(q) \in S /\ Tail(q) \in Seq(S) /\ Len(Tail(q)) = Len(q) - 1
      /\ \A i \in 1 .. Len(Tail(q)) : Tail(q)[i] = q[i + 1]
  BY HeadTailProperties
<1>2. /\ p \in Seq(S) /\ Len(p) = Len(Tail(q)) + 1 /\ Len(Tail(q)) \in Nat
      /\ p[1] = Head(q) /\ \A i \in 1 .. Len(Tail(q)) : p[i + 1] = Tail(q)[i]
  BY <1>1, Pushed
<1>3. Head(q) = q[1] /\ Len(q) \in Nat \ {0}
  BY EmptySeq
<1> HIDE DEF p
<1>4. Len(p) = Len(q) /\ \A i \in 1 .. Len(q) : p[i] = q[i]
  <2>1. Len(p) = Len(q)
    BY <1>1, <1>2, <1>3
  <2>2. ASSUME NEW i \in 1 .. Len(q) PROVE p[i] = q[i]
    <3>1. CASE i = 1
      BY <3>1, <1>2, <1>3
    <3>2. CASE i # 1
      <4>1. i - 1 \in 1 .. Len(Tail(q)) /\ (i - 1) + 1 = i
        BY <3>2, <1>1, <1>3
      <4> QED
        BY <4>1, <1>1, <1>2
    <3> QED
      BY <3>1, <3>2
  <2> QED
    BY <2>1, <2>2
<1>5. p = q
  BY <1>2, <1>4, SeqEqual
<1> QED
  BY <1>1, <1>5 DEF p

-----------------------------------------------------------------------------
(***************************************************************************)
(* The stack of the GTK thread.                                            *)
(***************************************************************************)

(* The disk checks that are being dispatched, as the stack shows them.     *)
DiskEnds(q) == {i \in DOMAIN q : q[i] = "disk ends"}
Dispatching(q) == Cardinality(DiskEnds(q))

LEMMA Shifted ==
  ASSUME NEW n \in Nat, NEW S, S \subseteq 1 .. n
  PROVE  /\ IsFiniteSet(S) /\ Cardinality(S) \in Nat
         /\ IsFiniteSet({i + 1 : i \in S}) /\ Cardinality({i + 1 : i \in S}) = Cardinality(S)
         /\ Cardinality({i + 1 : i \in S} \cup {1}) = Cardinality(S) + 1
<1> DEFINE T == {i + 1 : i \in S}
<1>1. IsFiniteSet(1 .. n)
  BY FS_Interval
<1>2. S \in SUBSET (1 .. n)
  OBVIOUS
<1>3. IsFiniteSet(S) /\ Cardinality(S) \in Nat
  BY <1>1, <1>2, FS_Subset, FS_CardinalityType
<1>4. IsFiniteSet(T) /\ Cardinality(T) = Cardinality(S)
  <2> DEFINE f == [i \in S |-> i + 1]
  <2>1. \A i \in S : i \in Nat
    OBVIOUS
  <2>2. f \in Bijection(S, T)
    BY <2>1 DEF Bijection, Injection, Surjection, IsInjective
  <2>3. ExistsBijection(S, T)
    BY <2>2 DEF ExistsBijection
  <2> QED
    BY <2>3, <1>3, FS_Bijection
<1>5. 1 \notin T
  OBVIOUS
<1>6. Cardinality(T \cup {1}) = Cardinality(T) + 1
  <2> HIDE DEF T
  <2> QED
    BY <1>4, <1>5, FS_AddElement
<1> QED
  BY <1>3, <1>4, <1>6

LEMMA DispatchingPushed ==
  ASSUME NEW q \in Seq(Steps), NEW x \in Steps
  PROVE  /\ Dispatching(q) \in Nat
         /\ Dispatching(<<x>> \o q) = Dispatching(q) + (IF x = "disk ends" THEN 1 ELSE 0)
<1> DEFINE p == <<x>> \o q
           n == Len(q)
           S == DiskEnds(q)
           T == {i + 1 : i \in S}
<1>1. /\ p \in Seq(Steps) /\ Len(p) = n + 1 /\ n \in Nat
      /\ p[1] = x /\ \A i \in 1 .. n : p[i + 1] = q[i]
  BY Pushed
<1> HIDE DEF p
<1>0. n \in Nat
  BY <1>1
<1>2. DOMAIN q = 1 .. n /\ DOMAIN p = 1 .. n + 1
  BY <1>1
<1> HIDE DEF n
<1>3. \A i : i \in S <=> i \in 1 .. n /\ q[i] = "disk ends"
  BY <1>2 DEF DiskEnds
<1>4. \A i : i \in DiskEnds(p) <=> i \in 1 .. n + 1 /\ p[i] = "disk ends"
  BY <1>2 DEF DiskEnds
<1> HIDE DEF S
<1>5. S \subseteq 1 .. n
  BY <1>3
<1>6. Cardinality(S) \in Nat /\ Cardinality(T) = Cardinality(S) /\ Cardinality(T \cup {1}) = Cardinality(S) + 1
  BY <1>1, <1>5, Shifted
<1>7. DiskEnds(p) = IF x = "disk ends" THEN T \cup {1} ELSE T
  <2>1. ASSUME NEW i \in DiskEnds(p) PROVE i \in T \/ (i = 1 /\ x = "disk ends")
    <3>0. i \in 1 .. n + 1
      BY <1>4
    <3>1. p[i] = "disk ends"
      BY <1>4
    <3>2. CASE i = 1
      BY <3>1, <3>2, <1>1
    <3>3. CASE i # 1
      <4>1. PICK j \in 1 .. n : i = j + 1
        <5>1. i - 1 \in 1 .. n /\ i = (i - 1) + 1
          BY <3>0, <3>3, <1>0
        <5> QED
          BY <5>1
      <4>2. j \in S
        BY <4>1, <3>1, <1>1, <1>3
      <4> QED
        BY <4>1, <4>2
    <3> QED
      BY <3>2, <3>3
  <2>2. ASSUME NEW i \in T PROVE i \in DiskEnds(p)
    <3>1. PICK j \in S : i = j + 1
      OBVIOUS
    <3> HIDE DEF T
    <3>2. j \in 1 .. n /\ q[j] = "disk ends"
      BY <1>3
    <3>3. i \in 1 .. n + 1
      <4>1. j \in 1 .. n
        BY <3>2
      <4> QED
        BY <4>1, <3>1, <1>0
    <3>4. p[i] = "disk ends"
      BY <3>1, <3>2, <1>1
    <3> QED
      BY <3>3, <3>4, <1>4
  <2>3. x = "disk ends" => 1 \in DiskEnds(p)
    <3>1. 1 \in 1 .. n + 1
      BY <1>0
    <3> QED
      BY <3>1, <1>1, <1>4
  <2> HIDE DEF T
  <2>4. CASE x = "disk ends"
    BY <2>1, <2>2, <2>3, <2>4
  <2>5. CASE x # "disk ends"
    BY <2>1, <2>2, <2>5
  <2> QED
    BY <2>4, <2>5
<1>8. Dispatching(q) = Cardinality(S) /\ Dispatching(p) = Cardinality(DiskEnds(p))
  BY DEF Dispatching, S
<1> HIDE DEF T
<1>9. CASE x = "disk ends"
  BY <1>9, <1>6, <1>7, <1>8 DEF p
<1>10. CASE x # "disk ends"
  <2>1. Dispatching(p) = Dispatching(q)
    BY <1>10, <1>6, <1>7, <1>8
  <2>2. Dispatching(q) \in Nat
    BY <1>6, <1>8
  <2>3. Dispatching(p) = Dispatching(q) + 0
    BY <2>1, <2>2
  <2> QED
    BY <1>10, <2>3, <2>2 DEF p
<1> QED
  BY <1>9, <1>10

(* The step that ends the dispatching, and the others.                     *)
Ending == {"disk ends"}
Others == Steps \ Ending

LEMMA DispatchingSame ==
  ASSUME NEW q \in Seq(Steps), NEW x \in Others
  PROVE  Dispatching(<<x>> \o q) = Dispatching(q) /\ Dispatching(q) \in Nat
<1>1. x \in Steps /\ x # "disk ends"
  BY DEF Others, Ending
<1>2. Dispatching(q) \in Nat
  BY <1>1, DispatchingPushed
<1>3. (IF x = "disk ends" THEN 1 ELSE 0) = 0
  BY <1>1
<1>4. Dispatching(<<x>> \o q) = Dispatching(q) + 0
  BY <1>1, <1>3, DispatchingPushed
<1> QED
  BY <1>2, <1>4

LEMMA DispatchingMore ==
  ASSUME NEW q \in Seq(Steps), NEW x \in Ending
  PROVE  Dispatching(<<x>> \o q) = Dispatching(q) + 1 /\ Dispatching(q) \in Nat
<1>1. x \in Steps /\ x = "disk ends"
  BY DEF Steps, Ending
<1> QED
  BY <1>1, DispatchingPushed

LEMMA DispatchingEmpty == Dispatching(<<>>) = 0
<1>1. DiskEnds(<<>>) = {}
  BY DEF DiskEnds
<1> QED
  BY <1>1, FS_EmptySet DEF Dispatching

(* Below capture_vid, or a "toggled" that is about to enter it, there is   *)
(* no other capture_vid; without a display (~d) nothing runs on top of it. *)
Enters == CaptureVidSteps \cup {"read"}
Clear(q) == \A i \in DOMAIN q : q[i] \notin CaptureVidSteps
Ordered(q) == \A i, j \in DOMAIN q : i < j /\ q[i] \in Enters => q[j] \notin CaptureVidSteps
Alone(q) == \A i \in DOMAIN q : q[i] # "dialog" /\ (i > 1 => q[i] \notin CaptureVidSteps)
Nested(q, d) == Ordered(q) /\ (d = FALSE => Alone(q))

LEMMA ClearPushed ==
  ASSUME NEW q \in Seq(Steps), NEW x \in Steps, Clear(q), x \notin CaptureVidSteps
  PROVE  Clear(<<x>> \o q)
<1> DEFINE p == <<x>> \o q
<1>1. /\ p \in Seq(Steps) /\ Len(p) = Len(q) + 1 /\ Len(q) \in Nat
      /\ p[1] = x /\ \A i \in 1 .. Len(q) : p[i + 1] = q[i]
  BY Pushed
<1> HIDE DEF p
<1>2. ASSUME NEW i \in DOMAIN p PROVE p[i] \notin CaptureVidSteps
  <2>1. i = 1 \/ (i - 1 \in 1 .. Len(q) /\ i = (i - 1) + 1)
    BY <1>1
  <2>2. i = 1 \/ p[i] = q[i - 1]
    BY <2>1, <1>1
  <2>3. \A k \in 1 .. Len(q) : q[k] \notin CaptureVidSteps
    BY DEF Clear
  <2> QED
    BY <2>1, <2>2, <2>3, <1>1
<1> QED
  BY <1>2 DEF Clear, p

LEMMA NestedPushed ==
  ASSUME NEW d, NEW q \in Seq(Steps), NEW x \in Steps, Nested(q, d),
         x \in Enters \/ d = FALSE => Clear(q),
         d = FALSE => x # "dialog"
  PROVE  Nested(<<x>> \o q, d)
<1> DEFINE p == <<x>> \o q
<1>1. /\ p \in Seq(Steps) /\ Len(p) = Len(q) + 1 /\ Len(q) \in Nat
      /\ p[1] = x /\ \A i \in 1 .. Len(q) : p[i + 1] = q[i]
  BY Pushed
<1>2. DOMAIN q = 1 .. Len(q) /\ DOMAIN p = 1 .. Len(p)
  BY <1>1
<1> HIDE DEF p
<1>3. ASSUME NEW i \in DOMAIN p
      PROVE  i = 1 \/ (i - 1 \in DOMAIN q /\ p[i] = q[i - 1])
  <2>1. i = 1 \/ (i - 1 \in 1 .. Len(q) /\ i = (i - 1) + 1)
    BY <1>1, <1>2
  <2> QED
    BY <2>1, <1>1, <1>2
<1>4. Ordered(p)
  <2> SUFFICES ASSUME NEW i \in DOMAIN p, NEW j \in DOMAIN p, i < j, p[i] \in Enters
               PROVE  p[j] \notin CaptureVidSteps
    BY DEF Ordered
  <2>1. j # 1 /\ j - 1 \in DOMAIN q /\ p[j] = q[j - 1]
    BY <1>1, <1>2, <1>3
  <2>2. CASE i = 1
    BY <2>1, <2>2, <1>1 DEF Clear
  <2>3. CASE i # 1
    <3>1. i - 1 \in DOMAIN q /\ p[i] = q[i - 1] /\ i - 1 < j - 1
      BY <2>3, <1>1, <1>2, <1>3
    <3> QED
      BY <2>1, <3>1 DEF Nested, Ordered
  <2> QED
    BY <2>2, <2>3
<1>5. ASSUME d = FALSE PROVE Alone(p)
  <2> SUFFICES ASSUME NEW i \in DOMAIN p
               PROVE  p[i] # "dialog" /\ (i > 1 => p[i] \notin CaptureVidSteps)
    BY DEF Alone
  <2>1. CASE i = 1
    BY <2>1, <1>1, <1>5
  <2>2. CASE i # 1
    BY <2>2, <1>3, <1>5 DEF Nested, Alone, Clear
  <2> QED
    BY <2>1, <2>2
<1> QED
  BY <1>4, <1>5 DEF Nested, p

LEMMA NestedPopped ==
  ASSUME NEW d, NEW q \in Seq(Steps), q # <<>>, Nested(q, d)
  PROVE  /\ Nested(Tail(q), d)
         /\ Head(q) \in Enters \/ d = FALSE => Clear(Tail(q))
         /\ d = FALSE => Head(q) # "dialog"
<1> DEFINE r == Tail(q)
<1>1. /\ Head(q) \in Steps /\ r \in Seq(Steps) /\ q = <<Head(q)>> \o r
  BY Popped
<1>2. /\ Len(q) = Len(r) + 1 /\ Len(r) \in Nat
      /\ q[1] = Head(q) /\ \A i \in 1 .. Len(r) : q[i + 1] = r[i]
  BY <1>1, Pushed
<1>3. DOMAIN q = 1 .. Len(q) /\ DOMAIN r = 1 .. Len(r)
  BY <1>1
<1> HIDE DEF r
<1>4. \A i \in DOMAIN r : i + 1 \in DOMAIN q /\ q[i + 1] = r[i] /\ i + 1 > 1
  BY <1>2, <1>3
<1>5. Ordered(r)
  <2> SUFFICES ASSUME NEW i \in DOMAIN r, NEW j \in DOMAIN r, i < j, r[i] \in Enters
               PROVE  r[j] \notin CaptureVidSteps
    BY DEF Ordered
  <2>1. i + 1 < j + 1
    BY <1>2, <1>3
  <2> QED
    BY <2>1, <1>4 DEF Nested, Ordered
<1>6. d = FALSE => Alone(r) /\ Clear(r) /\ Head(q) # "dialog"
  <2> SUFFICES ASSUME d = FALSE PROVE Alone(r) /\ Clear(r) /\ Head(q) # "dialog"
    OBVIOUS
  <2>1. Alone(q)
    BY DEF Nested
  <2>2. 1 \in DOMAIN q
    BY <1>2, <1>3
  <2> QED
    BY <2>1, <2>2, <1>2, <1>4 DEF Alone, Clear
<1>7. ASSUME Head(q) \in Enters PROVE Clear(r)
  <2> SUFFICES ASSUME NEW j \in DOMAIN r PROVE r[j] \notin CaptureVidSteps
    BY DEF Clear
  <2>1. 1 \in DOMAIN q /\ j + 1 \in DOMAIN q /\ 1 < j + 1
    BY <1>2, <1>3
  <2> QED
    BY <2>1, <1>2, <1>4, <1>7 DEF Nested, Ordered
<1> QED
  BY <1>5, <1>6, <1>7 DEF Nested, r

LEMMA NothingNested == \A d : Clear(<<>>) /\ Nested(<<>>, d)
<1>1. DOMAIN <<>> = {}
  OBVIOUS
<1> QED
  BY <1>1 DEF Clear, Nested, Ordered, Alone

(* A stack with n disk checks.                                             *)
Good(q, n, d) == q \in Seq(Steps) /\ Dispatching(q) = n /\ Nested(q, d)

LEMMA GoodPushed ==
  ASSUME NEW d, NEW n \in Nat, NEW q, Good(q, n, d), NEW x \in Others,
         x \in Enters \/ d = FALSE => Clear(q), d = FALSE => x # "dialog"
  PROVE  Good(<<x>> \o q, n, d)
<1> DEFINE p == <<x>> \o q
<1>1. q \in Seq(Steps) /\ Dispatching(q) = n /\ Nested(q, d)
  BY DEF Good
<1>0. x \in Steps
  BY DEF Others
<1>2. Dispatching(p) = Dispatching(q)
  BY <1>1, DispatchingSame
<1>3. p \in Seq(Steps)
  BY <1>0, <1>1, Pushed
<1>4. Nested(p, d)
  BY <1>0, <1>1, NestedPushed
<1> HIDE DEF p
<1>5. Dispatching(p) = n
  BY <1>1, <1>2
<1> QED
  BY <1>3, <1>4, <1>5 DEF Good, p

LEMMA GoodPopped ==
  ASSUME NEW d, NEW n \in Nat, NEW q, Good(q, n, d), q # <<>>
  PROVE  /\ Head(q) \in Steps /\ Tail(q) \in Seq(Steps)
         /\ Head(q) \in Others => Good(Tail(q), n, d)
         /\ Head(q) \in Ending => n > 0 /\ Good(Tail(q), n - 1, d)
         /\ Head(q) \in Enters \/ d = FALSE => Clear(Tail(q))
         /\ d = FALSE => Head(q) # "dialog"
         /\ <<>> \o Tail(q) = Tail(q)
         /\ Clear(q) => Clear(Tail(q))
<1> DEFINE h == Head(q)
           r == Tail(q)
<1>1. q \in Seq(Steps) /\ Dispatching(q) = n /\ Nested(q, d)
  BY DEF Good
<1>2. h \in Steps /\ r \in Seq(Steps) /\ q = <<h>> \o r
  BY <1>1, Popped
<1>3. /\ h \in Others => Dispatching(q) = Dispatching(r) /\ Dispatching(r) \in Nat
      /\ h \in Ending => Dispatching(q) = Dispatching(r) + 1 /\ Dispatching(r) \in Nat
  <2> HIDE DEF h, r
  <2> QED
    BY <1>2, DispatchingSame, DispatchingMore
<1>4. /\ Nested(Tail(q), d)
      /\ d = FALSE => Head(q) # "dialog"
      /\ Head(q) \in Enters \/ d = FALSE => Clear(Tail(q))
  BY <1>1, NestedPopped
<1>5. <<>> \o Tail(q) = Tail(q)
  BY <1>2, ConcatEmptySeq
<1>6. ASSUME h \in Others PROVE Good(r, n, d)
  <2>1. Nested(r, d)
    BY <1>4
  <2> HIDE DEF h, r
  <2>2. Dispatching(q) = Dispatching(r)
    BY <1>3, <1>6
  <2>3. Dispatching(r) = n
    BY <2>2, <1>1, <1>3
  <2> QED
    BY <2>1, <2>3, <1>2 DEF Good
<1>7. ASSUME h \in Ending PROVE n > 0 /\ Good(r, n - 1, d)
  <2>1. Nested(r, d)
    BY <1>4
  <2> HIDE DEF h, r
  <2>2. Dispatching(q) = Dispatching(r) + 1 /\ Dispatching(r) \in Nat
    BY <1>3, <1>7
  <2>3. Dispatching(q) = n
    BY <1>1
  <2>4. n - 1 = Dispatching(r) /\ n > 0
    BY <2>2, <2>3
  <2> QED
    BY <2>1, <2>4, <1>2 DEF Good
<1>8. ASSUME Clear(q) PROVE Clear(Tail(q))
  <2>1. /\ Len(Tail(q)) = Len(q) - 1 /\ Len(q) \in Nat
        /\ \A i \in 1 .. Len(Tail(q)) : Tail(q)[i] = q[i + 1]
    BY <1>1, HeadTailProperties
  <2>2. DOMAIN q = 1 .. Len(q) /\ DOMAIN Tail(q) = 1 .. Len(Tail(q))
    BY <1>1, <1>2
  <2>3. \A i \in DOMAIN Tail(q) : i + 1 \in DOMAIN q
    BY <2>1, <2>2
  <2> QED
    BY <2>1, <2>2, <2>3, <1>8 DEF Clear
<1> QED
  BY <1>2, <1>4, <1>5, <1>6, <1>7, <1>8

LEMMA GoodDiskEnds ==
  ASSUME NEW d, NEW n \in Nat, NEW q, Good(q, n, d), d = FALSE => Clear(q), NEW x \in Ending
  PROVE  /\ Good(<<x>> \o q, n + 1, d)
         /\ Clear(q) => Clear(<<x>> \o q)
<1> DEFINE p == <<x>> \o q
<1>1. q \in Seq(Steps) /\ Dispatching(q) = n /\ Nested(q, d)
  BY DEF Good
<1>2. x \in Steps /\ x \notin Enters /\ x \notin CaptureVidSteps /\ x # "dialog"
  BY DEF Steps, Enters, CaptureVidSteps, Ending
<1>3. Dispatching(p) = Dispatching(q) + 1
  BY <1>1, DispatchingMore
<1>4. Nested(p, d) /\ p \in Seq(Steps)
  BY <1>1, <1>2, NestedPushed, Pushed
<1>5. Clear(q) => Clear(p)
  BY <1>1, <1>2, ClearPushed
<1> HIDE DEF p
<1>6. Dispatching(p) = n + 1
  BY <1>1, <1>3
<1>7. Good(p, n + 1, d)
  BY <1>4, <1>6 DEF Good
<1> QED
  BY <1>5, <1>7 DEF p

(* Two steps are pushed, the second one first.                             *)
LEMMA TwoPushed ==
  ASSUME NEW q \in Seq(Steps), NEW x \in Steps, NEW y \in Steps
  PROVE  <<x, y>> \o q = <<x>> \o (<<y>> \o q)
<1>1. <<x>> \in Seq(Steps) /\ <<y>> \in Seq(Steps)
  OBVIOUS
<1>2. <<x>> \o <<y>> = <<x, y>>
  <2>1. /\ <<x>> \o <<y>> \in Seq(Steps) /\ Len(<<x>> \o <<y>>) = 2
        /\ (<<x>> \o <<y>>)[1] = x /\ (<<x>> \o <<y>>)[2] = y
    OBVIOUS
  <2>2. <<x, y>> \in Seq(Steps) /\ Len(<<x, y>>) = 2 /\ <<x, y>>[1] = x /\ <<x, y>>[2] = y
    OBVIOUS
  <2>3. \A i \in 1 .. 2 : (<<x>> \o <<y>>)[i] = <<x, y>>[i]
    BY <2>1, <2>2
  <2> QED
    BY <2>1, <2>2, <2>3, SeqEqual
<1>3. (<<x>> \o <<y>>) \o q = <<x>> \o (<<y>> \o q)
  BY <1>1, ConcatAssociative
<1> QED
  BY <1>2, <1>3

LEMMA ThreePushed ==
  ASSUME NEW q \in Seq(Steps), NEW x \in Steps, NEW y \in Steps, NEW z \in Steps
  PROVE  /\ <<x>> \o <<y, z>> \o q = <<x>> \o (<<y>> \o (<<z>> \o q))
         /\ <<>> \o <<y, z>> \o q = <<y>> \o (<<z>> \o q)
<1>1. <<x>> \in Seq(Steps) /\ <<y, z>> \in Seq(Steps) /\ <<>> \in Seq(Steps)
  OBVIOUS
<1>2. <<y, z>> \o q = <<y>> \o (<<z>> \o q)
  BY TwoPushed
<1>3. <<x>> \o <<y, z>> \o q = <<x>> \o (<<y, z>> \o q)
  BY <1>1, ConcatAssociative
<1>4. <<>> \o <<y, z>> = <<y, z>>
  BY <1>1, ConcatEmptySeq
<1> QED
  BY <1>2, <1>3, <1>4

(* The steps by what may be pushed on what.                                *)
Plain == {"main", "main locks", "main fails", "not started", "disk stops", "timer ends",
          "signal", "await", "clean"}

LEMMA Names ==
  /\ \A x \in Enters : x \in Others /\ x # "dialog"
  /\ \A x \in Plain : x \in Others /\ x \notin Enters /\ x \notin CaptureVidSteps /\ x # "dialog"
  /\ "dialog" \in Others /\ "dialog" \notin Enters /\ "dialog" \notin CaptureVidSteps
  /\ "disk ends" \in Ending /\ "disk ends" \in Steps
  /\ Others \subseteq Steps /\ CaptureVidSteps \subseteq Enters
  BY DEF Enters, CaptureVidSteps, Plain, Others, Steps, Ending

StackInv ==
  /\ dispatched \in Seq(Threads)
  /\ Good(todo, Len(dispatched), display)

(* A step that puts another one in its place.                              *)
LEMMA Exchanged ==
  ASSUME StackInv, todo # <<>>, Head(todo) \in Others,
         NEW x \in Others, x # "dialog", x \in Enters => Head(todo) \in Enters
  PROVE  Good(<<x>> \o Tail(todo), Len(dispatched), display)
<1>1. Good(todo, Len(dispatched), display) /\ Len(dispatched) \in Nat
  BY DEF StackInv
<1>2. /\ Good(Tail(todo), Len(dispatched), display)
      /\ Head(todo) \in Enters \/ display = FALSE => Clear(Tail(todo))
  BY <1>1, GoodPopped
<1> QED
  BY <1>1, <1>2, GoodPushed

(* One that is done.                                                       *)
LEMMA Done ==
  ASSUME StackInv, todo # <<>>
  PROVE  /\ Head(todo) \in Others => Good(Tail(todo), Len(dispatched), display)
         /\ Head(todo) \in Ending => Len(dispatched) > 0 /\ Good(Tail(todo), Len(dispatched) - 1, display)
         /\ Tail(todo) \in Seq(Steps) /\ <<>> \o Tail(todo) = Tail(todo)
         /\ display = FALSE => Clear(Tail(todo))
         /\ Clear(todo) => Clear(Tail(todo))
         /\ display = FALSE => Head(todo) # "dialog"
<1>1. Good(todo, Len(dispatched), display) /\ Len(dispatched) \in Nat
  BY DEF StackInv
<1> QED
  BY <1>1, GoodPopped

(* An event: without a display the stack is empty.                         *)
LEMMA Ready ==
  ASSUME StackInv, LoopReady
  PROVE  /\ display = FALSE => Clear(todo)
         /\ Good(todo, Len(dispatched), display) /\ todo \in Seq(Steps)
         /\ Len(dispatched) \in Nat
<1>1. Good(todo, Len(dispatched), display) /\ Len(dispatched) \in Nat
  BY DEF StackInv
<1>2. todo \in Seq(Steps)
  BY <1>1 DEF Good
<1>3. CASE todo = <<>>
  BY <1>1, <1>2, <1>3, NothingNested
<1>4. CASE todo # <<>>
  <2>1. Head(todo) = "dialog"
    BY <1>4 DEF LoopReady, WindowReady, At
  <2>2. display # FALSE
    BY <2>1, <1>4, Done
  <2> QED
    BY <2>2, <1>1, <1>2
<1> QED
  BY <1>3, <1>4

LEMMA NotBlockedIsClear == ~Blocked <=> Clear(todo)
  BY DEF Blocked, Clear

LEMMA StackSame ==
  ASSUME StackInv, UNCHANGED <<dispatched, display>>, Good(todo', Len(dispatched), display)
  PROVE  StackInv'
  BY DEF StackInv

(* Every step keeps the stack in order.                                    *)
LEMMA StackStep ==
  ASSUME StackInv, display \in BOOLEAN, Next
  PROVE  StackInv'
<1>0. display = TRUE \/ display = FALSE
  OBVIOUS
<1>len. Len(dispatched) \in Nat
  BY DEF StackInv
<1>1. CASE ReadCapVid
  <2>1. todo # <<>> /\ Head(todo) = "read"
    BY <1>1 DEF ReadCapVid, At
  <2>2. UNCHANGED <<dispatched, display>>
    BY <1>1 DEF ReadCapVid, config, timers
  <2>3. todo' = <<"stop">> \o Tail(todo) \/ todo' = <<"supervise">> \o Tail(todo)
    BY <1>1 DEF ReadCapVid, Then
  <2>4. Head(todo) \in Others /\ (Head(todo) \in Enters \/ Head(todo) \in Plain)
    BY <2>1, Names DEF Enters, CaptureVidSteps, Plain
  <2>5. ASSUME todo' = <<"stop">> \o Tail(todo) PROVE Good(todo', Len(dispatched), display)
    <3>1. "stop" \in Others /\ "stop" # "dialog" /\ ("stop" \in Enters => Head(todo) \in Enters)
      BY <2>1, Names DEF Enters, CaptureVidSteps, Plain
    <3> QED
      BY <3>1, <2>1, <2>4, <2>5, Exchanged
  <2>6. ASSUME todo' = <<"supervise">> \o Tail(todo) PROVE Good(todo', Len(dispatched), display)
    <3>1. "supervise" \in Others /\ "supervise" # "dialog" /\ ("supervise" \in Enters => Head(todo) \in Enters)
      BY <2>1, Names DEF Enters, CaptureVidSteps, Plain
    <3> QED
      BY <3>1, <2>1, <2>4, <2>6, Exchanged
  <2> QED
    BY <2>2, <2>3, <2>5, <2>6, StackSame
<1>2. CASE StopCapture
  <2>1. todo # <<>> /\ Head(todo) = "stop"
    BY <1>2 DEF StopCapture, At
  <2>2. UNCHANGED <<dispatched, display>>
    BY <1>2 DEF StopCapture, config, timers
  <2>3. todo' = <<"join">> \o Tail(todo)
    BY <1>2 DEF StopCapture, Then
  <2>4. Head(todo) \in Others /\ (Head(todo) \in Enters \/ Head(todo) \in Plain)
    BY <2>1, Names DEF Enters, CaptureVidSteps, Plain
  <2>5. ASSUME todo' = <<"join">> \o Tail(todo) PROVE Good(todo', Len(dispatched), display)
    <3>1. "join" \in Others /\ "join" # "dialog" /\ ("join" \in Enters => Head(todo) \in Enters)
      BY <2>1, Names DEF Enters, CaptureVidSteps, Plain
    <3> QED
      BY <3>1, <2>1, <2>4, <2>5, Exchanged
  <2> QED
    BY <2>2, <2>3, <2>5, StackSame
<1>3. CASE JoinIO
  <2>1. todo # <<>> /\ Head(todo) = "join"
    BY <1>3 DEF JoinIO, At
  <2>2. UNCHANGED <<dispatched, display>>
    BY <1>3 DEF JoinIO, config, timers
  <2>3. todo' = <<"release">> \o Tail(todo)
    BY <1>3 DEF JoinIO, Then
  <2>4. Head(todo) \in Others /\ (Head(todo) \in Enters \/ Head(todo) \in Plain)
    BY <2>1, Names DEF Enters, CaptureVidSteps, Plain
  <2>5. ASSUME todo' = <<"release">> \o Tail(todo) PROVE Good(todo', Len(dispatched), display)
    <3>1. "release" \in Others /\ "release" # "dialog" /\ ("release" \in Enters => Head(todo) \in Enters)
      BY <2>1, Names DEF Enters, CaptureVidSteps, Plain
    <3> QED
      BY <3>1, <2>1, <2>4, <2>5, Exchanged
  <2> QED
    BY <2>2, <2>3, <2>5, StackSame
<1>4. CASE ReleaseTimer
  <2>1. todo # <<>> /\ Head(todo) = "release"
    BY <1>4 DEF ReleaseTimer, At
  <2>2. UNCHANGED <<dispatched, display>>
    BY <1>4 DEF ReleaseTimer, config, timers
  <2>3. todo' = <<>> \o Tail(todo)
    BY <1>4 DEF ReleaseTimer, Then
  <2>4. Head(todo) \in Others
    BY <2>1, Names DEF Enters, CaptureVidSteps, Plain
  <2> QED
    BY <2>1, <2>2, <2>3, <2>4, Done, StackSame
<1>5. CASE StartRefused
  <2>1. todo # <<>> /\ Head(todo) = "refused"
    BY <1>5 DEF StartRefused, At
  <2>2. UNCHANGED <<dispatched, display>>
    BY <1>5 DEF StartRefused, config, timers
  <2>3. todo' = <<>> \o Tail(todo)
    BY <1>5 DEF StartRefused, Then
  <2>4. Head(todo) \in Others
    BY <2>1, Names DEF Enters, CaptureVidSteps, Plain
  <2> QED
    BY <2>1, <2>2, <2>3, <2>4, Done, StackSame
<1>6. CASE CreateIO
  <2>1. todo # <<>> /\ Head(todo) = "create"
    BY <1>6 DEF CreateIO, At
  <2>2. UNCHANGED <<dispatched, display>>
    BY <1>6 DEF CreateIO, config
  <2>3. todo' = <<"label">> \o Tail(todo) \/ todo' = <<"refused">> \o Tail(todo)
    BY <1>6 DEF CreateIO, Then
  <2>4. Head(todo) \in Others /\ (Head(todo) \in Enters \/ Head(todo) \in Plain)
    BY <2>1, Names DEF Enters, CaptureVidSteps, Plain
  <2>5. ASSUME todo' = <<"label">> \o Tail(todo) PROVE Good(todo', Len(dispatched), display)
    <3>1. "label" \in Others /\ "label" # "dialog" /\ ("label" \in Enters => Head(todo) \in Enters)
      BY <2>1, Names DEF Enters, CaptureVidSteps, Plain
    <3> QED
      BY <3>1, <2>1, <2>4, <2>5, Exchanged
  <2>6. ASSUME todo' = <<"refused">> \o Tail(todo) PROVE Good(todo', Len(dispatched), display)
    <3>1. "refused" \in Others /\ "refused" # "dialog" /\ ("refused" \in Enters => Head(todo) \in Enters)
      BY <2>1, Names DEF Enters, CaptureVidSteps, Plain
    <3> QED
      BY <3>1, <2>1, <2>4, <2>6, Exchanged
  <2> QED
    BY <2>2, <2>3, <2>5, <2>6, StackSame
<1>7. CASE LabelButton
  <2>1. todo # <<>> /\ Head(todo) = "label"
    BY <1>7 DEF LabelButton, At
  <2>2. UNCHANGED <<dispatched, display>>
    BY <1>7 DEF LabelButton, config, timers
  <2>3. todo' = <<>> \o Tail(todo)
    BY <1>7 DEF LabelButton, Then
  <2>4. Head(todo) \in Others
    BY <2>1, Names DEF Enters, CaptureVidSteps, Plain
  <2> QED
    BY <2>1, <2>2, <2>3, <2>4, Done, StackSame
<1>8. CASE MainLocks
  <2>1. todo # <<>> /\ Head(todo) = "main locks"
    BY <1>8 DEF MainLocks, At
  <2>2. UNCHANGED <<dispatched, display>>
    BY <1>8 DEF MainLocks, config, timers
  <2>3. todo' = <<>> \o Tail(todo)
    BY <1>8 DEF MainLocks, Then
  <2>4. Head(todo) \in Others
    BY <2>1, Names DEF Enters, CaptureVidSteps, Plain
  <2> QED
    BY <2>1, <2>2, <2>3, <2>4, Done, StackSame
<1>9. CASE MainGoesOn
  <2>1. todo # <<>> /\ Head(todo) = "not started"
    BY <1>9 DEF MainGoesOn, At
  <2>2. UNCHANGED <<dispatched, display>>
    BY <1>9 DEF MainGoesOn, config, timers
  <2>3. todo' = <<>> \o Tail(todo)
    BY <1>9 DEF MainGoesOn, Then
  <2>4. Head(todo) \in Others
    BY <2>1, Names DEF Enters, CaptureVidSteps, Plain
  <2> QED
    BY <2>1, <2>2, <2>3, <2>4, Done, StackSame
<1>10. CASE SignalQuit
  <2>1. todo # <<>> /\ Head(todo) = "signal"
    BY <1>10 DEF SignalQuit, At
  <2>2. UNCHANGED <<dispatched, display>>
    BY <1>10 DEF SignalQuit, config, timers
  <2>3. todo' = <<"await">> \o Tail(todo)
    BY <1>10 DEF SignalQuit, Then
  <2>4. Head(todo) \in Others /\ (Head(todo) \in Enters \/ Head(todo) \in Plain)
    BY <2>1, Names DEF Enters, CaptureVidSteps, Plain
  <2>5. ASSUME todo' = <<"await">> \o Tail(todo) PROVE Good(todo', Len(dispatched), display)
    <3>1. "await" \in Others /\ "await" # "dialog" /\ ("await" \in Enters => Head(todo) \in Enters)
      BY <2>1, Names DEF Enters, CaptureVidSteps, Plain
    <3> QED
      BY <3>1, <2>1, <2>4, <2>5, Exchanged
  <2> QED
    BY <2>2, <2>3, <2>5, StackSame
<1>11. CASE AwaitVideo
  <2>1. todo # <<>> /\ Head(todo) = "await"
    BY <1>11 DEF AwaitVideo, At
  <2>2. UNCHANGED <<dispatched, display>>
    BY <1>11 DEF AwaitVideo, config, timers
  <2>3. todo' = <<"clean">> \o Tail(todo)
    BY <1>11 DEF AwaitVideo, Then
  <2>4. Head(todo) \in Others /\ (Head(todo) \in Enters \/ Head(todo) \in Plain)
    BY <2>1, Names DEF Enters, CaptureVidSteps, Plain
  <2>5. ASSUME todo' = <<"clean">> \o Tail(todo) PROVE Good(todo', Len(dispatched), display)
    <3>1. "clean" \in Others /\ "clean" # "dialog" /\ ("clean" \in Enters => Head(todo) \in Enters)
      BY <2>1, Names DEF Enters, CaptureVidSteps, Plain
    <3> QED
      BY <3>1, <2>1, <2>4, <2>5, Exchanged
  <2> QED
    BY <2>2, <2>3, <2>5, StackSame
<1>12. CASE CleanStruct
  <2>1. todo # <<>> /\ Head(todo) = "clean"
    BY <1>12 DEF CleanStruct, At
  <2>2. UNCHANGED <<dispatched, display>>
    BY <1>12 DEF CleanStruct, config, timers
  <2>3. todo' = <<>> \o Tail(todo)
    BY <1>12 DEF CleanStruct, Then
  <2>4. Head(todo) \in Others
    BY <2>1, Names DEF Enters, CaptureVidSteps, Plain
  <2> QED
    BY <2>1, <2>2, <2>3, <2>4, Done, StackSame
<1>13. CASE CloseDialog
  <2>1. todo # <<>> /\ Head(todo) = "dialog"
    BY <1>13 DEF CloseDialog, At
  <2>2. UNCHANGED <<dispatched, display>>
    BY <1>13 DEF CloseDialog, config, timers
  <2>3. todo' = <<>> \o Tail(todo)
    BY <1>13 DEF CloseDialog, Then
  <2>4. Head(todo) \in Others
    BY <2>1, Names DEF Enters, CaptureVidSteps, Plain
  <2> QED
    BY <2>1, <2>2, <2>3, <2>4, Done, StackSame
<1>14. CASE SuperviseStart
  <2>1. todo # <<>> /\ Head(todo) = "supervise"
    BY <1>14 DEF SuperviseStart, At
  <2>2. UNCHANGED <<dispatched, display>>
    BY <1>14 DEF SuperviseStart, config, timers
  <2>3. \/ todo' = <<"create">> \o Tail(todo)
        \/ todo' = <<"refused">> \o Tail(todo)
        \/ display = TRUE /\ todo' = <<"dialog", "refused">> \o Tail(todo)
    BY <1>14, <1>0 DEF SuperviseStart, DiskIsFull, Then
  <2>4. Head(todo) \in Others /\ (Head(todo) \in Enters \/ Head(todo) \in Plain)
    BY <2>1, Names DEF Enters, CaptureVidSteps, Plain
  <2> DEFINE mid == <<"refused">> \o Tail(todo)
  <2>5. Good(mid, Len(dispatched), display)
    <3>1. "refused" \in Others /\ "refused" # "dialog" /\ ("refused" \in Enters => Head(todo) \in Enters)
      BY <2>1, Names DEF Enters, CaptureVidSteps, Plain
    <3> QED
      BY <3>1, <2>1, <2>4, Exchanged
  <2>6. ASSUME display = TRUE
        PROVE  Good(<<"dialog", "refused">> \o Tail(todo), Len(dispatched), display)
    <3>1. <<"dialog", "refused">> \o Tail(todo) = <<"dialog">> \o mid
      <4>1. "refused" \in Steps /\ "dialog" \in Steps
        BY DEF Steps, CaptureVidSteps
      <4> QED
        BY <4>1, <2>1, Done, TwoPushed
    <3>2. "dialog" \in Others /\ "dialog" \notin Enters /\ display # FALSE /\ Len(dispatched) \in Nat
      BY <1>len, <2>6, Names
    <3> HIDE DEF mid
    <3> QED
      BY <3>1, <3>2, <2>5, GoodPushed
  <2>7. ASSUME todo' = <<"create">> \o Tail(todo) PROVE Good(todo', Len(dispatched), display)
    <3>1. "create" \in Others /\ "create" # "dialog" /\ ("create" \in Enters => Head(todo) \in Enters)
      BY <2>1, Names DEF Enters, CaptureVidSteps, Plain
    <3> QED
      BY <3>1, <2>1, <2>4, <2>7, Exchanged
  <2> QED
    BY <2>2, <2>3, <2>5, <2>6, <2>7, StackSame
<1>15. CASE MainStarts
  <2>1. todo # <<>> /\ Head(todo) = "main"
    BY <1>15 DEF MainStarts, At
  <2>2. UNCHANGED <<dispatched, display>>
    BY <1>15 DEF MainStarts, config
  <2>3. \/ todo' = <<"main locks">> \o Tail(todo)
        \/ todo' = <<"main fails">> \o Tail(todo)
        \/ display = TRUE /\ todo' = <<"dialog", "main fails">> \o Tail(todo)
    BY <1>15, <1>0 DEF MainStarts, DiskIsFull, Then
  <2>4. Head(todo) \in Others /\ (Head(todo) \in Enters \/ Head(todo) \in Plain)
    BY <2>1, Names DEF Enters, CaptureVidSteps, Plain
  <2> DEFINE mid == <<"main fails">> \o Tail(todo)
  <2>5. Good(mid, Len(dispatched), display)
    <3>1. "main fails" \in Others /\ "main fails" # "dialog" /\ ("main fails" \in Enters => Head(todo) \in Enters)
      BY <2>1, Names DEF Enters, CaptureVidSteps, Plain
    <3> QED
      BY <3>1, <2>1, <2>4, Exchanged
  <2>6. ASSUME display = TRUE
        PROVE  Good(<<"dialog", "main fails">> \o Tail(todo), Len(dispatched), display)
    <3>1. <<"dialog", "main fails">> \o Tail(todo) = <<"dialog">> \o mid
      <4>1. "main fails" \in Steps /\ "dialog" \in Steps
        BY DEF Steps, CaptureVidSteps
      <4> QED
        BY <4>1, <2>1, Done, TwoPushed
    <3>2. "dialog" \in Others /\ "dialog" \notin Enters /\ display # FALSE /\ Len(dispatched) \in Nat
      BY <1>len, <2>6, Names
    <3> HIDE DEF mid
    <3> QED
      BY <3>1, <3>2, <2>5, GoodPushed
  <2>7. ASSUME todo' = <<"main locks">> \o Tail(todo) PROVE Good(todo', Len(dispatched), display)
    <3>1. "main locks" \in Others /\ "main locks" # "dialog" /\ ("main locks" \in Enters => Head(todo) \in Enters)
      BY <2>1, Names DEF Enters, CaptureVidSteps, Plain
    <3> QED
      BY <3>1, <2>1, <2>4, <2>7, Exchanged
  <2> QED
    BY <2>2, <2>3, <2>5, <2>6, <2>7, StackSame
<1>16. CASE MainFails
  <2>1. todo # <<>> /\ Head(todo) = "main fails"
    BY <1>16 DEF MainFails, At
  <2>2. UNCHANGED <<dispatched, display>>
    BY <1>16 DEF MainFails, config, timers
  <2> DEFINE mid == <<"not started">> \o Tail(todo)
  <2>3. \/ todo' = <<>> \o mid
        \/ Clear(todo) /\ todo' = <<"read">> \o mid
    BY <1>16, NotBlockedIsClear DEF MainFails, Deactivate
  <2>4. /\ Head(todo) \in Others /\ "not started" \in Others /\ "not started" \notin Enters
        /\ "not started" \notin CaptureVidSteps /\ "not started" # "dialog"
        /\ "read" \in Others /\ "read" # "dialog" /\ "not started" \in Steps
    BY <2>1, Names DEF Enters, Plain
  <2>5. Good(mid, Len(dispatched), display) /\ Len(dispatched) \in Nat
    BY <1>len, <2>1, <2>4, Exchanged
  <2>6. Clear(todo) => Clear(mid)
    BY <2>1, <2>4, Done, ClearPushed
  <2>7. <<>> \o mid = mid
    BY <2>5, ConcatEmptySeq DEF Good
  <2> HIDE DEF mid
  <2>8. Clear(todo) => Good(<<"read">> \o mid, Len(dispatched), display)
    BY <2>4, <2>5, <2>6, GoodPushed
  <2> QED
    BY <2>2, <2>3, <2>5, <2>7, <2>8, StackSame
<1>17. CASE DiskStops
  <2>1. todo # <<>> /\ Head(todo) = "disk stops"
    BY <1>17 DEF DiskStops, At
  <2>2. UNCHANGED <<dispatched, display>>
    BY <1>17 DEF DiskStops, config, timers
  <2> DEFINE mid == Tail(todo)
  <2>3. \/ todo' = <<>> \o mid
        \/ (Clear(todo) \/ display = FALSE) /\ todo' = <<"read">> \o mid
    BY <1>17, <1>0, NotBlockedIsClear DEF DiskStops, ToggleOff, Deactivate
  <2>4. Head(todo) \in Others /\ "read" \in Others /\ "read" # "dialog"
    BY <2>1, Names DEF Enters, Plain
  <2>5. Good(mid, Len(dispatched), display) /\ Len(dispatched) \in Nat
    BY <1>len, <2>1, <2>4, Done
  <2>6. Clear(todo) \/ display = FALSE => Clear(mid)
    BY <2>1, Done
  <2>7. <<>> \o mid = mid
    BY <2>1, Done
  <2> HIDE DEF mid
  <2>8. Clear(todo) \/ display = FALSE => Good(<<"read">> \o mid, Len(dispatched), display)
    BY <2>4, <2>5, <2>6, GoodPushed
  <2> QED
    BY <2>2, <2>3, <2>5, <2>7, <2>8, StackSame
<1>18. CASE DiskTimerEnds
  <2>1. todo # <<>> /\ Head(todo) = "disk ends"
    BY <1>18 DEF DiskTimerEnds, At
  <2>2. display' = display /\ dispatched' = Tail(dispatched) /\ todo' = <<>> \o Tail(todo)
    BY <1>18 DEF DiskTimerEnds, Then, config
  <2>3. Head(todo) \in Ending
    BY <2>1, Names
  <2>4. Len(dispatched) > 0 /\ Good(todo', Len(dispatched) - 1, display)
    BY <2>1, <2>2, <2>3, Done
  <2>5. dispatched \in Seq(Threads)
    BY DEF StackInv
  <2>6. dispatched # <<>>
    BY <2>4, EmptySeq
  <2>7. Tail(dispatched) \in Seq(Threads) /\ Len(Tail(dispatched)) = Len(dispatched) - 1
    BY <2>5, <2>6, HeadTailProperties
  <2> QED
    BY <2>2, <2>4, <2>7 DEF StackInv
<1>19. CASE TimerEnds
  <2>1. todo # <<>> /\ Head(todo) = "timer ends"
    BY <1>19 DEF TimerEnds, At
  <2>2. UNCHANGED <<dispatched, display>>
    BY <1>19 DEF TimerEnds, config, timers
  <2>3. todo' = <<"signal">> \o Tail(todo) \/ todo' = <<>> \o Tail(todo)
    BY <1>19 DEF TimerEnds, Then
  <2>4. /\ Head(todo) \in Others /\ "signal" \in Others /\ "signal" # "dialog"
        /\ "signal" \notin Enters
    BY <2>1, Names DEF Plain
  <2>5. Good(<<"signal">> \o Tail(todo), Len(dispatched), display)
    BY <2>1, <2>4, Exchanged
  <2> QED
    BY <2>1, <2>2, <2>3, <2>4, <2>5, Done, StackSame
<1>20. CASE Click
  <2>1. todo = <<>> /\ todo' = <<"read">> /\ UNCHANGED <<dispatched, display>>
    BY <1>20 DEF Click, WindowReady, config, timers
  <2>2. Good(<<>>, Len(dispatched), display) /\ Len(dispatched) \in Nat
    BY <2>1 DEF StackInv
  <2>3. "read" \in Others /\ "read" # "dialog"
    BY Names DEF Enters
  <2>4. Good(<<"read">> \o <<>>, Len(dispatched), display)
    BY <2>2, <2>3, NothingNested, GoodPushed
  <2>5. <<"read">> \o <<>> = <<"read">>
    <3>1. <<"read">> \in Seq(Steps)
      BY DEF Steps
    <3> QED
      BY <3>1, ConcatEmptySeq
  <2> QED
    BY <2>1, <2>4, <2>5, StackSame
<1>21. CASE Key
  <2>1. display = TRUE /\ LoopReady /\ Clear(todo) /\ todo' = <<"read">> \o todo
    BY <1>21, <1>0, NotBlockedIsClear DEF Key
  <2>2. UNCHANGED <<dispatched, display>>
    BY <1>21 DEF Key, config, timers
  <2>3. "read" \in Others /\ "read" # "dialog"
    BY Names DEF Enters
  <2>4. Good(todo, Len(dispatched), display) /\ Len(dispatched) \in Nat
    BY DEF StackInv
  <2>5. Good(<<"read">> \o todo, Len(dispatched), display)
    BY <2>1, <2>3, <2>4, GoodPushed
  <2> QED
    BY <2>1, <2>2, <2>5, StackSame
<1>22. CASE ChangeResolution
  <2>1. todo = <<>> /\ UNCHANGED <<dispatched, display>>
    BY <1>22 DEF ChangeResolution, WindowReady, config, timers
  <2>2. todo' = <<"read">> \o <<>> \/ todo' = <<>> \o <<>>
    BY <1>22 DEF ChangeResolution, Deactivate
  <2>3. Good(<<>>, Len(dispatched), display) /\ Len(dispatched) \in Nat
    BY <2>1 DEF StackInv
  <2>4. "read" \in Others /\ "read" # "dialog"
    BY Names DEF Enters
  <2>5. Good(<<"read">> \o <<>>, Len(dispatched), display)
    BY <2>3, <2>4, NothingNested, GoodPushed
  <2>6. <<>> \o <<>> = <<>>
    <3>1. <<>> \in Seq(Steps)
      OBVIOUS
    <3> QED
      BY <3>1, ConcatEmptySeq
  <2> QED
    BY <2>1, <2>2, <2>3, <2>5, <2>6, StackSame
<1>23. CASE CaptureTimer
  <2>1. LoopReady /\ UNCHANGED <<dispatched, display>>
    BY <1>23 DEF CaptureTimer, config
  <2> DEFINE mid == <<"timer ends">> \o todo
  <2>2. \/ todo' = <<>> \o mid
        \/ (Clear(mid) \/ display = FALSE) /\ todo' = <<"read">> \o mid
    <3>1. Clear(todo) => Clear(mid)
      <4>1. "timer ends" \in Steps /\ "timer ends" \notin CaptureVidSteps
        BY Names DEF Plain
      <4> QED
        BY <4>1, <2>1, Ready, ClearPushed
    <3> QED
      BY <1>23, <1>0, <3>1, NotBlockedIsClear DEF CaptureTimer, ToggleOff, Deactivate
  <2>3. /\ "timer ends" \in Others /\ "timer ends" \notin Enters /\ "timer ends" # "dialog"
        /\ "timer ends" \in Steps /\ "timer ends" \notin CaptureVidSteps
        /\ "read" \in Others /\ "read" # "dialog"
    BY Names DEF Enters, Plain
  <2>4. Len(dispatched) \in Nat /\ todo \in Seq(Steps) /\ (display = FALSE => Clear(todo))
        /\ Good(todo, Len(dispatched), display)
    BY <2>1, Ready
  <2>5. Good(mid, Len(dispatched), display)
    BY <2>3, <2>4, GoodPushed
  <2>6. display = FALSE => Clear(mid)
    BY <2>3, <2>4, ClearPushed
  <2>7. <<>> \o mid = mid
    BY <2>5, ConcatEmptySeq DEF Good
  <2> HIDE DEF mid
  <2>8. Clear(mid) => Good(<<"read">> \o mid, Len(dispatched), display)
    BY <2>3, <2>4, <2>5, GoodPushed
  <2> QED
    BY <2>1, <2>2, <2>5, <2>6, <2>7, <2>8, StackSame
<1>24. CASE Quit
  <2>1. LoopReady /\ todo' = <<"signal">> \o todo /\ UNCHANGED <<dispatched, display>>
    BY <1>24 DEF Quit, config, timers
  <2>2. "signal" \in Others /\ "signal" \notin Enters /\ "signal" # "dialog"
    BY Names DEF Plain
  <2>3. Good(<<"signal">> \o todo, Len(dispatched), display)
    BY <2>1, <2>2, Ready, GoodPushed
  <2> QED
    BY <2>1, <2>3, StackSame
<1>25. CASE (\E id \in Threads : DiskTimer(id))
  <2>0. PICK id \in Threads : DiskTimer(id)
    BY <1>25
  <2>1. LoopReady /\ display' = display
    BY <2>0 DEF DiskTimer, config
  <2>2. Len(dispatched) \in Nat /\ todo \in Seq(Steps) /\ (display = FALSE => Clear(todo))
        /\ Good(todo, Len(dispatched), display)
    BY <2>1, Ready
  <2>3. CASE UNCHANGED <<todo, dispatched>>
    BY <2>1, <2>2, <2>3, StackSame
  <2>4. CASE ~UNCHANGED <<todo, dispatched>>
    <3> DEFINE one == <<"disk ends">> \o todo
               two == <<"disk stops">> \o one
    <3>1. /\ todo' = (IF display THEN <<"dialog">> ELSE <<>>) \o <<"disk stops", "disk ends">> \o todo
          /\ dispatched' = <<id>> \o dispatched
      BY <2>0, <2>4 DEF DiskTimer
    <3>2. /\ "disk ends" \in Ending /\ "disk ends" \in Steps
          /\ "disk stops" \in Others /\ "disk stops" # "dialog" /\ "disk stops" \notin Enters
          /\ "disk stops" \in Steps
          /\ "dialog" \in Others /\ "dialog" \notin Enters /\ "dialog" \in Steps
      BY Names DEF Plain
    <3>3. \/ display = TRUE /\ todo' = <<"dialog">> \o two
          \/ todo' = two
      <4>1. /\ <<"dialog">> \o <<"disk stops", "disk ends">> \o todo = <<"dialog">> \o two
            /\ <<>> \o <<"disk stops", "disk ends">> \o todo = two
        BY <2>2, <3>2, ThreePushed, ZenonT(60)
      <4>2. CASE display = TRUE
        BY <3>1, <4>1, <4>2
      <4>3. CASE display = FALSE
        BY <3>1, <4>1, <4>3
      <4> QED
        BY <1>0, <4>2, <4>3
    <3> DEFINE n == Len(dispatched) + 1
    <3>4. n \in Nat
      BY <2>2
    <3>5. Good(one, n, display) /\ (display = FALSE => Clear(one))
      BY <2>2, <3>2, GoodDiskEnds
    <3> HIDE DEF one, n
    <3>6. Good(two, n, display)
      BY <3>2, <3>4, <3>5, GoodPushed
    <3> HIDE DEF two
    <3>7. display = TRUE => Good(<<"dialog">> \o two, n, display)
      BY <3>2, <3>4, <3>6, GoodPushed
    <3>8. Good(todo', n, display)
      BY <3>3, <3>6, <3>7
    <3>9. dispatched' \in Seq(Threads) /\ Len(dispatched') = n
      BY <3>1, Pushed DEF StackInv, n
    <3> QED
      BY <2>1, <3>8, <3>9 DEF StackInv
  <2> QED
    BY <2>3, <2>4
<1>26. CASE (\E t \in Threads : IOThread(t))
  <2>1. UNCHANGED <<todo, dispatched, display>>
    BY <1>26 DEF IOThread, IOStarts, InitSucceeds, InitFails, EndLoop, CloseFile, IOFinishes,
                 config, timers
  <2> QED
    BY <2>1, StackSame DEF StackInv
<1>27. CASE (VideoFails \/ VideoThread \/ Terminated)
  <2>1. UNCHANGED <<todo, dispatched, display>>
    BY <1>27 DEF VideoFails, VideoThread, VideoLoopEnds, ExitChecks, ExitStops, ExitJoins,
                 Terminated, vars, config, timers
  <2> QED
    BY <2>1, StackSame DEF StackInv
<1> QED
  BY <1>1, <1>2, <1>3, <1>4, <1>5, <1>6, <1>7, <1>8, <1>9, <1>10, <1>11, <1>12, <1>13, <1>14, <1>15, <1>16, <1>17, <1>18, <1>19, <1>20, <1>21, <1>22, <1>23, <1>24, <1>25, <1>26, <1>27
  DEF Next, GtkThread, Event

-----------------------------------------------------------------------------
(***************************************************************************)
(* What the variables hold.                                                *)
(***************************************************************************)
FlagTypes ==
  /\ capVid \in BOOLEAN /\ signalquit \in BOOLEAN /\ IOfinished \in BOOLEAN
  /\ option \in Options /\ display \in BOOLEAN /\ patient \in Patience
  /\ button \in BOOLEAN /\ sensitive \in BOOLEAN /\ capTimer \in BOOLEAN
  /\ freed \in BOOLEAN

LEMMA FlagStep ==
  ASSUME FlagTypes, Next
  PROVE  FlagTypes'
<1>1. CASE ReadCapVid
  BY <1>1, Zenon DEF FlagTypes, flags, config, window, timers,
    ReadCapVid, Then
<1>2. CASE StopCapture
  BY <1>2, Zenon DEF FlagTypes, flags, config, window, timers,
    StopCapture, Then
<1>3. CASE JoinIO
  BY <1>3, Zenon DEF FlagTypes, flags, config, window, timers,
    JoinIO, Then, Joined
<1>4. CASE ReleaseTimer
  BY <1>4, Zenon DEF FlagTypes, flags, config, window, timers,
    ReleaseTimer, Then, NoTimer
<1>5. CASE SuperviseStart
  BY <1>5, Zenon DEF FlagTypes, flags, config, window, timers,
    SuperviseStart, Then
<1>6. CASE StartRefused
  BY <1>6, Zenon DEF FlagTypes, flags, config, window, timers,
    StartRefused, Then
<1>7. CASE CreateIO
  BY <1>7, Zenon DEF FlagTypes, flags, config, window, timers,
    CreateIO, Then, CreateThread, CreateFails, ArmTimer, LockControls
<1>8. CASE LabelButton
  BY <1>8, Zenon DEF FlagTypes, flags, config, window, timers,
    LabelButton, Then, Activated
<1>9. CASE MainStarts
  BY <1>9, Zenon DEF FlagTypes, flags, config, window, timers,
    MainStarts, Then, CreateThread, CreateFails, ArmTimer
<1>10. CASE MainLocks
  BY <1>10, Zenon DEF FlagTypes, flags, config, window, timers,
    MainLocks, Then, LockControls
<1>11. CASE MainFails
  BY <1>11, Zenon DEF FlagTypes, flags, config, window, timers,
    MainFails, Deactivate
<1>12. CASE MainGoesOn
  BY <1>12, Zenon DEF FlagTypes, flags, config, window, timers,
    MainGoesOn, Then
<1>13. CASE DiskStops
  BY <1>13, Zenon DEF FlagTypes, flags, config, window, timers,
    DiskStops, ToggleOff, Deactivate
<1>14. CASE DiskTimerEnds
  BY <1>14, Zenon DEF FlagTypes, flags, config, window, timers,
    DiskTimerEnds, Then
<1>15. CASE TimerEnds
  BY <1>15, Zenon DEF FlagTypes, flags, config, window, timers,
    TimerEnds, Then
<1>16. CASE SignalQuit
  BY <1>16, Zenon DEF FlagTypes, flags, config, window, timers,
    SignalQuit, Then
<1>17. CASE AwaitVideo
  BY <1>17, Zenon DEF FlagTypes, flags, config, window, timers,
    AwaitVideo, Then
<1>18. CASE CleanStruct
  BY <1>18, Zenon DEF FlagTypes, flags, config, window, timers,
    CleanStruct, Then
<1>19. CASE CloseDialog
  BY <1>19, Zenon DEF FlagTypes, flags, config, window, timers,
    CloseDialog, Then
<1>20. CASE Click
  BY <1>20, Zenon DEF FlagTypes, flags, config, window, timers,
    Click
<1>21. CASE Key
  BY <1>21, Zenon DEF FlagTypes, flags, config, window, timers,
    Key
<1>22. CASE ChangeResolution
  BY <1>22, Zenon DEF FlagTypes, flags, config, window, timers,
    ChangeResolution, Deactivate
<1>23. CASE CaptureTimer
  BY <1>23, Zenon DEF FlagTypes, flags, config, window, timers,
    CaptureTimer, ToggleOff, Deactivate
<1>24. CASE Quit
  BY <1>24, Zenon DEF FlagTypes, flags, config, window, timers,
    Quit
<1>25. ASSUME NEW id \in Threads, DiskTimer(id) PROVE FlagTypes'
  BY <1>25, Zenon DEF FlagTypes, flags, config, window, timers,
    DiskTimer
<1>26. ASSUME NEW t \in Threads, IOStarts(t) PROVE FlagTypes'
  BY <1>26, Zenon DEF FlagTypes, flags, config, window, timers,
    IOStarts
<1>27. ASSUME NEW t \in Threads, InitSucceeds(t) PROVE FlagTypes'
  BY <1>27, Zenon DEF FlagTypes, flags, config, window, timers,
    InitSucceeds
<1>28. ASSUME NEW t \in Threads, InitFails(t) PROVE FlagTypes'
  BY <1>28, Zenon DEF FlagTypes, flags, config, window, timers,
    InitFails
<1>29. ASSUME NEW t \in Threads, EndLoop(t) PROVE FlagTypes'
  BY <1>29, Zenon DEF FlagTypes, flags, config, window, timers,
    EndLoop
<1>30. ASSUME NEW t \in Threads, CloseFile(t) PROVE FlagTypes'
  BY <1>30, Zenon DEF FlagTypes, flags, config, window, timers,
    CloseFile
<1>31. ASSUME NEW t \in Threads, IOFinishes(t) PROVE FlagTypes'
  BY <1>31, Zenon DEF FlagTypes, flags, config, window, timers,
    IOFinishes
<1>32. CASE VideoFails
  BY <1>32, Zenon DEF FlagTypes, flags, config, window, timers,
    VideoFails
<1>33. CASE VideoLoopEnds
  BY <1>33, Zenon DEF FlagTypes, flags, config, window, timers,
    VideoLoopEnds
<1>34. CASE ExitChecks
  BY <1>34, Zenon DEF FlagTypes, flags, config, window, timers,
    ExitChecks
<1>35. CASE ExitStops
  BY <1>35, Zenon DEF FlagTypes, flags, config, window, timers,
    ExitStops
<1>36. CASE ExitJoins
  BY <1>36, Zenon DEF FlagTypes, flags, config, window, timers,
    ExitJoins, Joined
<1>37. CASE Terminated
  BY <1>37, Zenon DEF FlagTypes, flags, config, window, timers,
    Terminated, vars
<1> QED
  BY <1>1, <1>2, <1>3, <1>4, <1>5, <1>6, <1>7, <1>8, <1>9, <1>10,
     <1>11, <1>12, <1>13, <1>14, <1>15, <1>16, <1>17, <1>18, <1>19, <1>20,
     <1>21, <1>22, <1>23, <1>24, <1>25, <1>26, <1>27, <1>28, <1>29, <1>30,
     <1>31, <1>32, <1>33, <1>34, <1>35, <1>36, <1>37
  DEF Next, GtkThread, Event, IOThread, VideoThread

(* The disk check that is not being dispatched is the one of the field.    *)
TimerInv ==
  /\ disk_timer_id \in 0 .. MaxThreads /\ sources \subseteq Threads
  /\ sources \ ToSet(dispatched) \subseteq {disk_timer_id}

LEMMA TimerKept ==
  ASSUME TimerInv, UNCHANGED <<disk_timer_id, sources, dispatched>>
  PROVE  TimerInv'
  BY DEF TimerInv, ToSet

LEMMA TimerArmed ==
  ASSUME TimerInv, NEW t \in Threads, ArmTimer(t), UNCHANGED dispatched
  PROVE  TimerInv'
<1>1. t \in 0 .. MaxThreads /\ 0 \notin Threads
  BY BoundsAssumption DEF Threads
<1>2. CASE disk_timer_id = 0
  BY <1>1, <1>2 DEF TimerInv, ArmTimer, ToSet
<1>3. CASE disk_timer_id # 0
  BY <1>3 DEF TimerInv, ArmTimer, ToSet
<1> QED
  BY <1>2, <1>3

LEMMA Members ==
  ASSUME NEW q \in Seq(Threads), q # <<>>
  PROVE  ToSet(q) = {Head(q)} \cup ToSet(Tail(q))
<1> DEFINE r == Tail(q)
<1>1. /\ r \in Seq(Threads) /\ Len(r) = Len(q) - 1
      /\ \A i \in 1 .. Len(r) : r[i] = q[i + 1]
  BY HeadTailProperties
<1>2. Head(q) = q[1] /\ Len(q) \in Nat \ {0} /\ DOMAIN q = 1 .. Len(q) /\ DOMAIN r = 1 .. Len(r)
  BY <1>1, EmptySeq
<1>3. ToSet(q) \subseteq {Head(q)} \cup ToSet(r)
  <2> SUFFICES ASSUME NEW i \in DOMAIN q PROVE q[i] \in {Head(q)} \cup ToSet(r)
    BY DEF ToSet
  <2>1. i = 1 \/ \E j \in 1 .. Len(r) : i = j + 1
    <3>1. i = 1 \/ (i - 1 \in 1 .. Len(r) /\ i = (i - 1) + 1)
      BY <1>1, <1>2
    <3> QED
      BY <3>1
  <2> QED
    BY <2>1, <1>1, <1>2 DEF ToSet
<1>4. {Head(q)} \cup ToSet(r) \subseteq ToSet(q)
  <2>1. 1 \in DOMAIN q /\ \A j \in DOMAIN r : j + 1 \in DOMAIN q
    BY <1>1, <1>2
  <2> QED
    BY <2>1, <1>1, <1>2 DEF ToSet
<1> QED
  BY <1>3, <1>4

LEMMA TimerStep ==
  ASSUME StackInv, TimerInv, display \in BOOLEAN, Next
  PROVE  TimerInv'
<1>1. CASE ReadCapVid
  BY <1>1, TimerKept DEF ReadCapVid, timers
<1>2. CASE StopCapture
  BY <1>2, TimerKept DEF StopCapture, timers
<1>3. CASE JoinIO
  BY <1>3, TimerKept DEF JoinIO, timers
<1>4. CASE ReleaseTimer
  BY <1>4, BoundsAssumption DEF ReleaseTimer, NoTimer, TimerInv, ToSet
<1>5. CASE SuperviseStart
  BY <1>5, TimerKept DEF SuperviseStart, timers
<1>6. CASE StartRefused
  BY <1>6, TimerKept DEF StartRefused, timers
<1>7. CASE CreateIO
  <2>1. UNCHANGED dispatched
    BY <1>7 DEF CreateIO, timers
  <2>2. (\E t \in NewThreads : ArmTimer(t)) \/ UNCHANGED <<disk_timer_id, sources>>
    BY <1>7 DEF CreateIO, CreateThread, CreateFails
  <2> QED
    BY <2>1, <2>2, TimerArmed, TimerKept DEF NewThreads
<1>8. CASE LabelButton
  BY <1>8, TimerKept DEF LabelButton, timers
<1>9. CASE MainStarts
  <2>1. UNCHANGED dispatched
    BY <1>9 DEF MainStarts, timers
  <2>2. (\E t \in NewThreads : ArmTimer(t)) \/ UNCHANGED <<disk_timer_id, sources>>
    BY <1>9 DEF MainStarts, CreateThread, CreateFails
  <2> QED
    BY <2>1, <2>2, TimerArmed, TimerKept DEF NewThreads
<1>10. CASE MainLocks
  BY <1>10, TimerKept DEF MainLocks, timers
<1>11. CASE MainFails
  BY <1>11, TimerKept DEF MainFails, timers
<1>12. CASE MainGoesOn
  BY <1>12, TimerKept DEF MainGoesOn, timers
<1>13. CASE DiskStops
  BY <1>13, TimerKept DEF DiskStops, timers
<1>14. CASE DiskTimerEnds
  <2>1. /\ sources' = sources \ {Head(dispatched)} /\ dispatched' = Tail(dispatched)
        /\ UNCHANGED disk_timer_id
    BY <1>14 DEF DiskTimerEnds
  <2>2. dispatched \in Seq(Threads) /\ dispatched # <<>>
    <3>1. Head(todo) \in Ending /\ todo # <<>>
      BY <1>14, Names DEF DiskTimerEnds, At
    <3>2. Len(dispatched) > 0 /\ dispatched \in Seq(Threads)
      BY <3>1, Done DEF StackInv
    <3> QED
      BY <3>2, EmptySeq
  <2>3. ToSet(dispatched) = {Head(dispatched)} \cup ToSet(Tail(dispatched))
    BY <2>2, Members
  <2> QED
    BY <2>1, <2>3 DEF TimerInv
<1>15. CASE TimerEnds
  BY <1>15, TimerKept DEF TimerEnds, timers
<1>16. CASE SignalQuit
  BY <1>16, TimerKept DEF SignalQuit, timers
<1>17. CASE AwaitVideo
  BY <1>17, TimerKept DEF AwaitVideo, timers
<1>18. CASE CleanStruct
  BY <1>18, TimerKept DEF CleanStruct, timers
<1>19. CASE CloseDialog
  BY <1>19, TimerKept DEF CloseDialog, timers
<1>20. CASE Click
  BY <1>20, TimerKept DEF Click, timers
<1>21. CASE Key
  BY <1>21, TimerKept DEF Key, timers
<1>22. CASE ChangeResolution
  BY <1>22, TimerKept DEF ChangeResolution, timers
<1>23. CASE CaptureTimer
  BY <1>23, TimerKept DEF CaptureTimer, timers
<1>24. CASE Quit
  BY <1>24, TimerKept DEF Quit, timers
<1>25. ASSUME NEW id \in Threads, DiskTimer(id) PROVE TimerInv'
  <2>1. CASE dispatched' = <<id>> \o dispatched /\ UNCHANGED <<disk_timer_id, sources>>
    <3>1. dispatched \in Seq(Threads) /\ dispatched' \in Seq(Threads) /\ dispatched' # <<>>
          /\ Head(dispatched') = id /\ Tail(dispatched') = dispatched
      BY <1>25, <2>1, Pushed DEF StackInv
    <3>2. ToSet(dispatched') = {Head(dispatched')} \cup ToSet(Tail(dispatched'))
      BY <3>1, Members
    <3>3. ToSet(dispatched) \subseteq ToSet(dispatched')
      BY <3>1, <3>2
    <3> QED
      BY <2>1, <3>3 DEF TimerInv
  <2>2. CASE sources' = sources \ {id} /\ UNCHANGED <<disk_timer_id, dispatched>>
    BY <2>2 DEF TimerInv, ToSet
  <2> QED
    BY <1>25, <2>1, <2>2 DEF DiskTimer
<1>26. ASSUME NEW t \in Threads, IOStarts(t) PROVE TimerInv'
  BY <1>26, TimerKept DEF IOStarts, timers
<1>27. ASSUME NEW t \in Threads, InitSucceeds(t) PROVE TimerInv'
  BY <1>27, TimerKept DEF InitSucceeds, timers
<1>28. ASSUME NEW t \in Threads, InitFails(t) PROVE TimerInv'
  BY <1>28, TimerKept DEF InitFails, timers
<1>29. ASSUME NEW t \in Threads, EndLoop(t) PROVE TimerInv'
  BY <1>29, TimerKept DEF EndLoop, timers
<1>30. ASSUME NEW t \in Threads, CloseFile(t) PROVE TimerInv'
  BY <1>30, TimerKept DEF CloseFile, timers
<1>31. ASSUME NEW t \in Threads, IOFinishes(t) PROVE TimerInv'
  BY <1>31, TimerKept DEF IOFinishes, timers
<1>32. CASE VideoFails
  BY <1>32, TimerKept DEF VideoFails, timers
<1>33. CASE VideoLoopEnds
  BY <1>33, TimerKept DEF VideoLoopEnds, timers
<1>34. CASE ExitChecks
  BY <1>34, TimerKept DEF ExitChecks, timers
<1>35. CASE ExitStops
  BY <1>35, TimerKept DEF ExitStops, timers
<1>36. CASE ExitJoins
  BY <1>36, TimerKept DEF ExitJoins, timers
<1>37. CASE Terminated
  BY <1>37, TimerKept DEF Terminated, timers, vars
<1> QED
  BY <1>1, <1>2, <1>3, <1>4, <1>5, <1>6, <1>7, <1>8, <1>9, <1>10,
     <1>11, <1>12, <1>13, <1>14, <1>15, <1>16, <1>17, <1>18, <1>19, <1>20,
     <1>21, <1>22, <1>23, <1>24, <1>25, <1>26, <1>27, <1>28, <1>29, <1>30,
     <1>31, <1>32, <1>33, <1>34, <1>35, <1>36, <1>37
  DEF Next, GtkThread, Event, IOThread, VideoThread

ThreadTypes ==
  /\ handle \in 0 .. MaxThreads /\ joins \in [Threads -> 0 .. 2]
  /\ io \in [Threads -> {"none", "created", "init", "run", "close", "finish", "failed", "gone"}]
  /\ vpc \in {"loop", "exit", "stop", "join", "gone"}

LEMMA JoinedType ==
  ASSUME joins \in [Threads -> 0 .. 2], NEW t, Joined(t)
  PROVE  joins' \in [Threads -> 0 .. 2]
<1>1. /\ DOMAIN joins' = Threads /\ joins' = [s \in Threads |-> joins'[s]]
      /\ \A s \in Threads : joins'[s] \in {joins[s], 1, 2}
  BY DEF Joined
<1>2. \A s \in Threads : joins'[s] \in 0 .. 2
  BY <1>1
<1> QED
  BY <1>1, <1>2

LEMMA ThreadStep ==
  ASSUME ThreadTypes, Next
  PROVE  ThreadTypes'
<1>1. CASE ReadCapVid
  BY <1>1 DEF ReadCapVid, ThreadTypes, threads
<1>2. CASE StopCapture
  BY <1>2 DEF StopCapture, ThreadTypes, threads
<1>3. CASE JoinIO
  BY <1>3, JoinedType DEF JoinIO, ThreadTypes
<1>4. CASE ReleaseTimer
  BY <1>4 DEF ReleaseTimer, ThreadTypes, threads
<1>5. CASE SuperviseStart
  BY <1>5 DEF SuperviseStart, ThreadTypes, threads
<1>6. CASE StartRefused
  BY <1>6 DEF StartRefused, ThreadTypes, threads
<1>7. CASE CreateIO
  <2>1. UNCHANGED <<joins, vpc>>
    BY <1>7 DEF CreateIO
  <2>2. \/ UNCHANGED <<handle, io>>
        \/ \E t \in Threads : /\ handle' \in {handle, t}
                             /\ \/ io' = [io EXCEPT ![t] = "created"]
                                \/ io' = [io EXCEPT ![t] = "gone"]
    BY <1>7 DEF CreateIO, CreateThread, CreateFails, NewThreads
  <2>3. \A t \in Threads : t \in 0 .. MaxThreads
    BY BoundsAssumption DEF Threads
  <2> QED
    BY <2>1, <2>2, <2>3 DEF ThreadTypes
<1>8. CASE LabelButton
  BY <1>8 DEF LabelButton, ThreadTypes, threads
<1>9. CASE MainStarts
  <2>1. UNCHANGED <<joins, vpc>>
    BY <1>9 DEF MainStarts
  <2>2. \/ UNCHANGED <<handle, io>>
        \/ \E t \in Threads : /\ handle' \in {handle, t}
                             /\ \/ io' = [io EXCEPT ![t] = "created"]
                                \/ io' = [io EXCEPT ![t] = "gone"]
    BY <1>9 DEF MainStarts, CreateThread, CreateFails, NewThreads
  <2>3. \A t \in Threads : t \in 0 .. MaxThreads
    BY BoundsAssumption DEF Threads
  <2> QED
    BY <2>1, <2>2, <2>3 DEF ThreadTypes
<1>10. CASE MainLocks
  BY <1>10 DEF MainLocks, ThreadTypes, threads
<1>11. CASE MainFails
  BY <1>11 DEF MainFails, ThreadTypes, threads
<1>12. CASE MainGoesOn
  BY <1>12 DEF MainGoesOn, ThreadTypes, threads
<1>13. CASE DiskStops
  BY <1>13 DEF DiskStops, ThreadTypes, threads
<1>14. CASE DiskTimerEnds
  BY <1>14 DEF DiskTimerEnds, ThreadTypes, threads
<1>15. CASE TimerEnds
  BY <1>15 DEF TimerEnds, ThreadTypes, threads
<1>16. CASE SignalQuit
  BY <1>16 DEF SignalQuit, ThreadTypes, threads
<1>17. CASE AwaitVideo
  BY <1>17 DEF AwaitVideo, ThreadTypes, threads
<1>18. CASE CleanStruct
  BY <1>18 DEF CleanStruct, ThreadTypes, threads
<1>19. CASE CloseDialog
  BY <1>19 DEF CloseDialog, ThreadTypes, threads
<1>20. CASE Click
  BY <1>20 DEF Click, ThreadTypes, threads
<1>21. CASE Key
  BY <1>21 DEF Key, ThreadTypes, threads
<1>22. CASE ChangeResolution
  BY <1>22 DEF ChangeResolution, ThreadTypes, threads
<1>23. CASE CaptureTimer
  BY <1>23 DEF CaptureTimer, ThreadTypes, threads
<1>24. CASE Quit
  BY <1>24 DEF Quit, ThreadTypes, threads
<1>25. ASSUME NEW id \in Threads, DiskTimer(id) PROVE ThreadTypes'
  BY <1>25 DEF DiskTimer, ThreadTypes, threads
<1>26. ASSUME NEW t \in Threads, IOStarts(t) PROVE ThreadTypes'
  BY <1>26 DEF IOStarts, ThreadTypes, threads
<1>27. ASSUME NEW t \in Threads, InitSucceeds(t) PROVE ThreadTypes'
  BY <1>27 DEF InitSucceeds, ThreadTypes, threads
<1>28. ASSUME NEW t \in Threads, InitFails(t) PROVE ThreadTypes'
  BY <1>28 DEF InitFails, ThreadTypes, threads
<1>29. ASSUME NEW t \in Threads, EndLoop(t) PROVE ThreadTypes'
  BY <1>29 DEF EndLoop, ThreadTypes, threads
<1>30. ASSUME NEW t \in Threads, CloseFile(t) PROVE ThreadTypes'
  BY <1>30 DEF CloseFile, ThreadTypes, threads
<1>31. ASSUME NEW t \in Threads, IOFinishes(t) PROVE ThreadTypes'
  BY <1>31 DEF IOFinishes, ThreadTypes, threads
<1>32. CASE VideoFails
  BY <1>32 DEF VideoFails, ThreadTypes, threads
<1>33. CASE VideoLoopEnds
  BY <1>33 DEF VideoLoopEnds, ThreadTypes, threads
<1>34. CASE ExitChecks
  BY <1>34 DEF ExitChecks, ThreadTypes, threads
<1>35. CASE ExitStops
  BY <1>35 DEF ExitStops, ThreadTypes, threads
<1>36. CASE ExitJoins
  BY <1>36, JoinedType DEF ExitJoins, ThreadTypes
<1>37. CASE Terminated
  BY <1>37 DEF Terminated, ThreadTypes, threads, vars
<1> QED
  BY <1>1, <1>2, <1>3, <1>4, <1>5, <1>6, <1>7, <1>8, <1>9, <1>10,
     <1>11, <1>12, <1>13, <1>14, <1>15, <1>16, <1>17, <1>18, <1>19, <1>20,
     <1>21, <1>22, <1>23, <1>24, <1>25, <1>26, <1>27, <1>28, <1>29, <1>30,
     <1>31, <1>32, <1>33, <1>34, <1>35, <1>36, <1>37
  DEF Next, GtkThread, Event, IOThread, VideoThread

-----------------------------------------------------------------------------
(***************************************************************************)
(* The types, and capture_vid entered once.                                *)
(***************************************************************************)
EntryInv == StackInv /\ FlagTypes /\ TimerInv /\ ThreadTypes

LEMMA EntryInit == Init => EntryInv
<1> SUFFICES ASSUME Init PROVE EntryInv
  OBVIOUS
<1>1. StackInv
  <2>1. dispatched = <<>> /\ Len(<<>>) = 0 /\ dispatched \in Seq(Threads)
    BY DEF Init
  <2>2. Good(<<>>, 0, display)
    BY DispatchingEmpty, NothingNested DEF Good
  <2>3. CASE todo = <<>>
    BY <2>1, <2>2, <2>3 DEF StackInv
  <2>4. CASE todo = <<"main">>
    <3>1. "main" \in Others /\ "main" \notin Enters /\ "main" # "dialog" /\ "main" \in Steps
      BY Names DEF Plain
    <3>2. Good(<<"main">> \o <<>>, 0, display)
      BY <2>2, <3>1, NothingNested, GoodPushed
    <3>3. <<"main">> \o <<>> = <<"main">>
      <4>1. <<"main">> \in Seq(Steps)
        BY <3>1
      <4> QED
        BY <4>1, ConcatEmptySeq
    <3> QED
      BY <2>1, <2>4, <3>2, <3>3 DEF StackInv
  <2> QED
    BY <2>3, <2>4 DEF Init
<1>2. FlagTypes
  BY Zenon DEF Init, FlagTypes
<1>3. TimerInv
  BY BoundsAssumption DEF Init, TimerInv
<1>4. ThreadTypes
  BY BoundsAssumption DEF Init, ThreadTypes
<1> QED
  BY <1>1, <1>2, <1>3, <1>4 DEF EntryInv

LEMMA EntryStep == EntryInv /\ [Next]_vars => EntryInv'
<1> SUFFICES ASSUME EntryInv, [Next]_vars PROVE EntryInv'
  OBVIOUS
<1> USE DEF EntryInv
<1>1. CASE Next
  <2>1. display \in BOOLEAN
    BY DEF FlagTypes
  <2> QED
    BY <1>1, <2>1, StackStep, FlagStep, TimerStep, ThreadStep
<1>2. CASE UNCHANGED vars
  <2>1. UNCHANGED <<todo, dispatched, display>>
    BY <1>2 DEF vars, config, timers
  <2>2. StackInv'
    BY <2>1 DEF StackInv
  <2>3. FlagTypes'
    BY <1>2, Zenon DEF FlagTypes, vars, flags, config, window, timers
  <2>4. TimerInv'
    BY <1>2, TimerKept DEF vars, timers
  <2>5. ThreadTypes'
    BY <1>2 DEF ThreadTypes, vars, threads
  <2> QED
    BY <2>2, <2>3, <2>4, <2>5
<1> QED
  BY <1>1, <1>2

LEMMA EntryAlways == Spec => []EntryInv
  BY EntryInit, EntryStep, PTL DEF Spec

LEMMA TypesHold == EntryInv => TypeOK
<1> SUFFICES ASSUME EntryInv PROVE TypeOK
  OBVIOUS
<1>1. todo \in Seq(Steps) /\ dispatched \in Seq(Threads)
  BY DEF EntryInv, StackInv, Good
<1> QED
  BY <1>1, Zenon DEF EntryInv, FlagTypes, TimerInv, ThreadTypes, TypeOK

(* Every variable ranges over what its declaration in the code holds: what *)
(* a disk check destroys is the source that is being dispatched, and there *)
(* is one.                                                                 *)
THEOREM CaptureTypes == Spec => []TypeOK
  BY EntryAlways, TypesHold, PTL

(* A set with at most one element.                                         *)
LEMMA AtMostOne ==
  ASSUME NEW S, \A i, j \in S : i = j
  PROVE  Cardinality(S) <= 1
<1>1. CASE S = {}
  BY <1>1, FS_EmptySet
<1>2. CASE S # {}
  <2>1. PICK x : x \in S
    BY <1>2
  <2>2. S = {x}
    BY <2>1
  <2>3. Cardinality({x}) = 1
    BY FS_Singleton
  <2> QED
    BY <2>2, <2>3
<1> QED
  BY <1>1, <1>2

LEMMA EnteredOnce == EntryInv => NotReentered
<1> SUFFICES ASSUME EntryInv PROVE NotReentered
  OBVIOUS
<1> DEFINE E == {i \in DOMAIN todo : todo[i] \in CaptureVidSteps}
           D == sources \ ToSet(dispatched)
<1>1. todo \in Seq(Steps) /\ Ordered(todo) /\ DOMAIN todo = 1 .. Len(todo) /\ Len(todo) \in Nat
  BY DEF EntryInv, StackInv, Good, Nested
<1>2. \A i, j \in E : ~(i < j)
  BY <1>1, Names DEF Ordered
<1>3. \A i, j \in E : i = j
  <2>1. \A i \in E : i \in Nat
    BY <1>1
  <2> HIDE DEF E
  <2> QED
    BY <1>2, <2>1
<1>4. \A i, j \in D : i = j
  BY DEF EntryInv, TimerInv
<1> HIDE DEF E, D
<1>5. Cardinality(E) <= 1 /\ Cardinality(D) <= 1
  BY <1>3, <1>4, AtMostOne
<1> QED
  BY <1>5 DEF E, D, NotReentered

(* capture_vid is not entered while it runs, also not from the main loop   *)
(* of a dialog that it or a timer opens, and there is one disk check at a  *)
(* time, one that is about to be destroyed aside.                          *)
THEOREM EntersOnce == Spec => []NotReentered
  BY EntryAlways, EnteredOnce, PTL

-----------------------------------------------------------------------------
(***************************************************************************)
(* A patient environment: what remains to be done below a handler.         *)
(***************************************************************************)
Rest == {"timer ends", "disk ends", "not started"}
Bottom == {"main", "main locks", "main fails", "signal", "await", "clean"} \cup Rest
IsRest(q) == q = <<>> \/ (Head(q) \in Rest /\ Tail(q) = <<>>)
Opened(q) ==
  /\ q # <<>>
  /\ \/ Head(q) \in {"refused", "disk stops"} /\ IsRest(Tail(q))
     \/ Head(q) = "main fails" /\ Tail(q) = <<>>
Shaped(q) ==
  \/ q = <<>>
  \/ Head(q) \in Bottom /\ Tail(q) = <<>>
  \/ Head(q) \in Enters \cup {"disk stops"} /\ IsRest(Tail(q))
  \/ Head(q) = "dialog" /\ Opened(Tail(q))

(* The next step of the GTK thread.                                        *)
StepOf(q) == IF q = <<>> THEN "idle" ELSE Head(q)
Step == StepOf(todo)

LEMMA Tops ==
  ASSUME NEW q \in Seq(Steps), NEW x \in Steps
  PROVE  /\ StepOf(<<x>> \o q) = x
         /\ x \in Bottom /\ q = <<>> => Shaped(<<x>> \o q)
         /\ x \in Rest /\ q = <<>> => IsRest(<<x>> \o q)
         /\ x \in Enters \cup {"disk stops"} /\ IsRest(q) => Shaped(<<x>> \o q)
         /\ x = "dialog" /\ Opened(q) => Shaped(<<x>> \o q)
         /\ x \in {"refused", "disk stops"} /\ IsRest(q) => Opened(<<x>> \o q)
         /\ x = "main fails" /\ q = <<>> => Opened(<<x>> \o q)
<1> DEFINE p == <<x>> \o q
<1>1. p # <<>> /\ Head(p) = x /\ Tail(p) = q
  BY Pushed
<1> HIDE DEF p
<1>2. StepOf(p) = x
  BY <1>1 DEF StepOf
<1>3. x \in Bottom /\ q = <<>> => Shaped(p)
  BY <1>1 DEF Shaped
<1>4. x \in Rest /\ q = <<>> => IsRest(p)
  BY <1>1 DEF IsRest
<1>5. x \in Enters \cup {"disk stops"} /\ IsRest(q) => Shaped(p)
  BY <1>1 DEF Shaped
<1>6. x = "dialog" /\ Opened(q) => Shaped(p)
  BY <1>1 DEF Shaped
<1>7. x \in {"refused", "disk stops"} /\ IsRest(q) => Opened(p)
  BY <1>1 DEF Opened
<1>8. x = "main fails" /\ q = <<>> => Opened(p)
  BY <1>1 DEF Opened
<1> QED
  BY <1>2, <1>3, <1>4, <1>5, <1>6, <1>7, <1>8 DEF p

LEMMA Unders ==
  ASSUME NEW q, q # <<>>, Shaped(q)
  PROVE  /\ StepOf(q) = Head(q)
         /\ Head(q) \in Enters \cup {"disk stops"} => IsRest(Tail(q))
         /\ Head(q) \in Bottom => Tail(q) = <<>>
         /\ Head(q) = "dialog" => Opened(Tail(q))
<1>1. StepOf(q) = Head(q)
  BY DEF StepOf
<1>2. /\ "dialog" \notin Bottom /\ "dialog" \notin Enters
      /\ Bottom \cap (Enters \cup {"disk stops"}) = {}
  BY DEF Bottom, Rest, Enters, CaptureVidSteps
<1> QED
  BY <1>1, <1>2 DEF Shaped

LEMMA Lows ==
  ASSUME NEW q
  PROVE  /\ IsRest(q) => StepOf(q) \in Rest \cup {"idle"} /\ Shaped(q)
         /\ Opened(q) => StepOf(q) \in {"refused", "disk stops", "main fails"} /\ Shaped(q)
         /\ IsRest(<<>>) /\ Shaped(<<>>) /\ StepOf(<<>>) = "idle"
<1>1. "refused" \in Enters /\ "main fails" \in Bottom /\ Rest \subseteq Bottom
  BY DEF Enters, CaptureVidSteps, Bottom
<1> QED
  BY <1>1 DEF IsRest, Opened, Shaped, StepOf

-----------------------------------------------------------------------------
(***************************************************************************)
(* What holds in a patient environment.                                    *)
(***************************************************************************)
Live(t) == io[t] \notin {"none", "gone"}

(* The shutdown: the video thread ends between "await" and "clean".        *)
ShutdownInv ==
  /\ signalquit <=> (Step \in {"await", "clean"} \/ freed)
  /\ freed => Step = "idle"
  /\ vpc # "loop" => signalquit
  /\ Step = "clean" \/ freed => vpc = "gone"

(* The thread that lives is the one of the handle, and not joined.         *)
HandleInv ==
  /\ \A t \in Threads : Live(t) => t = handle /\ joins[t] = 0
  /\ \A t \in Threads : joins[t] <= 1 /\ (io[t] = "none" => joins[t] = 0)
  /\ capVid => handle \in Threads /\ io[handle] = "run"

(* While a capture starts there is nothing to do but to wait for it, or to *)
(* shut down after the capture timer.                                      *)
Waits == {"idle", "label", "main locks", "signal", "await", "clean"} \cup Rest
StartInv ==
  /\ Starting => Step \in Waits
  /\ Step \in {"supervise", "create", "main"} => ~capVid
  /\ Starting /\ (Step = "signal" \/ signalquit) => option = "exit"

(* A thread lives without capVid while it starts or somebody joins it.     *)
StopInv ==
  /\ Step = "stop" \/ vpc = "stop" => capVid
  /\ Step = "join" \/ vpc = "join"
       => handle \in Threads /\ joins[handle] = 0 /\ io[handle] \in {"run", "close", "finish", "gone"}
  /\ \A t \in Threads : Live(t) => capVid \/ Starting \/ Step = "join" \/ vpc = "join"
  /\ vpc = "gone" => option = "exit" \/ \A t \in Threads : ~Live(t)

PatientInv == Shaped(todo) /\ ShutdownInv /\ HandleInv /\ StartInv /\ StopInv

(* The steps of the GTK thread by what they do to the threads.             *)
core == <<signalquit, freed, handle, joins, vpc, option>>

Handles ==
  /\ ~freed /\ UNCHANGED <<core, capVid, io>>
  /\ Step \notin {"stop", "join", "await", "clean"}
  /\ Step' \notin {"join", "await", "clean", "main"}
  /\ Step' = "stop" => capVid
  /\ Step' \in {"supervise", "create"} => ~capVid
  /\ Step' \notin Waits => ~Starting
  /\ Step' = "signal" => option = "exit" \/ ~Starting

Stops == Step = "stop" /\ Step' = "join" /\ capVid' = FALSE /\ UNCHANGED <<core, io>> /\ ~freed

Joins ==
  /\ Step = "join" /\ Step' = "release" /\ ~freed
  /\ io[handle] = "gone" /\ Joined(handle)
  /\ UNCHANGED <<signalquit, freed, handle, vpc, option, capVid, io>>

Creates(t) ==
  /\ Step \in {"create", "main"} /\ Step' \in {"label", "main locks"} /\ ~freed
  /\ handle' = t /\ io' = [io EXCEPT ![t] = "created"]
  /\ UNCHANGED <<signalquit, freed, joins, vpc, option, capVid>>

NotCreated(t) ==
  /\ Step \in {"create", "main"} /\ Step' \in {"refused", "main fails"} /\ ~freed
  /\ io' = [io EXCEPT ![t] = "gone"]
  /\ UNCHANGED <<core, capVid>>

Shuts ==
  /\ ~freed /\ UNCHANGED <<handle, joins, vpc, option, capVid, io>>
  /\ \/ Step = "signal" /\ Step' = "await" /\ signalquit' = TRUE /\ UNCHANGED freed
     \/ Step = "await" /\ Step' = "clean" /\ vpc = "gone" /\ UNCHANGED <<signalquit, freed>>
     \/ Step = "clean" /\ Step' = "idle" /\ freed' = TRUE /\ UNCHANGED signalquit

Elsewhere ==
  /\ UNCHANGED <<todo, option, freed>>
  /\ (\E t \in Threads : IOThread(t)) \/ VideoThread

Moves ==
  \/ Handles \/ Stops \/ Joins \/ Shuts \/ Elsewhere
  \/ \E t \in NewThreads : Creates(t) \/ NotCreated(t)
  \/ Terminated

(* The events come when nothing is left to be done.                        *)
LEMMA PatientReady ==
  ASSUME StackInv, patient = TRUE, LoopReady
  PROVE  todo = <<>> /\ ~freed /\ ~Starting /\ Step = "idle"
  BY DEF LoopReady, WindowReady, Step, StepOf

LEMMA MovesStep ==
  ASSUME StackInv, display \in BOOLEAN, patient = TRUE, Shaped(todo), StartInv, Next
  PROVE  Shaped(todo') /\ Moves
<1>0. display = TRUE \/ display = FALSE
  OBVIOUS
<1>1. /\ \A x \in Enters \cup Bottom \cup {"disk stops", "dialog"} : x \in Steps
      /\ {"stop", "join", "release", "supervise", "refused", "create", "label", "read"} = Enters
      /\ Rest \subseteq Bottom
  BY DEF Enters, Bottom, Rest, Steps, CaptureVidSteps
<1>nil. <<>> \in Seq(Steps) /\ <<>> \o <<>> = <<>>
  <2>1. <<>> \in Seq(Steps)
    OBVIOUS
  <2> QED
    BY <2>1, ConcatEmptySeq
<1>2. CASE ReadCapVid
  <2>1. todo # <<>> /\ Head(todo) = "read" /\ ~freed
    BY <1>2 DEF ReadCapVid, At
  <2>2. /\ Step = "read"
        /\ Head(todo) \in Enters \cup {"disk stops"} => IsRest(Tail(todo))
        /\ Head(todo) \in Bottom => Tail(todo) = <<>>
        /\ Tail(todo) \in Seq(Steps) /\ <<>> \o Tail(todo) = Tail(todo)
    BY <2>1, Unders, Done DEF Step
  <2>3. UNCHANGED <<core, capVid, io>>
    BY <1>2 DEF ReadCapVid, flags, config, threads, core
  <2>4. \/ capVid /\ todo' = <<"stop">> \o Tail(todo)
        \/ ~capVid /\ todo' = <<"supervise">> \o Tail(todo)
    BY <1>2 DEF ReadCapVid, Then
  <2>5. ASSUME todo' = <<"stop">> \o Tail(todo) PROVE Shaped(todo') /\ Step' = "stop"
    <3>1. "stop" \in Steps /\ ("stop" \in Enters \/ "stop" \in Bottom)
      BY <1>1 DEF Bottom
    <3>2. "stop" \in Enters => IsRest(Tail(todo))
      BY <1>1, <2>1, <2>2, Lows DEF Bottom
    <3>3. "stop" \in Bottom => Tail(todo) = <<>>
      BY <1>1, <2>1, <2>2 DEF Bottom, Rest
    <3> QED
      BY <3>1, <3>2, <3>3, <2>2, <2>5, Tops DEF Step
  <2>6. ASSUME todo' = <<"supervise">> \o Tail(todo) PROVE Shaped(todo') /\ Step' = "supervise"
    <3>1. "supervise" \in Steps /\ ("supervise" \in Enters \/ "supervise" \in Bottom)
      BY <1>1 DEF Bottom
    <3>2. "supervise" \in Enters => IsRest(Tail(todo))
      BY <1>1, <2>1, <2>2, Lows DEF Bottom
    <3>3. "supervise" \in Bottom => Tail(todo) = <<>>
      BY <1>1, <2>1, <2>2 DEF Bottom, Rest
    <3> QED
      BY <3>1, <3>2, <3>3, <2>2, <2>6, Tops DEF Step
  <2>7. Handles
    BY <2>1, <2>2, <2>3, <2>4, <2>5, <2>6 DEF Handles, Waits, Rest, StartInv
  <2> QED
    BY <2>4, <2>5, <2>6, <2>7 DEF Moves
<1>3. CASE StopCapture
  <2>1. todo # <<>> /\ Head(todo) = "stop" /\ ~freed
    BY <1>3 DEF StopCapture, At
  <2>2. /\ Step = "stop"
        /\ Head(todo) \in Enters \cup {"disk stops"} => IsRest(Tail(todo))
        /\ Head(todo) \in Bottom => Tail(todo) = <<>>
        /\ Tail(todo) \in Seq(Steps) /\ <<>> \o Tail(todo) = Tail(todo)
    BY <2>1, Unders, Done DEF Step
  <2>3. UNCHANGED <<core, io>> /\ capVid' = FALSE
    BY <1>3 DEF StopCapture, config, threads, core
  <2>4. todo' = <<"join">> \o Tail(todo)
    BY <1>3 DEF StopCapture, Then
  <2>5. ASSUME todo' = <<"join">> \o Tail(todo) PROVE Shaped(todo') /\ Step' = "join"
    <3>1. "join" \in Steps /\ ("join" \in Enters \/ "join" \in Bottom)
      BY <1>1 DEF Bottom
    <3>2. "join" \in Enters => IsRest(Tail(todo))
      BY <1>1, <2>1, <2>2, Lows DEF Bottom
    <3>3. "join" \in Bottom => Tail(todo) = <<>>
      BY <1>1, <2>1, <2>2 DEF Bottom, Rest
    <3> QED
      BY <3>1, <3>2, <3>3, <2>2, <2>5, Tops DEF Step
  <2>6. Stops
    BY <2>1, <2>2, <2>3, <2>4, <2>5 DEF Stops
  <2> QED
    BY <2>4, <2>5, <2>6 DEF Moves
<1>4. CASE JoinIO
  <2>1. todo # <<>> /\ Head(todo) = "join" /\ ~freed
    BY <1>4 DEF JoinIO, At
  <2>2. /\ Step = "join"
        /\ Head(todo) \in Enters \cup {"disk stops"} => IsRest(Tail(todo))
        /\ Head(todo) \in Bottom => Tail(todo) = <<>>
        /\ Tail(todo) \in Seq(Steps) /\ <<>> \o Tail(todo) = Tail(todo)
    BY <2>1, Unders, Done DEF Step
  <2>3. /\ UNCHANGED <<signalquit, freed, handle, vpc, option, capVid, io>>
        /\ io[handle] = "gone" /\ Joined(handle)
    BY <1>4 DEF JoinIO, JoinReturns, flags, config
  <2>4. todo' = <<"release">> \o Tail(todo)
    BY <1>4 DEF JoinIO, Then
  <2>5. ASSUME todo' = <<"release">> \o Tail(todo) PROVE Shaped(todo') /\ Step' = "release"
    <3>1. "release" \in Steps /\ ("release" \in Enters \/ "release" \in Bottom)
      BY <1>1 DEF Bottom
    <3>2. "release" \in Enters => IsRest(Tail(todo))
      BY <1>1, <2>1, <2>2, Lows DEF Bottom
    <3>3. "release" \in Bottom => Tail(todo) = <<>>
      BY <1>1, <2>1, <2>2 DEF Bottom, Rest
    <3> QED
      BY <3>1, <3>2, <3>3, <2>2, <2>5, Tops DEF Step
  <2>6. Joins
    BY <2>1, <2>2, <2>3, <2>4, <2>5 DEF Joins
  <2> QED
    BY <2>4, <2>5, <2>6 DEF Moves
<1>5. CASE SuperviseStart
  <2>1. todo # <<>> /\ Head(todo) = "supervise" /\ ~freed
    BY <1>5 DEF SuperviseStart, At
  <2>2. /\ Step = "supervise"
        /\ Head(todo) \in Enters \cup {"disk stops"} => IsRest(Tail(todo))
        /\ Head(todo) \in Bottom => Tail(todo) = <<>>
        /\ Tail(todo) \in Seq(Steps) /\ <<>> \o Tail(todo) = Tail(todo)
    BY <2>1, Unders, Done DEF Step
  <2>3. UNCHANGED <<core, capVid, io>>
    BY <1>5 DEF SuperviseStart, flags, config, threads, core
  <2>4. \/ todo' = <<"create">> \o Tail(todo) \/ todo' = <<"refused">> \o Tail(todo)
        \/ todo' = <<"dialog", "refused">> \o Tail(todo)
    BY <1>5, <1>0 DEF SuperviseStart, DiskIsFull, Then
  <2>5. ASSUME todo' = <<"create">> \o Tail(todo) PROVE Shaped(todo') /\ Step' = "create"
    <3>1. "create" \in Steps /\ ("create" \in Enters \/ "create" \in Bottom)
      BY <1>1 DEF Bottom
    <3>2. "create" \in Enters => IsRest(Tail(todo))
      BY <1>1, <2>1, <2>2, Lows DEF Bottom
    <3>3. "create" \in Bottom => Tail(todo) = <<>>
      BY <1>1, <2>1, <2>2 DEF Bottom, Rest
    <3> QED
      BY <3>1, <3>2, <3>3, <2>2, <2>5, Tops DEF Step
  <2>6. ASSUME todo' = <<"refused">> \o Tail(todo) PROVE Shaped(todo') /\ Step' = "refused"
    <3>1. "refused" \in Steps /\ ("refused" \in Enters \/ "refused" \in Bottom)
      BY <1>1 DEF Bottom
    <3>2. "refused" \in Enters => IsRest(Tail(todo))
      BY <1>1, <2>1, <2>2, Lows DEF Bottom
    <3>3. "refused" \in Bottom => Tail(todo) = <<>>
      BY <1>1, <2>1, <2>2 DEF Bottom, Rest
    <3> QED
      BY <3>1, <3>2, <3>3, <2>2, <2>6, Tops DEF Step
  <2>7. ASSUME todo' = <<"dialog", "refused">> \o Tail(todo) 
        PROVE  Shaped(todo') /\ Step' = "dialog"
    <3> DEFINE mid == <<"refused">> \o Tail(todo)
    <3>1. "refused" \in Steps /\ "dialog" \in Steps
      BY <1>1 DEF Bottom
    <3>2. todo' = <<"dialog">> \o mid
      BY <2>7, <3>1, <2>2, TwoPushed
    <3>3. mid \in Seq(Steps)
      BY <3>1, <2>2, Pushed
    <3>4. Opened(mid)
      <4>1. "refused" = "main fails" => Tail(todo) = <<>>
        BY <1>1, <2>1, <2>2 DEF Bottom
      <4>2. "refused" # "main fails" => IsRest(Tail(todo))
        BY <1>1, <2>1, <2>2 DEF Bottom
      <4> QED
        BY <3>1, <4>1, <4>2, <2>2, Tops
    <3> HIDE DEF mid
    <3> QED
      BY <3>1, <3>2, <3>3, <3>4, Tops DEF Step
  <2>8. Shaped(todo') /\ Step' \in {"create", "refused", "dialog"}
    BY <2>4, <2>5, <2>6, <2>7
  <2>9. Handles
    BY <2>1, <2>2, <2>3, <2>8 DEF Handles, Waits, Rest, StartInv
  <2> QED
    BY <2>8, <2>9 DEF Moves
<1>6. CASE CreateIO
  <2>1. todo # <<>> /\ Head(todo) = "create" /\ ~freed
    BY <1>6 DEF CreateIO, At
  <2>2. /\ Step = "create"
        /\ Head(todo) \in Enters \cup {"disk stops"} => IsRest(Tail(todo))
        /\ Head(todo) \in Bottom => Tail(todo) = <<>>
        /\ Tail(todo) \in Seq(Steps) /\ <<>> \o Tail(todo) = Tail(todo)
    BY <2>1, Unders, Done DEF Step
  <2>3. UNCHANGED <<signalquit, freed, joins, vpc, option, capVid>>
    BY <1>6 DEF CreateIO, flags, config, threads
  <2>4. PICK t \in NewThreads :
          \/ CreateThread(t) /\ todo' = <<"label">> \o Tail(todo)
          \/ CreateFails(t) /\ todo' = <<"refused">> \o Tail(todo)
    BY <1>6 DEF CreateIO, Then
  <2>5. ASSUME todo' = <<"label">> \o Tail(todo) PROVE Shaped(todo') /\ Step' = "label"
    <3>1. "label" \in Steps /\ ("label" \in Enters \/ "label" \in Bottom)
      BY <1>1 DEF Bottom
    <3>2. "label" \in Enters => IsRest(Tail(todo))
      BY <1>1, <2>1, <2>2, Lows DEF Bottom
    <3>3. "label" \in Bottom => Tail(todo) = <<>>
      BY <1>1, <2>1, <2>2 DEF Bottom, Rest
    <3> QED
      BY <3>1, <3>2, <3>3, <2>2, <2>5, Tops DEF Step
  <2>6. ASSUME todo' = <<"refused">> \o Tail(todo) PROVE Shaped(todo') /\ Step' = "refused"
    <3>1. "refused" \in Steps /\ ("refused" \in Enters \/ "refused" \in Bottom)
      BY <1>1 DEF Bottom
    <3>2. "refused" \in Enters => IsRest(Tail(todo))
      BY <1>1, <2>1, <2>2, Lows DEF Bottom
    <3>3. "refused" \in Bottom => Tail(todo) = <<>>
      BY <1>1, <2>1, <2>2 DEF Bottom, Rest
    <3> QED
      BY <3>1, <3>2, <3>3, <2>2, <2>6, Tops DEF Step
  <2>7. Shaped(todo') /\ (Creates(t) \/ NotCreated(t))
    BY <2>1, <2>2, <2>3, <2>4, <2>5, <2>6
    DEF CreateThread, CreateFails, Creates, NotCreated, core
  <2> QED
    BY <2>7 DEF Moves
<1>7. CASE MainStarts
  <2>1. todo # <<>> /\ Head(todo) = "main" /\ ~freed
    BY <1>7 DEF MainStarts, At
  <2>2. /\ Step = "main"
        /\ Head(todo) \in Enters \cup {"disk stops"} => IsRest(Tail(todo))
        /\ Head(todo) \in Bottom => Tail(todo) = <<>>
        /\ Tail(todo) \in Seq(Steps) /\ <<>> \o Tail(todo) = Tail(todo)
    BY <2>1, Unders, Done DEF Step
  <2>3. UNCHANGED <<signalquit, freed, joins, vpc, option, capVid>>
    BY <1>7 DEF MainStarts, flags, config, threads
  <2>4. \/ \E t \in NewThreads :
             \/ CreateThread(t) /\ todo' = <<"main locks">> \o Tail(todo)
             \/ CreateFails(t) /\ todo' = <<"main fails">> \o Tail(todo)
        \/ /\ UNCHANGED <<handle, io>>
           /\ \/ todo' = <<"main fails">> \o Tail(todo)
              \/ todo' = <<"dialog", "main fails">> \o Tail(todo)
    BY <1>7, <1>0 DEF MainStarts, DiskIsFull, Then
  <2>5. ASSUME todo' = <<"main locks">> \o Tail(todo) PROVE Shaped(todo') /\ Step' = "main locks"
    <3>1. "main locks" \in Steps /\ ("main locks" \in Enters \/ "main locks" \in Bottom)
      BY <1>1 DEF Bottom
    <3>2. "main locks" \in Enters => IsRest(Tail(todo))
      BY <1>1, <2>1, <2>2, Lows DEF Bottom
    <3>3. "main locks" \in Bottom => Tail(todo) = <<>>
      BY <1>1, <2>1, <2>2 DEF Bottom, Rest
    <3> QED
      BY <3>1, <3>2, <3>3, <2>2, <2>5, Tops DEF Step
  <2>6. ASSUME todo' = <<"main fails">> \o Tail(todo) PROVE Shaped(todo') /\ Step' = "main fails"
    <3>1. "main fails" \in Steps /\ ("main fails" \in Enters \/ "main fails" \in Bottom)
      BY <1>1 DEF Bottom
    <3>2. "main fails" \in Enters => IsRest(Tail(todo))
      BY <1>1, <2>1, <2>2, Lows DEF Bottom
    <3>3. "main fails" \in Bottom => Tail(todo) = <<>>
      BY <1>1, <2>1, <2>2 DEF Bottom, Rest
    <3> QED
      BY <3>1, <3>2, <3>3, <2>2, <2>6, Tops DEF Step
  <2>7. ASSUME todo' = <<"dialog", "main fails">> \o Tail(todo) 
        PROVE  Shaped(todo') /\ Step' = "dialog"
    <3> DEFINE mid == <<"main fails">> \o Tail(todo)
    <3>1. "main fails" \in Steps /\ "dialog" \in Steps
      BY <1>1 DEF Bottom
    <3>2. todo' = <<"dialog">> \o mid
      BY <2>7, <3>1, <2>2, TwoPushed
    <3>3. mid \in Seq(Steps)
      BY <3>1, <2>2, Pushed
    <3>4. Opened(mid)
      <4>1. "main fails" = "main fails" => Tail(todo) = <<>>
        BY <1>1, <2>1, <2>2 DEF Bottom
      <4>2. "main fails" # "main fails" => IsRest(Tail(todo))
        BY <1>1, <2>1, <2>2 DEF Bottom
      <4> QED
        BY <3>1, <4>1, <4>2, <2>2, Tops
    <3> HIDE DEF mid
    <3> QED
      BY <3>1, <3>2, <3>3, <3>4, Tops DEF Step
  <2>8. ASSUME NEW t \in NewThreads,
               \/ CreateThread(t) /\ todo' = <<"main locks">> \o Tail(todo)
               \/ CreateFails(t) /\ todo' = <<"main fails">> \o Tail(todo)
        PROVE  Shaped(todo') /\ (Creates(t) \/ NotCreated(t))
    BY <2>1, <2>2, <2>3, <2>5, <2>6, <2>8
    DEF CreateThread, CreateFails, Creates, NotCreated, core
  <2>9. ASSUME UNCHANGED <<handle, io>>,
               \/ todo' = <<"main fails">> \o Tail(todo)
               \/ todo' = <<"dialog", "main fails">> \o Tail(todo)
        PROVE  Shaped(todo') /\ Handles
    <3>1. Shaped(todo') /\ Step' \in {"main fails", "dialog"}
      BY <2>6, <2>7, <2>9
    <3>2. UNCHANGED <<core, capVid, io>>
      BY <2>3, <2>9 DEF core
    <3> QED
      BY <2>1, <2>2, <3>1, <3>2 DEF Handles, Waits, Rest, StartInv
  <2> QED
    BY <2>4, <2>8, <2>9 DEF Moves
<1>8. CASE ReleaseTimer
  <2>1. todo # <<>> /\ Head(todo) = "release" /\ ~freed
    BY <1>8 DEF ReleaseTimer, At
  <2>2. /\ Step = "release"
        /\ Head(todo) \in Enters \cup {"disk stops"} => IsRest(Tail(todo))
        /\ Head(todo) \in Bottom => Tail(todo) = <<>>
        /\ Tail(todo) \in Seq(Steps) /\ <<>> \o Tail(todo) = Tail(todo)
    BY <2>1, Unders, Done DEF Step
  <2>3. UNCHANGED <<core, capVid, io>>
    BY <1>8 DEF ReleaseTimer, flags, config, threads, core
  <2>4. todo' = Tail(todo)
    BY <1>8, <2>2 DEF ReleaseTimer, Then
  <2>5. IsRest(Tail(todo))
    BY <1>1, <2>1, <2>2, Lows DEF Bottom, Rest
  <2>6. Shaped(todo') /\ Step' \in Rest \cup {"idle"}
    BY <2>4, <2>5, Lows DEF Step
  <2>7. Handles
    BY <2>1, <2>2, <2>3, <2>6 DEF Handles, Waits, Rest
  <2> QED
    BY <2>6, <2>7 DEF Moves
<1>9. CASE StartRefused
  <2>1. todo # <<>> /\ Head(todo) = "refused" /\ ~freed
    BY <1>9 DEF StartRefused, At
  <2>2. /\ Step = "refused"
        /\ Head(todo) \in Enters \cup {"disk stops"} => IsRest(Tail(todo))
        /\ Head(todo) \in Bottom => Tail(todo) = <<>>
        /\ Tail(todo) \in Seq(Steps) /\ <<>> \o Tail(todo) = Tail(todo)
    BY <2>1, Unders, Done DEF Step
  <2>3. UNCHANGED <<core, capVid, io>>
    BY <1>9 DEF StartRefused, flags, config, threads, core
  <2>4. todo' = Tail(todo)
    BY <1>9, <2>2 DEF StartRefused, Then
  <2>5. IsRest(Tail(todo))
    BY <1>1, <2>1, <2>2, Lows DEF Bottom, Rest
  <2>6. Shaped(todo') /\ Step' \in Rest \cup {"idle"}
    BY <2>4, <2>5, Lows DEF Step
  <2>7. Handles
    BY <2>1, <2>2, <2>3, <2>6 DEF Handles, Waits, Rest
  <2> QED
    BY <2>6, <2>7 DEF Moves
<1>10. CASE LabelButton
  <2>1. todo # <<>> /\ Head(todo) = "label" /\ ~freed
    BY <1>10 DEF LabelButton, At
  <2>2. /\ Step = "label"
        /\ Head(todo) \in Enters \cup {"disk stops"} => IsRest(Tail(todo))
        /\ Head(todo) \in Bottom => Tail(todo) = <<>>
        /\ Tail(todo) \in Seq(Steps) /\ <<>> \o Tail(todo) = Tail(todo)
    BY <2>1, Unders, Done DEF Step
  <2>3. UNCHANGED <<core, capVid, io>>
    BY <1>10 DEF LabelButton, flags, config, threads, core
  <2>4. todo' = Tail(todo)
    BY <1>10, <2>2 DEF LabelButton, Then
  <2>5. IsRest(Tail(todo))
    BY <1>1, <2>1, <2>2, Lows DEF Bottom, Rest
  <2>6. Shaped(todo') /\ Step' \in Rest \cup {"idle"}
    BY <2>4, <2>5, Lows DEF Step
  <2>7. Handles
    BY <2>1, <2>2, <2>3, <2>6 DEF Handles, Waits, Rest
  <2> QED
    BY <2>6, <2>7 DEF Moves
<1>11. CASE MainLocks
  <2>1. todo # <<>> /\ Head(todo) = "main locks" /\ ~freed
    BY <1>11 DEF MainLocks, At
  <2>2. /\ Step = "main locks"
        /\ Head(todo) \in Enters \cup {"disk stops"} => IsRest(Tail(todo))
        /\ Head(todo) \in Bottom => Tail(todo) = <<>>
        /\ Tail(todo) \in Seq(Steps) /\ <<>> \o Tail(todo) = Tail(todo)
    BY <2>1, Unders, Done DEF Step
  <2>3. UNCHANGED <<core, capVid, io>>
    BY <1>11 DEF MainLocks, flags, config, threads, core
  <2>4. todo' = Tail(todo)
    BY <1>11, <2>2 DEF MainLocks, Then
  <2>5. IsRest(Tail(todo))
    BY <1>1, <2>1, <2>2, Lows DEF Bottom, Rest
  <2>6. Shaped(todo') /\ Step' \in Rest \cup {"idle"}
    BY <2>4, <2>5, Lows DEF Step
  <2>7. Handles
    BY <2>1, <2>2, <2>3, <2>6 DEF Handles, Waits, Rest
  <2> QED
    BY <2>6, <2>7 DEF Moves
<1>12. CASE MainGoesOn
  <2>1. todo # <<>> /\ Head(todo) = "not started" /\ ~freed
    BY <1>12 DEF MainGoesOn, At
  <2>2. /\ Step = "not started"
        /\ Head(todo) \in Enters \cup {"disk stops"} => IsRest(Tail(todo))
        /\ Head(todo) \in Bottom => Tail(todo) = <<>>
        /\ Tail(todo) \in Seq(Steps) /\ <<>> \o Tail(todo) = Tail(todo)
    BY <2>1, Unders, Done DEF Step
  <2>3. UNCHANGED <<core, capVid, io>>
    BY <1>12 DEF MainGoesOn, flags, config, threads, core
  <2>4. todo' = Tail(todo)
    BY <1>12, <2>2 DEF MainGoesOn, Then
  <2>5. IsRest(Tail(todo))
    BY <1>1, <2>1, <2>2, Lows DEF Bottom, Rest
  <2>6. Shaped(todo') /\ Step' \in Rest \cup {"idle"}
    BY <2>4, <2>5, Lows DEF Step
  <2>7. Handles
    BY <2>1, <2>2, <2>3, <2>6 DEF Handles, Waits, Rest
  <2> QED
    BY <2>6, <2>7 DEF Moves
<1>13. CASE DiskTimerEnds
  <2>1. todo # <<>> /\ Head(todo) = "disk ends" /\ ~freed
    BY <1>13 DEF DiskTimerEnds, At
  <2>2. /\ Step = "disk ends"
        /\ Head(todo) \in Enters \cup {"disk stops"} => IsRest(Tail(todo))
        /\ Head(todo) \in Bottom => Tail(todo) = <<>>
        /\ Tail(todo) \in Seq(Steps) /\ <<>> \o Tail(todo) = Tail(todo)
    BY <2>1, Unders, Done DEF Step
  <2>3. UNCHANGED <<core, capVid, io>>
    BY <1>13 DEF DiskTimerEnds, flags, config, threads, core
  <2>4. todo' = Tail(todo)
    BY <1>13, <2>2 DEF DiskTimerEnds, Then
  <2>5. IsRest(Tail(todo))
    BY <1>1, <2>1, <2>2, Lows DEF Bottom, Rest
  <2>6. Shaped(todo') /\ Step' \in Rest \cup {"idle"}
    BY <2>4, <2>5, Lows DEF Step
  <2>7. Handles
    BY <2>1, <2>2, <2>3, <2>6 DEF Handles, Waits, Rest
  <2> QED
    BY <2>6, <2>7 DEF Moves
<1>14. CASE MainFails
  <2>1. todo # <<>> /\ Head(todo) = "main fails" /\ ~freed
    BY <1>14 DEF MainFails, At
  <2>2. /\ Step = "main fails"
        /\ Head(todo) \in Enters \cup {"disk stops"} => IsRest(Tail(todo))
        /\ Head(todo) \in Bottom => Tail(todo) = <<>>
        /\ Tail(todo) \in Seq(Steps) /\ <<>> \o Tail(todo) = Tail(todo)
    BY <2>1, Unders, Done DEF Step
  <2>3. UNCHANGED <<core, capVid, io>>
    BY <1>14 DEF MainFails, flags, config, threads, core
  <2> DEFINE mid == <<"not started">> \o Tail(todo)
  <2>4. todo' = <<>> \o mid \/ todo' = <<"read">> \o mid
    BY <1>14 DEF MainFails, Deactivate
  <2>5. Tail(todo) = <<>> /\ "not started" \in Steps /\ "not started" \in Rest
    BY <1>1, <2>1, <2>2 DEF Bottom, Rest
  <2>6. IsRest(mid) /\ mid \in Seq(Steps) /\ <<>> \o mid = mid
    <3>1. IsRest(mid) /\ mid \in Seq(Steps)
      BY <1>nil, <2>5, Tops, Pushed
    <3> QED
      BY <3>1, ConcatEmptySeq
  <2>7. "read" \in Steps /\ "read" \in Enters
    BY <1>1
  <2> HIDE DEF mid
  <2>8. Shaped(todo') /\ Step' \in Rest \cup {"idle", "read"}
    BY <2>4, <2>6, <2>7, Tops, Lows, ZenonT(60) DEF Step
  <2>9. Handles
    BY <2>1, <2>2, <2>3, <2>8 DEF Handles, Waits, Rest, StartInv
  <2> QED
    BY <2>8, <2>9 DEF Moves
<1>15. CASE DiskStops
  <2>1. todo # <<>> /\ Head(todo) = "disk stops" /\ ~freed
    BY <1>15 DEF DiskStops, At
  <2>2. /\ Step = "disk stops"
        /\ Head(todo) \in Enters \cup {"disk stops"} => IsRest(Tail(todo))
        /\ Head(todo) \in Bottom => Tail(todo) = <<>>
        /\ Tail(todo) \in Seq(Steps) /\ <<>> \o Tail(todo) = Tail(todo)
    BY <2>1, Unders, Done DEF Step
  <2>3. UNCHANGED <<core, capVid, io>>
    BY <1>15 DEF DiskStops, flags, config, threads, core
  <2>4. todo' = <<>> \o Tail(todo) \/ todo' = <<"read">> \o Tail(todo)
    BY <1>15 DEF DiskStops, ToggleOff, Deactivate
  <2>5. IsRest(Tail(todo)) /\ "read" \in Steps /\ "read" \in Enters
    BY <1>1, <2>1, <2>2
  <2>6. Shaped(todo') /\ Step' \in Rest \cup {"idle", "read"}
    <3> DEFINE mid == Tail(todo)
    <3>1. (todo' = mid \/ todo' = <<"read">> \o mid) /\ mid \in Seq(Steps)
      BY <2>2, <2>4
    <3>2. IsRest(mid)
      BY <2>5
    <3> HIDE DEF mid
    <3> QED
      BY <2>5, <3>1, <3>2, Tops, Lows, ZenonT(60) DEF Step
  <2>7. Handles
    BY <2>1, <2>2, <2>3, <2>6 DEF Handles, Waits, Rest, StartInv
  <2> QED
    BY <2>6, <2>7 DEF Moves
<1>16. CASE TimerEnds
  <2>1. todo # <<>> /\ Head(todo) = "timer ends" /\ ~freed
    BY <1>16 DEF TimerEnds, At
  <2>2. /\ Step = "timer ends"
        /\ Head(todo) \in Enters \cup {"disk stops"} => IsRest(Tail(todo))
        /\ Head(todo) \in Bottom => Tail(todo) = <<>>
        /\ Tail(todo) \in Seq(Steps) /\ <<>> \o Tail(todo) = Tail(todo)
    BY <2>1, Unders, Done DEF Step
  <2>3. UNCHANGED <<core, capVid, io>>
    BY <1>16 DEF TimerEnds, flags, config, threads, core
  <2>4. \/ option = "exit" /\ todo' = <<"signal">> \o Tail(todo)
        \/ todo' = Tail(todo)
    BY <1>16, <2>2 DEF TimerEnds, Then
  <2>5. Tail(todo) = <<>>
    BY <1>1, <2>1, <2>2 DEF Rest
  <2>6. ASSUME todo' = <<"signal">> \o Tail(todo) PROVE Shaped(todo') /\ Step' = "signal"
    <3>1. "signal" \in Steps /\ ("signal" \in Enters \/ "signal" \in Bottom)
      BY <1>1 DEF Bottom
    <3>2. "signal" \in Enters => IsRest(Tail(todo))
      BY <1>1, <2>1, <2>2, Lows DEF Bottom
    <3>3. "signal" \in Bottom => Tail(todo) = <<>>
      BY <1>1, <2>1, <2>2 DEF Bottom, Rest
    <3> QED
      BY <3>1, <3>2, <3>3, <2>2, <2>6, Tops DEF Step
  <2>7. ASSUME todo' = Tail(todo) PROVE Shaped(todo') /\ Step' = "idle"
    BY <2>5, <2>7, Lows DEF Step
  <2>8. Handles
    BY <2>1, <2>2, <2>3, <2>4, <2>6, <2>7 DEF Handles, Waits, Rest
  <2> QED
    BY <2>4, <2>6, <2>7, <2>8 DEF Moves
<1>17. CASE SignalQuit
  <2>1. todo # <<>> /\ Head(todo) = "signal" /\ ~freed
    BY <1>17 DEF SignalQuit, At
  <2>2. /\ Step = "signal"
        /\ Head(todo) \in Enters \cup {"disk stops"} => IsRest(Tail(todo))
        /\ Head(todo) \in Bottom => Tail(todo) = <<>>
        /\ Tail(todo) \in Seq(Steps) /\ <<>> \o Tail(todo) = Tail(todo)
    BY <2>1, Unders, Done DEF Step
  <2>3. UNCHANGED <<handle, joins, vpc, option, capVid, io, freed>> /\ signalquit' = TRUE
    BY <1>17 DEF SignalQuit, config, threads
  <2>4. todo' = <<"await">> \o Tail(todo)
    BY <1>17 DEF SignalQuit, Then
  <2>5. ASSUME todo' = <<"await">> \o Tail(todo) PROVE Shaped(todo') /\ Step' = "await"
    <3>1. "await" \in Steps /\ ("await" \in Enters \/ "await" \in Bottom)
      BY <1>1 DEF Bottom
    <3>2. "await" \in Enters => IsRest(Tail(todo))
      BY <1>1, <2>1, <2>2, Lows DEF Bottom
    <3>3. "await" \in Bottom => Tail(todo) = <<>>
      BY <1>1, <2>1, <2>2 DEF Bottom, Rest
    <3> QED
      BY <3>1, <3>2, <3>3, <2>2, <2>5, Tops DEF Step
  <2>6. Shuts
    BY <2>1, <2>2, <2>3, <2>4, <2>5 DEF Shuts
  <2> QED
    BY <2>4, <2>5, <2>6 DEF Moves
<1>18. CASE AwaitVideo
  <2>1. todo # <<>> /\ Head(todo) = "await" /\ ~freed
    BY <1>18 DEF AwaitVideo, At
  <2>2. /\ Step = "await"
        /\ Head(todo) \in Enters \cup {"disk stops"} => IsRest(Tail(todo))
        /\ Head(todo) \in Bottom => Tail(todo) = <<>>
        /\ Tail(todo) \in Seq(Steps) /\ <<>> \o Tail(todo) = Tail(todo)
    BY <2>1, Unders, Done DEF Step
  <2>3. UNCHANGED <<handle, joins, vpc, option, capVid, io, freed, signalquit>> /\ vpc = "gone"
    BY <1>18 DEF AwaitVideo, VideoEnds, flags, config, threads
  <2>4. todo' = <<"clean">> \o Tail(todo)
    BY <1>18 DEF AwaitVideo, Then
  <2>5. ASSUME todo' = <<"clean">> \o Tail(todo) PROVE Shaped(todo') /\ Step' = "clean"
    <3>1. "clean" \in Steps /\ ("clean" \in Enters \/ "clean" \in Bottom)
      BY <1>1 DEF Bottom
    <3>2. "clean" \in Enters => IsRest(Tail(todo))
      BY <1>1, <2>1, <2>2, Lows DEF Bottom
    <3>3. "clean" \in Bottom => Tail(todo) = <<>>
      BY <1>1, <2>1, <2>2 DEF Bottom, Rest
    <3> QED
      BY <3>1, <3>2, <3>3, <2>2, <2>5, Tops DEF Step
  <2>6. Shuts
    BY <2>1, <2>2, <2>3, <2>4, <2>5 DEF Shuts
  <2> QED
    BY <2>4, <2>5, <2>6 DEF Moves
<1>19. CASE CleanStruct
  <2>1. todo # <<>> /\ Head(todo) = "clean" /\ ~freed
    BY <1>19 DEF CleanStruct, At
  <2>2. /\ Step = "clean"
        /\ Head(todo) \in Enters \cup {"disk stops"} => IsRest(Tail(todo))
        /\ Head(todo) \in Bottom => Tail(todo) = <<>>
        /\ Tail(todo) \in Seq(Steps) /\ <<>> \o Tail(todo) = Tail(todo)
    BY <2>1, Unders, Done DEF Step
  <2>3. UNCHANGED <<handle, joins, vpc, option, capVid, io, signalquit>> /\ freed' = TRUE
    BY <1>19 DEF CleanStruct, flags, config, threads
  <2>4. todo' = <<>>
    BY <1>19, <1>1, <2>1, <2>2 DEF CleanStruct, Then, Bottom
  <2>5. Shaped(todo') /\ Step' = "idle"
    BY <2>4, Lows DEF Step
  <2>6. Shuts
    BY <2>1, <2>2, <2>3, <2>5 DEF Shuts
  <2> QED
    BY <2>5, <2>6 DEF Moves
<1>20. CASE CloseDialog
  <2>1. todo # <<>> /\ Head(todo) = "dialog" /\ ~freed
    BY <1>20 DEF CloseDialog, At
  <2>2. Step = "dialog" /\ Opened(Tail(todo)) /\ todo' = Tail(todo)
    BY <1>20, <2>1, Unders, Done DEF Step, CloseDialog, Then
  <2>3. UNCHANGED <<core, capVid, io>>
    BY <1>20 DEF CloseDialog, flags, config, threads, core
  <2>4. Shaped(todo') /\ Step' \in {"refused", "disk stops", "main fails"}
    BY <2>2, Lows DEF Step
  <2>5. Handles
    BY <2>1, <2>2, <2>3, <2>4 DEF Handles, Waits, Rest, StartInv
  <2> QED
    BY <2>4, <2>5 DEF Moves
<1>21. CASE Click
  <2>1. todo = <<>> /\ ~freed /\ ~Starting /\ Step = "idle"
    BY <1>21, PatientReady DEF Click, LoopReady
  <2>2. UNCHANGED <<core, capVid, io>>
    BY <1>21 DEF Click, flags, config, threads, core
  <2>3. todo' = <<"read">> \o <<>>
    <3>1. "read" \in Steps
      BY <1>1 DEF Bottom
    <3>2. <<"read">> \in Seq(Steps)
      BY <3>1
    <3>3. <<"read">> \o <<>> = <<"read">>
      BY <3>2, ConcatEmptySeq
    <3> QED
      BY <1>21, <2>1, <3>3 DEF Click
  <2>8. Shaped(todo') /\ Step' = "read"
    <3>1. "read" \in Steps /\ ("read" \in Enters \/ "read" \in Bottom)
      BY <1>1 DEF Bottom
    <3> QED
      BY <1>nil, <2>3, <3>1, Tops, Lows DEF Step
  <2>9. Handles
    BY <2>1, <2>2, <2>8 DEF Handles, Waits, Rest
  <2> QED
    BY <2>8, <2>9 DEF Moves
<1>22. CASE Key
  <2>1. todo = <<>> /\ ~freed /\ ~Starting /\ Step = "idle"
    BY <1>22, PatientReady DEF Key, LoopReady
  <2>2. UNCHANGED <<core, capVid, io>>
    BY <1>22 DEF Key, flags, config, threads, core
  <2>3. todo' = <<"read">> \o <<>>
    <3>1. "read" \in Steps
      BY <1>1 DEF Bottom
    <3>2. <<"read">> \in Seq(Steps)
      BY <3>1
    <3>3. <<"read">> \o <<>> = <<"read">>
      BY <3>2, ConcatEmptySeq
    <3> QED
      BY <1>22, <2>1, <3>3 DEF Key
  <2>8. Shaped(todo') /\ Step' = "read"
    <3>1. "read" \in Steps /\ ("read" \in Enters \/ "read" \in Bottom)
      BY <1>1 DEF Bottom
    <3> QED
      BY <1>nil, <2>3, <3>1, Tops, Lows DEF Step
  <2>9. Handles
    BY <2>1, <2>2, <2>8 DEF Handles, Waits, Rest
  <2> QED
    BY <2>8, <2>9 DEF Moves
<1>23. CASE Quit
  <2>1. todo = <<>> /\ ~freed /\ ~Starting /\ Step = "idle"
    BY <1>23, PatientReady DEF Quit, LoopReady
  <2>2. UNCHANGED <<core, capVid, io>>
    BY <1>23 DEF Quit, flags, config, threads, core
  <2>3. todo' = <<"signal">> \o <<>>
    <3>1. "signal" \in Steps
      BY <1>1 DEF Bottom
    <3>2. <<"signal">> \in Seq(Steps)
      BY <3>1
    <3>3. <<"signal">> \o <<>> = <<"signal">>
      BY <3>2, ConcatEmptySeq
    <3> QED
      BY <1>23, <2>1, <3>3 DEF Quit
  <2>8. Shaped(todo') /\ Step' = "signal"
    <3>1. "signal" \in Steps /\ ("signal" \in Enters \/ "signal" \in Bottom)
      BY <1>1 DEF Bottom
    <3> QED
      BY <1>nil, <2>3, <3>1, Tops, Lows DEF Step
  <2>9. Handles
    BY <2>1, <2>2, <2>8 DEF Handles, Waits, Rest
  <2> QED
    BY <2>8, <2>9 DEF Moves
<1>24. CASE ChangeResolution
  <2>1. todo = <<>> /\ ~freed /\ ~Starting /\ Step = "idle"
    BY <1>24, PatientReady DEF ChangeResolution, LoopReady
  <2>2. UNCHANGED <<core, capVid, io>>
    BY <1>24 DEF ChangeResolution, flags, config, threads, core
  <2>3. todo' = <<"read">> \o <<>> \/ todo' = <<>>
    BY <1>24, <1>nil DEF ChangeResolution, Deactivate
  <2>8. Shaped(todo') /\ Step' \in {"read", "idle"}
    <3>1. "read" \in Steps /\ "read" \in Enters
      BY <1>1
    <3> QED
      BY <1>nil, <2>3, <3>1, Tops, Lows, ZenonT(60) DEF Step
  <2>9. Handles
    BY <2>1, <2>2, <2>8 DEF Handles, Waits, Rest
  <2> QED
    BY <2>8, <2>9 DEF Moves
<1>25. CASE CaptureTimer
  <2>1. todo = <<>> /\ ~freed /\ ~Starting /\ Step = "idle"
    BY <1>25, PatientReady DEF CaptureTimer, LoopReady
  <2>2. UNCHANGED <<core, capVid, io>>
    BY <1>25 DEF CaptureTimer, flags, config, threads, core
  <2> DEFINE mid == <<"timer ends">> \o todo
  <2>3. todo' = <<>> \o mid \/ todo' = <<"read">> \o mid
    BY <1>25, <1>0 DEF CaptureTimer, ToggleOff, Deactivate
  <2>4. "timer ends" \in Steps /\ "timer ends" \in Rest
    BY <1>1 DEF Rest
  <2>5. IsRest(mid) /\ mid \in Seq(Steps) /\ <<>> \o mid = mid
    <3>1. IsRest(mid) /\ mid \in Seq(Steps)
      BY <1>nil, <2>1, <2>4, Tops, Pushed
    <3> QED
      BY <3>1, ConcatEmptySeq
  <2>6. "read" \in Steps /\ "read" \in Enters
    BY <1>1
  <2> HIDE DEF mid
  <2>8. Shaped(todo') /\ Step' \in Rest \cup {"idle", "read"}
    BY <2>3, <2>5, <2>6, Tops, Lows, ZenonT(60) DEF Step
  <2>9. Handles
    BY <2>1, <2>2, <2>8 DEF Handles, Waits, Rest
  <2> QED
    BY <2>8, <2>9 DEF Moves
<1>26. CASE (\E id \in Threads : DiskTimer(id))
  <2>0. PICK id \in Threads : DiskTimer(id)
    BY <1>26
  <2>1. todo = <<>> /\ ~freed /\ ~Starting /\ Step = "idle"
    BY <2>0, PatientReady DEF DiskTimer
  <2>2. UNCHANGED <<core, capVid, io>>
    BY <2>0 DEF DiskTimer, flags, config, threads, core
  <2>3. CASE UNCHANGED todo
    <3>1. Shaped(todo') /\ Step' = "idle"
      BY <2>1, <2>3, Lows DEF Step
    <3>2. Handles
      BY <2>1, <2>2, <3>1 DEF Handles, Waits
    <3> QED
      BY <3>1, <3>2 DEF Moves
  <2>4. CASE ~UNCHANGED todo
    <3> DEFINE one == <<"disk ends">> \o todo
               two == <<"disk stops">> \o one
    <3>1. todo' = (IF display THEN <<"dialog">> ELSE <<>>) \o <<"disk stops", "disk ends">> \o todo
      BY <2>0, <2>4 DEF DiskTimer
    <3>2. /\ "disk ends" \in Steps /\ "disk ends" \in Rest
          /\ "disk stops" \in Steps /\ "dialog" \in Steps
      BY <1>1 DEF Rest
    <3>3. todo' = <<"dialog">> \o two \/ todo' = two
      <4>1. /\ <<"dialog">> \o <<"disk stops", "disk ends">> \o todo = <<"dialog">> \o two
            /\ <<>> \o <<"disk stops", "disk ends">> \o todo = two
        <5>1. todo \in Seq(Steps)
          BY <1>nil, <2>1
        <5> QED
          BY <5>1, <3>2, ThreePushed, ZenonT(60)
      <4>2. CASE display = TRUE
        BY <3>1, <4>1, <4>2
      <4>3. CASE display = FALSE
        BY <3>1, <4>1, <4>3
      <4> QED
        BY <1>0, <4>2, <4>3
    <3>4. IsRest(one) /\ one \in Seq(Steps)
      BY <1>nil, <2>1, <3>2, Tops, Pushed
    <3> HIDE DEF one
    <3>5. Shaped(two) /\ Opened(two) /\ two \in Seq(Steps) /\ StepOf(two) = "disk stops"
      BY <3>2, <3>4, Tops, Pushed
    <3> HIDE DEF two
    <3>6. Shaped(todo') /\ Step' \in {"disk stops", "dialog"}
      BY <3>2, <3>3, <3>5, Tops DEF Step
    <3>7. Handles
      BY <2>1, <2>2, <3>6 DEF Handles
    <3> QED
      BY <3>6, <3>7 DEF Moves
  <2> QED
    BY <2>3, <2>4
<1>27. CASE (\E t \in Threads : IOThread(t))
  <2>1. UNCHANGED <<todo, option, freed>>
    BY <1>27 DEF IOThread, IOStarts, InitSucceeds, InitFails, EndLoop, CloseFile, IOFinishes, config
  <2> QED
    BY <2>1, <1>27 DEF Moves, Elsewhere
<1>28. CASE VideoThread
  <2>1. UNCHANGED <<todo, option, freed>>
    BY <1>28 DEF VideoThread, VideoLoopEnds, ExitChecks, ExitStops, ExitJoins, config
  <2> QED
    BY <2>1, <1>28 DEF Moves, Elsewhere
<1>29. CASE (VideoFails \/ Terminated)
  <2>1. Terminated
    BY <1>29 DEF VideoFails
  <2> QED
    BY <2>1 DEF Moves, Terminated, vars
<1> QED
  BY <1>2, <1>3, <1>4, <1>5, <1>6, <1>7, <1>8, <1>9, <1>10, <1>11,
     <1>12, <1>13, <1>14, <1>15, <1>16, <1>17, <1>18, <1>19, <1>20, <1>21,
     <1>22, <1>23, <1>24, <1>25, <1>26, <1>27, <1>28, <1>29
  DEF Next, GtkThread, Event

-----------------------------------------------------------------------------
(***************************************************************************)
(* Each part of PatientInv is kept.                                        *)
(***************************************************************************)
Core == FlagTypes /\ ThreadTypes /\ ShutdownInv /\ HandleInv /\ StartInv /\ StopInv

LEMMA ShutdownStep ==
  ASSUME Core, Moves
  PROVE  ShutdownInv'
<1> USE DEF Core
<1>1. CASE Handles
  BY <1>1 DEF Handles, core, ShutdownInv, Waits, Rest
<1>2. CASE Stops
  BY <1>2 DEF Stops, core, ShutdownInv, Waits, Rest
<1>3. CASE Joins
  BY <1>3 DEF Joins, Joined, ThreadTypes, ShutdownInv, Waits, Rest
<1>4. CASE Shuts
  BY <1>4 DEF Shuts, ShutdownInv, Waits, Rest
<1>5. ASSUME NEW t \in NewThreads, Creates(t) PROVE ShutdownInv'
  BY <1>5 DEF Creates, NewThreads, ThreadTypes, ShutdownInv, Waits, Rest
<1>6. ASSUME NEW t \in NewThreads, NotCreated(t) PROVE ShutdownInv'
  BY <1>6 DEF NotCreated, NewThreads, ThreadTypes, core, ShutdownInv, Waits, Rest
<1>same. ASSUME UNCHANGED <<todo, option, freed>>
        PROVE  Step' = Step /\ option' = option /\ freed' = freed
  BY <1>same DEF Step
<1>7. ASSUME NEW t \in Threads, IOStarts(t), UNCHANGED <<todo, option, freed>>
     PROVE  ShutdownInv'
  BY <1>7, <1>same DEF IOStarts, ThreadTypes, flags, ShutdownInv, Waits, Rest
<1>8. ASSUME NEW t \in Threads, InitSucceeds(t), UNCHANGED <<todo, option, freed>>
     PROVE  ShutdownInv'
  BY <1>8, <1>same DEF InitSucceeds, ThreadTypes, flags, ShutdownInv, Waits, Rest
<1>9. ASSUME NEW t \in Threads, InitFails(t), UNCHANGED <<todo, option, freed>>
     PROVE  ShutdownInv'
  BY <1>9, <1>same DEF InitFails, ThreadTypes, flags, ShutdownInv, Waits, Rest
<1>10. ASSUME NEW t \in Threads, EndLoop(t), UNCHANGED <<todo, option, freed>>
      PROVE  ShutdownInv'
  BY <1>10, <1>same DEF EndLoop, ThreadTypes, flags, ShutdownInv, Waits, Rest, LoopEnds
<1>11. ASSUME NEW t \in Threads, CloseFile(t), UNCHANGED <<todo, option, freed>>
      PROVE  ShutdownInv'
  BY <1>11, <1>same DEF CloseFile, ThreadTypes, flags, ShutdownInv, Waits, Rest
<1>12. ASSUME NEW t \in Threads, IOFinishes(t), UNCHANGED <<todo, option, freed>>
      PROVE  ShutdownInv'
  BY <1>12, <1>same DEF IOFinishes, ThreadTypes, flags, ShutdownInv, Waits, Rest
<1>13. ASSUME VideoLoopEnds, UNCHANGED <<todo, option, freed>> PROVE ShutdownInv'
  BY <1>13, <1>same DEF VideoLoopEnds, ThreadTypes, flags, ShutdownInv, Waits, Rest, Quits
<1>14. ASSUME ExitChecks, UNCHANGED <<todo, option, freed>> PROVE ShutdownInv'
  BY <1>14, <1>same
  DEF ExitChecks, ThreadTypes, flags, ShutdownInv, Waits, Rest, CaptureRuns
<1>15. ASSUME ExitStops, UNCHANGED <<todo, option, freed>> PROVE ShutdownInv'
  BY <1>15, <1>same DEF ExitStops, ThreadTypes, flags, ShutdownInv, Waits, Rest
<1>16. ASSUME ExitJoins, UNCHANGED <<todo, option, freed>> PROVE ShutdownInv'
  BY <1>16, <1>same DEF ExitJoins, ThreadTypes, flags, ShutdownInv, Waits, Rest, Joined
<1>17. CASE Terminated
  BY <1>17 DEF Terminated, vars, flags, threads, config, ShutdownInv, Step, Waits, Rest
<1> QED
  BY <1>1, <1>2, <1>3, <1>4, <1>5, <1>6, <1>7, <1>8, <1>9, <1>10,
     <1>11, <1>12, <1>13, <1>14, <1>15, <1>16, <1>17
  DEF Moves, Elsewhere, IOThread, VideoThread

LEMMA HandleStep ==
  ASSUME Core, Moves
  PROVE  HandleInv'
<1> USE DEF Core
<1>1. CASE Handles
  BY <1>1 DEF Handles, core, HandleInv, Live
<1>2. CASE Stops
  BY <1>2 DEF Stops, core, HandleInv, Live
<1>3. CASE Joins
  BY <1>3 DEF Joins, Joined, ThreadTypes, HandleInv, StopInv, Live
<1>4. CASE Shuts
  BY <1>4 DEF Shuts, HandleInv, Live
<1>5. ASSUME NEW t \in NewThreads, Creates(t) PROVE HandleInv'
  BY <1>5
  DEF Creates, NewThreads, ThreadTypes, ShutdownInv, HandleInv, StartInv, StopInv,
      Live, Waits, Rest
<1>6. ASSUME NEW t \in NewThreads, NotCreated(t) PROVE HandleInv'
  BY <1>6
  DEF NotCreated, NewThreads, ThreadTypes, core, ShutdownInv, HandleInv, StartInv,
      StopInv, Live, Waits, Rest
<1>same. ASSUME UNCHANGED <<todo, option, freed>>
        PROVE  Step' = Step /\ option' = option /\ freed' = freed
  BY <1>same DEF Step
<1>7. ASSUME NEW t \in Threads, IOStarts(t), UNCHANGED <<todo, option, freed>>
     PROVE  HandleInv'
  BY <1>7, <1>same DEF IOStarts, ThreadTypes, flags, HandleInv, Live
<1>8. ASSUME NEW t \in Threads, InitSucceeds(t), UNCHANGED <<todo, option, freed>>
     PROVE  HandleInv'
  BY <1>8, <1>same DEF InitSucceeds, ThreadTypes, flags, HandleInv, Live
<1>9. ASSUME NEW t \in Threads, InitFails(t), UNCHANGED <<todo, option, freed>>
     PROVE  HandleInv'
  BY <1>9, <1>same DEF InitFails, ThreadTypes, flags, HandleInv, Live
<1>10. ASSUME NEW t \in Threads, EndLoop(t), UNCHANGED <<todo, option, freed>>
      PROVE  HandleInv'
  BY <1>10, <1>same DEF EndLoop, ThreadTypes, flags, HandleInv, Live, LoopEnds
<1>11. ASSUME NEW t \in Threads, CloseFile(t), UNCHANGED <<todo, option, freed>>
      PROVE  HandleInv'
  BY <1>11, <1>same DEF CloseFile, ThreadTypes, flags, HandleInv, Live
<1>12. ASSUME NEW t \in Threads, IOFinishes(t), UNCHANGED <<todo, option, freed>>
      PROVE  HandleInv'
  BY <1>12, <1>same DEF IOFinishes, ThreadTypes, flags, HandleInv, Live
<1>13. ASSUME VideoLoopEnds, UNCHANGED <<todo, option, freed>> PROVE HandleInv'
  BY <1>13, <1>same DEF VideoLoopEnds, ThreadTypes, flags, HandleInv, Live, Quits
<1>14. ASSUME ExitChecks, UNCHANGED <<todo, option, freed>> PROVE HandleInv'
  BY <1>14, <1>same DEF ExitChecks, ThreadTypes, flags, HandleInv, Live, CaptureRuns
<1>15. ASSUME ExitStops, UNCHANGED <<todo, option, freed>> PROVE HandleInv'
  BY <1>15, <1>same DEF ExitStops, ThreadTypes, flags, HandleInv, Live
<1>16. ASSUME ExitJoins, UNCHANGED <<todo, option, freed>> PROVE HandleInv'
  <2>1. /\ io[handle] = "gone" /\ UNCHANGED <<handle, io, capVid>> /\ handle \in Threads
        /\ joins[handle] = 0 /\ Joined(handle)
    BY <1>16 DEF ExitJoins, flags, StopInv
  <2>2. joins' = [joins EXCEPT ![handle] = 1]
    BY <2>1 DEF Joined
  <2> QED
    BY <2>1, <2>2 DEF HandleInv, Live, ThreadTypes
<1>17. CASE Terminated
  BY <1>17
  DEF Terminated, vars, flags, threads, config, ShutdownInv, HandleInv, StartInv,
      StopInv, Live, Step, Waits, Rest
<1> QED
  BY <1>1, <1>2, <1>3, <1>4, <1>5, <1>6, <1>7, <1>8, <1>9, <1>10,
     <1>11, <1>12, <1>13, <1>14, <1>15, <1>16, <1>17
  DEF Moves, Elsewhere, IOThread, VideoThread

LEMMA StartStep ==
  ASSUME Core, Moves
  PROVE  StartInv'
<1> USE DEF Core
<1>1. CASE Handles
  BY <1>1 DEF Handles, core, ShutdownInv, HandleInv, StartInv, Starting, Waits, Rest
<1>2. CASE Stops
  BY <1>2 DEF Stops, core, ShutdownInv, HandleInv, StartInv, Starting, Waits, Rest
<1>3. CASE Joins
  BY <1>3
  DEF Joins, Joined, ThreadTypes, ShutdownInv, HandleInv, StartInv, Starting, Waits,
      Rest
<1>4. CASE Shuts
  BY <1>4 DEF Shuts, ShutdownInv, HandleInv, StartInv, Starting, Waits, Rest
<1>5. ASSUME NEW t \in NewThreads, Creates(t) PROVE StartInv'
  BY <1>5
  DEF Creates, NewThreads, ThreadTypes, ShutdownInv, HandleInv, StartInv, Starting,
      Waits, Rest
<1>6. ASSUME NEW t \in NewThreads, NotCreated(t) PROVE StartInv'
  BY <1>6
  DEF NotCreated, NewThreads, ThreadTypes, core, ShutdownInv, HandleInv, StartInv,
      Starting, Waits, Rest
<1>same. ASSUME UNCHANGED <<todo, option, freed>>
        PROVE  Step' = Step /\ option' = option /\ freed' = freed
  BY <1>same DEF Step
<1>7. ASSUME NEW t \in Threads, IOStarts(t), UNCHANGED <<todo, option, freed>>
     PROVE  StartInv'
  BY <1>7, <1>same
  DEF IOStarts, ThreadTypes, flags, ShutdownInv, HandleInv, StartInv, Starting,
      Waits, Rest
<1>8. ASSUME NEW t \in Threads, InitSucceeds(t), UNCHANGED <<todo, option, freed>>
     PROVE  StartInv'
  BY <1>8, <1>same
  DEF InitSucceeds, ThreadTypes, flags, ShutdownInv, HandleInv, StartInv, Starting,
      Waits, Rest
<1>9. ASSUME NEW t \in Threads, InitFails(t), UNCHANGED <<todo, option, freed>>
     PROVE  StartInv'
  BY <1>9, <1>same
  DEF InitFails, ThreadTypes, flags, ShutdownInv, HandleInv, StartInv, Starting,
      Waits, Rest
<1>10. ASSUME NEW t \in Threads, EndLoop(t), UNCHANGED <<todo, option, freed>>
      PROVE  StartInv'
  BY <1>10, <1>same
  DEF EndLoop, ThreadTypes, flags, ShutdownInv, HandleInv, StartInv, Starting,
      Waits, Rest, LoopEnds
<1>11. ASSUME NEW t \in Threads, CloseFile(t), UNCHANGED <<todo, option, freed>>
      PROVE  StartInv'
  BY <1>11, <1>same
  DEF CloseFile, ThreadTypes, flags, ShutdownInv, HandleInv, StartInv, Starting,
      Waits, Rest
<1>12. ASSUME NEW t \in Threads, IOFinishes(t), UNCHANGED <<todo, option, freed>>
      PROVE  StartInv'
  BY <1>12, <1>same
  DEF IOFinishes, ThreadTypes, flags, ShutdownInv, HandleInv, StartInv, Starting,
      Waits, Rest
<1>13. ASSUME VideoLoopEnds, UNCHANGED <<todo, option, freed>> PROVE StartInv'
  BY <1>13, <1>same
  DEF VideoLoopEnds, ThreadTypes, flags, ShutdownInv, HandleInv, StartInv, Starting,
      Waits, Rest, Quits
<1>14. ASSUME ExitChecks, UNCHANGED <<todo, option, freed>> PROVE StartInv'
  BY <1>14, <1>same
  DEF ExitChecks, ThreadTypes, flags, ShutdownInv, HandleInv, StartInv, Starting,
      Waits, Rest, CaptureRuns
<1>15. ASSUME ExitStops, UNCHANGED <<todo, option, freed>> PROVE StartInv'
  BY <1>15, <1>same
  DEF ExitStops, ThreadTypes, flags, ShutdownInv, HandleInv, StartInv, Starting,
      Waits, Rest
<1>16. ASSUME ExitJoins, UNCHANGED <<todo, option, freed>> PROVE StartInv'
  BY <1>16, <1>same
  DEF ExitJoins, ThreadTypes, flags, ShutdownInv, HandleInv, StartInv, Starting,
      Waits, Rest, Joined
<1>17. CASE Terminated
  BY <1>17
  DEF Terminated, vars, flags, threads, config, ShutdownInv, HandleInv, StartInv,
      Starting, Step, Waits, Rest
<1> QED
  BY <1>1, <1>2, <1>3, <1>4, <1>5, <1>6, <1>7, <1>8, <1>9, <1>10,
     <1>11, <1>12, <1>13, <1>14, <1>15, <1>16, <1>17
  DEF Moves, Elsewhere, IOThread, VideoThread

LEMMA StopStep ==
  ASSUME Core, Moves
  PROVE  StopInv'
<1> USE DEF Core
<1>1. CASE Handles
  BY <1>1
  DEF Handles, core, ShutdownInv, HandleInv, StartInv, StopInv, Live, Starting,
      Waits, Rest
<1>2. CASE Stops
  BY <1>2
  DEF Stops, core, ShutdownInv, HandleInv, StartInv, StopInv, Live, Starting, Waits,
      Rest
<1>3. CASE Joins
  BY <1>3
  DEF Joins, Joined, ThreadTypes, ShutdownInv, HandleInv, StartInv, StopInv, Live,
      Starting, Waits, Rest
<1>4. CASE Shuts
  BY <1>4
  DEF Shuts, ShutdownInv, HandleInv, StartInv, StopInv, Live, Starting, Waits, Rest
<1>5. ASSUME NEW t \in NewThreads, Creates(t) PROVE StopInv'
  BY <1>5
  DEF Creates, NewThreads, ThreadTypes, ShutdownInv, HandleInv, StartInv, StopInv,
      Live, Starting, Waits, Rest
<1>6. ASSUME NEW t \in NewThreads, NotCreated(t) PROVE StopInv'
  BY <1>6
  DEF NotCreated, NewThreads, ThreadTypes, core, ShutdownInv, HandleInv, StartInv,
      StopInv, Live, Starting, Waits, Rest
<1>same. ASSUME UNCHANGED <<todo, option, freed>>
        PROVE  Step' = Step /\ option' = option /\ freed' = freed
  BY <1>same DEF Step
<1>7. ASSUME NEW t \in Threads, IOStarts(t), UNCHANGED <<todo, option, freed>>
     PROVE  StopInv'
  BY <1>7, <1>same
  DEF IOStarts, ThreadTypes, flags, ShutdownInv, HandleInv, StartInv, StopInv, Live,
      Starting, Waits, Rest
<1>8. ASSUME NEW t \in Threads, InitSucceeds(t), UNCHANGED <<todo, option, freed>>
     PROVE  StopInv'
  BY <1>8, <1>same
  DEF InitSucceeds, ThreadTypes, flags, ShutdownInv, HandleInv, StartInv, StopInv,
      Live, Starting, Waits, Rest
<1>9. ASSUME NEW t \in Threads, InitFails(t), UNCHANGED <<todo, option, freed>>
     PROVE  StopInv'
  BY <1>9, <1>same
  DEF InitFails, ThreadTypes, flags, ShutdownInv, HandleInv, StartInv, StopInv,
      Live, Starting, Waits, Rest
<1>10. ASSUME NEW t \in Threads, EndLoop(t), UNCHANGED <<todo, option, freed>>
      PROVE  StopInv'
  BY <1>10, <1>same
  DEF EndLoop, ThreadTypes, flags, ShutdownInv, HandleInv, StartInv, StopInv, Live,
      Starting, Waits, Rest, LoopEnds
<1>11. ASSUME NEW t \in Threads, CloseFile(t), UNCHANGED <<todo, option, freed>>
      PROVE  StopInv'
  BY <1>11, <1>same
  DEF CloseFile, ThreadTypes, flags, ShutdownInv, HandleInv, StartInv, StopInv,
      Live, Starting, Waits, Rest
<1>12. ASSUME NEW t \in Threads, IOFinishes(t), UNCHANGED <<todo, option, freed>>
      PROVE  StopInv'
  BY <1>12, <1>same
  DEF IOFinishes, ThreadTypes, flags, ShutdownInv, HandleInv, StartInv, StopInv,
      Live, Starting, Waits, Rest
<1>13. ASSUME VideoLoopEnds, UNCHANGED <<todo, option, freed>> PROVE StopInv'
  BY <1>13, <1>same
  DEF VideoLoopEnds, ThreadTypes, flags, ShutdownInv, HandleInv, StartInv, StopInv,
      Live, Starting, Waits, Rest, Quits
<1>14. ASSUME ExitChecks, UNCHANGED <<todo, option, freed>> PROVE StopInv'
  BY <1>14, <1>same
  DEF ExitChecks, ThreadTypes, flags, ShutdownInv, HandleInv, StartInv, StopInv,
      Live, Starting, Waits, Rest, CaptureRuns
<1>15. ASSUME ExitStops, UNCHANGED <<todo, option, freed>> PROVE StopInv'
  BY <1>15, <1>same
  DEF ExitStops, ThreadTypes, flags, ShutdownInv, HandleInv, StartInv, StopInv,
      Live, Starting, Waits, Rest
<1>16. ASSUME ExitJoins, UNCHANGED <<todo, option, freed>> PROVE StopInv'
  BY <1>16, <1>same
  DEF ExitJoins, ThreadTypes, flags, ShutdownInv, HandleInv, StartInv, StopInv,
      Live, Starting, Waits, Rest, Joined
<1>17. CASE Terminated
  BY <1>17
  DEF Terminated, vars, flags, threads, config, ShutdownInv, HandleInv, StartInv,
      StopInv, Live, Starting, Step, Waits, Rest
<1> QED
  BY <1>1, <1>2, <1>3, <1>4, <1>5, <1>6, <1>7, <1>8, <1>9, <1>10,
     <1>11, <1>12, <1>13, <1>14, <1>15, <1>16, <1>17
  DEF Moves, Elsewhere, IOThread, VideoThread
-----------------------------------------------------------------------------
(***************************************************************************)
(* One IO thread, and nobody left when the structures are freed.           *)
(***************************************************************************)
CaptureInv == EntryInv /\ (patient = TRUE => PatientInv)

LEMMA CaptureInit == Init => CaptureInv
<1> SUFFICES ASSUME Init PROVE CaptureInv
  OBVIOUS
<1>1. EntryInv
  BY EntryInit
<1>2. Step \in {"idle", "main"} /\ Shaped(todo)
  <2>1. CASE todo = <<>>
    BY <2>1, Lows DEF Step
  <2>2. CASE todo = <<"main">>
    <3>1. "main" \in Steps /\ "main" \in Bottom
      BY DEF Steps, Bottom
    <3>2. <<>> \in Seq(Steps) /\ <<"main">> \in Seq(Steps)
      BY <3>1
    <3>3. todo = <<"main">> \o <<>>
      BY <2>2, <3>2, ConcatEmptySeq
    <3> QED
      BY <3>1, <3>2, <3>3, Tops DEF Step
  <2> QED
    BY <2>1, <2>2 DEF Init
<1>3. ~signalquit /\ ~freed /\ ~capVid /\ vpc = "loop"
  BY Zenon DEF Init
<1>4. \A t \in Threads : io[t] = "none" /\ joins[t] = 0
  BY DEF Init
<1>5. ShutdownInv
  BY <1>2, <1>3 DEF ShutdownInv
<1>6. HandleInv
  BY <1>3, <1>4 DEF HandleInv, Live
<1>7. StartInv
  BY <1>2, <1>3, <1>4 DEF StartInv, Starting
<1>8. StopInv
  BY <1>2, <1>3, <1>4 DEF StopInv, Live
<1> QED
  BY <1>1, <1>2, <1>5, <1>6, <1>7, <1>8 DEF CaptureInv, PatientInv

LEMMA CaptureStep == CaptureInv /\ [Next]_vars => CaptureInv'
<1> SUFFICES ASSUME CaptureInv, [Next]_vars PROVE CaptureInv'
  OBVIOUS
<1>1. EntryInv'
  BY EntryStep DEF CaptureInv
<1>2. patient' = patient
  <2>1. CASE Next
    BY <2>1 DEF Next, GtkThread, Event, IOThread, VideoThread, config, Terminated, vars,
       ReadCapVid, StopCapture, JoinIO, ReleaseTimer, SuperviseStart, StartRefused, CreateIO,
       LabelButton, MainStarts, MainLocks, MainFails, MainGoesOn, DiskStops, DiskTimerEnds,
       TimerEnds, SignalQuit, AwaitVideo, CleanStruct, CloseDialog, Click, Key,
       ChangeResolution, CaptureTimer, DiskTimer, Quit, IOStarts, InitSucceeds, InitFails,
       EndLoop, CloseFile, IOFinishes, VideoFails, VideoLoopEnds, ExitChecks, ExitStops,
       ExitJoins
  <2>2. CASE UNCHANGED vars
    BY <2>2 DEF vars, config
  <2> QED
    BY <2>1, <2>2
<1>3. ASSUME patient = TRUE PROVE PatientInv'
  <2>1. PatientInv /\ StackInv /\ FlagTypes /\ ThreadTypes
    BY <1>3 DEF CaptureInv, EntryInv
  <2>2. CASE Next
    <3>1. Shaped(todo') /\ Moves
      BY <2>1, <2>2, <1>3, MovesStep DEF PatientInv, FlagTypes
    <3>2. Core
      BY <2>1 DEF Core, PatientInv
    <3>3. ShutdownInv' /\ HandleInv' /\ StartInv' /\ StopInv'
      BY <3>1, <3>2, ShutdownStep, HandleStep, StartStep, StopStep
    <3> QED
      BY <3>1, <3>3 DEF PatientInv
  <2>3. CASE UNCHANGED vars
    <3>1. UNCHANGED <<todo, core, capVid, io>>
      BY <2>3 DEF vars, core, flags, config, threads
    <3> QED
      BY <3>1, <2>1
      DEF PatientInv, ShutdownInv, HandleInv, StartInv, StopInv, core, Step, Live, Starting
  <2> QED
    BY <2>2, <2>3
<1> QED
  BY <1>1, <1>2, <1>3 DEF CaptureInv

LEMMA CaptureAlways == Spec => []CaptureInv
  BY CaptureInit, CaptureStep, PTL DEF Spec

LEMMA AloneAndJoined == CaptureInv => OneIOThread
<1> SUFFICES ASSUME CaptureInv, patient
             PROVE  /\ Cardinality({t \in Threads : Active(t)}) <= 1
                    /\ \A t \in Threads : joins[t] <= 1
  BY DEF OneIOThread
<1>1. HandleInv
  <2>1. patient = TRUE
    BY PatienceAssumption DEF CaptureInv, EntryInv, FlagTypes
  <2> QED
    BY <2>1 DEF CaptureInv, PatientInv
<1> DEFINE A == {t \in Threads : Active(t)}
<1>2. \A s, t \in A : s = t
  BY <1>1 DEF HandleInv, Live, Active
<1> HIDE DEF A
<1>3. Cardinality(A) <= 1
  BY <1>2, AtMostOne
<1> QED
  BY <1>1, <1>3 DEF HandleInv, A

(* At most one IO thread works on the file, the rings and the encoders,    *)
(* and each is joined at most once, in a patient environment.              *)
THEOREM OneIOThreadAlways == Spec => []OneIOThread
  BY CaptureAlways, AloneAndJoined, PTL

LEMMA NobodyLeft == CaptureInv => NoUseAfterFree
<1> SUFFICES ASSUME CaptureInv, freed, patient, option # "exit"
             PROVE  vpc = "gone" /\ todo = <<>> /\ \A t \in Threads : io[t] \in {"none", "gone"}
  BY DEF NoUseAfterFree
<1>1. ShutdownInv /\ StopInv
  <2>1. patient = TRUE
    BY PatienceAssumption DEF CaptureInv, EntryInv, FlagTypes
  <2> QED
    BY <2>1 DEF CaptureInv, PatientInv
<1>2. vpc = "gone" /\ Step = "idle"
  BY <1>1 DEF ShutdownInv
<1>3. todo = <<>>
  <2>1. todo \in Seq(Steps) /\ "idle" \notin Steps
    BY DEF CaptureInv, EntryInv, StackInv, Good, Steps, CaptureVidSteps
  <2>2. todo # <<>> => Head(todo) \in Steps
    BY <2>1, Popped
  <2> QED
    BY <1>2, <2>1, <2>2 DEF Step, StepOf
<1> QED
  BY <1>1, <1>2, <1>3 DEF StopInv, Live

(* When clean_struct has freed the structures, no thread uses them and no  *)
(* handler is left to return to, unless the capture timer was to shut the  *)
(* program down.                                                           *)
THEOREM FreedLast == Spec => []NoUseAfterFree
  BY CaptureAlways, NobodyLeft, PTL
=============================================================================
