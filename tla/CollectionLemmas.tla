--------------------------- MODULE CollectionLemmas ---------------------------
(***************************************************************************)
(* Facts about the operators on sequences, finite sets and sums that the   *)
(* models are built from.                                                  *)
(*                                                                         *)
(* A sum is a recursive function on the subsets of what it is taken over.  *)
(* That such a function exists, and every law of sums, is shown by looking *)
(* at a smallest set for which it would fail: SmallestSet stands in for    *)
(* induction.  LeastNatural does the same for recursion on the naturals    *)
(* and for loops, SequencesGrow for sequences.                             *)
(***************************************************************************)
EXTENDS Integers, Sequences, SequencesExt, FiniteSetTheorems, TLAPS, Selection

-------------------------------------------------------------------------------
(* Sequences. *)

\* Erasing position k keeps what is before it and shifts what is behind it.
LEMMA RemoveAtShifts ==
    ASSUME NEW S, NEW s \in Seq(S), NEW k \in 1 .. Len(s)
    PROVE  /\ RemoveAt(s, k) \in Seq(S)
           /\ Len(RemoveAt(s, k)) = Len(s) - 1
           /\ \A j \in 1 .. Len(s) - 1 :
                 RemoveAt(s, k)[j] = IF j < k THEN s[j] ELSE s[j + 1]
  <1> DEFINE f == SubSeq(s, 1, k - 1)
             b == SubSeq(s, k + 1, Len(s))
  <1>1. /\ f \in Seq(S) /\ Len(f) = k - 1
        /\ \A j \in 1 .. k - 1 : f[j] = s[j]
    OBVIOUS
  <1>2. /\ b \in Seq(S) /\ Len(b) = Len(s) - k
        /\ \A j \in 1 .. Len(s) - k : b[j] = s[k + j]
    OBVIOUS
  <1>3. RemoveAt(s, k) = f \o b
    BY DEF RemoveAt
  <1> HIDE DEF f, b
  <1>4. /\ f \o b \in Seq(S) /\ Len(f \o b) = Len(s) - 1
    BY <1>1, <1>2
  <1>5. \A j \in 1 .. Len(s) - 1 :
           (f \o b)[j] = IF j < k THEN s[j] ELSE s[j + 1]
    <2>1. TAKE j \in 1 .. Len(s) - 1
    <2>2. CASE j < k
      BY <1>1, <1>2, <2>2
    <2>3. CASE ~(j < k)
      <3>1. (f \o b)[j] = b[j - (k - 1)]
        BY <1>1, <1>2, <2>3
      <3>2. b[j - (k - 1)] = s[j + 1]
        BY <1>2, <2>3
      <3> QED
        BY <2>3, <3>1, <3>2
    <2> QED
      BY <2>2, <2>3
  <1> QED
    BY <1>3, <1>4, <1>5

\* What a sequence holds, said with its positions.
LEMMA ToSetMembers ==
    ASSUME NEW S, NEW s \in Seq(S)
    PROVE  /\ ToSet(s) \subseteq S
           /\ \A x : x \in ToSet(s) <=> \E i \in 1 .. Len(s) : s[i] = x
  BY DEF ToSet

\* push_back adds its argument and nothing else.
LEMMA AppendMembers ==
    ASSUME NEW S, NEW s \in Seq(S), NEW x \in S
    PROVE  /\ Append(s, x) \in Seq(S)
           /\ Len(Append(s, x)) = Len(s) + 1
           /\ \A i \in 1 .. Len(s) : Append(s, x)[i] = s[i]
           /\ Append(s, x)[Len(s) + 1] = x
           /\ ToSet(Append(s, x)) = ToSet(s) \cup {x}
  <1> DEFINE t == Append(s, x)
  <1>1. /\ t \in Seq(S)
        /\ Len(t) = Len(s) + 1
        /\ \A i \in 1 .. Len(s) : t[i] = s[i]
        /\ t[Len(s) + 1] = x
    OBVIOUS
  <1> HIDE DEF t
  <1>2. ASSUME NEW y
        PROVE  y \in ToSet(t) <=> y \in ToSet(s) \cup {x}
    <2>1. y \in ToSet(t) <=> \E i \in 1 .. Len(s) + 1 : t[i] = y
      BY <1>1, ToSetMembers
    <2>2. y \in ToSet(s) <=> \E i \in 1 .. Len(s) : t[i] = y
      BY <1>1, ToSetMembers
    <2> QED
      BY <1>1, <2>1, <2>2
  <1> QED
    BY <1>1, <1>2 DEF t

\* Erasing from a duplicate-free sequence removes that one element.
LEMMA RemoveAtMembers ==
    ASSUME NEW S, NEW s \in Seq(S), NEW k \in 1 .. Len(s),
           \A i, j \in 1 .. Len(s) : s[i] = s[j] => i = j
    PROVE  ToSet(RemoveAt(s, k)) = ToSet(s) \ {s[k]}
  <1> DEFINE r == RemoveAt(s, k)
  <1>1. /\ r \in Seq(S)
        /\ Len(r) = Len(s) - 1
        /\ \A j \in 1 .. Len(s) - 1 : r[j] = IF j < k THEN s[j] ELSE s[j + 1]
    BY RemoveAtShifts
  <1> HIDE DEF r
  <1>2. ASSUME NEW x \in ToSet(r)
        PROVE  x \in ToSet(s) /\ x # s[k]
    <2>1. PICK j \in 1 .. Len(s) - 1 : r[j] = x
      BY <1>1, ToSetMembers
    <2>2. CASE j < k
      BY <1>1, <2>1, <2>2, ToSetMembers
    <2>3. CASE ~(j < k)
      <3>1. x = s[j + 1] /\ j + 1 \in 1 .. Len(s) /\ j + 1 # k
        BY <1>1, <2>1, <2>3
      <3> QED
        BY <3>1, ToSetMembers
    <2> QED
      BY <2>2, <2>3
  <1>3. ASSUME NEW x \in ToSet(s), x # s[k]
        PROVE  x \in ToSet(r)
    <2>1. PICK i \in 1 .. Len(s) : s[i] = x
      BY ToSetMembers
    <2>2. CASE i < k
      <3>1. r[i] = x /\ i \in 1 .. Len(r)
        BY <1>1, <2>1, <2>2
      <3> QED
        BY <1>1, <3>1, ToSetMembers
    <2>3. CASE ~(i < k)
      <3>1. i > k
        BY <1>3, <2>1, <2>3
      <3>2. i - 1 \in 1 .. Len(s) - 1 /\ ~(i - 1 < k) /\ (i - 1) + 1 = i
        BY <3>1
      <3>3. r[i - 1] = x
        BY <1>1, <2>1, <3>2
      <3> QED
        BY <1>1, <3>2, <3>3, ToSetMembers
    <2> QED
      BY <2>2, <2>3
  <1> QED
    BY <1>2, <1>3 DEF r

-------------------------------------------------------------------------------
(* Sums of the values of a function. *)

\* What SumFunctionOnSet computes: the element it takes first, one turn of its
\* recursion, and the function that the recursion defines.
Picked(s) == CHOOSE x \in s : TRUE
SumStep(g, f, s) == IF s = {} THEN 0 ELSE f[Picked(s)] + g[s \ {Picked(s)}]
Adds(g, f, S) == g = [s \in SUBSET S |-> SumStep(g, f, s)]
Adder(f, S) == CHOOSE g : Adds(g, f, S)

LEMMA SumIsAdder == \A f, S : SumFunctionOnSet(f, S) = Adder(f, S)[S]
  BY DEF SumFunctionOnSet, FoldFunctionOnSet, MapThenFoldSet, Adder, Adds, SumStep, Picked

LEMMA PickedIsIn == \A s : s # {} => Picked(s) \in s
  BY DEF Picked

\* A set of finite sets has a member that has no other below it.
LEMMA SmallestSet ==
    ASSUME NEW S, IsFiniteSet(S), NEW F, F \subseteq SUBSET S, F # {}
    PROVE  \E T \in F : \A U \in F : U \subseteq T => U = T
  <1>1. IsWellFoundedOn(StrictSubsetOrdering(S), FiniteSubsetsOf(S))
    BY FS_StrictSubsetOrderingWellFounded
  <1>2. FiniteSubsetsOf(S) = SUBSET S
    BY FS_FiniteSubsetsOfFinite
  <1>3. \E T \in F : \A U \in F : ~(<<U, T>> \in StrictSubsetOrdering(S))
    BY <1>1, <1>2, WFMin
  <1> QED
    BY <1>3 DEF StrictSubsetOrdering

LEMMA AddersAgree ==
    ASSUME NEW S, IsFiniteSet(S), NEW T \in SUBSET S,
           NEW f, NEW g, NEW h, NEW e, Adds(g, f, S), Adds(h, e, T),
           \A x \in T : f[x] = e[x]
    PROVE  \A s \in SUBSET T : g[s] = h[s]
  <1> DEFINE F == {s \in SUBSET T : g[s] # h[s]}
  <1> SUFFICES ASSUME F # {} PROVE FALSE
    OBVIOUS
  <1>1. PICK s \in F : \A u \in F : u \subseteq s => u = s
    <2> HIDE DEF F
    <2>1. F \subseteq SUBSET S
      BY DEF F
    <2> QED
      BY <2>1, SmallestSet
  <1>2. g[s] = SumStep(g, f, s)
    <2>1. s \in SUBSET S
      OBVIOUS
    <2> QED
      BY <2>1, Zenon DEF Adds
  <1>3. h[s] = SumStep(h, e, s)
    <2>1. s \in SUBSET T
      OBVIOUS
    <2> QED
      BY <2>1, Zenon DEF Adds
  <1>4. s # {}
    BY <1>2, <1>3 DEF SumStep
  <1> DEFINE x == Picked(s)
  <1>5. x \in s /\ x \in T
    BY <1>4, PickedIsIn
  <1>6. g[s \ {x}] = h[s \ {x}]
    BY <1>1, <1>5
  <1> QED
    BY <1>2, <1>3, <1>4, <1>5, <1>6 DEF SumStep

LEMMA AdderAdds ==
    ASSUME NEW S, IsFiniteSet(S), NEW f
    PROVE  Adds(Adder(f, S), f, S)
  <1> DEFINE F == {T \in SUBSET S : ~Adds(Adder(f, T), f, T)}
  <1> SUFFICES ASSUME F # {} PROVE FALSE
    OBVIOUS
  <1>1. PICK T \in F : \A u \in F : u \subseteq T => u = T
    <2> HIDE DEF F
    <2>1. F \subseteq SUBSET S
      BY DEF F
    <2> QED
      BY <2>1, SmallestSet
  <1>2. \A U \in SUBSET T : U # T => Adds(Adder(f, U), f, U)
    BY <1>1
  <1> DEFINE G(U) == Adder(f, U)[U]
             Rest(s) == s \ {Picked(s)}
             Sum(s) == IF s = {} THEN 0 ELSE f[Picked(s)] + G(Rest(s))
             g == [s \in SUBSET T |-> Sum(s)]
  <1>3. ASSUME NEW s \in SUBSET T
        PROVE  g[s] = SumStep(g, f, s)
    <2>1. CASE s = {}
      BY <2>1 DEF SumStep
    <2>2. CASE s # {}
      <3> DEFINE u == Rest(s)
      <3>1. u \in SUBSET T /\ u # T
        BY <2>2, PickedIsIn
      <3>2. Adds(Adder(f, u), f, u)
        BY <1>2, <3>1
      <3>3. G(u) = SumStep(Adder(f, u), f, u)
        <4>1. u \in SUBSET u
          OBVIOUS
        <4> HIDE DEF u
        <4> QED
          BY <3>2, <4>1, Zenon DEF Adds
      <3>4. G(u) = Sum(u)
        <4>1. CASE u = {}
          BY <3>3, <4>1 DEF SumStep
        <4>2. CASE u # {}
          <5> DEFINE v == Rest(u)
          <5>1. v \in SUBSET T /\ v # T /\ v \in SUBSET u
            BY <3>1
          <5>2. Adds(Adder(f, v), f, v)
            BY <1>2, <5>1
          <5>3. IsFiniteSet(u)
            BY <3>1, FS_Subset
          <5>4. Adder(f, u)[v] = Adder(f, v)[v]
            <6> HIDE DEF u, v
            <6> QED
              BY <3>2, <5>1, <5>2, <5>3, AddersAgree
          <5> QED
            BY <3>3, <4>2, <5>4 DEF SumStep
        <4> QED
          BY <4>1, <4>2
      <3>5. g[u] = Sum(u)
        BY <3>1
      <3>6. g[s] = f[Picked(s)] + G(u)
        BY <2>2
      <3>7. SumStep(g, f, s) = f[Picked(s)] + g[u]
        BY <2>2 DEF SumStep
      <3> HIDE DEF g, u
      <3> QED
        BY <3>4, <3>5, <3>6, <3>7
    <2> QED
      BY <2>1, <2>2
  <1>4. Adds(g, f, T)
    <2>1. [s \in SUBSET T |-> SumStep(g, f, s)] = g
      BY <1>3
    <2> QED
      BY <2>1 DEF Adds
  <1>5. Adds(Adder(f, T), f, T)
    <2> HIDE DEF g
    <2> QED
      BY <1>4, Zenon DEF Adder
  <1> QED
    BY <1>1, <1>5

-------------------------------------------------------------------------------
(* The laws of sums. *)

LEMMA SumUnfolds ==
    ASSUME NEW S, IsFiniteSet(S), NEW f
    PROVE  SumFunctionOnSet(f, S) =
             IF S = {} THEN 0
             ELSE f[Picked(S)] + SumFunctionOnSet(f, S \ {Picked(S)})
  <1> DEFINE g == Adder(f, S)
             U == S \ {Picked(S)}
  <1>1. Adds(g, f, S)
    BY AdderAdds
  <1>2. g[S] = SumStep(g, f, S)
    <2>1. S \in SUBSET S
      OBVIOUS
    <2> HIDE DEF g
    <2> QED
      BY <1>1, <2>1, Zenon DEF Adds
  <1>3. g[U] = Adder(f, U)[U]
    <2>1. U \in SUBSET S /\ U \in SUBSET U /\ IsFiniteSet(U)
      BY FS_Subset
    <2>2. Adds(Adder(f, U), f, U)
      BY <2>1, AdderAdds
    <2> HIDE DEF g, U
    <2> QED
      BY <1>1, <2>1, <2>2, AddersAgree
  <1> HIDE DEF g
  <1> QED
    BY <1>2, <1>3, SumIsAdder DEF SumStep, g

LEMMA SumOfNone == \A f : SumFunctionOnSet(f, {}) = 0
  BY SumUnfolds, FS_EmptySet

\* A sum reads nothing but the values it adds.
LEMMA SumSame ==
    ASSUME NEW S, IsFiniteSet(S), NEW f, NEW e, \A x \in S : f[x] = e[x]
    PROVE  SumFunctionOnSet(f, S) = SumFunctionOnSet(e, S)
  <1>1. Adds(Adder(f, S), f, S) /\ Adds(Adder(e, S), e, S)
    BY AdderAdds
  <1>2. S \in SUBSET S
    OBVIOUS
  <1> DEFINE g == Adder(f, S)
             h == Adder(e, S)
  <1> HIDE DEF g, h
  <1>3. \A s \in SUBSET S : g[s] = h[s]
    BY <1>1, <1>2, AddersAgree DEF g, h
  <1>4. g[S] = h[S]
    BY <1>2, <1>3
  <1> QED
    BY <1>4, SumIsAdder DEF g, h

LEMMA SumType ==
    ASSUME NEW S, IsFiniteSet(S), NEW f, \A x \in S : f[x] \in Int
    PROVE  SumFunctionOnSet(f, S) \in Int
  <1> DEFINE F == {T \in SUBSET S : SumFunctionOnSet(f, T) \notin Int}
  <1> SUFFICES ASSUME F # {} PROVE FALSE
    OBVIOUS
  <1>1. PICK T \in F : \A u \in F : u \subseteq T => u = T
    <2>1. F \subseteq SUBSET S
      OBVIOUS
    <2> HIDE DEF F
    <2> QED
      BY <2>1, SmallestSet
  <1>2. IsFiniteSet(T)
    BY FS_Subset
  <1>3. T # {}
    <2>1. SumFunctionOnSet(f, {}) \in Int
      BY SumOfNone
    <2> QED
      BY <1>1, <2>1
  <1> DEFINE x == Picked(T)
  <1>4. x \in T
    BY <1>3, PickedIsIn
  <1>5. SumFunctionOnSet(f, T) = f[x] + SumFunctionOnSet(f, T \ {x})
    BY <1>2, <1>3, SumUnfolds
  <1>6. SumFunctionOnSet(f, T \ {x}) \in Int
    BY <1>1, <1>4
  <1>7. f[x] \in Int
    BY <1>1, <1>4
  <1> HIDE DEF x
  <1> QED
    BY <1>1, <1>5, <1>6, <1>7

\* The order of addition does not matter.
LEMMA SumSplit ==
    ASSUME NEW S, IsFiniteSet(S), NEW f, \A x \in S : f[x] \in Int, NEW y \in S
    PROVE  /\ SumFunctionOnSet(f, S \ {y}) \in Int
           /\ SumFunctionOnSet(f, S) = f[y] + SumFunctionOnSet(f, S \ {y})
  <1> DEFINE Splits(T, z) == SumFunctionOnSet(f, T) = f[z] + SumFunctionOnSet(f, T \ {z})
             F == {T \in SUBSET S : \E z \in T : ~Splits(T, z)}
  <1>1. F = {}
    <2> SUFFICES ASSUME F # {} PROVE FALSE
      OBVIOUS
    <2>1. PICK T \in F : \A u \in F : u \subseteq T => u = T
      <3>1. F \subseteq SUBSET S
        OBVIOUS
      <3> HIDE DEF F
      <3> QED
        BY <3>1, SmallestSet
    <2>2. PICK z \in T : ~Splits(T, z)
      OBVIOUS
    <2> DEFINE x == Picked(T)
    <2>3. x \in T
      BY <2>2, PickedIsIn
    <2>4. IsFiniteSet(T) /\ IsFiniteSet(T \ {x}) /\ IsFiniteSet(T \ {z})
             /\ IsFiniteSet((T \ {x}) \ {z})
      BY FS_Subset
    <2>5. SumFunctionOnSet(f, T) = f[x] + SumFunctionOnSet(f, T \ {x})
      BY <2>2, <2>4, SumUnfolds
    <2>6. x # z
      BY <2>2, <2>5
    <2>7. Splits(T \ {x}, z)
      <3>1. T \ {x} \in SUBSET S /\ T \ {x} \subseteq T /\ T \ {x} # T /\ z \in T \ {x}
        BY <2>3, <2>6
      <3>2. T \ {x} \notin F
        <4> HIDE DEF F
        <4> QED
          BY <2>1, <3>1
      <3> QED
        BY <3>1, <3>2
    <2>8. Splits(T \ {z}, x)
      <3>1. T \ {z} \in SUBSET S /\ T \ {z} \subseteq T /\ T \ {z} # T /\ x \in T \ {z}
        BY <2>2, <2>3, <2>6
      <3>2. T \ {z} \notin F
        <4> HIDE DEF F
        <4> QED
          BY <2>1, <3>1
      <3> QED
        BY <3>1, <3>2
    <2>9. (T \ {x}) \ {z} = (T \ {z}) \ {x}
      OBVIOUS
    <2>10. /\ SumFunctionOnSet(f, (T \ {x}) \ {z}) \in Int
           /\ f[x] \in Int /\ f[z] \in Int
      BY <2>3, <2>4, SumType
    <2> DEFINE rest == SumFunctionOnSet(f, (T \ {x}) \ {z})
    <2>11. /\ SumFunctionOnSet(f, T \ {x}) = f[z] + rest
           /\ SumFunctionOnSet(f, T \ {z}) = f[x] + rest
      BY <2>7, <2>8, <2>9
    <2> HIDE DEF x, rest
    <2>12. f[x] + (f[z] + rest) = f[z] + (f[x] + rest)
      BY <2>10 DEF rest
    <2> QED
      BY <2>2, <2>5, <2>11, <2>12
  <1>2. S \in SUBSET S /\ S \notin F
    BY <1>1
  <1>3. IsFiniteSet(S \ {y})
    BY FS_Subset
  <1> QED
    BY <1>2, <1>3, SumType

LEMMA SumOfOneMore ==
    ASSUME NEW S, IsFiniteSet(S), NEW f, NEW y, y \notin S,
           \A x \in S \cup {y} : f[x] \in Int
    PROVE  SumFunctionOnSet(f, S \cup {y}) = f[y] + SumFunctionOnSet(f, S)
  <1>1. IsFiniteSet(S \cup {y}) /\ (S \cup {y}) \ {y} = S
    BY FS_AddElement
  <1> QED
    BY <1>1, SumSplit

\* The sum over two sets that share nothing.
LEMMA SumOfUnion ==
    ASSUME NEW A, IsFiniteSet(A), NEW B, IsFiniteSet(B), A \cap B = {}, NEW f,
           \A x \in A \cup B : f[x] \in Int
    PROVE  SumFunctionOnSet(f, A \cup B) = SumFunctionOnSet(f, A) + SumFunctionOnSet(f, B)
  <1> DEFINE Agree(T) == SumFunctionOnSet(f, A \cup T)
                           = SumFunctionOnSet(f, A) + SumFunctionOnSet(f, T)
             F == {T \in SUBSET B : ~Agree(T)}
  <1> SUFFICES ASSUME F # {} PROVE FALSE
    OBVIOUS
  <1>1. PICK T \in F : \A u \in F : u \subseteq T => u = T
    <2>1. F \subseteq SUBSET B
      OBVIOUS
    <2> HIDE DEF F
    <2> QED
      BY <2>1, SmallestSet
  <1>2. IsFiniteSet(T) /\ IsFiniteSet(A \cup T) /\ ~Agree(T)
    BY FS_Subset, FS_Union
  <1>3. SumFunctionOnSet(f, A) \in Int
    BY SumType
  <1>4. PICK x \in T : TRUE
    <2>1. Agree({})
      <3>1. A \cup {} = A
        OBVIOUS
      <3> QED
        BY <1>3, <3>1, SumOfNone
    <2> QED
      BY <1>2, <2>1
  <1>5. Agree(T \ {x})
    BY <1>1, <1>4
  <1>6. (A \cup T) \ {x} = A \cup (T \ {x}) /\ \A y \in A \cup T : f[y] \in Int
    OBVIOUS
  <1> HIDE DEF F
  <1>7. /\ SumFunctionOnSet(f, T) = f[x] + SumFunctionOnSet(f, T \ {x})
        /\ SumFunctionOnSet(f, T \ {x}) \in Int
    BY <1>2, <1>6, SumSplit
  <1>8. SumFunctionOnSet(f, A \cup T) = f[x] + SumFunctionOnSet(f, A \cup (T \ {x}))
    <2>1. SumFunctionOnSet(f, A \cup T) = f[x] + SumFunctionOnSet(f, (A \cup T) \ {x})
      BY <1>2, <1>6, SumSplit
    <2> QED
      BY <2>1, <1>6
  <1>9. f[x] \in Int
    BY <1>6
  <1> QED
    BY <1>2, <1>3, <1>5, <1>7, <1>8, <1>9

LEMMA SumOfOne ==
    ASSUME NEW y, NEW f, f[y] \in Int
    PROVE  SumFunctionOnSet(f, {y}) = f[y]
  <1>1. SumFunctionOnSet(f, {} \cup {y}) = f[y] + SumFunctionOnSet(f, {})
    BY SumOfOneMore, FS_EmptySet
  <1> QED
    BY <1>1, SumOfNone

\* One value changes, the others stay.
LEMMA SumChanges ==
    ASSUME NEW S, IsFiniteSet(S), NEW f, NEW e, NEW y \in S,
           \A x \in S : f[x] \in Int /\ e[x] \in Int,
           \A x \in S \ {y} : e[x] = f[x]
    PROVE  SumFunctionOnSet(e, S) = SumFunctionOnSet(f, S) - f[y] + e[y]
  <1>1. IsFiniteSet(S \ {y})
    BY FS_Subset
  <1>2. SumFunctionOnSet(e, S \ {y}) = SumFunctionOnSet(f, S \ {y})
    BY <1>1, SumSame
  <1>3. SumFunctionOnSet(f, S) = f[y] + SumFunctionOnSet(f, S \ {y})
    BY SumSplit
  <1>4. SumFunctionOnSet(e, S) = e[y] + SumFunctionOnSet(e, S \ {y})
    BY SumSplit
  <1>5. SumFunctionOnSet(f, S \ {y}) \in Int
    BY SumSplit
  <1> QED
    BY <1>2, <1>3, <1>4, <1>5

\* Sums are additive and keep an order of their summands.
LEMMA SumAdds ==
    ASSUME NEW S, IsFiniteSet(S), NEW f, NEW g, NEW h,
           \A x \in S : f[x] \in Int /\ g[x] \in Int /\ h[x] = f[x] + g[x]
    PROVE  SumFunctionOnSet(h, S) = SumFunctionOnSet(f, S) + SumFunctionOnSet(g, S)
  <1> DEFINE Agree(T) == SumFunctionOnSet(h, T) = SumFunctionOnSet(f, T) + SumFunctionOnSet(g, T)
             F == {T \in SUBSET S : ~Agree(T)}
  <1> SUFFICES ASSUME F # {} PROVE FALSE
    OBVIOUS
  <1>1. PICK T \in F : \A u \in F : u \subseteq T => u = T
    <2>1. F \subseteq SUBSET S
      OBVIOUS
    <2> HIDE DEF F
    <2> QED
      BY <2>1, SmallestSet
  <1>2. IsFiniteSet(T) /\ ~Agree(T)
    BY FS_Subset
  <1>3. PICK x \in T : TRUE
    <2>1. Agree({})
      BY SumOfNone
    <2> QED
      BY <1>2, <2>1
  <1>4. Agree(T \ {x})
    BY <1>1, <1>3
  <1>5. \A y \in T : f[y] \in Int /\ g[y] \in Int /\ h[y] = f[y] + g[y] /\ h[y] \in Int
    OBVIOUS
  <1> HIDE DEF F
  <1>6. /\ SumFunctionOnSet(f, T) = f[x] + SumFunctionOnSet(f, T \ {x})
        /\ SumFunctionOnSet(f, T \ {x}) \in Int
    BY <1>2, <1>5, SumSplit
  <1>7. /\ SumFunctionOnSet(g, T) = g[x] + SumFunctionOnSet(g, T \ {x})
        /\ SumFunctionOnSet(g, T \ {x}) \in Int
    BY <1>2, <1>5, SumSplit
  <1>8. SumFunctionOnSet(h, T) = h[x] + SumFunctionOnSet(h, T \ {x})
    BY <1>2, <1>5, SumSplit
  <1> QED
    BY <1>2, <1>4, <1>5, <1>6, <1>7, <1>8

LEMMA SumOfNaturals ==
    ASSUME NEW S, IsFiniteSet(S), NEW f, \A x \in S : f[x] \in Nat
    PROVE  SumFunctionOnSet(f, S) \in Nat /\ \A x \in S : f[x] <= SumFunctionOnSet(f, S)
  <1> DEFINE F == {T \in SUBSET S : SumFunctionOnSet(f, T) \notin Nat}
  <1>1. F = {}
    <2> SUFFICES ASSUME F # {} PROVE FALSE
      OBVIOUS
    <2>1. PICK T \in F : \A u \in F : u \subseteq T => u = T
      <3>1. F \subseteq SUBSET S
        OBVIOUS
      <3> HIDE DEF F
      <3> QED
        BY <3>1, SmallestSet
    <2>2. IsFiniteSet(T) /\ SumFunctionOnSet(f, T) \notin Nat
      BY FS_Subset
    <2>3. PICK x \in T : TRUE
      BY <2>2, SumOfNone
    <2>4. SumFunctionOnSet(f, T \ {x}) \in Nat
      BY <2>1, <2>3
    <2>5. SumFunctionOnSet(f, T) = f[x] + SumFunctionOnSet(f, T \ {x})
      BY <2>2, SumSplit
    <2> QED
      BY <2>2, <2>4, <2>5
  <1>2. \A T \in SUBSET S : SumFunctionOnSet(f, T) \in Nat
    BY <1>1
  <1>3. ASSUME NEW x \in S PROVE f[x] <= SumFunctionOnSet(f, S)
    <2>1. SumFunctionOnSet(f, S) = f[x] + SumFunctionOnSet(f, S \ {x})
      BY SumSplit
    <2>2. SumFunctionOnSet(f, S \ {x}) \in Nat
      BY <1>2
    <2> QED
      BY <2>1, <2>2
  <1> QED
    BY <1>2, <1>3

LEMMA SumKeepsOrder ==
    ASSUME NEW S, IsFiniteSet(S), NEW f, NEW e,
           \A x \in S : f[x] \in Int /\ e[x] \in Int /\ f[x] <= e[x]
    PROVE  SumFunctionOnSet(f, S) <= SumFunctionOnSet(e, S)
  <1> DEFINE d == [x \in S |-> e[x] - f[x]]
  <1>1. \A x \in S : d[x] \in Nat /\ d[x] \in Int /\ e[x] = f[x] + d[x]
    OBVIOUS
  <1> HIDE DEF d
  <1>2. SumFunctionOnSet(e, S) = SumFunctionOnSet(f, S) + SumFunctionOnSet(d, S)
    BY <1>1, SumAdds
  <1>3. SumFunctionOnSet(d, S) \in Nat /\ SumFunctionOnSet(f, S) \in Int
    BY <1>1, SumOfNaturals, SumType
  <1> QED
    BY <1>2, <1>3

\* An inequality between the summands, whatever they are multiplied by, holds of the
\* sums: an average lies between its parts.
LEMMA SumDominated ==
    ASSUME NEW S, IsFiniteSet(S), NEW f, NEW g, NEW p \in Int, NEW q \in Int,
           \A x \in S : f[x] \in Int /\ g[x] \in Int /\ p * f[x] <= q * g[x]
    PROVE  p * SumFunctionOnSet(f, S) <= q * SumFunctionOnSet(g, S)
  <1> DEFINE Holds(T) == p * SumFunctionOnSet(f, T) <= q * SumFunctionOnSet(g, T)
             F == {T \in SUBSET S : ~Holds(T)}
  <1> SUFFICES ASSUME F # {} PROVE FALSE
    OBVIOUS
  <1>1. PICK T \in F : \A u \in F : u \subseteq T => u = T
    <2>1. F \subseteq SUBSET S
      OBVIOUS
    <2> HIDE DEF F
    <2> QED
      BY <2>1, SmallestSet
  <1>2. IsFiniteSet(T) /\ ~Holds(T)
    BY FS_Subset
  <1>3. PICK x \in T : TRUE
    <2>1. Holds({})
      BY SumOfNone
    <2> QED
      BY <1>2, <2>1
  <1>4. Holds(T \ {x})
    BY <1>1, <1>3
  <1>5. \A y \in T : f[y] \in Int /\ g[y] \in Int /\ p * f[y] <= q * g[y]
    OBVIOUS
  <1> HIDE DEF F
  <1> DEFINE a == SumFunctionOnSet(f, T \ {x})
             b == SumFunctionOnSet(g, T \ {x})
  <1>6. SumFunctionOnSet(f, T) = f[x] + a /\ a \in Int
    BY <1>2, <1>5, SumSplit
  <1>7. SumFunctionOnSet(g, T) = g[x] + b /\ b \in Int
    BY <1>2, <1>5, SumSplit
  <1>8. PICK c \in Int, d \in Int : c = f[x] /\ d = g[x] /\ p * c <= q * d
    BY <1>5
  <1>9. p * a <= q * b
    BY <1>4
  <1> HIDE DEF a, b
  <1>10. p * (c + a) = p * c + p * a /\ q * (d + b) = q * d + q * b
    BY <1>6, <1>7
  <1>11. p * (c + a) <= q * (d + b)
    <2>1. p * c \in Int /\ p * a \in Int /\ q * d \in Int /\ q * b \in Int
      BY <1>6, <1>7
    <2> QED
      BY <1>8, <1>9, <1>10, <2>1
  <1> QED
    BY <1>2, <1>6, <1>7, <1>8, <1>11

\* A sum of ones counts.
LEMMA SumOfOnes ==
    ASSUME NEW S, IsFiniteSet(S), NEW f, \A x \in S : f[x] = 1
    PROVE  SumFunctionOnSet(f, S) = Cardinality(S)
  <1> DEFINE F == {T \in SUBSET S : SumFunctionOnSet(f, T) # Cardinality(T)}
  <1> SUFFICES ASSUME F # {} PROVE FALSE
    OBVIOUS
  <1>1. PICK T \in F : \A u \in F : u \subseteq T => u = T
    <2>1. F \subseteq SUBSET S
      OBVIOUS
    <2> HIDE DEF F
    <2> QED
      BY <2>1, SmallestSet
  <1>2. IsFiniteSet(T) /\ SumFunctionOnSet(f, T) # Cardinality(T)
    BY FS_Subset
  <1>3. PICK x \in T : TRUE
    BY <1>2, SumOfNone, FS_EmptySet
  <1>4. SumFunctionOnSet(f, T \ {x}) = Cardinality(T \ {x})
    BY <1>1, <1>3
  <1>5. \A y \in T : f[y] = 1 /\ f[y] \in Int
    OBVIOUS
  <1> HIDE DEF F
  <1>6. SumFunctionOnSet(f, T) = f[x] + SumFunctionOnSet(f, T \ {x})
    BY <1>2, <1>5, SumSplit
  <1>7. Cardinality(T \ {x}) = Cardinality(T) - 1 /\ Cardinality(T) \in Nat
    BY <1>2, FS_RemoveElement, FS_CardinalityType
  <1> QED
    BY <1>2, <1>4, <1>5, <1>6, <1>7

LEMMA SumOfZeros ==
    ASSUME NEW S, IsFiniteSet(S), NEW f, \A x \in S : f[x] = 0
    PROVE  SumFunctionOnSet(f, S) = 0
  <1> DEFINE F == {T \in SUBSET S : SumFunctionOnSet(f, T) # 0}
  <1> SUFFICES ASSUME F # {} PROVE FALSE
    OBVIOUS
  <1>1. PICK T \in F : \A u \in F : u \subseteq T => u = T
    <2>1. F \subseteq SUBSET S
      OBVIOUS
    <2> HIDE DEF F
    <2> QED
      BY <2>1, SmallestSet
  <1>2. IsFiniteSet(T) /\ SumFunctionOnSet(f, T) # 0
    BY FS_Subset
  <1>3. PICK x \in T : TRUE
    BY <1>2, SumOfNone
  <1>4. SumFunctionOnSet(f, T \ {x}) = 0
    BY <1>1, <1>3
  <1>5. \A y \in T : f[y] = 0 /\ f[y] \in Int
    OBVIOUS
  <1> HIDE DEF F
  <1>6. SumFunctionOnSet(f, T) = f[x] + SumFunctionOnSet(f, T \ {x})
    BY <1>2, <1>5, SumSplit
  <1> QED
    BY <1>2, <1>4, <1>5, <1>6

\* The sum of a sequence when one entry changes, and when one is appended.
LEMMA SequenceSum ==
    ASSUME NEW s \in Seq(Int)
    PROVE  /\ SumFunction(s) = SumFunctionOnSet(s, 1 .. Len(s))
           /\ IsFiniteSet(1 .. Len(s))
           /\ SumFunction(s) \in Int
           /\ s = <<>> => SumFunction(s) = 0
  <1>1. SumFunction(s) = SumFunctionOnSet(s, 1 .. Len(s))
    BY DEF SumFunction
  <1>2. IsFiniteSet(1 .. Len(s))
    BY FS_Interval
  <1>3. \A i \in 1 .. Len(s) : s[i] \in Int
    OBVIOUS
  <1>4. SumFunction(s) \in Int
    BY <1>1, <1>2, <1>3, SumType
  <1>5. s = <<>> => 1 .. Len(s) = {}
    OBVIOUS
  <1> QED
    BY <1>1, <1>2, <1>4, <1>5, SumOfNone

LEMMA EntryChanges ==
    ASSUME NEW s \in Seq(Int), NEW t \in Seq(Int), Len(t) = Len(s),
           NEW k \in 1 .. Len(s), \A i \in 1 .. Len(s) : i # k => t[i] = s[i]
    PROVE  SumFunction(t) = SumFunction(s) - s[k] + t[k]
  <1> DEFINE I == 1 .. Len(s)
  <1>1. /\ SumFunction(s) = SumFunctionOnSet(s, I) /\ IsFiniteSet(I)
        /\ SumFunction(t) = SumFunctionOnSet(t, I)
    BY SequenceSum
  <1>2. /\ \A x \in I : s[x] \in Int /\ t[x] \in Int
        /\ \A x \in I \ {k} : t[x] = s[x]
    OBVIOUS
  <1>3. k \in I
    OBVIOUS
  <1> HIDE DEF I
  <1>4. SumFunctionOnSet(t, I) = SumFunctionOnSet(s, I) - s[k] + t[k]
    BY <1>1, <1>2, <1>3, SumChanges
  <1> QED
    BY <1>1, <1>4

LEMMA EntryAppended ==
    ASSUME NEW s \in Seq(Int), NEW t \in Seq(Int), Len(t) = Len(s) + 1,
           \A i \in 1 .. Len(s) : t[i] = s[i]
    PROVE  SumFunction(t) = SumFunction(s) + t[Len(t)]
  <1> DEFINE I == 1 .. Len(s)
             n == Len(t)
  <1>1. /\ SumFunction(s) = SumFunctionOnSet(s, I) /\ IsFiniteSet(I)
        /\ SumFunction(t) = SumFunctionOnSet(t, 1 .. Len(t)) /\ SumFunction(s) \in Int
    BY SequenceSum
  <1>2. I \cup {n} = 1 .. Len(t) /\ n \notin I /\ t[n] \in Int
    OBVIOUS
  <1>3. /\ \A x \in I \cup {n} : t[x] \in Int
        /\ \A x \in I : t[x] = s[x]
    OBVIOUS
  <1> HIDE DEF I, n
  <1>4. SumFunctionOnSet(t, I) = SumFunctionOnSet(s, I)
    BY <1>1, <1>3, SumSame
  <1>5. SumFunctionOnSet(t, I \cup {n}) = t[n] + SumFunctionOnSet(t, I)
    BY <1>1, <1>2, <1>3, SumOfOneMore
  <1> QED
    <2>1. t[n] + SumFunctionOnSet(s, I) = SumFunctionOnSet(s, I) + t[n]
      BY <1>1, <1>2
    <2> QED
      BY <1>1, <1>2, <1>4, <1>5, <2>1 DEF n

-------------------------------------------------------------------------------
(* Ends of sets of positions. *)

LEMMA MinIsFirst ==
    ASSUME NEW n \in Nat, NEW I, I \subseteq 1 .. n, I # {}
    PROVE  Min(I) \in I /\ \A i \in I : Min(I) <= i
  <1> DEFINE F == {1 .. i : i \in I}
             N == 1 .. n
  <1>1. PICK T \in F : \A U \in F : U \subseteq T => U = T
    <2>1. IsFiniteSet(N)
      BY FS_Interval
    <2>2. \A i \in I : 1 .. i \in SUBSET N
      OBVIOUS
    <2>3. F \subseteq SUBSET N
      BY <2>2
    <2>4. F # {}
      OBVIOUS
    <2> HIDE DEF F, N
    <2> QED
      BY <2>1, <2>3, <2>4, SmallestSet
  <1>2. PICK i \in I : T = 1 .. i
    OBVIOUS
  <1>3. ASSUME NEW j \in I, j < i PROVE FALSE
    <2>1. 1 .. j \in F /\ 1 .. j \subseteq T /\ i \in T /\ i \notin 1 .. j
      BY <1>2, <1>3
    <2> QED
      BY <1>1, <2>1
  <1>4. \A j \in I : i <= j
    BY <1>3
  <1> QED
    BY <1>4 DEF Min

LEMMA MaxIsLast ==
    ASSUME NEW n \in Nat, NEW I, I \subseteq 1 .. n, I # {}
    PROVE  Max(I) \in I /\ \A i \in I : i <= Max(I)
  <1> DEFINE F == {i .. n : i \in I}
             N == 1 .. n
  <1>1. PICK T \in F : \A U \in F : U \subseteq T => U = T
    <2>1. IsFiniteSet(N)
      BY FS_Interval
    <2>2. \A i \in I : i .. n \in SUBSET N
      OBVIOUS
    <2>3. F \subseteq SUBSET N
      BY <2>2
    <2>4. F # {}
      OBVIOUS
    <2> HIDE DEF F, N
    <2> QED
      BY <2>1, <2>3, <2>4, SmallestSet
  <1>2. PICK i \in I : T = i .. n
    OBVIOUS
  <1>3. ASSUME NEW j \in I, i < j PROVE FALSE
    <2>1. j .. n \in F /\ j .. n \subseteq T /\ i \in T /\ i \notin j .. n
      BY <1>2, <1>3
    <2> QED
      BY <1>1, <2>1
  <1>4. \A j \in I : j <= i
    BY <1>3
  <1> QED
    BY <1>4 DEF Max

-------------------------------------------------------------------------------
(* Recursion over the naturals, for a step that is a function. *)

LEMMA LeastNatural ==
    ASSUME NEW B, B \subseteq Nat, B # {}
    PROVE  \E m \in B : \A k \in B : m <= k
  <1>1. PICK n \in B : TRUE
    OBVIOUS
  <1> DEFINE I == {i \in 1 .. n + 1 : i - 1 \in B}
  <1>2. PICK m \in Nat : m = n + 1
    OBVIOUS
  <1>3. I \subseteq 1 .. m /\ m \in I
    BY <1>1, <1>2
  <1> HIDE DEF I
  <1>4. Min(I) \in I /\ \A i \in I : Min(I) <= i
    BY <1>3, MinIsFirst
  <1>5. PICK i \in 1 .. n + 1 : i - 1 \in B /\ \A j \in I : i <= j
    BY <1>4 DEF I
  <1>6. ASSUME NEW k \in B PROVE i - 1 <= k
    <2>1. CASE k <= n
      <3>1. k + 1 \in I
        BY <1>1, <1>2, <2>1 DEF I
      <3> QED
        BY <1>1, <1>2, <1>5, <3>1
    <2>2. CASE k > n
      BY <1>1, <1>5, <2>2
    <2> QED
      BY <1>1, <2>1, <2>2
  <1> QED
    BY <1>5, <1>6

\* The values up to m of a recursion that begins with a and goes on with T.
Follows(r, m, a, T) ==
    r[0] = a /\ \A n \in 0 .. m - 1 : r[n + 1] = T[<<n, r[n]>>]

\* All of them.
IsRecursion(r, D, a, T) ==
    r \in [Nat -> D] /\ r[0] = a /\ \A n \in Nat : r[n + 1] = T[<<n, r[n]>>]

LEMMA Recursion ==
    ASSUME NEW D, NEW a \in D, NEW T \in [Nat \X D -> D]
    PROVE  \E r : IsRecursion(r, D, a, T)
  <1>1. ASSUME NEW m \in Nat PROVE \E r \in [0 .. m -> D] : Follows(r, m, a, T)
    <2> DEFINE B == {k \in Nat : ~ \E r \in [0 .. k -> D] : Follows(r, k, a, T)}
    <2> SUFFICES ASSUME m \in B PROVE FALSE
      OBVIOUS
    <2>0. B # {}
      OBVIOUS
    <2>1. B \subseteq Nat
      OBVIOUS
    <2>2. PICK k \in B : \A j \in B : k <= j
      <3> HIDE DEF B
      <3> QED
        BY <2>1, <2>0, LeastNatural
    <2>3. CASE k = 0
      <3> DEFINE e == [n \in 0 .. 0 |-> a]
      <3>1. e \in [0 .. k -> D] /\ Follows(e, k, a, T)
        BY <2>3 DEF Follows
      <3> QED
        BY <2>2, <3>1
    <2>4. CASE k > 0
      <3>1. k - 1 \in Nat /\ k - 1 \notin B
        BY <2>1, <2>2, <2>4
      <3>2. PICK r \in [0 .. k - 1 -> D] : Follows(r, k - 1, a, T)
        BY <3>1
      <3> DEFINE e == [n \in 0 .. k |-> IF n = k THEN T[<<k - 1, r[k - 1]>>] ELSE r[n]]
      <3>3. r[k - 1] \in D /\ T[<<k - 1, r[k - 1]>>] \in D
        BY <3>1
      <3>4. e \in [0 .. k -> D]
        BY <3>1, <3>3
      <3>5. e[0] = a /\ e[k] = T[<<k - 1, e[k - 1]>>]
        <4>1. 0 # k /\ k - 1 # k /\ k - 1 \in 0 .. k /\ 0 \in 0 .. k /\ k \in 0 .. k
          BY <3>1, <2>4
        <4>2. e[0] = r[0] /\ e[k] = T[<<k - 1, r[k - 1]>>] /\ e[k - 1] = r[k - 1]
          BY <4>1
        <4> QED
          BY <3>2, <4>2 DEF Follows
      <3>6. ASSUME NEW n \in 0 .. k - 2 PROVE e[n + 1] = T[<<n, e[n]>>]
        BY <3>1, <3>2, <2>4 DEF Follows
      <3> HIDE DEF e
      <3>7. Follows(e, k, a, T)
        <4>1. ASSUME NEW n \in 0 .. k - 1 PROVE e[n + 1] = T[<<n, e[n]>>]
          <5>1. CASE n = k - 1
            <6>1. n + 1 = k
              BY <5>1
            <6> QED
              BY <3>5, <5>1, <6>1
          <5>2. CASE n # k - 1
            <6>1. n \in 0 .. k - 2
              BY <5>2
            <6> QED
              BY <3>6, <6>1
          <5> QED
            BY <5>1, <5>2
        <4> QED
          BY <3>5, <4>1 DEF Follows
      <3> QED
        BY <2>2, <3>4, <3>7
    <2> QED
      BY <2>1, <2>2, <2>3, <2>4
  <1>2. ASSUME NEW m \in Nat, NEW k \in Nat, m <= k,
               NEW r, Follows(r, m, a, T), NEW e, Follows(e, k, a, T)
        PROVE  r[m] = e[m]
    <2> DEFINE B == {n \in 0 .. m : r[n] # e[n]}
    <2> SUFFICES ASSUME m \in B PROVE FALSE
      OBVIOUS
    <2>0. B # {}
      OBVIOUS
    <2>1. B \subseteq Nat
      OBVIOUS
    <2>2. PICK n \in B : \A j \in B : n <= j
      <3> HIDE DEF B
      <3> QED
        BY <2>1, <2>0, LeastNatural
    <2>3. n # 0
      BY <1>2, <2>2 DEF Follows
    <2>4. n - 1 \in 0 .. m - 1 /\ n - 1 \in 0 .. k - 1 /\ n - 1 \notin B /\ (n - 1) + 1 = n
      BY <1>2, <2>2, <2>3
    <2>5. r[n - 1] = e[n - 1]
      BY <2>4
    <2>6. r[n] = T[<<n - 1, r[n - 1]>>] /\ e[n] = T[<<n - 1, e[n - 1]>>]
      BY <1>2, <2>4 DEF Follows
    <2> QED
      BY <2>2, <2>5, <2>6
  <1> DEFINE part(m) == CHOOSE r \in [0 .. m -> D] : Follows(r, m, a, T)
             whole == [m \in Nat |-> part(m)[m]]
  <1>3. ASSUME NEW m \in Nat PROVE part(m) \in [0 .. m -> D] /\ Follows(part(m), m, a, T)
    BY <1>1
  <1> HIDE DEF part
  <1>4. whole \in [Nat -> D]
    BY <1>3
  <1>5. whole[0] = a
    BY <1>3 DEF Follows
  <1>6. ASSUME NEW n \in Nat PROVE whole[n + 1] = T[<<n, whole[n]>>]
    <2>1. n + 1 \in Nat /\ n \in 0 .. (n + 1) - 1 /\ n <= n + 1
      OBVIOUS
    <2>2. part(n + 1)[n + 1] = T[<<n, part(n + 1)[n]>>]
      BY <1>3, <2>1 DEF Follows
    <2>3. part(n)[n] = part(n + 1)[n]
      BY <1>2, <1>3, <2>1
    <2> QED
      BY <2>1, <2>2, <2>3
  <1> HIDE DEF whole
  <1> QED
    BY <1>4, <1>5, <1>6 DEF IsRecursion

\* A loop whose turns T each make a measure m smaller, until F is reached, has an outcome.
Loops(g, S, F, T) == \A s \in S : g[s] = IF s \in F THEN s ELSE g[T[s]]

LEMMA LoopEnds ==
    ASSUME NEW S, NEW F, NEW T \in [S -> S], NEW m \in [S -> Nat],
           \A s \in S \ F : m[T[s]] < m[s]
    PROVE  \E g \in [S -> S] : Loops(g, S, F, T)
  <1> DEFINE D == [S -> S]
             a == [s \in S |-> s]
             U == [p \in Nat \X D |-> [s \in S |-> IF s \in F THEN s ELSE p[2][T[s]]]]
  <1>1. a \in D
    OBVIOUS
  <1>2. U \in [Nat \X D -> D]
    <2>1. ASSUME NEW p \in Nat \X D
          PROVE  [s \in S |-> IF s \in F THEN s ELSE p[2][T[s]]] \in D
      <3>1. p[2] \in [S -> S]
        OBVIOUS
      <3> QED
        BY <3>1
    <2> QED
      BY <2>1
  <1>3. \A n \in Nat, h \in D, s \in S : U[<<n, h>>][s] = IF s \in F THEN s ELSE h[T[s]]
    OBVIOUS
  <1> HIDE DEF U, a
  <1>4. PICK r : IsRecursion(r, D, a, U)
    <2> HIDE DEF D
    <2> QED
      BY <1>1, <1>2, Recursion
  <1>5. \A s \in S : r[0][s] = s
    BY <1>4 DEF a, IsRecursion
  <1>6. ASSUME NEW n \in Nat, NEW s \in S
        PROVE  r[n + 1][s] = IF s \in F THEN s ELSE r[n][T[s]]
    <2>1. r[n] \in D /\ r[n + 1] = U[<<n, r[n]>>]
      BY <1>4 DEF IsRecursion
    <2> QED
      BY <1>3, <2>1
  <1>7. ASSUME NEW n \in Nat, NEW s \in S, m[s] <= n PROVE r[n + 1][s] = r[n][s]
    <2> DEFINE B == {k \in Nat : \E t \in S : m[t] <= k /\ r[k + 1][t] # r[k][t]}
    <2> SUFFICES ASSUME n \in B PROVE FALSE
      BY <1>7
    <2>1. B \subseteq Nat /\ B # {}
      OBVIOUS
    <2>2. PICK k \in B : \A j \in B : k <= j
      <3> HIDE DEF B
      <3> QED
        BY <2>1, LeastNatural
    <2>3. k \in Nat /\ k - 1 \notin B
      BY <2>1, <2>2
    <2>4. PICK t \in S : m[t] <= k /\ r[k + 1][t] # r[k][t]
      BY <2>2
    <2>5. CASE k = 0
      <3>1. m[t] = 0 /\ m[T[t]] \in Nat
        BY <2>4, <2>5
      <3>2. t \in F
        BY <3>1
      <3>3. r[k + 1][t] = t /\ r[k][t] = t
        BY <1>5, <1>6, <2>3, <2>5, <3>2
      <3> QED
        BY <2>4, <3>3
    <2>6. CASE k > 0
      <3>1. k - 1 \in Nat /\ (k - 1) + 1 = k
        BY <2>3, <2>6
      <3>2. r[k + 1][t] = IF t \in F THEN t ELSE r[k][T[t]]
        BY <1>6, <2>3
      <3>3. r[k][t] = IF t \in F THEN t ELSE r[k - 1][T[t]]
        BY <1>6, <3>1
      <3>4. t \notin F
        BY <2>4, <3>2, <3>3
      <3>5. T[t] \in S /\ m[t] \in Nat /\ m[T[t]] \in Nat /\ m[T[t]] < m[t]
        BY <3>4
      <3>6. m[T[t]] <= k - 1
        BY <2>3, <2>4, <3>5
      <3>7. r[(k - 1) + 1][T[t]] = r[k - 1][T[t]]
        BY <2>3, <3>1, <3>5, <3>6
      <3> QED
        BY <2>4, <3>1, <3>2, <3>3, <3>4, <3>7
    <2> QED
      BY <2>3, <2>5, <2>6
  <1>8. ASSUME NEW n \in Nat, NEW s \in S, m[s] <= n PROVE r[n][s] = r[m[s]][s]
    <2> DEFINE B == {k \in Nat : \E t \in S : m[t] <= k /\ r[k][t] # r[m[t]][t]}
    <2> SUFFICES ASSUME n \in B PROVE FALSE
      BY <1>8
    <2>1. B \subseteq Nat /\ B # {}
      OBVIOUS
    <2>2. PICK k \in B : \A j \in B : k <= j
      <3> HIDE DEF B
      <3> QED
        BY <2>1, LeastNatural
    <2>3. k \in Nat /\ k - 1 \notin B
      BY <2>1, <2>2
    <2>4. PICK t \in S : m[t] <= k /\ r[k][t] # r[m[t]][t]
      BY <2>2
    <2>5. m[t] # k /\ m[t] <= k
      BY <2>4, Zenon
    <2>6. m[t] \in Nat
      OBVIOUS
    <2>7. m[t] \in Nat /\ m[t] <= k - 1 /\ k - 1 \in Nat /\ (k - 1) + 1 = k
      BY <2>3, <2>5, <2>6
    <2>8. r[(k - 1) + 1][t] = r[k - 1][t]
      BY <1>7, <2>7
    <2>9. r[k - 1][t] = r[m[t]][t]
      BY <2>3, <2>7
    <2> QED
      BY <2>4, <2>7, <2>8, <2>9
  <1> DEFINE g == [s \in S |-> r[m[s]][s]]
  <1>9. g \in [S -> S]
    BY <1>4 DEF IsRecursion
  <1>10. ASSUME NEW s \in S PROVE g[s] = IF s \in F THEN s ELSE g[T[s]]
    <2>1. m[s] \in Nat
      OBVIOUS
    <2>2. CASE s \in F
      <3>1. CASE m[s] = 0
        BY <1>5, <2>2, <3>1
      <3>2. CASE m[s] # 0
        <4>1. m[s] - 1 \in Nat /\ (m[s] - 1) + 1 = m[s]
          BY <2>1, <3>2
        <4> QED
          BY <1>6, <2>2, <4>1
      <3> QED
        BY <3>1, <3>2
    <2>3. CASE s \notin F
      <3>1. T[s] \in S /\ m[T[s]] \in Nat /\ m[T[s]] < m[s]
        BY <2>3
      <3>2. m[s] - 1 \in Nat /\ (m[s] - 1) + 1 = m[s] /\ m[T[s]] <= m[s] - 1
        BY <2>1, <3>1
      <3>3. r[(m[s] - 1) + 1][s] = r[m[s] - 1][T[s]]
        BY <1>6, <2>3, <3>2
      <3>4. r[m[s] - 1][T[s]] = r[m[T[s]]][T[s]]
        BY <1>8, <3>1, <3>2
      <3> QED
        BY <2>3, <3>1, <3>2, <3>3, <3>4
    <2> QED
      BY <2>2, <2>3
  <1> HIDE DEF g
  <1> QED
    BY <1>9, <1>10 DEF Loops

-------------------------------------------------------------------------------
(* What Keep lets through. *)

\* What holds of the empty sequence and goes on to hold as elements are appended holds of
\* every sequence.
LEMMA SequencesGrow ==
    ASSUME NEW S, NEW G, <<>> \in G,
           \A s \in Seq(S), x \in S : s \in G => Append(s, x) \in G
    PROVE  Seq(S) \subseteq G
  <1> DEFINE B == {n \in Nat : \E s \in Seq(S) : s \notin G /\ Len(s) = n}
  <1> SUFFICES ASSUME NEW z \in Seq(S), z \notin G PROVE FALSE
    OBVIOUS
  <1>1. B \subseteq Nat /\ B # {}
    <2>1. Len(z) \in B
      OBVIOUS
    <2> QED
      BY <2>1
  <1>2. PICK n \in B : \A j \in B : n <= j
    <2> HIDE DEF B
    <2> QED
      BY <1>1, LeastNatural
  <1>3. PICK s \in Seq(S) : s \notin G /\ Len(s) = n
    BY <1>2
  <1>4. n # 0
    <2>1. Len(s) # 0
      BY <1>3
    <2> QED
      BY <1>3, <2>1
  <1> DEFINE t == SubSeq(s, 1, n - 1)
  <1>5. n \in Nat /\ n - 1 \in Nat /\ n - 1 \notin B
    BY <1>2, <1>4
  <1>6. t \in Seq(S) /\ Len(t) = n - 1 /\ s[n] \in S
    BY <1>3, <1>4, <1>5
  <1>7. s = Append(t, s[n])
    BY <1>3, <1>5, <1>6
  <1>8. t \in G
    BY <1>5, <1>6
  <1> HIDE DEF t
  <1> QED
    BY <1>3, <1>6, <1>7, <1>8

\* The recursive function that Keep is the last value of.
IsKeeper(k, s, D) ==
    k = [n \in 0 .. Len(s) |-> IF n = 0 THEN <<>>
                               ELSE IF s[n] \in D THEN Append(k[n - 1], s[n])
                               ELSE k[n - 1]]
Keeper(s, D) == CHOOSE k : IsKeeper(k, s, D)

LEMMA KeepIsKeeper == \A s, D : Keep(s, D) = Keeper(s, D)[Len(s)]
  BY Zenon DEF Keep, Keeper, IsKeeper

LEMMA KeeperKeeps ==
    ASSUME NEW S, NEW s \in Seq(S), NEW D
    PROVE  /\ IsKeeper(Keeper(s, D), s, D)
           /\ \A n \in 0 .. Len(s) : Keeper(s, D)[n] \in Seq(S)
  <1> DEFINE Q == Seq(S)
             Step(n, q) == IF n + 1 <= Len(s) /\ s[n + 1] \in D THEN Append(q, s[n + 1]) ELSE q
             U == [p \in Nat \X Q |-> Step(p[1], p[2])]
  <1>1. <<>> \in Q
    OBVIOUS
  <1>2. \A n \in Nat, q \in Q : Step(n, q) \in Q
    OBVIOUS
  <1> HIDE DEF Q, Step
  <1>3. U \in [Nat \X Q -> Q] /\ \A n \in Nat, q \in Q : U[<<n, q>>] = Step(n, q)
    BY <1>2
  <1> HIDE DEF U
  <1>4. PICK r : IsRecursion(r, Q, <<>>, U)
    BY <1>1, <1>3, Recursion
  <1>5. \A n \in Nat : r[n] \in Q
    BY <1>4 DEF IsRecursion
  <1>6. r[0] = <<>>
    BY <1>4 DEF IsRecursion
  <1>7. \A n \in Nat : r[n + 1] = Step(n, r[n])
    BY <1>3, <1>4, <1>5 DEF IsRecursion
  <1> DEFINE k == [n \in 0 .. Len(s) |-> r[n]]
             Nth(h, n) == IF n = 0 THEN <<>>
                           ELSE IF s[n] \in D THEN Append(h[n - 1], s[n])
                           ELSE h[n - 1]
  <1>8. Len(s) \in Nat
    OBVIOUS
  <1>9. ASSUME NEW n \in 0 .. Len(s) PROVE k[n] = Nth(k, n)
    <2>1. CASE n = 0
      BY <1>6, <1>8, <2>1
    <2>2. CASE n # 0
      <3>1. PICK m \in Nat : m = n - 1
        BY <2>2
      <3>2. m \in 0 .. Len(s) /\ n = m + 1 /\ n \in 0 .. Len(s) /\ m + 1 <= Len(s)
        BY <1>8, <3>1
      <3>3. k[n] = Step(m, r[m]) /\ k[m] = r[m]
        BY <1>7, <3>2
      <3>4. Step(m, r[m]) = IF s[n] \in D THEN Append(r[m], s[n]) ELSE r[m]
        BY <3>2 DEF Step
      <3> QED
        BY <2>2, <3>1, <3>3, <3>4
    <2> QED
      BY <2>1, <2>2
  <1>10. k = [n \in 0 .. Len(s) |-> Nth(k, n)]
    <2>1. \A n \in 0 .. Len(s) : k[n] = Nth(k, n)
      BY <1>9
    <2>2. k = [n \in 0 .. Len(s) |-> k[n]]
      OBVIOUS
    <2> HIDE DEF k, Nth
    <2> QED
      BY <2>1, <2>2
  <1>11. IsKeeper(k, s, D)
    BY <1>10, Zenon DEF IsKeeper
  <1> HIDE DEF k, Nth
  <1>12. IsKeeper(Keeper(s, D), s, D)
    BY <1>11, Zenon DEF Keeper
  <1>13. ASSUME NEW h, IsKeeper(h, s, D) PROVE \A n \in 0 .. Len(s) : h[n] \in Seq(S)
    <2> DEFINE B == {n \in 0 .. Len(s) : h[n] \notin Seq(S)}
    <2> SUFFICES ASSUME B # {} PROVE FALSE
      OBVIOUS
    <2>1. B \subseteq Nat
      OBVIOUS
    <2>2. PICK n \in B : \A j \in B : n <= j
      <3> HIDE DEF B
      <3> QED
        BY <2>1, LeastNatural
    <2>3. h[n] = IF n = 0 THEN <<>>
                 ELSE IF s[n] \in D THEN Append(h[n - 1], s[n]) ELSE h[n - 1]
      BY <1>13, <2>2 DEF IsKeeper
    <2>4. h[n] \notin Seq(S) /\ <<>> \in Seq(S) /\ n \in 0 .. Len(s)
      BY <2>2
    <2>5. n # 0
      BY <2>3, <2>4
    <2>6. n - 1 \in 0 .. Len(s) /\ n - 1 \notin B /\ n \in 1 .. Len(s)
      BY <1>8, <2>2, <2>5
    <2>7. h[n - 1] \in Seq(S) /\ s[n] \in S
      BY <2>6
    <2>8. Append(h[n - 1], s[n]) \in Seq(S)
      BY <2>7
    <2> HIDE DEF B
    <2> QED
      BY <2>3, <2>4, <2>5, <2>7, <2>8
  <1> QED
    BY <1>12, <1>13

\* Keep looks at its list one element after the other.
LEMMA KeepNothing == \A D : Keep(<<>>, D) = <<>>
  <1> SUFFICES ASSUME NEW D PROVE Keep(<<>>, D) = <<>>
    OBVIOUS
  <1>1. <<>> \in Seq({}) /\ Len(<<>>) = 0
    OBVIOUS
  <1> DEFINE e == <<>>
  <1>2. e \in Seq({}) /\ Len(e) = 0
    OBVIOUS
  <1> HIDE DEF e
  <1>3. IsKeeper(Keeper(e, D), e, D)
    BY <1>2, KeeperKeeps
  <1>4. Keeper(e, D)[0] = <<>>
    BY <1>2, <1>3 DEF IsKeeper
  <1> QED
    BY <1>2, <1>4, KeepIsKeeper DEF e

WithIf(q, x, D) == IF x \in D THEN Append(q, x) ELSE q

LEMMA KeepOneMore ==
    ASSUME NEW S, NEW s \in Seq(S), NEW x \in S, NEW D
    PROVE  /\ Keep(s, D) \in Seq(S)
           /\ Keep(Append(s, x), D) = WithIf(Keep(s, D), x, D)
  <1> DEFINE t == Append(s, x)
             g == Keeper(s, D)
             h == Keeper(t, D)
  <1>1. /\ t \in Seq(S) /\ Len(t) = Len(s) + 1 /\ Len(s) \in Nat
        /\ \A i \in 1 .. Len(s) : t[i] = s[i]
        /\ t[Len(s) + 1] = x
    OBVIOUS
  <1> HIDE DEF t
  <1>2. IsKeeper(g, s, D) /\ IsKeeper(h, t, D) /\ g[Len(s)] \in Seq(S)
    BY <1>1, KeeperKeeps
  <1> HIDE DEF g, h
  <1>3. \A n \in 0 .. Len(s) : g[n] = IF n = 0 THEN <<>>
                                     ELSE IF s[n] \in D THEN Append(g[n - 1], s[n]) ELSE g[n - 1]
    BY <1>2 DEF IsKeeper
  <1>4. \A n \in 0 .. Len(t) : h[n] = IF n = 0 THEN <<>>
                                     ELSE IF t[n] \in D THEN Append(h[n - 1], t[n]) ELSE h[n - 1]
    BY <1>2 DEF IsKeeper
  <1>5. \A n \in 0 .. Len(s) : g[n] = h[n]
    <2> DEFINE B == {n \in 0 .. Len(s) : g[n] # h[n]}
    <2> SUFFICES ASSUME B # {} PROVE FALSE
      OBVIOUS
    <2>1. B \subseteq Nat
      OBVIOUS
    <2>2. PICK n \in B : \A j \in B : n <= j
      <3> HIDE DEF B
      <3> QED
        BY <2>1, LeastNatural
    <2>3. n \in 0 .. Len(s) /\ n \in 0 .. Len(t)
      BY <1>1, <2>2
    <2>4. n # 0
      BY <1>3, <1>4, <2>2, <2>3
    <2>5. n - 1 \in 0 .. Len(s) /\ n - 1 \notin B /\ n \in 1 .. Len(s)
      BY <1>1, <2>2, <2>3, <2>4
    <2>6. g[n - 1] = h[n - 1] /\ t[n] = s[n]
      BY <1>1, <2>5
    <2> QED
      BY <1>3, <1>4, <2>2, <2>3, <2>4, <2>6
  <1>6. h[Len(s) + 1] = IF x \in D THEN Append(h[Len(s)], x) ELSE h[Len(s)]
    <2>1. PICK m : m = Len(s) + 1
      OBVIOUS
    <2>2. m \in 0 .. Len(t) /\ m # 0 /\ m - 1 = Len(s) /\ t[m] = x
      BY <1>1, <2>1
    <2>3. h[m] = IF t[m] \in D THEN Append(h[m - 1], t[m]) ELSE h[m - 1]
      BY <1>4, <2>2
    <2> QED
      BY <2>1, <2>2, <2>3
  <1>7. Keep(s, D) = g[Len(s)] /\ Keep(t, D) = h[Len(s) + 1]
    BY <1>1, KeepIsKeeper DEF g, h
  <1>8. g[Len(s)] = h[Len(s)]
    BY <1>1, <1>5
  <1> QED
    BY <1>2, <1>6, <1>7, <1>8 DEF t, WithIf

LEMMA KeepType ==
    ASSUME NEW S, NEW D
    PROVE  \A s \in Seq(S) : /\ Keep(s, D) \in Seq(S)
                             /\ Keep(s, D) \in Seq(D)
  <1> DEFINE G == {s \in Seq(S) : Keep(s, D) \in Seq(D)}
  <1>1. <<>> \in G
    <2>1. <<>> \in Seq(S) /\ <<>> \in Seq(D) /\ Keep(<<>>, D) = <<>>
      BY KeepNothing
    <2> QED
      BY <2>1
  <1>2. ASSUME NEW s \in Seq(S), NEW x \in S, s \in G PROVE Append(s, x) \in G
    <2>1. Keep(Append(s, x), D) = WithIf(Keep(s, D), x, D)
      BY KeepOneMore
    <2>2. Keep(s, D) \in Seq(D) /\ Append(s, x) \in Seq(S)
      BY <1>2
    <2>3. x \in D => Append(Keep(s, D), x) \in Seq(D)
      BY <2>2
    <2>4. Keep(Append(s, x), D) \in Seq(D)
      BY <2>1, <2>2, <2>3 DEF WithIf
    <2> QED
      BY <2>2, <2>4
  <1>3. Seq(S) \subseteq G
    <2> HIDE DEF G
    <2> QED
      BY <1>1, <1>2, SequencesGrow
  <1>4. ASSUME NEW s \in Seq(S) PROVE Keep(s, D) \in Seq(S)
    <2>1. S = {} \/ \E x \in S : TRUE
      OBVIOUS
    <2>2. CASE S = {}
      <3>1. s = <<>>
        BY <2>2
      <3> QED
        BY <3>1, KeepNothing
    <2>3. CASE \E x \in S : TRUE
      BY <2>3, KeepOneMore
    <2> QED
      BY <2>1, <2>2, <2>3
  <1> QED
    BY <1>3, <1>4

\* Two sets that agree on the elements of a list let the same through; one that holds them
\* all lets the list through, one that holds none of them nothing.
Alike(s, D, C) == \A i \in 1 .. Len(s) : s[i] \in D <=> s[i] \in C

LEMMA AlikeBefore ==
    ASSUME NEW S, NEW s \in Seq(S), NEW x \in S, NEW D, NEW C, Alike(Append(s, x), D, C)
    PROVE  Alike(s, D, C) /\ (x \in D <=> x \in C)
  <1> DEFINE t == Append(s, x)
  <1>1. /\ Len(s) \in Nat /\ Len(t) = Len(s) + 1
        /\ \A i \in 1 .. Len(s) : t[i] = s[i]
        /\ t[Len(s) + 1] = x
    OBVIOUS
  <1> HIDE DEF t
  <1>2. \A i \in 1 .. Len(t) : t[i] \in D <=> t[i] \in C
    BY DEF t, Alike
  <1>3. Len(s) + 1 \in 1 .. Len(t) /\ \A i \in 1 .. Len(s) : i \in 1 .. Len(t)
    BY <1>1
  <1> QED
    BY <1>1, <1>2, <1>3 DEF Alike

LEMMA KeepSame ==
    ASSUME NEW S, NEW z \in Seq(S), NEW D, NEW C, Alike(z, D, C)
    PROVE  Keep(z, D) = Keep(z, C)
  <1> DEFINE G == {s \in Seq(S) : Alike(s, D, C) => Keep(s, D) = Keep(s, C)}
  <1>1. <<>> \in G
    BY KeepNothing
  <1>2. ASSUME NEW s \in Seq(S), NEW x \in S, s \in G PROVE Append(s, x) \in G
    <2> SUFFICES ASSUME Alike(Append(s, x), D, C)
                 PROVE  Keep(Append(s, x), D) = Keep(Append(s, x), C)
      OBVIOUS
    <2>1. Alike(s, D, C) /\ (x \in D <=> x \in C)
      BY AlikeBefore
    <2>2. Keep(s, D) = Keep(s, C)
      BY <1>2, <2>1
    <2>3. Keep(Append(s, x), D) = WithIf(Keep(s, D), x, D)
      BY KeepOneMore
    <2>4. Keep(Append(s, x), C) = WithIf(Keep(s, C), x, C)
      BY KeepOneMore
    <2> QED
      BY <2>1, <2>2, <2>3, <2>4 DEF WithIf
  <1>3. Seq(S) \subseteq G
    <2> HIDE DEF G
    <2> QED
      BY <1>1, <1>2, SequencesGrow
  <1> QED
    BY <1>3

LEMMA KeepAll ==
    ASSUME NEW S, NEW z \in Seq(S)
    PROVE  Keep(z, S) = z
  <1> DEFINE G == {s \in Seq(S) : Keep(s, S) = s}
  <1>1. <<>> \in G
    BY KeepNothing
  <1>2. ASSUME NEW s \in Seq(S), NEW x \in S, s \in G PROVE Append(s, x) \in G
    <2>1. Keep(Append(s, x), S) = WithIf(Keep(s, S), x, S)
      BY KeepOneMore
    <2> QED
      BY <1>2, <2>1 DEF WithIf
  <1>3. Seq(S) \subseteq G
    <2> HIDE DEF G
    <2> QED
      BY <1>1, <1>2, SequencesGrow
  <1> QED
    BY <1>3

LEMMA KeepNone ==
    ASSUME NEW S, NEW z \in Seq(S)
    PROVE  Keep(z, {}) = <<>>
  <1>1. Keep(z, {}) \in Seq({})
    BY KeepType
  <1> QED
    BY <1>1

\* To cut down twice is to cut down to what both let through.
LEMMA KeepTwice ==
    ASSUME NEW S, NEW z \in Seq(S), NEW D, NEW C
    PROVE  Keep(Keep(z, D), C) = Keep(z, D \cap C)
  <1> DEFINE G == {s \in Seq(S) : Keep(Keep(s, D), C) = Keep(s, D \cap C)}
  <1>1. <<>> \in G
    BY KeepNothing
  <1>2. ASSUME NEW s \in Seq(S), NEW x \in S, s \in G PROVE Append(s, x) \in G
    <2> DEFINE E == D \cap C
               q == Keep(s, D)
    <2>1. q \in Seq(S)
      BY KeepType
    <2>2. Keep(q, C) = Keep(s, E)
      BY <1>2
    <2>3. Keep(Append(s, x), D) = WithIf(q, x, D)
      BY KeepOneMore
    <2>4. x \in E <=> x \in D /\ x \in C
      OBVIOUS
    <2> HIDE DEF q, E
    <2>5. Keep(Append(s, x), E) = WithIf(Keep(s, E), x, E)
      BY KeepOneMore
    <2>6. Keep(Append(q, x), C) = WithIf(Keep(q, C), x, C)
      BY <2>1, KeepOneMore
    <2>7. Keep(Keep(Append(s, x), D), C) = Keep(Append(s, x), E)
      BY <2>2, <2>3, <2>4, <2>5, <2>6 DEF WithIf
    <2> QED
      BY <2>7 DEF E
  <1>3. Seq(S) \subseteq G
    <2> HIDE DEF G
    <2> QED
      BY <1>1, <1>2, SequencesGrow
  <1> QED
    BY <1>3

\* Cutting down a mapped list.
LEMMA MappedIsList ==
    ASSUME NEW S, NEW T, NEW f \in [S -> T], NEW s \in Seq(S)
    PROVE  /\ Mapped(f, s) \in Seq(T) /\ Len(Mapped(f, s)) = Len(s)
           /\ \A i \in 1 .. Len(s) : Mapped(f, s)[i] = f[s[i]]
  BY DEF Mapped

LEMMA MappedGrows ==
    ASSUME NEW S, NEW T, NEW f \in [S -> T], NEW s \in Seq(S), NEW x \in S
    PROVE  Mapped(f, Append(s, x)) = Append(Mapped(f, s), f[x])
  <1>1. Mapped(f, s) \in Seq(T) /\ Len(Mapped(f, s)) = Len(s)
        /\ \A i \in 1 .. Len(s) : Mapped(f, s)[i] = f[s[i]]
    BY DEF Mapped
  <1> DEFINE t == Append(s, x)
             a == Mapped(f, t)
             m == Mapped(f, s)
             b == Append(m, f[x])
  <1>2. /\ t \in Seq(S) /\ Len(t) = Len(s) + 1 /\ Len(s) \in Nat
        /\ \A i \in 1 .. Len(s) : t[i] = s[i]
        /\ t[Len(s) + 1] = x
    OBVIOUS
  <1> HIDE DEF t, m
  <1>3. /\ a \in Seq(T) /\ Len(a) = Len(t)
        /\ \A i \in 1 .. Len(t) : a[i] = f[t[i]]
    BY <1>2 DEF Mapped
  <1>4. m \in Seq(T) /\ Len(m) = Len(s) /\ \A i \in 1 .. Len(s) : m[i] = f[s[i]]
    BY <1>1 DEF m
  <1>5. /\ b \in Seq(T) /\ Len(b) = Len(s) + 1
        /\ \A i \in 1 .. Len(s) : b[i] = m[i]
        /\ b[Len(s) + 1] = f[x]
    BY <1>4
  <1> HIDE DEF a, b
  <1>6. ASSUME NEW i \in 1 .. Len(s) + 1 PROVE a[i] = b[i]
    <2>1. CASE i \in 1 .. Len(s)
      BY <1>2, <1>3, <1>4, <1>5, <2>1
    <2>2. CASE i = Len(s) + 1
      BY <1>2, <1>3, <1>5, <2>2
    <2> QED
      BY <1>2, <2>1, <2>2
  <1>7. a = [i \in 1 .. Len(a) |-> a[i]] /\ b = [i \in 1 .. Len(b) |-> b[i]]
    BY <1>3, <1>5
  <1>8. a = b
    BY <1>2, <1>3, <1>5, <1>6, <1>7
  <1> QED
    BY <1>8 DEF a, b, t, m

\* The elements of S that f takes into C.
TakenInto(S, f, C) == {x \in S : f[x] \in C}

LEMMA KeepMapped ==
    ASSUME NEW S, NEW T, NEW f \in [S -> T], NEW z \in Seq(S), NEW C
    PROVE  Keep(Mapped(f, z), C) = Mapped(f, Keep(z, TakenInto(S, f, C)))
  <1> DEFINE D == TakenInto(S, f, C)
             G == {s \in Seq(S) : Keep(Mapped(f, s), C) = Mapped(f, Keep(s, D))}
  <1>1. <<>> \in G
    <2>1. Mapped(f, <<>>) = <<>>
      BY DEF Mapped
    <2> QED
      BY <2>1, KeepNothing
  <1>2. ASSUME NEW s \in Seq(S), NEW x \in S, s \in G PROVE Append(s, x) \in G
    <2> DEFINE m == Mapped(f, s)
               q == Keep(s, D)
               y == f[x]
    <2>1. m \in Seq(T) /\ Mapped(f, Append(s, x)) = Append(m, y)
      <3>1. m \in Seq(T)
        BY MappedIsList
      <3>2. Mapped(f, Append(s, x)) = Append(m, y)
        BY MappedGrows
      <3> QED
        BY <3>1, <3>2
    <2>2. q \in Seq(S)
      BY KeepType
    <2>3. Keep(m, C) = Mapped(f, q) /\ (x \in D <=> y \in C) /\ y \in T
      BY <1>2 DEF TakenInto
    <2>4. Mapped(f, Append(q, x)) = Append(Mapped(f, q), y)
      BY <2>2, MappedGrows
    <2> HIDE DEF m, y, D
    <2>5. Keep(Append(m, y), C) = WithIf(Keep(m, C), y, C)
      BY <2>1, <2>3, KeepOneMore
    <2>6. Keep(Append(s, x), D) = WithIf(q, x, D)
      BY KeepOneMore
    <2> HIDE DEF q
    <2>7. Keep(Mapped(f, Append(s, x)), C) = Mapped(f, Keep(Append(s, x), D))
      BY <2>1, <2>3, <2>4, <2>5, <2>6 DEF WithIf
    <2> QED
      BY <2>7
  <1>3. Seq(S) \subseteq G
    <2> HIDE DEF G
    <2> QED
      BY <1>1, <1>2, SequencesGrow
  <1> QED
    BY <1>3

\* To erase an element that is not let through changes nothing.
LEMMA AppendErased ==
    ASSUME NEW S, NEW s \in Seq(S), NEW x \in S
    PROVE  /\ RemoveAt(Append(s, x), Len(s) + 1) = s
           /\ \A k \in 1 .. Len(s) : RemoveAt(Append(s, x), k) = Append(RemoveAt(s, k), x)
  <1> DEFINE t == Append(s, x)
  <1>1. /\ t \in Seq(S) /\ Len(t) = Len(s) + 1 /\ Len(s) \in Nat
        /\ \A i \in 1 .. Len(s) : t[i] = s[i]
        /\ t[Len(s) + 1] = x
    OBVIOUS
  <1>2. RemoveAt(t, Len(s) + 1) = s
    <2> DEFINE a == RemoveAt(t, Len(s) + 1)
    <2> HIDE DEF t
    <2>1. PICK n : n = Len(s) + 1
      OBVIOUS
    <2>2. /\ a \in Seq(S) /\ Len(a) = Len(t) - 1
          /\ \A j \in 1 .. Len(t) - 1 : a[j] = IF j < n THEN t[j] ELSE t[j + 1]
      <3>1. n \in 1 .. Len(t)
        BY <1>1, <2>1
      <3>2. /\ RemoveAt(t, n) \in Seq(S) /\ Len(RemoveAt(t, n)) = Len(t) - 1
            /\ \A j \in 1 .. Len(t) - 1 : RemoveAt(t, n)[j] = IF j < n THEN t[j] ELSE t[j + 1]
        BY <1>1, <3>1, RemoveAtShifts
      <3> QED
        BY <2>1, <3>2
    <2> HIDE DEF a
    <2>3. \A j \in 1 .. Len(s) : a[j] = s[j]
      BY <1>1, <2>1, <2>2
    <2>4. a = [i \in 1 .. Len(a) |-> a[i]] /\ s = [i \in 1 .. Len(s) |-> s[i]]
      BY <2>2
    <2>5. a = s
      BY <1>1, <2>2, <2>3, <2>4
    <2> QED
      BY <2>5 DEF a
  <1>3. ASSUME NEW k \in 1 .. Len(s) PROVE RemoveAt(t, k) = Append(RemoveAt(s, k), x)
    <2> DEFINE a == RemoveAt(t, k)
               r == RemoveAt(s, k)
               b == Append(r, x)
    <2> HIDE DEF t
    <2>1. /\ a \in Seq(S) /\ Len(a) = Len(t) - 1
          /\ \A j \in 1 .. Len(t) - 1 : a[j] = IF j < k THEN t[j] ELSE t[j + 1]
      <3>1. k \in 1 .. Len(t)
        BY <1>1
      <3> QED
        BY <1>1, <3>1, RemoveAtShifts
    <2>2. /\ r \in Seq(S) /\ Len(r) = Len(s) - 1
          /\ \A j \in 1 .. Len(s) - 1 : r[j] = IF j < k THEN s[j] ELSE s[j + 1]
      BY RemoveAtShifts
    <2> HIDE DEF a, r
    <2>3. /\ b \in Seq(S) /\ Len(b) = Len(r) + 1
          /\ \A i \in 1 .. Len(r) : b[i] = r[i]
          /\ b[Len(r) + 1] = x
      BY <2>2
    <2> HIDE DEF b
    <2>4. ASSUME NEW j \in 1 .. Len(s) PROVE a[j] = b[j]
      <3>1. CASE j = Len(s)
        <4>1. PICK n : n = j + 1
          OBVIOUS
        <4>2. a[j] = t[n] /\ t[n] = x
          BY <1>1, <2>1, <3>1, <4>1
        <4>3. b[j] = x
          BY <1>1, <2>2, <2>3, <3>1
        <4> QED
          BY <4>2, <4>3
      <3>2. CASE j \in 1 .. Len(s) - 1 /\ j < k
        BY <1>1, <2>1, <2>2, <2>3, <3>2
      <3>3. CASE j \in 1 .. Len(s) - 1 /\ ~(j < k)
        <4>1. PICK n \in 1 .. Len(s) : n = j + 1
          BY <1>1, <3>3
        <4>2. a[j] = t[n] /\ t[n] = s[n]
          BY <1>1, <2>1, <3>3, <4>1
        <4>3. b[j] = r[j] /\ r[j] = s[n]
          BY <2>2, <2>3, <3>3, <4>1
        <4> QED
          BY <4>2, <4>3
      <3> QED
        BY <1>1, <3>1, <3>2, <3>3
    <2>5. a = [i \in 1 .. Len(a) |-> a[i]] /\ b = [i \in 1 .. Len(b) |-> b[i]]
      BY <2>1, <2>3
    <2>6. Len(a) = Len(s) /\ Len(b) = Len(s)
      BY <1>1, <2>1, <2>2, <2>3
    <2>7. a = b
      BY <2>4, <2>5, <2>6
    <2> QED
      BY <2>7 DEF a, b, r
  <1> QED
    BY <1>2, <1>3

LEMMA KeepErased ==
    ASSUME NEW S, NEW z \in Seq(S), NEW D, NEW p \in 1 .. Len(z), z[p] \notin D
    PROVE  Keep(RemoveAt(z, p), D) = Keep(z, D)
  <1> DEFINE Same(s) == \A k \in 1 .. Len(s) : s[k] \notin D => Keep(RemoveAt(s, k), D) = Keep(s, D)
             G == {s \in Seq(S) : Same(s)}
  <1>1. <<>> \in G
    OBVIOUS
  <1>2. ASSUME NEW s \in Seq(S), NEW x \in S, s \in G PROVE Append(s, x) \in G
    <2> DEFINE t == Append(s, x)
    <2>1. /\ t \in Seq(S) /\ Len(t) = Len(s) + 1 /\ Len(s) \in Nat
          /\ \A i \in 1 .. Len(s) : t[i] = s[i]
          /\ t[Len(s) + 1] = x
      OBVIOUS
    <2>2. Keep(t, D) = WithIf(Keep(s, D), x, D)
      BY KeepOneMore
    <2>3. /\ RemoveAt(t, Len(s) + 1) = s
          /\ \A k \in 1 .. Len(s) : RemoveAt(t, k) = Append(RemoveAt(s, k), x)
      BY AppendErased
    <2>4. Same(s)
      BY <1>2
    <2> SUFFICES ASSUME NEW k \in 1 .. Len(t), t[k] \notin D
                 PROVE  Keep(RemoveAt(t, k), D) = Keep(t, D)
      BY <2>1
    <2> HIDE DEF t
    <2>5. CASE k = Len(s) + 1
      BY <2>1, <2>2, <2>3, <2>5 DEF WithIf
    <2>6. CASE k \in 1 .. Len(s)
      <3> DEFINE r == RemoveAt(s, k)
      <3>1. RemoveAt(t, k) = Append(r, x) /\ r \in Seq(S)
        BY <2>3, <2>6, RemoveAtShifts
      <3>2. Keep(r, D) = Keep(s, D)
        BY <2>1, <2>4, <2>6
      <3> HIDE DEF r
      <3>3. Keep(Append(r, x), D) = WithIf(Keep(r, D), x, D)
        BY <3>1, KeepOneMore
      <3> QED
        BY <2>2, <3>1, <3>2, <3>3 DEF WithIf
    <2> QED
      BY <2>1, <2>5, <2>6
  <1>3. Seq(S) \subseteq G
    <2> HIDE DEF G
    <2> QED
      BY <1>1, <1>2, SequencesGrow
  <1> QED
    BY <1>3

\* To let through one more element, that stands once and behind all those let through so
\* far, adds it at the end.
Behind(s, D, x, p) ==
    s[p] = x /\ x \notin D /\ \A i \in 1 .. Len(s) : (s[i] = x => i = p) /\ (s[i] \in D => i < p)

LEMMA KeepLast ==
    ASSUME NEW S, NEW z \in Seq(S), NEW D, NEW x \in S, NEW q \in 1 .. Len(z), Behind(z, D, x, q)
    PROVE  Keep(z, D \cup {x}) = Append(Keep(z, D), x)
  <1> DEFINE E == D \cup {x}
             Holds(s) == \A p \in 1 .. Len(s) : Behind(s, D, x, p) => Keep(s, E) = Append(Keep(s, D), x)
             G == {s \in Seq(S) : Holds(s)}
  <1>1. <<>> \in G
    OBVIOUS
  <1>2. ASSUME NEW s \in Seq(S), NEW y \in S, s \in G PROVE Append(s, y) \in G
    <2> DEFINE t == Append(s, y)
    <2>1. /\ t \in Seq(S) /\ Len(t) = Len(s) + 1 /\ Len(s) \in Nat
          /\ \A i \in 1 .. Len(s) : t[i] = s[i]
          /\ t[Len(s) + 1] = y
      OBVIOUS
    <2>2. Keep(t, D) = WithIf(Keep(s, D), y, D)
      BY KeepOneMore
    <2>3. Keep(t, E) = WithIf(Keep(s, E), y, E)
      BY KeepOneMore
    <2>4. Holds(s)
      BY <1>2
    <2>5. \A e : e \in E <=> e \in D \/ e = x
      OBVIOUS
    <2> SUFFICES ASSUME NEW p \in 1 .. Len(t), Behind(t, D, x, p)
                 PROVE  Keep(t, E) = Append(Keep(t, D), x)
      BY <2>1
    <2> HIDE DEF t, E
    <2>6. \A i \in 1 .. Len(t) : (t[i] = x => i = p) /\ (t[i] \in D => i < p)
      BY DEF Behind
    <2>7. t[p] = x /\ x \notin D
      BY DEF Behind
    <2>8. \A i \in 1 .. Len(s) : i \in 1 .. Len(t) /\ i # Len(s) + 1
      BY <2>1
    <2>9. CASE p = Len(s) + 1
      <3>1. y = x /\ y \in E /\ y \notin D
        BY <2>1, <2>5, <2>7, <2>9
      <3>2. Alike(s, D, E)
        BY <2>1, <2>5, <2>6, <2>8, <2>9 DEF Alike
      <3>3. Keep(s, D) = Keep(s, E)
        BY <3>2, KeepSame
      <3> QED
        BY <2>2, <2>3, <3>1, <3>3 DEF WithIf
    <2>10. CASE p \in 1 .. Len(s)
      <3>1. y # x /\ y \notin D
        <4>1. Len(s) + 1 \in 1 .. Len(t) /\ ~(Len(s) + 1 < p) /\ Len(s) + 1 # p
          BY <2>1, <2>10
        <4> QED
          BY <2>1, <2>6, <4>1
      <3>2. Behind(s, D, x, p)
        <4>1. s[p] = x
          BY <2>1, <2>7, <2>10
        <4>2. \A i \in 1 .. Len(s) : (s[i] = x => i = p) /\ (s[i] \in D => i < p)
          BY <2>1, <2>6, <2>8
        <4> QED
          BY <2>7, <4>1, <4>2 DEF Behind
      <3>3. Keep(s, E) = Append(Keep(s, D), x)
        BY <2>4, <2>10, <3>2
      <3> QED
        BY <2>2, <2>3, <2>5, <3>1, <3>3 DEF WithIf
    <2> QED
      BY <2>1, <2>9, <2>10
  <1>3. Seq(S) \subseteq G
    <2> HIDE DEF G
    <2> QED
      BY <1>1, <1>2, SequencesGrow
  <1>4. Holds(z)
    BY <1>3
  <1> QED
    BY <1>4

\* Ends of lists.
LEMMA AppendBehind ==
    ASSUME NEW S, NEW a \in Seq(S), NEW v \in Seq(S), NEW x \in S
    PROVE  a \o Append(v, x) = Append(a \o v, x)
  <1> DEFINE b == a \o Append(v, x)
             c == Append(a \o v, x)
  <1>1. b \in Seq(S) /\ c \in Seq(S)
        /\ Len(b) = Len(a) + Len(v) + 1 /\ Len(c) = Len(a) + Len(v) + 1
    OBVIOUS
  <1>2. \A i \in 1 .. Len(a) + Len(v) + 1 : b[i] = c[i]
    OBVIOUS
  <1>3. b = [i \in 1 .. Len(b) |-> b[i]] /\ c = [i \in 1 .. Len(c) |-> c[i]]
    <2> HIDE DEF b, c
    <2> QED
      BY <1>1
  <1>4. b = c
    <2> HIDE DEF b, c
    <2> QED
      BY <1>1, <1>2, <1>3
  <1> QED
    BY <1>4

LEMMA TailMembers ==
    ASSUME NEW S, NEW s \in Seq(S), s # <<>>
    PROVE  /\ Tail(s) \in Seq(S) /\ ToSet(Tail(s)) \subseteq ToSet(s)
           /\ ToSet(s) = ToSet(Tail(s)) \cup {Head(s)}
  <1> DEFINE t == Tail(s)
  <1>1. /\ t \in Seq(S) /\ Len(s) \in Nat /\ Len(s) > 0 /\ Len(t) = Len(s) - 1
        /\ \A i \in 1 .. Len(t) : t[i] = s[i + 1]
        /\ Head(s) = s[1]
    OBVIOUS
  <1> HIDE DEF t
  <1>2. /\ \A x : x \in ToSet(t) <=> \E i \in 1 .. Len(t) : t[i] = x
        /\ \A x : x \in ToSet(s) <=> \E i \in 1 .. Len(s) : s[i] = x
    BY <1>1, ToSetMembers
  <1>3. \A i \in 1 .. Len(t) : i + 1 \in 1 .. Len(s) /\ s[i + 1] = t[i]
    BY <1>1
  <1>4. \A i \in 1 .. Len(s) : i = 1 \/ (i - 1 \in 1 .. Len(t) /\ t[i - 1] = s[i])
    BY <1>1
  <1>5. 1 \in 1 .. Len(s)
    BY <1>1
  <1>6. ToSet(t) \subseteq ToSet(s) /\ Head(s) \in ToSet(s)
    BY <1>1, <1>2, <1>3, <1>5
  <1>7. \A x \in ToSet(s) : x \in ToSet(t) \/ x = Head(s)
    BY <1>1, <1>2, <1>4
  <1> QED
    BY <1>1, <1>6, <1>7 DEF t

LEMMA KeepMembers ==
    ASSUME NEW S, NEW D
    PROVE  \A s \in Seq(S) : ToSet(Keep(s, D)) = ToSet(s) \cap D
  <1> DEFINE G == {s \in Seq(S) : ToSet(Keep(s, D)) = ToSet(s) \cap D}
  <1>1. <<>> \in G
    <2>1. Keep(<<>>, D) = <<>> /\ ToSet(<<>>) = {} /\ <<>> \in Seq(S)
      BY KeepNothing DEF ToSet
    <2> QED
      BY <2>1
  <1>2. ASSUME NEW s \in Seq(S), NEW x \in S, s \in G PROVE Append(s, x) \in G
    <2>1. Keep(Append(s, x), D) = WithIf(Keep(s, D), x, D) /\ Keep(s, D) \in Seq(S)
      BY KeepOneMore
    <2>2. ToSet(Append(s, x)) = ToSet(s) \cup {x} /\ Append(s, x) \in Seq(S)
      BY AppendMembers
    <2>3. ToSet(Append(Keep(s, D), x)) = ToSet(Keep(s, D)) \cup {x}
      BY <2>1, AppendMembers
    <2>4. ToSet(Keep(s, D)) = ToSet(s) \cap D
      BY <1>2
    <2>5. ToSet(Keep(Append(s, x), D)) = ToSet(Append(s, x)) \cap D
      BY <2>1, <2>2, <2>3, <2>4 DEF WithIf
    <2> QED
      BY <2>2, <2>5
  <1> HIDE DEF G
  <1>3. Seq(S) \subseteq G
    BY <1>1, <1>2, SequencesGrow
  <1> QED
    BY <1>3 DEF G
===============================================================================
