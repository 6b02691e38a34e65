--------------------------------- MODULE Sums ---------------------------------
(***************************************************************************)
(* Sums over finite sets, for the proofs about the modules that count with  *)
(* them: the bytes of the packets in a delay queue, the updates in a second.*)
(* A sum is MapThenSumSet of the community modules, which takes the elements *)
(* one after the other in an order that CHOOSE fixes; that the order makes   *)
(* no difference is what is proved here, by induction over the size of the   *)
(* set.  Induction is stated with sets (InductiveSet, InductiveSubsets):    *)
(* an operator as a parameter is more than the provers can instantiate.      *)
(***************************************************************************)
EXTENDS Integers, FiniteSetsExt, FiniteSetTheorems, WellFoundedInduction, TLAPS

\* The recursion behind MapThenSumSet: it is a table with a sum for every subset of S,
\* and each is that of the set without its chosen element and the element's number.
Chosen(s) == CHOOSE x \in s : TRUE
Unfolded(it, f, s) == IF s = {} THEN 0 ELSE f[Chosen(s)] + it[s \ {Chosen(s)}]
Recurses(it, f, S) == it = [s \in SUBSET S |-> Unfolded(it, f, s)]

\* The sum of f over S, and a table g of the sums over all subsets of W.
SumOf(f, S) == MapThenSumSet(LAMBDA x : f[x], S)
Tabulates(g, f, W) ==
  /\ g \in [SUBSET W -> Nat] /\ Recurses(g, f, W)
  /\ \A S \in SUBSET W : SumOf(f, S) = g[S]

-----------------------------------------------------------------------------
(* Induction. *)

\* A nonempty set of natural numbers has a least element.
LEMMA LeastNatural ==
  ASSUME NEW T \in SUBSET Nat, T # {}
  PROVE  \E n \in T : \A m \in T : n <= m
<1>1. IsWellFoundedOn(OpToRel(<, Nat), Nat)
  BY NatLessThanWellFounded
<1>2. PICK n \in T : \A m \in T : <<m, n>> \notin OpToRel(<, Nat)
  BY <1>1, WFMin
<1>3. ASSUME NEW m \in T PROVE n <= m
  <2>1. m \in Nat /\ n \in Nat
    OBVIOUS
  <2>2. ~(m < n)
    BY <1>2, <2>1 DEF OpToRel
  <2>. QED BY <2>1, <2>2
<1>. QED BY <1>3

\* Induction over the natural numbers: a set that has 0 and successors has them all.
LEMMA InductiveSet ==
  ASSUME NEW T, 0 \in T, \A n \in Nat : n \in T => n + 1 \in T
  PROVE  Nat \subseteq T
<1> SUFFICES ASSUME Nat \ T # {} PROVE FALSE
  OBVIOUS
<1>1. PICK n \in Nat \ T : \A m \in Nat \ T : n <= m
  BY LeastNatural
<1>2. n \in Nat /\ n # 0 /\ n - 1 \in Nat
  BY <1>1
<1>3. n - 1 \in T
  BY <1>1, <1>2
<1>. QED BY <1>1, <1>2, <1>3

-----------------------------------------------------------------------------
(* The recursion: it has one solution, and the sums are its values. *)

\* MapThenSumSet, as the community module defines it, is that recursion.
LEMMA SumUnfolds ==
  ASSUME NEW f, NEW S
  PROVE  SumOf(f, S) = (CHOOSE it : Recurses(it, f, S))[S]
BY DEF SumOf, MapThenSumSet, MapThenFoldSet, Recurses, Chosen, Unfolded

\* Without its chosen element a set is smaller.
LEMMA ChosenLeaves ==
  ASSUME NEW S, IsFiniteSet(S), S # {}
  PROVE  /\ Chosen(S) \in S /\ S \ {Chosen(S)} \subseteq S
         /\ IsFiniteSet(S \ {Chosen(S)})
         /\ Cardinality(S) \in Nat
         /\ Cardinality(S \ {Chosen(S)}) = Cardinality(S) - 1
<1>1. Chosen(S) \in S
  BY DEF Chosen
<1>. QED BY <1>1, FS_CardinalityType, FS_RemoveElement

\* There is a table, by induction over the size of the sets it is right for.
LEMMA RecursionExists ==
  ASSUME NEW S, IsFiniteSet(S), NEW f, \A x \in S : f[x] \in Nat
  PROVE  \E it \in [SUBSET S -> Nat] : Recurses(it, f, S)
<1>. DEFINE UpTo(n, g) == \A s \in SUBSET S : Cardinality(s) <= n => g[s] = Unfolded(g, f, s)
            T == {n \in Nat : \E g \in [SUBSET S -> Nat] : UpTo(n, g)}
<1>a. \A s \in SUBSET S : /\ IsFiniteSet(s) /\ Cardinality(s) \in Nat
                          /\ Cardinality(s) <= Cardinality(S)
                          /\ (Cardinality(s) = 0 <=> s = {})
  BY FS_Subset, FS_CardinalityType, FS_EmptySet
<1>b. \A s \in SUBSET S : s # {} =>
        /\ Chosen(s) \in s /\ s \ {Chosen(s)} \in SUBSET S
        /\ Cardinality(s \ {Chosen(s)}) = Cardinality(s) - 1
        /\ f[Chosen(s)] \in Nat
  BY <1>a, ChosenLeaves
<1>1. 0 \in T
  <2>. DEFINE g == [s \in SUBSET S |-> 0]
  <2>1. UpTo(0, g)
    BY <1>a DEF Unfolded
  <2>. QED BY <2>1
<1>2. ASSUME NEW n \in Nat, n \in T PROVE n + 1 \in T
  <2>1. PICK g \in [SUBSET S -> Nat] : UpTo(n, g)
    BY <1>2
  <2>. DEFINE h == [s \in SUBSET S |-> Unfolded(g, f, s)]
  <2>2. h \in [SUBSET S -> Nat]
    <3>. SUFFICES ASSUME NEW s \in SUBSET S PROVE Unfolded(g, f, s) \in Nat
      OBVIOUS
    <3>1. CASE s = {}
      BY <3>1 DEF Unfolded
    <3>2. CASE s # {}
      <4>1. f[Chosen(s)] \in Nat /\ g[s \ {Chosen(s)}] \in Nat
        BY <1>b, <3>2
      <4>. QED BY <3>2, <4>1 DEF Unfolded
    <3>. QED BY <3>1, <3>2
  <2>3. ASSUME NEW s \in SUBSET S, Cardinality(s) <= n PROVE h[s] = g[s]
    BY <2>1, <2>3
  <2>4. ASSUME NEW s \in SUBSET S, Cardinality(s) <= n + 1 PROVE h[s] = Unfolded(h, f, s)
    <3>1. CASE s = {}
      BY <3>1 DEF Unfolded
    <3>2. CASE s # {}
      <4>. DEFINE r == s \ {Chosen(s)}
      <4>1. r \in SUBSET S /\ Cardinality(r) <= n
        BY <1>a, <1>b, <2>4, <3>2
      <4>2. h[r] = g[r]
        BY <2>3, <4>1
      <4>. QED BY <3>2, <4>2 DEF Unfolded
    <3>. QED BY <3>1, <3>2
  <2>. HIDE DEF h
  <2>5. UpTo(n + 1, h)
    BY <2>4
  <2>. QED BY <2>2, <2>5
<1>3. Cardinality(S) \in T
  <2> HIDE DEF T
  <2>1. Nat \subseteq T
    BY <1>1, <1>2, InductiveSet
  <2>. QED BY <1>a, <2>1
<1>4. PICK it \in [SUBSET S -> Nat] : UpTo(Cardinality(S), it)
  BY <1>3
<1>5. \A s \in SUBSET S : it[s] = Unfolded(it, f, s)
  BY <1>a, <1>4
<1>6. it = [s \in SUBSET S |-> Unfolded(it, f, s)]
  BY <1>5
<1>. QED BY <1>6 DEF Recurses

\* The table of a set holds that of its subsets.
LEMMA RecursionUnique ==
  ASSUME NEW W, IsFiniteSet(W), NEW S \in SUBSET W, NEW f, NEW i, NEW j,
         Recurses(i, f, S), Recurses(j, f, W)
  PROVE  \A s \in SUBSET S : i[s] = j[s]
<1>. DEFINE T == {n \in Nat : \A s \in SUBSET S : Cardinality(s) = n => i[s] = j[s]}
<1>a. \A s \in SUBSET S : /\ IsFiniteSet(s) /\ Cardinality(s) \in Nat
                          /\ (Cardinality(s) = 0 <=> s = {})
  BY FS_Subset, FS_CardinalityType, FS_EmptySet
<1>b. \A s \in SUBSET S : i[s] = Unfolded(i, f, s) /\ j[s] = Unfolded(j, f, s)
  BY DEF Recurses
<1>1. 0 \in T
  BY <1>a, <1>b DEF Unfolded
<1>2. ASSUME NEW n \in Nat, n \in T PROVE n + 1 \in T
  <2>1. ASSUME NEW s \in SUBSET S, Cardinality(s) = n + 1 PROVE i[s] = j[s]
    <3>1. s # {}
      BY <1>a, <2>1
    <3>2. s \ {Chosen(s)} \in SUBSET S /\ Cardinality(s \ {Chosen(s)}) = n
      BY <1>a, <2>1, <3>1, ChosenLeaves
    <3>3. i[s \ {Chosen(s)}] = j[s \ {Chosen(s)}]
      BY <1>2, <3>2
    <3>. QED BY <1>b, <3>1, <3>3 DEF Unfolded
  <2>. QED BY <2>1
<1>3. Nat \subseteq T
  <2> HIDE DEF T
  <2>. QED BY <1>1, <1>2, InductiveSet
<1>. QED BY <1>a, <1>3

\* One table has the sums over all subsets of a finite set.
LEMMA SumTable ==
  ASSUME NEW W, IsFiniteSet(W), NEW f, \A x \in W : f[x] \in Nat
  PROVE  \E g : Tabulates(g, f, W)
<1>1. PICK g \in [SUBSET W -> Nat] : Recurses(g, f, W)
  BY RecursionExists
<1>2. ASSUME NEW S \in SUBSET W PROVE SumOf(f, S) = g[S]
  <2>1. IsFiniteSet(S)
    BY FS_Subset
  <2>2. \E it : Recurses(it, f, S)
    BY <2>1, RecursionExists
  <2>. DEFINE it == CHOOSE it : Recurses(it, f, S)
  <2>3. Recurses(it, f, S)
    BY <2>2
  <2>4. SumOf(f, S) = it[S]
    BY SumUnfolds
  <2> HIDE DEF it
  <2>5. \A s \in SUBSET S : it[s] = g[s]
    BY <1>1, <2>3, RecursionUnique
  <2>. QED BY <2>4, <2>5
<1>. QED BY <1>1, <1>2 DEF Tabulates

-----------------------------------------------------------------------------
(* What the sums are. *)

\* Any element can be taken first: by induction over the size of the set.
LEMMA SumRemove ==
  ASSUME NEW W, IsFiniteSet(W), NEW f, \A y \in W : f[y] \in Nat, NEW x \in W
  PROVE  SumOf(f, W) \in Nat /\ SumOf(f, W) = f[x] + SumOf(f, W \ {x})
<1>0. PICK g : Tabulates(g, f, W)
  BY SumTable
<1>1. /\ g \in [SUBSET W -> Nat] /\ Recurses(g, f, W)
      /\ \A S \in SUBSET W : SumOf(f, S) = g[S]
  BY <1>0 DEF Tabulates
<1>. DEFINE Removes(s) == \A y \in s : g[s] = f[y] + g[s \ {y}]
            T == {n \in Nat : \A s \in SUBSET W : Cardinality(s) = n => Removes(s)}
<1>a. \A s \in SUBSET W : /\ IsFiniteSet(s) /\ Cardinality(s) \in Nat
                          /\ (Cardinality(s) = 0 <=> s = {})
  BY FS_Subset, FS_CardinalityType, FS_EmptySet
<1>b. \A s \in SUBSET W : g[s] = Unfolded(g, f, s)
  BY <1>1 DEF Recurses
<1>c. ASSUME NEW s \in SUBSET W, NEW y \in s
      PROVE  s \ {y} \in SUBSET W /\ Cardinality(s \ {y}) = Cardinality(s) - 1
  BY <1>a, FS_RemoveElement
<1>2. 0 \in T
  BY <1>a
<1>3. ASSUME NEW n \in Nat, n \in T PROVE n + 1 \in T
  <2>1. ASSUME NEW s \in SUBSET W, Cardinality(s) = n + 1, NEW y \in s
        PROVE  g[s] = f[y] + g[s \ {y}]
    <3>. DEFINE c == Chosen(s)
    <3>1. c \in s
      BY DEF Chosen
    <3>2. g[s] = f[c] + g[s \ {c}]
      BY <1>b DEF Unfolded
    <3>3. CASE y = c
      BY <3>2, <3>3
    <3>4. CASE y # c
      <4>1. /\ s \ {c} \in SUBSET W /\ Cardinality(s \ {c}) = n /\ y \in s \ {c}
            /\ s \ {y} \in SUBSET W /\ Cardinality(s \ {y}) = n /\ c \in s \ {y}
        BY <1>c, <2>1, <3>1, <3>4
      <4>2. g[s \ {c}] = f[y] + g[(s \ {c}) \ {y}]
        BY <1>3, <4>1
      <4>3. g[s \ {y}] = f[c] + g[(s \ {y}) \ {c}]
        BY <1>3, <4>1
      <4>4. (s \ {c}) \ {y} = (s \ {y}) \ {c} /\ (s \ {y}) \ {c} \in SUBSET W
        OBVIOUS
      <4>5. /\ f[y] \in Nat /\ f[c] \in Nat /\ g[s \ {c}] \in Nat /\ g[s \ {y}] \in Nat
            /\ g[(s \ {y}) \ {c}] \in Nat
        BY <1>1, <3>1, <4>1, <4>4
      <4>6. g[s \ {y}] = f[c] + g[(s \ {c}) \ {y}] /\ g[(s \ {c}) \ {y}] \in Nat
        BY <4>3, <4>4, <4>5
      <4>. HIDE DEF c
      <4>. QED BY <3>2, <4>2, <4>5, <4>6
    <3>. QED BY <3>3, <3>4
  <2>. QED BY <2>1
<1>4. Nat \subseteq T
  <2> HIDE DEF T
  <2>. QED BY <1>2, <1>3, InductiveSet
<1>5. Removes(W)
  BY <1>a, <1>4
<1>. QED BY <1>1, <1>5

\* Induction over the subsets of a finite set: what holds of none of its elements, and
\* of one more whenever it holds of some, holds of all.
LEMMA InductiveSubsets ==
  ASSUME NEW W, IsFiniteSet(W), NEW P, {} \in P,
         \A s \in SUBSET W, x \in W : s \in P => s \cup {x} \in P
  PROVE  W \in P
<1>. DEFINE T == {n \in Nat : \A s \in SUBSET W : Cardinality(s) = n => s \in P}
<1>a. \A s \in SUBSET W : /\ IsFiniteSet(s) /\ Cardinality(s) \in Nat
                          /\ (Cardinality(s) = 0 <=> s = {})
  BY FS_Subset, FS_CardinalityType, FS_EmptySet
<1>1. 0 \in T
  BY <1>a
<1>2. ASSUME NEW n \in Nat, n \in T PROVE n + 1 \in T
  <2>1. ASSUME NEW s \in SUBSET W, Cardinality(s) = n + 1 PROVE s \in P
    <3>1. PICK x : x \in s
      BY <1>a, <2>1
    <3>2. s \ {x} \in SUBSET W /\ Cardinality(s \ {x}) = n /\ s = (s \ {x}) \cup {x} /\ x \in W
      <4>1. Cardinality(s \ {x}) = Cardinality(s) - 1
        BY <1>a, <3>1, FS_RemoveElement
      <4>. QED BY <2>1, <3>1, <4>1
    <3>3. s \ {x} \in P
      BY <1>2, <3>2
    <3>. QED BY <3>2, <3>3
  <2>. QED BY <2>1
<1>3. Nat \subseteq T
  <2> HIDE DEF T
  <2>. QED BY <1>1, <1>2, InductiveSet
<1>. QED BY <1>a, <1>3

\* Nothing adds up to 0.
LEMMA SumEmpty ==
  ASSUME NEW f
  PROVE  SumOf(f, {}) = 0
<1>1. PICK g : Tabulates(g, f, {})
  BY SumTable, FS_EmptySet
<1>2. g[{}] = 0
  BY <1>1 DEF Tabulates, Recurses, Unfolded
<1>. QED BY <1>1, <1>2 DEF Tabulates

\* A sum of natural numbers is one.
LEMMA SumType ==
  ASSUME NEW W, IsFiniteSet(W), NEW f, \A x \in W : f[x] \in Nat
  PROVE  SumOf(f, W) \in Nat
<1>1. PICK g : Tabulates(g, f, W)
  BY SumTable
<1>. QED BY <1>1 DEF Tabulates

\* One element more.
LEMMA SumAdd ==
  ASSUME NEW S, IsFiniteSet(S), NEW f, \A y \in S : f[y] \in Nat, NEW x, f[x] \in Nat, x \notin S
  PROVE  SumOf(f, S \cup {x}) = SumOf(f, S) + f[x]
<1>1. IsFiniteSet(S \cup {x}) /\ (S \cup {x}) \ {x} = S /\ \A y \in S \cup {x} : f[y] \in Nat
  BY FS_AddElement
<1>2. SumOf(f, S \cup {x}) = f[x] + SumOf(f, S)
  BY <1>1, SumRemove
<1>3. SumOf(f, S) \in Nat
  BY SumType
<1>. QED BY <1>2, <1>3

\* A part adds up to no more than the whole.
LEMMA SumSubset ==
  ASSUME NEW W, IsFiniteSet(W), NEW f, \A x \in W : f[x] \in Nat, NEW S \in SUBSET W
  PROVE  SumOf(f, S) <= SumOf(f, W)
<1>. DEFINE P == {s \in SUBSET W : SumOf(f, s \cap S) <= SumOf(f, s)}
<1>1. {} \in P
  <2>1. {} \cap S = {}
    OBVIOUS
  <2>. QED BY <2>1, SumEmpty
<1>2. ASSUME NEW s \in SUBSET W, NEW x \in W, s \in P PROVE s \cup {x} \in P
  <2>1. /\ IsFiniteSet(s) /\ IsFiniteSet(s \cap S)
        /\ SumOf(f, s) \in Nat /\ SumOf(f, s \cap S) \in Nat /\ f[x] \in Nat
    BY FS_Subset, SumType
  <2>2. CASE x \in s
    <3>1. s \cup {x} = s
      BY <2>2
    <3>. QED BY <1>2, <3>1
  <2>3. CASE x \notin s
    <3>1. SumOf(f, s \cup {x}) = SumOf(f, s) + f[x]
      BY <2>1, <2>3, SumAdd
    <3>2. SumOf(f, (s \cup {x}) \cap S) \in {SumOf(f, s \cap S), SumOf(f, s \cap S) + f[x]}
      <4>1. CASE x \in S
        <5>1. (s \cup {x}) \cap S = (s \cap S) \cup {x} /\ x \notin s \cap S
          BY <2>3, <4>1
        <5>2. SumOf(f, (s \cap S) \cup {x}) = SumOf(f, s \cap S) + f[x]
          BY <2>1, <5>1, SumAdd
        <5>. QED BY <5>1, <5>2
      <4>2. CASE x \notin S
        <5>1. (s \cup {x}) \cap S = s \cap S
          BY <4>2
        <5>. QED BY <5>1
      <4>. QED BY <4>1, <4>2
    <3>3. SumOf(f, s \cap S) <= SumOf(f, s)
      BY <1>2
    <3>4. SumOf(f, (s \cup {x}) \cap S) <= SumOf(f, s \cup {x})
      BY <2>1, <3>1, <3>2, <3>3
    <3>. QED BY <3>4
  <2>. QED BY <2>2, <2>3
<1>3. W \in P
  <2> HIDE DEF P
  <2>. QED BY <1>1, <1>2, InductiveSubsets
<1>4. W \cap S = S
  OBVIOUS
<1>. QED BY <1>3, <1>4

\* Sums over renamed elements, which are finitely many too.
LEMMA SumImage ==
  ASSUME NEW W, IsFiniteSet(W), NEW e, \A x \in W : e[x] \in Nat,
         NEW h, \A x, y \in W : h[x] = h[y] => x = y,
         NEW f, \A x \in W : f[h[x]] = e[x]
  PROVE  IsFiniteSet({h[x] : x \in W}) /\ SumOf(f, {h[x] : x \in W}) = SumOf(e, W)
<1>. DEFINE Image(s) == {h[x] : x \in s}
            P == {s \in SUBSET W : IsFiniteSet(Image(s)) /\ SumOf(f, Image(s)) = SumOf(e, s)}
<1>1. {} \in P
  <2>1. Image({}) = {}
    OBVIOUS
  <2>. QED BY <2>1, SumEmpty, FS_EmptySet
<1>2. ASSUME NEW s \in SUBSET W, NEW x \in W, s \in P PROVE s \cup {x} \in P
  <2>1. CASE x \in s
    <3>1. s \cup {x} = s
      BY <2>1
    <3>. QED BY <1>2, <3>1
  <2>2. CASE x \notin s
    <3>1. Image(s \cup {x}) = Image(s) \cup {h[x]} /\ h[x] \notin Image(s)
      BY <2>2
    <3>2. IsFiniteSet(s) /\ IsFiniteSet(Image(s))
      BY <1>2, FS_Subset
    <3>3. f[h[x]] = e[x] /\ e[x] \in Nat /\ (\A y \in Image(s) : f[y] \in Nat) /\ \A y \in s : e[y] \in Nat
      OBVIOUS
    <3> HIDE DEF Image
    <3>4. SumOf(f, Image(s) \cup {h[x]}) = SumOf(f, Image(s)) + f[h[x]]
      BY <3>1, <3>2, <3>3, SumAdd
    <3>5. SumOf(e, s \cup {x}) = SumOf(e, s) + e[x]
      BY <2>2, <3>2, <3>3, SumAdd
    <3>6. IsFiniteSet(Image(s) \cup {h[x]})
      BY <3>2, FS_AddElement
    <3>. QED BY <1>2, <3>1, <3>3, <3>4, <3>5, <3>6
  <2>. QED BY <2>1, <2>2
<1>3. W \in P
  <2> HIDE DEF P
  <2>. QED BY <1>1, <1>2, InductiveSubsets
<1>. QED BY <1>3

\* Only the numbers of the elements matter.
LEMMA SumAgree ==
  ASSUME NEW W, IsFiniteSet(W), NEW e, NEW f, \A x \in W : e[x] \in Nat /\ f[x] = e[x]
  PROVE  SumOf(f, W) = SumOf(e, W)
<1>. DEFINE h == [x \in W |-> x]
<1>1. {h[x] : x \in W} = W
  OBVIOUS
<1>2. \A x \in W : h[x] = x
  OBVIOUS
<1> HIDE DEF h
<1>3. SumOf(f, {h[x] : x \in W}) = SumOf(e, W)
  BY <1>2, SumImage
<1>. QED BY <1>1, <1>3

\* A sum by another expression for the same numbers.
LEMMA SumIs ==
  ASSUME NEW W, IsFiniteSet(W), NEW f, \A x \in W : f[x] \in Nat,
         NEW it, Recurses(it, f, W)
  PROVE  it[W] = SumOf(f, W)
<1>1. PICK g : Tabulates(g, f, W)
  BY SumTable
<1>2. Recurses(g, f, W) /\ SumOf(f, W) = g[W]
  BY <1>1 DEF Tabulates
<1>3. \A s \in SUBSET W : it[s] = g[s]
  BY <1>2, RecursionUnique
<1>. QED BY <1>2, <1>3
===============================================================================
