----------------------------- MODULE SumTheorems -----------------------------
(***************************************************************************)
(* What the provers need to know of SumFunctionOnSet, the sum the models   *)
(* take over ledger entries, refunds, disputes and payments.  It is a fold *)
(* of module Folds, a function defined by recursion on subsets.  Induction *)
(* is done without an operator parameter: of the subsets for which a fact  *)
(* fails, if there are any, one is minimal (MinimalSet).                   *)
(***************************************************************************)
EXTENDS Functions, FiniteSetTheorems, WellFoundedInduction, TLAPS

-----------------------------------------------------------------------------
(* Minimal counterexamples *)

\* A set of naturals has a least element.
LEMMA LeastNat ==
    ASSUME NEW T, T \subseteq Nat, T # {}
    PROVE  \E n \in T : \A m \in T : n =< m
  <1> DEFINE R == {ss \in Nat \X Nat : ss[1] < ss[2]}
  <1>1. IsWellFoundedOn(R, Nat)
    BY NatLessThanWellFounded, Zenon DEF OpToRel
  <1> HIDE DEF R
  <1>2. PICK n \in T : \A m \in T : <<m, n>> \notin R
    BY <1>1, WFMin
  <1>3. \A m \in T : ~(m < n)
    BY <1>2 DEF R
  <1> QED
    BY <1>2, <1>3

\* A collection of subsets of a finite set has one from which no element can be
\* taken without leaving the collection.
LEMMA MinimalSet ==
    ASSUME NEW S, IsFiniteSet(S), NEW B, B \subseteq SUBSET S, B # {}
    PROVE  \E s \in B : IsFiniteSet(s) /\ \A x \in s : s \ {x} \notin B
  <1> DEFINE T == {n \in Nat : \E s \in B : Cardinality(s) = n}
  <1>1. \A s \in B : IsFiniteSet(s) /\ Cardinality(s) \in Nat
    BY FS_Subset, FS_CardinalityType
  <1>2. T # {} /\ T \subseteq Nat
    BY <1>1
  <1>3. PICK n \in T : \A m \in T : n =< m
    BY <1>2, LeastNat
  <1>4. PICK s \in B : Cardinality(s) = n
    BY <1>3
  <1>5. \A x \in s : Cardinality(s \ {x}) = Cardinality(s) - 1
    BY <1>1, <1>4, FS_RemoveElement
  <1>6. \A x \in s : s \ {x} \notin B
    <2> SUFFICES ASSUME NEW x \in s, s \ {x} \in B PROVE FALSE
      OBVIOUS
    <2>1. n - 1 \in T
      BY <1>1, <1>4, <1>5
    <2> QED
      BY <1>3, <2>1
  <1> QED
    BY <1>1, <1>4, <1>6

-----------------------------------------------------------------------------
(* The recursion *)

Some(s) == CHOOSE x \in s : TRUE

\* The right-hand side of the fold's recursion, it[s] being the sum over s.
SumBody(f, it, s) == IF s = {} THEN 0 ELSE f[Some(s)] + it[s \ {Some(s)}]

\* CHOOSE finds an element where there is one.
LEMMA SomeIsIn == ASSUME NEW s, s # {} PROVE Some(s) \in s
  BY DEF Some

\* The recursion has a solution on the subsets of a finite set: by induction on the
\* number of elements up to which a function solves it.
LEMMA SumExists ==
    ASSUME NEW f, NEW S, IsFiniteSet(S)
    PROVE  \E it : it = [s \in SUBSET S |-> SumBody(f, it, s)]
  <1> DEFINE W(n, g) == \A s \in SUBSET S : Cardinality(s) =< n => g[s] = SumBody(f, g, s)
             T == {n \in Nat : ~ \E g : W(n, g)}
  <1>0. \A s \in SUBSET S : IsFiniteSet(s) /\ Cardinality(s) \in Nat /\ Cardinality(s) =< Cardinality(S)
    BY FS_Subset, FS_CardinalityType
  <1>1. T = {}
    <2> SUFFICES ASSUME T # {} PROVE FALSE
      OBVIOUS
    <2>1. PICK n \in T : \A m \in T : n =< m
      BY LeastNat
    <2>2. CASE n = 0
      <3> DEFINE g == [s \in SUBSET S |-> 0]
      <3>1. \A s \in SUBSET S : Cardinality(s) =< 0 => s = {}
        BY <1>0, FS_EmptySet
      <3>2. W(0, g)
        BY <3>1 DEF SumBody
      <3> QED
        BY <2>1, <2>2, <3>2
    <2>3. CASE n # 0
      <3>1. n - 1 \in Nat /\ n - 1 \notin T
        BY <2>1, <2>3
      <3>2. PICK g : W(n - 1, g)
        BY <3>1
      <3> DEFINE h == [s \in SUBSET S |-> SumBody(f, g, s)]
      <3>3. ASSUME NEW s \in SUBSET S, Cardinality(s) =< n
            PROVE  h[s] = SumBody(f, h, s)
        <4>1. CASE s = {}
          BY <4>1 DEF SumBody
        <4>2. CASE s # {}
          <5> DEFINE t == s \ {Some(s)}
          <5>1. Some(s) \in s
            BY <4>2, SomeIsIn
          <5>2. t \in SUBSET S /\ Cardinality(t) = Cardinality(s) - 1
            BY <1>0, <5>1, FS_RemoveElement
          <5>3. Cardinality(t) =< n - 1
            BY <1>0, <3>1, <3>3, <5>2
          <5>4. g[t] = SumBody(f, g, t)
            BY <3>2, <5>2, <5>3
          <5>5. h[t] = g[t]
            BY <5>2, <5>4
          <5>6. h[s] = f[Some(s)] + g[t]
            BY <4>2 DEF SumBody
          <5>7. SumBody(f, h, s) = f[Some(s)] + h[t]
            BY <4>2 DEF SumBody
          <5> QED
            BY <5>5, <5>6, <5>7
        <4> QED
          BY <4>1, <4>2
      <3> HIDE DEF h
      <3>4. W(n, h)
        BY <3>3
      <3> QED
        BY <2>1, <3>4
    <2> QED
      BY <2>2, <2>3
  <1>2. Cardinality(S) \in Nat
    BY FS_CardinalityType
  <1>3. PICK g : W(Cardinality(S), g)
    BY <1>1, <1>2
  <1>4. \A s \in SUBSET S : g[s] = SumBody(f, g, s)
    BY <1>0, <1>3
  <1> DEFINE it == [s \in SUBSET S |-> g[s]]
  <1>5. ASSUME NEW s \in SUBSET S PROVE it[s] = SumBody(f, it, s)
    <2>1. s # {} => s \ {Some(s)} \in SUBSET S
      OBVIOUS
    <2> QED
      BY <1>4, <2>1 DEF SumBody
  <1>6. it = [s \in SUBSET S |-> SumBody(f, it, s)]
    BY <1>5
  <1> QED
    BY <1>6

\* SumFunctionOnSet is the value of a solution.
LEMMA SumIter ==
    ASSUME NEW f, NEW S, IsFiniteSet(S)
    PROVE  \E it : /\ it = [s \in SUBSET S |-> SumBody(f, it, s)]
                   /\ SumFunctionOnSet(f, S) = it[S]
  <1> DEFINE it == CHOOSE it : it = [s \in SUBSET S |-> SumBody(f, it, s)]
  <1>1. it = [s \in SUBSET S |-> SumBody(f, it, s)]
    <2>1. \E g : g = [s \in SUBSET S |-> SumBody(f, g, s)]
      BY SumExists
    <2> QED
      BY <2>1, Zenon
  <1>2. SumFunctionOnSet(f, S) = it[S]
    BY DEF SumFunctionOnSet, FoldFunctionOnSet, MapThenFoldSet, SumBody, Some
  <1> QED
    BY <1>1, <1>2

\* Two solutions agree.
LEMMA SumUnique ==
    ASSUME NEW f, NEW S, IsFiniteSet(S), NEW g, NEW h,
           \A s \in SUBSET S : g[s] = SumBody(f, g, s),
           \A s \in SUBSET S : h[s] = SumBody(f, h, s)
    PROVE  g[S] = h[S]
  <1> DEFINE B == {s \in SUBSET S : g[s] # h[s]}
  <1> SUFFICES ASSUME B # {} PROVE FALSE
    OBVIOUS
  <1>1. PICK s \in B : \A x \in s : s \ {x} \notin B
    BY MinimalSet
  <1>2. CASE s = {}
    BY <1>1, <1>2 DEF SumBody
  <1>3. CASE s # {}
    BY <1>1, <1>3, SomeIsIn DEF SumBody
  <1> QED
    BY <1>2, <1>3

\* Nothing sums to zero.
LEMMA SumEmpty == ASSUME NEW f PROVE SumFunctionOnSet(f, {}) = 0
  <1>1. PICK it : /\ it = [s \in SUBSET {} |-> SumBody(f, it, s)]
                  /\ SumFunctionOnSet(f, {}) = it[{}]
    BY SumIter, FS_EmptySet
  <1> QED
    BY <1>1 DEF SumBody

\* The recursion, stated of SumFunctionOnSet.
LEMMA SumStep ==
    ASSUME NEW f, NEW S, IsFiniteSet(S), S # {}
    PROVE  SumFunctionOnSet(f, S) = f[Some(S)] + SumFunctionOnSet(f, S \ {Some(S)})
  <1> DEFINE T == S \ {Some(S)}
  <1>1. PICK g : g = [s \in SUBSET S |-> SumBody(f, g, s)] /\ SumFunctionOnSet(f, S) = g[S]
    BY SumIter
  <1>2. IsFiniteSet(T)
    BY FS_RemoveElement
  <1>3. PICK h : h = [s \in SUBSET T |-> SumBody(f, h, s)] /\ SumFunctionOnSet(f, T) = h[T]
    BY <1>2, SumIter
  <1>4. /\ \A s \in SUBSET S : g[s] = SumBody(f, g, s)
        /\ \A s \in SUBSET T : g[s] = SumBody(f, g, s)
    BY <1>1
  <1>5. \A s \in SUBSET T : h[s] = SumBody(f, h, s)
    BY <1>3
  <1> HIDE DEF T
  <1>6. g[T] = h[T]
    BY <1>2, <1>4, <1>5, SumUnique
  <1>7. g[S] = f[Some(S)] + g[T]
    BY <1>4 DEF SumBody, T
  <1> QED
    BY <1>1, <1>3, <1>6, <1>7 DEF T

-----------------------------------------------------------------------------
(* Sums of integers *)

IntOn(f, S) == \A x \in S : f[x] \in Int

\* The sum of integers is one.
LEMMA SumType ==
    ASSUME NEW f, NEW S, IsFiniteSet(S), IntOn(f, S)
    PROVE  SumFunctionOnSet(f, S) \in Int
  <1> DEFINE B == {s \in SUBSET S : SumFunctionOnSet(f, s) \notin Int}
  <1> SUFFICES ASSUME B # {} PROVE FALSE
    OBVIOUS
  <1>1. PICK s \in B : IsFiniteSet(s) /\ \A x \in s : s \ {x} \notin B
    BY MinimalSet
  <1>2. CASE s = {}
    BY <1>1, <1>2, SumEmpty
  <1>3. CASE s # {}
    <2>1. Some(s) \in s
      BY <1>3, SomeIsIn
    <2>2. SumFunctionOnSet(f, s \ {Some(s)}) \in Int
      BY <1>1, <2>1
    <2> QED
      BY <1>1, <1>3, <2>1, <2>2, SumStep DEF IntOn
  <1> QED
    BY <1>2, <1>3

\* Whichever element is taken out, the sum decreases by its value.
LEMMA SumRemove ==
    ASSUME NEW f, NEW S, IsFiniteSet(S), IntOn(f, S), NEW x \in S
    PROVE  SumFunctionOnSet(f, S) = SumFunctionOnSet(f, S \ {x}) + f[x]
  <1> DEFINE B == {s \in SUBSET S : \E y \in s : SumFunctionOnSet(f, s) # SumFunctionOnSet(f, s \ {y}) + f[y]}
  <1>1. \A s \in SUBSET S : IsFiniteSet(s) /\ IntOn(f, s) /\ SumFunctionOnSet(f, s) \in Int
    BY FS_Subset, SumType DEF IntOn
  <1> SUFFICES ASSUME B # {} PROVE FALSE
    OBVIOUS
  <1>2. PICK s \in B : \A y \in s : s \ {y} \notin B
    BY MinimalSet
  <1>3. PICK y \in s : SumFunctionOnSet(f, s) # SumFunctionOnSet(f, s \ {y}) + f[y]
    BY <1>2
  <1> DEFINE c == Some(s)
  <1>4. c \in s
    BY SomeIsIn
  <1>5. SumFunctionOnSet(f, s) = f[c] + SumFunctionOnSet(f, s \ {c})
    BY <1>1, SumStep
  <1>6. f[c] \in Int /\ f[y] \in Int /\ \A t \in SUBSET s : SumFunctionOnSet(f, t) \in Int
    BY <1>1, <1>4 DEF IntOn
  <1> HIDE DEF c
  <1>7. y # c
    <2>1. SumFunctionOnSet(f, s \ {c}) \in Int
      BY <1>6
    <2> QED
      BY <1>3, <1>5, <1>6, <2>1
  <1>8. SumFunctionOnSet(f, s \ {c}) = SumFunctionOnSet(f, (s \ {c}) \ {y}) + f[y]
    BY <1>2, <1>4, <1>7
  <1>9. SumFunctionOnSet(f, s \ {y}) = SumFunctionOnSet(f, (s \ {y}) \ {c}) + f[c]
    BY <1>2, <1>3, <1>4, <1>7
  <1>10. (s \ {c}) \ {y} = (s \ {y}) \ {c}
    OBVIOUS
  <1> QED
    BY <1>3, <1>5, <1>6, <1>8, <1>9, <1>10

\* The sum without x, and what x counts for.
LEMMA SumWithout ==
    ASSUME NEW f, NEW S, IsFiniteSet(S), IntOn(f, S), NEW x
    PROVE  /\ SumFunctionOnSet(f, S) =
                  SumFunctionOnSet(f, S \ {x}) + (IF x \in S THEN f[x] ELSE 0)
           /\ SumFunctionOnSet(f, S \ {x}) \in Int
  <1>1. IsFiniteSet(S \ {x}) /\ IntOn(f, S \ {x})
    BY FS_RemoveElement DEF IntOn
  <1>2. SumFunctionOnSet(f, S \ {x}) \in Int
    BY <1>1, SumType
  <1>3. CASE x \in S
    BY <1>2, <1>3, SumRemove
  <1>4. CASE x \notin S
    <2>1. S \ {x} = S
      BY <1>4
    <2>2. SumFunctionOnSet(f, S \ {x}) = SumFunctionOnSet(f, S)
      BY <2>1
    <2> QED
      BY <1>2, <1>4, <2>2
  <1> QED
    BY <1>3, <1>4

\* An element that is put in adds its value.
LEMMA SumAdd ==
    ASSUME NEW f, NEW S, IsFiniteSet(S), NEW x, x \notin S, IntOn(f, S \cup {x})
    PROVE  SumFunctionOnSet(f, S \cup {x}) = SumFunctionOnSet(f, S) + f[x]
  <1>1. IsFiniteSet(S \cup {x})
    BY FS_AddElement
  <1>2. (S \cup {x}) \ {x} = S
    OBVIOUS
  <1> QED
    BY <1>1, <1>2, SumRemove

\* The sum depends on the values at the indices only.
LEMMA SumSame ==
    ASSUME NEW f, NEW g, NEW S, IsFiniteSet(S), \A x \in S : f[x] = g[x]
    PROVE  SumFunctionOnSet(f, S) = SumFunctionOnSet(g, S)
  <1> DEFINE B == {s \in SUBSET S : SumFunctionOnSet(f, s) # SumFunctionOnSet(g, s)}
  <1> SUFFICES ASSUME B # {} PROVE FALSE
    OBVIOUS
  <1>1. PICK s \in B : IsFiniteSet(s) /\ \A x \in s : s \ {x} \notin B
    BY MinimalSet
  <1>2. CASE s = {}
    BY <1>1, <1>2, SumEmpty
  <1>3. CASE s # {}
    <2>1. Some(s) \in s
      BY <1>3, SomeIsIn
    <2>2. f[Some(s)] = g[Some(s)]
      BY <1>1, <2>1
    <2>3. SumFunctionOnSet(f, s \ {Some(s)}) = SumFunctionOnSet(g, s \ {Some(s)})
      BY <1>1, <2>1
    <2> QED
      BY <1>1, <1>3, <2>2, <2>3, SumStep
  <1> QED
    BY <1>2, <1>3

\* Values that stay, and one more.
LEMMA SumGrows ==
    ASSUME NEW f, NEW g, NEW S, IsFiniteSet(S), IntOn(f, S), \A y \in S : g[y] = f[y],
           NEW x, x \notin S, g[x] \in Int
    PROVE  SumFunctionOnSet(g, S \cup {x}) = SumFunctionOnSet(f, S) + g[x]
  <1>1. IntOn(g, S \cup {x})
    BY DEF IntOn
  <1> QED
    BY <1>1, SumAdd, SumSame

\* A sum of naturals is natural, and not less than that of a part.
LEMMA SumMonotone ==
    ASSUME NEW f, NEW S, IsFiniteSet(S), \A x \in S : f[x] \in Nat, NEW T \in SUBSET S
    PROVE  /\ SumFunctionOnSet(f, S) \in Nat
           /\ SumFunctionOnSet(f, T) \in Nat
           /\ SumFunctionOnSet(f, T) =< SumFunctionOnSet(f, S)
  <1>1. \A s \in SUBSET S : IsFiniteSet(s) /\ IntOn(f, s) /\ SumFunctionOnSet(f, s) \in Int
    BY FS_Subset, SumType DEF IntOn
  <1>2. \A s \in SUBSET S : \A x \in s : SumFunctionOnSet(f, s) = SumFunctionOnSet(f, s \ {x}) + f[x]
    BY <1>1, SumRemove
  <1>3. SumFunctionOnSet(f, {}) = 0
    BY SumEmpty
  <1>4. \A s \in SUBSET S : SumFunctionOnSet(f, s) \in Nat
    <2> DEFINE B == {s \in SUBSET S : SumFunctionOnSet(f, s) \notin Nat}
    <2> SUFFICES ASSUME B # {} PROVE FALSE
      OBVIOUS
    <2>1. PICK s \in B : \A x \in s : s \ {x} \notin B
      BY MinimalSet
    <2>2. PICK x \in s : TRUE
      BY <1>3, <2>1
    <2>3. SumFunctionOnSet(f, s \ {x}) \in Nat /\ f[x] \in Nat
      BY <2>1
    <2> QED
      BY <1>2, <2>1, <2>3
  <1>5. SumFunctionOnSet(f, T) =< SumFunctionOnSet(f, S)
    <2> DEFINE B == {s \in SUBSET S : T \subseteq s /\ ~(SumFunctionOnSet(f, T) =< SumFunctionOnSet(f, s))}
    <2> SUFFICES ASSUME B # {} PROVE FALSE
      BY <1>4
    <2>0. B \subseteq SUBSET S
      OBVIOUS
    <2>1. PICK s \in B : \A x \in s : s \ {x} \notin B
      <3> HIDE DEF B
      <3> QED
        BY <2>0, MinimalSet
    <2>2. PICK x \in s : x \notin T
      BY <1>1, <2>1
    <2>3. SumFunctionOnSet(f, T) =< SumFunctionOnSet(f, s \ {x}) /\ SumFunctionOnSet(f, s \ {x}) \in Int /\ SumFunctionOnSet(f, T) \in Int
      BY <1>1, <2>1, <2>2
    <2> QED
      BY <1>2, <2>1, <2>2, <2>3
  <1> QED
    BY <1>4, <1>5
\* One value changes, and the sum with it.
LEMMA SumChange ==
    ASSUME NEW f, NEW g, NEW S, IsFiniteSet(S), IntOn(f, S), IntOn(g, S),
           NEW x \in S, \A y \in S \ {x} : g[y] = f[y]
    PROVE  SumFunctionOnSet(g, S) = SumFunctionOnSet(f, S) - f[x] + g[x]
  <1>1. IsFiniteSet(S \ {x}) /\ IntOn(f, S \ {x})
    BY FS_RemoveElement DEF IntOn
  <1>2. SumFunctionOnSet(g, S \ {x}) = SumFunctionOnSet(f, S \ {x})
    BY <1>1, SumSame
  <1>3. SumFunctionOnSet(f, S \ {x}) \in Int
    BY <1>1, SumType
  <1>4. f[x] \in Int /\ g[x] \in Int
    BY DEF IntOn
  <1>5. /\ SumFunctionOnSet(f, S) = SumFunctionOnSet(f, S \ {x}) + f[x]
        /\ SumFunctionOnSet(g, S) = SumFunctionOnSet(g, S \ {x}) + g[x]
    BY SumRemove
  <1> QED
    BY <1>2, <1>3, <1>4, <1>5

\* The sum over a set is the sum over a part of it and the sum over the rest.
LEMMA SumParts ==
    ASSUME NEW f, NEW S, IsFiniteSet(S), IntOn(f, S), NEW T \in SUBSET S
    PROVE  SumFunctionOnSet(f, S) = SumFunctionOnSet(f, T) + SumFunctionOnSet(f, S \ T)
  <1> DEFINE B == {s \in SUBSET T :
                      SumFunctionOnSet(f, S) # SumFunctionOnSet(f, s) + SumFunctionOnSet(f, S \ s)}
  <1> SUFFICES ASSUME B # {} PROVE FALSE
    OBVIOUS
  <1>1. \A s \in SUBSET S : IsFiniteSet(s) /\ IntOn(f, s) /\ SumFunctionOnSet(f, s) \in Int
    BY FS_Subset, SumType DEF IntOn
  <1>2. PICK s \in B : \A x \in s : s \ {x} \notin B
    <2>1. B \subseteq SUBSET T /\ IsFiniteSet(T)
      BY <1>1
    <2> HIDE DEF B
    <2> QED
      BY <2>1, MinimalSet
  <1>3. SumFunctionOnSet(f, {}) = 0 /\ S \ {} = S
    BY SumEmpty
  <1>4. CASE s = {}
    BY <1>1, <1>2, <1>3, <1>4
  <1>5. ASSUME NEW x \in s PROVE FALSE
    <2>1. SumFunctionOnSet(f, S) = SumFunctionOnSet(f, s \ {x}) + SumFunctionOnSet(f, S \ (s \ {x}))
      BY <1>2, <1>5
    <2>2. SumFunctionOnSet(f, s) = SumFunctionOnSet(f, s \ {x}) + f[x]
      BY <1>1, <1>2, <1>5, SumRemove
    <2>3. SumFunctionOnSet(f, S \ (s \ {x})) = SumFunctionOnSet(f, S \ s) + f[x]
      <3>1. x \in S \ (s \ {x}) /\ (S \ (s \ {x})) \ {x} = S \ s /\ S \ (s \ {x}) \in SUBSET S
        BY <1>2, <1>5
      <3> QED
        BY <1>1, <3>1, SumRemove
    <2>4. /\ SumFunctionOnSet(f, s \ {x}) \in Int /\ SumFunctionOnSet(f, S \ s) \in Int /\ f[x] \in Int
          /\ s \in SUBSET S
      <3>1. s \in SUBSET S /\ s \ {x} \in SUBSET S /\ S \ s \in SUBSET S /\ x \in S
        BY <1>2, <1>5
      <3> QED
        BY <1>1, <3>1 DEF IntOn
    <2>5. SumFunctionOnSet(f, S) # SumFunctionOnSet(f, s) + SumFunctionOnSet(f, S \ s)
      BY <1>2
    <2> HIDE DEF B
    <2> QED
      BY <2>1, <2>2, <2>3, <2>4, <2>5
  <1> QED
    BY <1>2, <1>4, <1>5

\* The sum of differences is the difference of the sums.
LEMMA SumMinus ==
    ASSUME NEW f, NEW g, NEW h, NEW S, IsFiniteSet(S), IntOn(f, S), IntOn(g, S),
           \A x \in S : h[x] = f[x] - g[x]
    PROVE  SumFunctionOnSet(h, S) = SumFunctionOnSet(f, S) - SumFunctionOnSet(g, S)
  <1> DEFINE B == {s \in SUBSET S :
                      SumFunctionOnSet(h, s) # SumFunctionOnSet(f, s) - SumFunctionOnSet(g, s)}
  <1> SUFFICES ASSUME B # {} PROVE FALSE
    OBVIOUS
  <1>1. IntOn(h, S)
    BY DEF IntOn
  <1>2. \A s \in SUBSET S : /\ IsFiniteSet(s) /\ IntOn(f, s) /\ IntOn(g, s) /\ IntOn(h, s)
                            /\ SumFunctionOnSet(f, s) \in Int /\ SumFunctionOnSet(g, s) \in Int
    BY <1>1, FS_Subset, SumType DEF IntOn
  <1>3. PICK s \in B : \A x \in s : s \ {x} \notin B
    <2>1. B \subseteq SUBSET S
      OBVIOUS
    <2> HIDE DEF B
    <2> QED
      BY <2>1, MinimalSet
  <1>4. CASE s = {}
    BY <1>3, <1>4, SumEmpty
  <1>5. ASSUME NEW x \in s PROVE FALSE
    <2>1. SumFunctionOnSet(h, s \ {x}) = SumFunctionOnSet(f, s \ {x}) - SumFunctionOnSet(g, s \ {x})
      BY <1>3, <1>5
    <2>2. /\ SumFunctionOnSet(f, s) = SumFunctionOnSet(f, s \ {x}) + f[x]
          /\ SumFunctionOnSet(g, s) = SumFunctionOnSet(g, s \ {x}) + g[x]
          /\ SumFunctionOnSet(h, s) = SumFunctionOnSet(h, s \ {x}) + h[x]
      BY <1>2, <1>3, <1>5, SumRemove
    <2>3. f[x] \in Int /\ g[x] \in Int /\ h[x] = f[x] - g[x]
      BY <1>3, <1>5 DEF IntOn
    <2>4. SumFunctionOnSet(f, s \ {x}) \in Int /\ SumFunctionOnSet(g, s \ {x}) \in Int
      BY <1>2, <1>3
    <2> QED
      BY <1>3, <2>1, <2>2, <2>3, <2>4
  <1> QED
    BY <1>3, <1>4, <1>5

\* Values that are 0 outside a part sum to the sum over the part.
LEMMA SumOfPart ==
    ASSUME NEW f, NEW g, NEW S, IsFiniteSet(S), NEW T \in SUBSET S, IntOn(f, T),
           \A x \in T : g[x] = f[x], \A x \in S \ T : g[x] = 0
    PROVE  SumFunctionOnSet(g, S) = SumFunctionOnSet(f, T)
  <1> DEFINE B == {s \in SUBSET (S \ T) : SumFunctionOnSet(g, s) # 0}
  <1>1. IsFiniteSet(T) /\ IsFiniteSet(S \ T) /\ IntOn(g, S)
    BY FS_Subset DEF IntOn
  <1>2. SumFunctionOnSet(g, T) = SumFunctionOnSet(f, T) /\ SumFunctionOnSet(f, T) \in Int
    BY <1>1, SumSame, SumType
  <1>3. SumFunctionOnSet(g, S \ T) = 0
    <2> SUFFICES ASSUME B # {} PROVE FALSE
      OBVIOUS
    <2>1. PICK s \in B : IsFiniteSet(s) /\ \A x \in s : s \ {x} \notin B
      <3>1. B \subseteq SUBSET (S \ T)
        OBVIOUS
      <3> HIDE DEF B
      <3> QED
        BY <1>1, <3>1, MinimalSet
    <2>2. s # {}
      BY <2>1, SumEmpty
    <2>3. PICK x \in s : TRUE
      BY <2>2
    <2>4. IntOn(g, s) /\ g[x] = 0 /\ SumFunctionOnSet(g, s \ {x}) = 0
      BY <2>1 DEF IntOn
    <2>5. SumFunctionOnSet(g, s) = SumFunctionOnSet(g, s \ {x}) + g[x]
      BY <2>1, <2>4, SumRemove
    <2> QED
      BY <2>1, <2>4, <2>5
  <1> QED
    BY <1>1, <1>2, <1>3, SumParts

\* The sums over the elements of s that belong to each p.
Fibers(f, to, P, s) == [p \in P |-> SumFunctionOnSet(f, {a \in s : to[a] = p})]

\* What belongs to one p each sums, over all p, to the sum of all.
LEMMA SumFibers ==
    ASSUME NEW f, NEW A, IsFiniteSet(A), IntOn(f, A), NEW P, IsFiniteSet(P),
           NEW to, \A a \in A : to[a] \in P
    PROVE  SumFunctionOnSet(Fibers(f, to, P, A), P) = SumFunctionOnSet(f, A)
  <1> DEFINE B == {s \in SUBSET A : SumFunctionOnSet(Fibers(f, to, P, s), P) # SumFunctionOnSet(f, s)}
  <1> SUFFICES ASSUME B # {} PROVE FALSE
    OBVIOUS
  <1>1. \A s \in SUBSET A : IsFiniteSet(s) /\ IntOn(f, s) /\ SumFunctionOnSet(f, s) \in Int
    BY FS_Subset, SumType DEF IntOn
  <1>2. \A s \in SUBSET A : IntOn(Fibers(f, to, P, s), P)
    <2> SUFFICES ASSUME NEW s \in SUBSET A, NEW p \in P PROVE Fibers(f, to, P, s)[p] \in Int
      BY DEF IntOn
    <2>1. {a \in s : to[a] = p} \in SUBSET A
      OBVIOUS
    <2> QED
      BY <1>1, <2>1 DEF Fibers
  <1>3. PICK s \in B : \A x \in s : s \ {x} \notin B
    <2>1. B \subseteq SUBSET A
      OBVIOUS
    <2> HIDE DEF B
    <2> QED
      BY <2>1, MinimalSet
  <1>4. CASE s = {}
    <2>1. \A p \in P : Fibers(f, to, P, {})[p] = 0
      <3> SUFFICES ASSUME NEW p \in P PROVE Fibers(f, to, P, {})[p] = 0
        OBVIOUS
      <3>1. {a \in {} : to[a] = p} = {}
        OBVIOUS
      <3> QED
        BY <3>1, SumEmpty DEF Fibers
    <2>2. SumFunctionOnSet(Fibers(f, to, P, {}), P) = SumFunctionOnSet(f, {})
      <3>1. {} \in SUBSET P /\ IntOn(f, {})
        BY DEF IntOn
      <3> QED
        BY <2>1, <3>1, SumOfPart
    <2> QED
      BY <1>3, <1>4, <2>2
  <1>5. ASSUME NEW x \in s PROVE FALSE
    <2> DEFINE g == Fibers(f, to, P, s \ {x})
               h == Fibers(f, to, P, s)
    <2>1. x \in A /\ to[x] \in P /\ f[x] \in Int /\ s \ {x} \in SUBSET A /\ s \in SUBSET A
      BY <1>3, <1>5 DEF IntOn
    <2>2. SumFunctionOnSet(g, P) = SumFunctionOnSet(f, s \ {x})
      BY <1>3, <1>5
    <2>3. SumFunctionOnSet(f, s) = SumFunctionOnSet(f, s \ {x}) + f[x]
      BY <1>1, <1>3, <1>5, SumRemove
    <2>4. \A p \in P \ {to[x]} : h[p] = g[p]
      <3> SUFFICES ASSUME NEW p \in P \ {to[x]} PROVE h[p] = g[p]
        OBVIOUS
      <3>1. {a \in s : to[a] = p} = {a \in s \ {x} : to[a] = p}
        OBVIOUS
      <3> QED
        BY <3>1 DEF Fibers
    <2>5. h[to[x]] = g[to[x]] + f[x]
      <3> DEFINE S == {a \in s : to[a] = to[x]}
      <3>1. S \in SUBSET A /\ x \in S /\ S \ {x} = {a \in s \ {x} : to[a] = to[x]}
        BY <1>5, <2>1
      <3>2. SumFunctionOnSet(f, S) = SumFunctionOnSet(f, S \ {x}) + f[x]
        BY <1>1, <3>1, SumRemove
      <3>3. h[to[x]] = SumFunctionOnSet(f, S) /\ g[to[x]] = SumFunctionOnSet(f, S \ {x})
        BY <2>1, <3>1 DEF Fibers
      <3> QED
        BY <3>2, <3>3
    <2>6. IntOn(g, P) /\ IntOn(h, P)
      BY <1>2, <2>1
    <2> HIDE DEF g, h
    <2>7. SumFunctionOnSet(h, P) = SumFunctionOnSet(g, P) - g[to[x]] + h[to[x]]
      BY <2>1, <2>4, <2>6, SumChange
    <2>8. g[to[x]] \in Int /\ SumFunctionOnSet(f, s \ {x}) \in Int
      BY <1>1, <2>1, <2>6 DEF IntOn
    <2>9. SumFunctionOnSet(h, P) = SumFunctionOnSet(f, s)
      BY <2>1, <2>2, <2>3, <2>5, <2>7, <2>8
    <2> QED
      BY <1>3, <2>9 DEF h
  <1> QED
    BY <1>3, <1>4, <1>5
=============================================================================
