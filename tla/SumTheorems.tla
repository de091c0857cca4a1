---------------------------- MODULE SumTheorems ----------------------------
(***************************************************************************)
(* Sums over finite sets.  The books of the pool and of the token are      *)
(* compared with sums, SumFunctionOnSet of the community modules, which    *)
(* is defined by recursion over subsets.  Here the recursion is shown to   *)
(* have a solution, and from it follow the laws of sums the other proofs   *)
(* cite.                                                                   *)
(*                                                                         *)
(* Induction over a finite set takes the form of a least counterexample:   *)
(* the family of its subsets for which a claim fails, were it not empty,   *)
(* would have a member without a smaller one (LeastSubset).                *)
(***************************************************************************)
EXTENDS FiniteSetsExt, FiniteSetTheorems, TLAPS

\* The element the folds of the community modules take first.
Element(s) == CHOOSE x \in s : TRUE

\* g solves the recursion behind the sum of f, for every subset of S.
Iterates(g, f, S) ==
    g = [s \in SUBSET S |-> IF s = {} THEN 0 ELSE f[Element(s)] + g[s \ {Element(s)}]]

\* The sum is what the library's fold comes to: a chosen solution, at S.
LEMMA SumUnfolded ==
    ASSUME NEW f, NEW S
    PROVE SumFunctionOnSet(f, S) = (CHOOSE g : Iterates(g, f, S))[S]
BY DEF SumFunctionOnSet, FoldFunctionOnSet, MapThenFoldSet, Iterates, Element

\* CHOOSE picks a member of a nonempty set.
LEMMA ElementInSet ==
    ASSUME NEW s, s # {}
    PROVE  Element(s) \in s
BY DEF Element

\* A non-empty family of subsets of a finite set has a least member.
LEMMA LeastSubset ==
    ASSUME NEW S, IsFiniteSet(S), NEW F \in SUBSET SUBSET S, F # {}
    PROVE  \E T \in F : \A U \in F : U \subseteq T => U = T
<1> DEFINE R == StrictSubsetOrdering(S)
<1>1. IsWellFoundedOn(R, SUBSET S)
  BY FS_StrictSubsetOrderingWellFounded, FS_FiniteSubsetsOfFinite
<1> HIDE DEF R
<1>2. PICK T \in F : \A U \in F : ~ (<<U, T>> \in R)
  BY <1>1, WFMin
<1>3. ASSUME NEW U \in F, U \subseteq T PROVE U = T
  BY <1>2, <1>3 DEF R, StrictSubsetOrdering
<1> QED
  BY <1>3

\* The iteration at a nonempty set.
LEMMA IteratesAt ==
    ASSUME NEW f, NEW S, NEW g, Iterates(g, f, S), NEW s \in SUBSET S, s # {}
    PROVE  g[s] = f[Element(s)] + g[s \ {Element(s)}]
BY DEF Iterates

\* The iteration at the empty set.
LEMMA IteratesEmpty ==
    ASSUME NEW f, NEW S, NEW g, Iterates(g, f, S)
    PROVE  g[{}] = 0
<1>1. {} \in SUBSET S
  OBVIOUS
<1> QED
  BY <1>1 DEF Iterates

\* Two solutions agree wherever both are defined.
LEMMA IteratesUnique ==
    ASSUME NEW f, NEW S, IsFiniteSet(S), NEW g, Iterates(g, f, S),
           NEW T, NEW h, Iterates(h, f, T),
           NEW V \in SUBSET S, V \in SUBSET T
    PROVE  g[V] = h[V]
<1> DEFINE F == {U \in SUBSET V : g[U] # h[U]}
<1>1. SUFFICES ASSUME F # {} PROVE FALSE
  OBVIOUS
<1>2. IsFiniteSet(V)
  BY FS_Subset
<1>3. F \in SUBSET SUBSET V
  OBVIOUS
<1> HIDE DEF F
<1>4. PICK U \in F : \A W \in F : W \subseteq U => W = U
  BY <1>1, <1>2, <1>3, LeastSubset
<1> USE DEF F
<1>5. U # {}
  BY <1>4, IteratesEmpty
<1> DEFINE W == U \ {Element(U)}
<1>6. W \in SUBSET V /\ W # U
  BY <1>5, ElementInSet
<1>7. g[W] = h[W]
  BY <1>4, <1>6
<1>8. g[U] = h[U]
  BY <1>5, <1>7, IteratesAt
<1> QED
  BY <1>4, <1>8

\* There is a solution: put together, at each subset, from one for the rest of it.
LEMMA IteratesExists ==
    ASSUME NEW f, NEW S, IsFiniteSet(S)
    PROVE  \E g : Iterates(g, f, S)
<1> DEFINE F == {V \in SUBSET S : ~ \E g : Iterates(g, f, V)}
<1>1. SUFFICES ASSUME F # {} PROVE FALSE
  OBVIOUS
<1>0. F \in SUBSET SUBSET S
  OBVIOUS
<1> HIDE DEF F
<1>2. PICK V \in F : \A U \in F : U \subseteq V => U = V
  BY <1>0, <1>1, LeastSubset
<1> USE DEF F
<1> DEFINE k(U) == CHOOSE g : Iterates(g, f, U)
           h == [s \in SUBSET V |-> IF s = {} THEN 0
                    ELSE f[Element(s)] + k(s \ {Element(s)})[s \ {Element(s)}]]
<1>3. ASSUME NEW U \in SUBSET V, U # V PROVE Iterates(k(U), f, U) /\ IsFiniteSet(U)
  <2>1. U \notin F /\ U \in SUBSET S
    BY <1>2, <1>3
  <2>2. \E g : Iterates(g, f, U)
    BY <2>1
  <2> HIDE DEF F
  <2> QED
    BY <2>1, <2>2, FS_Subset
<1>4. ASSUME NEW U \in SUBSET V, U # V PROVE h[U] = k(U)[U]
  <2>1. Iterates(k(U), f, U) /\ IsFiniteSet(U)
    BY <1>3, <1>4
  <2> HIDE DEF k
  <2>2. CASE U = {}
    <3>1. k(U)[U] = 0
      BY <2>1, <2>2, IteratesEmpty
    <3> QED
      BY <2>2, <3>1
  <2>3. CASE U # {}
    <3> DEFINE W == U \ {Element(U)}
    <3>1. W \in SUBSET V /\ W # V /\ W \in SUBSET U
      BY <2>3, ElementInSet
    <3>2. Iterates(k(W), f, W)
      BY <1>3, <3>1
    <3>3. k(U)[W] = k(W)[W]
      BY <2>1, <3>1, <3>2, IteratesUnique
    <3>4. k(U)[U] = f[Element(U)] + k(U)[W]
      BY <2>1, <2>3, IteratesAt
    <3> QED
      BY <2>3, <3>3, <3>4
  <2> QED
    BY <2>2, <2>3
<1>5. ASSUME NEW s \in SUBSET V, s # {}
      PROVE k(s \ {Element(s)})[s \ {Element(s)}] = h[s \ {Element(s)}]
  <2>1. s \ {Element(s)} \in SUBSET V /\ s \ {Element(s)} # V
    BY <1>5, ElementInSet
  <2> HIDE DEF h, k
  <2> QED
    BY <1>4, <2>1
<1>6. h = [s \in SUBSET V |-> IF s = {} THEN 0
             ELSE f[Element(s)] + h[s \ {Element(s)}]]
  <2> HIDE DEF k
  <2> QED
    BY <1>5
<1>7. Iterates(h, f, V)
  <2> HIDE DEF h
  <2> QED BY <1>6 DEF Iterates
<1> HIDE DEF h
<1> QED
  BY <1>2, <1>7

-----------------------------------------------------------------------------
\* SumFunctionOnSet is such an iteration.
LEMMA SumIterates ==
    ASSUME NEW f, NEW S, IsFiniteSet(S)
    PROVE  \E g : Iterates(g, f, S) /\ SumFunctionOnSet(f, S) = g[S]
<1>1. Iterates(CHOOSE g : Iterates(g, f, S), f, S)
  BY IteratesExists
<1> QED
  BY <1>1, SumUnfolded

\* Nothing sums to zero.
LEMMA SumEmpty ==
    ASSUME NEW f
    PROVE  SumFunctionOnSet(f, {}) = 0
BY SumIterates, IteratesEmpty, FS_EmptySet

\* The recursion, for sums.
LEMMA SumStep ==
    ASSUME NEW f, NEW S, IsFiniteSet(S), S # {}
    PROVE  /\ Element(S) \in S
           /\ SumFunctionOnSet(f, S)
                = f[Element(S)] + SumFunctionOnSet(f, S \ {Element(S)})
<1> DEFINE W == S \ {Element(S)}
<1>1. IsFiniteSet(W)
  BY FS_RemoveElement
<1>2. PICK g : Iterates(g, f, S) /\ SumFunctionOnSet(f, S) = g[S]
  BY SumIterates
<1>3. PICK h : Iterates(h, f, W) /\ SumFunctionOnSet(f, W) = h[W]
  BY <1>1, SumIterates
<1>4. g[W] = h[W]
  BY <1>2, <1>3, IteratesUnique
<1> QED
  BY <1>2, <1>3, <1>4, IteratesAt, ElementInSet

\* Any element can be split off, not only the one the fold takes first.
LEMMA SumSplit ==
    ASSUME NEW f, NEW S, IsFiniteSet(S), \A s \in S : f[s] \in Int
    PROVE  /\ SumFunctionOnSet(f, S) \in Int
           /\ \A x \in S : SumFunctionOnSet(f, S) = f[x] + SumFunctionOnSet(f, S \ {x})
<1> DEFINE Good(T) ==
               /\ SumFunctionOnSet(f, T) \in Int
               /\ \A x \in T : SumFunctionOnSet(f, T) = f[x] + SumFunctionOnSet(f, T \ {x})
           F == {T \in SUBSET S : ~Good(T)}
<1> HIDE DEF Good
<1>1. SUFFICES ASSUME F # {} PROVE FALSE
  BY DEF Good
<1>2. F \in SUBSET SUBSET S
  OBVIOUS
<1> HIDE DEF F
<1>3. PICK T \in F : \A U \in F : U \subseteq T => U = T
  BY <1>1, <1>2, LeastSubset
<1> USE DEF F
<1>4. IsFiniteSet(T) /\ T \in SUBSET S
  BY FS_Subset
<1>5. ASSUME NEW x \in T PROVE Good(T \ {x}) /\ IsFiniteSet(T \ {x})
  BY <1>3, <1>4, FS_RemoveElement
<1> HIDE DEF F
<1>6. CASE T = {}
  BY <1>3, <1>6, SumEmpty DEF Good, F
<1>7. CASE T # {}
  <2> DEFINE e == Element(T)
  <2>1. e \in T /\ SumFunctionOnSet(f, T) = f[e] + SumFunctionOnSet(f, T \ {e})
    BY <1>4, <1>7, SumStep
  <2> HIDE DEF e
  <2>2. SumFunctionOnSet(f, T \ {e}) \in Int /\ f[e] \in Int
    BY <1>4, <1>5, <2>1 DEF Good
  <2>3. ASSUME NEW x \in T, x # e
        PROVE  SumFunctionOnSet(f, T) = f[x] + SumFunctionOnSet(f, T \ {x})
    <3>1. x \in T \ {e} /\ e \in T \ {x} /\ (T \ {e}) \ {x} = (T \ {x}) \ {e}
      BY <2>1, <2>3
    <3>2. /\ SumFunctionOnSet(f, T \ {e}) = f[x] + SumFunctionOnSet(f, (T \ {x}) \ {e})
          /\ SumFunctionOnSet(f, T \ {x}) = f[e] + SumFunctionOnSet(f, (T \ {x}) \ {e})
      BY <1>5, <2>1, <3>1 DEF Good
    <3>3. SumFunctionOnSet(f, T \ {x}) \in Int /\ f[x] \in Int
      BY <1>4, <1>5 DEF Good
    <3>4. f[x] + (SumFunctionOnSet(f, T) - f[e]) = f[x] + SumFunctionOnSet(f, T \ {e})
      BY <2>1, <2>2, <3>3
    <3>5. SumFunctionOnSet(f, (T \ {x}) \ {e}) \in Int
      <4>1. T \ {x} \in SUBSET S /\ (T \ {x}) \ {e} \in SUBSET S /\ (T \ {x}) \ {e} # T
        BY <1>4, <2>1
      <4>2. (T \ {x}) \ {e} \notin F
        BY <1>3, <4>1
      <4> QED
        BY <4>1, <4>2 DEF F, Good
    <3> QED
      BY <2>1, <2>2, <3>2, <3>3, <3>5
  <2>4. SumFunctionOnSet(f, T) \in Int
    BY <2>1, <2>2
  <2>5. \A x \in T : SumFunctionOnSet(f, T) = f[x] + SumFunctionOnSet(f, T \ {x})
    BY <2>1, <2>3
  <2>6. Good(T)
    BY <2>4, <2>5 DEF Good
  <2> QED
    BY <1>3, <2>6 DEF F
<1> QED
  BY <1>6, <1>7

\* The sum depends on the terms alone.
LEMMA SumCongruence ==
    ASSUME NEW f, NEW g, NEW S, IsFiniteSet(S), \A s \in S : f[s] = g[s]
    PROVE  SumFunctionOnSet(f, S) = SumFunctionOnSet(g, S)
<1> DEFINE F == {T \in SUBSET S : SumFunctionOnSet(f, T) # SumFunctionOnSet(g, T)}
<1>1. SUFFICES ASSUME F # {} PROVE FALSE
  OBVIOUS
<1>2. F \in SUBSET SUBSET S
  OBVIOUS
<1> HIDE DEF F
<1>3. PICK T \in F : \A U \in F : U \subseteq T => U = T
  BY <1>1, <1>2, LeastSubset
<1>4. /\ IsFiniteSet(T) /\ T \in SUBSET S
      /\ SumFunctionOnSet(f, T) # SumFunctionOnSet(g, T)
  BY <1>3, FS_Subset DEF F
<1>5. T # {}
  BY <1>4, SumEmpty
<1>6. /\ Element(T) \in T
      /\ SumFunctionOnSet(f, T) = f[Element(T)] + SumFunctionOnSet(f, T \ {Element(T)})
      /\ SumFunctionOnSet(g, T) = g[Element(T)] + SumFunctionOnSet(g, T \ {Element(T)})
  BY <1>4, <1>5, SumStep
<1>7. SumFunctionOnSet(f, T \ {Element(T)}) = SumFunctionOnSet(g, T \ {Element(T)})
  BY <1>3, <1>4, <1>6 DEF F
<1> QED
  BY <1>4, <1>6, <1>7

\* Changing one entry changes the sum by the difference.
LEMMA SumUpdate ==
    ASSUME NEW f, NEW g, NEW S, IsFiniteSet(S), NEW x \in S,
           \A s \in S : f[s] \in Int, g[x] \in Int,
           \A s \in S \ {x} : g[s] = f[s]
    PROVE  SumFunctionOnSet(g, S) = SumFunctionOnSet(f, S) + (g[x] - f[x])
<1>1. IsFiniteSet(S \ {x})
  BY FS_RemoveElement
<1>2. /\ SumFunctionOnSet(f, S) = f[x] + SumFunctionOnSet(f, S \ {x})
      /\ SumFunctionOnSet(g, S) = g[x] + SumFunctionOnSet(g, S \ {x})
  BY SumSplit
<1>3. SumFunctionOnSet(f, S \ {x}) = SumFunctionOnSet(g, S \ {x})
  BY <1>1, SumCongruence
<1>4. SumFunctionOnSet(f, S \ {x}) \in Int
  BY <1>1, SumSplit
<1> QED
  BY <1>2, <1>3, <1>4

\* A sum of naturals is a natural and bounds each of its terms.
LEMMA SumOfNaturals ==
    ASSUME NEW f, NEW S, IsFiniteSet(S), \A s \in S : f[s] \in Nat
    PROVE  /\ SumFunctionOnSet(f, S) \in Nat
           /\ \A x \in S : f[x] <= SumFunctionOnSet(f, S)
<1> DEFINE F == {T \in SUBSET S : SumFunctionOnSet(f, T) \notin Nat}
<1>1. ASSUME F # {} PROVE FALSE
  <2>2. F \in SUBSET SUBSET S
    OBVIOUS
  <2> HIDE DEF F
  <2>3. PICK T \in F : \A U \in F : U \subseteq T => U = T
    BY <1>1, <2>2, LeastSubset
  <2>4. IsFiniteSet(T) /\ T \in SUBSET S /\ SumFunctionOnSet(f, T) \notin Nat
    BY <2>3, FS_Subset DEF F
  <2>5. T # {}
    BY <2>4, SumEmpty
  <2>6. /\ Element(T) \in T
        /\ SumFunctionOnSet(f, T) = f[Element(T)] + SumFunctionOnSet(f, T \ {Element(T)})
    BY <2>4, <2>5, SumStep
  <2>7. SumFunctionOnSet(f, T \ {Element(T)}) \in Nat
    BY <2>3, <2>4, <2>6 DEF F
  <2> QED
    BY <2>4, <2>6, <2>7
<1>2. ASSUME NEW T \in SUBSET S PROVE SumFunctionOnSet(f, T) \in Nat
  BY <1>1
<1>3. ASSUME NEW x \in S PROVE f[x] <= SumFunctionOnSet(f, S)
  <2>1. SumFunctionOnSet(f, S) = f[x] + SumFunctionOnSet(f, S \ {x})
    BY SumSplit
  <2>2. SumFunctionOnSet(f, S \ {x}) \in Nat /\ SumFunctionOnSet(f, S) \in Nat
    BY <1>2
  <2> QED
    BY <2>1, <2>2
<1> QED
  BY <1>2, <1>3

\* Larger terms add up to no less.
LEMMA SumMonotone ==
    ASSUME NEW f, NEW g, NEW S, IsFiniteSet(S),
           \A s \in S : f[s] \in Int /\ g[s] \in Int /\ f[s] <= g[s]
    PROVE  SumFunctionOnSet(f, S) <= SumFunctionOnSet(g, S)
<1> DEFINE F == {T \in SUBSET S : ~(SumFunctionOnSet(f, T) <= SumFunctionOnSet(g, T))}
<1>1. SUFFICES ASSUME F # {} PROVE FALSE
  OBVIOUS
<1>2. F \in SUBSET SUBSET S
  OBVIOUS
<1> HIDE DEF F
<1>3. PICK T \in F : \A U \in F : U \subseteq T => U = T
  BY <1>1, <1>2, LeastSubset
<1>4. /\ IsFiniteSet(T) /\ T \in SUBSET S
      /\ ~(SumFunctionOnSet(f, T) <= SumFunctionOnSet(g, T))
  BY <1>3, FS_Subset DEF F
<1>5. T # {}
  BY <1>4, SumEmpty
<1> DEFINE e == Element(T)
           R == T \ {Element(T)}
<1>6. /\ e \in T
      /\ SumFunctionOnSet(f, T) = f[e] + SumFunctionOnSet(f, R)
      /\ SumFunctionOnSet(g, T) = g[e] + SumFunctionOnSet(g, R)
  BY <1>4, <1>5, SumStep
<1>7. SumFunctionOnSet(f, R) <= SumFunctionOnSet(g, R)
  BY <1>3, <1>4, <1>6 DEF F
<1>8. SumFunctionOnSet(f, R) \in Int /\ SumFunctionOnSet(g, R) \in Int
  <2>1. IsFiniteSet(R) /\ \A s \in T : f[s] \in Int /\ g[s] \in Int
    BY <1>4, <1>6, FS_RemoveElement
  <2> QED
    BY <1>4, <1>6, <2>1, SumSplit
<1>9. f[e] \in Int /\ g[e] \in Int /\ f[e] <= g[e]
  BY <1>4, <1>6
<1> HIDE DEF e, R
<1> QED
  BY <1>4, <1>6, <1>7, <1>8, <1>9

\* Nothing adds up to nothing.
LEMMA SumOfZeros ==
    ASSUME NEW f, NEW S, IsFiniteSet(S), \A s \in S : f[s] = 0
    PROVE  SumFunctionOnSet(f, S) = 0
<1> DEFINE F == {T \in SUBSET S : SumFunctionOnSet(f, T) # 0}
<1>1. SUFFICES ASSUME F # {} PROVE FALSE
  OBVIOUS
<1>2. F \in SUBSET SUBSET S
  OBVIOUS
<1> HIDE DEF F
<1>3. PICK T \in F : \A U \in F : U \subseteq T => U = T
  BY <1>1, <1>2, LeastSubset
<1>4. IsFiniteSet(T) /\ T \in SUBSET S /\ SumFunctionOnSet(f, T) # 0
  BY <1>3, FS_Subset DEF F
<1>5. T # {}
  BY <1>4, SumEmpty
<1>6. /\ Element(T) \in T
      /\ SumFunctionOnSet(f, T) = f[Element(T)] + SumFunctionOnSet(f, T \ {Element(T)})
  BY <1>4, <1>5, SumStep
<1>7. SumFunctionOnSet(f, T \ {Element(T)}) = 0
  BY <1>3, <1>4, <1>6 DEF F
<1> QED
  BY <1>4, <1>6, <1>7

\* What one entry gives and another takes leaves the sum as it is.
LEMMA SumTransfer ==
    ASSUME NEW f, NEW g, NEW S, IsFiniteSet(S), NEW x \in S, NEW y \in S, x # y,
           \A s \in S : f[s] \in Int, g[x] \in Int, g[y] \in Int,
           g[x] + g[y] = f[x] + f[y],
           \A s \in S \ {x, y} : g[s] = f[s]
    PROVE  SumFunctionOnSet(g, S) = SumFunctionOnSet(f, S)
<1> DEFINE h == [s \in S |-> IF s = x THEN g[x] ELSE f[s]]
<1>1. /\ \A s \in S : h[s] \in Int
      /\ h[x] = g[x] /\ h[y] = f[y]
      /\ \A s \in S \ {x} : h[s] = f[s]
      /\ \A s \in S \ {y} : g[s] = h[s]
  OBVIOUS
<1> HIDE DEF h
<1>2. SumFunctionOnSet(h, S) = SumFunctionOnSet(f, S) + (g[x] - f[x])
  BY <1>1, SumUpdate
<1>3. SumFunctionOnSet(g, S) = SumFunctionOnSet(h, S) + (g[y] - f[y])
  BY <1>1, SumUpdate
<1>4. SumFunctionOnSet(f, S) \in Int /\ f[x] \in Int /\ f[y] \in Int
  BY SumSplit
<1> QED
  BY <1>2, <1>3, <1>4

\* Terms that are zero may be left out of a sum.
LEMMA SumOfSupport ==
    ASSUME NEW f, NEW S, IsFiniteSet(S), NEW T \in SUBSET S,
           \A s \in S : f[s] \in Int, \A s \in S \ T : f[s] = 0
    PROVE  SumFunctionOnSet(f, S) = SumFunctionOnSet(f, T)
<1> DEFINE F == {U \in SUBSET S : SumFunctionOnSet(f, U) # SumFunctionOnSet(f, U \cap T)}
<1>1. ASSUME F # {} PROVE FALSE
  <2>1. F \in SUBSET SUBSET S
    OBVIOUS
  <2> HIDE DEF F
  <2>2. PICK U \in F : \A V \in F : V \subseteq U => V = U
    BY <1>1, <2>1, LeastSubset
  <2>3. /\ IsFiniteSet(U) /\ U \in SUBSET S
        /\ SumFunctionOnSet(f, U) # SumFunctionOnSet(f, U \cap T)
    BY <2>2, FS_Subset DEF F
  <2>4. U # {}
    <3>1. U = {} => U \cap T = U
      OBVIOUS
    <3> QED
      BY <2>3, <3>1
  <2>5. PICK e : e \in U
    BY <2>4
  <2>6. /\ SumFunctionOnSet(f, U) = f[e] + SumFunctionOnSet(f, U \ {e})
        /\ f[e] \in Int
    BY <2>3, <2>5, SumSplit
  <2>7. SumFunctionOnSet(f, U \ {e}) = SumFunctionOnSet(f, (U \ {e}) \cap T)
    BY <2>2, <2>3, <2>5 DEF F
  <2>8. CASE e \in T
    <3>1. IsFiniteSet(U \cap T) /\ e \in U \cap T /\ (U \cap T) \ {e} = (U \ {e}) \cap T
          /\ \A s \in U \cap T : f[s] \in Int
      BY <2>3, <2>5, <2>8, FS_Subset
    <3>2. SumFunctionOnSet(f, U \cap T) = f[e] + SumFunctionOnSet(f, (U \cap T) \ {e})
      BY <3>1, SumSplit
    <3>3. SumFunctionOnSet(f, (U \ {e}) \cap T) = SumFunctionOnSet(f, (U \cap T) \ {e})
      BY <3>1
    <3> QED
      BY <2>3, <2>6, <2>7, <3>2, <3>3
  <2>9. CASE e \notin T
    <3>1. (U \ {e}) \cap T = U \cap T /\ f[e] = 0 /\ IsFiniteSet(U \ {e})
          /\ \A s \in U \ {e} : f[s] \in Int
      BY <2>3, <2>5, <2>9, FS_Subset
    <3>2. SumFunctionOnSet(f, U \ {e}) \in Int
      BY <3>1, SumSplit
    <3>3. SumFunctionOnSet(f, (U \ {e}) \cap T) = SumFunctionOnSet(f, U \cap T)
      BY <3>1
    <3>4. SumFunctionOnSet(f, U) = SumFunctionOnSet(f, U \ {e})
      BY <2>6, <3>1, <3>2
    <3> QED
      BY <2>3, <2>7, <3>3, <3>4
  <2> QED
    BY <2>8, <2>9
<1>2. S \in SUBSET S /\ S \cap T = T
  OBVIOUS
<1> QED
  BY <1>1, <1>2
=============================================================================
