-------------------------- MODULE SchedulingProofs --------------------------
(***************************************************************************)
(* Proofs about what lies between writing a post and its job, for any      *)
(* number of requests and every size of what they are about: the queue     *)
(* slots of a workspace (module QueueSlots), the posts of a thread         *)
(* (PostThreads), one destination of a post (Composing),                   *)
(* the splitting of a text (TweetSplit) and the search of the queue        *)
(* (SlotSearch).                                                           *)
(*                                                                         *)
(* First, what the computations need.  They are recursive functions, and a *)
(* claim about one is proved by induction; the least element of a set of   *)
(* numbers, or of sets, takes the place of a scheme, since it needs no     *)
(* operator for a parameter.                                               *)
(***************************************************************************)
EXTENDS Scheduling, FiniteSetsExt, Functions, WellFoundedInduction, FiniteSetTheorems,
        SequenceTheorems, TLAPS

-----------------------------------------------------------------------------
(* Induction, recursion, sums.                                             *)

(* A set of natural numbers has a least element.                           *)
LEMMA NatHasMin ==
  ASSUME NEW T \in SUBSET Nat, T # {}
  PROVE \E x \in T : \A y \in T : x <= y
  <1> DEFINE R == {ss \in Nat \X Nat : ss[1] < ss[2]}
  <1>1. IsWellFoundedOn(R, Nat)
    BY NatLessThanWellFounded, Zenon DEF OpToRel
  <1> HIDE DEF R
  <1>2. \E x \in T : \A y \in T : ~ (<<y, x>> \in R)
    BY <1>1, WFMin
  <1>3. \A x, y \in T : ~ (<<y, x>> \in R) => x <= y
    BY DEF R
  <1> QED BY <1>2, <1>3

(* What holds of 0, and of n + 1 when of n, holds of every natural number. *)
(* The claim is a set, so that nothing is taken as a parameter but sets.   *)
LEMMA NatInd == ASSUME NEW G, 0 \in G, \A n \in Nat : n \in G => n + 1 \in G
   PROVE \A n \in Nat : n \in G
  <1> SUFFICES ASSUME Nat \ G # {} PROVE FALSE
    OBVIOUS
  <1>1. PICK x \in Nat \ G : \A y \in Nat \ G : x <= y
    BY NatHasMin
  <1> QED BY <1>1

(* Among subsets of a finite set, some have no other of them below.        *)
LEMMA FewestOf == ASSUME NEW S, IsFiniteSet(S), NEW T \in SUBSET SUBSET S, T # {}
   PROVE \E x \in T : \A y \in T : y \subseteq x => y = x
  <1> DEFINE R == StrictSubsetOrdering(S)
  <1>1. IsWellFoundedOn(R, SUBSET S)
    BY FS_StrictSubsetOrderingWellFounded, FS_FiniteSubsetsOfFinite
  <1> HIDE DEF R
  <1>2. PICK x \in T : \A y \in T : ~ (<<y, x>> \in R)
    BY <1>1, WFMin
  <1> QED BY <1>2 DEF R, StrictSubsetOrdering

(* What holds of the empty set, and of a set when it does without one of   *)
(* its elements, holds of every subset of a finite set.                    *)
LEMMA SetInduction ==
   ASSUME NEW S, IsFiniteSet(S), NEW G, {} \in G, 
      \A T \in SUBSET S : \A x \in T : T \ {x} \in G => T \in G
   PROVE SUBSET S \subseteq G
  <1> DEFINE B == (SUBSET S) \ G
  <1> SUFFICES ASSUME B # {} PROVE FALSE
    OBVIOUS
  <1>1. B \in SUBSET SUBSET S
    OBVIOUS
  <1> HIDE DEF B
  <1>2. PICK x \in B : \A y \in B : y \subseteq x => y = x
    BY FewestOf, <1>1
  <1>3. PICK e \in x : TRUE
    BY DEF B
  <1>4. x \ {e} \in G
    BY <1>2, <1>3 DEF B
  <1> QED BY <1>3, <1>4 DEF B

(* A recursive definition on D with values in V: b on the base B,          *)
(* elsewhere by G from the value at p[d], whose measure m is less;         *)
(* measures stay below N.                                                  *)
Descends(D, V, B, b, m, N, G, p) ==
  /\ B \subseteq D /\ b \in [B -> V] /\ m \in [D -> Nat] /\ N \in Nat
  /\ G \in [D \X V -> V] /\ p \in [D -> D] /\ V # {}
  /\ \A d \in D : m[d] < N
  /\ \A d \in D \ B : m[p[d]] < m[d]

(* F is what it defines.                                                   *)
Solves(F, D, V, B, b, G, p) == 
  F \in [D -> V] /\ \A d \in D : F[d] = IF d \in B THEN b[d] ELSE G[<<d, F[p[d]]>>]

(* There is a function that a recursive definition defines.                *)
LEMMA Recursion ==
  ASSUME NEW D, NEW V, NEW B, NEW b, NEW m, NEW N, NEW G, NEW p, Descends(D, V, B, b, m, N, G, p)
  PROVE  \E F : Solves(F, D, V, B, b, G, p)
  <1> USE DEF Descends
  <1>0. PICK v0 \in V : TRUE
    OBVIOUS
  <1> DEFINE Right(F, d) == F[d] = IF d \in B THEN b[d] ELSE G[<<d, F[p[d]]>>]
             Good == {n \in Nat : \E F \in [D -> V] : \A d \in D : m[d] < n => Right(F, d)}
  <1>1. 0 \in Good
    <2>1. [d \in D |-> v0] \in [D -> V] /\ \A d \in D : ~(m[d] < 0)
      OBVIOUS
    <2> QED BY <2>1
  <1>2. ASSUME NEW n \in Nat, n \in Good PROVE n + 1 \in Good
    <2>1. PICK F \in [D -> V] : \A d \in D : m[d] < n => Right(F, d)
      BY <1>2
    <2> DEFINE H == [d \in D |-> IF d \in B THEN b[d] ELSE G[<<d, F[p[d]]>>]]
    <2>2. H \in [D -> V]
      OBVIOUS
    <2>3. \A d \in D : m[d] < n => H[d] = F[d]
      BY <2>1
    <2>4. ASSUME NEW d \in D, m[d] < n + 1 PROVE Right(H, d)
      <3>1. CASE d \in B
        BY <3>1
      <3>2. CASE d \notin B
        <4>1. m[p[d]] < n /\ p[d] \in D
          BY <3>2, <2>4
        <4>2. H[p[d]] = F[p[d]]
          BY <4>1, <2>3
        <4> QED BY <3>2, <4>2
      <3> QED BY <3>1, <3>2
    <2> HIDE DEF H
    <2>5. \E K \in [D -> V] : \A d \in D : m[d] < n + 1 => Right(K, d)
      BY <2>2, <2>4
    <2> QED BY <2>5
  <1> HIDE DEF Good
  <1>3. N \in Good
    BY <1>1, <1>2, NatInd
  <1>4. PICK F \in [D -> V] : \A d \in D : m[d] < N => Right(F, d)
    BY <1>3 DEF Good
  <1> QED BY <1>4 DEF Solves

(* SumFunctionOnSet is a recursive function over the subsets; so there is  *)
(* one, and its values are integers.                                       *)
LEMMA SumsExist ==
   ASSUME NEW S, IsFiniteSet(S), NEW f, \A x \in S : f[x] \in Int
   PROVE \E F : /\ F = [s \in SUBSET S |-> IF s = {} THEN 0
                    ELSE f[CHOOSE x \in s : TRUE] + F[s \ {CHOOSE x \in s : TRUE}]]
                /\ F \in [SUBSET S -> Int]
                /\ SumFunctionOnSet(f, S) = F[S]
  <1> DEFINE c(s) == CHOOSE x \in s : TRUE
       m == [s \in SUBSET S |-> Cardinality(s)]
       B == {{}}
       b == [s \in B |-> 0]
       p == [s \in SUBSET S |-> s \ {c(s)}]
       G == [z \in (SUBSET S) \X Int |-> IF z[1] = {} THEN 0 ELSE f[c(z[1])] + z[2]]
       N == Cardinality(S) + 1
       Body(F) == [s \in SUBSET S |-> IF s = {} THEN 0 ELSE f[c(s)] + F[s \ {c(s)}]]
  <1>0. \A s \in SUBSET S : s # {} => c(s) \in s
    OBVIOUS
  <1>1. B \in SUBSET SUBSET S /\ b \in [B -> Int] /\ p \in [SUBSET S -> SUBSET S]
    OBVIOUS
  <1>2. m \in [SUBSET S -> Nat] /\ N \in Nat /\ \A d \in SUBSET S : m[d] < N
    BY FS_Subset, FS_CardinalityType
  <1>3. G \in [(SUBSET S) \X Int -> Int]
    <2> HIDE DEF c
    <2>1. ASSUME NEW s \in SUBSET S, NEW i \in Int PROVE (IF s = {} THEN 0 ELSE f[c(s)] + i) \in Int
      <3>1. s # {} => f[c(s)] \in Int
        BY <1>0
      <3> QED BY <3>1
    <2> QED BY <2>1
  <1>4. ASSUME NEW d \in (SUBSET S) \ B PROVE m[p[d]] < m[d]
    <2>1. IsFiniteSet(d) /\ c(d) \in d
      BY FS_Subset
    <2>2. Cardinality(d \ {c(d)}) = Cardinality(d) - 1
      BY <2>1, FS_RemoveElement
    <2> QED BY <2>1, <2>2, FS_CardinalityType
  <1> HIDE DEF m, B, b, p, G, N
  <1>5. Descends(SUBSET S, Int, B, b, m, N, G, p)
    BY <1>1, <1>2, <1>3, <1>4 DEF Descends
  <1>55. PICK F : Solves(F, SUBSET S, Int, B, b, G, p)
    BY <1>5, Recursion
  <1> HIDE DEF c
  <1>6. ASSUME NEW s \in SUBSET S PROVE F[s] = IF s = {} THEN 0 ELSE f[c(s)] + F[s \ {c(s)}]
    <2>1. s \ {c(s)} \in SUBSET S
      OBVIOUS
    <2>2. F[s \ {c(s)}] \in Int
      BY <1>55, <2>1 DEF Solves
    <2> QED BY <1>55, <2>2 DEF B, b, p, G, Solves
  <1>7. F = Body(F)
    BY <1>55, <1>6 DEF Solves
  <1> DEFINE iter == CHOOSE H : H = Body(H)
  <1> HIDE DEF Body
  <1>8. iter = Body(iter)
    BY <1>7
  <1> USE DEF Body
  <1>9. iter \in [SUBSET S -> Int]
    <2> DEFINE Good == {T \in SUBSET S : iter[T] \in Int}
    <2> HIDE DEF iter
    <2>1. \A T \in SUBSET S : (\A U \in SUBSET T : U # T => U \in Good) => T \in Good
      <3> TAKE T \in SUBSET S
      <3> HAVE \A U \in SUBSET T : U # T => U \in Good
      <3>1. iter[T] = IF T = {} THEN 0 ELSE f[c(T)] + iter[T \ {c(T)}]
        BY <1>8
      <3>2. CASE T = {}
        BY <3>1, <3>2
      <3>3. CASE T # {}
        <4>1. c(T) \in T /\ f[c(T)] \in Int
          BY <1>0, <3>3
        <4>2. T \ {c(T)} \in Good
          BY <4>1
        <4>3. iter[T \ {c(T)}] \in Int
          BY <4>2
        <4> QED BY <3>1, <3>3, <4>1, <4>3
      <3> QED BY <3>2, <3>3
    <2> HIDE DEF Good
    <2>2. SUBSET S \subseteq Good
      <3> SUFFICES ASSUME (SUBSET S) \ Good # {} PROVE FALSE
        OBVIOUS
      <3> DEFINE Bad == (SUBSET S) \ Good
      <3> HIDE DEF Bad
      <3>1. Bad \in SUBSET SUBSET S /\ Bad # {}
        BY DEF Bad
      <3>2. PICK x \in Bad : \A y \in Bad : y \subseteq x => y = x
        BY <3>1, FewestOf
      <3>3. \A U \in SUBSET x : U # x => U \in Good
        BY <3>2, <3>1 DEF Bad
      <3> QED BY <2>1, <3>2, <3>3 DEF Bad
    <2>3. \A T \in SUBSET S : iter[T] \in Int
      BY <2>2 DEF Good
    <2> QED BY <1>8, <2>3
  <1>10. SumFunctionOnSet(f, S) = iter[S]
    BY DEF SumFunctionOnSet, FoldFunctionOnSet, MapThenFoldSet, c
  <1> WITNESS iter
  <1> QED BY <1>8, <1>9, <1>10 DEF c

(* The element SumFunctionOnSet takes next.                                *)
First(s) == CHOOSE x \in s : TRUE

(* A sum is an integer, and takes the elements one at a time.              *)
LEMMA SumRec ==
   ASSUME NEW S, IsFiniteSet(S), NEW f, \A x \in S : f[x] \in Int
   PROVE /\ SumFunctionOnSet(f, {}) = 0
         /\ SumFunctionOnSet(f, S) \in Int
         /\ S # {} => SumFunctionOnSet(f, S) = f[First(S)] + SumFunctionOnSet(f, S \ {First(S)})
  <1>1. PICK F : /\ F = [s \in SUBSET S |-> IF s = {} THEN 0 ELSE f[First(s)] + F[s \ {First(s)}]]
                 /\ F \in [SUBSET S -> Int]
                 /\ SumFunctionOnSet(f, S) = F[S]
    BY SumsExist DEF First
  <1>2. SumFunctionOnSet(f, {}) = 0
    <2>1. PICK H : /\ H = [s \in SUBSET {} |-> IF s = {} THEN 0 ELSE f[First(s)] + H[s \ {First(s)}]]
                   /\ SumFunctionOnSet(f, {}) = H[{}]
      BY FS_EmptySet, SumsExist DEF First
    <2> QED BY <2>1
  <1>3. ASSUME S # {}
        PROVE  SumFunctionOnSet(f, S) = f[First(S)] + SumFunctionOnSet(f, S \ {First(S)})
    <2> DEFINE R == S \ {First(S)}
    <2>1. IsFiniteSet(R) /\ \A x \in R : f[x] \in Int
      BY FS_RemoveElement
    <2>2. PICK H : /\ H = [s \in SUBSET R |-> IF s = {} THEN 0 ELSE f[First(s)] + H[s \ {First(s)}]]
                   /\ H \in [SUBSET R -> Int]
                   /\ SumFunctionOnSet(f, R) = H[R]
      BY <2>1, SumsExist DEF First
    <2>a. R \subseteq S /\ First(S) \in S
      BY <1>3 DEF First
    <2> HIDE DEF R
    <2>3. \A T \in SUBSET R : F[T] = H[T]
      <3> DEFINE Bad == {T \in SUBSET R : F[T] # H[T]}
      <3> SUFFICES ASSUME Bad # {} PROVE FALSE
        OBVIOUS
      <3>1. Bad \in SUBSET SUBSET R
        OBVIOUS
      <3> HIDE DEF Bad
      <3>2. PICK x \in Bad : \A y \in Bad : y \subseteq x => y = x
        BY <2>1, <3>1, FewestOf
      <3>3. x \in SUBSET R /\ x \in SUBSET S /\ F[x] # H[x]
        BY <2>a DEF Bad
      <3>4. F[x] = IF x = {} THEN 0 ELSE f[First(x)] + F[x \ {First(x)}]
        BY <1>1, <3>3
      <3>5. H[x] = IF x = {} THEN 0 ELSE f[First(x)] + H[x \ {First(x)}]
        BY <2>2, <3>3
      <3>6. x # {}
        BY <3>3, <3>4, <3>5
      <3>7. First(x) \in x
        BY <3>6 DEF First
      <3>8. x \ {First(x)} \notin Bad
        BY <3>7, <3>2
      <3>9. F[x \ {First(x)}] = H[x \ {First(x)}]
        BY <3>8, <3>3 DEF Bad
      <3> QED BY <3>3, <3>4, <3>5, <3>9
    <2>4. F[S] = f[First(S)] + F[R]
      BY <1>1, <1>3 DEF R
    <2> QED BY <2>2, <2>3, <2>4, <1>1 DEF R
  <1> QED BY <1>1, <1>2, <1>3

(* ... and in any order.                                                   *)
LEMMA SumAdd ==
   ASSUME NEW S, IsFiniteSet(S), NEW f, \A x \in S : f[x] \in Int, NEW e \in S
   PROVE SumFunctionOnSet(f, S) = f[e] + SumFunctionOnSet(f, S \ {e})
  <1> DEFINE Adds(T) == \A x \in T : SumFunctionOnSet(f, T) = f[x] + SumFunctionOnSet(f, T \ {x})
             Bad == {T \in SUBSET S : ~Adds(T)}
  <1> SUFFICES ASSUME Bad # {} PROVE FALSE
    OBVIOUS
  <1>1. Bad \in SUBSET SUBSET S
    OBVIOUS
  <1> HIDE DEF Bad
  <1>2. PICK T \in Bad : \A y \in Bad : y \subseteq T => y = T
    BY <1>1, FewestOf
  <1>3. PICK x \in T : SumFunctionOnSet(f, T) # f[x] + SumFunctionOnSet(f, T \ {x})
    BY <1>2 DEF Bad
  <1>a. T \in SUBSET S
    BY DEF Bad
  <1> DEFINE c == First(T)
  <1>4. c \in T
    BY DEF First
  <1>5. /\ IsFiniteSet(T) /\ IsFiniteSet(T \ {x}) /\ IsFiniteSet(T \ {c})
            /\ IsFiniteSet((T \ {c}) \ {x})
        /\ \A y \in T : f[y] \in Int
    BY <1>a, FS_Subset, FS_RemoveElement
  <1>6. SumFunctionOnSet(f, T) = f[c] + SumFunctionOnSet(f, T \ {c})
    BY <1>3, <1>5, SumRec
  <1> HIDE DEF c
  <1>7. x # c
    BY <1>3, <1>6
  <1>8. Adds(T \ {c}) /\ Adds(T \ {x})
    BY <1>2, <1>4, <1>a DEF Bad
  <1>9. SumFunctionOnSet(f, T \ {c}) = f[x] + SumFunctionOnSet(f, (T \ {c}) \ {x})
    BY <1>7, <1>8
  <1>10. SumFunctionOnSet(f, T \ {x}) = f[c] + SumFunctionOnSet(f, (T \ {x}) \ {c})
    BY <1>4, <1>7, <1>8
  <1>11. (T \ {x}) \ {c} = (T \ {c}) \ {x}
    OBVIOUS
  <1>12. SumFunctionOnSet(f, (T \ {c}) \ {x}) \in Int
    <2> DEFINE U == (T \ {c}) \ {x}
    <2>1. IsFiniteSet(U) /\ \A y \in U : f[y] \in Int
      BY <1>5
    <2> HIDE DEF U
    <2>2. SumFunctionOnSet(f, U) \in Int
      BY <2>1, SumRec
    <2> QED BY <2>2 DEF U
  <1>13. f[x] \in Int /\ f[c] \in Int
    BY <1>5, <1>4
  <1>14. SumFunctionOnSet(f, (T \ {x}) \ {c}) = SumFunctionOnSet(f, (T \ {c}) \ {x})
    BY <1>11
  <1> DEFINE k == SumFunctionOnSet(f, (T \ {c}) \ {x})
  <1>15. SumFunctionOnSet(f, T \ {x}) = f[c] + k /\ SumFunctionOnSet(f, T \ {c}) = f[x] + k
    BY <1>9, <1>10, <1>14
  <1> HIDE DEF k
  <1> QED BY <1>3, <1>6, <1>15, <1>12, <1>13 DEF k

(* The sum over nothing is 0.                                              *)
LEMMA SumNone == \A f : SumFunctionOnSet(f, {}) = 0
  BY SumRec, FS_EmptySet

(* Functions with the same values have the same sum.                       *)
LEMMA SumSame ==
   ASSUME NEW S, IsFiniteSet(S), NEW f, NEW g, \A x \in S : f[x] \in Int /\ f[x] = g[x]
   PROVE SumFunctionOnSet(f, S) = SumFunctionOnSet(g, S)
  <1> DEFINE G == {T \in SUBSET S : SumFunctionOnSet(f, T) = SumFunctionOnSet(g, T)}
  <1>1. {} \in G
    BY SumNone
  <1>2. ASSUME NEW T \in SUBSET S, NEW x \in T, T \ {x} \in G PROVE T \in G
    <2>1. IsFiniteSet(T) /\ \A y \in T : f[y] \in Int /\ g[y] \in Int
      BY FS_Subset
    <2>2. SumFunctionOnSet(f, T) = f[x] + SumFunctionOnSet(f, T \ {x})
      BY <2>1, SumAdd
    <2>3. SumFunctionOnSet(g, T) = g[x] + SumFunctionOnSet(g, T \ {x})
      BY <2>1, SumAdd
    <2> QED BY <2>2, <2>3, <1>2
  <1> HIDE DEF G
  <1>3. SUBSET S \subseteq G
    BY <1>1, <1>2, SetInduction
  <1> QED BY <1>3 DEF G

(* Sums add up.                                                            *)
LEMMA SumOfTwo ==
   ASSUME NEW S, IsFiniteSet(S), NEW f, NEW g, NEW h, \A x \in S : f[x] \in Int /\ g[x] \in Int
         /\ h[x] = f[x] + g[x]
   PROVE SumFunctionOnSet(h, S) = SumFunctionOnSet(f, S) + SumFunctionOnSet(g, S)
  <1> DEFINE G == {T \in SUBSET S : SumFunctionOnSet(h, T)
        = SumFunctionOnSet(f, T) + SumFunctionOnSet(g, T)}
  <1>1. {} \in G
    BY SumNone
  <1>2. ASSUME NEW T \in SUBSET S, NEW x \in T, T \ {x} \in G PROVE T \in G
    <2>1. IsFiniteSet(T) /\ \A y \in T : f[y] \in Int /\ g[y] \in Int /\ h[y] \in Int
      BY FS_Subset
    <2>2. SumFunctionOnSet(f, T) = f[x] + SumFunctionOnSet(f, T \ {x})
      BY <2>1, SumAdd
    <2>3. SumFunctionOnSet(g, T) = g[x] + SumFunctionOnSet(g, T \ {x})
      BY <2>1, SumAdd
    <2>4. SumFunctionOnSet(h, T) = h[x] + SumFunctionOnSet(h, T \ {x})
      BY <2>1, SumAdd
    <2> DEFINE U == T \ {x}
    <2>5. IsFiniteSet(U) /\ \A y \in U : f[y] \in Int /\ g[y] \in Int
      BY <2>1, FS_RemoveElement
    <2> HIDE DEF U
    <2>6. SumFunctionOnSet(f, U) \in Int /\ SumFunctionOnSet(g, U) \in Int
      BY <2>5, SumRec
    <2>7. SumFunctionOnSet(h, U) = SumFunctionOnSet(f, U) + SumFunctionOnSet(g, U)
      BY <1>2 DEF U
    <2>8. f[x] \in Int /\ g[x] \in Int /\ h[x] = f[x] + g[x]
      OBVIOUS
    <2> QED BY <2>2, <2>3, <2>4, <2>6, <2>7, <2>8 DEF U
  <1> HIDE DEF G
  <1>3. SUBSET S \subseteq G
    BY <1>1, <1>2, SetInduction
  <1> QED BY <1>3 DEF G

(* Smaller values have the smaller sum.                                    *)
LEMMA SumBelow ==
   ASSUME NEW S, IsFiniteSet(S), NEW f, NEW g, \A x \in S : f[x] \in Int /\ g[x] \in Int /\ f[x] <= g[x]
   PROVE SumFunctionOnSet(f, S) <= SumFunctionOnSet(g, S)
  <1> DEFINE G == {T \in SUBSET S : SumFunctionOnSet(f, T) <= SumFunctionOnSet(g, T)}
  <1>1. {} \in G
    BY SumNone
  <1>2. ASSUME NEW T \in SUBSET S, NEW x \in T, T \ {x} \in G PROVE T \in G
    <2>1. IsFiniteSet(T) /\ \A y \in T : f[y] \in Int /\ g[y] \in Int
      BY FS_Subset
    <2>2. SumFunctionOnSet(f, T) = f[x] + SumFunctionOnSet(f, T \ {x})
      BY <2>1, SumAdd
    <2>3. SumFunctionOnSet(g, T) = g[x] + SumFunctionOnSet(g, T \ {x})
      BY <2>1, SumAdd
    <2> DEFINE U == T \ {x}
    <2>5. IsFiniteSet(U) /\ \A y \in U : f[y] \in Int /\ g[y] \in Int
      BY <2>1, FS_RemoveElement
    <2> HIDE DEF U
    <2>6. SumFunctionOnSet(f, U) \in Int /\ SumFunctionOnSet(g, U) \in Int
      BY <2>5, SumRec
    <2>7. SumFunctionOnSet(f, U) <= SumFunctionOnSet(g, U)
      BY <1>2 DEF U
    <2>8. f[x] \in Int /\ g[x] \in Int /\ f[x] <= g[x]
      OBVIOUS
    <2> QED BY <2>2, <2>3, <2>6, <2>7, <2>8 DEF U
  <1> HIDE DEF G
  <1>3. SUBSET S \subseteq G
    BY <1>1, <1>2, SetInduction
  <1> QED BY <1>3 DEF G

(* The sum of zeros is 0.                                                  *)
LEMMA SumZero ==
   ASSUME NEW S, IsFiniteSet(S), NEW f, \A x \in S : f[x] = 0
   PROVE SumFunctionOnSet(f, S) = 0
  <1> DEFINE G == {T \in SUBSET S : SumFunctionOnSet(f, T) = 0}
  <1>1. {} \in G
    BY SumNone
  <1>2. ASSUME NEW T \in SUBSET S, NEW x \in T, T \ {x} \in G PROVE T \in G
    <2>1. IsFiniteSet(T) /\ \A y \in T : f[y] \in Int
      BY FS_Subset
    <2>2. SumFunctionOnSet(f, T) = f[x] + SumFunctionOnSet(f, T \ {x})
      BY <2>1, SumAdd
    <2> QED BY <2>2, <1>2
  <1> HIDE DEF G
  <1>3. SUBSET S \subseteq G
    BY <1>1, <1>2, SetInduction
  <1> QED BY <1>3 DEF G

(* The sum of natural numbers is one.                                      *)
LEMMA SumNat ==
   ASSUME NEW S, IsFiniteSet(S), NEW f, \A x \in S : f[x] \in Nat
   PROVE SumFunctionOnSet(f, S) \in Nat
  <1> DEFINE z == [x \in S |-> 0]
  <1>1. \A x \in S : z[x] = 0
    OBVIOUS
  <1> HIDE DEF z
  <1>2. SumFunctionOnSet(z, S) = 0
    BY <1>1, SumZero
  <1>3. SumFunctionOnSet(z, S) <= SumFunctionOnSet(f, S)
    BY <1>1, SumBelow
  <1>3a. \A x \in S : f[x] \in Int
    OBVIOUS
  <1>4. SumFunctionOnSet(f, S) \in Int
    BY <1>3a, SumRec
  <1> QED BY <1>2, <1>3, <1>4

(* A sum is that over a part and that over the rest.                       *)
LEMMA SumSplit ==
   ASSUME NEW S, IsFiniteSet(S), NEW f, \A x \in S : f[x] \in Int, NEW R \in SUBSET S
   PROVE  /\ SumFunctionOnSet(f, S) = SumFunctionOnSet(f, R) + SumFunctionOnSet(f, S \ R)
          /\ SumFunctionOnSet(f, S) \in Int /\ SumFunctionOnSet(f, R) \in Int
                /\ SumFunctionOnSet(f, S \ R) \in Int
  <1> DEFINE G == {T \in SUBSET S : SumFunctionOnSet(f, S)
        = SumFunctionOnSet(f, T) + SumFunctionOnSet(f, S \ T)}
  <1>0. \A T \in SUBSET S : SumFunctionOnSet(f, T) \in Int
    BY FS_Subset, SumRec
  <1>1. {} \in G
    <2>1. S \ {} = S
      OBVIOUS
    <2>2. SumFunctionOnSet(f, S) = 0 + SumFunctionOnSet(f, S)
      BY <1>0
    <2> QED BY <2>1, <2>2, SumNone
  <1>2. ASSUME NEW T \in SUBSET S, NEW x \in T, T \ {x} \in G PROVE T \in G
    <2> DEFINE U == S \ (T \ {x})
    <2>1. /\ IsFiniteSet(T) /\ \A y \in T : f[y] \in Int
          /\ IsFiniteSet(U) /\ (\A y \in U : f[y] \in Int) /\ x \in U
      BY FS_Subset
    <2>4. U \ {x} = S \ T
      OBVIOUS
    <2>5. SumFunctionOnSet(f, S) = SumFunctionOnSet(f, T \ {x}) + SumFunctionOnSet(f, U)
      BY <1>2
    <2> HIDE DEF U
    <2>2. SumFunctionOnSet(f, T) = f[x] + SumFunctionOnSet(f, T \ {x})
      BY <2>1, SumAdd
    <2>3. SumFunctionOnSet(f, U) = f[x] + SumFunctionOnSet(f, U \ {x})
      BY <2>1, SumAdd
    <2>6. SumFunctionOnSet(f, U) = f[x] + SumFunctionOnSet(f, S \ T)
      BY <2>3, <2>4
    <2>7. SumFunctionOnSet(f, T \ {x}) \in Int /\ SumFunctionOnSet(f, S \ T) \in Int /\ f[x] \in Int
      BY <1>0
    <2>8. SumFunctionOnSet(f, S) = SumFunctionOnSet(f, T) + SumFunctionOnSet(f, S \ T)
      BY <2>2, <2>5, <2>6, <2>7
    <2> QED BY <2>8
  <1> HIDE DEF G
  <1>3. SUBSET S \subseteq G
    BY <1>1, <1>2, SetInduction
  <1> QED BY <1>3, <1>0 DEF G

(* A table of numbers with the sums of its rows and of its columns.        *)
Table(A, B, f, u, v) ==
   /\ IsFiniteSet(A) /\ IsFiniteSet(B)
   /\ \A a \in A : \A b \in B : f[a][b] \in Int
   /\ \A a \in A : u[a] = SumFunctionOnSet(f[a], B)
   /\ \A b \in B : v[b] = SumFunctionOnSet([a \in A |-> f[a][b]], A)

(* Both make the same total.                                               *)
LEMMA SumSwap ==
   ASSUME NEW A, NEW B, NEW f, NEW u, NEW v, Table(A, B, f, u, v)
   PROVE  SumFunctionOnSet(u, A) = SumFunctionOnSet(v, B)
  <1> USE DEF Table
  <1> DEFINE V(T) == [b \in B |-> SumFunctionOnSet([a \in A |-> f[a][b]], T)]
             G == {T \in SUBSET A : SumFunctionOnSet(u, T) = SumFunctionOnSet(V(T), B)}
  <1>0. \A a \in A : u[a] \in Int
    BY SumRec
  <1>1. {} \in G
    <2>1. \A b \in B : V({})[b] = 0
      BY SumNone
    <2> HIDE DEF V
    <2>2. SumFunctionOnSet(V({}), B) = 0
      BY <2>1, SumZero
    <2> QED BY <2>2, SumNone
  <1>2. ASSUME NEW T \in SUBSET A, NEW x \in T, T \ {x} \in G PROVE T \in G
    <2>1. IsFiniteSet(T) /\ IsFiniteSet(T \ {x}) /\ \A y \in T : u[y] \in Int
      BY <1>0, FS_Subset
    <2>2. SumFunctionOnSet(u, T) = u[x] + SumFunctionOnSet(u, T \ {x})
      BY <2>1, SumAdd
    <2>3. ASSUME NEW b \in B PROVE /\ f[x][b] \in Int /\ V(T \ {x})[b] \in Int
                                   /\ V(T)[b] = f[x][b] + V(T \ {x})[b]
      <3> DEFINE g == [a \in A |-> f[a][b]]
      <3>1. (\A y \in T : g[y] \in Int) /\ g[x] = f[x][b]
        OBVIOUS
      <3>2. V(T)[b] = SumFunctionOnSet(g, T) /\ V(T \ {x})[b] = SumFunctionOnSet(g, T \ {x})
        OBVIOUS
      <3> HIDE DEF g, V
      <3>3. SumFunctionOnSet(g, T) = g[x] + SumFunctionOnSet(g, T \ {x})
        BY <2>1, <3>1, SumAdd
      <3>4. SumFunctionOnSet(g, T \ {x}) \in Int
        BY <2>1, <3>1, SumSplit
      <3> QED BY <3>1, <3>2, <3>3, <3>4
    <2> HIDE DEF V
    <2>4. SumFunctionOnSet(V(T), B) = SumFunctionOnSet(f[x], B) + SumFunctionOnSet(V(T \ {x}), B)
      BY <2>3, SumOfTwo
    <2> QED BY <1>2, <2>2, <2>4
  <1>4. G \in SUBSET SUBSET A
     OBVIOUS
  <1> HIDE DEF G
  <1>3. SUBSET A \subseteq G
    BY <1>1, <1>2, SetInduction
  <1>5. SumFunctionOnSet(u, A) = SumFunctionOnSet(V(A), B)
    BY <1>3 DEF G
  <1>6. ASSUME NEW b \in B PROVE V(A)[b] = v[b] /\ V(A)[b] \in Int
    <2> DEFINE g == [a \in A |-> f[a][b]]
    <2>1. \A y \in A : g[y] \in Int
      OBVIOUS
    <2>2. V(A)[b] = SumFunctionOnSet(g, A) /\ v[b] = SumFunctionOnSet(g, A)
      OBVIOUS
    <2> HIDE DEF g, V
    <2>3. SumFunctionOnSet(g, A) \in Int
      BY <2>1, SumRec
    <2> QED BY <2>2, <2>3
  <1> HIDE DEF V
  <1>7. SumFunctionOnSet(V(A), B) = SumFunctionOnSet(v, B)
    BY <1>6, SumSame
  <1> QED BY <1>5, <1>7

(* Max and Min are elements, and what their names say.                     *)
LEMMA SetHasMax ==
  ASSUME NEW S \in SUBSET Int, IsFiniteSet(S), S # {}
  PROVE  /\ Max(S) \in S /\ \A y \in S : y <= Max(S)
         /\ Min(S) \in S /\ \A y \in S : Min(S) <= y
  <1> DEFINE G == {T \in SUBSET S : T # {} => /\ \E x \in T : \A y \in T : x >= y
                                              /\ \E x \in T : \A y \in T : x <= y}
  <1>1. {} \in G
    OBVIOUS
  <1>2. ASSUME NEW T \in SUBSET S, NEW x \in T, T \ {x} \in G PROVE T \in G
    <2>1. CASE T \ {x} = {}
      <3>1. \A y \in T : y = x /\ y \in Int
        BY <2>1
      <3> QED BY <3>1
    <2>2. CASE T \ {x} # {}
      <3>1. PICK a \in T \ {x} : \A y \in T \ {x} : a >= y
        BY <1>2, <2>2
      <3>2. PICK b \in T \ {x} : \A y \in T \ {x} : b <= y
        BY <1>2, <2>2
      <3>3. a \in Int /\ b \in Int /\ x \in Int /\ T \subseteq Int
        OBVIOUS
      <3>4. \E z \in T : \A y \in T : z >= y
        <4>1. CASE x >= a
          BY <3>1, <3>3, <4>1
        <4>2. CASE a >= x
          BY <3>1, <3>3, <4>2
        <4> QED BY <3>3, <4>1, <4>2
      <3>5. \E z \in T : \A y \in T : z <= y
        <4>1. CASE x <= b
          BY <3>2, <3>3, <4>1
        <4>2. CASE b <= x
          BY <3>2, <3>3, <4>2
        <4> QED BY <3>3, <4>1, <4>2
      <3> QED BY <3>4, <3>5
    <2> QED BY <2>1, <2>2
  <1> HIDE DEF G
  <1>3. S \in G
    BY <1>1, <1>2, SetInduction
  <1>4. (\E x \in S : \A y \in S : x >= y) /\ (\E x \in S : \A y \in S : x =< y)
    BY <1>3 DEF G
  <1>5. Max(S) \in S /\ \A y \in S : Max(S) >= y
    BY <1>4 DEF Max
  <1>6. Min(S) \in S /\ \A y \in S : Min(S) =< y
    BY <1>4 DEF Min
  <1> QED BY <1>5, <1>6

(* What division rounds to.                                                *)
LEMMA Quotient ==
  ASSUME NEW a \in Int, NEW b \in Nat \ {0}
  PROVE  a \div b \in Int /\ b * (a \div b) <= a /\ a < b * (a \div b) + b
  OBVIOUS

(* The ends of an interval.                                                *)
LEMMA MaxOf ==
  ASSUME NEW a \in Int, NEW b \in Int, a <= b
  PROVE Max(a .. b) = b /\ Min(a .. b) = a
  <1> DEFINE S == a .. b
  <1>1. IsFiniteSet(S)
    BY FS_Interval
  <1>2. S \in SUBSET Int /\ a \in S /\ b \in S /\ \A x \in S : a <= x /\ x <= b
    OBVIOUS
  <1> HIDE DEF S
  <1>3. /\ Max(S) \in S /\ \A y \in S : y <= Max(S)
        /\ Min(S) \in S /\ \A y \in S : Min(S) <= y
    BY <1>1, <1>2, SetHasMax
  <1>3a. Max(S) \in Int /\ Min(S) \in Int /\ Max(S) <= b /\ b <= Max(S) /\ Min(S) <= a /\ a <= Min(S)
    BY <1>2, <1>3
  <1>4. Max(S) = b /\ Min(S) = a
    BY <1>3a
  <1> QED BY <1>4 DEF S

(* A sum over a part is the sum over all of what is 0 elsewhere.           *)
LEMMA SumPart ==
  ASSUME NEW S, IsFiniteSet(S), NEW R \in SUBSET S, NEW f, NEW g,
         \A x \in R : f[x] \in Int /\ g[x] = f[x],
         \A x \in S \ R : g[x] = 0
  PROVE  SumFunctionOnSet(f, R) = SumFunctionOnSet(g, S)
  <1>1. IsFiniteSet(R) /\ IsFiniteSet(S \ R) /\ \A x \in S : g[x] \in Int
    BY FS_Subset, FS_Difference
  <1>2. SumFunctionOnSet(g, S) = SumFunctionOnSet(g, R) + SumFunctionOnSet(g, S \ R)
        /\ SumFunctionOnSet(g, R) \in Int
    BY <1>1, SumSplit
  <1> DEFINE Q == S \ R
  <1>3. IsFiniteSet(Q) /\ \A x \in Q : g[x] = 0
    BY <1>1
  <1> HIDE DEF Q
  <1>4. SumFunctionOnSet(g, Q) = 0
    BY <1>3, SumZero
  <1>5. SumFunctionOnSet(f, R) = SumFunctionOnSet(g, R)
    BY <1>1, SumSame
  <1> QED BY <1>2, <1>4, <1>5 DEF Q

(* The values of a function on a finite set are finitely many.             *)
LEMMA ImageFinite ==
  ASSUME NEW S, IsFiniteSet(S), NEW f, NEW T, T = {f[x] : x \in S}
  PROVE  IsFiniteSet(T)
  <1> DEFINE h == [x \in S |-> f[x]]
  <1>1. h \in Surjection(S, T)
    BY DEF Surjection
  <1> HIDE DEF h
  <1> QED BY <1>1, FS_Surjection

(* The lesser of two.                                                      *)
LEMMA PairMin ==
  ASSUME NEW a \in Int, NEW b \in Int
  PROVE  /\ Min({a, b}) \in {a, b} /\ Min({a, b}) <= a /\ Min({a, b}) <= b
  <1>1. \E x \in {a, b} : \A y \in {a, b} : x <= y
    BY DEF Min
  <1> QED BY <1>1 DEF Min

(* What holds of the empty set, and of a set when it does without any one  *)
(* of its elements, holds of every subset of a finite set.                 *)
LEMMA SetDescent ==
  ASSUME NEW S, IsFiniteSet(S), NEW G, {} \in G,
         \A T \in SUBSET S : T # {} /\ (\A x \in T : T \ {x} \in G) => T \in G
  PROVE  SUBSET S \subseteq G
  <1> DEFINE B == (SUBSET S) \ G
  <1> SUFFICES ASSUME B # {} PROVE FALSE
    OBVIOUS
  <1>1. B \in SUBSET SUBSET S
    OBVIOUS
  <1> HIDE DEF B
  <1>2. PICK T \in B : \A y \in B : y \subseteq T => y = T
    BY FewestOf, <1>1
  <1>3. T \in SUBSET S /\ T \notin G
    BY DEF B
  <1>4. ASSUME NEW x \in T PROVE T \ {x} \in G
    <2>1. T \ {x} \in SUBSET S /\ T \ {x} \subseteq T /\ T \ {x} # T
      BY <1>3
    <2> QED BY <1>2, <2>1 DEF B
  <1> QED BY <1>3, <1>4

(* What a fold over the set S is made of: the values V, the one for        *)
(* nothing, which element ch[s] of a set comes last, and what G makes of   *)
(* an element and of the value before it.                                  *)
FoldBy(S, V, base, ch, G) ==
    /\ IsFiniteSet(S) /\ base \in V /\ G \in [V \X S -> V]
    /\ \A s \in SUBSET S : s # {} => ch[s] \in s

(* F has the values of the fold, for each part of S.                       *)
FoldOf(F, S, V, base, ch, G) ==
    /\ F \in [SUBSET S -> V]
    /\ \A s \in SUBSET S : F[s] = IF s = {} THEN base ELSE G[<<F[s \ {ch[s]}], ch[s]>>]

(* There is such a function: a fold is a recursive function over the       *)
(* subsets.                                                                *)
LEMMA FoldExists ==
  ASSUME NEW S, NEW V, NEW base, NEW ch, NEW G, FoldBy(S, V, base, ch, G)
  PROVE  \E F : FoldOf(F, S, V, base, ch, G)
  <1>0. IsFiniteSet(S) /\ base \in V /\ G \in [V \X S -> V] /\ \A s \in SUBSET S : s # {} => ch[s] \in s
    BY DEF FoldBy
  <1> DEFINE D == SUBSET S
             B == {{}}
             b == [s \in B |-> base]
             m == [s \in D |-> Cardinality(s)]
             N == Cardinality(S) + 1
             H == [z \in D \X V |-> IF z[1] = {} THEN base ELSE G[<<z[2], ch[z[1]]>>]]
             p == [s \in D |-> IF s = {} THEN {} ELSE s \ {ch[s]}]
  <1>1. /\ B \subseteq D /\ b \in [B -> V] /\ N \in Nat /\ V # {}
    BY <1>0, FS_CardinalityType
  <1>3. ASSUME NEW s \in D PROVE IsFiniteSet(s) /\ Cardinality(s) \in Nat
        /\ Cardinality(s) <= Cardinality(S)
    BY <1>0, FS_Subset, FS_CardinalityType
  <1>4. m \in [D -> Nat] /\ \A d \in D : m[d] < N
    BY <1>0, <1>3, FS_CardinalityType
  <1>5. ASSUME NEW s \in D, s # {} PROVE ch[s] \in s /\ ch[s] \in S
    BY <1>0, <1>5
  <1>6. H \in [D \X V -> V]
    <2>1. ASSUME NEW s \in D, NEW v \in V PROVE (IF s = {} THEN base ELSE G[<<v, ch[s]>>]) \in V
      BY <1>0, <1>5
    <2> HIDE DEF D
    <2> QED BY <2>1
  <1>7. p \in [D -> D]
    OBVIOUS
  <1>8. ASSUME NEW s \in D \ B PROVE m[p[s]] < m[s]
    <2>1. ch[s] \in s /\ IsFiniteSet(s) /\ s # {}
      BY <1>3, <1>5
    <2>2. Cardinality(s \ {ch[s]}) = Cardinality(s) - 1
      BY <2>1, FS_RemoveElement
    <2>3. m[s] = Cardinality(s) /\ m[p[s]] = Cardinality(s \ {ch[s]})
      BY <2>1
    <2> QED BY <1>3, <2>2, <2>3
  <1> HIDE DEF D, B, b, m, N, H, p
  <1>9. Descends(D, V, B, b, m, N, H, p)
    BY <1>1, <1>4, <1>6, <1>7, <1>8 DEF Descends
  <1>10. PICK F : Solves(F, D, V, B, b, H, p)
    BY <1>9, Recursion
  <1>11. F \in [D -> V]
    BY <1>10 DEF Solves
  <1>12. ASSUME NEW s \in D PROVE F[s] = IF s = {} THEN base ELSE G[<<F[s \ {ch[s]}], ch[s]>>]
    <2>1. F[s] = IF s \in B THEN b[s] ELSE H[<<s, F[p[s]]>>]
      BY <1>10 DEF Solves
    <2>2. CASE s = {}
      BY <2>1, <2>2 DEF B, b
    <2>3. CASE s # {}
      <3>1. p[s] = s \ {ch[s]} /\ p[s] \in D /\ F[p[s]] \in V
        BY <1>7, <1>11, <2>3 DEF p
      <3>2. F[s] = H[<<s, F[p[s]]>>]
        BY <2>1, <2>3 DEF B
      <3>3. H[<<s, F[p[s]]>>] = G[<<F[p[s]], ch[s]>>]
        BY <2>3, <3>1 DEF H
      <3> QED BY <2>3, <3>1, <3>2, <3>3
    <2> QED BY <2>2, <2>3
  <1> QED BY <1>11, <1>12 DEF D, FoldOf

(* The greatest of some numbers up to n is one of them.                    *)
LEMMA MaxAmong ==
  ASSUME NEW n \in Nat, NEW s \in SUBSET (1 .. n), s # {}
  PROVE Max(s) \in s
  <1>1. IsFiniteSet(1 .. n) /\ s \in SUBSET Int
    BY FS_Interval
  <1>2. IsFiniteSet(s)
    BY <1>1, FS_Subset
  <1> QED BY <1>1, <1>2, SetHasMax

(* 1 .. k without its greatest is 1 .. k - 1.                              *)
LEMMA PrefixLess ==
  ASSUME NEW n \in Nat, NEW k \in 1 .. n
  PROVE  /\ 1 .. k \in SUBSET (1 .. n) /\ 1 .. k # {}
         /\ Max(1 .. k) = k /\ (1 .. k) \ {k} = 1 .. (k - 1) /\ 1 .. (k - 1) \in SUBSET (1 .. n)
  <1>1. Max(1 .. k) = k
    BY MaxOf
  <1> QED BY <1>1

(* The same for a loop over 1 .. n, which takes the numbers in their       *)
(* order.                                                                  *)
LoopBy(n, V, base, G) == n \in Nat /\ base \in V /\ G \in [V \X (1 .. n) -> V]

(* F has the values of the loop.                                           *)
LoopOf(F, n, V, base, G) ==
    /\ F \in [SUBSET (1 .. n) -> V]
    /\ \A s \in SUBSET (1 .. n) : F[s] = IF s = {} THEN base ELSE G[<<F[s \ {Max(s)}], Max(s)>>]

(* There is such a function.                                               *)
LEMMA LoopExists ==
  ASSUME NEW n, NEW V, NEW base, NEW G, LoopBy(n, V, base, G)
  PROVE  \E F : LoopOf(F, n, V, base, G)
  <1> DEFINE S == 1 .. n
             ch == [s \in SUBSET S |-> Max(s)]
  <1>1. n \in Nat /\ base \in V /\ G \in [V \X S -> V]
    BY DEF LoopBy
  <1>2. IsFiniteSet(S)
    BY <1>1, FS_Interval
  <1>3. \A s \in SUBSET S : s # {} => ch[s] \in s
    BY <1>1, MaxAmong
  <1> HIDE DEF ch
  <1>4. FoldBy(S, V, base, ch, G)
    BY <1>1, <1>2, <1>3 DEF FoldBy
  <1>5. PICK F : FoldOf(F, S, V, base, ch, G)
    BY <1>4, FoldExists
  <1>6. \A s \in SUBSET S : ch[s] = Max(s)
    BY DEF ch
  <1>7. LoopOf(F, n, V, base, G)
    BY <1>5, <1>6 DEF FoldOf, LoopOf
  <1> QED BY <1>7

(* A number is a multiple of L and a remainder in one way only.            *)
LEMMA SplitOnce ==
  ASSUME NEW d \in Int, NEW r \in Int, NEW e \in Int, NEW q \in Int, NEW L \in Nat \ {0},
         0 <= r, r < L, 0 <= q, q < L, d * L + r = e * L + q
  PROVE  d = e /\ r = q
  <1>1. CASE d < e
    <2>1. d * L + L <= e * L
      <3>1. (d + 1) * L <= e * L
         BY <1>1
      <3> QED BY <3>1
    <2>2. d * L \in Int /\ e * L \in Int
      OBVIOUS
    <2> HIDE <1>1
    <2> QED BY <2>1, <2>2
  <1>2. CASE e < d
    <2>1. e * L + L <= d * L
      <3>1. (e + 1) * L <= d * L
         BY <1>2
      <3> QED BY <3>1
    <2>2. d * L \in Int /\ e * L \in Int
      OBVIOUS
    <2> QED BY <2>1, <2>2
  <1>3. CASE d = e
    OBVIOUS
  <1> QED BY <1>1, <1>2, <1>3

(* Hence division and remainder give back what a number is made of.        *)
LEMMA Divided ==
  ASSUME NEW d \in Int, NEW r \in Int, NEW L \in Nat \ {0}, 0 <= r, r < L
  PROVE  (d * L + r) \div L = d /\ (d * L + r) % L = r
  <1> DEFINE t == d * L + r
             e == t \div L
             q == t % L
  <1>1. t \in Int
    OBVIOUS
  <1> HIDE DEF t
  <1>2. t = e * L + q /\ e \in Int /\ q \in 0 .. L - 1
    BY <1>1
  <1> HIDE DEF e, q
  <1>3. d = e /\ r = q
    BY <1>2, SplitOnce DEF t
  <1> QED BY <1>3 DEF e, q, t

-----------------------------------------------------------------------------
(* Queue slots: how far requests that overlap can take them past the       *)
(* plan's limit, and how often a key can be held.                          *)

(* Requests that have been told there is room.                             *)
Admitted == {e \in Editors : epc[e] \in {"counted", "free"} /\ erow[e] = NoRow}

(* Those that have been told key k is free, and do not edit a row of T.    *)
Cleared(k, T) == {e \in Editors : epc[e] = "free" /\ ekey[e] = k /\ erow[e] \notin T}

(* Who was told of room was told so while there was some, and is one of    *)
(* the requests.                                                           *)
RoomKept ==
    \/ Cardinality(Slots) + Cardinality(Admitted)
         <= MaxSlots + Cardinality(Editors) - 1
    \/ Slots = {} /\ Admitted = {}

(* Who was told a key is free was told so while nobody held it but, at     *)
(* most, the row he edits.  The sum must hold for some of the holders as   *)
(* well as for all: when a row is moved to another key, the requests that  *)
(* want it where it was count again.                                       *)
KeyKept ==
    \A k \in Keys : \A T \in SUBSET Twins(k) :
        Cardinality(T) + Cardinality(Cleared(k, T)) <= Cardinality(Editors)

SlotsInv ==
    /\ SlotsTypeOK
    /\ \A e \in Editors : epc[e] \in {"counted", "free"} => ekey[e] \in Keys
    /\ \A e \in Editors : epc[e] \in {"idle", "counted"} => erow[e] = NoRow
    /\ RoomKept
    /\ KeyKept

LEMMA Finite ==
    /\ IsFiniteSet(Slots) /\ IsFiniteSet(Admitted)
    /\ \A k : IsFiniteSet(Twins(k))
    /\ \A k, T : IsFiniteSet(Cleared(k, T))
  BY QueueSlotsAssumption, FS_Subset DEF Slots, Admitted, Twins, Cleared

(* When the rows are a subset and fewer requests are cleared, the sum      *)
(* stays below its bound.                                                  *)
LEMMA Fewer ==
    ASSUME NEW S, IsFiniteSet(S), NEW R \in SUBSET S
    PROVE  /\ IsFiniteSet(R) /\ Cardinality(R) \in Nat /\ Cardinality(S) \in Nat
           /\ Cardinality(R) <= Cardinality(S)
           /\ \A x \in S : x \notin R => Cardinality(R) <= Cardinality(S) - 1
  <1>1. IsFiniteSet(R) /\ Cardinality(R) <= Cardinality(S)
    BY FS_Subset
  <1>2. Cardinality(R) \in Nat /\ Cardinality(S) \in Nat
    BY <1>1, FS_CardinalityType
  <1>3. ASSUME NEW x \in S, x \notin R PROVE Cardinality(R) <= Cardinality(S) - 1
    <2>1. IsFiniteSet(R \cup {x}) /\ Cardinality(R \cup {x}) = Cardinality(R) + 1
      BY <1>1, <1>3, FS_AddElement
    <2>2. R \cup {x} \in SUBSET S
      BY <1>3
    <2>3. Cardinality(R \cup {x}) <= Cardinality(S)
      BY <2>2, FS_Subset
    <2> QED BY <1>2, <2>1, <2>3
  <1> QED BY <1>1, <1>2, <1>3

LEMMA Bounded == SlotsInv => SlotsBounded
  <1> SUFFICES ASSUME SlotsInv PROVE SlotsBounded
    OBVIOUS
  <1>1. /\ Cardinality(Slots) \in Nat /\ Cardinality(Admitted) \in Nat
        /\ Cardinality(Editors) \in Nat
    BY Finite, QueueSlotsAssumption, FS_CardinalityType
  <1>2. \/ Cardinality(Slots) <= MaxSlots + Cardinality(Editors) - 1
        \/ Slots = {}
    BY <1>1, QueueSlotsAssumption DEF SlotsInv, RoomKept
  <1>3. ASSUME NEW k \in Keys PROVE Cardinality(Twins(k)) <= Cardinality(Editors)
    <2>1. Cardinality(Twins(k)) + Cardinality(Cleared(k, Twins(k))) <= Cardinality(Editors)
      BY DEF SlotsInv, KeyKept
    <2>2. Cardinality(Twins(k)) \in Nat /\ Cardinality(Cleared(k, Twins(k))) \in Nat
      BY Finite, FS_CardinalityType
    <2> QED BY <1>1, <2>1, <2>2
  <1> QED BY <1>2, <1>3 DEF SlotsBounded

LEMMA SlotsStart == SlotsInit => SlotsInv
  <1> SUFFICES ASSUME SlotsInit PROVE SlotsInv
    OBVIOUS
  <1>1. SlotsTypeOK
    BY DEF SlotsInit, SlotsTypeOK
  <1>2. RoomKept
    BY DEF SlotsInit, RoomKept, Slots, Admitted
  <1>3. ASSUME NEW k \in Keys, NEW T \in SUBSET Twins(k)
        PROVE  Cardinality(T) + Cardinality(Cleared(k, T)) <= Cardinality(Editors)
    <2>1. T = {} /\ Cleared(k, T) = {}
      BY QueueSlotsAssumption DEF SlotsInit, Twins, Cleared
    <2>2. Cardinality(Editors) \in Nat
      BY QueueSlotsAssumption, FS_CardinalityType
    <2> QED BY <2>1, <2>2, FS_EmptySet
  <1> QED BY <1>1, <1>2, <1>3 DEF SlotsInit, SlotsInv, KeyKept

(* A step that admits nobody and adds no row keeps the room; one that      *)
(* clears nobody and adds no holder keeps the key.                         *)
LEMMA RoomStays ==
    ASSUME SlotsInv, Slots' \subseteq Slots, Admitted' \subseteq Admitted
    PROVE  RoomKept'
  <1>1. /\ Cardinality(Slots') <= Cardinality(Slots)
        /\ Cardinality(Admitted') <= Cardinality(Admitted)
        /\ Cardinality(Slots) \in Nat /\ Cardinality(Admitted) \in Nat
        /\ Cardinality(Slots') \in Nat /\ Cardinality(Admitted') \in Nat
        /\ Cardinality(Editors) \in Nat
    BY Finite, Fewer, QueueSlotsAssumption, FS_CardinalityType
  <1>2. CASE Slots = {} /\ Admitted = {}
    BY <1>2 DEF RoomKept
  <1>3. CASE Cardinality(Slots) + Cardinality(Admitted) <= MaxSlots + Cardinality(Editors) - 1
    BY <1>1, <1>3, QueueSlotsAssumption DEF RoomKept
  <1> QED BY <1>2, <1>3 DEF SlotsInv, RoomKept

LEMMA KeyStays ==
    ASSUME SlotsInv, NEW k \in Keys, NEW T \in SUBSET Twins(k),
           Cleared(k, T)' \subseteq Cleared(k, T)
    PROVE  Cardinality(T) + Cardinality(Cleared(k, T)') <= Cardinality(Editors)
  <1>1. Cardinality(T) + Cardinality(Cleared(k, T)) <= Cardinality(Editors)
    BY DEF SlotsInv, KeyKept
  <1>2. /\ Cardinality(Cleared(k, T)') <= Cardinality(Cleared(k, T))
        /\ Cardinality(Cleared(k, T)) \in Nat /\ Cardinality(Cleared(k, T)') \in Nat
        /\ Cardinality(T) \in Nat /\ Cardinality(Editors) \in Nat
    BY Finite, Fewer, QueueSlotsAssumption, FS_CardinalityType
  <1> QED BY <1>1, <1>2

(* A row that comes to a key takes the place of the request that brings    *)
(* it.                                                                     *)
LEMMA KeyTaken ==
    ASSUME SlotsInv, NEW k \in Keys, NEW r \in Rows, NEW e \in Editors,
           NEW T \in SUBSET Twins(k), r \notin T,
           e \in Cleared(k, T), NEW C \in SUBSET Cleared(k, T), e \notin C
    PROVE  Cardinality(T \cup {r}) + Cardinality(C) <= Cardinality(Editors)
  <1>1. Cardinality(T) + Cardinality(Cleared(k, T)) <= Cardinality(Editors)
    BY DEF SlotsInv, KeyKept
  <1>2. IsFiniteSet(T) /\ Cardinality(T \cup {r}) = Cardinality(T) + 1
    BY Finite, FS_Subset, FS_AddElement
  <1>3. /\ Cardinality(C) <= Cardinality(Cleared(k, T)) - 1
        /\ Cardinality(C) \in Nat /\ Cardinality(Cleared(k, T)) \in Nat
    BY Finite, Fewer
  <1>4. Cardinality(T) \in Nat /\ Cardinality(Editors) \in Nat
    BY <1>2, QueueSlotsAssumption, FS_CardinalityType
  <1> QED BY <1>1, <1>2, <1>3, <1>4

(* While nobody holds a key all requests may want it.                      *)
LEMMA KeyFree ==
    ASSUME NEW T, NEW C \in SUBSET Editors, T = {}
    PROVE  Cardinality(T) + Cardinality(C) <= Cardinality(Editors)
  <1>1. /\ Cardinality(C) <= Cardinality(Editors) /\ Cardinality(C) \in Nat
        /\ Cardinality(Editors) \in Nat
    BY Fewer, QueueSlotsAssumption
  <1>2. Cardinality(T) = 0
    BY FS_EmptySet
  <1> QED BY <1>1, <1>2

LEMMA SlotsStep == SlotsInv /\ [SlotsNext]_slotVars => SlotsInv'
  <1> SUFFICES ASSUME SlotsInv, [SlotsNext]_slotVars PROVE SlotsInv'
    OBVIOUS
  <1> USE DEF Return
  <1> DEFINE Shape == /\ SlotsTypeOK
                      /\ \A e \in Editors : epc[e] \in {"counted", "free"} => ekey[e] \in Keys
                      /\ \A e \in Editors : epc[e] \in {"idle", "counted"} => erow[e] = NoRow
  <1>0. Shape
    BY DEF SlotsInv
  <1>1. ASSUME NEW e \in Editors, NEW k \in Keys, CountSlots(e, k) PROVE SlotsInv'
    <2>1. Shape'
      BY <1>0, <1>1 DEF CountSlots, SlotsTypeOK
    <2>2. KeyKept'
      <3>1. \A j, T : Cleared(j, T)' \subseteq Cleared(j, T)
        BY <1>0, <1>1 DEF CountSlots, SlotsTypeOK, Cleared
      <3>2. \A j : Twins(j)' = Twins(j)
        BY <1>1 DEF CountSlots, Twins
      <3> QED BY <3>1, <3>2, KeyStays DEF KeyKept
    <2>3. CASE Full
      <3>1. Slots' \subseteq Slots /\ Admitted' \subseteq Admitted
        BY <1>0, <1>1, <2>3 DEF CountSlots, SlotsTypeOK, Slots, Admitted
      <3> QED BY <2>1, <2>2, <3>1, RoomStays DEF SlotsInv
    <2>4. CASE ~Full
      <3>1. Slots' = Slots /\ Admitted' \in SUBSET Editors
        BY <1>1 DEF CountSlots, Slots, Admitted
      <3>2. /\ Cardinality(Admitted') <= Cardinality(Editors)
            /\ Cardinality(Admitted') \in Nat /\ Cardinality(Editors) \in Nat
            /\ Cardinality(Slots) \in Nat
        BY <3>1, Finite, Fewer, QueueSlotsAssumption, FS_CardinalityType
      <3>3. Cardinality(Slots) <= MaxSlots - 1
        BY <2>4, <3>2, QueueSlotsAssumption DEF Full
      <3>4. RoomKept'
        BY <3>1, <3>2, <3>3, QueueSlotsAssumption DEF RoomKept
      <3> QED BY <2>1, <2>2, <3>4 DEF SlotsInv
    <2> QED BY <2>3, <2>4
  <1>2. ASSUME NEW e \in Editors, SeekTwin(e) PROVE SlotsInv'
    <2>1. Shape'
      BY <1>0, <1>2 DEF SeekTwin, SlotsTypeOK
    <2>2. Slots' \subseteq Slots /\ Admitted' \subseteq Admitted
      BY <1>0, <1>2 DEF SeekTwin, SlotsTypeOK, Slots, Admitted
    <2>3. ASSUME NEW k \in Keys, NEW T \in SUBSET Twins(k)'
          PROVE  Cardinality(T) + Cardinality(Cleared(k, T)') <= Cardinality(Editors)
      <3>1. Twins(k)' = Twins(k)
        BY <1>2 DEF SeekTwin, Twins
      <3>2. CASE Cleared(k, T)' \subseteq Cleared(k, T)
        BY <3>1, <3>2, KeyStays
      <3>3. CASE ~(Cleared(k, T)' \subseteq Cleared(k, T))
        <4>1. Twins(k) = {}
          BY <1>0, <1>2, <3>3 DEF SeekTwin, SlotsTypeOK, Cleared
        <4>2. T = {} /\ Cleared(k, T)' \in SUBSET Editors
          BY <3>1, <4>1 DEF Cleared
        <4> QED BY <4>2, KeyFree
      <3> QED BY <3>2, <3>3
    <2> QED BY <2>1, <2>2, <2>3, RoomStays DEF SlotsInv, KeyKept
  <1>3. ASSUME NEW e \in Editors, InsertSlot(e) PROVE SlotsInv'
    <2>1. PICK r \in Rows \ Slots : key' = [key EXCEPT ![r] = ekey[e]]
      BY <1>3 DEF InsertSlot
    <2>2. epc[e] = "free" /\ erow[e] = NoRow /\ Return(e) /\ ekey[e] \in Keys /\ ekey[e] # NoKey
      BY <1>3, <1>0, QueueSlotsAssumption DEF InsertSlot
    <2>3. Shape'
      BY <1>0, <2>1, <2>2 DEF SlotsTypeOK
    <2>4. RoomKept'
      <3>1. Slots' = Slots \cup {r}
        BY <1>0, <2>1, <2>2 DEF SlotsTypeOK, Slots
      <3>2. Admitted' = Admitted \ {e} /\ e \in Admitted
        BY <1>0, <2>2 DEF SlotsTypeOK, Admitted
      <3>3. Cardinality(Slots \cup {r}) = Cardinality(Slots) + 1
        BY <2>1, Finite, FS_AddElement
      <3>4. Cardinality(Admitted \ {e}) = Cardinality(Admitted) - 1
        BY <3>2, Finite, FS_RemoveElement
      <3>5. /\ Cardinality(Slots) \in Nat /\ Cardinality(Admitted) \in Nat
            /\ Cardinality(Editors) \in Nat
        BY Finite, QueueSlotsAssumption, FS_CardinalityType
      <3>6. Cardinality(Slots) + Cardinality(Admitted) <= MaxSlots + Cardinality(Editors) - 1
        BY <3>2 DEF SlotsInv, RoomKept
      <3> QED BY <3>1, <3>2, <3>3, <3>4, <3>5, <3>6, QueueSlotsAssumption DEF RoomKept
    <2>5. ASSUME NEW k \in Keys, NEW T \in SUBSET Twins(k)'
          PROVE  Cardinality(T) + Cardinality(Cleared(k, T)') <= Cardinality(Editors)
      <3>1. \A S : Cleared(k, S)' \subseteq Cleared(k, S) /\ e \notin Cleared(k, S)'
        BY <1>0, <2>2 DEF SlotsTypeOK, Cleared
      <3>2. CASE r \notin T
        <4>1. T \in SUBSET Twins(k)
          BY <1>0, <2>1, <3>2 DEF SlotsTypeOK, Twins
        <4> QED BY <3>1, <4>1, KeyStays
      <3>3. CASE r \in T
        <4> DEFINE S == T \ {r}
        <4>1. k = ekey[e] /\ S \in SUBSET Twins(k)
          BY <1>0, <2>1, <3>3 DEF SlotsTypeOK, Twins
        <4>2. e \in Cleared(k, S)
          BY <2>2, <4>1, QueueSlotsAssumption DEF Cleared, Twins
        <4>3. Cleared(k, T)' \in SUBSET Cleared(k, S)
          BY <1>0, <2>2 DEF SlotsTypeOK, Cleared
        <4>4. S \cup {r} = T
          BY <3>3
        <4> HIDE DEF S
        <4>5. r \notin S
          BY DEF S
        <4> QED BY <3>1, <4>1, <4>2, <4>3, <4>4, <4>5, KeyTaken
      <3> QED BY <3>2, <3>3
    <2> QED BY <2>3, <2>4, <2>5 DEF SlotsInv, KeyKept
  <1>4. ASSUME NEW e \in Editors, NEW r \in Rows, NEW k \in Keys, SeekOther(e, r, k)
        PROVE  SlotsInv'
    <2>1. Shape'
      BY <1>0, <1>4 DEF SeekOther, SlotsTypeOK
    <2>2. Slots' \subseteq Slots /\ Admitted' \subseteq Admitted
      BY <1>0, <1>4, QueueSlotsAssumption DEF SeekOther, SlotsTypeOK, Slots, Admitted
    <2>3. ASSUME NEW j \in Keys, NEW T \in SUBSET Twins(j)'
          PROVE  Cardinality(T) + Cardinality(Cleared(j, T)') <= Cardinality(Editors)
      <3>1. Twins(j)' = Twins(j)
        BY <1>4 DEF SeekOther, Twins
      <3>2. CASE Cleared(j, T)' \subseteq Cleared(j, T)
        BY <3>1, <3>2, KeyStays
      <3>3. CASE ~(Cleared(j, T)' \subseteq Cleared(j, T))
        <4>1. j = k /\ Twins(k) \subseteq {r} /\ r \notin T
          BY <1>0, <1>4, <3>3 DEF SeekOther, SlotsTypeOK, Cleared
        <4>2. T = {} /\ Cleared(j, T)' \in SUBSET Editors
          BY <3>1, <4>1 DEF Cleared
        <4> QED BY <4>2, KeyFree
      <3> QED BY <3>2, <3>3
    <2> QED BY <2>1, <2>2, <2>3, RoomStays DEF SlotsInv, KeyKept
  <1>5. ASSUME NEW e \in Editors, WriteSlot(e) PROVE SlotsInv'
    <2> DEFINE r == erow[e]
    <2>1. epc[e] = "free" /\ r # NoRow /\ r \in Rows /\ ekey[e] \in Keys /\ ekey[e] # NoKey
      BY <1>0, <1>5, QueueSlotsAssumption DEF WriteSlot, SlotsTypeOK
    <2>2. Shape'
      BY <1>0, <1>5, <2>1 DEF WriteSlot, SlotsTypeOK
    <2>3. Slots' \subseteq Slots /\ Admitted' \subseteq Admitted
      BY <1>0, <1>5, <2>1 DEF WriteSlot, SlotsTypeOK, Slots, Admitted
    <2>4. ASSUME NEW k \in Keys, NEW T \in SUBSET Twins(k)'
          PROVE  Cardinality(T) + Cardinality(Cleared(k, T)') <= Cardinality(Editors)
      <3>1. \A S : Cleared(k, S)' \subseteq Cleared(k, S) /\ e \notin Cleared(k, S)'
        BY <1>0, <1>5 DEF WriteSlot, SlotsTypeOK, Cleared
      <3>2. CASE T \in SUBSET Twins(k)
        BY <3>1, <3>2, KeyStays
      <3>3. CASE T \notin SUBSET Twins(k)
        <4> DEFINE S == T \ {r}
        <4>1. r \in T /\ k = ekey[e] /\ S \in SUBSET Twins(k)
          BY <1>0, <1>5, <2>1, <3>3 DEF WriteSlot, SlotsTypeOK, Twins
        <4>2. e \in Cleared(k, S)
          BY <2>1, <4>1 DEF Cleared
        <4>3. Cleared(k, T)' \in SUBSET Cleared(k, S)
          BY <1>0, <1>5 DEF WriteSlot, SlotsTypeOK, Cleared
        <4>4. S \cup {r} = T /\ r \notin S
          BY <4>1
        <4> HIDE DEF S, r
        <4> QED BY <2>1, <3>1, <4>1, <4>2, <4>3, <4>4, KeyTaken
      <3> QED BY <3>2, <3>3
    <2> QED BY <2>2, <2>3, <2>4, RoomStays DEF SlotsInv, KeyKept
  <1>6. ASSUME NEW e \in Editors, NEW r \in Rows, DropSlot(e, r) PROVE SlotsInv'
    <2>1. Shape'
      BY <1>0, <1>6 DEF DropSlot, SlotsTypeOK
    <2>2. Slots' \subseteq Slots /\ Admitted' \subseteq Admitted
      BY <1>0, <1>6 DEF DropSlot, SlotsTypeOK, Slots, Admitted
    <2>3. \A k \in Keys : Twins(k)' \subseteq Twins(k)
      BY <1>0, <1>6, QueueSlotsAssumption DEF DropSlot, SlotsTypeOK, Twins
    <2>4. \A k, T : Cleared(k, T)' \subseteq Cleared(k, T)
      BY <1>0, <1>6 DEF DropSlot, SlotsTypeOK, Cleared
    <2>5. ASSUME NEW k \in Keys, NEW T \in SUBSET Twins(k)'
          PROVE  Cardinality(T) + Cardinality(Cleared(k, T)') <= Cardinality(Editors)
      BY <2>3, <2>4, KeyStays
    <2> QED BY <2>1, <2>2, <2>5, RoomStays DEF SlotsInv, KeyKept
  <1>7. ASSUME NEW e \in Editors, Rebuild(e) PROVE SlotsInv'
    <2>1. Shape' /\ Slots' \subseteq Slots /\ Admitted' \subseteq Admitted
      BY <1>0, <1>7 DEF Rebuild, SlotsTypeOK, Slots, Admitted
    <2>2. \A k, T : Twins(k)' = Twins(k) /\ Cleared(k, T)' \subseteq Cleared(k, T)
      BY <1>0, <1>7 DEF Rebuild, SlotsTypeOK, Twins, Cleared
    <2>3. ASSUME NEW k \in Keys, NEW T \in SUBSET Twins(k)'
          PROVE  Cardinality(T) + Cardinality(Cleared(k, T)') <= Cardinality(Editors)
      BY <2>2, KeyStays
    <2> QED BY <2>1, <2>3, RoomStays DEF SlotsInv, KeyKept
  <1>8. CASE UNCHANGED slotVars
    BY <1>8 DEF slotVars, SlotsInv, SlotsTypeOK, RoomKept, KeyKept, Slots, Admitted, Twins, Cleared
  <1> QED BY <1>1, <1>2, <1>3, <1>4, <1>5, <1>6, <1>7, <1>8 DEF SlotsNext, EditorSteps

(* The plan's limit is passed by less than the number of requests, and a   *)
(* key is held by no more rows than there are requests: for every limit    *)
(* and any number of requests, rows and keys.                              *)
THEOREM SlotsAreBounded == SlotsSpec => []SlotsBounded
  BY Bounded, SlotsStart, SlotsStep, PTL DEF SlotsSpec

-----------------------------------------------------------------------------
(* Threads scheduled in bulk. *)

(* A request that is about to add a job has dated its post.                *)
Dated ==
    \A h \in Authors : hpc[h] = "sync" /\ hdate[h] # 0 => hpost[h] \in {0} \cup touched

ThreadsInv == ThreadsTypeOK /\ ThreadKept /\ Dated

LEMMA ThreadsStart == ThreadsInit => ThreadsInv
  <1> SUFFICES ASSUME ThreadsInit PROVE ThreadsInv
    OBVIOUS
  <1>1. 0 \in Chain /\ 0 \in MaybeDate
    BY PostThreadsAssumption DEF PostThreadsAssumption, Chain, MaybeDate
  <1>2. Live = {}
    BY DEF ThreadsInit, Live
  <1>3. ThreadKept
    BY <1>1, <1>2 DEF ThreadsInit, ThreadKept, OneJobPerThread, ThreadWhole
  <1> QED BY <1>1, <1>3 DEF ThreadsInit, ThreadsInv, ThreadsTypeOK, Dated

LEMMA ThreadsStep == ThreadsInv /\ [ThreadsNext]_threadVars => ThreadsInv'
  <1> SUFFICES ASSUME ThreadsInv, [ThreadsNext]_threadVars PROVE ThreadsInv'
    OBVIOUS
  <1>0. /\ Chain = 0 .. LastPost /\ LastPost \in Nat /\ 0 \in Chain
        /\ 0 \in MaybeDate /\ MaybeDate \subseteq Nat
        /\ LastPost > 0 => 1 \in Chain
    BY PostThreadsAssumption DEF PostThreadsAssumption, Chain, MaybeDate
  <1> USE DEF ThreadsInv, ThreadsTypeOK, ThreadKept, OneJobPerThread, Dated, rows, requests
  <1>1. ASSUME Live' = Live, UNCHANGED <<rows, touched>>, ThreadsTypeOK', Dated',
               tjob' \subseteq {0} \cup touched'
        PROVE  ThreadsInv'
    BY <1>1 DEF ThreadWhole
  <1>2. ASSUME NEW d \in MaybeDate, CreateThread(d) PROVE ThreadsInv'
    <2>1. ThreadsTypeOK' /\ Dated'
      BY <1>2 DEF CreateThread, StatusOf
    <2>2. Live' = Chain
      BY <1>2 DEF CreateThread, StatusOf, Live
    <2>3. ThreadWhole'
      BY <1>0, <1>2, <2>2 DEF CreateThread, ThreadWhole
    <2> QED BY <1>2, <2>1, <2>3 DEF CreateThread
  <1>3. ASSUME AddJob \/ JobLost PROVE ThreadsInv'
    BY <1>0, <1>1, <1>3 DEF AddJob, JobLost, Live
  <1>4. ASSUME NEW p \in Chain, RunJob(p) PROVE ThreadsInv'
    <2>1. ThreadsTypeOK' /\ Dated'
      BY <1>4 DEF RunJob
    <2>2. Live' = Live
      BY <1>4 DEF RunJob, Live
    <2>3. ThreadWhole'
      BY <1>0, <1>4, <2>2 DEF RunJob, ThreadWhole
    <2> QED BY <1>4, <2>1, <2>3 DEF RunJob
  <1>5. ASSUME NEW h \in Authors, AuthorSteps(h) PROVE ThreadsInv'
    <2>1. ASSUME NEW p \in Chain, NEW d \in MaybeDate, ReadPost(h, p, d) PROVE ThreadsInv'
      BY <1>1, <2>1 DEF ReadPost, Move, Live
    <2>2. CASE CommitPost(h)
      <3>1. CASE hpost[h] \in Live
        <4>1. PICK p \in Live, d \in MaybeDate :
                 /\ p = hpost[h] /\ d = hdate[h]
                 /\ tstatus' = [tstatus EXCEPT ![p] = StatusOf(d)]
                 /\ tdate' = [q \in Chain |->
                       IF q \in {p} \cup (IF d # 0 /\ p = 0 THEN Children(p) ELSE {})
                       THEN d ELSE tdate[q]]
                 /\ touched' = touched \cup (IF d = 0 \/ p = 0 THEN {} ELSE {p})
                 /\ Move(h, "sync") /\ UNCHANGED <<hpost, hdate, hids, tjob, adding>>
          BY <2>2, <3>1 DEF CommitPost
        <4>2. p \in Chain
          BY DEF Live
        <4>3. ThreadsTypeOK'
          BY <4>1, <4>2 DEF StatusOf, Move
        <4>4. Dated'
          BY <4>1, <4>2 DEF Move
        <4>5. Live' = Live
          BY <4>1, <4>2 DEF StatusOf, Live
        <4>6. ThreadWhole'
          <5>1. ASSUME LastPost > 0, tstatus'[0] = "SCHEDULED", tstatus'[1] = "SCHEDULED",
                       1 \notin touched'
                PROVE  tdate'[1] = tdate'[0]
            <6>1. CASE p = 0
              <7>1. d # 0 /\ 1 \in Children(p)
                BY <1>0, <4>1, <4>2, <5>1, <6>1 DEF StatusOf, Children, Live
              <7> QED BY <1>0, <4>1, <5>1, <6>1, <7>1
            <6>2. CASE p = 1
              BY <1>0, <4>1, <4>2, <5>1, <6>2 DEF StatusOf
            <6>3. CASE p \notin {0, 1}
              BY <1>0, <4>1, <4>2, <5>1, <6>3 DEF ThreadWhole
            <6> QED BY <6>1, <6>2, <6>3
          <5> QED BY <4>5, <5>1 DEF ThreadWhole
        <4> QED BY <4>1, <4>3, <4>4, <4>6
      <3>2. CASE hpost[h] \notin Live
        <4>1. Rest(h) /\ UNCHANGED <<tstatus, tdate, tjob, adding, touched>>
          BY <2>2, <3>2 DEF CommitPost
        <4>2. ThreadsTypeOK' /\ Dated'
          BY <1>0, <4>1 DEF Rest
        <4>3. Live' = Live
          BY <4>1 DEF Live
        <4> QED BY <1>1, <4>1, <4>2, <4>3
      <3> QED BY <3>1, <3>2
    <2>3. CASE SyncJob(h)
      BY <1>0, <1>1, <2>3 DEF SyncJob, Rest, Live
    <2>4. ASSUME NEW p \in Chain, ReadDoomed(h, p) PROVE ThreadsInv'
      <3>1. (IF p = 0 THEN 0 ELSE p - 1) \in Chain
        BY <1>0
      <3> QED BY <1>1, <2>4, <3>1 DEF ReadDoomed, Move, Live
    <2>5. CASE Unqueue(h)
      BY <1>1, <2>5 DEF Unqueue, Move, Live
    <2>6. CASE DeletePosts(h)
      <3>1. PICK x \in Chain : Erase({x} \cup Descendants(x))
        BY <2>6 DEF DeletePosts
      <3>2. ThreadsTypeOK' /\ Dated'
        BY <1>0, <2>6, <3>1 DEF DeletePosts, Erase, Rest
      <3>3. \A p \in Chain : /\ p \in Live' <=> p \in Live /\ p < x
                             /\ p < x => tstatus'[p] = tstatus[p] /\ tdate'[p] = tdate[p]
        BY <1>0, <3>1 DEF Erase, Descendants, Live
      <3>4. ThreadWhole'
        <4>1. ASSUME NEW p \in Chain \ {0}, p \in Live' PROVE p - 1 \in Live'
          <5>1. p - 1 \in Chain /\ p - 1 < x /\ p - 1 \in Live
            BY <1>0, <3>3, <4>1 DEF ThreadWhole
          <5> QED BY <3>3, <5>1
        <4>2. ASSUME LastPost > 0, tstatus'[0] = "SCHEDULED", tstatus'[1] = "SCHEDULED",
                     1 \notin touched'
              PROVE  tdate'[1] = tdate'[0]
          <5>1. touched' = touched
            BY <2>6 DEF DeletePosts
          <5>2. 0 \in Live' /\ 1 \in Live'
            BY <1>0, <4>2 DEF Live
          <5> QED BY <1>0, <3>3, <4>2, <5>1, <5>2 DEF ThreadWhole
        <4> QED BY <4>1, <4>2 DEF ThreadWhole
      <3> QED BY <2>6, <3>2, <3>4 DEF DeletePosts
    <2>7. ASSUME NEW today \in Moments, ListQueue(h, today) PROVE ThreadsInv'
      <3>1. {p \in Live : tstatus[p] = "SCHEDULED" /\ tdate[p] >= today} \in SUBSET Chain
        BY DEF Live
      <3> QED BY <1>1, <2>7, <3>1 DEF ListQueue, Move, Live
    <2>8. CASE ResetQueue(h)
      <3>1. ThreadsTypeOK' /\ Dated'
        BY <1>0, <2>8 DEF ResetQueue, Rest
      <3>2. Live' = Live
        BY <2>8 DEF ResetQueue, Live
      <3>3. \A p \in Chain : tstatus'[p] = "SCHEDULED" =>
                tstatus[p] = "SCHEDULED" /\ tdate'[p] = tdate[p]
        BY <2>8 DEF ResetQueue
      <3>4. ThreadWhole'
        BY <1>0, <2>8, <3>2, <3>3 DEF ResetQueue, ThreadWhole
      <3> QED BY <2>8, <3>1, <3>4 DEF ResetQueue
    <2> QED BY <1>5, <2>1, <2>2, <2>3, <2>4, <2>5, <2>6, <2>7, <2>8 DEF AuthorSteps
  <1>6. CASE UNCHANGED threadVars
    BY <1>1, <1>6 DEF threadVars, Live
  <1> QED BY <1>2, <1>3, <1>4, <1>5, <1>6 DEF ThreadsNext

(* A thread goes out by its first post and by those somebody dated, and    *)
(* what is left of it is its beginning, whose second post waits for the    *)
(* date of the first: for any number of requests and posts.                *)
THEOREM ThreadIsKept == ThreadsSpec => []ThreadKept
  <1>1. ThreadsInv => ThreadKept
    BY DEF ThreadsInv
  <1> QED BY <1>1, ThreadsStart, ThreadsStep, PTL DEF ThreadsSpec

-----------------------------------------------------------------------------
(* One destination.  What the network shows and the visible calls that are *)
(* left make the post, and only the permalink and the job that looks for a *)
(* video come after a visible call.                                        *)
Seen(s) == {i \in 1 .. Len(s) : s[i] \in Visible}
Left(s) == Cardinality(Seen(s))
Closing == Visible \cup {"read", "queue"}
InLine(s) == \A i, j \in 1 .. Len(s) : i < j /\ s[i] \in Visible => s[j] \in Closing

LEMMA LeftAdds ==
    ASSUME NEW s \in Seq(Calls), NEW t \in Seq(Calls)
    PROVE  /\ s \o t \in Seq(Calls)
           /\ Left(s) \in Nat /\ Left(t) \in Nat
           /\ Left(s \o t) = Left(s) + Left(t)
  <1>1. /\ s \o t \in Seq(Calls) /\ Len(s) \in Nat /\ Len(t) \in Nat
        /\ Len(s \o t) = Len(s) + Len(t)
        /\ \A i \in 1 .. Len(s) + Len(t) :
              (s \o t)[i] = IF i <= Len(s) THEN s[i] ELSE t[i - Len(s)]
    BY ConcatProperties, LenProperties
  <1>2. /\ IsFiniteSet(Seen(s)) /\ Left(s) \in Nat
        /\ IsFiniteSet(Seen(t)) /\ Left(t) \in Nat
    <2>1. IsFiniteSet(1 .. Len(s)) /\ IsFiniteSet(1 .. Len(t))
      BY <1>1, FS_Interval
    <2>2. IsFiniteSet(Seen(s)) /\ IsFiniteSet(Seen(t))
      BY <2>1, FS_Subset DEF Seen
    <2> QED BY <2>2, FS_CardinalityType DEF Left
  <1> DEFINE later == {i \in Len(s) + 1 .. Len(s) + Len(t) : t[i - Len(s)] \in Visible}
             f == [i \in Seen(t) |-> i + Len(s)]
  <1>3. f \in Bijection(Seen(t), later)
    <2>1. f \in [Seen(t) -> later]
      BY <1>1 DEF Seen
    <2>2. \A i, j \in Seen(t) : f[i] = f[j] => i = j
      BY <1>1 DEF Seen
    <2>3. ASSUME NEW j \in later PROVE \E i \in Seen(t) : f[i] = j
      <3>1. j - Len(s) \in Seen(t) /\ f[j - Len(s)] = j
        BY <1>1 DEF Seen
      <3> QED BY <3>1
    <2> HIDE DEF f
    <2> QED BY <2>1, <2>2, <2>3 DEF Bijection, Injection, IsInjective, Surjection
  <1>4. IsFiniteSet(later) /\ Cardinality(later) = Left(t)
    BY <1>2, <1>3, FS_Bijection DEF ExistsBijection, Left
  <1>5. ASSUME NEW i \in 1 .. Len(s) + Len(t)
        PROVE  i \in Seen(s \o t) <=> i \in Seen(s) \cup later
    BY <1>1 DEF Seen
  <1>6. /\ Seen(s \o t) \subseteq 1 .. Len(s) + Len(t)
        /\ Seen(s) \cup later \subseteq 1 .. Len(s) + Len(t)
        /\ Seen(s) \cap later = {}
    BY <1>1 DEF Seen
  <1> HIDE DEF later
  <1>7. Seen(s \o t) = Seen(s) \cup later
    BY <1>5, <1>6
  <1>8. Cardinality(Seen(s) \cup later)
          = Cardinality(Seen(s)) + Cardinality(later) - Cardinality(Seen(s) \cap later)
    BY <1>2, <1>4, FS_Union
  <1>9. Cardinality(Seen(s) \cap later) = 0
    <2>1. Cardinality({}) = 0
      BY FS_EmptySet
    <2> QED BY <1>6, <2>1
  <1> QED BY <1>1, <1>2, <1>4, <1>7, <1>8, <1>9 DEF Left

(* Calls that show nothing may come before any.                            *)
LEMMA QuietFirst ==
    ASSUME NEW s \in Seq(Calls), NEW t \in Seq(Calls), Seen(s) = {}, InLine(t)
    PROVE  /\ s \o t \in Seq(Calls)
           /\ Left(s \o t) = Left(t) /\ InLine(s \o t)
  <1>1. /\ s \o t \in Seq(Calls) /\ Len(s) \in Nat /\ Len(t) \in Nat
        /\ Len(s \o t) = Len(s) + Len(t)
        /\ \A i \in 1 .. Len(s) + Len(t) :
              (s \o t)[i] = IF i <= Len(s) THEN s[i] ELSE t[i - Len(s)]
    BY ConcatProperties, LenProperties
  <1>2. Left(s) = 0
    BY FS_EmptySet DEF Left
  <1>3. Left(s \o t) = Left(t)
    BY <1>2, LeftAdds
  <1>4. InLine(s \o t)
    <2> SUFFICES ASSUME NEW i \in 1 .. Len(s) + Len(t), NEW j \in 1 .. Len(s) + Len(t),
                        i < j, (s \o t)[i] \in Visible
                 PROVE  (s \o t)[j] \in Closing
      BY <1>1 DEF InLine
    <2>1. i > Len(s)
      BY <1>1 DEF Seen
    <2>2. /\ i - Len(s) \in 1 .. Len(t) /\ j - Len(s) \in 1 .. Len(t)
          /\ (s \o t)[i] = t[i - Len(s)] /\ (s \o t)[j] = t[j - Len(s)]
          /\ i - Len(s) < j - Len(s)
      BY <1>1, <2>1
    <2> QED BY <2>2 DEF InLine
  <1> QED BY <1>1, <1>3, <1>4

(* The calls of the providers, one by one.                                 *)
LEMMA Parts ==
    /\ \A n \in Nat : UploadsOf(n) \in Seq(Calls) /\ Seen(UploadsOf(n)) = {}
    /\ <<"upload", "wait">> \in Seq(Calls) /\ Seen(<<"upload", "wait">>) = {}
    /\ <<"upload">> \in Seq(Calls) /\ Seen(<<"upload">>) = {}
    /\ \A s \in {<<"post">>, <<"upload", "post">>, <<"post", "queue">>,
                 <<"upload", "post", "queue">>, <<"wait", "container", "read">>} :
          s \in Seq(Calls) /\ Left(s) = 1 /\ InLine(s)
  <1> USE DEF Calls, Visible, Seen, InLine, Closing
  <1>1. /\ <<>> \in Seq(Calls) /\ Seen(<<>>) = {}
    OBVIOUS
  <1>2. /\ <<"upload", "wait">> \in Seq(Calls) /\ Seen(<<"upload", "wait">>) = {}
        /\ <<"upload">> \in Seq(Calls) /\ Seen(<<"upload">>) = {}
    OBVIOUS
  <1>3. \A n \in Nat : UploadsOf(n) \in Seq(Calls) /\ Seen(UploadsOf(n)) = {}
    BY <1>1, <1>2 DEF UploadsOf
  <1>4. \A i \in Nat : Cardinality({i}) = 1
    BY FS_Singleton
  <1>5. <<"post">> \in Seq(Calls) /\ Seen(<<"post">>) = {1} /\ InLine(<<"post">>)
    OBVIOUS
  <1>6. /\ <<"upload", "post">> \in Seq(Calls)
        /\ Seen(<<"upload", "post">>) = {2} /\ InLine(<<"upload", "post">>)
    OBVIOUS
  <1>7. /\ <<"post", "queue">> \in Seq(Calls)
        /\ Seen(<<"post", "queue">>) = {1} /\ InLine(<<"post", "queue">>)
    OBVIOUS
  <1>8. /\ <<"upload", "post", "queue">> \in Seq(Calls)
        /\ Seen(<<"upload", "post", "queue">>) = {2} /\ InLine(<<"upload", "post", "queue">>)
    OBVIOUS
  <1>9. /\ <<"wait", "container", "read">> \in Seq(Calls)
        /\ Seen(<<"wait", "container", "read">>) = {2}
        /\ InLine(<<"wait", "container", "read">>)
    OBVIOUS
  <1>10. /\ Left(<<"post">>) = 1 /\ Left(<<"upload", "post">>) = 1 /\ Left(<<"post", "queue">>) = 1
         /\ Left(<<"upload", "post", "queue">>) = 1
         /\ Left(<<"wait", "container", "read">>) = 1
    <2> HIDE DEF Seen
    <2> QED BY <1>4, <1>5, <1>6, <1>7, <1>8, <1>9 DEF Left
  <1> HIDE DEF Calls, Visible, Seen, InLine, Closing
  <1> QED BY <1>2, <1>3, <1>5, <1>6, <1>7, <1>8, <1>9, <1>10

(* As many tweets as there are.                                            *)
LEMMA Tweets ==
    ASSUME NEW n \in Nat
    PROVE  LET s == [i \in 1 .. n |-> "post"]
           IN  s \in Seq(Calls) /\ Left(s) = n /\ InLine(s)
  <1> DEFINE s == [i \in 1 .. n |-> "post"]
  <1>1. s \in Seq(Calls) /\ Len(s) = n
    BY DEF Calls
  <1>2. Seen(s) = 1 .. n
    BY <1>1 DEF Seen, Visible
  <1>3. Left(s) = n
    BY <1>2, FS_Interval DEF Left
  <1>4. InLine(s)
    BY <1>1 DEF InLine, Visible, Closing
  <1> QED BY <1>1, <1>3, <1>4

(* A feed post for which Instagram has no route.                           *)
NoRoute(p) ==
    p.kind \notin {"REEL", "STORY"} /\ Total(p) = p.pdf /\ p.pdf <= 1

(* What a provider that does not refuse is to do: its visible calls are    *)
(* as many as the posts to be shown.                                       *)
Fit(n, p, s) == s \in Seq(Calls) /\ Left(s) = Shares(n, p) /\ InLine(s)

LEMMA CallsFit ==
    ASSUME NEW n \in Nets, NEW p \in Post, ~Refuses(n, p),
           n = "INSTAGRAM" => ~NoRoute(p)
    PROVE  Fit(n, p, CallsOf(n, p))
  <1>1. /\ p.text \in 0 .. 4 /\ p.replies \in Nat /\ p.kind \in ContentType
        /\ p.image \in Nat /\ p.video \in Nat /\ p.pdf \in Nat /\ Total(p) \in Nat
    <2>1. MediaCounts \subseteq Nat /\ Replies \subseteq Nat
      BY ComposingAssumption DEF ComposingAssumption
    <2>2. /\ p.text \in 0 .. 4 /\ p.replies \in Replies /\ p.kind \in ContentType
          /\ p.image \in MediaCounts /\ p.video \in MediaCounts /\ p.pdf \in MediaCounts
      BY DEF Post
    <2>3. p.image \in Nat /\ p.video \in Nat /\ p.pdf \in Nat
      BY <2>1, <2>2
    <2>4. Total(p) \in Nat
      BY <2>3 DEF Total
    <2>5. p.replies \in Nat
      BY <2>1, <2>2
    <2> QED BY <2>2, <2>3, <2>4, <2>5
  <1>2. CASE n = "TWITTER"
    <2> DEFINE m == Shares("TWITTER", p)
    <2>1. m \in Nat
      BY <1>1 DEF Shares
    <2>2. UploadMedia(p) \in Seq(Calls) /\ Seen(UploadMedia(p)) = {}
      BY <1>1, Parts DEF UploadMedia
    <2> HIDE DEF m
    <2>3. LET s == [i \in 1 .. m |-> "post"] IN s \in Seq(Calls) /\ Left(s) = m /\ InLine(s)
      BY <2>1, Tweets
    <2>4. CallsX(p) \in Seq(Calls) /\ Left(CallsX(p)) = m /\ InLine(CallsX(p))
      BY <2>2, <2>3, QuietFirst DEF CallsX, m
    <2> QED BY <1>2, <2>4 DEF CallsOf, Fit, m
  <1>3. CASE n = "LINKEDIN"
    <2>1. /\ UploadImages(p) \in Seq(Calls) /\ Seen(UploadImages(p)) = {}
          /\ UploadVideo(p) \in Seq(Calls) /\ Seen(UploadVideo(p)) = {}
          /\ UploadDocument(p) \in Seq(Calls) /\ Seen(UploadDocument(p)) = {}
      BY <1>1, Parts DEF UploadImages, UploadVideo, UploadDocument
    <2> DEFINE a == UploadImages(p)
               b == UploadVideo(p)
               c == UploadDocument(p)
               d == <<"post">>
    <2>2. d \in Seq(Calls) /\ Left(d) = 1 /\ InLine(d)
      BY Parts
    <2>3. CallsLinkedIn(p) = ((a \o b) \o c) \o d
      BY DEF CallsLinkedIn
    <2> HIDE DEF a, b, c, d
    <2>4. c \o d \in Seq(Calls) /\ Left(c \o d) = 1 /\ InLine(c \o d)
      BY <2>1, <2>2, QuietFirst DEF c
    <2>5. b \o (c \o d) \in Seq(Calls) /\ Left(b \o (c \o d)) = 1 /\ InLine(b \o (c \o d))
      BY <2>1, <2>4, QuietFirst DEF b
    <2>6. /\ a \o (b \o (c \o d)) \in Seq(Calls) /\ Left(a \o (b \o (c \o d))) = 1
          /\ InLine(a \o (b \o (c \o d)))
      BY <2>1, <2>5, QuietFirst DEF a
    <2>7. ((a \o b) \o c) \o d = a \o (b \o (c \o d))
      <3>1. a \in Seq(Calls) /\ b \in Seq(Calls) /\ c \in Seq(Calls) /\ a \o b \in Seq(Calls)
        BY <2>1, ConcatProperties DEF a, b, c
      <3>2. ((a \o b) \o c) \o d = (a \o b) \o (c \o d)
        BY <2>2, <3>1, ConcatAssociative, SMTT(30)
      <3>3. (a \o b) \o (c \o d) = a \o (b \o (c \o d))
        <4> DEFINE e == c \o d
        <4>1. e \in Seq(Calls)
          BY <2>4
        <4> HIDE DEF e
        <4>2. (a \o b) \o e = a \o (b \o e)
          BY <3>1, <4>1, ConcatAssociative, SMTT(30)
        <4> QED BY <4>2 DEF e
      <3> QED BY <3>2, <3>3
    <2> QED BY <1>3, <2>3, <2>6, <2>7 DEF CallsOf, Fit, Shares
  <1>4. CASE n = "FACEBOOK"
    <2>1. CallsFacebook(p) \in {<<"post">>, <<"upload", "post">>, <<"post", "queue">>,
                                <<"upload", "post", "queue">>}
      BY DEF CallsFacebook, FacebookReel, FacebookStory, FacebookVideo, FacebookPhotos
    <2>2. /\ CallsFacebook(p) \in Seq(Calls)
          /\ Left(CallsFacebook(p)) = 1 /\ InLine(CallsFacebook(p))
      BY <2>1, Parts
    <2> QED BY <1>4, <2>2 DEF CallsOf, Fit, Shares
  <1>5. CASE n = "INSTAGRAM"
    <2> DEFINE a == <<"upload", "wait">>
               b == <<"upload">>
               c == <<"wait", "container", "read">>
    <2>1. /\ a \in Seq(Calls) /\ Seen(a) = {} /\ b \in Seq(Calls) /\ Seen(b) = {}
          /\ c \in Seq(Calls) /\ Left(c) = 1 /\ InLine(c)
      BY Parts
    <2>2. CallsInstagram(p) = a \o c \/ CallsInstagram(p) = (a \o b) \o c
      <3>1. ~(p.kind \notin {"REEL", "STORY"} /\ p.pdf = Total(p) /\ ~(Total(p) > 1))
        BY <1>1, <1>5 DEF NoRoute
      <3> QED BY <3>1 DEF CallsInstagram, CreateContainer, PublishContainer, Carousel
    <2> HIDE DEF a, b, c
    <2>3. a \o c \in Seq(Calls) /\ Left(a \o c) = 1 /\ InLine(a \o c)
      BY <2>1, QuietFirst
    <2>4. b \o c \in Seq(Calls) /\ Left(b \o c) = 1 /\ InLine(b \o c)
      BY <2>1, QuietFirst
    <2>5. a \o (b \o c) \in Seq(Calls) /\ Left(a \o (b \o c)) = 1 /\ InLine(a \o (b \o c))
      BY <2>1, <2>4, QuietFirst
    <2>6. (a \o b) \o c = a \o (b \o c)
      BY <2>1, ConcatAssociative
    <2> QED BY <1>5, <2>2, <2>3, <2>5, <2>6 DEF CallsOf, Fit, Shares
  <1> QED BY <1>2, <1>3, <1>4, <1>5 DEF Nets

ComposeShape ==
    /\ net \in Nets /\ post \in Post
    /\ edited \in BOOLEAN /\ unheard \in BOOLEAN /\ refused \in BOOLEAN
    /\ phase \in {"new", "ready", "calling", "ok", "thrown"}
    /\ todo \in Seq(Calls)
    /\ shown \in Nat

(* An attempt under way: it has shown what it has not left to do, and, if  *)
(* that is something, all that is left is visible or comes last.           *)
Underway ==
    phase = "calling" =>
        \/ /\ shown + Left(todo) = Shares(net, post)
           /\ InLine(todo)
           /\ shown > 0 => \A i \in 1 .. Len(todo) : todo[i] \in Closing
        \/ net = "INSTAGRAM" /\ edited /\ NoRoute(post) /\ shown = 0 /\ todo = <<>>

Fresh ==
    /\ phase \in {"new", "ready"} => shown = 0 /\ ~refused
    /\ phase = "new" => ~edited
    /\ phase # "new" /\ ~edited => Admits(net, post)
    /\ refused => Refuses(net, post) /\ phase = "thrown"

ComposeInv == ComposeShape /\ Underway /\ Fresh /\ ShownTruthfully

LEMMA ComposeStart == ComposeInit => ComposeInv
  <1> SUFFICES ASSUME ComposeInit PROVE ComposeInv
    OBVIOUS
  <1>1. NoPost \in Post
    BY ComposingAssumption DEF NoPost, Post, ContentType, ComposingAssumption
  <1>2. ComposeShape
    <2>1. <<>> \in Seq(Calls)
      BY EmptySeq
    <2> QED BY <1>1, <2>1 DEF ComposeInit, ComposeShape
  <1> QED BY <1>2 DEF ComposeInit, ComposeInv, Underway, Fresh, ShownTruthfully

LEMMA ComposeStep == ComposeInv /\ [ComposeNext]_composeVars => ComposeInv'
  <1> SUFFICES ASSUME ComposeInv, [ComposeNext]_composeVars PROVE ComposeInv'
    OBVIOUS
  <1>0. ComposeShape /\ Underway /\ Fresh /\ ShownTruthfully
    BY DEF ComposeInv
  <1>1. ASSUME NEW p \in Post, Create(p) PROVE ComposeInv'
    <2>1. ComposeShape'
      BY <1>0, <1>1 DEF Create, ComposeShape
    <2>2. Fresh'
      BY <1>0, <1>1 DEF Create, Fresh
    <2> QED BY <1>1, <2>1, <2>2 DEF Create, ComposeInv, Underway, ShownTruthfully
  <1>2. ASSUME NEW i \in MediaCounts, NEW v \in MediaCounts, NEW d \in MediaCounts,
               EditMedia(i, v, d)
        PROVE  ComposeInv'
    <2>1. post' \in Post
      BY <1>0, <1>2 DEF EditMedia, ComposeShape, Post
    <2>2. ComposeShape'
      BY <1>0, <1>2, <2>1 DEF EditMedia, ComposeShape
    <2>3. Fresh'
      BY <1>0, <1>2 DEF EditMedia, Fresh
    <2> QED BY <1>2, <2>2, <2>3 DEF EditMedia, ComposeInv, Underway, ShownTruthfully
  <1>3. CASE Publish
    <2>1. shown = 0 /\ ~refused /\ (~edited => Admits(net, post))
          /\ UNCHANGED <<net, post, edited, shown>>
      BY <1>0, <1>3 DEF Publish, Fresh
    <2>2. CASE Refuses(net, post)
      <3>1. phase' = "thrown" /\ refused' = TRUE /\ UNCHANGED <<todo, unheard>>
        BY <1>3, <2>2 DEF Publish
      <3>2. ComposeShape'
        BY <1>0, <2>1, <3>1 DEF ComposeShape
      <3>3. Fresh'
        BY <2>1, <2>2, <3>1 DEF Fresh
      <3> QED BY <2>1, <3>1, <3>2, <3>3 DEF ComposeInv, Underway, ShownTruthfully
    <2>3. CASE ~Refuses(net, post)
      <3>1. phase' = "calling" /\ todo' = CallsOf(net, post) /\ UNCHANGED <<refused, unheard>>
        BY <1>3, <2>3 DEF Publish
      <3>2. todo' \in Seq(Calls) /\ Underway'
        <4>1. CASE net = "INSTAGRAM" /\ NoRoute(post)
          <5>1. todo' = <<>>
            <6>1. post.kind \notin {"REEL", "STORY"} /\ ~(Total(post) > 1) /\ post.pdf = Total(post)
              <7>1. post.pdf \in MediaCounts /\ MediaCounts \subseteq Nat
                BY <1>0, ComposingAssumption DEF ComposeShape, Post, ComposingAssumption
              <7>2. post.pdf \in Nat
                BY <7>1
              <7>3. NoRoute(post)
                BY <4>1
              <7> QED BY ONLY <7>2, <7>3 DEF NoRoute
            <6>2. CallsInstagram(post) = <<>>
              BY <6>1, Zenon DEF CallsInstagram
            <6> QED BY <3>1, <4>1, <6>2 DEF CallsOf
          <5>2. edited
            <6>1. post.pdf \in MediaCounts /\ MediaCounts \subseteq Nat
              BY <1>0, ComposingAssumption DEF ComposeShape, Post, ComposingAssumption
            <6> QED BY <2>1, <4>1, <6>1 DEF Admits, AdmitsInstagram, NoRoute
          <5> QED BY <2>1, <4>1, <5>1, <5>2 DEF Underway
        <4>2. CASE ~(net = "INSTAGRAM" /\ NoRoute(post))
          <5>1. Fit(net, post, todo')
            BY <1>0, <2>3, <3>1, <4>2, CallsFit DEF ComposeShape
          <5>2. Shares(net, post) \in Nat
            <6>1. Replies \subseteq Nat
              BY ComposingAssumption DEF ComposingAssumption
            <6>2. post.text \in 0 .. 4 /\ post.replies \in Replies
              BY <1>0 DEF ComposeShape, Post
            <6>3. post.text \in Nat
              BY <6>2
            <6>4. post.replies \in Nat
              BY <6>1, <6>2
            <6> QED BY <6>3, <6>4 DEF Shares
          <5>3. 0 + Left(todo') = Shares(net, post)
            BY <5>1, <5>2 DEF Fit
          <5> QED BY <2>1, <5>1, <5>3 DEF Underway, Fit
        <4> QED BY <4>1, <4>2
      <3>3. ComposeShape'
        BY <1>0, <2>1, <3>1, <3>2 DEF ComposeShape
      <3>4. Fresh'
        BY <2>1, <3>1 DEF Fresh
      <3> QED BY <3>1, <3>2, <3>3, <3>4 DEF ComposeInv, ShownTruthfully
    <2> QED BY <2>2, <2>3
  <1>4. ASSUME phase = "calling", todo # <<>>
        PROVE  /\ todo = <<Head(todo)>> \o Tail(todo) /\ Head(todo) \in Calls
               /\ Tail(todo) \in Seq(Calls) /\ Len(todo) \in Nat \ {0}
               /\ Head(todo) = todo[1] /\ Left(Tail(todo)) \in Nat
               /\ Left(todo) = Left(Tail(todo)) + (IF Head(todo) \in Visible THEN 1 ELSE 0)
               /\ \A i \in 1 .. Len(Tail(todo)) : i + 1 \in 1 .. Len(todo)
                     /\ Tail(todo)[i] = todo[i + 1]
               /\ shown + Left(todo) = Shares(net, post) /\ InLine(todo)
               /\ shown > 0 => \A i \in 1 .. Len(todo) : todo[i] \in Closing
    <2>1. todo \in Seq(Calls)
      BY <1>0 DEF ComposeShape
    <2>2. /\ Head(todo) \in Calls /\ Tail(todo) \in Seq(Calls)
          /\ Len(todo) \in Nat \ {0} /\ Head(todo) = todo[1]
          /\ todo = <<Head(todo)>> \o Tail(todo)
          /\ \A i \in 1 .. Len(Tail(todo)) : i + 1 \in 1 .. Len(todo) /\ Tail(todo)[i] = todo[i + 1]
      BY <1>4, <2>1
    <2> DEFINE h == <<Head(todo)>>
    <2>3. h \in Seq(Calls) /\ Seen(h) = IF Head(todo) \in Visible THEN {1} ELSE {}
      BY <2>2 DEF Seen
    <2> HIDE DEF h
    <2>4. Left(h) = IF Head(todo) \in Visible THEN 1 ELSE 0
      BY <2>3, FS_EmptySet, FS_Singleton DEF Left
    <2>5. Left(Tail(todo)) \in Nat /\ Left(h \o Tail(todo)) = Left(h) + Left(Tail(todo))
      BY <2>2, <2>3, LeftAdds
    <2>6. todo = h \o Tail(todo)
      BY <2>2 DEF h
    <2>7. Left(todo) = Left(Tail(todo)) + (IF Head(todo) \in Visible THEN 1 ELSE 0)
      <3>1. Left(todo) = Left(h \o Tail(todo))
        BY <2>6
      <3>2. Left(h) \in Nat
        BY <2>4
      <3> QED BY <2>4, <2>5, <3>1, <3>2
    <2> QED BY <1>0, <1>4, <2>2, <2>5, <2>7 DEF Underway
  <1>5. ASSUME CallSucceeds PROVE ComposeInv'
    <2>1. /\ phase = "calling" /\ phase' = "calling" /\ todo # <<>> /\ todo' = Tail(todo)
          /\ shown' = IF Head(todo) \in Visible THEN shown + 1 ELSE shown
          /\ UNCHANGED <<net, post, edited, unheard, refused>>
      BY <1>5 DEF CallSucceeds
    <2>2. ComposeShape'
      BY <1>0, <1>4, <2>1 DEF ComposeShape
    <2>3. shown' + Left(todo') = Shares(net, post)
      BY <1>0, <1>4, <2>1 DEF ComposeShape
    <2>4. InLine(todo')
      BY <1>4, <2>1 DEF InLine
    <2>5. shown' > 0 => \A i \in 1 .. Len(todo') : todo'[i] \in Closing
      <3>1. CASE Head(todo) \in Visible
        BY <1>4, <2>1, <3>1 DEF InLine
      <3>2. CASE Head(todo) \notin Visible
        BY <1>4, <2>1, <3>2
      <3> QED BY <3>1, <3>2
    <2>6. Underway'
      BY <2>1, <2>3, <2>4, <2>5 DEF Underway
    <2>7. Fresh'
      BY <1>0, <2>1 DEF Fresh
    <2> QED BY <2>1, <2>2, <2>6, <2>7 DEF ComposeInv, ShownTruthfully
  <1>6. ASSUME CallFails PROVE ComposeInv'
    <2>1. /\ phase = "calling" /\ phase' = "thrown" /\ todo # <<>>
          /\ \/ UNCHANGED <<shown, unheard>>
             \/ shown' = shown + 1 /\ unheard' = TRUE
          /\ UNCHANGED <<net, post, edited, todo, refused>>
      BY <1>6 DEF CallFails
    <2>2. ComposeShape'
      <3>0. shown \in Nat /\ unheard \in BOOLEAN
        BY <1>0 DEF ComposeShape
      <3>1. shown' \in Nat /\ unheard' \in BOOLEAN
        <4>1. CASE UNCHANGED <<shown, unheard>>
          BY <3>0, <4>1
        <4>2. CASE shown' = shown + 1 /\ unheard' = TRUE
          <5>1. shown' \in Nat
            BY <3>0, <4>2
          <5>2. unheard' \in BOOLEAN
            BY <4>2, Zenon
          <5> QED BY <5>1, <5>2
        <4> QED BY <2>1, <4>1, <4>2
      <3> QED BY <1>0, <2>1, <3>1 DEF ComposeShape
    <2>3. Fresh'
      BY <1>0, <2>1 DEF Fresh
    <2>4. ASSUME shown > 0, ~(Shares(net, post) > 1) PROVE Head(todo) \in {"read", "queue"}
      <3>1. Head(todo) \in Closing
        BY <1>4, <2>1, <2>4
      <3>2. Head(todo) \notin Visible
        BY <1>0, <1>4, <2>1, <2>4 DEF ComposeShape
      <3> QED BY <3>1, <3>2 DEF Closing
    <2>5. ShownTruthfully'
      BY <2>1, <2>4 DEF ShownTruthfully, Shares
    <2> QED BY <2>1, <2>2, <2>3, <2>5 DEF ComposeInv, Underway
  <1>7. ASSUME NotReadyYet PROVE ComposeInv'
    <2>1. UNCHANGED <<net, post, edited, phase, todo, shown, unheard, refused>>
      BY <1>7 DEF NotReadyYet
    <2> QED BY <1>0, <2>1 DEF ComposeInv, ComposeShape, Underway, Fresh, ShownTruthfully
  <1>8. ASSUME Published PROVE ComposeInv'
    <2>1. phase = "calling" /\ phase' = "ok" /\ todo = <<>>
          /\ UNCHANGED <<net, post, edited, todo, shown, unheard, refused>>
      BY <1>8 DEF Published
    <2>2. Left(todo) = 0
      <3>1. Seen(<<>>) = {} /\ Cardinality({}) = 0
        BY FS_EmptySet DEF Seen
      <3> QED BY <2>1, <3>1 DEF Left
    <2>3. \/ shown = Shares(net, post)
          \/ net = "INSTAGRAM" /\ edited /\ NoRoute(post) /\ shown = 0
      BY <1>0, <2>1, <2>2 DEF Underway, ComposeShape
    <2>4. ComposeShape'
      BY <1>0, <2>1 DEF ComposeShape
    <2>5. Fresh'
      BY <1>0, <2>1 DEF Fresh
    <2> QED BY <2>1, <2>3, <2>4, <2>5 DEF ComposeInv, Underway, NoRoute, ShownTruthfully
  <1>9. CASE UNCHANGED composeVars
    BY <1>0, <1>9 DEF composeVars, ComposeInv, ComposeShape, Underway, Fresh, ShownTruthfully
  <1> QED BY <1>1, <1>2, <1>3, <1>5, <1>6, <1>7, <1>8, <1>9 DEF ComposeNext

(* SUCCESS means that the network shows the post once with all its         *)
(* replies, but for the Instagram post an edit left without a route, and   *)
(* an attempt that throws leaves a post behind only in the cases named:    *)
(* for any number of media, replies and attempts.                          *)
THEOREM ShownIsTrue == ComposeSpec => []ShownTruthfully
  <1>1. ComposeInv => ShownTruthfully
    BY DEF ComposeInv
  <1> QED BY <1>1, ComposeStart, ComposeStep, PTL DEF ComposeSpec

(* What the invariant says of a refusal.                                   *)
LEMMA AdmittedHolds == ComposeInv => AdmittedSent
  <1> SUFFICES ASSUME ComposeInv, refused, ~edited PROVE AdmittedSent
    BY DEF AdmittedSent
  <1>1. Admits(net, post) /\ Refuses(net, post) /\ net \in Nets
    BY DEF ComposeInv, Fresh, ComposeShape
  <1>2. /\ post.text \in 0 .. 4 /\ post.replies \in Nat /\ post.kind \in ContentType
        /\ post.image \in Nat /\ post.video \in Nat /\ post.pdf \in Nat
    BY ComposingAssumption DEF ComposeInv, ComposeShape, Post, ComposingAssumption
  <1>3. CASE net = "TWITTER"
    BY <1>1, <1>3 DEF Refuses, RefusesX, AdmittedSent
  <1>4. CASE net = "LINKEDIN"
    BY <1>1, <1>2, <1>4 DEF Admits, AdmitsLinkedIn, Refuses, RefusesLinkedIn
  <1>5. CASE net = "FACEBOOK"
    BY <1>1, <1>2, <1>5
    DEF Admits, AdmitsFacebook, Refuses, RefusesFacebook, AdmittedSent, Total, ContentType
  <1>6. CASE net = "INSTAGRAM"
    BY <1>1, <1>2, <1>6
    DEF Admits, AdmitsInstagram, Refuses, RefusesInstagram, AdmittedSent, Total, ContentType
  <1> QED BY <1>1, <1>3, <1>4, <1>5, <1>6 DEF Nets

(* A post the rules admit and nobody edited is not refused by the provider *)
(* but in the four cases named: for any number of media and replies.       *)
THEOREM AdmittedIsSent == ComposeSpec => []AdmittedSent
  <1> QED BY AdmittedHolds, ComposeStart, ComposeStep, PTL DEF ComposeSpec

-----------------------------------------------------------------------------
(* The splitting of a text. *)

(* A chunk of a text, or a token: where it begins and where it ends.       *)
Span == Int \X Int

(* The spans of s follow one another without a gap, from a to b.           *)
Tiles(s, a, b) ==
    /\ s \in Seq(Span)
    /\ \A k \in 1 .. Len(s) : s[k][1] <= s[k][2]
    /\ \A k \in 1 .. Len(s) - 1 : s[k + 1][1] = s[k][2] + 1
    /\ Len(s) = 0 => b = a - 1
    /\ Len(s) # 0 => s[1][1] = a /\ s[Len(s)][2] = b

(* No spans, no text.                                                      *)
LEMMA TilesNone == ASSUME NEW a \in Int PROVE Tiles(<<>>, a, a - 1)
  BY DEF Tiles

(* One span is a tiling of itself.                                         *)
LEMMA TilesOne ==
  ASSUME NEW a \in Int, NEW b \in Int, a <= b
  PROVE Tiles(<<<<a, b>>>>, a, b)
  <1> DEFINE s == <<<<a, b>>>>
  <1>1. s \in Seq(Span) /\ Len(s) = 1 /\ s[1] = <<a, b>>
    BY DEF Span
  <1> HIDE DEF s
  <1>2. Tiles(s, a, b)
    BY <1>1 DEF Tiles
  <1> QED BY <1>2 DEF s

(* A tiling from a to b and one from b + 1 to c make one from a to c.      *)
LEMMA TilesJoin ==
  ASSUME NEW a \in Int, NEW b \in Int, NEW c \in Int, NEW s, NEW r, Tiles(s, a, b), Tiles(r, b + 1, c)
  PROVE  Tiles(s \o r, a, c)
  <1> DEFINE m == Len(s)
             n == Len(r)
             z == s \o r
  <1>1. s \in Seq(Span) /\ r \in Seq(Span) /\ m \in Nat /\ n \in Nat
    BY DEF Tiles
  <1>2. z \in Seq(Span) /\ Len(z) = m + n
    BY <1>1
  <1>3. \A k \in 1 .. m + n : z[k] = IF k <= m THEN s[k] ELSE r[k - m]
    BY <1>1
  <1>4. \A k \in 1 .. m + n : k > m => k - m \in 1 .. n
    BY <1>1
  <1>5. \A k \in 1 .. m + n : z[k][1] <= z[k][2]
    BY <1>1, <1>3, <1>4 DEF Tiles
  <1>6. ASSUME NEW k \in 1 .. m + n - 1 PROVE z[k + 1][1] = z[k][2] + 1
    <2>1. k \in 1 .. m + n /\ k + 1 \in 1 .. m + n
      BY <1>1
    <2>2. CASE k + 1 <= m
      BY <1>1, <1>3, <2>1, <2>2 DEF Tiles
    <2>3. CASE k = m
      <3>1. z[k] = s[m] /\ z[k + 1] = r[1] /\ m # 0 /\ n # 0
        BY <1>1, <1>3, <2>1, <2>3
      <3> QED BY <3>1 DEF Tiles
    <2>4. CASE k > m
      <3>1. z[k] = r[k - m] /\ z[k + 1] = r[(k - m) + 1] /\ k - m \in 1 .. n - 1
        BY <1>1, <1>3, <2>1, <2>4, SMTT(30)
      <3> QED BY <3>1 DEF Tiles
    <2> QED BY <1>1, <2>2, <2>3, <2>4, SMTT(30)
  <1>7. m + n = 0 => c = a - 1
    BY <1>1 DEF Tiles
  <1>8. ASSUME m + n # 0 PROVE z[1][1] = a /\ z[m + n][2] = c
    <2>1. CASE m = 0
      BY <1>1, <1>3, <1>8, <2>1 DEF Tiles
    <2>2. CASE n = 0
      BY <1>1, <1>3, <1>8, <2>2 DEF Tiles
    <2>3. CASE m # 0 /\ n # 0
      BY <1>1, <1>3, <1>8, <2>3 DEF Tiles
    <2> QED BY <2>1, <2>2, <2>3
  <1>9. m \in Nat /\ n \in Nat /\ m + n \in Nat
    BY <1>1
  <1> HIDE DEF z, m, n
  <1>10. ASSUME NEW k \in 1 .. Len(z) - 1 PROVE z[k + 1][1] = z[k][2] + 1
    <2>1. k \in 1 .. m + n - 1
      BY <1>2, <1>9
    <2> QED BY <1>6, <2>1
  <1>105. ASSUME NEW k \in 1 .. Len(z) PROVE z[k][1] <= z[k][2]
    BY <1>2, <1>5
  <1>11. /\ Len(z) = 0 => c = a - 1
         /\ Len(z) # 0 => z[1][1] = a /\ z[Len(z)][2] = c
    BY <1>2, <1>7, <1>8
  <1>12. Tiles(z, a, c)
    BY <1>2, <1>10, <1>105, <1>11 DEF Tiles
  <1> QED BY <1>12 DEF z

(* The spans of a tiling lie between its ends, in order.                   *)
LEMMA TilesSpread ==
  ASSUME NEW a \in Int, NEW b \in Int, NEW s, Tiles(s, a, b)
  PROVE  /\ \A k \in 1 .. Len(s) : s[k] \in Span /\ a <= s[k][1] /\ s[k][1] <= s[k][2] /\ s[k][2] <= b
         /\ \A k, l \in 1 .. Len(s) : k < l => s[k][2] < s[l][1]
         /\ \A i \in a .. b : \E k \in 1 .. Len(s) : i \in s[k][1] .. s[k][2]
  <1>1. /\ s \in Seq(Span) /\ Len(s) \in Nat
        /\ \A k \in 1 .. Len(s) : s[k] \in Span /\ s[k][1] \in Int /\ s[k][2] \in Int
              /\ s[k][1] <= s[k][2]
    BY DEF Tiles, Span
  <1> DEFINE n == Len(s)
             G == {l \in Nat : l \in 1 .. n =>
                     /\ a <= s[l][1]
                     /\ \A k \in 1 .. n : k < l => s[k][2] < s[l][1]
                     /\ \A i \in a .. s[l][2] : \E k \in 1 .. l : i \in s[k][1] .. s[k][2]}
  <1>2. 0 \in G
    OBVIOUS
  <1>3. ASSUME NEW l \in Nat, l \in G PROVE l + 1 \in G
    <2> SUFFICES ASSUME l + 1 \in 1 .. n
                 PROVE /\ a <= s[l + 1][1]
                       /\ \A k \in 1 .. n : k < l + 1 => s[k][2] < s[l + 1][1]
                       /\ \A i \in a .. s[l + 1][2] : \E k \in 1 .. l + 1 : i \in s[k][1] .. s[k][2]
      OBVIOUS
    <2>1. CASE l = 0
      <3>1. s[1][1] = a /\ 1 \in 1 .. n
        BY <1>1, <2>1 DEF Tiles
      <3> QED BY <1>1, <2>1, <3>1
    <2>2. CASE l # 0
      <3>1. l \in 1 .. n /\ l \in 1 .. n - 1
        BY <1>1, <2>2
      <3>2. s[l + 1][1] = s[l][2] + 1
        BY <3>1 DEF Tiles
      <3>3. a <= s[l + 1][1]
        BY <1>1, <1>3, <3>1, <3>2
      <3>4. ASSUME NEW k \in 1 .. n, k < l + 1 PROVE s[k][2] < s[l + 1][1]
        <4>1. CASE k = l
          BY <1>1, <3>1, <3>2, <4>1
        <4>2. CASE k < l
          BY <1>1, <1>3, <3>1, <3>2, <4>2, SMTT(30)
        <4> QED BY <3>4, <4>1, <4>2
      <3>5. ASSUME NEW i \in a .. s[l + 1][2] PROVE \E k \in 1 .. l + 1 : i \in s[k][1] .. s[k][2]
        <4>1. CASE i <= s[l][2]
          <5>1. i \in a .. s[l][2]
            BY <1>1, <3>1, <4>1
          <5>2. \E k \in 1 .. l : i \in s[k][1] .. s[k][2]
            BY <1>3, <3>1, <5>1
          <5> QED BY <5>2
        <4>2. CASE i > s[l][2]
          <5>1. i \in s[l + 1][1] .. s[l + 1][2] /\ l + 1 \in 1 .. l + 1
            BY <1>1, <3>1, <3>2, <4>2
          <5> QED BY <5>1
        <4> QED BY <1>1, <3>1, <4>1, <4>2
      <3> QED BY <3>3, <3>4, <3>5
    <2> QED BY <2>1, <2>2
  <1> HIDE DEF G
  <1>4. \A l \in Nat : l \in G
    BY <1>2, <1>3, NatInd
  <1>5. \A l \in 1 .. n : /\ a <= s[l][1]
                          /\ \A k \in 1 .. n : k < l => s[k][2] < s[l][1]
                          /\ \A i \in a .. s[l][2] : \E k \in 1 .. l : i \in s[k][1] .. s[k][2]
    BY <1>4 DEF G
  <1>6. n # 0 => s[n][2] = b /\ n \in 1 .. n
    BY <1>1 DEF Tiles
  <1>7. ASSUME NEW k \in 1 .. n PROVE s[k][2] <= b
    <2>1. CASE k = n
      BY <1>1, <1>6, <2>1
    <2>2. CASE k < n
      <3>1. s[k][2] < s[n][1] /\ s[n][1] <= s[n][2]
        BY <1>1, <1>5, <1>6, <2>2
      <3> QED BY <1>1, <1>6, <3>1
    <2> QED BY <1>1, <2>1, <2>2
  <1>8. ASSUME NEW i \in a .. b PROVE \E k \in 1 .. n : i \in s[k][1] .. s[k][2]
    <2>1. n # 0
      BY <1>1 DEF Tiles
    <2> QED BY <1>5, <1>6, <2>1
  <1> QED BY <1>1, <1>5, <1>7, <1>8

(* A recursive cut of a .. b: the piece that begins at i ends at Q[i],     *)
(* except that the cut gives up at the members of X.                       *)
Cuts(a, b, Q, X) ==
    /\ a \in Int /\ b \in Int /\ a <= b + 1 /\ X \subseteq a .. b
    /\ Q \in [a .. b -> Int]
    /\ \A i \in (a .. b) \ X : i <= Q[i] /\ Q[i] <= b

(* What the cut makes of what begins at i: nothing, a refusal, or a piece  *)
(* before the rest.                                                        *)
CutAt(F, i, b, Q, X) ==
    IF i > b THEN <<>> ELSE IF i \in X THEN Refused ELSE <<<<i, Q[i]>>>> \o F[Q[i] + 1]

(* F is the function of the cut.                                           *)
Cutting(F, a, b, Q, X) == F = [i \in a .. b + 1 |-> CutAt(F, i, b, Q, X)]

(* The pieces it can be made of.                                           *)
CutPieces(a, b, Q, X) == {c \in Span : c[1] \in (a .. b) \ X /\ c[2] = Q[c[1]]}

(* A refusal among them.                                                   *)
Spoils(s) == s \in Seq(Span) /\ \E k \in 1 .. Len(s) : s[k] = <<0, 0>>

(* There is such a function, and its values are sequences of pieces and    *)
(* refusals.                                                               *)
LEMMA CuttingExists ==
  ASSUME NEW a, NEW b, NEW Q, NEW X, Cuts(a, b, Q, X)
  PROVE  \E F : Cutting(F, a, b, Q, X)
  <1> DEFINE D == a .. b + 1
             V == Seq(Span)
             B == {b + 1}
             base == [i \in B |-> <<>>]
             m == [i \in D |-> b + 1 - i]
             N == b + 2 - a
             G == [z \in D \X V |-> IF z[1] > b THEN <<>> ELSE IF z[1] \in X THEN Refused
                                    ELSE <<<<z[1], Q[z[1]]>>>> \o z[2]]
             p == [i \in D |-> IF i > b \/ i \in X THEN b + 1 ELSE Q[i] + 1]
  <1>0. a \in Int /\ b \in Int /\ a <= b + 1 /\ N \in Nat
    BY DEF Cuts
  <1>10. B \subseteq D
    BY <1>0
  <1>11. m \in [D -> Nat]
    BY <1>0
  <1>12. <<>> \in V
    OBVIOUS
  <1>13. base \in [B -> V]
    BY <1>12
  <1>1. B \subseteq D /\ base \in [B -> V] /\ m \in [D -> Nat] /\ V # {}
    BY <1>10, <1>11, <1>12, <1>13
  <1>2. \A d \in D : m[d] < N
    BY <1>0
  <1>3. G \in [D \X V -> V]
    <2>1. ASSUME NEW i \in D, NEW v \in V
          PROVE (IF i > b THEN <<>> ELSE IF i \in X THEN Refused ELSE <<<<i, Q[i]>>>> \o v) \in V
      <3>1. <<>> \in V /\ Refused \in V
        BY DEF Refused, Span
      <3>2. ASSUME ~(i > b), i \notin X PROVE <<<<i, Q[i]>>>> \o v \in V
        <4>1. i \in a .. b /\ i \in Int /\ Q[i] \in Int
          BY <1>0, <3>2 DEF Cuts
        <4>2. <<<<i, Q[i]>>>> \in V
          BY <4>1 DEF Span
        <4> QED BY <4>2
      <3> QED BY <3>1, <3>2
    <2> HIDE DEF V, D
    <2> QED BY <2>1
  <1>4. p \in [D -> D] /\ \A d \in D \ B : m[p[d]] < m[d]
    <2>1. ASSUME NEW i \in D PROVE /\ p[i] \in D
                                   /\ i # b + 1 => p[i] > i
      <3>1. CASE i > b \/ i \in X
        BY <1>0, <3>1 DEF Cuts
      <3>2. CASE ~(i > b \/ i \in X)
        <4>1. i \in (a .. b) \ X
          BY <1>0, <3>2
        <4>2. i <= Q[i] /\ Q[i] <= b /\ Q[i] \in Int
          BY <4>1 DEF Cuts
        <4> QED BY <1>0, <3>2, <4>2
      <3> QED BY <3>1, <3>2
    <2>2. p \in [D -> D]
      BY <2>1
    <2>3. \A d \in D \ B : p[d] \in D /\ p[d] > d
      BY <2>1
    <2> HIDE DEF p
    <2> QED BY <1>0, <2>2, <2>3
  <1> HIDE DEF m, B, base, p, G, N, D, V
  <1>5. Descends(D, V, B, base, m, N, G, p)
    BY <1>0, <1>1, <1>2, <1>3, <1>4 DEF Descends
  <1>6. PICK F : Solves(F, D, V, B, base, G, p)
    BY <1>5, Recursion
  <1>7. ASSUME NEW i \in D PROVE F[i] = CutAt(F, i, b, Q, X)
    <2>1. F[i] = IF i \in B THEN base[i] ELSE G[<<i, F[p[i]]>>]
      BY <1>6 DEF Solves
    <2>2. F[p[i]] \in V
      BY <1>4, <1>6 DEF Solves
    <2>3. i \in a .. b + 1
      BY DEF D
    <2>4. CASE i = b + 1
      BY <1>0, <2>1, <2>4 DEF B, base, CutAt
    <2>5. CASE i \in X
      <3>1. F[i] = G[<<i, F[p[i]]>>] /\ ~(i > b)
        BY <1>0, <2>1, <2>3, <2>5 DEF B, Cuts
      <3> QED BY <2>2, <2>5, <3>1 DEF CutAt, G
    <2>6. CASE i # b + 1 /\ i \notin X
      <3>1. F[i] = G[<<i, F[p[i]]>>] /\ ~(i > b)
        BY <1>0, <2>1, <2>3, <2>6 DEF B
      <3>2. p[i] = Q[i] + 1
        BY <2>6, <3>1 DEF p
      <3> QED BY <2>2, <2>6, <3>1, <3>2 DEF CutAt, G
    <2> QED BY <2>4, <2>5, <2>6
  <1>8. F = [i \in D |-> F[i]]
    BY <1>6 DEF Solves
  <1>9. Cutting(F, a, b, Q, X)
    BY <1>7, <1>8 DEF Cutting, D
  <1> QED BY <1>9

(* Where nothing is refused, they tile what was cut.                       *)
LEMMA CuttingTiles ==
  ASSUME NEW a, NEW b, NEW Q, NEW X, NEW F, Cuts(a, b, Q, X), Cutting(F, a, b, Q, X)
  PROVE  \A i \in a .. b + 1 :
           \/ Tiles(F[i], i, b) /\ F[i] \in Seq(CutPieces(a, b, Q, X))
           \/ X # {} /\ Spoils(F[i])
  <1> DEFINE P == CutPieces(a, b, Q, X)
             Right(i) == \/ Tiles(F[i], i, b) /\ F[i] \in Seq(P)
                         \/ X # {} /\ Spoils(F[i])
             G == {n \in Nat : \A i \in a .. b + 1 : b + 1 - i <= n => Right(i)}
  <1>0. a \in Int /\ b \in Int /\ a <= b + 1
    BY DEF Cuts
  <1>1. \A i \in a .. b + 1 : F[i] = CutAt(F, i, b, Q, X)
    BY DEF Cutting
  <1>2. ASSUME NEW i \in a .. b + 1, i = b + 1 PROVE Right(i)
    <2>0. i \in Int /\ b = i - 1 /\ i > b
      BY <1>0, <1>2
    <2>1. F[i] = <<>> /\ i \in Int /\ b = i - 1
      BY <1>1, <2>0, Zenon DEF CutAt
    <2>2. Tiles(<<>>, i, i - 1)
      BY <2>1, TilesNone
    <2>3. <<>> \in Seq(P)
      OBVIOUS
    <2> QED BY <2>1, <2>2, <2>3
  <1>3. 0 \in G
    BY <1>0, <1>2
  <1>4. ASSUME NEW n \in Nat, n \in G PROVE n + 1 \in G
    <2> SUFFICES ASSUME NEW i \in a .. b + 1, b + 1 - i <= n + 1 PROVE Right(i)
      OBVIOUS
    <2>1. CASE i = b + 1
      BY <1>2, <2>1
    <2>2. CASE i \in X
      <3>0. ~(i > b) /\ X # {}
        BY <1>0, <2>2 DEF Cuts
      <3>1. F[i] = <<<<0, 0>>>>
        BY <1>1, <2>2, <3>0, Zenon DEF CutAt, Refused
      <3>2. Spoils(<<<<0, 0>>>>)
        BY DEF Spoils, Span
      <3> QED BY <3>0, <3>1, <3>2
    <2>3. CASE i # b + 1 /\ i \notin X
      <3> DEFINE q == Q[i]
                 h == <<<<i, q>>>>
                 r == F[q + 1]
      <3>1. i \in (a .. b) \ X /\ i \in Int /\ ~(i > b)
        BY <1>0, <2>3
      <3>2. q \in Int /\ i <= q /\ q <= b
        BY <3>1 DEF Cuts
      <3>3. F[i] = h \o r
        BY <1>1, <3>1 DEF CutAt
      <3>4. q + 1 \in a .. b + 1 /\ b + 1 - (q + 1) <= n
        BY <1>0, <3>1, <3>2
      <3>5. Right(q + 1)
        BY <1>4, <3>4
      <3>6. <<i, q>> \in P
        BY <3>1, <3>2 DEF CutPieces, Span
      <3>7. h \in Seq(P)
        BY <3>6
      <3>8. P \subseteq Span
        BY DEF CutPieces
      <3>9. Tiles(h, i, q)
        BY <3>1, <3>2, TilesOne
      <3> HIDE DEF h, r, q, P
      <3>10. CASE Tiles(r, q + 1, b) /\ r \in Seq(P)
        <4>1. Tiles(h \o r, i, b)
          BY <1>0, <3>1, <3>2, <3>9, <3>10, TilesJoin
        <4>2. h \o r \in Seq(P)
          BY <3>7, <3>10
        <4> QED BY <3>3, <4>1, <4>2
      <3>11. CASE X # {} /\ Spoils(r)
        <4>1. PICK k \in 1 .. Len(r) : r[k] = <<0, 0>>
          BY <3>11 DEF Spoils
        <4>2. h \in Seq(Span) /\ r \in Seq(Span)
          BY <3>7, <3>8, <3>11 DEF Spoils
        <4>3. h \o r \in Seq(Span) /\ Len(h) + k \in 1 .. Len(h \o r) /\ (h \o r)[Len(h) + k] = r[k]
          BY <4>2
        <4>4. Spoils(h \o r)
          BY <4>1, <4>3 DEF Spoils
        <4> QED BY <3>3, <3>11, <4>4
      <3> QED BY <3>5, <3>10, <3>11 DEF r
    <2> QED BY <2>1, <2>2, <2>3
  <1> HIDE DEF G
  <1>5. \A n \in Nat : n \in G
    BY <1>3, <1>4, NatInd
  <1>6. ASSUME NEW i \in a .. b + 1 PROVE Right(i)
    <2>1. b + 1 - i \in Nat /\ b + 1 - i <= b + 1 - i
      BY <1>0
    <2> QED BY <1>5, <2>1 DEF G
  <1> QED BY <1>6

(* Pieces that are long unless they are the last are few.                  *)
LEMMA CuttingFew ==
  ASSUME NEW a, NEW b, NEW Q, NEW F, Cuts(a, b, Q, {}), Cutting(F, a, b, Q, {}),
         NEW S \in Nat \ {0}, \A i \in a .. b : Q[i] = b \/ Q[i] >= i + S - 1
  PROVE  \A i \in a .. b + 1 : S * Len(F[i]) <= b - i + S
  <1> DEFINE Right(i) == S * Len(F[i]) <= b - i + S
             G == {n \in Nat : \A i \in a .. b + 1 : b + 1 - i <= n => Right(i)}
  <1>0. a \in Int /\ b \in Int /\ a <= b + 1
    BY DEF Cuts
  <1>1. \A i \in a .. b + 1 : F[i] = CutAt(F, i, b, Q, {})
    BY DEF Cutting
  <1>11. \A i \in a .. b + 1 : F[i] \in Seq(Span) /\ Len(F[i]) \in Nat
    BY CuttingTiles DEF Tiles
  <1>2. ASSUME NEW i \in a .. b + 1, i = b + 1 PROVE Right(i)
    <2>0. i \in Int /\ b = i - 1 /\ i > b
      BY <1>0, <1>2
    <2>1. F[i] = <<>> /\ i \in Int /\ b = i - 1
      BY <1>1, <2>0, Zenon DEF CutAt
    <2>2. Len(F[i]) = 0
      BY <2>1
    <2> QED BY <1>0, <2>1, <2>2
  <1>3. 0 \in G
    BY <1>0, <1>2
  <1>4. ASSUME NEW n \in Nat, n \in G PROVE n + 1 \in G
    <2> SUFFICES ASSUME NEW i \in a .. b + 1, b + 1 - i <= n + 1 PROVE Right(i)
      OBVIOUS
    <2>1. CASE i = b + 1
      BY <1>2, <2>1
    <2>2. CASE i # b + 1
      <3> DEFINE q == Q[i]
                 h == <<<<i, q>>>>
                 r == F[q + 1]
      <3>1. i \in a .. b /\ i \in Int /\ ~(i > b)
        BY <1>0, <2>2
      <3>2. q \in Int /\ i <= q /\ q <= b
        BY <3>1 DEF Cuts
      <3>3. F[i] = h \o r
        BY <1>1, <3>1 DEF CutAt
      <3>4. q + 1 \in a .. b + 1 /\ b + 1 - (q + 1) <= n
        BY <1>0, <3>1, <3>2
      <3>5. S * Len(r) <= b - (q + 1) + S /\ r \in Seq(Span) /\ Len(r) \in Nat
        BY <1>4, <1>11, <3>4
      <3>6. h \in Seq(Span) /\ Len(h) = 1 /\ Len(h \o r) = 1 + Len(r)
        <4>1. h \in Seq(Span) /\ Len(h) = 1
          BY <3>1, <3>2 DEF Span
        <4> HIDE DEF h, r
        <4>2. r \in Seq(Span) /\ Len(r) \in Nat
          BY <3>5
        <4>3. Len(h \o r) = Len(h) + Len(r)
          BY <4>1, <4>2, ConcatProperties
        <4> QED BY <4>1, <4>3
      <3>7. q = b \/ q >= i + S - 1
        BY <3>1
      <3>74. q = b => q + 1 > b
        BY <1>0
      <3>75. q = b => r = <<>>
        BY <1>1, <3>4, <3>74, Zenon DEF CutAt
      <3>76. q = b => Len(r) = 0
        BY <3>75
      <3> HIDE DEF h, r, q
      <3>8. Len(F[i]) = 1 + Len(r)
        BY <3>3, <3>5, <3>6
      <3> DEFINE lr == Len(r)
                 w == S * lr
      <3>9. lr \in Nat /\ w \in Int
        BY <3>5
      <3>10. S * (1 + lr) = S + w
        BY <3>9
      <3>11. w <= b - (q + 1) + S
        BY <3>5
      <3>12. q = b => w = 0
        BY <3>76
      <3> HIDE DEF lr, w
      <3>13. S + w <= b - i + S
        <4>1. CASE q = b
          BY <1>0, <3>1, <3>2, <3>12, <4>1
        <4>2. CASE q >= i + S - 1
          BY <1>0, <3>1, <3>2, <3>9, <3>11, <4>2
        <4> QED BY <3>7, <4>1, <4>2
      <3> QED BY <3>8, <3>10, <3>13 DEF lr
    <2> QED BY <2>1, <2>2
  <1> HIDE DEF G
  <1>5. \A n \in Nat : n \in G
    BY <1>3, <1>4, NatInd
  <1>6. ASSUME NEW i \in a .. b + 1 PROVE Right(i)
    <2>1. b + 1 - i \in Nat /\ b + 1 - i <= b + 1 - i
      BY <1>0
    <2> QED BY <1>5, <2>1 DEF G
  <1> QED BY <1>6

(* The tokens of a text tile it.                                           *)
LEMMA TokensTile ==
  ASSUME NEW t \in Seq(Chars)
  PROVE Tiles(Tokens(t), 1, Len(t))
  <1> DEFINE n == Len(t)
             run(i) == {j \in i .. Len(t) : \A k \in i .. j : Blank(t, k) = Blank(t, i)}
             Q == [i \in 1 .. n |-> Max(run(i))]
             Body(H) == [i \in 1 .. Len(t) + 1 |-> IF i > Len(t) THEN <<>>
                                                   ELSE <<<<i, Max(run(i))>>>> \o H[Max(run(i)) + 1]]
             after == CHOOSE H : H = Body(H)
  <1>1. n \in Nat
    OBVIOUS
  <1>2. ASSUME NEW i \in 1 .. n PROVE Max(run(i)) \in i .. n
    <2> DEFINE R == run(i)
    <2>1. i .. n \subseteq Int /\ IsFiniteSet(i .. n)
      BY <1>1, FS_Interval
    <2>2. R \subseteq i .. n /\ i \in R
      BY <1>1
    <2> HIDE DEF R
    <2>3. IsFiniteSet(R)
      BY <2>1, <2>2, FS_Subset
    <2>4. Max(R) \in R
      BY <2>1, <2>2, <2>3, SetHasMax
    <2>5. Max(R) \in i .. n
      BY <2>2, <2>4
    <2> QED BY <2>5 DEF R
  <1> HIDE DEF run
  <1>3. Cuts(1, n, Q, {})
    <2>1. ASSUME NEW i \in 1 .. n PROVE Q[i] \in Int /\ i <= Q[i] /\ Q[i] <= n
      BY <1>1, <1>2
    <2>2. Q \in [1 .. n -> Int]
      BY <1>1, <1>2
    <2> HIDE DEF Q
    <2> QED BY <1>1, <2>1, <2>2 DEF Cuts
  <1>4. ASSUME NEW H PROVE Body(H) = [i \in 1 .. n + 1 |-> CutAt(H, i, n, Q, {})]
    <2>1. ASSUME NEW i \in 1 .. n + 1
          PROVE (IF i > n THEN <<>> ELSE <<<<i, Max(run(i))>>>> \o H[Max(run(i)) + 1])
                = CutAt(H, i, n, Q, {})
      <3>1. CASE i > n
        BY <3>1, Zenon DEF CutAt
      <3>2. CASE ~(i > n)
        <4>1. i \in 1 .. n
          BY <1>1, <3>2
        <4>2. Q[i] = Max(run(i))
          BY <4>1
        <4> HIDE DEF Q
        <4> QED BY <3>2, <4>2, Zenon DEF CutAt
      <3> QED BY <3>1, <3>2
    <2> QED BY <2>1, Zenon
  <1> HIDE DEF Q
  <1>5. PICK F : Cutting(F, 1, n, Q, {})
    BY <1>3, CuttingExists
  <1>6. F = Body(F)
    BY <1>4, <1>5, Zenon DEF Cutting
  <1> HIDE DEF Body
  <1>7. after = Body(after)
    BY <1>6
  <1> HIDE DEF after
  <1>8. Cutting(after, 1, n, Q, {})
    BY <1>4, <1>7, Zenon DEF Cutting
  <1>9. 1 \in 1 .. n + 1
    BY <1>1
  <1>10. Tiles(after[1], 1, n)
    BY <1>3, <1>8, <1>9, CuttingTiles
  <1>11. Tokens(t) = after[1]
    BY DEF Tokens, after, Body, run
  <1> QED BY <1>10, <1>11

(* What a tweet may hold.                                                  *)
Light == {c \in Span : c[1] <= c[2] /\ Weight(c) <= TweetLimit}

(* A character the network does not take.                                  *)
HasBad(t) == \E i \in DOMAIN t : t[i] = "bad"

(* A long word is cut into valid pieces that tile it, and refused only for *)
(* a bad character in it; the pieces are full, except the last.            *)
LEMMA HardSplitTiles ==
  ASSUME NEW t \in Seq(Chars), NEW a \in Int, NEW b \in Int, 1 <= a, a <= b, b <= Len(t)
  PROVE  /\ \/ Tiles(HardSplit(t, <<a, b>>), a, b) /\ HardSplit(t, <<a, b>>) \in Seq(Light)
            \/ HasBad(t) /\ Spoils(HardSplit(t, <<a, b>>))
         /\ HasBad(t) \/ SafeLimit * Len(HardSplit(t, <<a, b>>)) <= b - a + SafeLimit
  <1> DEFINE token == <<a, b>>
             ends(i) == {j \in i .. token[2] : Valid(t, <<i, j>>)}
             X == {i \in a .. b : ends(i) = {}}
             Q == [i \in a .. b |-> IF ends(i) = {} THEN 0 ELSE Max(ends(i))]
             Body(H) == [i \in token[1] .. token[2] + 1 |->
                           IF i > token[2] THEN <<>>
                           ELSE IF ends(i) = {} THEN Refused
                           ELSE <<<<i, Max(ends(i))>>>> \o H[Max(ends(i)) + 1]]
             cut == CHOOSE H : H = Body(H)
  <1>0. SafeLimit \in Nat \ {0} /\ TweetLimit \in Nat \ {0} /\ SafeLimit <= TweetLimit
    BY TweetSplitAssumption
  <1>1. token[1] = a /\ token[2] = b /\ Len(t) \in Nat
    OBVIOUS
  <1>2. ASSUME NEW i \in a .. b, ends(i) # {}
        PROVE /\ Max(ends(i)) \in i .. b /\ Valid(t, <<i, Max(ends(i))>>)
              /\ \A y \in ends(i) : y <= Max(ends(i))
    <2> DEFINE R == ends(i)
    <2>0. i \in Int
      OBVIOUS
    <2>1. i .. b \subseteq Int /\ IsFiniteSet(i .. b)
      BY <2>0, FS_Interval
    <2>2. R \subseteq i .. b /\ \A j \in R : Valid(t, <<i, j>>)
      OBVIOUS
    <2>25. R # {}
      BY <1>2
    <2> HIDE DEF R
    <2>3. IsFiniteSet(R)
      BY <2>1, <2>2, FS_Subset
    <2>4. Max(R) \in R /\ \A y \in R : y <= Max(R)
      BY <2>1, <2>2, <2>25, <2>3, SetHasMax
    <2>5. Max(R) \in i .. b /\ Valid(t, <<i, Max(R)>>)
      BY <2>2, <2>4
    <2> QED BY <2>4, <2>5 DEF R
  <1>3. ASSUME ~HasBad(t), NEW i \in a .. b, NEW j \in i .. b, j - i + 1 <= TweetLimit
        PROVE j \in ends(i)
    <2>1. i \in Int /\ j \in Int /\ i > 0 /\ j - i + 1 \in 1 .. TweetLimit
      BY <1>0, <1>3
    <2>2. \A k \in i .. j : t[k] # "bad"
      BY <1>1, <1>3, <2>1 DEF HasBad
    <2>3. Valid(t, <<i, j>>)
      BY <2>1, <2>2 DEF Valid, Weight
    <2> QED BY <2>3
  <1>4. \A i \in a .. b : i \in X <=> ends(i) = {}
    OBVIOUS
  <1>45. X \subseteq a .. b
    OBVIOUS
  <1> HIDE DEF ends
  <1>5. \A i \in a .. b : Q[i] = IF ends(i) = {} THEN 0 ELSE Max(ends(i))
    OBVIOUS
  <1>52. \A i \in a .. b : ends(i) # {} => Max(ends(i)) \in i .. b
    BY <1>2
  <1>55. \A i \in a .. b : (IF ends(i) = {} THEN 0 ELSE Max(ends(i))) \in Int
    BY <1>52
  <1>6. Q \in [a .. b -> Int]
    BY <1>55
  <1> HIDE DEF X, Q
  <1>7. Cuts(a, b, Q, X)
    <2>1. ASSUME NEW i \in (a .. b) \ X PROVE i <= Q[i] /\ Q[i] <= b
      <3>1. Q[i] \in i .. b
        BY <1>4, <1>5, <1>52
      <3> QED BY <3>1
    <2> QED BY <1>6, <1>45, <2>1 DEF Cuts
  <1>8. ASSUME NEW H PROVE Body(H) = [i \in a .. b + 1 |-> CutAt(H, i, b, Q, X)]
    <2>1. ASSUME NEW i \in a .. b + 1
          PROVE (IF i > b THEN <<>> ELSE IF ends(i) = {} THEN Refused
                 ELSE <<<<i, Max(ends(i))>>>> \o H[Max(ends(i)) + 1]) = CutAt(H, i, b, Q, X)
      <3>1. CASE i > b
        BY <3>1, Zenon DEF CutAt
      <3>2. CASE ~(i > b)
        <4>1. i \in a .. b
          BY <3>2
        <4>2. (i \in X <=> ends(i) = {}) /\ (ends(i) # {} => Q[i] = Max(ends(i)))
          BY <1>4, <1>5, <4>1
        <4> QED BY <3>2, <4>2, Zenon DEF CutAt
      <3> QED BY <3>1, <3>2
    <2> QED BY <1>1, <2>1, Zenon
  <1>9. PICK F : Cutting(F, a, b, Q, X)
    BY <1>7, CuttingExists
  <1>10. F = Body(F)
    BY <1>8, <1>9, Zenon DEF Cutting
  <1> HIDE DEF Body
  <1>11. cut = Body(cut)
    BY <1>10
  <1> HIDE DEF cut
  <1>12. Cutting(cut, a, b, Q, X)
    BY <1>8, <1>11, Zenon DEF Cutting
  <1>13. HardSplit(t, <<a, b>>) = cut[a]
    <2>1. HardSplit(t, token) = cut[token[1]]
      BY DEF HardSplit, cut, Body, ends
    <2> QED BY <1>1, <2>1
  <1>14. a \in a .. b + 1
    OBVIOUS
  <1>15. CutPieces(a, b, Q, X) \subseteq Light
    <2>1. ASSUME NEW c \in CutPieces(a, b, Q, X) PROVE c \in Light
      <3>1. c \in Span /\ c[1] \in (a .. b) \ X /\ c[2] = Q[c[1]]
        BY DEF CutPieces
      <3>2. c[2] \in c[1] .. b /\ Valid(t, <<c[1], c[2]>>)
        BY <1>2, <1>4, <1>5, <3>1
      <3> QED BY <3>1, <3>2 DEF Light, Valid, Weight, Span
    <2> QED BY <2>1
  <1>16. X # {} => HasBad(t)
    <2>1. ASSUME ~HasBad(t), NEW i \in X PROVE FALSE
      <3>1. i \in a .. b /\ i \in i .. b /\ i - i + 1 <= TweetLimit
        BY <1>0, <1>45
      <3>2. i \in ends(i)
        BY <1>3, <2>1, <3>1
      <3> QED BY <1>4, <2>1, <3>1, <3>2
    <2> QED BY <2>1
  <1>17. \/ Tiles(cut[a], a, b) /\ cut[a] \in Seq(CutPieces(a, b, Q, X))
         \/ X # {} /\ Spoils(cut[a])
    BY <1>7, <1>12, <1>14, CuttingTiles
  <1>18. cut[a] \in Seq(CutPieces(a, b, Q, X)) => cut[a] \in Seq(Light)
    BY <1>15
  <1>19. ASSUME ~HasBad(t) PROVE SafeLimit * Len(cut[a]) <= b - a + SafeLimit
    <2>1. X = {}
      BY <1>16, <1>19
    <2>2. ASSUME NEW i \in a .. b PROVE Q[i] = b \/ Q[i] >= i + SafeLimit - 1
      <3>1. ends(i) # {}
        BY <1>4, <2>1
      <3>2. Q[i] \in i .. b /\ \A y \in ends(i) : y <= Q[i]
        BY <1>2, <1>5, <3>1
      <3>3. CASE b - i + 1 <= TweetLimit
        <4>1. b \in ends(i)
          BY <1>3, <1>19, <3>3
        <4> QED BY <3>2, <4>1
      <3>4. CASE b - i + 1 > TweetLimit
        <4>1. i + TweetLimit - 1 \in i .. b /\ (i + TweetLimit - 1) - i + 1 <= TweetLimit
          BY <1>0, <3>4
        <4>2. i + TweetLimit - 1 \in ends(i)
          BY <1>3, <1>19, <4>1
        <4>3. i + TweetLimit - 1 <= Q[i]
          BY <3>2, <4>2
        <4> QED BY <1>0, <3>2, <4>3
      <3> QED BY <1>0, <3>3, <3>4
    <2>3. Cuts(a, b, Q, {}) /\ Cutting(cut, a, b, Q, {})
      BY <1>7, <1>12, <2>1
    <2>4. \A i \in a .. b + 1 : SafeLimit * Len(cut[i]) <= b - i + SafeLimit
      BY <1>0, <2>2, <2>3, CuttingFew
    <2> QED BY <1>14, <2>4
  <1> QED BY <1>13, <1>16, <1>17, <1>18, <1>19

(* The pieces of o tile a .. b, each fit for a tweet, or one of them is a  *)
(* refusal, for which the text is to blame.                                *)
Fine(t, o, a, b) ==
    \/ Tiles(o, a, b) /\ o \in Seq(Light)
    \/ HasBad(t) /\ Spoils(o)

(* Such pieces are a sequence of spans.                                    *)
LEMMA FineSeq ==
  ASSUME NEW t, NEW o, NEW a, NEW b, Fine(t, o, a, b)
  PROVE  o \in Seq(Span) /\ Len(o) \in Nat
  BY DEF Fine, Tiles, Spoils

(* Nothing is fine for nothing.                                            *)
LEMMA FineNone ==
  ASSUME NEW t, NEW a \in Int, NEW b \in Int, b = a - 1
  PROVE Fine(t, <<>>, a, b)
  <1>1. <<>> \in Seq(Light) /\ Tiles(<<>>, a, b)
    BY TilesNone
  <1> QED BY <1>1 DEF Fine

(* So is one piece that is fit,                                            *)
LEMMA FineOne ==
  ASSUME NEW t, NEW a \in Int, NEW b \in Int, a <= b, b - a + 1 <= SafeLimit
  PROVE  Fine(t, <<<<a, b>>>>, a, b)
  <1>1. <<a, b>> \in Light
    BY TweetSplitAssumption DEF Light, Span, Weight
  <1>2. <<<<a, b>>>> \in Seq(Light)
    BY <1>1
  <1> QED BY <1>2, TilesOne DEF Fine

(* and what is fine up to a point and beyond it is fine together.          *)
LEMMA FineJoin ==
  ASSUME NEW t, NEW o, NEW r, NEW a \in Int, NEW b \in Int, NEW c \in Int,
         Fine(t, o, a, b), Fine(t, r, b + 1, c)
  PROVE  Fine(t, o \o r, a, c) /\ Len(o \o r) = Len(o) + Len(r)
  <1>1. o \in Seq(Span) /\ r \in Seq(Span) /\ Len(o) \in Nat /\ Len(r) \in Nat
    BY FineSeq
  <1>2. /\ o \o r \in Seq(Span) /\ Len(o \o r) = Len(o) + Len(r)
        /\ \A i \in 1 .. Len(o) + Len(r) : (o \o r)[i] = IF i <= Len(o) THEN o[i] ELSE r[i - Len(o)]
    BY <1>1, ConcatProperties
  <1>3. CASE Tiles(o, a, b) /\ o \in Seq(Light) /\ Tiles(r, b + 1, c) /\ r \in Seq(Light)
    <2>1. Tiles(o \o r, a, c)
      BY <1>3, TilesJoin
    <2>2. o \o r \in Seq(Light)
      BY <1>3, ConcatProperties
    <2> QED BY <1>2, <2>1, <2>2 DEF Fine
  <1>4. CASE HasBad(t) /\ Spoils(o)
    <2>1. PICK k \in 1 .. Len(o) : o[k] = <<0, 0>>
      BY <1>4 DEF Spoils
    <2>2. k \in 1 .. Len(o) + Len(r) /\ k <= Len(o)
      BY <1>1
    <2>3. k \in 1 .. Len(o \o r) /\ (o \o r)[k] = <<0, 0>>
      BY <1>2, <2>1, <2>2
    <2> QED BY <1>2, <1>4, <2>3 DEF Fine, Spoils
  <1>5. CASE HasBad(t) /\ Spoils(r)
    <2>1. PICK k \in 1 .. Len(r) : r[k] = <<0, 0>>
      BY <1>5 DEF Spoils
    <2>2. Len(o) + k \in 1 .. Len(o) + Len(r) /\ ~(Len(o) + k <= Len(o)) /\ (Len(o) + k) - Len(o) = k
      BY <1>1
    <2>3. (o \o r)[Len(o) + k] = r[(Len(o) + k) - Len(o)]
      BY <1>2, <2>2
    <2>4. Len(o) + k \in 1 .. Len(o \o r) /\ (o \o r)[Len(o) + k] = <<0, 0>>
      BY <1>2, <2>1, <2>2, <2>3
    <2> QED BY <1>2, <1>5, <2>4 DEF Fine, Spoils
  <1> QED BY <1>3, <1>4, <1>5 DEF Fine

(* The variables of the loop over the tokens.                              *)
Loops == [out : Seq(Span), from : Int, to : Int]

(* The invariant of the loop, before the token that begins at j + 1: what  *)
(* is out and what is held back cover the text up to j, and what is out    *)
(* has not spent more pieces than the text pays for.                       *)
SplitOK(t, s, j) ==
    /\ s \in Loops
    /\ s.to = j /\ 1 <= s.from /\ s.from <= j + 1
    /\ j - s.from + 1 <= SafeLimit
    /\ Fine(t, s.out, 1, s.from - 1)
    /\ HasBad(t) \/ SafeLimit * Len(s.out) <= 3 * (s.from - 1) + 2 * (j - s.from + 1)

(* The text the loop holds back, as a piece when there is any.             *)
HeldBack(s) == IF s.to >= s.from THEN <<<<s.from, s.to>>>> ELSE <<>>

(* The invariant, spelled out for a record.                                *)
LEMMA SplitRecord ==
  ASSUME NEW t, NEW o, NEW f \in Int, NEW j \in Int, 1 <= f, f <= j + 1, j - f + 1 <= SafeLimit,
         Fine(t, o, 1, f - 1),
         HasBad(t) \/ SafeLimit * Len(o) <= 3 * (f - 1) + 2 * (j - f + 1)
  PROVE  SplitOK(t, [out |-> o, from |-> f, to |-> j], j)
  <1> DEFINE new == [out |-> o, from |-> f, to |-> j]
  <1>1. o \in Seq(Span)
    BY FineSeq
  <1>2. new.out = o /\ new.from = f /\ new.to = j /\ new \in Loops
    BY <1>1 DEF Loops
  <1> HIDE DEF new
  <1>3. SplitOK(t, new, j)
    BY <1>2 DEF SplitOK
  <1> QED BY <1>3 DEF new

(* The budget of a piece that is put out because the next token did not    *)
(* fit: the two together exceed the limit.                                 *)
LEMMA BudgetKept ==
  ASSUME NEW S \in Nat, NEW lo \in Nat, NEW lh \in 0 .. 1, NEW f \in Int, NEW j \in Int, NEW q \in Int,
         S * lo <= 3 * (f - 1) + 2 * (j - f + 1), q - f + 1 > S, j < q,
         IF lh = 1 THEN f <= j ELSE f = j + 1
  PROVE  S * (lo + lh) <= 3 * j + 2 * (q - j)
  <1>1. CASE lh = 0
    BY <1>1
  <1>2. CASE lh = 1
    <2>1. S * (lo + 1) = S * lo + S
      OBVIOUS
    <2> QED BY <1>2, <2>1
  <1> QED BY <1>1, <1>2

(* The budget of a long word that is cut.                                  *)
LEMMA BudgetCut ==
  ASSUME NEW S \in Nat, NEW lo \in Nat, NEW lh \in 0 .. 1, NEW ls \in Nat,
         NEW f \in Int, NEW j \in Int, NEW q \in Int,
         S * lo <= 3 * (f - 1) + 2 * (j - f + 1), S * ls <= q - (j + 1) + S, q - j > S,
         IF lh = 1 THEN f <= j ELSE f = j + 1
  PROVE  S * (lo + lh + ls) <= 3 * q
  <1>1. CASE lh = 0
    <2>1. S * (lo + ls) = S * lo + S * ls
      OBVIOUS
    <2> QED BY <1>1, <2>1
  <1>2. CASE lh = 1
    <2>1. S * (lo + 1 + ls) = S * lo + S + S * ls
      OBVIOUS
    <2> QED BY <1>2, <2>1
  <1> QED BY <1>1, <1>2

(* A turn of the loop keeps the invariant.                                 *)
LEMMA AddTokenKeeps ==
  ASSUME NEW t \in Seq(Chars), NEW s, NEW j \in Nat, SplitOK(t, s, j), NEW q \in Nat, j < q, q <= Len(t)
  PROVE  SplitOK(t, AddToken(t, s, <<j + 1, q>>), q)
  <1> DEFINE token == <<j + 1, q>>
             new == AddToken(t, s, token)
             f == s.from
             o == s.out
             hs == HardSplit(t, token)
             hd == HeldBack(s)
             w == q - (j + 1) + 1
  <1>0. SafeLimit \in Nat \ {0} /\ TweetLimit \in Nat /\ SafeLimit <= TweetLimit
    BY TweetSplitAssumption
  <1>1. /\ s \in Loops /\ s.to = j /\ 1 <= f /\ f <= j + 1 /\ j - f + 1 <= SafeLimit /\ f \in Int
            /\ s.to \in Int
        /\ Fine(t, o, 1, f - 1) /\ Len(o) \in Nat /\ o \in Seq(Span)
        /\ HasBad(t) \/ SafeLimit * Len(o) <= 3 * (f - 1) + 2 * (j - f + 1)
    BY FineSeq DEF SplitOK, Loops
  <1>2. token[1] = j + 1 /\ token[2] = q /\ Weight(token) = q - (j + 1) + 1
    BY DEF Weight
  <1>15. s = [out |-> o, from |-> f, to |-> s.to]
    BY <1>1 DEF Loops
  <1>3. CASE q - f + 1 <= SafeLimit
    <2>1. new = [s EXCEPT !.to = q]
      BY <1>2, <1>3 DEF AddToken
    <2>2. new = [out |-> o, from |-> f, to |-> q]
      BY <1>15, <2>1
    <2> HIDE DEF new, o, f
    <2>3. f \in Int /\ q \in Int /\ f <= q + 1
      BY <1>1
    <2>4. SafeLimit * Len(o) \in Int
      BY <1>0, <1>1
    <2>5. HasBad(t) \/ SafeLimit * Len(o) <= 3 * (f - 1) + 2 * (q - f + 1)
      BY <1>1, <2>3, <2>4
    <2>6. SplitOK(t, [out |-> o, from |-> f, to |-> q], q)
      BY <1>1, <1>3, <2>3, <2>5, SplitRecord
    <2> QED BY <2>2, <2>6 DEF new
  <1>4. CASE ~(q - f + 1 <= SafeLimit)
    <2>1. new = [out  |-> o \o hd \o (IF w > SafeLimit THEN hs ELSE <<>>),
                 from |-> IF w > SafeLimit THEN q + 1 ELSE j + 1, to |-> q]
      BY <1>2, <1>4, Zenon DEF AddToken, HeldBack
    <2>2. /\ Fine(t, hd, f, j) /\ Len(hd) \in 0 .. 1
          /\ IF Len(hd) = 1 THEN f <= j ELSE f = j + 1
      <3>1. CASE j >= f
        <4>1. hd = <<<<f, j>>>>
          BY <1>1, <3>1 DEF HeldBack
        <4>2. Fine(t, <<<<f, j>>>>, f, j) /\ Len(<<<<f, j>>>>) = 1
          BY <1>1, <3>1, FineOne
        <4> QED BY <3>1, <4>1, <4>2
      <3>2. CASE ~(j >= f)
        <4>1. hd = <<>> /\ j = f - 1
          BY <1>1, <3>2 DEF HeldBack
        <4>2. Fine(t, <<>>, f, j) /\ Len(<<>>) = 0
          BY <1>1, <4>1, FineNone
        <4> QED BY <1>1, <4>1, <4>2
      <3> QED BY <3>1, <3>2
    <2>3. Fine(t, hs, j + 1, q) /\ (HasBad(t) \/ SafeLimit * Len(hs) <= q - (j + 1) + SafeLimit)
      BY HardSplitTiles DEF Fine
    <2> HIDE DEF new, o, f, hd, hs
    <2>4. f - 1 \in Int /\ (f - 1) + 1 = f /\ f \in Int
      BY <1>1
    <2>5. Fine(t, o \o hd, 1, j) /\ Len(o \o hd) = Len(o) + Len(hd)
      BY <1>1, <2>2, <2>4, FineJoin
    <2> DEFINE oh == o \o hd
    <2>6. oh \in Seq(Span) /\ Len(oh) = Len(o) + Len(hd) /\ Fine(t, oh, 1, j)
      BY <2>5, FineSeq
    <2>7. CASE ~(w > SafeLimit)
      <3>1. oh \o <<>> = oh
        BY <2>6, ConcatEmptySeq
      <3>2. new = [out |-> oh, from |-> j + 1, to |-> q]
        BY <2>1, <2>7, <3>1
      <3> HIDE DEF oh
      <3>3. HasBad(t) \/ SafeLimit * (Len(o) + Len(hd)) <= 3 * j + 2 * (q - j)
        <4> DEFINE lo == Len(o)
                   lh == Len(hd)
        <4>1. q - f + 1 > SafeLimit /\ SafeLimit \in Nat
          BY <1>0, <1>4, <2>4
        <4>2. lo \in Nat /\ lh \in 0 .. 1 /\ f \in Int /\ (IF lh = 1 THEN f <= j ELSE f = j + 1)
          BY <1>1, <2>2, <2>4
        <4>3. HasBad(t) \/ SafeLimit * lo <= 3 * (f - 1) + 2 * (j - f + 1)
          BY <1>1
        <4> HIDE DEF lo, lh
        <4>4. HasBad(t) \/ SafeLimit * (lo + lh) <= 3 * j + 2 * (q - j)
          BY <4>1, <4>2, <4>3, BudgetKept
        <4> QED BY <4>4 DEF lo, lh
      <3>4. (j + 1) - 1 = j /\ q - (j + 1) + 1 = q - j /\ j + 1 \in Int
        OBVIOUS
      <3>5. HasBad(t) \/ SafeLimit * Len(oh) <= 3 * ((j + 1) - 1) + 2 * (q - (j + 1) + 1)
        BY <2>6, <3>3, <3>4
      <3>6. Fine(t, oh, 1, (j + 1) - 1) /\ 1 <= j + 1 /\ j + 1 <= q + 1 /\ q - (j + 1) + 1 <= SafeLimit
        BY <1>0, <2>6, <2>7, <3>4
      <3>7. SplitOK(t, [out |-> oh, from |-> j + 1, to |-> q], q)
        BY <3>4, <3>5, <3>6, SplitRecord
      <3> QED BY <3>2, <3>7 DEF new
    <2>8. CASE w > SafeLimit
      <3>1. new = [out |-> oh \o hs, from |-> q + 1, to |-> q]
        BY <2>1, <2>8
      <3> HIDE DEF oh
      <3>2. Fine(t, oh \o hs, 1, q) /\ Len(oh \o hs) = Len(oh) + Len(hs)
        BY <2>6, <2>3, FineJoin
      <3>3. Len(hs) \in Nat /\ Len(oh \o hs) = Len(o) + Len(hd) + Len(hs)
        BY <2>3, <2>6, <3>2, FineSeq
      <3>4. HasBad(t) \/ SafeLimit * (Len(o) + Len(hd) + Len(hs)) <= 3 * q
        <4> DEFINE lo == Len(o)
                   lh == Len(hd)
                   ls == Len(hs)
        <4>1. q - j > SafeLimit /\ SafeLimit \in Nat
          BY <1>0, <2>8
        <4>2. lo \in Nat /\ lh \in 0 .. 1 /\ ls \in Nat /\ f \in Int
          BY <1>1, <2>2, <2>4, <3>3
        <4>3. IF lh = 1 THEN f <= j ELSE f = j + 1
          BY <2>2
        <4>4. HasBad(t) \/ SafeLimit * lo <= 3 * (f - 1) + 2 * (j - f + 1)
          BY <1>1
        <4>5. HasBad(t) \/ SafeLimit * ls <= q - (j + 1) + SafeLimit
          BY <2>3
        <4> HIDE DEF lo, lh, ls
        <4>6. HasBad(t) \/ SafeLimit * (lo + lh + ls) <= 3 * q
          BY <4>1, <4>2, <4>3, <4>4, <4>5, BudgetCut
        <4> QED BY <4>6 DEF lo, lh, ls
      <3> DEFINE g == q + 1
      <3>5. g \in Int /\ g - 1 = q /\ q - g + 1 = 0 /\ 3 * q + 2 * 0 = 3 * q
        OBVIOUS
      <3>6. HasBad(t) \/ SafeLimit * Len(oh \o hs) <= 3 * (g - 1) + 2 * (q - g + 1)
        BY <3>3, <3>4, <3>5
      <3>7. Fine(t, oh \o hs, 1, g - 1) /\ 1 <= g /\ g <= q + 1 /\ q - g + 1 <= SafeLimit
        BY <1>0, <3>2, <3>5
      <3> DEFINE oo == oh \o hs
      <3>9. (HasBad(t) \/ SafeLimit * Len(oo) <= 3 * (g - 1) + 2 * (q - g + 1)) /\ Fine(t, oo, 1, g - 1)
        BY <3>6, <3>7
      <3>10. q \in Int /\ g \in Int
        BY <3>5
      <3> HIDE DEF g, oo
      <3>8. SplitOK(t, [out |-> oo, from |-> g, to |-> q], q)
        BY <3>7, <3>9, <3>10, SplitRecord
      <3> QED BY <3>1, <3>8 DEF new, g, oo
    <2> QED BY <2>7, <2>8
  <1> QED BY <1>3, <1>4

(* A turn of the loop leaves such variables.                               *)
AddTokenType(t) == \A s \in Loops : \A c \in Span :
    1 <= c[1] /\ c[1] <= c[2] /\ c[2] <= Len(t) => AddToken(t, s, c) \in Loops

(* It does for every text.                                                 *)
LEMMA AddTokenIsLoop == ASSUME NEW t \in Seq(Chars) PROVE AddTokenType(t)
  <1> SUFFICES ASSUME NEW s \in Loops, NEW c \in Span, 1 <= c[1], c[1] <= c[2], c[2] <= Len(t)
               PROVE AddToken(t, s, c) \in Loops
    BY DEF AddTokenType
  <1> DEFINE hs == HardSplit(t, c)
             hd == HeldBack(s)
             w == Weight(c)
             f == s.from
             o == s.out
             new == AddToken(t, s, c)
  <1>1. s \in Loops /\ f \in Int /\ s.to \in Int /\ o \in Seq(Span) /\ c[1] \in Int /\ c[2] \in Int
    BY DEF Loops, Span
  <1>2. hs \in Seq(Span)
    <2>1. c = <<c[1], c[2]>>
      BY DEF Span
    <2>2. HardSplit(t, <<c[1], c[2]>>) \in Seq(Span)
      BY <1>1, HardSplitTiles DEF Tiles, Spoils
    <2> QED BY <2>1, <2>2
  <1>3. hd \in Seq(Span)
    <2>1. <<s.from, s.to>> \in Span
      BY <1>1 DEF Span
    <2> QED BY <2>1 DEF HeldBack
  <1>4. CASE c[2] - f + 1 <= SafeLimit
    <2>1. new = [s EXCEPT !.to = c[2]]
      BY <1>4, Zenon DEF AddToken
    <2> QED BY <1>1, <2>1 DEF Loops
  <1>5. CASE ~(c[2] - f + 1 <= SafeLimit)
    <2>1. new = [out  |-> o \o hd \o (IF w > SafeLimit THEN hs ELSE <<>>),
                 from |-> IF w > SafeLimit THEN c[2] + 1 ELSE c[1], to |-> c[2]]
      BY <1>5, Zenon DEF AddToken, HeldBack
    <2> HIDE DEF new, o, hd, hs, f, w
    <2>2. o \o hd \in Seq(Span)
      BY <1>1, <1>3
    <2>3. (IF w > SafeLimit THEN hs ELSE <<>>) \in Seq(Span)
      BY <1>2
    <2>4. o \o hd \o (IF w > SafeLimit THEN hs ELSE <<>>) \in Seq(Span)
      BY <2>2, <2>3
    <2>5. (IF w > SafeLimit THEN c[2] + 1 ELSE c[1]) \in Int
      BY <1>1
    <2>6. new \in Loops
      BY <1>1, <2>1, <2>4, <2>5 DEF Loops
    <2> QED BY <2>6 DEF new
  <1> QED BY <1>4, <1>5

(* The variables at the end of the loop.                                   *)
LoopEnd(t) == FoldLeft(LAMBDA s, token : AddToken(t, s, token),
                       [out |-> <<>>, from |-> 1, to |-> 0], Tokens(t))

(* The invariant holds there: by induction over the tokens.                *)
LEMMA LoopEnds ==
  ASSUME NEW t \in Seq(Chars)
  PROVE SplitOK(t, LoopEnd(t), Len(t))
  <1> DEFINE tok == Tokens(t)
             n == Len(tok)
             base == [out |-> <<>>, from |-> 1, to |-> 0]
             Body(H) == [s \in SUBSET DOMAIN tok |->
                           IF s = {} THEN base ELSE AddToken(t, H[s \ {Max(s)}], tok[Max(s)])]
             iter == CHOOSE H : H = Body(H)
             G == [z \in Loops \X (1 .. n) |-> AddToken(t, z[1], tok[z[2]])]
             e(k) == IF k = 0 THEN 0 ELSE tok[k][2]
  <1>1. /\ Tiles(tok, 1, Len(t)) /\ tok \in Seq(Span) /\ n \in Nat /\ DOMAIN tok = 1 .. n
        /\ Len(t) \in Nat
    BY TokensTile DEF Tiles
  <1>2. \A k \in 1 .. n : tok[k] \in Span /\ 1 <= tok[k][1] /\ tok[k][1] <= tok[k][2]
        /\ tok[k][2] <= Len(t)
    BY <1>1, TilesSpread
  <1>3. LoopEnd(t) = iter[DOMAIN tok]
    BY DEF LoopEnd, FoldLeft, MapThenFoldSet, iter, Body, base
  <1>4. base \in Loops
    <2>1. <<>> \in Seq(Span)
      OBVIOUS
    <2> QED BY <2>1 DEF Loops
  <1> HIDE DEF tok, base
  <1>5. G \in [Loops \X (1 .. n) -> Loops]
    <2>1. ASSUME NEW s \in Loops, NEW k \in 1 .. n PROVE AddToken(t, s, tok[k]) \in Loops
      BY <1>2, AddTokenIsLoop DEF AddTokenType
    <2> QED BY <2>1
  <1> HIDE DEF n
  <1>55. LoopBy(n, Loops, base, G)
    BY <1>1, <1>4, <1>5 DEF LoopBy
  <1>56. PICK F : LoopOf(F, n, Loops, base, G)
    BY <1>55, LoopExists
  <1>6. /\ F \in [SUBSET (1 .. n) -> Loops]
        /\ \A s \in SUBSET (1 .. n) : F[s] = IF s = {} THEN base ELSE G[<<F[s \ {Max(s)}], Max(s)>>]
    BY <1>56 DEF LoopOf
  <1>7. F = Body(F)
    <2>1. ASSUME NEW s \in SUBSET (1 .. n), s # {}
          PROVE  F[s] = AddToken(t, F[s \ {Max(s)}], tok[Max(s)])
      <3>1. F[s] = G[<<F[s \ {Max(s)}], Max(s)>>]
        BY <1>6, <2>1
      <3>2. F[s \ {Max(s)}] \in Loops
        BY <1>6
      <3>3. Max(s) \in 1 .. n
        <4>1. IsFiniteSet(1 .. n) /\ s \in SUBSET Int
          BY <1>1, FS_Interval
        <4>2. IsFiniteSet(s)
          BY <4>1, FS_Subset
        <4>3. Max(s) \in s
          BY <2>1, <4>1, <4>2, SetHasMax
        <4> QED BY <4>3
      <3> QED BY <3>1, <3>2, <3>3
    <2>2. \A s \in SUBSET (1 .. n) : F[s] = IF s = {} THEN base
          ELSE AddToken(t, F[s \ {Max(s)}], tok[Max(s)])
      BY <1>6, <2>1
    <2>3. F = [s \in SUBSET (1 .. n) |-> IF s = {} THEN base
          ELSE AddToken(t, F[s \ {Max(s)}], tok[Max(s)])]
      BY <1>6, <2>2
    <2> QED BY <1>1, <2>3
  <1> HIDE DEF Body
  <1>8. iter = Body(iter)
    BY <1>7
  <1> HIDE DEF iter
  <1>9. /\ iter[{}] = base
        /\ \A k \in 1 .. n : iter[1 .. k] = AddToken(t, iter[1 .. (k - 1)], tok[k])
    <2>1. iter = [s \in SUBSET (1 .. n) |-> IF s = {} THEN base
          ELSE AddToken(t, iter[s \ {Max(s)}], tok[Max(s)])]
      BY <1>1, <1>8 DEF Body
    <2>2. \A s \in SUBSET (1 .. n) : iter[s] = IF s = {} THEN base
          ELSE AddToken(t, iter[s \ {Max(s)}], tok[Max(s)])
      BY <2>1
    <2>3. iter[{}] = base
      BY <2>2
    <2>4. ASSUME NEW k \in 1 .. n PROVE iter[1 .. k] = AddToken(t, iter[1 .. (k - 1)], tok[k])
      <3>1. /\ 1 .. k \in SUBSET (1 .. n) /\ 1 .. k # {}
            /\ Max(1 .. k) = k /\ (1 .. k) \ {k} = 1 .. (k - 1)
        BY <1>1, PrefixLess
      <3> QED BY <2>2, <3>1
    <2> QED BY <2>3, <2>4
  <1>10. ASSUME NEW k \in 1 .. n
         PROVE  e(k - 1) \in Nat /\ e(k) \in Nat /\ e(k - 1) < e(k) /\ e(k) <= Len(t)
               /\ tok[k] = <<e(k - 1) + 1, e(k)>>
    <2>1. tok[k] = <<tok[k][1], tok[k][2]>> /\ tok[k][1] \in Int /\ tok[k][2] \in Int
      BY <1>2 DEF Span
    <2>2. CASE k = 1
      <3>1. tok[k][1] = 1
        BY <1>1, <2>2 DEF Tiles, n
      <3>2. 1 <= tok[k][2] /\ tok[k][2] <= Len(t)
        BY <1>2, <2>1, <3>1
      <3> QED BY <1>1, <2>1, <2>2, <3>1, <3>2
    <2>3. CASE k # 1
      <3>1. k - 1 \in 1 .. n - 1 /\ k - 1 \in 1 .. n /\ (k - 1) + 1 = k /\ k - 1 # 0 /\ k # 0
        BY <1>1, <2>3
      <3>2. tok[(k - 1) + 1][1] = tok[k - 1][2] + 1
        BY <1>1, <3>1 DEF Tiles, n
      <3>3. tok[k - 1][2] \in Int /\ tok[k - 1][1] \in Int
        BY <1>2, <3>1 DEF Span
      <3>4. e(k - 1) = tok[k - 1][2] /\ e(k) = tok[k][2]
        BY <3>1
      <3>5. 1 <= tok[k][1] /\ tok[k][1] <= tok[k][2] /\ tok[k][2] <= Len(t) /\ 1 <= tok[k - 1][1]
            /\ tok[k - 1][1] <= tok[k - 1][2]
        BY <1>2, <3>1
      <3> HIDE DEF e
      <3> QED BY <1>1, <2>1, <3>1, <3>2, <3>3, <3>4, <3>5
    <2> QED BY <2>2, <2>3
  <1>105. e(0) = 0 /\ e(n) = Len(t)
    BY <1>1 DEF Tiles, n
  <1> HIDE DEF e
  <1> DEFINE L == {k \in Nat : k \in 0 .. n => SplitOK(t, iter[1 .. k], e(k))}
  <1>11. 0 \in L
    <2>1. iter[1 .. 0] = base
      BY <1>9
    <2>2. 1 - 1 = 0 /\ 0 - 1 + 1 = 0 /\ Len(<<>>) = 0
      OBVIOUS
    <2>3. Fine(t, <<>>, 1, 0)
      <3>1. \A a, b \in Int : b = a - 1 => Fine(t, <<>>, a, b)
        BY FineNone
      <3>2. 1 \in Int /\ 0 \in Int /\ 0 = 1 - 1
        OBVIOUS
      <3> QED BY <3>1, <3>2, Zenon
    <2>4. SafeLimit * Len(<<>>) <= 3 * (1 - 1) + 2 * (0 - 1 + 1)
      BY <2>2, TweetSplitAssumption
    <2>5. 0 - 1 + 1 <= SafeLimit /\ 1 <= 0 + 1
      BY TweetSplitAssumption
    <2>6. SplitOK(t, [out |-> <<>>, from |-> 1, to |-> 0], 0)
      BY <2>3, <2>4, <2>5, SplitRecord
    <2> QED BY <1>105, <2>1, <2>6 DEF base
  <1>12. ASSUME NEW k \in Nat, k \in L PROVE k + 1 \in L
    <2> SUFFICES ASSUME k + 1 \in 0 .. n PROVE SplitOK(t, iter[1 .. (k + 1)], e(k + 1))
      OBVIOUS
    <2>1. k \in 0 .. n /\ k + 1 \in 1 .. n /\ (k + 1) - 1 = k
      BY <1>1
    <2>2. SplitOK(t, iter[1 .. k], e(k))
      BY <1>12, <2>1
    <2>3. iter[1 .. (k + 1)] = AddToken(t, iter[1 .. k], tok[k + 1])
      BY <1>9, <2>1
    <2>4. e(k) \in Nat /\ e(k + 1) \in Nat /\ e(k) < e(k + 1) /\ e(k + 1) <= Len(t)
      BY <1>10, <2>1
    <2>5. tok[k + 1] = <<e(k) + 1, e(k + 1)>>
      BY <1>10, <2>1
    <2>6. SplitOK(t, AddToken(t, iter[1 .. k], <<e(k) + 1, e(k + 1)>>), e(k + 1))
      BY <2>2, <2>4, AddTokenKeeps
    <2> QED BY <2>3, <2>5, <2>6
  <1> HIDE DEF L
  <1>13. n \in L
    BY <1>1, <1>11, <1>12, NatInd
  <1>14. SplitOK(t, iter[1 .. n], e(n))
    BY <1>1, <1>13 DEF L
  <1> QED BY <1>1, <1>3, <1>105, <1>14

(* filter(Boolean): the chunks that show something.                        *)
Sifted(t, all) == FoldLeft(LAMBDA kept, c : IF Shows(t, c) THEN Append(kept, c) ELSE kept, <<>>, all)

(* r holds those of the first k chunks, and them only, in their order.     *)
SiftOK(t, all, r, k) ==
    /\ r \in Seq(Span) /\ Len(r) <= k
    /\ \A i \in 1 .. Len(r) : Shows(t, r[i]) /\ \E l \in 1 .. k : r[i] = all[l]
    /\ \A i \in 1 .. Len(r) : i # 1 => \E l, m \in 1 .. k : l < m /\ r[i - 1] = all[l] /\ r[i] = all[m]
    /\ \A l \in 1 .. k : Shows(t, all[l]) => \E i \in 1 .. Len(r) : r[i] = all[l]

(* A turn of the filter keeps that.                                        *)
LEMMA SiftStep ==
  ASSUME NEW t, NEW all \in Seq(Span), NEW r, NEW k \in Nat, k + 1 <= Len(all), SiftOK(t, all, r, k)
  PROVE  SiftOK(t, all, IF Shows(t, all[k + 1]) THEN Append(r, all[k + 1]) ELSE r, k + 1)
  <1> DEFINE c == all[k + 1]
             new == IF Shows(t, c) THEN Append(r, c) ELSE r
  <1>1. r \in Seq(Span) /\ Len(r) \in Nat /\ Len(r) <= k
    BY DEF SiftOK
  <1>2. c \in Span /\ k + 1 \in 1 .. k + 1 /\ \A l \in 1 .. k : l \in 1 .. k + 1 /\ l < k + 1
    OBVIOUS
  <1>3. \A i \in 1 .. Len(r) : Shows(t, r[i]) /\ \E l \in 1 .. k : r[i] = all[l]
    BY DEF SiftOK
  <1>4. \A i \in 1 .. Len(r) : i # 1 => \E l, m \in 1 .. k : l < m /\ r[i - 1] = all[l] /\ r[i] = all[m]
    BY DEF SiftOK
  <1>5. \A l \in 1 .. k : Shows(t, all[l]) => \E i \in 1 .. Len(r) : r[i] = all[l]
    BY DEF SiftOK
  <1>55. all[k + 1] = c
    OBVIOUS
  <1> HIDE DEF c
  <1>6. CASE ~Shows(t, c)
    <2>1. new = r
      BY <1>6
    <2>2. \A l \in 1 .. k + 1 : Shows(t, all[l]) => \E i \in 1 .. Len(r) : r[i] = all[l]
      <3> SUFFICES ASSUME NEW l \in 1 .. k + 1, Shows(t, all[l])
            PROVE \E i \in 1 .. Len(r) : r[i] = all[l]
        OBVIOUS
      <3>1. l # k + 1
        BY <1>6, <1>55
      <3>2. l \in 1 .. k
        BY <3>1
      <3> QED BY <1>5, <3>2
    <2>3. \A i \in 1 .. Len(r) : Shows(t, r[i]) /\ \E l \in 1 .. k + 1 : r[i] = all[l]
      BY <1>2, <1>3
    <2>4. \A i \in 1 .. Len(r) : i # 1 => \E l, m \in 1 .. k + 1 : l < m /\ r[i - 1] = all[l]
          /\ r[i] = all[m]
      BY <1>2, <1>4
    <2>5. Len(r) <= k + 1
      BY <1>1
    <2>6. SiftOK(t, all, r, k + 1)
      BY <1>1, <2>2, <2>3, <2>4, <2>5 DEF SiftOK
    <2> QED BY <2>1, <2>6 DEF c
  <1>7. CASE Shows(t, c)
    <2> DEFINE n == Append(r, c)
    <2>1. n \in Seq(Span) /\ Len(n) = Len(r) + 1 /\ n[Len(r) + 1] = c
      BY <1>1, <1>2
    <2>2. \A i \in 1 .. Len(r) : n[i] = r[i]
      BY <1>1, <1>2
    <2>25. new = n
      BY <1>7
    <2> HIDE DEF n, new
    <2>3. \A l \in 1 .. k + 1 : Shows(t, all[l]) => \E i \in 1 .. Len(n) : n[i] = all[l]
      <3> SUFFICES ASSUME NEW l \in 1 .. k + 1, Shows(t, all[l])
            PROVE \E i \in 1 .. Len(n) : n[i] = all[l]
        OBVIOUS
      <3>1. CASE l = k + 1
        BY <1>1, <1>55, <2>1, <3>1
      <3>2. CASE l # k + 1
        <4>1. l \in 1 .. k
          BY <3>2
        <4>2. PICK i \in 1 .. Len(r) : r[i] = all[l]
          BY <1>5, <4>1
        <4>3. i \in 1 .. Len(n) /\ n[i] = all[l]
          BY <1>1, <2>1, <2>2, <4>2
        <4> QED BY <4>3
      <3> QED BY <3>1, <3>2
    <2>4. ASSUME NEW i \in 1 .. Len(n) PROVE Shows(t, n[i]) /\ \E l \in 1 .. k + 1 : n[i] = all[l]
      <3>1. CASE i = Len(r) + 1
        BY <1>2, <1>55, <1>7, <2>1, <3>1
      <3>2. CASE i # Len(r) + 1
        <4>1. i \in 1 .. Len(r)
          BY <1>1, <2>1, <3>2
        <4> QED BY <1>2, <1>3, <2>2, <4>1
      <3> QED BY <3>1, <3>2
    <2>5. ASSUME NEW i \in 1 .. Len(n), i # 1
          PROVE  \E l, m \in 1 .. k + 1 : l < m /\ n[i - 1] = all[l] /\ n[i] = all[m]
      <3>1. CASE i = Len(r) + 1
        <4>1. i - 1 \in 1 .. Len(r) /\ n[i - 1] = r[i - 1] /\ n[i] = all[k + 1]
          BY <1>1, <1>55, <2>1, <2>2, <2>5, <3>1
        <4>2. PICK l \in 1 .. k : r[i - 1] = all[l]
          BY <1>3, <4>1
        <4> QED BY <1>2, <4>1, <4>2
      <3>2. CASE i # Len(r) + 1
        <4>1. i \in 1 .. Len(r) /\ i - 1 \in 1 .. Len(r)
          BY <1>1, <2>1, <2>5, <3>2
        <4>2. n[i] = r[i] /\ n[i - 1] = r[i - 1]
          BY <2>2, <4>1
        <4>3. PICK l, m \in 1 .. k : l < m /\ r[i - 1] = all[l] /\ r[i] = all[m]
          BY <1>4, <2>5, <4>1
        <4> QED BY <1>2, <4>2, <4>3
      <3> QED BY <3>1, <3>2
    <2>6. Len(n) <= k + 1
      BY <1>1, <2>1
    <2>7. SiftOK(t, all, n, k + 1)
      BY <2>1, <2>3, <2>4, <2>5, <2>6 DEF SiftOK
    <2> QED BY <2>25, <2>7 DEF new, c
  <1> QED BY <1>6, <1>7

(* Hence the filter gives what it says.                                    *)
LEMMA SiftKeeps ==
  ASSUME NEW t, NEW all \in Seq(Span)
  PROVE SiftOK(t, all, Sifted(t, all), Len(all))
  <1> DEFINE n == Len(all)
             V == Seq(Span)
             add(r, c) == IF Shows(t, c) THEN Append(r, c) ELSE r
             Body(H) == [s \in SUBSET DOMAIN all |->
                           IF s = {} THEN <<>>
                           ELSE IF Shows(t, all[Max(s)]) THEN Append(H[s \ {Max(s)}], all[Max(s)])
                           ELSE H[s \ {Max(s)}]]
             iter == CHOOSE H : H = Body(H)
             G == [z \in V \X (1 .. n) |-> add(z[1], all[z[2]])]
  <1>1. n \in Nat /\ DOMAIN all = 1 .. n /\ \A k \in 1 .. n : all[k] \in Span
    OBVIOUS
  <1>2. Sifted(t, all) = iter[DOMAIN all]
    BY DEF Sifted, FoldLeft, MapThenFoldSet, iter, Body
  <1>3. <<>> \in V
    OBVIOUS
  <1> HIDE DEF n
  <1>4. G \in [V \X (1 .. n) -> V]
    <2>1. ASSUME NEW r \in V, NEW k \in 1 .. n PROVE add(r, all[k]) \in V
      BY <1>1
    <2> HIDE DEF add, V
    <2> QED BY <2>1
  <1>5. LoopBy(n, V, <<>>, G)
    BY <1>1, <1>3, <1>4 DEF LoopBy
  <1>6. PICK F : LoopOf(F, n, V, <<>>, G)
    BY <1>5, LoopExists
  <1> HIDE DEF V
  <1>7. F = Body(F)
    <2>1. ASSUME NEW s \in SUBSET (1 .. n), s # {}
          PROVE  F[s] = add(F[s \ {Max(s)}], all[Max(s)])
      <3>1. F[s] = G[<<F[s \ {Max(s)}], Max(s)>>]
        BY <1>6, <2>1 DEF LoopOf
      <3>2. F[s \ {Max(s)}] \in V
        BY <1>6 DEF LoopOf
      <3>3. Max(s) \in 1 .. n
        <4>1. IsFiniteSet(1 .. n) /\ s \in SUBSET Int
          BY <1>1, FS_Interval
        <4>2. IsFiniteSet(s)
          BY <4>1, FS_Subset
        <4>3. Max(s) \in s
          BY <2>1, <4>1, <4>2, SetHasMax
        <4> QED BY <4>3
      <3> HIDE DEF add
      <3> QED BY <3>1, <3>2, <3>3
    <2>2. \A s \in SUBSET (1 .. n) : F[s] = IF s = {} THEN <<>> ELSE add(F[s \ {Max(s)}], all[Max(s)])
      <3> HIDE DEF add
      <3> QED BY <1>6, <2>1 DEF LoopOf
    <2>3. F = [s \in SUBSET (1 .. n) |-> IF s = {} THEN <<>> ELSE add(F[s \ {Max(s)}], all[Max(s)])]
      <3> HIDE DEF add
      <3> QED BY <1>6, <2>2 DEF LoopOf
    <2> QED BY <1>1, <2>3
  <1> HIDE DEF Body
  <1>8. iter = Body(iter)
    BY <1>7
  <1> HIDE DEF iter
  <1>9. /\ iter[{}] = <<>>
        /\ \A k \in 1 .. n : iter[1 .. k] = add(iter[1 .. (k - 1)], all[k])
    <2>1. iter = [s \in SUBSET (1 .. n) |-> IF s = {} THEN <<>>
          ELSE add(iter[s \ {Max(s)}], all[Max(s)])]
      BY <1>1, <1>8 DEF Body
    <2> HIDE DEF add
    <2>2. \A s \in SUBSET (1 .. n) : iter[s] = IF s = {} THEN <<>>
          ELSE add(iter[s \ {Max(s)}], all[Max(s)])
      BY <2>1
    <2>3. iter[{}] = <<>>
      BY <2>2
    <2>4. ASSUME NEW k \in 1 .. n PROVE iter[1 .. k] = add(iter[1 .. (k - 1)], all[k])
      <3>1. /\ 1 .. k \in SUBSET (1 .. n) /\ 1 .. k # {}
            /\ Max(1 .. k) = k /\ (1 .. k) \ {k} = 1 .. (k - 1)
        BY <1>1, PrefixLess
      <3> QED BY <2>2, <3>1
    <2> QED BY <2>3, <2>4
  <1> DEFINE L == {k \in Nat : k \in 0 .. n => SiftOK(t, all, iter[1 .. k], k)}
  <1>11. 0 \in L
    <2>1. iter[1 .. 0] = <<>>
      BY <1>9
    <2>2. <<>> \in Seq(Span) /\ Len(<<>>) = 0
      OBVIOUS
    <2>3. SiftOK(t, all, <<>>, 0)
      BY <2>2 DEF SiftOK
    <2> QED BY <2>1, <2>3
  <1>12. ASSUME NEW k \in Nat, k \in L PROVE k + 1 \in L
    <2> SUFFICES ASSUME k + 1 \in 0 .. n PROVE SiftOK(t, all, iter[1 .. (k + 1)], k + 1)
      OBVIOUS
    <2>1. k \in 0 .. n /\ k + 1 \in 1 .. n /\ (k + 1) - 1 = k /\ k + 1 <= n
      BY <1>1
    <2>2. SiftOK(t, all, iter[1 .. k], k)
      BY <1>12, <2>1
    <2>3. iter[1 .. (k + 1)] = add(iter[1 .. k], all[k + 1])
      <3> HIDE DEF add
      <3> QED BY <1>9, <2>1
    <2>4. SiftOK(t, all, add(iter[1 .. k], all[k + 1]), k + 1)
      BY <2>1, <2>2, SiftStep DEF n
    <2> HIDE DEF add
    <2> QED BY <2>3, <2>4
  <1> HIDE DEF L
  <1>13. n \in L
    BY <1>1, <1>11, <1>12, NatInd
  <1>14. SiftOK(t, all, iter[1 .. n], n)
    BY <1>1, <1>13 DEF L
  <1> QED BY <1>1, <1>2, <1>14 DEF n

(* The chunks before the filter: those of the loop, and what was held back *)
(* at its end.                                                             *)
Chunks(t) == IF LoopEnd(t).to >= LoopEnd(t).from
             THEN Append(LoopEnd(t).out, <<LoopEnd(t).from, LoopEnd(t).to>>) ELSE LoopEnd(t).out

(* The code's function in these terms.                                     *)
LEMMA SplitIs == ASSUME NEW t PROVE SplitByWeight(t) = Sifted(t, Chunks(t))
  BY DEF SplitByWeight, Sifted, Chunks, LoopEnd

(* The chunks cover the text, or a refusal is among them that the text is  *)
(* to blame for.                                                           *)
LEMMA ChunksFine ==
  ASSUME NEW t \in Seq(Chars)
  PROVE  /\ Fine(t, Chunks(t), 1, Len(t))
         /\ HasBad(t) \/ SafeLimit * Len(Chunks(t)) < 3 * Len(t) + SafeLimit
  <1> DEFINE s == LoopEnd(t)
             o == s.out
             f == s.from
             n == Len(t)
  <1>0. SafeLimit \in Nat \ {0}
    BY TweetSplitAssumption
  <1>1. SplitOK(t, s, n)
    BY LoopEnds
  <1> HIDE DEF s
  <1>2. /\ n \in Nat /\ s.to = n /\ f \in Int /\ 1 <= f /\ f <= n + 1 /\ n - f + 1 <= SafeLimit
        /\ Fine(t, o, 1, f - 1) /\ Len(o) \in Nat /\ o \in Seq(Span)
        /\ HasBad(t) \/ SafeLimit * Len(o) <= 3 * (f - 1) + 2 * (n - f + 1)
    BY <1>1, FineSeq DEF SplitOK, Loops
  <1>3. CASE n >= f
    <2> DEFINE h == <<<<f, n>>>>
    <2>1. Chunks(t) = Append(o, <<f, n>>)
      BY <1>2, <1>3 DEF Chunks, s
    <2>2. Append(o, <<f, n>>) = o \o h
      <3>1. <<f, n>> \in Span
        BY <1>2 DEF Span
      <3> QED BY <1>2, <3>1, AppendIsConcat
    <2>3. Fine(t, h, f, n) /\ Len(h) = 1
      BY <1>2, <1>3, FineOne
    <2> HIDE DEF h, o, f, n
    <2> DEFINE g == f - 1
    <2>4. g \in Int /\ g + 1 = f /\ Fine(t, o, 1, g)
      BY <1>2
    <2> HIDE DEF g
    <2>45. Fine(t, h, g + 1, n) /\ n \in Int /\ 1 \in Int
      BY <1>2, <2>3, <2>4
    <2>5. Fine(t, o \o h, 1, n) /\ Len(o \o h) = Len(o) + 1
      <3>1. \A a, b, c \in Int : Fine(t, o, a, b) /\ Fine(t, h, b + 1, c) => Fine(t, o \o h, a, c)
            /\ Len(o \o h) = Len(o) + Len(h)
        BY FineJoin
      <3>2. Fine(t, o \o h, 1, n) /\ Len(o \o h) = Len(o) + Len(h)
        BY <2>4, <2>45, <3>1
      <3> QED BY <2>3, <3>2
    <2> DEFINE lo == Len(o)
    <2>6. lo \in Nat /\ (HasBad(t) \/ SafeLimit * lo <= 3 * (f - 1) + 2 * (n - f + 1))
      BY <1>2
    <2>7. HasBad(t) \/ SafeLimit * (lo + 1) < 3 * n + SafeLimit
      <3> HIDE DEF lo
      <3>1. SafeLimit * (lo + 1) = SafeLimit * lo + SafeLimit
        BY <1>0, <2>6
      <3> QED BY <1>0, <1>2, <1>3, <2>6, <3>1
    <2> QED BY <2>1, <2>2, <2>5, <2>7 DEF n
  <1>4. CASE ~(n >= f)
    <2>1. Chunks(t) = o
      BY <1>2, <1>4 DEF Chunks, s
    <2>2. f - 1 = n
      BY <1>2, <1>4
    <2>3. HasBad(t) \/ SafeLimit * Len(o) < 3 * n + SafeLimit
      <3> DEFINE lo == Len(o)
      <3>1. lo \in Nat /\ (HasBad(t) \/ SafeLimit * lo <= 3 * (f - 1) + 2 * (n - f + 1))
        BY <1>2
      <3> HIDE DEF lo
      <3>2. HasBad(t) \/ SafeLimit * lo < 3 * n + SafeLimit
        BY <1>0, <1>2, <2>2, <3>1, SMTT(30)
      <3> QED BY <3>2 DEF lo
    <2> QED BY <1>2, <2>1, <2>2, <2>3
  <1> QED BY <1>3, <1>4

(* What the pieces of a thread show.                                       *)
Covered(th) == UNION {th[i][1] .. th[i][2] : i \in DOMAIN th}

(* A thread that shows the text: in order, without repetition, nothing     *)
(* left out but blanks, each piece fit to be posted.                       *)
Faithful(t, th) ==
    /\ Len(th) <= MaxTweets
    /\ \A i \in DOMAIN th : Valid(t, th[i])
    /\ \A i \in DOMAIN th : \E j \in th[i][1] .. th[i][2] : ~Blank(t, j)
    /\ \A i \in 2 .. Len(th) : th[i - 1][2] < th[i][1]
    /\ \A i \in DOMAIN t : i \in Covered(th) \/ Blank(t, i)

(* What a refusal needs: a bad character, or more text than the thread's   *)
(* length pays for.                                                        *)
Excused(t) == HasBad(t) \/ 3 * Len(t) > MaxTweets * SafeLimit

(* A text posted whole is shown whole.                                     *)
LEMMA WholeFaithful ==
  ASSUME NEW t \in Seq(Chars), Trimmed(t), Valid(t, <<1, Len(t)>>)
  PROVE  Faithful(t, <<<<1, Len(t)>>>>) /\ <<<<1, Len(t)>>>> # Refused
  <1> DEFINE n == Len(t)
             c == <<1, n>>
             th == <<c>>
  <1>1. n \in Nat /\ n >= 1 /\ DOMAIN t = 1 .. n
    BY DEF Valid, Weight
  <1>2. Len(th) = 1 /\ DOMAIN th = 1 .. 1 /\ th[1] = c /\ c[1] = 1 /\ c[2] = n
    OBVIOUS
  <1>3. t # <<>>
    BY <1>1
  <1>4. ~Blank(t, 1) /\ 1 \in 1 .. n
    BY <1>1, <1>3 DEF Trimmed
  <1> HIDE DEF th, c, n
  <1>5. Covered(th) = 1 .. n
    <2>1. \A i \in DOMAIN th : th[i][1] .. th[i][2] = 1 .. n
      BY <1>2
    <2>2. 1 \in DOMAIN th
      BY <1>2
    <2> QED BY <2>1, <2>2, Zenon DEF Covered
  <1>6. \A i \in DOMAIN th : i = 1
    BY <1>2
  <1>7. MaxTweets >= 1
    BY TweetSplitAssumption
  <1>8. Valid(t, c)
    BY DEF c, n
  <1>9. Faithful(t, th)
    <2>1. Len(th) <= MaxTweets
      BY <1>2, <1>7, TweetSplitAssumption
    <2>2. \A i \in DOMAIN th : Valid(t, th[i])
      BY <1>2, <1>6, <1>8
    <2>3. \A i \in DOMAIN th : \E j \in th[i][1] .. th[i][2] : ~Blank(t, j)
      BY <1>2, <1>4, <1>6
    <2>4. \A i \in 2 .. Len(th) : th[i - 1][2] < th[i][1]
      BY <1>2
    <2>5. \A i \in DOMAIN t : i \in Covered(th) \/ Blank(t, i)
      BY <1>1, <1>5
    <2> QED BY <2>1, <2>2, <2>3, <2>4, <2>5 DEF Faithful
  <1>10. th # Refused
    <2>1. th[1][1] = 1
      BY <1>2
    <2>2. Refused[1][1] = 0
      BY DEF Refused
    <2> QED BY <2>1, <2>2
  <1> QED BY <1>9, <1>10 DEF th, c, n

(* A thread that is not refused is faithful.                               *)
LEMMA ThreadFaithful ==
  ASSUME NEW t \in Seq(Chars), Len(SplitByWeight(t)) <= MaxTweets,
         \A i \in DOMAIN SplitByWeight(t) : Valid(t, SplitByWeight(t)[i])
  PROVE  Faithful(t, SplitByWeight(t)) /\ SplitByWeight(t) # Refused
  <1> DEFINE n == Len(t)
             all == Chunks(t)
             th == SplitByWeight(t)
             m == Len(all)
  <1>1. n \in Nat /\ DOMAIN t = 1 .. n
    OBVIOUS
  <1>2. Fine(t, all, 1, n) /\ all \in Seq(Span) /\ m \in Nat
    BY ChunksFine, FineSeq
  <1>3. SiftOK(t, all, th, m)
    BY <1>2, SplitIs, SiftKeeps
  <1>4. th \in Seq(Span) /\ DOMAIN th = 1 .. Len(th) /\ Len(th) \in Nat
    BY <1>3 DEF SiftOK
  <1>5. \A i \in 1 .. Len(th) : Valid(t, th[i])
    BY <1>4
  <1>6. /\ \A i \in 1 .. Len(th) : Shows(t, th[i]) /\ \E l \in 1 .. m : th[i] = all[l]
        /\ \A i \in 1 .. Len(th) : i # 1 => \E l, k \in 1 .. m : l < k /\ th[i - 1] = all[l]
              /\ th[i] = all[k]
        /\ \A l \in 1 .. m : Shows(t, all[l]) => \E i \in 1 .. Len(th) : th[i] = all[l]
    BY <1>3 DEF SiftOK
  <1>65. Len(th) <= MaxTweets
    OBVIOUS
  <1> HIDE DEF all, th, n
  <1>7. Tiles(all, 1, n)
    <2>1. ASSUME Spoils(all) PROVE FALSE
      <3>1. PICK l \in 1 .. m : all[l] = <<0, 0>>
        BY <2>1 DEF Spoils
      <3>2. 0 \in 0 .. 0 /\ 0 \notin DOMAIN t
        BY <1>1
      <3>25. <<0, 0>>[1] = 0 /\ <<0, 0>>[2] = 0
        OBVIOUS
      <3>3. Shows(t, <<0, 0>>)
        BY <3>2, <3>25 DEF Shows
      <3>4. PICK i \in 1 .. Len(th) : th[i] = all[l]
        BY <1>6, <3>1, <3>3
      <3>5. Valid(t, <<0, 0>>)
        BY <1>5, <3>1, <3>4
      <3> QED BY <3>5 DEF Valid
    <2> QED BY <1>2, <2>1 DEF Fine
  <1>8. /\ \A k \in 1 .. m : all[k] \in Span /\ 1 <= all[k][1] /\ all[k][1] <= all[k][2]
            /\ all[k][2] <= n
        /\ \A k, l \in 1 .. m : k < l => all[k][2] < all[l][1]
        /\ \A i \in 1 .. n : \E k \in 1 .. m : i \in all[k][1] .. all[k][2]
    <2>1. /\ \A k \in 1 .. Len(all) : all[k] \in Span /\ 1 <= all[k][1] /\ all[k][1] <= all[k][2]
              /\ all[k][2] <= n
          /\ \A k, l \in 1 .. Len(all) : k < l => all[k][2] < all[l][1]
          /\ \A i \in 1 .. n : \E k \in 1 .. Len(all) : i \in all[k][1] .. all[k][2]
      <3>1. \A a, b \in Int : Tiles(all, a, b) =>
              /\ \A k \in 1 .. Len(all) : all[k] \in Span /\ a <= all[k][1]
                    /\ all[k][1] <= all[k][2] /\ all[k][2] <= b
              /\ \A k, l \in 1 .. Len(all) : k < l => all[k][2] < all[l][1]
              /\ \A i \in a .. b : \E k \in 1 .. Len(all) : i \in all[k][1] .. all[k][2]
        BY TilesSpread
      <3>2. 1 \in Int /\ n \in Int
        BY <1>1
      <3> QED BY <1>7, <3>1, <3>2, Zenon
    <2> QED BY <2>1
  <1> HIDE DEF m
  <1>9. ASSUME NEW i \in 1 .. Len(th) PROVE \E j \in th[i][1] .. th[i][2] : ~Blank(t, j)
    <2>1. PICK l \in 1 .. m : th[i] = all[l]
      BY <1>6
    <2>2. PICK j \in th[i][1] .. th[i][2] : j \notin DOMAIN t \/ ~Blank(t, j)
      BY <1>6 DEF Shows
    <2>3. th[i][1] \in Int /\ th[i][2] \in Int /\ 1 <= th[i][1] /\ th[i][2] <= n
      BY <1>8, <2>1 DEF Span
    <2>4. j \in DOMAIN t
      BY <1>1, <2>3
    <2> QED BY <2>2, <2>4
  <1>10. ASSUME NEW i \in 2 .. Len(th) PROVE th[i - 1][2] < th[i][1]
    <2>1. i \in 1 .. Len(th) /\ i # 1
      OBVIOUS
    <2>2. PICK l, k \in 1 .. m : l < k /\ th[i - 1] = all[l] /\ th[i] = all[k]
      BY <1>6, <2>1
    <2> QED BY <1>8, <2>2
  <1>11. ASSUME NEW i \in 1 .. n, ~Blank(t, i) PROVE i \in Covered(th)
    <2>1. PICK k \in 1 .. m : i \in all[k][1] .. all[k][2]
      BY <1>8
    <2>2. Shows(t, all[k])
      BY <1>11, <2>1 DEF Shows
    <2>3. PICK x \in 1 .. Len(th) : th[x] = all[k]
      BY <1>6, <2>2
    <2>4. x \in DOMAIN th /\ i \in th[x][1] .. th[x][2]
      BY <1>4, <2>1, <2>3
    <2> QED BY <2>4 DEF Covered
  <1>12. Faithful(t, th)
    BY <1>1, <1>4, <1>5, <1>65, <1>9, <1>10, <1>11 DEF Faithful
  <1>13. th # Refused
    <2>1. ASSUME th = Refused PROVE FALSE
      <3>1. Len(th) = 1 /\ th[1] = <<0, 0>>
        BY <2>1 DEF Refused
      <3>2. Valid(t, <<0, 0>>)
        BY <1>5, <3>1
      <3> QED BY <3>2 DEF Valid
    <2> QED BY <2>1
  <1> QED BY <1>12, <1>13 DEF th

(* A thread that is refused is excused: without a bad character it is too  *)
(* long, and then the text is.                                             *)
LEMMA RefusedExcused ==
  ASSUME NEW t \in Seq(Chars),
         Len(SplitByWeight(t)) > MaxTweets
           \/ \E i \in DOMAIN SplitByWeight(t) : ~Valid(t, SplitByWeight(t)[i])
  PROVE  Excused(t)
  <1> DEFINE n == Len(t)
             all == Chunks(t)
             th == SplitByWeight(t)
             m == Len(all)
  <1> SUFFICES ASSUME ~HasBad(t) PROVE 3 * n > MaxTweets * SafeLimit
    BY DEF Excused
  <1>0. SafeLimit \in Nat \ {0} /\ MaxTweets \in Nat /\ TweetLimit \in Nat
    BY TweetSplitAssumption
  <1>1. n \in Nat /\ DOMAIN t = 1 .. n
    OBVIOUS
  <1>2. Tiles(all, 1, n) /\ all \in Seq(Light) /\ all \in Seq(Span) /\ m \in Nat
    BY ChunksFine, FineSeq DEF Fine
  <1>25. SafeLimit * m < 3 * n + SafeLimit
    BY ChunksFine
  <1>3. SiftOK(t, all, th, m)
    BY <1>2, SplitIs, SiftKeeps
  <1>4. th \in Seq(Span) /\ DOMAIN th = 1 .. Len(th) /\ Len(th) \in Nat /\ Len(th) <= m
        /\ \A i \in 1 .. Len(th) : \E l \in 1 .. m : th[i] = all[l]
    BY <1>3 DEF SiftOK
  <1>45. Len(th) > MaxTweets \/ \E i \in DOMAIN th : ~Valid(t, th[i])
    OBVIOUS
  <1> HIDE DEF all, th, n
  <1>5. ASSUME NEW i \in 1 .. Len(th) PROVE Valid(t, th[i])
    <2>1. PICK l \in 1 .. m : th[i] = all[l]
      BY <1>4
    <2>2. all[l] \in Light
      BY <1>2, <2>1
    <2>3. 1 <= all[l][1] /\ all[l][2] <= n
      BY <1>1, <1>2, TilesSpread
    <2> DEFINE c == all[l]
    <2>4. /\ c[1] \in Int /\ c[2] \in Int /\ c[1] <= c[2] /\ Weight(c) <= TweetLimit
          /\ Weight(c) = c[2] - c[1] + 1 /\ 1 <= c[1] /\ c[2] <= n
      BY <2>2, <2>3 DEF Light, Span, Weight
    <2> HIDE DEF c
    <2>5. Weight(c) \in 1 .. TweetLimit /\ c[1] > 0
      BY <1>0, <2>4
    <2>6. \A k \in c[1] .. c[2] : t[k] # "bad"
      <3> SUFFICES ASSUME NEW k \in c[1] .. c[2] PROVE t[k] # "bad"
        OBVIOUS
      <3>1. k \in 1 .. n
        BY <1>1, <2>4
      <3>2. k \in DOMAIN t
        BY <1>1, <3>1
      <3> QED BY <3>2 DEF HasBad
    <2>7. Valid(t, c)
      BY <2>5, <2>6 DEF Valid
    <2> QED BY <2>1, <2>7 DEF c
  <1>6. m >= MaxTweets + 1
    BY <1>0, <1>2, <1>4, <1>45, <1>5
  <1> HIDE DEF m
  <1>7. m \in Nat
    BY <1>2 DEF m
  <1>8. SafeLimit * (MaxTweets + 1) <= SafeLimit * m
    BY <1>0, <1>6, <1>7
  <1>9. SafeLimit * (MaxTweets + 1) = MaxTweets * SafeLimit + SafeLimit
    BY <1>0
  <1>10. SafeLimit * m \in Int /\ MaxTweets * SafeLimit \in Int
    BY <1>0, <1>7
  <1> QED BY <1>0, <1>1, <1>25, <1>8, <1>9, <1>10

(* What is to be shown of the thread th made of the text t.                *)
ThreadAnswers(t, th) ==
    /\ th \notin {Pending, Refused} => Faithful(t, th)
    /\ th = Refused => Excused(t)

(* Both, for every text.                                                   *)
LEMMA TransformAnswers ==
  ASSUME NEW t \in Seq(Chars), Trimmed(t)
  PROVE ThreadAnswers(t, Transform(t))
  <1>0. Pending # Refused
    <2>1. Pending[1] = <<-1, -1>> /\ Refused[1] = <<0, 0>>
      BY DEF Pending, Refused
    <2>2. <<-1, -1>>[1] = -1 /\ <<0, 0>>[1] = 0
      OBVIOUS
    <2> QED BY <2>1, <2>2
  <1>1. CASE Valid(t, <<1, Len(t)>>)
    <2>1. Transform(t) = <<<<1, Len(t)>>>>
      BY <1>1 DEF Transform
    <2> QED BY <1>1, <2>1, WholeFaithful DEF ThreadAnswers
  <1>2. CASE ~Valid(t, <<1, Len(t)>>)
    <2> DEFINE th == SplitByWeight(t)
               over == Len(th) > MaxTweets \/ \E i \in DOMAIN th : ~Valid(t, th[i])
    <2>1. Transform(t) = IF over THEN Refused ELSE th
      BY <1>2, Zenon DEF Transform
    <2>2. CASE over
      <3>1. Transform(t) = Refused
        BY <2>1, <2>2
      <3>2. Excused(t)
        BY <2>2, RefusedExcused
      <3> QED BY <3>1, <3>2 DEF ThreadAnswers
    <2>3. CASE ~over
      <3>1. Transform(t) = th
        BY <2>1, <2>3
      <3>2. Len(th) <= MaxTweets
        <4>1. Len(th) \in Nat
          <5>1. Chunks(t) \in Seq(Span)
            BY ChunksFine, FineSeq
          <5> QED BY <5>1, SplitIs, SiftKeeps DEF SiftOK
        <4> QED BY <2>3, <4>1, TweetSplitAssumption
      <3>3. Faithful(t, th) /\ th # Refused
        BY <2>3, <3>2, ThreadFaithful
      <3> QED BY <3>1, <3>3 DEF ThreadAnswers
    <2> QED BY <2>2, <2>3
  <1> QED BY <1>1, <1>2

(* The thread is what the code makes of the text.                          *)
SplitInv == text \in Texts /\ thread \in {Pending, Transform(text)}

(* What is made of a text is what is claimed of it.                        *)
LEMMA SplitHolds == SplitInv => SplitKeepsText
  <1> SUFFICES ASSUME SplitInv PROVE SplitKeepsText
    OBVIOUS
  <1>1. text \in Seq(Chars) /\ Trimmed(text)
    <2>1. PICK n \in 0 .. MaxText : text \in [1 .. n -> Chars]
      BY DEF SplitInv, Texts
    <2>2. n \in Nat
      BY TweetSplitAssumption
    <2> QED BY <2>1, <2>2, SeqDef DEF SplitInv, Texts
  <1>2. ThreadAnswers(text, thread)
    <2>1. Pending # Refused
      <3>1. Pending[1] = <<-1, -1>> /\ Refused[1] = <<0, 0>>
        BY DEF Pending, Refused
      <3>2. <<-1, -1>>[1] = -1 /\ <<0, 0>>[1] = 0
        OBVIOUS
      <3> QED BY <3>1, <3>2
    <2> QED BY <1>1, <2>1, TransformAnswers DEF SplitInv, ThreadAnswers
  <1> QED BY <1>2 DEF ThreadAnswers, Faithful, Excused, HasBad, Covered, SplitKeepsText

(* A thread shows the text it was made of: the pieces follow one another,  *)
(* each is fit for a tweet, only blanks are left out, and a text is        *)
(* refused only for a character no tweet takes or for its length: for      *)
(* texts and limits of every size.                                         *)
THEOREM ThreadsKeepText == SplitSpec => []SplitKeepsText
  <1>1. SplitInit => SplitInv
    BY DEF SplitInit, SplitInv
  <1>2. SplitInv /\ [Split]_splitVars => SplitInv'
    BY DEF SplitInv, Split, splitVars
  <1> QED BY <1>1, <1>2, SplitHolds, PTL DEF SplitSpec

-----------------------------------------------------------------------------
(* The search of the queue. *)

(* Slots of a workspace are finitely many.                                 *)
Sane(slots) == slots \in SUBSET Slot /\ IsFiniteSet(slots)

(* A slot with room falls due at t.                                        *)
FreeSlot(slots, taken, t) ==
    \E s \in slots : t % DayLength = s.time /\ Weekday(DayOf(t)) = s.dayOfWeek /\ Below(taken[t], s)

(* The time of a slot lies within the day.                                 *)
LEMMA SlotIs == ASSUME NEW s \in Slot PROVE s.time \in Nat /\ s.time < DayLength
  BY SlotSearchAssumption DEF Slot

(* The tick at which a slot falls due on a day gives the day and the time  *)
(* back.                                                                   *)
LEMMA AtIs ==
  ASSUME NEW d \in Nat, NEW s \in Slot
  PROVE  At(d, s) \in Nat /\ DayOf(At(d, s)) = d /\ At(d, s) % DayLength = s.time
  <1>1. s.time \in Nat /\ s.time < DayLength /\ DayLength \in Nat \ {0}
    BY SlotIs, SlotSearchAssumption
  <1> DEFINE r == s.time
  <1>2. r \in Int /\ 0 <= r /\ r < DayLength
    BY <1>1
  <1> HIDE DEF r
  <1>3. (d * DayLength + r) \div DayLength = d /\ (d * DayLength + r) % DayLength = r
    BY <1>1, <1>2, Divided
  <1>4. d * DayLength + r \in Nat
    BY <1>1, <1>2
  <1> QED BY <1>3, <1>4 DEF At, DayOf, r

(* Every tick has a day and a time of the day.                             *)
LEMMA DayIs ==
  ASSUME NEW t \in Nat
  PROVE  /\ DayOf(t) \in Nat /\ t % DayLength \in Nat /\ t % DayLength < DayLength
         /\ t = DayOf(t) * DayLength + (t % DayLength)
         /\ DayOf(t) * DayLength <= t /\ t < DayOf(t) * DayLength + DayLength
  <1>1. DayLength \in Nat \ {0}
    BY SlotSearchAssumption
  <1> QED BY <1>1 DEF DayOf

(* A later tick is on no earlier day.                                      *)
LEMMA DayMonotone ==
  ASSUME NEW t \in Nat, NEW u \in Nat, t <= u
  PROVE  DayOf(t) <= DayOf(u)
  <1>1. DayLength \in Nat \ {0}
    BY SlotSearchAssumption
  <1> DEFINE d == DayOf(t)
             e == DayOf(u)
  <1>2. d \in Nat /\ e \in Nat /\ d * DayLength <= t /\ u < e * DayLength + DayLength
    BY DayIs
  <1> HIDE DEF d, e
  <1>3. ASSUME e < d PROVE FALSE
    <2>1. (e + 1) * DayLength <= d * DayLength
      BY <1>1, <1>2, <1>3
    <2>2. (e + 1) * DayLength = e * DayLength + DayLength
      BY <1>1, <1>2
    <2>3. e * DayLength \in Nat /\ d * DayLength \in Nat
      BY <1>1, <1>2
    <2> QED BY <1>1, <1>2, <2>1, <2>2, <2>3
  <1>4. d <= e
    BY <1>2, <1>3
  <1> QED BY <1>4 DEF d, e

(* The candidates of a day are the ticks of that day, after `from', at     *)
(* which a slot is free.                                                   *)
LEMMA HitsAre ==
  ASSUME NEW slots, Sane(slots), NEW taken, NEW d \in Nat, NEW from \in Nat
  PROVE  /\ Hits(d, from, slots, taken) \in SUBSET Nat /\ IsFiniteSet(Hits(d, from, slots, taken))
         /\ \A t \in Nat : t \in Hits(d, from, slots, taken)
                             <=> DayOf(t) = d /\ t > from /\ FreeSlot(slots, taken, t)
  <1> DEFINE X == {x \in slots : x.dayOfWeek = Weekday(d) /\ Below(taken[At(d, x)], x)}
             I == {At(d, x) : x \in X}
             H == {c \in I : c > from}
  <1>1. Hits(d, from, slots, taken) = H
    BY DEF Hits
  <1>2. X \subseteq slots /\ X \subseteq Slot
    BY DEF Sane
  <1>3. IsFiniteSet(X)
    BY <1>2, FS_Subset DEF Sane
  <1>4. \A x \in X : x.dayOfWeek = Weekday(d) /\ Below(taken[At(d, x)], x) /\ x \in slots
    OBVIOUS
  <1>5. \A x \in slots : x.dayOfWeek = Weekday(d) /\ Below(taken[At(d, x)], x) => x \in X
    OBVIOUS
  <1> HIDE DEF X
  <1>6. IsFiniteSet(I)
    <2> DEFINE f == [x \in X |-> At(d, x)]
    <2>1. I = {f[x] : x \in X}
      OBVIOUS
    <2> HIDE DEF f, I
    <2> QED BY <1>3, <2>1, ImageFinite
  <1>7. I \subseteq Nat
    BY <1>2, AtIs
  <1>8. H \subseteq I
    OBVIOUS
  <1>9. ASSUME NEW t \in Nat PROVE t \in H <=> DayOf(t) = d /\ t > from /\ FreeSlot(slots, taken, t)
    <2>1. ASSUME t \in H PROVE DayOf(t) = d /\ t > from /\ FreeSlot(slots, taken, t)
      <3>1. PICK x \in X : t = At(d, x)
        BY <2>1
      <3>2. DayOf(t) = d /\ t % DayLength = x.time /\ x \in slots
        BY <1>2, <3>1, AtIs
      <3>3. t > from
        BY <2>1
      <3>4. FreeSlot(slots, taken, t)
        BY <1>4, <3>1, <3>2 DEF FreeSlot
      <3> QED BY <3>2, <3>3, <3>4
    <2>2. ASSUME DayOf(t) = d, t > from, FreeSlot(slots, taken, t) PROVE t \in H
      <3>1. PICK x \in slots : t % DayLength = x.time /\ Weekday(d) = x.dayOfWeek /\ Below(taken[t], x)
        BY <2>2 DEF FreeSlot
      <3>2. t = At(d, x)
        BY <2>2, <3>1, DayIs DEF At
      <3>3. x \in X
        BY <1>5, <3>1, <3>2
      <3> QED BY <2>2, <3>2, <3>3
    <2> QED BY <2>1, <2>2
  <1> HIDE DEF I, H
  <1>10. H \in SUBSET Nat /\ IsFiniteSet(H)
    BY <1>6, <1>7, <1>8, FS_Subset
  <1> QED BY <1>1, <1>9, <1>10

(* What a search of the days answers: the first free tick after `from',    *)
(* unless it lies beyond the last day, or nothing when there is none in    *)
(* the window.                                                             *)
Searched(c, from, end, slots, taken) ==
    /\ c # None =>
         /\ c \in Nat /\ c > from /\ DayOf(c) <= DayOf(end) /\ FreeSlot(slots, taken, c)
         /\ \A t \in Nat : t > from /\ t < c => ~FreeSlot(slots, taken, t)
    /\ c = None => \A t \in Nat : t > from /\ t < end => ~FreeSlot(slots, taken, t)

(* The recursion over the days answers that.                               *)
LEMMA NextFreeIs ==
  ASSUME NEW slots, Sane(slots), NEW taken, NEW from \in Nat, NEW end \in Nat
  PROVE  Searched(NextFree(from, end, slots, taken), from, end, slots, taken)
  <1> DEFINE first == DayOf(from)
             last == DayOf(end)
             D == first .. last + 1
             Hit(d) == Hits(d, from, slots, taken)
             Turn(F, d) == IF d * DayLength >= end THEN None
                           ELSE IF Hit(d) # {} THEN Min(Hit(d)) ELSE F[d + 1]
             Body(F) == [d \in DayOf(from) .. DayOf(end) + 1 |->
                           IF d * DayLength >= end THEN None
                           ELSE IF Hits(d, from, slots, taken) # {}
                                  THEN Min(Hits(d, from, slots, taken))
                           ELSE F[d + 1]]
             after == CHOOSE F : F = Body(F)
  <1>00. first \in Nat /\ last \in Nat
    BY DayIs
  <1>0. DayLength \in Nat \ {0} /\ first \in Nat /\ last \in Nat /\ None \in Int
    BY <1>00, SlotSearchAssumption DEF None
  <1>1. NextFree(from, end, slots, taken) = IF from >= end THEN None ELSE after[first]
    BY DEF NextFree, after, Body
  <1>2. CASE from >= end
    BY <1>1, <1>2 DEF Searched
  <1>3. CASE ~(from >= end)
    <2>1. first <= last /\ D \subseteq Nat /\ first \in D
      BY <1>0, <1>3, DayMonotone
    <2>2. ASSUME NEW d \in D PROVE /\ Hit(d) \in SUBSET Nat /\ IsFiniteSet(Hit(d))
                                   /\ \A t \in Nat : t \in Hit(d) <=> DayOf(t) = d /\ t > from
                                         /\ FreeSlot(slots, taken, t)
      BY <2>1, HitsAre
    <2>3. ASSUME NEW d \in D, Hit(d) # {}
          PROVE Min(Hit(d)) \in Hit(d) /\ Min(Hit(d)) \in Nat /\ \A y \in Hit(d) : Min(Hit(d)) <= y
      <3> DEFINE h == Hit(d)
      <3>1. h \in SUBSET Int /\ IsFiniteSet(h) /\ h # {} /\ h \in SUBSET Nat
        BY <2>2, <2>3
      <3> HIDE DEF h
      <3>2. Min(h) \in h /\ \A y \in h : Min(h) <= y
        BY <3>1, SetHasMax
      <3> QED BY <3>1, <3>2 DEF h
    <2>4. \A d \in D : d * DayLength < end => d + 1 \in D
      <3> SUFFICES ASSUME NEW d \in D, d * DayLength < end PROVE d + 1 \in D
        OBVIOUS
      <3>1. d * DayLength \in Nat /\ d \in Nat
        BY <1>0, <2>1
      <3>2. DayOf(d * DayLength) <= last
        BY <3>1, DayMonotone
      <3>3. DayOf(d * DayLength) = d
        <4>1. (d * DayLength + 0) \div DayLength = d
          BY <1>0, <3>1, Divided
        <4> QED BY <3>1, <4>1 DEF DayOf
      <3> HIDE DEF first, last
      <3> QED BY <1>0, <3>1, <3>2, <3>3
    <2> DEFINE stop(d) == d * DayLength >= end \/ Hit(d) # {}
               B == {d \in D : stop(d)}
               b == [d \in B |-> IF d * DayLength >= end THEN None ELSE Min(Hit(d))]
               m == [d \in D |-> last + 1 - d]
               N == last + 2
               G == [z \in D \X Int |-> z[2]]
               p == [d \in D |-> IF d + 1 \in D THEN d + 1 ELSE d]
    <2> HIDE DEF first, last, Hit
    <2>5. \A d \in B : (IF d * DayLength >= end THEN None ELSE Min(Hit(d))) \in Int
      BY <1>0, <2>3
    <2>6. b \in [B -> Int]
      <3> HIDE DEF B
      <3> QED BY <2>5
    <2>7. B \subseteq D /\ p \in [D -> D] /\ G \in [D \X Int -> Int] /\ Int # {} /\ N \in Nat
      BY <1>0
    <2>8. m \in [D -> Nat] /\ \A d \in D : m[d] < N
      BY <1>0
    <2>9. \A d \in D \ B : d + 1 \in D /\ p[d] = d + 1 /\ m[p[d]] < m[d]
      <3> SUFFICES ASSUME NEW d \in D \ B PROVE d + 1 \in D /\ p[d] = d + 1 /\ m[p[d]] < m[d]
        OBVIOUS
      <3>1. d * DayLength < end /\ d \in Nat
        BY <1>0, <2>1
      <3>2. d + 1 \in D
        BY <2>4, <3>1
      <3> QED BY <1>0, <3>1, <3>2
    <2>10. \A d \in D : d \in B <=> stop(d)
      OBVIOUS
    <2>11. \A d \in B : b[d] = IF d * DayLength >= end THEN None ELSE Min(Hit(d))
      OBVIOUS
    <2>12. \A d \in D, v \in Int : G[<<d, v>>] = v
      OBVIOUS
    <2> HIDE DEF D, B, b, m, N, G, p
    <2>13. Descends(D, Int, B, b, m, N, G, p)
      BY <2>6, <2>7, <2>8, <2>9 DEF Descends
    <2>14. PICK F : Solves(F, D, Int, B, b, G, p)
      BY <2>13, Recursion
    <2>15. F \in [D -> Int] /\ \A d \in D : F[d] = IF d \in B THEN b[d] ELSE G[<<d, F[p[d]]>>]
      BY <2>14 DEF Solves
    <2>16. ASSUME NEW d \in D PROVE F[d] = Turn(F, d)
      <3>1. CASE d \in B
        BY <2>10, <2>11, <2>15, <3>1
      <3>2. CASE d \notin B
        <4>1. d + 1 \in D /\ p[d] = d + 1
          BY <2>9, <3>2
        <4>15. F[d] = G[<<d, F[d + 1]>>] /\ F[d + 1] \in Int
          BY <2>15, <3>2, <4>1
        <4>2. F[d] = F[d + 1]
          BY <2>12, <4>15
        <4>3. ~(d * DayLength >= end) /\ Hit(d) = {}
          BY <2>10, <3>2
        <4> QED BY <4>2, <4>3
      <3> QED BY <3>1, <3>2
    <2>17. \A K : Body(K) = [d \in D |-> Turn(K, d)]
      BY Zenon DEF Body, D, first, last, Hit
    <2>18. F = [d \in D |-> Turn(F, d)]
      <3> HIDE DEF Turn
      <3> QED BY <2>15, <2>16
    <2>19. F = Body(F)
      BY <2>17, <2>18, Zenon
    <2> HIDE DEF Body
    <2>20. after = Body(after)
      BY <2>19
    <2> HIDE DEF after
    <2>21. after = [d \in D |-> Turn(after, d)]
      BY <2>17, <2>20, Zenon
    <2>22. \A d \in D : after[d] = Turn(after, d)
      <3> HIDE DEF Turn
      <3> QED BY <2>21
    <2> DEFINE Nothing0(d) == after[d] = None /\ \A e \in D : e >= d /\ e * DayLength < end
          => Hit(e) = {}
               Something(d) == \E e \in D : /\ e >= d /\ e * DayLength < end /\ Hit(e) # {}
                                                /\ after[d] = Min(Hit(e))
                                            /\ \A g \in D : g >= d /\ g < e => Hit(g) = {}
               Right(d) == Nothing0(d) \/ Something(d)
               K == {n \in Nat : \A d \in D : last + 1 - d <= n => Right(d)}
    <2>23. ASSUME NEW d \in D, d * DayLength >= end PROVE Right(d)
      <3>1. after[d] = None
        BY <2>22, <2>23
      <3>2. ASSUME NEW e \in D, e >= d, e * DayLength < end PROVE FALSE
        <4>1. d \in Nat /\ e \in Nat
          BY <2>1
        <4>2. d * DayLength <= e * DayLength /\ d * DayLength \in Nat /\ e * DayLength \in Nat
          BY <1>0, <3>2, <4>1
        <4> QED BY <2>23, <3>2, <4>2
      <3> QED BY <3>1, <3>2
    <2>24. ASSUME NEW d \in D, ~(d * DayLength >= end), Hit(d) # {} PROVE Right(d)
      <3>1. after[d] = Min(Hit(d))
        BY <2>22, <2>24
      <3>2. d * DayLength < end /\ d \in Nat
        BY <1>0, <2>1, <2>24
      <3>3. Something(d)
        BY <2>1, <2>24, <3>1, <3>2
      <3> QED BY <3>3
    <2>25. ASSUME NEW d \in D, ~(d * DayLength >= end), Hit(d) = {}, d + 1 \in D, Right(d + 1)
          PROVE Right(d)
      <3>1. after[d] = after[d + 1]
        BY <2>22, <2>25
      <3>2. D \subseteq Nat
        BY <2>1
      <3>3. CASE Nothing0(d + 1)
        <4>1. ASSUME NEW e \in D, e >= d, e * DayLength < end PROVE Hit(e) = {}
          <5>1. CASE e = d
            BY <2>25, <5>1
          <5>2. CASE e # d
            <6>1. e >= d + 1
              BY <3>2, <4>1, <5>2
            <6> QED BY <3>3, <4>1, <6>1
          <5> QED BY <5>1, <5>2
        <4> QED BY <3>1, <3>3, <4>1
      <3>4. CASE Something(d + 1)
        <4>1. PICK e \in D : /\ e >= d + 1 /\ e * DayLength < end /\ Hit(e) # {}
                                 /\ after[d + 1] = Min(Hit(e))
                             /\ \A g \in D : g >= d + 1 /\ g < e => Hit(g) = {}
          BY <3>4
        <4>2. e >= d
          BY <3>2, <4>1
        <4>3. ASSUME NEW g \in D, g >= d, g < e PROVE Hit(g) = {}
          <5>1. CASE g = d
            BY <2>25, <5>1
          <5>2. CASE g # d
            <6>1. g >= d + 1
              BY <3>2, <4>3, <5>2
            <6> QED BY <4>1, <4>3, <6>1
          <5> QED BY <5>1, <5>2
        <4>4. Something(d)
          BY <3>1, <4>1, <4>2, <4>3
        <4> QED BY <4>4
      <3> QED BY <2>25, <3>3, <3>4
    <2> HIDE DEF Right
    <2>26. ASSUME NEW n \in Nat, \A d \in D : last + 1 - d < n => Right(d)
           PROVE  \A d \in D : last + 1 - d <= n => Right(d)
      <3> SUFFICES ASSUME NEW d \in D, last + 1 - d <= n PROVE Right(d)
        OBVIOUS
      <3>1. CASE ~(d * DayLength >= end) /\ Hit(d) = {}
        <4>1. d + 1 \in D /\ d \in Nat
          BY <1>0, <2>1, <2>4, <3>1
        <4>2. last + 1 - (d + 1) < n
          BY <1>0, <4>1
        <4>3. Right(d + 1)
          BY <2>26, <4>1, <4>2
        <4> QED BY <2>25, <3>1, <4>1, <4>3
      <3> QED BY <2>23, <2>24, <3>1
    <2>27. 0 \in K
      <3>1. \A d \in D : last + 1 - d < 0 => Right(d)
        BY <1>0 DEF D
      <3>2. \A d \in D : last + 1 - d <= 0 => Right(d)
        BY <2>26, <3>1
      <3> QED BY <3>2
    <2>28. ASSUME NEW n \in Nat, n \in K PROVE n + 1 \in K
      <3>1. \A d \in D : last + 1 - d < n + 1 => Right(d)
        <4> SUFFICES ASSUME NEW d \in D, last + 1 - d < n + 1 PROVE Right(d)
          OBVIOUS
        <4>1. last + 1 - d <= n
          BY <1>0, <2>1
        <4> QED BY <2>28, <4>1
      <3>2. n + 1 \in Nat
        OBVIOUS
      <3>3. \A d \in D : last + 1 - d <= n + 1 => Right(d)
        BY <2>26, <3>1, <3>2
      <3> QED BY <3>2, <3>3
    <2> HIDE DEF K
    <2>29. \A n \in Nat : n \in K
      BY <2>27, <2>28, NatInd
    <2>30. Right(first)
      <3>1. last + 1 - first \in Nat /\ last + 1 - first <= last + 1 - first
        BY <1>0, <2>1
      <3> QED BY <2>1, <2>29, <3>1 DEF K
    <2> DEFINE c == NextFree(from, end, slots, taken)
    <2>31. c = after[first]
      BY <1>1, <1>3
    <2> HIDE DEF c
    <2>32. CASE Nothing0(first)
      <3>1. ASSUME NEW t \in Nat, t > from, t < end, FreeSlot(slots, taken, t) PROVE FALSE
        <4> DEFINE d == DayOf(t)
        <4>1. d \in Nat /\ first <= d /\ d <= last /\ d * DayLength <= t
          BY <3>1, DayIs, DayMonotone DEF first, last
        <4>2. d \in D
          BY <1>0, <4>1 DEF D
        <4>3. d * DayLength < end
          BY <1>0, <3>1, <4>1
        <4>4. Hit(d) = {}
          BY <2>32, <4>1, <4>2, <4>3
        <4>5. t \in Hit(d)
          BY <2>2, <3>1, <4>2 DEF Hit
        <4> QED BY <4>4, <4>5
      <3>2. c = None
        BY <2>31, <2>32
      <3> QED BY <3>1, <3>2 DEF Searched, c
    <2>33. CASE Something(first)
      <3>1. PICK e \in D : /\ e >= first /\ e * DayLength < end /\ Hit(e) # {} /\ c = Min(Hit(e))
                           /\ \A g \in D : g >= first /\ g < e => Hit(g) = {}
        BY <2>31, <2>33
      <3>2. c \in Hit(e) /\ c \in Nat /\ \A y \in Hit(e) : c <= y
        BY <2>3, <3>1
      <3>3. DayOf(c) = e /\ c > from /\ FreeSlot(slots, taken, c)
        BY <2>2, <3>1, <3>2 DEF Hit
      <3>4. e <= last
        <4>1. e \in Nat /\ e * DayLength \in Nat /\ DayOf(e * DayLength) = e
          <5>1. e \in Nat
            BY <2>1
          <5>2. (e * DayLength + 0) \div DayLength = e
            BY <1>0, <5>1, Divided
          <5>3. e * DayLength \in Nat
            BY <1>0, <5>1
          <5> QED BY <5>1, <5>2, <5>3 DEF DayOf
        <4> QED BY <3>1, <4>1, DayMonotone DEF last
      <3>5. ASSUME NEW t \in Nat, t > from, t < c, FreeSlot(slots, taken, t) PROVE FALSE
        <4> DEFINE d == DayOf(t)
        <4>1. d \in Nat /\ first <= d /\ d <= e
          BY <3>2, <3>3, <3>5, DayIs, DayMonotone DEF first
        <4>2. d \in D
          BY <1>0, <2>1, <3>4, <4>1 DEF D
        <4>3. t \in Hit(d)
          BY <2>2, <3>5, <4>2 DEF Hit
        <4>4. CASE d = e
          BY <3>2, <3>5, <4>3, <4>4
        <4>5. CASE d # e
          <5>1. d < e /\ d >= first
            BY <1>0, <2>1, <4>1, <4>5
          <5> QED BY <3>1, <4>2, <4>3, <5>1
        <4> QED BY <4>4, <4>5
      <3>6. c # None
        BY <3>2 DEF None
      <3> QED BY <3>2, <3>3, <3>4, <3>5, <3>6 DEF Searched, c, last
    <2> QED BY <2>30, <2>32, <2>33 DEF Right
  <1> QED BY <1>2, <1>3

(* What a request consists of.                                             *)
LEMMA AskIs ==
  ASSUME NEW a \in Asks
  PROVE  /\ Sane(a.slots) /\ a.dates \in [Booked -> PostDates] /\ IsFiniteSet(Booked)
         /\ a.from \in Nat /\ a.from < DayLength /\ a.days \in Nat /\ 1 <= a.days /\ a.days <= MaxDays
         /\ a.count \in Nat /\ a.spacing \in Nat
  <1>1. a.slots \in {s \in SUBSET Slot : IsFiniteSet(s) /\ Cardinality(s) \in 1 .. MaxAsked}
    BY DEF Asks
  <1>2. Sane(a.slots)
    BY <1>1 DEF Sane
  <1>3. a.dates \in [Booked -> PostDates] /\ a.from \in 0 .. DayLength - 1 /\ a.days \in 1 .. MaxDays
    BY DEF Asks
  <1>4. a.count \in PostCounts /\ a.spacing \in Spacings
    BY DEF Asks
  <1>5. a.count \in Nat /\ a.spacing \in Nat /\ IsFiniteSet(Booked)
    BY <1>4, SlotSearchAssumption
  <1>6. a.from \in Nat /\ a.from < DayLength
    BY <1>3, SlotSearchAssumption
  <1>7. a.days \in Nat /\ 1 <= a.days /\ a.days <= MaxDays
    BY <1>3, SlotSearchAssumption
  <1> QED BY <1>2, <1>3, <1>5, <1>6, <1>7

(* The window ends within the ticks.                                       *)
LEMMA EndIs ==
  ASSUME NEW a \in Asks
  PROVE  /\ End(a) \in Nat /\ a.from < End(a) /\ DayOf(End(a)) <= MaxDays
         /\ \A c \in Nat : DayOf(c) <= MaxDays => c \in Ticks
         /\ \A c \in Nat : c <= End(a) => c \in Ticks /\ DayOf(c) <= MaxDays
  <1> DEFINE L == DayLength
             f == a.from
             n == a.days
  <1>1. L \in Nat \ {0} /\ MaxDays \in Nat /\ f \in Nat /\ f < L /\ n \in Nat /\ 1 <= n /\ n <= MaxDays
    BY AskIs, SlotSearchAssumption
  <1> HIDE DEF L, f, n
  <1>2. End(a) = f + n * L
    BY DEF End, f, n, L
  <1>3. n * L \in Nat /\ n * L > 0
    BY <1>1
  <1>4. (n * L + f) \div L = n
    BY <1>1, Divided
  <1>5. n * L + f = f + n * L
    BY <1>1, <1>3
  <1>55. DayOf(End(a)) = n
    BY <1>2, <1>4, <1>5 DEF DayOf, L
  <1>6. ASSUME NEW c \in Nat, DayOf(c) <= MaxDays PROVE c \in Ticks
    <2> DEFINE d == DayOf(c)
    <2>1. d \in Nat /\ c < d * L + L
      BY DayIs DEF L
    <2>2. d <= MaxDays
      BY <1>6
    <2> HIDE DEF d
    <2>3. (d + 1) * L <= (MaxDays + 2) * L
      BY <1>1, <2>1, <2>2
    <2>4. (d + 1) * L = d * L + L /\ d * L \in Nat /\ (MaxDays + 2) * L \in Nat
      BY <1>1, <2>1
    <2>5. c <= (MaxDays + 2) * L
      BY <1>1, <2>1, <2>3, <2>4
    <2> QED BY <2>4, <2>5 DEF Ticks, L
  <1>7. ASSUME NEW c \in Nat, c <= End(a) PROVE c \in Ticks /\ DayOf(c) <= MaxDays
    <2>1. End(a) \in Nat
      BY <1>1, <1>2, <1>3
    <2>2. DayOf(c) <= DayOf(End(a)) /\ DayOf(c) \in Nat
      BY <1>7, <2>1, DayMonotone, DayIs
    <2>3. DayOf(c) <= MaxDays
      BY <1>1, <1>55, <2>2
    <2> QED BY <1>6, <2>3
  <1> QED BY <1>1, <1>2, <1>3, <1>55, <1>6, <1>7 DEF f

(* The map counts the posts at each tick of the window.                    *)
LEMMA TakenIs ==
  ASSUME NEW a \in Asks
  PROVE  /\ TakenMap(a.dates, a.from, End(a)) \in [Ticks -> Nat]
         /\ \A t \in Ticks : t >= a.from /\ t < End(a)
               => TakenMap(a.dates, a.from, End(a))[t] = Held(a, t)
  <1> DEFINE held(t) == Quantify(DOMAIN a.dates, LAMBDA p : a.dates[p] = t)
             T == TakenMap(a.dates, a.from, End(a))
  <1>1. \A t : held(t) \in Nat
    <2> SUFFICES ASSUME NEW t PROVE held(t) \in Nat
      OBVIOUS
    <2> DEFINE X == {p \in DOMAIN a.dates : a.dates[p] = t}
    <2>1. X \subseteq Booked /\ IsFiniteSet(Booked)
      BY AskIs
    <2>2. held(t) = Cardinality(X)
      BY DEF Quantify
    <2> HIDE DEF X
    <2>3. Cardinality(X) \in Nat
      BY <2>1, FS_Subset, FS_CardinalityType
    <2> QED BY <2>2, <2>3
  <1>2. \A t : Held(a, t) = held(t)
    BY DEF Held
  <1> HIDE DEF held
  <1>3. T = [t \in Ticks |-> IF t >= a.from /\ t < End(a) THEN held(t) ELSE 0]
    BY DEF TakenMap, held
  <1> HIDE DEF T
  <1>4. T \in [Ticks -> Nat]
    BY <1>1, <1>3
  <1>5. \A t \in Ticks : t >= a.from /\ t < End(a) => T[t] = held(t)
    BY <1>3
  <1> QED BY <1>2, <1>4, <1>5 DEF T

(* A slot with room by the map is a slot with room.                        *)
LEMMA FreeIsRoom ==
  ASSUME NEW a, NEW t, NEW taken, taken[t] = Held(a, t)
  PROVE  FreeSlot(a.slots, taken, t) <=> Room(a, t)
  BY DEF FreeSlot, Room, Due, Below

(* The ticks the claims are about.                                         *)
Ahead(a) == a.from + 1 .. End(a) - 1

(* The variables of planScheduleForPosts.                                  *)
Plans == [dates : Seq(Ticks), taken : [Ticks -> Nat], cursor : Nat]

(* Where the search for the i-th date begins.                              *)
Cursor(a, d, i) == IF i = 1 THEN a.from ELSE d[i - 1] + a.spacing

(* A turn of its loop.                                                     *)
PlanTurn(a, p) ==
    LET c == NextFree(p.cursor, End(a), a.slots, p.taken)
    IN  IF c = None THEN p
        ELSE [dates  |-> Append(p.dates, c),
              taken  |-> [p.taken EXCEPT ![c] = @ + 1],
              cursor |-> c + a.spacing]

(* The claims, for the dates planned so far.                               *)
Planned(a, d) ==
    /\ \A i \in 1 .. Len(d) : d[i] > Cursor(a, d, i) /\ (d[i] \in Ahead(a) => Room(a, d[i]))
    /\ \A i \in 1 .. Len(d), t \in Ahead(a) : t > Cursor(a, d, i) /\ t < d[i] => ~Room(a, t)

(* The invariant of the loop after k turns: besides the claims, that the   *)
(* map is right beyond the cursor, and that a turn without a date found    *)
(* nothing to find.                                                        *)
PlanOK(a, p, k) ==
    /\ p \in Plans /\ Len(p.dates) <= k
    /\ p.cursor = Cursor(a, p.dates, Len(p.dates) + 1) /\ a.from <= p.cursor
    /\ \A t \in Ticks : t > p.cursor /\ t < End(a) => p.taken[t] = Held(a, t)
    /\ Planned(a, p.dates)
    /\ Len(p.dates) < k => NextFree(p.cursor, End(a), a.slots, p.taken) = None

(* What a turn finds.                                                      *)
LEMMA TurnFinds ==
  ASSUME NEW a \in Asks, NEW p \in Plans, NEW c, c = NextFree(p.cursor, End(a), a.slots, p.taken)
  PROVE  /\ Searched(c, p.cursor, End(a), a.slots, p.taken)
         /\ c # None => c \in Ticks
  <1>1. p.cursor \in Nat /\ End(a) \in Nat /\ Sane(a.slots) /\ MaxDays \in Nat
    BY AskIs, EndIs, SlotSearchAssumption DEF Plans
  <1>2. Searched(c, p.cursor, End(a), a.slots, p.taken)
    BY <1>1, NextFreeIs
  <1>3. ASSUME c # None PROVE c \in Ticks
    <2>1. c \in Nat /\ DayOf(c) <= DayOf(End(a))
      BY <1>2, <1>3 DEF Searched
    <2>2. DayOf(c) \in Nat /\ DayOf(End(a)) \in Nat /\ DayOf(End(a)) <= MaxDays
      BY <1>1, <2>1, DayIs, EndIs
    <2>3. DayOf(c) <= MaxDays
      BY <1>1, <2>1, <2>2
    <2> QED BY <2>1, <2>3, EndIs
  <1> QED BY <1>2, <1>3

(* A turn leaves such variables.                                           *)
LEMMA PlanTurnType ==
  ASSUME NEW a \in Asks, NEW p \in Plans
  PROVE PlanTurn(a, p) \in Plans
  <1> DEFINE c == NextFree(p.cursor, End(a), a.slots, p.taken)
  <1>1. c # None => c \in Ticks
    BY TurnFinds
  <1>2. PlanTurn(a, p) = IF c = None THEN p ELSE [dates |-> Append(p.dates, c),
              taken  |-> [p.taken EXCEPT ![c] = @ + 1], cursor |-> c + a.spacing]
    BY DEF PlanTurn
  <1> HIDE DEF c
  <1>3. ASSUME c \in Ticks
        PROVE  [dates |-> Append(p.dates, c), taken |-> [p.taken EXCEPT ![c] = @ + 1],
              cursor |-> c + a.spacing] \in Plans
    <2>1. p.dates \in Seq(Ticks) /\ p.taken \in [Ticks -> Nat]
      BY DEF Plans
    <2>2. Append(p.dates, c) \in Seq(Ticks)
      BY <1>3, <2>1
    <2>3. [p.taken EXCEPT ![c] = @ + 1] \in [Ticks -> Nat]
      BY <1>3, <2>1
    <2>4. a.spacing \in Nat /\ c \in Nat
      BY <1>3, AskIs, SlotSearchAssumption DEF Ticks
    <2>5. c + a.spacing \in Nat
      BY <2>4
    <2> QED BY <2>2, <2>3, <2>5 DEF Plans
  <1> QED BY <1>1, <1>2, <1>3

(* A turn keeps the invariant.                                             *)
LEMMA PlanStep ==
  ASSUME NEW a \in Asks, NEW p, NEW k \in Nat, PlanOK(a, p, k)
  PROVE  PlanOK(a, PlanTurn(a, p), k + 1)
  <1> DEFINE c == NextFree(p.cursor, End(a), a.slots, p.taken)
             d == p.dates
             n == Len(d)
             q == PlanTurn(a, p)
  <1>0. /\ p \in Plans /\ n \in Nat /\ n <= k /\ d \in Seq(Ticks) /\ p.cursor \in Nat
            /\ p.taken \in [Ticks -> Nat]
        /\ p.cursor = Cursor(a, d, n + 1) /\ a.from <= p.cursor
        /\ \A t \in Ticks : t > p.cursor /\ t < End(a) => p.taken[t] = Held(a, t)
        /\ Planned(a, d)
        /\ n < k => c = None
    BY DEF PlanOK, Plans
  <1>1. a.from \in Nat /\ End(a) \in Nat /\ a.spacing \in Nat /\ Ticks \subseteq Nat
    BY AskIs, EndIs DEF Ticks
  <1>2. Searched(c, p.cursor, End(a), a.slots, p.taken) /\ (c # None => c \in Ticks)
    BY <1>0, TurnFinds
  <1>3. q = IF c = None THEN p ELSE [dates |-> Append(d, c),
              taken  |-> [p.taken EXCEPT ![c] = @ + 1], cursor |-> c + a.spacing]
    BY DEF PlanTurn
  <1>35. q \in Plans
    BY <1>0, PlanTurnType
  <1>4. c = NextFree(p.cursor, End(a), a.slots, p.taken)
    OBVIOUS
  <1> HIDE DEF c, q
  <1>5. CASE c = None
    <2>1. q = p
      BY <1>3, <1>5
    <2>2. PlanOK(a, p, k + 1)
      BY <1>0, <1>4, <1>5 DEF PlanOK
    <2> QED BY <2>1, <2>2 DEF q
  <1>6. CASE c # None
    <2> DEFINE e == Append(d, c)
    <2>1. q.dates = e /\ q.taken = [p.taken EXCEPT ![c] = @ + 1] /\ q.cursor = c + a.spacing
      BY <1>3, <1>6
    <2>2. c \in Ticks /\ c \in Nat /\ c > p.cursor /\ FreeSlot(a.slots, p.taken, c)
          /\ \A t \in Nat : t > p.cursor /\ t < c => ~FreeSlot(a.slots, p.taken, t)
      BY <1>2, <1>6 DEF Searched
    <2>3. e \in Seq(Ticks) /\ Len(e) = n + 1 /\ e[n + 1] = c /\ \A i \in 1 .. n : e[i] = d[i]
      BY <1>0, <2>2
    <2>35. n = k
      BY <1>0, <1>6
    <2> HIDE DEF e, d, n
    <2>4. ASSUME NEW i \in 1 .. n + 1 PROVE Cursor(a, e, i) = Cursor(a, d, i)
      <3>1. CASE i = 1
        BY <3>1 DEF Cursor
      <3>2. CASE i # 1
        <4>1. i - 1 \in 1 .. n
          BY <1>0, <3>2
        <4> QED BY <2>3, <3>2, <4>1 DEF Cursor
      <3> QED BY <3>1, <3>2
    <2>5. p.cursor = Cursor(a, e, n + 1) /\ n + 1 \in 1 .. n + 1
      BY <1>0, <2>4
    <2>6. q.cursor = Cursor(a, e, n + 2)
      <3>1. n + 2 # 1 /\ (n + 2) - 1 = n + 1
        BY <1>0
      <3>2. Cursor(a, e, n + 2) = e[n + 1] + a.spacing
        BY <3>1 DEF Cursor
      <3> QED BY <2>1, <2>3, <3>2
    <2>7. ASSUME NEW t \in Ahead(a), t > p.cursor, t < c PROVE ~Room(a, t)
      <3>1. t \in Nat /\ t < End(a) /\ t <= End(a)
        BY <1>1 DEF Ahead
      <3>2. t \in Ticks
        BY <3>1, EndIs
      <3>3. p.taken[t] = Held(a, t)
        BY <1>0, <2>7, <3>1, <3>2
      <3>4. ~FreeSlot(a.slots, p.taken, t)
        BY <2>2, <2>7, <3>1
      <3> QED BY <3>3, <3>4, FreeIsRoom
    <2>8. ASSUME c \in Ahead(a) PROVE Room(a, c)
      <3>1. c < End(a)
        BY <1>1, <2>8 DEF Ahead
      <3>2. p.taken[c] = Held(a, c)
        BY <1>0, <2>2, <3>1
      <3> QED BY <2>2, <3>2, FreeIsRoom
    <2>9. ASSUME NEW i \in 1 .. n + 1
          PROVE  /\ e[i] > Cursor(a, e, i) /\ (e[i] \in Ahead(a) => Room(a, e[i]))
                 /\ \A t \in Ahead(a) : t > Cursor(a, e, i) /\ t < e[i] => ~Room(a, t)
      <3>1. CASE i = n + 1
        BY <2>2, <2>3, <2>5, <2>7, <2>8, <3>1
      <3>2. CASE i # n + 1
        <4>1. i \in 1 .. n
          BY <1>0, <3>2
        <4>2. e[i] = d[i] /\ Cursor(a, e, i) = Cursor(a, d, i)
          BY <2>3, <2>4, <4>1
        <4>3. /\ d[i] > Cursor(a, d, i) /\ (d[i] \in Ahead(a) => Room(a, d[i]))
              /\ \A t \in Ahead(a) : t > Cursor(a, d, i) /\ t < d[i] => ~Room(a, t)
          BY <1>0, <4>1 DEF Planned, n
        <4> QED BY <4>2, <4>3
      <3> QED BY <3>1, <3>2
    <2>10. Planned(a, e)
      BY <2>3, <2>9 DEF Planned
    <2>11. ASSUME NEW t \in Ticks, t > q.cursor, t < End(a) PROVE q.taken[t] = Held(a, t)
      <3>1. t \in Nat /\ t > c
        BY <1>1, <2>1, <2>2, <2>11
      <3>2. t > p.cursor
        BY <1>0, <2>2, <3>1
      <3>3. p.taken[t] = Held(a, t)
        BY <1>0, <2>11, <3>2
      <3>4. q.taken[t] = p.taken[t]
        BY <1>0, <2>1, <2>2, <3>1
      <3> QED BY <3>3, <3>4
    <2>12. Len(q.dates) = k + 1 /\ Len(q.dates) + 1 = n + 2 /\ Len(q.dates) <= k + 1
          /\ ~(Len(q.dates) < k + 1)
      BY <1>0, <2>1, <2>3, <2>35
    <2>13. a.from <= q.cursor
      BY <1>0, <1>1, <2>1, <2>2
    <2>14. q.cursor = Cursor(a, q.dates, Len(q.dates) + 1)
      BY <2>1, <2>6, <2>12
    <2>15. Planned(a, q.dates)
      BY <2>1, <2>10
    <2>16. PlanOK(a, q, k + 1)
      BY <1>35, <2>11, <2>12, <2>13, <2>14, <2>15 DEF PlanOK
    <2> QED BY <2>16 DEF q
  <1> QED BY <1>5, <1>6

(* The plan is what the loop ends with: by induction over the posts.       *)
LEMMA PlanIs ==
  ASSUME NEW a \in Asks
  PROVE  \E p : PlanOK(a, p, a.count) /\ Plan(a) = p.dates
  <1> DEFINE n == a.count
             seq == [i \in 1 .. a.count |-> i]
             base == [dates |-> <<>>, cursor |-> a.from, taken |-> TakenMap(a.dates, a.from, End(a))]
             Body(H) == [s \in SUBSET DOMAIN seq |->
                           IF s = {} THEN base ELSE PlanTurn(a, H[s \ {Max(s)}])]
             iter == CHOOSE H : H = Body(H)
             ch == [s \in SUBSET (1 .. n) |-> Max(s)]
             G == [z \in Plans \X (1 .. n) |-> PlanTurn(a, z[1])]
  <1>1. n \in Nat /\ DOMAIN seq = 1 .. n
    BY AskIs
  <1>2. Plan(a) = iter[DOMAIN seq].dates
    BY DEF Plan, FoldLeft, MapThenFoldSet, iter, Body, base, seq, PlanTurn, End
  <1>3. base \in Plans
    <2>1. <<>> \in Seq(Ticks) /\ a.from \in Nat
      BY AskIs
    <2> QED BY <2>1, TakenIs DEF Plans
  <1>4. PlanOK(a, base, 0)
    <2>1. base.dates = <<>> /\ base.cursor = a.from /\ base.taken = TakenMap(a.dates, a.from, End(a))
      OBVIOUS
    <2>2. Len(<<>>) = 0 /\ a.from \in Nat /\ Ticks \subseteq Nat
      BY AskIs DEF Ticks
    <2>3. \A t \in Ticks : t > a.from /\ t < End(a) => base.taken[t] = Held(a, t)
      BY <2>1, <2>2, TakenIs
    <2>4. Cursor(a, <<>>, 0 + 1) = a.from
      BY DEF Cursor
    <2>5. Planned(a, <<>>)
      BY <2>2 DEF Planned
    <2> HIDE DEF base
    <2> QED BY <1>3, <2>1, <2>2, <2>3, <2>4, <2>5 DEF PlanOK
  <1> HIDE DEF base, seq, n
  <1>5. G \in [Plans \X (1 .. n) -> Plans]
    BY PlanTurnType
  <1>6. \A s \in SUBSET (1 .. n) : s # {} => ch[s] \in s
    BY <1>1, MaxAmong
  <1>7. IsFiniteSet(1 .. n)
    BY <1>1, FS_Interval
  <1> DEFINE N == 1 .. n
  <1>8. FoldBy(N, Plans, base, ch, G)
    <2> HIDE DEF ch, G
    <2> QED BY <1>3, <1>5, <1>6, <1>7 DEF FoldBy
  <1>9. PICK F : FoldOf(F, N, Plans, base, ch, G)
    BY <1>8, FoldExists
  <1>10. F = Body(F)
    <2>1. ASSUME NEW s \in SUBSET N, s # {} PROVE F[s] = PlanTurn(a, F[s \ {Max(s)}])
      <3>1. F[s] = G[<<F[s \ {ch[s]}], ch[s]>>]
        BY <1>9, <2>1 DEF FoldOf
      <3>2. ch[s] = Max(s) /\ Max(s) \in N
        BY <1>1, <2>1, MaxAmong
      <3>3. F[s \ {Max(s)}] \in Plans
        BY <1>9 DEF FoldOf
      <3> QED BY <3>1, <3>2, <3>3
    <2>2. \A s \in SUBSET N : F[s] = IF s = {} THEN base ELSE PlanTurn(a, F[s \ {Max(s)}])
      BY <1>9, <2>1 DEF FoldOf
    <2>3. F = [s \in SUBSET N |-> IF s = {} THEN base ELSE PlanTurn(a, F[s \ {Max(s)}])]
      BY <1>9, <2>2 DEF FoldOf
    <2> QED BY <1>1, <2>3
  <1> HIDE DEF Body
  <1>11. iter = Body(iter)
    BY <1>10
  <1> HIDE DEF iter
  <1>12. iter = [s \in SUBSET N |-> IF s = {} THEN base ELSE PlanTurn(a, iter[s \ {Max(s)}])]
    BY <1>1, <1>11 DEF Body
  <1>13. \A s \in SUBSET N : iter[s] = IF s = {} THEN base ELSE PlanTurn(a, iter[s \ {Max(s)}])
    BY <1>12
  <1> DEFINE L == {k \in Nat : k \in 0 .. n => PlanOK(a, iter[1 .. k], k)}
  <1>14. 0 \in L
    <2>1. 1 .. 0 = {} /\ {} \in SUBSET N
      OBVIOUS
    <2>2. iter[1 .. 0] = base
      BY <1>13, <2>1
    <2> QED BY <1>4, <2>2
  <1>15. ASSUME NEW k \in Nat, k \in L PROVE k + 1 \in L
    <2> SUFFICES ASSUME k + 1 \in 0 .. n PROVE PlanOK(a, iter[1 .. (k + 1)], k + 1)
      OBVIOUS
    <2>1. k \in 0 .. n /\ k + 1 \in 1 .. n /\ (k + 1) - 1 = k
      BY <1>1
    <2>2. PlanOK(a, iter[1 .. k], k)
      BY <1>15, <2>1
    <2> DEFINE j == k + 1
    <2>3. /\ 1 .. j \in SUBSET (1 .. n) /\ 1 .. j # {} /\ Max(1 .. j) = j
              /\ (1 .. j) \ {j} = 1 .. (j - 1)
      BY <1>1, <2>1, PrefixLess
    <2>4. iter[1 .. j] = PlanTurn(a, iter[1 .. (j - 1)])
      BY <1>13, <2>3
    <2>5. j - 1 = k
      BY <2>1
    <2> HIDE DEF j
    <2>6. iter[1 .. j] = PlanTurn(a, iter[1 .. k])
      BY <2>4, <2>5
    <2> QED BY <2>2, <2>6, PlanStep DEF j
  <1> HIDE DEF L
  <1>16. n \in L
    BY <1>1, <1>14, <1>15, NatInd
  <1>17. PlanOK(a, iter[1 .. n], n)
    BY <1>1, <1>16 DEF L
  <1> QED BY <1>1, <1>2, <1>17 DEF n

(* A plan is sound, for every request.                                     *)
LEMMA PlansSound ==
  ASSUME NEW a \in Asks
  PROVE  LET p == Plan(a)
         IN  /\ p \in Seq(Ticks) /\ Planned(a, p)
             /\ Len(p) < a.count => \A t \in Ahead(a) : t > Cursor(a, p, Len(p) + 1) => ~Room(a, t)
  <1>1. PICK p : PlanOK(a, p, a.count) /\ Plan(a) = p.dates
    BY PlanIs
  <1>2. p \in Plans /\ p.dates \in Seq(Ticks) /\ p.cursor \in Nat /\ Planned(a, p.dates)
    BY <1>1 DEF PlanOK, Plans
  <1>3. ASSUME Len(p.dates) < a.count, NEW t \in Ahead(a), t > p.cursor PROVE ~Room(a, t)
    <2>1. NextFree(p.cursor, End(a), a.slots, p.taken) = None
      BY <1>1, <1>3 DEF PlanOK
    <2>2. End(a) \in Nat /\ a.from \in Nat
      BY AskIs, EndIs
    <2>3. t \in Nat /\ t < End(a) /\ t <= End(a)
      BY <2>2 DEF Ahead
    <2>4. Searched(None, p.cursor, End(a), a.slots, p.taken)
      BY <1>2, <2>1, TurnFinds
    <2>5. ~FreeSlot(a.slots, p.taken, t)
      BY <1>3, <2>3, <2>4 DEF Searched
    <2>6. t \in Ticks
      BY <2>3, EndIs
    <2>7. p.taken[t] = Held(a, t)
      BY <1>1, <1>3, <2>3, <2>6 DEF PlanOK
    <2> QED BY <2>5, <2>7, FreeIsRoom
  <1>4. p.cursor = Cursor(a, p.dates, Len(p.dates) + 1)
    BY <1>1 DEF PlanOK
  <1> QED BY <1>1, <1>2, <1>3, <1>4

(* How often a tick is among the dates offered.                            *)
Given(d, t) == Cardinality({i \in 1 .. Len(d) : d[i] = t})

(* It is a number, above 0 for those that are there,                       *)
LEMMA GivenIs ==
  ASSUME NEW d \in Seq(Ticks), NEW t
  PROVE  Given(d, t) \in Nat /\ (Given(d, t) > 0 <=> \E i \in 1 .. Len(d) : d[i] = t)
  <1> DEFINE X == {i \in 1 .. Len(d) : d[i] = t}
  <1>1. IsFiniteSet(1 .. Len(d))
    BY FS_Interval
  <1>2. X \subseteq 1 .. Len(d)
    OBVIOUS
  <1>3. X # {} <=> \E i \in 1 .. Len(d) : d[i] = t
    OBVIOUS
  <1> HIDE DEF X
  <1>4. IsFiniteSet(X)
    BY <1>1, <1>2, FS_Subset
  <1>5. Cardinality(X) \in Nat /\ (Cardinality(X) = 0 <=> X = {})
    BY <1>4, FS_CardinalityType, FS_EmptySet
  <1>6. Given(d, t) = Cardinality(X)
    BY DEF Given, X
  <1> QED BY <1>3, <1>5, <1>6

(* and one more for a date that is added.                                  *)
LEMMA GivenAppend ==
  ASSUME NEW d \in Seq(Ticks), NEW c \in Ticks, NEW t
  PROVE  Given(Append(d, c), t) = IF t = c THEN Given(d, t) + 1 ELSE Given(d, t)
  <1> DEFINE n == Len(d)
             e == Append(d, c)
             X == {i \in 1 .. n : d[i] = t}
             Y == {i \in 1 .. Len(e) : e[i] = t}
  <1>1. n \in Nat /\ Len(e) = n + 1 /\ e[n + 1] = c /\ \A i \in 1 .. n : e[i] = d[i]
    OBVIOUS
  <1>2. IsFiniteSet(1 .. n) /\ X \subseteq 1 .. n
    BY <1>1, FS_Interval
  <1>25. Given(e, t) = Cardinality(Y) /\ Given(d, t) = Cardinality(X)
    BY DEF Given
  <1> HIDE DEF e
  <1>3. Y = IF t = c THEN X \cup {n + 1} ELSE X
    <2>1. 1 .. Len(e) = (1 .. n) \cup {n + 1} /\ n + 1 \notin 1 .. n
      BY <1>1
    <2> HIDE DEF n
    <2>2. \A i : i \in Y <=> i \in X \/ (i = n + 1 /\ t = c)
      BY <1>1, <2>1
    <2> QED BY <2>2
  <1>4. n + 1 \notin X
    BY <1>1
  <1> HIDE DEF X, Y
  <1>5. IsFiniteSet(X)
    BY <1>2, FS_Subset
  <1>6. Cardinality(X \cup {n + 1}) = Cardinality(X) + 1
    BY <1>4, <1>5, FS_AddElement
  <1> QED BY <1>25, <1>3, <1>6 DEF e

(* The days and slots the loop of getNextAvailableSlots visits.            *)
Visits(a) ==
    LET days == {d \in DayOf(a.from) .. DayOf(End(a)) :
                   (IF d = DayOf(a.from) THEN a.from ELSE d * DayLength) < End(a)}
    IN  {v \in days \X a.slots : v[2].dayOfWeek = Weekday(v[1])}

(* The tick of a visit.                                                    *)
Tick(v) == At(v[1], v[2])

(* The last visit of some.                                                 *)
Latest(vs) == CHOOSE v \in vs : \A w \in vs : At(w[1], w[2]) <= At(v[1], v[2])

(* The visits are finitely many, each at a tick its slot is due, and every *)
(* slot due in the window is visited.                                      *)
LEMMA VisitsAre ==
  ASSUME NEW a \in Asks
  PROVE  /\ IsFiniteSet(Visits(a))
         /\ \A v \in Visits(a) :
              /\ Tick(v) \in Ticks /\ v[2] \in a.slots
              /\ Tick(v) % DayLength = v[2].time /\ Weekday(DayOf(Tick(v))) = v[2].dayOfWeek
         /\ \A t \in Ahead(a) : \A s \in Due(a, t) : <<DayOf(t), s>> \in Visits(a)
               /\ Tick(<<DayOf(t), s>>) = t
  <1> DEFINE first == DayOf(a.from)
             last == DayOf(End(a))
             days == {d \in first .. last : (IF d = first THEN a.from ELSE d * DayLength) < End(a)}
             V == {v \in days \X a.slots : v[2].dayOfWeek = Weekday(v[1])}
  <1>1. /\ a.from \in Nat /\ End(a) \in Nat /\ a.from < End(a) /\ Sane(a.slots)
        /\ MaxDays \in Nat /\ DayLength \in Nat \ {0}
    BY AskIs, EndIs, SlotSearchAssumption
  <1>2. first \in Nat /\ last \in Nat /\ last <= MaxDays
    BY <1>1, DayIs, EndIs
  <1>3. V = Visits(a)
    BY DEF Visits
  <1>4. \A d \in days : d \in Nat /\ d <= MaxDays
    <2> HIDE DEF first, last
    <2> QED BY <1>1, <1>2
  <1>5. IsFiniteSet(days)
    <2>1. IsFiniteSet(first .. last) /\ days \subseteq first .. last
      BY <1>2, FS_Interval
    <2> HIDE DEF days
    <2> QED BY <2>1, FS_Subset
  <1>55. \A d \in first .. last : (IF d = first THEN a.from ELSE d * DayLength) < End(a) => d \in days
    OBVIOUS
  <1> HIDE DEF days
  <1>6. IsFiniteSet(V)
    <2>1. IsFiniteSet(days \X a.slots)
      BY <1>1, <1>5, FS_Product DEF Sane
    <2>2. V \subseteq days \X a.slots
      OBVIOUS
    <2> HIDE DEF V
    <2> QED BY <2>1, <2>2, FS_Subset
  <1>7. ASSUME NEW v \in V
        PROVE  /\ Tick(v) \in Ticks /\ v[2] \in a.slots
               /\ Tick(v) % DayLength = v[2].time /\ Weekday(DayOf(Tick(v))) = v[2].dayOfWeek
    <2>1. v[1] \in Nat /\ v[1] <= MaxDays /\ v[2] \in a.slots /\ v[2] \in Slot
          /\ v[2].dayOfWeek = Weekday(v[1])
      BY <1>1, <1>4 DEF Sane
    <2>2. Tick(v) \in Nat /\ DayOf(Tick(v)) = v[1] /\ Tick(v) % DayLength = v[2].time
      BY <2>1, AtIs DEF Tick
    <2>3. Tick(v) \in Ticks
      BY <2>1, <2>2, EndIs
    <2> QED BY <2>1, <2>2, <2>3
  <1>8. ASSUME NEW t \in Ahead(a), NEW s \in Due(a, t)
        PROVE  <<DayOf(t), s>> \in V /\ Tick(<<DayOf(t), s>>) = t
    <2> DEFINE d == DayOf(t)
    <2>1. t \in Nat /\ t > a.from /\ t < End(a)
      BY <1>1 DEF Ahead
    <2>2. s \in a.slots /\ t % DayLength = s.time /\ Weekday(d) = s.dayOfWeek
      BY DEF Due
    <2>23. d \in Nat /\ d * DayLength <= t /\ t = d * DayLength + (t % DayLength)
      BY <2>1, DayIs
    <2>26. first <= d
      BY <1>1, <2>1, DayMonotone
    <2>28. d <= last
      BY <1>1, <2>1, DayMonotone
    <2>3. d \in Nat /\ first <= d /\ d <= last /\ d * DayLength <= t
          /\ t = d * DayLength + (t % DayLength)
      BY <2>23, <2>26, <2>28
    <2> HIDE DEF d, first, last
    <2>4. d \in first .. last
      BY <1>2, <2>3
    <2>45. d * DayLength \in Nat
      BY <1>1, <2>3
    <2>5. (IF d = first THEN a.from ELSE d * DayLength) < End(a)
      BY <1>1, <2>1, <2>3, <2>45
    <2>6. d \in days
      BY <1>55, <2>4, <2>5
    <2>7. <<d, s>> \in V
      BY <2>2, <2>6
    <2>8. Tick(<<d, s>>) = t
      BY <2>2, <2>3 DEF Tick, At
    <2> QED BY <2>7, <2>8 DEF d
  <1> HIDE DEF V
  <1> QED BY <1>3, <1>6, <1>7, <1>8

(* The variables of the loop.                                              *)
Offers == [dates : Seq(Ticks), taken : [Ticks -> Nat]]

(* A turn of it.                                                           *)
OfferTurn(a, v, p) ==
    LET c == At(v[1], v[2])
    IN  IF Len(p.dates) < a.count /\ c > a.from /\ Below(p.taken[c], v[2])
          THEN [dates |-> Append(p.dates, c), taken |-> [p.taken EXCEPT ![c] = @ + 1]]
          ELSE p

(* What the map counts before the loop.                                    *)
Scheduled(a) == TakenMap(a.dates, a.from, End(a))

(* The invariant after the visits vs: the dates are in order, the map      *)
(* counts them besides the posts, no slot is given more than it holds, and *)
(* every slot with room has been given while dates were wanted.            *)
OfferOK(a, p, vs) ==
    /\ p \in Offers
    /\ \A i \in 1 .. Len(p.dates) : p.dates[i] > a.from /\ \E v \in vs : p.dates[i] = Tick(v)
    /\ \A i \in 1 .. Len(p.dates) : i > 1 => p.dates[i - 1] <= p.dates[i]
    /\ \A t \in Ticks : p.taken[t] = Scheduled(a)[t] + Given(p.dates, t)
    /\ \A t \in Ticks : Given(p.dates, t) > 0 =>
         \E s \in Due(a, t) : Below(Scheduled(a)[t] + Given(p.dates, t) - 1, s)
    /\ Len(p.dates) < a.count =>
         \A v \in vs : Tick(v) > a.from /\ Below(Scheduled(a)[Tick(v)], v[2])
               => Given(p.dates, Tick(v)) > 0

(* Of finitely many visits, one is the last.                               *)
LEMMA LatestIs ==
  ASSUME NEW a \in Asks, NEW vs \in SUBSET Visits(a), vs # {}
  PROVE  Latest(vs) \in vs /\ \A w \in vs : Tick(w) <= Tick(Latest(vs))
  <1> DEFINE f == [v \in vs |-> Tick(v)]
             T == {f[v] : v \in vs}
  <1>1. IsFiniteSet(vs)
    BY VisitsAre, FS_Subset
  <1>2. \A v \in vs : f[v] = Tick(v) /\ f[v] \in Int
    BY VisitsAre DEF Ticks
  <1> HIDE DEF f
  <1>3. T \in SUBSET Int /\ T # {}
    BY <1>2
  <1>35. \A v \in vs : f[v] \in T
    OBVIOUS
  <1>36. \A x \in T : \E v \in vs : x = f[v]
    OBVIOUS
  <1> HIDE DEF T
  <1>4. IsFiniteSet(T)
    BY <1>1, ImageFinite DEF T
  <1>5. Max(T) \in T /\ \A y \in T : y <= Max(T)
    BY <1>3, <1>4, SetHasMax
  <1>6. PICK v \in vs : Max(T) = f[v]
    BY <1>5, <1>36
  <1>7. \A w \in vs : Tick(w) <= Tick(v)
    BY <1>2, <1>35, <1>5, <1>6
  <1>8. \E u \in vs : \A w \in vs : At(w[1], w[2]) <= At(u[1], u[2])
    BY <1>7 DEF Tick
  <1>9. Latest(vs) \in vs /\ \A w \in vs : At(w[1], w[2]) <= At(Latest(vs)[1], Latest(vs)[2])
    BY <1>8, Zenon DEF Latest
  <1> QED BY <1>9 DEF Tick

(* A turn leaves such variables.                                           *)
LEMMA OfferTurnType ==
  ASSUME NEW a \in Asks, NEW v \in Visits(a), NEW p \in Offers
  PROVE  OfferTurn(a, v, p) \in Offers
  <1> DEFINE c == At(v[1], v[2])
  <1>1. c \in Ticks
    BY VisitsAre DEF Tick
  <1> HIDE DEF c
  <1>2. p.dates \in Seq(Ticks) /\ p.taken \in [Ticks -> Nat]
    BY DEF Offers
  <1>3. Append(p.dates, c) \in Seq(Ticks) /\ [p.taken EXCEPT ![c] = @ + 1] \in [Ticks -> Nat]
    BY <1>1, <1>2
  <1>4. [dates |-> Append(p.dates, c), taken |-> [p.taken EXCEPT ![c] = @ + 1]] \in Offers
    BY <1>3 DEF Offers
  <1> QED BY <1>4 DEF OfferTurn, c

(* A turn keeps the invariant.                                             *)
LEMMA OfferStep ==
  ASSUME NEW a \in Asks, NEW vs \in SUBSET Visits(a), NEW v \in vs, \A w \in vs : Tick(w) <= Tick(v),
         NEW p, OfferOK(a, p, vs \ {v})
  PROVE  OfferOK(a, OfferTurn(a, v, p), vs)
  <1> DEFINE c == Tick(v)
             d == p.dates
             n == Len(d)
             B == Scheduled(a)
             takes == n < a.count /\ c > a.from /\ Below(p.taken[c], v[2])
             q == OfferTurn(a, v, p)
  <1>1. /\ p \in Offers /\ d \in Seq(Ticks) /\ n \in Nat /\ p.taken \in [Ticks -> Nat]
        /\ \A i \in 1 .. n : d[i] \in Ticks
    BY DEF OfferOK, Offers
  <1>2. /\ \A i \in 1 .. n : d[i] > a.from /\ \E w \in vs \ {v} : d[i] = Tick(w)
        /\ \A i \in 1 .. n : i > 1 => d[i - 1] <= d[i]
        /\ \A t \in Ticks : p.taken[t] = B[t] + Given(d, t)
        /\ \A t \in Ticks : Given(d, t) > 0 => \E s \in Due(a, t) : Below(B[t] + Given(d, t) - 1, s)
    BY DEF OfferOK
  <1>3. n < a.count =>
          \A w \in vs \ {v} : Tick(w) > a.from /\ Below(B[Tick(w)], w[2]) => Given(d, Tick(w)) > 0
    BY DEF OfferOK
  <1>4. c \in Ticks /\ Ticks \subseteq Nat /\ a.count \in Nat /\ a.from \in Nat /\ B \in [Ticks -> Nat]
    BY VisitsAre, AskIs, TakenIs DEF Ticks, Scheduled
  <1>45. \A w \in vs : Tick(w) \in Ticks
    BY VisitsAre
  <1>5. v[2] \in Due(a, c)
    BY VisitsAre DEF Due
  <1>6. q = IF takes THEN [dates |-> Append(d, c), taken |-> [p.taken EXCEPT ![c] = @ + 1]] ELSE p
    BY DEF OfferTurn, Tick
  <1>7. q \in Offers
    BY <1>1, OfferTurnType
  <1>75. \A t : Given(d, t) \in Nat
    BY <1>1, GivenIs
  <1> HIDE DEF q, c, B
  <1>8. CASE ~takes
    <2>1. q = p
      BY <1>6, <1>8
    <2>2. ASSUME n < a.count, NEW w \in vs, Tick(w) > a.from, Below(B[Tick(w)], w[2])
          PROVE Given(d, Tick(w)) > 0
      <3>1. CASE w # v
        BY <1>3, <2>2, <3>1
      <3>2. CASE w = v
        <4>1. c > a.from /\ Below(B[c], v[2]) /\ Tick(w) = c
          BY <2>2, <3>2 DEF c
        <4>2. ~Below(p.taken[c], v[2])
          BY <1>8, <2>2, <4>1
        <4>3. p.taken[c] # B[c]
          BY <4>1, <4>2
        <4>4. p.taken[c] = B[c] + Given(d, c) /\ B[c] \in Nat /\ Given(d, c) \in Nat
          BY <1>2, <1>4, <1>75
        <4>5. Given(d, c) # 0
          BY <4>3, <4>4
        <4> QED BY <4>1, <4>4, <4>5
      <3> QED BY <3>1, <3>2
    <2>3. \A i \in 1 .. n : d[i] > a.from /\ \E w \in vs : d[i] = Tick(w)
      BY <1>2
    <2>4. OfferOK(a, p, vs)
      BY <1>1, <1>2, <2>2, <2>3 DEF OfferOK, B
    <2> QED BY <2>1, <2>4 DEF q
  <1>9. CASE takes
    <2> DEFINE e == Append(d, c)
    <2>1. q.dates = e /\ q.taken = [p.taken EXCEPT ![c] = @ + 1]
      BY <1>6, <1>9
    <2>2. n < a.count /\ c > a.from /\ Below(p.taken[c], v[2])
      BY <1>9
    <2>3. e \in Seq(Ticks) /\ Len(e) = n + 1 /\ e[n + 1] = c /\ \A i \in 1 .. n : e[i] = d[i]
      BY <1>1, <1>4
    <2>4. \A t : Given(e, t) = IF t = c THEN Given(d, t) + 1 ELSE Given(d, t)
      BY <1>1, <1>4, GivenAppend
    <2> HIDE DEF e, d, n
    <2>5. ASSUME NEW i \in 1 .. n + 1 PROVE e[i] > a.from /\ \E w \in vs : e[i] = Tick(w)
      <3>1. CASE i = n + 1
        BY <2>2, <2>3, <3>1 DEF c
      <3>2. CASE i # n + 1
        <4>1. i \in 1 .. n
          BY <1>1, <3>2
        <4> QED BY <1>2, <2>3, <4>1
      <3> QED BY <3>1, <3>2
    <2>6. ASSUME NEW i \in 1 .. n + 1, i > 1 PROVE e[i - 1] <= e[i]
      <3>1. CASE i = n + 1
        <4>1. i - 1 \in 1 .. n /\ e[i] = c /\ e[i - 1] = d[i - 1]
          BY <1>1, <2>3, <2>6, <3>1
        <4>2. PICK w \in vs : d[i - 1] = Tick(w)
          BY <1>2, <4>1
        <4>3. Tick(w) <= c
          BY DEF c
        <4> QED BY <4>1, <4>2, <4>3
      <3>2. CASE i # n + 1
        <4>1. i \in 1 .. n /\ i - 1 \in 1 .. n
          BY <1>1, <2>6, <3>2
        <4> QED BY <1>2, <2>3, <2>6, <4>1
      <3> QED BY <3>1, <3>2
    <2>7. ASSUME NEW t \in Ticks PROVE q.taken[t] = B[t] + Given(e, t)
      <3>1. p.taken[t] = B[t] + Given(d, t) /\ B[t] \in Nat /\ Given(d, t) \in Nat
        BY <1>2, <1>4, <1>75
      <3>2. q.taken[t] = IF t = c THEN p.taken[t] + 1 ELSE p.taken[t]
        BY <1>1, <1>4, <2>1
      <3> QED BY <2>4, <3>1, <3>2
    <2>8. ASSUME NEW t \in Ticks, Given(e, t) > 0
          PROVE \E s \in Due(a, t) : Below(B[t] + Given(e, t) - 1, s)
      <3>1. CASE t = c
        <4>1. p.taken[c] = B[c] + Given(d, c) /\ B[c] \in Nat /\ Given(d, c) \in Nat
          BY <1>2, <1>4, <1>75
        <4>2. Given(e, c) = Given(d, c) + 1
          BY <2>4
        <4>3. B[c] + Given(e, c) - 1 = p.taken[c]
          BY <4>1, <4>2
        <4>4. Below(B[c] + Given(e, c) - 1, v[2])
          BY <2>2, <4>3
        <4> QED BY <1>5, <3>1, <4>4
      <3>2. CASE t # c
        <4>1. Given(e, t) = Given(d, t)
          BY <2>4, <3>2
        <4> QED BY <1>2, <2>8, <4>1
      <3> QED BY <3>1, <3>2
    <2>9. ASSUME NEW w \in vs, Tick(w) > a.from, Below(B[Tick(w)], w[2]) PROVE Given(e, Tick(w)) > 0
      <3>1. CASE Tick(w) = c
        <4>1. Given(e, Tick(w)) = Given(d, c) + 1 /\ Given(d, c) \in Nat
          BY <1>75, <2>4, <3>1
        <4> QED BY <4>1
      <3>2. CASE Tick(w) # c
        <4>1. w \in vs \ {v} /\ Given(e, Tick(w)) = Given(d, Tick(w))
          BY <2>4, <3>2 DEF c
        <4> QED BY <1>3, <2>2, <2>9, <4>1
      <3> QED BY <3>1, <3>2
    <2>10. Len(q.dates) = n + 1
      BY <2>1, <2>3
    <2>11. OfferOK(a, q, vs)
      BY <1>7, <2>1, <2>3, <2>5, <2>6, <2>7, <2>8, <2>9 DEF OfferOK, B
    <2> QED BY <2>11 DEF q
  <1> QED BY <1>8, <1>9

(* The offer is what the loop ends with: by induction over the sets of     *)
(* visits.                                                                 *)
LEMMA OfferIs ==
  ASSUME NEW a \in Asks
  PROVE  \E p : OfferOK(a, p, Visits(a)) /\ Offer(a) = p.dates
  <1> DEFINE V == Visits(a)
             base == [dates |-> <<>>, taken |-> TakenMap(a.dates, a.from, End(a))]
             Body(H) == [vs \in SUBSET Visits(a) |->
                           IF vs = {} THEN base ELSE OfferTurn(a, Latest(vs), H[vs \ {Latest(vs)}])]
             iter == CHOOSE H : H = Body(H)
             ch == [vs \in SUBSET Visits(a) |-> Latest(vs)]
             G == [z \in Offers \X Visits(a) |-> OfferTurn(a, z[2], z[1])]
  <1>1. Offer(a) = iter[V].dates
    BY DEF Offer, MapThenFoldSet, iter, Body, base, V, Visits, OfferTurn, End, Latest
  <1>2. base \in Offers
    <2>1. <<>> \in Seq(Ticks)
      OBVIOUS
    <2> QED BY <2>1, TakenIs DEF Offers
  <1>3. OfferOK(a, base, {})
    <2>1. base.dates = <<>> /\ base.taken = Scheduled(a)
      BY DEF Scheduled
    <2>2. Len(<<>>) = 0 /\ <<>> \in Seq(Ticks) /\ Scheduled(a) \in [Ticks -> Nat]
      BY TakenIs DEF Scheduled
    <2>3. \A t : Given(<<>>, t) = 0
      <3> SUFFICES ASSUME NEW t PROVE Given(<<>>, t) = 0
        OBVIOUS
      <3>1. Given(<<>>, t) \in Nat /\ (Given(<<>>, t) > 0 <=> \E i \in 1 .. Len(<<>>) : <<>>[i] = t)
        BY <2>2, GivenIs
      <3> QED BY <2>2, <3>1
    <2>4. \A t \in Ticks : base.taken[t] = Scheduled(a)[t] + Given(<<>>, t)
      BY <2>1, <2>2, <2>3
    <2> HIDE DEF base
    <2> QED BY <1>2, <2>1, <2>2, <2>3, <2>4 DEF OfferOK
  <1> HIDE DEF base
  <1>4. G \in [Offers \X V -> Offers]
    BY OfferTurnType
  <1>5. \A vs \in SUBSET V : vs # {} => ch[vs] \in vs
    BY LatestIs
  <1>6. IsFiniteSet(V)
    BY VisitsAre
  <1>7. FoldBy(V, Offers, base, ch, G)
    <2> HIDE DEF ch, G, V
    <2> QED BY <1>2, <1>4, <1>5, <1>6 DEF FoldBy
  <1>8. PICK F : FoldOf(F, V, Offers, base, ch, G)
    BY <1>7, FoldExists
  <1>9. F = Body(F)
    <2>1. ASSUME NEW vs \in SUBSET V, vs # {}
          PROVE F[vs] = OfferTurn(a, Latest(vs), F[vs \ {Latest(vs)}])
      <3>1. F[vs] = G[<<F[vs \ {ch[vs]}], ch[vs]>>]
        BY <1>8, <2>1 DEF FoldOf
      <3>2. ch[vs] = Latest(vs) /\ Latest(vs) \in V
        BY <2>1, LatestIs
      <3>3. F[vs \ {Latest(vs)}] \in Offers
        BY <1>8 DEF FoldOf
      <3> QED BY <3>1, <3>2, <3>3
    <2>2. \A vs \in SUBSET V : F[vs] = IF vs = {} THEN base
          ELSE OfferTurn(a, Latest(vs), F[vs \ {Latest(vs)}])
      BY <1>8, <2>1 DEF FoldOf
    <2>3. F = [vs \in SUBSET V |-> IF vs = {} THEN base
          ELSE OfferTurn(a, Latest(vs), F[vs \ {Latest(vs)}])]
      BY <1>8, <2>2 DEF FoldOf
    <2> QED BY <2>3
  <1> HIDE DEF Body
  <1>10. iter = Body(iter)
    BY <1>9
  <1> HIDE DEF iter
  <1>11. iter = [vs \in SUBSET V |-> IF vs = {} THEN base
        ELSE OfferTurn(a, Latest(vs), iter[vs \ {Latest(vs)}])]
    BY <1>10 DEF Body
  <1>12. \A vs \in SUBSET V : iter[vs] = IF vs = {} THEN base
        ELSE OfferTurn(a, Latest(vs), iter[vs \ {Latest(vs)}])
    BY <1>11
  <1> DEFINE K == {vs \in SUBSET V : OfferOK(a, iter[vs], vs)}
  <1>13. {} \in K
    BY <1>3, <1>12
  <1>14. ASSUME NEW vs \in SUBSET V, vs # {}, \A x \in vs : vs \ {x} \in K PROVE vs \in K
    <2> DEFINE v == Latest(vs)
    <2>1. v \in vs /\ \A w \in vs : Tick(w) <= Tick(v)
      BY <1>14, LatestIs
    <2>2. OfferOK(a, iter[vs \ {v}], vs \ {v})
      BY <1>14, <2>1
    <2>3. iter[vs] = OfferTurn(a, v, iter[vs \ {v}])
      BY <1>12, <1>14
    <2> HIDE DEF v
    <2>4. OfferOK(a, OfferTurn(a, v, iter[vs \ {v}]), vs)
      BY <2>1, <2>2, OfferStep
    <2> QED BY <2>3, <2>4
  <1> HIDE DEF K, V
  <1>15. SUBSET V \subseteq K
    BY <1>6, <1>13, <1>14, SetDescent
  <1>16. OfferOK(a, iter[V], V)
    BY <1>15 DEF K
  <1> QED BY <1>1, <1>16 DEF V

(* An offer is sound, for every request.                                   *)
LEMMA OffersSound ==
  ASSUME NEW a \in Asks
  PROVE  LET o == Offer(a)
         IN  /\ o \in Seq(Ticks)
             /\ \A i \in 1 .. Len(o) : o[i] > a.from /\ (i > 1 => o[i - 1] <= o[i])
             /\ \A t \in Ahead(a) : Given(o, t) > 0 =>
                  \E s \in Due(a, t) : Below(Held(a, t) + Given(o, t) - 1, s)
             /\ Len(o) < a.count => \A t \in Ahead(a) : Room(a, t) => Given(o, t) > 0
  <1>1. PICK p : OfferOK(a, p, Visits(a)) /\ Offer(a) = p.dates
    BY OfferIs
  <1>2. ASSUME NEW t \in Ahead(a) PROVE t \in Ticks /\ Scheduled(a)[t] = Held(a, t) /\ t > a.from
    <2>1. a.from \in Nat /\ End(a) \in Nat
      BY AskIs, EndIs
    <2>2. t \in Nat /\ t > a.from /\ t >= a.from /\ t < End(a) /\ t <= End(a)
      BY <2>1 DEF Ahead
    <2>3. t \in Ticks
      BY <2>2, EndIs
    <2> QED BY <2>2, <2>3, TakenIs DEF Scheduled
  <1>3. p.dates \in Seq(Ticks)
    BY <1>1 DEF OfferOK, Offers
  <1>4. \A i \in 1 .. Len(p.dates) : p.dates[i] > a.from /\ (i > 1 => p.dates[i - 1] <= p.dates[i])
    BY <1>1 DEF OfferOK
  <1>5. ASSUME NEW t \in Ahead(a), Given(p.dates, t) > 0
        PROVE  \E s \in Due(a, t) : Below(Held(a, t) + Given(p.dates, t) - 1, s)
    BY <1>1, <1>2, <1>5 DEF OfferOK
  <1>6. ASSUME Len(p.dates) < a.count, NEW t \in Ahead(a), Room(a, t) PROVE Given(p.dates, t) > 0
    <2>1. PICK s \in Due(a, t) : Below(Held(a, t), s)
      BY <1>6 DEF Room, Below
    <2> DEFINE v == <<DayOf(t), s>>
    <2>2. v \in Visits(a) /\ Tick(v) = t /\ v[2] = s
      BY VisitsAre
    <2> HIDE DEF v
    <2> QED BY <1>1, <1>2, <1>6, <2>1, <2>2 DEF OfferOK
  <1> QED BY <1>1, <1>3, <1>4, <1>5, <1>6

(* The answers are what the searches compute.                              *)
SearchInv == ask \in Asks /\ found \in {Nothing, [plan |-> Plan(ask), offer |-> Offer(ask)]}

(* What the searches compute is what is claimed of them.                   *)
LEMMA SearchHolds == SearchInv => SearchSound
  <1> SUFFICES ASSUME SearchInv, found # Nothing PROVE SearchSound
    BY DEF SearchSound, PlanSound, OfferSound
  <1>1. ask \in Asks /\ found.plan = Plan(ask) /\ found.offer = Offer(ask)
    BY DEF SearchInv
  <1>2. PlanSound
    <2> DEFINE p == Plan(ask)
    <2>1. /\ p \in Seq(Ticks) /\ Planned(ask, p)
          /\ Len(p) < ask.count => \A t \in Ahead(ask) : t > Cursor(ask, p, Len(p) + 1) => ~Room(ask, t)
      BY <1>1, PlansSound
    <2>2. DOMAIN p = 1 .. Len(p)
      BY <2>1
    <2> HIDE DEF p
    <2>3. found.plan = p
      BY <1>1 DEF p
    <2> QED BY <2>1, <2>2, <2>3 DEF PlanSound, Planned, Cursor, Ahead
  <1>3. OfferSound
    <2> DEFINE o == Offer(ask)
    <2>1. /\ o \in Seq(Ticks)
          /\ \A i \in 1 .. Len(o) : o[i] > ask.from /\ (i > 1 => o[i - 1] <= o[i])
          /\ \A t \in Ahead(ask) : Given(o, t) > 0 =>
               \E s \in Due(ask, t) : Below(Held(ask, t) + Given(o, t) - 1, s)
          /\ Len(o) < ask.count => \A t \in Ahead(ask) : Room(ask, t) => Given(o, t) > 0
      BY <1>1, OffersSound
    <2>2. DOMAIN o = 1 .. Len(o)
      BY <2>1
    <2> HIDE DEF o
    <2>3. found.offer = o
      BY <1>1 DEF o
    <2>4. \A t : Cardinality({i \in DOMAIN o : o[i] = t}) = Given(o, t)
      BY <2>2 DEF Given
    <2>5. \A i \in DOMAIN o : o[i] > ask.from /\ (i > 1 => o[i - 1] <= o[i])
      BY <2>1, <2>2
    <2>6. \A t \in ask.from + 1 .. End(ask) - 1 : Cardinality({i \in DOMAIN o : o[i] = t}) > 0 =>
            \E s \in Due(ask, t) : Below(Held(ask, t) + Cardinality({i \in DOMAIN o : o[i] = t}) - 1, s)
      <3> SUFFICES ASSUME NEW t \in Ahead(ask), Given(o, t) > 0
                   PROVE  \E s \in Due(ask, t) : Below(Held(ask, t) + Given(o, t) - 1, s)
        BY <2>4, Zenon DEF Ahead
      <3> QED BY <2>1
    <2>7. Len(o) < ask.count =>
            \A t \in ask.from + 1 .. End(ask) - 1 : Room(ask, t)
                  => Cardinality({i \in DOMAIN o : o[i] = t}) > 0
      <3> SUFFICES ASSUME Len(o) < ask.count, NEW t \in Ahead(ask), Room(ask, t)
                   PROVE  Given(o, t) > 0
        BY <2>4, Zenon DEF Ahead
      <3> QED BY <2>1
    <2> QED BY <2>3, <2>5, <2>6, <2>7, Zenon DEF OfferSound, Quantify
  <1> QED BY <1>2, <1>3 DEF SearchSound

(* The plan and the offer give no slot more posts than it holds, keep      *)
(* their order and spacing, and skip no free slot: for slots, posts and    *)
(* windows of every number and length.                                     *)
THEOREM SearchesAreSound == SearchSpec => []SearchSound
  <1>1. SearchInit => SearchInv
    BY DEF SearchInit, SearchInv
  <1>2. SearchInv /\ [Search]_searchVars => SearchInv'
    <2> SUFFICES ASSUME SearchInv, [Search]_searchVars PROVE SearchInv'
      OBVIOUS
    <2>1. CASE Search
      BY <2>1 DEF SearchInv, Search
    <2>2. CASE UNCHANGED searchVars
      BY <2>2 DEF SearchInv, searchVars
    <2> QED BY <2>1, <2>2
  <1> QED BY <1>1, <1>2, SearchHolds, PTL DEF SearchSpec

-----------------------------------------------------------------------------
(* The parts together.                                                     *)
(* A part at rest has searched and split nothing.                          *)
RestingInv ==
    /\ part \in {"slots", "search", "threads", "compose", "split"}
    /\ IF part = "search" THEN SearchInv ELSE found = Nothing
    /\ SplitInv

ScheduleInv == SlotsInv /\ ThreadsInv /\ ComposeInv /\ RestingInv

(* No text is a text.                                                      *)
LEMMA NothingToSplit == <<>> \in Texts
  <1> DEFINE none == [i \in 1 .. 0 |-> "letter"]
  <1>1. none = <<>> /\ DOMAIN none = {}
    OBVIOUS
  <1>2. none \in [1 .. 0 -> Chars] /\ 0 \in 0 .. MaxText
    BY TweetSplitAssumption DEF Chars
  <1>3. none \in UNION {[1 .. n -> Chars] : n \in 0 .. MaxText}
    BY <1>2
  <1>4. {i \in DOMAIN none : none[i] = "bad"} = {}
    BY <1>1
  <1>5. Cardinality({}) = 0
    BY FS_EmptySet
  <1>6. Cardinality({i \in DOMAIN none : none[i] = "bad"}) <= MaxBad
    BY <1>4, <1>5, TweetSplitAssumption
  <1>7. Trimmed(none)
    BY <1>1 DEF Trimmed
  <1> HIDE DEF none
  <1>8. none \in Texts
    BY <1>3, <1>6, <1>7 DEF Texts
  <1> QED BY <1>1, <1>8

LEMMA ScheduleStart == ScheduleInit => ScheduleInv
  <1> SUFFICES ASSUME ScheduleInit PROVE ScheduleInv
    OBVIOUS
  <1>1. SlotsInit /\ ThreadsInit /\ ComposeInit
    BY DEF ScheduleInit
  <1>2. part = "search" => SearchInv
    BY DEF ScheduleInit, SearchInit, SearchInv
  <1>3. part # "search" => found = Nothing
    BY DEF ScheduleInit
  <1>4. SplitInv
    BY NothingToSplit DEF ScheduleInit, SplitInit, SplitInv
  <1>5. RestingInv
    BY <1>2, <1>3, <1>4 DEF ScheduleInit, RestingInv
  <1> QED BY <1>1, <1>5, SlotsStart, ThreadsStart, ComposeStart DEF ScheduleInv

LEMMA ScheduleStep == ScheduleInv /\ [ScheduleNext]_parts => ScheduleInv'
  <1> SUFFICES ASSUME ScheduleInv, [ScheduleNext]_parts PROVE ScheduleInv'
    OBVIOUS
  <1>1. /\ [SlotsNext]_slotVars /\ [ThreadsNext]_threadVars /\ [ComposeNext]_composeVars
        /\ (part = "search" /\ Search) \/ UNCHANGED searchVars
        /\ Split \/ UNCHANGED splitVars
        /\ UNCHANGED part
    BY DEF ScheduleNext, parts
  <1>2. IF part' = "search" THEN SearchInv' ELSE (found = Nothing)'
    <2>1. CASE part = "search" /\ Search
      BY <1>1, <2>1 DEF ScheduleInv, RestingInv, SearchInv, Search
    <2>2. CASE UNCHANGED searchVars
      BY <1>1, <2>2 DEF ScheduleInv, RestingInv, SearchInv, searchVars
    <2> QED BY <1>1, <2>1, <2>2
  <1>3. SplitInv'
    BY <1>1 DEF ScheduleInv, RestingInv, SplitInv, Split, splitVars
  <1>4. RestingInv'
    BY <1>1, <1>2, <1>3 DEF ScheduleInv, RestingInv
  <1>5. SlotsInv' /\ ThreadsInv' /\ ComposeInv'
    BY <1>1, SlotsStep, ThreadsStep, ComposeStep DEF ScheduleInv
  <1> QED BY <1>4, <1>5 DEF ScheduleInv

(* All that is claimed of what lies between writing a post and its job     *)
(* holds of the specification that composes its parts.                     *)
THEOREM SchedulingIsSound ==
  ScheduleSpec => [](/\ SlotsBounded /\ SearchSound /\ ThreadKept
                     /\ ShownTruthfully /\ AdmittedSent /\ SplitKeepsText)
  <1>1. ScheduleInv => SearchSound
    <2>1. found = Nothing => SearchSound
      BY DEF SearchSound, PlanSound, OfferSound
    <2> QED BY <2>1, SearchHolds DEF ScheduleInv, RestingInv
  <1>2. ScheduleInv => SplitKeepsText
    BY SplitHolds DEF ScheduleInv, RestingInv
  <1>3. ScheduleInv => SlotsBounded /\ ThreadKept /\ ShownTruthfully /\ AdmittedSent
    BY Bounded, AdmittedHolds DEF ScheduleInv, ThreadsInv, ComposeInv
  <1> QED BY <1>1, <1>2, <1>3, ScheduleStart, ScheduleStep, PTL DEF ScheduleSpec
==============================================================================
