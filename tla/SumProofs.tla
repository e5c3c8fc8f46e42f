------------------------------ MODULE SumProofs ------------------------------
(* Induction without operator parameters, and sums over finite sets.       *)
EXTENDS Functions, FiniteSetTheorems, WellFoundedInduction, TLAPS

-----------------------------------------------------------------------------
(* Induction *)

(* A set of naturals that holds 0 and is closed under + 1 is all of Nat.   *)
LEMMA NatSetInduction ==
    ASSUME NEW P, 0 \in P, \A n \in Nat : n \in P => n+1 \in P
    PROVE  Nat \subseteq P
<1> SUFFICES ASSUME Nat \ P # {}  PROVE FALSE
  OBVIOUS
<1> DEFINE R == {ss \in Nat \X Nat : ss[1] < ss[2]}
<1>1. R = OpToRel(<, Nat)
  BY Zenon DEF OpToRel
<1>2. IsWellFoundedOn(R, Nat)
  BY <1>1, NatLessThanWellFounded, Zenon
<1>3. Nat \ P \subseteq Nat
  OBVIOUS
<1>4. PICK x \in Nat \ P : \A y \in Nat \ P : <<y, x>> \notin R
  <2> HIDE DEF R
  <2> QED  BY <1>2, <1>3, WFMin, Zenon
<1>5. x # 0 /\ x \in Nat /\ x-1 \in Nat /\ (x-1) + 1 = x
  BY <1>4
<1>6. x-1 \notin P
  BY <1>4, <1>5
<1>7. <<x-1, x>> \in R
  BY <1>5
<1> HIDE DEF R
<1> QED  BY <1>4, <1>5, <1>6, <1>7

LEMMA OneLess ==
    ASSUME NEW S, IsFiniteSet(S), NEW x \in S
    PROVE  /\ Cardinality(S \ {x}) + 1 = Cardinality(S)
           /\ IsFiniteSet(S \ {x})
<1>1. Cardinality(S \ {x}) = Cardinality(S) - 1 /\ IsFiniteSet(S \ {x})
  BY FS_RemoveElement
<1>2. Cardinality(S) \in Nat
  BY FS_CardinalityType
<1> QED  BY <1>1, <1>2

(* What holds of a finite set as soon as it holds of the sets with one     *)
(* element less, holds of every finite set.                                *)
LEMMA CardinalityInduction ==
    ASSUME NEW S, IsFiniteSet(S), NEW P,
           \A s \in SUBSET S :
               (\A t \in SUBSET S : Cardinality(t) + 1 = Cardinality(s) => t \in P)
               => s \in P
    PROVE  SUBSET S \subseteq P
<1> DEFINE Q == {n \in Nat : \A s \in SUBSET S : Cardinality(s) = n => s \in P}
<1>1. \A s \in SUBSET S : IsFiniteSet(s) /\ Cardinality(s) \in Nat
  BY FS_Subset, FS_CardinalityType
<1>2. 0 \in Q
  <2> SUFFICES ASSUME NEW s \in SUBSET S, Cardinality(s) = 0  PROVE s \in P
    OBVIOUS
  <2>1. \A t \in SUBSET S : Cardinality(t) + 1 # 0
    BY <1>1
  <2> QED  BY <2>1
<1>3. \A n \in Nat : n \in Q => n+1 \in Q
  <2> SUFFICES ASSUME NEW n \in Nat, n \in Q,
                      NEW s \in SUBSET S, Cardinality(s) = n+1
               PROVE  s \in P
    OBVIOUS
  <2>1. \A t \in SUBSET S : Cardinality(t) + 1 = n+1 => t \in P
    BY <1>1
  <2> QED  BY <2>1
<1>4. Nat \subseteq Q
  <2> HIDE DEF Q
  <2> QED  BY <1>2, <1>3, NatSetInduction
<1> QED  BY <1>1, <1>4

(* What holds of the empty set, and still holds after one more element,    *)
(* holds of every finite set.                                              *)
LEMMA FiniteSetInduction ==
    ASSUME NEW S, IsFiniteSet(S), NEW P, {} \in P,
           \A t \in SUBSET S, x \in S : t \in P /\ x \notin t => t \cup {x} \in P
    PROVE  S \in P
<1>1. ASSUME NEW s \in SUBSET S,
             \A t \in SUBSET S : Cardinality(t) + 1 = Cardinality(s) => t \in P
      PROVE  s \in P
  <2>1. CASE s = {}
    BY <2>1
  <2>2. CASE s # {}
    <3>1. PICK x \in s : TRUE
      BY <2>2
    <3>2. IsFiniteSet(s)
      BY FS_Subset
    <3>4. Cardinality(s \ {x}) + 1 = Cardinality(s)
      BY <3>1, <3>2, OneLess
    <3>5. s \ {x} \in P
      BY <3>4, <1>1
    <3>6. (s \ {x}) \cup {x} = s
      BY <3>1
    <3> QED  BY <3>1, <3>5, <3>6
  <2> QED  BY <2>1, <2>2
<1>2. SUBSET S \subseteq P
  BY <1>1, CardinalityInduction
<1> QED  BY <1>2

-----------------------------------------------------------------------------
(* The fold that a sum is, unfolded once *)

Pick(s) == CHOOSE x \in s : TRUE

(* g holds the sum of every set of `sets` that it is asked for.            *)
SumsUp(g, f, sets) ==
    g = [s \in sets |-> IF s = {} THEN 0 ELSE f[Pick(s)] + g[s \ {Pick(s)}]]

Table(f, S) == CHOOSE g : SumsUp(g, f, SUBSET S)

LEMMA SumIsInTable ==
    ASSUME NEW f, NEW S
    PROVE  SumFunctionOnSet(f, S) = Table(f, S)[S]
BY Zenon DEF SumFunctionOnSet, FoldFunctionOnSet, MapThenFoldSet, Table, SumsUp, Pick

LEMMA TableSumsUp ==
    ASSUME NEW f, NEW S, IsFiniteSet(S)
    PROVE  SumsUp(Table(f, S), f, SUBSET S)
<1> DEFINE Small(n) == {s \in SUBSET S : Cardinality(s) <= n}
           Q == {n \in Nat : \E g : SumsUp(g, f, Small(n))}
<1>0. \A s \in SUBSET S : IsFiniteSet(s) /\ Cardinality(s) \in Nat
  BY FS_Subset, FS_CardinalityType
<1>1. \A s \in SUBSET S : s # {} => /\ Pick(s) \in s
                                    /\ Cardinality(s \ {Pick(s)}) = Cardinality(s) - 1
  BY <1>0, FS_RemoveElement DEF Pick
<1>2. 0 \in Q
  <2>1. ASSUME NEW s \in Small(0)  PROVE s = {}
    <3>1. Cardinality(s) = 0 /\ IsFiniteSet(s)
      BY <1>0
    <3> QED  BY <3>1, FS_EmptySet
  <2>2. SumsUp([s \in Small(0) |-> 0], f, Small(0))
    BY <2>1 DEF SumsUp
  <2> QED  BY <2>2
<1>3. \A n \in Nat : n \in Q => n+1 \in Q
  <2> SUFFICES ASSUME NEW n \in Nat, \E g : SumsUp(g, f, Small(n))
               PROVE  \E h : SumsUp(h, f, Small(n+1))
    <3> HIDE DEF Small
    <3> QED  OBVIOUS
  <2>1. PICK g : SumsUp(g, f, Small(n))
    OBVIOUS
  <2> DEFINE h == [s \in Small(n+1) |-> IF s = {} THEN 0 ELSE f[Pick(s)] + g[s \ {Pick(s)}]]
  <2>2. ASSUME NEW s \in Small(n)  PROVE s \in Small(n+1) /\ h[s] = g[s]
    <3>1. s \in Small(n+1)
      BY <1>0
    <3>2. g = [t \in Small(n) |-> IF t = {} THEN 0 ELSE f[Pick(t)] + g[t \ {Pick(t)}]]
      <4> HIDE DEF Small
      <4> QED  BY <2>1 DEF SumsUp
    <3> HIDE DEF Small
    <3>3. g[s] = IF s = {} THEN 0 ELSE f[Pick(s)] + g[s \ {Pick(s)}]
      BY <3>2, Zenon
    <3>4. h[s] = IF s = {} THEN 0 ELSE f[Pick(s)] + g[s \ {Pick(s)}]
      BY <3>1
    <3> QED  BY <3>1, <3>3, <3>4
  <2>3. \A s \in Small(n+1) : s # {} => s \ {Pick(s)} \in Small(n)
    BY <1>0, <1>1
  <2> HIDE DEF Small
  <2>4. h = [s \in Small(n+1) |-> IF s = {} THEN 0 ELSE f[Pick(s)] + h[s \ {Pick(s)}]]
    BY <2>2, <2>3
  <2> HIDE DEF h
  <2> QED  BY <2>4 DEF SumsUp
<1>4. Cardinality(S) \in Q
  <2> HIDE DEF Q
  <2> QED  BY <1>0, <1>2, <1>3, NatSetInduction
<1>5. Small(Cardinality(S)) = SUBSET S
  BY <1>0, FS_Subset
<1> QED  BY <1>4, <1>5 DEF Table

-----------------------------------------------------------------------------
(* Sums *)

LEMMA SumOfNone == \A f : SumFunctionOnSet(f, {}) = 0
<1> SUFFICES ASSUME NEW f  PROVE SumFunctionOnSet(f, {}) = 0
  OBVIOUS
<1>1. SumsUp(Table(f, {}), f, SUBSET {})
  BY TableSumsUp, FS_EmptySet
<1>2. Table(f, {})[{}] = 0
  <2> DEFINE g == Table(f, {})
  <2>1. g = [s \in SUBSET {} |-> IF s = {} THEN 0 ELSE f[Pick(s)] + g[s \ {Pick(s)}]]
    BY <1>1 DEF SumsUp
  <2> HIDE DEF g
  <2>2. g[{}] = IF {} = {} THEN 0 ELSE f[Pick({})] + g[{} \ {Pick({})}]
    BY <2>1, {} \in SUBSET {}, Zenon
  <2> QED  BY <2>2 DEF g
<1> QED  BY <1>2, SumIsInTable

(* A table of a set says of its subsets what their own tables say.         *)
LEMMA TablesAgree ==
    ASSUME NEW f, NEW S, IsFiniteSet(S), NEW T \in SUBSET S
    PROVE  Table(f, S)[T] = Table(f, T)[T]
<1>1. IsFiniteSet(T)
  BY FS_Subset
<1> DEFINE g == Table(f, S)
           h == Table(f, T)
           P == {s \in SUBSET T : g[s] = h[s]}
<1>1a. SumsUp(g, f, SUBSET S) /\ SumsUp(h, f, SUBSET T)
  BY <1>1, TableSumsUp
<1> HIDE DEF g, h
<1>2. /\ g = [s \in SUBSET S |-> IF s = {} THEN 0 ELSE f[Pick(s)] + g[s \ {Pick(s)}]]
      /\ h = [s \in SUBSET T |-> IF s = {} THEN 0 ELSE f[Pick(s)] + h[s \ {Pick(s)}]]
  BY <1>1a, Zenon DEF SumsUp
<1>3. ASSUME NEW s \in SUBSET T,
             \A t \in SUBSET T : Cardinality(t) + 1 = Cardinality(s) => t \in P
      PROVE  s \in P
  <2>1. /\ g[s] = IF s = {} THEN 0 ELSE f[Pick(s)] + g[s \ {Pick(s)}]
        /\ h[s] = IF s = {} THEN 0 ELSE f[Pick(s)] + h[s \ {Pick(s)}]
    BY <1>2, s \in SUBSET S, Zenon
  <2>2. s # {} => Cardinality(s \ {Pick(s)}) + 1 = Cardinality(s)
    <3>1. IsFiniteSet(s)
      BY <1>1, FS_Subset
    <3>2. s # {} => Pick(s) \in s
      BY DEF Pick
    <3> QED  BY <3>1, <3>2, OneLess
  <2>3. s # {} => s \ {Pick(s)} \in P
    BY <2>2, <1>3
  <2> QED  BY <2>1, <2>3
<1>4. SUBSET T \subseteq P
  <2> HIDE DEF P
  <2> QED  BY <1>1, <1>3, CardinalityInduction
<1>5. T \in P
  <2> HIDE DEF P
  <2> QED  BY <1>4
<1> QED  BY <1>5 DEF g, h

LEMMA SumUnfolds ==
    ASSUME NEW f, NEW S, IsFiniteSet(S), S # {}
    PROVE  SumFunctionOnSet(f, S) = f[Pick(S)] + SumFunctionOnSet(f, S \ {Pick(S)})
<1> DEFINE g == Table(f, S)
           T == S \ {Pick(S)}
<1>1. SumsUp(g, f, SUBSET S)
  BY TableSumsUp
<1>2. g[T] = Table(f, T)[T]
  BY TablesAgree
<1> HIDE DEF g
<1>2a. g = [s \in SUBSET S |-> IF s = {} THEN 0 ELSE f[Pick(s)] + g[s \ {Pick(s)}]]
  BY <1>1, Zenon DEF SumsUp
<1>3. g[S] = IF S = {} THEN 0 ELSE f[Pick(S)] + g[S \ {Pick(S)}]
  BY <1>2a, S \in SUBSET S, Zenon
<1> QED  BY <1>2, <1>3, SumIsInTable DEF g

LEMMA SumIsInt ==
    ASSUME NEW f, NEW S, IsFiniteSet(S), \A i \in S : f[i] \in Int
    PROVE  SumFunctionOnSet(f, S) \in Int
<1> DEFINE P == {s \in SUBSET S : SumFunctionOnSet(f, s) \in Int}
<1>1. ASSUME NEW s \in SUBSET S,
             \A t \in SUBSET S : Cardinality(t) + 1 = Cardinality(s) => t \in P
      PROVE  s \in P
  <2>1. CASE s = {}
    BY <2>1, SumOfNone
  <2>2. CASE s # {}
    <3>1. IsFiniteSet(s) /\ Pick(s) \in s
      BY <2>2, FS_Subset DEF Pick
    <3>2. Cardinality(s \ {Pick(s)}) + 1 = Cardinality(s)
      BY <3>1, OneLess
    <3>3. SumFunctionOnSet(f, s \ {Pick(s)}) \in Int
      BY <3>2, <1>1
    <3>4. SumFunctionOnSet(f, s) = f[Pick(s)] + SumFunctionOnSet(f, s \ {Pick(s)})
      BY <2>2, <3>1, SumUnfolds
    <3> QED  BY <3>1, <3>3, <3>4
  <2> QED  BY <2>1, <2>2
<1>2. SUBSET S \subseteq P
  <2> HIDE DEF P
  <2> QED  BY <1>1, CardinalityInduction
<1> QED  BY <1>2

(* Any element may be summed first. *)
LEMMA SumWithout ==
    ASSUME NEW f, NEW S, IsFiniteSet(S), \A i \in S : f[i] \in Int, NEW x \in S
    PROVE  SumFunctionOnSet(f, S) = SumFunctionOnSet(f, S \ {x}) + f[x]
<1> DEFINE F(s) == SumFunctionOnSet(f, s)
           P == {s \in SUBSET S : \A e \in s : F(s) = F(s \ {e}) + f[e]}
<1>1. ASSUME NEW s \in SUBSET S,
             \A t \in SUBSET S : Cardinality(t) + 1 = Cardinality(s) => t \in P
      PROVE  s \in P
  <2> SUFFICES ASSUME NEW e \in s  PROVE F(s) = F(s \ {e}) + f[e]
    OBVIOUS
  <2> DEFINE y == Pick(s)
  <2>1. IsFiniteSet(s) /\ y \in s
    BY FS_Subset DEF Pick
  <2>2. F(s) = f[y] + F(s \ {y})
    BY <2>1, SumUnfolds
  <2>3. \A d \in s : s \ {d} \in P
    <3> SUFFICES ASSUME NEW d \in s  PROVE s \ {d} \in P
      OBVIOUS
    <3>1. Cardinality(s \ {d}) + 1 = Cardinality(s)
      BY <2>1, OneLess
    <3> QED  BY <3>1, <1>1
  <2>4. \A t \in SUBSET S : F(t) \in Int
    BY SumIsInt, FS_Subset
  <2> HIDE DEF y
  <2>5. CASE e = y
    BY <2>2, <2>4, <2>5
  <2>6. CASE e # y
    <3>1. F(s \ {y}) = F((s \ {y}) \ {e}) + f[e]
      BY <2>1, <2>3, <2>6
    <3>2. F(s \ {e}) = F((s \ {e}) \ {y}) + f[y]
      BY <2>1, <2>3, <2>6
    <3>3. (s \ {y}) \ {e} = (s \ {e}) \ {y}
      OBVIOUS
    <3>4. f[e] \in Int /\ f[y] \in Int /\ F((s \ {e}) \ {y}) \in Int
      BY <2>1, <2>4
    <3>5. F(s) = f[y] + (F((s \ {e}) \ {y}) + f[e])
      BY <2>2, <3>1, <3>3
    <3>6. \A a, b, c \in Int : a + (b + c) = (b + a) + c
      OBVIOUS
    <3> HIDE DEF F
    <3> QED  BY <3>2, <3>4, <3>5, <3>6
  <2> QED  BY <2>5, <2>6
<1>2. SUBSET S \subseteq P
  <2> HIDE DEF P
  <2> QED  BY <1>1, CardinalityInduction
<1> QED  BY <1>2

(* ... or last. *)
LEMMA SumWith ==
    ASSUME NEW f, NEW S, IsFiniteSet(S), NEW x, x \notin S,
           \A i \in S \cup {x} : f[i] \in Int
    PROVE  SumFunctionOnSet(f, S \cup {x}) = SumFunctionOnSet(f, S) + f[x]
<1>1. IsFiniteSet(S \cup {x}) /\ (S \cup {x}) \ {x} = S
  BY FS_AddElement
<1> QED  BY <1>1, SumWithout

(* The sum over a renamed set: h says what each element is called there.   *)
LEMMA SumRenamed ==
    ASSUME NEW f, NEW g, NEW h, NEW S, IsFiniteSet(S),
           \A i \in S : f[i] \in Int /\ f[i] = g[h[i]],
           \A i, j \in S : h[i] = h[j] => i = j
    PROVE  /\ IsFiniteSet({h[i] : i \in S})
           /\ SumFunctionOnSet(f, S) = SumFunctionOnSet(g, {h[i] : i \in S})
<1> DEFINE Image(s) == {h[i] : i \in s}
           P == {s \in SUBSET S : /\ IsFiniteSet(Image(s))
                                  /\ SumFunctionOnSet(f, s) = SumFunctionOnSet(g, Image(s))}
<1>1. {} \in P
  <2>1. Image({}) = {}
    OBVIOUS
  <2> QED  BY <2>1, SumOfNone, FS_EmptySet
<1>2. ASSUME NEW t \in SUBSET S, NEW x \in S, t \in P, x \notin t
      PROVE  t \cup {x} \in P
  <2>1. Image(t \cup {x}) = Image(t) \cup {h[x]} /\ h[x] \notin Image(t)
    BY <1>2
  <2>2. SumFunctionOnSet(f, t \cup {x}) = SumFunctionOnSet(f, t) + f[x]
    <3>1. IsFiniteSet(t) /\ \A i \in t \cup {x} : f[i] \in Int
      BY FS_Subset
    <3> QED  BY <3>1, <1>2, SumWith
  <2>3. \A j \in Image(t) \cup {h[x]} : g[j] \in Int
    BY <1>2
  <2>4. IsFiniteSet(Image(t)) /\ SumFunctionOnSet(f, t) = SumFunctionOnSet(g, Image(t))
    BY <1>2
  <2> HIDE DEF Image
  <2>5. SumFunctionOnSet(g, Image(t) \cup {h[x]}) = SumFunctionOnSet(g, Image(t)) + g[h[x]]
    BY <2>1, <2>3, <2>4, SumWith
  <2>6. IsFiniteSet(Image(t) \cup {h[x]})
    BY <2>4, FS_AddElement
  <2>7. SumFunctionOnSet(f, t \cup {x}) = SumFunctionOnSet(g, Image(t \cup {x}))
    BY <2>1, <2>2, <2>4, <2>5
  <2> QED  BY <2>1, <2>6, <2>7
<1>3. S \in P
  <2> HIDE DEF P
  <2> QED  BY <1>1, <1>2, FiniteSetInduction
<1> QED  BY <1>3

(* Only the values at the elements count. *)
LEMMA SumOfSame ==
    ASSUME NEW f, NEW g, NEW S, IsFiniteSet(S),
           \A i \in S : f[i] \in Int /\ f[i] = g[i]
    PROVE  SumFunctionOnSet(f, S) = SumFunctionOnSet(g, S)
<1> DEFINE h == [i \in S |-> i]
<1>1. /\ \A i \in S : f[i] \in Int /\ f[i] = g[h[i]]
      /\ \A i, j \in S : h[i] = h[j] => i = j
      /\ {h[i] : i \in S} = S
  OBVIOUS
<1> HIDE DEF h
<1>2. SumFunctionOnSet(f, S) = SumFunctionOnSet(g, {h[i] : i \in S})
  BY <1>1, SumRenamed
<1> QED  BY <1>1, <1>2

LEMMA SumOfUnion ==
    ASSUME NEW f, NEW S, NEW T, IsFiniteSet(S), IsFiniteSet(T), S \cap T = {},
           \A i \in S \cup T : f[i] \in Int
    PROVE  SumFunctionOnSet(f, S \cup T) = SumFunctionOnSet(f, S) + SumFunctionOnSet(f, T)
<1> DEFINE F(s) == SumFunctionOnSet(f, s)
           P == {t \in SUBSET T : F(S \cup t) = F(S) + F(t)}
<1>1. {} \in P
  <2>1. S \cup {} = S /\ F({}) = 0 /\ F(S) \in Int
    BY SumOfNone, SumIsInt
  <2> HIDE DEF F
  <2> QED  BY <2>1
<1>2. ASSUME NEW t \in SUBSET T, NEW x \in T, t \in P, x \notin t
      PROVE  t \cup {x} \in P
  <2>1. IsFiniteSet(t) /\ IsFiniteSet(S \cup t) /\ x \notin S \cup t
    <3>1. IsFiniteSet(t)
      BY FS_Subset
    <3> QED  BY <1>2, <3>1, FS_Union
  <2>2. \A i \in (S \cup t) \cup {x} : f[i] \in Int
    OBVIOUS
  <2>3. F((S \cup t) \cup {x}) = F(S \cup t) + f[x]
    BY <2>1, <2>2, SumWith
  <2>4. F(t \cup {x}) = F(t) + f[x]
    BY <2>1, <2>2, <1>2, SumWith
  <2>5. F(S) \in Int /\ F(t) \in Int /\ f[x] \in Int
    BY <2>1, SumIsInt
  <2>6. F(S \cup t) = F(S) + F(t) /\ S \cup (t \cup {x}) = (S \cup t) \cup {x}
    BY <1>2
  <2> HIDE DEF F
  <2>7. F(S \cup (t \cup {x})) = (F(S) + F(t)) + f[x]
    BY <2>3, <2>6, Zenon
  <2>8. \A a, b, c \in Int : (a + b) + c = a + (b + c)
    OBVIOUS
  <2>9. (F(S) + F(t)) + f[x] = F(S) + (F(t) + f[x])
    BY <2>5, <2>8, Zenon
  <2>10. F(S \cup (t \cup {x})) = F(S) + F(t \cup {x})
    BY <2>4, <2>7, <2>9, Zenon
  <2> QED  BY <2>10
<1>3. T \in P
  <2> HIDE DEF P
  <2> QED  BY <1>1, <1>2, FiniteSetInduction
<1> QED  BY <1>3

LEMMA SumIsNat ==
    ASSUME NEW f, NEW S, IsFiniteSet(S), \A i \in S : f[i] \in Nat
    PROVE  SumFunctionOnSet(f, S) \in Nat
<1> DEFINE P == {t \in SUBSET S : SumFunctionOnSet(f, t) \in Nat}
<1>1. {} \in P
  BY SumOfNone
<1>2. ASSUME NEW t \in SUBSET S, NEW x \in S, t \in P, x \notin t
      PROVE  t \cup {x} \in P
  <2>1. IsFiniteSet(t) /\ \A i \in t \cup {x} : f[i] \in Int
    BY FS_Subset
  <2>2. SumFunctionOnSet(f, t \cup {x}) = SumFunctionOnSet(f, t) + f[x]
    BY <1>2, <2>1, SumWith
  <2> QED  BY <1>2, <2>2
<1>3. S \in P
  <2> HIDE DEF P
  <2> QED  BY <1>1, <1>2, FiniteSetInduction
<1> QED  BY <1>3

(* A part of what is not negative is no more than the whole.               *)
LEMMA SumOfPart ==
    ASSUME NEW f, NEW S, IsFiniteSet(S), \A i \in S : f[i] \in Nat, NEW T \in SUBSET S
    PROVE  SumFunctionOnSet(f, T) <= SumFunctionOnSet(f, S)
<1> DEFINE F(s) == SumFunctionOnSet(f, s)
<1>1. IsFiniteSet(T) /\ IsFiniteSet(S \ T) /\ T \cup (S \ T) = S /\ T \cap (S \ T) = {}
  BY FS_Subset
<1>2. \A i \in T \cup (S \ T) : f[i] \in Int
  OBVIOUS
<1>3. F(T \cup (S \ T)) = F(T) + F(S \ T)
  BY <1>1, <1>2, SumOfUnion
<1>4. F(T) \in Nat /\ F(S \ T) \in Nat
  BY <1>1, SumIsNat
<1> HIDE DEF F
<1>5. F(S) = F(T) + F(S \ T)
  BY <1>1, <1>3, Zenon
<1>6. \A a, b \in Nat : a <= a + b
  OBVIOUS
<1>7. F(T) <= F(S)
  BY <1>4, <1>5, <1>6, Zenon
<1> QED  BY <1>7 DEF F

LEMMA SumOfSums ==
    ASSUME NEW f, NEW g, NEW h, NEW S, IsFiniteSet(S),
           \A i \in S : f[i] \in Int /\ g[i] \in Int /\ h[i] = f[i] + g[i]
    PROVE  SumFunctionOnSet(h, S) = SumFunctionOnSet(f, S) + SumFunctionOnSet(g, S)
<1> DEFINE F(s) == SumFunctionOnSet(f, s)
           G(s) == SumFunctionOnSet(g, s)
           H(s) == SumFunctionOnSet(h, s)
           P == {s \in SUBSET S : H(s) = F(s) + G(s)}
<1>1. {} \in P
  BY SumOfNone
<1>2. ASSUME NEW t \in SUBSET S, NEW x \in S, t \in P, x \notin t
      PROVE  t \cup {x} \in P
  <2>1. IsFiniteSet(t) /\ \A i \in t \cup {x} : f[i] \in Int /\ g[i] \in Int /\ h[i] \in Int
    BY FS_Subset
  <2>2. /\ F(t \cup {x}) = F(t) + f[x]
        /\ G(t \cup {x}) = G(t) + g[x]
        /\ H(t \cup {x}) = H(t) + h[x]
    BY <1>2, <2>1, SumWith
  <2>3. F(t) \in Int /\ G(t) \in Int
    BY <2>1, SumIsInt
  <2>4. H(t) = F(t) + G(t) /\ f[x] \in Int /\ g[x] \in Int /\ h[x] = f[x] + g[x]
    BY <1>2
  <2> HIDE DEF F, G, H
  <2>5. H(t \cup {x}) = F(t \cup {x}) + G(t \cup {x})
    BY <2>2, <2>3, <2>4
  <2> QED  BY <2>5
<1>3. S \in P
  <2> HIDE DEF P
  <2> QED  BY <1>1, <1>2, FiniteSetInduction
<1> QED  BY <1>3

LEMMA SumIsAtMost ==
    ASSUME NEW f, NEW S, IsFiniteSet(S), NEW c \in Int,
           \A i \in S : f[i] \in Int /\ f[i] <= c
    PROVE  SumFunctionOnSet(f, S) <= c * Cardinality(S)
<1> DEFINE F(s) == SumFunctionOnSet(f, s)
           P == {s \in SUBSET S : F(s) <= c * Cardinality(s)}
<1>1. {} \in P
  <2>1. F({}) = 0 /\ Cardinality({}) = 0 /\ c * 0 = 0
    BY SumOfNone, FS_EmptySet
  <2> HIDE DEF F
  <2> QED  BY <2>1
<1>2. ASSUME NEW t \in SUBSET S, NEW x \in S, t \in P, x \notin t
      PROVE  t \cup {x} \in P
  <2>1. IsFiniteSet(t) /\ \A i \in t \cup {x} : f[i] \in Int
    BY FS_Subset
  <2>2. F(t \cup {x}) = F(t) + f[x] /\ F(t) \in Int
    BY <1>2, <2>1, SumWith, SumIsInt
  <2>3. Cardinality(t \cup {x}) = Cardinality(t) + 1 /\ Cardinality(t) \in Nat
    BY <1>2, <2>1, FS_AddElement, FS_CardinalityType
  <2>4. F(t) <= c * Cardinality(t) /\ f[x] <= c /\ f[x] \in Int
    BY <1>2
  <2>5. \A n \in Nat : c * (n + 1) = c * n + c /\ c * n \in Int
    OBVIOUS
  <2> HIDE DEF F
  <2>6. F(t \cup {x}) <= c * Cardinality(t \cup {x})
    <3> DEFINE n == Cardinality(t)
               m == c * n
    <3>1. n \in Nat /\ m \in Int /\ c * (n + 1) = m + c /\ F(t) <= m
      BY <2>3, <2>4, <2>5
    <3>2. Cardinality(t \cup {x}) = n + 1
      BY <2>3
    <3> HIDE DEF m, n
    <3> QED  BY <2>2, <2>4, <3>1, <3>2
  <2> QED  BY <2>6
<1>3. S \in P
  <2> HIDE DEF P
  <2> QED  BY <1>1, <1>2, FiniteSetInduction
<1> QED  BY <1>3

LEMMA SumOfProducts ==
    ASSUME NEW f, NEW g, NEW h, NEW S, IsFiniteSet(S), NEW c \in Int,
           \A i \in S : f[i] \in Int /\ g[i] \in Int /\ h[i] = f[i] * c - g[i]
    PROVE  SumFunctionOnSet(h, S) = SumFunctionOnSet(f, S) * c - SumFunctionOnSet(g, S)
<1> DEFINE F(s) == SumFunctionOnSet(f, s)
           G(s) == SumFunctionOnSet(g, s)
           H(s) == SumFunctionOnSet(h, s)
           P == {s \in SUBSET S : H(s) = F(s) * c - G(s)}
<1>0. \A a, b \in Int : a * c - b \in Int
  OBVIOUS
<1>1. {} \in P
  <2>1. F({}) = 0 /\ G({}) = 0 /\ H({}) = 0
    BY SumOfNone
  <2>2. 0 = 0 * c - 0
    OBVIOUS
  <2> HIDE DEF F, G, H
  <2> QED  BY <2>1, <2>2
<1>2. ASSUME NEW t \in SUBSET S, NEW x \in S, t \in P, x \notin t
      PROVE  t \cup {x} \in P
  <2>1. /\ IsFiniteSet(t) /\ \A i \in t \cup {x} : f[i] \in Int /\ g[i] \in Int
        /\ \A i \in t \cup {x} : h[i] \in Int
    BY <1>0, FS_Subset
  <2>2. /\ F(t \cup {x}) = F(t) + f[x]
        /\ G(t \cup {x}) = G(t) + g[x]
        /\ H(t \cup {x}) = H(t) + h[x]
    BY <1>2, <2>1, SumWith
  <2>3. F(t) \in Int /\ G(t) \in Int
    BY <2>1, SumIsInt
  <2>4. H(t) = F(t) * c - G(t) /\ f[x] \in Int /\ g[x] \in Int /\ h[x] = f[x] * c - g[x]
    BY <1>2
  <2> HIDE DEF F, G, H
  <2>5. \A a, b, p, q \in Int : (a * c - p) + (b * c - q) = (a + b) * c - (p + q)
    <3>1. \A a, b \in Int : (a + b) * c = a * c + b * c /\ a * c \in Int /\ b * c \in Int
      OBVIOUS
    <3>2. \A u, v, p, q \in Int : (u - p) + (v - q) = (u + v) - (p + q)
      OBVIOUS
    <3> SUFFICES ASSUME NEW a \in Int, NEW b \in Int, NEW p \in Int, NEW q \in Int
                 PROVE  (a * c - p) + (b * c - q) = (a + b) * c - (p + q)
      OBVIOUS
    <3> DEFINE u == a * c
               v == b * c
    <3>3. (a + b) * c = u + v /\ u \in Int /\ v \in Int
      BY <3>1
    <3> HIDE DEF u, v
    <3>4. (u - p) + (v - q) = (a + b) * c - (p + q)
      BY <3>3
    <3> QED  BY <3>4 DEF u, v
  <2> DEFINE a == F(t)
             p == G(t)
             b == f[x]
             q == g[x]
  <2>6. a \in Int /\ p \in Int /\ b \in Int /\ q \in Int /\ H(t) + h[x] = (a * c - p) + (b * c - q)
    BY <2>3, <2>4
  <2> HIDE DEF a, p, b, q
  <2>7. H(t) + h[x] = (a + b) * c - (p + q)
    BY <2>5, <2>6
  <2>8. H(t \cup {x}) = F(t \cup {x}) * c - G(t \cup {x})
    BY <2>2, <2>7, Zenon DEF a, b, p, q
  <2> QED  BY <2>8
<1>3. S \in P
  <2> HIDE DEF P
  <2> QED  BY <1>1, <1>2, FiniteSetInduction
<1> QED  BY <1>3
=============================================================================
